--------------------------- MODULE StreamPlumbing ---------------------------
(***************************************************************************)
(* What the two websocket endpoints of app/api share (logs.py, imported by *)
(* exec_ws.py): a handler coroutine, a reader thread that blocks on the    *)
(* API server's channel and posts what it reads to an asyncio.Queue, a     *)
(* watcher task that posts the viewer's frames and its disconnect to the   *)
(* same queue, credits that hold the reader back, and a StreamTerminator   *)
(* that lets one terminal frame out.                                       *)
(*                                                                         *)
(* The handler may be cancelled at any await once the viewer has gone.  A  *)
(* worker thread it was waiting for goes on, an orphan whose result nobody *)
(* takes.  LogStream and ExecSession add the two handlers.                 *)
(***************************************************************************)
EXTENDS Naturals, Sequences, FiniteSets, SequencesExt

CONSTANTS
  Kinds,        \* which endpoints to consider: a subset of {"logs", "exec"}
  Pods,         \* the pods the name may stand for: their containers
  Asked,        \* ?container=, or NULL
  Credits,      \* _STREAM_CREDITS, _OUTPUT_CREDITS
  MaxLines,     \* bound: how much the container writes
  NULL

ASSUME CreditsAssumption == Credits \in Nat \ {0} /\ MaxLines \in Nat
ASSUME KindsAssumption == Kinds \subseteq {"logs", "exec"}
ASSUME PodsAssumption == \A p \in Pods : IsFiniteSet(p.regular)
ASSUME NobodyAssumption == NULL \notin {"open", "opened", "denied", "failed", "write"}

VARIABLES
  kind,         \* the endpoint
  asked,        \* the container the viewer named
  pod,          \* the pod on the cluster: its regular and its ephemeral containers
  resolved,     \* what resolve_container answered; NULL is the API server's default
  target,       \* the container the channel is attached to
  pc,           \* where the handler is
  orphan,       \* what a cancelled handler's worker thread is still doing
  viewer,       \* "here" or "gone"
  stop,         \* the threading.Event
  terminated,   \* StreamTerminator.sent
  wire,         \* the frames that reached the viewer
  channel,      \* the connection to the API server
  reader,       \* where the reader thread is
  read,         \* how many lines it has read
  partial,      \* the last of them has no newline yet
  offered,      \* how many it has posted
  ended,        \* history: the container's output came to its end
  queue,        \* the asyncio.Queue
  credit,       \* the semaphore
  watcher       \* the receive task

source  == <<reader, read, partial, offered, ended>>
request == <<kind, asked, resolved, target>>
plumbing == <<request, pod, pc, orphan, viewer, stop, terminated, wire, channel, source,
              queue, credit, watcher>>

Item(what, payload) == [what |-> what, payload |-> payload]
Log(n)     == [type |-> "log", line |-> n]
End(code)  == [type |-> "end", code |-> code]

\* ws_reason: the token a viewer is given for each error code.  None of the codes
\* the console raises by itself is reported as a fault of the network.
WsReason(code) ==
  CASE code = "rbac_denied" -> "forbidden"
    [] code = "cluster_unreachable" -> "unreachable"
    [] code \in {"not_found", "invalid", "conflict", "unsupported", "no_cluster_selected",
                 "mutations_disabled", "impersonation_unavailable", "timeout",
                 "internal_error"} -> code
    [] OTHER -> "upstream_error"

ErrorFrame(code) == [type |-> "error", reason |-> WsReason(code)]

PlumbingInit ==
  /\ kind \in Kinds
  /\ asked \in Asked
  /\ pod \in Pods
  /\ resolved = NULL
  /\ target = NULL
  /\ pc = "accepted"
  /\ orphan = NULL
  /\ viewer = "here"
  /\ stop = FALSE
  /\ terminated = FALSE
  /\ wire = <<>>
  /\ channel = "none"
  /\ reader = "none"
  /\ read = 0
  /\ partial = FALSE
  /\ offered = 0
  /\ ended = FALSE
  /\ queue = <<>>
  /\ credit = Credits
  /\ watcher = "none"

-----------------------------------------------------------------------------
\* Fault: nothing remembers that a terminal frame is out.
TerminateAgain(frame) ==
  /\ UNCHANGED terminated
  /\ wire' = IF viewer = "here" THEN Append(wire, frame) ELSE wire

\* StreamTerminator.send: only the first terminal frame is tried.  It is lost if
\* the viewer has gone.
Terminate(frame) ==
  /\ terminated' = TRUE
  /\ wire' = IF ~terminated /\ viewer = "here" THEN Append(wire, frame) ELSE wire

\* An exception in the handler: its error frame, then the finally clause.
Fails(code) ==
  /\ Terminate(ErrorFrame(code))
  /\ pc' = "cleanup"

-----------------------------------------------------------------------------
(* resolve_container *)

Known(p) == p.regular \union p.ephemeral

\* Without a name there must be exactly one regular container.  Debug containers do
\* not count, the API server does not count them either.
Unambiguous(p) == Cardinality(p.regular) = 1

\* Fault: the one container there is gets pinned by its name.
ResolvePinned(next) ==
  /\ pc = "resolve"
  /\ IF asked # NULL THEN asked \in Known(pod) /\ resolved' = asked
     ELSE Unambiguous(pod) /\ resolved' \in pod.regular
  /\ pc' = next

\* The answer is the name that was asked for, never another.
Resolve(next) ==
  /\ pc = "resolve"
  /\ \/ asked # NULL /\ asked \in Known(pod)
     \/ asked = NULL /\ Unambiguous(pod)
  /\ resolved' = asked
  /\ pc' = next

ResolveInvalid ==
  /\ pc = "resolve"
  /\ IF asked # NULL THEN asked \notin Known(pod) ELSE ~Unambiguous(pod)
  /\ Fails("invalid")
  /\ UNCHANGED resolved

\* The pod cannot be read: a named container is left to the API server to judge.
ResolveUnread(next) ==
  /\ pc = "resolve"
  /\ IF asked # NULL
     THEN resolved' = asked /\ pc' = next /\ UNCHANGED <<terminated, wire>>
     ELSE Fails("rbac_denied") /\ UNCHANGED resolved

\* External: which container the API server attaches a request to, if any.
Attached(name, p) ==
  IF name # NULL THEN {name} \intersect Known(p)
  ELSE IF Cardinality(p.regular) = 1 THEN p.regular ELSE {}

-----------------------------------------------------------------------------
(* The reader thread *)

\* External: the container writes.  A chunk need not end with a line.
Chunk(mayBePartial) ==
  /\ reader = "read"
  /\ channel = "open"
  /\ ~partial \/ read < MaxLines
  /\ read' \in (read + (IF partial THEN 0 ELSE 1))..MaxLines
  /\ partial' \in IF mayBePartial THEN BOOLEAN ELSE {FALSE}
  /\ reader' = IF stop THEN "done" ELSE "lines"
  /\ UNCHANGED <<offered, ended, queue, credit>>

\* The lines that can be posted: a fragment only after the end of the output.
Ready == IF partial /\ ~ended THEN read - 1 ELSE read

\* acquire_credit, then the line is posted.  The credit may come just as the stream
\* is being torn down.
Offer ==
  /\ reader = "lines"
  /\ offered < Ready
  /\ credit > 0
  /\ credit' = credit - 1
  /\ offered' = offered + 1
  /\ queue' = Append(queue, Item("line", offered + 1))
  /\ UNCHANGED <<reader, read, partial, ended>>

\* Fault: acquire_credit waits without looking at the event.
NeverGivesUp == FALSE /\ UNCHANGED <<source, queue, credit>>

\* acquire_credit returns False.
GiveUp ==
  /\ reader = "lines"
  /\ offered < Ready
  /\ stop
  /\ reader' = "done"
  /\ UNCHANGED <<read, partial, offered, ended, queue, credit>>

NextChunk ==
  /\ reader = "lines"
  /\ offered = Ready
  /\ ~ended
  /\ reader' = "read"
  /\ UNCHANGED <<read, partial, offered, ended, queue, credit>>

\* Fault: a last line without a newline is forgotten.
DropFragment ==
  /\ reader = "read"
  /\ channel = "open"
  /\ ended' = TRUE
  /\ reader' = "end"
  /\ UNCHANGED <<read, partial, offered, queue, credit>>

\* The channel's output is over: a fragment is still a line.
EndOfOutput ==
  /\ reader = "read"
  /\ channel = "open"
  /\ ended' = TRUE
  /\ reader' = IF partial /\ ~stop THEN "lines" ELSE "end"
  /\ UNCHANGED <<read, partial, offered, queue, credit>>

FragmentOffered ==
  /\ reader = "lines"
  /\ ended
  /\ offered = Ready
  /\ reader' = "end"
  /\ UNCHANGED <<read, partial, offered, ended, queue, credit>>

\* The end is posted, unless it is our own doing.
OfferEnd ==
  /\ reader = "end"
  /\ reader' = "done"
  /\ queue' = IF stop THEN queue ELSE Append(queue, Item("end", NULL))
  /\ UNCHANGED <<read, partial, offered, ended, credit>>

\* The read raises.  After stop that is our own close().
ReadFails ==
  /\ reader = "read"
  /\ channel = "open"
  /\ reader' = "done"
  /\ queue' = IF stop THEN queue ELSE Append(queue, Item("error", NULL))
  /\ UNCHANGED <<read, partial, offered, ended, credit>>

\* The channel was closed under the blocked read.
ReadAborted ==
  /\ reader = "read"
  /\ channel = "closed"
  /\ reader' = "done"
  /\ UNCHANGED <<read, partial, offered, ended, queue, credit>>

ReaderStep == Offer \/ GiveUp \/ NextChunk \/ FragmentOffered \/ OfferEnd \/ ReadAborted

-----------------------------------------------------------------------------
(* The watcher task and the viewer *)

ViewerLeaves ==
  /\ viewer = "here"
  /\ viewer' = "gone"
  /\ UNCHANGED <<request, pod, pc, orphan, stop, terminated, wire, channel, source, queue,
                 credit, watcher>>

\* The close arrives on the receive side.
NoticeDisconnect ==
  /\ watcher = "watching"
  /\ viewer = "gone"
  /\ watcher' = "done"
  /\ queue' = Append(queue, Item("disconnect", NULL))
  /\ UNCHANGED <<request, pod, pc, orphan, viewer, stop, terminated, wire, channel, source,
                 credit>>

\* The pod of this name is replaced by another, of any shape.
PodReplaced ==
  /\ channel = "none"
  /\ pc # "done"
  /\ pod' \in Pods \ {pod}
  /\ UNCHANGED <<request, pc, orphan, viewer, stop, terminated, wire, channel, source, queue,
                 credit, watcher>>

-----------------------------------------------------------------------------
(* The relay loop of the handler *)

StartRelay ==
  /\ pc' = "relay"
  /\ reader' = "read"
  /\ watcher' = "watching"

First(what) == pc = "relay" /\ queue # <<>> /\ Head(queue).what = what

\* The frame is on the wire before the credit goes back.  To a viewer that has gone
\* the send is either dropped by the server or raises.
RelayLine ==
  /\ First("line")
  /\ queue' = Tail(queue)
  /\ \/ /\ wire' = IF viewer = "here" THEN Append(wire, Log(Head(queue).payload)) ELSE wire
        /\ credit' = credit + 1
        /\ UNCHANGED <<pc, terminated>>
     \/ /\ viewer = "gone"
        /\ Fails("internal_error")
        /\ UNCHANGED credit
  /\ UNCHANGED <<request, pod, orphan, viewer, stop, channel, source, watcher>>

RelayError ==
  /\ First("error")
  /\ Fails("cluster_unreachable")
  /\ queue' = Tail(queue)
  /\ UNCHANGED <<request, pod, orphan, viewer, stop, channel, source, credit, watcher>>

\* The viewer has gone: the terminator is told there is nobody to tell.
RelayDisconnect ==
  /\ First("disconnect")
  /\ queue' = Tail(queue)
  /\ terminated' = TRUE
  /\ pc' = "cleanup"
  /\ UNCHANGED <<request, pod, orphan, viewer, stop, wire, channel, source, credit, watcher>>

-----------------------------------------------------------------------------
\* Every line posted and not yet relayed holds a credit, the queue holds nothing
\* behind a terminal item of the reader's, and the locals have their types.
PlumbingTypeOK ==
  /\ pc \in {"accepted", "gate", "identity", "refusal", "preflight", "resolve", "open", "record",
             "relay", "exit", "cleanup", "done"}
  /\ viewer \in {"here", "gone"}
  /\ channel \in {"none", "open", "closing", "closed", "dropped"}
  /\ reader \in {"none", "read", "lines", "end", "done"}
  /\ offered \in 0..read /\ read \in 0..MaxLines
  /\ credit + Cardinality({i \in DOMAIN queue : queue[i].what = "line"}) <= Credits
  /\ reader # "none" => watcher # "none"
=============================================================================
