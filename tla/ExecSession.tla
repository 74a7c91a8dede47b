---------------------------- MODULE ExecSession -----------------------------
(***************************************************************************)
(* WS /api/ws/pods/{ns}/{name}/exec: exec_in_pod and _run_session of       *)
(* app/api/exec_ws.py.  The refusals come in the order of the code, each   *)
(* with its audit row; an opened shell has a row when it opens and one     *)
(* when it closes.  record() may fail, and a row written by a worker       *)
(* thread is written even if the handler has been cancelled meanwhile.     *)
(***************************************************************************)
EXTENDS StreamPlumbing

CONSTANT MaxInput      \* bound: how many frames the viewer types

VARIABLES
  allowed,      \* ADMIN_ALLOW_MUTATIONS
  refusal,      \* the refusal whose row is being written
  sessionOpen,  \* session_open
  typed,        \* how many stdin frames the viewer has sent
  stdin,        \* what reached the container
  status,       \* what the API server reported on the error channel, or NULL
  rows,         \* the audit rows of this session, in the order they were written
  lost,         \* history: the rows record() failed to write
  ran           \* history: a channel was opened, so the command ran

shell == <<allowed, refusal, sessionOpen, typed, stdin, status, rows, lost, ran>>

ShellInit ==
  /\ allowed \in BOOLEAN
  /\ refusal = NULL
  /\ sessionOpen = FALSE
  /\ typed = 0
  /\ stdin = <<>>
  /\ status = NULL
  /\ rows = <<>>
  /\ lost = {}
  /\ ran = FALSE

\* _audit: one row, or a loud log line.
Audit(row) ==
  \/ rows' = Append(rows, row) /\ UNCHANGED lost
  \/ lost' = lost \union {row} /\ UNCHANGED rows

-----------------------------------------------------------------------------
ExecParams ==
  /\ kind = "exec"
  /\ pc = "accepted"
  /\ \/ pc' = "gate" /\ UNCHANGED <<terminated, wire>>
     \/ Fails("invalid")
  /\ UNCHANGED <<request, pod, orphan, viewer, stop, channel, source, queue, credit, watcher,
                 shell>>

\* A refusal is recorded by a worker thread before it is told.
Refuse(row, code) ==
  /\ pc' = "refusal"
  /\ refusal' = [row |-> row, code |-> code]

\* 1. The gate, before the cluster is touched.
ExecGate ==
  /\ kind = "exec"
  /\ pc = "gate"
  /\ IF allowed
     THEN pc' = "identity" /\ UNCHANGED refusal
     ELSE Refuse("denied", "mutations_disabled")
  /\ UNCHANGED <<request, pod, orphan, viewer, stop, terminated, wire, channel, source, queue,
                 credit, watcher, allowed, sessionOpen, typed, stdin, status, rows, lost, ran>>

\* 1.5 A cluster that impersonates gets a refusal.  get_clients may refuse by
\* itself, and that one is not recorded.
ExecIdentity ==
  /\ kind = "exec"
  /\ pc = "identity"
  /\ \/ /\ pc' = "preflight" /\ UNCHANGED <<terminated, wire, refusal>>
     \/ /\ Refuse("denied", "impersonation_unavailable") /\ UNCHANGED <<terminated, wire>>
     \/ /\ Fails("no_cluster_selected") /\ UNCHANGED refusal
  /\ UNCHANGED <<request, pod, orphan, viewer, stop, channel, source, queue, credit, watcher,
                 allowed, sessionOpen, typed, stdin, status, rows, lost, ran>>

\* 2. The review of create pods/exec: a denial, or no answer.
ExecPreflight ==
  /\ kind = "exec"
  /\ pc = "preflight"
  /\ \/ pc' = "resolve" /\ UNCHANGED refusal
     \/ Refuse("denied", "rbac_denied")
     \/ Refuse("failed", "upstream_error")
  /\ UNCHANGED <<request, pod, orphan, viewer, stop, terminated, wire, channel, source, queue,
                 credit, watcher, allowed, sessionOpen, typed, stdin, status, rows, lost, ran>>

ExecRefused ==
  /\ kind = "exec"
  /\ pc = "refusal"
  /\ Audit(refusal.row)
  /\ Fails(refusal.code)
  /\ UNCHANGED <<request, pod, orphan, viewer, stop, channel, source, queue, credit, watcher,
                 allowed, refusal, sessionOpen, typed, stdin, status, ran>>

ExecResolve ==
  /\ kind = "exec"
  /\ \/ Resolve("open") /\ UNCHANGED <<terminated, wire>>
     \/ ResolveInvalid
     \/ ResolveUnread("open")
  /\ UNCHANGED <<kind, asked, target, pod, orphan, viewer, stop, channel, source, queue, credit,
                 watcher, shell>>

\* _open_exec; session_open is set before anything else is awaited.
ExecOpen ==
  /\ kind = "exec"
  /\ pc = "open"
  /\ \E c \in Attached(resolved, pod) : target' = c
  /\ channel' = "open"
  /\ ran' = TRUE
  /\ sessionOpen' = TRUE
  /\ pc' = "record"
  /\ UNCHANGED <<kind, asked, resolved, pod, orphan, viewer, stop, terminated, wire, source,
                 queue, credit, watcher, allowed, refusal, typed, stdin, status, rows, lost>>

\* The upgrade is refused: recorded as failed.  Any AdminError on the way there is
\* told, and not recorded.
ExecOpenFails ==
  /\ kind = "exec"
  /\ pc = "open"
  /\ \/ Refuse("failed", "not_found") /\ UNCHANGED <<terminated, wire>>
     \/ Fails("cluster_unreachable") /\ UNCHANGED refusal
  /\ UNCHANGED <<request, pod, orphan, viewer, stop, channel, source, queue, credit, watcher,
                 allowed, sessionOpen, typed, stdin, status, rows, lost, ran>>

\* 3. The opening row, awaited before the session is pumped.
ExecRecord ==
  /\ kind = "exec"
  /\ pc = "record"
  /\ Audit("opened")
  /\ StartRelay
  /\ UNCHANGED <<request, pod, orphan, viewer, stop, terminated, wire, channel, read, partial,
                 offered, ended, queue, credit, allowed, refusal, sessionOpen, typed, stdin,
                 status, ran>>

-----------------------------------------------------------------------------
(* _pump_output *)

\* The API server's report comes with the end, or not at all.
ExecEnds ==
  /\ EndOfOutput
  /\ status' \in {NULL, "zero", "nonzero"}

\* Between two polls of a second the thread looks at the event.
ExecPolls ==
  /\ reader = "read"
  /\ stop
  /\ reader' = "done"
  /\ UNCHANGED <<read, partial, offered, ended, queue, credit>>

ExecRead ==
  /\ kind = "exec"
  /\ \/ ExecEnds
     \/ (Chunk(FALSE) \/ ReadFails \/ ReaderStep \/ ExecPolls) /\ UNCHANGED status
  /\ UNCHANGED <<request, pod, pc, orphan, viewer, stop, terminated, wire, channel, watcher,
                 allowed, refusal, sessionOpen, typed, stdin, rows, lost, ran>>

-----------------------------------------------------------------------------
(* _watch_client and _run_session *)

\* The viewer types.
ExecType ==
  /\ kind = "exec"
  /\ watcher = "watching"
  /\ viewer = "here"
  /\ typed < MaxInput
  /\ typed' = typed + 1
  /\ queue' = Append(queue, Item("client", typed + 1))
  /\ UNCHANGED <<request, pod, pc, orphan, viewer, stop, terminated, wire, channel, source,
                 credit, watcher, allowed, refusal, sessionOpen, stdin, status, rows, lost, ran>>

\* One coroutine applies what comes from the queue, in order, and waits for the thread
\* that writes it to the channel.  A frame may be malformed, a resize or of an unknown
\* type: dropped, with a log line.
ExecInput ==
  /\ kind = "exec"
  /\ First("client")
  /\ queue' = Tail(queue)
  /\ \/ stdin' = Append(stdin, Head(queue).payload) /\ UNCHANGED <<pc, terminated, wire>>
     \/ UNCHANGED <<stdin, pc, terminated, wire>>
     \/ Fails("internal_error") /\ UNCHANGED stdin
  /\ UNCHANGED <<request, pod, orphan, viewer, stop, channel, source, credit, watcher, allowed,
                 refusal, sessionOpen, typed, status, rows, lost, ran>>

ExecRelay ==
  /\ kind = "exec"
  /\ RelayLine \/ RelayError \/ RelayDisconnect
  /\ UNCHANGED shell

ExecRelayEnd ==
  /\ kind = "exec"
  /\ First("end")
  /\ queue' = Tail(queue)
  /\ pc' = "exit"
  /\ UNCHANGED <<request, pod, orphan, viewer, stop, terminated, wire, channel, source, credit,
                 watcher, shell>>

\* _exit_status, by another await.  Unknown stays unknown.
ExitStatus == status

ExecExit ==
  /\ kind = "exec"
  /\ pc = "exit"
  /\ Terminate(End(ExitStatus))
  /\ pc' = "cleanup"
  /\ UNCHANGED <<request, pod, orphan, viewer, stop, channel, source, queue, credit, watcher,
                 shell>>

-----------------------------------------------------------------------------
(* Cancellation, orphans and the finally clause *)

ExecCancelled ==
  /\ kind = "exec"
  /\ viewer = "gone"
  /\ pc \in {"identity", "refusal", "preflight", "resolve", "open", "record", "relay", "exit"}
  /\ pc' = "cleanup"
  /\ orphan' \in CASE pc = "open"     -> {"open"}
                   [] pc = "record"   -> {"opened"}
                   [] pc = "refusal"  -> {refusal.row}
                   [] First("client") -> {NULL, "write"}
                   [] OTHER -> {NULL}
  /\ UNCHANGED <<request, pod, viewer, stop, terminated, wire, channel, source, queue, credit,
                 watcher, shell>>

\* The worker thread opens the channel for nobody.  The command has run.
ExecOrphanOpens ==
  /\ kind = "exec"
  /\ orphan = "open"
  /\ orphan' = NULL
  /\ \/ channel' = "dropped" /\ ran' = TRUE
     \/ UNCHANGED <<channel, ran>>
  /\ UNCHANGED <<request, pod, pc, viewer, stop, terminated, wire, source, queue, credit, watcher,
                 allowed, refusal, sessionOpen, typed, stdin, status, rows, lost>>

\* It goes on writing what was typed, until the channel is closed under it.
ExecOrphanWrites ==
  /\ kind = "exec"
  /\ orphan = "write"
  /\ orphan' = NULL
  /\ \/ channel # "closed" /\ stdin' = Append(stdin, Head(queue).payload)
     \/ UNCHANGED stdin
  /\ UNCHANGED <<request, pod, pc, viewer, stop, terminated, wire, channel, source, queue, credit,
                 watcher, allowed, refusal, sessionOpen, typed, status, rows, lost, ran>>

ExecOrphanRecords ==
  /\ kind = "exec"
  /\ orphan \notin {NULL, "open", "write"}
  /\ Audit(orphan)
  /\ orphan' = NULL
  /\ UNCHANGED <<request, pod, pc, viewer, stop, terminated, wire, channel, source, queue, credit,
                 watcher, allowed, refusal, sessionOpen, typed, stdin, status, ran>>

\* Fault: the closing row is awaited, and a cancelled handler never writes it.
ExecCleanupAwaits ==
  /\ kind = "exec"
  /\ pc = "cleanup"
  /\ stop' = TRUE
  /\ watcher' = IF watcher = "none" THEN "none" ELSE "done"
  /\ channel' = IF channel = "open" THEN "closing" ELSE channel
  /\ IF sessionOpen /\ viewer = "here" THEN Audit("closed") ELSE UNCHANGED <<rows, lost>>
  /\ Terminate(End(NULL))
  /\ pc' = "done"
  /\ UNCHANGED <<request, pod, orphan, viewer, source, queue, credit, allowed, refusal,
                 sessionOpen, typed, stdin, status, ran>>

\* stop, the channel closed by a thread of its own, the closing row inline, then the
\* default end frame.
ExecCleanup ==
  /\ kind = "exec"
  /\ pc = "cleanup"
  /\ stop' = TRUE
  /\ watcher' = IF watcher = "none" THEN "none" ELSE "done"
  /\ channel' = IF channel = "open" THEN "closing" ELSE channel
  /\ IF sessionOpen THEN Audit("closed") ELSE UNCHANGED <<rows, lost>>
  /\ Terminate(End(NULL))
  /\ pc' = "done"
  /\ UNCHANGED <<request, pod, orphan, viewer, source, queue, credit, allowed, refusal,
                 sessionOpen, typed, stdin, status, ran>>

ChannelCloses ==
  /\ kind = "exec"
  /\ channel = "closing"
  /\ channel' = "closed"
  /\ UNCHANGED <<request, pod, pc, orphan, viewer, stop, terminated, wire, source, queue, credit,
                 watcher, shell>>

ExecHandler ==
  ExecParams \/ ExecGate \/ ExecIdentity \/ ExecPreflight \/ ExecRefused \/ ExecResolve
  \/ ExecOpen \/ ExecOpenFails \/ ExecRecord \/ ExecInput \/ ExecRelay \/ ExecRelayEnd
  \/ ExecExit \/ ExecCleanup

ExecNext ==
  ExecHandler \/ ExecRead \/ ExecType \/ ExecCancelled \/ ExecOrphanOpens \/ ExecOrphanWrites
  \/ ExecOrphanRecords \/ ChannelCloses
=============================================================================
