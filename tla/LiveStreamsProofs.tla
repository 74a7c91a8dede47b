------------------------- MODULE LiveStreamsProofs --------------------------
(***************************************************************************)
(* Proofs about LiveStreams, for any pods, any credits and any amount of   *)
(* output and input.  Three invariants, each inductive by itself:          *)
(*                                                                         *)
(*   StoryIInv   the frames that were sent, the queue and the reader       *)
(*               thread hold the container's output in one order, and one  *)
(*               terminal frame comes last;                                *)
(*   TargetIInv  what was resolved is what was asked for;                  *)
(*   ShellIInv   where the handler, or the worker thread it left behind,   *)
(*               is, and which audit rows are written by then.             *)
(***************************************************************************)
EXTENDS LiveStreams, FiniteSetTheorems, TLAPS

Early == {"accepted", "gate", "identity", "refusal", "preflight", "resolve", "open", "record"}
Statuses == {NULL, "zero", "nonzero"}
Codes == {"invalid", "rbac_denied", "upstream_error", "not_found", "cluster_unreachable",
          "internal_error", "no_cluster_selected", "mutations_disabled",
          "impersonation_unavailable"}
Frames == [type : {"log"}, line : Nat] \union [type : {"end"}, code : Statuses]
            \union {ErrorFrame(code) : code \in Codes}
Items == [what : {"line", "client"}, payload : Nat]
           \union [what : {"end", "error", "disconnect"}, payload : {NULL}]

StoryTypes ==
  /\ kind \in {"logs", "exec"}
  /\ pc \in Early \union {"relay", "exit", "cleanup", "done"}
  /\ viewer \in {"here", "gone"}
  /\ stop \in BOOLEAN /\ terminated \in BOOLEAN /\ partial \in BOOLEAN /\ ended \in BOOLEAN
  /\ wire \in Seq(Frames) /\ queue \in Seq(Items)
  /\ reader \in {"none", "read", "lines", "end", "done"}
  /\ read \in Nat /\ offered \in Nat /\ typed \in Nat
  /\ status \in Statuses
  /\ kind = "logs" => status = NULL
  /\ pc = "refusal" => refusal.code \in Codes

\* Until the relay starts there is no output and nothing is queued.
NothingYet ==
  pc \in Early =>
    /\ wire = <<>> /\ queue = <<>> /\ read = 0 /\ offered = 0
    /\ ~partial /\ ~ended /\ ~stop /\ reader = "none"

\* The terminator was used exactly by the time the handler cleans up: with a viewer that
\* is here the terminal frame is on the wire then.
TerminatedLast ==
  /\ terminated => pc \in {"cleanup", "done"}
  /\ pc = "done" => terminated
  /\ pc = "cleanup" /\ viewer = "here" => terminated
  /\ terminated /\ viewer = "here" => wire # <<>> /\ IsTerminal(wire[Len(wire)])

\* The wire is the lines from the first on, and then a terminal frame or none.
WireIsInOrder ==
  \A i \in DOMAIN wire :
    wire[i] = Log(i) \/ (i = Len(wire) /\ terminated /\ IsTerminal(wire[i]))

\* A fragment is not posted before the output is over, and all else is by the time of
\* the next read.
ReaderIsInOrder ==
  /\ reader = "read" => ~ended /\ offered = Ready
  /\ reader = "end" => ended /\ (offered = read \/ stop)

\* What is posted and not yet on the wire is in the queue, in order; the end of the output
\* is behind all of it, and a disconnect was one.
QueueIsInOrder ==
  /\ \A i \in DOMAIN queue : queue[i].what = "disconnect" => viewer = "gone"
  /\ pc = "relay" /\ viewer = "here" =>
       /\ Len(wire) <= offered
       /\ \A i \in DOMAIN queue :
            queue[i].what = "line" => queue[i].payload \in (Len(wire) + 1)..offered
       /\ \A i, j \in DOMAIN queue :
            i < j /\ queue[i].what = "line" /\ queue[j].what = "line" =>
              queue[i].payload < queue[j].payload
       /\ \A n \in (Len(wire) + 1)..offered :
            \E i \in DOMAIN queue : queue[i] = Item("line", n)
       /\ \A i \in DOMAIN queue :
            queue[i].what = "end" =>
              /\ ended /\ offered = read /\ reader = "done"
              /\ \A j \in DOMAIN queue : i < j => queue[j].what # "line"

\* When the end is taken from the queue every line is on the wire.
ExitIsTheEnd ==
  pc = "exit" /\ viewer = "here" => ended /\ Len(wire) = read /\ reader = "done"

EndIsTold ==
  \A i \in DOMAIN wire :
    wire[i].type = "end" =>
      reader = "done" /\ ended /\ i = read + 1 /\ wire[i].code = status

StoryIInv ==
  /\ StoryTypes /\ NothingYet /\ TerminatedLast /\ WireIsInOrder /\ ReaderIsInOrder
  /\ QueueIsInOrder /\ ExitIsTheEnd /\ EndIsTold

-----------------------------------------------------------------------------
(* The kinds of step the handler, the threads and the viewer take, as far as the      *)
(* story is concerned.                                                                *)

Says(frame) == IF ~terminated /\ viewer = "here" THEN Append(wire, frame) ELSE wire

\* The handler ends with an error.
Errs ==
  /\ pc' = "cleanup" /\ terminated' = TRUE
  /\ \E f \in Frames : f.type = "error" /\ wire' = Says(f)

Prepares ==
  /\ pc \in Early
  /\ \/ pc' \in Early /\ UNCHANGED <<terminated, wire>>
     \/ Errs
  /\ pc' = "refusal" => refusal'.code \in Codes
  /\ UNCHANGED <<kind, viewer, stop, source, queue, typed, status>>

Starts ==
  /\ pc \in Early /\ StartRelay
  /\ UNCHANGED <<kind, viewer, stop, terminated, wire, read, partial, offered, ended, queue, typed,
                 status>>

Reads ==
  /\ \/ EndOfOutput /\ status' \in Statuses /\ (kind = "logs" => status' = status)
     \/ /\ \/ \E mayBePartial \in BOOLEAN : Chunk(mayBePartial)
           \/ ReadFails \/ ReaderStep \/ ExecPolls
        /\ UNCHANGED status
  /\ UNCHANGED <<kind, pc, viewer, stop, terminated, wire, typed>>

\* An item is taken from the queue.
Takes ==
  /\ pc = "relay" /\ queue # <<>> /\ queue' = Tail(queue)
  /\ \/ /\ Head(queue).what = "line"
        /\ wire' = IF viewer = "here" THEN Append(wire, Log(Head(queue).payload)) ELSE wire
        /\ UNCHANGED <<pc, terminated>>
     \/ Head(queue).what = "client" /\ UNCHANGED <<pc, terminated, wire>>
     \/ Head(queue).what = "disconnect" /\ pc' = "cleanup" /\ terminated' = TRUE /\ UNCHANGED wire
     \/ Head(queue).what # "disconnect" /\ Errs
  /\ UNCHANGED <<kind, viewer, stop, source, typed, status>>

TakesTheEnd ==
  /\ pc = "relay" /\ queue # <<>> /\ queue' = Tail(queue) /\ Head(queue).what = "end"
  /\ \/ pc' = "exit" /\ UNCHANGED <<terminated, wire>>
     \/ /\ kind = "logs"
        /\ pc' = "cleanup" /\ terminated' = TRUE /\ wire' = Says(End(NULL))
  /\ UNCHANGED <<kind, viewer, stop, source, typed, status>>

Exits ==
  /\ pc = "exit"
  /\ pc' = "cleanup" /\ terminated' = TRUE /\ wire' = Says(End(status))
  /\ UNCHANGED <<kind, viewer, stop, source, queue, typed, status>>

CleansUp ==
  /\ \/ /\ pc = "cleanup" /\ pc' = "done" /\ stop' = TRUE
        /\ terminated' = TRUE /\ wire' = Says(End(NULL))
     \/ /\ viewer = "gone" /\ pc # "done" /\ pc' = "cleanup"
        /\ UNCHANGED <<stop, terminated, wire>>
  /\ UNCHANGED <<kind, viewer, source, queue, typed, status>>

\* Nothing of the story, or only the viewer's part.
Others ==
  /\ \/ UNCHANGED <<viewer, queue, typed>>
     \/ viewer = "here" /\ viewer' = "gone" /\ UNCHANGED <<queue, typed>>
     \/ /\ viewer = "gone" /\ UNCHANGED <<viewer, typed>> /\ pc \notin Early
        /\ queue' = Append(queue, Item("disconnect", NULL))
     \/ /\ UNCHANGED viewer /\ typed' = typed + 1 /\ pc \notin Early
        /\ queue' = Append(queue, Item("client", typed + 1))
  /\ UNCHANGED <<kind, pc, stop, terminated, wire, source, status, refusal>>

\* The watcher exists since the relay started.
WatcherIsLate == pc \in Early => watcher = "none"

LEMMA ErrorsAreFrames ==
  \A code \in Codes : ErrorFrame(code) \in Frames /\ ErrorFrame(code).type = "error"
BY DEF ErrorFrame, Frames

\* Every step of a websocket is one of these kinds.
LEMMA Kindred ==
  ASSUME Next, StoryTypes, WatcherIsLate
  PROVE  \/ Prepares \/ Starts \/ Reads \/ Takes \/ TakesTheEnd \/ Exits \/ CleansUp \/ Others
<1>1. ASSUME UNCHANGED shell, LogParams \/ LogPreflight \/ LogResolve \/ LogOpenFails PROVE Prepares
  BY <1>1, ErrorsAreFrames
     DEF Fails, Terminate, Errs, Says, Codes, LogParams, LogPreflight, LogResolve, LogOpenFails, Resolve, ResolveInvalid, ResolveUnread,
         Prepares, Early, source, shell, request
<1>2. ASSUME UNCHANGED shell, LogOpen PROVE Starts
  BY <1>2 DEF LogOpen, Starts, Early, shell, source, request
<1>3. ASSUME UNCHANGED shell, LogRead PROVE Reads
  BY <1>3 DEF LogRead, Reads, StoryTypes, Statuses, shell, request
<1>4. ASSUME UNCHANGED shell, LogRelay PROVE Takes
  BY <1>4, ErrorsAreFrames
     DEF Fails, Terminate, Errs, Says, Codes, LogRelay, RelayLine, RelayError, RelayDisconnect, First, Takes, shell, source, request
<1>5. ASSUME UNCHANGED shell, LogRelayEnd PROVE TakesTheEnd
  BY <1>5 DEF LogRelayEnd, First, Terminate, TakesTheEnd, Says, shell, source, request
<1>6. ASSUME UNCHANGED shell, LogCancelled \/ LogCleanup PROVE CleansUp
  BY <1>6 DEF LogCancelled, LogCleanup, Terminate, CleansUp, Says, shell, source, request
<1>7. ASSUME UNCHANGED shell, LogOrphanOpens \/ ViewerLeaves \/ NoticeDisconnect \/ PodReplaced
      PROVE  Others
  BY <1>7 DEF LogOrphanOpens, ViewerLeaves, NoticeDisconnect, PodReplaced, WatcherIsLate, Others, shell, source, request
<1>8. ASSUME \/ ExecParams \/ ExecGate \/ ExecIdentity \/ ExecPreflight \/ ExecRefused
             \/ ExecResolve \/ ExecOpen \/ ExecOpenFails
      PROVE  Prepares
  <2>1. CASE ExecRefused
    <3>1. refusal.code \in Codes
      BY <2>1 DEF ExecRefused, StoryTypes
    <3>2. Errs
      BY <2>1, <3>1, ErrorsAreFrames DEF ExecRefused, Fails, Terminate, Errs, Says
    <3> QED
      BY <2>1, <3>2 DEF ExecRefused, Errs, Prepares, Early, source, request
  <2>2. CASE ExecParams \/ ExecGate
    BY <2>2, ErrorsAreFrames
       DEF ExecParams, ExecGate, Refuse, Fails, Terminate, Errs, Says, Codes, Prepares, Early,
           source, shell, request
  <2>3. CASE ExecIdentity \/ ExecPreflight
    BY <2>3, ErrorsAreFrames
       DEF ExecIdentity, ExecPreflight, Refuse, Fails, Terminate, Errs, Says, Codes, Prepares,
           Early, source, shell, request
  <2>4. CASE ExecResolve
    BY <2>4, ErrorsAreFrames
       DEF ExecResolve, Resolve, ResolveInvalid, ResolveUnread, Fails, Terminate, Errs, Says,
           Codes, Prepares, Early, source, shell, request
  <2>5. CASE ExecOpen \/ ExecOpenFails
    BY <2>5, ErrorsAreFrames
       DEF ExecOpen, ExecOpenFails, Refuse, Fails, Terminate, Errs, Says, Codes, Prepares, Early,
           source, shell, request
  <2> QED
    BY <1>8, <2>1, <2>2, <2>3, <2>4, <2>5
<1>9. ASSUME ExecRecord PROVE Starts
  BY <1>9 DEF ExecRecord, Starts, Early, request
<1>10. ASSUME ExecRead PROVE Reads
  BY <1>10 DEF ExecRead, ExecEnds, Reads, Statuses, StoryTypes, request
<1>11. ASSUME ExecInput \/ ExecRelay PROVE Takes
  BY <1>11, ErrorsAreFrames
     DEF Fails, Terminate, Errs, Says, Codes, ExecInput, ExecRelay, RelayLine, RelayError, RelayDisconnect, First, Takes, shell, source, request
<1>12. ASSUME ExecRelayEnd PROVE TakesTheEnd
  BY <1>12 DEF ExecRelayEnd, First, TakesTheEnd, shell, source, request
<1>13. ASSUME ExecExit PROVE Exits
  BY <1>13 DEF ExecExit, ExitStatus, Terminate, Exits, Says, shell, source, request
<1>14. ASSUME ExecCancelled \/ ExecCleanup PROVE CleansUp
  BY <1>14 DEF ExecCancelled, ExecCleanup, Terminate, CleansUp, Says, shell, source, request
<1>15. ASSUME \/ ExecType \/ ExecOrphanOpens \/ ExecOrphanWrites \/ ExecOrphanRecords
              \/ ChannelCloses
       PROVE  Others
  BY <1>15 DEF ExecType, ExecOrphanOpens, ExecOrphanWrites, ExecOrphanRecords, ChannelCloses, WatcherIsLate, Others,
     shell, source, request
<1> QED
  BY <1>1, <1>2, <1>3, <1>4, <1>5, <1>6, <1>7, <1>8, <1>9, <1>10, <1>11, <1>12, <1>13, <1>14, <1>15
     DEF Next, LogNext, LogHandler, ExecNext, ExecHandler

-----------------------------------------------------------------------------
\* A step that appends one terminal frame, or cannot because nobody hears it.
LEMMA SayingIsLast ==
  ASSUME StoryIInv, NEW f \in Frames, f.type \in {"end", "error"},
         ~terminated, wire' = Says(f), terminated' = TRUE
  PROVE  /\ wire' \in Seq(Frames)
         /\ WireIsInOrder'
         /\ viewer = "here" => wire' # <<>> /\ IsTerminal(wire'[Len(wire')])
         /\ \A i \in DOMAIN wire' :
              wire'[i].type = "end" => viewer = "here" /\ i = Len(wire) + 1 /\ wire'[i] = f
<1>1. wire \in Seq(Frames) /\ \A i \in DOMAIN wire : wire[i] = Log(i)
  BY DEF StoryIInv, StoryTypes, WireIsInOrder
<1>2. CASE viewer = "here"
  <2>1. wire' = Append(wire, f) /\ Len(wire') = Len(wire) + 1 /\ wire' \in Seq(Frames)
    BY <1>1, <1>2 DEF Says
  <2>2. wire'[Len(wire')] = f /\ \A i \in 1..Len(wire) : wire'[i] = wire[i]
    BY <1>1, <2>1
  <2>3. \A i \in DOMAIN wire' : i = Len(wire') \/ wire'[i] = Log(i)
    BY <1>1, <2>1, <2>2
  <2>4. WireIsInOrder'
    <3> SUFFICES ASSUME NEW i \in DOMAIN wire'
                 PROVE  wire'[i] = Log(i) \/ (i = Len(wire') /\ IsTerminal(wire'[i]))
      BY DEF WireIsInOrder
    <3> QED
      BY <2>2, <2>3 DEF IsTerminal
  <2>5. ASSUME NEW i \in DOMAIN wire', wire'[i].type = "end"
        PROVE  i = Len(wire) + 1 /\ wire'[i] = f
    <3>1. Log(i).type # "end"
      BY DEF Log
    <3>2. i = Len(wire')
      BY <2>3, <2>5, <3>1
    <3> QED
      BY <2>1, <2>2, <3>2
  <2>6. wire' # <<>> /\ IsTerminal(wire'[Len(wire')])
    BY <1>1, <2>1, <2>2 DEF IsTerminal
  <2> QED
    BY <1>2, <2>1, <2>4, <2>5, <2>6
<1>3. CASE viewer # "here"
  BY <1>1, <1>3 DEF Says, WireIsInOrder, Log
<1> QED
  BY <1>2, <1>3

LEMMA InitStory ==
  ASSUME Init
  PROVE  StoryIInv /\ WatcherIsLate
<1> USE DEF Init, PlumbingInit, ShellInit
<1>1. StoryTypes
  <2>1. kind \in {"logs", "exec"}
    BY KindsAssumption
  <2>2. wire \in Seq(Frames) /\ queue \in Seq(Items)
    OBVIOUS
  <2> QED
    BY <2>1, <2>2 DEF StoryTypes, Early, Statuses
<1>2. NothingYet /\ TerminatedLast /\ ReaderIsInOrder /\ ExitIsTheEnd /\ WatcherIsLate
  BY DEF NothingYet, TerminatedLast, ReaderIsInOrder, ExitIsTheEnd, WatcherIsLate, Early
<1>3. WireIsInOrder /\ QueueIsInOrder /\ EndIsTold
  BY DEF WireIsInOrder, QueueIsInOrder, EndIsTold
<1> QED
  BY <1>1, <1>2, <1>3 DEF StoryIInv

-----------------------------------------------------------------------------
(* Each kind of step keeps the story. *)

\* What is told once is told for good: the reader has ended, and the wire is complete.
LEMMA EndStays ==
  ASSUME StoryIInv, wire' = wire, terminated' = terminated, read' = read, ended' = ended,
         status' = status, reader = "done" => reader' = "done"
  PROVE  WireIsInOrder' /\ EndIsTold'
BY DEF StoryIInv, WireIsInOrder, EndIsTold

LEMMA PreparingKeepsTheStory ==
  ASSUME StoryIInv, Prepares
  PROVE  StoryIInv'
<1>1. /\ pc \in Early /\ ~terminated /\ wire = <<>> /\ queue = <<>> /\ read = 0 /\ offered = 0
      /\ ~partial /\ ~ended /\ ~stop /\ reader = "none"
  BY DEF Prepares, StoryIInv, StoryTypes, NothingYet, TerminatedLast, Early
<1>2. UNCHANGED <<kind, viewer, stop, reader, read, partial, offered, ended, queue, typed, status>>
  BY DEF Prepares, source
<1>3. ReaderIsInOrder'
  BY <1>1, <1>2 DEF ReaderIsInOrder
<1>4. CASE pc' \in Early /\ UNCHANGED <<terminated, wire>>
  <2>1. StoryTypes' /\ NothingYet'
    BY <1>1, <1>2, <1>4 DEF Prepares, StoryIInv, StoryTypes, NothingYet
  <2>2. TerminatedLast' /\ ExitIsTheEnd' /\ QueueIsInOrder'
    BY <1>1, <1>2, <1>4 DEF TerminatedLast, ExitIsTheEnd, QueueIsInOrder, Early
  <2>3. WireIsInOrder' /\ EndIsTold'
    BY <1>1, <1>4 DEF WireIsInOrder, EndIsTold
  <2> QED
    BY <1>3, <2>1, <2>2, <2>3 DEF StoryIInv
<1>5. CASE Errs
  <2>1. PICK f \in Frames : f.type = "error" /\ wire' = Says(f)
    BY <1>5 DEF Errs
  <2>2. pc' = "cleanup" /\ terminated' = TRUE
    BY <1>5 DEF Errs
  <2>3. /\ wire' \in Seq(Frames) /\ WireIsInOrder'
        /\ viewer = "here" => wire' # <<>> /\ IsTerminal(wire'[Len(wire')])
        /\ \A i \in DOMAIN wire' : wire'[i].type = "end" => wire'[i] = f
    BY <1>1, <2>1, <2>2, SayingIsLast
  <2>4. StoryTypes' /\ NothingYet'
    BY <1>2, <2>2, <2>3 DEF StoryIInv, StoryTypes, NothingYet, Early
  <2>5. TerminatedLast' /\ ExitIsTheEnd' /\ QueueIsInOrder' /\ EndIsTold'
    BY <1>1, <1>2, <2>1, <2>2, <2>3
       DEF TerminatedLast, ExitIsTheEnd, QueueIsInOrder, EndIsTold
  <2> QED
    BY <1>3, <2>3, <2>4, <2>5 DEF StoryIInv
<1> QED
  BY <1>4, <1>5 DEF Prepares

LEMMA StartingKeepsTheStory ==
  ASSUME StoryIInv, Starts
  PROVE  StoryIInv'
<1>1. /\ pc \in Early /\ ~terminated /\ wire = <<>> /\ queue = <<>> /\ read = 0 /\ offered = 0
      /\ ~partial /\ ~ended /\ ~stop
  BY DEF Starts, StoryIInv, StoryTypes, NothingYet, TerminatedLast, Early
<1>2. /\ UNCHANGED <<kind, viewer, stop, terminated, wire, read, partial, offered, ended, queue,
                     typed, status>>
      /\ pc' = "relay" /\ reader' = "read"
  BY DEF Starts, StartRelay
<1>3. StoryTypes' /\ NothingYet'
  BY <1>2 DEF StoryIInv, StoryTypes, NothingYet, Early
<1>4. TerminatedLast' /\ ExitIsTheEnd' /\ ReaderIsInOrder'
  BY <1>1, <1>2 DEF TerminatedLast, ExitIsTheEnd, ReaderIsInOrder, Ready
<1>5. WireIsInOrder' /\ EndIsTold' /\ QueueIsInOrder'
  BY <1>1, <1>2 DEF WireIsInOrder, EndIsTold, QueueIsInOrder
<1> QED
  BY <1>3, <1>4, <1>5 DEF StoryIInv

\* A line is posted behind the one before it.
LEMMA NextLineIsPosted ==
  ASSUME StoryIInv, UNCHANGED <<pc, viewer, wire>>,
         queue' = Append(queue, Item("line", offered + 1)), offered' = offered + 1,
         pc = "relay" /\ viewer = "here" => \A i \in DOMAIN queue : queue[i].what # "end"
  PROVE  QueueIsInOrder'
<1> DEFINE line == Item("line", offered + 1)
<1>1. queue \in Seq(Items) /\ offered \in Nat /\ line \in Items
  BY DEF StoryIInv, StoryTypes, Item, Items
<1>2. line.what = "line" /\ line.payload = offered + 1
  BY DEF Item
<1> HIDE DEF line
<1>3. /\ Len(queue') = Len(queue) + 1 /\ DOMAIN queue' = 1..Len(queue')
      /\ DOMAIN queue = 1..Len(queue) /\ Len(queue) \in Nat
      /\ \A i \in DOMAIN queue : queue'[i] = queue[i]
      /\ queue'[Len(queue')] = line
  BY <1>1 DEF line
<1>4. \A i \in DOMAIN queue' :
        \/ i \in DOMAIN queue /\ queue'[i] = queue[i]
        \/ i = Len(queue') /\ queue'[i] = line
  <2>1. DOMAIN queue' = 1..(Len(queue) + 1) /\ DOMAIN queue = 1..Len(queue) /\ Len(queue) \in Nat
    BY <1>3
  <2>2. DOMAIN queue' = DOMAIN queue \union {Len(queue')}
    BY <1>3, <2>1
  <2>3. (\A i \in DOMAIN queue : queue'[i] = queue[i]) /\ queue'[Len(queue')] = line
    BY <1>3
  <2> QED
    BY <2>2, <2>3
<1>5. \A i \in DOMAIN queue' : queue'[i].what = "disconnect" => viewer' = "gone"
  BY <1>2, <1>4 DEF StoryIInv, QueueIsInOrder
<1> SUFFICES ASSUME pc = "relay", viewer = "here" PROVE QueueIsInOrder'
  BY <1>5 DEF QueueIsInOrder
<1>6. Len(wire) \in Nat /\ Len(wire') = Len(wire) /\ Len(wire) <= offered
  BY DEF StoryIInv, StoryTypes, QueueIsInOrder
<1>7. \A i \in DOMAIN queue' : queue'[i].what # "end"
  BY <1>2, <1>4
<1>8. \A i \in DOMAIN queue' :
        queue'[i].what = "line" => queue'[i].payload \in (Len(wire') + 1)..offered'
  BY <1>1, <1>2, <1>4, <1>6 DEF StoryIInv, QueueIsInOrder
<1>9. ASSUME NEW i \in DOMAIN queue', NEW j \in DOMAIN queue', i < j,
             queue'[i].what = "line", queue'[j].what = "line"
      PROVE  queue'[i].payload < queue'[j].payload
  <2>1. i \in DOMAIN queue /\ queue'[i] = queue[i]
    BY <1>3, <1>4, <1>9
  <2>2. queue[i].payload \in (Len(wire) + 1)..offered
    BY <1>9, <2>1 DEF StoryIInv, QueueIsInOrder
  <2>3. CASE queue'[j] = line
    BY <1>1, <1>2, <1>6, <2>1, <2>2, <2>3
  <2>4. CASE j \in DOMAIN queue /\ queue'[j] = queue[j]
    BY <1>9, <2>1, <2>4 DEF StoryIInv, QueueIsInOrder
  <2> QED
    BY <1>4, <2>3, <2>4
<1>10. ASSUME NEW n \in (Len(wire') + 1)..offered'
       PROVE  \E i \in DOMAIN queue' : queue'[i] = Item("line", n)
  <2>1. CASE n = offered + 1
    BY <1>3, <2>1 DEF line
  <2>2. CASE n # offered + 1
    <3>1. n \in (Len(wire) + 1)..offered
      BY <1>1, <1>6, <1>10, <2>2
    <3>2. PICK i \in DOMAIN queue : queue[i] = Item("line", n)
      BY <3>1 DEF StoryIInv, QueueIsInOrder
    <3> QED
      BY <1>3, <3>2
  <2> QED
    BY <2>1, <2>2
<1> QED
  BY <1>1, <1>5, <1>6, <1>7, <1>8, <1>9, <1>10 DEF QueueIsInOrder

\* What the reader posts next is the next line, and the end only behind all of them.
LEMMA ReadingKeepsTheStory ==
  ASSUME StoryIInv, Reads
  PROVE  StoryIInv'
<1>1. UNCHANGED <<kind, pc, viewer, stop, terminated, wire, typed>>
  BY DEF Reads
<1>2. reader \in {"read", "lines", "end"}
  BY DEF Reads, Chunk, EndOfOutput, ReadFails, ReaderStep, Offer, GiveUp, NextChunk,
         FragmentOffered, OfferEnd, ReadAborted, ExecPolls
<1>3. /\ pc \notin Early
      /\ \A i \in DOMAIN wire : wire[i].type # "end"
      /\ pc = "exit" => viewer # "here"
      /\ pc = "relay" /\ viewer = "here" => \A i \in DOMAIN queue : queue[i].what # "end"
  BY <1>2 DEF StoryIInv, NothingYet, EndIsTold, ExitIsTheEnd, QueueIsInOrder
<1>4. NothingYet' /\ TerminatedLast' /\ WireIsInOrder' /\ ExitIsTheEnd' /\ EndIsTold'
  BY <1>1, <1>3
     DEF StoryIInv, NothingYet, TerminatedLast, WireIsInOrder, ExitIsTheEnd, EndIsTold
<1>5. ReaderIsInOrder'
  <2>1. reader = "read" => ~ended /\ offered = Ready
    BY DEF StoryIInv, ReaderIsInOrder
  <2>2. partial \in BOOLEAN /\ read \in Nat /\ offered \in Nat /\ stop \in BOOLEAN
    BY DEF StoryIInv, StoryTypes
  <2>3. CASE EndOfOutput
    BY <1>1, <2>1, <2>2, <2>3 DEF EndOfOutput, ReaderIsInOrder, Ready
  <2>4. CASE (\E mayBePartial \in BOOLEAN : Chunk(mayBePartial)) \/ ReadFails \/ ExecPolls
    BY <2>4 DEF Chunk, ReadFails, ExecPolls, ReaderIsInOrder
  <2>5. CASE Offer \/ GiveUp \/ OfferEnd \/ ReadAborted
    BY <2>5 DEF Offer, GiveUp, OfferEnd, ReadAborted, ReaderIsInOrder
  <2>6. CASE NextChunk \/ FragmentOffered
    BY <2>2, <2>6 DEF NextChunk, FragmentOffered, ReaderIsInOrder, Ready
  <2> QED
    BY <2>3, <2>4, <2>5, <2>6 DEF Reads, ReaderStep
<1>6. /\ reader' \in {"read", "lines", "end", "done"}
      /\ read' \in Nat /\ partial' \in BOOLEAN /\ ended' \in BOOLEAN
  <2>1. read \in Nat /\ partial \in BOOLEAN /\ ended \in BOOLEAN /\ MaxLines \in Nat
    BY CreditsAssumption DEF StoryIInv, StoryTypes
  <2>2. CASE \E mayBePartial \in BOOLEAN : Chunk(mayBePartial)
    <3>1. read' \in (read + (IF partial THEN 0 ELSE 1))..MaxLines
      BY <2>2 DEF Chunk
    <3>2. read' \in Nat
      BY <2>1, <3>1
    <3> QED
      BY <2>1, <2>2, <3>2 DEF Chunk
  <2>3. CASE EndOfOutput \/ ReadFails \/ ExecPolls \/ ReaderStep
    BY <1>2, <2>1, <2>3
       DEF EndOfOutput, ReadFails, ReaderStep, Offer, GiveUp, NextChunk, FragmentOffered, OfferEnd,
           ReadAborted, ExecPolls
  <2> QED
    BY <2>2, <2>3 DEF Reads
<1>7. status' \in Statuses /\ (kind = "logs" => status' = status)
  BY DEF Reads, StoryIInv, StoryTypes
<1>8. queue \in Seq(Items) /\ offered \in Nat
  BY DEF StoryIInv, StoryTypes
<1>9. ASSUME offered' \in Nat, queue' \in Seq(Items)
      PROVE  StoryTypes'
  BY <1>1, <1>3, <1>6, <1>7, <1>9 DEF StoryIInv, StoryTypes, Early
<1>10. CASE queue' = queue /\ offered' = offered
  <2>1. QueueIsInOrder'
    BY <1>1, <1>3, <1>10 DEF StoryIInv, QueueIsInOrder
  <2> QED
    BY <1>4, <1>5, <1>8, <1>9, <1>10, <2>1 DEF StoryIInv
<1>11. CASE Offer
  <2>1. queue' = Append(queue, Item("line", offered + 1)) /\ offered' = offered + 1
    BY <1>11 DEF Offer
  <2>2. Item("line", offered + 1) \in Items
    BY <1>8 DEF Item, Items
  <2>3. QueueIsInOrder'
    BY <1>1, <1>3, <2>1, <2>2, NextLineIsPosted DEF StoryIInv
  <2> QED
    BY <1>4, <1>5, <1>8, <1>9, <2>1, <2>2, <2>3 DEF StoryIInv
<1>12. CASE \E what \in {"end", "error"} :
              /\ queue' = Append(queue, Item(what, NULL)) /\ offered' = offered
              /\ what = "end" => ended' /\ offered' = read' /\ reader' = "done"
  <2>1. PICK what \in {"end", "error"} :
          /\ queue' = Append(queue, Item(what, NULL)) /\ offered' = offered
          /\ what = "end" => ended' /\ offered' = read' /\ reader' = "done"
    BY <1>12
  <2>2. Item(what, NULL) \in Items
    BY DEF Item, Items
  <2>3. QueueIsInOrder'
    <3>1. /\ Len(queue') = Len(queue) + 1 /\ DOMAIN queue' = 1..Len(queue')
          /\ DOMAIN queue = 1..Len(queue) /\ Len(queue) \in Nat
          /\ \A i \in DOMAIN queue : queue'[i] = queue[i]
          /\ queue'[Len(queue')] = Item(what, NULL)
      BY <1>8, <2>1, <2>2
    <3>2. queue'[Len(queue')].what = what
      BY <3>1 DEF Item
    <3>3. \A i \in DOMAIN queue' :
            \/ i \in DOMAIN queue /\ queue'[i] = queue[i]
            \/ i = Len(queue') /\ queue'[i].what = what
      <4>1. /\ DOMAIN queue' = 1..(Len(queue) + 1) /\ DOMAIN queue = 1..Len(queue)
            /\ Len(queue) \in Nat
        BY <3>1
      <4>2. DOMAIN queue' = DOMAIN queue \union {Len(queue')}
        BY <3>1, <4>1
      <4>3. /\ \A i \in DOMAIN queue : queue'[i] = queue[i]
            /\ queue'[Len(queue')].what = what
        BY <3>1, <3>2
      <4> QED
        BY <4>2, <4>3
    <3>4. \A i \in DOMAIN queue' : queue'[i].what = "disconnect" => viewer' = "gone"
      BY <1>1, <2>1, <3>3 DEF StoryIInv, QueueIsInOrder
    <3> SUFFICES ASSUME pc = "relay" /\ viewer = "here" PROVE QueueIsInOrder'
      BY <1>1, <3>4 DEF QueueIsInOrder
    <3>5. \A i \in DOMAIN queue' :
            queue'[i].what = "line" => i \in DOMAIN queue /\ queue'[i] = queue[i]
      BY <2>1, <3>3
    <3>6. \A i \in DOMAIN queue' : queue'[i].what = "end" => i = Len(queue') /\ what = "end"
      BY <1>3, <3>3
    <3> QED
      BY <1>1, <2>1, <3>1, <3>4, <3>5, <3>6 DEF StoryIInv, QueueIsInOrder
  <2> QED
    BY <1>4, <1>5, <1>8, <1>9, <2>1, <2>2, <2>3 DEF StoryIInv
<1> QED
  <2>1. CASE EndOfOutput \/ ExecPolls \/ \E mayBePartial \in BOOLEAN : Chunk(mayBePartial)
    BY <1>10, <2>1 DEF EndOfOutput, ExecPolls, Chunk
  <2>2. CASE GiveUp \/ NextChunk \/ FragmentOffered \/ ReadAborted
    BY <1>10, <2>2 DEF GiveUp, NextChunk, FragmentOffered, ReadAborted
  <2>3. CASE OfferEnd \/ ReadFails
    <3>1. reader = "end" => ended /\ (offered = read \/ stop)
      BY DEF StoryIInv, ReaderIsInOrder
    <3> QED
      BY <1>10, <1>12, <2>3, <3>1 DEF OfferEnd, ReadFails
  <2> QED
    BY <1>11, <2>1, <2>2, <2>3 DEF Reads, ReaderStep

\* No line overtakes another: the head, if it is one, is the first that is not on the wire.
LEMMA NextLineIsTaken ==
  ASSUME StoryIInv, pc = "relay", viewer = "here", queue # <<>>, Head(queue).what = "line",
         queue' = Tail(queue), wire' = Append(wire, Log(Head(queue).payload)),
         UNCHANGED <<pc, viewer, reader, read, offered, ended>>
  PROVE  QueueIsInOrder' /\ Head(queue).payload = Len(wire) + 1
<1> DEFINE head == Head(queue)
<1>1. queue \in Seq(Items) /\ offered \in Nat /\ wire \in Seq(Frames) /\ Len(wire) \in Nat
  BY DEF StoryIInv, StoryTypes
<1>2. /\ Len(queue) \in Nat \ {0} /\ DOMAIN queue = 1..Len(queue) /\ head = queue[1]
      /\ Len(queue') = Len(queue) - 1 /\ DOMAIN queue' = 1..Len(queue')
      /\ \A i \in DOMAIN queue' : i + 1 \in DOMAIN queue /\ queue'[i] = queue[i + 1]
      /\ 1 \in DOMAIN queue
  BY <1>1
<1>3. head.payload \in (Len(wire) + 1)..offered
  BY <1>2 DEF StoryIInv, QueueIsInOrder
<1>4. PICK first \in DOMAIN queue : queue[first] = Item("line", Len(wire) + 1)
  BY <1>1, <1>3 DEF StoryIInv, QueueIsInOrder
<1>5. head.payload = Len(wire) + 1
  <2> SUFFICES ASSUME first # 1 PROVE FALSE
    BY <1>2, <1>4 DEF Item
  <2>1. queue[first].what = "line" /\ queue[first].payload = Len(wire) + 1 /\ 1 < first
    BY <1>2, <1>4 DEF Item
  <2>2. queue[1].payload < queue[first].payload
    BY <1>2, <2>1 DEF StoryIInv, QueueIsInOrder
  <2> QED
    BY <1>1, <1>2, <1>3, <2>1, <2>2
<1>6. Len(wire') = Len(wire) + 1
  BY <1>1
<1>7. \A i, j \in DOMAIN queue' : i < j => i + 1 < j + 1 /\ 1 < i + 1
  BY <1>2
<1>8. ASSUME NEW i \in DOMAIN queue', queue'[i].what = "line"
      PROVE  queue'[i].payload \in (Len(wire') + 1)..offered'
  <2>1. i + 1 \in DOMAIN queue /\ queue'[i] = queue[i + 1] /\ 1 < i + 1
    BY <1>2
  <2>2. queue[i + 1].payload \in (Len(wire) + 1)..offered
    BY <1>8, <2>1 DEF StoryIInv, QueueIsInOrder
  <2>3. queue[1].payload < queue[i + 1].payload
    BY <1>2, <1>8, <2>1 DEF StoryIInv, QueueIsInOrder
  <2> QED
    BY <1>1, <1>2, <1>5, <1>6, <2>1, <2>2, <2>3
<1>9. ASSUME NEW n \in (Len(wire') + 1)..offered'
      PROVE  \E i \in DOMAIN queue' : queue'[i] = Item("line", n)
  <2>1. n \in (Len(wire) + 1)..offered /\ n # Len(wire) + 1
    BY <1>1, <1>6, <1>9
  <2>2. PICK i \in DOMAIN queue : queue[i] = Item("line", n)
    BY <2>1 DEF StoryIInv, QueueIsInOrder
  <2>3. i # 1
    BY <1>2, <1>5, <2>1, <2>2 DEF Item
  <2>4. i - 1 \in DOMAIN queue' /\ queue'[i - 1] = queue[i]
    BY <1>2, <2>3
  <2> QED
    BY <2>2, <2>4
<1>10. Len(wire') <= offered'
  BY <1>1, <1>3, <1>6
<1>11. QueueIsInOrder'
  BY <1>2, <1>7, <1>8, <1>9, <1>10 DEF StoryIInv, QueueIsInOrder
<1> QED
  BY <1>5, <1>11

\* The head of the queue is the next line for the wire.
LEMMA TakingKeepsTheStory ==
  ASSUME StoryIInv, Takes
  PROVE  StoryIInv'
<1> DEFINE head == Head(queue)
<1>1. /\ pc = "relay" /\ queue # <<>> /\ queue' = Tail(queue) /\ ~terminated
      /\ UNCHANGED <<kind, viewer, stop, reader, read, partial, offered, ended, typed, status>>
  BY DEF Takes, StoryIInv, TerminatedLast, source
<1>2. /\ queue \in Seq(Items) /\ wire \in Seq(Frames) /\ offered \in Nat
  BY DEF StoryIInv, StoryTypes
<1>3. /\ Len(queue) \in Nat \ {0} /\ DOMAIN queue = 1..Len(queue) /\ head = queue[1]
      /\ queue' \in Seq(Items) /\ Len(queue') = Len(queue) - 1 /\ DOMAIN queue' = 1..Len(queue')
      /\ \A i \in DOMAIN queue' : i + 1 \in DOMAIN queue /\ queue'[i] = queue[i + 1]
  BY <1>1, <1>2
<1>4. ReaderIsInOrder'
  BY <1>1 DEF StoryIInv, ReaderIsInOrder, Ready
<1>5. \A i \in DOMAIN queue' : queue'[i].what = "disconnect" => viewer' = "gone"
  BY <1>1, <1>3 DEF StoryIInv, QueueIsInOrder
<1>6. \A i \in DOMAIN wire : wire[i] = Log(i)
  BY <1>1 DEF StoryIInv, WireIsInOrder
<1>7. CASE Errs
  <2>1. PICK f \in Frames : f.type = "error" /\ wire' = Says(f)
    BY <1>7 DEF Errs
  <2>2. pc' = "cleanup" /\ terminated' = TRUE
    BY <1>7 DEF Errs
  <2>3. /\ wire' \in Seq(Frames) /\ WireIsInOrder'
        /\ viewer = "here" => wire' # <<>> /\ IsTerminal(wire'[Len(wire')])
        /\ \A i \in DOMAIN wire' : wire'[i].type = "end" => wire'[i] = f
    BY <1>1, <2>1, <2>2, SayingIsLast
  <2>4. StoryTypes' /\ NothingYet'
    BY <1>1, <1>3, <2>2, <2>3 DEF StoryIInv, StoryTypes, NothingYet, Early
  <2>5. TerminatedLast' /\ ExitIsTheEnd' /\ QueueIsInOrder' /\ EndIsTold'
    BY <1>1, <1>5, <2>1, <2>2, <2>3
       DEF TerminatedLast, ExitIsTheEnd, QueueIsInOrder, EndIsTold
  <2> QED
    BY <1>4, <2>3, <2>4, <2>5 DEF StoryIInv
<1>8. CASE head.what = "disconnect" /\ pc' = "cleanup" /\ terminated' = TRUE /\ UNCHANGED wire
  <2>1. viewer = "gone" /\ viewer' = "gone"
    BY <1>1, <1>3, <1>8 DEF StoryIInv, QueueIsInOrder
  <2>2. StoryTypes' /\ NothingYet'
    BY <1>1, <1>3, <1>8 DEF StoryIInv, StoryTypes, NothingYet, Early
  <2>3. TerminatedLast' /\ ExitIsTheEnd' /\ QueueIsInOrder'
    BY <1>1, <1>5, <1>8, <2>1 DEF TerminatedLast, ExitIsTheEnd, QueueIsInOrder
  <2>4. WireIsInOrder' /\ EndIsTold'
    BY <1>1, <1>6, <1>8 DEF StoryIInv, WireIsInOrder, EndIsTold
  <2> QED
    BY <1>4, <2>2, <2>3, <2>4 DEF StoryIInv
<1>9. CASE \/ head.what = "line" /\ wire' = IF viewer = "here" THEN Append(wire, Log(head.payload)) ELSE wire
           \/ head.what = "client" /\ wire' = wire
  <2> SUFFICES ASSUME UNCHANGED <<pc, terminated>> PROVE StoryIInv'
    BY <1>7, <1>8, <1>9 DEF Takes
  <2>1. NothingYet' /\ TerminatedLast' /\ ExitIsTheEnd'
    BY <1>1 DEF StoryIInv, NothingYet, TerminatedLast, ExitIsTheEnd, Early
  <2>2. CASE wire' = wire /\ (viewer # "here" \/ head.what = "client")
    <3>1. StoryTypes' /\ WireIsInOrder' /\ EndIsTold'
      BY <1>1, <1>3, <2>2 DEF StoryIInv, StoryTypes, WireIsInOrder, EndIsTold
    <3>2. QueueIsInOrder'
      <4> SUFFICES ASSUME viewer = "here", head.what = "client" PROVE QueueIsInOrder'
        BY <1>1, <1>5, <2>2 DEF QueueIsInOrder
      <4>1. \A n \in (Len(wire) + 1)..offered : \E i \in DOMAIN queue' : queue'[i] = Item("line", n)
        <5> SUFFICES ASSUME NEW n \in (Len(wire) + 1)..offered
                     PROVE  \E i \in DOMAIN queue' : queue'[i] = Item("line", n)
          OBVIOUS
        <5>1. PICK i \in DOMAIN queue : queue[i] = Item("line", n)
          BY <1>1 DEF StoryIInv, QueueIsInOrder
        <5>2. i # 1
          BY <1>3, <5>1 DEF Item
        <5>3. i - 1 \in DOMAIN queue' /\ queue'[i - 1] = queue[i]
          BY <1>3, <5>2
        <5> QED
          BY <5>1, <5>3
      <4>2. \A i, j \in DOMAIN queue' : i < j => i + 1 < j + 1
        BY <1>3
      <4> QED
        BY <1>1, <1>3, <1>5, <2>2, <4>1, <4>2 DEF StoryIInv, QueueIsInOrder
    <3> QED
      BY <1>4, <2>1, <3>1, <3>2 DEF StoryIInv
  <2>3. CASE viewer = "here" /\ head.what = "line" /\ wire' = Append(wire, Log(head.payload))
    <3>1. QueueIsInOrder' /\ head.payload = Len(wire) + 1
      BY <1>1, <1>2, <2>3, NextLineIsTaken DEF StoryIInv
    <3>2. Log(head.payload) \in Frames
      BY <1>2, <3>1 DEF Log, Frames
    <3>3. /\ wire' \in Seq(Frames) /\ DOMAIN wire' = 1..(Len(wire) + 1) /\ Len(wire) \in Nat
          /\ DOMAIN wire = 1..Len(wire)
          /\ \A i \in DOMAIN wire : wire'[i] = wire[i]
          /\ wire'[Len(wire) + 1] = Log(Len(wire) + 1)
      BY <1>2, <2>3, <3>1, <3>2
    <3>4. ASSUME NEW i \in DOMAIN wire' PROVE wire'[i] = Log(i)
      <4>1. i \in DOMAIN wire \/ i = Len(wire) + 1
        BY <3>3
      <4> QED
        BY <1>6, <3>3, <4>1
    <3>5. StoryTypes' /\ WireIsInOrder' /\ EndIsTold'
      BY <1>1, <1>3, <3>3, <3>4 DEF StoryIInv, StoryTypes, WireIsInOrder, EndIsTold, Log
    <3> QED
      BY <1>4, <2>1, <3>1, <3>5 DEF StoryIInv
  <2> QED
    BY <1>9, <2>2, <2>3
<1> QED
  BY <1>7, <1>8, <1>9 DEF Takes

\* The end is taken when nothing is left to be sent.
LEMMA TakingTheEndKeepsTheStory ==
  ASSUME StoryIInv, TakesTheEnd
  PROVE  StoryIInv'
<1>1. /\ pc = "relay" /\ queue # <<>> /\ queue' = Tail(queue) /\ ~terminated
      /\ UNCHANGED <<kind, viewer, stop, reader, read, partial, offered, ended, typed, status>>
      /\ Head(queue).what = "end"
  BY DEF TakesTheEnd, StoryIInv, TerminatedLast, source
<1>2. /\ queue \in Seq(Items) /\ wire \in Seq(Frames) /\ offered \in Nat
  BY DEF StoryIInv, StoryTypes
<1>3. /\ DOMAIN queue = 1..Len(queue) /\ Head(queue) = queue[1] /\ 1 \in DOMAIN queue
      /\ Len(queue) \in Nat
      /\ queue' \in Seq(Items) /\ DOMAIN queue' = 1..(Len(queue) - 1)
      /\ \A i \in DOMAIN queue' : i + 1 \in DOMAIN queue /\ queue'[i] = queue[i + 1]
  BY <1>1, <1>2
<1>4. viewer = "here" => ended /\ reader = "done" /\ Len(wire) = read
  <2> SUFFICES ASSUME viewer = "here" PROVE ended /\ reader = "done" /\ Len(wire) = read
    OBVIOUS
  <2>1. ended /\ reader = "done" /\ offered = read
    BY <1>1, <1>3 DEF StoryIInv, QueueIsInOrder
  <2>2. \A j \in DOMAIN queue : queue[j].what # "line"
    <3> SUFFICES ASSUME NEW j \in DOMAIN queue, j # 1 PROVE queue[j].what # "line"
      BY <1>1, <1>3
    <3>1. 1 < j
      BY <1>3
    <3> QED
      BY <1>1, <1>3, <3>1 DEF StoryIInv, QueueIsInOrder
  <2>3. Len(wire) <= offered /\ Len(wire) \in Nat
    BY <1>1, <1>2 DEF StoryIInv, QueueIsInOrder
  <2>4. ~(Len(wire) + 1 \in (Len(wire) + 1)..offered)
    <3> SUFFICES ASSUME Len(wire) + 1 \in (Len(wire) + 1)..offered PROVE FALSE
      OBVIOUS
    <3>1. PICK i \in DOMAIN queue : queue[i] = Item("line", Len(wire) + 1)
      BY <1>1 DEF StoryIInv, QueueIsInOrder
    <3> QED
      BY <2>2, <3>1 DEF Item
  <2> QED
    BY <1>2, <2>1, <2>3, <2>4
<1>5. ReaderIsInOrder'
  BY <1>1 DEF StoryIInv, ReaderIsInOrder, Ready
<1>6. \A i \in DOMAIN queue' : queue'[i].what = "disconnect" => viewer' = "gone"
  BY <1>1, <1>3 DEF StoryIInv, QueueIsInOrder
<1>7. CASE pc' = "exit" /\ UNCHANGED <<terminated, wire>>
  <2>1. StoryTypes' /\ NothingYet' /\ TerminatedLast'
    BY <1>1, <1>3, <1>7 DEF StoryIInv, StoryTypes, NothingYet, TerminatedLast, Early
  <2>2. WireIsInOrder' /\ EndIsTold'
    BY <1>1, <1>7 DEF StoryIInv, WireIsInOrder, EndIsTold
  <2>3. QueueIsInOrder' /\ ExitIsTheEnd'
    BY <1>1, <1>4, <1>6, <1>7 DEF QueueIsInOrder, ExitIsTheEnd
  <2> QED
    BY <1>5, <2>1, <2>2, <2>3 DEF StoryIInv
<1>8. CASE kind = "logs" /\ pc' = "cleanup" /\ terminated' = TRUE /\ wire' = Says(End(NULL))
  <2>1. status = NULL
    BY <1>8 DEF StoryIInv, StoryTypes
  <2>2. End(NULL) \in Frames /\ End(NULL).type = "end" /\ End(NULL).code = status
    BY <2>1 DEF End, Frames, Statuses
  <2>3. /\ wire' \in Seq(Frames) /\ WireIsInOrder'
        /\ viewer = "here" => wire' # <<>> /\ IsTerminal(wire'[Len(wire')])
        /\ \A i \in DOMAIN wire' :
             wire'[i].type = "end" => viewer = "here" /\ i = Len(wire) + 1 /\ wire'[i] = End(NULL)
    BY <1>1, <1>8, <2>2, SayingIsLast
  <2>4. StoryTypes' /\ NothingYet'
    BY <1>1, <1>3, <1>8, <2>3 DEF StoryIInv, StoryTypes, NothingYet, Early
  <2>5. TerminatedLast' /\ ExitIsTheEnd' /\ QueueIsInOrder' /\ EndIsTold'
    BY <1>1, <1>4, <1>6, <1>8, <2>2, <2>3
       DEF TerminatedLast, ExitIsTheEnd, QueueIsInOrder, EndIsTold
  <2> QED
    BY <1>5, <2>3, <2>4, <2>5 DEF StoryIInv
<1> QED
  BY <1>7, <1>8 DEF TakesTheEnd

LEMMA ExitingKeepsTheStory ==
  ASSUME StoryIInv, Exits
  PROVE  StoryIInv'
<1>1. /\ pc = "exit" /\ ~terminated /\ pc' = "cleanup" /\ terminated' = TRUE
      /\ wire' = Says(End(status))
      /\ UNCHANGED <<kind, viewer, stop, reader, read, partial, offered, ended, queue, typed,
                     status>>
  BY DEF Exits, StoryIInv, TerminatedLast, source
<1>2. /\ status \in Statuses
      /\ viewer = "here" => ended /\ Len(wire) = read /\ reader = "done"
  BY <1>1 DEF StoryIInv, StoryTypes, ExitIsTheEnd
<1>3. End(status) \in Frames /\ End(status).type = "end" /\ End(status).code = status
  BY <1>2 DEF End, Frames
<1>4. /\ wire' \in Seq(Frames) /\ WireIsInOrder'
      /\ viewer = "here" => wire' # <<>> /\ IsTerminal(wire'[Len(wire')])
      /\ \A i \in DOMAIN wire' :
           wire'[i].type = "end" => viewer = "here" /\ i = Len(wire) + 1 /\ wire'[i] = End(status)
  BY <1>1, <1>3, SayingIsLast
<1>5. StoryTypes' /\ NothingYet'
  BY <1>1, <1>4 DEF StoryIInv, StoryTypes, NothingYet, Early
<1>6. ReaderIsInOrder' /\ QueueIsInOrder'
  BY <1>1 DEF StoryIInv, ReaderIsInOrder, Ready, QueueIsInOrder
<1>7. TerminatedLast' /\ ExitIsTheEnd' /\ EndIsTold'
  BY <1>1, <1>2, <1>3, <1>4 DEF TerminatedLast, ExitIsTheEnd, EndIsTold
<1> QED
  BY <1>4, <1>5, <1>6, <1>7 DEF StoryIInv

\* The default end frame of the finally clause never reaches a viewer that is here: it was
\* told already.
LEMMA CleaningUpKeepsTheStory ==
  ASSUME StoryIInv, CleansUp
  PROVE  StoryIInv'
<1>1. UNCHANGED <<kind, viewer, wire, reader, read, partial, offered, ended, queue, typed, status>>
  BY DEF CleansUp, Says, StoryIInv, TerminatedLast, source
<1>2. \/ pc = "cleanup" /\ pc' = "done" /\ stop' = TRUE /\ terminated' = TRUE
      \/ viewer = "gone" /\ pc # "done" /\ pc' = "cleanup" /\ UNCHANGED <<stop, terminated>>
  BY DEF CleansUp
<1>3. viewer = "here" \/ viewer = "gone"
  BY DEF StoryIInv, StoryTypes
<1>4. StoryTypes' /\ NothingYet'
  BY <1>1, <1>2 DEF StoryIInv, StoryTypes, NothingYet, Early
<1>5. TerminatedLast' /\ ExitIsTheEnd'
  BY <1>1, <1>2, <1>3 DEF StoryIInv, TerminatedLast, ExitIsTheEnd
<1>6. ReaderIsInOrder' /\ QueueIsInOrder'
  BY <1>1, <1>2, <1>3 DEF StoryIInv, ReaderIsInOrder, Ready, QueueIsInOrder
<1>7. WireIsInOrder' /\ EndIsTold'
  BY <1>1, <1>2 DEF StoryIInv, WireIsInOrder, EndIsTold
<1> QED
  BY <1>4, <1>5, <1>6, <1>7 DEF StoryIInv

\* What the viewer sends goes behind everything; a disconnect is posted by one that left.
LEMMA OthersKeepTheStory ==
  ASSUME StoryIInv, Others
  PROVE  StoryIInv'
<1>1. UNCHANGED <<kind, pc, stop, terminated, wire, reader, read, partial, offered, ended, status,
                  refusal>>
  BY DEF Others, source
<1>2. viewer' = "here" => viewer = "here"
  BY DEF Others
<1>3. viewer' \in {"here", "gone"} /\ (viewer = "gone" => viewer' = "gone")
  BY DEF Others, StoryIInv, StoryTypes
<1>4. TerminatedLast' /\ ExitIsTheEnd' /\ ReaderIsInOrder' /\ WireIsInOrder' /\ EndIsTold'
  BY <1>1, <1>2
     DEF StoryIInv, TerminatedLast, ExitIsTheEnd, ReaderIsInOrder, Ready, WireIsInOrder, EndIsTold
<1>5. CASE UNCHANGED <<queue, typed>>
  <2>1. StoryTypes' /\ NothingYet'
    BY <1>1, <1>3, <1>5 DEF StoryIInv, StoryTypes, NothingYet
  <2>2. QueueIsInOrder'
    BY <1>1, <1>2, <1>3, <1>5 DEF StoryIInv, QueueIsInOrder
  <2> QED
    BY <1>4, <2>1, <2>2 DEF StoryIInv
<1>6. CASE \E item \in Items :
             /\ queue' = Append(queue, item) /\ viewer' = viewer /\ typed' \in Nat
             /\ pc \notin Early
             /\ \/ item.what = "disconnect" /\ viewer = "gone"
                \/ item.what = "client"
  <2>1. PICK item \in Items :
          /\ queue' = Append(queue, item) /\ viewer' = viewer /\ typed' \in Nat
          /\ pc \notin Early
          /\ \/ item.what = "disconnect" /\ viewer = "gone"
             \/ item.what = "client"
    BY <1>6
  <2>2. queue \in Seq(Items)
    BY DEF StoryIInv, StoryTypes
  <2>3. /\ queue' \in Seq(Items) /\ Len(queue) \in Nat /\ Len(queue') = Len(queue) + 1
        /\ DOMAIN queue' = 1..(Len(queue) + 1) /\ DOMAIN queue = 1..Len(queue)
        /\ \A i \in DOMAIN queue : queue'[i] = queue[i]
        /\ queue'[Len(queue')] = item
    BY <2>1, <2>2
  <2>4. StoryTypes' /\ NothingYet'
    BY <1>1, <1>3, <2>1, <2>3 DEF StoryIInv, StoryTypes, NothingYet
  <2>5. DOMAIN queue' = DOMAIN queue \union {Len(queue')}
    BY <2>3
  <2>6. \A i \in DOMAIN queue' :
          queue'[i].what \in {"line", "end"} => i \in DOMAIN queue /\ queue'[i] = queue[i]
    BY <2>1, <2>3, <2>5
  <2>7. \A i \in DOMAIN queue' : queue'[i].what = "disconnect" => viewer' = "gone"
    BY <2>1, <2>3, <2>5 DEF StoryIInv, QueueIsInOrder
  <2>8. QueueIsInOrder'
    <3> SUFFICES ASSUME pc = "relay", viewer = "here" PROVE QueueIsInOrder'
      BY <1>1, <1>2, <2>7 DEF QueueIsInOrder
    <3>1. \A n \in (Len(wire) + 1)..offered : \E i \in DOMAIN queue' : queue'[i] = Item("line", n)
      BY <2>3, <2>5 DEF StoryIInv, QueueIsInOrder
    <3> QED
      BY <1>1, <2>6, <2>7, <3>1 DEF StoryIInv, QueueIsInOrder
  <2> QED
    BY <1>4, <2>4, <2>8 DEF StoryIInv
<1> QED
  <2>1. typed \in Nat
    BY DEF StoryIInv, StoryTypes
  <2>2. Item("disconnect", NULL) \in Items /\ Item("client", typed + 1) \in Items
    BY <2>1 DEF Item, Items
  <2>3. Item("disconnect", NULL).what = "disconnect" /\ Item("client", typed + 1).what = "client"
    BY DEF Item
  <2> QED
    BY <1>5, <1>6, <2>1, <2>2, <2>3 DEF Others

LEMMA WatcherStaysLate ==
  ASSUME [Next]_vars, StoryIInv, WatcherIsLate
  PROVE  WatcherIsLate'
<1> USE DEF WatcherIsLate, Early
<1>1. CASE LogNext /\ UNCHANGED shell
  BY <1>1
     DEF LogNext, LogHandler, LogParams, LogPreflight, LogResolve, LogOpen, LogOpenFails, LogRead,
         LogRelay, RelayLine, RelayError, RelayDisconnect, First, LogRelayEnd, LogCleanup,
         LogCancelled, LogOrphanOpens, StartRelay, Resolve, ResolveInvalid, ResolveUnread, Fails
<1>2. CASE ExecNext
  BY <1>2
     DEF ExecNext, ExecHandler, ExecParams, ExecGate, ExecIdentity, ExecPreflight, ExecRefused,
         ExecResolve, ExecOpen, ExecOpenFails, ExecRecord, ExecInput, ExecRelay, ExecRelayEnd,
         ExecExit, ExecCleanup, ExecRead, ExecType, ExecCancelled, ExecOrphanOpens,
         ExecOrphanWrites, ExecOrphanRecords, ChannelCloses, RelayLine, RelayError, RelayDisconnect, First,
         StartRelay, Refuse, Resolve, ResolveInvalid, ResolveUnread, Fails
<1>3. CASE (ViewerLeaves \/ NoticeDisconnect \/ PodReplaced) /\ UNCHANGED shell
  BY <1>3 DEF ViewerLeaves, NoticeDisconnect, PodReplaced
<1>4. CASE UNCHANGED vars
  BY <1>4 DEF vars, plumbing
<1> QED
  BY <1>1, <1>2, <1>3, <1>4 DEF Next

LEMMA NextStory ==
  ASSUME StoryIInv, WatcherIsLate, [Next]_vars
  PROVE  StoryIInv'
<1>1. CASE Next
  <2>1. StoryTypes
    BY DEF StoryIInv
  <2>2. \/ Prepares \/ Starts \/ Reads \/ Takes \/ TakesTheEnd \/ Exits \/ CleansUp \/ Others
    BY <1>1, <2>1, Kindred
  <2> QED
    BY <2>2, PreparingKeepsTheStory, StartingKeepsTheStory, ReadingKeepsTheStory,
       TakingKeepsTheStory, TakingTheEndKeepsTheStory, ExitingKeepsTheStory,
       CleaningUpKeepsTheStory, OthersKeepTheStory
<1>2. CASE UNCHANGED vars
  BY <1>2
     DEF vars, plumbing, request, source, shell, StoryIInv, StoryTypes, NothingYet, TerminatedLast,
         WireIsInOrder, ReaderIsInOrder, Ready, QueueIsInOrder, ExitIsTheEnd, EndIsTold
<1> QED
  BY <1>1, <1>2

\* The story of any websocket, at any time.
THEOREM StoryHolds == Spec => [](StoryIInv /\ WatcherIsLate)
<1>1. Init => StoryIInv /\ WatcherIsLate
  BY InitStory
<1>2. StoryIInv /\ WatcherIsLate /\ [Next]_vars => (StoryIInv /\ WatcherIsLate)'
  BY NextStory, WatcherStaysLate
<1> QED
  BY <1>1, <1>2, PTL DEF Spec

\* A viewer that stays is told exactly once that the stream is over, and nothing follows.
THEOREM ToldOnce == Spec => []OneTerminalFrame
<1>1. StoryIInv => OneTerminalFrame
  <2> SUFFICES ASSUME StoryIInv PROVE OneTerminalFrame
    OBVIOUS
  <2>1. \A i \in DOMAIN wire : ~IsTerminal(Log(i))
    BY DEF IsTerminal, Log
  <2>2. \A i \in DOMAIN wire : IsTerminal(wire[i]) => i = Len(wire)
    BY <2>1 DEF StoryIInv, WireIsInOrder
  <2>3. pc = "done" /\ viewer = "here" => wire # <<>> /\ IsTerminal(Last(wire))
    BY DEF StoryIInv, TerminatedLast, Last
  <2> QED
    BY <2>2, <2>3 DEF OneTerminalFrame
<1> QED
  BY <1>1, StoryHolds, PTL

\* An end frame means that the output is over and every line of it was sent before, and
\* carries the exit code the API server reported.
THEOREM EndsAreTrue == Spec => []EndIsTheTruth
<1>1. StoryIInv => EndIsTheTruth
  <2> SUFFICES ASSUME StoryIInv, NEW i \in DOMAIN wire, wire[i].type = "end"
               PROVE  /\ ended /\ wire[i].code = status
                      /\ SubSeq(wire, 1, i - 1) = [n \in 1..read |-> Log(n)]
    BY DEF EndIsTheTruth
  <2>1. ended /\ i = read + 1 /\ wire[i].code = status
    BY DEF StoryIInv, EndIsTold
  <2>2. wire \in Seq(Frames) /\ read \in Nat
    BY DEF StoryIInv, StoryTypes
  <2>3. \A n \in 1..read : n \in DOMAIN wire /\ wire[n] = Log(n)
    <3>1. i <= Len(wire) /\ DOMAIN wire = 1..Len(wire) /\ Len(wire) \in Nat
      BY <2>2
    <3> QED
      BY <2>1, <2>2, <3>1 DEF StoryIInv, WireIsInOrder
  <2>4. SubSeq(wire, 1, read) = [n \in 1..read |-> wire[n]]
    BY <2>2, <2>3
  <2> QED
    BY <2>1, <2>2, <2>3, <2>4
<1> QED
  BY <1>1, StoryHolds, PTL

-----------------------------------------------------------------------------
(* The container: what is opened is what was resolved, and that was asked for. *)

TargetIInv ==
  /\ pod \in Pods
  /\ pc = "open" => resolved = asked
  /\ NeverGuesses

\* The API server attaches a request to the container it names, or to the only one.
LEMMA AttachedIsUnambiguous ==
  ASSUME pod \in Pods, NEW c \in Attached(asked, pod)
  PROVE  IF asked # NULL THEN c = asked ELSE pod.regular = {c}
<1>1. CASE asked # NULL
  BY <1>1 DEF Attached
<1>2. CASE asked = NULL
  <2>1. Cardinality(pod.regular) = 1 /\ c \in pod.regular
    BY <1>2 DEF Attached
  <2>2. IsFiniteSet(pod.regular)
    BY PodsAssumption
  <2>3. \E x : pod.regular = {x}
    BY <2>1, <2>2, FS_Singleton
  <2> QED
    BY <1>2, <2>1, <2>3
<1> QED
  BY <1>1, <1>2

LEMMA NextTarget ==
  ASSUME TargetIInv, [Next]_vars
  PROVE  TargetIInv'
<1> USE DEF TargetIInv
<1>1. CASE LogOpen \/ ExecOpen
  <2>1. PICK c \in Attached(asked, pod) :
          target' = c /\ pc' # "open" /\ UNCHANGED <<asked, pod>>
    BY <1>1 DEF LogOpen, ExecOpen, StartRelay
  <2>2. IF asked # NULL THEN c = asked ELSE pod.regular = {c}
    BY AttachedIsUnambiguous
  <2> QED
    BY <2>1, <2>2 DEF NeverGuesses
<1>2. CASE PodReplaced
  BY <1>2 DEF PodReplaced, NeverGuesses, request
<1>3. CASE LogResolve \/ ExecResolve
  BY <1>3 DEF LogResolve, ExecResolve, Resolve, ResolveInvalid, ResolveUnread, Fails, NeverGuesses
<1>4. CASE \/ LogParams \/ LogPreflight \/ LogOpenFails \/ LogRelay \/ LogRelayEnd \/ LogCleanup
           \/ LogCancelled
  BY <1>4
     DEF LogParams, LogPreflight, LogOpenFails, LogRelay, RelayLine, RelayError, RelayDisconnect,
         LogRelayEnd, LogCleanup, LogCancelled, Fails, First, request, NeverGuesses
<1>5. CASE LogRead \/ ExecRead \/ ViewerLeaves \/ NoticeDisconnect \/ UNCHANGED vars
  BY <1>5
     DEF LogRead, ExecRead, ViewerLeaves, NoticeDisconnect, vars, plumbing, request, NeverGuesses
<1>6. CASE \/ ExecParams \/ ExecGate \/ ExecIdentity \/ ExecPreflight \/ ExecRefused
           \/ ExecOpenFails \/ ExecRecord
  BY <1>6
     DEF ExecParams, ExecGate, ExecIdentity, ExecPreflight, ExecRefused, ExecOpenFails, ExecRecord,
         StartRelay, Refuse, Fails, request, NeverGuesses
<1>7. CASE \/ ExecInput \/ ExecRelay \/ ExecRelayEnd \/ ExecExit \/ ExecCleanup \/ ExecCancelled
  BY <1>7
     DEF ExecInput, ExecRelay, RelayLine, RelayError, RelayDisconnect, ExecRelayEnd, ExecExit,
         ExecCleanup, ExecCancelled, Fails, First, request, NeverGuesses
<1>8. CASE ExecType \/ ExecOrphanOpens \/ ExecOrphanWrites \/ ExecOrphanRecords \/ ChannelCloses \/ LogOrphanOpens
  BY <1>8
     DEF ExecType, ExecOrphanOpens, ExecOrphanWrites, ExecOrphanRecords, ChannelCloses,
         LogOrphanOpens, request,
         NeverGuesses
<1> QED
  BY <1>1, <1>2, <1>3, <1>4, <1>5, <1>6, <1>7, <1>8
     DEF Next, LogNext, LogHandler, ExecNext, ExecHandler

\* No shell and no log is ever opened in a container the viewer did not mean.
THEOREM NothingIsGuessed == Spec => []NeverGuesses
<1>1. Init => TargetIInv
  BY NobodyAssumption DEF Init, PlumbingInit, TargetIInv, NeverGuesses
<1>2. TargetIInv /\ [Next]_vars => TargetIInv'
  BY NextTarget
<1>3. TargetIInv => NeverGuesses
  BY DEF TargetIInv
<1> QED
  BY <1>1, <1>2, <1>3, PTL DEF Spec

-----------------------------------------------------------------------------
(* The rows of a shell. *)

RowNames == {"opened", "closed", "denied", "failed"}
WrittenRows == lost \union {rows[i] : i \in DOMAIN rows}

\* A denial that is written, or is going to be.
Denied ==
  \/ "denied" \in WrittenRows
  \/ pc = "refusal" /\ refusal.row = "denied"
  \/ orphan = "denied"

ShellIInv ==
  /\ kind \in {"logs", "exec"}
  /\ rows \in Seq(RowNames)
  /\ orphan \in {NULL, "open", "opened", "denied", "failed", "write"}
  /\ kind = "logs" => ~sessionOpen /\ orphan \in {NULL, "open"} /\ stdin = <<>>
  /\ orphan # NULL => pc \in {"cleanup", "done"}
  /\ pc = "refusal" => kind = "exec" /\ refusal.row \in {"denied", "failed"}
  /\ ran => pc \in {"record", "relay", "exit", "cleanup", "done"}
  /\ kind = "exec" /\ pc \in {"relay", "exit"} => "opened" \in WrittenRows
  /\ stdin # <<>> \/ orphan = "write" => "opened" \in WrittenRows
  /\ pc = "done" /\ sessionOpen => "closed" \in WrittenRows
  /\ Denied => ~ran /\ pc \in {"refusal", "cleanup", "done"} /\ orphan # "open"

\* A row is written or lost, and none goes.
LEMMA AuditingAddsARow ==
  ASSUME rows \in Seq(RowNames), NEW row \in RowNames, Audit(row)
  PROVE  rows' \in Seq(RowNames) /\ WrittenRows' = WrittenRows \union {row}
<1>1. CASE rows' = Append(rows, row) /\ lost' = lost
  <2>1. /\ rows' \in Seq(RowNames) /\ Len(rows) \in Nat
        /\ DOMAIN rows' = 1..(Len(rows) + 1) /\ DOMAIN rows = 1..Len(rows)
        /\ \A i \in DOMAIN rows : rows'[i] = rows[i]
        /\ rows'[Len(rows) + 1] = row
    BY <1>1
  <2>2. DOMAIN rows' = DOMAIN rows \union {Len(rows) + 1}
    BY <2>1
  <2>3. {rows'[i] : i \in DOMAIN rows'} = {rows[i] : i \in DOMAIN rows} \union {row}
    <3>1. \A i \in DOMAIN rows : rows'[i] = rows[i]
      BY <2>1
    <3>2. rows'[Len(rows) + 1] = row
      BY <2>1
    <3> QED
      BY <2>2, <3>1, <3>2
  <2> QED
    BY <1>1, <2>1, <2>3 DEF WrittenRows
<1>2. CASE lost' = lost \union {row} /\ rows' = rows
  BY <1>2 DEF WrittenRows
<1> QED
  BY <1>1, <1>2 DEF Audit

LEMMA NextShell ==
  ASSUME ShellIInv, [Next]_vars
  PROVE  ShellIInv'
<1>1. rows' = rows /\ lost' = lost => WrittenRows' = WrittenRows
  BY DEF WrittenRows
<1>3. CASE /\ \/ LogParams \/ LogPreflight \/ LogResolve \/ LogOpen \/ LogOpenFails \/ LogRelay
              \/ LogRelayEnd \/ LogCleanup
           /\ UNCHANGED shell
  BY <1>1, <1>3
     DEF LogParams, LogPreflight, LogResolve, LogOpen, LogOpenFails, LogRelay, RelayLine,
         RelayError, RelayDisconnect, First, LogRelayEnd, LogCleanup, Resolve, ResolveInvalid,
         ResolveUnread, StartRelay, Fails, shell, request, ShellIInv, Denied
<1>4. CASE /\ \/ LogRead \/ LogCancelled \/ LogOrphanOpens \/ ViewerLeaves \/ NoticeDisconnect
              \/ PodReplaced
           /\ UNCHANGED shell
  BY <1>1, <1>4, NobodyAssumption
     DEF LogRead, LogCancelled, LogOrphanOpens, ViewerLeaves, NoticeDisconnect, PodReplaced, shell,
         request, ShellIInv, Denied
<1>5. CASE ExecParams \/ ExecResolve
  BY <1>1, <1>5
     DEF ExecParams, ExecResolve, Resolve, ResolveInvalid, ResolveUnread, Fails, shell, request,
         ShellIInv, Denied
<1>6. CASE ExecGate \/ ExecIdentity \/ ExecPreflight \/ ExecOpenFails
  BY <1>1, <1>6, NobodyAssumption
     DEF ExecGate, ExecIdentity, ExecPreflight, ExecOpenFails, Refuse, Fails, request, ShellIInv,
         Denied
<1>7. CASE ExecRefused
  <2>1. refusal.row \in {"denied", "failed"} /\ Audit(refusal.row) /\ pc = "refusal"
    BY <1>7 DEF ExecRefused, ShellIInv
  <2>2. rows' \in Seq(RowNames) /\ WrittenRows' = WrittenRows \union {refusal.row}
    BY <2>1, AuditingAddsARow DEF ShellIInv, RowNames
  <2> QED
    BY <1>7, <2>1, <2>2 DEF ExecRefused, Fails, request, ShellIInv, Denied
<1>8. CASE ExecOpen
  BY <1>1, <1>8 DEF ExecOpen, ShellIInv, Denied
<1>9. CASE ExecRecord
  <2>1. rows' \in Seq(RowNames) /\ WrittenRows' = WrittenRows \union {"opened"}
    BY <1>9, AuditingAddsARow DEF ExecRecord, ShellIInv, RowNames
  <2> QED
    BY <1>9, <2>1 DEF ExecRecord, StartRelay, request, ShellIInv, Denied
<1>10. CASE ExecRead \/ ExecType \/ ChannelCloses
  <2>1. UNCHANGED <<kind, pc, orphan, refusal, sessionOpen, stdin, rows, lost, ran>>
    BY <1>10 DEF ExecRead, ExecType, ChannelCloses, shell, request
  <2> QED
    BY <1>1, <2>1 DEF ShellIInv, Denied
<1>11. CASE ExecInput
  BY <1>1, <1>11 DEF ExecInput, First, Fails, request, ShellIInv, Denied
<1>12. CASE ExecRelay \/ ExecRelayEnd \/ ExecExit
  BY <1>1, <1>12
     DEF ExecRelay, RelayLine, RelayError, RelayDisconnect, ExecRelayEnd, ExecExit, First, Fails,
         shell, request, ShellIInv, Denied
<1>13. CASE ExecCancelled
  BY <1>1, <1>13, NobodyAssumption DEF ExecCancelled, First, shell, request, ShellIInv, Denied
<1>14. CASE ExecOrphanOpens
  BY <1>1, <1>14, NobodyAssumption DEF ExecOrphanOpens, request, ShellIInv, Denied
<1>18. CASE ExecOrphanWrites
  BY <1>1, <1>18, NobodyAssumption DEF ExecOrphanWrites, request, ShellIInv, Denied
<1>15. CASE ExecOrphanRecords
  <2>1. orphan \in {"opened", "denied", "failed"} /\ Audit(orphan)
    BY <1>15 DEF ExecOrphanRecords, ShellIInv
  <2>2. rows' \in Seq(RowNames) /\ WrittenRows' = WrittenRows \union {orphan}
    BY <2>1, AuditingAddsARow DEF ShellIInv, RowNames
  <2> QED
    BY <1>15, <2>1, <2>2, NobodyAssumption DEF ExecOrphanRecords, request, ShellIInv, Denied
<1>16. CASE ExecCleanup
  <2>1. CASE sessionOpen
    <3>1. rows' \in Seq(RowNames) /\ WrittenRows' = WrittenRows \union {"closed"}
      BY <1>16, <2>1, AuditingAddsARow DEF ExecCleanup, ShellIInv, RowNames
    <3> QED
      BY <1>16, <3>1 DEF ExecCleanup, request, ShellIInv, Denied
  <2>2. CASE ~sessionOpen
    BY <1>1, <1>16, <2>2 DEF ExecCleanup, request, ShellIInv, Denied
  <2> QED
    BY <2>1, <2>2
<1>17. CASE UNCHANGED vars
  BY <1>1, <1>17 DEF vars, plumbing, request, shell, ShellIInv, Denied
<1> QED
  BY <1>3, <1>4, <1>5, <1>6, <1>7, <1>8, <1>9, <1>10, <1>11, <1>12, <1>13, <1>14, <1>15, <1>16, <1>17,
     <1>18
     DEF Next, LogNext, LogHandler, ExecNext, ExecHandler

\* No keystroke reaches a shell before its opening is in the trail, no shell the handler
\* held ends without its closing there, and none that was denied runs.
THEOREM ShellsAreRecorded == Spec => []ShellsAreAccountedFor
<1>1. Init => ShellIInv
  BY KindsAssumption, NobodyAssumption
     DEF Init, PlumbingInit, ShellInit, ShellIInv, Denied, WrittenRows
<1>2. ShellIInv /\ [Next]_vars => ShellIInv'
  BY NextShell
<1>3. ShellIInv => ShellsAreAccountedFor
  <2>1. \A row : Written(row) <=> row \in WrittenRows
    BY DEF Written, WrittenRows
  <2> QED
    BY <2>1 DEF ShellIInv, Denied, ShellsAreAccountedFor
<1> QED
  BY <1>1, <1>2, <1>3, PTL DEF Spec
=============================================================================
