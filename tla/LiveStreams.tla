---------------------------- MODULE LiveStreams -----------------------------
(***************************************************************************)
(* One websocket of either endpoint, from accept() to the last thread it   *)
(* leaves behind, and what both promise.                                   *)
(***************************************************************************)
EXTENDS LogStream, ExecSession

vars == <<plumbing, shell>>

Init == PlumbingInit /\ ShellInit

Next ==
  \/ LogNext /\ UNCHANGED shell
  \/ ExecNext
  \/ (ViewerLeaves \/ NoticeDisconnect \/ PodReplaced) /\ UNCHANGED shell

Spec == Init /\ [][Next]_vars

\* A thread is in a call of the exec channel that has no timeout: the handshake, or the
\* write of a frame.
OnTheChannel ==
  /\ kind = "exec"
  /\ pc = "open" \/ First("client") \/ orphan \in {"open", "write"}

\* A reader that is not waiting for the container's output, or would be told to stop.
ReaderRuns == reader # "read" \/ stop

\* The event loop runs the handler and the watcher, and threads run.  Requests and log
\* streams have deadlines, so those calls return; nothing is assumed of the calls of the
\* exec channel.  Nobody has to leave, type or write.
FairSpec ==
  /\ Spec
  /\ WF_vars(LogHandler /\ UNCHANGED shell)
  /\ WF_vars(LogOrphanOpens /\ UNCHANGED shell)
  /\ WF_vars(~OnTheChannel /\ ExecHandler)
  /\ WF_vars(ExecOrphanRecords)
  /\ WF_vars(ReaderRuns /\ LogRead /\ UNCHANGED shell)
  /\ WF_vars(ReaderRuns /\ ExecRead)
  /\ WF_vars(ChannelCloses)
  /\ WF_vars(NoticeDisconnect /\ UNCHANGED shell)

-----------------------------------------------------------------------------
\* The plumbing's locals have their types, and no more lines wait for a slow viewer
\* than there are credits.
TypeOK ==
  /\ PlumbingTypeOK
  /\ orphan \in {NULL, "open", "opened", "denied", "failed", "write"}
  /\ Len(rows) <= 2 /\ Len(stdin) <= typed

IsTerminal(frame) == frame.type \in {"end", "error"}

\* A viewer that stays is told exactly once that the stream is over, and nothing
\* follows it: an error is never followed by the end frame of the finally clause.
OneTerminalFrame ==
  /\ \A i \in DOMAIN wire : IsTerminal(wire[i]) => i = Len(wire)
  /\ pc = "done" /\ viewer = "here" => wire # <<>> /\ IsTerminal(Last(wire))

\* An end frame is the truth about the workload: its output was over, and all of it,
\* a last line without a newline included, was sent before, in order; and the exit
\* code is one the API server reported.
EndIsTheTruth ==
  \A i \in DOMAIN wire :
    wire[i].type = "end" =>
      /\ ended
      /\ SubSeq(wire, 1, i - 1) = [n \in 1..read |-> Log(n)]
      /\ wire[i].code = status

\* Whatever pod answers to the name by the time the channel opens, the container is
\* the one that was named, or the only one there is.
NeverGuesses ==
  channel \in {"open", "closing", "closed"} =>
    IF asked # NULL THEN target = asked ELSE pod.regular = {target}

Written(row) == row \in lost \/ \E i \in DOMAIN rows : rows[i] = row

\* Nothing is typed into a shell before its opening is in the trail, a shell that was
\* handed to the handler has its closing there however it ended, and a denied one
\* was never opened.
ShellsAreAccountedFor ==
  /\ stdin # <<>> => Written("opened")
  /\ pc = "done" /\ sessionOpen => Written("closed")
  /\ Written("denied") => ~ran

\* The handler, its threads and its channel are gone.  A channel that was opened for a
\* handler already cancelled nobody closes: it is dropped.
Over ==
  /\ pc = "done" /\ orphan = NULL /\ reader \in {"none", "done"}
  /\ channel \in {"none", "closed", "dropped"}

\* A viewer that leaves leaves nothing behind, whether the handler is cancelled or hears
\* of it from the watcher, and whatever the reader thread was waiting for; unless a call
\* of the exec channel, which has no timeout, never returns.
NothingLeftBehind == (viewer = "gone" ~> Over) \/ <>[]OnTheChannel

\* exec_ws.py: "Audited on open and on close, as two records": "The open record says
\* a shell was opened and by whom".
EveryShellIsRecorded == ran /\ pc = "done" /\ orphan = NULL => Written("opened")
=============================================================================
