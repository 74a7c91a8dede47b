----------------------------- MODULE LogStream ------------------------------
(***************************************************************************)
(* WS /api/ws/pods/{ns}/{name}/logs: stream_pod_logs of app/api/logs.py.   *)
(***************************************************************************)
EXTENDS StreamPlumbing

\* Accepted before anything is validated: a bad parameter is an error frame.
LogParams ==
  /\ kind = "logs"
  /\ pc = "accepted"
  /\ \/ pc' = "preflight" /\ UNCHANGED <<terminated, wire>>
     \/ Fails("invalid")
  /\ UNCHANGED <<request, pod, orphan, viewer, stop, channel, source, queue, credit, watcher>>

\* preflight.require on get pods/log.
LogPreflight ==
  /\ kind = "logs"
  /\ pc = "preflight"
  /\ \/ pc' = "resolve" /\ UNCHANGED <<terminated, wire>>
     \/ \E code \in {"rbac_denied", "upstream_error"} : Fails(code)
  /\ UNCHANGED <<request, pod, orphan, viewer, stop, channel, source, queue, credit, watcher>>

LogResolve ==
  /\ kind = "logs"
  /\ \/ Resolve("open") /\ UNCHANGED <<terminated, wire>>
     \/ ResolveInvalid
     \/ ResolveUnread("open")
  /\ UNCHANGED <<kind, asked, target, pod, orphan, viewer, stop, channel, source, queue, credit,
                 watcher>>

\* _open_log_stream, then _relay_lines starts the reader and the watcher.
LogOpen ==
  /\ kind = "logs"
  /\ pc = "open"
  /\ \E c \in Attached(resolved, pod) : target' = c
  /\ channel' = "open"
  /\ StartRelay
  /\ UNCHANGED <<kind, asked, resolved, pod, orphan, viewer, stop, terminated, wire, read,
                 partial, offered, ended, queue, credit>>

LogOpenFails ==
  /\ kind = "logs"
  /\ pc = "open"
  /\ \E code \in {"not_found", "cluster_unreachable"} : Fails(code)
  /\ UNCHANGED <<request, pod, orphan, viewer, stop, channel, source, queue, credit, watcher>>

LogRead ==
  /\ kind = "logs"
  /\ Chunk(TRUE) \/ EndOfOutput \/ ReadFails \/ ReaderStep
  /\ UNCHANGED <<request, pod, pc, orphan, viewer, stop, terminated, wire, channel, watcher>>

LogRelay ==
  /\ kind = "logs"
  /\ RelayLine \/ RelayError \/ RelayDisconnect

LogRelayEnd ==
  /\ kind = "logs"
  /\ First("end")
  /\ Terminate(End(NULL))
  /\ queue' = Tail(queue)
  /\ pc' = "cleanup"
  /\ UNCHANGED <<request, pod, orphan, viewer, stop, channel, source, credit, watcher>>

\* The ASGI server cancels the task of a socket that has gone, at any await.
LogCancelled ==
  /\ kind = "logs"
  /\ viewer = "gone"
  /\ pc \in {"preflight", "resolve", "open", "relay"}
  /\ pc' = "cleanup"
  /\ orphan' = IF pc = "open" THEN "open" ELSE NULL
  /\ UNCHANGED <<request, pod, viewer, stop, terminated, wire, channel, source, queue, credit,
                 watcher>>

\* The worker thread opens the stream for nobody: its response is dropped.
LogOrphanOpens ==
  /\ kind = "logs"
  /\ orphan = "open"
  /\ orphan' = NULL
  /\ channel' \in {channel, "dropped"}
  /\ UNCHANGED <<request, pod, pc, viewer, stop, terminated, wire, source, queue, credit,
                 watcher>>

\* The finally clauses: stop, the watcher, the response, and the default end frame.
LogCleanup ==
  /\ kind = "logs"
  /\ pc = "cleanup"
  /\ stop' = TRUE
  /\ watcher' = IF watcher = "none" THEN "none" ELSE "done"
  /\ channel' = IF channel = "open" THEN "closed" ELSE channel
  /\ Terminate(End(NULL))
  /\ pc' = "done"
  /\ UNCHANGED <<request, pod, orphan, viewer, source, queue, credit>>

LogHandler ==
  LogParams \/ LogPreflight \/ LogResolve \/ LogOpen \/ LogOpenFails \/ LogRelay \/ LogRelayEnd
  \/ LogCleanup

LogNext == LogHandler \/ LogRead \/ LogCancelled \/ LogOrphanOpens
=============================================================================
