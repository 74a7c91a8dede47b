---------------------------- MODULE MCOperations -----------------------------
(* Operations for TLC: three nodes, and a pod the scheduler may still place. *)
EXTENDS Operations, TLC

MCPodSets == {
  \* managed pods, one with local data, and a daemon
  (1 :> Pod("running", "ReplicaSet", FALSE, TRUE) @@
   2 :> Pod("running", "ReplicaSet", TRUE, TRUE) @@
   3 :> Pod("running", "DaemonSet", FALSE, FALSE)),
  \* a bare pod and a static one
  (1 :> Pod("running", NULL, FALSE, FALSE) @@
   2 :> Pod("running", "ReplicaSet", FALSE, TRUE) @@
   3 :> Pod("mirror", NULL, FALSE, FALSE)),
  \* pods on their way out
  (1 :> Pod("finished", NULL, FALSE, FALSE) @@
   2 :> Pod("running", "ReplicaSet", FALSE, FALSE) @@
   3 :> Pod("terminating", "ReplicaSet", FALSE, TRUE))}
MCDrift == [p \in Page |-> IF p \in {"router", "olm", "routes", "installed"} THEN 1 ELSE 2]
MCNewcomers == 4 :> Pod("running", "ReplicaSet", FALSE, FALSE)
=============================================================================
