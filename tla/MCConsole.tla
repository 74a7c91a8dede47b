----------------------------- MODULE MCConsole ------------------------------
(* Console for TLC: two replicas, two threads, two operators. *)
EXTENDS Console

CONSTANTS p1, p2, t1, t2

MCColumns == <<"external_id", "prev_hash">>

\* Both threads in one process, or one in each.
MCHomes == {[t \in Thread |-> p1], [t \in Thread |-> IF t = t1 THEN p1 ELSE p2]}

Signed(source, name) == [source |-> source, idp_username |-> name, idp_groups |-> {"g"}]

\* Two operators the cluster knows, and one who signed in with a local password.
MCPrincipals == {Signed("oidc", "alice"), Signed("openshift", "bob"), Signed("local", "carol")}

Kind == [tool |-> TRUE, host |-> "loopback", credential |-> "client_certificate"]
Remote == [tool |-> FALSE, host |-> "dns", credential |-> "exec"]
MCKubeconfigs == {NULL, {Kind, Remote}}
=============================================================================
