-------------------------------- MODULE Facts --------------------------------
(***************************************************************************)
(* What a read of the cluster can give: a value, or UNREAD, when the read   *)
(* failed and an `unavailable` entry says so.                               *)
(***************************************************************************)
EXTENDS Null

CONSTANT UNREAD

ASSUME NullAssumption == NULL \notin BOOLEAN
ASSUME UnreadAssumption == UNREAD \notin BOOLEAN /\ UNREAD # NULL

\* collect(): the reads of a report fail one by one, each leaving its value unknown.
PartialReads(report, readable) ==
  {[fact \in DOMAIN report |-> IF fact \in lost THEN UNREAD ELSE report[fact]] :
     lost \in SUBSET readable}
=============================================================================
