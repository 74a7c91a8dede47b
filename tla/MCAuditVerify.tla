---------------------------- MODULE MCAuditVerify ---------------------------
(* AuditVerify for TLC: the record() calls are interchangeable. *)
EXTENDS AuditVerify

CallSymmetry == Permutations(Call)
=============================================================================
