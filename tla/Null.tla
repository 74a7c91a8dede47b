-------------------------------- MODULE Null ---------------------------------
(* No value: what Python calls None. *)
CONSTANT NULL
=============================================================================
