---------------------------- MODULE ClaimWriters -----------------------------
(***************************************************************************)
(* pvc.py and snapshot.py: growing a PersistentVolumeClaim, and taking a    *)
(* snapshot of it.                                                          *)
(***************************************************************************)
EXTENDS Naturals, Facts

\* claim_state: what both read of a claim.  A request the parser does not know is NULL.
Claim(phase, requested, class, resizing) ==
  [phase |-> phase, requested |-> requested, class |-> class, resizing |-> resizing]

ExpandObjects ==
  {Claim("Bound", 1, "fast", FALSE), Claim("Bound", 2, "fast", TRUE),
   Claim("Bound", 1, NULL, FALSE), Claim("Bound", NULL, "fast", FALSE),
   Claim("Pending", 1, "fast", FALSE)}

\* The StorageClass's allowVolumeExpansion and the pods that mount the claim.
ExpandSurroundings == [allowed : BOOLEAN, mounted : BOOLEAN]
ExpandReadings(around) == PartialReads(around, {"allowed", "mounted"})

ExpandWants == 0..2
\* validate_request
ExpandValid(size) == size > 0

\* expansion_support: NULL when the claim names no class, or its class is unreadable.
ExpansionSupport(claim, seen) ==
  IF claim.class = NULL \/ seen.allowed = UNREAD THEN NULL ELSE seen.allowed

\* check_expandable
ExpandRefused(claim, seen, size) ==
  \/ claim.phase # "Bound"
  \/ claim.requested = NULL
  \/ size <= claim.requested
  \/ ExpansionSupport(claim, seen) = FALSE

ExpandCodes(claim, seen, size) ==
  {"not_immediate", "one_way"}
    \cup {c \in {"expansion_unknown"} : ExpansionSupport(claim, seen) = NULL}
    \cup (CASE seen.mounted = UNREAD -> {"mounts_unknown"}
            [] seen.mounted = TRUE -> {"in_use"}
            [] OTHER -> {})
    \cup {c \in {"resize_pending"} : claim.resizing}

ExpandApplied(claim, size) == [claim EXCEPT !.requested = size]

\* A driver that cannot expand, and a pod that has to be restarted.
ExpandDangers(claim, around, size) ==
  {d \in {{"expansion_unknown"}} : claim.class # NULL /\ ~around.allowed}
    \cup {d \in {{"in_use", "mounts_unknown"}} : around.mounted}

-----------------------------------------------------------------------------
SnapshotObjects == {Claim("Bound", 1, "fast", FALSE), Claim("Pending", 1, "fast", FALSE)}

\* The VolumeSnapshotClasses and their deletion policies.
SnapshotClasses == [name : {"keep", "drop"}, default : BOOLEAN]
Policy(class) == IF class.name = "drop" THEN "Delete" ELSE "Retain"
SnapshotSurroundings ==
  {[classes |-> cs] : cs \in {s \in SUBSET SnapshotClasses :
     \A c, d \in s : c # d => c.name # d.name /\ ~(c.default /\ d.default)}}
SnapshotReadings(around) == PartialReads(around, {"classes"})

\* The class the request names; NULL leaves it to the cluster's default.
SnapshotWants == {NULL, "drop", ""}
\* validate_request: a class that is given has a name.
SnapshotValid(named) == named # ""

\* resolve_class: the class the snapshot gets, NULL when it cannot be told.
ResolveClass(seen, named) ==
  LET match == IF seen.classes = UNREAD THEN {}
               ELSE {c \in seen.classes : IF named = NULL THEN c.default ELSE c.name = named}
  IN IF match = {} THEN NULL ELSE CHOOSE c \in match : TRUE

\* resolve_class: a class that is named and is not there.
SnapshotRefused(claim, seen, named) ==
  named # NULL /\ seen.classes # UNREAD /\ ResolveClass(seen, named) = NULL

SnapshotCodes(claim, seen, named) ==
  {"not_a_backup", "crash_consistent"}
    \cup (CASE ResolveClass(seen, named) = NULL -> {"policy_unknown"}
            [] Policy(ResolveClass(seen, named)) = "Delete" -> {"delete_destroys"}
            [] OTHER -> {})
    \cup {c \in {"claim_not_bound"} : claim.phase # "Bound"}

\* build_snapshot: an object of its own; the claim stays as it is.
SnapshotApplied(claim, named) == claim

\* A class whose policy destroys the data with the snapshot.
SnapshotDangers(claim, around, named) ==
  {d \in {{"delete_destroys", "policy_unknown"}} :
     ResolveClass(around, named) # NULL /\ Policy(ResolveClass(around, named)) = "Delete"}
=============================================================================
