---------------------------- MODULE PolicyWriters ----------------------------
(***************************************************************************)
(* podsecurity.py, a namespace's Pod Security labels, and hpa.py, the       *)
(* bounds of a HorizontalPodAutoscaler.                                     *)
(***************************************************************************)
EXTENDS Naturals, Sequences, Facts

Levels == <<"privileged", "baseline", "restricted">>

\* _rank: a level this table does not know has none.
Rank(level) ==
  IF \E i \in 1..3 : Levels[i] = level THEN CHOOSE i \in 1..3 : Levels[i] = level ELSE 0

\* pod_security_row, and what a caller asks for: the modes enforce and warn, and the
\* version enforce is pinned to.
Psa(enforce, warn, pin) == [enforce |-> enforce, warn |-> warn, version |-> pin]
PsaObjects ==
  {Psa(NULL, NULL, NULL), Psa("restricted", "restricted", NULL),
   Psa("baseline", NULL, "latest")}
PsaSurroundings == {NULL}
PsaReadings(around) == {around}
PsaWants ==
  {Psa(NULL, NULL, NULL), Psa("baseline", "baseline", NULL),
   Psa("restricted", NULL, "v1.30"), Psa(NULL, NULL, "v1.30"), Psa("strict", NULL, NULL)}

\* _level, _version: a known level, and no version without one.
PsaValid(wanted) ==
  /\ \A level \in {wanted.enforce, wanted.warn} : level # NULL => Rank(level) > 0
  /\ wanted.version # NULL => wanted.enforce # NULL

PsaRefused(current, seen, wanted) == FALSE

\* consequences_for
PsaCodes(current, seen, wanted) ==
  LET was == current.enforce
      now == wanted.enforce
  IN {c \in {"does_not_evict"} : now # NULL /\ now # was}
       \cup {c \in {"enforcement_removed"} : was # NULL /\ now = NULL}
       \cup {c \in {"lowered"} : Rank(now) > 0 /\ Rank(now) < Rank(was)}
       \cup {c \in {"no_warn_label"} : Rank(now) > 1 /\ wanted.warn # now}
       \cup {c \in {"version_pinned"} :
               now # NULL /\ wanted.version \notin {NULL, "latest"}}

\* build_patch: the three modes and their versions, an absent one removed.
PsaApplied(current, wanted) == wanted

PsaDangers(current, around, wanted) == {}

-----------------------------------------------------------------------------
\* hpa_row: a controller that has not reported leaves NULL.
Hpa(min, max, running, active, able) ==
  [min |-> min, max |-> max, running |-> running, active |-> active, able |-> able]
HpaObjects ==
  {Hpa(1, 3, 2, TRUE, TRUE), Hpa(1, 2, 2, FALSE, TRUE), Hpa(0, 1, NULL, NULL, NULL),
   Hpa(1, 3, 3, TRUE, FALSE)}
HpaSurroundings == {NULL}
HpaReadings(around) == {around}
HpaWants == {[min |-> 1, max |-> 2], [min |-> 0, max |-> 1], [min |-> 3, max |-> 3],
             [min |-> 2, max |-> 1]}

\* _bound, validate_request
HpaValid(wanted) == wanted.max >= 1 /\ wanted.min <= wanted.max

\* check_changed
HpaRefused(current, seen, wanted) ==
  current.min = wanted.min /\ current.max = wanted.max

\* The codes that compare the bounds with what runs.
BoundCodes(running, wanted) ==
  IF running = NULL THEN {"replicas_unknown"}
  ELSE {c \in {"max_below_current"} : wanted.max < running}
         \cup {c \in {"min_above_current"} : wanted.min > running}

\* consequences_for
HpaCodes(current, seen, wanted) ==
  {c \in {"not_scaling"} : current.active = FALSE}
    \cup {c \in {"cannot_reach_target"} : current.able = FALSE}
    \cup BoundCodes(current.running, wanted)
    \cup {c \in {"scale_to_zero_gated"} : wanted.min = 0}

\* build_patch
HpaApplied(current, wanted) == [current EXCEPT !.min = wanted.min, !.max = wanted.max]

HpaDangers(current, around, wanted) == {d \in {{"replicas_unknown"}} : current.running = NULL}
=============================================================================
