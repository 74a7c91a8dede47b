--------------------------- MODULE NodeScheduling ----------------------------
(***************************************************************************)
(* node_scheduling.py: replacing a node's taints, and replacing its labels. *)
(***************************************************************************)
EXTENDS FiniteSets, Facts

Taint(key, effect, value) == [key |-> key, effect |-> effect, value |-> value]
Dedicated == Taint("dedicated", "NoExecute", "a")
ControlPlane == Taint("control-plane", "NoSchedule", "")
TaintObjects == {{}, {Dedicated}, {ControlPlane}}
TaintWants ==
  {{Dedicated}, {[Dedicated EXCEPT !.value = "b"]}, {},
   {Dedicated, [Dedicated EXCEPT !.value = "b"]}}

\* The pods bound to the node: their controller, whether they tolerate a NoExecute
\* taint, and the node label they select by.
NodePods ==
  {[controller |-> "ReplicaSet", tolerates |-> "forever", selects |-> {"zone"}],
   [controller |-> NULL, tolerates |-> "no", selects |-> {}],
   [controller |-> "DaemonSet", tolerates |-> "seconds", selects |-> {"role"}]}
NodeSurroundings == {[pods |-> {p \in NodePods : p.controller \in cs}] :
                       cs \in {{}, {NULL}, {"DaemonSet"}, {"ReplicaSet", NULL}}}
\* _pods_on
NodeReadings(around) == PartialReads(around, {"pods"})

Identity(taint) == <<taint.key, taint.effect>>

\* validate_taints: one taint per key and effect.
TaintValid(wanted) ==
  \A t, u \in wanted : Identity(t) = Identity(u) => t = u

\* diff_taints: by key and effect; a different value is a change.
Identities(taints) == {Identity(t) : t \in taints}
AddedTaints(current, wanted) == {t \in wanted : Identity(t) \notin Identities(current)}
RemovedTaints(current, wanted) == {t \in current : Identity(t) \notin Identities(wanted)}
ChangedTaints(current, wanted) ==
  {t \in wanted : Identity(t) \in Identities(current) /\ t \notin current}

\* newly_enforced
NewlyEnforced(current, wanted) ==
  {t \in AddedTaints(current, wanted) \cup ChangedTaints(current, wanted) :
     t.effect = "NoExecute"}

\* deletion_plan
DeletedPods(pods, enforced) ==
  {p \in pods : enforced # {} /\ p.tolerates # "forever"}

\* _no_change
TaintRefused(current, seen, wanted) == current = wanted

\* taint_consequences, for the pods the taint deletes
DeletionCodes(deleted) ==
  {c \in {"deletes_pods"} : deleted # {}}
    \cup {c \in {"deletes_unmanaged"} : \E p \in deleted : p.controller = NULL}
    \cup {c \in {"deletes_daemonset"} : \E p \in deleted : p.controller = "DaemonSet"}
    \cup {c \in {"delayed_deletion"} : \E p \in deleted : p.tolerates = "seconds"}

TaintCodes(current, seen, wanted) ==
  LET enforced == NewlyEnforced(current, wanted)
      removed == RemovedTaints(current, wanted)
  IN (IF seen.pods # UNREAD THEN DeletionCodes(DeletedPods(seen.pods, enforced))
      ELSE {c \in {"taint_pods_unknown"} : enforced # {}})
       \cup {c \in {"taint_removed"} : removed # {}}
       \cup {c \in {"control_plane_opened"} : \E t \in removed : t.key = "control-plane"}

\* build_taint_patch: the list is replaced, so the version is what keeps a taint that
\* somebody else added.
TaintApplied(current, wanted) == wanted

\* Every pod the new taints evict, and those nothing brings back.
TaintDangers(current, around, wanted) ==
  LET deleted == {p \in around.pods : p.tolerates # "forever"
                    /\ \E t \in wanted \ current : t.effect = "NoExecute"}
  IN {d \in {{"deletes_pods", "taint_pods_unknown"}} : deleted # {}}
       \cup {d \in {{"deletes_unmanaged", "taint_pods_unknown"}} :
               \E p \in deleted : p.controller = NULL}

-----------------------------------------------------------------------------
\* A node's labels, by key; NULL is a label it does not have.
Labels(role, zone, team) == [role |-> role, zone |-> zone, team |-> team]
LabelObjects == {Labels(NULL, "a", NULL), Labels("infra", "a", "x"), Labels("infra", "b", NULL)}
LabelWants == {NULL, Labels("infra", "a", NULL), Labels(NULL, "b", "x")}

\* validate_labels: a request without labels is not a request to remove them all.
LabelValid(wanted) == wanted # NULL

\* diff_labels
Named(current, wanted) == {k \in DOMAIN current : current[k] # wanted[k]}
RemovedLabels(current, wanted) == {k \in Named(current, wanted) : wanted[k] = NULL}
Touched(current, wanted) == {k \in Named(current, wanted) : current[k] # NULL}

LabelRefused(current, seen, wanted) == Named(current, wanted) = {}

\* label_dependents
Dependents(pods, touched) == {p \in pods : p.selects \cap touched # {}}

\* label_consequences
LabelCodes(current, seen, wanted) ==
  LET touched == Touched(current, wanted)
  IN {c \in {"label_removed"} : RemovedLabels(current, wanted) # {}}
       \cup {c \in {"reserved_prefix"} : Named(current, wanted) \cap {"role", "zone"} # {}}
       \cup {c \in {"role_changed"} : "role" \in Named(current, wanted)}
       \cup (IF seen.pods = UNREAD
             THEN {c \in {"label_pods_unknown"} : touched # {}}
             ELSE {c \in {"pods_depend"} : Dependents(seen.pods, touched) # {}})

\* build_label_patch: only the labels of the diff are removed, the others merged.
LabelApplied(current, wanted) == wanted

\* A pod that selects by a label it will not find on the node again.
LabelDangers(current, around, wanted) ==
  {d \in {{"pods_depend", "label_pods_unknown"}} :
     \E p \in around.pods, k \in DOMAIN current :
       k \in p.selects /\ current[k] # NULL /\ current[k] # wanted[k]}
=============================================================================
