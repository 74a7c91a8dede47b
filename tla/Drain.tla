-------------------------------- MODULE Drain --------------------------------
(***************************************************************************)
(* nodes.py: cordon, and the drain that plans, cordons and evicts the pods  *)
(* of its plan one at a time, while their controllers, other drains and the *)
(* scheduler go on.                                                         *)
(***************************************************************************)
EXTENDS Integers, FiniteSets, Facts

CONSTANTS
  PodSets,               \* bound: the pods a node may hold, by name
  Newcomers              \* pods the scheduler may place while the node is open

VARIABLES
  node,                  \* [cordoned, pods]: the pods bound to the node, by name
  allowed,               \* disruptionsAllowed of the budget over the covered pods
  opts,                  \* the caller's choices
  dpc,
  plan,                  \* the pods that were listed, each with its action
  pdbChecked,
  evictions,             \* the evictions tried: pod name -> accepted or not
  answer,                \* what the caller is told
  drow                   \* the audit row

drain == <<node, allowed, opts, dpc, plan, pdbChecked, evictions, answer, drow>>

\* A pod: "mirror", "terminating", "finished", or one that runs, with its controller.
Pod(state, controller, emptydir, covered) ==
  [state |-> state, controller |-> controller, emptydir |-> emptydir, covered |-> covered]

Pods ==
  [state : {"mirror", "terminating", "finished", "running"},
   controller : {NULL, "ReplicaSet", "DaemonSet"}, emptydir : BOOLEAN, covered : BOOLEAN]

ASSUME PodsAssumption ==
  \A pods \in PodSets \cup {Newcomers} : \A name \in DOMAIN pods : pods[name] \in Pods
\* A drain that is not there is not done.
ASSUME NoDrainAssumption == NULL # "done"

Options == [force : BOOLEAN, ignoreDaemonsets : BOOLEAN, deleteEmptydir : BOOLEAN,
            dryRun : BOOLEAN]

DrainInit ==
  /\ \E pods \in PodSets : node = [cordoned |-> FALSE, pods |-> pods]
  /\ allowed \in 0..1
  /\ opts \in Options
  /\ dpc = "called"
  /\ plan = <<>> /\ pdbChecked = FALSE /\ evictions = <<>>
  /\ answer = NULL /\ drow = NULL

\* controller_ref, _has_emptydir, _blocking_pdb: what stands in the way of a pod that
\* would otherwise be evicted.  A budget that was not read does not.
Blockers(pod, budget) ==
  {b \in {"emptydir"} : pod.emptydir /\ ~opts.deleteEmptydir}
    \cup {b \in {"unmanaged"} : pod.controller = NULL}
    \cup {b \in {"pdb"} : budget # UNREAD /\ pod.covered /\ budget <= 0}

\* classify_pod
Action(pod, budget) ==
  CASE pod.state \in {"mirror", "terminating", "finished"} -> "skip"
    [] pod.state = "running" /\ pod.controller = "DaemonSet" ->
         IF opts.ignoreDaemonsets THEN "skip" ELSE "blocked"
    [] OTHER -> IF Blockers(pod, budget) = {} THEN "evict" ELSE "blocked"

\* build_plan
BuildPlan(pods, budget) == [name \in DOMAIN pods |-> Action(pods[name], budget)]
Count(chosen, action) == Cardinality({n \in DOMAIN chosen : chosen[n] = action})

Answer(drained) == [drained |-> drained, evicted |-> 0, failed |-> 0]

\* read_node, the gate, both preflights, the listing: a failure before the cordon.
DrainFails ==
  /\ dpc \in {"called", "planned"}
  /\ dpc' = "done" /\ drow' = [outcome |-> "failed", evicted |-> NULL]
  /\ UNCHANGED <<node, allowed, opts, plan, pdbChecked, evictions, answer>>

\* _pdb_index, list_node_pods, build_plan; blocked pods stop a drain nobody forced.
MakePlan ==
  /\ dpc = "called"
  /\ \E budget \in {allowed, UNREAD} :
       LET made == BuildPlan(node.pods, budget)
           stopped == Count(made, "blocked") > 0 /\ ~opts.force
       IN /\ plan' = made
          /\ pdbChecked' = (budget # UNREAD)
          /\ dpc' = IF stopped THEN "done" ELSE "planned"
          /\ drow' = IF stopped THEN [outcome |-> "failed", evicted |-> NULL] ELSE drow
  /\ UNCHANGED <<node, allowed, opts, evictions, answer>>

\* _patch_node: a dry run ends here, evicting nothing.
Cordon ==
  /\ dpc = "planned"
  /\ node' = IF opts.dryRun THEN node ELSE [node EXCEPT !.cordoned = TRUE]
  /\ dpc' = IF opts.dryRun THEN "done" ELSE "evicting"
  /\ answer' = IF opts.dryRun THEN Answer(FALSE) ELSE answer
  /\ drow' = IF opts.dryRun THEN [outcome |-> "dry_run", evicted |-> NULL] ELSE drow
  /\ UNCHANGED <<allowed, opts, plan, pdbChecked, evictions>>

\* Fault: a pod that was blocked when the plan was made is left alone.
EvictableOnly == {n \in DOMAIN plan : plan[n] = "evict"} \ DOMAIN evictions

\* A forced drain tries blocked pods too.  The plan is in order of namespace and name.
Pending == {n \in DOMAIN plan : plan[n] # "skip"} \ DOMAIN evictions
NextPod == CHOOSE n \in Pending : \A m \in Pending : n <= m

\* The API server on the eviction subresource: the pod of that name, if there is one and
\* its budget allows.
Accepts(name) ==
  name \in DOMAIN node.pods /\ (node.pods[name].covered => allowed > 0)

\* _post_eviction: refused, not found or unreachable is a failure of this pod, and the
\* next one is tried.
EvictNext ==
  /\ dpc = "evicting" /\ Pending # {}
  /\ \E sent \in BOOLEAN :
       LET accepted == sent /\ Accepts(NextPod)
           ended == [node.pods[NextPod] EXCEPT !.state = "terminating"]
       IN /\ evictions' = [n \in DOMAIN evictions \cup {NextPod} |->
                             IF n = NextPod THEN accepted ELSE evictions[n]]
          /\ IF accepted
             THEN /\ node' = [node EXCEPT !.pods[NextPod] = ended]
                  /\ allowed' = IF node.pods[NextPod].covered THEN allowed - 1 ELSE allowed
             ELSE UNCHANGED <<node, allowed>>
  /\ UNCHANGED <<opts, dpc, plan, pdbChecked, answer, drow>>

\* The counts of the answer, and the sentence of the row, resolved when it is written.
Accepted == {n \in DOMAIN evictions : evictions[n]}
Finish ==
  /\ dpc = "evicting" /\ Pending = {}
  /\ LET failed == Cardinality(DOMAIN evictions \ Accepted)
     IN answer' = [drained |-> failed = 0, evicted |-> Cardinality(Accepted),
                   failed |-> failed]
  /\ drow' = [outcome |-> "applied", evicted |-> Cardinality(Accepted)]
  /\ dpc' = "done"
  /\ UNCHANGED <<node, allowed, opts, plan, pdbChecked, evictions>>

\* Everybody else: a pod goes, another drain spends the budget, the scheduler places a
\* pod on a node that is still open.
PodGoes ==
  \E n \in DOMAIN node.pods :
    /\ n \notin DOMAIN evictions
    /\ node' = [node EXCEPT !.pods = [m \in DOMAIN @ \ {n} |-> @[m]]]
    /\ UNCHANGED allowed

BudgetSpent == allowed = 1 /\ allowed' = 0 /\ UNCHANGED node

PodPlaced ==
  /\ ~node.cordoned
  /\ \E n \in DOMAIN Newcomers \ DOMAIN node.pods :
       node' = [node EXCEPT !.pods =
                  [m \in DOMAIN @ \cup {n} |-> IF m = n THEN Newcomers[n] ELSE @[m]]]
  /\ UNCHANGED allowed

OthersAct ==
  /\ dpc # "done"
  /\ PodGoes \/ BudgetSpent \/ PodPlaced
  /\ UNCHANGED <<opts, dpc, plan, pdbChecked, evictions, answer, drow>>

DrainStep == DrainFails \/ MakePlan \/ Cordon \/ EvictNext \/ Finish
DrainNext == DrainStep \/ OthersAct

-----------------------------------------------------------------------------
\* A pod that is still up: it runs and nobody has asked it to stop.
StillUp == {n \in DOMAIN node.pods : node.pods[n].state = "running"}

\* "drained" is what a machine is switched off on: every pod still up was shown as
\* skipped, or was placed between the listing and the cordon; a drain over blocked pods
\* that nobody forced, and a dry run, leave the node as it was; and the trail counts the
\* pods that were really asked to go.
DrainTellsTheTruth ==
  dpc = "done" =>
    /\ answer # NULL /\ answer.drained =>
         \A n \in StillUp : n \in DOMAIN plan => plan[n] = "skip"
    /\ opts.dryRun \/ (Count(plan, "blocked") > 0 /\ ~opts.force) =>
         ~node.cordoned /\ evictions = <<>>
    /\ drow.outcome = "applied" => drow.evicted = Cardinality(Accepted)
    /\ answer # NULL /\ answer.failed > 0 => ~answer.drained
=============================================================================
