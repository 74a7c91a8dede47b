-------------------------- MODULE OperationsProofs --------------------------
(***************************************************************************)
(* Proofs about Operations.  Its parts share no state, so each has an      *)
(* invariant of its own, which the steps of the others leave alone.        *)
(***************************************************************************)
EXTENDS Operations, FiniteSetTheorems, TLAPS

-----------------------------------------------------------------------------
(* What a writer warns about. *)

\* Whatever a writer reads and whichever of its reads fail: unless it refuses, it names
\* each danger there is, or the read that would have told.
NamesItsDangers(w) ==
  \A o \in WriterObjects(w), a \in WriterSurroundings(w), x \in WriterWants(w) :
    \A r \in WriterReadings(w, a) :
      WriterValid(w, x) /\ ~WriterRefused(w, o, r, x) =>
        \A named \in WriterDangers(w, o, a, x) : named \cap WriterCodes(w, o, r, x) # {}

\* A report's facts are what they are, or unread.
LEMMA PartialReadsAreTrueOrUnread ==
  ASSUME NEW facts, NEW readable, NEW r \in PartialReads(facts, readable), NEW fact \in DOMAIN facts
  PROVE  /\ DOMAIN r = DOMAIN facts
         /\ r[fact] = facts[fact] \/ (fact \in readable /\ r[fact] = UNREAD)
BY DEF PartialReads

LEMMA ExpandNamesItsDangers == NamesItsDangers("expand")
<1> SUFFICES ASSUME NEW o \in ExpandObjects, NEW a \in ExpandSurroundings, NEW x \in ExpandWants,
                    NEW r \in ExpandReadings(a), ~ExpandRefused(o, r, x),
                    NEW named \in ExpandDangers(o, a, x)
             PROVE  named \cap ExpandCodes(o, r, x) # {}
  BY DEF NamesItsDangers, WriterObjects, WriterSurroundings, WriterWants, WriterReadings, WriterRefused,
         WriterDangers, WriterCodes
<1>1. /\ r.allowed = a.allowed \/ r.allowed = UNREAD
      /\ r.mounted = a.mounted \/ r.mounted = UNREAD
  BY PartialReadsAreTrueOrUnread DEF ExpandSurroundings, ExpandReadings
<1>2. CASE named = {"expansion_unknown"} /\ o.class # NULL /\ ~a.allowed
  <2>1. ExpansionSupport(o, r) = NULL
    BY <1>1, <1>2 DEF ExpandRefused, ExpansionSupport, ExpandSurroundings
  <2>2. "expansion_unknown" \in ExpandCodes(o, r, x)
    BY <2>1 DEF ExpandCodes
  <2> QED
    BY <1>2, <2>2
<1>3. CASE named = {"in_use", "mounts_unknown"} /\ a.mounted
  <2>1. a.mounted = TRUE
    BY <1>3 DEF ExpandSurroundings
  <2>2. "mounts_unknown" \in ExpandCodes(o, r, x) \/ "in_use" \in ExpandCodes(o, r, x)
    <3> DEFINE mounts == CASE r.mounted = UNREAD -> {"mounts_unknown"}
                           [] r.mounted = TRUE -> {"in_use"}
                           [] OTHER -> {}
    <3>1. mounts = {"mounts_unknown"} \/ mounts = {"in_use"}
      BY <1>1, <2>1
    <3>2. mounts \subseteq ExpandCodes(o, r, x)
      BY DEF ExpandCodes
    <3> QED
      BY <3>1, <3>2
  <2> QED
    BY <1>3, <2>2
<1> QED
  BY <1>2, <1>3 DEF ExpandDangers

LEMMA SnapshotNamesItsDangers == NamesItsDangers("snapshot")
<1> SUFFICES ASSUME NEW o \in SnapshotObjects, NEW a \in SnapshotSurroundings, NEW x \in SnapshotWants,
                    NEW r \in SnapshotReadings(a), NEW named \in SnapshotDangers(o, a, x)
             PROVE  named \cap SnapshotCodes(o, r, x) # {}
  BY DEF NamesItsDangers, WriterObjects, WriterSurroundings, WriterWants, WriterReadings,
         WriterDangers, WriterCodes
<1>1. r.classes = a.classes \/ r.classes = UNREAD
  BY PartialReadsAreTrueOrUnread DEF SnapshotSurroundings, SnapshotReadings
<1>2. /\ named = {"delete_destroys", "policy_unknown"}
      /\ ResolveClass(a, x) # NULL /\ Policy(ResolveClass(a, x)) = "Delete"
  BY DEF SnapshotDangers
<1>3. CASE r.classes = UNREAD
  <2>1. ResolveClass(r, x) = NULL
    BY <1>3 DEF ResolveClass
  <2> DEFINE policy == CASE ResolveClass(r, x) = NULL -> {"policy_unknown"}
                         [] Policy(ResolveClass(r, x)) = "Delete" -> {"delete_destroys"}
                         [] OTHER -> {}
  <2>2. policy = {"policy_unknown"} \/ policy = {"delete_destroys"}
    BY <2>1
  <2>3. policy \subseteq SnapshotCodes(o, r, x)
    BY DEF SnapshotCodes
  <2> QED
    BY <1>2, <2>2, <2>3
<1>4. CASE r.classes # UNREAD
  <2>1. r = a
    <3>1. PICK cs \in SUBSET SnapshotClasses : a = [classes |-> cs]
      BY DEF SnapshotSurroundings
    <3>2. PICK lost \in SUBSET {"classes"} :
            r = [fact \in DOMAIN a |-> IF fact \in lost THEN UNREAD ELSE a[fact]]
      BY DEF SnapshotReadings, PartialReads
    <3>3. lost = {}
      BY <1>4, <3>1, <3>2
    <3> QED
      BY <3>1, <3>2, <3>3
  <2> DEFINE policy == CASE ResolveClass(r, x) = NULL -> {"policy_unknown"}
                         [] Policy(ResolveClass(r, x)) = "Delete" -> {"delete_destroys"}
                         [] OTHER -> {}
  <2>2. policy = {"delete_destroys"}
    BY <1>2, <2>1
  <2>3. policy \subseteq SnapshotCodes(o, r, x)
    BY DEF SnapshotCodes
  <2> QED
    BY <1>2, <2>2, <2>3
<1> QED
  BY <1>3, <1>4

LEMMA CsrNamesItsDangers == NamesItsDangers("csr")
<1> SUFFICES ASSUME NEW o \in CsrObjects, NEW a \in CsrSurroundings, NEW x \in CsrWants,
                    NEW r \in CsrReadings(a), NEW named \in CsrDangers(o, a, x)
             PROVE  named \cap CsrCodes(o, r, x) # {}
  BY DEF NamesItsDangers, WriterObjects, WriterSurroundings, WriterWants, WriterReadings,
         WriterDangers, WriterCodes
<1> QED
  BY DEF CsrDangers, CsrCodes

LEMMA TaintsNameTheirDangers == NamesItsDangers("taints")
<1> SUFFICES ASSUME NEW o \in TaintObjects, NEW a \in NodeSurroundings, NEW x \in TaintWants,
                    NEW r \in NodeReadings(a), NEW named \in TaintDangers(o, a, x)
             PROVE  named \cap TaintCodes(o, r, x) # {}
  BY DEF NamesItsDangers, WriterObjects, WriterSurroundings, WriterWants, WriterReadings,
         WriterDangers, WriterCodes
<1> DEFINE enforced == NewlyEnforced(o, x)
           deleted == {p \in a.pods : p.tolerates # "forever"
                                         /\ \E t \in x \ o : t.effect = "NoExecute"}
<1>1. r.pods = a.pods \/ r.pods = UNREAD
  BY PartialReadsAreTrueOrUnread DEF NodeSurroundings, NodeReadings
<1>2. (\E t \in x \ o : t.effect = "NoExecute") => enforced # {}
  BY DEF NewlyEnforced, AddedTaints, ChangedTaints
<1>3. deleted \subseteq DeletedPods(a.pods, enforced) /\ (deleted # {} => enforced # {})
  BY <1>2 DEF DeletedPods
<1>4. \/ named = {"deletes_pods", "taint_pods_unknown"} /\ deleted # {}
      \/ named = {"deletes_unmanaged", "taint_pods_unknown"} /\ \E p \in deleted : p.controller = NULL
  BY DEF TaintDangers
<1> HIDE DEF enforced, deleted
<1>5. CASE r.pods = UNREAD
  <2>1. "taint_pods_unknown" \in TaintCodes(o, r, x)
    BY <1>3, <1>4, <1>5 DEF TaintCodes, enforced
  <2> QED
    BY <1>4, <2>1
<1>6. CASE r.pods # UNREAD
  <2>1. r.pods = a.pods /\ DeletionCodes(DeletedPods(a.pods, enforced)) \subseteq TaintCodes(o, r, x)
    BY <1>1, <1>6 DEF TaintCodes, enforced
  <2>2. "deletes_pods" \in named \/ ("deletes_unmanaged" \in named /\ \E p \in deleted : p.controller = NULL)
    BY <1>4
  <2>3. "deletes_pods" \in DeletionCodes(DeletedPods(a.pods, enforced))
    BY <1>3, <1>4 DEF DeletionCodes
  <2>4. (\E p \in deleted : p.controller = NULL) =>
          "deletes_unmanaged" \in DeletionCodes(DeletedPods(a.pods, enforced))
    BY <1>3 DEF DeletionCodes
  <2> QED
    BY <2>1, <2>2, <2>3, <2>4
<1> QED
  BY <1>5, <1>6

LEMMA LabelsNameTheirDangers == NamesItsDangers("labels")
<1> SUFFICES ASSUME NEW o \in LabelObjects, NEW a \in NodeSurroundings, NEW x \in LabelWants,
                    NEW r \in NodeReadings(a), NEW named \in LabelDangers(o, a, x)
             PROVE  named \cap LabelCodes(o, r, x) # {}
  BY DEF NamesItsDangers, WriterObjects, WriterSurroundings, WriterWants, WriterReadings,
         WriterDangers, WriterCodes
<1>1. r.pods = a.pods \/ r.pods = UNREAD
  BY PartialReadsAreTrueOrUnread DEF NodeSurroundings, NodeReadings
<1>2. named = {"pods_depend", "label_pods_unknown"}
  BY DEF LabelDangers
<1>3. PICK p \in a.pods, k \in DOMAIN o : k \in p.selects /\ o[k] # NULL /\ o[k] # x[k]
  BY DEF LabelDangers
<1>4. k \in Touched(o, x) /\ p \in Dependents(a.pods, Touched(o, x))
  BY <1>3 DEF Touched, Named, Dependents
<1>5. CASE r.pods = UNREAD
  <2>1. "label_pods_unknown" \in LabelCodes(o, r, x)
    BY <1>4, <1>5 DEF LabelCodes
  <2> QED
    BY <1>2, <2>1
<1>6. CASE r.pods # UNREAD
  <2>1. "pods_depend" \in LabelCodes(o, r, x)
    BY <1>1, <1>4, <1>6 DEF LabelCodes
  <2> QED
    BY <1>2, <2>1
<1> QED
  BY <1>5, <1>6

LEMMA PoliciesNameTheirDangers == NamesItsDangers("psa") /\ NamesItsDangers("hpa")
<1>1. NamesItsDangers("psa")
  BY DEF NamesItsDangers, WriterDangers, PsaDangers
<1>2. NamesItsDangers("hpa")
  <2> SUFFICES ASSUME NEW o \in HpaObjects, NEW a \in HpaSurroundings, NEW x \in HpaWants,
                      NEW r \in HpaReadings(a), NEW named \in HpaDangers(o, a, x)
               PROVE  named \cap HpaCodes(o, r, x) # {}
    BY DEF NamesItsDangers, WriterObjects, WriterSurroundings, WriterWants, WriterReadings,
           WriterDangers, WriterCodes
  <2> QED
    BY DEF HpaDangers, HpaCodes, BoundCodes
<1> QED
  BY <1>1, <1>2

LEMMA GrantNamesItsDangers == NamesItsDangers("grant")
<1> SUFFICES ASSUME NEW o \in GrantObjects, NEW a \in GrantSurroundings, NEW x \in GrantWants,
                    NEW r \in GrantReadings(a), NEW named \in GrantDangers(o, a, x)
             PROVE  named \cap GrantCodes(o, r, x) # {}
  BY DEF NamesItsDangers, WriterObjects, WriterSurroundings, WriterWants, WriterReadings,
         WriterDangers, WriterCodes
<1>1. /\ r.role = a.role \/ r.role = UNREAD
      /\ r.cluster = a.cluster \/ r.cluster = UNREAD
      /\ r.here = a.here /\ a.here \in BOOLEAN /\ a.cluster \in BOOLEAN
  <2>1. DOMAIN a = {"role", "here", "cluster", "twins", "taken"} /\ a.here \in BOOLEAN /\ a.cluster \in BOOLEAN
    <3>1. \/ \E role \in Powers, h \in BOOLEAN, c \in BOOLEAN :
               a = [role |-> role, here |-> h, cluster |-> c, twins |-> FALSE, taken |-> FALSE]
          \/ \E role \in {NULL, {"absent"}}, t \in BOOLEAN :
               a = [role |-> role, here |-> FALSE, cluster |-> FALSE, twins |-> t, taken |-> ~t]
      BY DEF GrantSurroundings
    <3>2. CASE \E role \in Powers, h \in BOOLEAN, c \in BOOLEAN :
                 a = [role |-> role, here |-> h, cluster |-> c, twins |-> FALSE, taken |-> FALSE]
      BY <3>2
    <3>3. CASE \E role \in {NULL, {"absent"}}, t \in BOOLEAN :
                 a = [role |-> role, here |-> FALSE, cluster |-> FALSE, twins |-> t, taken |-> ~t]
      BY <3>3
    <3> QED
      BY <3>1, <3>2, <3>3
  <2> QED
    BY <2>1, PartialReadsAreTrueOrUnread DEF GrantReadings
<1>2. CASE x.operation = "revoke"
  <2>1. named = {"access_remains", "residual_unknown"} /\ (a.here \/ a.cluster)
    BY <1>2 DEF GrantDangers
  <2>2. GrantCodes(o, r, x) = ResidualCodes(r)
    BY <1>2 DEF GrantCodes
  <2>3. "access_remains" \in ResidualCodes(r) \/ "residual_unknown" \in ResidualCodes(r)
    BY <1>1, <2>1 DEF ResidualCodes
  <2> QED
    BY <2>1, <2>2, <2>3
<1>3. CASE x.operation # "revoke"
  <2>1. GrantCodes(o, r, x) = PowerCodes(Capability(r)) \cup RoleCodes(r)
    BY <1>3 DEF GrantCodes, GrantWants
  <2>2. /\ "role_unreadable" \in named /\ a.role # NULL
        /\ \/ "full_control" \in named /\ "full_control" \in a.role
           \/ "secret_access" \in named /\ "secret_read" \in a.role
    BY <1>3 DEF GrantDangers
  <2>3. CASE r.role = UNREAD
    <3>1. "role_unreadable" \in RoleCodes(r)
      BY <2>3, RoleAssumption, UnreadAssumption DEF RoleCodes
    <3> QED
      BY <2>1, <2>2, <3>1
  <2>4. CASE r.role # UNREAD
    <3>1. r.role = a.role /\ a.role \in Powers
      BY <1>1, <2>2, <2>4 DEF GrantSurroundings
    <3>2. Capability(r) = a.role
      BY <2>2, <2>4, <3>1 DEF Capability
    <3>3. CASE "full_control" \in a.role
      BY <2>1, <2>2, <3>1, <3>2, <3>3 DEF PowerCodes, Powers
    <3>4. CASE "full_control" \notin a.role
      <4>1. "secret_access" \in named /\ "secret_read" \in a.role
        BY <2>2, <3>4
      <4>2. "secret_access" \in PowerCodes(a.role)
        BY <3>4, <4>1 DEF PowerCodes
      <4> QED
        BY <2>1, <3>2, <4>1, <4>2
    <3> QED
      BY <3>3, <3>4
  <2> QED
    BY <2>3, <2>4
<1> QED
  BY <1>2, <1>3

LEMMA NamespaceNamesItsDangers ==
  ASSUME ~Gaps
  PROVE  NamesItsDangers("namespace")
<1> SUFFICES ASSUME NEW o \in NamespaceObjects, NEW a \in NamespaceSurroundings, NEW x \in NamespaceWants,
                    NEW r \in NamespaceReadings(a), NEW named \in NamespaceDangers(o, a, x)
             PROVE  named \cap NamespaceCodes(o, r, x) # {}
  BY DEF NamesItsDangers, WriterObjects, WriterSurroundings, WriterWants, WriterReadings,
         WriterDangers, WriterCodes
<1>1. PICK volumes \in {{}, {"Delete", "Retain"}, {"Delete"}},
           balancers \in BOOLEAN, finalizers \in BOOLEAN, webhooks \in BOOLEAN :
        a = Contents(volumes, balancers, finalizers, webhooks)
  BY DEF NamespaceSurroundings
<1>2. /\ DOMAIN a = {"discovered", "claims", "volumes", "services", "finalizers", "validating", "mutating"}
      /\ a.claims \in {{}, {"Delete", "Retain"}, {"Delete"}} /\ a.volumes = TRUE
      /\ a.services \in BOOLEAN /\ a.validating \in BOOLEAN
  BY <1>1 DEF Contents
<1>3. /\ r.discovered # UNREAD
      /\ (r.validating = UNREAD) <=> (r.mutating = UNREAD)
      /\ r \in PartialReads(a, DOMAIN a \ {"finalizers"})
  BY DEF NamespaceReadings
<1>4. /\ r.claims = a.claims \/ r.claims = UNREAD
      /\ r.volumes = a.volumes \/ r.volumes = UNREAD
      /\ r.services = a.services \/ r.services = UNREAD
      /\ r.validating = a.validating \/ r.validating = UNREAD
  BY <1>2, <1>3, PartialReadsAreTrueOrUnread
<1>5. CASE named = {"destroys_volume_data", "volume_fate_unknown", "inventory_incomplete"}
           /\ "Delete" \in a.claims
  <2>1. CASE r.claims = UNREAD
    BY <1>3, <1>5, <2>1 DEF NamespaceCodes, Incomplete
  <2>2. CASE r.claims # UNREAD /\ r.volumes = UNREAD
    <3>1. NULL \in VolumeFates(r)
      BY <1>3, <1>4, <1>5, <2>2 DEF VolumeFates, Listed
    <3> QED
      BY <1>5, <3>1 DEF NamespaceCodes
  <2>3. CASE r.claims # UNREAD /\ r.volumes # UNREAD
    <3>1. "Delete" \in VolumeFates(r)
      BY <1>3, <1>4, <1>5, <2>3 DEF VolumeFates, Listed
    <3> QED
      BY <1>5, <3>1 DEF NamespaceCodes
  <2> QED
    BY <2>1, <2>2, <2>3
<1>6. CASE named = {"drops_load_balancer", "inventory_incomplete"} /\ a.services
  <2>1. CASE r.services = UNREAD
    BY <1>3, <1>6, <2>1 DEF NamespaceCodes, Incomplete
  <2>2. CASE r.services # UNREAD
    <3>1. LoadBalancers(r)
      BY <1>2, <1>3, <1>4, <1>6, <2>2 DEF LoadBalancers, Listed
    <3> QED
      BY <1>6, <3>1 DEF NamespaceCodes
  <2> QED
    BY <2>1, <2>2
<1>7. CASE named = {"breaks_admission_webhook"} /\ a.validating
  <2>1. WebhookBackends(r) # FALSE
    BY <1>2, <1>3, <1>4, <1>7, UnreadAssumption DEF WebhookBackends
  <2> QED
    BY <1>7, <2>1 DEF NamespaceCodes
<1> QED
  BY <1>5, <1>6, <1>7 DEF NamespaceDangers

LEMMA SubscribeNamesItsDangers == NamesItsDangers("subscribe")
<1> SUFFICES ASSUME NEW o \in SubscribeObjects, NEW a \in SubscribeSurroundings, NEW x \in SubscribeWants,
                    NEW r \in SubscribeReadings(a), NEW named \in SubscribeDangers(o, a, x)
             PROVE  named \cap SubscribeCodes(o, r, x) # {}
  BY DEF NamesItsDangers, WriterObjects, WriterSurroundings, WriterWants, WriterReadings,
         WriterDangers, WriterCodes
<1>1. /\ r.groups = a.groups \/ r.groups = UNREAD
      /\ r.subscribed = a.subscribed \/ r.subscribed = UNREAD
      /\ r.modes = a.modes /\ a.subscribed \in BOOLEAN
  BY PartialReadsAreTrueOrUnread DEF SubscribeSurroundings, SubscribeReadings
<1>2. TargetCodes(r) \subseteq SubscribeCodes(o, r, x)
  BY DEF SubscribeCodes
<1>3. CASE r.groups = UNREAD /\ "operator_group_unknown" \in named
  <2>1. "operator_group_unknown" \in TargetCodes(r)
    BY <1>3 DEF TargetCodes
  <2> QED
    BY <1>2, <1>3, <2>1
<1>4. CASE r.groups # UNREAD /\ "no_operator_group" \in named /\ a.groups = {}
  <2>1. "no_operator_group" \in TargetCodes(r)
    BY <1>1, <1>4 DEF TargetCodes
  <2> QED
    BY <1>2, <1>4, <2>1
<1>5. CASE r.groups # UNREAD /\ "too_many_operator_groups" \in named /\ Cardinality(a.groups) > 1
  <2>1. a.groups # {}
    BY <1>5, FS_EmptySet
  <2>2. "too_many_operator_groups" \in TargetCodes(r)
    BY <1>1, <1>5, <2>1 DEF TargetCodes
  <2> QED
    BY <1>2, <1>5, <2>2
<1>6. ASSUME r.groups # UNREAD, "install_mode_unsupported" \in named,
             NEW g, a.groups = {g}, g # NULL, a.modes # UNREAD, g \notin a.modes
      PROVE  named \cap SubscribeCodes(o, r, x) # {}
  <2>1. Cardinality(r.groups) = 1 /\ r.groups = {g}
    BY <1>1, <1>6, FS_Singleton
  <2>2. (CHOOSE y \in {g} : TRUE) = g
    OBVIOUS
  <2>3. TargetCodes(r) = {c \in {"install_mode_unsupported"} : g \notin r.modes}
    BY <1>1, <1>6, <2>1, <2>2 DEF TargetCodes
  <2>4. "install_mode_unsupported" \in TargetCodes(r)
    BY <1>1, <1>6, <2>3
  <2> QED
    BY <1>2, <1>6, <2>4
<1>7. CASE named = {"already_subscribed", "subscriptions_unknown"} /\ a.subscribed
  <2> DEFINE subscribed == CASE r.subscribed = UNREAD -> {"subscriptions_unknown"}
                             [] r.subscribed # UNREAD /\ (r.subscribed \/ o # NULL) ->
                                  {"already_subscribed"}
                             [] OTHER -> {}
  <2>1. CASE r.subscribed = UNREAD
    <3>1. subscribed = {"subscriptions_unknown"}
      BY <1>1, <2>1, UnreadAssumption
    <3> QED
      BY <1>7, <3>1 DEF SubscribeCodes
  <2>2. CASE r.subscribed # UNREAD
    <3>1. subscribed = {"already_subscribed"}
      BY <1>1, <1>7, <2>2
    <3> QED
      BY <1>7, <3>1 DEF SubscribeCodes
  <2> QED
    BY <2>1, <2>2
<1> QED
  BY <1>3, <1>4, <1>5, <1>6, <1>7 DEF SubscribeDangers

\* Every writer does, as long as discovery of the core group answers and the webhook
\* listings fail together.
LEMMA WritersNameTheirDangers ==
  ASSUME ~Gaps, NEW w \in Writers
  PROVE  NamesItsDangers(w)
BY WritersAssumption, ExpandNamesItsDangers, SnapshotNamesItsDangers, CsrNamesItsDangers, TaintsNameTheirDangers,
   LabelsNameTheirDangers, PoliciesNameTheirDangers, GrantNamesItsDangers, NamespaceNamesItsDangers,
   SubscribeNamesItsDangers DEF WriterNames

-----------------------------------------------------------------------------
(* The handshake. *)

HandshakeTypes ==
  /\ writer \in Writers /\ want \in WriterWants(writer)
  /\ around \in WriterSurroundings(writer) /\ version \in Nat
  /\ pc \in {"idle", "planned", "called", "read", "admitted", "answered"}
  /\ shown = NULL \/ shown.version \in Nat \cup {NULL}

\* Nothing is applied before the answer; after it nothing happens.
Undecided == pc # "answered" => row # "applied" /\ object \in WriterObjects(writer)

\* A request that is served is a valid one.
Served ==
  pc \in {"called", "read", "admitted"} =>
    WriterValid(writer, want) /\ request.version \in Nat \cup {NULL}

\* What the write read was the object, and still is while the version is the same.
SeenWasLive ==
  pc \in {"read", "admitted"} =>
    /\ DOMAIN seen = {"object", "version", "around"}
    /\ seen.object \in WriterObjects(writer)
    /\ seen.object # NULL =>
         /\ seen.version \in Nat /\ seen.version <= version
         /\ seen.version = version => object = seen.object
         /\ request.version \in {NULL, seen.version}

\* What was read was neither refused nor unaccepted.
Admission ==
  /\ WriterValid(writer, want)
  /\ truth \in WriterSurroundings(writer) /\ seen.around \in WriterReadings(writer, truth)
  /\ seen.object \in WriterObjects(writer)
  /\ ~WriterRefused(writer, seen.object, seen.around, want)
  /\ WriterCodes(writer, seen.object, seen.around, want) \subseteq request.codes

AdmittedWasAccepted == pc = "admitted" => Admission

AppliedWasSeen ==
  row = "applied" =>
    Admission /\ (WriterConditional(writer, landed) => landed = seen.object)

HandshakeInvariant ==
  IF part = "handshake"
  THEN HandshakeTypes /\ Undecided /\ Served /\ SeenWasLive /\ AdmittedWasAccepted /\ AppliedWasSeen
  ELSE row = NULL

\* A session starts with everything to be read.
LEMMA HandshakeStarts == Init => HandshakeInvariant
<1> SUFFICES ASSUME Init
             PROVE  HandshakeInvariant
  OBVIOUS
<1>1. CASE part = "handshake"
  BY <1>1, NothingAssumption DEF Init, HandshakeInit, HandshakeInvariant, HandshakeTypes, Undecided, Served,
     SeenWasLive, AdmittedWasAccepted, AppliedWasSeen
<1>2. CASE part # "handshake"
  BY <1>2 DEF Init, NoHandshake, HandshakeInvariant
<1> QED
  BY <1>1, <1>2

\* Each request of the session, and each change by others, keeps it.
LEMMA HandshakeGoesOn ==
  ASSUME part = "handshake", HandshakeInvariant, HandshakeNext, part' = part
  PROVE  HandshakeInvariant'
<1> USE DEF HandshakeInvariant
<1> SUFFICES (HandshakeTypes /\ Undecided /\ Served /\ SeenWasLive /\ AdmittedWasAccepted /\ AppliedWasSeen)'
  OBVIOUS
<1>1. CASE Plan
  <2>1. HandshakeTypes'
    BY <1>1 DEF Plan, HandshakeTypes, VersionOf
  <2> QED
    BY <1>1, <2>1 DEF Plan, Undecided, Served, SeenWasLive, AdmittedWasAccepted, AppliedWasSeen
<1>2. CASE Submit
  <2>1. HandshakeTypes'
    BY <1>2 DEF Submit, HandshakeTypes
  <2>2. Served'
    BY <1>2 DEF Submit, Served, HandshakeTypes, Missing
  <2> QED
    BY <1>2, <2>1, <2>2 DEF Submit, Undecided, SeenWasLive, AdmittedWasAccepted, AppliedWasSeen
<1>3. CASE ReadLive
  <2>1. HandshakeTypes' /\ Undecided' /\ AppliedWasSeen' /\ AdmittedWasAccepted'
    BY <1>3 DEF ReadLive, HandshakeTypes, Undecided, AdmittedWasAccepted, AppliedWasSeen
  <2>2. Served'
    BY <1>3 DEF ReadLive, Served, HandshakeTypes
  <2>3. SeenWasLive'
    BY <1>3, NothingAssumption DEF ReadLive, SeenWasLive, Served, Undecided, HandshakeTypes, Stale, VersionOf
  <2> QED
    BY <2>1, <2>2, <2>3
<1>4. CASE Recompute
  <2>1. PICK reading \in WriterReadings(writer, around) :
          /\ seen' = [seen EXCEPT !.around = reading]
          /\ pc' \in {"admitted", "answered"}
          /\ pc' = "admitted" =>
               /\ ~WriterRefused(writer, seen.object, reading, want)
               /\ WriterCodes(writer, seen.object, reading, want) \subseteq request.codes
    BY <1>4 DEF Recompute, Acknowledged
  <2>2. /\ DOMAIN seen' = DOMAIN seen /\ seen'.object = seen.object /\ seen'.version = seen.version
        /\ seen'.around = reading
    BY <1>4, <2>1 DEF Recompute, SeenWasLive
  <2>3. HandshakeTypes' /\ Undecided' /\ Served'
    BY <1>4, <2>1 DEF Recompute, HandshakeTypes, Undecided, Served
  <2>4. SeenWasLive'
    BY <1>4, <2>2 DEF Recompute, SeenWasLive
  <2>5. AdmittedWasAccepted'
    BY <1>4, <2>1, <2>2 DEF Recompute, AdmittedWasAccepted, Admission, SeenWasLive, Served, HandshakeTypes
  <2>6. AppliedWasSeen'
    BY <1>4 DEF Recompute, AppliedWasSeen, Undecided
  <2> QED
    BY <2>3, <2>4, <2>5, <2>6
<1>5. CASE Land
  <2>1. HandshakeTypes' /\ Undecided' /\ Served' /\ SeenWasLive' /\ AdmittedWasAccepted'
    BY <1>5 DEF Land, HandshakeTypes, Undecided, Served, SeenWasLive, AdmittedWasAccepted
  <2>2. AppliedWasSeen'
    <3> SUFFICES ASSUME Precondition
                 PROVE  AppliedWasSeen'
      BY <1>5 DEF Land, AppliedWasSeen
    <3>1. Admission'
      BY <1>5 DEF Land, Admission, AdmittedWasAccepted
    <3>2. ASSUME WriterConditional(writer, object)
          PROVE  object = seen.object
      <4>1. object # NULL /\ seen.object # NULL /\ WriterConditional(writer, seen.object)
        BY <3>2 DEF Precondition, WriterConditional
      <4>2. SentOrLive = version
        BY <4>1 DEF Precondition
      <4> QED
        BY <1>5, <4>1, <4>2, NothingAssumption DEF Land, SentOrLive, SeenWasLive, HandshakeTypes
    <3> QED
      BY <1>5, <3>1, <3>2 DEF Land, AppliedWasSeen
  <2> QED
    BY <2>1, <2>2
<1>6. CASE Refuse
  BY <1>6 DEF Refuse, HandshakeTypes, Undecided, Served, SeenWasLive, AdmittedWasAccepted, AppliedWasSeen
<1>7. CASE Moves
  <2>1. /\ pc # "answered" /\ version' \in Nat /\ version <= version'
        /\ version' = version => object' = object
        /\ object' \in WriterObjects(writer) /\ around' \in WriterSurroundings(writer)
    BY <1>7 DEF Moves, HandshakeTypes, Undecided
  <2>2. HandshakeTypes' /\ Undecided' /\ Served'
    BY <1>7, <2>1 DEF Moves, HandshakeTypes, Undecided, Served
  <2>3. SeenWasLive'
    BY <1>7, <2>1 DEF Moves, SeenWasLive, HandshakeTypes
  <2>4. AdmittedWasAccepted' /\ AppliedWasSeen'
    BY <1>7 DEF Moves, AdmittedWasAccepted, AppliedWasSeen, Admission
  <2> QED
    BY <2>2, <2>3, <2>4
<1> QED
  BY <1>1, <1>2, <1>3, <1>4, <1>5, <1>6, <1>7 DEF HandshakeNext, HandshakeStep

\* The session's invariant holds for every set of writers and however often others
\* change the cluster.
THEOREM HandshakeInvariantHolds == Spec => []HandshakeInvariant
<1>1. HandshakeInvariant /\ [Next]_vars => HandshakeInvariant'
  <2> SUFFICES ASSUME HandshakeInvariant, [Next]_vars
               PROVE  HandshakeInvariant'
    OBVIOUS
  <2>1. CASE part = "handshake" /\ HandshakeNext /\ part' = part
    BY <2>1, HandshakeGoesOn
  <2>2. CASE part' = part /\ UNCHANGED handshake
    BY <2>2 DEF handshake, HandshakeInvariant, HandshakeTypes, Undecided, Served, SeenWasLive, AdmittedWasAccepted,
       AppliedWasSeen, Admission
  <2> QED
    BY <2>1, <2>2 DEF Next, vars
<1> QED
  BY <1>1, HandshakeStarts, PTL DEF Spec

\* routes of every plan, acknowledge, write handshake (node_scheduling.py, pvc.py, csr.py
\* and the others): what a write with a version replaces is what its caller accepted.
THEOREM AcceptedBeforeItLands == Spec => []WhatLandsWasAccepted
<1>1. HandshakeInvariant => WhatLandsWasAccepted
  BY NothingAssumption DEF HandshakeInvariant, AppliedWasSeen, Admission, WhatLandsWasAccepted
<1> QED
  BY <1>1, HandshakeInvariantHolds, PTL

\* collect() and consequences_for of every writer: a fact that could not be read is never
\* taken as harmless, as long as neither discovery of the core group nor one webhook
\* listing alone fails.
THEOREM UnreadFactsAreAnnounced ==
  ASSUME ~Gaps
  PROVE  Spec => []UnreadIsNeverSafe
<1>1. HandshakeInvariant => UnreadIsNeverSafe
  <2> SUFFICES ASSUME HandshakeInvariant, row = "applied",
                      NEW named \in WriterDangers(writer, seen.object, truth, want)
               PROVE  named \cap request.codes # {}
    BY DEF UnreadIsNeverSafe
  <2>1. Admission /\ HandshakeTypes
    BY NothingAssumption DEF HandshakeInvariant, AppliedWasSeen
  <2>2. NamesItsDangers(writer)
    BY <2>1, WritersNameTheirDangers DEF HandshakeTypes
  <2>3. named \cap WriterCodes(writer, seen.object, seen.around, want) # {}
    BY <2>1, <2>2 DEF NamesItsDangers, Admission, HandshakeTypes
  <2> QED
    BY <2>1, <2>3 DEF Admission
<1> QED
  BY <1>1, HandshakeInvariantHolds, PTL

-----------------------------------------------------------------------------
(* The drain. *)

DrainTypes ==
  /\ dpc \in {"called", "planned", "evicting", "done"}
  /\ DOMAIN node = {"cordoned", "pods"} /\ node.cordoned \in BOOLEAN
  /\ \A n \in DOMAIN node.pods : node.pods[n] \in Pods
  /\ IsFiniteSet(DOMAIN evictions)

\* Blocked pods that nobody forced.
Stopped == Count(plan, "blocked") > 0 /\ ~opts.force

\* The node is as it was, and nothing has been said, until the cordon.
UntouchedBeforeCordon ==
  /\ dpc \in {"called", "planned"} => ~node.cordoned /\ evictions = <<>> /\ answer = NULL
  /\ dpc = "planned" => ~Stopped

EvictsOnACordonedNode ==
  dpc = "evicting" => node.cordoned /\ ~opts.dryRun /\ ~Stopped

\* A pod whose eviction was accepted has been asked to stop.
EvictedPodsStop == \A n \in Accepted \cap DOMAIN node.pods : node.pods[n].state # "running"

DrainInvariant ==
  IF part = "drain"
  THEN DrainTypes /\ UntouchedBeforeCordon /\ EvictsOnACordonedNode /\ EvictedPodsStop /\ DrainTellsTheTruth
  ELSE dpc = NULL

LEMMA DrainStarts == Init => DrainInvariant
<1> SUFFICES ASSUME Init
             PROVE  DrainInvariant
  OBVIOUS
<1>1. CASE part = "drain"
  <2>1. PICK pods \in PodSets : node = [cordoned |-> FALSE, pods |-> pods]
    BY <1>1 DEF Init, DrainInit
  <2>2. evictions = <<>> /\ DOMAIN evictions = {} /\ IsFiniteSet({})
    BY <1>1, FS_EmptySet DEF Init, DrainInit
  <2>3. DrainTypes
    BY <1>1, <2>1, <2>2, PodsAssumption DEF Init, DrainInit, DrainTypes
  <2> QED
    BY <1>1, <2>1, <2>2, <2>3 DEF Init, DrainInit, DrainInvariant, UntouchedBeforeCordon, EvictsOnACordonedNode,
       EvictedPodsStop, Accepted, DrainTellsTheTruth
<1>2. CASE part # "drain"
  BY <1>2 DEF Init, NoDrain, DrainInvariant
<1> QED
  BY <1>1, <1>2

\* One eviction more, refused or accepted.
LEMMA EvictionKeepsTheDrain ==
  ASSUME DrainTypes, EvictsOnACordonedNode, EvictedPodsStop, EvictNext
  PROVE  DrainTypes' /\ EvictsOnACordonedNode' /\ EvictedPodsStop'
<1> DEFINE pod == NextPod
<1>1. PICK arrived \in BOOLEAN :
        /\ evictions' = [n \in DOMAIN evictions \cup {pod} |->
                            IF n = pod THEN arrived /\ Accepts(pod) ELSE evictions[n]]
        /\ IF arrived /\ Accepts(pod)
           THEN node' = [node EXCEPT !.pods[pod] = [node.pods[pod] EXCEPT !.state = "terminating"]]
           ELSE node' = node
  BY DEF EvictNext
<1>2. dpc' = dpc /\ opts' = opts /\ plan' = plan /\ dpc = "evicting"
  BY DEF EvictNext
<1> HIDE DEF pod
<1>3. DOMAIN evictions' = DOMAIN evictions \cup {pod} /\ IsFiniteSet(DOMAIN evictions')
  BY <1>1, FS_AddElement DEF DrainTypes
<1>4. CASE arrived /\ Accepts(pod)
  <2>1. pod \in DOMAIN node.pods
    BY <1>4 DEF Accepts
  <2>2. /\ DOMAIN node' = DOMAIN node /\ node'.cordoned = node.cordoned
        /\ node'.pods = [node.pods EXCEPT ![pod] = [node.pods[pod] EXCEPT !.state = "terminating"]]
    BY <1>1, <1>4 DEF DrainTypes
  <2>3. /\ DOMAIN node'.pods = DOMAIN node.pods
        /\ node'.pods[pod] = [node.pods[pod] EXCEPT !.state = "terminating"]
        /\ \A n \in DOMAIN node.pods : n # pod => node'.pods[n] = node.pods[n]
    BY <2>1, <2>2
  <2>4. node'.pods[pod] \in Pods /\ node'.pods[pod].state = "terminating"
    BY <2>1, <2>3 DEF DrainTypes, Pods
  <2>5. \A n \in DOMAIN node'.pods : node'.pods[n] \in Pods
    BY <2>3, <2>4 DEF DrainTypes
  <2>6. EvictedPodsStop'
    BY <1>1, <1>3, <2>3, <2>4 DEF EvictedPodsStop, Accepted
  <2> QED
    BY <1>2, <1>3, <2>2, <2>5, <2>6 DEF DrainTypes, EvictsOnACordonedNode, Stopped
<1>5. CASE ~(arrived /\ Accepts(pod))
  <2>1. node' = node
    BY <1>1, <1>5
  <2>2. EvictedPodsStop'
    BY <1>1, <1>3, <1>5, <2>1 DEF EvictedPodsStop, Accepted
  <2> QED
    BY <1>2, <1>3, <2>1, <2>2 DEF DrainTypes, EvictsOnACordonedNode, Stopped
<1> QED
  BY <1>4, <1>5

\* A pod that goes, or that is placed while the node is open.
LEMMA OthersKeepTheDrain ==
  ASSUME DrainTypes, UntouchedBeforeCordon, EvictsOnACordonedNode, EvictedPodsStop, OthersAct
  PROVE  (DrainTypes /\ UntouchedBeforeCordon /\ EvictsOnACordonedNode /\ EvictedPodsStop)'
<1>1. /\ UNCHANGED <<opts, dpc, plan, evictions, answer>>
      /\ dpc # "done"
  BY DEF OthersAct
<1> SUFFICES /\ DOMAIN node' = DOMAIN node /\ node'.cordoned = node.cordoned
             /\ \A n \in DOMAIN node'.pods :
                  /\ node'.pods[n] \in Pods
                  /\ n \in Accepted => node'.pods[n].state # "running"
  BY <1>1 DEF DrainTypes, UntouchedBeforeCordon, EvictsOnACordonedNode, EvictedPodsStop, Accepted, Stopped
<1>2. CASE PodGoes
  <2>1. PICK n \in DOMAIN node.pods : node' = [node EXCEPT !.pods = [m \in DOMAIN @ \ {n} |-> @[m]]]
    BY <1>2 DEF PodGoes
  <2>2. node'.pods = [m \in DOMAIN node.pods \ {n} |-> node.pods[m]]
    BY <2>1 DEF DrainTypes
  <2> QED
    BY <2>1, <2>2 DEF DrainTypes, EvictedPodsStop
<1>3. CASE BudgetSpent
  BY <1>3 DEF BudgetSpent, DrainTypes, EvictedPodsStop
<1>4. CASE PodPlaced
  <2>1. PICK n \in DOMAIN Newcomers \ DOMAIN node.pods :
          node' = [node EXCEPT !.pods =
                     [m \in DOMAIN @ \cup {n} |-> IF m = n THEN Newcomers[n] ELSE @[m]]]
    BY <1>4 DEF PodPlaced
  <2>2. node'.pods = [m \in DOMAIN node.pods \cup {n} |-> IF m = n THEN Newcomers[n] ELSE node.pods[m]]
    BY <2>1 DEF DrainTypes
  <2>3. dpc \in {"called", "planned"} /\ evictions = <<>>
    BY <1>1, <1>4 DEF PodPlaced, DrainTypes, EvictsOnACordonedNode, UntouchedBeforeCordon
  <2>4. Accepted = {}
    BY <2>3 DEF Accepted
  <2> QED
    BY <2>1, <2>2, <2>4, PodsAssumption DEF DrainTypes
<1> QED
  BY <1>2, <1>3, <1>4 DEF OthersAct

LEMMA DrainGoesOn ==
  ASSUME part = "drain", DrainInvariant, DrainNext, part' = part
  PROVE  DrainInvariant'
<1> USE DEF DrainInvariant
<1> SUFFICES (DrainTypes /\ UntouchedBeforeCordon /\ EvictsOnACordonedNode /\ EvictedPodsStop
               /\ DrainTellsTheTruth)'
  OBVIOUS
<1>1. CASE DrainFails
  BY <1>1 DEF DrainFails, DrainTypes, UntouchedBeforeCordon, EvictsOnACordonedNode, EvictedPodsStop, Accepted,
     DrainTellsTheTruth
<1>2. CASE MakePlan
  <2>1. /\ dpc = "called" /\ UNCHANGED <<node, opts, evictions, answer>>
        /\ \/ dpc' = "planned" /\ ~Stopped'
           \/ dpc' = "done" /\ drow'.outcome = "failed"
    BY <1>2 DEF MakePlan, Stopped
  <2> QED
    BY <2>1 DEF DrainTypes, UntouchedBeforeCordon, EvictsOnACordonedNode, EvictedPodsStop, Accepted,
       DrainTellsTheTruth
<1>3. CASE Cordon
  <2>1. CASE opts.dryRun
    BY <1>3, <2>1 DEF Cordon, Answer, DrainTypes, UntouchedBeforeCordon, EvictsOnACordonedNode, EvictedPodsStop,
       Accepted, DrainTellsTheTruth
  <2>2. CASE ~opts.dryRun
    <3>1. /\ DOMAIN node' = DOMAIN node /\ node'.cordoned = TRUE /\ node'.pods = node.pods
          /\ dpc = "planned" /\ dpc' = "evicting" /\ UNCHANGED <<opts, plan, evictions>>
      BY <1>3, <2>2 DEF Cordon, DrainTypes
    <3> QED
      BY <2>2, <3>1 DEF DrainTypes, UntouchedBeforeCordon, EvictsOnACordonedNode, EvictedPodsStop, Accepted,
         DrainTellsTheTruth, Stopped
  <2> QED
    BY <2>1, <2>2
<1>4. CASE EvictNext
  BY <1>4, EvictionKeepsTheDrain DEF EvictNext, UntouchedBeforeCordon, DrainTellsTheTruth
<1>5. CASE Finish
  <2> DEFINE refused == DOMAIN evictions \ Accepted
  <2>1. /\ dpc = "evicting" /\ dpc' = "done" /\ Pending = {}
        /\ UNCHANGED <<node, opts, plan, evictions>>
        /\ answer' = [drained |-> Cardinality(refused) = 0, evicted |-> Cardinality(Accepted),
                      failed |-> Cardinality(refused)]
        /\ drow' = [outcome |-> "applied", evicted |-> Cardinality(Accepted)]
    BY <1>5 DEF Finish
  <2>2. IsFiniteSet(refused)
    BY FS_Subset DEF DrainTypes
  <2>3. answer'.drained => refused = {}
    BY <2>1, <2>2, FS_EmptySet
  <2>4. answer'.drained => \A n \in StillUp : n \in DOMAIN plan => plan[n] = "skip"
    BY <2>1, <2>3 DEF StillUp, Pending, EvictedPodsStop
  <2>5. Accepted' = Accepted /\ StillUp' = StillUp
    BY <2>1 DEF Accepted, StillUp
  <2>6. answer'.failed > 0 => ~answer'.drained
    <3>1. answer'.failed = Cardinality(refused) /\ (answer'.drained <=> Cardinality(refused) = 0)
      BY <2>1
    <3>2. Cardinality(refused) \in Nat
      BY <2>2, FS_CardinalityType
    <3> HIDE DEF refused
    <3> QED
      BY <3>1, <3>2
  <2>7. DrainTellsTheTruth'
    BY <2>1, <2>4, <2>5, <2>6 DEF DrainTellsTheTruth, EvictsOnACordonedNode, Stopped
  <2> QED
    BY <2>1, <2>5, <2>7 DEF DrainTypes, UntouchedBeforeCordon, EvictsOnACordonedNode, EvictedPodsStop
<1>6. CASE OthersAct
  BY <1>6, OthersKeepTheDrain DEF OthersAct, DrainTellsTheTruth
<1> QED
  BY <1>1, <1>2, <1>3, <1>4, <1>5, <1>6 DEF DrainNext, DrainStep

\* nodes.py, drain: "drained" is said of a node whose listed pods were all asked to go,
\* whatever pods there are and whatever controllers, other drains and the scheduler do.
THEOREM DrainsTellTheTruth == Spec => []DrainTellsTheTruth
<1>1. DrainInvariant /\ [Next]_vars => DrainInvariant'
  <2> SUFFICES ASSUME DrainInvariant, [Next]_vars
               PROVE  DrainInvariant'
    OBVIOUS
  <2>1. CASE part = "drain" /\ DrainNext /\ part' = part
    BY <2>1, DrainGoesOn
  <2>2. CASE part' = part /\ UNCHANGED drain
    BY <2>2 DEF drain, DrainInvariant, DrainTypes, UntouchedBeforeCordon, EvictsOnACordonedNode, EvictedPodsStop,
       DrainTellsTheTruth, Stopped, Accepted, StillUp
  <2> QED
    BY <2>1, <2>2 DEF Next, vars
<1>2. DrainInvariant => DrainTellsTheTruth
  BY NoDrainAssumption DEF DrainInvariant, DrainTellsTheTruth
<1> QED
  BY <1>1, <1>2, DrainStarts, PTL DEF Spec

-----------------------------------------------------------------------------
(* The route form. *)

\* Each compiler writes what its API has a field for, of an exposure that makes sense.
LEMMA CompiledOrLossy ==
  ASSUME NEW b \in Backends, NEW e \in Exposures, Sensible(e), NEW doc
  PROVE  Requested(e) \subseteq Compile(b, e, doc).fields \cup Lossy(b, e)
<1> DEFINE tls == CASE e.termination = "edge" -> {"edge_tls"}
                    [] e.termination = "passthrough" -> {"passthrough_tls"}
                    [] e.termination = "reencrypt" -> {"reencrypt_tls"}
                    [] OTHER -> {}
           policy == CASE e.insecure = "Redirect" -> {"insecure_redirect"}
                       [] e.insecure = "Allow" -> {"insecure_allow"}
                       [] OTHER -> {}
           rest == {f \in {"weighted_backends"} : 2 \in DOMAIN e.targets}
                     \cup {f \in {"wildcard_subdomain"} : e.wildcard}
                     \cup {f \in {"generated_host"} : ~e.host}
                     \cup {f \in {"path_exact"} : e.exact}
<1>1. Requested(e) = tls \cup policy \cup rest
  BY DEF Requested
<1>2. /\ e.termination \in {NULL, "edge", "passthrough", "reencrypt"}
      /\ e.insecure \in {NULL, "Allow", "Redirect"}
      /\ e.insecure # NULL => e.termination # NULL
  BY DEF Exposures, Terminations, Sensible
<1>3. CASE b = "openshift"
  <2> DEFINE routeTls == CASE e.termination = NULL -> {}
                           [] e.termination = "edge" -> {"edge_tls"}
                           [] e.termination = "passthrough" -> {"passthrough_tls"}
                           [] OTHER -> {"reencrypt_tls"}
             routePolicy == CASE e.termination = NULL \/ e.insecure = NULL -> {}
                              [] e.insecure = "Allow" -> {"insecure_allow"}
                              [] OTHER -> {"insecure_redirect"}
             routeRest == {f \in {"host"} : e.host} \cup {f \in {"generated_host"} : ~e.host}
             routeMore == {f \in {"weighted_backends"} : 2 \in DOMAIN e.targets}
                            \cup {f \in {"wildcard_subdomain"} : e.wildcard}
  <2>1. Compile(b, e, doc).fields = CompileRoute(e)
    BY <1>3 DEF Compile, Document
  <2>2. CompileRoute(e) = routeRest \cup routeTls \cup routePolicy \cup routeMore
    BY DEF CompileRoute
  <2>3. tls \subseteq routeTls
    BY <1>2, NoChoiceAssumption
  <2>4. policy \subseteq routePolicy
    BY <1>2, NoChoiceAssumption
  <2>5. rest \subseteq routeRest \cup routeMore \cup {"path_exact"}
    OBVIOUS
  <2>6. {"path_exact"} \cap Requested(e) \subseteq Lossy(b, e)
    BY <1>3 DEF Lossy, Expressible
  <2> HIDE DEF tls, policy, rest, routeTls, routePolicy, routeRest, routeMore
  <2> QED
    BY <1>1, <2>1, <2>2, <2>3, <2>4, <2>5, <2>6
<1>4. CASE b = "ingress"
  <2>1. Compile(b, e, doc).fields = CompileIngress(e) /\ Expressible(b) = {"edge_tls", "path_exact"}
    BY <1>4 DEF Compile, Document, Expressible
  <2>2. "edge_tls" \in tls => e.termination # NULL
    BY <1>2, NoChoiceAssumption
  <2>3. "edge_tls" \notin policy /\ "path_exact" \notin tls \cup policy
    BY <1>2, NoChoiceAssumption
  <2> HIDE DEF tls, policy
  <2>4. Requested(e) \cap {"edge_tls", "path_exact"} \subseteq CompileIngress(e)
    BY <1>1, <2>2, <2>3 DEF CompileIngress
  <2> QED
    BY <2>1, <2>4 DEF Lossy
<1>5. CASE b = "gateway"
  <2>1. /\ Compile(b, e, doc).fields = CompileHttpRoute(e)
        /\ Expressible(b) = {"insecure_redirect", "weighted_backends", "path_exact"}
    BY <1>5 DEF Compile, Document, Expressible
  <2>2. "insecure_redirect" \in policy => e.insecure = "Redirect"
    BY <1>2, NoChoiceAssumption
  <2>3. tls \cap {"insecure_redirect", "weighted_backends", "path_exact"} = {}
    BY <1>2, NoChoiceAssumption
  <2>4. policy \cap {"weighted_backends", "path_exact"} = {}
    BY <1>2, NoChoiceAssumption
  <2> HIDE DEF tls, policy
  <2>5. Requested(e) \cap {"insecure_redirect", "weighted_backends", "path_exact"} \subseteq CompileHttpRoute(e)
    BY <1>1, <2>2, <2>3, <2>4 DEF CompileHttpRoute
  <2> QED
    BY <2>1, <2>5 DEF Lossy
<1> QED
  BY <1>3, <1>4, <1>5 DEF Backends

RouteTypes ==
  /\ backend \in Backends /\ exposure \in {NULL} \cup Exposures
  /\ rpc \in {"typed", "rendered", "accepted", "edited", "written", "refused"}

\* What is written is what render makes of the form and of what came with it, once
\* nothing that it drops is left to accept.
WrittenWasRendered ==
  rpc = "written" =>
    /\ Renderable /\ Unacknowledged = {} /\ compiled = Rendered(sent)
    /\ reviewed = {f \in {"custom-host"} : ChosenHost}
    /\ exposure = NULL => sent = document

RouteInvariant ==
  IF part = "route" THEN RouteTypes /\ WrittenWasRendered ELSE rpc = NULL

LEMMA RouteGoesOn ==
  ASSUME part = "route", RouteInvariant, RouteNext, part' = part
  PROVE  RouteInvariant'
<1>1. RouteTypes
  BY DEF RouteInvariant
<1>2. CASE Render
  BY <1>1, <1>2 DEF Render, RouteInvariant, RouteTypes, WrittenWasRendered
<1>3. CASE Accept
  BY <1>1, <1>3 DEF Accept, RouteInvariant, RouteTypes, WrittenWasRendered
<1>4. CASE Edit
  <2>1. exposure' \in Exposures
    BY <1>1, <1>4 DEF Edit, RouteTypes, Exposures
  <2> QED
    BY <1>4, <1>1, <2>1 DEF Edit, RouteInvariant, RouteTypes, WrittenWasRendered
<1>5. CASE Write
  <2>1. /\ Renderable' = Renderable /\ Unacknowledged' = Unacknowledged /\ ChosenHost' = ChosenHost
        /\ exposure = NULL => sent' = document
    BY <1>5 DEF Write, Renderable, Unacknowledged, LossyNow, ChosenHost
  <2>2. Rendered(sent)' = Rendered(sent')
    BY <1>5 DEF Write, Rendered
  <2> QED
    BY <1>1, <1>5, <2>1, <2>2 DEF Write, RouteInvariant, RouteTypes, WrittenWasRendered
<1> QED
  BY <1>2, <1>3, <1>4, <1>5 DEF RouteNext

\* A Route writes the first port for all, an Ingress the first target, an HTTPRoute
\* every number.
LEMMA PortsAsAskedOrLost ==
  ASSUME backend \in Backends, NEW e, NEW doc, NEW i \in DOMAIN Compile(backend, e, doc).ports
  PROVE  Compile(backend, e, doc).ports[i] = e.targets[i] \/ PortIsLost(e, i)
<1>1. Compile(backend, e, doc).ports = CompiledPorts(backend, e)
  BY DEF Compile, Document
<1> QED
  BY <1>1 DEF CompiledPorts, PortIsLost, Backends

\* A chosen host is the only one a Route is written with.
LEMMA OnlyAChosenHost ==
  ASSUME NEW e \in Exposures, ~e.host
  PROVE  "host" \notin CompileRoute(e)
<1> DEFINE tls == CASE e.termination = NULL -> {}
                    [] e.termination = "edge" -> {"edge_tls"}
                    [] e.termination = "passthrough" -> {"passthrough_tls"}
                    [] OTHER -> {"reencrypt_tls"}
           policy == CASE e.termination = NULL \/ e.insecure = NULL -> {}
                       [] e.insecure = "Allow" -> {"insecure_allow"}
                       [] OTHER -> {"insecure_redirect"}
<1>1. "host" \notin tls /\ "host" \notin policy
  BY NoChoiceAssumption DEF Exposures, Terminations
<1>2. \A f \in CompileRoute(e) :
        f \in tls \/ f \in policy \/ f \in {"generated_host", "weighted_backends", "wildcard_subdomain"}
  BY DEF CompileRoute
<1> QED
  BY <1>1, <1>2

\* admin/routes.py: of every exposure the form can describe, in each of the three APIs,
\* what is asked for is in the object written or was accepted as left out, but for the
\* ports lossy[] does not know of; and what the form can keep is kept.
THEOREM ExposuresAreExpressedOrNamed == Spec => []ExposureIsExpressedOrNamed
<1>1. Init => RouteInvariant
  BY DEF Init, RouteInit, NoRoute, RouteInvariant, RouteTypes, WrittenWasRendered
<1>2. RouteInvariant /\ [Next]_vars => RouteInvariant'
  <2> SUFFICES ASSUME RouteInvariant, [Next]_vars
               PROVE  RouteInvariant'
    OBVIOUS
  <2>1. CASE part = "route" /\ RouteNext /\ part' = part
    BY <2>1, RouteGoesOn
  <2>2. CASE part' = part /\ UNCHANGED route
    BY <2>2 DEF route, RouteInvariant, RouteTypes, WrittenWasRendered, Renderable, Unacknowledged,
       LossyNow, Rendered, ChosenHost
  <2> QED
    BY <2>1, <2>2 DEF Next, vars
<1>3. RouteInvariant => ExposureIsExpressedOrNamed
  <2> SUFFICES ASSUME RouteInvariant, rpc = "written"
               PROVE  ExposureIsExpressedOrNamed
    BY DEF ExposureIsExpressedOrNamed
  <2>1. /\ RouteTypes /\ Renderable /\ Unacknowledged = {} /\ compiled = Rendered(sent)
        /\ reviewed = {f \in {"custom-host"} : ChosenHost}
        /\ exposure = NULL => sent = document
    BY NoChoiceAssumption DEF RouteInvariant, WrittenWasRendered
  <2>2. CASE exposure = NULL
    <3>1. compiled = document
      BY <2>1, <2>2 DEF Rendered
    <3>2. backend = "openshift" /\ "host" \in compiled.fields => "custom-host" \in reviewed
      BY <2>1, <2>2, <3>1 DEF ChosenHost
    <3> QED
      BY <2>2, <3>1, <3>2 DEF ExposureIsExpressedOrNamed
  <2>3. CASE exposure # NULL
    <3>1. /\ backend \in Backends /\ exposure \in Exposures /\ Sensible(exposure)
          /\ compiled = Compile(backend, exposure, sent) /\ Lossy(backend, exposure) \subseteq accepted
      BY <2>1, <2>3 DEF RouteTypes, Renderable, Rendered, Unacknowledged, LossyNow
    <3>2. Requested(exposure) \subseteq compiled.fields \cup accepted
      BY <3>1, CompiledOrLossy
    <3>3. \A i \in DOMAIN compiled.ports :
            compiled.ports[i] = exposure.targets[i] \/ PortIsLost(exposure, i)
      BY <3>1, PortsAsAskedOrLost
    <3>4. sent # NULL => sent.rest \cap {"annotation", "ingress rules"} \subseteq compiled.rest
      BY <3>1 DEF Compile, Document, Replaced, Backends
    <3>5. backend = "openshift" /\ "host" \in compiled.fields => "custom-host" \in reviewed
      <4>1. backend = "openshift" => compiled.fields = CompileRoute(exposure)
        BY <3>1 DEF Compile, Document
      <4>2. backend = "openshift" /\ "host" \in compiled.fields => exposure.host
        BY <3>1, <4>1, OnlyAChosenHost DEF Exposures
      <4> QED
        BY <2>1, <2>3, <4>2 DEF ChosenHost
    <3> QED
      BY <2>3, <3>2, <3>3, <3>4, <3>5 DEF ExposureIsExpressedOrNamed
  <2> QED
    BY <2>2, <2>3
<1> QED
  BY <1>1, <1>2, <1>3, PTL DEF Spec

-----------------------------------------------------------------------------
(* The installers. *)

Objects == [ours : BOOLEAN, version : Nat, where : Places, ready : BOOLEAN]
Outcomes == {"applied", "failed", "projected", "skipped", "passed", "removed"}

InstallTypes ==
  /\ installer \in Installs
  /\ live \in [Keys -> Objects \cup {NULL}] /\ stamp \in Nat
  /\ ipc \in {"idle", "survey", "apply", "discover", "removing", "deleting", "answered"}
  /\ ipc # "idle" => place \in Places
  /\ prior \in Seq(Objects \cup {NULL}) /\ report \in Seq(Outcomes)
  /\ established \in BOOLEAN \cup {NULL}

\* No object has a version that was not given yet.
VersionsWereGiven == \A key \in Keys : live[key] # NULL => live[key].version <= stamp

\* What was read is what is there while the version is the same.
PriorWasLive ==
  ipc \in {"survey", "apply"} =>
    /\ Len(prior) <= Len(Bundle)
    /\ \A i \in DOMAIN prior : prior[i] # NULL =>
         /\ prior[i].version <= stamp
         /\ LET now == live[Key(Bundle[i], place)]
            IN now # NULL /\ now.version = prior[i].version => now.ours = prior[i].ours

OwnedBeforeWriting ==
  ipc = "apply" => \A i \in DOMAIN prior : prior[i] = NULL \/ prior[i].ours

\* Each write is reported, as applied or as one whose answer was lost.
ReportsTellOfWrites ==
  /\ \A w \in writes : w.item \in DOMAIN report /\ (w.was # NULL => w.was.ours)
  /\ \A i \in DOMAIN report : report[i] = "applied" => \E w \in writes : w.item = i
  /\ ipc = "survey" => report = <<>> /\ writes = {}

\* What a write's report may say.
ReportsOfApplying ==
  ipc = "apply" =>
    /\ Len(report) <= Len(Bundle)
    /\ ~call.dry => \A i \in DOMAIN report : report[i] \in {"applied", "failed", "skipped"}
    /\ ~call.dry /\ installer = "olm" /\ 1 \in DOMAIN report => report[1] # "skipped"

Untold == ipc # "answered" => told = NULL

\* Only the router is uninstalled, and its namespace stays.
Uninstalling ==
  /\ ipc \in {"discover", "removing", "deleting"} => installer = "router"
  /\ ipc = "discover" => report = <<>>
  /\ ipc = "removing" => Turn <= Len(Bundle)
  /\ ipc = "deleting" => Turn < Len(Bundle)

InstallInvariant ==
  IF part = "install"
  THEN /\ InstallTypes /\ VersionsWereGiven /\ PriorWasLive /\ OwnedBeforeWriting
       /\ ReportsTellOfWrites /\ ReportsOfApplying /\ Untold /\ Uninstalling /\ InstallTellsTheTruth
  ELSE writes = {} /\ told = NULL

\* Every bundle is a short sequence, and its objects have their keys.
LEMMA BundleIsShort ==
  ASSUME installer \in Installs
  PROVE  /\ Len(Bundle) \in {3, 4} /\ DOMAIN Bundle = 1 .. Len(Bundle)
         /\ \A i \in DOMAIN Bundle, p \in Places : Key(Bundle[i], p) \in Keys
<1>1. \/ Bundle = <<"namespace", "role", "binding", "deployment">>
      \/ Bundle = <<"crd", "namespace", "deployment", "catalog">>
      \/ Bundle = <<"namespace", "quota", "admins">>
  BY InstallsAssumption DEF Bundle
<1>2. Len(Bundle) \in {3, 4} /\ DOMAIN Bundle = 1 .. Len(Bundle)
  BY <1>1
<1> QED
  BY <1>2 DEF Keys

LEMMA InstallStarts == Init => InstallInvariant
<1> SUFFICES ASSUME Init
             PROVE  InstallInvariant
  OBVIOUS
<1>1. CASE part = "install"
  <2>1. InstallInit
    BY <1>1 DEF Init
  <2>2. /\ live \in [Keys -> Objects \cup {NULL}]
        /\ \A key \in Keys : live[key] # NULL => live[key].version = 0
    <3>1. live = Absent \/ \E ours \in BOOLEAN, p \in Places : live = With(Absent, Everything(p), ours, p)
      BY <2>1 DEF InstallInit
    <3>2. CASE live = Absent
      BY <3>2 DEF Absent
    <3>3. CASE \E ours \in BOOLEAN, p \in Places : live = With(Absent, Everything(p), ours, p)
      BY <3>3 DEF With, Absent, Object, Objects
    <3> QED
      BY <3>1, <3>2, <3>3
  <2>3. InstallTypes /\ VersionsWereGiven
    BY <2>1, <2>2 DEF InstallInit, InstallTypes, VersionsWereGiven
  <2> QED
    BY <1>1, <2>1, <2>3, NullAssumption, NoAnswerAssumption DEF InstallInit, InstallInvariant, PriorWasLive, OwnedBeforeWriting,
       ReportsTellOfWrites, ReportsOfApplying, Untold, Uninstalling, InstallTellsTheTruth
<1>2. CASE part # "install"
  BY <1>2 DEF Init, NoInstall, InstallInvariant
<1> QED
  BY <1>1, <1>2

\* Storing an object with the next version, or taking one away.
LEMMA StoringKeepsTheRest ==
  ASSUME InstallTypes, VersionsWereGiven, PriorWasLive,
         NEW key \in Keys, NEW object_ \in Objects \cup {NULL}, Store(key, object_),
         object_ # NULL => object_.version = stamp + 1,
         UNCHANGED <<installer, ipc, place, prior>>
  PROVE  /\ live' \in [Keys -> Objects \cup {NULL}] /\ stamp' \in Nat
         /\ VersionsWereGiven' /\ PriorWasLive'
<1>1. stamp \in Nat /\ stamp' = stamp + 1 /\ live' = [live EXCEPT ![key] = object_]
  BY DEF Store, InstallTypes
<1>2. live' \in [Keys -> Objects \cup {NULL}] /\ live'[key] = object_
  BY <1>1 DEF InstallTypes
<1>3. Keys' = Keys /\ Bundle' = Bundle
  BY DEF Keys, Bundle
<1>4. VersionsWereGiven'
  <2> SUFFICES ASSUME NEW k \in Keys, live'[k] # NULL
               PROVE  live'[k].version <= stamp'
    BY <1>3 DEF VersionsWereGiven
  <2>1. CASE k = key
    BY <1>1, <1>2, <2>1
  <2>2. CASE k # key
    <3>1. live'[k] = live[k] /\ live[k] \in Objects \cup {NULL}
      BY <1>1, <2>2 DEF InstallTypes
    <3> QED
      BY <1>1, <3>1 DEF VersionsWereGiven, Objects
  <2> QED
    BY <2>1, <2>2
<1>5. PriorWasLive'
  <2> SUFFICES ASSUME ipc \in {"survey", "apply"}, NEW i \in DOMAIN prior, prior[i] # NULL
               PROVE  /\ prior[i].version <= stamp'
                      /\ LET now == live'[Key(Bundle[i], place)]
                         IN now # NULL /\ now.version = prior[i].version => now.ours = prior[i].ours
    BY <1>3 DEF PriorWasLive
  <2> DEFINE k == Key(Bundle[i], place)
  <2>1. prior[i] \in Objects /\ prior[i].version \in Nat /\ prior[i].version <= stamp
    BY DEF InstallTypes, PriorWasLive, Objects
  <2>2. k \in Keys
    <3>1. i \in DOMAIN Bundle
      BY BundleIsShort DEF InstallTypes, PriorWasLive
    <3> QED
      BY <3>1, BundleIsShort DEF InstallTypes
  <2> HIDE DEF k
  <2>3. CASE k = key
    <3>1. live'[k] # NULL => live'[k].version = stamp + 1
      BY <1>2, <2>3
    <3> QED
      BY <1>1, <2>1, <3>1 DEF k
  <2>4. CASE k # key
    <3>1. live'[k] = live[k]
      BY <1>1, <2>2, <2>4 DEF InstallTypes
    <3> QED
      BY <1>1, <2>1, <3>1 DEF k, PriorWasLive
  <2> QED
    BY <2>3, <2>4
<1> QED
  BY <1>1, <1>2, <1>4, <1>5

\* One turn of the loop over the bundle.
LEMMA ApplyingKeepsIt ==
  ASSUME part = "install", InstallInvariant, ApplyNext, part' = part
  PROVE  InstallInvariant'
<1>1. /\ InstallTypes /\ VersionsWereGiven /\ PriorWasLive /\ OwnedBeforeWriting
      /\ ReportsTellOfWrites /\ ReportsOfApplying /\ Untold /\ Uninstalling /\ InstallTellsTheTruth
  BY DEF InstallInvariant
<1>2. /\ ipc = "apply" /\ Turn <= Len(Bundle)
      /\ UNCHANGED <<installer, calls, changes, call, ipc, place, prior, established, told>>
  BY DEF ApplyNext
<1>3. Turn \in DOMAIN Bundle /\ Turn = Len(report) + 1 /\ Len(report) \in Nat
  BY <1>1, <1>2, BundleIsShort DEF Turn, InstallTypes
<1>4. Bundle' = Bundle /\ Keys' = Keys
  BY <1>2 DEF Bundle, Keys
<1> SUFFICES ASSUME NEW outcome \in Outcomes, report' = Append(report, outcome),
                    /\ live' \in [Keys -> Objects \cup {NULL}] /\ stamp' \in Nat
                    /\ VersionsWereGiven' /\ PriorWasLive',
                    \/ outcome # "applied" /\ writes' = writes
                    \/ /\ ~call.dry /\ outcome \in {"applied", "failed"}
                       /\ \E was : /\ writes' = writes \cup {[item |-> Turn, was |-> was]}
                                   /\ was # NULL => was.ours
                       /\ SecondPhase => established = TRUE /\ ~Fared("failed"),
                    call.dry \/ outcome \in {"applied", "failed", "skipped"},
                    ~call.dry /\ Turn = 1 /\ installer = "olm" => outcome # "skipped"
             PROVE  InstallInvariant'
  <2>1. CASE call.dry
    BY <1>1, <1>2, <1>4, <2>1 DEF ApplyNext, Outcomes, InstallTypes, VersionsWereGiven, PriorWasLive
  <2>2. CASE ~call.dry /\ Skipped
    <3>1. ~(Turn = 1 /\ installer = "olm")
      BY <1>3, <2>2 DEF Skipped, SecondPhase
    <3> QED
      BY <1>1, <1>2, <1>4, <2>2, <3>1 DEF ApplyNext, Outcomes, InstallTypes, VersionsWereGiven, PriorWasLive
  <2>3. CASE ~call.dry /\ ~Skipped
    <3> DEFINE key == Key(Bundle[Turn], place)
    <3>1. PICK arrives \in BOOLEAN, heard \in BOOLEAN : ApplyObject(arrives, heard)
      BY <2>3 DEF ApplyNext
    <3>2. key \in Keys
      BY <1>1, <1>2, <1>3, BundleIsShort DEF InstallTypes
    <3>3. SecondPhase => established = TRUE /\ ~Fared("failed")
      <4> SUFFICES ASSUME SecondPhase
                   PROVE  established = TRUE /\ ~Fared("failed")
        OBVIOUS
      <4>1. established = TRUE
        BY <2>3 DEF ApplyNext
      <4>2. installer # "project"
        BY DEF SecondPhase
      <4>3. Skipped <=> Fared("failed") \/ established = FALSE
        BY <4>2 DEF Skipped
      <4> QED
        BY <2>3, <4>1, <4>3
    <3> DEFINE lands == arrives /\ Servable(Bundle[Turn]) /\ Unchanged(Known(Turn), live[key])
               written == [Object(TRUE, stamp + 1, place) EXCEPT !.ready = live[key] # NULL /\ live[key].ready]
    <3>4. report' = Append(report, IF lands /\ heard THEN "applied" ELSE "failed")
      BY <3>1 DEF ApplyObject
    <3>5. CASE ~lands
      <4>1. UNCHANGED <<live, stamp, writes>> /\ report' = Append(report, "failed")
        BY <3>1, <3>4, <3>5 DEF ApplyObject
      <4> QED
        BY <1>1, <1>2, <1>4, <4>1 DEF Outcomes, InstallTypes, VersionsWereGiven, PriorWasLive
    <3>6. CASE lands
      <4>1. Store(key, written) /\ writes' = writes \cup {[item |-> Turn, was |-> live[key]]}
        BY <3>1, <3>6 DEF ApplyObject
      <4>2. Unchanged(Known(Turn), live[key])
        BY <3>6
      <4> HIDE DEF key, lands
      <4>3. written \in Objects /\ written.version = stamp + 1
        <5>1. live[key] \in Objects \cup {NULL} /\ place \in Places /\ stamp \in Nat
          BY <1>1, <1>2, <3>2 DEF InstallTypes
        <5>2. (live[key] # NULL /\ live[key].ready) \in BOOLEAN
          OBVIOUS
        <5> DEFINE ready == live[key] # NULL /\ live[key].ready
                   fresh == Object(TRUE, stamp + 1, place)
        <5>3. fresh \in Objects /\ fresh.version = stamp + 1
          BY <5>1 DEF Object, Objects
        <5>4. written = [fresh EXCEPT !.ready = ready] /\ ready \in BOOLEAN
          BY <5>2
        <5> HIDE DEF ready, fresh, written
        <5> QED
          BY <5>3, <5>4 DEF Objects
      <4>4. live[key] # NULL => live[key].ours
        <5> SUFFICES ASSUME live[key] # NULL
                     PROVE  live[key].ours
          OBVIOUS
        <5>1. /\ Turn \in DOMAIN prior /\ prior[Turn] # NULL
              /\ live[key].version = prior[Turn].version
          BY <4>2 DEF Unchanged, Known
        <5>2. prior[Turn].ours
          BY <1>1, <1>2, <5>1 DEF OwnedBeforeWriting
        <5>3. live[key].ours = prior[Turn].ours
          BY <1>1, <1>2, <5>1 DEF PriorWasLive, key
        <5> QED
          BY <5>2, <5>3
      <4> HIDE DEF written
      <4>5. /\ live' \in [Keys -> Objects \cup {NULL}] /\ stamp' \in Nat
            /\ VersionsWereGiven' /\ PriorWasLive'
        BY <1>1, <1>2, <3>2, <4>1, <4>3, StoringKeepsTheRest
      <4>6. \E was : /\ writes' = writes \cup {[item |-> Turn, was |-> was]}
                     /\ was # NULL => was.ours
        BY <4>1, <4>4
      <4>7. PICK outcome \in {"applied", "failed"} : report' = Append(report, outcome)
        BY <3>4
      <4> QED
        BY <2>3, <3>3, <4>5, <4>6, <4>7 DEF Outcomes
    <3> QED
      BY <3>5, <3>6
  <2> QED
    BY <2>1, <2>2, <2>3
<1>5. /\ report \in Seq(Outcomes) /\ report' \in Seq(Outcomes)
      /\ DOMAIN report' = DOMAIN report \cup {Turn} /\ Len(report') = Len(report) + 1
      /\ Turn \notin DOMAIN report
      /\ report'[Turn] = outcome /\ \A i \in DOMAIN report : report'[i] = report[i]
  BY <1>1, <1>3 DEF InstallTypes
<1>6. InstallTypes' /\ OwnedBeforeWriting' /\ Untold' /\ Uninstalling'
  BY <1>1, <1>2, <1>4, <1>5 DEF InstallTypes, OwnedBeforeWriting, Untold, Uninstalling
<1>7. ReportsOfApplying'
  <2>1. Len(report') <= Len(Bundle')
    BY <1>2, <1>3, <1>4, <1>5
  <2>2. ~call.dry => \A i \in DOMAIN report' : report'[i] \in {"applied", "failed", "skipped"}
    BY <1>1, <1>2, <1>5 DEF ReportsOfApplying
  <2>3. ~call.dry /\ installer = "olm" /\ 1 \in DOMAIN report' => report'[1] # "skipped"
    BY <1>1, <1>2, <1>5 DEF ReportsOfApplying
  <2> QED
    BY <1>2, <2>1, <2>2, <2>3 DEF ReportsOfApplying
<1>8. CASE outcome # "applied" /\ writes' = writes
  <2>1. ReportsTellOfWrites'
    BY <1>1, <1>2, <1>5, <1>8 DEF ReportsTellOfWrites
  <2>2. InstallTellsTheTruth'
    <3>1. installer = "olm" /\ (\E w \in writes : w.item > 1) =>
            established = TRUE /\ report'[1] = "applied"
      <4> SUFFICES ASSUME installer = "olm", NEW w \in writes, w.item > 1
                   PROVE  established = TRUE /\ report'[1] = "applied"
        OBVIOUS
      <4>1. established = TRUE /\ report[1] = "applied" /\ w.item \in DOMAIN report
        BY <1>1 DEF InstallTellsTheTruth, ReportsTellOfWrites
      <4>2. 1 \in DOMAIN report
        BY <1>5, <4>1
      <4> QED
        BY <1>5, <4>1, <4>2
    <3> QED
      BY <1>1, <1>2, <1>4, <1>8, <3>1, NullAssumption, NoAnswerAssumption DEF InstallTellsTheTruth, Untold
  <2> QED
    BY <1>6, <1>7, <2>1, <2>2 DEF InstallInvariant
<1>9. ASSUME ~call.dry, outcome \in {"applied", "failed"},
             NEW was, writes' = writes \cup {[item |-> Turn, was |-> was]}, was # NULL => was.ours,
             SecondPhase => established = TRUE /\ ~Fared("failed")
      PROVE  InstallInvariant'
  <2>1. ReportsTellOfWrites'
    <3>1. \A w \in writes' : w.item \in DOMAIN report' /\ (w.was # NULL => w.was.ours)
      BY <1>1, <1>5, <1>9 DEF ReportsTellOfWrites
    <3>2. \A i \in DOMAIN report' : report'[i] = "applied" => \E w \in writes' : w.item = i
      <4> SUFFICES ASSUME NEW i \in DOMAIN report', report'[i] = "applied"
                   PROVE  \E w \in writes' : w.item = i
        OBVIOUS
      <4>1. CASE i \in DOMAIN report
        BY <1>1, <1>5, <1>9, <4>1 DEF ReportsTellOfWrites
      <4>2. CASE i = Turn
        <5>1. [item |-> Turn, was |-> was] \in writes' /\ [item |-> Turn, was |-> was].item = i
          BY <1>9, <4>2
        <5> QED
          BY <5>1
      <4> QED
        BY <1>5, <4>1, <4>2
    <3> QED
      BY <1>2, <3>1, <3>2 DEF ReportsTellOfWrites
  <2>2. InstallTellsTheTruth'
    <3>1. installer = "olm" /\ (\E w \in writes' : w.item > 1) =>
            established = TRUE /\ report'[1] = "applied"
      <4> SUFFICES ASSUME installer = "olm", NEW w \in writes', w.item > 1
                   PROVE  established = TRUE /\ report'[1] = "applied"
        OBVIOUS
      <4>1. CASE w \in writes
        <5>1. established = TRUE /\ report[1] = "applied" /\ w.item \in DOMAIN report
          BY <1>1, <4>1 DEF InstallTellsTheTruth, ReportsTellOfWrites
        <5>2. 1 \in DOMAIN report
          BY <1>5, <5>1
        <5> QED
          BY <1>5, <5>1, <5>2
      <4>2. CASE w = [item |-> Turn, was |-> was]
        <5>1. Turn > 1 /\ 1 \in DOMAIN report
          BY <1>3, <1>5, <4>2
        <5>2. established = TRUE /\ report[1] # "failed"
          BY <1>9, <5>1 DEF SecondPhase, Fared
        <5>3. report[1] = "applied"
          BY <1>1, <1>2, <1>9, <5>1, <5>2 DEF ReportsOfApplying
        <5> QED
          BY <1>5, <5>1, <5>2, <5>3
      <4> QED
        BY <1>9, <4>1, <4>2
    <3>2. \A w \in writes' : w.was # NULL => w.was.ours
      BY <2>1 DEF ReportsTellOfWrites
    <3> QED
      BY <1>1, <1>2, <1>4, <1>9, <3>1, <3>2, NullAssumption, NoAnswerAssumption DEF InstallTellsTheTruth, Untold
  <2> QED
    BY <1>6, <1>7, <2>1, <2>2 DEF InstallInvariant
<1>10. CASE /\ ~call.dry /\ outcome \in {"applied", "failed"}
            /\ \E was : /\ writes' = writes \cup {[item |-> Turn, was |-> was]}
                        /\ was # NULL => was.ours
            /\ SecondPhase => established = TRUE /\ ~Fared("failed")
  <2>1. PICK was : /\ writes' = writes \cup {[item |-> Turn, was |-> was]}
                   /\ was # NULL => was.ours
    BY <1>10
  <2> QED
    BY <1>9, <1>10, <2>1
<1> QED
  BY <1>8, <1>10

\* A step that leaves the objects alone, for the next state's reading and reports.
LEMMA InstallGoesOn ==
  ASSUME part = "install", InstallInvariant, InstallNext, part' = part
  PROVE  InstallInvariant'
<1>1. /\ InstallTypes /\ VersionsWereGiven /\ PriorWasLive /\ OwnedBeforeWriting
      /\ ReportsTellOfWrites /\ ReportsOfApplying /\ Untold /\ Uninstalling /\ InstallTellsTheTruth
  BY DEF InstallInvariant
<1>2. Bundle' = Bundle /\ Keys' = Keys
  <2>1. installer' = installer
    BY DEF InstallNext, InstallerStep, OthersChange, StartCall, CallFails, Survey, CheckOwnership, AwaitEstablished,
       ApplyNext, FinishInstall, Discover, LookBeforeRemoval, RemoveObject, FinishUninstall
  <2> QED
    BY <2>1 DEF Bundle, Keys
<1>3. Len(Bundle) \in {3, 4} /\ DOMAIN Bundle = 1 .. Len(Bundle)
  BY <1>1, BundleIsShort DEF InstallTypes
<1>4. CASE StartCall
  <2>1. /\ prior' = <<>> /\ report' = <<>> /\ established' = NULL /\ writes' = {} /\ told' = NULL
        /\ UNCHANGED <<installer, live, stamp>>
    BY <1>4 DEF StartCall
  <2>2. PICK r \in Requests : /\ place' = IF r.where = NULL THEN "default" ELSE r.where
                              /\ ipc' \in {"answered", "survey", "discover"}
    BY <1>4 DEF StartCall
  <2>3. r.where \in Places \cup {NULL}
    BY <2>2 DEF Requests, Places
  <2>4. place' \in Places
    BY <2>2, <2>3 DEF Places
  <2>5. InstallTypes'
    BY <1>1, <1>2, <2>1, <2>2, <2>4 DEF InstallTypes
  <2>6. InstallTellsTheTruth'
    BY <2>1, NullAssumption, NoAnswerAssumption DEF InstallTellsTheTruth
  <2>7. Uninstalling'
    <3>1. ipc' = "discover" => installer = "router"
      BY <1>4, <2>2, NullAssumption, NoAnswerAssumption DEF StartCall, Requests, Operations
    <3> QED
      BY <2>1, <2>2, <3>1 DEF Uninstalling
  <2> QED
    BY <1>1, <1>2, <1>3, <2>1, <2>2, <2>5, <2>6, <2>7 DEF InstallInvariant, VersionsWereGiven, PriorWasLive,
       OwnedBeforeWriting, ReportsTellOfWrites, ReportsOfApplying, Untold
<1>5. CASE CallFails
  BY <1>1, <1>2, <1>5, NullAssumption, NoAnswerAssumption DEF CallFails, InstallInvariant, InstallTypes, VersionsWereGiven,
     PriorWasLive, OwnedBeforeWriting, ReportsTellOfWrites, ReportsOfApplying, Untold, Uninstalling,
     InstallTellsTheTruth
<1>6. CASE Survey
  <2> DEFINE key == Key(Bundle[Len(prior) + 1], place)
  <2>1. /\ ipc = "survey" /\ Len(prior) < Surveyed /\ prior' = Append(prior, live[key])
        /\ UNCHANGED <<installer, live, stamp, ipc, place, call, report, established, writes, told>>
    BY <1>6 DEF Survey
  <2>2. Len(prior) \in Nat /\ Len(prior) + 1 <= Len(Bundle)
    BY <1>1, <1>3, <2>1 DEF Surveyed, InstallTypes
  <2>3. key \in Keys
    BY <1>1, <1>3, <2>1, <2>2, BundleIsShort DEF InstallTypes
  <2>4. live[key] \in Objects \cup {NULL}
    BY <1>1, <2>3 DEF InstallTypes
  <2> HIDE DEF key
  <2>5. /\ prior' \in Seq(Objects \cup {NULL}) /\ Len(prior') = Len(prior) + 1
        /\ DOMAIN prior' = DOMAIN prior \cup {Len(prior) + 1}
        /\ prior'[Len(prior) + 1] = live[key]
        /\ \A i \in DOMAIN prior : prior'[i] = prior[i]
    BY <1>1, <2>1, <2>4 DEF InstallTypes
  <2>6. PriorWasLive'
    <3> SUFFICES ASSUME NEW i \in DOMAIN prior', prior'[i] # NULL
                 PROVE  /\ prior'[i].version <= stamp
                        /\ LET now == live[Key(Bundle[i], place)]
                           IN now # NULL /\ now.version = prior'[i].version => now.ours = prior'[i].ours
      BY <1>2, <2>1, <2>2, <2>5 DEF PriorWasLive
    <3>1. CASE i \in DOMAIN prior
      BY <1>1, <2>1, <2>5, <3>1 DEF PriorWasLive
    <3>2. CASE i = Len(prior) + 1
      BY <1>1, <2>3, <2>5, <3>2 DEF VersionsWereGiven, key
    <3> QED
      BY <2>5, <3>1, <3>2
  <2>7. InstallTypes'
    BY <1>1, <1>2, <2>1, <2>5 DEF InstallTypes
  <2> QED
    BY <1>1, <1>2, <2>1, <2>6, <2>7 DEF InstallInvariant, VersionsWereGiven, OwnedBeforeWriting, ReportsTellOfWrites,
       ReportsOfApplying, Untold, Uninstalling, InstallTellsTheTruth
<1>7. CASE CheckOwnership
  <2>1. /\ ipc = "survey" /\ writes = {} /\ report = <<>>
        /\ UNCHANGED <<installer, live, stamp, place, call, prior, report, established, writes>>
        /\ \/ ipc' = "apply" /\ told' = told /\ Conflicts = {}
           \/ ipc' = "answered" /\ told' = "conflict"
    BY <1>1, <1>7 DEF CheckOwnership, ReportsTellOfWrites
  <2>2. OwnedBeforeWriting'
    BY <2>1 DEF OwnedBeforeWriting, Conflicts
  <2>3. ReportsOfApplying'
    BY <1>2, <1>3, <2>1 DEF ReportsOfApplying
  <2>4. InstallTellsTheTruth'
    <3>1. told' # "installed"
      BY <1>1, <2>1, NullAssumption, NoAnswerAssumption DEF Untold
    <3> QED
      BY <2>1, <3>1 DEF InstallTellsTheTruth
  <2>5. InstallTypes' /\ VersionsWereGiven' /\ PriorWasLive'
    BY <1>1, <1>2, <2>1 DEF InstallTypes, VersionsWereGiven, PriorWasLive
  <2>6. ReportsTellOfWrites' /\ Untold' /\ Uninstalling'
    BY <1>1, <2>1 DEF ReportsTellOfWrites, Untold, Uninstalling
  <2> QED
    BY <2>2, <2>3, <2>4, <2>5, <2>6 DEF InstallInvariant
<1>8. CASE AwaitEstablished
  <2>1. /\ ipc = "apply" /\ established = NULL /\ established' \in BOOLEAN
        /\ UNCHANGED <<installer, live, stamp, ipc, place, call, prior, report, writes, told>>
    BY <1>8 DEF AwaitEstablished
  <2>2. ~(installer = "olm" /\ \E w \in writes : w.item > 1)
    BY <1>1, <2>1, NullAssumption, NoAnswerAssumption DEF InstallTellsTheTruth
  <2>3. InstallTellsTheTruth'
    BY <1>1, <1>2, <2>1, <2>2 DEF InstallTellsTheTruth
  <2> QED
    BY <1>1, <1>2, <2>1, <2>3 DEF InstallInvariant, InstallTypes, VersionsWereGiven, PriorWasLive,
       OwnedBeforeWriting, ReportsTellOfWrites, ReportsOfApplying, Untold, Uninstalling
<1>9. CASE ApplyNext
  BY <1>9, ApplyingKeepsIt
<1>10. CASE FinishInstall
  <2>1. /\ ipc = "apply" /\ Turn > Len(Bundle) /\ ipc' = "answered"
        /\ told' = IF Succeeded THEN "installed" ELSE "partial"
        /\ UNCHANGED <<installer, live, stamp, place, call, prior, report, established, writes>>
    BY <1>10 DEF FinishInstall
  <2>2. ASSUME Succeeded
        PROVE  {w.item : w \in writes} = DOMAIN Bundle
    <3>1. DOMAIN report = DOMAIN Bundle
      BY <1>1, <1>3, <2>1 DEF InstallTypes, ReportsOfApplying, Turn
    <3>2. \A i \in DOMAIN report : report[i] = "applied"
      BY <1>1, <2>1, <2>2 DEF Succeeded, Fared, ReportsOfApplying
    <3> QED
      BY <1>1, <3>1, <3>2 DEF ReportsTellOfWrites
  <2>3. InstallTellsTheTruth'
    BY <1>1, <1>2, <2>1, <2>2 DEF InstallTellsTheTruth
  <2> QED
    BY <1>1, <1>2, <2>1, <2>3 DEF InstallInvariant, InstallTypes, VersionsWereGiven, PriorWasLive,
       OwnedBeforeWriting, ReportsTellOfWrites, ReportsOfApplying, Untold, Uninstalling
<1>11. CASE Discover
  <2>1. /\ ipc = "discover" /\ ipc' = "removing" /\ report = <<>> /\ installer = "router"
        /\ UNCHANGED <<installer, live, stamp, call, prior, report, established, writes, told>>
    BY <1>1, <1>11 DEF Discover, Uninstalling
  <2>2. place \in Places
    BY <1>1, <2>1 DEF InstallTypes
  <2>3. place' \in Places
    <3>1. CASE place' = place
      BY <2>2, <3>1
    <3>2. CASE place' # place
      <4> DEFINE key == Key("binding", place)
      <4>1. Exists("binding") /\ place' = live[key].where
        BY <1>11, <3>2 DEF Discover
      <4>2. Bundle[3] = "binding" /\ 3 \in DOMAIN Bundle
        BY <2>1 DEF Bundle
      <4>3. key \in Keys
        BY <1>1, <2>2, <4>2, BundleIsShort DEF InstallTypes
      <4> QED
        BY <1>1, <4>1, <4>3 DEF Exists, InstallTypes, Objects
    <3> QED
      BY <3>1, <3>2
  <2>4. Uninstalling'
    BY <1>2, <1>3, <2>1 DEF Uninstalling, Turn
  <2> QED
    BY <1>1, <1>2, <2>1, <2>3, <2>4 DEF InstallInvariant, InstallTypes, VersionsWereGiven, PriorWasLive,
       OwnedBeforeWriting, ReportsTellOfWrites, ReportsOfApplying, Untold, InstallTellsTheTruth
<1>12. ASSUME ipc \in {"removing", "deleting"},
              NEW outcome \in {"passed", "removed", "failed"}, report' = Append(report, outcome),
              Turn < Len(Bundle), ipc' = "removing",
              /\ live' \in [Keys -> Objects \cup {NULL}] /\ stamp' \in Nat /\ VersionsWereGiven',
              UNCHANGED <<installer, place, call, prior, established, writes, told>>
       PROVE  InstallInvariant'
  <2>1. /\ report' \in Seq(Outcomes) /\ DOMAIN report' = DOMAIN report \cup {Turn} /\ Turn = Len(report) + 1
        /\ Len(report') = Len(report) + 1 /\ Len(report) \in Nat /\ Turn \notin DOMAIN report
        /\ report'[Turn] = outcome /\ \A i \in DOMAIN report : report'[i] = report[i]
    BY <1>1, <1>12 DEF InstallTypes, Outcomes, Turn
  <2>2. InstallTypes'
    BY <1>1, <1>2, <1>12, <2>1 DEF InstallTypes
  <2>3. ReportsTellOfWrites'
    BY <1>1, <1>12, <2>1 DEF ReportsTellOfWrites
  <2>4. Uninstalling'
    BY <1>1, <1>2, <1>3, <1>12, <2>1 DEF Uninstalling, Turn
  <2>5. InstallTellsTheTruth'
    <3>1. installer # "olm"
      BY <1>1, <1>12 DEF Uninstalling
    <3> QED
      BY <1>1, <1>2, <1>12, <3>1 DEF InstallTellsTheTruth
  <2> QED
    BY <1>1, <1>12, <2>2, <2>3, <2>4, <2>5 DEF InstallInvariant, PriorWasLive, OwnedBeforeWriting,
       ReportsOfApplying, Untold
<1>13. CASE LookBeforeRemoval
  <2>1. /\ ipc = "removing" /\ Turn < Len(Bundle)
        /\ UNCHANGED <<installer, live, stamp, place, call, prior, established, writes, told>>
        /\ \/ report' = Append(report, "passed") /\ ipc' = ipc
           \/ report' = report /\ ipc' = "deleting"
    <3>1. ipc = "removing" /\ Turn # Len(Bundle) /\ Turn <= Len(Bundle)
      BY <1>1, <1>13 DEF LookBeforeRemoval, Leaves, Uninstalling
    <3>2. Turn \in Nat
      BY <1>1 DEF Turn, InstallTypes
    <3>3. ASSUME NEW t \in Nat, NEW n \in {3, 4}, t <= n, t # n
          PROVE  t < n
      BY <3>3
    <3>4. Turn < Len(Bundle)
      BY <1>3, <3>1, <3>2, <3>3
    <3> QED
      BY <1>13, <3>1, <3>4 DEF LookBeforeRemoval
  <2>2. live' \in [Keys -> Objects \cup {NULL}] /\ stamp' \in Nat /\ VersionsWereGiven'
    BY <1>1, <1>2, <2>1 DEF InstallTypes, VersionsWereGiven
  <2>3. CASE report' = Append(report, "passed") /\ ipc' = ipc
    BY <1>12, <2>1, <2>2, <2>3
  <2>4. CASE report' = report /\ ipc' = "deleting"
    BY <1>1, <1>2, <2>1, <2>2, <2>4 DEF InstallInvariant, InstallTypes, PriorWasLive, OwnedBeforeWriting,
       ReportsTellOfWrites, ReportsOfApplying, Untold, Uninstalling, Turn, InstallTellsTheTruth
  <2> QED
    BY <2>1, <2>3, <2>4
<1>14. CASE RemoveObject
  <2> DEFINE key == Key(Removing, place)
  <2>1. /\ ipc = "deleting" /\ ipc' = "removing" /\ Turn < Len(Bundle)
        /\ UNCHANGED <<installer, place, call, prior, established, writes, told>>
    BY <1>1, <1>14 DEF RemoveObject, Uninstalling
  <2>2. PICK outcome \in {"removed", "failed"} : report' = Append(report, outcome)
    BY <1>14 DEF RemoveObject
  <2>3. Store(key, NULL) \/ UNCHANGED <<live, stamp>>
    BY <1>14 DEF RemoveObject
  <2> HIDE DEF key
  <2>4. live' \in [Keys -> Objects \cup {NULL}] /\ stamp' \in Nat /\ VersionsWereGiven'
    <3>1. CASE UNCHANGED <<live, stamp>>
      BY <1>1, <1>2, <3>1 DEF InstallTypes, VersionsWereGiven
    <3>2. CASE Store(key, NULL)
      <4>1. stamp' = stamp + 1 /\ live' = [live EXCEPT ![key] = NULL] /\ stamp \in Nat
        BY <1>1, <3>2 DEF Store, InstallTypes
      <4>2. live' \in [Keys -> Objects \cup {NULL}]
        BY <1>1, <4>1 DEF InstallTypes
      <4>3. ASSUME NEW k \in Keys, live'[k] # NULL
            PROVE  live'[k] = live[k] /\ live[k].version \in Nat /\ live[k].version <= stamp
        BY <1>1, <4>1, <4>3 DEF InstallTypes, VersionsWereGiven, Objects
      <4> QED
        BY <1>2, <4>1, <4>2, <4>3 DEF VersionsWereGiven
    <3> QED
      BY <2>3, <3>1, <3>2
  <2> QED
    BY <1>12, <2>1, <2>2, <2>4
<1>15. CASE FinishUninstall
  <2>1. /\ ipc = "removing" /\ ipc' = "answered" /\ told' \in {"uninstalled", "partial"}
        /\ UNCHANGED <<installer, live, stamp, place, call, prior, report, established, writes>>
    BY <1>15 DEF FinishUninstall
  <2> QED
    BY <1>1, <1>2, <2>1 DEF InstallInvariant, InstallTypes, VersionsWereGiven, PriorWasLive, OwnedBeforeWriting,
       ReportsTellOfWrites, ReportsOfApplying, Untold, Uninstalling, InstallTellsTheTruth
<1>16. CASE OthersChange
  <2>1. UNCHANGED <<installer, place, ipc, call, prior, report, established, writes, told>>
    BY <1>16 DEF OthersChange
  <2> SUFFICES /\ live' \in [Keys -> Objects \cup {NULL}] /\ stamp' \in Nat
               /\ VersionsWereGiven' /\ PriorWasLive'
    BY <1>1, <1>2, <2>1 DEF InstallInvariant, InstallTypes, OwnedBeforeWriting, ReportsTellOfWrites,
       ReportsOfApplying, Untold, Uninstalling, Turn, InstallTellsTheTruth
  <2>2. CASE Establish
    <3> DEFINE key == Key("crd", place)
    <3>1. /\ installer = "olm" /\ live[key] # NULL
          /\ live' = [live EXCEPT ![key].ready = TRUE] /\ stamp' = stamp
      BY <2>2 DEF Establish, Exists
    <3>2. key \in Keys
      <4>1. Bundle[1] = "crd" /\ 1 \in DOMAIN Bundle
        BY <3>1 DEF Bundle
      <4>2. place \in Places
        BY <1>1, <1>16 DEF OthersChange, InstallTypes
      <4> QED
        BY <1>1, <4>1, <4>2, BundleIsShort DEF InstallTypes
    <3> HIDE DEF key
    <3>3. /\ live[key] \in Objects /\ live' \in [Keys -> Objects \cup {NULL}]
          /\ live'[key] = [live[key] EXCEPT !.ready = TRUE]
          /\ \A k \in Keys : k # key => live'[k] = live[k]
      <4>1. live[key] \in Objects /\ live \in [Keys -> Objects \cup {NULL}]
        BY <1>1, <3>1, <3>2 DEF InstallTypes
      <4>2. [live[key] EXCEPT !.ready = TRUE] \in Objects
        BY <4>1 DEF Objects
      <4>3. live' = [live EXCEPT ![key] = [live[key] EXCEPT !.ready = TRUE]]
        BY <3>1
      <4> QED
        BY <3>2, <4>1, <4>2, <4>3
    <3>4. \A k \in Keys : live'[k] # NULL =>
            live[k] # NULL /\ live'[k].version = live[k].version /\ live'[k].ours = live[k].ours
      <4>1. live'[key].version = live[key].version /\ live'[key].ours = live[key].ours
        BY <3>3 DEF Objects
      <4> QED
        BY <3>1, <3>3, <4>1
    <3>5. VersionsWereGiven'
      BY <1>1, <1>2, <3>1, <3>4 DEF VersionsWereGiven
    <3>6. PriorWasLive'
      <4> SUFFICES ASSUME ipc \in {"survey", "apply"}, NEW i \in DOMAIN prior, prior[i] # NULL
                   PROVE  LET now == live'[Key(Bundle[i], place)]
                          IN now # NULL /\ now.version = prior[i].version => now.ours = prior[i].ours
        BY <1>1, <1>2, <2>1, <3>1 DEF PriorWasLive
      <4>1. i \in DOMAIN Bundle /\ place \in Places
        BY <1>1, <1>3 DEF PriorWasLive, InstallTypes
      <4>2. Key(Bundle[i], place) \in Keys
        BY <1>1, <4>1, BundleIsShort DEF InstallTypes
      <4> QED
        BY <1>1, <3>4, <4>2 DEF PriorWasLive
    <3> QED
      BY <1>1, <3>1, <3>3, <3>5, <3>6 DEF InstallTypes
  <2>3. CASE Meddle
    <3>1. PICK key \in Keys, stored \in Objects \cup {NULL} :
            Store(key, stored) /\ (stored # NULL => stored.version = stamp + 1)
      <4>1. PICK key \in Keys : (\E ours \in BOOLEAN : Store(key, Object(ours, stamp + 1, "default"))) \/ Store(key, NULL)
        BY <2>3 DEF Meddle
      <4>2. CASE Store(key, NULL)
        BY <4>2
      <4>3. ASSUME NEW ours \in BOOLEAN, Store(key, Object(ours, stamp + 1, "default"))
            PROVE  \E k \in Keys, object_ \in Objects \cup {NULL} :
                     Store(k, object_) /\ (object_ # NULL => object_.version = stamp + 1)
        <5> DEFINE stored == Object(ours, stamp + 1, "default")
        <5>1. stored \in Objects /\ stored.version = stamp + 1
          BY <1>1 DEF Object, Objects, Places, InstallTypes
        <5> QED
          BY <4>3, <5>1
      <4> QED
        BY <4>1, <4>2, <4>3
    <3> QED
      BY <1>1, <2>1, <3>1, StoringKeepsTheRest
  <2> QED
    BY <1>16, <2>2, <2>3 DEF OthersChange
<1> QED
  BY <1>4, <1>5, <1>6, <1>7, <1>8, <1>9, <1>10, <1>11, <1>13, <1>14, <1>15, <1>16 DEF InstallNext, InstallerStep

\* router.py, olm.py and projects.py: "installed" is said when every object of the bundle
\* was accepted in the request, none of them over somebody else's; a refusal for
\* ownership and a dry run write nothing; and olm's second phase waits for its first.
THEOREM InstallsTellTheTruth == Spec => []InstallTellsTheTruth
<1>1. InstallInvariant /\ [Next]_vars => InstallInvariant'
  <2> SUFFICES ASSUME InstallInvariant, [Next]_vars
               PROVE  InstallInvariant'
    OBVIOUS
  <2>1. CASE part = "install" /\ InstallNext /\ part' = part
    BY <2>1, InstallGoesOn
  <2>2. CASE part' = part /\ UNCHANGED install
    <3>1. Bundle' = Bundle /\ Keys' = Keys /\ Turn' = Turn
      BY <2>2 DEF install, Bundle, Keys, Turn
    <3>2. InstallInvariant' <=> InstallInvariant
      BY <2>2, <3>1 DEF install, InstallInvariant, InstallTypes, VersionsWereGiven, PriorWasLive, OwnedBeforeWriting,
         ReportsTellOfWrites, ReportsOfApplying, Untold, Uninstalling, InstallTellsTheTruth
    <3> QED
      BY <3>2
  <2> QED
    BY <2>1, <2>2 DEF Next, vars
<1>2. InstallInvariant => InstallTellsTheTruth
  BY NullAssumption, NoAnswerAssumption DEF InstallInvariant, InstallTellsTheTruth
<1> QED
  BY <1>1, <1>2, InstallStarts, PTL DEF Spec

-----------------------------------------------------------------------------
(* Pages.  An answer is judged by what the request lived through: every value it
   holds was there at one of its moments, every resolution came from a catalogue that
   was true when it was enumerated, and whatever is not known was announced. *)

\* What the proofs use of Program: a source is resolved before it is listed, a read is the
\* last step about its object, and a page about one object reads what it resolved.
WellOrdered(p) ==
  LET steps == Program[p]
  IN /\ Len(steps) \in Nat \ {0} /\ DOMAIN steps = 1 .. Len(steps)
     /\ \A i \in DOMAIN steps : steps[i].do \in {"resolve", "list", "get", "count"}
     /\ \A i, j \in DOMAIN steps :
          i < j /\ steps[i].do # "resolve" => steps[i].what # steps[j].what
     /\ \A i \in DOMAIN steps :
          steps[i].do = "list" =>
            \E j \in DOMAIN steps : steps[j].do = "resolve" /\ steps[j].what = steps[i].what
     /\ p \in {"package", "route"} =>
          \A i \in DOMAIN steps :
            \E j \in DOMAIN steps : steps[j].do = "resolve" /\ steps[j].what = steps[i].what
     /\ p = "router" =>
          /\ \A i \in DOMAIN steps : (steps[i].what = "binding" <=> i = 1) /\ steps[i].do = "get"
          /\ \E i \in DOMAIN steps : steps[i].what = "deployment"
     /\ p = "olm" =>
          /\ \A i \in DOMAIN steps : steps[i].do = "resolve" => steps[i].what = "packages"
          /\ \A i \in DOMAIN steps : steps[i].do \in {"resolve", "get"}
          /\ \E i \in DOMAIN steps : steps[i].do = "resolve"
          /\ \A d \in OlmDeployments :
               \E i \in DOMAIN steps : steps[i].do # "resolve" /\ steps[i].what = d
     /\ p = "installed" =>
          \A what \in {"plans", "subscriptions"} :
            \E i \in DOMAIN steps : steps[i].do = "list" /\ steps[i].what = what
     /\ p \in {"routes", "route"} =>
          \E i \in DOMAIN steps : steps[i].do # "resolve" /\ steps[i].what = "routes"
     /\ p # "olm" => \A i \in DOMAIN steps : steps[i].what # "csv"

LEMMA ProgramsAreWellOrdered == \A p \in DOMAIN Program : WellOrdered(p)
<1>1. DOMAIN Program = {"catalog", "installed", "package", "routes", "capabilities", "route",
                        "router", "olm", "overview"}
  BY DEF Program
<1>2. WellOrdered("catalog")
  BY DEF WellOrdered, Program, Step
<1>3. WellOrdered("installed")
  BY DEF WellOrdered, Program, Step
<1>4. WellOrdered("package") /\ WellOrdered("route")
  BY DEF WellOrdered, Program, Step
<1>5. WellOrdered("routes")
  BY DEF WellOrdered, Program, Step
<1>6. WellOrdered("capabilities") /\ WellOrdered("overview")
  BY DEF WellOrdered, Program, Step
<1>7. WellOrdered("router")
  BY DEF WellOrdered, Program, Step
<1>8. WellOrdered("olm")
  BY DEF WellOrdered, Program, Step, OlmDeployments
<1> QED
  BY <1>1, <1>2, <1>3, <1>4, <1>5, <1>6, <1>7, <1>8

\* A catalogue lists nothing that was not served, and leaves out nothing but its gaps.
IsTrue(catalogue) ==
  \A group \in Group :
    /\ group \in catalogue.listed => group \in catalogue.truth
    /\ group \notin catalogue.listed /\ group \notin catalogue.gaps => group \notin catalogue.truth

LEMMA EnumerationsAreTrue ==
  ASSUME NEW actual, NEW catalogue \in Enumerations(actual)
  PROVE  IsTrue(catalogue)
BY DEF Enumerations, IsTrue, Catalogue

LEMMA GroupsOfThings == \A what : GroupOf(what) \in Group
BY GroupAssumption DEF GroupOf

\* resolve tells of a true catalogue nothing but what it holds.
LEMMA ResolutionsAreTrue ==
  ASSUME NEW catalogue, IsTrue(catalogue), NEW group \in Group
  PROVE  LET resolution == Resolution(catalogue, group)
         IN /\ resolution \in {"available", "unknown", "unsupported"}
            /\ resolution = "available" => group \in catalogue.truth
            /\ resolution = "unsupported" => group \notin catalogue.truth
BY DEF IsTrue, Resolution, BlindSpot

-----------------------------------------------------------------------------
PageTypes ==
  /\ page \in Page /\ asked \in {NULL, "custom"} /\ objects \in Worlds
  /\ at \in Nat \ {0}
  /\ doing \in {"look", "enumerating", "fetch", "answered", "failed"}
  /\ Busy => at \in DOMAIN Steps
  /\ doing = "enumerating" => This.do # "count"
  /\ doing = "fetch" => This.do # "resolve"
  /\ states \in [Sources -> {NULL, "available", "unknown", "unsupported"}]
  /\ DOMAIN got = Reads /\ got = [what \in Reads |-> got[what]]
  /\ \A what \in Reads : got[what] \in Possible(what) \cup {UNREAD}
  /\ cut \subseteq Sources

MomentsAreWorlds ==
  /\ World \in moments
  /\ \A w \in moments : /\ w.objects \in Worlds
                        /\ w.served \subseteq Group /\ Builtin \subseteq w.served

CataloguesAreTrue ==
  /\ cache # NULL => IsTrue(cache)
  /\ doing = "enumerating" => IsTrue(begun)

\* What was read was there at a moment of the request; what was not found was not there
\* at one, or the listing was cut, or its API was not served.
Warranted(what, value) ==
  /\ value \notin {NULL, UNREAD} =>
       \E w \in moments : IsThere(what, w) /\ w.objects[what] = value
  /\ value = NULL =>
       \/ \E w \in moments : ~IsThere(what, w)
       \/ what \in cut
       \/ what = "csv" /\ \E actual \in relied : GroupOf(what) \notin actual
GotIsWarranted == \A what \in Reads : Warranted(what, got[what])

UnreadUntilRead ==
  Busy => \A i \in DOMAIN Steps :
            i >= at /\ Steps[i].do # "resolve" => got[Steps[i].what] = UNREAD

StatesAreRelied ==
  \A source \in Sources :
    /\ states[source] = "available" => \E actual \in relied : GroupOf(source) \in actual
    /\ states[source] = "unsupported" => \E actual \in relied : GroupOf(source) \notin actual
    /\ states[source] = "unknown" => source \in missing

\* A step behind us resolved its source, or read its object, or left word of it.
Excused(what) == what \in missing \/ (what \in Sources /\ states[what] # "available")
AllAccountedFor ==
  doing # "failed" =>
    \A i \in DOMAIN Steps : i < at =>
      IF Steps[i].do = "resolve" THEN states[Steps[i].what] # NULL
      ELSE got[Steps[i].what] # UNREAD \/ Excused(Steps[i].what)

AnswersAtTheEnd ==
  doing = "answered" =>
    \/ at = Len(Steps) + 1
    \/ \E source \in Sources : states[source] = "unsupported"

PageInvariant ==
  IF part = "page"
  THEN /\ PageTypes /\ MomentsAreWorlds /\ CataloguesAreTrue /\ GotIsWarranted
       /\ UnreadUntilRead /\ StatesAreRelied /\ AllAccountedFor /\ AnswersAtTheEnd
  ELSE doing = NULL

-----------------------------------------------------------------------------
\* What the programs say about the page at hand.
LEMMA PageIsWellOrdered == page \in Page => WellOrdered(page)
BY PageAssumption, ProgramsAreWellOrdered

LEMMA StepsAreReadsOrSources ==
  ASSUME page \in Page, NEW i \in DOMAIN Steps
  PROVE  /\ Len(Steps) \in Nat \ {0} /\ DOMAIN Steps = 1 .. Len(Steps)
         /\ Steps[i].do \in {"resolve", "list", "get", "count"}
         /\ Steps[i].do = "resolve" => Steps[i].what \in Sources
         /\ Steps[i].do # "resolve" => Steps[i].what \in Reads
         /\ Steps[i].do = "list" => Steps[i].what \in Sources
         /\ Single => Steps[i].what \in Sources
         /\ \A j \in DOMAIN Steps : i < j /\ Steps[i].do # "resolve" => Steps[i].what # Steps[j].what
BY PageIsWellOrdered DEF WellOrdered, Steps, Reads, Sources, Single

LEMMA OnlyOlmReadsCsv ==
  ASSUME page \in Page, NEW i \in DOMAIN Steps, Steps[i].what = "csv"
  PROVE  page = "olm" /\ "csv" \notin Sources
BY PageIsWellOrdered DEF WellOrdered, Steps, Sources

\* The namespace the router is looked for in is settled before it is looked for.
LEMMA BindingComesFirst ==
  ASSUME page = "router", page \in Page
  PROVE  /\ Sources = {}
         /\ \A i \in DOMAIN Steps : (Steps[i].what = "binding" <=> i = 1) /\ Steps[i].do = "get"
         /\ "deployment" \in Reads /\ \E i \in DOMAIN Steps : i > 1 /\ Steps[i].what = "deployment"
<1>1. WellOrdered("router")
  BY PageIsWellOrdered
<1>2. \A i \in DOMAIN Steps : i = 1 \/ i > 1
  BY <1>1 DEF WellOrdered, Steps
<1> QED
  BY <1>1, <1>2 DEF WellOrdered, Steps, Sources, Reads

LEMMA ThingsStayThere ==
  ASSUME NEW what, NEW w, page' = page, asked' = asked,
         page = "router" /\ what = "deployment" => got'["binding"] = got["binding"]
  PROVE  IsThere(what, w)' <=> IsThere(what, w)
BY DEF IsThere, Place, Values

LEMMA ProgramStays ==
  ASSUME page' = page
  PROVE  /\ Steps' = Steps /\ Reads' = Reads /\ Sources' = Sources /\ (Single' <=> Single)
         /\ Worlds' = Worlds /\ \A what : Possible(what)' = Possible(what) /\ Values(what)' = Values(what)
BY DEF Steps, Reads, Sources, Single, Worlds, Possible, Values

-----------------------------------------------------------------------------
LEMMA PageStarts == Init => PageInvariant
<1> SUFFICES ASSUME Init, part = "page"
             PROVE  PageInvariant
  BY DEF Init, NoPage, PageInvariant
<1>1. PageInit
  BY DEF Init
<1>2. page \in Page /\ \A i \in DOMAIN Steps : i >= 1
  BY <1>1, StepsAreReadsOrSources DEF PageInit
<1>3. 1 \in DOMAIN Steps
  BY <1>2, PageIsWellOrdered DEF WellOrdered, Steps
<1>4. PageTypes
  BY <1>1, <1>2, <1>3 DEF PageInit, PageTypes, Busy, Possible
<1>5. MomentsAreWorlds
  <2>1. Builtin \subseteq apis /\ apis \subseteq Group
    BY <1>1 DEF PageInit, DiscoveryInit
  <2> QED
    BY <1>1, <2>1 DEF PageInit, MomentsAreWorlds, World
<1>6. CataloguesAreTrue
  BY <1>1, EnumerationsAreTrue DEF PageInit, CataloguesAreTrue, DiscoveryInit
<1>7. GotIsWarranted
  BY <1>1, UnreadAssumption DEF PageInit, GotIsWarranted, Warranted
<1>8. UnreadUntilRead
  BY <1>1, <1>2, StepsAreReadsOrSources DEF PageInit, UnreadUntilRead
<1>9. StatesAreRelied
  BY <1>1, ValueAssumption DEF PageInit, StatesAreRelied
<1>10. AllAccountedFor /\ AnswersAtTheEnd
  BY <1>1, <1>2, StepsAreReadsOrSources DEF PageInit, AllAccountedFor, AnswersAtTheEnd
<1> QED
  BY <1>4, <1>5, <1>6, <1>7, <1>8, <1>9, <1>10 DEF PageInvariant

\* A step reads its object, or fails to: the next step follows, or the request fails.
LEMMA ReadingKeepsIt ==
  ASSUME PageInvariant, part = "page", part' = part, Busy, This.do # "resolve",
         NEW value \in Possible(This.what) \cup {UNREAD},
         got' = [got EXCEPT ![This.what] = value],
         value \notin {NULL, UNREAD} =>
           IsThere(This.what, World) /\ objects[This.what] = value,
         value = NULL => \/ ~IsThere(This.what, World)
                         \/ This.what \in cut'
                         \/ This.what = "csv" /\ \E actual \in relied' : GroupOf(This.what) \notin actual,
         Advance \/ Fail,
         value = UNREAD /\ doing' # "failed" =>
           This.what \in missing' \/ (This.what \in Sources /\ states'[This.what] # "available"),
         missing \subseteq missing', cut \subseteq cut', cut' \subseteq Sources, relied \subseteq relied',
         states' \in [Sources -> {NULL, "available", "unknown", "unsupported"}], StatesAreRelied',
         \A source \in Sources :
           \/ states'[source] = states[source]
           \/ source = This.what /\ states'[source] # NULL,
         cache' # NULL => IsTrue(cache'),
         UNCHANGED <<page, asked, objects, apis, moments>>
  PROVE  PageInvariant'
<1>1. /\ PageTypes /\ MomentsAreWorlds /\ GotIsWarranted /\ UnreadUntilRead /\ StatesAreRelied
      /\ AllAccountedFor /\ AnswersAtTheEnd /\ page \in Page
  BY DEF PageInvariant, PageTypes
<1>2. /\ Steps' = Steps /\ Reads' = Reads /\ Sources' = Sources /\ Worlds' = Worlds /\ World' = World
      /\ \A what : Possible(what)' = Possible(what)
  BY ProgramStays DEF World
<1>3. /\ at \in DOMAIN Steps /\ DOMAIN Steps = 1 .. Len(Steps) /\ Len(Steps) \in Nat
      /\ This = Steps[at] /\ This.what \in Reads
      /\ \A i \in DOMAIN Steps : i < at /\ Steps[i].do # "resolve" => Steps[i].what # This.what
      /\ \A i \in DOMAIN Steps : i > at /\ Steps[i].do # "resolve" => Steps[i].what # This.what
  BY <1>1, StepsAreReadsOrSources DEF PageTypes, This
<1>4. /\ doing' \in {"look", "answered", "failed"} /\ at' \in {at, at + 1}
      /\ doing' = "failed" \/ (at' = at + 1 /\ (doing' = "answered" <=> at = Len(Steps)))
  BY DEF Advance, Fail
<1>5. /\ got' = [what \in Reads |-> got'[what]] /\ DOMAIN got' = Reads /\ got'[This.what] = value
      /\ \A what \in Reads : what # This.what => got'[what] = got[what]
  BY <1>1, <1>3 DEF PageTypes
<1>6. PageTypes'
  <2>1. at' \in Nat \ {0} /\ (Busy' => at' \in DOMAIN Steps)
    BY <1>3, <1>4 DEF Busy
  <2>2. \A what \in Reads : got'[what] \in Possible(what) \cup {UNREAD}
    BY <1>1, <1>5 DEF PageTypes
  <2> QED
    BY <1>1, <1>2, <1>4, <1>5, <2>1, <2>2 DEF PageTypes
<1>7. MomentsAreWorlds' /\ CataloguesAreTrue'
  BY <1>1, <1>2, <1>4 DEF MomentsAreWorlds, CataloguesAreTrue
<1>8. GotIsWarranted'
  <2> SUFFICES ASSUME NEW what \in Reads
               PROVE  Warranted(what, got[what])'
    BY <1>2 DEF GotIsWarranted
  <2>1. CASE got'[what] = UNREAD
    BY <2>1, UnreadAssumption DEF Warranted
  <2>2. CASE got'[what] # UNREAD
    \* What has been looked for in a place was not looked for before the place was read.
    <3>1. page = "router" /\ what = "deployment" => got'["binding"] = got["binding"]
      <4> SUFFICES ASSUME page = "router", what = "deployment", got'["binding"] # got["binding"]
                   PROVE  FALSE
        OBVIOUS
      <4>1. This.what = "binding" /\ at = 1
        <5>1. "binding" \in Reads
          BY <1>1, <1>3, BindingComesFirst DEF Reads
        <5> QED
          BY <1>1, <1>3, <1>5, <5>1, BindingComesFirst
      <4>2. got["deployment"] = UNREAD
        BY <1>1, <1>3, <4>1, BindingComesFirst DEF UnreadUntilRead
      <4> QED
        BY <1>3, <1>5, <2>2, <4>1, <4>2
    <3>2. \A w : IsThere(what, w)' <=> IsThere(what, w)
      BY <3>1, ThingsStayThere
    <3>3. World \in moments
      BY <1>1 DEF MomentsAreWorlds
    <3>4. CASE what = This.what
      BY <1>5, <3>2, <3>3, <3>4 DEF Warranted, World
    <3>5. CASE what # This.what
      <4>1. Warranted(what, got[what]) /\ got'[what] = got[what]
        BY <1>1, <1>5, <3>5 DEF GotIsWarranted
      <4> QED
        BY <3>2, <4>1 DEF Warranted
    <3> QED
      BY <3>4, <3>5
  <2> QED
    BY <2>1, <2>2
<1>9. UnreadUntilRead'
  <2> SUFFICES ASSUME Busy', NEW i \in DOMAIN Steps, i >= at', Steps[i].do # "resolve"
               PROVE  got'[Steps[i].what] = UNREAD
    BY <1>2 DEF UnreadUntilRead
  <2>1. i > at
    BY <1>3, <1>4 DEF Busy
  <2>2. Steps[i].what \in Reads /\ Steps[i].what # This.what
    BY <1>1, <1>3, <2>1, StepsAreReadsOrSources
  <2>3. got[Steps[i].what] = UNREAD
    BY <1>1, <1>3, <2>1 DEF UnreadUntilRead
  <2> QED
    BY <1>5, <2>2, <2>3
<1>10. AllAccountedFor'
  <2> SUFFICES ASSUME doing' # "failed", NEW i \in DOMAIN Steps, i < at'
               PROVE  IF Steps[i].do = "resolve" THEN states'[Steps[i].what] # NULL
                      ELSE got'[Steps[i].what] # UNREAD \/ Excused(Steps[i].what)'
    BY <1>2 DEF AllAccountedFor
  <2>1. i < at \/ i = at
    BY <1>3, <1>4
  <2>2. CASE i = at
    BY <1>2, <1>3, <1>5, <2>2 DEF Excused
  <2>3. CASE i < at
    <3>1. IF Steps[i].do = "resolve" THEN states[Steps[i].what] # NULL
          ELSE got[Steps[i].what] # UNREAD \/ Excused(Steps[i].what)
      BY <1>1, <2>3 DEF AllAccountedFor, Busy
    <3>2. CASE Steps[i].do = "resolve"
      BY <1>1, <3>1, <3>2, StepsAreReadsOrSources
    <3>3. CASE Steps[i].do # "resolve"
      <4>1. Steps[i].what # This.what /\ Steps[i].what \in Reads
        BY <1>1, <1>3, <2>3, <3>3, StepsAreReadsOrSources
      <4> QED
        BY <1>2, <1>5, <3>1, <3>3, <4>1 DEF Excused
    <3> QED
      BY <3>2, <3>3
  <2> QED
    BY <2>1, <2>2, <2>3
<1>11. AnswersAtTheEnd'
  BY <1>2, <1>4 DEF AnswersAtTheEnd
<1> QED
  BY <1>6, <1>7, <1>8, <1>9, <1>10, <1>11 DEF PageInvariant

LEMMA ResolvingKeepsIt ==
  ASSUME PageInvariant, part = "page", part' = part, Busy, This.do = "resolve",
         NEW resolution \in {"available", "unknown", "unsupported"},
         ResolveSource(resolution),
         resolution = "available" => \E actual \in relied' : GroupOf(This.what) \in actual,
         resolution = "unsupported" => \E actual \in relied' : GroupOf(This.what) \notin actual,
         cut' = cut, relied \subseteq relied',
         cache' # NULL => IsTrue(cache'),
         UNCHANGED <<page, asked, objects, apis, moments>>
  PROVE  PageInvariant'
<1>1. /\ PageTypes /\ MomentsAreWorlds /\ GotIsWarranted /\ UnreadUntilRead /\ StatesAreRelied
      /\ AllAccountedFor /\ AnswersAtTheEnd /\ page \in Page
  BY DEF PageInvariant, PageTypes
<1>2. /\ Steps' = Steps /\ Reads' = Reads /\ Sources' = Sources /\ Worlds' = Worlds /\ World' = World
      /\ \A what : Possible(what)' = Possible(what)
  BY ProgramStays DEF World
<1>3. /\ at \in DOMAIN Steps /\ DOMAIN Steps = 1 .. Len(Steps) /\ Len(Steps) \in Nat
      /\ This = Steps[at] /\ This.what \in Sources
      /\ \A i \in DOMAIN Steps : i < at /\ Steps[i].do # "resolve" => Steps[i].what # This.what
  BY <1>1, StepsAreReadsOrSources DEF PageTypes, This
<1>4. /\ doing' \in {"look", "answered", "failed"} /\ at' \in {at, at + 1}
      /\ doing' \notin {"answered", "failed"} => at' = at + 1 /\ at # Len(Steps)
      /\ doing' = "answered" => at' = Len(Steps) + 1 \/ (at' = at /\ resolution = "unsupported")
  BY DEF ResolveSource, Advance, Fail
<1>5. /\ got' = got /\ missing \subseteq missing' /\ (resolution = "unknown" => This.what \in missing')
      /\ states' = [states EXCEPT ![This.what] = resolution]
  BY DEF ResolveSource
<1>6. /\ states' \in [Sources -> {NULL, "available", "unknown", "unsupported"}]
      /\ states'[This.what] = resolution
      /\ \A source \in Sources : source # This.what => states'[source] = states[source]
  BY <1>1, <1>3, <1>5 DEF PageTypes
<1>7. PageTypes'
  <2>1. at' \in Nat \ {0} /\ (Busy' => at' \in DOMAIN Steps)
    BY <1>3, <1>4 DEF Busy
  <2> QED
    BY <1>1, <1>2, <1>4, <1>5, <1>6, <2>1 DEF PageTypes
<1>8. MomentsAreWorlds' /\ CataloguesAreTrue'
  BY <1>1, <1>2, <1>4 DEF MomentsAreWorlds, CataloguesAreTrue
<1>9. GotIsWarranted'
  <2>1. \A what, w : IsThere(what, w)' <=> IsThere(what, w)
    BY <1>5, ThingsStayThere
  <2> QED
    BY <1>1, <1>2, <1>5, <2>1 DEF GotIsWarranted, Warranted
<1>10. UnreadUntilRead'
  BY <1>1, <1>2, <1>3, <1>4, <1>5 DEF UnreadUntilRead, Busy
<1>11. StatesAreRelied'
  BY <1>1, <1>2, <1>5, <1>6 DEF StatesAreRelied
<1>12. AllAccountedFor'
  <2> SUFFICES ASSUME doing' # "failed", NEW i \in DOMAIN Steps, i < at'
               PROVE  IF Steps[i].do = "resolve" THEN states'[Steps[i].what] # NULL
                      ELSE got[Steps[i].what] # UNREAD \/ Excused(Steps[i].what)'
    BY <1>2, <1>5 DEF AllAccountedFor
  <2>1. i < at \/ i = at
    BY <1>3, <1>4
  <2>2. CASE i = at
    BY <1>3, <1>6, <2>2, ValueAssumption
  <2>3. CASE i < at
    <3>1. IF Steps[i].do = "resolve" THEN states[Steps[i].what] # NULL
          ELSE got[Steps[i].what] # UNREAD \/ Excused(Steps[i].what)
      BY <1>1, <2>3 DEF AllAccountedFor, Busy
    <3>2. CASE Steps[i].do = "resolve"
      BY <1>1, <1>6, <3>1, <3>2, StepsAreReadsOrSources, ValueAssumption
    <3>3. CASE Steps[i].do # "resolve"
      BY <1>2, <1>3, <1>5, <1>6, <2>3, <3>1, <3>3 DEF Excused
    <3> QED
      BY <3>2, <3>3
  <2> QED
    BY <2>1, <2>2, <2>3
<1>13. AnswersAtTheEnd'
  BY <1>2, <1>3, <1>4, <1>6 DEF AnswersAtTheEnd
<1> QED
  BY <1>7, <1>8, <1>9, <1>10, <1>11, <1>12, <1>13 DEF PageInvariant

\* Only what the request is about to do changes, and it goes on or ends there.
LEMMA TurningKeepsIt ==
  ASSUME PageInvariant, part = "page", part' = part, Busy,
         at' = at, doing' \in {"look", "enumerating", "fetch", "answered", "failed"},
         doing' = "enumerating" => This.do # "count" /\ IsTrue(begun'),
         doing' = "fetch" => This.do # "resolve",
         doing' = "answered" => \E source \in Sources : states'[source] = "unsupported",
         states' \in [Sources -> {NULL, "available", "unknown", "unsupported"}], StatesAreRelied',
         \A source \in Sources :
           \/ states'[source] = states[source]
           \/ source = This.what /\ This.do # "resolve" /\ states'[source] # NULL,
         relied \subseteq relied',
         cache' # NULL => IsTrue(cache'),
         UNCHANGED <<page, asked, objects, apis, moments, got, missing, cut>>
  PROVE  PageInvariant'
<1>1. /\ PageTypes /\ MomentsAreWorlds /\ GotIsWarranted /\ UnreadUntilRead /\ StatesAreRelied
      /\ AllAccountedFor /\ AnswersAtTheEnd /\ page \in Page
  BY DEF PageInvariant, PageTypes
<1>2. /\ Steps' = Steps /\ Reads' = Reads /\ Sources' = Sources /\ Worlds' = Worlds /\ World' = World
      /\ This' = This /\ \A what : Possible(what)' = Possible(what)
  BY ProgramStays DEF World, This
<1>3. /\ at \in DOMAIN Steps /\ DOMAIN Steps = 1 .. Len(Steps)
      /\ \A i \in DOMAIN Steps : i < at /\ Steps[i].do # "resolve" => Steps[i].what # This.what
  BY <1>1, StepsAreReadsOrSources DEF PageTypes, This
<1>4. PageTypes'
  BY <1>1, <1>2 DEF PageTypes, Busy
<1>5. MomentsAreWorlds' /\ CataloguesAreTrue'
  BY <1>1, <1>2 DEF MomentsAreWorlds, CataloguesAreTrue
<1>6. GotIsWarranted'
  <2>1. \A what, w : IsThere(what, w)' <=> IsThere(what, w)
    BY ThingsStayThere
  <2> QED
    BY <1>1, <1>2, <2>1 DEF GotIsWarranted, Warranted
<1>7. UnreadUntilRead'
  BY <1>1, <1>2 DEF UnreadUntilRead
<1>8. AllAccountedFor'
  <2> SUFFICES ASSUME NEW i \in DOMAIN Steps, i < at
               PROVE  IF Steps[i].do = "resolve" THEN states'[Steps[i].what] # NULL
                      ELSE got[Steps[i].what] # UNREAD \/ Excused(Steps[i].what)'
    BY <1>2 DEF AllAccountedFor
  <2>1. IF Steps[i].do = "resolve" THEN states[Steps[i].what] # NULL
        ELSE got[Steps[i].what] # UNREAD \/ Excused(Steps[i].what)
    BY <1>1 DEF AllAccountedFor, Busy
  <2>2. CASE Steps[i].do = "resolve"
    BY <1>1, <2>1, <2>2, StepsAreReadsOrSources
  <2>3. CASE Steps[i].do # "resolve"
    BY <1>2, <1>3, <2>1, <2>3 DEF Excused
  <2> QED
    BY <2>2, <2>3
<1>9. AnswersAtTheEnd'
  BY <1>2 DEF AnswersAtTheEnd
<1> QED
  BY <1>4, <1>5, <1>6, <1>7, <1>8, <1>9 DEF PageInvariant

LEMMA GoingByKeepsIt ==
  ASSUME PageInvariant, part = "page", part' = part, doing \in {"look", "enumerating"},
         This.do # "count", NEW catalogue, IsTrue(catalogue), GoBy(catalogue),
         cache' # NULL => IsTrue(cache'),
         UNCHANGED <<page, asked, objects, apis, moments, cut>>
  PROVE  PageInvariant'
<1> DEFINE resolution == Resolution(catalogue, GroupOf(This.what))
<1>1. /\ PageTypes /\ StatesAreRelied /\ Busy /\ page \in Page
      /\ at \in DOMAIN Steps /\ This = Steps[at] /\ Sources' = Sources
  BY ProgramStays DEF PageInvariant, PageTypes, Busy, This
<1>2. /\ resolution \in {"available", "unknown", "unsupported"}
      /\ relied' = relied \cup {catalogue.truth}
      /\ resolution = "available" => \E actual \in relied' : GroupOf(This.what) \in actual
      /\ resolution = "unsupported" => \E actual \in relied' : GroupOf(This.what) \notin actual
  BY GroupsOfThings, ResolutionsAreTrue DEF GoBy
<1>3. IF This.do = "resolve" THEN ResolveSource(resolution) ELSE ReadBy(resolution)
  BY DEF GoBy
<1> HIDE DEF resolution
<1>4. CASE This.do = "resolve"
  BY <1>1, <1>2, <1>3, <1>4, ResolvingKeepsIt
<1>5. CASE This.do # "resolve"
  <2>1. /\ ReadBy(resolution) /\ This.what \in Reads
        /\ Single => This.what \in Sources
        /\ This.what = "csv" => ~Single
    BY <1>1, <1>3, <1>5, StepsAreReadsOrSources, OnlyOlmReadsCsv DEF Single
  <2>2. CASE resolution = "available"
    <3>1. doing' = "fetch" /\ UNCHANGED <<at, states, got, missing>>
      BY <2>1, <2>2 DEF ReadBy
    <3>2. states' \in [Sources -> {NULL, "available", "unknown", "unsupported"}] /\ StatesAreRelied'
      BY <1>1, <1>2, <3>1 DEF PageTypes, StatesAreRelied
    <3> QED
      BY <1>1, <1>2, <1>5, <3>1, <3>2, TurningKeepsIt
  <2>3. CASE resolution # "available"
    <3>1. /\ missing \subseteq missing' \/ missing' = missing
          /\ states' = IF Single THEN [states EXCEPT ![This.what] = resolution] ELSE states
      BY <2>1, <2>3 DEF ReadBy, Unread
    <3>2. /\ states' \in [Sources -> {NULL, "available", "unknown", "unsupported"}]
          /\ Single => states'[This.what] = resolution
          /\ \A source \in Sources :
               \/ states'[source] = states[source]
               \/ Single /\ source = This.what /\ states'[source] = resolution
      BY <1>1, <1>2, <2>1, <3>1 DEF PageTypes
    <3>3. (resolution = "unknown" /\ Single => This.what \in missing') => StatesAreRelied'
      BY <1>1, <1>2, <3>1, <3>2 DEF StatesAreRelied
    <3>4. \A source \in Sources :
            \/ states'[source] = states[source]
            \/ source = This.what /\ states'[source] # NULL
      BY <1>2, <3>2, ValueAssumption
    <3>5. CASE resolution = "unsupported" /\ This.what = "csv"
      <4>1. Advance /\ got' = [got EXCEPT ![This.what] = NULL] /\ missing' = missing
        BY <2>1, <2>3, <3>5 DEF ReadBy
      <4>2. NULL \in Possible(This.what)
        BY DEF Possible
      <4>3. StatesAreRelied'
        BY <3>3, <3>5
      <4>4. cut' \subseteq Sources
        BY <1>1 DEF PageTypes
      <4> QED
        BY <1>1, <1>2, <1>5, <3>2, <3>4, <3>5, <4>1, <4>2, <4>3, <4>4, UnreadAssumption, ReadingKeepsIt
    <3>6. CASE resolution = "unsupported" /\ This.what # "csv" /\ Single
      <4>1. at' = at /\ doing' = "answered" /\ UNCHANGED <<got, missing>>
        BY <2>1, <2>3, <3>6 DEF ReadBy
      <4>2. StatesAreRelied'
        BY <3>3, <3>6
      <4> QED
        BY <1>1, <1>2, <1>5, <2>1, <3>2, <3>4, <3>6, <4>1, <4>2, TurningKeepsIt
    <3>7. CASE ~(resolution = "unsupported" /\ (This.what = "csv" \/ Single))
      <4>1. Unread
        BY <2>1, <2>3, <3>7 DEF ReadBy
      <4>2. /\ got' = [got EXCEPT ![This.what] = UNREAD] /\ This.what \in missing'
            /\ missing \subseteq missing' /\ (Advance \/ Fail)
        BY <4>1 DEF Unread
      <4>3. StatesAreRelied'
        BY <3>3, <4>2
      <4>4. cut' \subseteq Sources
        BY <1>1 DEF PageTypes
      <4> QED
        BY <1>1, <1>2, <1>5, <3>2, <3>4, <4>2, <4>3, <4>4, UnreadAssumption, ReadingKeepsIt
    <3> QED
      BY <3>5, <3>6, <3>7
  <2> QED
    BY <2>2, <2>3
<1> QED
  BY <1>4, <1>5

LEMMA FetchingKeepsIt ==
  ASSUME PageInvariant, part = "page", part' = part, Fetch
  PROVE  PageInvariant'
<1>1. /\ PageTypes /\ StatesAreRelied /\ Busy /\ page \in Page /\ at \in DOMAIN Steps /\ This = Steps[at]
      /\ This.do # "resolve"
  BY DEF Fetch, PageInvariant, PageTypes, Busy, This
<1>2. /\ This.what \in Reads /\ (This.do = "list" => This.what \in Sources)
      /\ objects[This.what] \in Possible(This.what) /\ NULL \in Possible(This.what)
  BY <1>1, StepsAreReadsOrSources DEF PageTypes, Worlds, Possible
<1>3. UNCHANGED <<discovery, page, asked, objects, drift, begun, states, moments, relied>>
  BY DEF Fetch
<1>4. /\ states' \in [Sources -> {NULL, "available", "unknown", "unsupported"}]
      /\ cache' # NULL => IsTrue(cache')
      /\ cut \subseteq Sources
  BY <1>1, <1>3 DEF PageTypes, PageInvariant, CataloguesAreTrue, discovery
<1>5. ASSUME missing \subseteq missing'
      PROVE  StatesAreRelied'
  BY <1>1, <1>3, <1>5, ProgramStays DEF StatesAreRelied
<1>6. CASE Unread /\ cut' = cut
  <2>1. /\ got' = [got EXCEPT ![This.what] = UNREAD] /\ This.what \in missing'
        /\ missing \subseteq missing' /\ (Advance \/ Fail)
    BY <1>6 DEF Unread
  <2> QED
    BY <1>1, <1>3, <1>4, <1>5, <1>6, <2>1, UnreadAssumption, ReadingKeepsIt DEF discovery
<1>7. CASE FetchAll
  <2>1. CASE GroupOf(This.what) \in apis \/ This.do = "get"
    <3> DEFINE value == IF GroupOf(This.what) \in apis THEN Found ELSE NULL
    <3>1. got' = [got EXCEPT ![This.what] = value] /\ missing' = missing /\ Advance /\ cut' = cut
      BY <1>7, <2>1 DEF FetchAll
    <3>2. /\ value \in Possible(This.what)
          /\ value # NULL => IsThere(This.what, World) /\ objects[This.what] = value
          /\ value = NULL => ~IsThere(This.what, World)
      BY <1>2 DEF Found, IsThere, World
    <3>3. \A other \in Possible(This.what) : other # UNREAD
      BY <1>1, ValueAssumption, UnreadAssumption DEF Possible, Values
    <3> HIDE DEF value
    <3> QED
      BY <1>1, <1>3, <1>4, <1>5, <3>1, <3>2, <3>3, ReadingKeepsIt DEF discovery
  <2>2. CASE ~(GroupOf(This.what) \in apis \/ This.do = "get")
    BY <1>6, <1>7, <2>2 DEF FetchAll
  <2> QED
    BY <2>1, <2>2
<1>8. CASE FetchPart
  <2>1. /\ got' = [got EXCEPT ![This.what] = NULL] /\ missing' = missing /\ (Advance \/ Fail)
        /\ cut' = cut \cup {This.what} /\ This.what \in Sources
    BY <1>2, <1>8 DEF FetchPart
  <2> QED
    BY <1>1, <1>2, <1>3, <1>4, <1>5, <2>1, UnreadAssumption, ReadingKeepsIt DEF discovery
<1> QED
  BY <1>6, <1>7, <1>8 DEF Fetch

LEMMA DriftingKeepsIt ==
  ASSUME PageInvariant, part = "page", part' = part, ClusterDrifts
  PROVE  PageInvariant'
<1>1. /\ PageTypes /\ MomentsAreWorlds /\ CataloguesAreTrue /\ GotIsWarranted /\ UnreadUntilRead
      /\ StatesAreRelied /\ AllAccountedFor /\ AnswersAtTheEnd
  BY DEF PageInvariant
<1>2. /\ UNCHANGED <<page, asked, at, doing, begun, states, got, missing, cut, relied>>
      /\ moments' = moments \cup {World'}
  BY DEF ClusterDrifts
<1>3. /\ Steps' = Steps /\ Reads' = Reads /\ Sources' = Sources /\ Worlds' = Worlds
      /\ This' = This /\ \A what : Possible(what)' = Possible(what)
  BY <1>2, ProgramStays DEF This
<1>4. objects \in Worlds /\ Builtin \subseteq apis /\ apis \subseteq Group
  BY <1>1 DEF PageTypes, MomentsAreWorlds, World
<1>5. objects' \in Worlds /\ Builtin \subseteq apis' /\ apis' \subseteq Group /\ (cache' # NULL => IsTrue(cache'))
  <2>1. CASE ChangeObject
    <3>1. PICK what \in Reads : \E value \in Possible(what) : objects' = [objects EXCEPT ![what] = value]
      BY <2>1 DEF ChangeObject
    <3>2. UNCHANGED discovery
      BY <2>1 DEF ChangeObject
    <3> QED
      BY <1>1, <1>4, <3>1, <3>2 DEF Worlds, discovery, CataloguesAreTrue
  <2>2. CASE StoreDiscovery({w.served : w \in moments}) /\ objects' = objects
    BY <1>4, <2>2, EnumerationsAreTrue DEF StoreDiscovery
  <2>3. CASE DropCatalogue /\ objects' = objects
    BY <1>4, <2>3 DEF DropCatalogue
  <2>4. CASE ServeOtherwise /\ Builtin \subseteq apis' /\ objects' = objects
    BY <1>1, <1>4, <2>4 DEF ServeOtherwise, CataloguesAreTrue
  <2> QED
    BY <2>1, <2>2, <2>3, <2>4 DEF ClusterDrifts
<1>6. PageTypes'
  BY <1>1, <1>2, <1>3, <1>5 DEF PageTypes, Busy
<1>7. MomentsAreWorlds'
  BY <1>1, <1>2, <1>3, <1>5 DEF MomentsAreWorlds, World, Builtin
<1>8. CataloguesAreTrue'
  BY <1>1, <1>2, <1>5 DEF CataloguesAreTrue
<1>9. GotIsWarranted'
  <2>1. \A what, w : IsThere(what, w)' <=> IsThere(what, w)
    BY <1>2, ThingsStayThere
  <2> QED
    BY <1>1, <1>2, <1>3, <2>1 DEF GotIsWarranted, Warranted
<1>10. UnreadUntilRead' /\ StatesAreRelied' /\ AllAccountedFor' /\ AnswersAtTheEnd'
  BY <1>1, <1>2, <1>3 DEF UnreadUntilRead, StatesAreRelied, AllAccountedFor, AnswersAtTheEnd, Busy, Excused
<1> QED
  BY <1>6, <1>7, <1>8, <1>9, <1>10 DEF PageInvariant

LEMMA PageGoesOn ==
  ASSUME PageInvariant, part = "page", part' = part, PageNext
  PROVE  PageInvariant'
<1>1. /\ PageTypes /\ CataloguesAreTrue /\ StatesAreRelied
  BY DEF PageInvariant
<1>2. CASE UseCatalogue
  BY <1>1, <1>2, GoingByKeepsIt DEF UseCatalogue, Look, CataloguesAreTrue, discovery
<1>3. CASE Enumerate
  <2>1. /\ Busy /\ at' = at /\ doing' = "enumerating" /\ This.do # "count" /\ IsTrue(begun')
        /\ UNCHANGED <<discovery, page, asked, objects, states, got, missing, cut, moments, relied>>
    BY <1>3, EnumerationsAreTrue DEF Enumerate, Look, Busy
  <2>2. /\ states' \in [Sources -> {NULL, "available", "unknown", "unsupported"}] /\ StatesAreRelied'
        /\ cache' # NULL => IsTrue(cache')
    BY <1>1, <2>1, ProgramStays DEF PageTypes, StatesAreRelied, CataloguesAreTrue, discovery
  <2> QED
    BY <2>1, <2>2, TurningKeepsIt DEF discovery
<1>4. CASE KeepCatalogue
  BY <1>1, <1>4, GoingByKeepsIt DEF KeepCatalogue, PageTypes, CataloguesAreTrue
<1>5. CASE PassOver
  <2>1. /\ Busy /\ This.do = "list" /\ states[This.what] # "available" /\ Advance
        /\ got' = [got EXCEPT ![This.what] = UNREAD]
        /\ UNCHANGED <<discovery, page, asked, objects, begun, states, missing, cut, moments, relied>>
    BY <1>5 DEF PassOver, Unlisted, Busy
  <2>2. /\ This.what \in Sources
        /\ states' \in [Sources -> {NULL, "available", "unknown", "unsupported"}] /\ StatesAreRelied'
        /\ cache' # NULL => IsTrue(cache')
        /\ cut' \subseteq Sources
    BY <1>1, <2>1, ProgramStays, StepsAreReadsOrSources
    DEF PageTypes, StatesAreRelied, CataloguesAreTrue, discovery, This
  <2> QED
    BY <2>1, <2>2, UnreadAssumption, ReadingKeepsIt DEF discovery
<1>6. CASE PageFails
  <2>1. /\ Busy /\ at' = at /\ doing' = "failed"
        /\ UNCHANGED <<discovery, page, asked, objects, states, got, missing, cut, moments, relied>>
    BY <1>6 DEF PageFails, Fail
  <2>2. /\ states' \in [Sources -> {NULL, "available", "unknown", "unsupported"}] /\ StatesAreRelied'
        /\ cache' # NULL => IsTrue(cache')
    BY <1>1, <2>1, ProgramStays DEF PageTypes, StatesAreRelied, CataloguesAreTrue, discovery
  <2> QED
    BY <2>1, <2>2, TurningKeepsIt DEF discovery
<1> QED
  BY <1>2, <1>3, <1>4, <1>5, <1>6, FetchingKeepsIt, DriftingKeepsIt DEF PageNext

\* An answer without an entry of either kind has resolved and read everything.
LEMMA AnswersAreComplete ==
  ASSUME PageInvariant, part = "page", doing = "answered",
         \A source \in Sources : states[source] # "unsupported"
  PROVE  /\ \A source \in Sources : states[source] \in {"available", "unknown"}
         /\ \A source \in Sources : states[source] = "unknown" => source \in missing
         /\ \A what \in Reads : got[what] = UNREAD => missing # {}
<1>1. /\ PageTypes /\ StatesAreRelied /\ AllAccountedFor /\ AnswersAtTheEnd /\ page \in Page
  BY DEF PageInvariant, PageTypes
<1>2. \A i \in DOMAIN Steps :
        IF Steps[i].do = "resolve" THEN states[Steps[i].what] # NULL
        ELSE got[Steps[i].what] # UNREAD \/ Excused(Steps[i].what)
  <2>1. at = Len(Steps) + 1
    BY <1>1 DEF AnswersAtTheEnd
  <2>2. \A i \in DOMAIN Steps : i < at
    BY <1>1, <2>1, StepsAreReadsOrSources
  <2> QED
    BY <1>1, <2>2 DEF AllAccountedFor
<1>3. \A source \in Sources : states[source] # NULL
  BY <1>2 DEF Sources
<1>4. \A source \in Sources :
        states[source] \in {"available", "unknown"} /\ (states[source] = "unknown" => source \in missing)
  BY <1>1, <1>3 DEF PageTypes, StatesAreRelied
<1>5. \A what \in Reads : got[what] # UNREAD \/ Excused(what)
  BY <1>2 DEF Reads
<1> QED
  BY <1>4, <1>5 DEF Excused

\* What each page reads of the objects its own statement is about.
LEMMA StatementsRestOnReads ==
  ASSUME page \in Page
  PROVE  /\ page = "router" => "deployment" \in Reads /\ Sources = {}
         /\ page = "olm" => OlmDeployments \subseteq Reads /\ Sources = {"packages"}
         /\ page = "installed" => {"plans", "subscriptions"} \subseteq Reads
         /\ page \in {"routes", "route"} => "routes" \in Reads
<1>1. page = "router" => "deployment" \in Reads /\ Sources = {}
  BY BindingComesFirst
<1>2. page = "olm" => OlmDeployments \subseteq Reads /\ Sources = {"packages"}
  BY PageIsWellOrdered DEF WellOrdered, Steps, Reads, Sources
<1>3. page = "installed" => {"plans", "subscriptions"} \subseteq Reads
  BY PageIsWellOrdered DEF WellOrdered, Steps, Reads
<1>4. page \in {"routes", "route"} => "routes" \in Reads
  BY PageIsWellOrdered DEF WellOrdered, Steps, Reads
<1> QED
  BY <1>1, <1>2, <1>3, <1>4

\* A page that denies or does not know says so with cause.
Founded(said) ==
  /\ Verdict(said) = FALSE =>
       \/ \E w \in moments : ~Holds(said, w)
       \/ \E actual \in relied : ~(GroupsOf(said) \subseteq actual)
       \/ said.of \in cut
       \/ said.of = "olm" /\ CountIsUnknown
  /\ Verdict(said) = TRUE /\ said.about # "page" =>
       \/ \E w \in moments : Holds(said, w)
       \/ said.about = "served" /\ \E actual \in relied : GroupsOf(said) \subseteq actual
  /\ Verdict(said) = NULL =>
       \/ missing \cup cut # {}
       \/ \E source \in Sources : states[source] = "unsupported"
       \/ said.of = "installed" /\ got["plans"] = NULL
       \/ said.about = "page" /\ "routes" \in Reads /\ got["routes"] = "unreported"

LEMMA SourcesAreFounded ==
  ASSUME PageInvariant, part = "page", doing = "answered", NEW source \in Sources
  PROVE  Founded(Statement("served", source))
<1> DEFINE said == Statement("served", source)
<1>1. /\ said.about = "served" /\ said.of = source
      /\ Verdict(said) = State(states[source]) /\ GroupsOf(said) = {GroupOf(source)}
  BY DEF Statement, Verdict, GroupsOf
<1>2. PageTypes /\ StatesAreRelied
  BY DEF PageInvariant
<1>3. states[source] \in {NULL, "available", "unknown", "unsupported"}
  BY <1>2 DEF PageTypes
<1>4. Verdict(said) = FALSE => \E actual \in relied : GroupOf(source) \notin actual
  BY <1>1, <1>2, <1>3, NullAssumption DEF State, StatesAreRelied
<1>5. Verdict(said) = TRUE => \E actual \in relied : GroupOf(source) \in actual
  BY <1>1, <1>2, <1>3, NullAssumption DEF State, StatesAreRelied
<1>6. Verdict(said) = NULL => missing # {} \/ \E other \in Sources : states[other] = "unsupported"
  BY <1>1, <1>3, NullAssumption, AnswersAreComplete DEF State
<1> HIDE DEF said
<1>7. Founded(said)
  BY <1>1, <1>4, <1>5, <1>6 DEF Founded
<1> QED
  BY <1>7 DEF said

LEMMA ReadsAreFounded ==
  ASSUME PageInvariant, part = "page", doing = "answered", NEW what \in Reads
  PROVE  Founded(Statement("there", what))
<1> DEFINE said == Statement("there", what)
<1>1. /\ said.about = "there" /\ said.of = what
      /\ Verdict(said) = Presence(what) /\ GroupsOf(said) = {GroupOf(what)}
      /\ \A w : Holds(said, w) <=> IsThere(what, w)
  BY DEF Statement, Verdict, GroupsOf, Holds
<1>2. Warranted(what, got[what])
  BY DEF PageInvariant, GotIsWarranted
<1>3. Verdict(said) = FALSE =>
        \/ \E w \in moments : ~IsThere(what, w)
        \/ \E actual \in relied : GroupOf(what) \notin actual
        \/ what \in cut
  BY <1>1, <1>2, NullAssumption DEF Presence, Warranted
<1>4. Verdict(said) = TRUE => \E w \in moments : IsThere(what, w)
  BY <1>1, <1>2, NullAssumption DEF Presence, Warranted
<1>5. Verdict(said) = NULL => missing # {} \/ \E other \in Sources : states[other] = "unsupported"
  <2>1. Verdict(said) = NULL => got[what] = UNREAD
    BY <1>1, NullAssumption DEF Presence
  <2> QED
    BY <2>1, AnswersAreComplete
<1> HIDE DEF said
<1>6. Founded(said)
  BY <1>1, <1>3, <1>4, <1>5 DEF Founded
<1> QED
  BY <1>6 DEF said

LEMMA PagesAreFounded ==
  ASSUME PageInvariant, part = "page", doing = "answered",
         Statement("page", page) \in Statements
  PROVE  Founded(Statement("page", page))
<1> DEFINE said == Statement("page", page)
<1>1. /\ said.about = "page" /\ said.of = page /\ Verdict(said) = PageVerdict
      /\ \A w : Holds(said, w) <=> PageHolds(w)
  BY DEF Statement, Verdict, Holds
<1>2. PageTypes /\ MomentsAreWorlds /\ GotIsWarranted /\ StatesAreRelied /\ page \in Page
  BY DEF PageInvariant, PageTypes
<1>3. \/ page \in {"router", "olm"}
      \/ page = "installed" /\ HasRow("subscriptions")
      \/ page \in {"routes", "route"} /\ HasRow("routes")
  BY DEF Statements, Statement
<1>4. \A what \in Reads : got[what] \notin {NULL, UNREAD} => \E w \in moments : w.objects[what] = got[what]
  BY <1>2 DEF GotIsWarranted, Warranted
<1> SUFFICES Founded(said)
  OBVIOUS
<1> HIDE DEF said
<1>5. CASE page = "router"
  <2>1. "deployment" \in Reads /\ cut = {}
    BY <1>2, <1>5, StatementsRestOnReads DEF PageTypes
  <2>2. PageVerdict = RouterInstalled /\ \A w : PageHolds(w) <=> IsThere("deployment", w)
    BY <1>5 DEF PageVerdict, PageHolds
  <2>3. Warranted("deployment", got["deployment"])
    BY <1>2, <2>1 DEF GotIsWarranted
  <2>4. PageVerdict = FALSE => \E w \in moments : ~PageHolds(w)
    BY <2>1, <2>2, <2>3, NullAssumption DEF RouterInstalled, Presence, Warranted
  <2>5. PageVerdict = NULL => missing # {} \/ \E source \in Sources : states[source] = "unsupported"
    BY <2>1, <2>2, NullAssumption, AnswersAreComplete DEF RouterInstalled, Presence
  <2> QED
    BY <1>1, <2>4, <2>5 DEF Founded
<1>6. CASE page = "olm"
  <2>1. OlmDeployments \subseteq Reads /\ Sources = {"packages"}
    BY <1>2, <1>6, StatementsRestOnReads
  <2>2. /\ PageVerdict = OlmReady /\ GroupsOf(said) = {GroupOf("packages")}
        /\ \A w : PageHolds(w) => \A d \in OlmDeployments : w.objects[d] \in {"serving", "rolling"}
    BY <1>1, <1>6 DEF PageVerdict, PageHolds, GroupsOf
  <2>3. \A d \in OlmDeployments : Presence(d) = NULL <=> got[d] = UNREAD
    BY NullAssumption DEF Presence
  <2>4. states["packages"] \in {NULL, "available", "unknown", "unsupported"}
    BY <1>2, <2>1 DEF PageTypes
  <2>5. /\ State(states["packages"]) = TRUE <=> states["packages"] = "available"
        /\ State(states["packages"]) = FALSE <=> states["packages"] = "unsupported"
        /\ State(states["packages"]) \in {TRUE, FALSE, NULL}
    BY <2>4, NullAssumption DEF State
  <2>6. ASSUME PageVerdict = FALSE
        PROVE  \/ \E w \in moments : ~PageHolds(w)
               \/ \E actual \in relied : GroupOf("packages") \notin actual
               \/ CountIsUnknown
    <3>1. \A d \in OlmDeployments : got[d] # UNREAD
      BY <2>2, <2>3, <2>6, NullAssumption DEF OlmReady
    <3>2. CASE \E d \in OlmDeployments : got[d] = NULL
      <4>1. PICK d \in OlmDeployments : got[d] = NULL
        BY <3>2
      <4>2. PICK w \in moments : ~IsThere(d, w)
        <5>1. Warranted(d, got[d]) /\ d \notin Sources /\ d # "csv"
          BY <1>2, <2>1, <4>1 DEF GotIsWarranted, OlmDeployments
        <5> QED
          BY <1>2, <4>1, <5>1 DEF Warranted, PageTypes
      <4>3. GroupOf(d) \in w.served
        BY <1>2 DEF MomentsAreWorlds, GroupOf, Builtin, OlmDeployments
      <4>4. w.objects[d] = NULL
        BY <1>6, <4>2, <4>3 DEF IsThere
      <4> QED
        BY <2>2, <4>4, ValueAssumption
    <3>3. CASE \E d \in OlmDeployments : got[d] \notin {NULL, "serving"}
      <4>1. PICK d \in OlmDeployments : got[d] \notin {NULL, "serving"}
        BY <3>3
      <4>2. PICK w \in moments : w.objects[d] = got[d]
        BY <1>4, <2>1, <3>1, <4>1
      <4>3. CASE got[d] = "rolling"
        BY <2>1, <4>1, <4>3 DEF CountIsUnknown
      <4>4. CASE got[d] # "rolling"
        BY <2>2, <4>1, <4>2, <4>4
      <4> QED
        BY <4>3, <4>4
    <3>4. CASE \A d \in OlmDeployments : got[d] = "serving"
      <4>1. \A d \in OlmDeployments : Presence(d) = TRUE
        BY <3>1, <3>4, ValueAssumption DEF Presence
      <4>2. State(states["packages"]) # NULL
        BY <2>2, <2>6, <4>1, NullAssumption DEF OlmReady
      <4>3. State(states["packages"]) # TRUE
        BY <2>2, <2>6, <3>4, <4>1, <4>2, NullAssumption DEF OlmReady
      <4> QED
        BY <1>2, <2>1, <2>5, <4>2, <4>3 DEF StatesAreRelied
    <3> QED
      BY <3>2, <3>3, <3>4
  <2>7. ASSUME PageVerdict = NULL, \A source \in Sources : states[source] # "unsupported"
        PROVE  missing # {}
    <3> SUFFICES ASSUME missing = {}
                 PROVE  FALSE
      OBVIOUS
    <3>1. /\ \A d \in OlmDeployments : got[d] # UNREAD
          /\ states["packages"] = "available"
      BY <2>1, <2>7, AnswersAreComplete
    <3>2. State(states["packages"]) = TRUE /\ \A d \in OlmDeployments : Presence(d) \in BOOLEAN
      BY <3>1 DEF State, Presence
    <3>3. OlmReady \in BOOLEAN
      BY <3>2, NullAssumption DEF OlmReady
    <3> QED
      BY <2>2, <2>7, <3>3, NullAssumption
  <2> QED
    BY <1>1, <1>6, <2>2, <2>6, <2>7 DEF Founded
<1>7. CASE page = "installed"
  <2>1. {"plans", "subscriptions"} \subseteq Reads
    BY <1>2, <1>7, StatementsRestOnReads
  <2>2. /\ PageVerdict = ApprovalRequired
        /\ \A w : PageHolds(w) => w.objects["subscriptions"] = "planned" /\ w.objects["plans"] = "pending"
    BY <1>7 DEF PageVerdict, PageHolds
  <2>3. got["subscriptions"] \notin {NULL, UNREAD}
    BY <1>3, <1>7 DEF HasRow
  <2>4. ASSUME PageVerdict = FALSE
        PROVE  \E w \in moments : ~PageHolds(w)
    <3>1. CASE got["subscriptions"] # "planned"
      BY <1>4, <2>1, <2>2, <2>3, <3>1
    <3>2. CASE got["subscriptions"] = "planned"
      <4>1. got["plans"] \notin {NULL, UNREAD, "pending"}
        BY <2>2, <2>4, <3>2, NullAssumption DEF ApprovalRequired
      <4> QED
        BY <1>4, <2>1, <2>2, <4>1
    <3> QED
      BY <3>1, <3>2
  <2>5. ASSUME PageVerdict = NULL, \A source \in Sources : states[source] # "unsupported"
        PROVE  missing \cup cut # {} \/ got["plans"] = NULL
    <3>1. got["plans"] = UNREAD \/ "plans" \in cut \/ got["plans"] = NULL
      BY <2>2, <2>5, NullAssumption DEF ApprovalRequired
    <3> QED
      BY <2>1, <2>5, <3>1, AnswersAreComplete
  <2> QED
    BY <1>1, <1>7, <2>4, <2>5 DEF Founded
<1>8. CASE page \in {"routes", "route"}
  <2>1. "routes" \in Reads /\ got["routes"] \notin {NULL, UNREAD}
    BY <1>2, <1>3, <1>8, StatementsRestOnReads DEF HasRow
  <2>2. PageVerdict = RouteAdmitted /\ \A w : PageHolds(w) <=> w.objects["routes"] = "divided"
    BY <1>8 DEF PageVerdict, PageHolds
  <2>3. got["routes"] \in {"unreported", "refused", "divided"}
    BY <1>2, <1>8, <2>1 DEF PageTypes, Possible, Values
  <2>4. PageVerdict = FALSE => \E w \in moments : ~PageHolds(w)
    BY <1>4, <2>1, <2>2, <2>3, NullAssumption DEF RouteAdmitted
  <2>5. PageVerdict = NULL => got["routes"] = "unreported"
    BY <2>2, <2>3, NullAssumption DEF RouteAdmitted
  <2> QED
    BY <1>1, <2>1, <2>4, <2>5 DEF Founded
<1> QED
  BY <1>3, <1>5, <1>6, <1>7, <1>8

\* envelope.py, portal.py, routes.py, router.py and olm.py: no page denies what it has not
\* looked for, whatever fails, is cut short or changes while it is put together, for any
\* set of groups and however much the cluster drifts.
THEOREM PagesAlwaysTellTheTruth == Spec => []PagesTellTheTruth
<1>1. PageInvariant /\ [Next]_vars => PageInvariant'
  <2> SUFFICES ASSUME PageInvariant, [Next]_vars
               PROVE  PageInvariant'
    OBVIOUS
  <2>1. CASE part = "page" /\ PageNext /\ part' = part
    BY <2>1, PageGoesOn
  <2>2. CASE part' = part /\ UNCHANGED pageState
    <3>1. /\ Steps' = Steps /\ Reads' = Reads /\ Sources' = Sources /\ Worlds' = Worlds /\ World' = World
          /\ This' = This /\ \A what : Possible(what)' = Possible(what)
      BY <2>2, ProgramStays DEF pageState, discovery, World, This
    <3>2. \A what, w : IsThere(what, w)' <=> IsThere(what, w)
      BY <2>2, ThingsStayThere DEF pageState
    <3>3. PageTypes' = PageTypes
      BY <2>2, <3>1 DEF pageState, discovery, PageTypes, Busy
    <3>4. MomentsAreWorlds' = MomentsAreWorlds /\ CataloguesAreTrue' = CataloguesAreTrue
      BY <2>2, <3>1 DEF pageState, discovery, MomentsAreWorlds, CataloguesAreTrue
    <3>5. GotIsWarranted' = GotIsWarranted
      BY <2>2, <3>1, <3>2 DEF pageState, discovery, GotIsWarranted, Warranted
    <3>6. UnreadUntilRead' = UnreadUntilRead /\ StatesAreRelied' = StatesAreRelied
      BY <2>2, <3>1 DEF pageState, discovery, UnreadUntilRead, StatesAreRelied, Busy
    <3>7. AllAccountedFor' = AllAccountedFor /\ AnswersAtTheEnd' = AnswersAtTheEnd
      BY <2>2, <3>1 DEF pageState, discovery, AllAccountedFor, Excused, AnswersAtTheEnd
    <3> QED
      BY <2>2, <3>3, <3>4, <3>5, <3>6, <3>7 DEF PageInvariant, pageState
  <2> QED
    BY <2>1, <2>2 DEF Next, vars
<1>2. PageInvariant => PagesTellTheTruth
  <2> SUFFICES ASSUME PageInvariant, doing = "answered", NEW said \in Statements
               PROVE  Founded(said)
    BY DEF PagesTellTheTruth, Founded
  <2>1. part = "page"
    BY ValueAssumption DEF PageInvariant
  <2>2. \/ \E source \in Sources : said = Statement("served", source)
        \/ \E what \in Reads : said = Statement("there", what)
        \/ said = Statement("page", page)
    BY DEF Statements
  <2> QED
    BY <2>1, <2>2, SourcesAreFounded, ReadsAreFounded, PagesAreFounded
<1> QED
  BY <1>1, <1>2, PageStarts, PTL DEF Spec
=============================================================================
