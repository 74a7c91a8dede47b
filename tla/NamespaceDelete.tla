--------------------------- MODULE NamespaceDelete ---------------------------
(***************************************************************************)
(* namespace_delete.py: the inventory of what goes with a namespace, and    *)
(* the delete, which carries no version.                                    *)
(***************************************************************************)
EXTENDS FiniteSets, Facts

\* Whether one of several reads that answer the same question may fail alone.
CONSTANT Gaps

NamespaceObjects == {[phase |-> p] : p \in {"Active", "Terminating"}}

\* The reclaim policies of the volumes its claims are bound to, its load balancers and
\* its finalizers, and the webhooks of either kind its Services back.
Contents(volumes, balancers, finalizers, webhooks) ==
  [discovered |-> TRUE, claims |-> volumes, volumes |-> TRUE, services |-> balancers,
   finalizers |-> finalizers, validating |-> webhooks, mutating |-> FALSE]
NamespaceSurroundings ==
  {Contents({}, FALSE, FALSE, FALSE), Contents({"Delete", "Retain"}, FALSE, TRUE, FALSE),
   Contents({"Delete"}, TRUE, FALSE, TRUE)}

\* A kind whose listing fails or is truncated, a volume that cannot be read; discovery
\* of the core group, and either webhook listing.
NamespaceReadings(around) ==
  {r \in PartialReads(around, DOMAIN around \ {"finalizers"}) :
     ~Gaps => /\ r.discovered # UNREAD
              /\ r.validating = UNREAD <=> r.mutating = UNREAD}

NamespaceWants == {"delete"}
NamespaceValid(wanted) == TRUE

\* plan: a namespace that is on its way out.
NamespaceRefused(namespace, seen, wanted) == namespace.phase = "Terminating"

\* namespaced_kinds, inventory: a kind discovery does not list has no row, so nothing of
\* it is listed and nothing of it is missing.
Listed(seen, kind) == seen.discovered # UNREAD /\ seen[kind] # UNREAD
Incomplete(seen) ==
  seen.discovered # UNREAD /\ \E kind \in {"claims", "services"} : seen[kind] = UNREAD

\* volume_fates: each volume of a listed claim and its policy, NULL when unreadable.
VolumeFates(seen) ==
  IF ~Listed(seen, "claims") THEN {}
  ELSE IF seen.volumes = UNREAD THEN {NULL : v \in seen.claims} ELSE seen.claims

LoadBalancers(seen) == Listed(seen, "services") /\ seen.services

\* webhook_backends: unknown only when neither listing answered.
WebhookBackends(seen) ==
  IF seen.validating = UNREAD /\ seen.mutating = UNREAD THEN UNREAD
  ELSE seen.validating = TRUE \/ seen.mutating = TRUE

\* consequences_for
NamespaceCodes(namespace, seen, wanted) ==
  {c \in {"destroys_volume_data"} : "Delete" \in VolumeFates(seen)}
    \cup {c \in {"volume_fate_unknown"} : NULL \in VolumeFates(seen)}
    \cup {c \in {"releases_volumes"} : "Retain" \in VolumeFates(seen)}
    \cup {c \in {"drops_load_balancer"} : LoadBalancers(seen)}
    \cup {c \in {"breaks_admission_webhook"} : WebhookBackends(seen) # FALSE}
    \cup {c \in {"finalizers_may_hang"} : Listed(seen, "claims") /\ seen.finalizers}
    \cup {c \in {"inventory_incomplete"} : Incomplete(seen)}

\* delete_resource, Background
NamespaceApplied(namespace, wanted) == [namespace EXCEPT !.phase = "Terminating"]

\* Data that is destroyed, addresses that are given up, writes that will be refused
\* cluster-wide.
NamespaceDangers(namespace, around, wanted) ==
  {d \in {{"destroys_volume_data", "volume_fate_unknown", "inventory_incomplete"}} :
     "Delete" \in around.claims}
    \cup {d \in {{"drops_load_balancer", "inventory_incomplete"}} : around.services}
    \cup {d \in {{"breaks_admission_webhook"}} : around.validating}
=============================================================================
