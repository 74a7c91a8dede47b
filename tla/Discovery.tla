------------------------------ MODULE Discovery ------------------------------
(***************************************************************************)
(* The catalogue of what a cluster serves (resources/catalog.py): enumerated *)
(* when asked for, kept for a while, and shared by every request on that     *)
(* cluster.  A group whose enumeration failed is a gap, not an absence.      *)
(***************************************************************************)
EXTENDS Facts

CONSTANTS Group, CoreGroup

VARIABLES
  apis,                \* the groups the cluster serves
  cache                  \* the catalogue kept for the cluster, or NULL

discovery == <<apis, cache>>

\* `listed` and `gaps` are what the code keeps; `truth` is what was served meanwhile.
Catalogue(listed, gaps, truth) == [listed |-> listed, gaps |-> gaps, truth |-> truth]

\* _discover_group_versions, discover: the core group is asked for apart; the index of
\* the others fails, or the enumeration of one it names does.
Enumerations(truth) ==
  {Catalogue(truth \ lost, lost, truth) : lost \in {{}} \cup {{g} : g \in truth}}
    \cup {Catalogue(truth \cap {CoreGroup}, Group \ {CoreGroup}, truth)}

\* Fault: what could not be enumerated is taken for not served.
NeverBlind(catalogue, group) == FALSE

\* _blind_spot
BlindSpot(catalogue, group) == group \in catalogue.gaps

\* resolve
Resolution(catalogue, group) ==
  IF group \in catalogue.listed THEN "available"
  ELSE IF BlindSpot(catalogue, group) THEN "unknown"
  ELSE "unsupported"

\* The request may be the first, or any earlier one of this cluster may have filled it.
DiscoveryInit ==
  /\ apis \in SUBSET Group
  /\ cache \in {NULL} \cup UNION {Enumerations(truth) : truth \in SUBSET Group}

\* discover holds its lock over the dictionary, not over the requests: another one's
\* catalogue is stored when it is done, and may be of an earlier moment.
StoreDiscovery(truths) ==
  /\ cache' \in UNION {Enumerations(truth) : truth \in truths} \ {cache}
  /\ apis' = apis

\* The entry's time is up, or invalidate_cache drops it (olm.py, _await_established);
\* neither touches a catalogue that is being enumerated.
DropCatalogue ==
  /\ cache # NULL /\ cache' = NULL
  /\ apis' = apis

\* A definition or an aggregated API comes or goes.
ServeOtherwise ==
  /\ \E group \in Group :
       apis' = IF group \in apis THEN apis \ {group} ELSE apis \cup {group}
  /\ cache' = cache
=============================================================================
