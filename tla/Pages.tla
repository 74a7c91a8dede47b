-------------------------------- MODULE Pages --------------------------------
(***************************************************************************)
(* The pages that answer about several objects of a cluster: the operator    *)
(* catalogue and what is installed (services/portal.py), the routes          *)
(* (services/routes.py), the shipped router (admin/router.py), Operator      *)
(* Lifecycle Manager (admin/olm.py), and a cluster's overview                *)
(* (api/clusters.py).  A page reads one thing after the other, and each read *)
(* may fail, be cut short, or find the cluster changed.                      *)
(***************************************************************************)
EXTENDS Naturals, Sequences, Discovery

CONSTANTS
  Page,                  \* of DOMAIN Program
  MaxDrift               \* bound, per page: what changes while it is being put together

VARIABLES
  page, asked,           \* the page, and the namespace its caller names
  objects,               \* what is on the cluster
  drift,
  at, doing,             \* the step, and what the request does with it
  begun,                 \* the catalogue it is enumerating
  states,                \* what it resolved its sources to
  got,                   \* what it read
  missing, cut,          \* the `unavailable` and the `truncated` entries
  moments, relied        \* the worlds it lived through, the catalogues it went by

pageState ==
  <<discovery, page, asked, objects, drift, at, doing, begun, states, got, missing, cut,
    moments, relied>>

Step(do, what) == [do |-> do, what |-> what]

\* What each page reads, in order.  "resolve" asks the catalogue alone, "list" and "get"
\* ask it and then the API server, "count" goes to the API server by the typed client.
\* What is read and told like its neighbour is left out: the cluster services' versions
\* and the catalogue sources, the router's class, OLM's definitions, Ingresses.
Program ==
  [catalog |-> <<Step("resolve", "packages"), Step("resolve", "subscriptions"),
                 Step("list", "subscriptions"), Step("list", "packages")>>,
   installed |-> <<Step("resolve", "subscriptions"), Step("resolve", "plans"),
                   Step("list", "subscriptions"), Step("list", "plans")>>,
   package |-> <<Step("resolve", "packages"), Step("list", "packages")>>,
   routes |-> <<Step("resolve", "routes"), Step("list", "routes"),
                Step("resolve", "httproutes"), Step("list", "httproutes")>>,
   capabilities |-> <<Step("resolve", "routes"), Step("resolve", "httproutes")>>,
   route |-> <<Step("resolve", "routes"), Step("get", "routes")>>,
   router |-> <<Step("get", "binding"), Step("get", "deployment"),
                Step("get", "service")>>,
   olm |-> <<Step("get", "deployment"), Step("get", "second"),
             Step("get", "csv"), Step("resolve", "packages")>>,
   overview |-> <<Step("count", "nodes"), Step("count", "pods")>>]

ASSUME PageAssumption == Page \subseteq DOMAIN Program
ASSUME GroupAssumption == {CoreGroup, "builtin", "operators", "aggregated"} \subseteq Group

Steps == Program[page]
Reads == {Steps[i].what : i \in {j \in DOMAIN Steps : Steps[j].do # "resolve"}}
Sources == {Steps[i].what : i \in {j \in DOMAIN Steps : Steps[j].do = "resolve"}}

\* Kubernetes' own groups are always served; an extension's may not be.
GroupOf(what) ==
  CASE what \in {"nodes", "pods", "service"} -> CoreGroup
    [] what \in {"subscriptions", "plans", "csv", "routes"} -> "operators"
    [] what \in {"packages", "httproutes"} -> "aggregated"
    [] OTHER -> "builtin"
Builtin == {CoreGroup, "builtin"}

\* What an object can be: a Deployment by where it runs, or by whether its replicas are
\* ready ("serving"), are not ("idle"), or are while its status is still of an older
\* generation ("rolling"); a Subscription by whether it names an InstallPlan; a Route by
\* what the routers say of it, none, no, or no and yes.
Values(what) ==
  CASE page = "router" /\ what \in {"binding", "deployment"} -> {"default", "custom"}
    [] page = "olm" /\ what \in {"deployment", "second"} -> {"serving", "idle", "rolling"}
    [] what = "subscriptions" -> {"settled", "planned"}
    [] what = "plans" -> {"pending", "complete"}
    [] what = "routes" /\ page # "capabilities" -> {"unreported", "refused", "divided"}
    [] OTHER -> {"there"}
Possible(what) == Values(what) \cup {NULL}

\* What is not there, and what was not read, is none of these.
ASSUME ValueAssumption ==
  \A value \in {"there", "default", "custom", "serving", "idle", "rolling", "settled",
                "planned", "pending", "complete", "unreported", "refused", "divided", "answered",
                "available", "unknown", "unsupported"} : value \notin {NULL, UNREAD}

Worlds ==
  {w \in [Reads -> UNION {Possible(what) : what \in Reads}] :
     \A what \in Reads : w[what] \in Possible(what)}

World == [objects |-> objects, served |-> apis]

PageInit ==
  /\ page \in Page
  /\ asked \in IF page = "router" THEN {NULL, "custom"} ELSE {NULL}
  /\ objects \in Worlds
  /\ DiscoveryInit /\ Builtin \subseteq apis
  /\ cache # NULL => Builtin \subseteq cache.truth
  /\ drift = 0 /\ at = 1 /\ doing = "look" /\ begun = NULL
  /\ states = [what \in Sources |-> NULL]
  /\ got = [what \in Reads |-> UNREAD]
  /\ missing = {} /\ cut = {} /\ moments = {World} /\ relied = {}

-----------------------------------------------------------------------------
Busy == doing \notin {"answered", "failed"}
This == Steps[at]

\* find_package and get_route answer for one object, and let what fails be the answer.
Single == page \in {"package", "route"}

\* The next step, or the answer.
Advance ==
  /\ at' = at + 1
  /\ doing' = IF at = Len(Steps) THEN "answered" ELSE "look"
Fail == at' = at /\ doing' = "failed"

\* collect: the value stays unknown and an entry says why.
Unread ==
  /\ got' = [got EXCEPT ![This.what] = UNREAD]
  /\ missing' = missing \cup {This.what}
  /\ IF Single THEN Fail ELSE Advance

\* source_state, backend_state, unknown_entry
ResolveSource(resolution) ==
  /\ states' = [states EXCEPT ![This.what] = resolution]
  /\ missing' = IF resolution = "unknown" THEN missing \cup {This.what} ELSE missing
  /\ IF Single /\ resolution = "unknown" THEN Fail
     ELSE IF Single /\ resolution = "unsupported" THEN at' = at /\ doing' = "answered"
     ELSE Advance
  /\ got' = got

\* list_resource, get_resource: what the catalogue does not hold is not asked for.  OLM's
\* page withdraws the entry of an API that is not served: its ClusterServiceVersion is
\* then not there.
ReadBy(resolution) ==
  IF resolution = "available"
  THEN doing' = "fetch" /\ UNCHANGED <<at, states, got, missing>>
  ELSE /\ IF resolution = "unsupported" /\ This.what = "csv"
          THEN Advance /\ got' = [got EXCEPT !["csv"] = NULL] /\ missing' = missing
          ELSE IF resolution = "unsupported" /\ Single
          THEN at' = at /\ doing' = "answered" /\ UNCHANGED <<got, missing>>
          ELSE Unread
       /\ states' = IF Single THEN [states EXCEPT ![This.what] = resolution] ELSE states

GoBy(catalogue) ==
  LET resolution == Resolution(catalogue, GroupOf(This.what))
  IN /\ relied' = relied \cup {catalogue.truth}
     /\ IF This.do = "resolve" THEN ResolveSource(resolution) ELSE ReadBy(resolution)

\* A source that is not available is not listed; the overview needs no catalogue.
Unlisted == This.do = "list" /\ states[This.what] # "available"
Look == doing = "look" /\ ~Unlisted /\ This.do # "count"

UseCatalogue ==
  /\ Look /\ cache # NULL
  /\ GoBy(cache)
  /\ UNCHANGED <<discovery, page, asked, objects, drift, begun, cut, moments>>

Enumerate ==
  /\ Look /\ cache = NULL
  /\ begun' \in Enumerations(apis)
  /\ doing' = "enumerating"
  /\ UNCHANGED <<discovery, page, asked, objects, drift, at, states, got, missing, cut,
                 moments, relied>>

KeepCatalogue ==
  /\ doing = "enumerating"
  /\ cache' = begun /\ begun' = NULL
  /\ GoBy(begun)
  /\ UNCHANGED <<apis, page, asked, objects, drift, cut, moments>>

PassOver ==
  /\ doing = "look" /\ Unlisted
  /\ got' = [got EXCEPT ![This.what] = UNREAD]
  /\ Advance
  /\ UNCHANGED <<discovery, page, asked, objects, drift, begun, states, missing, cut,
                 moments, relied>>

\* status: the namespace asked for, the one the binding names, or the configured one.
Place ==
  IF asked # NULL THEN asked
  ELSE IF got["binding"] \in Values("binding") THEN got["binding"] ELSE "default"

\* Looked for where the page looks for it.
Found ==
  IF page = "router" /\ This.what = "deployment" /\ objects["deployment"] # Place
  THEN NULL ELSE objects[This.what]

\* The API server answers, in full or (`continue`) not; or 404, which a get takes for
\* absent and a listing for a failed read; or the read fails.
FetchAll ==
  /\ IF GroupOf(This.what) \in apis \/ This.do = "get"
     THEN /\ got' = [got EXCEPT ![This.what] =
                       IF GroupOf(This.what) \in apis THEN Found ELSE NULL]
          /\ missing' = missing /\ Advance
     ELSE Unread
  /\ cut' = cut

\* find_package raises when the page it got does not hold the package.
FetchPart ==
  /\ This.do = "list" /\ GroupOf(This.what) \in apis
  /\ cut' = cut \cup {This.what}
  /\ got' = [got EXCEPT ![This.what] = NULL]
  /\ missing' = missing
  /\ IF Single THEN Fail ELSE Advance

Fetch ==
  /\ doing = "fetch" \/ (doing = "look" /\ This.do = "count")
  /\ FetchAll \/ FetchPart \/ (Unread /\ cut' = cut)
  /\ UNCHANGED <<discovery, page, asked, objects, drift, begun, states, moments, relied>>

\* collect re-raises what is not a statement about the read: a refused request, a bug.
PageFails ==
  /\ Busy /\ Fail
  /\ UNCHANGED <<discovery, page, asked, objects, drift, begun, states, got, missing, cut,
                 moments, relied>>

-----------------------------------------------------------------------------
ChangeObject ==
  /\ \E what \in Reads : \E value \in Possible(what) \ {objects[what]} :
       objects' = [objects EXCEPT ![what] = value]
  /\ UNCHANGED discovery

\* Other requests, other consoles, OLM: one thing at a time.
ClusterDrifts ==
  /\ Busy /\ drift < MaxDrift[page]
  /\ drift' = drift + 1
  /\ \/ ChangeObject
     \/ StoreDiscovery({w.served : w \in moments}) /\ objects' = objects
     \/ DropCatalogue /\ objects' = objects
     \/ ServeOtherwise /\ Builtin \subseteq apis' /\ objects' = objects
  /\ moments' = moments \cup {World'}
  /\ UNCHANGED <<page, asked, at, doing, begun, states, got, missing, cut, relied>>

PageNext ==
  UseCatalogue \/ Enumerate \/ KeepCatalogue \/ PassOver \/ Fetch \/ PageFails
    \/ ClusterDrifts

-----------------------------------------------------------------------------
State(resolution) ==
  CASE resolution = "available" -> TRUE
    [] resolution = "unsupported" -> FALSE
    [] OTHER -> NULL
Presence(what) == IF got[what] = UNREAD THEN NULL ELSE got[what] # NULL

\* router.status: nothing is said over an incomplete reading.
RouterInstalled == IF missing # {} THEN NULL ELSE Presence("deployment")

\* olm.status, `ready`: the catalogue's API is there, and both Deployments have a count of
\* ready replicas that is not zero.  There is none as long as the status is of an older
\* generation, which makes it a denial.
OlmDeployments == {"deployment", "second"}
OlmReady ==
  IF \E d \in OlmDeployments : Presence(d) = NULL THEN NULL
  ELSE IF \E d \in OlmDeployments : ~Presence(d) THEN FALSE
  ELSE IF State(states["packages"]) = NULL THEN NULL
  ELSE State(states["packages"]) /\ \A d \in OlmDeployments : got[d] = "serving"

\* subscription_row, `approvalRequired`: of the plan the Subscription in the row names,
\* if the plans were all read.
HasRow(what) == got[what] \notin {UNREAD, NULL}
ApprovalRequired ==
  IF got["plans"] = UNREAD \/ "plans" \in cut THEN NULL
  ELSE IF got["subscriptions"] # "planned" THEN FALSE
  ELSE IF got["plans"] = NULL THEN NULL
  ELSE got["plans"] = "pending"

\* What a page says: of a source whether it is served, of an object whether it is there,
\* and what it makes of several.
Statement(about, of) == [about |-> about, of |-> of]
Statements ==
  {Statement("served", what) : what \in Sources}
    \cup {Statement("there", what) : what \in Reads}
    \cup IF \/ page \in {"router", "olm"}
            \/ page = "installed" /\ HasRow("subscriptions")
            \/ page \in {"routes", "route"} /\ HasRow("routes")
         THEN {Statement("page", page)} ELSE {}

\* _route_admission, _httproute_admission: one that admits it is enough, silence is not
\* a refusal.
RouteAdmitted ==
  CASE got["routes"] = "divided" -> TRUE
    [] got["routes"] = "refused" -> FALSE
    [] OTHER -> NULL

PageVerdict ==
  CASE page = "router" -> RouterInstalled
    [] page = "olm" -> OlmReady
    [] page = "installed" -> ApprovalRequired
    [] page \in {"routes", "route"} -> RouteAdmitted
Verdict(said) ==
  CASE said.about = "served" -> State(states[said.of])
    [] said.about = "there" -> Presence(said.of)
    [] said.about = "page" -> PageVerdict

GroupsOf(said) ==
  IF said.about # "page" THEN {GroupOf(said.of)}
  ELSE {GroupOf(what) : what \in IF page = "olm" THEN {"packages"} ELSE {}}

\* What it would have to be like on the cluster for the statement to hold.
IsThere(what, w) ==
  /\ w.objects[what] # NULL /\ GroupOf(what) \in w.served
  /\ page = "router" /\ what = "deployment" => w.objects[what] = Place
PageHolds(w) ==
  CASE page = "router" -> IsThere("deployment", w)
    [] page \in {"routes", "route"} -> w.objects["routes"] = "divided"
    [] page = "olm" -> /\ \A d \in OlmDeployments : w.objects[d] \in {"serving", "rolling"}
                        /\ GroupOf("packages") \in w.served
    [] page = "installed" -> /\ IsThere("subscriptions", w) /\ IsThere("plans", w)
                              /\ w.objects["subscriptions"] = "planned"
                              /\ w.objects["plans"] = "pending"
Holds(said, w) ==
  CASE said.about = "served" -> GroupOf(said.of) \in w.served
    [] said.about = "there" -> IsThere(said.of, w)
    [] said.about = "page" -> PageHolds(w)

\* olm.status answers `ready: false` over a Deployment whose own entry says that how many
\* replicas are ready is not known yet.
CountIsUnknown == \E d \in OlmDeployments \cap Reads : got[d] = "rolling"

\* envelope.py, collect: "we do not know" is never "there is none".  A denial held at some
\* moment of the request, or rests on a catalogue read when the API was not served, or the
\* page says the listing was cut, but for OLM's over an unknown count; what is affirmed of one object or source was so; and what
\* the page does not know it says it could not read, or that its source is not available.
PagesTellTheTruth ==
  doing = "answered" =>
    \A said \in Statements :
      /\ Verdict(said) = FALSE =>
           \/ \E w \in moments : ~Holds(said, w)
           \/ \E truth \in relied : ~(GroupsOf(said) \subseteq truth)
           \/ said.of \in cut
           \/ said.of = "olm" /\ CountIsUnknown
      /\ Verdict(said) = TRUE /\ said.about # "page" =>
           \/ \E w \in moments : Holds(said, w)
           \/ said.about = "served" /\ \E truth \in relied : GroupsOf(said) \subseteq truth
      /\ Verdict(said) = NULL =>
           \/ missing \cup cut # {}
           \/ \E source \in Sources : states[source] = "unsupported"
           \/ said.of = "installed" /\ got["plans"] = NULL
           \/ said.about = "page" /\ "routes" \in Reads /\ got["routes"] = "unreported"
=============================================================================
