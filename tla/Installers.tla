----------------------------- MODULE Installers ------------------------------
(***************************************************************************)
(* The writers of several objects: the shipped router (router.py), Operator *)
(* Lifecycle Manager (olm.py) and a project (projects.py).  One request     *)
(* writes an object after the other, each through the funnel; nothing is    *)
(* rolled back, and the operator may call again.                            *)
(***************************************************************************)
EXTENDS Naturals, Sequences, FiniteSets, Facts

CONSTANTS
  Installs,              \* of "router", "olm", "project"
  MaxEvents              \* bound: an operator's requests and everybody else's changes

ASSUME InstallsAssumption == Installs \subseteq {"router", "olm", "project"}
\* No answer yet.
ASSUME NoAnswerAssumption == NULL \notin {"conflict", "installed"}

VARIABLES
  installer,
  live,                  \* the objects on the cluster, by name and place
  stamp,                 \* the last resourceVersion given
  calls, changes,
  call,                  \* the request being served
  ipc,
  place,                 \* the namespace it works in
  prior,                 \* what it has read, an entry per object
  report,                \* how each object fared
  established,           \* whether the wait for the definitions ended well
  writes,                \* what this request replaced or removed
  told                   \* the answer

install ==
  <<installer, live, stamp, calls, changes, call, ipc, place, prior, report, established,
    writes, told>>

\* The bundles, in the order they are written: olm's definitions are its first phase.
Bundle ==
  CASE installer = "router" -> <<"namespace", "role", "binding", "deployment">>
    [] installer = "olm" -> <<"crd", "namespace", "deployment", "catalog">>
    [] installer = "project" -> <<"namespace", "quota", "admins">>

\* The namespace is the caller's choice only for the router; what is cluster-scoped has
\* its place.
Places == {"default", "custom"}
ClusterScoped == {"role", "binding", "crd"}
Key(item, where) == <<item, IF item \in ClusterScoped THEN "cluster" ELSE where>>
Keys == {Key(Bundle[i], p) : i \in DOMAIN Bundle, p \in Places}

\* An object: whether it carries the console's label, its version, the place a binding
\* names, and whether a definition is Established.
Object(ours, version, where) ==
  [ours |-> ours, version |-> version, where |-> where, ready |-> FALSE]
Absent == [key \in Keys |-> NULL]
With(objects, keys, ours, where) ==
  [k \in Keys |-> IF k \in keys THEN Object(ours, 0, where) ELSE objects[k]]
Everything(where) == {Key(Bundle[i], where) : i \in DOMAIN Bundle}

\* Nothing is there, or all of it, ours or somebody else's.
InstallInit ==
  /\ installer \in Installs
  /\ live \in {Absent} \cup {With(Absent, Everything(p), ours, p) :
                               ours \in BOOLEAN, p \in Places}
  /\ stamp = 0 /\ calls = 0 /\ changes = 0
  /\ call = NULL /\ ipc = "idle" /\ place = NULL
  /\ prior = <<>> /\ report = <<>> /\ established = NULL /\ writes = {} /\ told = NULL

Operations == IF installer = "router" THEN {"install", "uninstall"} ELSE {"install"}
Requests ==
  [op : Operations, dry : BOOLEAN, accepted : BOOLEAN,
   where : IF installer = "router" THEN Places \cup {NULL} ELSE {NULL}]

\* _require_open and _require_acknowledgement; the router has no consequences to accept,
\* and olm asks only before it writes.
Admitted(r) ==
  r.accepted \/ installer = "router" \/ (installer = "olm" /\ r.dry)

StartCall ==
  /\ ipc \in {"idle", "answered"} /\ calls + changes < MaxEvents
  /\ calls' = calls + 1
  /\ \E r \in Requests :
       /\ call' = r
       /\ place' = IF r.where = NULL THEN "default" ELSE r.where
       /\ ipc' = IF ~Admitted(r) THEN "answered"
                 ELSE IF r.op = "install" THEN "survey" ELSE "discover"
  /\ prior' = <<>> /\ report' = <<>> /\ established' = NULL /\ writes' = {}
  /\ told' = NULL
  /\ UNCHANGED <<installer, live, stamp, changes>>

\* The gate is closed, a read fails, the process dies: the request ends where it is.
CallFails ==
  /\ ipc \notin {"idle", "answered"}
  /\ ipc' = "answered" /\ told' = "error"
  /\ UNCHANGED <<installer, live, stamp, calls, changes, call, place, prior, report,
                 established, writes>>

-----------------------------------------------------------------------------
\* How many objects are read before the first is written: a project's namespace alone
\* says whether the project is there.
Surveyed == IF installer = "project" THEN 1 ELSE Len(Bundle)

\* _read_live: an API that is not served holds no object.
Survey ==
  /\ ipc = "survey" /\ Len(prior) < Surveyed
  /\ prior' = Append(prior, live[Key(Bundle[Len(prior) + 1], place)])
  /\ UNCHANGED <<installer, live, stamp, calls, changes, call, ipc, place, report,
                 established, writes, told>>

\* _check_ownership, _refuse_existing
Conflicts ==
  {i \in DOMAIN prior :
     prior[i] # NULL /\ (installer = "project" \/ ~prior[i].ours)}

CheckOwnership ==
  /\ ipc = "survey" /\ Len(prior) = Surveyed
  /\ IF Conflicts = {} THEN ipc' = "apply" /\ told' = told
     ELSE ipc' = "answered" /\ told' = "conflict"
  /\ UNCHANGED <<installer, live, stamp, calls, changes, call, place, prior, report,
                 established, writes>>

Turn == Len(report) + 1
Fared(outcome) == \E i \in DOMAIN report : report[i] = outcome

\* What is not attempted: the second phase over a first that did not land or was not
\* established in time, a project's objects without its namespace.
SecondPhase == installer = "olm" /\ Turn > 1
Skipped ==
  CASE SecondPhase -> Fared("failed") \/ established = FALSE
    [] installer = "project" -> Turn > 1 /\ report[1] = "failed"
    [] OTHER -> FALSE

\* _await_established: polls until every definition is Established, or the deadline.
AwaitEstablished ==
  /\ ipc = "apply" /\ ~call.dry
  /\ SecondPhase /\ ~Fared("failed") /\ established = NULL
  /\ \E timeout \in BOOLEAN :
       LET crd == live[Key("crd", place)]
       IN /\ timeout \/ (crd # NULL /\ crd.ready)
          /\ established' = ~timeout
  /\ UNCHANGED <<installer, live, stamp, calls, changes, call, ipc, place, prior, report,
                 writes, told>>

\* The API server: a namespaced object needs its namespace, a custom resource its
\* definition; a create needs the name, an update the version that was read.
Exists(item) == live[Key(item, place)] # NULL
Servable(item) ==
  /\ item \in {"deployment", "catalog", "quota", "admins"} => Exists("namespace")
  /\ item = "catalog" => Exists("crd") /\ live[Key("crd", place)].ready
Known(i) == IF i \in DOMAIN prior THEN prior[i] ELSE NULL
\* Fault: an update carries no version.
AnyVersion(was, now) == IF was = NULL THEN now = NULL ELSE now # NULL

Unchanged(was, now) ==
  IF was = NULL THEN now = NULL ELSE now # NULL /\ now.version = was.version

Store(key, object) ==
  /\ stamp' = stamp + 1
  /\ live' = [live EXCEPT ![key] = object]

\* _apply_object: the object is written if the call arrives, and is reported so if the
\* answer does.
ApplyObject(arrives, heard) ==
  LET key == Key(Bundle[Turn], place)
      lands == arrives /\ Servable(Bundle[Turn])
                 /\ Unchanged(Known(Turn), live[key])
      ready == live[key] # NULL /\ live[key].ready
      written == [Object(TRUE, stamp + 1, place) EXCEPT !.ready = ready]
  IN /\ report' = Append(report, IF lands /\ heard THEN "applied" ELSE "failed")
     /\ IF lands
        THEN Store(key, written) /\ writes' = writes \cup {[item |-> Turn, was |-> live[key]]}
        ELSE UNCHANGED <<live, stamp, writes>>

\* One turn of the loop.  A dry run projects, or renders, and writes nothing.
ApplyNext ==
  /\ ipc = "apply" /\ Turn <= Len(Bundle)
  /\ IF call.dry
     THEN /\ report' \in {Append(report, "projected"), Append(report, "failed")}
          /\ UNCHANGED <<live, stamp, writes>>
     ELSE IF Skipped
     THEN report' = Append(report, "skipped") /\ UNCHANGED <<live, stamp, writes>>
     ELSE /\ SecondPhase => established = TRUE
          /\ \E arrives, heard \in BOOLEAN : ApplyObject(arrives, heard)
  /\ UNCHANGED <<installer, calls, changes, call, ipc, place, prior, established, told>>

Succeeded == ~call.dry /\ ~Fared("failed") /\ ~Fared("skipped")

FinishInstall ==
  /\ ipc = "apply" /\ Turn > Len(Bundle)
  /\ ipc' = "answered" /\ told' = IF Succeeded THEN "installed" ELSE "partial"
  /\ UNCHANGED <<installer, live, stamp, calls, changes, call, place, prior, report,
                 established, writes>>

-----------------------------------------------------------------------------
\* _discover_namespace: the place the binding names, unless the caller named one; a
\* binding that is not there, or was not read, leaves the default.
Discover ==
  /\ ipc = "discover"
  /\ \E read \in BOOLEAN :
       place' = IF read /\ Exists("binding") /\ call.where = NULL
                THEN live[Key("binding", place)].where ELSE place
  /\ ipc' = "removing"
  /\ UNCHANGED <<installer, live, stamp, calls, changes, call, prior, report, established,
                 writes, told>>

\* uninstall goes through the bundle backwards, and leaves the namespace.
Removing == Bundle[Len(Bundle) + 1 - Turn]
Leaves == Turn = Len(Bundle)

\* _read_live, _managed_by_us: what is not there, or not ours, is passed over.
LookBeforeRemoval ==
  /\ ipc = "removing" /\ ~Leaves
  /\ LET found == live[Key(Removing, place)]
     IN IF found = NULL \/ ~found.ours
        THEN report' = Append(report, "passed") /\ ipc' = ipc
        ELSE report' = report /\ ipc' = "deleting"
  /\ UNCHANGED <<installer, live, stamp, calls, changes, call, place, prior, established,
                 writes, told>>

\* delete_resource, which names the object and no version of it.
RemoveObject ==
  /\ ipc = "deleting"
  /\ ipc' = "removing"
  /\ LET key == Key(Removing, place)
     IN \E arrives, heard \in BOOLEAN :
          LET goes == arrives /\ ~call.dry /\ live[key] # NULL
          IN /\ report' = Append(report, IF heard /\ arrives /\ live[key] # NULL
                                         THEN "removed" ELSE "failed")
             /\ IF goes THEN Store(key, NULL) ELSE UNCHANGED <<live, stamp>>
  /\ UNCHANGED <<installer, calls, changes, call, place, prior, established, writes, told>>

FinishUninstall ==
  /\ ipc = "removing" /\ Leaves
  /\ ipc' = "answered"
  /\ told' = IF ~call.dry /\ ~Fared("failed") THEN "uninstalled" ELSE "partial"
  /\ UNCHANGED <<installer, live, stamp, calls, changes, call, place, prior, report,
                 established, writes>>

InstallerStep ==
  StartCall \/ CallFails \/ Survey \/ CheckOwnership \/ AwaitEstablished \/ ApplyNext
    \/ FinishInstall \/ Discover \/ LookBeforeRemoval \/ RemoveObject \/ FinishUninstall

\* The API server establishes a definition; somebody else, or another console, creates,
\* replaces or removes an object.
Establish ==
  /\ installer = "olm" /\ Exists("crd") /\ ~live[Key("crd", place)].ready
  /\ live' = [live EXCEPT ![Key("crd", place)].ready = TRUE]
  /\ UNCHANGED <<stamp, changes>>

Meddle ==
  /\ calls + changes < MaxEvents /\ changes' = changes + 1
  /\ \E key \in Keys :
       \/ \E ours \in BOOLEAN : Store(key, Object(ours, stamp + 1, "default"))
       \/ live[key] # NULL /\ Store(key, NULL)

OthersChange ==
  /\ ipc \notin {"idle", "answered"}
  /\ Establish \/ Meddle
  /\ UNCHANGED <<installer, calls, call, ipc, place, prior, report, established, writes,
                 told>>

InstallNext == InstallerStep \/ OthersChange

-----------------------------------------------------------------------------
\* "Installed" means that every object of the bundle was accepted in this request, none
\* of them over an object of somebody else's, and that nothing of the second phase went
\* out before the first was there; a refusal for ownership, and a dry run, leave the
\* cluster as it was.
InstallTellsTheTruth ==
  /\ \A w \in writes : w.was # NULL => w.was.ours
  /\ told = "conflict" \/ (call # NULL /\ call.dry) => writes = {}
  /\ told = "installed" => {w.item : w \in writes} = DOMAIN Bundle
  /\ installer = "olm" /\ (\E w \in writes : w.item > 1) =>
       established = TRUE /\ report[1] = "applied"

\* router.py, _discover_namespace: a namespace that was not found leaves an entry, and is
\* not "not installed"; uninstall: '"uninstalled" never means more than it did'.  Unless
\* the caller chose where to look, nothing of the router that carries the console's label
\* is left, the namespace apart.
UninstalledMeansGone ==
  told = "uninstalled" /\ call.where = NULL =>
    \A key \in Keys : key[1] # "namespace" => live[key] = NULL \/ ~live[key].ours
=============================================================================
