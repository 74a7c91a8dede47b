----------------------------- MODULE Operations ------------------------------
(***************************************************************************)
(* One operation of the console on a cluster that others change meanwhile:  *)
(* a writer's handshake, a drain, a route compiled from the form, an         *)
(* installer's calls, or a page that answers about several objects.  The     *)
(* parts share the cluster's nondeterminism and no state: each runs alone.   *)
(***************************************************************************)
EXTENDS Acknowledged, Drain, RouteForm, Installers, Pages

CONSTANT Parts

VARIABLE part

vars == <<part, handshake, drain, route, install, pageState>>

NoHandshake ==
  /\ writer = NULL /\ want = NULL /\ object = NULL /\ version = NULL /\ around = NULL
  /\ moves = 0 /\ pc = NULL /\ shown = NULL /\ request = NULL /\ seen = NULL
  /\ truth = NULL /\ landed = NULL /\ row = NULL

NoDrain ==
  /\ node = NULL /\ allowed = NULL /\ opts = NULL /\ dpc = NULL /\ plan = <<>>
  /\ pdbChecked = FALSE /\ evictions = <<>> /\ answer = NULL /\ drow = NULL

NoRoute ==
  /\ backend = NULL /\ served = NULL /\ exposure = NULL /\ document = NULL
  /\ accepted = {} /\ compiled = NULL /\ lossy = {} /\ sent = NULL /\ reviewed = {} /\ rpc = NULL

NoInstall ==
  /\ installer = NULL /\ live = NULL /\ stamp = 0 /\ calls = 0 /\ changes = 0
  /\ call = NULL /\ ipc = NULL /\ place = NULL /\ prior = <<>> /\ report = <<>>
  /\ established = NULL /\ writes = {} /\ told = NULL

NoPage ==
  /\ page = NULL /\ asked = NULL /\ objects = NULL /\ apis = NULL /\ cache = NULL
  /\ drift = 0 /\ at = 0 /\ doing = NULL /\ begun = NULL /\ states = NULL /\ got = NULL
  /\ missing = {} /\ cut = {} /\ moments = {} /\ relied = {}

Init ==
  /\ part \in Parts
  /\ \/ part = "handshake" /\ HandshakeInit /\ NoDrain /\ NoRoute /\ NoInstall /\ NoPage
     \/ part = "drain" /\ NoHandshake /\ DrainInit /\ NoRoute /\ NoInstall /\ NoPage
     \/ part = "route" /\ NoHandshake /\ NoDrain /\ RouteInit /\ NoInstall /\ NoPage
     \/ part = "install" /\ NoHandshake /\ NoDrain /\ NoRoute /\ InstallInit /\ NoPage
     \/ part = "page" /\ NoHandshake /\ NoDrain /\ NoRoute /\ NoInstall /\ PageInit

Next ==
  /\ part' = part
  /\ \/ part = "handshake" /\ HandshakeNext /\ UNCHANGED <<drain, route, install, pageState>>
     \/ part = "drain" /\ DrainNext /\ UNCHANGED <<handshake, route, install, pageState>>
     \/ part = "route" /\ RouteNext /\ UNCHANGED <<handshake, drain, install, pageState>>
     \/ part = "install" /\ InstallNext /\ UNCHANGED <<handshake, drain, route, pageState>>
     \/ part = "page" /\ PageNext /\ UNCHANGED <<handshake, drain, route, install>>

Spec == Init /\ [][Next]_vars
=============================================================================
