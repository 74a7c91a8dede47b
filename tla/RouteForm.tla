------------------------------ MODULE RouteForm ------------------------------
(***************************************************************************)
(* admin/routes.py: the exposure an operator describes, compiled into the   *)
(* document of the API they picked, and the write that refuses until what   *)
(* that API cannot say has been accepted by name.                           *)
(***************************************************************************)
EXTENDS Naturals, FiniteSets, Facts

\* No TLS, no policy, no request.
ASSUME NoChoiceAssumption ==
  NULL \notin {"edge", "passthrough", "reencrypt", "Allow", "Redirect", "written"}

VARIABLES
  backend, served,       \* the API, and whether it is served: UNREAD, or BOOLEAN
  exposure,              \* the form, NULL when the document is sent as it is
  document,              \* the document in the editor, NULL when it is empty
  accepted,              \* acknowledge_lossy
  compiled, lossy,       \* what render returned, and then what is written
  sent,                  \* the document that comes with the write
  reviewed,              \* the subresources that were reviewed
  rpc

route == <<backend, served, exposure, document, accepted, compiled, lossy, sent, reviewed, rpc>>

Backends == {"openshift", "ingress", "gateway"}
Features == {"edge_tls", "passthrough_tls", "reencrypt_tls", "insecure_redirect",
             "insecure_allow", "weighted_backends", "wildcard_subdomain",
             "generated_host", "path_exact"}

\* services/routes.py: what each API has a field for.
Expressible(b) ==
  CASE b = "openshift" -> Features \ {"path_exact"}
    [] b = "ingress" -> {"edge_tls", "path_exact"}
    [] b = "gateway" -> {"insecure_redirect", "weighted_backends", "path_exact"}

Terminations == {NULL, "edge", "passthrough", "reencrypt"}

\* The port of a target: none, a number or a name.  One target or two, where the code
\* takes four.
Ports == {NULL, "8080", "8443", "web"}
Targets == [1..1 -> Ports] \cup [1..2 -> Ports]

Exposures ==
  [termination : Terminations, insecure : {NULL, "Allow", "Redirect"}, secret : BOOLEAN,
   targets : Targets, host : BOOLEAN, wildcard : BOOLEAN, exact : BOOLEAN, ca : BOOLEAN]

\* A document: the features it uses, the ports of its targets, and what the form has no
\* control for: annotations, a Route's certificate, an Ingress's further rules and TLS
\* entries, an HTTPRoute's further rules and host names.
Document(fields, ports, rest) == [fields |-> fields, ports |-> ports, rest |-> rest]
Unshown(b) ==
  {"annotation"} \cup (CASE b = "openshift" -> {"certificate"}
                        [] b = "ingress" -> {"ingress rules", "ingress tls"}
                        [] b = "gateway" -> {"httproute rules", "hostnames"})
Documents(b) ==
  {Document({"host"}, <<"8080">>, {}),
   Document({"host", "weighted_backends"}, <<"8080", "web">>, Unshown(b))}

\* build_exposure: a policy without TLS, one that cannot be, and a re-encryption
\* without the CA of the other side.
Sensible(e) ==
  /\ e.insecure # NULL => e.termination # NULL
  /\ ~(e.insecure = "Allow" /\ e.termination = "passthrough")
  /\ e.termination = "reencrypt" => e.ca

RouteInit ==
  /\ backend \in Backends /\ served \in {TRUE, FALSE, UNREAD}
  /\ exposure \in {NULL} \cup Exposures
  /\ document \in {NULL} \cup Documents(backend)
  /\ accepted = {} /\ compiled = NULL /\ lossy = {} /\ sent = NULL /\ reviewed = {}
  /\ rpc = "typed"

\* Exposure.requested_features
Requested(e) ==
  (CASE e.termination = "edge" -> {"edge_tls"}
     [] e.termination = "passthrough" -> {"passthrough_tls"}
     [] e.termination = "reencrypt" -> {"reencrypt_tls"}
     [] OTHER -> {})
    \cup (CASE e.insecure = "Redirect" -> {"insecure_redirect"}
            [] e.insecure = "Allow" -> {"insecure_allow"}
            [] OTHER -> {})
    \cup {f \in {"weighted_backends"} : 2 \in DOMAIN e.targets}
    \cup {f \in {"wildcard_subdomain"} : e.wildcard}
    \cup {f \in {"generated_host"} : ~e.host}
    \cup {f \in {"path_exact"} : e.exact}

\* _lossy
Lossy(b, e) == Requested(e) \ Expressible(b)

\* _compile_route: TLS and its policy, the alternates, the wildcard; no host at all lets
\* the router assign one.
CompileRoute(e) ==
  {f \in {"host"} : e.host} \cup {f \in {"generated_host"} : ~e.host}
    \cup (CASE e.termination = NULL -> {}
            [] e.termination = "edge" -> {"edge_tls"}
            [] e.termination = "passthrough" -> {"passthrough_tls"}
            [] OTHER -> {"reencrypt_tls"})
    \cup (CASE e.termination = NULL \/ e.insecure = NULL -> {}
            [] e.insecure = "Allow" -> {"insecure_allow"}
            [] OTHER -> {"insecure_redirect"})
    \cup {f \in {"weighted_backends"} : 2 \in DOMAIN e.targets}
    \cup {f \in {"wildcard_subdomain"} : e.wildcard}

\* _compile_ingress: one backend, and TLS, if any, ends at the edge.
CompileIngress(e) ==
  {f \in {"host"} : e.host} \cup {f \in {"edge_tls"} : e.termination # NULL}
    \cup {f \in {"path_exact"} : e.exact}

\* _compile_httproute: all backends; a redirect is a rule of its own.
CompileHttpRoute(e) ==
  {f \in {"host"} : e.host} \cup {f \in {"path_exact"} : e.exact}
    \cup {f \in {"weighted_backends"} : 2 \in DOMAIN e.targets}
    \cup {f \in {"insecure_redirect"} : e.insecure = "Redirect"}

\* A Route has one port, the first target's, an Ingress one target, and a backendRef's
\* port is a number: a name is left out.
CompiledPorts(b, e) ==
  CASE b = "openshift" -> [i \in DOMAIN e.targets |-> e.targets[1]]
    [] b = "ingress" -> [i \in 1..1 |-> e.targets[1]]
    [] b = "gateway" -> [i \in DOMAIN e.targets |->
                           IF e.targets[i] = "web" THEN NULL ELSE e.targets[i]]

\* What the compilers replace as a whole: a Route's TLS when it ends, and its certificate
\* for a Secret; spec.tls; spec.rules and spec.hostnames.
Replaced(b, e) ==
  CASE b = "openshift" -> {f \in {"certificate"} : e.termination = NULL \/ e.secret}
    [] b = "ingress" -> {"ingress tls"}
    [] b = "gateway" -> {"httproute rules", "hostnames"}

\* _COMPILERS: the form's fields are the exposure's, whatever the document had there;
\* the metadata are merged.
Compile(b, e, doc) ==
  Document(CASE b = "openshift" -> CompileRoute(e) [] b = "ingress" -> CompileIngress(e)
             [] b = "gateway" -> CompileHttpRoute(e),
           CompiledPorts(b, e), IF doc = NULL THEN {} ELSE doc.rest \ Replaced(b, e))

\* render: the form is compiled into the document, or the document is taken as it is.
Renderable ==
  /\ served = TRUE
  /\ IF exposure = NULL THEN document # NULL ELSE Sensible(exposure)

Rendered(doc) == IF exposure = NULL THEN doc ELSE Compile(backend, exposure, doc)
LossyNow == IF exposure = NULL THEN {} ELSE Lossy(backend, exposure)

Render ==
  /\ rpc = "typed"
  /\ IF Renderable
     THEN compiled' = Rendered(document) /\ lossy' = LossyNow /\ rpc' = "rendered"
     ELSE rpc' = "refused" /\ UNCHANGED <<compiled, lossy>>
  /\ UNCHANGED <<backend, served, exposure, document, accepted, sent, reviewed>>

\* The operator accepts what was named, or goes on without.
Accept ==
  /\ rpc = "rendered"
  /\ accepted' \in {{}, lossy}
  /\ rpc' = "accepted"
  /\ UNCHANGED <<backend, served, exposure, document, compiled, lossy, sent, reviewed>>

\* The form is changed after its losses were accepted.
Edit ==
  /\ rpc = "accepted" /\ exposure # NULL
  /\ \E termination \in Terminations, exact \in BOOLEAN :
       exposure' = [exposure EXCEPT !.termination = termination, !.exact = exact]
  /\ rpc' = "edited"
  /\ UNCHANGED <<backend, served, document, accepted, compiled, lossy, sent, reviewed>>

\* Fault: one acknowledgement for everything.
AcceptedOnce == IF accepted = {} THEN LossyNow ELSE {}

\* _require_acknowledgement
Unacknowledged == LossyNow \ accepted

\* _custom_host_subresources
ChosenHost ==
  /\ backend = "openshift"
  /\ IF exposure = NULL THEN "host" \in document.fields ELSE exposure.host

\* create_route, update_route: rendered again from what the request brings, refused unless
\* accepted, and handed to the funnel, which reviews the object and the host.  The API
\* takes the document with the form; the console's own dialog sends the form alone.
Write ==
  /\ rpc \in {"accepted", "edited"}
  /\ sent' \in {document} \cup {d \in {NULL} : exposure # NULL}
  /\ IF Renderable /\ Unacknowledged = {}
     THEN /\ compiled' = Rendered(sent')
          /\ reviewed' = {f \in {"custom-host"} : ChosenHost} /\ rpc' = "written"
     ELSE rpc' = "refused" /\ UNCHANGED <<compiled, reviewed>>
  /\ UNCHANGED <<backend, served, exposure, document, accepted, lossy>>

RouteNext == Render \/ Accept \/ Edit \/ Write

-----------------------------------------------------------------------------
\* The two losses of a port that lossy[] has no entry for: a name in an HTTPRoute, and
\* the other targets' own ports in a Route.
PortIsLost(e, i) ==
  \/ backend = "gateway" /\ e.targets[i] = "web"
  \/ backend = "openshift" /\ e.targets[i] # e.targets[1]

\* What the operator asks for is in the object that is written, or was accepted as left
\* out, by name and for the form as it is now, but for two losses of a port; nothing
\* nobody asked for is in it; a host that somebody chose was reviewed as a choice.  A
\* document without a form is written as it is; of one that is sent with a form, the
\* annotations and an Ingress's other rules are kept, and nothing else is promised.
ExposureIsExpressedOrNamed ==
  rpc = "written" =>
    /\ backend = "openshift" /\ "host" \in compiled.fields => "custom-host" \in reviewed
    /\ exposure = NULL => compiled = document
    /\ exposure # NULL =>
         /\ Requested(exposure) \subseteq compiled.fields \cup accepted
         /\ \A i \in DOMAIN compiled.ports :
              compiled.ports[i] = exposure.targets[i] \/ PortIsLost(exposure, i)
         /\ sent # NULL =>
              sent.rest \cap {"annotation", "ingress rules"} \subseteq compiled.rest
=============================================================================
