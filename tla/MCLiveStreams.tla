--------------------------- MODULE MCLiveStreams ----------------------------
(* LiveStreams for TLC: a pod that is replaced by one with a sidecar and a    *)
(* debug container.                                                          *)
EXTENDS LiveStreams

MCPods == {[regular |-> {"app"}, ephemeral |-> {}],
           [regular |-> {"app", "sidecar"}, ephemeral |-> {"debugger"}]}
MCAsked == {NULL, "sidecar", "debugger"}
=============================================================================
