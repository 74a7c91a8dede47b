------------------------------- MODULE Writers -------------------------------
(***************************************************************************)
(* Which writer is which: what the handshake asks each of them.             *)
(***************************************************************************)
EXTENDS ClaimWriters, AccessWriters, NodeScheduling, PolicyWriters, NamespaceDelete,
        Subscriptions

WriterNames ==
  {"expand", "snapshot", "csr", "taints", "labels", "psa", "hpa", "grant", "namespace",
   "subscribe"}

WriterObjects(w) ==
  CASE w = "expand" -> ExpandObjects [] w = "snapshot" -> SnapshotObjects
    [] w = "csr" -> CsrObjects [] w = "taints" -> TaintObjects
    [] w = "labels" -> LabelObjects [] w = "psa" -> PsaObjects
    [] w = "hpa" -> HpaObjects [] w = "grant" -> GrantObjects
    [] w = "namespace" -> NamespaceObjects
    [] w = "subscribe" -> SubscribeObjects

WriterSurroundings(w) ==
  CASE w = "expand" -> ExpandSurroundings [] w = "snapshot" -> SnapshotSurroundings
    [] w = "csr" -> CsrSurroundings [] w \in {"taints", "labels"} -> NodeSurroundings
    [] w = "psa" -> PsaSurroundings [] w = "hpa" -> HpaSurroundings
    [] w = "grant" -> GrantSurroundings [] w = "namespace" -> NamespaceSurroundings
    [] w = "subscribe" -> SubscribeSurroundings

WriterReadings(w, a) ==
  CASE w = "expand" -> ExpandReadings(a) [] w = "snapshot" -> SnapshotReadings(a)
    [] w = "csr" -> CsrReadings(a) [] w \in {"taints", "labels"} -> NodeReadings(a)
    [] w = "psa" -> PsaReadings(a) [] w = "hpa" -> HpaReadings(a)
    [] w = "grant" -> GrantReadings(a) [] w = "namespace" -> NamespaceReadings(a)
    [] w = "subscribe" -> SubscribeReadings(a)

WriterWants(w) ==
  CASE w = "expand" -> ExpandWants [] w = "snapshot" -> SnapshotWants
    [] w = "csr" -> CsrWants [] w = "taints" -> TaintWants [] w = "labels" -> LabelWants
    [] w = "psa" -> PsaWants [] w = "hpa" -> HpaWants [] w = "grant" -> GrantWants
    [] w = "namespace" -> NamespaceWants
    [] w = "subscribe" -> SubscribeWants

WriterValid(w, x) ==
  CASE w = "expand" -> ExpandValid(x) [] w = "snapshot" -> SnapshotValid(x)
    [] w = "csr" -> CsrValid(x) [] w = "taints" -> TaintValid(x)
    [] w = "labels" -> LabelValid(x) [] w = "psa" -> PsaValid(x)
    [] w = "hpa" -> HpaValid(x) [] w = "grant" -> GrantValid(x)
    [] w = "namespace" -> NamespaceValid(x)
    [] w = "subscribe" -> SubscribeValid(x)

WriterRefused(w, o, a, x) ==
  CASE w = "expand" -> ExpandRefused(o, a, x) [] w = "snapshot" -> SnapshotRefused(o, a, x)
    [] w = "csr" -> CsrRefused(o, a, x) [] w = "taints" -> TaintRefused(o, a, x)
    [] w = "labels" -> LabelRefused(o, a, x) [] w = "psa" -> PsaRefused(o, a, x)
    [] w = "hpa" -> HpaRefused(o, a, x) [] w = "grant" -> GrantRefused(o, a, x)
    [] w = "namespace" -> NamespaceRefused(o, a, x)
    [] w = "subscribe" -> SubscribeRefused(o, a, x)

WriterCodes(w, o, a, x) ==
  CASE w = "expand" -> ExpandCodes(o, a, x) [] w = "snapshot" -> SnapshotCodes(o, a, x)
    [] w = "csr" -> CsrCodes(o, a, x) [] w = "taints" -> TaintCodes(o, a, x)
    [] w = "labels" -> LabelCodes(o, a, x) [] w = "psa" -> PsaCodes(o, a, x)
    [] w = "hpa" -> HpaCodes(o, a, x) [] w = "grant" -> GrantCodes(o, a, x)
    [] w = "namespace" -> NamespaceCodes(o, a, x)
    [] w = "subscribe" -> SubscribeCodes(o, a, x)

WriterApplied(w, o, x) ==
  CASE w = "expand" -> ExpandApplied(o, x) [] w = "snapshot" -> SnapshotApplied(o, x)
    [] w = "csr" -> CsrApplied(o, x) [] w = "taints" -> TaintApplied(o, x)
    [] w = "labels" -> LabelApplied(o, x) [] w = "psa" -> PsaApplied(o, x)
    [] w = "hpa" -> HpaApplied(o, x) [] w = "grant" -> GrantApplied(o, x)
    [] w = "namespace" -> NamespaceApplied(o, x)
    [] w = "subscribe" -> SubscribeApplied(o, x)

WriterDangers(w, o, a, x) ==
  CASE w = "expand" -> ExpandDangers(o, a, x) [] w = "snapshot" -> SnapshotDangers(o, a, x)
    [] w = "csr" -> CsrDangers(o, a, x) [] w = "taints" -> TaintDangers(o, a, x)
    [] w = "labels" -> LabelDangers(o, a, x) [] w = "psa" -> PsaDangers(o, a, x)
    [] w = "hpa" -> HpaDangers(o, a, x) [] w = "grant" -> GrantDangers(o, a, x)
    [] w = "namespace" -> NamespaceDangers(o, a, x)
    [] w = "subscribe" -> SubscribeDangers(o, a, x)

\* The writers that create what they write: its name has to be free.
WriterCreates(w) == w = "subscribe"

\* The writers that send the version they read, or put back the object they read.
\* A snapshot is an object of its own, a delete names only the namespace.
WriterConditional(w, o) == w \notin {"snapshot", "namespace", "subscribe"} /\ o # NULL
=============================================================================
