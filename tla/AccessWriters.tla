---------------------------- MODULE AccessWriters ----------------------------
(***************************************************************************)
(* csr.py, approving or denying a CertificateSigningRequest: the whole      *)
(* object that was read is put back with one condition more, so the version *)
(* it carries is the precondition; and rbac_grants.py, adding a subject to  *)
(* the RoleBinding of a role, creating the binding when there is none, and  *)
(* taking a subject out of it.                                              *)
(***************************************************************************)
EXTENDS FiniteSets, Facts

ASSUME RoleAssumption == UNREAD # {"absent"}

\* certificatesigningrequest_row.  An undecodable request has no subject.
Csr(cn, groups, requestor, signer) ==
  [cn |-> cn, groups |-> groups, requestor |-> requestor, signer |-> signer,
   decoded |-> TRUE, signed |-> TRUE, decisions |-> {}]

CsrRequests ==
  {Csr("system:node:a", {"system:nodes"}, "bootstrap", "kubelet"),
   Csr("system:node:a", {"system:nodes"}, "system:node:a", "kubelet"),
   Csr("dev", {"system:masters"}, "dev", "example.com/own"),
   [Csr(NULL, {}, "dev", "kubelet") EXCEPT !.decoded = FALSE],
   [Csr("dev", {}, "dev", "kubelet") EXCEPT !.signed = FALSE]}

Decisions == {"Approved", "Denied"}
CsrObjects ==
  CsrRequests \cup {[c EXCEPT !.decisions = {d}] : c \in CsrRequests, d \in Decisions}

CsrSurroundings == {NULL}
CsrReadings(around) == {around}
CsrWants == Decisions \cup {"Maybe"}

\* validate_decision
CsrValid(decision) == decision \in Decisions

\* _already_decided: a second condition of the other type leaves the request both.
CsrRefused(csr, seen, decision) == csr.decisions # {}

\* consequences_for, approving
ApproveCodes(csr) ==
  {c \in {"grants_cluster_admin"} : "system:masters" \in csr.groups}
    \cup {c \in {"grants_node_identity"} :
            "system:nodes" \in csr.groups /\ csr.cn # csr.requestor}
    \cup {c \in {"subject_is_not_requestor"} : csr.cn # NULL /\ csr.cn # csr.requestor}
    \cup {c \in {"no_known_signer"} : csr.signer # "kubelet"}

\* consequences_for, denying
DenyCodes(csr) == {c \in {"deny_blocks_node"} : csr.cn = "system:node:a"}

CsrCodes(csr, seen, decision) ==
  {c \in {"request_undecodable"} : ~csr.decoded}
    \cup {c \in {"signature_invalid"} : ~csr.signed}
    \cup (IF decision = "Approved" THEN ApproveCodes(csr) ELSE DenyCodes(csr))

\* build_condition, build_body
CsrApplied(csr, decision) == [csr EXCEPT !.decisions = @ \cup {decision}]

\* A certificate nobody could decode may be any of these.
CsrDangers(csr, around, decision) == {d \in {{"request_undecodable"}} : ~csr.decoded}

-----------------------------------------------------------------------------
Subjects == {"alice", "bob"}

\* The role's binding: the subjects it lists, NULL when no binding has that roleRef.
GrantObjects == {NULL} \cup {[subjects |-> s] : s \in {{"bob"}, {"alice", "bob"}}}

\* The role: absent, or its rules' powers, or rules still to be aggregated (NULL); and
\* the other bindings that name the subject, here and cluster-wide.
Powers == {{}, {"full_control", "escalation"}, {"secret_read"}}
GrantSurroundings ==
  {[role |-> r, here |-> h, cluster |-> c, twins |-> FALSE, taken |-> FALSE] :
     r \in Powers, h \in BOOLEAN, c \in BOOLEAN}
    \cup {[role |-> r, here |-> FALSE, cluster |-> FALSE, twins |-> t, taken |-> ~t] :
            r \in {NULL, {"absent"}}, t \in BOOLEAN}

\* The namespace's bindings have to be readable; the role and the cluster's may not be.
GrantReadings(around) == PartialReads(around, {"role", "cluster"})

GrantWants == [operation : {"grant", "revoke"}, subject : {"alice"}]
               \cup {[operation |-> "grant", subject |-> NULL]}

\* validate_subject, validate_role, validate_operation
GrantValid(wanted) == wanted.subject # NULL

Lists(binding, subject) == binding # NULL /\ subject \in binding.subjects

\* _resolve: the blocked cases.  A truncated listing is like a second binding of the
\* role: which one to change is not known.
GrantRefused(binding, seen, wanted) ==
  \/ seen.twins
  \/ wanted.operation = "grant" /\ Lists(binding, wanted.subject)
  \/ wanted.operation = "grant" /\ binding = NULL /\ seen.taken
  \/ wanted.operation = "revoke" /\ ~Lists(binding, wanted.subject)

\* powers_of, role_capability: what the rules confer; an unread role, an absent one and
\* one without rules yet confer nothing that can be named.
Capability(seen) ==
  IF seen.role \in {UNREAD, NULL, {"absent"}} THEN {} ELSE seen.role

\* consequences_for, a grant: full control says it all.
PowerCodes(powers) ==
  IF "full_control" \in powers THEN {"full_control"}
  ELSE {c \in {"privilege_escalation"} : "escalation" \in powers}
         \cup {c \in {"impersonation"} : "impersonate" \in powers}
         \cup {c \in {"secret_access"} : powers \cap {"secret_read", "pod_exec"} # {}}

\* Fault: a role that could not be read is taken for one that confers nothing.
KnownRoleCodes(seen) == {c \in {"role_absent"} : seen.role = {"absent"}}

RoleCodes(seen) ==
  CASE seen.role = UNREAD -> {"role_unreadable"}
    [] seen.role = {"absent"} -> {"role_absent"}
    [] seen.role = NULL -> {"rules_not_aggregated"}
    [] OTHER -> {}

\* residual_bindings and consequences_for, a revoke
ResidualCodes(seen) ==
  {c \in {"access_remains"} : seen.here \/ seen.cluster = TRUE}
    \cup {c \in {"residual_unknown"} : seen.cluster = UNREAD}

GrantCodes(binding, seen, wanted) ==
  IF wanted.operation = "grant" THEN PowerCodes(Capability(seen)) \cup RoleCodes(seen)
  ELSE ResidualCodes(seen)

\* next_subjects, build_subject_patch, build_binding_body
GrantApplied(binding, wanted) ==
  LET current == IF binding = NULL THEN {} ELSE binding.subjects
  IN [subjects |-> IF wanted.operation = "grant" THEN current \cup {wanted.subject}
                   ELSE current \ {wanted.subject}]

\* Power that is handed out, and access that a revocation leaves.
GrantDangers(binding, around, wanted) ==
  IF wanted.operation = "revoke"
  THEN {d \in {{"access_remains", "residual_unknown"}} : around.here \/ around.cluster}
  ELSE {d \in {{"full_control", "role_unreadable"}} :
          around.role # NULL /\ "full_control" \in around.role}
         \cup {d \in {{"secret_access", "role_unreadable"}} :
                 around.role # NULL /\ "secret_read" \in around.role}
=============================================================================
