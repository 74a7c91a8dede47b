SPECIFICATION FairSpec
CONSTANTS
  p1 = p1
  p2 = p2
  t1 = t1
  t2 = t2
  Replica = {p1, p2}
  Thread = {t1, t2}
  Homes <- MCHomes
  Columns <- MCColumns
  Kubeconfigs <- MCKubeconfigs
  InContainer = FALSE
  Principals <- MCPrincipals
  Operation = {"request", "test", "register", "update", "delete"}
  MaxOps = 2
  MaxCrashes = 1
  NULL = NULL
INVARIANTS
  CredentialsStayReadable
  ActsAsTheOperator
  AnswersDescribeTheRow
  FilesAreAccountedFor
PROPERTY
  EveryReplicaServes
\* Every replica may be serving, and every operation done.
CHECK_DEADLOCK FALSE
