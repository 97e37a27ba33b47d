SPECIFICATION MCSpec
CONSTANTS
  na = na
  nb = nb
  WServers = {s1, s2, s3}
  WRoots = {s1, s2}
  Hosts <- MCHosts
  Ndots = 1
  Servers <- MCServers
  Attempts = 2
  SResponses <- MCResponses
  Special <- MCSpecial
  Labels = 3
  MaxIterations = 4
  QNames <- MCNames
  Answers <- MCAnswers
  Clients = {r1, r2}
  MaxCNAMEs = 3
  AggressiveNSEC = TRUE
  AllowNoRD = FALSE
  None = None
CHECK_DEADLOCK FALSE
INVARIANT HitsChased
