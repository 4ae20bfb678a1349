\* Restarts while the relay configures the link.
SPECIFICATION Spec
CONSTANTS
  s1 = s1  s2 = s2  corp = corp
  Session <- MCSession
  DnsServer = {s1, s2}
  Domain = {corp}
  Persistent = {TRUE, FALSE}
  FailingCalls = {"SetLinkDNS", "RevertLink"}
  MaxLinks = 3
  MaxLines = 2
INVARIANTS
  TypeOK
  ReadsWholeFile
  DnsSettles
  NothingLeft
\* a connection ends for good
CHECK_DEADLOCK FALSE
