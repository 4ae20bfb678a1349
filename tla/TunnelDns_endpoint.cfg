\* A server reached over IPv6.
SPECIFICATION Spec
CONSTANTS
  s1 = s1  s2 = s2  corp = corp
  Session <- MCInet6Session
  DnsServer = {s1, s2}
  Domain = {corp}
  Persistent = {FALSE}
  FailingCalls = {}
  MaxLinks = 1
  MaxLines = 1
INVARIANTS
  EndpointKnown
\* a connection ends for good
CHECK_DEADLOCK FALSE
