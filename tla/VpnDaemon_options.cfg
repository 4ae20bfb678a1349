\* One connection with every option, helper, DNS outcome and a bad device name.
SPECIFICATION FairSpec
CONSTANTS
  c1 = c1  c2 = c2  d1 = d1  d2 = d2  a1 = a1  a2 = a2  vpn = vpn
  Device = {d1, d2}
  ValidDevice = {d1}
  Address = {a1, a2}
  Dns = dns
  Dhcp = dhcp
  Service = {vpn, dns, dhcp}
  Loopback = lo
  Uplink = uplink
  ConnId = {c1}
  Server <- MCPairedServer
  RemoteSets <- MCSomeRemotes
  Options = {TRUE, FALSE}
  Helpers = {TRUE, FALSE}
  NftOutcomes = {TRUE, FALSE}
  DnsOutcomes = {"applied", "nothing", "failed"}
  MaxLines = 2
  NoEnvFile = NoEnvFile
  Unwritten = Unwritten
INVARIANTS
  TypeOK
PROPERTIES
  DisconnectCompletes
  NeverRunsUnarmed
  DeadIsReaped
