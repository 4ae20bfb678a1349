\* One connection, nft never fails: its process dies before CONNECTED.
SPECIFICATION Spec
CONSTANTS
  c1 = c1  c2 = c2  d1 = d1  d2 = d2  a1 = a1  a2 = a2  vpn = vpn
  Device = {d1, d2}
  ValidDevice = {d1, d2}
  Address = {a1, a2}
  Dns = dns
  Dhcp = dhcp
  Service = {vpn, dns, dhcp}
  Loopback = lo
  Uplink = uplink
  ConnId = {c1}
  Server <- MCPairedServer
  RemoteSets <- MCAllRemotes
  Options = {TRUE}
  Helpers = {TRUE}
  NftOutcomes = {TRUE}
  DnsOutcomes = {"applied"}
  MaxLines = 1
  NoEnvFile = NoEnvFile
  Unwritten = Unwritten
PROPERTY
  NeverConnectedStaysBlocked
