\* Two relays (or a relay and a RecoverNetwork call) racing for the mutex.
SPECIFICATION Spec
CONSTANTS
  c1 = c1  c2 = c2  d1 = d1  d2 = d2  bad = bad  a1 = a1  a2 = a2  vpn = vpn
  Device = {d1, bad}
  ValidDevice = {d1}
  Address = {a1, a2}
  Dns = dns
  Dhcp = dhcp
  Service = {vpn, dns, dhcp}
  Loopback = lo
  Uplink = uplink
  ConnId = {c1, c2}
  Server <- MCServer
  RemoteSets <- MCRemoteSets
  Task = {t1, t2}
  Nobody = Nobody
  NoCall = NoCall
SYMMETRY MCSymmetry
INVARIANTS
  TypeOK
  EgressIsUnion
PROPERTIES
  NeverOpensAnother
  ArmedIsInstalled
  ImplementsAtomic
