\* Three callers queue for the mutex; each of them is answered.
SPECIFICATION FairSpec
CONSTANTS
  c1 = c1  c2 = c2  d1 = d1  d2 = d2  bad = bad  a1 = a1  a2 = a2  vpn = vpn
  Device = {d1}
  ValidDevice = {d1}
  Address = {a1}
  Dns = dns
  Dhcp = dhcp
  Service = {vpn, dns, dhcp}
  Loopback = lo
  Uplink = uplink
  ConnId = {c1}
  Server <- MCOneServer
  RemoteSets <- MCOneRemote
  Task = {t1, t2, t3}
  Nobody = Nobody
  NoCall = NoCall
PROPERTIES
  CallsAnswered
