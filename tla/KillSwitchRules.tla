------------------------- MODULE KillSwitchRules -------------------------
(***************************************************************************)
(* The nftables rule set of the kill-switch: what warrenvpn_core's         *)
(* `build_ruleset` emits for a collection of allowances, and which packets *)
(* the kernel lets out under it.  The rule set is an accept-list under a   *)
(* drop policy, so the order of the emitted lines does not matter and the  *)
(* script is abstracted to the sets its lines enumerate.                   *)
(***************************************************************************)
CONSTANTS
  Device,       \* interface names a tunnel may report as its `dev`
  ValidDevice,  \* those `is_valid_ifname` accepts
  Address,      \* IP addresses
  Service,      \* transport protocol + destination port, as one value
  Dns, Dhcp,    \* the services the script names itself
  Loopback,     \* "lo"
  Uplink        \* the physical link

ASSUME RulesAssumption ==
  /\ ValidDevice \subseteq Device
  /\ {Dns, Dhcp} \subseteq Service
  /\ Loopback \notin Device
  /\ Uplink \notin Device
  /\ Uplink # Loopback

-----------------------------------------------------------------------------
(* Allowances: what one connection may reach, by phase.                    *)

Endpoint == [dev : Device, ip : Address, svc : Service]

Connecting(ips) == [phase |-> "connecting", ips |-> ips]
Connected(e) == [phase |-> "connected", endpoint |-> e]

Allowance == {Connecting(ips) : ips \in SUBSET Address}
               \cup {Connected(e) : e \in Endpoint}

Peer(e) == [ip |-> e.ip, svc |-> e.svc]

-----------------------------------------------------------------------------
(* The kernel table `inet warrenvpn`; `up` is FALSE when it does not exist. *)

Table == [up : BOOLEAN, dns : BOOLEAN, devs : SUBSET ValidDevice,
          hosts : SUBSET Address, peers : SUBSET [ip : Address, svc : Service]]

Absent == [up |-> FALSE, dns |-> FALSE, devs |-> {}, hosts |-> {}, peers |-> {}]

AnyName(allowances) == allowances # {}    \* mutant: names are not validated

(* `build_ruleset` returns Some.  One bad device name refuses the whole set. *)
Buildable(allowances) ==
  /\ allowances # {}
  /\ \A a \in allowances :
       a.phase = "connected" => a.endpoint.dev \in ValidDevice

RulesetForgetsPhase(allowances) ==    \* mutant: DNS stays open once connected
  LET joined == {a \in allowances : a.phase = "connected"}
      joining == allowances \ joined
  IN [up    |-> TRUE,
      dns   |-> TRUE,
      devs  |-> {a.endpoint.dev : a \in joined},
      hosts |-> UNION {a.ips : a \in joining},
      peers |-> {Peer(a.endpoint) : a \in joined}]

Ruleset(allowances) ==
  LET joined == {a \in allowances : a.phase = "connected"}
      joining == allowances \ joined
  IN [up    |-> TRUE,
      dns   |-> joining # {},
      devs  |-> {a.endpoint.dev : a \in joined},
      hosts |-> UNION {a.ips : a \in joining},
      peers |-> {Peer(a.endpoint) : a \in joined}]

-----------------------------------------------------------------------------
(* Packets, and the verdict of the installed chains.                       *)

Packet == [chain : {"output", "forward"}, oif : Device \cup {Loopback, Uplink},
           dst : Address, svc : Service, established : BOOLEAN]

(* Accepted by every rule set, whatever the allowances. *)
Baseline(p) ==
  \/ p.chain = "output" /\ (p.oif = Loopback \/ p.svc = Dhcp)
  \/ p.chain = "forward" /\ p.established

Accepts(table, p) ==
  \/ ~table.up
  \/ Baseline(p)
  \/ p.oif \in table.devs
  \/ /\ p.chain = "output"
     /\ \/ table.dns /\ p.svc = Dns
        \/ p.dst \in table.hosts
        \/ [ip |-> p.dst, svc |-> p.svc] \in table.peers

(* What one allowance is meant to open: DNS and the candidate servers while *)
(* connecting, then the tunnel device and the one server endpoint.          *)
Grants(a, p) ==
  \/ /\ a.phase = "connecting"
     /\ p.chain = "output"
     /\ p.svc = Dns \/ p.dst \in a.ips
  \/ /\ a.phase = "connected"
     /\ \/ p.oif = a.endpoint.dev
        \/ p.chain = "output" /\ [ip |-> p.dst, svc |-> p.svc] = Peer(a.endpoint)

(* A packet of OpenVPN itself to the server of endpoint e. *)
Handshake(e) == [chain |-> "output", oif |-> Uplink, dst |-> e.ip,
                 svc |-> e.svc, established |-> FALSE]
=============================================================================
