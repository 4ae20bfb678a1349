---------------------- MODULE KillSwitchRules_proofs ----------------------
(* Proofs about the rule set, for every set of devices, addresses, services. *)
EXTENDS KillSwitchRules, TLAPS

(* A rule set lives in the table's type: only validated device names, no      *)
(* others, ever reach nft.                                                   *)
LEMMA RulesetType ==
  ASSUME NEW A \in SUBSET Allowance, Buildable(A)
  PROVE  Ruleset(A) \in Table
<1> DEFINE joined == {a \in A : a.phase = "connected"}
           joining == A \ joined
<1>1. \A a \in joined : a.endpoint \in Endpoint /\ a.endpoint.dev \in ValidDevice
  BY DEF Allowance, Connecting, Connected, Buildable
<1>2. \A a \in joining : a.ips \subseteq Address
  BY DEF Allowance, Connecting, Connected
<1>3. {a.endpoint.dev : a \in joined} \in SUBSET ValidDevice
  BY <1>1
<1>4. UNION {a.ips : a \in joining} \in SUBSET Address
  BY <1>2
<1>5. {Peer(a.endpoint) : a \in joined} \in SUBSET [ip : Address, svc : Service]
  BY <1>1 DEF Peer, Endpoint
<1>6. (joining # {}) \in BOOLEAN
  OBVIOUS
<1> QED
  BY <1>3, <1>4, <1>5, <1>6 DEF Ruleset, Table

(* The rule set of a collection of allowances lets a packet out exactly when  *)
(* it is a baseline packet or one of the allowances grants it: nothing is     *)
(* lost by taking the union, and nothing is opened by the combination of two  *)
(* allowances that neither of them grants.                                   *)
THEOREM RulesetIsUnion ==
  ASSUME NEW A \in SUBSET Allowance, Buildable(A), NEW p \in Packet
  PROVE  Accepts(Ruleset(A), p) <=> Baseline(p) \/ \E a \in A : Grants(a, p)
<1> DEFINE joined == {a \in A : a.phase = "connected"}
           joining == A \ joined
           R == Ruleset(A)
<1>1. \A a \in joined : a.phase = "connected" /\ a.endpoint \in Endpoint
  BY DEF Allowance, Connecting, Connected
<1>2. \A a \in joining : a.phase = "connecting"
  BY DEF Allowance, Connecting, Connected
<1>3. /\ R.up
      /\ R.dns <=> joining # {}
      /\ R.devs = {a.endpoint.dev : a \in joined}
      /\ R.hosts = UNION {a.ips : a \in joining}
      /\ R.peers = {Peer(a.endpoint) : a \in joined}
  BY DEF Ruleset
<1>4. p.oif \in R.devs <=> \E a \in joined : p.oif = a.endpoint.dev
  BY <1>3
<1>5. p.dst \in R.hosts <=> \E a \in joining : p.dst \in a.ips
  BY <1>3
<1>6. [ip |-> p.dst, svc |-> p.svc] \in R.peers
        <=> \E a \in joined : [ip |-> p.dst, svc |-> p.svc] = Peer(a.endpoint)
  BY <1>3
<1>7. (\E a \in A : Grants(a, p))
        <=> (\E a \in joined : Grants(a, p)) \/ (\E a \in joining : Grants(a, p))
  OBVIOUS
<1>8. (\E a \in joined : Grants(a, p)) <=>
        \/ \E a \in joined : p.oif = a.endpoint.dev
        \/ p.chain = "output"
           /\ \E a \in joined : [ip |-> p.dst, svc |-> p.svc] = Peer(a.endpoint)
  BY <1>1 DEF Grants
<1>9. (\E a \in joining : Grants(a, p)) <=>
        p.chain = "output" /\ (\/ joining # {} /\ p.svc = Dns
                               \/ \E a \in joining : p.dst \in a.ips)
  BY <1>2 DEF Grants
<1> QED
  BY <1>3, <1>4, <1>5, <1>6, <1>7, <1>8, <1>9 DEF Accepts

(* Another connection's allowance never takes away what one's own grants.     *)
LEMMA RulesetCovers ==
  ASSUME NEW A \in SUBSET Allowance, Buildable(A), NEW a \in A
  PROVE  /\ Ruleset(A).up
         /\ \A p \in Packet : Grants(a, p) => Accepts(Ruleset(A), p)
BY RulesetIsUnion DEF Ruleset
=============================================================================
