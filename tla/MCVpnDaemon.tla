--------------------------- MODULE MCVpnDaemon ----------------------------
(* Finite instances of the daemon's connections for TLC. *)
EXTENDS VpnDaemon, TLC

CONSTANTS c1, c2, d1, d2, a1, a2, vpn

(* One device and one server per connection. *)
MCPairedServer == {[dev |-> d1, ip |-> a1, svc |-> vpn],
                   [dev |-> d2, ip |-> a2, svc |-> vpn]}

MCAllRemotes == {{a1, a2}}
MCSomeRemotes == {{}, {a1, a2}}

(* The connections are interchangeable, and so are the pairs of a device and   *)
(* its server's address.                                                     *)
MCPairs == {d1 :> d1 @@ d2 :> d2 @@ a1 :> a1 @@ a2 :> a2,
            d1 :> d2 @@ d2 :> d1 @@ a1 :> a2 @@ a2 :> a1}
MCSymmetry == {p @@ q : p \in Permutations(ConnId), q \in MCPairs}
=============================================================================
