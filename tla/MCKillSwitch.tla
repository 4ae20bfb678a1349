--------------------------- MODULE MCKillSwitch ---------------------------
(* Finite instances of the kill-switch manager for TLC. *)
EXTENDS KillSwitch, TLC

CONSTANTS c1, c2, d1, d2, bad, a1, a2, vpn

(* Two servers on two devices, and one device name no ruleset may contain. *)
MCServer == {[dev |-> d1, ip |-> a1, svc |-> vpn],
             [dev |-> bad, ip |-> a2, svc |-> vpn]}

MCRemoteSets == {{}, {a1}}

MCOneServer == {[dev |-> d1, ip |-> a1, svc |-> vpn]}

MCOneRemote == {{a1}}

MCSymmetry == Permutations(ConnId) \cup Permutations(Task)
=============================================================================
