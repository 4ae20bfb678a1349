--------------------------- MODULE MCTunnelDns ----------------------------
(* Finite instances of the tunnel's DNS for TLC. *)
EXTENDS TunnelDns

CONSTANTS s1, s2, corp

LOCAL Dns(a) == [kind |-> "DNS", arg |-> a]
LOCAL Suffix == [kind |-> "DOMAIN", arg |-> corp]
LOCAL Ignored == [kind |-> "ignored"]

(* Two servers and a domain, a server pushed twice, and no DNS at all. *)
MCSession ==
  {[options |-> o, family |-> "inet"] :
     o \in {<<Dns(s1), Dns(s2), Suffix>>, <<Dns(s2), Ignored, Dns(s2)>>, <<Ignored>>}}

MCInet6Session == {[options |-> <<Dns(s1)>>, family |-> "inet6"]}
=============================================================================
