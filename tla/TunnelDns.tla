---------------------------- MODULE TunnelDns -----------------------------
(***************************************************************************)
(* From what the server pushes to what systemd-resolved holds: OpenVPN      *)
(* brings a tunnel up and runs the up helper, which writes the device, the  *)
(* server's endpoint and the pushed options to a file, and again when the   *)
(* tunnel goes down; at every CONNECTED the relay reads the file, looks the  *)
(* device up, configures its link with three calls, and locks the           *)
(* kill-switch to the endpoint; at the end it reverts the link.  OpenVPN    *)
(* and the relay are two processes: each step of the relay may find that    *)
(* the tunnel was restarted since the last.                                 *)
(* Whether nft accepts the lock is VpnDaemon's matter.                      *)
(***************************************************************************)
EXTENDS Naturals, Sequences, SequencesExt

CONSTANTS
  Session,      \* what a server may push, and how it is reached (see Push)
  DnsServer,    \* the addresses of name servers
  Domain,       \* search domains
  Persistent,   \* whether the device exists before and after OpenVPN: values tried
  FailingCalls, \* calls that systemd-resolved may refuse
  MaxLinks,     \* bound on the devices OpenVPN creates
  MaxLines      \* bound on unread CONNECTED lines

(* A pushed option, as the helper sees it: `dhcp-option DNS a`, `dhcp-option  *)
(* DOMAIN d`, or anything parse_foreign_options ignores.                     *)
Option == [kind : {"DNS"}, arg : DnsServer] \cup [kind : {"DOMAIN"}, arg : Domain]
            \cup [kind : {"ignored"}]

(* A session: the options in push order and the family of the server's        *)
(* address, on which OpenVPN sets trusted_ip or trusted_ip6.                 *)
Push == [options : Seq(Option), family : {"inet", "inet6"}]

Calls == {"SetLinkDNS", "SetLinkDomains", "SetLinkDefaultRoute"}
Revert == "RevertLink"

ASSUME TunnelDnsAssumption ==
  /\ Session # {} /\ Session \subseteq Push
  /\ Persistent # {} /\ Persistent \subseteq BOOLEAN
  /\ FailingCalls \subseteq Calls \cup {Revert}
  /\ MaxLinks \in Nat \ {0}
  /\ MaxLines \in Nat \ {0}

VARIABLES
  persistent, \* the device outlives OpenVPN
  killswitch, \* the connection was started with the kill-switch
  phase,      \* OpenVPN: "down", "helping" (in the up helper), "up", "closing" (in
              \* the down helper), "dead"
  session,    \* the session OpenVPN is in
  link,       \* index of the tunnel device, or 0
  links,      \* number of devices there have been
  tmp,        \* the helper's temporary file
  envFile,    \* the environment file
  unread,     \* CONNECTED lines the relay has not read
  relay,      \* the relay: where it is, and its local variables
  dnsIfindex, \* its dns_ifindex, 0 for None
  sigterm,    \* it has told OpenVPN to exit
  resolved,   \* link index -> what systemd-resolved holds for it
  outcome     \* history: what became of the DNS of the last CONNECTED

vars == <<persistent, killswitch, phase, session, link, links, tmp, envFile, unread, relay,
          dnsIfindex, sigterm, resolved, outcome>>
openvpnVars == <<persistent, killswitch, phase, session, link, links, tmp, envFile>>

Unset == [servers |-> <<>>, domains |-> <<>>, route |-> FALSE]

(* A file of the helper: of which session, and how many lines of it: one that  *)
(* stands for script_type to proto, and one per option.                      *)
NoFile == [lines |-> 0]
File(s, n) == [of |-> s, lines |-> n]
AllLines(s) == 1 + Len(s.options)

Waiting == [at |-> "waiting"]

TypeOK ==
  /\ persistent \in Persistent /\ killswitch \in BOOLEAN
  /\ phase \in {"down", "helping", "up", "closing", "dead"}
  /\ session \in Session
  /\ link \in 0..links /\ links \in 0..MaxLinks
  /\ \A f \in {tmp, envFile} :
       f = NoFile \/ (f.of \in Session /\ f.lines \in 0..AllLines(f.of))
  /\ unread \in 0..MaxLines
  /\ relay.at \in {"waiting", "parsing", "locking", "done"} \cup Calls
  /\ dnsIfindex \in 0..links
  /\ sigterm \in BOOLEAN
  /\ outcome \in {"nothing", "applied", "failed"}
  /\ \A l \in 1..MaxLinks :
       /\ resolved[l] \in [servers : Seq(DnsServer), domains : Seq(Domain), route : BOOLEAN]
       /\ l > links => resolved[l] = Unset

Init ==
  /\ persistent \in Persistent
  /\ killswitch \in BOOLEAN
  /\ phase = "down"
  /\ session \in Session
  /\ links = IF persistent THEN 1 ELSE 0
  /\ link = links
  /\ tmp = NoFile /\ envFile = NoFile
  /\ unread = 0
  /\ relay = Waiting
  /\ dnsIfindex = 0
  /\ sigterm = FALSE
  /\ outcome = "nothing"
  /\ resolved = [l \in 1..MaxLinks |-> Unset]

-----------------------------------------------------------------------------
(* OpenVPN and its helper.                                                  *)

(* The device goes, and systemd-resolved forgets its link, unless the device  *)
(* was there before OpenVPN.                                                 *)
DropsDevice ==
  IF persistent \/ link = 0
  THEN UNCHANGED <<link, resolved>>
  ELSE /\ link' = 0
       /\ resolved' = [resolved EXCEPT ![link] = Unset]

(* The tunnel comes up on a session the server pushes, and the helper starts. *)
TunnelUp ==
  /\ phase = "down"
  /\ persistent \/ links < MaxLinks
  /\ phase' = "helping"
  /\ session' \in Session
  /\ links' = IF persistent THEN links ELSE links + 1
  /\ link' = links'
  /\ tmp' = File(session', 0)
  /\ UNCHANGED <<persistent, killswitch, envFile, unread, relay, dnsIfindex, sigterm, resolved, outcome>>

Helping == phase \in {"helping", "closing"}

(* A mutant of HelperWrites: the file is written in place.                   *)
WritesInPlace ==
  /\ Helping /\ tmp.lines < AllLines(tmp.of)
  /\ tmp' = File(tmp.of, tmp.lines + 1)
  /\ envFile' = tmp'
  /\ UNCHANGED <<persistent, killswitch, phase, session, link, links, unread, relay, dnsIfindex,
                 sigterm, resolved, outcome>>

(* The helper writes the next line of its temporary file.                    *)
HelperWrites ==
  /\ Helping /\ tmp.lines < AllLines(tmp.of)
  /\ tmp' = File(tmp.of, tmp.lines + 1)
  /\ UNCHANGED <<persistent, killswitch, phase, session, link, links, envFile, unread, relay,
                 dnsIfindex, sigterm, resolved, outcome>>

(* `mv -f` puts it in place.  After the up helper OpenVPN goes on and reports *)
(* CONNECTED; after the down helper it may connect again or exit.            *)
MovesFile ==
  /\ tmp.lines = AllLines(tmp.of)
  /\ envFile' = tmp
  /\ tmp' = NoFile

HelperEnds ==
  /\ phase = "helping" /\ unread < MaxLines
  /\ MovesFile
  /\ phase' = "up"
  /\ unread' = unread + 1
  /\ UNCHANGED <<persistent, killswitch, session, link, links, relay, dnsIfindex, sigterm, resolved, outcome>>

DownHelperEnds ==
  /\ phase = "closing"
  /\ MovesFile
  /\ phase' = "down"
  /\ UNCHANGED <<persistent, killswitch, session, link, links, unread, relay, dnsIfindex, sigterm,
                 resolved, outcome>>

(* A reconnection, or an orderly exit: the device is closed and the helper runs  *)
(* with what it was told before; or with `persist-tun` and the same options     *)
(* everything stays, the helper's file too.                                   *)
Restarts ==
  /\ phase = "up"
  /\ phase' = "closing"
  /\ DropsDevice
  /\ tmp' = File(session, 0)
  /\ UNCHANGED <<persistent, killswitch, session, links, envFile, unread, relay, dnsIfindex,
                 sigterm, outcome>>

KeepsTunnel ==
  /\ phase = "up"
  /\ unread < MaxLines
  /\ unread' = unread + 1
  /\ UNCHANGED <<openvpnVars, relay, dnsIfindex, sigterm, resolved, outcome>>

Exits ==
  /\ phase # "dead"
  /\ phase' = "dead"
  /\ DropsDevice
  /\ UNCHANGED <<persistent, killswitch, session, links, tmp, envFile, unread, relay, dnsIfindex,
                 sigterm, outcome>>

-----------------------------------------------------------------------------
(* What the relay makes of the file.                                        *)

(* The map read_env_map makes of the file: no device or endpoint in an empty   *)
(* or missing file, otherwise the values of its session.  A variable OpenVPN  *)
(* did not set is there with an empty value.                                 *)
Environment(file) ==
  IF file.lines = 0
  THEN [dev |-> "unset", trusted_ip |-> "unset", trusted_ip6 |-> "unset", options |-> <<>>]
  ELSE [dev |-> "set",
        trusted_ip |-> IF file.of.family = "inet" THEN "set" ELSE "empty",
        trusted_ip6 |-> IF file.of.family = "inet6" THEN "set" ELSE "empty",
        options |-> SubSeq(file.of.options, 1, file.lines - 1)]

AppendNew(s, e) == IF e \in ToSet(s) THEN s ELSE Append(s, e)

(* A mutant of ParseForeignOptions: the two kinds are mixed up.               *)
SwapsKinds(options) ==
  FoldLeft(LAMBDA settings, o :
             CASE o.kind = "DOMAIN" -> [settings EXCEPT !.servers = AppendNew(@, o.arg)]
               [] o.kind = "DNS" -> [settings EXCEPT !.domains = AppendNew(@, o.arg)]
               [] OTHER -> settings,
           [servers |-> <<>>, domains |-> <<>>], options)

(* parse_foreign_options: each server and each domain once, in order.         *)
NoSettings == [servers |-> <<>>, domains |-> <<>>]
AddOption(settings, o) ==
  CASE o.kind = "DNS" -> [settings EXCEPT !.servers = AppendNew(@, o.arg)]
    [] o.kind = "DOMAIN" -> [settings EXCEPT !.domains = AppendNew(@, o.arg)]
    [] OTHER -> settings
ParseForeignOptions(options) == FoldLeft(AddOption, NoSettings, options)

(* The options are taken out of a hash map: any order.                       *)
Orders(options) ==
  {[i \in DOMAIN options |-> options[order[i]]] : order \in SetToSeqs(DOMAIN options)}

(* endpoint_from_env: the address is trusted_ip if that is in the map at all,   *)
(* otherwise trusted_ip6; it must parse.                                     *)
HasEndpoint(env) ==
  /\ env.dev = "set"
  /\ IF env.trusted_ip # "unset" THEN env.trusted_ip = "set" ELSE env.trusted_ip6 = "set"

-----------------------------------------------------------------------------
(* The relay.                                                               *)

(* A mutant of ReadsEnvironment: the file is read once, at the first          *)
(* CONNECTED.                                                                *)
ReadsOnce ==
  /\ relay.at = "waiting" /\ unread > 0
  /\ unread' = unread - 1
  /\ relay' = IF dnsIfindex = 0
              THEN [at |-> "parsing", env |-> Environment(envFile), file |-> envFile]
              ELSE relay
  /\ UNCHANGED <<openvpnVars, dnsIfindex, sigterm, resolved, outcome>>

(* A CONNECTED line: the file is read as it is now.                          *)
ReadsEnvironment ==
  /\ relay.at = "waiting" /\ unread > 0
  /\ unread' = unread - 1
  /\ relay' = [at |-> "parsing", env |-> Environment(envFile), file |-> envFile]
  /\ UNCHANGED <<openvpnVars, dnsIfindex, sigterm, resolved, outcome>>

(* DNS was expected and could not be applied: with the kill-switch OpenVPN is  *)
(* told to exit.  The lock is tried all the same.                            *)
DnsFails ==
  /\ sigterm' = (sigterm \/ killswitch)
  /\ relay' = [relay EXCEPT !.at = "locking"]
  /\ outcome' = "failed"

(* The options are parsed and the device's index is looked up by its name,     *)
(* which is that of the tunnel there is now.                                 *)
FindsLink ==
  /\ relay.at = "parsing"
  /\ \E options \in Orders(relay.env.options) :
       LET settings == ParseForeignOptions(options) IN
       IF relay.env.dev # "set" \/ (settings.servers = <<>> /\ settings.domains = <<>>)
       THEN /\ relay' = [relay EXCEPT !.at = "locking"]
            /\ outcome' = "nothing"
            /\ UNCHANGED sigterm
       ELSE IF link = 0
            THEN DnsFails
            ELSE /\ relay' = [at |-> "SetLinkDNS", env |-> relay.env, file |-> relay.file,
                              settings |-> settings, ifindex |-> link]
                 /\ UNCHANGED <<sigterm, outcome>>
  /\ UNCHANGED <<openvpnVars, unread, dnsIfindex, resolved>>

(* One call for the link.  It fails if the link is gone, or systemd-resolved   *)
(* refuses; what was set before stays set.                                   *)
CallsResolved(call, next, remembered, settings) ==
  /\ relay.at = call
  /\ \/ /\ relay.ifindex = link
        /\ resolved' = [resolved EXCEPT ![link] = settings]
        /\ relay' = [relay EXCEPT !.at = next]
        /\ dnsIfindex' = remembered
        /\ outcome' = IF next = "locking" THEN "applied" ELSE outcome
        /\ UNCHANGED sigterm
     \/ /\ relay.ifindex # link \/ call \in FailingCalls
        /\ DnsFails
        /\ UNCHANGED <<resolved, dnsIfindex>>
  /\ UNCHANGED <<openvpnVars, unread>>

SetsServers ==
  CallsResolved("SetLinkDNS", "SetLinkDomains", dnsIfindex,
                [resolved[relay.ifindex] EXCEPT !.servers = relay.settings.servers])

SetsDomains ==
  CallsResolved("SetLinkDomains", "SetLinkDefaultRoute", dnsIfindex,
                [resolved[relay.ifindex] EXCEPT !.domains = relay.settings.domains])

(* A mutant of SetsDefaultRoute: the link is not remembered for the end.       *)
ForgetsLink ==
  CallsResolved("SetLinkDefaultRoute", "locking", dnsIfindex,
                [resolved[relay.ifindex] EXCEPT !.route = TRUE])

(* All is set: the link is remembered for the end.                           *)
SetsDefaultRoute ==
  CallsResolved("SetLinkDefaultRoute", "locking", relay.ifindex,
                [resolved[relay.ifindex] EXCEPT !.route = TRUE])

(* The kill-switch is locked to the file's endpoint; without one, OpenVPN is   *)
(* told to exit.                                                             *)
LocksTunnel ==
  /\ relay.at = "locking"
  /\ relay' = Waiting
  /\ sigterm' = (sigterm \/ (killswitch /\ ~HasEndpoint(relay.env)))
  /\ UNCHANGED <<openvpnVars, unread, dnsIfindex, resolved, outcome>>

(* The end of the relay: the link last configured, if any, is reverted, or     *)
(* systemd-resolved refuses that, which is only logged.  A link that is gone    *)
(* holds nothing anyway.                                                     *)
Ends(refused) ==
  /\ relay.at = "waiting"
  /\ relay' = [at |-> "done", refused |-> refused]
  /\ resolved' = IF dnsIfindex = 0 \/ refused THEN resolved ELSE [resolved EXCEPT ![dnsIfindex] = Unset]
  /\ UNCHANGED <<openvpnVars, unread, dnsIfindex, sigterm, outcome>>

Refusals == IF Revert \in FailingCalls /\ dnsIfindex # 0 THEN BOOLEAN ELSE {FALSE}

(* It ends with the stream, ...                                               *)
Reverts ==
  /\ phase = "dead" /\ unread = 0
  /\ \E refused \in Refusals : Ends(refused)

(* ... or at a failing read, whether OpenVPN is alive or not and whatever it has *)
(* sent.                                                                     *)
ReadFails == \E refused \in Refusals : Ends(refused)

-----------------------------------------------------------------------------
OpenVpn ==
  TunnelUp \/ HelperWrites \/ HelperEnds \/ DownHelperEnds \/ Restarts \/ KeepsTunnel \/ Exits

Relay ==
  \/ ReadsEnvironment \/ FindsLink
  \/ SetsServers \/ SetsDomains \/ SetsDefaultRoute
  \/ LocksTunnel \/ Reverts \/ ReadFails

Next == OpenVpn \/ Relay

Spec == Init /\ [][Next]_vars

-----------------------------------------------------------------------------
(* Properties.                                                              *)

(* The relay never acts on a file the helper was still writing, however the    *)
(* two interleave: its device, endpoint and options are those of one session. *)
ReadsWholeFile ==
  relay.at \notin {"waiting", "done"} /\ relay.file # NoFile
    => relay.file.lines = AllLines(relay.file.of)

(* Once the relay has caught up with OpenVPN and its last attempt succeeded,    *)
(* the tunnel's link holds exactly what the current session pushed, whatever  *)
(* restarts there were while it configured earlier sessions.                 *)
DnsSettles ==
  relay.at = "waiting" /\ unread = 0 /\ phase = "up" /\ outcome = "applied"
    => /\ ToSet(resolved[link].servers) = ToSet(ParseForeignOptions(session.options).servers)
       /\ ToSet(resolved[link].domains) = ToSet(ParseForeignOptions(session.options).domains)
       /\ resolved[link].route

(* Nothing of the connection's DNS is left on any link after the relay's end,   *)
(* whatever restarts there were, and though OpenVPN may live on: unless         *)
(* systemd-resolved refused to revert the link, and then only on that one, and  *)
(* not after OpenVPN's end if the device ends with it.  (As long as no call      *)
(* fails after the first: a link configured in part is not remembered.)        *)
NothingLeft == relay.at = "done" =>
  \A l \in 1..MaxLinks : resolved[l] # Unset =>
    l = dnsIfindex /\ relay.refused /\ (persistent \/ phase # "dead")

(* "The actual server endpoint OpenVPN connected to (for the kill-switch      *)
(* rule)": whatever the family of its address, the helper's file tells it.     *)
EndpointKnown == relay.at = "locking" /\ relay.file # NoFile => HasEndpoint(relay.env)
=============================================================================
