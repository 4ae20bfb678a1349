------------------------ MODULE TunnelDns_proofs -------------------------
(* The relay never acts on half a file, it settles on the DNS of the current      *)
(* session, and nothing of a connection's DNS is left at its end, for any        *)
(* sessions, name servers, devices and unread lines.                           *)
EXTENDS TunnelDns, FoldLemmas, FiniteSetTheorems

Busy == {"parsing", "locking"} \cup Calls

(* Only the tunnel's device can have settings, and there is one unless OpenVPN   *)
(* has closed it; between two lines the relay has all it needs of its file.     *)
Shape ==
  /\ persistent \in BOOLEAN
  /\ links \in 0..MaxLinks /\ link \in 0..links
  /\ persistent => link = links
  /\ ~persistent /\ phase \in {"down", "closing", "dead"} => link = 0
  /\ resolved = [l \in 1..MaxLinks |-> resolved[l]]
  /\ relay.at \in {"waiting", "done"} \cup Busy
  /\ relay.at \in Busy => {"at", "env", "file"} \subseteq DOMAIN relay
  /\ relay.at \in Calls => "ifindex" \in DOMAIN relay /\ relay.ifindex \in 1..MaxLinks

Whole(file) == file # NoFile => file.lines = AllLines(file.of)

(* What is in place is whole, and so is what the relay has read.               *)
FilesInv == Whole(envFile) /\ (relay.at \in Busy => Whole(relay.file))

Between == {"SetLinkDomains", "SetLinkDefaultRoute"}

(* A link that has settings is the tunnel's, and the relay remembers it or is   *)
(* at work on it; after the end there is none unless it could not be reverted.   *)
OnlyTheirs ==
  /\ \A l \in 1..MaxLinks : resolved[l] # Unset =>
       /\ l = link
       /\ dnsIfindex = l \/ (relay.at \in Between /\ relay.ifindex = l)
  /\ relay.at = "done" => \A l \in 1..MaxLinks : resolved[l] # Unset => relay.refused

(* So it is as long as systemd-resolved refuses only the first of the three      *)
(* calls: a link that is configured in part is not remembered.                 *)
OnlyFirst == FailingCalls \subseteq {"SetLinkDNS", Revert}
LeftInv == OnlyFirst => OnlyTheirs

-----------------------------------------------------------------------------
LEMMA Initially == Init => Shape /\ FilesInv /\ LeftInv
<1> SUFFICES ASSUME Init PROVE Shape /\ FilesInv /\ LeftInv
  OBVIOUS
<1>1. 1 \in 1..MaxLinks /\ 0 \in 0..MaxLinks /\ 1 \in 0..MaxLinks /\ persistent \in BOOLEAN
  BY TunnelDnsAssumption DEF Init
<1>2. relay.at = "waiting"
  BY DEF Init, Waiting
<1>3. Shape
  BY <1>1, <1>2 DEF Init, Shape, Busy, Calls
<1>4. FilesInv
  BY <1>2 DEF Init, FilesInv, Whole, Busy, Calls
<1> QED
  BY <1>2, <1>3, <1>4 DEF Init, LeftInv, OnlyTheirs

(* OpenVPN's steps: settings go with their device.                            *)
LEMMA DropFacts ==
  ASSUME Shape, DropsDevice
  PROVE  /\ link' \in 0..links
         /\ persistent => link' = link
         /\ ~persistent => link' = 0
         /\ resolved' = [l \in 1..MaxLinks |-> resolved'[l]]
         /\ OnlyTheirs =>
              \A l \in 1..MaxLinks : resolved'[l] # Unset => resolved'[l] = resolved[l] /\ l = link'
<1>1. CASE persistent \/ link = 0
  BY <1>1 DEF DropsDevice, Shape, OnlyTheirs
<1>2. CASE ~(persistent \/ link = 0)
  <2>1. link' = 0 /\ resolved' = [resolved EXCEPT ![link] = Unset]
    BY <1>2 DEF DropsDevice
  <2>2. resolved = [l \in 1..MaxLinks |-> resolved[l]] /\ links \in Nat
    BY DEF Shape
  <2>3. resolved' = [l \in 1..MaxLinks |-> IF l = link THEN Unset ELSE resolved[l]]
    BY <2>1, <2>2
  <2>4. resolved' = [l \in 1..MaxLinks |-> resolved'[l]]
    BY <2>3
  <2>5. OnlyTheirs => \A l \in 1..MaxLinks : resolved'[l] = Unset
    BY <2>3 DEF OnlyTheirs
  <2> QED
    BY <1>2, <2>1, <2>2, <2>4, <2>5
<1> QED
  BY <1>1, <1>2

LEMMA OpenVpnSteps ==
  ASSUME Shape, FilesInv, LeftInv, OpenVpn
  PROVE  Shape' /\ FilesInv' /\ LeftInv'
<1> USE DEF openvpnVars
<1>1. UNCHANGED <<persistent, relay, dnsIfindex>>
  BY DEF OpenVpn, TunnelUp, HelperWrites, HelperEnds, DownHelperEnds, Restarts, KeepsTunnel, Exits
<1>2. FilesInv'
  <2>1. CASE HelperEnds \/ DownHelperEnds
    BY <1>1, <2>1 DEF HelperEnds, DownHelperEnds, MovesFile, FilesInv, Whole, AllLines
  <2>2. CASE envFile' = envFile
    BY <1>1, <2>2 DEF FilesInv, Whole, AllLines
  <2> QED
    BY <2>1, <2>2 DEF OpenVpn, TunnelUp, HelperWrites, Restarts, KeepsTunnel, Exits
<1>3. CASE TunnelUp
  <2>1. /\ phase = "down" /\ phase' = "helping" /\ link' = links' /\ resolved' = resolved
        /\ links' = IF persistent THEN links ELSE links + 1
        /\ persistent \/ links < MaxLinks
    BY <1>3 DEF TunnelUp
  <2>2. links' \in 0..MaxLinks
    BY <2>1, TunnelDnsAssumption DEF Shape
  <2>3. Shape'
    BY <1>1, <2>1, <2>2 DEF Shape
  <2>4. OnlyTheirs => \A l \in 1..MaxLinks : resolved[l] # Unset => l = link'
    BY <2>1 DEF Shape, OnlyTheirs
  <2> QED
    BY <1>1, <1>2, <2>1, <2>3, <2>4 DEF LeftInv, OnlyTheirs
<1>4. CASE HelperWrites \/ HelperEnds \/ DownHelperEnds \/ KeepsTunnel
  <2>1. /\ UNCHANGED <<link, links, resolved>>
        /\ phase' = phase \/ phase' = "up" \/ (phase' = "down" /\ phase = "closing")
    BY <1>4 DEF HelperWrites, HelperEnds, DownHelperEnds, KeepsTunnel
  <2> QED
    BY <1>1, <1>2, <2>1 DEF Shape, LeftInv, OnlyTheirs
<1>5. CASE Restarts \/ Exits
  <2>1. /\ DropsDevice /\ links' = links
        /\ phase' \in {"closing", "dead"}
    BY <1>5 DEF Restarts, Exits
  <2>2. /\ link' \in 0..links
        /\ persistent => link' = link
        /\ ~persistent => link' = 0
        /\ resolved' = [l \in 1..MaxLinks |-> resolved'[l]]
        /\ OnlyTheirs =>
             \A l \in 1..MaxLinks : resolved'[l] # Unset => resolved'[l] = resolved[l] /\ l = link'
    BY <2>1, DropFacts
  <2>3. Shape'
    BY <1>1, <2>1, <2>2 DEF Shape
  <2>4. LeftInv'
    BY <1>1, <2>1, <2>2 DEF LeftInv, OnlyTheirs
  <2> QED
    BY <1>2, <2>3, <2>4
<1> QED
  BY <1>3, <1>4, <1>5 DEF OpenVpn

-----------------------------------------------------------------------------
(* A call to systemd-resolved, whichever of the three: either it succeeds for    *)
(* the tunnel's link, or the relay gives up and nothing changes.                *)
LEMMA CallSteps ==
  ASSUME Shape, FilesInv, LeftInv,
         NEW call \in Calls, NEW next \in {"locking"} \cup Between, NEW remembered, NEW settings,
         CallsResolved(call, next, remembered, settings),
         next = "locking" => remembered = relay.ifindex,
         next # "locking" => remembered = dnsIfindex
  PROVE  Shape' /\ FilesInv' /\ LeftInv'
<1>1. /\ relay.at = call /\ {"at", "env", "file", "ifindex"} \subseteq DOMAIN relay
      /\ relay.ifindex \in 1..MaxLinks /\ call \in Busy
      /\ UNCHANGED <<persistent, phase, link, links, envFile>>
  BY DEF CallsResolved, Shape, Busy, openvpnVars
<1>2. ASSUME NEW step, relay' = [relay EXCEPT !.at = step]
      PROVE  /\ relay'.at = step /\ DOMAIN relay' = DOMAIN relay
             /\ relay'.file = relay.file /\ relay'.ifindex = relay.ifindex
  BY <1>1, <1>2
<1>3. CASE /\ relay.ifindex = link
           /\ resolved' = [resolved EXCEPT ![link] = settings]
           /\ relay' = [relay EXCEPT !.at = next]
           /\ dnsIfindex' = remembered
  <2>1. /\ relay'.at = next /\ DOMAIN relay' = DOMAIN relay
        /\ relay'.file = relay.file /\ relay'.ifindex = relay.ifindex
    BY <1>2, <1>3
  <2>2. next \in Busy /\ next # "done"
    BY DEF Busy, Between, Calls
  <2>3. resolved' = [l \in 1..MaxLinks |-> resolved'[l]]
    BY <1>3 DEF Shape
  <2>4. Shape'
    BY <1>1, <2>1, <2>2, <2>3 DEF Shape
  <2>5. FilesInv'
    BY <1>1, <2>1, <2>2 DEF FilesInv, Whole, AllLines
  <2>6. ASSUME NEW l \in 1..MaxLinks, resolved'[l] # Unset, OnlyTheirs
        PROVE  l = link /\ (dnsIfindex' = l \/ (next \in Between /\ relay.ifindex = l))
    <3>1. CASE l = link
      BY <1>3, <3>1
    <3>2. CASE l # link
      BY <1>3, <2>6, <3>2 DEF Shape, LeftInv, OnlyTheirs
    <3> QED
      BY <3>1, <3>2
  <2>7. LeftInv'
    BY <1>1, <2>1, <2>2, <2>6 DEF LeftInv, OnlyTheirs
  <2> QED
    BY <2>4, <2>5, <2>7
<1>4. CASE /\ relay.ifindex # link \/ call \in FailingCalls
           /\ DnsFails
           /\ UNCHANGED <<resolved, dnsIfindex>>
  <2>1. /\ relay'.at = "locking" /\ DOMAIN relay' = DOMAIN relay /\ relay'.file = relay.file
    BY <1>2, <1>4 DEF DnsFails
  <2>2. Shape'
    BY <1>1, <1>4, <2>1 DEF Shape, Busy, Calls
  <2>3. FilesInv'
    BY <1>1, <2>1 DEF FilesInv, Whole, AllLines, Busy
  <2>4. LeftInv /\ OnlyFirst
          => \A l \in 1..MaxLinks : resolved[l] # Unset => dnsIfindex = l
    BY <1>1, <1>4 DEF LeftInv, OnlyFirst, OnlyTheirs, Between, Calls, Revert
  <2>5. LeftInv'
    BY <1>1, <1>4, <2>1, <2>4 DEF LeftInv, OnlyTheirs
  <2> QED
    BY <2>2, <2>3, <2>5
<1> QED
  BY <1>3, <1>4 DEF CallsResolved

LEMMA RelaySteps ==
  ASSUME Shape, FilesInv, LeftInv, Relay
  PROVE  Shape' /\ FilesInv' /\ LeftInv'
<1> USE DEF openvpnVars
<1>1. CASE ReadsEnvironment
  <2>1. /\ relay.at = "waiting" /\ relay'.at = "parsing" /\ relay'.file = envFile
        /\ {"at", "env", "file"} \subseteq DOMAIN relay'
        /\ UNCHANGED <<persistent, phase, link, links, envFile, dnsIfindex, resolved>>
    BY <1>1 DEF ReadsEnvironment
  <2> QED
    BY <2>1 DEF Shape, FilesInv, Whole, AllLines, LeftInv, OnlyTheirs, Busy, Calls, Between
<1>2. CASE FindsLink
  <2>1. /\ relay.at = "parsing"
        /\ UNCHANGED <<persistent, phase, link, links, envFile, dnsIfindex, resolved>>
    BY <1>2 DEF FindsLink
  <2>2. \/ relay' = [relay EXCEPT !.at = "locking"]
        \/ /\ link # 0
           /\ \E settings : relay' = [at |-> "SetLinkDNS", env |-> relay.env, file |-> relay.file,
                                      settings |-> settings, ifindex |-> link]
    BY <1>2 DEF FindsLink, DnsFails
  <2>3. {"at", "env", "file"} \subseteq DOMAIN relay
    BY <2>1 DEF Shape, Busy
  <2>4. /\ relay'.file = relay.file /\ {"at", "env", "file"} \subseteq DOMAIN relay'
        /\ \/ relay'.at = "locking"
           \/ /\ relay'.at = "SetLinkDNS" /\ relay'.ifindex = link /\ link # 0
              /\ "ifindex" \in DOMAIN relay'
    BY <2>2, <2>3
  <2>5. link # 0 => link \in 1..MaxLinks
    BY TunnelDnsAssumption DEF Shape
  <2> QED
    BY <2>1, <2>4, <2>5 DEF Shape, FilesInv, Whole, AllLines, LeftInv, OnlyTheirs, Busy, Calls, Between
<1>3. CASE SetsServers
  BY <1>3, CallSteps DEF SetsServers, Calls, Between
<1>4. CASE SetsDomains
  BY <1>4, CallSteps DEF SetsDomains, Calls, Between
<1>5. CASE SetsDefaultRoute
  BY <1>5, CallSteps DEF SetsDefaultRoute, Calls
<1>6. CASE LocksTunnel
  <2>1. /\ relay.at = "locking" /\ relay'.at = "waiting"
        /\ UNCHANGED <<persistent, phase, link, links, envFile, dnsIfindex, resolved>>
    BY <1>6 DEF LocksTunnel, Waiting
  <2> QED
    BY <2>1 DEF Shape, FilesInv, Whole, AllLines, LeftInv, OnlyTheirs, Busy, Calls, Between
<1>7. CASE Reverts \/ ReadFails
  <2>1. PICK refused \in BOOLEAN :
          /\ relay.at = "waiting" /\ relay' = [at |-> "done", refused |-> refused]
          /\ resolved' = IF dnsIfindex = 0 \/ refused THEN resolved
                         ELSE [resolved EXCEPT ![dnsIfindex] = Unset]
          /\ UNCHANGED <<persistent, phase, link, links, envFile, dnsIfindex>>
    BY <1>7 DEF Reverts, ReadFails, Ends, Refusals
  <2>2. relay'.at = "done" /\ relay'.refused = refused
    BY <2>1
  <2>3. OnlyTheirs => \A l \in 1..MaxLinks : resolved'[l] # Unset =>
          l = link /\ dnsIfindex = l /\ refused
    BY <2>1 DEF Shape, OnlyTheirs, Between
  <2>4. resolved' = [l \in 1..MaxLinks |-> resolved'[l]]
    BY <2>1 DEF Shape
  <2>5. Shape'
    BY <2>1, <2>2, <2>4 DEF Shape, Busy, Calls
  <2>6. FilesInv'
    BY <2>1, <2>2 DEF FilesInv, Whole, AllLines, Busy, Calls
  <2>7. LeftInv'
    BY <2>1, <2>2, <2>3 DEF LeftInv, OnlyTheirs
  <2> QED
    BY <2>5, <2>6, <2>7
<1> QED
  BY <1>1, <1>2, <1>3, <1>4, <1>5, <1>6, <1>7 DEF Relay

LEMMA Steps ==
  ASSUME Shape, FilesInv, LeftInv, [Next]_vars
  PROVE  Shape' /\ FilesInv' /\ LeftInv'
<1>1. CASE UNCHANGED vars
  BY <1>1 DEF vars, Shape, FilesInv, Whole, AllLines, LeftInv, OnlyTheirs
<1> QED
  BY <1>1, OpenVpnSteps, RelaySteps DEF Next

-----------------------------------------------------------------------------
Inv == Shape /\ FilesInv /\ LeftInv

LEMMA Invariant == Spec => []Inv
<1>1. Init => Inv
  BY Initially DEF Inv
<1>2. Inv /\ [Next]_vars => Inv'
  BY Steps DEF Inv
<1> QED
  BY <1>1, <1>2, PTL DEF Spec

(* The file the relay acts on at a CONNECTED is never one the up helper was      *)
(* still writing, and never of two sessions, whatever restarts in between.     *)
THEOREM FilesAreRead == Spec => []ReadsWholeFile
<1>1. Inv => ReadsWholeFile
  BY DEF Inv, Shape, FilesInv, Whole, ReadsWholeFile
<1> QED
  BY <1>1, Invariant, PTL

(* Nothing of a connection's DNS is left on any link when its relay has ended,   *)
(* with OpenVPN or at a failing read, unless systemd-resolved refused to revert    *)
(* that link; if of the other calls it refuses only the first: a link that is     *)
(* configured in part is not remembered.                                      *)
THEOREM DnsIsReverted ==
  ASSUME FailingCalls \subseteq {"SetLinkDNS", Revert}
  PROVE  Spec => []NothingLeft
<1>1. Inv => NothingLeft
  <2> SUFFICES ASSUME Inv, relay.at = "done", NEW l \in 1..MaxLinks, resolved[l] # Unset
               PROVE  l = dnsIfindex /\ relay.refused /\ (persistent \/ phase # "dead")
    BY DEF NothingLeft
  <2>1. l = link /\ relay.refused /\ l = dnsIfindex
    BY DEF Inv, LeftInv, OnlyFirst, OnlyTheirs, Between
  <2>2. link # 0
    BY <2>1
  <2> QED
    BY <2>1, <2>2 DEF Inv, Shape
<1> QED
  BY <1>1, Invariant, PTL

-----------------------------------------------------------------------------
(* What the pushed options come to: a list of servers and one of domains.       *)
Settings == [servers : Seq(DnsServer), domains : Seq(Domain)]
(* An option adds to the settings, and leaves them settings.                    *)
LEMMA AddTypes == \A s \in Settings, o \in Option : AddOption(s, o) \in Settings
<1> SUFFICES ASSUME NEW s \in Settings, NEW o \in Option PROVE AddOption(s, o) \in Settings
  OBVIOUS
<1>1. \A a \in DnsServer : AppendNew(s.servers, a) \in Seq(DnsServer)
  BY AppendProperties DEF AppendNew, Settings
<1>2. \A a \in Domain : AppendNew(s.domains, a) \in Seq(Domain)
  BY AppendProperties DEF AppendNew, Settings
<1>3. CASE o.kind = "DNS"
  BY <1>1, <1>3 DEF AddOption, Settings, Option
<1>4. CASE o.kind = "DOMAIN"
  BY <1>2, <1>4 DEF AddOption, Settings, Option
<1>5. CASE o.kind \notin {"DNS", "DOMAIN"}
  BY <1>5 DEF AddOption
<1> QED
  BY <1>3, <1>4, <1>5

(* The fold takes the options one by one.                                       *)
Adding == [x \in Settings \X Option |-> AddOption(x[1], x[2])]

LEMMA AddingFolds ==
  /\ Foldable(Option, Settings, Adding, NoSettings)
  /\ \A s \in Settings, o \in Option : Adding[<<s, o>>] = AddOption(s, o)
BY AddTypes, EmptySeq DEF Foldable, Adding, NoSettings, Settings

LEMMA ParseIsFold ==
  ASSUME NEW options \in Seq(Option)
  PROVE  ParseForeignOptions(options) = Folded(Option, Settings, Adding, NoSettings, options)
<1> DEFINE P(it) == it = [s \in SUBSET DOMAIN options |->
                            IF s = {} THEN NoSettings
                            ELSE AddOption(it[s \ {Max(s)}], options[Max(s)])]
           it == CHOOSE f : P(f)
<1>1. /\ Len(options) \in Nat /\ DOMAIN options = 1..Len(options)
      /\ \A i \in 1..Len(options) : options[i] \in Option
  BY LenProperties, ElementOfSeq
<1>2. P(it)
  <2>1. PICK f : Stays(Option, Settings, Adding, NoSettings, options, f)
    BY AddingFolds, FoldStays
  <2>2. P(f)
    BY <1>1, <2>1, AddingFolds DEF Stays, Unfolds
  <2> QED
    BY <2>2
<1>3. ParseForeignOptions(options) = it[DOMAIN options]
  BY DEF ParseForeignOptions, FoldLeft, MapThenFoldSet
<1>4. ASSUME NEW k \in 1..Len(options)
      PROVE  it[1..k] = AddOption(it[1..k - 1], options[k])
  <2>1. /\ 1..k \in SUBSET DOMAIN options /\ 1..k # {} /\ Max(1..k) = k
        /\ (1..k) \ {k} = 1..k - 1
    BY <1>1, Downward
  <2> QED
    BY <1>2, <2>1
<1>5. it[{}] = NoSettings
  BY <1>2
<1> HIDE DEF it
<1>6. GoesAlong(Option, Settings, Adding, NoSettings, options, it)
  BY <1>1, <1>4, <1>5, AddingFolds DEF GoesAlong
<1> QED
  BY <1>1, <1>3, <1>6, FoldedAlong

LEMMA ParseFacts ==
  /\ ParseForeignOptions(<<>>) = NoSettings
  /\ \A s \in Seq(Option) : ParseForeignOptions(s) \in Settings
  /\ \A s \in Seq(Option), o \in Option :
       ParseForeignOptions(Append(s, o)) = AddOption(ParseForeignOptions(s), o)
<1> DEFINE F(s) == Folded(Option, Settings, Adding, NoSettings, s)
<1>1. /\ F(<<>>) = NoSettings
      /\ \A s \in Seq(Option) : F(s) \in Settings
      /\ \A s \in Seq(Option), o \in Option : F(Append(s, o)) = Adding[<<F(s), o>>]
  BY AddingFolds, FoldedFacts
<1>2. \A s \in Seq(Option), o \in Option : Append(s, o) \in Seq(Option) /\ <<>> \in Seq(Option)
  BY AppendProperties, EmptySeq
<1>3. \A s \in Seq(Option) : ParseForeignOptions(s) = F(s)
  BY ParseIsFold
<1> HIDE DEF F
<1>4. <<>> \in Seq(Option)
  BY EmptySeq
<1> QED
  BY <1>1, <1>2, <1>3, <1>4, AddingFolds

(* The arguments of the options of a kind.                                     *)
Args(options, kind) == {o.arg : o \in {p \in ToSet(options) : p.kind = kind}}

LEMMA AppendSet ==
  ASSUME NEW A, NEW s \in Seq(A), NEW e \in A
  PROVE  ToSet(Append(s, e)) = ToSet(s) \cup {e}
<1>1. /\ Len(s) \in Nat /\ Append(s, e)[Len(s) + 1] = e
      /\ \A i \in 1..Len(s) : Append(s, e)[i] = s[i]
      /\ DOMAIN s = 1..Len(s) /\ DOMAIN Append(s, e) = 1..Len(s) + 1
  BY LenProperties, AppendProperties
<1>2. ToSet(Append(s, e)) = {Append(s, e)[i] : i \in 1..Len(s) + 1}
  BY <1>1 DEF ToSet
<1>3. ToSet(s) = {s[i] : i \in 1..Len(s)}
  BY <1>1 DEF ToSet
<1>4. \A i \in 1..Len(s) + 1 : i = Len(s) + 1 \/ i \in 1..Len(s)
  BY <1>1
<1>5. Len(s) + 1 \in 1..Len(s) + 1 /\ 1..Len(s) \subseteq 1..Len(s) + 1
  BY <1>1
<1> QED
  BY <1>1, <1>2, <1>3, <1>4, <1>5

(* `contains` and `push`: the element is in, and nothing else is new; and a list  *)
(* that names nothing twice still does not.                                   *)
LEMMA AppendNewSet ==
  ASSUME NEW A, NEW s \in Seq(A), NEW e \in A
  PROVE  ToSet(AppendNew(s, e)) = ToSet(s) \cup {e}
<1>1. CASE e \in ToSet(s)
  BY <1>1 DEF AppendNew
<1>2. CASE e \notin ToSet(s)
  BY <1>2, AppendSet DEF AppendNew
<1> QED
  BY <1>1, <1>2

LEMMA AppendNewOnce ==
  ASSUME NEW A, NEW s \in Seq(A), NEW e \in A, IsInjective(s)
  PROVE  IsInjective(AppendNew(s, e))
<1>1. CASE e \in ToSet(s)
  BY <1>1 DEF AppendNew
<1>2. CASE e \notin ToSet(s)
  <2>1. /\ Len(s) \in Nat /\ Append(s, e)[Len(s) + 1] = e
        /\ \A i \in 1..Len(s) : Append(s, e)[i] = s[i]
        /\ DOMAIN s = 1..Len(s) /\ DOMAIN Append(s, e) = 1..Len(s) + 1
    BY LenProperties, AppendProperties
  <2>2. \A i \in 1..Len(s) : s[i] # e
    BY <1>2, <2>1 DEF ToSet
  <2>3. \A i \in 1..Len(s) + 1 : i = Len(s) + 1 \/ i \in 1..Len(s)
    BY <2>1
  <2>4. \A i, j \in 1..Len(s) + 1 : Append(s, e)[i] = Append(s, e)[j] => i = j
    BY <2>1, <2>2, <2>3 DEF IsInjective
  <2>5. IsInjective(Append(s, e))
    BY <2>1, <2>4 DEF IsInjective
  <2> QED
    BY <1>2, <2>5 DEF AppendNew
<1> QED
  BY <1>1, <1>2

(* No server and no domain twice.                                             *)
Once(s) == IsInjective(s.servers) /\ IsInjective(s.domains)

LEMMA AddOnce ==
  ASSUME NEW s \in Settings, NEW o \in Option, Once(s)
  PROVE  Once(AddOption(s, o))
<1>1. s.servers \in Seq(DnsServer) /\ s.domains \in Seq(Domain)
  BY DEF Settings
<1>2. CASE o.kind = "DNS"
  <2>1. o.arg \in DnsServer
    BY <1>2 DEF Option
  <2>2. AddOption(s, o).servers = AppendNew(s.servers, o.arg) /\ AddOption(s, o).domains = s.domains
    BY <1>2 DEF AddOption, Settings
  <2> QED
    BY <1>1, <2>1, <2>2, AppendNewOnce DEF Once
<1>3. CASE o.kind = "DOMAIN"
  <2>1. o.arg \in Domain
    BY <1>3 DEF Option
  <2>2. AddOption(s, o).domains = AppendNew(s.domains, o.arg) /\ AddOption(s, o).servers = s.servers
    BY <1>3 DEF AddOption, Settings
  <2> QED
    BY <1>1, <2>1, <2>2, AppendNewOnce DEF Once
<1>4. CASE o.kind \notin {"DNS", "DOMAIN"}
  BY <1>4 DEF AddOption
<1> QED
  BY <1>2, <1>3, <1>4

(* What an option adds.                                                       *)
LEMMA AddContents ==
  ASSUME NEW s \in Settings, NEW o \in Option
  PROVE  /\ ToSet(AddOption(s, o).servers)
              = ToSet(s.servers) \cup (IF o.kind = "DNS" THEN {o.arg} ELSE {})
         /\ ToSet(AddOption(s, o).domains)
              = ToSet(s.domains) \cup (IF o.kind = "DOMAIN" THEN {o.arg} ELSE {})
<1>1. s.servers \in Seq(DnsServer) /\ s.domains \in Seq(Domain)
  BY DEF Settings
<1>2. CASE o.kind = "DNS"
  <2>1. o.arg \in DnsServer
    BY <1>2 DEF Option
  <2>2. AddOption(s, o).servers = AppendNew(s.servers, o.arg) /\ AddOption(s, o).domains = s.domains
    BY <1>2 DEF AddOption, Settings
  <2>3. ToSet(AppendNew(s.servers, o.arg)) = ToSet(s.servers) \cup {o.arg}
    BY <1>1, <2>1, AppendNewSet
  <2> QED
    BY <1>2, <2>2, <2>3
<1>3. CASE o.kind = "DOMAIN"
  <2>1. o.arg \in Domain
    BY <1>3 DEF Option
  <2>2. AddOption(s, o).domains = AppendNew(s.domains, o.arg) /\ AddOption(s, o).servers = s.servers
    BY <1>3 DEF AddOption, Settings
  <2>3. ToSet(AppendNew(s.domains, o.arg)) = ToSet(s.domains) \cup {o.arg}
    BY <1>1, <2>1, AppendNewSet
  <2> QED
    BY <1>3, <2>2, <2>3
<1>4. CASE o.kind \notin {"DNS", "DOMAIN"}
  BY <1>4 DEF AddOption
<1> QED
  BY <1>2, <1>3, <1>4

(* parse_foreign_options, for every list of options: each server and each search *)
(* domain pushed is in the result, nothing else is, and nothing is there twice.  *)
THEOREM Parsed ==
  ASSUME NEW options \in Seq(Option)
  PROVE  /\ ParseForeignOptions(options) \in Settings /\ Once(ParseForeignOptions(options))
         /\ ToSet(ParseForeignOptions(options).servers) = Args(options, "DNS")
         /\ ToSet(ParseForeignOptions(options).domains) = Args(options, "DOMAIN")
<1> DEFINE Done(s) == /\ Once(ParseForeignOptions(s))
                     /\ ToSet(ParseForeignOptions(s).servers) = Args(s, "DNS")
                     /\ ToSet(ParseForeignOptions(s).domains) = Args(s, "DOMAIN")
           T == {s \in Seq(Option) : Done(s)}
<1>1. <<>> \in T
  <2>1. ToSet(<<>>) = {}
    BY DEF ToSet
  <2>2. Args(<<>>, "DNS") = {} /\ Args(<<>>, "DOMAIN") = {}
    BY <2>1 DEF Args
  <2>3. Once(NoSettings) /\ NoSettings.servers = <<>> /\ NoSettings.domains = <<>>
    BY DEF Once, NoSettings, IsInjective
  <2> QED
    BY <2>1, <2>2, <2>3, ParseFacts, EmptySeq
<1>2. ASSUME NEW s \in Seq(Option), NEW o \in Option, s \in T
      PROVE  Append(s, o) \in T
  <2>1. /\ ParseForeignOptions(Append(s, o)) = AddOption(ParseForeignOptions(s), o)
        /\ ParseForeignOptions(s) \in Settings
    BY ParseFacts
  <2>2. ToSet(Append(s, o)) = ToSet(s) \cup {o}
    BY AppendSet
  <2>3. \A kind : Args(Append(s, o), kind)
          = Args(s, kind) \cup (IF o.kind = kind THEN {o.arg} ELSE {})
    BY <2>2 DEF Args
  <2>4. Append(s, o) \in Seq(Option)
    BY AppendProperties
  <2> QED
    BY <1>2, <2>1, <2>3, <2>4, AddContents, AddOnce
<1>3. Seq(Option) \subseteq T
  <2> HIDE DEF T
  <2> QED
    BY <1>1, <1>2, SequenceInduction
<1> QED
  BY <1>3, ParseFacts

(* Whatever order the hash map gives, the options are the same.                 *)
LEMMA OrdersAgree ==
  ASSUME NEW options \in Seq(Option), NEW other \in Orders(options)
  PROVE  other \in Seq(Option) /\ ToSet(other) = ToSet(options)
<1> DEFINE n == Len(options)
<1>1. n \in Nat /\ DOMAIN options = 1..n /\ \A i \in 1..n : options[i] \in Option
  BY LenProperties, ElementOfSeq
<1> HIDE DEF n
<1>2. IsFiniteSet(1..n) /\ Cardinality(1..n) = n
  BY <1>1, FS_Interval
<1>3. PICK order \in SetToSeqs(1..n) : other = [i \in 1..n |-> options[order[i]]]
  BY <1>1 DEF Orders
<1>4. order \in [1..n -> 1..n] /\ \A i, j \in 1..n : i # j => order[i] # order[j]
  BY <1>2, <1>3 DEF SetToSeqs
<1>5. order \in Injection(1..n, 1..n)
  BY <1>4 DEF Injection, IsInjective
<1>6. order \in Surjection(1..n, 1..n)
  BY <1>2, <1>5, FS_Injection
<1>7. \A i \in 1..n : \E j \in 1..n : order[j] = i
  BY <1>6 DEF Surjection
<1>8. other \in [1..n -> Option]
  BY <1>1, <1>3, <1>4
<1>9. other \in Seq(Option)
  BY <1>1, <1>8, IsASeq
<1>10. DOMAIN other = 1..n /\ \A i \in 1..n : other[i] = options[order[i]]
  BY <1>3
<1>11. ToSet(other) = {other[i] : i \in 1..n} /\ ToSet(options) = {options[i] : i \in 1..n}
  BY <1>1, <1>10 DEF ToSet
<1>12. ToSet(other) \subseteq ToSet(options)
  BY <1>4, <1>10, <1>11
<1>13. ToSet(options) \subseteq ToSet(other)
  <2> SUFFICES ASSUME NEW i \in 1..n PROVE options[i] \in ToSet(other)
    BY <1>11
  <2>1. PICK j \in 1..n : order[j] = i
    BY <1>7
  <2> QED
    BY <1>10, <1>11, <2>1
<1> QED
  BY <1>9, <1>12, <1>13

-----------------------------------------------------------------------------
(* What OpenVPN, the helper and the relay keep: the file being written is that of *)
(* the session, and while the tunnel is up so is the whole file in place.       *)
IsFile(f) == f = NoFile \/ \E s \in Session : \E n \in 0..AllLines(s) : f = File(s, n)

Kept ==
  /\ persistent \in Persistent /\ killswitch \in BOOLEAN /\ sigterm \in BOOLEAN
  /\ phase \in {"down", "helping", "up", "closing", "dead"}
  /\ session \in Session /\ unread \in 0..MaxLines
  /\ outcome \in {"nothing", "applied", "failed"}
  /\ dnsIfindex \in 0..links
  /\ IsFile(tmp) /\ IsFile(envFile)
  /\ Helping => tmp = File(session, tmp.lines)
  /\ phase = "up" => envFile = File(session, AllLines(session))

(* systemd-resolved: what a link may hold.                                     *)
LinkSettings == [servers : Seq(DnsServer), domains : Seq(Domain), route : BOOLEAN]

Configured ==
  \A l \in 1..MaxLinks :
    /\ resolved[l] \in LinkSettings
    /\ l > links => resolved[l] = Unset

(* The settings are those session s pushed.                                   *)
Agree(settings, s) ==
  /\ ToSet(settings.servers) = Args(s.options, "DNS")
  /\ ToSet(settings.domains) = Args(s.options, "DOMAIN")

(* What the relay carries from one step to the next: the environment and the      *)
(* settings are those of the file it read, and when it has read all lines of a   *)
(* tunnel that is up, that is the file in place.                               *)
Carried ==
  /\ relay.at \in Busy =>
       /\ IsFile(relay.file) /\ relay.env = Environment(relay.file)
       /\ phase = "up" /\ unread = 0 => relay.file = envFile
  /\ relay.at \in Calls =>
       /\ relay.ifindex \in 1..links
       /\ relay.file # NoFile
       /\ "settings" \in DOMAIN relay /\ relay.settings \in Settings
       /\ Agree(relay.settings, relay.file.of)

(* What is set on the link so far, and after the third call: what the current      *)
(* session pushed, if the relay has caught up.                                 *)
Progress ==
  /\ relay.at \in Between /\ relay.ifindex = link =>
       resolved[link].servers = relay.settings.servers
  /\ relay.at = "SetLinkDefaultRoute" /\ relay.ifindex = link =>
       resolved[link].domains = relay.settings.domains
  /\ relay.at \in {"locking", "waiting"} /\ outcome = "applied" /\ phase = "up" /\ unread = 0 =>
       link # 0 /\ Agree(resolved[link], session) /\ resolved[link].route

Settled == Kept /\ Configured /\ Carried /\ Progress

(* A session's options and a whole file of it.                                 *)
LEMMA SessionFacts ==
  ASSUME NEW s \in Session
  PROVE  s.options \in Seq(Option) /\ AllLines(s) \in Nat \ {0}
<1>1. s.options \in Seq(Option)
  BY TunnelDnsAssumption DEF Push
<1>2. Len(s.options) \in Nat
  BY <1>1, LenProperties
<1> QED
  BY <1>1, <1>2 DEF AllLines

LEMMA WholeFacts ==
  ASSUME NEW f, IsFile(f), Whole(f), f # NoFile
  PROVE  /\ f.of \in Session /\ f.of.options \in Seq(Option)
         /\ Environment(f).options = f.of.options
<1>1. PICK s \in Session : \E n \in 0..AllLines(s) : f = File(s, n)
  BY DEF IsFile
<1>2. f.of = s /\ f.lines = AllLines(s)
  BY <1>1 DEF File, Whole
<1>3. s.options \in Seq(Option) /\ AllLines(s) \in Nat \ {0}
  BY <1>1, SessionFacts
<1>4. Len(s.options) \in Nat /\ AllLines(s) - 1 = Len(s.options)
  BY <1>3, LenProperties DEF AllLines
<1>5. SubSeq(s.options, 1, AllLines(s) - 1) = s.options
  BY <1>3, <1>4, SubSeqFull
<1> QED
  BY <1>2, <1>3, <1>5 DEF Environment

LEMMA UnsetIsTyped == Unset \in LinkSettings
  BY EmptySeq DEF Unset, LinkSettings

LEMMA SettledInitially == Init => Settled
<1> SUFFICES ASSUME Init PROVE Settled
  OBVIOUS
<1>1. links \in Nat /\ dnsIfindex \in 0..links /\ unread \in 0..MaxLines
  BY TunnelDnsAssumption DEF Init
<1>2. Kept
  <2>1. IsFile(tmp) /\ IsFile(envFile)
    BY DEF Init, IsFile
  <2>2. phase = "down" /\ outcome = "nothing" /\ sigterm = FALSE
    BY DEF Init
  <2> QED
    BY <1>1, <2>1, <2>2 DEF Init, Kept, Helping
<1>3. Configured
  BY UnsetIsTyped DEF Init, Configured
<1>4. relay.at = "waiting" /\ outcome = "nothing"
  BY DEF Init, Waiting
<1>5. Carried /\ Progress
  BY <1>4 DEF Carried, Progress, Busy, Calls, Between
<1> QED
  BY <1>2, <1>3, <1>5 DEF Settled

-----------------------------------------------------------------------------
(* OpenVPN's steps leave the relay's knowledge true: either the tunnel is not up,   *)
(* or there is a line to read; and the link it works on stays, or is not there.   *)
LEMMA RelayKeeps ==
  ASSUME Inv, Settled, UNCHANGED relay, links' \in Nat, links <= links', phase' # "up" \/ unread' # 0,
         relay.at \in Calls /\ relay.ifindex = link' => link' = link /\ resolved'[link] = resolved[link]
  PROVE  Carried' /\ Progress'
<1> USE DEF Inv, Settled
<1>1. links \in Nat
  BY TunnelDnsAssumption DEF Shape
<1>2. Carried'
  BY <1>1 DEF Carried, Agree, IsFile, AllLines
<1>3. Between \subseteq Calls /\ "SetLinkDefaultRoute" \in Calls
  BY DEF Between, Calls
<1>4. Progress'
  BY <1>3 DEF Progress
<1> QED
  BY <1>2, <1>4

LEMMA OpenVpnSettles ==
  ASSUME Inv, Settled, OpenVpn
  PROVE  Settled'
<1> USE DEF Inv, Settled, openvpnVars, Helping
<1>1. UNCHANGED <<persistent, killswitch, relay, dnsIfindex, sigterm, outcome>>
  BY DEF OpenVpn, TunnelUp, HelperWrites, HelperEnds, DownHelperEnds, Restarts, KeepsTunnel, Exits
<1>2. /\ links \in Nat /\ link \in 0..links /\ MaxLinks \in Nat \ {0} /\ links <= MaxLinks
      /\ persistent \in BOOLEAN /\ persistent => link = links
      /\ MaxLines \in Nat \ {0} /\ unread \in Nat /\ unread <= MaxLines
  BY TunnelDnsAssumption DEF Shape, Kept
<1>3. relay.at \in Calls => relay.ifindex \in 1..links
  BY DEF Carried
<1>4. CASE TunnelUp
  <2>1. /\ phase' = "helping" /\ session' \in Session /\ link' = links'
        /\ links' = IF persistent THEN links ELSE links + 1
        /\ tmp' = File(session', 0)
        /\ UNCHANGED <<envFile, unread, resolved>>
    BY <1>4 DEF TunnelUp
  <2>2. tmp' = File(session', tmp'.lines) /\ IsFile(tmp)'
    <3>1. AllLines(session') \in Nat
      BY <2>1, SessionFacts
    <3> QED
      BY <2>1, <3>1 DEF File, IsFile, AllLines
  <2>3. Kept'
    <3>1. dnsIfindex' \in 0..links'
      BY <1>1, <1>2, <2>1 DEF Kept
    <3>2. IsFile(envFile)' /\ persistent' \in Persistent /\ killswitch' \in BOOLEAN /\ unread' \in 0..MaxLines
      BY <1>1, <2>1 DEF Kept, IsFile, AllLines
    <3> QED
      BY <1>1, <2>1, <2>2, <3>1, <3>2 DEF Kept
  <2>4. Configured'
    BY <1>2, <2>1 DEF Configured
  <2>5. Carried' /\ Progress'
    <3>1. relay.at \in Calls /\ relay.ifindex = link' => link' = link
      <4>1. persistent => link' = link
        BY <1>2, <2>1
      <4>2. ~persistent /\ relay.at \in Calls => relay.ifindex # link'
        BY <1>2, <1>3, <2>1
      <4> QED
        BY <4>1, <4>2
    <3>2. links' \in Nat /\ links <= links' /\ phase' # "up"
      BY <1>2, <2>1
    <3> QED
      BY <1>1, <2>1, <3>1, <3>2, RelayKeeps
  <2> QED
    BY <2>3, <2>4, <2>5
<1>5. CASE HelperWrites
  <2>1. /\ Helping /\ tmp.lines < AllLines(tmp.of) /\ tmp' = File(tmp.of, tmp.lines + 1)
        /\ UNCHANGED <<phase, session, link, links, envFile, unread, resolved>>
    BY <1>5 DEF HelperWrites
  <2>2. tmp = File(session, tmp.lines) /\ session \in Session /\ tmp.of = session
    BY <2>1 DEF Kept, File
  <2>3. tmp.lines \in Nat
    BY SessionFacts DEF Kept, IsFile, NoFile, File
  <2>4. IsFile(tmp)' /\ tmp' = File(session, tmp'.lines)
    <3>1. AllLines(session) \in Nat
      BY <2>2, SessionFacts
    <3>2. tmp.lines + 1 \in 0..AllLines(session)
      BY <2>1, <2>2, <2>3, <3>1
    <3> QED
      BY <2>1, <2>2, <3>2 DEF IsFile, File, AllLines
  <2>5. Kept'
    BY <1>1, <2>1, <2>4 DEF Kept, IsFile, AllLines
  <2>6. Configured'
    BY <2>1 DEF Configured
  <2>7. Carried' /\ Progress'
    BY <1>1, <1>2, <2>1, RelayKeeps
  <2> QED
    BY <2>5, <2>6, <2>7
<1>6. CASE HelperEnds
  <2>1. /\ phase = "helping" /\ tmp.lines = AllLines(tmp.of) /\ envFile' = tmp /\ tmp' = NoFile
        /\ phase' = "up" /\ unread < MaxLines /\ unread' = unread + 1
        /\ UNCHANGED <<session, link, links, resolved>>
    BY <1>6 DEF HelperEnds, MovesFile
  <2>2. tmp = File(session, tmp.lines) /\ tmp.of = session
    BY <2>1 DEF Kept, File
  <2>3. Kept'
    BY <1>1, <1>2, <2>1, <2>2 DEF Kept, IsFile, AllLines
  <2>4. Configured'
    BY <2>1 DEF Configured
  <2>5. Carried' /\ Progress'
    BY <1>1, <1>2, <2>1, RelayKeeps
  <2> QED
    BY <2>3, <2>4, <2>5
<1>7. CASE KeepsTunnel
  <2>1. /\ unread < MaxLines /\ unread' = unread + 1
        /\ UNCHANGED <<phase, session, link, links, tmp, envFile, resolved>>
    BY <1>7 DEF KeepsTunnel
  <2>2. Kept'
    BY <1>1, <1>2, <2>1 DEF Kept, IsFile, AllLines
  <2>3. Configured'
    BY <2>1 DEF Configured
  <2>4. Carried' /\ Progress'
    BY <1>1, <1>2, <2>1, RelayKeeps
  <2> QED
    BY <2>2, <2>3, <2>4
<1>8. CASE DownHelperEnds
  <2>1. /\ phase = "closing" /\ envFile' = tmp /\ tmp' = NoFile /\ phase' = "down"
        /\ UNCHANGED <<session, link, links, unread, resolved>>
    BY <1>8 DEF DownHelperEnds, MovesFile
  <2>2. Kept'
    BY <1>1, <2>1 DEF Kept, IsFile, AllLines
  <2>3. Configured'
    BY <2>1 DEF Configured
  <2>4. Carried' /\ Progress'
    BY <1>1, <1>2, <2>1, RelayKeeps
  <2> QED
    BY <2>2, <2>3, <2>4
<1>9. CASE Restarts \/ Exits
  <2>1. /\ phase' \in {"closing", "dead"} /\ DropsDevice
        /\ (tmp' = tmp /\ phase' = "dead") \/ tmp' = File(session, 0)
        /\ UNCHANGED <<session, links, envFile, unread>>
    BY <1>9 DEF Restarts, Exits
  <2>2. \/ UNCHANGED <<link, resolved>>
        \/ link' = 0 /\ link # 0 /\ resolved' = [resolved EXCEPT ![link] = Unset]
    BY <2>1 DEF DropsDevice
  <2>3. Kept'
    <3>1. session \in Session /\ AllLines(session) \in Nat
      BY SessionFacts DEF Kept
    <3>2. IsFile(tmp)' /\ (Helping' => tmp' = File(session, tmp'.lines))
      BY <2>1, <3>1 DEF Kept, IsFile, File, AllLines
    <3> QED
      BY <1>1, <2>1, <3>2 DEF Kept, IsFile, AllLines
  <2>4. Configured'
    <3>1. ASSUME NEW l \in 1..MaxLinks PROVE resolved'[l] = resolved[l] \/ resolved'[l] = Unset
      BY <2>2 DEF Shape
    <3> QED
      BY <2>1, <3>1, UnsetIsTyped DEF Configured
  <2>5. Carried' /\ Progress'
    <3>1. relay.at \in Calls /\ relay.ifindex = link' => link' = link /\ resolved'[link] = resolved[link]
      BY <1>2, <1>3, <2>2
    <3> QED
      BY <1>1, <1>2, <2>1, <3>1, RelayKeeps
  <2> QED
    BY <2>3, <2>4, <2>5
<1> QED
  BY <1>4, <1>5, <1>6, <1>7, <1>8, <1>9 DEF OpenVpn

-----------------------------------------------------------------------------
(* The relay's steps: OpenVPN's variables stay.                                *)
LEMMA KeptByRelay ==
  ASSUME Settled, UNCHANGED openvpnVars, unread' \in 0..MaxLines, sigterm' \in BOOLEAN,
         outcome' \in {"nothing", "applied", "failed"}, dnsIfindex' \in 0..links
  PROVE  Kept'
BY DEF Settled, Kept, openvpnVars, Helping, IsFile, AllLines

(* A call that fails, a lookup that does, or nothing pushed.                    *)
LEMMA FailureSettles ==
  ASSUME Inv, Settled, UNCHANGED openvpnVars, UNCHANGED <<unread, dnsIfindex, resolved>>,
         relay.at \in Busy, relay' = [relay EXCEPT !.at = "locking"],
         outcome' \in {"nothing", "failed"}, sigterm' \in BOOLEAN
  PROVE  Settled'
<1> USE DEF Inv, Settled, openvpnVars
<1>1. relay'.at = "locking" /\ relay'.file = relay.file /\ relay'.env = relay.env
  BY DEF Shape
<1>2. Kept'
  BY KeptByRelay DEF Kept
<1>3. Configured'
  BY DEF Configured
<1>4. Carried'
  BY <1>1 DEF Carried, Busy, Calls, IsFile, AllLines
<1>5. Progress'
  BY <1>1 DEF Progress, Between
<1> QED
  BY <1>2, <1>3, <1>4, <1>5

LEMMA DnsFailsFacts ==
  ASSUME Settled, DnsFails
  PROVE  /\ relay' = [relay EXCEPT !.at = "locking"]
         /\ outcome' \in {"nothing", "failed"}
         /\ sigterm' \in BOOLEAN
BY DEF DnsFails, Settled, Kept

(* The lookup: what is parsed, in any order, is what the file's session pushed.    *)
LEMMA FindsLinkSettles ==
  ASSUME Inv, Settled, FindsLink
  PROVE  Settled'
<1> USE DEF Inv, Settled, openvpnVars
<1>1. /\ relay.at = "parsing" /\ relay.at \in Busy
      /\ UNCHANGED openvpnVars /\ UNCHANGED <<unread, dnsIfindex, resolved>>
  BY DEF FindsLink, Busy
<1>2. PICK options \in Orders(relay.env.options) :
        \/ /\ relay' = [relay EXCEPT !.at = "locking"] /\ outcome' = "nothing" /\ UNCHANGED sigterm
        \/ DnsFails
        \/ /\ relay.env.dev = "set" /\ link # 0
           /\ relay' = [at |-> "SetLinkDNS", env |-> relay.env, file |-> relay.file,
                        settings |-> ParseForeignOptions(options), ifindex |-> link]
           /\ UNCHANGED <<sigterm, outcome>>
  BY DEF FindsLink
<1>3. CASE DnsFails
  BY <1>1, <1>3, DnsFailsFacts, FailureSettles
<1>4. CASE relay' = [relay EXCEPT !.at = "locking"] /\ outcome' = "nothing" /\ UNCHANGED sigterm
  <2>1. sigterm' \in BOOLEAN
    BY <1>4 DEF Kept
  <2> QED
    BY <1>1, <1>4, <2>1, FailureSettles
<1>5. CASE /\ relay.env.dev = "set" /\ link # 0
           /\ relay' = [at |-> "SetLinkDNS", env |-> relay.env, file |-> relay.file,
                        settings |-> ParseForeignOptions(options), ifindex |-> link]
           /\ UNCHANGED <<sigterm, outcome>>
  <2>1. /\ relay'.at = "SetLinkDNS" /\ relay'.env = relay.env /\ relay'.file = relay.file
        /\ relay'.settings = ParseForeignOptions(options) /\ relay'.ifindex = link
        /\ "settings" \in DOMAIN relay'
    BY <1>5
  <2>2. IsFile(relay.file) /\ Whole(relay.file) /\ relay.env = Environment(relay.file)
    BY <1>1 DEF Carried, FilesInv
  <2>3. relay.file # NoFile
    BY <1>5, <2>2 DEF Environment, NoFile
  <2>4. relay.env.options = relay.file.of.options /\ relay.env.options \in Seq(Option)
    BY <2>2, <2>3, WholeFacts
  <2>5. options \in Seq(Option) /\ ToSet(options) = ToSet(relay.file.of.options)
    BY <1>2, <2>4, OrdersAgree
  <2>6. /\ ParseForeignOptions(options) \in Settings
        /\ Agree(ParseForeignOptions(options), relay.file.of)
    BY <2>5, Parsed DEF Agree, Args
  <2>7. link \in 1..links
    BY <1>5, TunnelDnsAssumption DEF Shape
  <2>8. Kept'
    BY <1>1, <1>5, KeptByRelay DEF Kept
  <2>9. Configured'
    BY <1>1 DEF Configured
  <2>10. Carried'
    BY <1>1, <2>1, <2>2, <2>3, <2>6, <2>7 DEF Carried, Agree, IsFile, AllLines
  <2>11. Progress'
    BY <2>1 DEF Progress, Between
  <2> QED
    BY <2>8, <2>9, <2>10, <2>11
<1> QED
  BY <1>2, <1>3, <1>4, <1>5

(* A call that succeeds: all but the link's settings stays as it is.             *)
LEMMA SuccessSettles ==
  ASSUME Inv, Settled, NEW call \in Calls, NEW next \in {"locking"} \cup Between,
         NEW remembered \in {dnsIfindex, relay.ifindex}, NEW settings \in LinkSettings,
         UNCHANGED openvpnVars, UNCHANGED <<unread, sigterm>>,
         relay.at = call, relay.ifindex = link,
         resolved' = [resolved EXCEPT ![link] = settings],
         relay' = [relay EXCEPT !.at = next],
         dnsIfindex' = remembered,
         outcome' = IF next = "locking" THEN "applied" ELSE outcome
  PROVE  /\ Kept' /\ Configured' /\ Carried'
         /\ relay'.at = next /\ relay'.settings = relay.settings /\ relay'.ifindex = link
         /\ link \in 1..links /\ resolved'[link] = settings
         /\ phase = "up" /\ unread = 0 => Agree(relay.settings, session)
<1> USE DEF Inv, Settled, openvpnVars
<1>1. /\ relay.at \in Calls /\ relay.at \in Busy /\ next \in Busy
      /\ {"at", "env", "file", "ifindex", "settings"} \subseteq DOMAIN relay
  BY DEF Busy, Between, Calls, Shape, Carried
<1>2. /\ relay'.at = next /\ relay'.file = relay.file /\ relay'.env = relay.env
      /\ relay'.settings = relay.settings /\ relay'.ifindex = relay.ifindex
      /\ DOMAIN relay' = DOMAIN relay
  BY <1>1
<1>3. /\ relay.ifindex \in 1..links /\ links \in 0..MaxLinks
      /\ resolved = [l \in 1..MaxLinks |-> resolved[l]]
  BY <1>1 DEF Carried, Shape
<1>4. /\ link \in 1..links /\ link \in 1..MaxLinks
  BY <1>3, TunnelDnsAssumption
<1>5. /\ resolved'[link] = settings
      /\ \A l \in 1..MaxLinks : l # link => resolved'[l] = resolved[l]
  BY <1>3, <1>4
<1>6. Kept'
  <2>1. dnsIfindex' \in 0..links
    BY <1>3, TunnelDnsAssumption DEF Kept
  <2>2. outcome' \in {"nothing", "applied", "failed"} /\ unread' \in 0..MaxLines /\ sigterm' \in BOOLEAN
    BY DEF Kept
  <2> QED
    BY <2>1, <2>2, KeptByRelay
<1>7. Configured'
  <2> SUFFICES ASSUME NEW l \in 1..MaxLinks
               PROVE  resolved'[l] \in LinkSettings /\ (l > links => resolved'[l] = Unset)
    BY DEF Configured
  <2>1. link <= links
    BY <1>3, <1>4
  <2> QED
    BY <1>3, <1>5, <2>1 DEF Configured
<1>8. Carried'
  BY <1>1, <1>2 DEF Carried, Agree, IsFile, AllLines
<1>9. ASSUME phase = "up", unread = 0 PROVE Agree(relay.settings, session)
  <2>1. relay.file = File(session, AllLines(session))
    BY <1>1, <1>9 DEF Carried, Kept
  <2>2. relay.file.of = session
    BY <2>1 DEF File
  <2> QED
    BY <1>1, <2>2 DEF Carried
<1> QED
  BY <1>2, <1>4, <1>5, <1>6, <1>7, <1>8, <1>9

(* The three calls, each adding its part to the link.                           *)
LEMMA CallsSettle ==
  ASSUME Inv, Settled, SetsServers \/ SetsDomains \/ SetsDefaultRoute
  PROVE  Settled'
<1> USE DEF Inv, Settled, openvpnVars
<1> DEFINE Failed == DnsFails /\ UNCHANGED <<resolved, dnsIfindex>>
<1>1. relay.at \in Calls /\ relay.at \in Busy /\ UNCHANGED openvpnVars /\ unread' = unread
  BY DEF SetsServers, SetsDomains, SetsDefaultRoute, CallsResolved, Calls, Busy
<1>2. /\ relay.ifindex \in 1..MaxLinks /\ relay.settings \in Settings
      /\ resolved[relay.ifindex] \in LinkSettings
  BY <1>1 DEF Carried, Configured, Shape
<1>3. CASE Failed
  BY <1>1, <1>3, DnsFailsFacts, FailureSettles
<1>4. CASE SetsServers /\ ~Failed
  <2> DEFINE settings == [resolved[relay.ifindex] EXCEPT !.servers = relay.settings.servers]
  <2>1. settings \in LinkSettings /\ settings.servers = relay.settings.servers
    BY <1>2 DEF Settings, LinkSettings
  <2>2. /\ relay.at = "SetLinkDNS" /\ relay.ifindex = link /\ resolved' = [resolved EXCEPT ![link] = settings]
        /\ relay' = [relay EXCEPT !.at = "SetLinkDomains"] /\ dnsIfindex' = dnsIfindex
        /\ outcome' = outcome /\ UNCHANGED sigterm
    BY <1>4 DEF SetsServers, CallsResolved
  <2> HIDE DEF settings
  <2>3. /\ Kept' /\ Configured' /\ Carried' /\ relay'.at = "SetLinkDomains"
        /\ relay'.settings = relay.settings /\ resolved'[link] = settings
    BY <1>1, <2>1, <2>2, SuccessSettles DEF Calls, Between
  <2>4. Progress'
    BY <1>1, <2>1, <2>3 DEF Progress
  <2> QED
    BY <2>3, <2>4
<1>5. CASE SetsDomains /\ ~Failed
  <2> DEFINE settings == [resolved[relay.ifindex] EXCEPT !.domains = relay.settings.domains]
  <2>1. /\ settings \in LinkSettings /\ settings.domains = relay.settings.domains
        /\ settings.servers = resolved[relay.ifindex].servers
    BY <1>2 DEF Settings, LinkSettings
  <2>2. /\ relay.at = "SetLinkDomains" /\ relay.ifindex = link /\ resolved' = [resolved EXCEPT ![link] = settings]
        /\ relay' = [relay EXCEPT !.at = "SetLinkDefaultRoute"] /\ dnsIfindex' = dnsIfindex
        /\ outcome' = outcome /\ UNCHANGED sigterm
    BY <1>5 DEF SetsDomains, CallsResolved
  <2> HIDE DEF settings
  <2>3. /\ Kept' /\ Configured' /\ Carried' /\ relay'.at = "SetLinkDefaultRoute"
        /\ relay'.settings = relay.settings /\ resolved'[link] = settings
    BY <1>1, <2>1, <2>2, SuccessSettles DEF Calls, Between
  <2>4. resolved[link].servers = relay.settings.servers
    BY <2>2 DEF Progress, Between
  <2>5. Progress'
    BY <1>1, <2>1, <2>2, <2>3, <2>4 DEF Progress
  <2> QED
    BY <2>3, <2>5
<1>6. CASE SetsDefaultRoute /\ ~Failed
  <2> DEFINE settings == [resolved[relay.ifindex] EXCEPT !.route = TRUE]
  <2>1. /\ settings \in LinkSettings /\ settings.route = TRUE
        /\ settings.servers = resolved[relay.ifindex].servers
        /\ settings.domains = resolved[relay.ifindex].domains
    BY <1>2 DEF LinkSettings
  <2>2. /\ relay.at = "SetLinkDefaultRoute" /\ relay.ifindex = link
        /\ resolved' = [resolved EXCEPT ![link] = settings]
        /\ relay' = [relay EXCEPT !.at = "locking"] /\ dnsIfindex' = relay.ifindex
        /\ outcome' = "applied" /\ UNCHANGED sigterm
    BY <1>6 DEF SetsDefaultRoute, CallsResolved
  <2> HIDE DEF settings
  <2>3. /\ Kept' /\ Configured' /\ Carried' /\ relay'.at = "locking"
        /\ link \in 1..links /\ resolved'[link] = settings
        /\ phase = "up" /\ unread = 0 => Agree(relay.settings, session)
    BY <1>1, <2>1, <2>2, SuccessSettles DEF Calls
  <2>4. settings.servers = relay.settings.servers /\ settings.domains = relay.settings.domains
    BY <2>1, <2>2 DEF Progress, Between
  <2>5. phase = "up" /\ unread = 0 => link # 0 /\ Agree(settings, session) /\ settings.route
    BY <2>1, <2>3, <2>4 DEF Agree
  <2>6. Progress'
    BY <1>1, <2>3, <2>5 DEF Progress, Between, Agree
  <2> QED
    BY <2>3, <2>6
<1> QED
  BY <1>3, <1>4, <1>5, <1>6

LEMMA RelaySettles ==
  ASSUME Inv, Settled, Relay
  PROVE  Settled'
<1> USE DEF Inv, Settled, openvpnVars
<1>1. CASE ReadsEnvironment
  <2>1. /\ unread > 0 /\ unread' = unread - 1
        /\ relay'.at = "parsing" /\ relay'.env = Environment(envFile) /\ relay'.file = envFile
        /\ UNCHANGED openvpnVars /\ UNCHANGED <<dnsIfindex, sigterm, resolved, outcome>>
    BY <1>1 DEF ReadsEnvironment
  <2>2. unread' \in 0..MaxLines
    BY <2>1, TunnelDnsAssumption DEF Kept
  <2>3. Kept'
    BY <2>1, <2>2, KeptByRelay DEF Kept
  <2>4. Configured'
    BY <2>1 DEF Configured
  <2>5. relay'.env = Environment(relay'.file) /\ IsFile(relay'.file) /\ relay'.file = envFile'
    BY <2>1 DEF Kept
  <2>6. Carried'
    BY <2>1, <2>5 DEF Carried, Calls, IsFile, AllLines
  <2>7. Progress'
    BY <2>1 DEF Progress, Between
  <2> QED
    BY <2>3, <2>4, <2>6, <2>7
<1>2. CASE FindsLink
  BY <1>2, FindsLinkSettles
<1>3. CASE SetsServers \/ SetsDomains \/ SetsDefaultRoute
  BY <1>3, CallsSettle
<1>4. CASE LocksTunnel
  <2>1. /\ relay.at = "locking" /\ relay'.at = "waiting"
        /\ UNCHANGED openvpnVars /\ UNCHANGED <<unread, dnsIfindex, resolved, outcome>>
    BY <1>4 DEF LocksTunnel, Waiting
  <2>2. sigterm' \in BOOLEAN
    BY <1>4 DEF LocksTunnel
  <2>3. Kept'
    BY <2>1, <2>2, KeptByRelay DEF Kept
  <2>4. Configured'
    BY <2>1 DEF Configured
  <2>5. Carried'
    BY <2>1 DEF Carried, Busy, Calls
  <2>6. Progress'
    BY <2>1 DEF Progress, Between, Agree
  <2> QED
    BY <2>3, <2>4, <2>5, <2>6
<1>5. CASE Reverts \/ ReadFails
  <2>1. /\ relay'.at = "done"
        /\ resolved' \in {resolved, [resolved EXCEPT ![dnsIfindex] = Unset]}
        /\ UNCHANGED openvpnVars /\ UNCHANGED <<unread, dnsIfindex, sigterm, outcome>>
    BY <1>5 DEF Reverts, ReadFails, Ends
  <2>2. Kept'
    BY <2>1, KeptByRelay DEF Kept
  <2>3. Configured'
    <3>1. ASSUME NEW l \in 1..MaxLinks PROVE resolved'[l] = resolved[l] \/ resolved'[l] = Unset
      BY <2>1 DEF Shape
    <3> QED
      BY <2>1, <3>1, UnsetIsTyped DEF Configured
  <2>4. Carried'
    BY <2>1 DEF Carried, Busy, Calls
  <2>5. Progress'
    BY <2>1 DEF Progress, Between
  <2> QED
    BY <2>2, <2>3, <2>4, <2>5
<1> QED
  BY <1>1, <1>2, <1>3, <1>4, <1>5 DEF Relay

LEMMA SettledAlways == Spec => [](Inv /\ Settled)
<1>1. Init => Settled
  BY SettledInitially
<1>2. Inv /\ Settled /\ [Next]_vars => Settled'
  <2> SUFFICES ASSUME Inv, Settled, [Next]_vars PROVE Settled'
    OBVIOUS
  <2>1. CASE UNCHANGED vars
    BY <2>1 DEF vars, Settled, Kept, Helping, Configured, Carried, Progress, Agree, IsFile, AllLines
  <2> QED
    BY <2>1, OpenVpnSettles, RelaySettles DEF Next
<1> QED
  BY <1>1, <1>2, Invariant, PTL DEF Spec

(* The variables have their types, what systemd-resolved holds for every link     *)
(* included: what comes out of the options of the file is always a list of         *)
(* servers and one of domains, on a link that exists.                          *)
THEOREM TypeCorrect == Spec => []TypeOK
<1>1. Inv /\ Settled => TypeOK
  <2> SUFFICES ASSUME Inv, Settled PROVE TypeOK
    OBVIOUS
  <2>1. \A f \in {tmp, envFile} :
          f = NoFile \/ (f.of \in Session /\ f.lines \in 0..AllLines(f.of))
    BY DEF Settled, Kept, IsFile, File
  <2>2. relay.at \in {"waiting", "parsing", "locking", "done"} \cup Calls
    BY DEF Inv, Shape, Busy
  <2>3. link \in 0..links /\ links \in 0..MaxLinks
    BY DEF Inv, Shape
  <2> QED
    BY <2>1, <2>2, <2>3 DEF Settled, Kept, Configured, LinkSettings, TypeOK
<1> QED
  BY <1>1, SettledAlways, PTL

(* When the relay has caught up and its last attempt succeeded, the link holds     *)
(* exactly what the current session pushed, for any sessions, options, devices,    *)
(* refused calls and restarts in between, and in whatever order the hash map      *)
(* gives the options.                                                         *)
THEOREM DnsIsThatOfTheSession == Spec => []DnsSettles
<1>1. Inv /\ Settled => DnsSettles
  <2> SUFFICES ASSUME Inv, Settled,
                      relay.at = "waiting", unread = 0, phase = "up", outcome = "applied"
               PROVE  /\ Agree(ParseForeignOptions(session.options), session)
                      /\ Agree(resolved[link], session)
                      /\ resolved[link].route
    BY DEF DnsSettles, Agree
  <2>1. session.options \in Seq(Option)
    BY SessionFacts DEF Settled, Kept
  <2>2. Agree(ParseForeignOptions(session.options), session)
    BY <2>1, Parsed DEF Agree
  <2> QED
    BY <2>2 DEF Settled, Progress
<1> QED
  BY <1>1, SettledAlways, PTL
=============================================================================
