------------------------- MODULE Session_proofs --------------------------
(* Type correctness of the client session, that no prompt is replied to       *)
(* twice, and that the command reports failure of a connection that reported a  *)
(* state only when its OpenVPN is ending, for any clients, any number of       *)
(* prompts and of queued lines; and, for one client, that an unanswered        *)
(* question stays pending.                                                    *)
EXTENDS Session, SequenceTheorems, TLAPS

(* A ProvideCredentials call has taken prompt n and not replied yet. *)
Taken(x, n) == call[x].step = "taken" /\ call[x].prompt.n = n

Announced(n) == \E i \in 1..Len(lines) : lines[i].n = n

(* A prompt that can still be answered is in one place only: among the unread  *)
(* lines, pending, or taken by one call; and it has not been replied to.      *)
OnceInv ==
  /\ \A i, j \in 1..Len(lines) : IsPrompt(lines[i]) /\ lines[i].n = lines[j].n => i = j
  /\ \A n \in 1..MaxPrompts :
       /\ Announced(n) => pending.n # n
       /\ Announced(n) \/ pending.n = n \/ n > asked =>
            written[n] = 0 /\ \A x \in Client : ~Taken(x, n)
       /\ \A x, y \in Client : Taken(x, n) /\ Taken(y, n) => x = y
       /\ \A x \in Client : Taken(x, n) => written[n] = 0
       /\ written[n] <= 1

IInv == TypeOK /\ OnceInv

-----------------------------------------------------------------------------
LEMMA PromptFacts ==
  /\ \A p \in Prompt : p.n \in 1..MaxPrompts /\ p.realm \in Realm /\ IsPrompt(p)
  /\ NoPrompt.n = 0
  /\ \A s \in State \ {"none"} : StateLine(s) \in Line /\ StateLine(s).n = 0
  /\ CountLine \in Line /\ CountLine.n = 0 /\ ~IsPrompt(CountLine)
  /\ \A l \in Line : \/ l \in Prompt /\ IsPrompt(l)
                     \/ l.n = 0 /\ ~IsPrompt(l) /\ (l = CountLine \/ l.state \in State \ {"none"})
<1>1. \A p \in Prompt : p.n \in 1..MaxPrompts /\ p.realm \in Realm /\ IsPrompt(p)
  BY SessionAssumption DEF Prompt, IsPrompt
<1>2. \A s \in State \ {"none"} : StateLine(s) \in Line /\ StateLine(s).n = 0
  BY DEF Line, StateLine
<1>3. CountLine \in Line /\ CountLine.n = 0 /\ ~IsPrompt(CountLine)
  <2>1. CountLine.n = 0 /\ CountLine \in Line
    BY DEF CountLine, Line
  <2> QED
    BY <2>1 DEF IsPrompt
<1>4. ASSUME NEW l \in Line
      PROVE  \/ l \in Prompt /\ IsPrompt(l)
             \/ l.n = 0 /\ ~IsPrompt(l) /\ (l = CountLine \/ l.state \in State \ {"none"})
  <2>1. CASE l \in Prompt
    BY <2>1, <1>1
  <2>2. ASSUME NEW s \in State \ {"none"}, l = StateLine(s)
        PROVE  l.n = 0 /\ l.state \in State \ {"none"} /\ ~IsPrompt(l)
    <3>1. l.n = 0 /\ l.state = s
      BY <2>2 DEF StateLine
    <3>2. ~(0 > 0)
      BY SMT
    <3>3. ~IsPrompt(l)
      BY <3>1, <3>2, Zenon DEF IsPrompt
    <3>4. l.state \in State \ {"none"}
      BY <3>1
    <3> QED
      BY <3>1, <3>3, <3>4
  <2>3. l \in Prompt \/ l = CountLine \/ \E s \in State \ {"none"} : l = StateLine(s)
    BY DEF Line
  <2> QED
    BY <1>3, <2>1, <2>2, <2>3
<1> QED
  BY <1>1, <1>2, <1>3, <1>4 DEF NoPrompt

(* A line that is said goes to the end of the unread ones. *)
LEMMA SaysFacts ==
  ASSUME TypeOK, NEW line \in Line, Says(line)
  PROVE  /\ lines' \in Seq(Line) /\ Len(lines') = Len(lines) + 1 /\ Len(lines) \in Nat
         /\ Len(lines') <= MaxQueue
         /\ \A i \in 1..Len(lines) : lines'[i] = lines[i]
         /\ lines'[Len(lines) + 1] = line
<1>1. lines \in Seq(Line)
  BY DEF TypeOK
<1>2. Len(lines) < MaxQueue /\ lines' = Append(lines, line)
  BY DEF Says
<1> QED
  BY <1>1, <1>2, AppendProperties, LenProperties, SessionAssumption

LEMMA SignalFacts ==
  ASSUME TypeOK, NEW s \in Prompt \cup {Changed}, Signal(s)
  PROVE  inbox' \in [Client -> Seq(Prompt \cup {Changed})]
<1>1. ASSUME NEW x \in Client PROVE Append(inbox[x], s) \in Seq(Prompt \cup {Changed})
  BY AppendProperties DEF TypeOK
<1> QED
  BY <1>1 DEF Signal, TypeOK

LEMMA LinesTail ==
  ASSUME TypeOK, lines # <<>>
  PROVE  /\ Head(lines) \in Line /\ Head(lines) = lines[1]
         /\ Tail(lines) \in Seq(Line) /\ Len(Tail(lines)) = Len(lines) - 1
         /\ Len(lines) \in Nat /\ 1 \in 1..Len(lines)
         /\ \A i \in 1..Len(Tail(lines)) : Tail(lines)[i] = lines[i + 1]
<1>1. lines \in Seq(Line)
  BY DEF TypeOK
<1>2. Len(lines) \in Nat /\ Len(lines) # 0
  BY <1>1, LenProperties, EmptySeq
<1> QED
  BY <1>1, <1>2, HeadTailProperties

LEMMA TypeInit == Init => TypeOK
<1> SUFFICES ASSUME Init PROVE TypeOK
  OBVIOUS
<1>1. /\ lines \in Seq(Line) /\ Len(lines) = 0
      /\ toOpenVpn \in Seq([realm : Realm, user : BOOLEAN])
  BY EmptySeq DEF Init
<1>2. inbox \in [Client -> Seq(Prompt \cup {Changed})]
  BY EmptySeq DEF Init
<1>3. asked = 0 /\ asked \in 0..MaxPrompts /\ Len(lines) <= MaxQueue
  BY <1>1, SessionAssumption DEF Init
<1>4. \A i \in 1..Len(lines) : lines[i].n <= asked
  BY <1>1
<1>5. pending \in Prompt \cup {NoPrompt} /\ pending.n <= asked
  BY <1>3, PromptFacts DEF Init
<1>6. keyring \in Saved
  BY SessionAssumption DEF Init
<1>7. /\ phase \in {"starting", "refused", "up", "exiting", "dead"}
      /\ question \in Prompt \cup {NoPrompt}
      /\ accepted \subseteq Realm
      /\ registered \in BOOLEAN
      /\ state \in State
      /\ call \in [Client -> Call \cup {NoCall}]
      /\ cli \in {"starting", "following"} \cup Ended
      /\ asking \in [Client -> SUBSET Prompt]
      /\ written \in [1..MaxPrompts -> Nat]
  BY DEF Init, State
<1> QED
  BY <1>1, <1>2, <1>3, <1>4, <1>5, <1>6, <1>7 DEF TypeOK

(* What a call that is under way holds. *)
LEMMA CallFacts ==
  ASSUME TypeOK, NEW x \in Client
  PROVE  /\ call[x].step = "sent" \/ call[x].step = "taken" =>
              call[x].request \in Prompt /\ call[x].auto \in BOOLEAN
         /\ call[x].step = "taken" => call[x].prompt \in Prompt
         /\ NoCall.step # "sent" /\ NoCall.step # "taken"
         /\ \A p \in Prompt, auto \in BOOLEAN :
              /\ [step |-> "sent", request |-> p, auto |-> auto] \in Call
              /\ \A q \in Prompt :
                   [step |-> "taken", request |-> p, auto |-> auto, prompt |-> q] \in Call
<1>1. call[x] \in Call \cup {NoCall}
  BY DEF TypeOK
<1> QED
  BY <1>1 DEF Call, NoCall

(* The lines OpenVPN writes have the type of lines. *)
LEMMA PasswordLines ==
  ASSUME TypeOK, asked < MaxPrompts
  PROVE  \A q \in Needs \cup Failures : q \in Prompt /\ q \in Line /\ q.n = asked + 1
<1>1. asked + 1 \in 1..MaxPrompts
  BY SessionAssumption DEF TypeOK
<1>2. ASSUME NEW k \in Kind, NEW r \in Realm, NEW c \in BOOLEAN, NEW f \in BOOLEAN
      PROVE  /\ PasswordLine(k, r, c, f) \in Prompt
             /\ PasswordLine(k, r, c, f).n = asked + 1
  BY <1>1 DEF PasswordLine, Prompt
<1> QED
  BY <1>2 DEF Needs, Failures, Kind, Realm, Line

LEMMA QueueTypes ==
  ASSUME TypeOK, NEW line \in Line, Says(line), asked' \in 0..MaxPrompts,
         asked <= asked', line.n <= asked'
  PROVE  /\ lines' \in Seq(Line) /\ Len(lines') <= MaxQueue
         /\ \A i \in 1..Len(lines') : lines'[i].n <= asked'
<1>1. /\ lines' \in Seq(Line) /\ Len(lines') = Len(lines) + 1 /\ Len(lines) \in Nat
      /\ Len(lines') <= MaxQueue
      /\ \A i \in 1..Len(lines) : lines'[i] = lines[i]
      /\ lines'[Len(lines) + 1] = line
  BY SaysFacts
<1>2. ASSUME NEW i \in 1..Len(lines') PROVE lines'[i].n <= asked'
  <2>1. CASE i = Len(lines) + 1
    BY <1>1, <2>1
  <2>2. CASE i \in 1..Len(lines)
    <3>1. lines[i] \in Line /\ lines[i].n <= asked
      BY <2>2 DEF TypeOK
    <3>2. lines[i].n \in Nat
      BY <3>1, PromptFacts, SessionAssumption
    <3> QED
      BY <1>1, <2>2, <3>1, <3>2 DEF TypeOK
  <2> QED
    BY <1>1, <2>1, <2>2
<1> QED
  BY <1>1, <1>2

(* The line at the head, once it is read. *)
LEMMA RestTypes ==
  ASSUME TypeOK, lines # <<>>
  PROVE  /\ Tail(lines) \in Seq(Line) /\ Len(Tail(lines)) <= MaxQueue
         /\ \A i \in 1..Len(Tail(lines)) : Tail(lines)[i].n <= asked
         /\ Head(lines).n <= asked
<1>1. /\ Head(lines) \in Line /\ Head(lines) = lines[1]
      /\ Tail(lines) \in Seq(Line) /\ Len(Tail(lines)) = Len(lines) - 1
      /\ Len(lines) \in Nat /\ 1 \in 1..Len(lines)
      /\ \A i \in 1..Len(Tail(lines)) : Tail(lines)[i] = lines[i + 1]
  BY LinesTail
<1>2. ASSUME NEW i \in 1..Len(Tail(lines)) PROVE Tail(lines)[i].n <= asked
  <2>1. i + 1 \in 1..Len(lines)
    BY <1>1
  <2> QED
    BY <1>1, <2>1 DEF TypeOK
<1> QED
  BY <1>1, <1>2, SessionAssumption DEF TypeOK

(* Every process keeps the types: one lemma for each. *)
LEMMA OpenVpnTypes == ASSUME TypeOK, OpenVpn PROVE TypeOK'
<1> USE DEF openvpnVars, daemonVars, clientVars
<1>1. CASE Asks
  <2>1. PICK q \in Needs : question' = q /\ Says(q)
    BY <1>1 DEF Asks
  <2>2. q \in Prompt /\ q \in Line /\ q.n = asked + 1
    BY <1>1, PasswordLines DEF Asks
  <2>3. asked' = asked + 1 /\ asked' \in 0..MaxPrompts /\ asked <= asked'
    BY <1>1, SessionAssumption DEF Asks, TypeOK
  <2>4. /\ lines' \in Seq(Line) /\ Len(lines') <= MaxQueue
        /\ \A i \in 1..Len(lines') : lines'[i].n <= asked'
    BY <2>1, <2>2, <2>3, QueueTypes
  <2>5. pending.n <= asked'
    BY <2>3, PromptFacts DEF TypeOK
  <2> QED
    BY <1>1, <2>1, <2>2, <2>3, <2>4, <2>5 DEF Asks, TypeOK, Says
<1>2. CASE ReadsReply
  <2>1. toOpenVpn \in Seq([realm : Realm, user : BOOLEAN]) /\ toOpenVpn # <<>>
    BY <1>2 DEF ReadsReply, TypeOK
  <2>2. /\ Head(toOpenVpn) \in [realm : Realm, user : BOOLEAN]
        /\ Tail(toOpenVpn) \in Seq([realm : Realm, user : BOOLEAN])
    BY <2>1, HeadTailProperties
  <2>3. Head(toOpenVpn).realm \in Realm
    BY <2>2
  <2>4. accepted' \subseteq Realm /\ question' \in Prompt \cup {NoPrompt}
    BY <1>2, <2>3 DEF ReadsReply, TypeOK
  <2> QED
    BY <1>2, <2>2, <2>4 DEF ReadsReply, TypeOK
<1>3. CASE Refused
  <2>1. PICK f \in Failures : Says(f)
    BY <1>3 DEF Refused
  <2>2. f \in Line /\ f.n = asked + 1
    BY <1>3, PasswordLines DEF Refused
  <2>3. asked' = asked + 1 /\ asked' \in 0..MaxPrompts /\ asked <= asked'
    BY <1>3, SessionAssumption DEF Refused, TypeOK
  <2>4. /\ lines' \in Seq(Line) /\ Len(lines') <= MaxQueue
        /\ \A i \in 1..Len(lines') : lines'[i].n <= asked'
    BY <2>1, <2>2, <2>3, QueueTypes
  <2>5. pending.n <= asked'
    BY <2>3, PromptFacts DEF TypeOK
  <2> QED
    BY <1>3, <2>1, <2>3, <2>4, <2>5 DEF Refused, TypeOK, Says
<1>0. ASSUME NEW l \in Line, l.n = 0, Says(l), asked' = asked
      PROVE  /\ lines' \in Seq(Line) /\ Len(lines') <= MaxQueue
             /\ \A i \in 1..Len(lines') : lines'[i].n <= asked'
  <2>1. asked' \in 0..MaxPrompts /\ asked <= asked' /\ 0 <= asked'
    BY <1>0, SessionAssumption DEF TypeOK
  <2> QED
    BY <1>0, <2>1, QueueTypes
<1>4. ASSUME NEW s \in State \ {"none"}, Says(StateLine(s)), asked' = asked
      PROVE  /\ lines' \in Seq(Line) /\ Len(lines') <= MaxQueue
             /\ \A i \in 1..Len(lines') : lines'[i].n <= asked'
  BY <1>0, <1>4, PromptFacts
<1>5. {"WAIT", "CONNECTED", "RECONNECTING", "EXITING"} \subseteq State \ {"none"}
  BY DEF State
<1>6. CASE Waits
  BY <1>4, <1>5, <1>6 DEF Waits, Says, TypeOK
<1>7. CASE Connects
  BY <1>4, <1>5, <1>7 DEF Connects, Says, TypeOK
<1>8. CASE Reconnects
  BY <1>4, <1>5, <1>8 DEF Reconnects, Says, TypeOK
<1>9. CASE Announces
  BY <1>4, <1>5, <1>9 DEF Announces, Says, TypeOK
<1>10. CASE Dies
  BY <1>10 DEF Dies, TypeOK
<1>11. CASE CountsBytes
  <2>1. Says(CountLine) /\ UNCHANGED openvpnVars
    BY <1>11 DEF CountsBytes
  <2>2. asked' = asked
    BY <2>1
  <2>3. /\ lines' \in Seq(Line) /\ Len(lines') <= MaxQueue
        /\ \A i \in 1..Len(lines') : lines'[i].n <= asked'
    BY <1>0, <2>1, <2>2, PromptFacts
  <2> QED
    BY <2>1, <2>3 DEF Says, TypeOK
<1> QED
  BY <1>1, <1>2, <1>3, <1>6, <1>7, <1>8, <1>9, <1>10, <1>11 DEF OpenVpn

LEMMA RelayTypes == ASSUME TypeOK, Relay PROVE TypeOK'
<1> USE DEF openvpnVars, daemonVars, clientVars
<1>1. CASE RelayState
  <2>1. Head(lines) \in Line /\ ~IsPrompt(Head(lines)) /\ Head(lines) # CountLine
    BY <1>1, LinesTail DEF RelayState
  <2>2. state' \in State
    BY <1>1, <2>1, PromptFacts DEF RelayState
  <2>3. inbox' \in [Client -> Seq(Prompt \cup {Changed})]
    BY <1>1, SignalFacts DEF RelayState
  <2> QED
    BY <1>1, <2>2, <2>3, RestTypes DEF RelayState, TypeOK
<1>2. CASE RelayPrompt
  <2>1. Head(lines) \in Line /\ IsPrompt(Head(lines))
    BY <1>2, LinesTail DEF RelayPrompt
  <2>2. pending' \in Prompt
    BY <1>2, <2>1, PromptFacts DEF RelayPrompt
  <2>3. inbox' \in [Client -> Seq(Prompt \cup {Changed})]
    BY <1>2, <2>2, SignalFacts DEF RelayPrompt
  <2> QED
    BY <1>2, <2>2, <2>3, RestTypes DEF RelayPrompt, TypeOK
<1>3. CASE RelayEnds
  BY <1>3 DEF RelayEnds, TypeOK
<1>4. CASE RelayCount
  <2>1. inbox' \in [Client -> Seq(Prompt \cup {Changed})]
    BY <1>4, SignalFacts DEF RelayCount
  <2> QED
    BY <1>4, <2>1, RestTypes DEF RelayCount, TypeOK
<1> QED
  BY <1>1, <1>2, <1>3, <1>4 DEF Relay

LEMMA CallTypes ==
  ASSUME TypeOK, NEW x \in Client, ProvideCredentials(x)
  PROVE  TypeOK'
<1> USE DEF openvpnVars, daemonVars, clientVars
<1>1. CASE TakesPrompt(x)
  <2>1. call[x].step = "sent" /\ pending \in Prompt
    BY <1>1 DEF TakesPrompt, Takes, TypeOK
  <2>2. [step |-> "taken", request |-> call[x].request, auto |-> call[x].auto,
         prompt |-> pending] \in Call
    BY <2>1, CallFacts
  <2>3. call' \in [Client -> Call \cup {NoCall}]
    BY <1>1, <2>2 DEF TakesPrompt, Takes, TypeOK
  <2>4. /\ pending' \in Prompt \cup {NoPrompt}
        /\ pending'.n <= asked'
    BY <1>1, PromptFacts, SessionAssumption DEF TakesPrompt, TypeOK
  <2> QED
    BY <1>1, <2>3, <2>4 DEF TakesPrompt, TypeOK
<1>2. CASE WritesReply(x)
  <2>1. call[x].prompt \in Prompt
    BY <1>2, CallFacts DEF WritesReply
  <2>2. Reply(call[x].prompt) \in [realm : Realm, user : BOOLEAN]
    BY <2>1, PromptFacts DEF Reply
  <2>3. toOpenVpn' \in Seq([realm : Realm, user : BOOLEAN])
    BY <1>2, <2>2, AppendProperties DEF WritesReply, TypeOK
  <2>4. written' \in [1..MaxPrompts -> Nat]
    <3>1. call[x].prompt.n \in 1..MaxPrompts
      BY <2>1, PromptFacts
    <3> QED
      BY <1>2, <3>1 DEF WritesReply, TypeOK
  <2>5. call' \in [Client -> Call \cup {NoCall}]
    BY <1>2 DEF WritesReply, TypeOK
  <2> QED
    BY <1>2, <2>3, <2>4, <2>5 DEF WritesReply, TypeOK
<1>3. CASE CallFails(x)
  <2>1. call[x].request \in Prompt
    BY <1>3, CallFacts DEF CallFails
  <2>2. asking' \in [Client -> SUBSET Prompt]
    BY <1>3, <2>1 DEF CallFails, TypeOK
  <2>3. call' \in [Client -> Call \cup {NoCall}]
    BY <1>3 DEF CallFails, TypeOK
  <2> QED
    BY <1>3, <2>2, <2>3 DEF CallFails, TypeOK
<1> QED
  BY <1>1, <1>2, <1>3 DEF ProvideCredentials

(* A client's next signal, and the call it may make of it. *)
LEMMA InboxFacts ==
  ASSUME TypeOK, NEW x \in Client, inbox[x] # <<>>, inbox' = [inbox EXCEPT ![x] = Tail(@)]
  PROVE  /\ inbox' \in [Client -> Seq(Prompt \cup {Changed})]
         /\ IsPrompt(Head(inbox[x])) => Head(inbox[x]) \in Prompt
<1>1. inbox[x] \in Seq(Prompt \cup {Changed})
  BY DEF TypeOK
<1>2. /\ Head(inbox[x]) \in Prompt \cup {Changed}
      /\ Tail(inbox[x]) \in Seq(Prompt \cup {Changed})
  BY <1>1, HeadTailProperties
<1>3. ~IsPrompt(Changed)
  BY DEF IsPrompt, Changed
<1> QED
  BY <1>2, <1>3 DEF TypeOK

LEMMA CallsFacts ==
  ASSUME TypeOK, NEW x \in Client, NEW request \in Prompt, NEW auto \in BOOLEAN,
         Calls(x, request, auto)
  PROVE  call' \in [Client -> Call \cup {NoCall}]
<1>1. [step |-> "sent", request |-> request, auto |-> auto] \in Call
  BY CallFacts
<1> QED
  BY <1>1 DEF Calls, TypeOK

LEMMA CliTypes == ASSUME TypeOK, Cli PROVE TypeOK'
<1> USE DEF openvpnVars, daemonVars, clientVars
<1>1. ASSUME NEW seen, NEW ends PROVE Verdict(seen, ends) \in {"starting", "following"} \cup Ended
  BY DEF Verdict, Ended
<1>2. CASE BeginsFollowing
  BY <1>1, <1>2 DEF BeginsFollowing, TypeOK
<1>3. CASE CliSeesChange
  <2>1. inbox' \in [Client -> Seq(Prompt \cup {Changed})]
    BY <1>3, InboxFacts DEF CliSeesChange, CliNext
  <2> QED
    BY <1>1, <1>3, <2>1 DEF CliSeesChange, TypeOK
<1>4. CASE CliAsks
  <2>1. /\ inbox' \in [Client -> Seq(Prompt \cup {Changed})]
        /\ Head(inbox["cli"]) \in Prompt
    BY <1>4, InboxFacts DEF CliAsks, CliNext
  <2>2. asking' \in [Client -> SUBSET Prompt]
    BY <1>4, <2>1 DEF CliAsks, TypeOK
  <2> QED
    BY <1>4, <2>1, <2>2 DEF CliAsks, TypeOK
<1>5. CASE CliAnswers
  <2>1. PICK request \in asking["cli"] : Calls("cli", request, FALSE)
    BY <1>5 DEF CliAnswers
  <2>2. "cli" \in Client /\ request \in Prompt
    BY <1>5, <2>1 DEF CliAnswers, TypeOK
  <2>3. call' \in [Client -> Call \cup {NoCall}]
    BY <2>1, <2>2, CallsFacts
  <2>4. asking' \in [Client -> SUBSET Prompt]
    BY <1>5 DEF CliAnswers, TypeOK
  <2> QED
    BY <1>5, <2>3, <2>4 DEF CliAnswers, TypeOK
<1> QED
  BY <1>2, <1>3, <1>4, <1>5 DEF Cli

LEMMA GuiTypes == ASSUME TypeOK, Gui PROVE TypeOK'
<1> USE DEF openvpnVars, daemonVars, clientVars
<1>1. ASSUME GuiNext
      PROVE  /\ "gui" \in Client
             /\ inbox' \in [Client -> Seq(Prompt \cup {Changed})]
             /\ IsPrompt(Head(inbox["gui"])) => Head(inbox["gui"]) \in Prompt
  BY <1>1, InboxFacts DEF GuiNext, GuiIdle
<1>2. CASE GuiRefreshes
  BY <1>1, <1>2 DEF GuiRefreshes, TypeOK
<1>3. CASE GuiSendsSaved
  <2>1. "gui" \in Client /\ Head(inbox["gui"]) \in Prompt
    BY <1>1, <1>3 DEF GuiSendsSaved
  <2>2. call' \in [Client -> Call \cup {NoCall}]
    BY <1>3, <2>1, CallsFacts DEF GuiSendsSaved
  <2> QED
    BY <1>1, <1>3, <2>2 DEF GuiSendsSaved, TypeOK
<1>4. CASE GuiOpensDialog
  <2>1. Head(inbox["gui"]) \in Prompt
    BY <1>1, <1>4 DEF GuiOpensDialog
  <2>2. asking' \in [Client -> SUBSET Prompt]
    BY <1>4, <2>1 DEF GuiOpensDialog, TypeOK
  <2> QED
    BY <1>1, <1>4, <2>2 DEF GuiOpensDialog, TypeOK
<1>5. CASE GuiSubmits
  <2>1. PICK request \in asking["gui"] :
          /\ Calls("gui", request, FALSE)
          /\ asking' = [asking EXCEPT !["gui"] = @ \ {request}]
          /\ keyring' \in
               {[username |-> keyring.username \/ request.kind = "auth-user-pass",
                 password |-> TRUE],
                [username |-> FALSE, password |-> FALSE],
                keyring}
    BY <1>5 DEF GuiSubmits
  <2>2. "gui" \in Client /\ request \in Prompt
    BY <1>5, <2>1 DEF GuiSubmits, GuiIdle, TypeOK
  <2>3. call' \in [Client -> Call \cup {NoCall}]
    BY <2>1, <2>2, CallsFacts
  <2>4. asking' \in [Client -> SUBSET Prompt]
    BY <2>1, <2>2 DEF TypeOK
  <2>5. keyring' \in Saved
    <3>1. keyring \in Saved /\ keyring.username \in BOOLEAN
      BY DEF Saved, TypeOK
    <3>2. (keyring.username \/ request.kind = "auth-user-pass") \in BOOLEAN
      BY <3>1, Zenon
    <3>3. \A user \in BOOLEAN, password \in BOOLEAN :
            [username |-> user, password |-> password] \in Saved
      BY DEF Saved
    <3>4. keyring' \in
            {[username |-> keyring.username \/ request.kind = "auth-user-pass",
              password |-> TRUE],
             [username |-> FALSE, password |-> FALSE],
             keyring}
      BY <2>1
    <3>5. /\ [username |-> keyring.username \/ request.kind = "auth-user-pass",
              password |-> TRUE] \in Saved
          /\ [username |-> FALSE, password |-> FALSE] \in Saved
      BY <3>2, <3>3, Zenon
    <3> QED
      BY <3>1, <3>4, <3>5, Zenon
  <2> QED
    BY <1>5, <2>3, <2>4, <2>5 DEF GuiSubmits, TypeOK
<1>6. CASE GuiCancels
  <2>1. asking' \in [Client -> SUBSET Prompt]
    BY <1>6 DEF GuiCancels, GuiIdle, TypeOK
  <2> QED
    BY <1>6, <2>1 DEF GuiCancels, TypeOK
<1> QED
  BY <1>2, <1>3, <1>4, <1>5, <1>6 DEF Gui

LEMMA TypeNext == ASSUME TypeOK, [Next]_vars PROVE TypeOK'
<1>1. CASE UNCHANGED vars
  BY <1>1 DEF vars, openvpnVars, daemonVars, clientVars, TypeOK
<1> QED
  BY <1>1, OpenVpnTypes, RelayTypes, CallTypes, CliTypes, GuiTypes DEF Next

(* Every variable keeps its type; in particular, what is pending and what a   *)
(* client answers is always a prompt the relay has announced.                *)
THEOREM TypeCorrect == Spec => []TypeOK
<1> QED
  BY TypeInit, TypeNext, PTL DEF Spec

-----------------------------------------------------------------------------
(* No prompt is replied to twice.                                           *)

LEMMA OnceInit == Init => OnceInv
<1> SUFFICES ASSUME Init PROVE OnceInv
  OBVIOUS
<1>1. Len(lines) = 0 /\ \A n \in 1..MaxPrompts : ~Announced(n)
  BY EmptySeq DEF Init, Announced
<1>2. pending.n = 0 /\ \A n \in 1..MaxPrompts : n # 0 /\ written[n] = 0
  BY PromptFacts, SessionAssumption DEF Init
<1>3. ASSUME NEW x \in Client, NEW n PROVE ~Taken(x, n)
  BY DEF Init, Taken, NoCall
<1> QED
  BY <1>1, <1>2, <1>3 DEF OnceInv

(* A step that moves no prompt, except by ending a call that has taken one.   *)
LEMMA QuietOnce ==
  ASSUME OnceInv, UNCHANGED <<lines, pending, asked, written>>,
         \A x \in Client : \A n \in 1..MaxPrompts : Taken(x, n)' => Taken(x, n)
  PROVE  OnceInv'
<1>1. \A n \in 1..MaxPrompts : Announced(n)' <=> Announced(n)
  BY DEF Announced
<1> QED
  BY <1>1 DEF OnceInv

(* A new line comes after the unread ones: it is a state, or has a new number. *)
LEMMA SaysOnce ==
  ASSUME IInv, NEW line \in Line, Says(line),
         \/ ~IsPrompt(line) /\ asked' = asked
         \/ IsPrompt(line) /\ line.n = asked + 1 /\ asked' = asked + 1
  PROVE  OnceInv'
<1>1. TypeOK /\ OnceInv
  BY DEF IInv
<1>2. /\ lines' \in Seq(Line) /\ Len(lines') = Len(lines) + 1 /\ Len(lines) \in Nat
      /\ Len(lines') <= MaxQueue
      /\ \A i \in 1..Len(lines) : lines'[i] = lines[i]
      /\ lines'[Len(lines) + 1] = line
  BY <1>1, SaysFacts
<1>3. UNCHANGED <<pending, call, written>>
  BY DEF Says, daemonVars, clientVars
<1>4. \A x \in Client : \A n : Taken(x, n)' <=> Taken(x, n)
  BY <1>3 DEF Taken
<1>5. asked \in Nat /\ pending.n <= asked /\ pending.n \in Nat
  BY <1>1, PromptFacts, SessionAssumption DEF TypeOK
<1>6. \A i \in 1..Len(lines) : lines[i].n <= asked /\ lines[i].n \in Nat
  <2>1. \A i \in 1..Len(lines) : lines[i] \in Line
    BY <1>1 DEF TypeOK
  <2> QED
    BY <1>1, <2>1, PromptFacts, SessionAssumption DEF TypeOK
<1>7. ASSUME NEW n \in 1..MaxPrompts, Announced(n)'
      PROVE  Announced(n) \/ n = line.n
  BY <1>2, <1>7 DEF Announced
<1>8. line.n \in Nat /\ (~IsPrompt(line) => line.n = 0)
  BY PromptFacts, SessionAssumption
<1>9. ASSUME NEW i \in 1..Len(lines'), NEW j \in 1..Len(lines'),
             IsPrompt(lines'[i]), lines'[i].n = lines'[j].n
      PROVE  i = j
  <2>1. CASE i \in 1..Len(lines) /\ j \in 1..Len(lines)
    BY <1>1, <1>2, <1>9, <2>1 DEF OnceInv
  <2>2. CASE i \in 1..Len(lines) /\ j = Len(lines) + 1
    BY <1>2, <1>5, <1>6, <1>8, <1>9, <2>2 DEF IsPrompt
  <2>3. CASE i = Len(lines) + 1 /\ j \in 1..Len(lines)
    BY <1>2, <1>5, <1>6, <1>8, <1>9, <2>3 DEF IsPrompt
  <2> QED
    BY <1>2, <1>9, <2>1, <2>2, <2>3
<1>10. ASSUME NEW n \in 1..MaxPrompts
       PROVE  /\ Announced(n)' => pending'.n # n
              /\ Announced(n)' \/ pending'.n = n \/ n > asked' =>
                   written'[n] = 0 /\ \A x \in Client : ~Taken(x, n)'
  <2>1. CASE n = line.n
    <3>1. n = asked + 1
      BY <1>8, <2>1
    <3>2. written[n] = 0 /\ \A x \in Client : ~Taken(x, n)
      BY <1>1, <1>5, <3>1 DEF OnceInv
    <3> QED
      BY <1>3, <1>4, <1>5, <3>1, <3>2
  <2>2. CASE n # line.n
    <3>1. n > asked' => n > asked
      BY <1>5
    <3> QED
      BY <1>1, <1>3, <1>4, <1>7, <2>2, <3>1 DEF OnceInv
  <2> QED
    BY <2>1, <2>2
<1>11. \A n \in 1..MaxPrompts :
         /\ \A x, y \in Client : Taken(x, n)' /\ Taken(y, n)' => x = y
         /\ \A x \in Client : Taken(x, n)' => written'[n] = 0
         /\ written'[n] <= 1
  BY <1>1, <1>3, <1>4 DEF OnceInv
<1> QED
  BY <1>9, <1>10, <1>11 DEF OnceInv

(* The line at the head leaves the channel, and no other has its number. *)
LEMMA HeadOnce ==
  ASSUME IInv, lines # <<>>, lines' = Tail(lines)
  PROVE  /\ \A i, j \in 1..Len(lines') :
              IsPrompt(lines'[i]) /\ lines'[i].n = lines'[j].n => i = j
         /\ \A n : Announced(n)' => Announced(n)
         /\ \A n : n = Head(lines).n /\ IsPrompt(Head(lines)) =>
              Announced(n) /\ ~Announced(n)'
<1>1. /\ Head(lines) = lines[1]
      /\ Len(lines') = Len(lines) - 1
      /\ Len(lines) \in Nat /\ 1 \in 1..Len(lines)
      /\ \A i \in 1..Len(lines') : lines'[i] = lines[i + 1]
  BY LinesTail DEF IInv
<1>2. \A i \in 1..Len(lines') : i + 1 \in 1..Len(lines) /\ i + 1 # 1
  BY <1>1
<1>3. \A i, j \in 1..Len(lines) : IsPrompt(lines[i]) /\ lines[i].n = lines[j].n => i = j
  BY DEF IInv, OnceInv
<1>4. \A i, j \in 1..Len(lines') :
        IsPrompt(lines'[i]) /\ lines'[i].n = lines'[j].n => i = j
  <2> SUFFICES ASSUME NEW i \in 1..Len(lines'), NEW j \in 1..Len(lines'),
                      IsPrompt(lines'[i]), lines'[i].n = lines'[j].n
               PROVE  i = j
    OBVIOUS
  <2>1. i + 1 = j + 1
    BY <1>1, <1>2, <1>3
  <2> QED
    BY <1>1, <2>1
<1>5. \A n : Announced(n)' => Announced(n)
  BY <1>1, <1>2 DEF Announced
<1>6. ASSUME IsPrompt(Head(lines)), NEW n, n = Head(lines).n
      PROVE  Announced(n) /\ ~Announced(n)'
  <2>1. Announced(n)
    BY <1>1, <1>6 DEF Announced
  <2>2. ASSUME NEW i \in 1..Len(lines'), lines'[i].n = n
        PROVE  FALSE
    BY <1>1, <1>2, <1>3, <1>6, <2>2
  <2> QED
    BY <2>1, <2>2 DEF Announced
<1> QED
  BY <1>4, <1>5, <1>6

LEMMA RelayOnce == ASSUME IInv, Relay PROVE OnceInv'
<1> USE DEF openvpnVars, daemonVars, clientVars
<1>1. TypeOK /\ OnceInv
  BY DEF IInv
<1>2. UNCHANGED <<call, written, asked>>
  BY DEF Relay, RelayState, RelayCount, RelayPrompt, RelayEnds
<1>3. \A x \in Client : \A n : Taken(x, n)' <=> Taken(x, n)
  BY <1>2 DEF Taken
<1>4. CASE RelayState \/ RelayCount
  <2>1. pending' = pending /\ lines # <<>> /\ lines' = Tail(lines)
    BY <1>4 DEF RelayState, RelayCount
  <2> QED
    BY <1>1, <1>2, <1>3, <2>1, HeadOnce DEF OnceInv
<1>5. CASE RelayPrompt
  <2>1. /\ pending' = Head(lines) /\ lines # <<>> /\ lines' = Tail(lines)
        /\ IsPrompt(Head(lines))
    BY <1>5 DEF RelayPrompt
  <2>2. \A n \in 1..MaxPrompts : Announced(n)' => pending'.n # n
    BY <2>1, HeadOnce
  <2>3. \A n \in 1..MaxPrompts : Announced(n)' \/ pending'.n = n => Announced(n)
    BY <2>1, HeadOnce
  <2>4. \A i, j \in 1..Len(lines') :
          IsPrompt(lines'[i]) /\ lines'[i].n = lines'[j].n => i = j
    BY <2>1, HeadOnce
  <2> QED
    BY <1>1, <1>2, <1>3, <2>2, <2>3, <2>4 DEF OnceInv
<1>6. CASE RelayEnds
  BY <1>1, <1>2, <1>3, <1>6, QuietOnce DEF RelayEnds
<1> QED
  BY <1>4, <1>5, <1>6 DEF Relay

LEMMA OpenVpnOnce == ASSUME IInv, OpenVpn PROVE OnceInv'
<1> USE DEF openvpnVars, daemonVars, clientVars
<1>1. TypeOK /\ OnceInv
  BY DEF IInv
<1>2. CASE Asks \/ Refused
  <2>1. PICK q \in Needs \cup Failures : Says(q)
    BY <1>2 DEF Asks, Refused
  <2>2. q \in Prompt /\ q \in Line /\ q.n = asked + 1 /\ asked' = asked + 1
    BY <1>1, <1>2, PasswordLines DEF Asks, Refused
  <2> QED
    BY <2>1, <2>2, PromptFacts, SaysOnce
<1>3. CASE ReadsReply \/ Dies
  BY <1>1, <1>3, QuietOnce DEF ReadsReply, Dies, Taken
<1>4. CASE Waits \/ Connects \/ Reconnects \/ Announces
  <2>1. PICK s \in State \ {"none"} : Says(StateLine(s)) /\ asked' = asked
    BY <1>4 DEF Waits, Connects, Reconnects, Announces, State
  <2>2. StateLine(s) \in Line /\ ~IsPrompt(StateLine(s))
    BY PromptFacts DEF IsPrompt
  <2> QED
    BY <2>1, <2>2, SaysOnce
<1>5. CASE CountsBytes
  <2>1. Says(CountLine) /\ asked' = asked
    BY <1>5 DEF CountsBytes
  <2> QED
    BY <2>1, PromptFacts, SaysOnce
<1> QED
  BY <1>2, <1>3, <1>4, <1>5 DEF OpenVpn

LEMMA CallOnce ==
  ASSUME IInv, NEW x \in Client, ProvideCredentials(x)
  PROVE  OnceInv'
<1> USE DEF openvpnVars, daemonVars, clientVars
<1>1. TypeOK /\ OnceInv /\ call \in [Client -> Call \cup {NoCall}]
  BY DEF IInv, TypeOK
<1>2. CASE TakesPrompt(x)
  <2>1. /\ pending \in Prompt /\ pending' = NoPrompt
        /\ UNCHANGED <<lines, asked, written>>
    BY <1>1, <1>2 DEF TakesPrompt, Takes, TypeOK
  <2>2. call'[x].step = "taken" /\ call'[x].prompt = pending
    BY <1>1, <1>2 DEF TakesPrompt, Takes
  <2>3. \A y \in Client \ {x} : call'[y] = call[y]
    BY <1>1, <1>2 DEF TakesPrompt, Takes
  <2>4. \A y \in Client, n \in 1..MaxPrompts :
          Taken(y, n)' <=> (IF y = x THEN n = pending.n ELSE Taken(y, n))
    BY <2>2, <2>3 DEF Taken
  <2>5. \A n \in 1..MaxPrompts : Announced(n)' <=> Announced(n)
    BY <2>1 DEF Announced
  <2>6. pending'.n = 0 /\ \A n \in 1..MaxPrompts : n # 0
    BY <2>1, PromptFacts, SessionAssumption
  <2>7. pending.n <= asked /\ pending.n \in 1..MaxPrompts /\ asked \in Nat
    BY <1>1, <2>1, PromptFacts, SessionAssumption DEF TypeOK
  <2>8. ASSUME NEW n \in 1..MaxPrompts
        PROVE  /\ Announced(n)' => pending'.n # n
               /\ Announced(n)' \/ pending'.n = n \/ n > asked' =>
                    written'[n] = 0 /\ \A y \in Client : ~Taken(y, n)'
               /\ \A y, z \in Client : Taken(y, n)' /\ Taken(z, n)' => y = z
               /\ \A y \in Client : Taken(y, n)' => written'[n] = 0
               /\ written'[n] <= 1
    <3>1. CASE n = pending.n
      <4>1. written[n] = 0 /\ (\A y \in Client : ~Taken(y, n)) /\ ~Announced(n)
        BY <1>1, <3>1 DEF OnceInv
      <4>2. ~(n > asked)
        BY <2>7, <3>1
      <4> QED
        BY <2>1, <2>4, <2>5, <2>6, <3>1, <4>1, <4>2
    <3>2. CASE n # pending.n
      <4>1. ~Taken(x, n)
        BY <1>2 DEF TakesPrompt, Takes, Taken
      <4>2. \A y \in Client : Taken(y, n)' <=> Taken(y, n)
        BY <2>4, <3>2, <4>1
      <4> QED
        BY <1>1, <2>1, <2>5, <2>6, <4>2 DEF OnceInv
    <3> QED
      BY <3>1, <3>2
  <2> QED
    BY <1>1, <2>1, <2>8 DEF OnceInv
<1>3. CASE WritesReply(x)
  <2> DEFINE m == call[x].prompt.n
  <2>1. /\ UNCHANGED <<lines, pending, asked>>
        /\ written' = [written EXCEPT ![m] = @ + 1]
        /\ call' = [call EXCEPT ![x] = NoCall]
    BY <1>3 DEF WritesReply
  <2>2. Taken(x, m)
    BY <1>3 DEF WritesReply, Taken
  <2>3. m \in 1..MaxPrompts
    BY <1>1, <1>3, CallFacts, PromptFacts DEF WritesReply
  <2>4. /\ written[m] = 0 /\ ~Announced(m) /\ pending.n # m /\ ~(m > asked)
        /\ \A y \in Client : Taken(y, m) => y = x
    BY <1>1, <2>2, <2>3 DEF OnceInv
  <2>5. \A y \in Client, n \in 1..MaxPrompts : Taken(y, n)' <=> y # x /\ Taken(y, n)
    BY <1>1, <2>1 DEF Taken, NoCall
  <2>6. \A n \in 1..MaxPrompts : Announced(n)' <=> Announced(n)
    BY <2>1 DEF Announced
  <2>7. written'[m] = 1 /\ \A n \in 1..MaxPrompts : n # m => written'[n] = written[n]
    BY <1>1, <2>1, <2>3, <2>4 DEF TypeOK
  <2> HIDE DEF m
  <2>8. ASSUME NEW n \in 1..MaxPrompts
        PROVE  /\ Announced(n)' => pending'.n # n
               /\ Announced(n)' \/ pending'.n = n \/ n > asked' =>
                    written'[n] = 0 /\ \A y \in Client : ~Taken(y, n)'
               /\ \A y, z \in Client : Taken(y, n)' /\ Taken(z, n)' => y = z
               /\ \A y \in Client : Taken(y, n)' => written'[n] = 0
               /\ written'[n] <= 1
    <3>1. CASE n = m
      BY <2>1, <2>4, <2>5, <2>6, <2>7, <3>1
    <3>2. CASE n # m
      BY <1>1, <2>1, <2>5, <2>6, <2>7, <3>2 DEF OnceInv
    <3> QED
      BY <3>1, <3>2
  <2> QED
    BY <1>1, <2>1, <2>8 DEF OnceInv
<1>4. CASE CallFails(x)
  <2>1. UNCHANGED <<lines, pending, asked, written>> /\ call' = [call EXCEPT ![x] = NoCall]
    BY <1>4 DEF CallFails
  <2>2. \A y \in Client : \A n \in 1..MaxPrompts : Taken(y, n)' => Taken(y, n)
    BY <1>1, <2>1 DEF Taken, NoCall
  <2> QED
    BY <1>1, <2>1, <2>2, QuietOnce
<1> QED
  BY <1>2, <1>3, <1>4 DEF ProvideCredentials

LEMMA ClientOnce == ASSUME IInv, Cli \/ Gui PROVE OnceInv'
<1> USE DEF openvpnVars, daemonVars, clientVars
<1>1. OnceInv /\ call \in [Client -> Call \cup {NoCall}]
  BY DEF IInv, TypeOK
<1>2. UNCHANGED <<lines, pending, asked, written>>
  BY DEF Cli, BeginsFollowing, CliSeesChange, CliAsks, CliAnswers,
         Gui, GuiRefreshes, GuiSendsSaved, GuiOpensDialog, GuiSubmits, GuiCancels
<1>3. \/ call' = call
      \/ \E x \in Client : \E request, auto : Calls(x, request, auto)
  BY DEF Cli, BeginsFollowing, CliSeesChange, CliAsks, CliAnswers,
         Gui, GuiRefreshes, GuiSendsSaved, GuiOpensDialog, GuiSubmits, GuiCancels,
         GuiNext, GuiIdle
<1>4. ASSUME NEW y \in Client, NEW n \in 1..MaxPrompts, Taken(y, n)'
      PROVE  Taken(y, n)
  BY <1>1, <1>3, <1>4 DEF Taken, Calls
<1> QED
  BY <1>1, <1>2, <1>4, QuietOnce

LEMMA OnceNext == ASSUME IInv, [Next]_vars PROVE IInv'
<1>1. TypeOK'
  BY TypeNext DEF IInv
<1>2. ASSUME UNCHANGED vars PROVE OnceInv'
  BY <1>2, QuietOnce DEF IInv, vars, openvpnVars, daemonVars, clientVars, Taken
<1>3. OnceInv'
  BY <1>2, OpenVpnOnce, RelayOnce, CallOnce, ClientOnce DEF Next
<1> QED
  BY <1>1, <1>3 DEF IInv

(* No prompt is replied to twice, even when the command and the GUI answer it  *)
(* at once: ProvideCredentials takes the pending prompt before it replies.    *)
THEOREM AnsweredOnce == Spec => []NoPromptAnsweredTwice
<1>1. Init => IInv
  BY TypeInit, OnceInit DEF IInv
<1>2. IInv /\ [Next]_vars => IInv'
  BY OnceNext
<1>3. IInv => NoPromptAnsweredTwice
  BY DEF IInv, OnceInv, NoPromptAnsweredTwice
<1> QED
  BY <1>1, <1>2, <1>3, PTL DEF Spec

-----------------------------------------------------------------------------
(* A state line, a state or an object that is gone tell of the end only when   *)
(* OpenVPN is ending.                                                         *)
Ending == phase \in {"exiting", "dead"}
SaysExit(l) == ~IsPrompt(l) /\ l # CountLine /\ l.state = "EXITING"
EndInv ==
  /\ state = "EXITING" => Ending
  /\ \A i \in 1..Len(lines) : SaysExit(lines[i]) => Ending
  /\ ~registered => phase = "dead"

LEMMA EndInit == Init => EndInv
<1> SUFFICES ASSUME Init PROVE EndInv
  OBVIOUS
<1>1. Len(lines) = 0
  BY EmptySeq DEF Init
<1> QED
  BY <1>1 DEF Init, EndInv

(* What OpenVPN says of an exit it says when it exits.                        *)
LEMMA OpenVpnEnd == ASSUME TypeOK, EndInv, OpenVpn PROVE EndInv'
<1> USE DEF openvpnVars, daemonVars, clientVars
<1>1. UNCHANGED <<registered, state>>
  BY DEF OpenVpn, Asks, ReadsReply, Refused, Waits, Connects, Reconnects, Announces,
         CountsBytes, Dies, Says
<1>2. (Ending => Ending') /\ (phase = "dead" => phase' = "dead")
  BY DEF OpenVpn, Asks, ReadsReply, Refused, Waits, Connects, Reconnects, Announces,
         CountsBytes, Dies, Ending
<1>3. ASSUME NEW line \in Line, Says(line), SaysExit(line) => Ending'
      PROVE  \A i \in 1..Len(lines') : SaysExit(lines'[i]) => Ending'
  <2>1. /\ Len(lines') = Len(lines) + 1 /\ Len(lines) \in Nat
        /\ \A i \in 1..Len(lines) : lines'[i] = lines[i]
        /\ lines'[Len(lines) + 1] = line
    BY <1>3, SaysFacts
  <2> SUFFICES ASSUME NEW i \in 1..Len(lines'), SaysExit(lines'[i])
               PROVE  Ending'
    OBVIOUS
  <2>2. CASE i = Len(lines) + 1
    BY <1>3, <2>1, <2>2
  <2>3. CASE i # Len(lines) + 1
    <3>1. i \in 1..Len(lines)
      BY <2>1, <2>3
    <3> QED
      BY <1>2, <2>1, <3>1 DEF EndInv
  <2> QED
    BY <2>2, <2>3
<1>4. \A i \in 1..Len(lines') : SaysExit(lines'[i]) => Ending'
  <2>1. CASE Asks \/ Refused
    <3>1. PICK q \in Needs \cup Failures : Says(q)
      BY <2>1 DEF Asks, Refused
    <3>2. q \in Line /\ ~SaysExit(q)
      BY <2>1, PasswordLines, PromptFacts DEF Asks, Refused, SaysExit
    <3> QED
      BY <1>3, <3>1, <3>2
  <2>2. CASE Waits \/ Connects \/ Reconnects
    <3>1. PICK s \in {"WAIT", "CONNECTED", "RECONNECTING"} : Says(StateLine(s))
      BY <2>2 DEF Waits, Connects, Reconnects
    <3>2. StateLine(s) \in Line /\ StateLine(s).state # "EXITING"
      BY PromptFacts DEF State, StateLine
    <3> QED
      BY <1>3, <3>1, <3>2 DEF SaysExit
  <2>3. CASE CountsBytes
    <3>1. Says(CountLine) /\ CountLine \in Line /\ ~SaysExit(CountLine)
      BY <2>3, PromptFacts DEF CountsBytes, SaysExit
    <3> QED
      BY <1>3, <3>1
  <2>4. CASE Announces
    <3>1. Says(StateLine("EXITING")) /\ Ending'
      BY <2>4 DEF Announces, Ending
    <3>2. StateLine("EXITING") \in Line
      BY PromptFacts DEF State
    <3> QED
      BY <1>3, <3>1, <3>2
  <2>5. CASE ReadsReply \/ Dies
    <3>1. lines' = lines
      BY <2>5 DEF ReadsReply, Dies
    <3> QED
      BY <1>2, <3>1 DEF EndInv
  <2> QED
    BY <2>1, <2>2, <2>3, <2>4, <2>5 DEF OpenVpn
<1> QED
  BY <1>1, <1>2, <1>4 DEF EndInv

(* The relay hands on what it reads, and leaves only a process that is dead.    *)
LEMMA RelayEnd == ASSUME TypeOK, EndInv, Relay PROVE EndInv'
<1> USE DEF openvpnVars, daemonVars, clientVars
<1>1. phase' = phase
  BY DEF Relay, RelayState, RelayCount, RelayPrompt, RelayEnds
<1>2. ASSUME lines # <<>>, lines' = Tail(lines)
      PROVE  \A i \in 1..Len(lines') : SaysExit(lines'[i]) => Ending'
  <2>1. /\ Len(lines') = Len(lines) - 1 /\ Len(lines) \in Nat
        /\ \A i \in 1..Len(lines') : lines'[i] = lines[i + 1]
    BY <1>2, LinesTail
  <2>2. \A i \in 1..Len(lines') : i + 1 \in 1..Len(lines)
    BY <2>1
  <2> QED
    BY <1>1, <2>1, <2>2 DEF EndInv, Ending
<1>3. CASE RelayState
  <2>1. /\ lines # <<>> /\ lines' = Tail(lines) /\ registered' = registered
        /\ ~IsPrompt(Head(lines)) /\ Head(lines) # CountLine /\ state' = Head(lines).state
    BY <1>3 DEF RelayState
  <2>2. Head(lines) = lines[1] /\ 1 \in 1..Len(lines)
    BY <2>1, LinesTail
  <2>3. state' = "EXITING" => Ending
    BY <2>1, <2>2 DEF EndInv, SaysExit
  <2> QED
    BY <1>1, <1>2, <2>1, <2>3 DEF EndInv, Ending
<1>4. CASE RelayPrompt \/ RelayCount
  <2>1. lines # <<>> /\ lines' = Tail(lines) /\ state' = state /\ registered' = registered
    BY <1>4 DEF RelayPrompt, RelayCount
  <2> QED
    BY <1>1, <1>2, <2>1 DEF EndInv, Ending
<1>5. CASE RelayEnds
  BY <1>1, <1>5 DEF RelayEnds, EndInv, Ending
<1> QED
  BY <1>3, <1>4, <1>5 DEF Relay

(* The clients change nothing of it.                                          *)
LEMMA ClientEnd ==
  ASSUME EndInv, (\E x \in Client : ProvideCredentials(x)) \/ Cli \/ Gui
  PROVE  EndInv'
<1> USE DEF openvpnVars, daemonVars, clientVars
<1>1. UNCHANGED <<phase, lines, registered, state>>
  BY DEF ProvideCredentials, TakesPrompt, Takes, WritesReply, CallFails, Cli, BeginsFollowing,
         CliSeesChange, CliAsks, CliAnswers, Gui, GuiRefreshes, GuiSendsSaved, GuiOpensDialog,
         GuiSubmits, GuiCancels
<1> QED
  BY <1>1 DEF EndInv, Ending

LEMMA EndNext == ASSUME TypeOK, EndInv, [Next]_vars PROVE EndInv'
<1>1. ASSUME UNCHANGED vars PROVE EndInv'
  BY <1>1 DEF vars, openvpnVars, daemonVars, clientVars, EndInv, Ending
<1> QED
  BY <1>1, OpenVpnEnd, RelayEnd, ClientEnd DEF Next

(* The command reports failure only of an OpenVPN that is ending, or of one     *)
(* that has not reported a state yet.                                          *)
THEOREM FailureIsEnd == Spec => FailureMeansEnd
<1> DEFINE Inv == TypeOK /\ EndInv
<1> DEFINE Ends == cli # "disconnected" /\ cli' = "disconnected" =>
                     phase \in {"exiting", "dead"} \/ (registered /\ state = "none")
<1>1. Init => Inv
  BY TypeInit, EndInit
<1>2. Inv /\ [Next]_vars => Inv'
  BY TypeNext, EndNext
<1>3. ASSUME EndInv, Next PROVE Ends
  <2> USE DEF openvpnVars, daemonVars, clientVars
  <2>1. CASE BeginsFollowing \/ CliSeesChange
    <3>1. cli' \in {Verdict(Seen, {"EXITING"}), Verdict(Seen, {"none", "EXITING"})}
      BY <2>1 DEF BeginsFollowing, CliSeesChange
    <3>2. cli' = "disconnected" => Seen \in {"none", "EXITING"}
      BY <3>1 DEF Verdict
    <3> QED
      BY <1>3, <3>2 DEF Seen, EndInv, Ending
  <2>2. CASE cli' = cli
    BY <2>2
  <2>3. OpenVpn \/ Relay => cli' = cli
    BY DEF OpenVpn, Asks, ReadsReply, Refused, Waits, Connects, Reconnects, Announces,
           CountsBytes, Dies, Says, Relay, RelayState, RelayCount, RelayPrompt, RelayEnds
  <2>4. (\E x \in Client : ProvideCredentials(x)) \/ CliAsks \/ CliAnswers \/ Gui => cli' = cli
    BY DEF ProvideCredentials, TakesPrompt, Takes, WritesReply, CallFails, CliAsks, CliAnswers,
           Gui, GuiRefreshes, GuiSendsSaved, GuiOpensDialog, GuiSubmits, GuiCancels
  <2> QED
    BY <1>3, <2>1, <2>2, <2>3, <2>4 DEF Next, Cli
<1>4. Inv /\ [Next]_vars => [Ends]_vars
  BY <1>3
<1> QED
  BY <1>1, <1>2, <1>4, PTL DEF Spec, FailureMeansEnd

-----------------------------------------------------------------------------
(* The way of a question to its answer, when one client answers and a refused   *)
(* login is the end.  At each stage the question is in one place only, and      *)
(* nothing that could be mistaken for it, or for its answer, is anywhere else.   *)
Clean(s) == \A i \in 1..Len(s) : ~IsPrompt(s[i])
Holds(s, q) == \E i \in 1..Len(s) : s[i] = q /\ \A j \in 1..Len(s) : j # i => ~IsPrompt(s[j])

Free(x) == Clean(inbox[x]) /\ asking[x] = {} /\ call[x] = NoCall
Signalled(x) == Holds(inbox[x], question) /\ asking[x] = {} /\ call[x] = NoCall
Shown(x) == Clean(inbox[x]) /\ asking[x] = {question} /\ call[x] = NoCall
Answering(x) ==
  Clean(inbox[x]) /\ asking[x] = {} /\ call[x].step = "sent" /\ call[x].request = question
Replying(x) ==
  /\ Clean(inbox[x]) /\ asking[x] = {}
  /\ call[x].step = "taken" /\ call[x].request = question /\ call[x].prompt = question

Unread ==
  /\ Holds(lines, question) /\ pending = NoPrompt /\ toOpenVpn = <<>>
  /\ \A x \in Client : Free(x)
Offered ==
  /\ Clean(lines) /\ pending = question /\ toOpenVpn = <<>>
  /\ \A x \in Client : Free(x) \/ Signalled(x) \/ Shown(x) \/ Answering(x)
TakenUp ==
  /\ Clean(lines) /\ pending = NoPrompt /\ toOpenVpn = <<>>
  /\ \E x \in Client : Replying(x)
Replied ==
  /\ Clean(lines) /\ pending = NoPrompt /\ toOpenVpn = <<Reply(question)>>
  /\ written[question.n] > 0
  /\ \A x \in Client : Free(x)

(* Between two questions there is no prompt and no reply anywhere.             *)
Quiet ==
  /\ Clean(lines) /\ pending = NoPrompt /\ toOpenVpn = <<>>
  /\ \A x \in Client : Free(x)

Going == phase \in {"starting", "up"}
AskInv ==
  /\ question # NoPrompt => phase = "starting"
  /\ Going => IF question = NoPrompt THEN Quiet ELSE Unread \/ Offered \/ TakenUp \/ Replied

(* What is appended to a queue, and what is left of one.                       *)
LEMMA AppendPrompts ==
  ASSUME NEW S, NEW s \in Seq(S), NEW e \in S, NEW q
  PROVE  /\ Clean(s) /\ ~IsPrompt(e) => Clean(Append(s, e))
         /\ Clean(s) => Holds(Append(s, e), e)
         /\ Holds(s, q) /\ ~IsPrompt(e) => Holds(Append(s, e), q)
<1>1. /\ Len(Append(s, e)) = Len(s) + 1 /\ Len(s) \in Nat
      /\ \A i \in 1..Len(s) : Append(s, e)[i] = s[i]
      /\ Append(s, e)[Len(s) + 1] = e
  BY AppendProperties, LenProperties
<1>2. \A i \in 1..Len(Append(s, e)) : i \in 1..Len(s) \/ i = Len(s) + 1
  BY <1>1
<1>3. 1..Len(s) \subseteq 1..Len(Append(s, e)) /\ Len(s) + 1 \in 1..Len(Append(s, e))
  BY <1>1
<1>4. Clean(s) /\ ~IsPrompt(e) => Clean(Append(s, e))
  BY <1>1, <1>2, Zenon DEF Clean
<1>5. Clean(s) => Holds(Append(s, e), e)
  BY <1>1, <1>2, <1>3, Zenon DEF Clean, Holds
<1>6. Holds(s, q) /\ ~IsPrompt(e) => Holds(Append(s, e), q)
  BY <1>1, <1>2, <1>3, Zenon DEF Holds
<1> QED
  BY <1>4, <1>5, <1>6

LEMMA TailPrompts ==
  ASSUME NEW S, NEW s \in Seq(S), s # <<>>, NEW q
  PROVE  /\ Clean(s) => ~IsPrompt(Head(s)) /\ Clean(Tail(s))
         /\ Holds(s, q) /\ ~IsPrompt(Head(s)) /\ IsPrompt(q) => Holds(Tail(s), q)
         /\ Holds(s, q) /\ IsPrompt(Head(s)) => Head(s) = q /\ Clean(Tail(s))
<1>1. /\ Len(s) \in Nat /\ Len(s) # 0 /\ Head(s) = s[1] /\ Len(Tail(s)) = Len(s) - 1
      /\ \A i \in 1..Len(Tail(s)) : Tail(s)[i] = s[i + 1]
  BY LenProperties, EmptySeq, HeadTailProperties
<1>2. /\ 1 \in 1..Len(s)
      /\ \A i \in 1..Len(Tail(s)) : i + 1 \in 1..Len(s) /\ i + 1 # 1
  BY <1>1
<1>3. Clean(s) => ~IsPrompt(Head(s)) /\ Clean(Tail(s))
  BY <1>1, <1>2 DEF Clean
<1>4. ASSUME Holds(s, q), ~IsPrompt(Head(s)), IsPrompt(q) PROVE Holds(Tail(s), q)
  <2>1. PICK i \in 1..Len(s) : s[i] = q /\ \A j \in 1..Len(s) : j # i => ~IsPrompt(s[j])
    BY <1>4 DEF Holds
  <2>2. i - 1 \in 1..Len(Tail(s)) /\ Tail(s)[i - 1] = q
    BY <1>1, <1>4, <2>1
  <2>3. ASSUME NEW j \in 1..Len(Tail(s)), j # i - 1 PROVE ~IsPrompt(Tail(s)[j])
    <3>1. j + 1 \in 1..Len(s) /\ j + 1 # i
      BY <1>2, <2>1, <2>3
    <3> QED
      BY <1>1, <2>1, <3>1
  <2> QED
    BY <2>2, <2>3 DEF Holds
<1>5. ASSUME Holds(s, q), IsPrompt(Head(s)) PROVE Head(s) = q /\ Clean(Tail(s))
  <2>1. PICK i \in 1..Len(s) : s[i] = q /\ \A j \in 1..Len(s) : j # i => ~IsPrompt(s[j])
    BY <1>5 DEF Holds
  <2>2. i = 1
    BY <1>1, <1>2, <1>5, <2>1
  <2> QED
    BY <1>1, <1>2, <2>1, <2>2 DEF Clean
<1> QED
  BY <1>3, <1>4, <1>5

LEMMA AskInit == Init => AskInv
<1> SUFFICES ASSUME Init PROVE AskInv
  OBVIOUS
<1>1. Clean(<<>>)
  BY EmptySeq DEF Clean
<1> QED
  BY <1>1 DEF Init, AskInv, Quiet, Free

(* OpenVPN puts a question when nothing is under way, and its answer ends it.    *)
LEMMA OpenVpnAsk ==
  ASSUME TypeOK, AskInv, ~AuthRetry, OpenVpn
  PROVE  AskInv'
<1> USE DEF openvpnVars, daemonVars, clientVars
<1>1. lines \in Seq(Line) /\ question \in Prompt \cup {NoPrompt}
  BY DEF TypeOK
<1>2. CASE Asks
  <2>1. PICK q \in Needs : question' = q /\ Says(q)
    BY <1>2 DEF Asks
  <2>2. q \in Line /\ q \in Prompt
    BY <1>2, PasswordLines DEF Asks
  <2>3. question = NoPrompt /\ phase = "starting" /\ phase' = phase /\ Quiet
    BY <1>2 DEF Asks, AskInv, Going
  <2>4. Holds(lines', q)
    BY <1>1, <2>1, <2>2, <2>3, AppendPrompts DEF Says, Quiet
  <2>5. UNCHANGED <<pending, toOpenVpn, inbox, asking, call>>
    BY <2>1 DEF Says
  <2>6. Unread'
    BY <2>1, <2>3, <2>4, <2>5 DEF Unread, Quiet, Free
  <2>7. question' # NoPrompt
    BY <2>1, <2>2, PromptFacts DEF IsPrompt
  <2> QED
    BY <2>3, <2>6, <2>7 DEF AskInv
<1>3. CASE ReadsReply
  <2>1. /\ toOpenVpn # <<>> /\ phase' = phase /\ toOpenVpn' = Tail(toOpenVpn)
        /\ UNCHANGED <<lines, pending, inbox, asking, call>>
    BY <1>3 DEF ReadsReply
  <2>2. CASE question = NoPrompt
    BY <1>3, <2>1, <2>2 DEF ReadsReply, AskInv, Quiet, Going
  <2>3. CASE question # NoPrompt
    <3>1. Replied /\ phase = "starting"
      BY <2>1, <2>3 DEF AskInv, Going, Unread, Offered, TakenUp
    <3>2. Head(toOpenVpn) = Reply(question) /\ Tail(toOpenVpn) = <<>>
      BY <3>1 DEF Replied
    <3>3. /\ Head(toOpenVpn).realm = question.realm
          /\ question.kind = "auth-user-pass" => Head(toOpenVpn).user
      <4>1. /\ Reply(question).realm = question.realm
            /\ Reply(question).user = (question.kind # "passphrase")
        BY Zenon DEF Reply
      <4>2. question.kind = "auth-user-pass" => question.kind # "passphrase"
        BY SMT
      <4> QED
        BY <3>2, <4>1, <4>2, Zenon
    <3>4. question' = NoPrompt
      BY <1>3, <2>3, <3>3 DEF ReadsReply
    <3> QED
      BY <2>1, <3>1, <3>2, <3>4 DEF AskInv, Replied, Quiet, Free
  <2> QED
    BY <2>2, <2>3
<1>4. CASE Refused
  <2>1. question' = NoPrompt /\ phase' = "refused"
    BY <1>4 DEF Refused
  <2> QED
    BY <2>1 DEF AskInv, Going
<1>5. CASE Waits \/ Connects \/ Reconnects
  <2>1. PICK s \in {"WAIT", "CONNECTED", "RECONNECTING"} : Says(StateLine(s))
    BY <1>5 DEF Waits, Connects, Reconnects
  <2>2. StateLine(s) \in Line /\ ~IsPrompt(StateLine(s))
    BY PromptFacts DEF State, IsPrompt
  <2>3. question = NoPrompt /\ question' = question /\ Quiet
    BY <1>5 DEF Waits, Connects, Reconnects, AskInv, Going
  <2>4. Clean(lines')
    BY <1>1, <2>1, <2>2, <2>3, AppendPrompts DEF Says, Quiet
  <2>5. UNCHANGED <<pending, toOpenVpn, inbox, asking, call>>
    BY <2>1 DEF Says
  <2> QED
    BY <2>3, <2>4, <2>5 DEF AskInv, Quiet, Free
<1>6. CASE Announces \/ Dies
  BY <1>6 DEF Announces, Dies, AskInv, Going
<1>7. CASE CountsBytes
  <2>1. Says(CountLine) /\ CountLine \in Line /\ ~IsPrompt(CountLine)
    BY <1>7, PromptFacts DEF CountsBytes
  <2>2. UNCHANGED <<phase, question, pending, toOpenVpn, inbox, asking, call, written>>
    BY <1>7 DEF CountsBytes, Says
  <2>3. /\ Clean(lines) => Clean(lines')
        /\ Holds(lines, question) => Holds(lines', question)
    BY <1>1, <2>1, AppendPrompts DEF Says
  <2>4. ASSUME NEW x \in Client
        PROVE  /\ Free(x) => Free(x)'
               /\ Signalled(x) => Signalled(x)'
               /\ Shown(x) => Shown(x)'
               /\ Answering(x) => Answering(x)'
               /\ Replying(x) => Replying(x)'
    BY <2>2 DEF Free, Signalled, Shown, Answering, Replying, Clean, Holds
  <2>5. /\ Quiet => Quiet'
        /\ Unread => Unread'
    BY <2>2, <2>3, <2>4 DEF Quiet, Unread
  <2>6. Offered => Offered'
    BY <2>2, <2>3, <2>4 DEF Offered
  <2>7. TakenUp => TakenUp'
    BY <2>2, <2>3, <2>4 DEF TakenUp
  <2>8. Replied => Replied'
    BY <2>2, <2>3, <2>4 DEF Replied, Reply
  <2> QED
    BY <2>2, <2>5, <2>6, <2>7, <2>8 DEF AskInv, Going
<1> QED
  BY <1>2, <1>3, <1>4, <1>5, <1>6, <1>7 DEF OpenVpn

(* The relay announces a question once, to clients that have none.             *)
LEMMA RelayAsk ==
  ASSUME TypeOK, AskInv, Relay
  PROVE  AskInv'
<1> USE DEF openvpnVars, daemonVars, clientVars
<1>1. /\ UNCHANGED <<phase, question, toOpenVpn, asking, call, written>>
      /\ lines \in Seq(Line) /\ question \in Prompt \cup {NoPrompt}
      /\ \A x \in Client : inbox[x] \in Seq(Prompt \cup {Changed})
  BY DEF Relay, RelayState, RelayCount, RelayPrompt, RelayEnds, TypeOK
<1>2. question # NoPrompt => IsPrompt(question)
  BY <1>1, PromptFacts
<1>3. CASE (RelayState \/ RelayCount) /\ Going
  <2>1. /\ lines # <<>> /\ ~IsPrompt(Head(lines)) /\ lines' = Tail(lines)
        /\ pending' = pending /\ Signal(Changed)
    BY <1>3, PromptFacts DEF RelayState, RelayCount
  <2>2. /\ Clean(lines) => Clean(lines')
        /\ Holds(lines, question) /\ IsPrompt(question) => Holds(lines', question)
    BY <1>1, <2>1, TailPrompts
  <2>3. ~IsPrompt(Changed)
    BY DEF IsPrompt, Changed
  <2>4. ASSUME NEW x \in Client
        PROVE  /\ Clean(inbox[x]) => Clean(inbox'[x])
               /\ Holds(inbox[x], question) => Holds(inbox'[x], question)
    <3>1. inbox'[x] = inbox[x] \/ inbox'[x] = Append(inbox[x], Changed)
      BY <2>1 DEF Signal
    <3>2. Changed \in Prompt \cup {Changed} /\ inbox[x] \in Seq(Prompt \cup {Changed})
      BY <1>1
    <3>3. /\ Clean(inbox[x]) => Clean(Append(inbox[x], Changed))
          /\ Holds(inbox[x], question) => Holds(Append(inbox[x], Changed), question)
      BY <2>3, <3>2, AppendPrompts
    <3> QED
      BY <3>1, <3>3, Zenon
  <2>5. ASSUME NEW x \in Client
        PROVE  /\ Free(x) => Free(x)'
               /\ Signalled(x) => Signalled(x)'
               /\ Shown(x) => Shown(x)'
               /\ Answering(x) => Answering(x)'
               /\ Replying(x) => Replying(x)'
    BY <1>1, <2>4 DEF Free, Signalled, Shown, Answering, Replying
  <2>6. /\ Quiet => Quiet'
        /\ Unread /\ IsPrompt(question) => Unread'
    BY <1>1, <2>1, <2>2, <2>5 DEF Quiet, Unread
  <2>7. Offered => Offered'
    BY <1>1, <2>1, <2>2, <2>5 DEF Offered
  <2>8. TakenUp => TakenUp'
    BY <1>1, <2>1, <2>2, <2>5 DEF TakenUp
  <2>9. Replied => Replied'
    BY <1>1, <2>1, <2>2, <2>5 DEF Replied, Reply
  <2> QED
    BY <1>1, <1>2, <1>3, <2>6, <2>7, <2>8, <2>9 DEF AskInv, Going
<1>4. CASE RelayPrompt /\ Going
  <2>1. /\ lines # <<>> /\ IsPrompt(Head(lines)) /\ lines' = Tail(lines)
        /\ pending' = Head(lines) /\ Signal(Head(lines))
    BY <1>4 DEF RelayPrompt
  <2>2. ~Clean(lines)
    BY <1>1, <2>1, TailPrompts
  <2>3. question # NoPrompt /\ Unread
    BY <1>4, <2>2 DEF AskInv, Quiet, Offered, TakenUp, Replied
  <2>4. Head(lines) = question /\ Clean(lines') /\ question \in Prompt
    BY <1>1, <2>1, <2>3, TailPrompts DEF Unread
  <2>5. ASSUME NEW x \in Client PROVE Free(x)' \/ Signalled(x)'
    <3>1. Free(x) /\ (inbox'[x] = inbox[x] \/ inbox'[x] = Append(inbox[x], question))
      BY <2>1, <2>3, <2>4 DEF Signal, Unread
    <3>2. question \in Prompt \cup {Changed} /\ inbox[x] \in Seq(Prompt \cup {Changed})
      BY <1>1, <2>4
    <3>3. Clean(inbox[x]) => Holds(Append(inbox[x], question), question)
      BY <3>2, AppendPrompts
    <3>4. Clean(inbox'[x]) \/ Holds(inbox'[x], question)
      BY <3>1, <3>3, Zenon DEF Free
    <3> QED
      BY <1>1, <3>1, <3>4 DEF Free, Signalled
  <2>6. Offered'
    BY <1>1, <2>1, <2>3, <2>4, <2>5 DEF Offered, Unread
  <2> QED
    BY <1>1, <2>3, <2>6 DEF AskInv
<1>5. CASE RelayEnds \/ ~Going
  BY <1>1, <1>5 DEF RelayEnds, AskInv, Going
<1> QED
  BY <1>3, <1>4, <1>5 DEF Relay

(* The one call that answers a question takes it and replies: it cannot fail.    *)
LEMMA CallAsk ==
  ASSUME TypeOK, EndInv, AskInv, NEW x \in Client, \A y \in Client : y = x, ProvideCredentials(x)
  PROVE  AskInv'
<1> USE DEF openvpnVars, daemonVars, clientVars
<1>1. /\ UNCHANGED <<phase, question, lines, inbox>>
      /\ call \in [Client -> Call \cup {NoCall}]
      /\ NoCall.step # "sent" /\ NoCall.step # "taken"
  BY CallFacts DEF ProvideCredentials, TakesPrompt, WritesReply, CallFails, TypeOK
<1>2. CASE ~Going
  BY <1>1, <1>2 DEF AskInv, Going
<1>3. call[x].step \in {"sent", "taken"}
  BY DEF ProvideCredentials, TakesPrompt, Takes, WritesReply, CallFails
<1>4. ~Free(x) /\ ~Signalled(x) /\ ~Shown(x)
  BY <1>1, <1>3 DEF Free, Signalled, Shown
<1>5. ASSUME Going
      PROVE  /\ question # NoPrompt
             /\ (Offered /\ Answering(x)) \/ (TakenUp /\ Replying(x))
  BY <1>4, <1>5 DEF AskInv, Quiet, Unread, Offered, TakenUp, Replied
<1>6. CASE TakesPrompt(x) /\ Going
  <2>1. /\ call[x].step = "sent" /\ pending # NoPrompt /\ pending' = NoPrompt
        /\ call' = [call EXCEPT ![x] = [step |-> "taken", request |-> call[x].request,
                                        auto |-> call[x].auto, prompt |-> pending]]
        /\ UNCHANGED <<toOpenVpn, asking>>
    BY <1>6 DEF TakesPrompt, Takes
  <2>2. Offered /\ Answering(x)
    BY <1>5, <1>6, <2>1 DEF Replying
  <2>3. /\ call'[x].step = "taken" /\ call'[x].request = question /\ call'[x].prompt = question
    BY <1>1, <2>1, <2>2 DEF Offered, Answering
  <2>4. TakenUp'
    BY <1>1, <2>1, <2>2, <2>3 DEF Offered, Answering, TakenUp, Replying
  <2> QED
    BY <1>1, <1>5, <1>6, <2>4 DEF AskInv, Going
<1>7. CASE WritesReply(x) /\ Going
  <2>1. /\ call[x].step = "taken"
        /\ toOpenVpn' = Append(toOpenVpn, Reply(call[x].prompt))
        /\ written' = [written EXCEPT ![call[x].prompt.n] = @ + 1]
        /\ call' = [call EXCEPT ![x] = NoCall]
        /\ UNCHANGED <<pending, asking>>
    BY <1>7 DEF WritesReply
  <2>2. TakenUp /\ Replying(x)
    BY <1>5, <1>7, <2>1 DEF Answering
  <2>3. question \in Prompt
    BY <1>5, <1>7 DEF TypeOK
  <2>4. written'[question.n] > 0
    <3>1. question.n \in 1..MaxPrompts /\ written \in [1..MaxPrompts -> Nat]
      BY <2>3, PromptFacts DEF TypeOK
    <3> QED
      BY <2>1, <2>2, <3>1 DEF Replying
  <2>5. toOpenVpn' = <<Reply(question)>>
    BY <2>1, <2>2 DEF TakenUp, Replying
  <2>6. \A y \in Client : Free(y)'
    BY <1>1, <2>1, <2>2 DEF Replying, Free
  <2>7. Replied'
    BY <1>1, <2>1, <2>2, <2>4, <2>5, <2>6 DEF TakenUp, Replied
  <2> QED
    BY <1>1, <1>5, <1>7, <2>7 DEF AskInv, Going
<1>8. CASE CallFails(x) /\ Going
  <2>1. registered /\ phase # "dead"
    BY <1>8 DEF EndInv, Going
  <2>2. \/ call[x].step = "sent" /\ pending = NoPrompt
        \/ call[x].step = "taken" /\ LacksUsername(call[x])
    BY <1>8, <2>1 DEF CallFails
  <2>3. ~(call[x].step = "sent" /\ pending = NoPrompt)
    BY <1>5, <1>8 DEF Offered, Replying
  <2>4. ~(call[x].step = "taken" /\ LacksUsername(call[x]))
    BY <1>5, <1>8 DEF Answering, Replying, LacksUsername
  <2> QED
    BY <2>2, <2>3, <2>4
<1> QED
  BY <1>2, <1>6, <1>7, <1>8 DEF ProvideCredentials

(* What a step of the client does with its signals, questions and calls.        *)
LEMMA ClientMoves ==
  ASSUME TypeOK, NEW x \in Client, \A y \in Client : y = x, Cli \/ Gui
  PROVE  \/ UNCHANGED <<inbox, asking, call>>
         \/ /\ call[x] = NoCall /\ inbox[x] # <<>> /\ inbox'[x] = Tail(inbox[x])
            /\ \/ /\ ~IsPrompt(Head(inbox[x])) /\ UNCHANGED <<asking, call>>
               \/ /\ IsPrompt(Head(inbox[x])) /\ call' = call
                  /\ asking'[x] \in {{Head(inbox[x])}, asking[x] \cup {Head(inbox[x])}}
               \/ /\ IsPrompt(Head(inbox[x])) /\ asking' = asking
                  /\ call'[x].step = "sent" /\ call'[x].request = Head(inbox[x])
         \/ \E request \in asking[x] :
              /\ call[x] = NoCall /\ inbox' = inbox
              /\ asking'[x] \in {{}, asking[x] \ {request}}
              /\ \/ call' = call
                 \/ call'[x].step = "sent" /\ call'[x].request = request
<1> USE DEF openvpnVars, daemonVars, clientVars
<1>1. /\ inbox \in [Client -> Seq(Prompt \cup {Changed})]
      /\ asking \in [Client -> SUBSET Prompt] /\ call \in [Client -> Call \cup {NoCall}]
  BY DEF TypeOK
<1>2. CASE BeginsFollowing
  BY <1>2 DEF BeginsFollowing
<1>3. CASE CliSeesChange
  BY <1>1, <1>3 DEF CliSeesChange, CliNext
<1>4. CASE CliAsks
  BY <1>1, <1>4 DEF CliAsks, CliNext
<1>5. CASE CliAnswers
  BY <1>1, <1>5 DEF CliAnswers, Calls
<1>6. CASE GuiRefreshes
  BY <1>1, <1>6 DEF GuiRefreshes, GuiNext, GuiIdle
<1>7. CASE GuiSendsSaved
  BY <1>1, <1>7 DEF GuiSendsSaved, GuiNext, GuiIdle, Calls
<1>8. CASE GuiOpensDialog
  BY <1>1, <1>8 DEF GuiOpensDialog, GuiNext, GuiIdle
<1>9. CASE GuiSubmits
  BY <1>1, <1>9 DEF GuiSubmits, GuiIdle, Calls
<1>10. CASE GuiCancels
  BY <1>1, <1>10 DEF GuiCancels, GuiIdle
<1> QED
  BY <1>2, <1>3, <1>4, <1>5, <1>6, <1>7, <1>8, <1>9, <1>10 DEF Cli, Gui

(* The question goes from the signal to the user and into a call, or is given    *)
(* up, and is nowhere twice.                                                  *)
LEMMA ClientAsk ==
  ASSUME TypeOK, AskInv, NEW x \in Client, \A y \in Client : y = x, Cli \/ Gui
  PROVE  AskInv'
<1> USE DEF openvpnVars, daemonVars, clientVars
<1>1. /\ UNCHANGED <<phase, question, lines, pending, toOpenVpn, written>>
      /\ inbox[x] \in Seq(Prompt \cup {Changed})
      /\ question \in Prompt \cup {NoPrompt}
      /\ NoCall.step # "sent" /\ NoCall.step # "taken"
  BY CallFacts DEF Cli, BeginsFollowing, CliSeesChange, CliAsks, CliAnswers, Gui, GuiRefreshes, GuiSendsSaved,
         GuiOpensDialog, GuiSubmits, GuiCancels, TypeOK
<1>2. question # NoPrompt => IsPrompt(question)
  BY <1>1, PromptFacts
<1>3. CASE UNCHANGED <<inbox, asking, call>>
  BY <1>1, <1>3 DEF AskInv, Going, Quiet, Unread, Offered, TakenUp, Replied,
                    Free, Signalled, Shown, Answering, Replying
<1>4. ASSUME ~UNCHANGED <<inbox, asking, call>>
      PROVE  /\ call[x] = NoCall
             /\ Free(x) => Free(x)'
             /\ Signalled(x) /\ IsPrompt(question) => Signalled(x)' \/ Shown(x)' \/ Answering(x)'
             /\ Shown(x) => Shown(x)' \/ Free(x)' \/ Answering(x)'
  <2>1. CASE /\ call[x] = NoCall /\ inbox[x] # <<>> /\ inbox'[x] = Tail(inbox[x])
             /\ ~IsPrompt(Head(inbox[x])) /\ UNCHANGED <<asking, call>>
    <3>1. /\ Clean(inbox[x]) => Clean(inbox'[x])
          /\ Holds(inbox[x], question) /\ IsPrompt(question) => Holds(inbox'[x], question)
      BY <1>1, <2>1, TailPrompts
    <3> QED
      BY <1>1, <2>1, <3>1 DEF Free, Signalled, Shown
  <2>2. CASE /\ call[x] = NoCall /\ inbox[x] # <<>> /\ inbox'[x] = Tail(inbox[x])
             /\ IsPrompt(Head(inbox[x]))
             /\ \/ /\ call' = call
                   /\ asking'[x] \in {{Head(inbox[x])}, asking[x] \cup {Head(inbox[x])}}
                \/ /\ asking' = asking
                   /\ call'[x].step = "sent" /\ call'[x].request = Head(inbox[x])
    <3>1. ~Clean(inbox[x])
      BY <1>1, <2>2, TailPrompts
    <3>2. Holds(inbox[x], question) => Head(inbox[x]) = question /\ Clean(inbox'[x])
      BY <1>1, <2>2, TailPrompts
    <3> QED
      BY <1>1, <2>2, <3>1, <3>2 DEF Free, Signalled, Shown, Answering
  <2>3. CASE \E request \in asking[x] :
               /\ call[x] = NoCall /\ inbox' = inbox
               /\ asking'[x] \in {{}, asking[x] \ {request}}
               /\ \/ call' = call
                  \/ call'[x].step = "sent" /\ call'[x].request = request
    BY <1>1, <2>3 DEF Free, Signalled, Shown, Answering
  <2> QED
    BY <1>4, <2>1, <2>2, <2>3, ClientMoves
<1>5. CASE ~UNCHANGED <<inbox, asking, call>>
  <2>1. ~Answering(x) /\ ~Replying(x)
    BY <1>1, <1>4, <1>5 DEF Answering, Replying
  <2>2. /\ Quiet => Quiet'
        /\ Unread => Unread'
        /\ Offered /\ IsPrompt(question) => Offered'
        /\ ~TakenUp
        /\ Replied => Replied'
    BY <1>1, <1>4, <1>5, <2>1 DEF Quiet, Unread, Offered, TakenUp, Replied
  <2> QED
    BY <1>1, <1>2, <2>2 DEF AskInv, Going
<1> QED
  BY <1>3, <1>5

LEMMA AskNext ==
  ASSUME ~AuthRetry, \A x, y \in Client : x = y,
         TypeOK, EndInv, AskInv, [Next]_vars
  PROVE  AskInv'
<1>1. ASSUME UNCHANGED vars PROVE AskInv'
  BY <1>1 DEF vars, openvpnVars, daemonVars, clientVars, AskInv, Going, Quiet, Unread, Offered,
              TakenUp, Replied, Free, Signalled, Shown, Answering, Replying
<1>2. Cli \/ Gui => \E x \in Client : TRUE
  BY DEF Cli, BeginsFollowing, CliSeesChange, CliAsks, CliNext, CliAnswers, Gui, GuiNext, GuiIdle,
         GuiRefreshes, GuiSendsSaved, GuiOpensDialog, GuiSubmits, GuiCancels
<1> QED
  BY <1>1, <1>2, OpenVpnAsk, RelayAsk, CallAsk, ClientAsk DEF Next

(* While OpenVPN waits for an answer nobody has given, ProvideCredentials can    *)
(* still answer: with one client, be it the command or the GUI, and without      *)
(* `auth-retry`, no call uses the pending prompt up.                          *)
THEOREM QuestionStaysPending ==
  ASSUME ~AuthRetry, \A x, y \in Client : x = y
  PROVE  Spec => []UnansweredStaysPending
<1> DEFINE Inv == TypeOK /\ EndInv /\ AskInv
<1>1. Init => Inv
  BY TypeInit, EndInit, AskInit
<1>2. Inv /\ [Next]_vars => Inv'
  BY TypeNext, EndNext, AskNext
<1>3. Inv => UnansweredStaysPending
  <2> SUFFICES ASSUME Inv, Unanswered PROVE pending = question
    BY DEF UnansweredStaysPending
  <2>1. Unread \/ Offered \/ TakenUp \/ Replied
    BY DEF Unanswered, AskInv, Going
  <2>2. ~Unread
    <3>1. DOMAIN lines = 1..Len(lines)
      BY LenProperties DEF TypeOK
    <3> QED
      BY <3>1 DEF Unanswered, Unread, Holds
  <2>3. ~TakenUp /\ ~Replied
    BY DEF Unanswered, TakenUp, Replying, Replied
  <2> QED
    BY <2>1, <2>2, <2>3 DEF Offered
<1> QED
  BY <1>1, <1>2, <1>3, PTL DEF Spec
=============================================================================
