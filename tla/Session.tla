----------------------------- MODULE Session ------------------------------
(***************************************************************************)
(* One connection as its owner's clients see it: OpenVPN asks for           *)
(* credentials and reports states over the management channel, the relay    *)
(* turns each line into a property change or an AuthRequest signal and       *)
(* keeps one pending prompt, the clients answer with ProvideCredentials.     *)
(* A client is a `warrenvpnctl connect`, which follows the connection and    *)
(* blocks on the terminal while it asks, or the GUI, which sends saved       *)
(* credentials or opens dialogs.  VpnDaemon models the rest of the life of   *)
(* the connection; bus access, logs and web logins are left out.            *)
(***************************************************************************)
EXTENDS Naturals, Sequences

CONSTANTS
  Client,      \* which clients run: a subset of {"cli", "gui"}
  AuthRetry,   \* the configuration has `auth-retry interact`
  Keyring,     \* what the GUI may find in the keyring when it starts
  MaxPrompts,  \* bound on the password lines of one session
  MaxQueue     \* bound on unread management lines, and on undelivered signals

Realm == {"Auth", "Private Key"}

(* The keyring's fields of one configuration, which are saved or not.  One     *)
(* password field serves every realm.                                        *)
Saved == [username : BOOLEAN, password : BOOLEAN]

ASSUME SessionAssumption ==
  /\ Client \subseteq {"cli", "gui"}
  /\ AuthRetry \in BOOLEAN
  /\ Keyring \subseteq Saved
  /\ MaxPrompts \in Nat \ {0}
  /\ MaxQueue \in Nat \ {0}

VARIABLES
  phase,       \* OpenVPN: "starting", "refused", "up", "exiting", "dead"
  question,    \* the prompt it waits on, or NoPrompt
  accepted,    \* the realms it has credentials for
  asked,       \* number of the last password line
  lines,       \* management lines the relay has not read
  toOpenVpn,   \* replies OpenVPN has not read
  registered,  \* the Connection object is served
  state,       \* its State property
  pending,     \* `pending_auth`, or NoPrompt
  inbox,       \* client -> signals it has not handled
  call,        \* client -> its ProvideCredentials call
  cli,         \* where `warrenvpnctl connect` is
  asking,      \* client -> requests its user is looking at
  keyring,     \* what the keyring holds
  written      \* history: prompt number -> replies written for it

openvpnVars == <<phase, question, accepted, asked>>
daemonVars == <<registered, state, pending>>
clientVars == <<cli, asking, keyring>>
vars == <<openvpnVars, lines, toOpenVpn, daemonVars, inbox, call, written, clientVars>>

Kind == {"auth-user-pass", "passphrase", "dynamic-challenge"}

(* A password line: its number, its kind as relay names it, its realm,        *)
(* whether it carries a challenge, and whether it reports a failed            *)
(* verification rather than asking.                                          *)
Prompt == [n : 1..MaxPrompts, kind : Kind, realm : Realm, challenge : BOOLEAN, failed : BOOLEAN]
NoPrompt == [n |-> 0]
Changed == [n |-> 0, changed |-> TRUE]     \* the PropertiesChanged signal

(* The State property; "none" is the empty string it starts with.            *)
State == {"none", "WAIT", "CONNECTED", "RECONNECTING", "EXITING"}

(* What the relay makes of a line of the channel: a state, a password line or  *)
(* the byte counts, which OpenVPN reports every second whatever it is at.      *)
(* Log lines and web logins change nothing here.                             *)
StateLine(s) == [n |-> 0, state |-> s]
CountLine == [n |-> 0, count |-> TRUE]
Line == Prompt \cup {StateLine(s) : s \in State \ {"none"}} \cup {CountLine}
IsPrompt(message) == message.n # 0

NoCall == [step |-> "none"]
Call == [step : {"sent"}, request : Prompt, auto : BOOLEAN]
          \cup [step : {"taken"}, request : Prompt, auto : BOOLEAN, prompt : Prompt]

Ended == {"connected", "disconnected"}

(* The variables hold values of their types; in particular what is pending    *)
(* and what a client answers is always a prompt the relay has announced.     *)
TypeOK ==
  /\ phase \in {"starting", "refused", "up", "exiting", "dead"}
  /\ question \in Prompt \cup {NoPrompt}
  /\ accepted \subseteq Realm
  /\ asked \in 0..MaxPrompts
  /\ lines \in Seq(Line) /\ Len(lines) <= MaxQueue
  /\ \A i \in 1..Len(lines) : lines[i].n <= asked
  /\ toOpenVpn \in Seq([realm : Realm, user : BOOLEAN])
  /\ registered \in BOOLEAN
  /\ state \in State
  /\ pending \in Prompt \cup {NoPrompt} /\ pending.n <= asked
  /\ inbox \in [Client -> Seq(Prompt \cup {Changed})]
  /\ call \in [Client -> Call \cup {NoCall}]
  /\ cli \in {"starting", "following"} \cup Ended
  /\ asking \in [Client -> SUBSET Prompt]
  /\ keyring \in Saved
  /\ written \in [1..MaxPrompts -> Nat]

Init ==
  /\ phase = "starting"
  /\ question = NoPrompt
  /\ accepted = {}
  /\ asked = 0
  /\ lines = <<>>
  /\ toOpenVpn = <<>>
  /\ registered = TRUE
  /\ state = "none"
  /\ pending = NoPrompt
  /\ inbox = [x \in Client |-> <<>>]
  /\ call = [x \in Client |-> NoCall]
  /\ cli = "starting"
  /\ asking = [x \in Client |-> {}]
  /\ keyring \in Keyring
  /\ written = [n \in 1..MaxPrompts |-> 0]

-----------------------------------------------------------------------------
(* OpenVPN.                                                                 *)

(* It says something on the management channel, when there is room.          *)
Says(line) ==
  /\ Len(lines) < MaxQueue
  /\ lines' = Append(lines, line)
  /\ UNCHANGED <<toOpenVpn, daemonVars, inbox, call, written, clientVars>>

PasswordLine(kind, realm, challenge, failed) ==
  [n |-> asked + 1, kind |-> kind, realm |-> realm, challenge |-> challenge, failed |-> failed]

(* `Need 'Private Key' password` or `Need 'Auth' username/password`, the      *)
(* latter possibly with a static challenge.                                  *)
Needs ==
  {PasswordLine("passphrase", "Private Key", FALSE, FALSE)} \cup
  {PasswordLine("auth-user-pass", "Auth", challenge, FALSE) : challenge \in BOOLEAN}

(* `Verification Failed: 'Auth'`, with or without a CRV1 challenge: relay     *)
(* takes the first for a request of a password alone.                        *)
Failures ==
  {PasswordLine("passphrase", "Auth", FALSE, TRUE),
   PasswordLine("dynamic-challenge", "Auth", TRUE, TRUE)}

(* OpenVPN needs credentials it does not have and waits for them.            *)
Asks ==
  /\ phase = "starting" /\ question = NoPrompt
  /\ asked < MaxPrompts
  /\ \E q \in Needs :
       /\ q.realm \notin accepted
       /\ question' = q
       /\ Says(q)
  /\ asked' = asked + 1
  /\ UNCHANGED <<phase, accepted>>

(* It reads a reply; one that does not fit the question it waits on, if any,  *)
(* is an error on the management channel and changes nothing.                *)
ReadsReply ==
  LET reply == Head(toOpenVpn)
      fits == /\ question # NoPrompt
              /\ reply.realm = question.realm
              /\ question.kind = "auth-user-pass" => reply.user
  IN  /\ toOpenVpn # <<>>
      /\ phase # "dead"
      /\ toOpenVpn' = Tail(toOpenVpn)
      /\ question' = IF fits THEN NoPrompt ELSE question
      /\ accepted' = IF fits THEN accepted \cup {reply.realm} ELSE accepted
      /\ UNCHANGED <<phase, asked, lines, daemonVars, inbox, call, written, clientVars>>

(* The server refuses the login: OpenVPN says so, and starts over if its      *)
(* configuration asks for that and gives up otherwise.                       *)
Refused ==
  /\ phase = "starting" /\ question = NoPrompt
  /\ "Auth" \in accepted
  /\ asked < MaxPrompts
  /\ \E f \in Failures : Says(f)
  /\ asked' = asked + 1
  /\ accepted' = accepted \ {"Auth"}
  /\ phase' = IF AuthRetry THEN "starting" ELSE "refused"
  /\ UNCHANGED question

Waits ==
  /\ phase = "starting" /\ question = NoPrompt
  /\ Says(StateLine("WAIT"))
  /\ UNCHANGED openvpnVars

Connects ==
  /\ phase = "starting" /\ question = NoPrompt
  /\ phase' = "up"
  /\ Says(StateLine("CONNECTED"))
  /\ UNCHANGED <<question, accepted, asked>>

(* A restart of the session, which may have to ask again (`auth-nocache`).    *)
Reconnects ==
  /\ phase = "up"
  /\ phase' = "starting"
  /\ accepted' \in {accepted, {}}
  /\ Says(StateLine("RECONNECTING"))
  /\ UNCHANGED <<question, asked>>

(* An orderly exit is announced; a kill or a fatal error is not.             *)
Announces ==
  /\ phase \notin {"exiting", "dead"}
  /\ phase' = "exiting"
  /\ question' = NoPrompt
  /\ Says(StateLine("EXITING"))
  /\ UNCHANGED <<accepted, asked>>

(* >BYTECOUNT, which may also come before the first >STATE.                   *)
CountsBytes ==
  /\ phase # "dead"
  /\ Says(CountLine)
  /\ UNCHANGED openvpnVars

Dies ==
  /\ phase # "dead"
  /\ phase' = "dead"
  /\ question' = NoPrompt
  /\ UNCHANGED <<accepted, asked, lines, toOpenVpn, daemonVars, inbox, call, written, clientVars>>

-----------------------------------------------------------------------------
(* The relay.                                                               *)

Listening == {x \in Client : x = "cli" => cli \notin Ended}

Signal(s) ==
  /\ \A x \in Listening : Len(inbox[x]) < MaxQueue
  /\ inbox' = [x \in Client |-> IF x \in Listening THEN Append(inbox[x], s) ELSE inbox[x]]

(* The two PropertiesChanged signals of a line carry nothing the clients use   *)
(* and are one here; a client may get the like from the byte counts.           *)
RelayState ==
  /\ registered /\ lines # <<>>
  /\ ~IsPrompt(Head(lines)) /\ Head(lines) # CountLine
  /\ lines' = Tail(lines)
  /\ state' = Head(lines).state
  /\ Signal(Changed)
  /\ UNCHANGED <<openvpnVars, toOpenVpn, registered, pending, call, written, clientVars>>

(* The byte counts change, and the clients are told as of any property.       *)
RelayCount ==
  /\ registered /\ lines # <<>>
  /\ Head(lines) = CountLine
  /\ lines' = Tail(lines)
  /\ Signal(Changed)
  /\ UNCHANGED <<openvpnVars, toOpenVpn, daemonVars, call, written, clientVars>>

(* A prompt replaces the pending one and is announced to the clients.        *)
RelayPrompt ==
  /\ registered /\ lines # <<>>
  /\ IsPrompt(Head(lines))
  /\ lines' = Tail(lines)
  /\ pending' = Head(lines)
  /\ Signal(Head(lines))
  /\ UNCHANGED <<openvpnVars, toOpenVpn, registered, state, call, written, clientVars>>

(* End of the stream: the object is removed, and nobody is told.             *)
RelayEnds ==
  /\ registered
  /\ phase = "dead"
  /\ lines = <<>>
  /\ registered' = FALSE
  /\ UNCHANGED <<openvpnVars, lines, toOpenVpn, state, pending, inbox, call, written, clientVars>>

-----------------------------------------------------------------------------
(* ProvideCredentials.                                                      *)

(* Client x calls, with what its user typed for the request or, if auto, with *)
(* what the keyring holds.                                                   *)
Calls(x, request, auto) ==
  /\ call[x] = NoCall
  /\ call' = [call EXCEPT ![x] = [step |-> "sent", request |-> request, auto |-> auto]]

Takes(x) ==
  /\ call[x].step = "sent"
  /\ registered /\ pending # NoPrompt
  /\ call' = [call EXCEPT ![x] = [step |-> "taken", request |-> @.request, auto |-> @.auto,
                                 prompt |-> pending]]

(* A mutant of TakesPrompt: the pending prompt is read and left in place.     *)
PeeksPrompt(x) ==
  /\ Takes(x)
  /\ UNCHANGED <<openvpnVars, lines, toOpenVpn, daemonVars, inbox, written, clientVars>>

(* A mutant of TakesPrompt: the slot is cleared before it is read.            *)
ClearsFirst(x) ==
  /\ call[x].step = "sent"
  /\ registered /\ pending # NoPrompt
  /\ pending' = NoPrompt
  /\ call' = [call EXCEPT ![x] = [step |-> "taken", request |-> @.request, auto |-> @.auto,
                                 prompt |-> pending']]
  /\ UNCHANGED <<openvpnVars, lines, toOpenVpn, registered, state, inbox, written, clientVars>>

(* The pending prompt is taken; the reply will be for it.                    *)
TakesPrompt(x) ==
  /\ Takes(x)
  /\ pending' = NoPrompt
  /\ UNCHANGED <<openvpnVars, lines, toOpenVpn, registered, state, inbox, written, clientVars>>

(* A mutant of LacksUsername: every reply must have a user name.             *)
AlwaysWantsUsername(c) == c.request.kind # "auth-user-pass"

(* The fields hold a user name only if the request its client saw was a login; *)
(* what is answered is the prompt that was pending, whatever the request was. *)
LacksUsername(c) == c.prompt.kind = "auth-user-pass" /\ c.request.kind # "auth-user-pass"

(* A mutant of Reply: the user name is left out.                             *)
PasswordOnly(prompt) == [realm |-> prompt.realm, user |-> FALSE]

(* `username` and `password`, or `password` alone, for the pending realm.     *)
Reply(prompt) == [realm |-> prompt.realm, user |-> prompt.kind # "passphrase"]

WritesReply(x) ==
  /\ call[x].step = "taken"
  /\ ~LacksUsername(call[x])
  /\ toOpenVpn' = Append(toOpenVpn, Reply(call[x].prompt))
  /\ written' = [written EXCEPT ![call[x].prompt.n] = @ + 1]
  /\ call' = [call EXCEPT ![x] = NoCall]
  /\ UNCHANGED <<openvpnVars, lines, daemonVars, inbox, clientVars>>

(* The call fails: no object, no pending request, no user name, or a closed   *)
(* channel.  A taken prompt is not put back.  The clients log it, and the GUI *)
(* opens the dialog if it had answered by itself.                            *)
CallFails(x) ==
  /\ \/ call[x].step = "sent" /\ (~registered \/ pending = NoPrompt)
     \/ call[x].step = "taken" /\ (LacksUsername(call[x]) \/ phase = "dead")
  /\ call' = [call EXCEPT ![x] = NoCall]
  /\ asking' = IF call[x].auto
               THEN [asking EXCEPT ![x] = @ \cup {call[x].request}]
               ELSE asking
  /\ UNCHANGED <<openvpnVars, lines, toOpenVpn, daemonVars, inbox, written, cli, keyring>>

-----------------------------------------------------------------------------
(* warrenvpnctl connect.                                                    *)

(* The State property as a client reads it: empty once the object is gone.    *)
Seen == IF registered THEN state ELSE "none"

Verdict(seen, ends) ==
  CASE seen = "CONNECTED" -> "connected"
    [] seen \in ends -> "disconnected"
    [] OTHER -> "following"

(* A mutant of BeginsFollowing: it subscribes now, not before starting.       *)
SubscribesLate ==
  /\ "cli" \in Client /\ cli = "starting"
  /\ cli' = Verdict(Seen, {"EXITING"})
  /\ inbox' = [inbox EXCEPT !["cli"] = <<>>]
  /\ UNCHANGED <<openvpnVars, lines, toOpenVpn, daemonVars, call, written,
                 asking, keyring>>

(* StartConnection has returned; signals have been collected since before it. *)
BeginsFollowing ==
  /\ "cli" \in Client /\ cli = "starting"
  /\ cli' = Verdict(Seen, {"EXITING"})
  /\ UNCHANGED <<openvpnVars, lines, toOpenVpn, daemonVars, inbox, call, written,
                 asking, keyring>>

(* The loop of follow_connection is at its next signal.                      *)
CliNext ==
  /\ "cli" \in Client /\ cli = "following"
  /\ asking["cli"] = {} /\ call["cli"] = NoCall
  /\ inbox["cli"] # <<>>
  /\ inbox' = [inbox EXCEPT !["cli"] = Tail(@)]

(* A mutant of CliSeesChange: a session that starts over is taken for an end.  *)
RestartIsEnd ==
  /\ CliNext
  /\ ~IsPrompt(Head(inbox["cli"]))
  /\ cli' = Verdict(Seen, {"none", "EXITING", "RECONNECTING"})
  /\ UNCHANGED <<openvpnVars, lines, toOpenVpn, daemonVars, call, written,
                 asking, keyring>>

CliSeesChange ==
  /\ CliNext
  /\ ~IsPrompt(Head(inbox["cli"]))
  /\ cli' = Verdict(Seen, {"none", "EXITING"})
  /\ UNCHANGED <<openvpnVars, lines, toOpenVpn, daemonVars, call, written,
                 asking, keyring>>

(* It asks on the terminal, and does nothing else until the user has answered. *)
CliAsks ==
  /\ CliNext
  /\ IsPrompt(Head(inbox["cli"]))
  /\ asking' = [asking EXCEPT !["cli"] = {Head(inbox["cli"])}]
  /\ UNCHANGED <<openvpnVars, lines, toOpenVpn, daemonVars, call, written,
                 cli, keyring>>

CliAnswers ==
  /\ "cli" \in Client
  /\ \E request \in asking["cli"] : Calls("cli", request, FALSE)
  /\ asking' = [asking EXCEPT !["cli"] = {}]
  /\ UNCHANGED <<openvpnVars, lines, toOpenVpn, daemonVars, inbox, written,
                 cli, keyring>>

-----------------------------------------------------------------------------
(* The GUI: one main thread, which a call blocks, and any number of dialogs.  *)

GuiIdle == "gui" \in Client /\ call["gui"] = NoCall

GuiNext ==
  /\ GuiIdle
  /\ inbox["gui"] # <<>>
  /\ inbox' = [inbox EXCEPT !["gui"] = Tail(@)]

(* Saved credentials answer a request without a challenge, when the password  *)
(* and, if one is needed, the user name are there.                           *)
Automatic(request) ==
  /\ ~request.challenge
  /\ registered                               \* else there is no ConfigId
  /\ keyring.password
  /\ request.kind = "auth-user-pass" => keyring.username

GuiRefreshes ==
  /\ GuiNext
  /\ ~IsPrompt(Head(inbox["gui"]))
  /\ UNCHANGED <<openvpnVars, lines, toOpenVpn, daemonVars, call, written, clientVars>>

GuiSendsSaved ==
  /\ GuiNext
  /\ IsPrompt(Head(inbox["gui"]))
  /\ Automatic(Head(inbox["gui"]))
  /\ Calls("gui", Head(inbox["gui"]), TRUE)
  /\ UNCHANGED <<openvpnVars, lines, toOpenVpn, daemonVars, written, cli, asking, keyring>>

GuiOpensDialog ==
  /\ GuiNext
  /\ IsPrompt(Head(inbox["gui"]))
  /\ ~Automatic(Head(inbox["gui"]))
  /\ asking' = [asking EXCEPT !["gui"] = @ \cup {Head(inbox["gui"])}]
  /\ UNCHANGED <<openvpnVars, lines, toOpenVpn, daemonVars, call, written, cli, keyring>>

(* `Connetti`: the fields are sent, then kept in the keyring or forgotten.    *)
GuiSubmits ==
  /\ GuiIdle
  /\ \E request \in asking["gui"] :
       /\ Calls("gui", request, FALSE)
       /\ asking' = [asking EXCEPT !["gui"] = @ \ {request}]
       /\ keyring' \in
            {[username |-> keyring.username \/ request.kind = "auth-user-pass",
              password |-> TRUE],
             [username |-> FALSE, password |-> FALSE],
             keyring}                          \* there was no ConfigId
  /\ UNCHANGED <<openvpnVars, lines, toOpenVpn, daemonVars, inbox, written, cli>>

GuiCancels ==
  /\ GuiIdle
  /\ \E request \in asking["gui"] : asking' = [asking EXCEPT !["gui"] = @ \ {request}]
  /\ UNCHANGED <<openvpnVars, lines, toOpenVpn, daemonVars, inbox, call, written,
                 cli, keyring>>

-----------------------------------------------------------------------------
OpenVpn ==
  \/ Asks \/ ReadsReply \/ Refused \/ Waits \/ Connects \/ Reconnects \/ Announces
  \/ CountsBytes \/ Dies

Relay == RelayState \/ RelayCount \/ RelayPrompt \/ RelayEnds

ProvideCredentials(x) == TakesPrompt(x) \/ WritesReply(x) \/ CallFails(x)

Cli == BeginsFollowing \/ CliSeesChange \/ CliAsks \/ CliAnswers

Gui == GuiRefreshes \/ GuiSendsSaved \/ GuiOpensDialog \/ GuiSubmits \/ GuiCancels

Next ==
  \/ OpenVpn
  \/ Relay
  \/ \E x \in Client : ProvideCredentials(x)
  \/ Cli
  \/ Gui

(* tokio polls the relay and the calls, OpenVPN serves its channel, the       *)
(* command reads its signals and its user answers.  Nothing is asked of what  *)
(* OpenVPN and its server do on their own, nor of the user of the GUI.        *)
Fairness ==
  /\ WF_vars(Relay)
  /\ WF_vars(ReadsReply)
  /\ \A x \in Client : WF_vars(ProvideCredentials(x))
  /\ WF_vars(Cli)

Spec == Init /\ [][Next]_vars /\ Fairness

-----------------------------------------------------------------------------
(* Properties.                                                              *)

(* OpenVPN's question has been announced, and no reply for it was written or   *)
(* is about to be.                                                           *)
Unanswered ==
  /\ question # NoPrompt
  /\ registered
  /\ \A i \in DOMAIN lines : lines[i] # question
  /\ written[question.n] = 0
  /\ \A x \in Client : call[x].step = "taken" => call[x].prompt # question

(* While a question is unanswered, ProvideCredentials can answer it: the      *)
(* pending prompt is "the most recent, unanswered" one, and no late, invalid  *)
(* or misdirected call has used it up.                                       *)
UnansweredStaysPending == Unanswered => pending = question

(* No prompt is replied to twice, even when the command and the GUI answer it *)
(* at once: a second reply would be taken for the next question.             *)
NoPromptAnsweredTwice == \A n \in 1..MaxPrompts : written[n] <= 1

(* `warrenvpnctl connect` reports failure of a connection that has reported a  *)
(* state only when its OpenVPN is ending, although signals and states are not  *)
(* in step and the object may be gone when it looks (cli main.rs:238-253).     *)
FailureMeansEnd ==
  [][cli # "disconnected" /\ cli' = "disconnected" =>
       phase \in {"exiting", "dead"} \/ (registered /\ state = "none")]_vars

(* A question put while `warrenvpnctl connect` follows gets its answer, or     *)
(* OpenVPN gives it up: nobody waits for the other for ever.                 *)
QuestionsAnswered ==
  (question # NoPrompt /\ "cli" \in Client) ~> (question = NoPrompt \/ cli \in Ended)

(* An announced exit ends `warrenvpnctl connect`, whether the last State is    *)
(* read before or after the object is removed, and however early it came.    *)
ExitEndsFollow == (phase = "exiting" /\ "cli" \in Client) ~> (cli \in Ended)

=============================================================================
