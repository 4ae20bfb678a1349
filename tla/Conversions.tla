---------------------------- MODULE Conversions ----------------------------
(***************************************************************************)
(* The line reader together with the conversions of text: from the reader's   *)
(* first state one sample is chosen, the input of one of the pure functions,    *)
(* and the properties say what becomes of it.                                 *)
(***************************************************************************)
EXTENDS LineReader, Management, OptionFile, StoreText

CONSTANT Samples    \* the inputs

(* What OpenVPN may send and a client may enter: texts of any length, without    *)
(* the word or separator that would end the field they stand in.               *)
Lacking(c) == {s \in Seq(Nat) : ~Has(s, c)}
Entry == Lacking(LF)
Realm == {s \in Lacking(Quote) : ~Has(s, SC) /\ ~Has(s, CRV1)}
Credential == [kind : {"credential"}, realm : Entry, value : Entry]
Dynamic == [kind : {"dynamic"}, realm : Realm, flags : Lacking(Colon), state : Lacking(Colon),
            user : {bytes \in Seq(0..255) : bytes \in Utf8}, text : Seq(Nat)]
Static == [kind : {"static"}, realm : Realm, echo : Nat \ (Whitespace \cup {Comma, CRV1}),
           text : Lacking(CRV1)]
Reply == [kind : {"reply"}, password : Seq(0..255), response : Seq(0..255)]

(* Two texts, one after the other; and a line with an option, somewhere in a      *)
(* configuration: each letter of its name is spelled in one of five ways.       *)
Style == {"bare", "escaped", "single", "double", "after a joint"}
Spelled(letter) ==
  CASE letter.style = "escaped" -> <<Backslash, letter.ch>>
    [] letter.style = "single" -> <<Quote, letter.ch, Quote>>
    [] letter.style = "double" -> <<DoubleQuote, letter.ch, DoubleQuote>>
    [] letter.style = "after a joint" -> <<Backslash, LF, letter.ch>>
    [] OTHER -> <<letter.ch>>
AddSpelled(text, letter) == text \o Spelled(letter)
Spelling(letters) == FoldLeft(AddSpelled, <<>>, letters)
Word(letters) == [i \in 1..Len(letters) |-> letters[i].ch]

Pair == [kind : {"pair"}, first : Seq(Nat), second : Seq(Nat)]
(* What follows the name, on its line and on the next ones.                     *)
Following == {s \in Seq(Nat) : s = <<>> \/ Head(s) \in Whitespace}
Option == [kind : {"option"}, before : Seq(Nat), indent : Seq({Space, Tab}),
           letters : Seq([ch : Plain, style : Style]) \ {<<>>}, following : Following]
Rows == [kind : {"rows"}, rows : Seq(Line)]
Names == [kind : {"name"}, safe : BOOLEAN, name : Seq(Nat)]

ASSUME SampleAssumption == \A s \in Samples :
  /\ s.kind = "credential" => s \in Credential
  /\ s.kind = "dynamic" => s \in Dynamic
  /\ s.kind = "static" => s \in Static
  /\ s.kind = "reply" => s \in Reply
  /\ s.kind = "pair" => s \in Pair
  /\ s.kind = "option" => s \in Option
  /\ s.kind = "rows" => s \in Rows
  /\ s.kind = "name" => s \in Names
(* `dns-updown` itself is read as it stands.                                    *)
ASSUME NameAssumption == DnsUpdown \in Seq(Plain)

VARIABLE sample    \* the input of a pure function, or NoSample

NoSample == [kind |-> "none"]
TextInit == Init /\ sample = NoSample
Reads == sample = NoSample /\ Next /\ UNCHANGED sample
Converts == sample = NoSample /\ sent = <<>> /\ at = "reading" /\ sample' \in Samples /\ UNCHANGED vars
TextSpec == TextInit /\ [][Reads \/ Converts]_<<vars, sample>>

-----------------------------------------------------------------------------
(* The report of a failed login with a dynamic challenge, from                 *)
(* `>PASSWORD:Verification Failed: 'realm' ['CRV1:flags:state:user:` on.        *)
Report(realm, flags, state, user, text) ==
  <<VerificationFailed>> \o (<<Quote>> \o (realm \o (<<Quote>> \o (<<Space>> \o (<<Quote>> \o
    (<<CRV1>> \o (flags \o (<<Colon>> \o (state \o (<<Colon>> \o (user \o (<<Colon>> \o text))))))))))))

(* The request for a user name and a password with a static challenge.          *)
Request(realm, echo, text) ==
  <<Need>> \o (<<Quote>> \o (realm \o (<<Quote>> \o (<<Space>> \o (<<UserPass>> \o (<<Space>> \o
    (<<SC>> \o (<<echo>> \o (<<Comma>> \o text)))))))))

(* OpenVPN lexes a command into exactly the realm and the value it was made of, *)
(* whatever spaces, quotes and backslashes they hold.                         *)
CredentialsArrive == sample.kind = "credential" =>
  Lexed(Command(Pass, sample.realm, sample.value)) = <<<<Pass>>, sample.realm, sample.value>>

(* The relay asks a client for what the report of a failed login says; with a    *)
(* dynamic challenge it looks at nothing else.                                *)
ReadsDynamic(realm, flags, state, user, text) ==
  LET request == ParsePasswordRequest(
        Report(realm, flags, state, Base64Encode(user), text \o <<Quote, Bracket>>))
  IN /\ request.ok /\ request.realm = realm /\ request.failed
     /\ request.dynamic =
          [present |-> TRUE, echo |-> Has(flags, E), required |-> Has(flags, R),
           state |-> state, user |-> user, text |-> TrimEnd(text, {Bracket, Quote})]

(* It asks for what a request with a static challenge says.                     *)
ReadsStatic(realm, echo, text) ==
  LET request == ParsePasswordRequest(Request(realm, echo, text))
  IN /\ request.ok /\ request.realm = realm /\ ~request.failed /\ request.needsUsername
     /\ request.static = [present |-> TRUE, echo |-> echo = One, text |-> Trim(text, Whitespace)]
     /\ request.dynamic = NoChallenge

(* A challenge is read as the server wrote it: a dynamic one in the report of a *)
(* failed login, its text holding colons, its end being trimmed; a static one   *)
(* in a request, which is not taken for a dynamic one; and the reply to a static *)
(* one decodes to both answers.                                               *)
ChallengesAreRead ==
  /\ sample.kind = "dynamic" =>
       ReadsDynamic(sample.realm, sample.flags, sample.state, sample.user, sample.text)
  /\ sample.kind = "static" => ReadsStatic(sample.realm, sample.echo, sample.text)
  /\ sample.kind = "reply" =>
       LET sent64 == After(Scrv1Password(sample.password, sample.response), SCRV1)
       IN /\ Base64Decode(Before(sent64, Colon)) = [ok |-> TRUE, bytes |-> sample.password]
          /\ Base64Decode(After(sent64, Colon)) = [ok |-> TRUE, bytes |-> sample.response]

(* The lines that are read of a text; and of a text above another: a backslash   *)
(* at the end of the first makes one line of the two lines that meet.           *)
LinesRead(text) == Lines(Joined(text))
EndsOpen(text) == text # <<>> /\ Last(text) = Backslash
LinesReadOfBoth(first, second) ==
  IF EndsOpen(first)
    THEN Front(LinesRead(first))
           \o [LinesRead(second) EXCEPT ![1] = Front(Last(LinesRead(first))) \o @]
    ELSE LinesRead(first) \o LinesRead(second)

LineIsSafe(text) == ParseLine(text) = <<>> \/ EntryIsSafe(ParseLine(text))
LinesAreSafe(lines) == \A text \in Range(lines) : LineIsSafe(text)

(* The verdict on a text above another is that of the lines of the one and of    *)
(* the other, each for itself: no quote, escape or comment reaches another line,  *)
(* but a backslash at the very end of one, in a comment too, makes it and the     *)
(* next a single line.                                                       *)
VerdictIsByLine == sample.kind = "pair" =>
  (IsSafe(sample.first \o <<LF>> \o sample.second)
     = LinesAreSafe(LinesReadOfBoth(sample.first, sample.second)))

(* The line an option stands on, and what it is judged by: its name, and if it    *)
(* is written as a plain `dns-updown` its parameter.                           *)
OptionLine(option) ==
  option.indent \o Joined(Spelling(option.letters)) \o Head(LinesRead(option.following))
OptionIsSafe(option) ==
  /\ Word(option.letters) \notin UnsafeName
  /\ Joined(Spelling(option.letters)) = DnsUpdown => ~RunsDnsCommand(ParseLine(OptionLine(option)))

(* However the name of an option is spelled, whatever text stands above it and     *)
(* whatever follows it, it is judged by its name; unless the text above ends in a  *)
(* backslash, for then its line is the end of the last line there, and is judged   *)
(* as such.                                                                  *)
SpellingIsIrrelevant == sample.kind = "option" =>
  (IsSafe(sample.before \o <<LF>> \o (sample.indent \o Spelling(sample.letters) \o sample.following))
     = /\ IF EndsOpen(sample.before)
            THEN /\ LinesAreSafe(Front(LinesRead(sample.before)))
                 /\ LineIsSafe(Front(Last(LinesRead(sample.before))) \o OptionLine(sample))
            ELSE IsSafe(sample.before) /\ OptionIsSafe(sample)
       /\ LinesAreSafe(Tail(LinesRead(sample.following))))

(* Where the secret block opens whose omission hides a line: no line of the tag  *)
(* that closes it stands between, and it is not itself hidden.                 *)
HiddenBy(rows, hidden, k) ==
  {j \in 1..(k - 1) :
     /\ OpensSecret(rows[j]) /\ hidden[j] = {}
     /\ \A m \in (j + 1)..k : rows[m] # Closing(rows[j].block)}
Hidden(rows) == LET hidden[k \in 1..Len(rows)] == HiddenBy(rows, hidden, k) IN hidden
VisibleUpTo(rows, k) == {j \in 1..k : Hidden(rows)[j] = {}}

AddShown(out, row) == IF row = Placeholder THEN out ELSE Append(out, row)
Shown(rows) == FoldLeft(AddShown, <<>>, rows)

(* The copy without secrets has every line outside the secret blocks, in order,  *)
(* and none inside; other tags do not end an omission.                         *)
OmitsSecrets(rows, shown) ==
  /\ Len(shown) = Cardinality(VisibleUpTo(rows, Len(rows)))
  /\ \A k \in VisibleUpTo(rows, Len(rows)) : shown[Cardinality(VisibleUpTo(rows, k))] = rows[k]
SanitizedOmitsSecrets == sample.kind = "rows" =>
  OmitsSecrets(sample.rows, Shown(SanitizeConfig(sample.rows)))

(* What is read back from the metadata is the verdict and the display name, its  *)
(* line ends as spaces: a name is never taken for a verdict.                    *)
MetadataIsRead == sample.kind = "name" =>
  ReadMeta(MetaFile(sample.safe, sample.name))
    = Meta(sample.safe, [i \in 1..Len(sample.name) |->
                           IF sample.name[i] \in {LF, CR} THEN Space ELSE sample.name[i]])

=============================================================================
