---------------------------- MODULE Management ----------------------------
(***************************************************************************)
(* The texts of the management channel: commands and their quoting, base64,   *)
(* static and dynamic challenges, password requests.                         *)
(***************************************************************************)
EXTENDS Characters

CONSTANT Utf8    \* the sequences of bytes that are UTF-8

Need == 80
VerificationFailed == 81
UserPass == 82
Pass == 83
SC == 84
CRV1 == 85
SCRV1 == 86
\* the letters of challenge flags, and the digit
E == 4
R == 17
One == 53

(* Where a character first is, what is before it and what is after it.         *)
Find(s, c) == Min({i \in 1..Len(s) : s[i] = c} \cup {Len(s) + 1})
Has(s, c) == \E i \in 1..Len(s) : s[i] = c
Before(s, c) == SubSeq(s, 1, Find(s, c) - 1)
After(s, c) == SubSeq(s, Find(s, c) + 1, Len(s))

(* The text without the characters of C at its end, or at both ends.           *)
TrimEnd(s, C) == SubSeq(s, 1, Max({i \in 1..Len(s) : s[i] \notin C} \cup {0}))
Trim(s, C) == Reverse(TrimEnd(Reverse(TrimEnd(s, C)), C))

-----------------------------------------------------------------------------
(* `escape_mgmt_value`: in double quotes, with both special characters escaped. *)
\* a mutant of Escaped: backslashes are left as they are
EscapedQuote(ch) == IF ch = DoubleQuote THEN <<Backslash, ch>> ELSE <<ch>>
Escaped(ch) == IF ch \in {DoubleQuote, Backslash} THEN <<Backslash, ch>> ELSE <<ch>>
AddEscaped(text, ch) == text \o Escaped(ch)
Escape(value) == FoldLeft(AddEscaped, <<DoubleQuote>>, value) \o <<DoubleQuote>>

(* `command::username` and `command::password`.                               *)
Command(word, realm, value) == <<word, Space>> \o Escape(realm) \o <<Space>> \o Escape(value)

(* OpenVPN's `parse_line`: spaces separate tokens, double quotes group, a       *)
(* backslash takes the next character as it is.                               *)
Lex(mode, token, out) == [mode |-> mode, token |-> token, out |-> out]
LexStart == Lex("between", <<>>, <<>>)
LexEnds(s) == Lex("between", <<>>, Append(s.out, s.token))
LexQuoted(s, ch) ==
  CASE ch = Backslash -> Lex("quoted, escaped", s.token, s.out)
    [] ch = DoubleQuote -> Lex("bare", s.token, s.out)
    [] OTHER -> Lex("quoted", Append(s.token, ch), s.out)
LexBare(s, ch) ==
  CASE ch = Space -> IF s.mode = "between" THEN s ELSE LexEnds(s)
    [] ch = Backslash -> Lex("escaped", s.token, s.out)
    [] ch = DoubleQuote -> Lex("quoted", s.token, s.out)
    [] OTHER -> Lex("bare", Append(s.token, ch), s.out)
LexAdd(s, ch) ==
  CASE s.mode = "escaped" -> Lex("bare", Append(s.token, ch), s.out)
    [] s.mode = "quoted, escaped" -> Lex("quoted", Append(s.token, ch), s.out)
    [] s.mode = "quoted" -> LexQuoted(s, ch)
    [] OTHER -> LexBare(s, ch)
LexState(text) == FoldLeft(LexAdd, LexStart, text)
Lexed(text) ==
  IF LexState(text).mode = "between" THEN LexState(text).out ELSE LexEnds(LexState(text)).out

-----------------------------------------------------------------------------
(* Three bytes as a number; the six bit and the eight bit pieces of a number.   *)
Bits24(a, b, c) == 256 * (256 * a + b) + c
Shift6(n) == n \div 64
Shift8(n) == n \div 256
Sextets(n) == <<Shift6(Shift6(Shift6(n))), Shift6(Shift6(n)) % 64, Shift6(n) % 64, n % 64>>
Octets(n) == <<Shift8(Shift8(n)), Shift8(n) % 256, n % 256>>

(* `base64_encode`: three bytes as four characters, the last group padded.      *)
ByteAt(bytes, i) == IF i <= Len(bytes) THEN bytes[i] ELSE 0
Group(bytes, g) == Bits24(ByteAt(bytes, 3 * g + 1), ByteAt(bytes, 3 * g + 2), ByteAt(bytes, 3 * g + 3))
Base64Encode(bytes) ==
  [j \in 1..(4 * ((Len(bytes) + 2) \div 3)) |->
     LET g == (j - 1) \div 4
         k == (j - 1) % 4
     IN IF 3 * g + k > Len(bytes) THEN Pad ELSE Sextets(Group(bytes, g))[k + 1]]

Undecodable == [ok |-> FALSE, bytes |-> <<>>]

(* `base64_decode`: padding and white space are skipped, a group of one         *)
(* character or a foreign character refused.                                  *)
AddCleaned(chars, c) == IF c \in {Pad} \cup Whitespace THEN chars ELSE Append(chars, c)
Cleaned(text) == FoldLeft(AddCleaned, <<>>, text)
Buffer(chars, g) ==
  LET Char(k) == ByteAt(chars, 4 * g + k)
  IN 64 * (64 * (64 * Char(1) + Char(2)) + Char(3)) + Char(4)
DecodeChars(chars) ==
  IF Len(chars) % 4 = 1 \/ \E i \in 1..Len(chars) : chars[i] \notin 0..63
    THEN Undecodable
    ELSE [ok |-> TRUE, bytes |-> [j \in 1..((3 * Len(chars)) \div 4) |->
            Octets(Buffer(chars, (j - 1) \div 3))[((j - 1) % 3) + 1]]]
Base64Decode(text) == DecodeChars(Cleaned(text))

(* `scrv1_password`.                                                          *)
Scrv1Password(password, response) ==
  <<SCRV1>> \o Base64Encode(password) \o <<Colon>> \o Base64Encode(response)

-----------------------------------------------------------------------------
NoChallenge == [present |-> FALSE]

(* `parse_dynamic_challenge`: flags, state id, user name and a text that may    *)
(* hold colons; a user name that is no base64, or no UTF-8, counts as empty.    *)
UserName(text) ==
  LET bytes == Base64Decode(text).bytes
  IN IF bytes \in Utf8 THEN bytes ELSE <<>>
ParseDynamicChallenge(s) ==
  LET rest == After(s, CRV1)
      afterFlags == After(rest, Colon)
      afterState == After(afterFlags, Colon)
      flags == Before(rest, Colon)
  IN IF ~Has(s, CRV1) \/ ~Has(rest, Colon) \/ ~Has(afterFlags, Colon) THEN NoChallenge
     ELSE [present |-> TRUE,
           echo |-> Has(flags, E), required |-> Has(flags, R),
           state |-> Before(afterFlags, Colon),
           user |-> UserName(Before(afterState, Colon)),
           text |-> TrimEnd(After(afterState, Colon), {Bracket, Quote})]

(* The static challenge of a request: `SC:<echo>,<text>`.                      *)
ParseStaticChallenge(s) ==
  LET rest == After(s, SC)
  IN IF ~Has(s, SC) \/ ~Has(rest, Comma) THEN NoChallenge
     ELSE [present |-> TRUE, echo |-> Trim(Before(rest, Comma), Whitespace) = <<One>>,
           text |-> Trim(After(rest, Comma), Whitespace)]

(* A mutant of ParsePasswordRequest: the realm is the last quoted word.        *)
LastQuoted(s) ==
  [ok |-> TRUE, realm |-> Reverse(Before(After(Reverse(s), Quote), Quote)),
   failed |-> Head(s) = VerificationFailed, needsUsername |-> Has(s, UserPass),
   static |-> ParseStaticChallenge(s), dynamic |-> ParseDynamicChallenge(s)]

(* `parse_password_request`: nothing without a quoted realm.                   *)
ParsePasswordRequest(s) ==
  IF ~Has(After(s, Quote), Quote) THEN [ok |-> FALSE]
  ELSE [ok |-> TRUE, realm |-> Before(After(s, Quote), Quote),
        failed |-> Head(s) = VerificationFailed, needsUsername |-> Has(s, UserPass),
        static |-> ParseStaticChallenge(s), dynamic |-> ParseDynamicChallenge(s)]
=============================================================================
