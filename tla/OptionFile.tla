---------------------------- MODULE OptionFile ----------------------------
(***************************************************************************)
(* What `ovpn-config` makes of a configuration: lines, tokens, comments,     *)
(* quotes, and the verdict `is_safe`.                                         *)
(***************************************************************************)
EXTENDS Characters

CONSTANTS
  UnsafeName,  \* the UNSAFE list: option names that may run code
  DnsUpdown,   \* the name `dns-updown`
  SafeParam    \* DNS_UPDOWN_SAFE_PARAMS

CommentMark == {Hash, Semicolon}
(* The characters that mean nothing to the tokenizer.                         *)
Plain == Nat \ (Whitespace \cup CommentMark \cup {Backslash, Quote, DoubleQuote, Slash, Star})

-----------------------------------------------------------------------------
(* `find_close_comment`: where a star and a slash stand.                       *)
Closes(line, from) == {j \in from..(Len(line) - 1) : line[j] = Star /\ line[j + 1] = Slash}

(* `skip_ws_and_comments`: where the next token may start, and whether a       *)
(* comment was left open.  `//` and `/*` both run to the end of the line; a    *)
(* slash before anything else makes it look for a closing star and slash.      *)
SkipFrom(line, skip, i) ==
  IF i > Len(line) THEN [at |-> i, result |-> "Ok"]
  ELSE IF line[i] \in Whitespace THEN skip[i + 1]
  ELSE IF line[i] \in CommentMark THEN [at |-> Len(line) + 1, result |-> "Ok"]
  ELSE IF i = Len(line) \/ line[i] # Slash THEN [at |-> i, result |-> "Ok"]
  ELSE IF line[i + 1] \in {Slash, Star} THEN [at |-> Len(line) + 1, result |-> "Ok"]
  ELSE IF Closes(line, i) = {} THEN [at |-> i, result |-> "Err"]
  ELSE skip[Min(Closes(line, i)) + 2]
Skips(line) == LET skip[i \in 1..(Len(line) + 1)] == SkipFrom(line, skip, i) IN skip
Skip(line, from) == Skips(line)[from]

(* What the tokenizer and `unquote` remember between two characters.           *)
Opens(ch) == CASE ch = Backslash -> "escaped"
               [] ch = Quote -> "single"
               [] ch = DoubleQuote -> "double"
               [] OTHER -> "plain"

(* `next_token`: a backslash escapes outside quotes only.                     *)
TokenMode(mode, ch) ==
  CASE mode = "plain" -> Opens(ch)
    [] mode = "single" -> IF ch = Quote THEN "plain" ELSE "single"
    [] mode = "double" -> IF ch = DoubleQuote THEN "plain" ELSE "double"
    [] OTHER -> "plain"
Mode(text) == FoldLeft(TokenMode, "plain", text)

(* The first white space outside quotes, or the end.                          *)
TokenEnd(line, from) ==
  Min({i \in from..Len(line) : line[i] \in Whitespace /\ Mode(SubSeq(line, from, i - 1)) = "plain"}
        \cup {Len(line) + 1})

(* `parse_line`: only the error of the first skip empties the line.  The         *)
(* placeholder that `sanitize_config` puts in is left out.                     *)
TokensFrom(line, tokens, i) ==
  IF i > Len(line) THEN <<>>
  ELSE <<SubSeq(line, i, TokenEnd(line, i) - 1)>> \o tokens[Skip(line, TokenEnd(line, i)).at]
Tokens(line) == LET tokens[i \in 1..(Len(line) + 1)] == TokensFrom(line, tokens, i) IN tokens
ParseLine(line) ==
  IF Skip(line, 1).result = "Ok" THEN Tokens(line)[Skip(line, 1).at] ELSE <<>>

(* `unquote`: a backslash also escapes inside double quotes.                  *)
Unquoted(mode, out) == [mode |-> mode, out |-> out]
UnquoteNext(s, ch) ==
  CASE s.mode = "escaped" -> Unquoted("plain", Append(s.out, ch))
    [] s.mode = "escaped in double" -> Unquoted("double", Append(s.out, ch))
    [] s.mode = "double" /\ ch = Backslash -> Unquoted("escaped in double", s.out)
    [] OTHER -> Unquoted(TokenMode(s.mode, ch),
                         IF TokenMode(s.mode, ch) = s.mode THEN Append(s.out, ch) ELSE s.out)
UnquoteState(token) == FoldLeft(UnquoteNext, Unquoted("plain", <<>>), token)
Unquote(token) == UnquoteState(token).out

-----------------------------------------------------------------------------
(* `Config::parse`: a backslash at the end of a line joins it to the next,      *)
(* before anything else is looked at, comments included.                     *)
Joining(out, last) == [out |-> out, last |-> last]
JoinNext(s, ch) ==
  Joining(IF ch = LF /\ s.last = Backslash THEN Front(s.out) ELSE Append(s.out, ch), ch)
JoinState(text) == FoldLeft(JoinNext, Joining(<<>>, LF), text)
Joined(text) == JoinState(text).out

(* The lines, and what they say: the verdict does not depend on their order.    *)
Lines(text) == Append(CutText(text).out, CutText(text).rest)
Parse(text) == {ParseLine(line) : line \in Range(Lines(Joined(text)))} \ {<<>>}

(* The option's name as OpenVPN reads it.                                     *)
RawName(entry) == Head(entry)                 \* a mutant of Name
Name(entry) == Unquote(Head(entry))

(* `contains_dns_updown_command`: no parameter, or not one of the two.  This    *)
(* name is compared as it stands in the file, quotes and backslashes included. *)
RunsDnsCommand(entry) ==
  /\ Head(entry) = DnsUpdown
  /\ Len(entry) = 1 \/ Unquote(entry[2]) \notin SafeParam

EntryIsSafe(entry) == Name(entry) \notin UnsafeName /\ ~RunsDnsCommand(entry)

(* A mutant of IsSafe: only the first line is looked at.                       *)
FirstLineOnly(text) ==
  LET first == ParseLine(Head(Lines(Joined(text)))) IN first = <<>> \/ EntryIsSafe(first)

(* `is_safe`: no line runs code.                                              *)
IsSafe(text) == \A entry \in Parse(text) : EntryIsSafe(entry)
=============================================================================
