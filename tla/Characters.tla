----------------------------- MODULE Characters -----------------------------
(***************************************************************************)
(* The characters that the conversions of text tell apart.  A text is a        *)
(* sequence of characters, and a character a number: one of base64's alphabet   *)
(* is its value there, the others with a meaning follow, and a fixed word such    *)
(* as `CRV1:` or `safe=` is one character from 80 on.                           *)
(***************************************************************************)
EXTENDS Integers, SequencesExt

Slash == 63    \* of the alphabet, and of comments
Pad == 64
Colon == 65
Comma == 66
Space == 67
Quote == 68
DoubleQuote == 69
Backslash == 70
Bracket == 71
LF == 72
CR == 73
Tab == 74
Hash == 75
Semicolon == 76
Star == 77

Whitespace == {Tab, LF, CR, Space}

(* A text cut at its line ends: the lines that have one, and what follows.      *)
Cut(out, rest) == [out |-> out, rest |-> rest]
CutAt(s, ch) == IF ch = LF THEN Cut(Append(s.out, s.rest), <<>>) ELSE Cut(s.out, Append(s.rest, ch))
CutText(text) == FoldLeft(CutAt, Cut(<<>>, <<>>), text)
=============================================================================
