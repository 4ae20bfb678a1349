----------------------------- MODULE StoreText ------------------------------
(***************************************************************************)
(* What the configuration store does to texts: the metadata file, and the     *)
(* copy without secrets that GetSanitizedConfig returns.                     *)
(***************************************************************************)
EXTENDS Characters

CONSTANTS
  SecretBlock,  \* SECRET_BLOCKS
  Block         \* these and the other tags of inline blocks

-----------------------------------------------------------------------------
(* The metadata: two lines, of the verdict and the display name.               *)
SafeKey == 90
NameKey == 91
TrueWord == 92
FalseWord == 93

KeepsLineEnds(name) == name               \* a mutant of EncodeMetaValue
EncodeMetaValue(name) == [i \in 1..Len(name) |-> IF name[i] \in {LF, CR} THEN Space ELSE name[i]]

MetaFile(safe, name) ==
  <<SafeKey, IF safe THEN TrueWord ELSE FalseWord, LF, NameKey>> \o EncodeMetaValue(name) \o <<LF>>

(* `str::lines`: without the carriage return before a line end.                *)
Chomp(s) == IF s # <<>> /\ Last(s) = CR THEN Front(s) ELSE s
TextLines(text) ==
  LET out == CutText(text).out
      lines == [i \in 1..Len(out) |-> Chomp(out[i])]
  IN IF CutText(text).rest = <<>> THEN lines ELSE Append(lines, CutText(text).rest)

(* `read_meta`: the last line of each kind counts.                            *)
Meta(safe, name) == [safe |-> safe, name |-> name]
NoMeta == Meta(FALSE, <<>>)
ReadRow(meta, row) ==
  IF row = <<>> THEN meta
  ELSE IF Head(row) = SafeKey THEN Meta(Tail(row) = <<TrueWord>>, meta.name)
  ELSE IF Head(row) = NameKey THEN Meta(meta.safe, Tail(row))
  ELSE meta
ReadMeta(text) == FoldLeft(ReadRow, NoMeta, TextLines(text))

-----------------------------------------------------------------------------
(* A line of a configuration: a tag that opens or closes a block, or another.   *)
Opening(b) == [tag |-> "open", block |-> b]
Closing(b) == [tag |-> "close", block |-> b]
Other == [tag |-> "none"]
Line == {Opening(b) : b \in Block} \cup {Closing(b) : b \in Block} \cup {Other}
Placeholder == [tag |-> "omitted"]

OpensSecret(row) == row.tag = "open" /\ row.block \in SecretBlock

AnyClosing(skipping, row) == row.tag = "close"        \* a mutant of EndsOmission
EndsOmission(skipping, row) == row \in {Closing(b) : b \in skipping}

(* `sanitize_config`: from a secret block's tag to the tag that closes it.      *)
Sanitized(skipping, out) == [skipping |-> skipping, out |-> out]
SanitizeRow(s, row) ==
  IF s.skipping # {}
    THEN IF EndsOmission(s.skipping, row) THEN Sanitized({}, Append(s.out, row)) ELSE s
  ELSE IF OpensSecret(row) THEN Sanitized({row.block}, s.out \o <<row, Placeholder>>)
  ELSE Sanitized({}, Append(s.out, row))
SanitizeState(rows) == FoldLeft(SanitizeRow, Sanitized({}, <<>>), rows)
SanitizeConfig(rows) == SanitizeState(rows).out
=============================================================================
