---------------------------- MODULE LineReader ----------------------------
(***************************************************************************)
(* `read_capped_line`: the relay reads OpenVPN's management channel line by   *)
(* line through a buffered reader, in whatever chunks the bytes arrive, and   *)
(* keeps at most MaxLine bytes of a line.                                        *)
(***************************************************************************)
EXTENDS Naturals, Sequences

CONSTANTS
  Octet,     \* bytes of the channel
  LineFeed,  \* the one that ends a line
  MaxLine,   \* MAX_MGMT_LINE
  MaxChunk,  \* capacity of the buffered reader
  Stream     \* what OpenVPN may write before it closes the channel

ASSUME ReaderAssumption ==
  /\ LineFeed \in Octet
  /\ MaxLine \in Nat /\ MaxChunk \in Nat \ {0}
  /\ Stream \subseteq Seq(Octet)

VARIABLES
  sent,      \* all that OpenVPN writes until it closes
  filled,    \* how much of it the buffered reader has fetched
  taken,     \* how much the calls have consumed
  start,     \* where the line that is being read begins
  buf,       \* `buf`
  overflow,  \* `overflow`
  line,      \* the line last returned: where it was in the channel, and its bytes
  at         \* "reading", "returned", "ended" or "failed"

vars == <<sent, filled, taken, start, buf, overflow, line, at>>

NoLine == [from |-> 1, to |-> 0, bytes |-> <<>>]

(* No more than MaxLine bytes of a line are ever held.                            *)
TypeOK ==
  /\ sent \in Stream
  /\ filled \in 0..Len(sent) /\ taken \in 0..filled /\ start \in 1..(Len(sent) + 1)
  /\ buf \in Seq(Octet) /\ Len(buf) <= MaxLine
  /\ overflow \in BOOLEAN
  /\ line \in [from : 1..(Len(sent) + 1), to : 0..Len(sent), bytes : Seq(Octet)]
  /\ Len(line.bytes) <= MaxLine
  /\ at \in {"reading", "returned", "ended", "failed"}

Init ==
  /\ sent \in Stream
  /\ filled = 0 /\ taken = 0 /\ start = 1
  /\ buf = <<>> /\ overflow = FALSE
  /\ line = NoLine /\ at = "reading"

-----------------------------------------------------------------------------
(* `fill_buf` with nothing buffered: some bytes arrive.                       *)
Fills ==
  /\ at = "reading" /\ taken = filled
  /\ filled' \in (filled + 1)..(filled + MaxChunk)
  /\ filled' <= Len(sent)
  /\ UNCHANGED <<sent, taken, start, buf, overflow, line, at>>

(* The test of both branches; n is the number of bytes to add.                *)
FitsOneMore(n) == ~overflow /\ Len(buf) + n <= MaxLine + 1    \* a mutant of Fits
Fits(n) == ~overflow /\ Len(buf) + n <= MaxLine

(* A line is returned, and the next call starts afresh.                       *)
Returns(to, bytes) ==
  /\ line' = [from |-> start, to |-> to, bytes |-> bytes]
  /\ at' = "returned"
  /\ buf' = <<>> /\ overflow' = FALSE

(* What is buffered has a line end: the line is whole, or dropped.            *)
TakesLine ==
  /\ at = "reading"
  /\ \E p \in (taken + 1)..filled :
       /\ sent[p] = LineFeed /\ \A q \in (taken + 1)..(p - 1) : sent[q] # LineFeed
       /\ taken' = p /\ start' = p + 1
       /\ Returns(p - 1, IF Fits(p - 1 - taken)
                         THEN buf \o SubSeq(sent, taken + 1, p - 1) ELSE <<>>)
  /\ UNCHANGED <<sent, filled>>

(* A mutant of TakesChunk: once over the limit, the rest is taken for a line.  *)
ForgetsOverflow ==
  /\ at = "reading" /\ taken < filled
  /\ \A q \in (taken + 1)..filled : sent[q] # LineFeed
  /\ buf' = IF Fits(filled - taken) THEN buf \o SubSeq(sent, taken + 1, filled) ELSE <<>>
  /\ taken' = filled
  /\ UNCHANGED <<sent, filled, start, overflow, line, at>>

(* No line end yet: the bytes are kept, or the line given up.                 *)
TakesChunk ==
  /\ at = "reading" /\ taken < filled
  /\ \A q \in (taken + 1)..filled : sent[q] # LineFeed
  /\ buf' = IF Fits(filled - taken) THEN buf \o SubSeq(sent, taken + 1, filled) ELSE <<>>
  /\ overflow' = ~Fits(filled - taken)
  /\ taken' = filled
  /\ UNCHANGED <<sent, filled, start, line, at>>

(* OpenVPN has closed the channel: the last line may lack its end.            *)
EndOfStream ==
  /\ at = "reading" /\ taken = filled /\ filled = Len(sent)
  /\ IF buf = <<>> /\ ~overflow
       THEN at' = "ended" /\ UNCHANGED <<start, buf, overflow, line>>
       ELSE start' = taken + 1 /\ Returns(taken, buf)
  /\ UNCHANGED <<sent, filled, taken>>

ReadFails ==
  /\ at = "reading" /\ taken = filled
  /\ at' = "failed"
  /\ UNCHANGED <<sent, filled, taken, start, buf, overflow, line>>

(* The relay has handled the line and reads the next.                         *)
NextCall ==
  /\ at = "returned"
  /\ at' = "reading"
  /\ UNCHANGED <<sent, filled, taken, start, buf, overflow, line>>

Next == Fills \/ TakesLine \/ TakesChunk \/ EndOfStream \/ ReadFails \/ NextCall

Spec == Init /\ [][Next]_vars

-----------------------------------------------------------------------------
(* Whatever the chunks, each call returns exactly the bytes between two line   *)
(* ends, in order and without a gap, and an empty line in place of one that    *)
(* is longer than MaxLine; when the channel has ended nothing is left unread.      *)
ReadsAsSent ==
  /\ at = "returned" =>
       /\ line.from = 1 \/ sent[line.from - 1] = LineFeed
       /\ line.to = Len(sent) \/ sent[line.to + 1] = LineFeed
       /\ \A i \in line.from..line.to : sent[i] # LineFeed
       /\ line.bytes = IF line.to + 1 - line.from <= MaxLine
                       THEN SubSeq(sent, line.from, line.to) ELSE <<>>
       /\ start = taken + 1 /\ taken \in {line.to, line.to + 1}
  /\ at = "ended" => start = Len(sent) + 1
=============================================================================
