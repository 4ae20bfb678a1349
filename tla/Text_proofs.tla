---------------------------- MODULE Text_proofs -----------------------------
(***************************************************************************)
(* Every line the relay gets is one that was sent, for any bytes, any limit    *)
(* and any chunking of the channel; a command, an encoding, a challenge and     *)
(* the reply to one are read as they were written; and in the second part, what  *)
(* is written to the store is read back, what is shown of a configuration        *)
(* omits its secrets, and the verdict on one is that of the lines which are read  *)
(* of it, and of an option its name's.  All are about texts of any length: what    *)
(* the functions compute is proved by induction over the text, with fold lemmas. *)
(***************************************************************************)
EXTENDS Conversions, FoldLemmas, FiniteSetTheorems

(* While a line is read, `start` is where it begins, no line end has been       *)
(* consumed since, and `buf` is all that was consumed of it, unless that is     *)
(* too long: then it is empty, and `overflow` is set.                         *)
Progress ==
  /\ start <= taken + 1
  /\ start = 1 \/ start = Len(sent) + 1 \/ sent[start - 1] = LineFeed
  /\ \A i \in start..taken : sent[i] # LineFeed
  /\ ~overflow => buf = SubSeq(sent, start, taken) /\ taken + 1 - start <= MaxLine
  /\ overflow => buf = <<>> /\ taken + 1 - start > MaxLine

IInv == TypeOK /\ Progress /\ ReadsAsSent

-----------------------------------------------------------------------------
(* Facts about the channel: it is a sequence of bytes, and so is a piece of it. *)
LEMMA Pieces ==
  ASSUME NEW s \in Seq(Octet), NEW a \in 1..(Len(s) + 1), NEW b \in 0..Len(s)
  PROVE  /\ Len(s) \in Nat
         /\ SubSeq(s, a, b) \in Seq(Octet)
         /\ Len(SubSeq(s, a, b)) = IF a <= b THEN b - a + 1 ELSE 0
<1>1. Len(s) \in Nat /\ \A i \in 1..Len(s) : s[i] \in Octet
  BY LenProperties, ElementOfSeq
<1>2. \A i \in a..b : s[i] \in Octet
  BY <1>1
<1>3. a \in Int /\ b \in Int
  BY <1>1
<1> QED
  BY <1>1, <1>2, <1>3, SubSeqProperties

(* What is consumed next is added to what was consumed of the line before.     *)
LEMMA Extends ==
  ASSUME NEW s \in Seq(Octet), NEW a \in 1..(Len(s) + 1), NEW b \in 0..Len(s),
         NEW c \in b..Len(s), a <= b + 1
  PROVE  SubSeq(s, a, b) \o SubSeq(s, b + 1, c) = SubSeq(s, a, c)
<1>1. Len(s) \in Nat
  BY LenProperties
<1>2. b \in (a - 1)..Len(s)
  BY <1>1
<1> QED
  BY <1>1, <1>2, ConcatAdjacentSubSeq

(* The invariant holds at the start.                                          *)
LEMMA InitIInv == Init => IInv
<1> SUFFICES ASSUME Init PROVE IInv
  OBVIOUS
<1> USE ReaderAssumption DEF Init
<1>1. sent \in Seq(Octet) /\ Len(sent) \in Nat
  BY LenProperties
<1>2. <<>> \in Seq(Octet) /\ Len(<<>>) = 0
  BY EmptySeq
<1>3. NoLine \in [from : 1..(Len(sent) + 1), to : 0..Len(sent), bytes : Seq(Octet)]
        /\ NoLine.bytes = <<>>
  BY <1>1, <1>2 DEF NoLine
<1>4. TypeOK
  <2>1. /\ line \in [from : 1..(Len(sent) + 1), to : 0..Len(sent), bytes : Seq(Octet)]
        /\ Len(line.bytes) = 0 /\ Len(buf) = 0 /\ buf \in Seq(Octet)
    BY <1>2, <1>3
  <2>2. 0 <= MaxLine
    OBVIOUS
  <2>3. Len(line.bytes) <= MaxLine /\ Len(buf) <= MaxLine
    BY <2>1, <2>2
  <2>4. filled \in 0..Len(sent) /\ taken \in 0..filled /\ start \in 1..(Len(sent) + 1)
    BY <1>1
  <2> QED
    BY <2>1, <2>3, <2>4 DEF TypeOK
<1>5. SubSeq(sent, 1, 0) = <<>>
  BY SubSeqEmpty
<1>6. Progress /\ ReadsAsSent
  BY <1>1, <1>5 DEF Progress, ReadsAsSent
<1> QED
  BY <1>4, <1>6 DEF IInv

(* The bytes kept when n more are consumed up to c: all of the line, or nothing *)
(* and the overflow is known.                                                *)
LEMMA BufferKept ==
  ASSUME TypeOK, Progress, NEW c \in taken..Len(sent),
         NEW bytes, bytes = IF Fits(c - taken) THEN buf \o SubSeq(sent, taken + 1, c) ELSE <<>>
  PROVE  /\ bytes \in Seq(Octet) /\ Len(bytes) <= MaxLine
         /\ Fits(c - taken) <=> c + 1 - start <= MaxLine
         /\ Fits(c - taken) => bytes = SubSeq(sent, start, c)
<1> USE ReaderAssumption
<1>1. sent \in Seq(Octet) /\ Len(sent) \in Nat /\ <<>> \in Seq(Octet) /\ Len(<<>>) = 0
  BY LenProperties, EmptySeq DEF TypeOK
<1>2. start \in 1..(Len(sent) + 1) /\ taken \in 0..Len(sent) /\ start <= taken + 1
  BY <1>1 DEF TypeOK, Progress
<1>3. CASE overflow
  BY <1>1, <1>2, <1>3 DEF Fits, Progress
<1>4. CASE ~overflow
  <2>1. buf = SubSeq(sent, start, taken) /\ taken + 1 - start <= MaxLine
    BY <1>4 DEF Progress
  <2>2. Len(buf) = taken + 1 - start
    BY <1>1, <1>2, <2>1, Pieces
  <2>3. Fits(c - taken) <=> c + 1 - start <= MaxLine
    BY <1>1, <1>2, <1>4, <2>2 DEF Fits
  <2>4. buf \o SubSeq(sent, taken + 1, c) = SubSeq(sent, start, c)
    BY <1>1, <1>2, <2>1, Extends
  <2>5. SubSeq(sent, start, c) \in Seq(Octet) /\ Len(SubSeq(sent, start, c)) = c + 1 - start
    BY <1>1, <1>2, Pieces
  <2>6. CASE Fits(c - taken)
    <3>1. bytes = SubSeq(sent, start, c)
      BY <2>4, <2>6
    <3>2. c + 1 - start <= MaxLine
      BY <2>3, <2>6
    <3> QED
      BY <2>3, <2>5, <2>6, <3>1, <3>2
  <2>7. CASE ~Fits(c - taken)
    <3>1. bytes = <<>>
      BY <2>7
    <3>2. bytes \in Seq(Octet) /\ Len(bytes) = 0
      BY <1>1, <3>1, Zenon
    <3>3. 0 <= MaxLine
      OBVIOUS
    <3> QED
      BY <2>3, <2>7, <3>2, <3>3
  <2> QED
    BY <2>6, <2>7
<1> QED
  BY <1>3, <1>4

LEMMA FillsIInv == ASSUME IInv, Fills PROVE IInv'
<1>1. sent \in Seq(Octet) /\ Len(sent) \in Nat
  BY ReaderAssumption, LenProperties DEF IInv, TypeOK
<1>2. filled' \in 0..Len(sent) /\ taken \in 0..filled'
  BY ReaderAssumption, <1>1 DEF IInv, TypeOK, Fills
<1>3. TypeOK'
  BY <1>2 DEF IInv, TypeOK, Fills
<1>4. Progress' /\ ReadsAsSent'
  BY DEF IInv, Progress, ReadsAsSent, Fills
<1> QED
  BY <1>3, <1>4 DEF IInv

LEMMA TakesLineIInv == ASSUME IInv, TakesLine PROVE IInv'
<1> USE ReaderAssumption
<1>1. /\ sent \in Seq(Octet) /\ Len(sent) \in Nat /\ <<>> \in Seq(Octet) /\ Len(<<>>) = 0
      /\ TypeOK /\ Progress
  BY LenProperties, EmptySeq DEF IInv, TypeOK
<1>2. PICK p \in (taken + 1)..filled :
        /\ sent[p] = LineFeed /\ \A q \in (taken + 1)..(p - 1) : sent[q] # LineFeed
        /\ taken' = p /\ start' = p + 1
        /\ Returns(p - 1, IF Fits(p - 1 - taken)
                          THEN buf \o SubSeq(sent, taken + 1, p - 1) ELSE <<>>)
  BY DEF TakesLine
<1> DEFINE bytes == IF Fits(p - 1 - taken) THEN buf \o SubSeq(sent, taken + 1, p - 1) ELSE <<>>
<1>3. /\ taken \in 0..Len(sent) /\ filled \in 0..Len(sent) /\ p \in 1..Len(sent)
      /\ start \in 1..(Len(sent) + 1) /\ start <= taken + 1 /\ p - 1 \in taken..Len(sent)
  BY <1>1 DEF TypeOK, Progress
<1>4. /\ bytes \in Seq(Octet) /\ Len(bytes) <= MaxLine
      /\ Fits(p - 1 - taken) <=> p - start <= MaxLine
      /\ Fits(p - 1 - taken) => bytes = SubSeq(sent, start, p - 1)
  <2> HIDE DEF bytes
  <2>1. bytes = IF Fits(p - 1 - taken) THEN buf \o SubSeq(sent, taken + 1, p - 1) ELSE <<>>
    BY DEF bytes
  <2>2. (p - 1) + 1 - start = p - start
    BY <1>3
  <2> DEFINE c == p - 1
  <2>3. c \in taken..Len(sent)
          /\ bytes = IF Fits(c - taken) THEN buf \o SubSeq(sent, taken + 1, c) ELSE <<>>
    BY <1>3, <2>1
  <2> HIDE DEF c
  <2>4. ASSUME NEW b, b = IF Fits(c - taken) THEN buf \o SubSeq(sent, taken + 1, c) ELSE <<>>
        PROVE  /\ b \in Seq(Octet) /\ Len(b) <= MaxLine
               /\ Fits(c - taken) <=> c + 1 - start <= MaxLine
               /\ Fits(c - taken) => b = SubSeq(sent, start, c)
    <3>1. TypeOK /\ Progress /\ c \in taken..Len(sent)
      BY <1>1, <2>3
    <3> QED
      BY <2>4, <3>1, BufferKept, Zenon
  <2>5. /\ bytes \in Seq(Octet) /\ Len(bytes) <= MaxLine
        /\ Fits(c - taken) <=> c + 1 - start <= MaxLine
        /\ Fits(c - taken) => bytes = SubSeq(sent, start, c)
    BY <2>3, <2>4
  <2> QED
    BY <2>2, <2>5 DEF c
<1>5. /\ line' = [from |-> start, to |-> p - 1, bytes |-> bytes] /\ at' = "returned"
      /\ buf' = <<>> /\ overflow' = FALSE /\ taken' = p /\ start' = p + 1
      /\ sent' = sent /\ filled' = filled
  BY <1>2 DEF Returns, TakesLine
<1> HIDE DEF bytes
<1>6. TypeOK'
  <2>1. line' \in [from : 1..(Len(sent) + 1), to : 0..Len(sent), bytes : Seq(Octet)]
    BY <1>3, <1>4, <1>5
  <2>2. line'.bytes = bytes
    BY <1>5
  <2>3. Len(line'.bytes) <= MaxLine /\ Len(buf') <= MaxLine
    BY <1>1, <1>4, <1>5, <2>2
  <2>4. buf' \in Seq(Octet) /\ filled' \in 0..Len(sent) /\ taken' \in 0..filled'
          /\ start' \in 1..(Len(sent) + 1)
    BY <1>1, <1>3, <1>5
  <2> QED
    BY <1>1, <1>5, <2>1, <2>3, <2>4 DEF TypeOK
<1>7. Progress'
  <2>1. SubSeq(sent, p + 1, p) = <<>>
    BY <1>3, SubSeqEmpty
  <2> QED
    BY <1>1, <1>2, <1>3, <1>5, <2>1 DEF Progress
<1>8. ReadsAsSent'
  <2>1. start = 1 \/ sent[start - 1] = LineFeed
    BY <1>1, <1>3 DEF Progress
  <2>2. \A i \in start..(p - 1) : sent[i] # LineFeed
    BY <1>1, <1>2, <1>3 DEF Progress
  <2>3. bytes = IF (p - 1) + 1 - start <= MaxLine THEN SubSeq(sent, start, p - 1) ELSE <<>>
    <3>1. (p - 1) + 1 - start = p - start
      BY <1>3
    <3>2. ~Fits(p - 1 - taken) => bytes = <<>>
      BY DEF bytes
    <3> QED
      BY <1>4, <3>1, <3>2
  <2> QED
    BY <1>2, <1>3, <1>5, <2>1, <2>2, <2>3 DEF ReadsAsSent
<1> QED
  BY <1>6, <1>7, <1>8 DEF IInv

LEMMA TakesChunkIInv == ASSUME IInv, TakesChunk PROVE IInv'
<1> USE ReaderAssumption
<1>1. /\ sent \in Seq(Octet) /\ Len(sent) \in Nat
      /\ TypeOK /\ Progress /\ ReadsAsSent
  BY LenProperties DEF IInv, TypeOK
<1>2. /\ taken \in 0..Len(sent) /\ filled \in taken..Len(sent)
      /\ start \in 1..(Len(sent) + 1) /\ start <= taken + 1
  BY <1>1 DEF TypeOK, Progress
<1>3. /\ buf' \in Seq(Octet) /\ Len(buf') <= MaxLine
      /\ Fits(filled - taken) <=> filled + 1 - start <= MaxLine
      /\ Fits(filled - taken) => buf' = SubSeq(sent, start, filled)
  BY <1>1, <1>2, BufferKept DEF TakesChunk
<1>4. /\ overflow' = ~Fits(filled - taken) /\ taken' = filled
      /\ sent' = sent /\ filled' = filled /\ start' = start /\ line' = line /\ at' = at
      /\ ~Fits(filled - taken) => buf' = <<>>
      /\ at = "reading"
  BY DEF TakesChunk
<1>5. TypeOK'
  BY <1>1, <1>2, <1>3, <1>4 DEF TypeOK
<1>6. Progress'
  <2>1. \A i \in start..filled : sent[i] # LineFeed
    BY <1>1, <1>2 DEF Progress, TakesChunk
  <2>2. ~(filled + 1 - start <= MaxLine) => filled + 1 - start > MaxLine
    BY <1>1, <1>2
  <2>3. CASE Fits(filled - taken)
    <3>1. overflow' = FALSE
      BY <1>4, <2>3, Zenon
    <3>2. buf' = SubSeq(sent, start, filled) /\ filled + 1 - start <= MaxLine
      BY <1>3, <2>3, Zenon
    <3> QED
      BY <1>1, <1>2, <1>4, <2>1, <3>1, <3>2 DEF Progress
  <2>4. CASE ~Fits(filled - taken)
    <3>1. overflow' = TRUE /\ buf' = <<>>
      BY <1>4, <2>4, Zenon
    <3>2. filled + 1 - start > MaxLine
      BY <1>3, <2>2, <2>4, Zenon
    <3> QED
      BY <1>1, <1>2, <1>4, <2>1, <3>1, <3>2 DEF Progress
  <2> QED
    BY <2>3, <2>4
<1>7. ReadsAsSent'
  BY <1>4 DEF ReadsAsSent
<1> QED
  BY <1>5, <1>6, <1>7 DEF IInv

LEMMA EndOfStreamIInv == ASSUME IInv, EndOfStream PROVE IInv'
<1> USE ReaderAssumption
<1>1. /\ sent \in Seq(Octet) /\ Len(sent) \in Nat /\ <<>> \in Seq(Octet) /\ Len(<<>>) = 0
      /\ TypeOK /\ Progress /\ ReadsAsSent
  BY LenProperties, EmptySeq DEF IInv, TypeOK
<1>2. /\ taken = Len(sent) /\ filled = Len(sent)
      /\ start \in 1..(Len(sent) + 1) /\ at = "reading"
      /\ sent' = sent /\ filled' = filled /\ taken' = taken
  BY <1>1 DEF TypeOK, EndOfStream
<1>3. CASE buf = <<>> /\ ~overflow
  <2>1. start = Len(sent) + 1
    <3>1. Len(SubSeq(sent, start, taken)) = 0
      BY <1>1, <1>3 DEF Progress
    <3> QED
      BY <1>1, <1>2, <3>1, Pieces
  <2>2. at' = "ended" /\ start' = start /\ buf' = buf /\ overflow' = overflow /\ line' = line
    BY <1>3 DEF EndOfStream
  <2>3. TypeOK'
    BY <1>1, <1>2, <2>2 DEF TypeOK
  <2>4. Progress'
    BY <1>1, <1>2, <2>2 DEF Progress
  <2>5. ReadsAsSent'
    BY <1>2, <2>1, <2>2 DEF ReadsAsSent
  <2> QED
    BY <2>3, <2>4, <2>5 DEF IInv
<1>4. CASE ~(buf = <<>> /\ ~overflow)
  <2>1. /\ line' = [from |-> start, to |-> taken, bytes |-> buf] /\ at' = "returned"
        /\ buf' = <<>> /\ overflow' = FALSE /\ start' = taken + 1
    BY <1>4 DEF EndOfStream, Returns
  <2>2. TypeOK'
    <3>1. line' \in [from : 1..(Len(sent) + 1), to : 0..Len(sent), bytes : Seq(Octet)]
      BY <1>1, <1>2, <2>1 DEF TypeOK
    <3>2. line'.bytes = buf /\ Len(buf) <= MaxLine /\ Len(buf') <= MaxLine
      BY <1>1, <2>1 DEF TypeOK
    <3>3. start' \in 1..(Len(sent) + 1) /\ buf' \in Seq(Octet)
      BY <1>1, <1>2, <2>1
    <3> QED
      BY <1>1, <1>2, <2>1, <3>1, <3>2, <3>3 DEF TypeOK
  <2>3. Progress'
    <3>1. SubSeq(sent, taken + 1, taken) = <<>>
      BY <1>1, <1>2, SubSeqEmpty
    <3> QED
      BY <1>1, <1>2, <2>1, <3>1 DEF Progress
  <2>4. ReadsAsSent'
    <3>1. start # Len(sent) + 1
      <4>1. CASE overflow
        BY <1>1, <1>2, <4>1 DEF Progress
      <4>2. CASE ~overflow
        <5>1. buf = SubSeq(sent, start, taken) /\ buf # <<>>
          BY <1>1, <1>4, <4>2 DEF Progress
        <5>2. taken < Len(sent) + 1 /\ Len(sent) + 1 \in Int /\ taken \in Int
          BY <1>1, <1>2
        <5> QED
          BY <5>1, <5>2, SubSeqEmpty
      <4> QED
        BY <4>1, <4>2
    <3>2. start = 1 \/ sent[start - 1] = LineFeed
      BY <1>1, <3>1 DEF Progress
    <3>3. \A i \in start..taken : sent[i] # LineFeed
      BY <1>1 DEF Progress
    <3>4. buf = IF taken + 1 - start <= MaxLine THEN SubSeq(sent, start, taken) ELSE <<>>
      BY <1>1, <1>2 DEF Progress
    <3> QED
      BY <1>1, <1>2, <2>1, <3>2, <3>3, <3>4 DEF ReadsAsSent
  <2> QED
    BY <2>2, <2>3, <2>4 DEF IInv
<1> QED
  BY <1>3, <1>4

(* Every step keeps it.                                                       *)
LEMMA StepIInv == IInv /\ [Next]_vars => IInv'
<1> SUFFICES ASSUME IInv, [Next]_vars PROVE IInv'
  OBVIOUS
<1>1. CASE ReadFails
  BY <1>1 DEF ReadFails, IInv, TypeOK, Progress, ReadsAsSent
<1>2. CASE NextCall
  BY <1>2 DEF NextCall, IInv, TypeOK, Progress, ReadsAsSent
<1>3. CASE UNCHANGED vars
  BY <1>3 DEF vars, IInv, TypeOK, Progress, ReadsAsSent
<1> QED
  BY <1>1, <1>2, <1>3, FillsIInv, TakesLineIInv, TakesChunkIInv, EndOfStreamIInv DEF Next

LEMMA Invariance == Spec => []IInv
BY InitIInv, StepIInv, PTL DEF Spec

-----------------------------------------------------------------------------
(* The reader holds at most MAX_MGMT_LINE bytes of a line, whatever arrives.   *)
THEOREM TypeCorrect == Spec => []TypeOK
<1>1. IInv => TypeOK
  BY DEF IInv
<1> QED
  BY <1>1, Invariance, PTL

(* Every call returns exactly the bytes of the next line, or an empty line for  *)
(* one that is too long, for any chunking of any channel and any limit.        *)
THEOREM LinesAreReadAsSent == Spec => []ReadsAsSent
<1>1. IInv => ReadsAsSent
  BY DEF IInv
<1> QED
  BY <1>1, Invariance, PTL

-----------------------------------------------------------------------------
(* Appending is concatenation with one or two elements.                        *)
LEMMA Concats ==
  ASSUME NEW A, NEW s \in Seq(A), NEW a \in A
  PROVE  /\ s \o <<a>> = Append(s, a) /\ s \o <<>> = s /\ Append(s, a) \in Seq(A)
         /\ \A b \in A : s \o <<a, b>> = Append(Append(s, a), b)
         /\ \A t \in Seq(A) : s \o t \in Seq(A) /\ s \o Append(t, a) = Append(s \o t, a)
<1>1. <<a>> \in Seq(A) /\ \A b \in A : <<a, b>> \in Seq(A)
  OBVIOUS
<1>2. s \o <<a>> = Append(s, a) /\ Append(s, a) \in Seq(A) /\ s \o <<>> = s
  BY AppendProperties, AppendIsConcat, ConcatEmptySeq
<1>3. ASSUME NEW b \in A PROVE s \o <<a, b>> = Append(Append(s, a), b)
  OBVIOUS
<1>4. ASSUME NEW t \in Seq(A) PROVE s \o t \in Seq(A) /\ s \o Append(t, a) = Append(s \o t, a)
  <2>1. s \o t \in Seq(A)
    BY ConcatProperties
  <2>2. Append(t, a) = t \o <<a>> /\ Append(s \o t, a) = (s \o t) \o <<a>>
    BY <2>1, AppendIsConcat
  <2>3. (s \o t) \o <<a>> = s \o (t \o <<a>>)
    BY <1>1, ConcatAssociative
  <2> QED
    BY <2>1, <2>2, <2>3
<1> QED
  BY <1>2, <1>3, <1>4

-----------------------------------------------------------------------------
(* `escape_mgmt_value` adds the characters of the value one by one.             *)
Adding == [x \in Seq(Nat) \X Nat |-> AddEscaped(x[1], x[2])]
Opened(value) == FoldLeft(AddEscaped, <<DoubleQuote>>, value)

LEMMA QuoteCodes == DoubleQuote \in Nat /\ Backslash \in Nat /\ Space \in Nat
  /\ DoubleQuote # Backslash /\ Space \notin {DoubleQuote, Backslash}
BY DEF DoubleQuote, Backslash, Space

(* What `Escape` folds, as a function, and that it stays in its types.        *)
LEMMA AddingFolds ==
  /\ Foldable(Nat, Seq(Nat), Adding, <<DoubleQuote>>)
  /\ \A s \in Seq(Nat), c \in Nat : Adding[<<s, c>>] = AddEscaped(s, c)
<1>1. \A s \in Seq(Nat), c \in Nat : AddEscaped(s, c) \in Seq(Nat)
  <2> SUFFICES ASSUME NEW s \in Seq(Nat), NEW c \in Nat PROVE AddEscaped(s, c) \in Seq(Nat)
    OBVIOUS
  <2>1. Escaped(c) \in Seq(Nat)
    BY QuoteCodes DEF Escaped
  <2> QED
    BY <2>1, ConcatProperties DEF AddEscaped
<1>2. <<DoubleQuote>> \in Seq(Nat)
  BY QuoteCodes
<1> QED
  BY <1>1, <1>2 DEF Foldable, Adding

(* `Escape` before its last quote is such a fold.                             *)
LEMMA OpenedIsFold ==
  ASSUME NEW value \in Seq(Nat)
  PROVE  Opened(value) = Folded(Nat, Seq(Nat), Adding, <<DoubleQuote>>, value)
<1> DEFINE P(it) == it = [s \in SUBSET DOMAIN value |->
                            IF s = {} THEN <<DoubleQuote>>
                            ELSE AddEscaped(it[s \ {Max(s)}], value[Max(s)])]
           it == CHOOSE f : P(f)
<1>1. /\ Len(value) \in Nat /\ DOMAIN value = 1..Len(value)
      /\ \A i \in 1..Len(value) : value[i] \in Nat
  BY LenProperties, ElementOfSeq
<1>2. P(it)
  <2>1. PICK f : Stays(Nat, Seq(Nat), Adding, <<DoubleQuote>>, value, f)
    BY AddingFolds, FoldStays
  <2>2. P(f)
    BY <1>1, <2>1, AddingFolds DEF Stays, Unfolds
  <2> QED
    BY <2>2
<1>3. Opened(value) = it[DOMAIN value]
  BY DEF Opened, FoldLeft, MapThenFoldSet
<1>4. ASSUME NEW k \in 1..Len(value)
      PROVE  it[1..k] = AddEscaped(it[1..k - 1], value[k])
  <2>1. /\ 1..k \in SUBSET DOMAIN value /\ 1..k # {} /\ Max(1..k) = k
        /\ (1..k) \ {k} = 1..k - 1
    BY <1>1, Downward
  <2> QED
    BY <1>2, <2>1
<1>5. it[{}] = <<DoubleQuote>>
  BY <1>2
<1> HIDE DEF it
<1>6. GoesAlong(Nat, Seq(Nat), Adding, <<DoubleQuote>>, value, it)
  BY <1>1, <1>4, <1>5, AddingFolds DEF GoesAlong
<1> QED
  BY <1>1, <1>3, <1>6, FoldedAlong

(* It starts with a quote and takes one character more.                       *)
LEMMA OpenedFacts ==
  /\ Opened(<<>>) = <<DoubleQuote>>
  /\ \A s \in Seq(Nat) : Opened(s) \in Seq(Nat)
  /\ \A s \in Seq(Nat), c \in Nat : Opened(Append(s, c)) = AddEscaped(Opened(s), c)
<1> DEFINE F(s) == Folded(Nat, Seq(Nat), Adding, <<DoubleQuote>>, s)
<1>1. /\ F(<<>>) = <<DoubleQuote>>
      /\ \A s \in Seq(Nat) : F(s) \in Seq(Nat)
      /\ \A s \in Seq(Nat), c \in Nat : F(Append(s, c)) = Adding[<<F(s), c>>]
  BY AddingFolds, FoldedFacts
<1>2. \A s \in Seq(Nat), c \in Nat : Append(s, c) \in Seq(Nat)
  BY AppendProperties
<1>3. \A s \in Seq(Nat) : Opened(s) = F(s)
  BY OpenedIsFold
<1> HIDE DEF F
<1>4. <<>> \in Seq(Nat)
  BY EmptySeq
<1>5. Opened(<<>>) = <<DoubleQuote>>
  BY <1>1, <1>3, <1>4
<1>6. ASSUME NEW s \in Seq(Nat), NEW c \in Nat PROVE Opened(Append(s, c)) = AddEscaped(Opened(s), c)
  <2>1. /\ Opened(s) = F(s) /\ Opened(Append(s, c)) = F(Append(s, c)) /\ F(s) \in Seq(Nat)
        /\ F(Append(s, c)) = Adding[<<F(s), c>>]
    BY <1>1, <1>2, <1>3
  <2> QED
    BY <2>1, AddingFolds
<1> QED
  BY <1>1, <1>3, <1>5, <1>6

-----------------------------------------------------------------------------
(* So does OpenVPN's lexer read them.                                          *)
Lexing == [mode : {"between", "bare", "escaped", "quoted", "quoted, escaped"},
           token : Seq(Nat), out : Seq(Seq(Nat))]
Reading == [x \in Lexing \X Nat |-> LexAdd(x[1], x[2])]

(* The lexer's state keeps its types.                                         *)
LEMMA LexTypes == LexStart \in Lexing /\ \A s \in Lexing, c \in Nat : LexAdd(s, c) \in Lexing
<1>1. LexStart \in Lexing
  BY EmptySeq DEF LexStart, Lex, Lexing
<1>2. ASSUME NEW s \in Lexing, NEW c \in Nat PROVE LexAdd(s, c) \in Lexing
  <2>1. s.token \in Seq(Nat) /\ s.out \in Seq(Seq(Nat)) /\ <<>> \in Seq(Nat)
    BY EmptySeq DEF Lexing
  <2>2. Append(s.token, c) \in Seq(Nat) /\ Append(s.out, s.token) \in Seq(Seq(Nat))
    BY <2>1, AppendProperties
  <2>3. \A mode \in {"bare", "quoted", "quoted, escaped", "escaped"} :
          Lex(mode, s.token, s.out) \in Lexing /\ Lex(mode, Append(s.token, c), s.out) \in Lexing
    BY <2>1, <2>2 DEF Lex, Lexing
  <2>4. LexEnds(s) \in Lexing
    BY <2>1, <2>2 DEF LexEnds, Lex, Lexing
  <2>5. LexQuoted(s, c) \in Lexing
    BY <2>3 DEF LexQuoted
  <2>6. LexBare(s, c) \in Lexing
    BY <2>3, <2>4 DEF LexBare
  <2> QED
    BY <2>3, <2>5, <2>6 DEF LexAdd
<1> QED
  BY <1>1, <1>2

LEMMA ReadingFolds ==
  /\ Foldable(Nat, Lexing, Reading, LexStart)
  /\ \A s \in Lexing, c \in Nat : Reading[<<s, c>>] = LexAdd(s, c)
BY LexTypes DEF Foldable, Reading

(* The lexer's state is a fold too.                                           *)
LEMMA LexIsFold ==
  ASSUME NEW text \in Seq(Nat)
  PROVE  LexState(text) = Folded(Nat, Lexing, Reading, LexStart, text)
<1> DEFINE P(it) == it = [s \in SUBSET DOMAIN text |->
                            IF s = {} THEN LexStart
                            ELSE LexAdd(it[s \ {Max(s)}], text[Max(s)])]
           it == CHOOSE f : P(f)
<1>1. /\ Len(text) \in Nat /\ DOMAIN text = 1..Len(text)
      /\ \A i \in 1..Len(text) : text[i] \in Nat
  BY LenProperties, ElementOfSeq
<1>2. P(it)
  <2>1. PICK f : Stays(Nat, Lexing, Reading, LexStart, text, f)
    BY ReadingFolds, FoldStays
  <2>2. P(f)
    BY <1>1, <2>1, ReadingFolds DEF Stays, Unfolds
  <2> QED
    BY <2>2
<1>3. LexState(text) = it[DOMAIN text]
  BY DEF LexState, FoldLeft, MapThenFoldSet
<1>4. ASSUME NEW k \in 1..Len(text)
      PROVE  it[1..k] = LexAdd(it[1..k - 1], text[k])
  <2>1. /\ 1..k \in SUBSET DOMAIN text /\ 1..k # {} /\ Max(1..k) = k
        /\ (1..k) \ {k} = 1..k - 1
    BY <1>1, Downward
  <2> QED
    BY <1>2, <2>1
<1>5. it[{}] = LexStart
  BY <1>2
<1> HIDE DEF it
<1>6. GoesAlong(Nat, Lexing, Reading, LexStart, text, it)
  BY <1>1, <1>4, <1>5, ReadingFolds DEF GoesAlong
<1> QED
  BY <1>1, <1>3, <1>6, FoldedAlong

(* It starts between tokens and takes one character more.                     *)
LEMMA LexFacts ==
  /\ LexState(<<>>) = LexStart
  /\ \A s \in Seq(Nat) : LexState(s) \in Lexing
  /\ \A s \in Seq(Nat), c \in Nat : LexState(Append(s, c)) = LexAdd(LexState(s), c)
<1> DEFINE F(s) == Folded(Nat, Lexing, Reading, LexStart, s)
<1>1. /\ F(<<>>) = LexStart
      /\ \A s \in Seq(Nat) : F(s) \in Lexing
      /\ \A s \in Seq(Nat), c \in Nat : F(Append(s, c)) = Reading[<<F(s), c>>]
  BY ReadingFolds, FoldedFacts
<1>2. \A s \in Seq(Nat), c \in Nat : Append(s, c) \in Seq(Nat)
  BY AppendProperties
<1>3. \A s \in Seq(Nat) : LexState(s) = F(s)
  BY LexIsFold
<1> HIDE DEF F
<1>4. <<>> \in Seq(Nat)
  BY EmptySeq
<1> QED
  BY <1>1, <1>2, <1>3, <1>4, ReadingFolds

-----------------------------------------------------------------------------
(* What the lexer does with each kind of character that a command is made of.     *)
LEMMA LexSteps ==
  ASSUME NEW token, NEW out
  PROVE  /\ LexAdd(Lex("between", token, out), DoubleQuote) = Lex("quoted", token, out)
         /\ LexAdd(Lex("quoted", token, out), Backslash) = Lex("quoted, escaped", token, out)
         /\ \A c \in Nat : LexAdd(Lex("quoted, escaped", token, out), c) = Lex("quoted", Append(token, c), out)
         /\ LexAdd(Lex("quoted", token, out), DoubleQuote) = Lex("bare", token, out)
         /\ LexAdd(Lex("bare", token, out), Space) = Lex("between", <<>>, Append(out, token))
<1>1. \A mode : LET s == Lex(mode, token, out)
                IN s.mode = mode /\ s.token = token /\ s.out = out
  BY DEF Lex
<1>2. DoubleQuote # Backslash /\ Space \notin {DoubleQuote, Backslash}
  BY DEF DoubleQuote, Backslash, Space
<1>3. LexAdd(Lex("between", token, out), DoubleQuote) = Lex("quoted", token, out)
  BY <1>1, <1>2 DEF LexAdd, LexQuoted, LexBare
<1>4. LexAdd(Lex("quoted", token, out), Backslash) = Lex("quoted, escaped", token, out)
  BY <1>1, <1>2 DEF LexAdd, LexQuoted, LexBare
<1>5. \A c \in Nat : LexAdd(Lex("quoted, escaped", token, out), c) = Lex("quoted", Append(token, c), out)
  BY <1>1, <1>2 DEF LexAdd, LexQuoted, LexBare
<1>6. LexAdd(Lex("quoted", token, out), DoubleQuote) = Lex("bare", token, out)
  <2> DEFINE s == Lex("quoted", token, out)
  <2>1. s.mode = "quoted" /\ s.token = token /\ s.out = out
    BY <1>1
  <2> HIDE DEF s
  <2>2. LexAdd(s, DoubleQuote) = LexQuoted(s, DoubleQuote)
    BY <2>1 DEF LexAdd
  <2>3. LexQuoted(s, DoubleQuote) = Lex("bare", s.token, s.out)
    BY <1>2 DEF LexQuoted
  <2> QED
    BY <2>1, <2>2, <2>3 DEF s
<1>7. LexAdd(Lex("bare", token, out), Space) = Lex("between", <<>>, Append(out, token))
  BY <1>1, <1>2 DEF LexAdd, LexQuoted, LexBare, LexEnds
<1> QED
  BY <1>3, <1>4, <1>5, <1>6, <1>7
LEMMA LexOrdinary ==
  ASSUME NEW token, NEW out, NEW c, c \notin {Space, DoubleQuote, Backslash}
  PROVE  LexAdd(Lex("between", token, out), c) = Lex("bare", Append(token, c), out)
BY DEF Lex, LexAdd, LexBare

LEMMA LexOrdinaryQuoted ==
  ASSUME NEW token, NEW out, NEW c, c \notin {DoubleQuote, Backslash}
  PROVE  LexAdd(Lex("quoted", token, out), c) = Lex("quoted", Append(token, c), out)
BY DEF Lex, LexAdd, LexQuoted

(* A quoted value is lexed as the value, whatever was read before it.           *)
LEMMA QuotedIsRead ==
  ASSUME NEW text \in Seq(Nat), NEW out, LexState(text) = Lex("between", <<>>, out),
         NEW value \in Seq(Nat)
  PROVE  LexState(text \o Opened(value)) = Lex("quoted", value, out)
<1> DEFINE Read(v) == LexState(text \o Opened(v)) = Lex("quoted", v, out)
           T == {v \in Seq(Nat) : Read(v)}
<1>1. <<>> \in T
  <2>1. text \o Opened(<<>>) = Append(text, DoubleQuote)
    <3>1. text \o <<DoubleQuote>> = Append(text, DoubleQuote)
      BY Concats, QuoteCodes
    <3> QED
      BY <3>1, OpenedFacts
  <2>2. LexState(Append(text, DoubleQuote)) = LexAdd(LexState(text), DoubleQuote)
    BY LexFacts, QuoteCodes
  <2>3. LexAdd(Lex("between", <<>>, out), DoubleQuote) = Lex("quoted", <<>>, out)
    BY LexSteps
  <2> QED
    BY <2>1, <2>2, <2>3, EmptySeq
<1>2. ASSUME NEW v \in Seq(Nat), NEW c \in Nat, v \in T PROVE Append(v, c) \in T
  <2> DEFINE before == text \o Opened(v)
  <2>1. before \in Seq(Nat) /\ Opened(v) \in Seq(Nat)
    BY OpenedFacts, Concats
  <2>2. LexState(before) = Lex("quoted", v, out)
    BY <1>2
  <2>3. Opened(Append(v, c)) = Opened(v) \o Escaped(c)
    BY OpenedFacts DEF AddEscaped
  <2>4. Append(v, c) \in Seq(Nat)
    BY AppendProperties
  <2>5. CASE c \in {DoubleQuote, Backslash}
    <3>1. Opened(Append(v, c)) = Append(Append(Opened(v), Backslash), c)
      BY <2>1, <2>3, <2>5, QuoteCodes, Concats DEF Escaped
    <3>2. text \o Opened(Append(v, c)) = Append(Append(before, Backslash), c)
      <4> DEFINE longer == Append(Opened(v), Backslash)
      <4>1. longer \in Seq(Nat) /\ text \o longer = Append(before, Backslash)
        BY <2>1, QuoteCodes, Concats
      <4>2. Opened(Append(v, c)) = Append(longer, c)
        BY <3>1
      <4> HIDE DEF longer
      <4>3. text \o Append(longer, c) = Append(text \o longer, c)
        <5>1. longer \in Seq(Nat)
          BY <4>1
        <5> QED
          BY <5>1, Concats
      <4> QED
        BY <4>1, <4>2, <4>3
    <3> HIDE DEF before
    <3>3. Append(before, Backslash) \in Seq(Nat)
      BY <2>1, QuoteCodes, AppendProperties
    <3>4. LexState(Append(before, Backslash)) = LexAdd(LexState(before), Backslash)
            /\ LexState(Append(Append(before, Backslash), c)) = LexAdd(LexState(Append(before, Backslash)), c)
      BY <2>1, <3>3, LexFacts, QuoteCodes
    <3>5. LexAdd(Lex("quoted", v, out), Backslash) = Lex("quoted, escaped", v, out)
      BY LexSteps
    <3>6. LexAdd(Lex("quoted, escaped", v, out), c) = Lex("quoted", Append(v, c), out)
      BY LexSteps
    <3> QED
      BY <2>2, <2>4, <3>2, <3>4, <3>5, <3>6
  <2>6. CASE c \notin {DoubleQuote, Backslash}
    <3>1. Opened(Append(v, c)) = Append(Opened(v), c)
      BY <2>1, <2>3, <2>6, Concats DEF Escaped
    <3>2. text \o Opened(Append(v, c)) = Append(before, c)
      BY <2>1, <3>1, Concats
    <3> HIDE DEF before
    <3>3. LexState(Append(before, c)) = LexAdd(LexState(before), c)
      BY <2>1, LexFacts
    <3>4. LexAdd(Lex("quoted", v, out), c) = Lex("quoted", Append(v, c), out)
      BY <2>6, LexOrdinaryQuoted
    <3> QED
      BY <2>2, <2>4, <3>2, <3>3, <3>4
  <2> QED
    BY <2>5, <2>6
<1>3. Seq(Nat) \subseteq T
  <2> HIDE DEF T
  <2> QED
    BY <1>1, <1>2, SequenceInduction
<1> QED
  BY <1>3

(* The closing quote leaves the value, and then a space ends it.                *)
LEMMA EscapeIsRead ==
  ASSUME NEW text \in Seq(Nat), NEW out, LexState(text) = Lex("between", <<>>, out),
         NEW value \in Seq(Nat)
  PROVE  /\ text \o Escape(value) \in Seq(Nat)
         /\ LexState(text \o Escape(value)) = Lex("bare", value, out)
<1>1. Opened(value) \in Seq(Nat) /\ text \o Opened(value) \in Seq(Nat)
  BY OpenedFacts, Concats, QuoteCodes
<1>2. Escape(value) = Append(Opened(value), DoubleQuote)
  BY <1>1, QuoteCodes, Concats DEF Escape, Opened
<1>3. text \o Escape(value) = Append(text \o Opened(value), DoubleQuote)
  BY <1>1, <1>2, QuoteCodes, Concats
<1>4. LexState(text \o Escape(value)) = LexAdd(LexState(text \o Opened(value)), DoubleQuote)
  BY <1>1, <1>3, QuoteCodes, LexFacts
<1>5. LexState(text \o Opened(value)) = Lex("quoted", value, out)
  BY QuotedIsRead
<1>6. LexAdd(Lex("quoted", value, out), DoubleQuote) = Lex("bare", value, out)
  BY QuoteCodes, LexSteps
<1>7. text \o Escape(value) \in Seq(Nat)
  BY <1>1, <1>3, QuoteCodes, AppendProperties
<1> QED
  BY <1>4, <1>5, <1>6, <1>7

(* A space outside quotes ends the token.                                     *)
LEMMA SpaceEnds ==
  ASSUME NEW text \in Seq(Nat), NEW token, NEW out, LexState(text) = Lex("bare", token, out)
  PROVE  /\ Append(text, Space) \in Seq(Nat)
         /\ LexState(Append(text, Space)) = Lex("between", <<>>, Append(out, token))
<1>1. LexState(Append(text, Space)) = LexAdd(LexState(text), Space)
  BY QuoteCodes, LexFacts
<1>2. LexAdd(Lex("bare", token, out), Space) = Lex("between", <<>>, Append(out, token))
  BY QuoteCodes, LexSteps
<1> QED
  BY <1>1, <1>2, QuoteCodes, AppendProperties

(* Appending to a list of one or two.                                         *)
LEMMA PairAppends ==
  ASSUME NEW A, NEW a \in A, NEW b \in A PROVE Append(<<a>>, b) = <<a, b>>
<1>1. <<a>> \in Seq(A) /\ Len(<<a>>) = 1 /\ <<a>>[1] = a
  OBVIOUS
<1>2. /\ Append(<<a>>, b) \in Seq(A) /\ Len(Append(<<a>>, b)) = 2
      /\ Append(<<a>>, b)[1] = a /\ Append(<<a>>, b)[2] = b
  BY <1>1, AppendProperties
<1>3. <<a, b>> \in Seq(A) /\ Len(<<a, b>>) = 2 /\ <<a, b>>[1] = a /\ <<a, b>>[2] = b
  OBVIOUS
<1>4. \A i \in 1..2 : i = 1 \/ i = 2
  OBVIOUS
<1> DEFINE s == Append(<<a>>, b)
           t == <<a, b>>
<1>5. s \in Seq(A) /\ t \in Seq(A) /\ Len(s) = Len(t) /\ \A i \in 1..Len(s) : s[i] = t[i]
  BY <1>2, <1>3, <1>4
<1>6. s = t
  <2> HIDE DEF s, t
  <2> QED
    BY <1>5, SeqEqual
<1> QED
  BY <1>6

LEMMA TripleAppends ==
  ASSUME NEW A, NEW a \in A, NEW b \in A, NEW c \in A PROVE Append(<<a, b>>, c) = <<a, b, c>>
<1>1. <<a, b>> \in Seq(A) /\ Len(<<a, b>>) = 2 /\ <<a, b>>[1] = a /\ <<a, b>>[2] = b
  OBVIOUS
<1> DEFINE s == Append(<<a, b>>, c)
           t == <<a, b, c>>
<1>2. s \in Seq(A) /\ Len(s) = 3 /\ s[1] = a /\ s[2] = b /\ s[3] = c
  BY <1>1, AppendProperties
<1>3. t \in Seq(A) /\ Len(t) = 3 /\ t[1] = a /\ t[2] = b /\ t[3] = c
  OBVIOUS
<1>4. s = t
  <2> HIDE DEF s, t
  <2>1. \A i \in 1..3 : i = 1 \/ i = 2 \/ i = 3
    OBVIOUS
  <2>2. Len(s) = Len(t) /\ \A i \in 1..Len(s) : s[i] = t[i]
    BY <1>2, <1>3, <2>1
  <2> QED
    BY <1>2, <1>3, <2>2, SeqEqual
<1> QED
  BY <1>4

(* Whatever realm and value a command is made of, OpenVPN lexes it into exactly   *)
(* the word, the realm and the value.                                          *)
THEOREM CommandIsRead ==
  ASSUME NEW word \in Nat \ {Space, Backslash, DoubleQuote}, NEW realm \in Seq(Nat), NEW value \in Seq(Nat)
  PROVE  Lexed(Command(word, realm, value)) = <<<<word>>, realm, value>>
<1>1. <<>> \in Seq(Nat) /\ <<word>> = Append(<<>>, word) /\ <<word>> \in Seq(Nat)
  OBVIOUS
<1>2. LexState(<<word>>) = Lex("bare", <<word>>, <<>>)
  <2>1. LexState(<<word>>) = LexAdd(LexStart, word)
    BY <1>1, LexFacts
  <2>2. LexAdd(Lex("between", <<>>, <<>>), word) = Lex("bare", Append(<<>>, word), <<>>)
    BY LexOrdinary
  <2> QED
    BY <1>1, <2>1, <2>2 DEF LexStart
<1>3. /\ <<word, Space>> \in Seq(Nat)
      /\ LexState(<<word, Space>>) = Lex("between", <<>>, << <<word>> >>)
  <2>1. <<word, Space>> = Append(<<word>>, Space)
    BY QuoteCodes, PairAppends
  <2>2. Append(<<>>, <<word>>) = << <<word>> >>
    OBVIOUS
  <2>3. /\ Append(<<word>>, Space) \in Seq(Nat)
        /\ LexState(Append(<<word>>, Space)) = Lex("between", <<>>, Append(<<>>, <<word>>))
    BY <1>1, <1>2, SpaceEnds
  <2> QED
    BY <2>1, <2>2, <2>3
<1> DEFINE first == <<word, Space>> \o Escape(realm)
           second == Append(first, Space)
           whole == second \o Escape(value)
<1>4. first \in Seq(Nat) /\ LexState(first) = Lex("bare", realm, << <<word>> >>)
  BY <1>3, EscapeIsRead
<1>5. second \in Seq(Nat) /\ LexState(second) = Lex("between", <<>>, << <<word>>, realm >>)
  <2> HIDE DEF first
  <2>1. Append(<< <<word>> >>, realm) = << <<word>>, realm >>
    BY <1>1, PairAppends
  <2>2. /\ Append(first, Space) \in Seq(Nat)
        /\ LexState(Append(first, Space)) = Lex("between", <<>>, Append(<< <<word>> >>, realm))
    BY <1>4, SpaceEnds
  <2> QED
    BY <2>1, <2>2
<1>6. whole \in Seq(Nat) /\ LexState(whole) = Lex("bare", value, << <<word>>, realm >>)
  <2> HIDE DEF second
  <2> QED
    BY <1>5, EscapeIsRead
<1>7. Command(word, realm, value) = whole
  <2>1. first \o <<Space>> = second
    BY <1>4, QuoteCodes, Concats
  <2> QED
    BY <2>1 DEF Command
<1>8. Append(<< <<word>>, realm >>, value) = << <<word>>, realm, value >>
  BY <1>1, TripleAppends
<1> HIDE DEF whole
<1>9. Lexed(whole) = Append(<< <<word>>, realm >>, value)
  BY <1>6 DEF Lexed, LexEnds, Lex
<1> QED
  BY <1>7, <1>8, <1>9

-----------------------------------------------------------------------------
(* What base64_decode skips.                                                  *)
Skipped == {Pad} \cup Whitespace
Cleaning == [x \in Seq(Nat) \X Nat |-> AddCleaned(x[1], x[2])]

(* `base64_decode` skips padding and white space with a fold.                 *)
LEMMA CleaningFolds ==
  /\ Foldable(Nat, Seq(Nat), Cleaning, <<>>)
  /\ \A s \in Seq(Nat), c \in Nat : Cleaning[<<s, c>>] = AddCleaned(s, c)
<1>1. \A s \in Seq(Nat), c \in Nat : AddCleaned(s, c) \in Seq(Nat)
  BY AppendProperties DEF AddCleaned
<1>2. <<>> \in Seq(Nat)
  BY EmptySeq
<1> QED
  BY <1>1, <1>2 DEF Foldable, Cleaning

LEMMA CleanedIsFold ==
  ASSUME NEW text \in Seq(Nat)
  PROVE  Cleaned(text) = Folded(Nat, Seq(Nat), Cleaning, <<>>, text)
<1> DEFINE P(it) == it = [s \in SUBSET DOMAIN text |->
                            IF s = {} THEN <<>>
                            ELSE AddCleaned(it[s \ {Max(s)}], text[Max(s)])]
           it == CHOOSE f : P(f)
<1>1. /\ Len(text) \in Nat /\ DOMAIN text = 1..Len(text)
      /\ \A i \in 1..Len(text) : text[i] \in Nat
  BY LenProperties, ElementOfSeq
<1>2. P(it)
  <2>1. PICK f : Stays(Nat, Seq(Nat), Cleaning, <<>>, text, f)
    BY CleaningFolds, FoldStays
  <2>2. P(f)
    BY <1>1, <2>1, CleaningFolds DEF Stays, Unfolds
  <2> QED
    BY <2>2
<1>3. Cleaned(text) = it[DOMAIN text]
  BY DEF Cleaned, FoldLeft, MapThenFoldSet
<1>4. ASSUME NEW k \in 1..Len(text)
      PROVE  it[1..k] = AddCleaned(it[1..k - 1], text[k])
  <2>1. /\ 1..k \in SUBSET DOMAIN text /\ 1..k # {} /\ Max(1..k) = k
        /\ (1..k) \ {k} = 1..k - 1
    BY <1>1, Downward
  <2> QED
    BY <1>2, <2>1
<1>5. it[{}] = <<>>
  BY <1>2
<1> HIDE DEF it
<1>6. GoesAlong(Nat, Seq(Nat), Cleaning, <<>>, text, it)
  BY <1>1, <1>4, <1>5, CleaningFolds DEF GoesAlong
<1> QED
  BY <1>1, <1>3, <1>6, FoldedAlong

(* It starts with nothing and takes one character more.                       *)
LEMMA CleanedFacts ==
  /\ Cleaned(<<>>) = <<>>
  /\ \A s \in Seq(Nat), c \in Nat : Cleaned(Append(s, c)) = AddCleaned(Cleaned(s), c)
<1> DEFINE F(s) == Folded(Nat, Seq(Nat), Cleaning, <<>>, s)
<1>1. /\ F(<<>>) = <<>>
      /\ \A s \in Seq(Nat) : F(s) \in Seq(Nat)
      /\ \A s \in Seq(Nat), c \in Nat : F(Append(s, c)) = Cleaning[<<F(s), c>>]
  BY CleaningFolds, FoldedFacts
<1>2. \A s \in Seq(Nat), c \in Nat : Append(s, c) \in Seq(Nat)
  BY AppendProperties
<1>3. \A s \in Seq(Nat) : Cleaned(s) = F(s)
  BY CleanedIsFold
<1> HIDE DEF F
<1>4. <<>> \in Seq(Nat)
  BY EmptySeq
<1>5. Cleaned(<<>>) = <<>>
  BY <1>1, <1>3, <1>4
<1>6. ASSUME NEW s \in Seq(Nat), NEW c \in Nat PROVE Cleaned(Append(s, c)) = AddCleaned(Cleaned(s), c)
  <2>1. /\ Cleaned(s) = F(s) /\ Cleaned(Append(s, c)) = F(Append(s, c)) /\ F(s) \in Seq(Nat)
        /\ F(Append(s, c)) = Cleaning[<<F(s), c>>]
    BY <1>1, <1>2, <1>3
  <2> QED
    BY <2>1, CleaningFolds
<1> QED
  BY <1>5, <1>6

(* The beginnings of a text.                                                  *)
LEMMA Beginnings ==
  ASSUME NEW A, NEW text \in Seq(A), NEW k \in 0..Len(text)
  PROVE  /\ SubSeq(text, 1, k) \in Seq(A) /\ Len(SubSeq(text, 1, k)) = k
         /\ \A i \in 1..k : SubSeq(text, 1, k)[i] = text[i]
         /\ k < Len(text) =>
              SubSeq(text, 1, k + 1) = Append(SubSeq(text, 1, k), text[k + 1]) /\ text[k + 1] \in A
<1>1. Len(text) \in Nat /\ k \in Nat /\ (\A i \in 1..Len(text) : text[i] \in A)
  BY LenProperties, ElementOfSeq
<1>2. /\ SubSeq(text, 1, k) \in Seq(A) /\ Len(SubSeq(text, 1, k)) = k
      /\ \A i \in 1..k : SubSeq(text, 1, k)[i] = text[i]
  <2>1. \A i \in 1..k : text[i] \in A
    BY <1>1
  <2>2. /\ SubSeq(text, 1, k) \in Seq(A)
        /\ Len(SubSeq(text, 1, k)) = IF 1 <= k THEN k - 1 + 1 ELSE 0
        /\ \A i \in 1..(k - 1 + 1) : SubSeq(text, 1, k)[i] = text[1 + i - 1]
    BY <1>1, <2>1, SubSeqProperties
  <2> QED
    BY <1>1, <2>2
<1>3. ASSUME k < Len(text)
      PROVE  SubSeq(text, 1, k + 1) = Append(SubSeq(text, 1, k), text[k + 1]) /\ text[k + 1] \in A
  <2> DEFINE n == k + 1
  <2>1. n \in 1..Len(text) /\ 1 \in 1..Len(text) /\ n \in 1..Len(text) /\ n - 1 = k
    BY <1>1, <1>3
  <2> HIDE DEF n
  <2>2. SubSeq(text, 1, n) = SubSeq(text, 1, n - 1) \o <<text[n]>>
    BY <2>1, SubSeqRecursiveSecond
  <2>3. text[n] \in A
    BY <1>1, <2>1
  <2>4. Append(SubSeq(text, 1, k), text[n]) = SubSeq(text, 1, k) \o <<text[n]>>
    BY <1>2, <2>3, AppendIsConcat
  <2> QED
    BY <2>1, <2>2, <2>3, <2>4 DEF n
<1> QED
  BY <1>2, <1>3

(* A text whose end is skipped, and nothing else of it.                         *)
LEMMA EndIsSkipped ==
  ASSUME NEW text \in Seq(Nat), NEW n \in 0..Len(text),
         \A i \in 1..n : text[i] \notin Skipped,
         \A i \in (n + 1)..Len(text) : text[i] \in Skipped
  PROVE  Cleaned(text) = SubSeq(text, 1, n)
<1> DEFINE Kept(k) == SubSeq(text, 1, IF k <= n THEN k ELSE n)
           T == {k \in Nat : k <= Len(text) => Cleaned(SubSeq(text, 1, k)) = Kept(k)}
<1>1. Len(text) \in Nat /\ n \in Nat /\ n <= Len(text)
  BY LenProperties
<1>2. 0 \in T
  <2>1. SubSeq(text, 1, 0) = <<>>
    BY SubSeqEmpty
  <2>2. (IF 0 <= n THEN 0 ELSE n) = 0
    BY <1>1
  <2>3. Kept(0) = <<>>
    BY <2>1, <2>2
  <2> QED
    BY <2>1, <2>3, CleanedFacts
<1>3. ASSUME NEW k \in Nat, k \in T PROVE k + 1 \in T
  <2> SUFFICES ASSUME k + 1 <= Len(text) PROVE Cleaned(SubSeq(text, 1, k + 1)) = Kept(k + 1)
    OBVIOUS
  <2>1. k \in 0..Len(text) /\ k < Len(text) /\ k + 1 \in Nat
    BY <1>1
  <2>2. Cleaned(SubSeq(text, 1, k)) = Kept(k)
    BY <1>1, <1>3, <2>1
  <2>3. /\ SubSeq(text, 1, k + 1) = Append(SubSeq(text, 1, k), text[k + 1]) /\ text[k + 1] \in Nat
        /\ SubSeq(text, 1, k) \in Seq(Nat)
    BY <2>1, Beginnings
  <2>4. Cleaned(SubSeq(text, 1, k + 1)) = AddCleaned(Kept(k), text[k + 1])
    BY <2>2, <2>3, CleanedFacts
  <2>5. CASE k + 1 <= n
    <3>1. text[k + 1] \notin Skipped
      BY <1>1, <2>1, <2>5
    <3>2. Kept(k) = SubSeq(text, 1, k) /\ Kept(k + 1) = SubSeq(text, 1, k + 1)
      BY <1>1, <2>1, <2>5
    <3> QED
      BY <2>3, <2>4, <3>1, <3>2 DEF AddCleaned, Skipped
  <2>6. CASE ~(k + 1 <= n)
    <3>1. text[k + 1] \in Skipped
      <4>1. k + 1 \in (n + 1)..Len(text)
        BY <1>1, <2>1, <2>6
      <4> QED
        BY <4>1
    <3>2. Kept(k + 1) = SubSeq(text, 1, n) /\ Kept(k) = SubSeq(text, 1, n)
      BY <1>1, <2>1, <2>6
    <3> HIDE DEF Kept
    <3> QED
      BY <2>4, <3>1, <3>2 DEF AddCleaned, Skipped
  <2> QED
    BY <2>5, <2>6
<1>4. Nat \subseteq T
  <2> HIDE DEF T
  <2> QED
    BY <1>2, <1>3, NaturalInduction
<1>5. Cleaned(SubSeq(text, 1, Len(text))) = Kept(Len(text))
  BY <1>1, <1>4
<1>6. SubSeq(text, 1, Len(text)) = text
  BY SubSeqFull
<1>7. (IF Len(text) <= n THEN Len(text) ELSE n) = n
  BY <1>1
<1>8. Kept(Len(text)) = SubSeq(text, 1, n)
  BY <1>7
<1> QED
  BY <1>5, <1>6, <1>8

-----------------------------------------------------------------------------
(* Three bytes are four six bit pieces, and these are the bytes again.          *)
LEMMA PiecesMakeUp ==
  ASSUME NEW n \in Nat
  PROVE  64 * (64 * (64 * Shift6(Shift6(Shift6(n))) + (Shift6(Shift6(n)) % 64)) + (Shift6(n) % 64))
           + (n % 64) = n
BY SMT DEF Shift6

(* Where a character stands.                                                  *)
LEMMA InGroup ==
  ASSUME NEW j \in Nat \ {0}
  PROVE  (j - 1) \div 4 \in Nat /\ (j - 1) % 4 \in 0..3
BY SMT

LEMMA GroupIndex == \A g \in Nat, k \in 0..3 : (4 * g + k) \div 4 = g /\ (4 * g + k) % 4 = k
BY SMT

LEMMA NotSkipped == \A c \in 0..63 : c \notin Skipped
BY DEF Skipped, Pad, Whitespace, Tab, LF, CR, Space

(* A group: its pieces, those that pad it, and its bytes.                       *)
LEMMA GroupPieces ==
  ASSUME NEW bytes \in Seq(0..255), NEW g \in Nat
  PROVE  LET number == Group(bytes, g)
         IN /\ number \in Nat
            /\ \A k \in 0..3 : Sextets(number)[k + 1] \in 0..63
            /\ \A k \in 2..3 : 3 * g + k > Len(bytes) => Sextets(number)[k + 1] = 0
            /\ \A r \in 0..2 : Octets(number)[r + 1] = ByteAt(bytes, 3 * g + r + 1)
<1> DEFINE number == Group(bytes, g)
           a == ByteAt(bytes, 3 * g + 1)
           b == ByteAt(bytes, 3 * g + 2)
           c == ByteAt(bytes, 3 * g + 3)
<1>1. Len(bytes) \in Nat /\ (\A i \in 1..Len(bytes) : bytes[i] \in 0..255)
  BY LenProperties, ElementOfSeq
<1>2. ASSUME NEW i \in Nat \ {0} PROVE ByteAt(bytes, i) \in 0..255
  BY <1>1 DEF ByteAt
<1>3. a \in 0..255 /\ b \in 0..255 /\ c \in 0..255
  <2>1. 3 * g + 1 \in Nat \ {0} /\ 3 * g + 2 \in Nat \ {0} /\ 3 * g + 3 \in Nat \ {0}
    OBVIOUS
  <2> QED
    BY <1>2, <2>1
<1>4. /\ 3 * g + 3 > Len(bytes) => c = 0
      /\ 3 * g + 2 > Len(bytes) => b = 0 /\ c = 0
  BY <1>1 DEF ByteAt
<1>5. number = Bits24(a, b, c)
  BY DEF Group
<1> HIDE DEF number, a, b, c
<1>6. /\ number \in Nat
      /\ Shift6(Shift6(Shift6(number))) \in 0..63 /\ (Shift6(Shift6(number))) % 64 \in 0..63
      /\ Shift6(number) % 64 \in 0..63 /\ number % 64 \in 0..63
      /\ Shift8(Shift8(number)) = a /\ Shift8(number) % 256 = b /\ number % 256 = c
  <2>1. number \in Nat
    BY <1>3, <1>5, SMT DEF Bits24
  <2>2. /\ Shift6(Shift6(Shift6(number))) \in 0..63 /\ (Shift6(Shift6(number))) % 64 \in 0..63
        /\ Shift6(number) % 64 \in 0..63 /\ number % 64 \in 0..63
    BY <1>3, <1>5, SMT DEF Shift6, Bits24
  <2>3. Shift8(Shift8(number)) = a /\ Shift8(number) % 256 = b /\ number % 256 = c
    BY <1>3, <1>5, SMT DEF Shift8, Bits24
  <2> QED
    BY <2>1, <2>2, <2>3
<1>7. ASSUME NEW k \in 0..3 PROVE Sextets(number)[k + 1] \in 0..63
  <2>1. CASE k = 0
    BY <1>6, <2>1 DEF Sextets
  <2>2. CASE k = 1
    BY <1>6, <2>2 DEF Sextets
  <2>3. CASE k = 2
    BY <1>6, <2>3 DEF Sextets
  <2>4. CASE k = 3
    BY <1>6, <2>4 DEF Sextets
  <2> QED
    BY <2>1, <2>2, <2>3, <2>4
<1>8. c = 0 => number % 64 = 0 /\ (b = 0 => Shift6(number) % 64 = 0)
  BY <1>3, <1>5, SMT DEF Shift6, Bits24
<1>9. ASSUME NEW k \in 2..3, 3 * g + k > Len(bytes) PROVE Sextets(number)[k + 1] = 0
  <2>1. CASE k = 2
    BY <1>4, <1>8, <1>9, <2>1 DEF Sextets
  <2>2. CASE k = 3
    BY <1>4, <1>8, <1>9, <2>2 DEF Sextets
  <2> QED
    BY <2>1, <2>2
<1>10. ASSUME NEW r \in 0..2 PROVE Octets(number)[r + 1] = ByteAt(bytes, 3 * g + r + 1)
  <2>1. CASE r = 0
    BY <1>6, <2>1 DEF Octets, a
  <2>2. CASE r = 1
    <3>1. ByteAt(bytes, 3 * g + r + 1) = b
      BY <2>2 DEF b
    <3> QED
      BY <1>6, <2>2, <3>1 DEF Octets
  <2>3. CASE r = 2
    <3>1. ByteAt(bytes, 3 * g + r + 1) = c
      BY <2>3 DEF c
    <3> QED
      BY <1>6, <2>3, <3>1 DEF Octets
  <2> QED
    BY <2>1, <2>2, <2>3
<1> QED
  BY <1>6, <1>7, <1>9, <1>10 DEF number

(* What base64_encode makes: the pieces, then padding.                          *)
PieceAt(bytes, i) == Sextets(Group(bytes, (i - 1) \div 4))[((i - 1) % 4) + 1]

(* What is encoded: so many pieces, then padding.                             *)
LEMMA EncodedText ==
  ASSUME NEW bytes \in Seq(0..255), NEW n, n = (4 * Len(bytes) + 2) \div 3
  PROVE  LET text == Base64Encode(bytes)
         IN /\ text \in Seq(0..64) /\ n \in 0..Len(text)
            /\ \A i \in 1..n : text[i] = PieceAt(bytes, i) /\ text[i] \in 0..63
            /\ \A i \in (n + 1)..Len(text) : text[i] = Pad
<1> DEFINE text == Base64Encode(bytes)
           l == Len(bytes)
           m == 4 * ((l + 2) \div 3)
<1>1. l \in Nat
  BY LenProperties
<1>2. /\ n \in Nat /\ n <= m /\ m \in Nat
      /\ \A i \in 1..m : 3 * ((i - 1) \div 4) + ((i - 1) % 4) > l <=> i > n
  <2>1. n = (4 * l + 2) \div 3
    OBVIOUS
  <2> HIDE DEF l
  <2> QED
    BY <1>1, <2>1, SMT
<1>3. \A i \in 1..m : PieceAt(bytes, i) \in 0..63
  <2> SUFFICES ASSUME NEW i \in 1..m PROVE PieceAt(bytes, i) \in 0..63
    OBVIOUS
  <2>1. i \in Nat \ {0}
    BY <1>2
  <2>2. (i - 1) \div 4 \in Nat /\ (i - 1) % 4 \in 0..3
    BY <2>1, InGroup
  <2> QED
    BY <2>2, GroupPieces DEF PieceAt
<1>4. text = [i \in 1..m |-> IF 3 * ((i - 1) \div 4) + ((i - 1) % 4) > l THEN Pad ELSE PieceAt(bytes, i)]
  BY DEF Base64Encode, PieceAt
<1>5. \A i \in 1..m : text[i] = IF i > n THEN Pad ELSE PieceAt(bytes, i)
  <2> HIDE DEF m, l, text
  <2> QED
    BY <1>2, <1>4
<1>6. Pad = 64
  BY DEF Pad
<1>7. text \in Seq(0..64) /\ Len(text) = m
  <2>1. DOMAIN text = 1..m /\ text = [i \in 1..m |-> text[i]]
    <3> HIDE DEF m, l
    <3> QED
      BY <1>4
  <2> HIDE DEF m, l, text
  <2>2. ASSUME NEW i \in 1..m PROVE text[i] \in 0..64
    <3>1. PieceAt(bytes, i) \in 0..64
      BY <1>3
    <3>2. text[i] = Pad \/ text[i] = PieceAt(bytes, i)
      BY <1>5
    <3> QED
      BY <1>6, <3>1, <3>2
  <2>3. text \in [1..m -> 0..64]
    BY <2>1, <2>2
  <2> QED
    BY <1>2, <2>3
<1> HIDE DEF m, l, text
<1>8. n \in 0..Len(text)
  BY <1>2, <1>7
<1>9. \A i \in 1..n : text[i] = PieceAt(bytes, i) /\ text[i] \in 0..63
  BY <1>2, <1>3, <1>5
<1>10. \A i \in (n + 1)..Len(text) : text[i] = Pad
  BY <1>2, <1>5, <1>7
<1> QED
  BY <1>7, <1>8, <1>9, <1>10 DEF text

(* What base64_decode gathers of a group is the number that was encoded.         *)
LEMMA BufferIsGroup ==
  ASSUME NEW bytes \in Seq(0..255), NEW n, n = (4 * Len(bytes) + 2) \div 3,
         NEW chars \in Seq(0..64), Len(chars) = n, \A i \in 1..n : chars[i] = PieceAt(bytes, i),
         NEW g \in Nat, 3 * g + 1 <= Len(bytes)
  PROVE  Buffer(chars, g) = Group(bytes, g)
<1> DEFINE l == Len(bytes)
           number == Group(bytes, g)
           piece(k) == Sextets(number)[k + 1]
<1>1. l \in Nat
  BY LenProperties
<1>2. n \in Nat /\ \A k \in 0..3 : 4 * g + k + 1 > n <=> 3 * g + k > l
  <2> HIDE DEF l
  <2>1. n = (4 * l + 2) \div 3 /\ 3 * g + 1 <= l
    BY DEF l
  <2> QED
    BY <1>1, <2>1, SMT
<1>3. /\ number \in Nat
      /\ \A k \in 2..3 : 3 * g + k > l => piece(k) = 0
  BY GroupPieces
<1>4. ASSUME NEW k \in 0..3 PROVE ByteAt(chars, 4 * g + (k + 1)) = piece(k)
  <2>1. CASE 4 * g + k + 1 <= n
    <3> DEFINE i == 4 * g + (k + 1)
    <3>1. i \in 1..n /\ (i - 1) \div 4 = g /\ (i - 1) % 4 = k
      <4>1. i \in 1..n /\ i - 1 = 4 * g + k
        BY <1>2, <2>1
      <4>2. (4 * g + k) \div 4 = g /\ (4 * g + k) % 4 = k
        BY GroupIndex
      <4> QED
        BY <4>1, <4>2
    <3> HIDE DEF i
    <3>2. chars[i] = piece(k)
      BY <3>1 DEF PieceAt
    <3>3. ByteAt(chars, i) = chars[i]
      BY <3>1 DEF ByteAt
    <3> QED
      BY <3>2, <3>3 DEF i
  <2>2. CASE ~(4 * g + k + 1 <= n)
    <3>1. 3 * g + k > l /\ k \in 2..3
      BY <1>1, <1>2, <2>2
    <3>2. piece(k) = 0
      BY <1>3, <3>1
    <3>3. ByteAt(chars, 4 * g + (k + 1)) = 0
      BY <1>2, <2>2 DEF ByteAt
    <3> QED
      BY <3>2, <3>3
  <2> QED
    BY <2>1, <2>2
<1>5. /\ ByteAt(chars, 4 * g + 1) = piece(0) /\ ByteAt(chars, 4 * g + 2) = piece(1)
      /\ ByteAt(chars, 4 * g + 3) = piece(2) /\ ByteAt(chars, 4 * g + 4) = piece(3)
  <2> HIDE DEF piece
  <2>1. 0 \in 0..3 /\ 1 \in 0..3 /\ 2 \in 0..3 /\ 3 \in 0..3
    OBVIOUS
  <2> QED
    BY <1>4, <2>1
<1>6. Buffer(chars, g) = 64 * (64 * (64 * piece(0) + piece(1)) + piece(2)) + piece(3)
  <2> HIDE DEF piece
  <2> QED
    BY <1>5 DEF Buffer
<1>7. /\ piece(0) = Shift6(Shift6(Shift6(number))) /\ piece(1) = Shift6(Shift6(number)) % 64
      /\ piece(2) = Shift6(number) % 64 /\ piece(3) = number % 64
  <2> HIDE DEF number
  <2> QED
    BY DEF Sextets
<1> HIDE DEF piece, number
<1>8. 64 * (64 * (64 * piece(0) + piece(1)) + piece(2)) + piece(3) = number
  BY <1>3, <1>7, PiecesMakeUp
<1> QED
  BY <1>6, <1>8 DEF number

(* base64_decode undoes base64_encode, for any bytes.                          *)
THEOREM Base64RoundTrip ==
  ASSUME NEW bytes \in Seq(0..255)
  PROVE  Base64Decode(Base64Encode(bytes)) = [ok |-> TRUE, bytes |-> bytes]
<1> DEFINE l == Len(bytes)
           n == (4 * l + 2) \div 3
           text == Base64Encode(bytes)
           chars == SubSeq(text, 1, n)
<1>1. l \in Nat /\ DOMAIN bytes = 1..l /\ bytes = [j \in 1..l |-> bytes[j]]
  BY LenProperties
<1>2. n \in Nat /\ (3 * n) \div 4 = l /\ n % 4 # 1
  <2>1. l \in Nat
    BY <1>1
  <2> HIDE DEF l
  <2> QED
    BY <2>1, SMT
<1>3. /\ text \in Seq(0..64) /\ n \in 0..Len(text)
      /\ \A i \in 1..n : text[i] = PieceAt(bytes, i) /\ text[i] \in 0..63
      /\ \A i \in (n + 1)..Len(text) : text[i] = Pad
  BY EncodedText
<1> HIDE DEF n, text
<1>4. text \in Seq(Nat)
  <2>1. 0..64 \subseteq Nat
    OBVIOUS
  <2> QED
    BY <1>3, <2>1, SeqMonotonic
<1>5. Cleaned(text) = chars
  <2>1. \A i \in 1..n : text[i] \notin Skipped
    BY <1>3, NotSkipped
  <2>2. \A i \in (n + 1)..Len(text) : text[i] \in Skipped
    BY <1>3 DEF Skipped
  <2> HIDE DEF chars
  <2> QED
    BY <1>3, <1>4, <2>1, <2>2, EndIsSkipped DEF chars
<1>6. /\ chars \in Seq(Nat) /\ Len(chars) = n
      /\ \A i \in 1..n : chars[i] = PieceAt(bytes, i) /\ chars[i] \in 0..63
  BY <1>3, <1>4, Beginnings
<1>7. chars \in Seq(0..64)
  <2>1. \A i \in 1..n : chars[i] \in 0..64
    BY <1>6
  <2>2. chars \in [1..n -> 0..64]
    BY <1>6, <2>1, LenProperties
  <2>3. n \in Nat
    BY <1>2
  <2> HIDE DEF chars
  <2> QED
    BY <2>2, <2>3
<1> HIDE DEF chars
<1>8. ASSUME NEW j \in 1..l
      PROVE  Octets(Buffer(chars, (j - 1) \div 3))[((j - 1) % 3) + 1] = bytes[j]
  <2> DEFINE g == (j - 1) \div 3
             r == (j - 1) % 3
  <2>1. g \in Nat /\ r \in 0..2 /\ j = 3 * g + r + 1 /\ 3 * g + 1 <= l
    <3>1. l \in Nat
      BY <1>1
    <3> HIDE DEF l
    <3> QED
      BY <3>1, SMT
  <2> HIDE DEF g, r
  <2>2. Buffer(chars, g) = Group(bytes, g)
    BY <1>6, <1>7, <2>1, BufferIsGroup DEF n
  <2>3. Octets(Group(bytes, g))[r + 1] = ByteAt(bytes, 3 * g + r + 1)
    BY <2>1, GroupPieces
  <2>4. ByteAt(bytes, 3 * g + r + 1) = bytes[j]
    BY <1>1, <2>1 DEF ByteAt
  <2> QED
    BY <2>2, <2>3, <2>4 DEF g, r
<1>9. ~(Len(chars) % 4 = 1 \/ \E i \in 1..Len(chars) : chars[i] \notin 0..63)
  BY <1>2, <1>6
<1>10. [j \in 1..((3 * Len(chars)) \div 4) |->
          Octets(Buffer(chars, (j - 1) \div 3))[((j - 1) % 3) + 1]] = bytes
  <2> HIDE DEF l
  <2>1. (3 * Len(chars)) \div 4 = l
    BY <1>2, <1>6
  <2> QED
    BY <1>1, <1>8, <2>1
<1>11. DecodeChars(chars) = [ok |-> TRUE, bytes |-> bytes]
  BY <1>9, <1>10 DEF DecodeChars
<1> QED
  BY <1>5, <1>11 DEF Base64Decode, text

-----------------------------------------------------------------------------
(* Where a character first is: before it there is none, after it is the rest.   *)
LEMMA FirstFound ==
  ASSUME NEW s \in Seq(Nat), NEW c \in Nat, NEW k \in 1..Len(s), s[k] = c, \A i \in 1..(k - 1) : s[i] # c
  PROVE  Has(s, c) /\ Find(s, c) = k
<1>1. Len(s) \in Nat
  BY LenProperties
<1> DEFINE S == {i \in 1..Len(s) : s[i] = c} \cup {Len(s) + 1}
<1>2. k \in S /\ \A i \in S : k <= i
  BY <1>1
<1>3. \A x \in S : (\A y \in S : x <= y) => x = k
  <2> SUFFICES ASSUME NEW x \in S, \A y \in S : x <= y PROVE x = k
    OBVIOUS
  <2>1. x <= k /\ k <= x /\ x \in Nat /\ k \in Nat
    BY <1>1, <1>2
  <2> QED
    BY <2>1
<1>4. Min(S) = k
  <2> HIDE DEF S
  <2> QED
    BY <1>2, <1>3 DEF Min
<1> QED
  BY <1>4 DEF Has, Find

(* A text without the character.                                              *)
LEMMA NoneFound == ASSUME NEW s, NEW c, ~Has(s, c) PROVE  \A i \in 1..Len(s) : s[i] # c
BY DEF Has

(* A text with a part that lacks the character, the character, and the rest.     *)
LEMMA Splits ==
  ASSUME NEW a \in Seq(Nat), NEW b \in Seq(Nat), NEW c \in Nat, ~Has(a, c)
  PROVE  LET s == a \o (<<c>> \o b)
         IN /\ s \in Seq(Nat) /\ Has(s, c) /\ Before(s, c) = a /\ After(s, c) = b
            /\ Len(s) = Len(a) + 1 + Len(b)
<1> DEFINE s == a \o (<<c>> \o b)
           t == a \o <<c>>
           k == Len(a) + 1
<1>1. Len(a) \in Nat /\ Len(b) \in Nat
  BY LenProperties
<1>2. <<c>> \in Seq(Nat) /\ Len(<<c>>) = 1 /\ <<c>>[1] = c
  OBVIOUS
<1>3. s = t \o b /\ t \in Seq(Nat) /\ Len(t) = k
  BY <1>2, ConcatAssociative, ConcatProperties
<1>4. t[k] = c /\ \A i \in 1..Len(a) : t[i] = a[i]
  BY <1>1, <1>2, ConcatProperties
<1>5. /\ t \o b \in Seq(Nat) /\ Len(t \o b) = k + Len(b)
      /\ \A i \in 1..(k + Len(b)) : (t \o b)[i] = IF i <= k THEN t[i] ELSE b[i - k]
  <2> HIDE DEF t
  <2> QED
    BY <1>3, ConcatProperties
<1>6. /\ s \in Seq(Nat) /\ Len(s) = k + Len(b) /\ s[k] = c
      /\ \A i \in 1..Len(a) : s[i] = a[i]
      /\ \A i \in 1..Len(b) : s[k + i] = b[i]
  <2>1. s \in Seq(Nat) /\ Len(s) = k + Len(b)
    BY <1>3, <1>5
  <2> HIDE DEF t, s
  <2>2. s[k] = c
    BY <1>1, <1>3, <1>4, <1>5
  <2>3. \A i \in 1..Len(a) : s[i] = a[i]
    BY <1>1, <1>3, <1>4, <1>5
  <2>4. ASSUME NEW i \in 1..Len(b) PROVE s[k + i] = b[i]
    <3>1. k + i \in 1..(k + Len(b)) /\ ~(k + i <= k) /\ (k + i) - k = i
      BY <1>1
    <3> QED
      BY <1>3, <1>5, <3>1
  <2> QED
    BY <2>1, <2>2, <2>3, <2>4
<1> HIDE DEF s, t
<1>7. Has(s, c) /\ Find(s, c) = k
  <2>1. k \in 1..Len(s) /\ s[k] = c
    BY <1>1, <1>6
  <2>2. \A i \in 1..(k - 1) : s[i] # c
    <3>1. k - 1 = Len(a) /\ \A i \in 1..Len(a) : a[i] # c
      BY <1>1, NoneFound
    <3> QED
      BY <1>6, <3>1
  <2> HIDE DEF k
  <2> QED
    BY <1>6, <2>1, <2>2, FirstFound
<1>8. Before(s, c) = a
  <2>1. Before(s, c) = SubSeq(s, 1, Len(a))
    BY <1>1, <1>7 DEF Before
  <2>2. Len(a) \in 0..Len(s)
    BY <1>1, <1>6
  <2>3. /\ SubSeq(s, 1, Len(a)) \in Seq(Nat) /\ Len(SubSeq(s, 1, Len(a))) = Len(a)
        /\ \A i \in 1..Len(a) : SubSeq(s, 1, Len(a))[i] = s[i]
    BY <1>6, <2>2, Beginnings
  <2>4. SubSeq(s, 1, Len(a)) = a
    BY <1>6, <2>3, SeqEqual
  <2> QED
    BY <2>1, <2>4
<1>9. After(s, c) = b
  <2>1. After(s, c) = SubSeq(s, k + 1, Len(s))
    BY <1>7 DEF After
  <2> DEFINE u == SubSeq(s, k + 1, Len(s))
  <2>2. k + 1 \in Int /\ Len(s) \in Int /\ \A i \in (k + 1)..Len(s) : s[i] \in Nat
    BY <1>1, <1>6, LenProperties, ElementOfSeq
  <2>3. /\ u \in Seq(Nat)
        /\ Len(u) = IF k + 1 <= Len(s) THEN Len(s) - (k + 1) + 1 ELSE 0
        /\ \A i \in 1..(Len(s) - (k + 1) + 1) : u[i] = s[(k + 1) + i - 1]
    BY <2>2, SubSeqProperties
  <2>4. Len(s) - (k + 1) + 1 = Len(b) /\ (k + 1 <= Len(s) <=> Len(b) > 0)
    BY <1>1, <1>6
  <2>5. Len(u) = Len(b)
    <3> HIDE DEF u
    <3> QED
      BY <1>1, <2>3, <2>4
  <2>6. ASSUME NEW i \in 1..Len(b) PROVE u[i] = b[i]
    <3>1. (k + 1) + i - 1 = k + i
      BY <1>1
    <3> HIDE DEF u
    <3> QED
      BY <1>6, <2>3, <2>4, <3>1
  <2> HIDE DEF u
  <2>7. u = b
    BY <2>3, <2>5, <2>6, SeqEqual
  <2> QED
    BY <2>1, <2>7 DEF u
<1> QED
  BY <1>6, <1>7, <1>8, <1>9 DEF s

(* The text s has its first c between x and y.                                  *)
SplitAt(s, c, x, y) == x \in Seq(Nat) /\ y \in Seq(Nat) /\ ~Has(x, c) /\ s = x \o (<<c>> \o y)

(* What is before it and what is after it.                                    *)
LEMMA Parts ==
  ASSUME NEW s, NEW c \in Nat, NEW x, NEW y, SplitAt(s, c, x, y)
  PROVE  s \in Seq(Nat) /\ Has(s, c) /\ Before(s, c) = x /\ After(s, c) = y
BY Splits DEF SplitAt

(* A character is in a concatenation if it is in one of its parts.            *)
LEMMA HasConcat ==
  ASSUME NEW a \in Seq(Nat), NEW b \in Seq(Nat), NEW c
  PROVE  a \o b \in Seq(Nat) /\ (Has(a \o b, c) <=> Has(a, c) \/ Has(b, c))
<1>1. Len(a) \in Nat /\ Len(b) \in Nat
  BY LenProperties
<1> DEFINE s == a \o b
<1>2. /\ s \in Seq(Nat) /\ Len(s) = Len(a) + Len(b)
      /\ \A i \in 1..(Len(a) + Len(b)) : s[i] = IF i <= Len(a) THEN a[i] ELSE b[i - Len(a)]
  BY ConcatProperties
<1> HIDE DEF s
<1>3. ASSUME Has(a, c) PROVE Has(s, c)
  <2>1. PICK i \in 1..Len(a) : a[i] = c
    BY <1>3 DEF Has
  <2>2. i \in 1..(Len(a) + Len(b)) /\ i <= Len(a)
    BY <1>1
  <2>3. s[i] = c
    BY <1>2, <2>1, <2>2
  <2> QED
    BY <1>2, <2>2, <2>3 DEF Has
<1>4. ASSUME Has(b, c) PROVE Has(s, c)
  <2>1. PICK i \in 1..Len(b) : b[i] = c
    BY <1>4 DEF Has
  <2>2. /\ Len(a) + i \in 1..(Len(a) + Len(b)) /\ ~(Len(a) + i <= Len(a))
        /\ (Len(a) + i) - Len(a) = i
    BY <1>1
  <2>3. s[Len(a) + i] = c
    BY <1>2, <2>1, <2>2
  <2> QED
    BY <1>2, <2>2, <2>3 DEF Has
<1>5. ASSUME Has(s, c) PROVE Has(a, c) \/ Has(b, c)
  <2>1. PICK i \in 1..(Len(a) + Len(b)) : s[i] = c
    BY <1>2, <1>5 DEF Has
  <2>2. CASE i <= Len(a)
    <3>1. i \in 1..Len(a)
      BY <1>1, <2>2
    <3>2. a[i] = c
      BY <1>2, <2>1, <2>2
    <3> QED
      BY <3>1, <3>2 DEF Has
  <2>3. CASE ~(i <= Len(a))
    <3>1. i - Len(a) \in 1..Len(b)
      BY <1>1, <2>3
    <3>2. b[i - Len(a)] = c
      BY <1>2, <2>1, <2>3
    <3> QED
      BY <3>1, <3>2 DEF Has
  <2> QED
    BY <2>2, <2>3
<1> QED
  BY <1>2, <1>3, <1>4, <1>5 DEF s

LEMMA HasOne == \A d \in Nat : \A c : <<d>> \in Seq(Nat) /\ (Has(<<d>>, c) <=> d = c)
<1> SUFFICES ASSUME NEW d \in Nat, NEW c PROVE <<d>> \in Seq(Nat) /\ (Has(<<d>>, c) <=> d = c)
  OBVIOUS
<1>1. <<d>> \in Seq(Nat) /\ Len(<<d>>) = 1 /\ <<d>>[1] = d
  OBVIOUS
<1>2. \A i \in 1..1 : i = 1
  OBVIOUS
<1>3. 1 \in 1..1
  OBVIOUS
<1> QED
  BY <1>1, <1>2, <1>3 DEF Has

(* Parentheses of a concatenation move.                                       *)
LEMMA Regroups == \A a, x, r \in Seq(Nat) : a \o (x \o r) = (a \o x) \o r
<1> SUFFICES ASSUME NEW a \in Seq(Nat), NEW x \in Seq(Nat), NEW r \in Seq(Nat)
             PROVE  a \o (x \o r) = (a \o x) \o r
  OBVIOUS
<1>1. (a \o x) \o r = a \o (x \o r)
  BY ONLY a \in Seq(Nat), x \in Seq(Nat), r \in Seq(Nat), ConcatAssociative
<1> QED
  BY <1>1

(* What stands before a text without the character does not change what follows it. *)
LEMMA Past ==
  ASSUME NEW a \in Seq(Nat), NEW c \in Nat, ~Has(a, c),
         NEW s, NEW x, NEW y, SplitAt(s, c, x, y)
  PROVE  SplitAt(a \o s, c, a \o x, y)
<1>1. x \in Seq(Nat) /\ y \in Seq(Nat) /\ ~Has(x, c) /\ s = x \o (<<c>> \o y)
  BY DEF SplitAt
<1>2. <<c>> \o y \in Seq(Nat)
  BY <1>1, HasOne, HasConcat
<1> DEFINE r == <<c>> \o y
<1>3. a \o s = (a \o x) \o (<<c>> \o y)
  <2>1. s = x \o r /\ r \in Seq(Nat)
    BY <1>1, <1>2
  <2> HIDE DEF r
  <2>2. a \o (x \o r) = (a \o x) \o r
    BY <1>1, <2>1, Regroups
  <2> QED
    BY <2>1, <2>2 DEF r
<1>4. a \o x \in Seq(Nat) /\ ~Has(a \o x, c)
  BY <1>1, HasConcat
<1> QED
  BY <1>1, <1>3, <1>4 DEF SplitAt

(* At once, and past one other character.                                       *)
LEMMA AtOnce ==
  ASSUME NEW c \in Nat, NEW y \in Seq(Nat) PROVE SplitAt(<<c>> \o y, c, <<>>, y)
<1>1. <<>> \in Seq(Nat) /\ ~Has(<<>>, c)
  BY EmptySeq DEF Has
<1>2. <<c>> \o y \in Seq(Nat)
  BY HasOne, HasConcat
<1>3. <<>> \o (<<c>> \o y) = <<c>> \o y
  BY <1>2, ConcatEmptySeq
<1> QED
  BY <1>1, <1>3 DEF SplitAt

LEMMA PastOne ==
  ASSUME NEW d \in Nat, NEW c \in Nat, d # c, NEW s, NEW x, NEW y, SplitAt(s, c, x, y)
  PROVE  SplitAt(<<d>> \o s, c, <<d>> \o x, y)
BY HasOne, Past

-----------------------------------------------------------------------------
(* `trim_end_matches` looks at the end only: what is trimmed anyway does not count. *)
LEMMA TrimsMore ==
  ASSUME NEW text \in Seq(Nat), NEW end \in Seq(Nat), NEW C, \A i \in 1..Len(end) : end[i] \in C
  PROVE  TrimEnd(text \o end, C) = TrimEnd(text, C)
<1> DEFINE s == text \o end
           Kept(t) == {i \in 1..Len(t) : t[i] \notin C} \cup {0}
           m == Max(Kept(text))
<1>1. Len(text) \in Nat /\ Len(end) \in Nat
  BY LenProperties
<1>2. /\ s \in Seq(Nat) /\ Len(s) = Len(text) + Len(end)
      /\ \A i \in 1..(Len(text) + Len(end)) : s[i] = IF i <= Len(text) THEN text[i] ELSE end[i - Len(text)]
  BY ConcatProperties
<1> HIDE DEF s
<1>3. Kept(s) = Kept(text)
  <2>1. ASSUME NEW i \in 1..Len(text) PROVE i \in 1..Len(s) /\ s[i] = text[i]
    <3>1. i \in 1..(Len(text) + Len(end)) /\ i <= Len(text)
      BY <1>1
    <3> QED
      BY <1>2, <3>1
  <2>2. ASSUME NEW i \in 1..Len(s), s[i] \notin C PROVE i \in 1..Len(text)
    <3>1. i \in 1..(Len(text) + Len(end))
      BY <1>2
    <3>2. CASE ~(i <= Len(text))
      <4>1. i - Len(text) \in 1..Len(end)
        BY <1>1, <3>1, <3>2
      <4>2. s[i] = end[i - Len(text)]
        BY <1>2, <3>1, <3>2
      <4> QED
        BY <2>2, <4>1, <4>2
    <3> QED
      BY <1>1, <3>1, <3>2
  <2>3. \A i \in 1..Len(text) : text[i] \notin C => i \in 1..Len(s) /\ s[i] \notin C
    BY <2>1
  <2>4. \A i \in 1..Len(s) : s[i] \notin C => i \in 1..Len(text) /\ text[i] \notin C
    BY <2>1, <2>2
  <2> QED
    BY <2>3, <2>4
<1>4. m \in 0..Len(text)
  <2>1. Kept(text) \in SUBSET (0..Len(text)) /\ Kept(text) # {}
    BY <1>1
  <2> HIDE DEF Kept
  <2>2. Max(Kept(text)) \in Kept(text)
    BY <1>1, <2>1, MaxBelongs
  <2> QED
    BY <2>1, <2>2
<1>5. SubSeq(s, 1, m) = SubSeq(text, 1, m)
  <2> HIDE DEF m
  <2>1. m \in 0..Len(s) /\ m \in Nat
    BY <1>1, <1>2, <1>4
  <2>2. /\ SubSeq(s, 1, m) \in Seq(Nat) /\ Len(SubSeq(s, 1, m)) = m
        /\ \A i \in 1..m : SubSeq(s, 1, m)[i] = s[i]
    BY <1>2, <2>1, Beginnings
  <2>3. /\ SubSeq(text, 1, m) \in Seq(Nat) /\ Len(SubSeq(text, 1, m)) = m
        /\ \A i \in 1..m : SubSeq(text, 1, m)[i] = text[i]
    BY <1>4, Beginnings
  <2>4. \A i \in 1..m : s[i] = text[i]
    BY <1>1, <1>2, <1>4
  <2> DEFINE p == SubSeq(s, 1, m)
             q == SubSeq(text, 1, m)
  <2>5. p \in Seq(Nat) /\ q \in Seq(Nat) /\ Len(p) = Len(q) /\ \A i \in 1..Len(p) : p[i] = q[i]
    BY <2>2, <2>3, <2>4
  <2> HIDE DEF p, q
  <2>6. p = q
    BY <2>5, SeqEqual
  <2> QED
    BY <2>6 DEF p, q
<1>6. TrimEnd(s, C) = SubSeq(s, 1, Max(Kept(s))) /\ TrimEnd(text, C) = SubSeq(text, 1, Max(Kept(text)))
  BY DEF TrimEnd
<1> HIDE DEF Kept
<1> QED
  BY <1>3, <1>5, <1>6 DEF s

(* The characters that separate are not those that are separated.             *)
LEMMA Codes ==
   /\ {Pad, Colon, Comma, Space, Quote, Bracket, Need, VerificationFailed, UserPass, SC,
       CRV1, SCRV1, One} \subseteq Nat
   /\ Quote \notin {VerificationFailed, Need, CRV1, SC, Space, UserPass}
   /\ CRV1 \notin {VerificationFailed, Space, Quote} /\ SC \notin {Need, Space, Quote, UserPass}
   /\ VerificationFailed # Need /\ Comma \notin {One, 52} /\ \A c \in 0..64 : c \notin {Colon, SCRV1}
BY DEF Pad, Colon, Comma, Space, Quote, Bracket, Need, VerificationFailed, UserPass, SC, CRV1, SCRV1, One

-----------------------------------------------------------------------------
(* After its first c the text s goes on with y.                                *)
Follows(s, c, y) == \E x : SplitAt(s, c, x, y)

(* What follows is what `After` returns.                                      *)
LEMMA Followed == \A c \in Nat : \A s, y : Follows(s, c, y) => s \in Seq(Nat) /\ Has(s, c) /\ After(s, c) = y
BY Parts DEF Follows

LEMMA FollowsAtOnce == \A c \in Nat, y \in Seq(Nat) : Follows(<<c>> \o y, c, y)
BY AtOnce DEF Follows

LEMMA FollowsPast == \A a \in Seq(Nat), c \in Nat : \A s, y : ~Has(a, c) /\ Follows(s, c, y) => Follows(a \o s, c, y)
<1> SUFFICES ASSUME NEW a \in Seq(Nat), NEW c \in Nat, NEW s, NEW y, ~Has(a, c), Follows(s, c, y)
             PROVE  Follows(a \o s, c, y)
  OBVIOUS
<1>1. PICK x : SplitAt(s, c, x, y)
  BY DEF Follows
<1>2. SplitAt(a \o s, c, a \o x, y)
  BY <1>1, Past
<1> QED
  BY <1>2 DEF Follows

LEMMA FollowsOne == \A d, c \in Nat : \A s, y : d # c /\ Follows(s, c, y) => Follows(<<d>> \o s, c, y)
<1> SUFFICES ASSUME NEW d \in Nat, NEW c \in Nat, NEW s, NEW y, d # c, Follows(s, c, y)
             PROVE  Follows(<<d>> \o s, c, y)
  OBVIOUS
<1>1. <<d>> \in Seq(Nat) /\ ~Has(<<d>>, c)
  BY HasOne
<1> QED
  BY <1>1, FollowsPast

LEMMA ConcatTyped == \A a, b \in Seq(Nat) : a \o b \in Seq(Nat)
BY ConcatProperties

LEMMA ConcatTypedOne == \A c \in Nat, b \in Seq(Nat) : <<c>> \o b \in Seq(Nat)
BY ConcatTyped, HasOne

LEMMA LacksJoined == \A a, b \in Seq(Nat) : \A c : ~Has(a, c) /\ ~Has(b, c) => ~Has(a \o b, c)
BY HasConcat

LEMMA LacksJoinedOne == \A d \in Nat, b \in Seq(Nat) : \A c : d # c /\ ~Has(b, c) => ~Has(<<d>> \o b, c)
BY HasOne, LacksJoined

(* The word a message starts with.                                            *)
LEMMA HeadOfJoined == \A c \in Nat, b \in Seq(Nat) : Head(<<c>> \o b) = c
<1> SUFFICES ASSUME NEW c \in Nat, NEW b \in Seq(Nat) PROVE Head(<<c>> \o b) = c
  OBVIOUS
<1> DEFINE s == <<c>> \o b
<1>1. <<c>> \in Seq(Nat) /\ Len(<<c>>) = 1 /\ <<c>>[1] = c /\ Len(b) \in Nat
  BY LenProperties
<1>2. s \in Seq(Nat) /\ Len(s) = 1 + Len(b) /\ s[1] = c
  BY <1>1, ConcatProperties
<1> HIDE DEF s
<1>3. SubSeq(s, 1, Len(s)) = s
  BY <1>2, SubSeqFull
<1>4. Head(SubSeq(s, 1, Len(s))) = s[1]
  <2>1. 1 \in 1..Len(s) /\ Len(s) \in 1..Len(s)
    BY <1>1, <1>2
  <2> QED
    BY <1>2, <2>1, HeadTailOfSubSeq
<1> QED
  BY <1>2, <1>3, <1>4 DEF s

(* What base64_encode writes holds no separator and no word.                   *)
LEMMA Encoded ==
  ASSUME NEW bytes \in Seq(0..255)
  PROVE  Base64Encode(bytes) \in Seq(Nat) /\ \A c : c \notin 0..64 => ~Has(Base64Encode(bytes), c)
<1> DEFINE text == Base64Encode(bytes)
<1>1. text \in Seq(0..64)
  BY EncodedText
<1> HIDE DEF text
<1>2. \A i \in 1..Len(text) : text[i] \in 0..64
  BY <1>1, ElementOfSeq
<1>3. text \in Seq(Nat)
  <2>1. Len(text) \in Nat /\ text = [i \in 1..Len(text) |-> text[i]]
    BY <1>1, LenProperties
  <2>2. \A i \in 1..Len(text) : text[i] \in Nat
    <3>1. 0..64 \subseteq Nat
      OBVIOUS
    <3> QED
      BY <1>2, <3>1
  <2> QED
    BY <2>1, <2>2, IsASeq
<1> QED
  BY <1>2, <1>3 DEF Has, text

-----------------------------------------------------------------------------
(* The fields of an accepted request.                                         *)
LEMMA RequestFields ==
  ASSUME NEW s, Has(After(s, Quote), Quote)
  PROVE  /\ ParsePasswordRequest(s).ok
         /\ ParsePasswordRequest(s).realm = Before(After(s, Quote), Quote)
         /\ ParsePasswordRequest(s).failed = (Head(s) = VerificationFailed)
         /\ ParsePasswordRequest(s).needsUsername = Has(s, UserPass)
         /\ ParsePasswordRequest(s).static = ParseStaticChallenge(s)
         /\ ParsePasswordRequest(s).dynamic = ParseDynamicChallenge(s)
<1>1. ParsePasswordRequest(s) = [ok |-> TRUE, realm |-> Before(After(s, Quote), Quote),
        failed |-> Head(s) = VerificationFailed, needsUsername |-> Has(s, UserPass),
        static |-> ParseStaticChallenge(s), dynamic |-> ParseDynamicChallenge(s)]
  BY DEF ParsePasswordRequest
<1> DEFINE r == ParsePasswordRequest(s)
<1>2. r.ok
  BY <1>1
<1>3. r.realm = Before(After(s, Quote), Quote)
  BY <1>1
<1>4. r.failed = (Head(s) = VerificationFailed)
  BY <1>1
<1>5. r.needsUsername = Has(s, UserPass)
  BY <1>1
<1>6. r.static = ParseStaticChallenge(s)
  BY <1>1
<1>7. r.dynamic = ParseDynamicChallenge(s)
  BY <1>1
<1> QED
  BY <1>2, <1>3, <1>4, <1>5, <1>6, <1>7

(* The client gets the realm, the flags, the state, the user name and the     *)
(* text of a dynamic challenge as the server wrote them, the text without     *)
(* quotes and brackets at its end; the text may hold colons.                  *)
THEOREM DynamicChallengeIsRead ==
  ASSUME NEW realm \in Seq(Nat), NEW flags \in Seq(Nat), NEW state \in Seq(Nat),
         NEW user \in Seq(0..255), user \in Utf8, NEW text \in Seq(Nat),
         ~Has(realm, Quote), ~Has(realm, CRV1), ~Has(flags, Colon), ~Has(state, Colon)
  PROVE  ReadsDynamic(realm, flags, state, user, text)
<1> DEFINE code == Base64Encode(user)
           end == <<Quote, Bracket>>
           rest == text \o end
           d == code \o (<<Colon>> \o rest)
           c == state \o (<<Colon>> \o d)
           b == flags \o (<<Colon>> \o c)
           a == <<Space>> \o (<<Quote>> \o (<<CRV1>> \o b))
           s == <<VerificationFailed>> \o (<<Quote>> \o (realm \o (<<Quote>> \o a)))
<1>1. /\ {Colon, Space, Quote, VerificationFailed, CRV1, Bracket} \subseteq Nat
      /\ Quote # VerificationFailed /\ CRV1 \notin {VerificationFailed, Space, Quote} /\ Colon \notin 0..64
  BY Codes
<1>2. code \in Seq(Nat) /\ ~Has(code, Colon)
  BY <1>1, Encoded
<1>3. end \in Seq(Nat) /\ \A i \in 1..Len(end) : end[i] \in {Bracket, Quote}
  <2>1. Len(end) = 2 /\ end[1] = Quote /\ end[2] = Bracket /\ \A i \in 1..2 : i \in {1, 2}
    OBVIOUS
  <2>2. end \in Seq(Nat)
    BY <1>1
  <2> HIDE DEF end
  <2> QED
    BY <2>1, <2>2
<1>4. rest \in Seq(Nat) /\ TrimEnd(rest, {Bracket, Quote}) = TrimEnd(text, {Bracket, Quote})
  <2>1. rest \in Seq(Nat)
    BY <1>3, ConcatTyped
  <2> HIDE DEF end
  <2>2. TrimEnd(text \o end, {Bracket, Quote}) = TrimEnd(text, {Bracket, Quote})
    BY <1>3, TrimsMore
  <2> QED
    BY <2>1, <2>2 DEF end
<1>5. Base64Decode(code) = [ok |-> TRUE, bytes |-> user]
  BY Base64RoundTrip
<1>6. Report(realm, flags, state, code, rest) = s
  BY DEF Report
<1> HIDE DEF code, rest
<1>7. d \in Seq(Nat) /\ SplitAt(d, Colon, code, rest)
  <2>1. d \in Seq(Nat)
    BY <1>1, <1>2, <1>4, ConcatTyped, ConcatTypedOne
  <2> QED
    BY <1>2, <1>4, <2>1 DEF SplitAt
<1> HIDE DEF d
<1>8. c \in Seq(Nat) /\ SplitAt(c, Colon, state, d)
  <2>1. c \in Seq(Nat)
    BY <1>1, <1>7, ConcatTyped, ConcatTypedOne
  <2> QED
    BY <1>7, <2>1 DEF SplitAt
<1> HIDE DEF c
<1>9. b \in Seq(Nat) /\ SplitAt(b, Colon, flags, c)
  <2>1. b \in Seq(Nat)
    BY <1>1, <1>8, ConcatTyped, ConcatTypedOne
  <2> QED
    BY <1>8, <2>1 DEF SplitAt
<1> HIDE DEF b
<1>10. a \in Seq(Nat) /\ Follows(a, CRV1, b)
  <2>1. Follows(<<CRV1>> \o b, CRV1, b)
    BY <1>1, <1>9, FollowsAtOnce
  <2>2. Follows(<<Quote>> \o (<<CRV1>> \o b), CRV1, b)
    BY <1>1, <2>1, FollowsOne
  <2>3. Follows(a, CRV1, b)
    BY <1>1, <2>2, FollowsOne
  <2> QED
    BY <1>1, <2>3, Followed
<1> HIDE DEF a
<1> DEFINE q == realm \o (<<Quote>> \o a)
<1>11. q \in Seq(Nat) /\ SplitAt(q, Quote, realm, a) /\ Follows(q, CRV1, b)
  <2>1. Follows(<<Quote>> \o a, CRV1, b)
    BY <1>1, <1>10, FollowsOne
  <2>2. Follows(q, CRV1, b)
    BY <1>1, <2>1, FollowsPast
  <2>3. q \in Seq(Nat)
    BY <1>1, <2>2, Followed
  <2> QED
    BY <1>10, <2>2, <2>3 DEF SplitAt
<1> HIDE DEF q
<1>12. s = <<VerificationFailed>> \o (<<Quote>> \o q)
  BY DEF q
<1> HIDE DEF s
<1>13. Follows(s, Quote, q) /\ Follows(s, CRV1, b) /\ Head(s) = VerificationFailed
  <2>1. Follows(<<Quote>> \o q, Quote, q)
    BY <1>1, <1>11, FollowsAtOnce
  <2>2. Follows(s, Quote, q)
    BY <1>1, <1>12, <2>1, FollowsOne
  <2>3. Follows(<<Quote>> \o q, CRV1, b)
    BY <1>1, <1>11, FollowsOne
  <2>4. Follows(s, CRV1, b)
    BY <1>1, <1>12, <2>3, FollowsOne
  <2>5. <<Quote>> \o q \in Seq(Nat)
    BY <1>1, <1>11, ConcatTypedOne
  <2>6. Head(s) = VerificationFailed
    BY <1>1, <1>12, <2>5, HeadOfJoined
  <2> QED
    BY <2>2, <2>4, <2>6
<1>14. After(s, Quote) = q /\ Has(q, Quote) /\ Before(q, Quote) = realm
  BY <1>1, <1>11, <1>13, Followed, Parts
<1>15. Has(s, CRV1) /\ After(s, CRV1) = b
  BY <1>1, <1>13, Followed
<1>16. Has(b, Colon) /\ Before(b, Colon) = flags /\ After(b, Colon) = c
  BY <1>1, <1>9, Parts
<1>17. Has(c, Colon) /\ Before(c, Colon) = state /\ After(c, Colon) = d
  BY <1>1, <1>8, Parts
<1>18. Before(d, Colon) = code /\ After(d, Colon) = rest
  BY <1>1, <1>7, Parts
<1>19. ParseDynamicChallenge(s) =
         [present |-> TRUE, echo |-> Has(flags, E), required |-> Has(flags, R),
          state |-> state, user |-> UserName(code), text |-> TrimEnd(rest, {Bracket, Quote})]
  BY <1>15, <1>16, <1>17, <1>18 DEF ParseDynamicChallenge
<1>20. UserName(code) = user
  <2>1. Base64Decode(code).bytes = user
    BY <1>5
  <2> QED
    BY <2>1 DEF UserName
<1>21. ParseDynamicChallenge(s) =
         [present |-> TRUE, echo |-> Has(flags, E), required |-> Has(flags, R),
          state |-> state, user |-> user, text |-> TrimEnd(text, {Bracket, Quote})]
  BY ONLY <1>4, <1>19, <1>20, Zenon
<1>22. Report(realm, flags, state, Base64Encode(user), text \o <<Quote, Bracket>>) = s
  BY <1>6 DEF code, rest
<1>23. /\ ParsePasswordRequest(s).ok
       /\ ParsePasswordRequest(s).realm = realm
       /\ ParsePasswordRequest(s).failed
       /\ ParsePasswordRequest(s).dynamic = ParseDynamicChallenge(s)
  <2>1. Has(After(s, Quote), Quote) /\ Before(After(s, Quote), Quote) = realm
    BY <1>14
  <2>2. ParsePasswordRequest(s).failed = (Head(s) = VerificationFailed)
    BY <2>1, RequestFields
  <2> QED
    BY <1>13, <2>1, <2>2, RequestFields
<1> QED
  BY <1>21, <1>22, <1>23 DEF ReadsDynamic

-----------------------------------------------------------------------------
(* A concatenation lacks what its parts lack.                                 *)
LEMMA LackingJoined == \A c : \A a, b \in Lacking(c) : a \o b \in Lacking(c)
BY LacksJoined, ConcatTyped DEF Lacking

LEMMA LackingOne == \A c : \A d \in Nat, b \in Lacking(c) : d # c => <<d>> \o b \in Lacking(c)
BY LacksJoinedOne, ConcatTypedOne DEF Lacking

(* A request holds no word but its own and those of its parts.                *)
LEMMA RequestLacks ==
  ASSUME NEW c, c \notin {Need, Quote, Space, UserPass, SC, Comma}, NEW echo \in Nat, echo # c,
         NEW realm \in Lacking(c), NEW text \in Lacking(c)
  PROVE  ~Has(Request(realm, echo, text), c)
<1>1. {Need, Quote, Space, UserPass, SC, Comma} \subseteq Nat
  BY Codes
<1>2. \A a, b \in Lacking(c) : a \o b \in Lacking(c)
  BY LackingJoined
<1>3. \A d \in {Need, Quote, Space, UserPass, SC, Comma}, b \in Lacking(c) : <<d>> \o b \in Lacking(c)
  BY <1>1, LackingOne
<1> DEFINE q == <<SC>> \o (<<echo>> \o (<<Comma>> \o text))
           r == <<Space>> \o (<<UserPass>> \o (<<Space>> \o q))
           s == <<Need>> \o (<<Quote>> \o (realm \o (<<Quote>> \o r)))
<1>4. <<echo>> \o (<<Comma>> \o text) \in Lacking(c)
  <2>1. <<Comma>> \o text \in Lacking(c)
    BY <1>3
  <2> QED
    BY <2>1, LackingOne
<1>5. q \in Lacking(c)
  BY <1>3, <1>4
<1> HIDE DEF q
<1>6. r \in Lacking(c)
  BY <1>3, <1>5
<1> HIDE DEF r
<1>7. s \in Lacking(c)
  BY <1>2, <1>3, <1>6
<1>8. Request(realm, echo, text) = s
  BY DEF Request, q, r
<1> QED
  BY <1>7, <1>8 DEF Lacking

-----------------------------------------------------------------------------
(* A text of one character is its reverse, and trimmed to itself.             *)
LEMMA ReverseOne == \A c \in Nat : Reverse(<<c>>) = <<c>>
<1> SUFFICES ASSUME NEW c \in Nat PROVE Reverse(<<c>>) = <<c>>
  OBVIOUS
<1> DEFINE s == <<c>>
<1>1. s \in Seq(Nat) /\ Len(s) = 1 /\ s[1] = c
  OBVIOUS
<1> HIDE DEF s
<1>2. Reverse(s) = [i \in 1..1 |-> s[(1 - i) + 1]]
  BY <1>1 DEF Reverse
<1>3. \A i \in 1..1 : s[(1 - i) + 1] = s[i]
  BY <1>1
<1>4. s = [i \in 1..1 |-> s[i]]
  BY <1>1, LenProperties
<1> QED
  BY <1>2, <1>3, <1>4 DEF s

LEMMA TrimEndOne == \A c \in Nat : \A C : c \notin C => TrimEnd(<<c>>, C) = <<c>>
<1> SUFFICES ASSUME NEW c \in Nat, NEW C, c \notin C PROVE TrimEnd(<<c>>, C) = <<c>>
  OBVIOUS
<1> DEFINE s == <<c>>
           kept == {i \in 1..Len(s) : s[i] \notin C} \cup {0}
<1>1. s \in Seq(Nat) /\ Len(s) = 1 /\ s[1] = c
  OBVIOUS
<1> HIDE DEF s
<1>2. kept = {0, 1}
  BY <1>1
<1>3. Max(kept) = 1
  BY <1>2 DEF Max
<1>4. SubSeq(s, 1, Len(s)) = s
  BY <1>1, SubSeqFull
<1> QED
  BY <1>1, <1>3, <1>4 DEF TrimEnd, s

LEMMA TrimOne == \A c \in Nat : \A C : c \notin C => Trim(<<c>>, C) = <<c>>
BY TrimEndOne, ReverseOne DEF Trim

(* The client gets the realm and the text of a static challenge, and whether  *)
(* to echo the answer, as OpenVPN wrote them; the text may hold commas.       *)
THEOREM StaticChallengeIsRead ==
  ASSUME NEW realm \in Seq(Nat), NEW echo \in Nat, NEW text \in Seq(Nat),
         ~Has(realm, Quote), ~Has(realm, SC), ~Has(realm, CRV1), ~Has(text, CRV1),
         echo \notin Whitespace, echo \notin {Comma, CRV1}
  PROVE  ReadsStatic(realm, echo, text)
<1> DEFINE b == <<echo>> \o (<<Comma>> \o text)
           a == <<Space>> \o (<<UserPass>> \o (<<Space>> \o (<<SC>> \o b)))
           q == realm \o (<<Quote>> \o a)
           s == <<Need>> \o (<<Quote>> \o q)
<1>1. /\ {Comma, Space, Quote, Need, SC, UserPass} \subseteq Nat
      /\ Quote # Need /\ SC \notin {Need, Space, Quote, UserPass} /\ Need # VerificationFailed
  BY Codes
<1>2. b \in Seq(Nat) /\ SplitAt(b, Comma, <<echo>>, text)
  <2>1. b \in Seq(Nat)
    BY <1>1, ConcatTypedOne
  <2>2. <<echo>> \in Seq(Nat) /\ ~Has(<<echo>>, Comma)
    BY HasOne
  <2> QED
    BY <2>1, <2>2 DEF SplitAt
<1> HIDE DEF b
<1>3. a \in Seq(Nat) /\ Follows(a, SC, b) /\ Has(a, UserPass)
  <2>1. Follows(<<SC>> \o b, SC, b)
    BY <1>1, <1>2, FollowsAtOnce
  <2>2. Follows(<<Space>> \o (<<SC>> \o b), SC, b)
    BY <1>1, <2>1, FollowsOne
  <2> DEFINE t == <<Space>> \o (<<SC>> \o b)
  <2>3. t \in Seq(Nat)
    BY <1>1, <2>2, Followed
  <2> HIDE DEF t
  <2>4. Follows(<<UserPass>> \o t, SC, b)
    BY <1>1, <2>2, FollowsOne DEF t
  <2>5. Follows(<<Space>> \o (<<UserPass>> \o t), SC, b)
    BY <1>1, <2>4, FollowsOne
  <2>6. Has(<<UserPass>> \o t, UserPass) /\ <<UserPass>> \o t \in Seq(Nat)
    <3>1. <<UserPass>> \in Seq(Nat) /\ Has(<<UserPass>>, UserPass)
      BY <1>1, HasOne
    <3> QED
      BY <2>3, <3>1, HasConcat
  <2>7. Has(<<Space>> \o (<<UserPass>> \o t), UserPass)
    BY <1>1, <2>6, HasOne, HasConcat
  <2>8. <<Space>> \o (<<UserPass>> \o t) \in Seq(Nat)
    BY <1>1, <2>6, ConcatTypedOne
  <2> QED
    BY <2>5, <2>7, <2>8 DEF t
<1> HIDE DEF a
<1>4. /\ q \in Seq(Nat) /\ SplitAt(q, Quote, realm, a) /\ Follows(q, SC, b)
      /\ Has(q, UserPass)
  <2>1. Follows(<<Quote>> \o a, SC, b)
    BY <1>1, <1>3, FollowsOne
  <2>2. Follows(q, SC, b)
    BY <1>1, <2>1, FollowsPast
  <2>3. q \in Seq(Nat)
    BY <1>1, <2>2, Followed
  <2>4. <<Quote>> \o a \in Seq(Nat) /\ Has(<<Quote>> \o a, UserPass)
    BY <1>1, <1>3, HasOne, HasConcat
  <2>5. Has(q, UserPass)
    BY <2>4, HasConcat
  <2> QED
    BY <1>3, <2>2, <2>3, <2>5 DEF SplitAt
<1> HIDE DEF q
<1>5. Follows(s, Quote, q) /\ Follows(s, SC, b) /\ Head(s) = Need /\ Has(s, UserPass)
  <2>1. Follows(<<Quote>> \o q, Quote, q)
    BY <1>1, <1>4, FollowsAtOnce
  <2>2. Follows(s, Quote, q)
    BY <1>1, <2>1, FollowsOne
  <2>3. Follows(<<Quote>> \o q, SC, b)
    BY <1>1, <1>4, FollowsOne
  <2>4. Follows(s, SC, b)
    BY <1>1, <2>3, FollowsOne
  <2>5. <<Quote>> \o q \in Seq(Nat) /\ Has(<<Quote>> \o q, UserPass)
    BY <1>1, <1>4, HasOne, HasConcat
  <2>6. Head(s) = Need
    BY <1>1, <2>5, HeadOfJoined
  <2>7. Has(s, UserPass)
    BY <1>1, <2>5, HasOne, HasConcat
  <2> QED
    BY <2>2, <2>4, <2>6, <2>7
<1>6. Request(realm, echo, text) = s
  BY DEF Request, b, a, q
<1> HIDE DEF s
<1>7. Has(After(s, Quote), Quote) /\ Before(After(s, Quote), Quote) = realm
  BY <1>1, <1>4, <1>5, Followed, Parts
<1>8. Has(s, SC) /\ After(s, SC) = b
  BY <1>1, <1>5, Followed
<1>9. Has(b, Comma) /\ Before(b, Comma) = <<echo>> /\ After(b, Comma) = text
  BY <1>1, <1>2, Parts
<1>10. ParseStaticChallenge(s) =
         [present |-> TRUE, echo |-> Trim(<<echo>>, Whitespace) = <<One>>, text |-> Trim(text, Whitespace)]
  BY <1>8, <1>9 DEF ParseStaticChallenge
<1>11. (Trim(<<echo>>, Whitespace) = <<One>>) = (echo = One)
  <2>1. Trim(<<echo>>, Whitespace) = <<echo>>
    BY TrimOne
  <2>2. <<echo>> = <<One>> <=> echo = One
    OBVIOUS
  <2> QED
    BY <2>1, <2>2, Zenon
<1>12. ParseStaticChallenge(s) = [present |-> TRUE, echo |-> echo = One, text |-> Trim(text, Whitespace)]
  BY ONLY <1>10, <1>11, Zenon
<1>13. /\ ParsePasswordRequest(s).ok /\ ParsePasswordRequest(s).realm = realm
       /\ ~ParsePasswordRequest(s).failed /\ ParsePasswordRequest(s).needsUsername
       /\ ParsePasswordRequest(s).static = ParseStaticChallenge(s)
  <2>1. /\ ParsePasswordRequest(s).failed = (Head(s) = VerificationFailed)
        /\ ParsePasswordRequest(s).needsUsername = Has(s, UserPass)
    BY <1>7, RequestFields
  <2> QED
    BY <1>1, <1>5, <1>7, <2>1, RequestFields
<1>14. ParsePasswordRequest(s).dynamic = NoChallenge
  <2>1. realm \in Lacking(CRV1) /\ text \in Lacking(CRV1)
    BY DEF Lacking
  <2>2. CRV1 \notin {Need, Quote, Space, UserPass, SC, Comma} /\ echo # CRV1
    BY DEF CRV1, Need, Quote, Space, UserPass, SC, Comma
  <2>3. ~Has(s, CRV1)
    BY <1>6, <2>1, <2>2, RequestLacks
  <2>4. ParseDynamicChallenge(s) = NoChallenge
    BY <2>3 DEF ParseDynamicChallenge
  <2> QED
    BY <1>7, <2>4, RequestFields
<1> QED
  BY <1>6, <1>12, <1>13, <1>14 DEF ReadsStatic

(* The reply to a static challenge decodes to the password and the response,  *)
(* whatever bytes they are: neither encoding holds a colon.                   *)
THEOREM ReplyIsRead ==
  ASSUME NEW password \in Seq(0..255), NEW response \in Seq(0..255)
  PROVE  LET s == After(Scrv1Password(password, response), SCRV1)
         IN /\ Base64Decode(Before(s, Colon)) = [ok |-> TRUE, bytes |-> password]
            /\ Base64Decode(After(s, Colon)) = [ok |-> TRUE, bytes |-> response]
<1> DEFINE x == Base64Encode(password)
           y == Base64Encode(response)
           s == x \o (<<Colon>> \o y)
<1>1. Colon \in Nat /\ SCRV1 \in Nat /\ Colon \notin 0..64
  BY Codes
<1>2. x \in Seq(Nat) /\ y \in Seq(Nat) /\ ~Has(x, Colon)
  BY <1>1, Encoded
<1>3. Base64Decode(x) = [ok |-> TRUE, bytes |-> password] /\ Base64Decode(y) = [ok |-> TRUE, bytes |-> response]
  BY Base64RoundTrip
<1>4. Scrv1Password(password, response) = ((<<SCRV1>> \o x) \o <<Colon>>) \o y
  BY DEF Scrv1Password
<1> HIDE DEF x, y
<1>5. <<Colon>> \in Seq(Nat) /\ <<SCRV1>> \in Seq(Nat) /\ <<SCRV1>> \o x \in Seq(Nat) /\ <<Colon>> \o y \in Seq(Nat)
  BY <1>1, <1>2, HasOne, ConcatTyped
<1>6. ((<<SCRV1>> \o x) \o <<Colon>>) \o y = <<SCRV1>> \o s
  <2>1. (<<SCRV1>> \o x) \o (<<Colon>> \o y) = ((<<SCRV1>> \o x) \o <<Colon>>) \o y
    BY <1>2, <1>5, Regroups
  <2>2. <<SCRV1>> \o (x \o (<<Colon>> \o y)) = (<<SCRV1>> \o x) \o (<<Colon>> \o y)
    BY <1>2, <1>5, Regroups
  <2> QED
    BY <2>1, <2>2
<1>7. s \in Seq(Nat) /\ SplitAt(s, Colon, x, y)
  BY <1>2, <1>5, ConcatTyped DEF SplitAt
<1> HIDE DEF s
<1>8. After(<<SCRV1>> \o s, SCRV1) = s
  BY <1>1, <1>7, FollowsAtOnce, Followed
<1>9. Before(s, Colon) = x /\ After(s, Colon) = y
  BY <1>1, <1>7, Parts
<1> QED
  BY <1>3, <1>4, <1>6, <1>8, <1>9

-----------------------------------------------------------------------------
(* The samples are those of SampleAssumption.                                 *)
Sampled == sample = NoSample \/ sample \in Samples

(* Nothing but samples is converted.                                          *)
LEMMA AlwaysSampled == TextSpec => []Sampled
<1>1. TextInit => Sampled
  BY DEF TextInit, Sampled
<1>2. Sampled /\ [Reads \/ Converts]_<<vars, sample>> => Sampled'
  BY DEF Sampled, Reads, Converts, vars
<1> QED
  BY <1>1, <1>2, PTL DEF TextSpec

LEMMA NoneSampled == NoSample.kind \notin {"credential", "dynamic", "static", "reply", "pair", "option", "rows", "name"}
BY DEF NoSample

(* OpenVPN gets exactly the realm and the value that a client entered, whatever *)
(* samples are tried.                                                         *)
THEOREM CredentialsAlwaysArrive == TextSpec => []CredentialsArrive
<1>1. Sampled => CredentialsArrive
  <2> SUFFICES ASSUME Sampled, sample.kind = "credential"
               PROVE  Lexed(Command(Pass, sample.realm, sample.value))
                        = <<<<Pass>>, sample.realm, sample.value>>
    BY DEF CredentialsArrive
  <2>1. sample.realm \in Seq(Nat) /\ sample.value \in Seq(Nat)
    BY SampleAssumption, NoneSampled DEF Sampled, Credential, Entry, Lacking
  <2>2. Pass \in Nat /\ Pass \notin {Space, Backslash, DoubleQuote}
    BY DEF Pass, Space, Backslash, DoubleQuote
  <2> QED
    BY <2>1, <2>2, CommandIsRead
<1> QED
  BY <1>1, AlwaysSampled, PTL

(* The client gets every challenge as the server wrote it, and the server the    *)
(* reply, whatever samples are tried.                                         *)
THEOREM ChallengesAreAlwaysRead == TextSpec => []ChallengesAreRead
<1>1. ASSUME Sampled, sample.kind = "dynamic"
      PROVE  ReadsDynamic(sample.realm, sample.flags, sample.state, sample.user, sample.text)
  <2>1. sample \in Dynamic
    BY <1>1, SampleAssumption, NoneSampled DEF Sampled
  <2>2. /\ sample.realm \in Realm /\ sample.flags \in Lacking(Colon) /\ sample.state \in Lacking(Colon)
        /\ sample.user \in Seq(0..255) /\ sample.user \in Utf8 /\ sample.text \in Seq(Nat)
    BY <2>1 DEF Dynamic
  <2>3. /\ sample.realm \in Seq(Nat) /\ ~Has(sample.realm, Quote) /\ ~Has(sample.realm, CRV1)
        /\ sample.flags \in Seq(Nat) /\ ~Has(sample.flags, Colon)
        /\ sample.state \in Seq(Nat) /\ ~Has(sample.state, Colon)
    BY <2>2 DEF Realm, Lacking
  <2> QED
    BY <2>2, <2>3, DynamicChallengeIsRead
<1>2. ASSUME Sampled, sample.kind = "static"
      PROVE  ReadsStatic(sample.realm, sample.echo, sample.text)
  <2>1. sample \in Static
    BY <1>2, SampleAssumption, NoneSampled DEF Sampled
  <2>2. sample.realm \in Realm /\ sample.echo \in Nat \ (Whitespace \cup {Comma, CRV1}) /\ sample.text \in Lacking(CRV1)
    BY <2>1 DEF Static
  <2>3. /\ sample.realm \in Seq(Nat) /\ ~Has(sample.realm, Quote)
        /\ ~Has(sample.realm, SC) /\ ~Has(sample.realm, CRV1)
        /\ sample.text \in Seq(Nat) /\ ~Has(sample.text, CRV1)
    BY <2>2 DEF Realm, Lacking
  <2>4. sample.echo \in Nat /\ sample.echo \notin Whitespace /\ sample.echo \notin {Comma, CRV1}
    BY <2>2
  <2> QED
    BY <2>3, <2>4, StaticChallengeIsRead
<1>3. ASSUME Sampled, sample.kind = "reply"
      PROVE  LET sent64 == After(Scrv1Password(sample.password, sample.response), SCRV1)
             IN /\ Base64Decode(Before(sent64, Colon)) = [ok |-> TRUE, bytes |-> sample.password]
                /\ Base64Decode(After(sent64, Colon)) = [ok |-> TRUE, bytes |-> sample.response]
  <2>1. sample.password \in Seq(0..255) /\ sample.response \in Seq(0..255)
    BY <1>3, SampleAssumption, NoneSampled DEF Sampled, Reply
  <2> QED
    BY <2>1, ReplyIsRead
<1>4. Sampled => ChallengesAreRead
  BY <1>1, <1>2, <1>3 DEF ChallengesAreRead
<1> QED
  BY <1>4, AlwaysSampled, PTL

-----------------------------------------------------------------------------
(***************************************************************************)
(* The second part: configurations and metadata.                              *)
(***************************************************************************)
-----------------------------------------------------------------------------
(* A text that grows by a character.                                          *)
LEMMA Grows == \A s \in Seq(Nat), c \in Nat :
  /\ Append(s, c) \in Seq(Nat) /\ Append(s, c) = s \o <<c>>
  /\ \A d : Has(Append(s, c), d) <=> (Has(s, d) \/ c = d)
<1> SUFFICES ASSUME NEW s \in Seq(Nat), NEW c \in Nat
             PROVE  /\ Append(s, c) \in Seq(Nat) /\ Append(s, c) = s \o <<c>>
                    /\ \A d : Has(Append(s, c), d) <=> (Has(s, d) \/ c = d)
  OBVIOUS
<1>1. Append(s, c) \in Seq(Nat) /\ s \o <<c>> = Append(s, c)
  BY Concats
<1>2. \A d : <<c>> \in Seq(Nat) /\ (Has(<<c>>, d) <=> c = d)
  BY HasOne
<1>3. ASSUME NEW d PROVE Has(s \o <<c>>, d) <=> (Has(s, d) \/ c = d)
  BY <1>2, HasConcat
<1> QED
  BY <1>1, <1>3

(* A text that grows at its end.                                             *)
LEMMA GrowsAfter == \A t, s \in Seq(Nat), c \in Nat : t \o s \in Seq(Nat) /\ t \o Append(s, c) = Append(t \o s, c)
<1> SUFFICES ASSUME NEW t \in Seq(Nat), NEW s \in Seq(Nat), NEW c \in Nat
             PROVE  t \o s \in Seq(Nat) /\ t \o Append(s, c) = Append(t \o s, c)
  OBVIOUS
<1> QED
  BY Concats

-----------------------------------------------------------------------------
(* A text is cut at its line ends one character after the other.               *)
Cuts == [out : Seq(Seq(Nat)), rest : Seq(Nat)]
Cutting == [x \in Cuts \X Nat |-> CutAt(x[1], x[2])]

LEMMA CutFields == \A o, r : Cut(o, r).out = o /\ Cut(o, r).rest = r
BY DEF Cut

LEMMA CutTyped == \A o \in Seq(Seq(Nat)), r \in Seq(Nat) : Cut(o, r) \in Cuts
BY DEF Cut, Cuts

LEMMA CutTypes == Cut(<<>>, <<>>) \in Cuts /\ \A s \in Cuts, c \in Nat : CutAt(s, c) \in Cuts
<1>1. <<>> \in Seq(Nat) /\ <<>> \in Seq(Seq(Nat))
  BY EmptySeq
<1>2. ASSUME NEW s \in Cuts, NEW c \in Nat PROVE CutAt(s, c) \in Cuts
  <2>1. s.out \in Seq(Seq(Nat)) /\ s.rest \in Seq(Nat)
    BY DEF Cuts
  <2>2. Append(s.out, s.rest) \in Seq(Seq(Nat)) /\ Append(s.rest, c) \in Seq(Nat)
    BY <2>1, AppendProperties
  <2> QED
    BY <1>1, <2>1, <2>2, CutTyped DEF CutAt
<1> QED
  BY <1>1, <1>2, CutTyped

(* Cutting is such a fold. *)
LEMMA CutFolds ==
  /\ Foldable(Nat, Cuts, Cutting, Cut(<<>>, <<>>))
  /\ \A s \in Cuts, c \in Nat : Cutting[<<s, c>>] = CutAt(s, c)
BY CutTypes DEF Foldable, Cutting

LEMMA CutIsFold ==
  ASSUME NEW text \in Seq(Nat)
  PROVE  CutText(text) = Folded(Nat, Cuts, Cutting, Cut(<<>>, <<>>), text)
<1> DEFINE P(it) == it = [s \in SUBSET DOMAIN text |->
                            IF s = {} THEN Cut(<<>>, <<>>)
                            ELSE CutAt(it[s \ {Max(s)}], text[Max(s)])]
           it == CHOOSE f : P(f)
<1>1. /\ Len(text) \in Nat /\ DOMAIN text = 1..Len(text)
      /\ \A i \in 1..Len(text) : text[i] \in Nat
  BY LenProperties, ElementOfSeq
<1>2. P(it)
  <2>1. PICK f : Stays(Nat, Cuts, Cutting, Cut(<<>>, <<>>), text, f)
    BY CutFolds, FoldStays
  <2>2. P(f)
    BY <1>1, <2>1, CutFolds DEF Stays, Unfolds
  <2> QED
    BY <2>2
<1>3. CutText(text) = it[DOMAIN text]
  BY DEF CutText, FoldLeft, MapThenFoldSet
<1>4. ASSUME NEW k \in 1..Len(text)
      PROVE  it[1..k] = CutAt(it[1..k - 1], text[k])
  <2>1. /\ 1..k \in SUBSET DOMAIN text /\ 1..k # {} /\ Max(1..k) = k
        /\ (1..k) \ {k} = 1..k - 1
    BY <1>1, Downward
  <2> QED
    BY <1>2, <2>1
<1>5. it[{}] = Cut(<<>>, <<>>)
  BY <1>2
<1> HIDE DEF it
<1>6. GoesAlong(Nat, Cuts, Cutting, Cut(<<>>, <<>>), text, it)
  BY <1>1, <1>4, <1>5, CutFolds DEF GoesAlong
<1> QED
  BY <1>1, <1>3, <1>6, FoldedAlong

(* Cutting a text, one character at a time.                                  *)
LEMMA CutFacts ==
  /\ CutText(<<>>) = Cut(<<>>, <<>>)
  /\ \A s \in Seq(Nat) : CutText(s) \in Cuts
  /\ \A s \in Seq(Nat), c \in Nat : CutText(Append(s, c)) = CutAt(CutText(s), c)
<1> DEFINE F(s) == Folded(Nat, Cuts, Cutting, Cut(<<>>, <<>>), s)
<1>1. /\ F(<<>>) = Cut(<<>>, <<>>)
      /\ \A s \in Seq(Nat) : F(s) \in Cuts
      /\ \A s \in Seq(Nat), c \in Nat : F(Append(s, c)) = Cutting[<<F(s), c>>]
  BY CutFolds, FoldedFacts
<1>2. <<>> \in Seq(Nat) /\ \A s \in Seq(Nat), c \in Nat : Append(s, c) \in Seq(Nat)
  BY EmptySeq, AppendProperties
<1>3. \A s \in Seq(Nat) : CutText(s) = F(s)
  BY CutIsFold
<1> HIDE DEF F
<1>4. CutText(<<>>) = Cut(<<>>, <<>>) /\ \A s \in Seq(Nat) : CutText(s) \in Cuts
  BY <1>1, <1>2, <1>3
<1>5. ASSUME NEW s \in Seq(Nat), NEW c \in Nat PROVE CutText(Append(s, c)) = CutAt(CutText(s), c)
  <2>1. CutText(s) = F(s) /\ CutText(Append(s, c)) = F(Append(s, c)) /\ F(s) \in Cuts
    BY <1>1, <1>2, <1>3
  <2> QED
    BY <1>1, <2>1, CutFolds
<1> QED
  BY <1>4, <1>5

(* Text without a line end goes on with the last line.                         *)
LEMMA CutGoesOn ==
  ASSUME NEW s \in Seq(Nat), NEW out, NEW rest \in Seq(Nat), CutText(s) = Cut(out, rest),
         NEW t \in Lacking(LF)
  PROVE  CutText(s \o t) = Cut(out, rest \o t)
<1> DEFINE T == {u \in Seq(Nat) : ~Has(u, LF) => CutText(s \o u) = Cut(out, rest \o u)}
<1>1. <<>> \in T
  <2>1. s \o <<>> = s /\ rest \o <<>> = rest /\ <<>> \in Seq(Nat)
    BY ConcatEmptySeq, EmptySeq
  <2> QED
    BY <2>1
<1>2. ASSUME NEW u \in Seq(Nat), NEW c \in Nat, u \in T PROVE Append(u, c) \in T
  <2> SUFFICES ASSUME ~Has(Append(u, c), LF)
               PROVE  CutText(s \o Append(u, c)) = Cut(out, rest \o Append(u, c))
    BY AppendProperties
  <2>2. ~Has(u, LF) /\ c # LF
    BY Grows
  <2>3. CutText(s \o u) = Cut(out, rest \o u)
    BY <1>2, <2>2
  <2>4. s \o u \in Seq(Nat) /\ s \o Append(u, c) = Append(s \o u, c)
        /\ rest \o u \in Seq(Nat) /\ rest \o Append(u, c) = Append(rest \o u, c)
    BY GrowsAfter
  <2>5. CutText(Append(s \o u, c)) = CutAt(Cut(out, rest \o u), c)
    BY <2>3, <2>4, CutFacts
  <2>6. CutAt(Cut(out, rest \o u), c) = Cut(out, Append(rest \o u, c))
    BY <2>2, CutFields DEF CutAt
  <2> QED
    BY <2>4, <2>5, <2>6
<1>3. Seq(Nat) \subseteq T
  <2> HIDE DEF T
  <2> QED
    BY <1>1, <1>2, SequenceInduction
<1> QED
  BY <1>3 DEF Lacking

-----------------------------------------------------------------------------
(* `read_meta` goes through the lines one by one.                              *)
Metas == [safe : BOOLEAN, name : Seq(Nat)]
RowReading == [x \in Metas \X Seq(Nat) |-> ReadRow(x[1], x[2])]
RowsMeta(rows) == FoldLeft(ReadRow, NoMeta, rows)

LEMMA MetaFields == \A safe, name : Meta(safe, name).safe = safe /\ Meta(safe, name).name = name
BY DEF Meta

LEMMA MetaTypes == NoMeta \in Metas /\ \A s \in Metas, c \in Seq(Nat) : ReadRow(s, c) \in Metas
<1>1. \A safe \in BOOLEAN, name \in Seq(Nat) : Meta(safe, name) \in Metas
  BY DEF Meta, Metas
<1>2. ASSUME NEW s \in Metas, NEW c \in Seq(Nat) PROVE ReadRow(s, c) \in Metas
  <2>1. s.safe \in BOOLEAN /\ s.name \in Seq(Nat)
    BY DEF Metas
  <2>2. c # <<>> => Tail(c) \in Seq(Nat)
    BY HeadTailProperties
  <2>3. (Tail(c) = <<TrueWord>>) \in BOOLEAN
    OBVIOUS
  <2>4. c # <<>> => Meta(Tail(c) = <<TrueWord>>, s.name) \in Metas /\ Meta(s.safe, Tail(c)) \in Metas
    BY <1>1, <2>1, <2>2, <2>3
  <2> QED
    BY <2>4 DEF ReadRow
<1> QED
  BY <1>1, <1>2, EmptySeq DEF NoMeta

(* It is a fold, too. *)
LEMMA MetaFolds ==
  /\ Foldable(Seq(Nat), Metas, RowReading, NoMeta)
  /\ \A s \in Metas, c \in Seq(Nat) : RowReading[<<s, c>>] = ReadRow(s, c)
BY MetaTypes DEF Foldable, RowReading

LEMMA MetaIsFold ==
  ASSUME NEW rows \in Seq(Seq(Nat))
  PROVE  RowsMeta(rows) = Folded(Seq(Nat), Metas, RowReading, NoMeta, rows)
<1> DEFINE P(it) == it = [s \in SUBSET DOMAIN rows |->
                            IF s = {} THEN NoMeta
                            ELSE ReadRow(it[s \ {Max(s)}], rows[Max(s)])]
           it == CHOOSE f : P(f)
<1>1. /\ Len(rows) \in Nat /\ DOMAIN rows = 1..Len(rows)
      /\ \A i \in 1..Len(rows) : rows[i] \in Seq(Nat)
  BY LenProperties, ElementOfSeq
<1>2. P(it)
  <2>1. PICK f : Stays(Seq(Nat), Metas, RowReading, NoMeta, rows, f)
    BY MetaFolds, FoldStays
  <2>2. P(f)
    BY <1>1, <2>1, MetaFolds DEF Stays, Unfolds
  <2> QED
    BY <2>2
<1>3. RowsMeta(rows) = it[DOMAIN rows]
  BY DEF RowsMeta, FoldLeft, MapThenFoldSet
<1>4. ASSUME NEW k \in 1..Len(rows)
      PROVE  it[1..k] = ReadRow(it[1..k - 1], rows[k])
  <2>1. /\ 1..k \in SUBSET DOMAIN rows /\ 1..k # {} /\ Max(1..k) = k
        /\ (1..k) \ {k} = 1..k - 1
    BY <1>1, Downward
  <2> QED
    BY <1>2, <2>1
<1>5. it[{}] = NoMeta
  BY <1>2
<1> HIDE DEF it
<1>6. GoesAlong(Seq(Nat), Metas, RowReading, NoMeta, rows, it)
  BY <1>1, <1>4, <1>5, MetaFolds DEF GoesAlong
<1> QED
  BY <1>1, <1>3, <1>6, FoldedAlong

(* Reading the metadata, one row at a time.                                  *)
LEMMA MetaFacts ==
  /\ RowsMeta(<<>>) = NoMeta
  /\ \A s \in Seq(Seq(Nat)) : RowsMeta(s) \in Metas
  /\ \A s \in Seq(Seq(Nat)), c \in Seq(Nat) : RowsMeta(Append(s, c)) = ReadRow(RowsMeta(s), c)
<1> DEFINE F(s) == Folded(Seq(Nat), Metas, RowReading, NoMeta, s)
<1>1. /\ F(<<>>) = NoMeta
      /\ \A s \in Seq(Seq(Nat)) : F(s) \in Metas
      /\ \A s \in Seq(Seq(Nat)), c \in Seq(Nat) : F(Append(s, c)) = RowReading[<<F(s), c>>]
  BY MetaFolds, FoldedFacts
<1>2. <<>> \in Seq(Seq(Nat)) /\ \A s \in Seq(Seq(Nat)), c \in Seq(Nat) : Append(s, c) \in Seq(Seq(Nat))
  BY EmptySeq, AppendProperties
<1>3. \A s \in Seq(Seq(Nat)) : RowsMeta(s) = F(s)
  BY MetaIsFold
<1> HIDE DEF F
<1>4. RowsMeta(<<>>) = NoMeta /\ \A s \in Seq(Seq(Nat)) : RowsMeta(s) \in Metas
  BY <1>1, <1>2, <1>3
<1>5. ASSUME NEW s \in Seq(Seq(Nat)), NEW c \in Seq(Nat) PROVE RowsMeta(Append(s, c)) = ReadRow(RowsMeta(s), c)
  <2>1. RowsMeta(s) = F(s) /\ RowsMeta(Append(s, c)) = F(Append(s, c)) /\ F(s) \in Metas
    BY <1>1, <1>2, <1>3
  <2> QED
    BY <1>1, <2>1, MetaFolds
<1> QED
  BY <1>4, <1>5

(* The name in the file has no line ends.                                     *)
LEMMA EncodedName ==
  ASSUME NEW name \in Seq(Nat)
  PROVE  /\ EncodeMetaValue(name) \in Lacking(LF) /\ Len(EncodeMetaValue(name)) = Len(name)
         /\ \A i \in 1..Len(name) : EncodeMetaValue(name)[i] \in Nat /\ EncodeMetaValue(name)[i] # CR
<1> DEFINE enc == EncodeMetaValue(name)
<1>1. Len(name) \in Nat /\ \A i \in 1..Len(name) : name[i] \in Nat
  BY LenProperties, ElementOfSeq
<1>2. LF # Space /\ CR # Space /\ Space \in Nat
  BY DEF LF, CR, Space
<1>3. enc = [i \in 1..Len(name) |-> IF name[i] \in {LF, CR} THEN Space ELSE name[i]]
  BY DEF EncodeMetaValue
<1> HIDE DEF enc
<1>4. \A i \in 1..Len(name) : enc[i] \in Nat /\ enc[i] # LF /\ enc[i] # CR
  BY <1>1, <1>2, <1>3
<1>5. enc \in [1..Len(name) -> Nat]
  BY <1>1, <1>2, <1>3
<1>6. enc \in Seq(Nat) /\ Len(enc) = Len(name)
  BY <1>1, <1>5, SeqDef, LenProperties
<1>7. ~Has(enc, LF)
  BY <1>4, <1>6 DEF Has
<1> QED
  BY <1>4, <1>6, <1>7 DEF enc, Lacking

(* A cut text that grows by a character.                                      *)
LEMMA CutsAt ==
  /\ \A o, r : CutAt(Cut(o, r), LF) = Cut(Append(o, r), <<>>)
  /\ \A o, r, c : c # LF => CutAt(Cut(o, r), c) = Cut(o, Append(r, c))
BY CutFields DEF CutAt

(* The lines of the metadata are the verdict and the name.                     *)
LEMMA MetaLines ==
  ASSUME NEW safe \in BOOLEAN, NEW name \in Seq(Nat), NEW v, v = IF safe THEN TrueWord ELSE FalseWord
  PROVE  /\ v \in Nat
         /\ TextLines(MetaFile(safe, name)) = <<<<SafeKey, v>>, <<NameKey>> \o EncodeMetaValue(name)>>
<1> DEFINE enc == EncodeMetaValue(name)
           named == <<NameKey>> \o enc
           front == <<SafeKey, v, LF, NameKey>>
           out == <<<<SafeKey, v>>, named>>
<1>1. {SafeKey, v, LF, NameKey} \subseteq Nat /\ LF \notin {SafeKey, v, NameKey} /\ CR \notin {v, NameKey}
  BY DEF SafeKey, NameKey, LF, CR, TrueWord, FalseWord
<1>2. enc \in Seq(Nat) /\ enc \in Lacking(LF) /\ Len(enc) \in Nat /\ \A i \in 1..Len(enc) : enc[i] # CR
  BY EncodedName, LenProperties DEF Lacking
<1> HIDE DEF enc
<1>3. /\ <<SafeKey>> \in Seq(Nat) /\ <<SafeKey>> = Append(<<>>, SafeKey)
      /\ <<SafeKey, v>> \in Seq(Nat) /\ <<SafeKey, v>> = Append(<<SafeKey>>, v)
      /\ <<SafeKey, v, LF>> \in Seq(Nat) /\ <<SafeKey, v, LF>> = Append(<<SafeKey, v>>, LF)
      /\ front \in Seq(Nat) /\ front = Append(<<SafeKey, v, LF>>, NameKey)
      /\ <<NameKey>> \in Seq(Nat) /\ <<NameKey>> = Append(<<>>, NameKey)
      /\ <<<<SafeKey, v>>>> = Append(<<>>, <<SafeKey, v>>)
  BY <1>1
<1>4. CutText(front) = Cut(<<<<SafeKey, v>>>>, <<NameKey>>)
  <2>1. CutText(<<>>) = Cut(<<>>, <<>>)
    BY CutFacts
  <2>2. CutText(<<SafeKey>>) = Cut(<<>>, <<SafeKey>>)
    <3>1. CutText(<<SafeKey>>) = CutAt(Cut(<<>>, <<>>), SafeKey)
      <4>1. CutText(Append(<<>>, SafeKey)) = CutAt(CutText(<<>>), SafeKey)
        BY <1>1, <1>3, CutFacts, EmptySeq
      <4> QED
        BY <1>3, <2>1, <4>1
    <3>2. CutAt(Cut(<<>>, <<>>), SafeKey) = Cut(<<>>, Append(<<>>, SafeKey))
      BY <1>1, CutsAt
    <3> QED
      BY <1>3, <3>1, <3>2
  <2>3. CutText(<<SafeKey, v>>) = Cut(<<>>, <<SafeKey, v>>)
    <3>1. CutText(<<SafeKey, v>>) = CutAt(Cut(<<>>, <<SafeKey>>), v)
      <4>1. CutText(Append(<<SafeKey>>, v)) = CutAt(CutText(<<SafeKey>>), v)
        BY <1>1, <1>3, CutFacts, EmptySeq
      <4> QED
        BY <1>3, <2>2, <4>1
    <3>2. CutAt(Cut(<<>>, <<SafeKey>>), v) = Cut(<<>>, Append(<<SafeKey>>, v))
      BY <1>1, CutsAt
    <3> QED
      BY <1>3, <3>1, <3>2
  <2>4. CutText(<<SafeKey, v, LF>>) = Cut(<<<<SafeKey, v>>>>, <<>>)
    <3>1. CutText(<<SafeKey, v, LF>>) = CutAt(Cut(<<>>, <<SafeKey, v>>), LF)
      <4>1. CutText(Append(<<SafeKey, v>>, LF)) = CutAt(CutText(<<SafeKey, v>>), LF)
        BY <1>1, <1>3, CutFacts, EmptySeq
      <4> QED
        BY <1>3, <2>3, <4>1
    <3>2. CutAt(Cut(<<>>, <<SafeKey, v>>), LF) = Cut(Append(<<>>, <<SafeKey, v>>), <<>>)
      BY <1>1, CutsAt
    <3> QED
      BY <1>3, <3>1, <3>2
  <2>5. CutText(front) = Cut(<<<<SafeKey, v>>>>, <<NameKey>>)
    <3>1. CutText(front) = CutAt(Cut(<<<<SafeKey, v>>>>, <<>>), NameKey)
      <4>1. CutText(Append(<<SafeKey, v, LF>>, NameKey)) = CutAt(CutText(<<SafeKey, v, LF>>), NameKey)
        BY <1>1, <1>3, CutFacts, EmptySeq
      <4> QED
        BY <1>3, <2>4, <4>1
    <3>2. CutAt(Cut(<<<<SafeKey, v>>>>, <<>>), NameKey) = Cut(<<<<SafeKey, v>>>>, Append(<<>>, NameKey))
      BY <1>1, CutsAt
    <3> QED
      BY <1>3, <3>1, <3>2
  <2> QED
    BY <2>5
<1>5. CutText(front \o enc) = Cut(<<<<SafeKey, v>>>>, named)
  <2>1. enc \in Lacking(LF) /\ front \in Seq(Nat) /\ <<NameKey>> \in Seq(Nat)
    BY <1>2, <1>3
  <2>2. CutText(front) = Cut(<<<<SafeKey, v>>>>, <<NameKey>>)
    BY <1>4
  <2> DEFINE first == <<<<SafeKey, v>>>>
             key == <<NameKey>>
  <2>3. CutText(front) = Cut(first, key) /\ key \in Seq(Nat)
    BY <2>1, <2>2
  <2> HIDE DEF front, first, key
  <2>4. CutText(front \o enc) = Cut(first, key \o enc)
    BY <2>1, <2>3, CutGoesOn
  <2> QED
    BY <2>4 DEF first, key
<1>6. front \o enc \in Seq(Nat) /\ MetaFile(safe, name) = Append(front \o enc, LF) /\ named \in Seq(Nat)
  <2>1. front \o enc \in Seq(Nat) /\ named \in Seq(Nat)
    BY <1>2, <1>3, ConcatTyped
  <2>2. MetaFile(safe, name) = (front \o enc) \o <<LF>>
    BY DEF MetaFile, enc
  <2> QED
    BY <1>1, <2>1, <2>2, AppendIsConcat
<1>7. CutText(MetaFile(safe, name)) = Cut(out, <<>>)
  <2>1. CutText(MetaFile(safe, name)) = CutAt(Cut(<<<<SafeKey, v>>>>, named), LF)
    BY <1>1, <1>5, <1>6, CutFacts
  <2>2. CutAt(Cut(<<<<SafeKey, v>>>>, named), LF) = Cut(Append(<<<<SafeKey, v>>>>, named), <<>>)
    BY CutFields DEF CutAt
  <2>3. Append(<<<<SafeKey, v>>>>, named) = out
    <3>1. <<SafeKey, v>> \in Seq(Nat) /\ named \in Seq(Nat)
      BY <1>3, <1>6
    <3> HIDE DEF named
    <3> QED
      BY <3>1, PairAppends
  <2> QED
    BY <2>1, <2>2, <2>3
<1>8. Chomp(<<SafeKey, v>>) = <<SafeKey, v>>
  <2>1. Last(<<SafeKey, v>>) = v
    BY DEF Last
  <2> QED
    BY <1>1, <2>1 DEF Chomp
<1>9. Chomp(named) = named
  <2>1. Len(named) = Len(enc) + 1 /\ named[1] = NameKey /\ \A i \in 1..Len(enc) : named[i + 1] = enc[i]
    <3>1. Len(<<NameKey>>) = 1 /\ <<NameKey>>[1] = NameKey
      OBVIOUS
    <3> QED
      BY <1>2, <1>3, <3>1, ConcatProperties
  <2>2. Last(named) # CR
    <3>1. CASE Len(enc) = 0
      BY <1>1, <2>1, <3>1 DEF Last
    <3>2. CASE Len(enc) # 0
      <4>1. Len(enc) \in 1..Len(enc) /\ Last(named) = enc[Len(enc)]
        BY <1>2, <2>1, <3>2 DEF Last
      <4> QED
        BY <1>2, <4>1
    <3> QED
      BY <3>1, <3>2
  <2> QED
    BY <2>2 DEF Chomp
<1> HIDE DEF named
<1>10. [i \in 1..Len(out) |-> Chomp(out[i])] = out
  <2>1. Len(out) = 2 /\ out[1] = <<SafeKey, v>> /\ out[2] = named /\ out = [i \in 1..2 |-> out[i]]
    OBVIOUS
  <2>2. \A i \in 1..2 : Chomp(out[i]) = out[i]
    BY <1>8, <1>9, <2>1
  <2> QED
    BY <2>1, <2>2
<1> HIDE DEF out
<1>11. TextLines(MetaFile(safe, name)) = out
  BY <1>7, <1>10, CutFields DEF TextLines
<1> QED
  BY <1>1, <1>11 DEF out, named, enc

(* What `read_meta` makes of the two lines.                                    *)
LEMMA MetaRead ==
  ASSUME NEW safe \in BOOLEAN, NEW enc \in Seq(Nat), NEW v \in Nat, v = IF safe THEN TrueWord ELSE FalseWord
  PROVE  RowsMeta(<<<<SafeKey, v>>, <<NameKey>> \o enc>>) = Meta(safe, enc)
<1> DEFINE one == <<SafeKey, v>>
           two == <<NameKey>> \o enc
<1>1. SafeKey \in Nat /\ NameKey \in Nat /\ SafeKey # NameKey /\ TrueWord # FalseWord
  BY DEF SafeKey, NameKey, TrueWord, FalseWord
<1>2. one \in Seq(Nat) /\ one # <<>> /\ Head(one) = SafeKey /\ Tail(one) = <<v>>
  BY <1>1
<1>3. two \in Seq(Nat) /\ two # <<>> /\ Head(two) = NameKey /\ Tail(two) = enc
  <2>1. <<NameKey>> \in Seq(Nat) /\ Len(<<NameKey>>) = 1 /\ <<NameKey>>[1] = NameKey
    BY <1>1
  <2>2. two \in Seq(Nat) /\ Len(two) = Len(enc) + 1 /\ Len(enc) \in Nat /\ two[1] = NameKey
        /\ \A i \in 1..Len(enc) : two[i + 1] = enc[i]
    BY <2>1, ConcatProperties, LenProperties
  <2> HIDE DEF two
  <2>3. two # <<>> /\ Head(two) = NameKey
    BY <2>2
  <2>4. Tail(two) \in Seq(Nat) /\ Len(Tail(two)) = Len(enc) /\ \A i \in 1..Len(enc) : Tail(two)[i] = enc[i]
    BY <2>2, <2>3, HeadTailProperties
  <2>5. Tail(two) = enc
    BY <2>4, SeqEqual
  <2> QED
    BY <2>2, <2>3, <2>5
<1> HIDE DEF one, two
<1>4. (<<v>> = <<TrueWord>>) = safe
  BY <1>1
<1>5. <<one>> \in Seq(Seq(Nat)) /\ <<one>> = Append(<<>>, one) /\ <<one, two>> = Append(<<one>>, two)
      /\ <<>> \in Seq(Seq(Nat))
  BY <1>2
<1>6. RowsMeta(<<one>>) = ReadRow(NoMeta, one)
  BY <1>2, <1>5, MetaFacts
<1>7. ReadRow(NoMeta, one) = Meta(<<v>> = <<TrueWord>>, <<>>)
  <2>1. NoMeta.name = <<>>
    BY MetaFields DEF NoMeta
  <2>2. ReadRow(NoMeta, one) = Meta(Tail(one) = <<TrueWord>>, NoMeta.name)
    BY <1>2, Zenon DEF ReadRow
  <2> QED
    BY <1>2, <2>1, <2>2, Zenon
<1>8. Meta(<<v>> = <<TrueWord>>, <<>>) = Meta(safe, <<>>)
  BY <1>4, Zenon
<1>9. RowsMeta(<<one, two>>) = ReadRow(Meta(safe, <<>>), two)
  <2>1. RowsMeta(Append(<<one>>, two)) = ReadRow(RowsMeta(<<one>>), two)
    BY <1>3, <1>5, MetaFacts
  <2> QED
    BY <1>5, <1>6, <1>7, <1>8, <2>1, Zenon
<1>10. ReadRow(Meta(safe, <<>>), two) = Meta(safe, enc)
  <2>1. Meta(safe, <<>>).safe = safe
    BY MetaFields
  <2>2. ReadRow(Meta(safe, <<>>), two) = Meta(Meta(safe, <<>>).safe, Tail(two))
    BY <1>1, <1>3, Zenon DEF ReadRow
  <2> QED
    BY <1>3, <2>1, <2>2, Zenon
<1> QED
  BY <1>9, <1>10 DEF one, two

(* What is read back is the verdict and the name, its line ends as spaces.      *)
THEOREM MetadataIsReadBack ==
  ASSUME NEW safe \in BOOLEAN, NEW name \in Seq(Nat)
  PROVE  ReadMeta(MetaFile(safe, name)) = Meta(safe, EncodeMetaValue(name))
<1> DEFINE v == IF safe THEN TrueWord ELSE FalseWord
           enc == EncodeMetaValue(name)
<1>1. v \in Nat /\ TextLines(MetaFile(safe, name)) = <<<<SafeKey, v>>, <<NameKey>> \o enc>>
  BY MetaLines
<1>2. enc \in Seq(Nat)
  BY EncodedName DEF Lacking
<1> HIDE DEF enc
<1>3. RowsMeta(<<<<SafeKey, v>>, <<NameKey>> \o enc>>) = Meta(safe, enc)
  BY <1>1, <1>2, MetaRead
<1>4. ReadMeta(MetaFile(safe, name)) = RowsMeta(TextLines(MetaFile(safe, name)))
  BY DEF ReadMeta, RowsMeta
<1> QED
  BY <1>1, <1>3, <1>4 DEF enc

-----------------------------------------------------------------------------
(* A configuration's lines are joined one character after the other.             *)
Joints == [out : Seq(Nat), last : Nat]
Jointing == [x \in Joints \X Nat |-> JoinNext(x[1], x[2])]
Unjoined == Joining(<<>>, LF)

LEMMA JointFields == \A out, last : Joining(out, last).out = out /\ Joining(out, last).last = last
BY DEF Joining

(* All but the last of a sequence.                                            *)
LEMMA FrontFacts ==
  /\ \A s \in Seq(Nat) : Front(s) \in Seq(Nat)
  /\ \A s \in Seq(Nat), c \in Nat : Front(Append(s, c)) = s
<1>1. ASSUME NEW s \in Seq(Nat) PROVE Front(s) \in Seq(Nat)
  <2>1. Len(s) \in Nat /\ Len(s) - 1 \in Int /\ 1 \in Int /\ \A i \in 1..Len(s) - 1 : s[i] \in Nat
    BY LenProperties, ElementOfSeq
  <2>2. SubSeq(s, 1, Len(s) - 1) \in Seq(Nat)
    BY <2>1, SubSeqProperties
  <2> QED
    BY <2>2 DEF Front
<1>2. ASSUME NEW s \in Seq(Nat), NEW c \in Nat PROVE Front(Append(s, c)) = s
  <2> DEFINE t == Append(s, c)
  <2>1. /\ t \in Seq(Nat) /\ Len(t) = Len(s) + 1 /\ Len(s) \in Nat
        /\ \A i \in 1..Len(s) : t[i] = s[i]
    BY AppendProperties, LenProperties
  <2>2. Len(s) \in 0..Len(t) /\ Len(t) - 1 = Len(s)
    BY <2>1
  <2> HIDE DEF t
  <2>3. /\ SubSeq(t, 1, Len(s)) \in Seq(Nat) /\ Len(SubSeq(t, 1, Len(s))) = Len(s)
        /\ \A i \in 1..Len(s) : SubSeq(t, 1, Len(s))[i] = t[i]
    BY <2>1, <2>2, Beginnings
  <2>4. SubSeq(t, 1, Len(s)) = s
    BY <2>1, <2>3, SeqEqual
  <2> QED
    BY <2>2, <2>4 DEF Front, t
<1> QED
  BY <1>1, <1>2

LEMMA JointTypes == Unjoined \in Joints /\ \A s \in Joints, c \in Nat : JoinNext(s, c) \in Joints
<1>1. \A out \in Seq(Nat), last \in Nat : Joining(out, last) \in Joints
  BY DEF Joining, Joints
<1>2. LF \in Nat /\ <<>> \in Seq(Nat)
  BY EmptySeq DEF LF
<1>3. ASSUME NEW s \in Joints, NEW c \in Nat PROVE JoinNext(s, c) \in Joints
  <2>1. s.out \in Seq(Nat)
    BY DEF Joints
  <2>2. Front(s.out) \in Seq(Nat) /\ Append(s.out, c) \in Seq(Nat)
    BY <2>1, FrontFacts, Grows
  <2> QED
    BY <1>1, <2>2 DEF JoinNext
<1> QED
  BY <1>1, <1>2, <1>3 DEF Unjoined

(* Joining is a fold. *)
LEMMA JointFolds ==
  /\ Foldable(Nat, Joints, Jointing, Unjoined)
  /\ \A s \in Joints, c \in Nat : Jointing[<<s, c>>] = JoinNext(s, c)
BY JointTypes DEF Foldable, Jointing

LEMMA JointIsFold ==
  ASSUME NEW text \in Seq(Nat)
  PROVE  JoinState(text) = Folded(Nat, Joints, Jointing, Unjoined, text)
<1> DEFINE P(it) == it = [s \in SUBSET DOMAIN text |->
                            IF s = {} THEN Unjoined
                            ELSE JoinNext(it[s \ {Max(s)}], text[Max(s)])]
           it == CHOOSE f : P(f)
<1>1. /\ Len(text) \in Nat /\ DOMAIN text = 1..Len(text)
      /\ \A i \in 1..Len(text) : text[i] \in Nat
  BY LenProperties, ElementOfSeq
<1>2. P(it)
  <2>1. PICK f : Stays(Nat, Joints, Jointing, Unjoined, text, f)
    BY JointFolds, FoldStays
  <2>2. P(f)
    BY <1>1, <2>1, JointFolds DEF Stays, Unfolds
  <2> QED
    BY <2>2
<1>3. JoinState(text) = it[DOMAIN text]
  BY DEF JoinState, Unjoined, FoldLeft, MapThenFoldSet
<1>4. ASSUME NEW k \in 1..Len(text)
      PROVE  it[1..k] = JoinNext(it[1..k - 1], text[k])
  <2>1. /\ 1..k \in SUBSET DOMAIN text /\ 1..k # {} /\ Max(1..k) = k
        /\ (1..k) \ {k} = 1..k - 1
    BY <1>1, Downward
  <2> QED
    BY <1>2, <2>1
<1>5. it[{}] = Unjoined
  BY <1>2
<1> HIDE DEF it
<1>6. GoesAlong(Nat, Joints, Jointing, Unjoined, text, it)
  BY <1>1, <1>4, <1>5, JointFolds DEF GoesAlong
<1> QED
  BY <1>1, <1>3, <1>6, FoldedAlong

(* Joining lines, one character at a time.                                   *)
LEMMA JointFacts ==
  /\ JoinState(<<>>) = Unjoined
  /\ \A s \in Seq(Nat) : JoinState(s) \in Joints
  /\ \A s \in Seq(Nat), c \in Nat : JoinState(Append(s, c)) = JoinNext(JoinState(s), c)
<1> DEFINE F(s) == Folded(Nat, Joints, Jointing, Unjoined, s)
<1>1. /\ F(<<>>) = Unjoined
      /\ \A s \in Seq(Nat) : F(s) \in Joints
      /\ \A s \in Seq(Nat), c \in Nat : F(Append(s, c)) = Jointing[<<F(s), c>>]
  BY JointFolds, FoldedFacts
<1>2. <<>> \in Seq(Nat) /\ \A s \in Seq(Nat), c \in Nat : Append(s, c) \in Seq(Nat)
  BY EmptySeq, AppendProperties
<1>3. \A s \in Seq(Nat) : JoinState(s) = F(s)
  BY JointIsFold
<1> HIDE DEF F
<1>4. JoinState(<<>>) = Unjoined /\ \A s \in Seq(Nat) : JoinState(s) \in Joints
  BY <1>1, <1>2, <1>3
<1>5. ASSUME NEW s \in Seq(Nat), NEW c \in Nat PROVE JoinState(Append(s, c)) = JoinNext(JoinState(s), c)
  <2>1. JoinState(s) = F(s) /\ JoinState(Append(s, c)) = F(Append(s, c)) /\ F(s) \in Joints
    BY <1>1, <1>2, <1>3
  <2> QED
    BY <1>1, <2>1, JointFolds
<1> QED
  BY <1>4, <1>5

(* The last character of a text decides whether the next line end joins; if it    *)
(* is a backslash it is the last one kept, too.                               *)
LEMMA LastJoint ==
  ASSUME NEW s \in Seq(Nat)
  PROVE  /\ JoinState(s) = Joining(JoinState(s).out, JoinState(s).last)
         /\ JoinState(s).last = (IF s = <<>> THEN LF ELSE Last(s))
         /\ JoinState(s).last = Backslash =>
              \E o \in Seq(Nat) : JoinState(s).out = Append(o, Backslash)
<1> DEFINE Good(u) ==
             /\ JoinState(u) = Joining(JoinState(u).out, JoinState(u).last)
             /\ JoinState(u).last = (IF u = <<>> THEN LF ELSE Last(u))
             /\ JoinState(u).last = Backslash =>
                  \E o \in Seq(Nat) : JoinState(u).out = Append(o, Backslash)
           T == {u \in Seq(Nat) : Good(u)}
<1>1. <<>> \in T
  <2>1. JoinState(<<>>) = Joining(<<>>, LF) /\ LF # Backslash
    BY JointFacts DEF Unjoined, LF, Backslash
  <2> QED
    BY <2>1, JointFields, EmptySeq
<1>2. ASSUME NEW u \in Seq(Nat), NEW c \in Nat, u \in T PROVE Append(u, c) \in T
  <2> DEFINE x == JoinState(u)
             y == JoinState(Append(u, c))
  <2>1. y = JoinNext(x, c) /\ x.out \in Seq(Nat)
    BY JointFacts DEF Joints
  <2>2. Append(u, c) # <<>> /\ Last(Append(u, c)) = c /\ Append(u, c) \in Seq(Nat)
    <3>1. Len(Append(u, c)) = Len(u) + 1 /\ Len(u) \in Nat /\ Append(u, c)[Len(u) + 1] = c
          /\ Append(u, c) \in Seq(Nat) /\ Append(u, c) # <<>>
      BY AppendProperties, LenProperties
    <3> QED
      BY <3>1 DEF Last
  <2> HIDE DEF x, y
  <2>3. y.last = c /\ y = Joining(y.out, y.last)
    BY <2>1, JointFields DEF JoinNext
  <2>4. c = Backslash => y.out = Append(x.out, Backslash)
    <3>1. LF # Backslash
      BY DEF LF, Backslash
    <3> QED
      BY <2>1, <3>1, JointFields DEF JoinNext
  <2>5. Good(Append(u, c))
    BY <2>1, <2>2, <2>3, <2>4 DEF y
  <2> QED
    BY <2>2, <2>5
<1>3. Seq(Nat) \subseteq T
  <2> HIDE DEF T
  <2> QED
    BY <1>1, <1>2, SequenceInduction
<1> QED
  BY <1>3

(* Behind anything but a backslash, joining starts afresh.                      *)
LEMMA JoinsAfresh ==
  ASSUME NEW p \in Seq(Nat), NEW o \in Seq(Nat), NEW l, l # Backslash, JoinState(p) = Joining(o, l),
         NEW t \in Seq(Nat)
  PROVE  JoinState(p \o t) = Joining(o \o JoinState(t).out, IF t = <<>> THEN l ELSE JoinState(t).last)
<1> DEFINE last(u) == IF u = <<>> THEN l ELSE JoinState(u).last
           T == {u \in Seq(Nat) : JoinState(p \o u) = Joining(o \o JoinState(u).out, last(u))}
<1>1. <<>> \in T
  <2>1. JoinState(<<>>) = Joining(<<>>, LF) /\ p \o <<>> = p /\ o \o <<>> = o /\ <<>> \in Seq(Nat)
    BY JointFacts, ConcatEmptySeq, EmptySeq DEF Unjoined
  <2>2. JoinState(<<>>).out = <<>> /\ last(<<>>) = l
    BY <2>1, JointFields
  <2> HIDE DEF last
  <2> QED
    BY <2>1, <2>2
<1>2. ASSUME NEW u \in Seq(Nat), NEW c \in Nat, u \in T PROVE Append(u, c) \in T
  <2> DEFINE x == JoinState(u)
             z == last(u)
             y == Joining(o \o x.out, z)
  <2>1. z = Backslash <=> x.last = Backslash
    <3>1. LF # Backslash
      BY DEF LF, Backslash
    <3>2. CASE u = <<>>
      <4>1. x.last = LF
        BY <3>2, LastJoint
      <4> QED
        BY <3>1, <3>2, <4>1
    <3> QED
      BY <3>2
  <2>2. last(Append(u, c)) = JoinState(Append(u, c)).last
    BY AppendProperties
  <2>3. /\ JoinState(p \o u) = y /\ x.out \in Seq(Nat) /\ Append(u, c) \in Seq(Nat)
        /\ JoinState(Append(u, c)) = JoinNext(x, c)
    BY <1>2, JointFacts, Grows DEF Joints
  <2> HIDE DEF z, last
  <2>4. x.last = Backslash => \E r \in Seq(Nat) : x.out = Append(r, Backslash)
    BY LastJoint
  <2> HIDE DEF x
  <2>5. JoinState(p \o Append(u, c)) = JoinNext(y, c)
    <3>1. p \o u \in Seq(Nat) /\ p \o Append(u, c) = Append(p \o u, c)
      BY GrowsAfter
    <3> QED
      BY <2>3, <3>1, JointFacts
  <2>6. o \o x.out \in Seq(Nat) /\ Append(o \o x.out, c) = o \o Append(x.out, c)
    BY <2>3, GrowsAfter
  <2>7. x.last = Backslash => Front(o \o x.out) = o \o Front(x.out)
    <3> SUFFICES ASSUME x.last = Backslash PROVE Front(o \o x.out) = o \o Front(x.out)
      OBVIOUS
    <3>1. PICK r \in Seq(Nat) : x.out = Append(r, Backslash)
      BY <2>4
    <3>2. Backslash \in Nat
      BY DEF Backslash
    <3>3. o \o r \in Seq(Nat) /\ o \o x.out = Append(o \o r, Backslash)
      <4>1. o \o r \in Seq(Nat) /\ o \o Append(r, Backslash) = Append(o \o r, Backslash)
        BY <3>2, GrowsAfter
      <4> QED
        BY <3>1, <4>1
    <3>4. Front(o \o x.out) = o \o r
      BY <3>2, <3>3, FrontFacts
    <3>5. Front(x.out) = r
      BY <3>1, <3>2, FrontFacts
    <3> QED
      BY <3>4, <3>5
  <2>8. y.out = o \o x.out /\ y.last = z
    BY JointFields
  <2> HIDE DEF y
  <2>9. JoinNext(y, c) = Joining(o \o JoinNext(x, c).out, JoinNext(x, c).last)
    <3>1. CASE c = LF /\ x.last = Backslash
      BY <2>1, <2>7, <2>8, <3>1, JointFields DEF JoinNext
    <3>2. CASE ~(c = LF /\ x.last = Backslash)
      BY <2>1, <2>6, <2>8, <3>2, JointFields DEF JoinNext
    <3> QED
      BY <3>1, <3>2
  <2> QED
    BY <2>3, <2>5, <2>9, <2>2
<1>3. Seq(Nat) \subseteq T
  <2> HIDE DEF T
  <2> QED
    BY <1>1, <1>2, SequenceInduction
<1> QED
  BY <1>3

(* Lines are joined each for itself.                                          *)
LEMMA JoinedByLine ==
  ASSUME NEW a \in Seq(Nat), NEW b \in Seq(Nat), ~EndsOpen(a)
  PROVE  /\ Joined(a) \in Seq(Nat) /\ Joined(b) \in Seq(Nat)
         /\ Joined((a \o <<LF>>) \o b) = Append(Joined(a), LF) \o Joined(b)
<1>1. LF \in Nat /\ LF # Backslash
  BY DEF LF, Backslash
<1>2. JoinState(a).out \in Seq(Nat) /\ JoinState(b).out \in Seq(Nat)
  BY JointFacts DEF Joints
<1>3. JoinState(a).last # Backslash
  BY <1>1, LastJoint DEF EndsOpen
<1>4. a \o <<LF>> = Append(a, LF) /\ Append(a, LF) \in Seq(Nat)
  BY <1>1, Grows
<1>5. JoinState(Append(a, LF)) = JoinNext(JoinState(a), LF)
  BY <1>1, JointFacts
<1>6. JoinNext(JoinState(a), LF) = Joining(Append(JoinState(a).out, LF), LF)
  BY <1>3 DEF JoinNext
<1>7. Append(JoinState(a).out, LF) \in Seq(Nat)
  BY <1>1, <1>2, Grows
<1>8. JoinState(Append(a, LF) \o b) = Joining(Append(JoinState(a).out, LF) \o JoinState(b).out, JoinState(b).last)
  <2>1. JoinState(Append(a, LF)) = Joining(Append(JoinState(a).out, LF), LF)
    BY <1>5, <1>6
  <2> DEFINE last == IF b = <<>> THEN LF ELSE JoinState(b).last
  <2>2. last = JoinState(b).last
    BY LastJoint
  <2>3. JoinState(Append(a, LF) \o b) = Joining(Append(JoinState(a).out, LF) \o JoinState(b).out, last)
    <3> DEFINE p == Append(a, LF)
               o == Append(JoinState(a).out, LF)
    <3>1. p \in Seq(Nat) /\ o \in Seq(Nat) /\ JoinState(p) = Joining(o, LF) /\ LF # Backslash
      BY <1>1, <1>4, <1>7, <2>1
    <3> HIDE DEF p, o
    <3>2. JoinState(p \o b) = Joining(o \o JoinState(b).out, IF b = <<>> THEN LF ELSE JoinState(b).last)
      BY <3>1, JoinsAfresh
    <3> QED
      BY <3>2 DEF p, o
  <2> HIDE DEF last
  <2> QED
    BY <2>2, <2>3
<1>9. Joined((a \o <<LF>>) \o b) = Append(JoinState(a).out, LF) \o JoinState(b).out
  <2>1. Joined(Append(a, LF) \o b) = Append(JoinState(a).out, LF) \o JoinState(b).out
    BY <1>8, JointFields DEF Joined
  <2> QED
    BY <1>4, <2>1
<1> QED
  BY <1>2, <1>9 DEF Joined

-----------------------------------------------------------------------------
(* A list of lines that grows at its end.                                    *)
LEMMA LinesGrow == \A s, t \in Seq(Seq(Nat)), e \in Seq(Nat) : s \o Append(t, e) = Append(s \o t, e)
<1> SUFFICES ASSUME NEW s \in Seq(Seq(Nat)), NEW t \in Seq(Seq(Nat)), NEW e \in Seq(Nat)
             PROVE  s \o Append(t, e) = Append(s \o t, e)
  OBVIOUS
<1> QED
  BY Concats

(* Behind a line end, cutting starts afresh.                                   *)
LEMMA CutsAfresh ==
  ASSUME NEW p \in Seq(Nat), NEW o \in Seq(Seq(Nat)), CutText(p) = Cut(o, <<>>), NEW t \in Seq(Nat)
  PROVE  CutText(p \o t) = Cut(o \o CutText(t).out, CutText(t).rest)
<1> DEFINE T == {u \in Seq(Nat) : CutText(p \o u) = Cut(o \o CutText(u).out, CutText(u).rest)}
<1>1. <<>> \in T
  <2>1. CutText(<<>>) = Cut(<<>>, <<>>) /\ p \o <<>> = p /\ o \o <<>> = o /\ <<>> \in Seq(Nat)
    BY CutFacts, ConcatEmptySeq, EmptySeq
  <2> QED
    BY <2>1, CutFields
<1>2. ASSUME NEW u \in Seq(Nat), NEW c \in Nat, u \in T PROVE Append(u, c) \in T
  <2> DEFINE x == CutText(u)
             y == Cut(o \o x.out, x.rest)
  <2>1. /\ CutText(p \o u) = y /\ x.out \in Seq(Seq(Nat)) /\ x.rest \in Seq(Nat)
        /\ Append(u, c) \in Seq(Nat) /\ CutText(Append(u, c)) = CutAt(x, c)
    BY <1>2, CutFacts, Grows DEF Cuts
  <2> HIDE DEF x
  <2>2. CutText(p \o Append(u, c)) = CutAt(y, c)
    <3>1. p \o u \in Seq(Nat) /\ p \o Append(u, c) = Append(p \o u, c)
      BY GrowsAfter
    <3> QED
      BY <2>1, <3>1, CutFacts
  <2>3. o \o Append(x.out, x.rest) = Append(o \o x.out, x.rest)
    BY <2>1, LinesGrow
  <2>4. y.out = o \o x.out /\ y.rest = x.rest
    BY CutFields
  <2> HIDE DEF y
  <2>5. CutAt(y, c) = Cut(o \o CutAt(x, c).out, CutAt(x, c).rest)
    BY <2>3, <2>4, CutFields DEF CutAt
  <2> QED
    BY <2>1, <2>2, <2>5
<1>3. Seq(Nat) \subseteq T
  <2> HIDE DEF T
  <2> QED
    BY <1>1, <1>2, SequenceInduction
<1> QED
  BY <1>3

(* The lines of two texts with a line end between are those of the one and of the *)
(* other.                                                                     *)
LEMMA LinesOfBoth ==
  ASSUME NEW a \in Seq(Nat), NEW b \in Seq(Nat)
  PROVE  /\ Lines(a) \in Seq(Seq(Nat)) /\ Lines(b) \in Seq(Seq(Nat))
         /\ Lines(Append(a, LF) \o b) = Lines(a) \o Lines(b)
<1>1. LF \in Nat
  BY DEF LF
<1>2. /\ CutText(a).out \in Seq(Seq(Nat)) /\ CutText(a).rest \in Seq(Nat)
      /\ CutText(b).out \in Seq(Seq(Nat)) /\ CutText(b).rest \in Seq(Nat)
  BY CutFacts DEF Cuts
<1>3. Lines(a) \in Seq(Seq(Nat)) /\ Lines(b) \in Seq(Seq(Nat))
  BY <1>2, AppendProperties DEF Lines
<1>4. CutText(Append(a, LF)) = Cut(Lines(a), <<>>) /\ Append(a, LF) \in Seq(Nat)
  BY <1>1, CutFacts, Grows DEF CutAt, Lines
<1>5. CutText(Append(a, LF) \o b) = Cut(Lines(a) \o CutText(b).out, CutText(b).rest)
  BY <1>3, <1>4, CutsAfresh
<1>6. Lines(Append(a, LF) \o b) = Append(Lines(a) \o CutText(b).out, CutText(b).rest)
  BY <1>5, CutFields DEF Lines
<1>7. Lines(a) \o Append(CutText(b).out, CutText(b).rest) = Append(Lines(a) \o CutText(b).out, CutText(b).rest)
  BY <1>2, <1>3, LinesGrow
<1> QED
  BY <1>3, <1>6, <1>7 DEF Lines

(* What two sequences hold, one after the other.                             *)
LEMMA RangeOfBoth ==
  ASSUME NEW A, NEW s \in Seq(A), NEW t \in Seq(A)
  PROVE  Range(s \o t) = Range(s) \cup Range(t)
<1>1. /\ Len(s) \in Nat /\ Len(t) \in Nat /\ DOMAIN s = 1..Len(s) /\ DOMAIN t = 1..Len(t)
      /\ Len(s \o t) = Len(s) + Len(t) /\ DOMAIN (s \o t) = 1..(Len(s) + Len(t))
      /\ (\A i \in 1..Len(s) : (s \o t)[i] = s[i])
      /\ (\A i \in 1..Len(t) : (s \o t)[Len(s) + i] = t[i])
  BY ConcatProperties, LenProperties
<1> DEFINE u == s \o t
<1> HIDE DEF u
<1>2. \A i \in DOMAIN u : i \in 1..Len(s) \/ \E k \in 1..Len(t) : i = Len(s) + k
  <2> SUFFICES ASSUME NEW i \in 1..(Len(s) + Len(t)), i \notin 1..Len(s)
               PROVE  \E k \in 1..Len(t) : i = Len(s) + k
    BY <1>1 DEF u
  <2>1. i - Len(s) \in 1..Len(t) /\ i = Len(s) + (i - Len(s))
    BY <1>1
  <2> QED
    BY <2>1
<1>3. (\A i \in 1..Len(s) : i \in DOMAIN u) /\ (\A i \in 1..Len(t) : Len(s) + i \in DOMAIN u)
  BY <1>1 DEF u
<1>4. Range(u) \subseteq Range(s) \cup Range(t)
  BY <1>1, <1>2 DEF Range, u
<1>5. Range(s) \subseteq Range(u) /\ Range(t) \subseteq Range(u)
  BY <1>1, <1>3 DEF Range, u
<1> QED
  BY <1>4, <1>5 DEF u

(* All but the last line.                                                    *)
LEMMA FrontOfLines ==
  ASSUME NEW s \in Seq(Seq(Nat)), NEW e \in Seq(Nat)
  PROVE  Front(Append(s, e)) = s /\ Last(Append(s, e)) = e
<1> DEFINE t == Append(s, e)
<1>1. /\ t \in Seq(Seq(Nat)) /\ Len(t) = Len(s) + 1 /\ Len(s) \in Nat
      /\ (\A i \in 1..Len(s) : t[i] = s[i]) /\ t[Len(s) + 1] = e
  BY AppendProperties, LenProperties
<1>2. Len(s) \in 0..Len(t) /\ Len(t) - 1 = Len(s)
  BY <1>1
<1> HIDE DEF t
<1>3. /\ SubSeq(t, 1, Len(s)) \in Seq(Seq(Nat)) /\ Len(SubSeq(t, 1, Len(s))) = Len(s)
      /\ \A i \in 1..Len(s) : SubSeq(t, 1, Len(s))[i] = t[i]
  BY <1>1, <1>2, Beginnings
<1>4. SubSeq(t, 1, Len(s)) = s
  BY <1>1, <1>3, SeqEqual
<1> QED
  BY <1>1, <1>2, <1>4 DEF Front, Last, t

(* Lines whose first one continues a text.                                     *)
Continuing(r, lines) == [lines EXCEPT ![1] = r \o @]

LEMMA ContinuingFacts ==
  ASSUME NEW r \in Seq(Nat), NEW lines \in Seq(Seq(Nat)), NEW e \in Seq(Nat)
  PROVE  /\ Continuing(r, lines) \in Seq(Seq(Nat))
         /\ Continuing(r, Append(<<>>, e)) = Append(<<>>, r \o e)
         /\ lines # <<>> => Continuing(r, Append(lines, e)) = Append(Continuing(r, lines), e)
<1>1. Len(lines) \in Nat /\ DOMAIN lines = 1..Len(lines) /\ \A i \in 1..Len(lines) : lines[i] \in Seq(Nat)
  BY LenProperties, ElementOfSeq
<1>2. \A t \in Seq(Nat) : r \o t \in Seq(Nat)
  BY ConcatTyped
<1> DEFINE c == Continuing(r, lines)
<1>3. /\ c = [i \in 1..Len(lines) |-> IF i = 1 THEN r \o lines[1] ELSE lines[i]]
      /\ c \in Seq(Seq(Nat)) /\ Len(c) = Len(lines)
  <2>1. c = [i \in 1..Len(lines) |-> IF i = 1 THEN r \o lines[1] ELSE lines[i]]
    BY <1>1 DEF Continuing
  <2>2. \A i \in 1..Len(lines) : (IF i = 1 THEN r \o lines[1] ELSE lines[i]) \in Seq(Nat)
    BY <1>1, <1>2
  <2> HIDE DEF c
  <2>3. c \in [1..Len(lines) -> Seq(Nat)]
    BY <2>1, <2>2
  <2> QED
    BY <1>1, <2>1, <2>3, LenProperties
<1>4. Continuing(r, Append(<<>>, e)) = Append(<<>>, r \o e)
  <2>1. <<>> \in Seq(Seq(Nat)) /\ Len(<<>>) = 0
    BY EmptySeq
  <2>2. \A t \in Seq(Nat) : /\ Append(<<>>, t) \in Seq(Seq(Nat)) /\ Len(Append(<<>>, t)) = 1
                            /\ Append(<<>>, t)[1] = t
    BY <2>1, AppendProperties
  <2> DEFINE u == Append(<<>>, e)
             v == Append(<<>>, r \o e)
             w == Continuing(r, u)
  <2>3. u \in Seq(Seq(Nat)) /\ Len(u) = 1 /\ u[1] = e /\ v \in Seq(Seq(Nat)) /\ Len(v) = 1 /\ v[1] = r \o e
    BY <1>2, <2>2
  <2> HIDE DEF u, v
  <2>4. DOMAIN u = 1..1 /\ DOMAIN v = 1..1
    BY <2>3, LenProperties
  <2>5. w = [i \in 1..1 |-> IF i = 1 THEN r \o u[1] ELSE u[i]]
    BY <2>4 DEF Continuing
  <2> HIDE DEF w
  <2>6. w \in [1..1 -> Seq(Nat)]
    BY <1>2, <2>3, <2>5
  <2>7. w \in Seq(Seq(Nat)) /\ Len(w) = 1 /\ w[1] = v[1]
    BY <2>3, <2>5, <2>6, LenProperties
  <2>8. Len(w) = Len(v) /\ \A i \in 1..Len(w) : w[i] = v[i]
    <3>1. \A i \in 1..1 : i = 1
      OBVIOUS
    <3> QED
      BY <2>3, <2>7, <3>1
  <2>9. w = v
    BY <2>3, <2>7, <2>8, SeqEqual
  <2> QED
    BY <2>9 DEF u, v, w
<1>5. ASSUME lines # <<>> PROVE Continuing(r, Append(lines, e)) = Append(c, e)
  <2> HIDE DEF c
  <2> DEFINE u == Append(lines, e)
             v == Append(c, e)
             w == Continuing(r, u)
  <2>10. Len(lines) \in Nat
    BY <1>1
  <2>1. Len(lines) >= 1
    BY <1>1, <1>5, EmptySeq
  <2>2. /\ u \in Seq(Seq(Nat)) /\ Len(u) = Len(lines) + 1 /\ u[Len(lines) + 1] = e
        /\ \A i \in 1..Len(lines) : u[i] = lines[i]
    BY AppendProperties
  <2>3. /\ v \in Seq(Seq(Nat)) /\ Len(v) = Len(lines) + 1 /\ v[Len(lines) + 1] = e
        /\ \A i \in 1..Len(lines) : v[i] = c[i]
    BY <1>3, AppendProperties
  <2> HIDE DEF u, v
  <2>4. w = [i \in 1..(Len(lines) + 1) |-> IF i = 1 THEN r \o u[1] ELSE u[i]]
    <3>1. DOMAIN u = 1..(Len(lines) + 1)
      BY <2>2, LenProperties
    <3> QED
      BY <3>1 DEF Continuing
  <2> HIDE DEF w
  <2>5. \A i \in 1..(Len(lines) + 1) : w[i] = v[i]
    <3> SUFFICES ASSUME NEW i \in 1..(Len(lines) + 1) PROVE w[i] = v[i]
      OBVIOUS
    <3>1. CASE i \in 1..Len(lines)
      BY <1>1, <1>3, <2>1, <2>2, <2>3, <2>4, <3>1
    <3>2. CASE i = Len(lines) + 1
      BY <1>1, <2>1, <2>2, <2>3, <2>4, <3>2
    <3>3. \A n \in Nat : \A j \in 1..(n + 1) : j \in 1..n \/ j = n + 1
      OBVIOUS
    <3>4. i \in 1..Len(lines) \/ i = Len(lines) + 1
      BY <2>10, <3>3
    <3> QED
      BY <3>1, <3>2, <3>4
  <2>6. w \in [1..(Len(lines) + 1) -> Seq(Nat)]
    <3>1. \A i \in 1..(Len(lines) + 1) : v[i] \in Seq(Nat)
      BY <2>3, ElementOfSeq
    <3> QED
      BY <2>4, <2>5, <3>1
  <2>7. w \in Seq(Seq(Nat)) /\ Len(w) = Len(lines) + 1
    <3>1. \A n \in Nat : \A f \in [1..n -> Seq(Nat)] : f \in Seq(Seq(Nat)) /\ Len(f) = n
      BY LenProperties, SeqDef
    <3>2. Len(lines) + 1 \in Nat
      BY <2>10
    <3> QED
      BY <2>6, <3>1, <3>2
  <2>8. w = v
    BY <2>3, <2>5, <2>7, SeqEqual
  <2> QED
    BY <2>8 DEF u, v, w
<1> QED
  BY <1>3, <1>4, <1>5

LEMMA LinesNotEmpty == \A s \in Seq(Seq(Nat)), e \in Seq(Nat) : Append(s, e) # <<>>
<1> SUFFICES ASSUME NEW s \in Seq(Seq(Nat)), NEW e \in Seq(Nat)
             PROVE  Append(s, e) # <<>>
  OBVIOUS
<1> QED
  BY AppendProperties

(* The lines of two texts without a line end between: the first line of the other  *)
(* continues the last of the one.                                             *)
LEMMA LinesRunOn ==
  ASSUME NEW x \in Seq(Nat), NEW t \in Seq(Nat)
  PROVE  Lines(x \o t) = CutText(x).out \o Continuing(CutText(x).rest, Lines(t))
<1> DEFINE o == CutText(x).out
           r == CutText(x).rest
<1>1. o \in Seq(Seq(Nat)) /\ r \in Seq(Nat) /\ CutText(x) = Cut(o, r)
  <2>1. CutText(x) \in Cuts
    BY CutFacts
  <2> QED
    BY <2>1 DEF Cuts, Cut
<1> HIDE DEF o, r
<1> DEFINE Runs(u) == LET p == CutText(u).out
                          q == CutText(u).rest
                      IN CutText(x \o u) = IF p = <<>> THEN Cut(o, r \o q) ELSE Cut(o \o Continuing(r, p), q)
           T == {u \in Seq(Nat) : Runs(u)}
<1>2. <<>> \in T
  <2>1. /\ CutText(<<>>).out = <<>> /\ CutText(<<>>).rest = <<>>
        /\ x \o <<>> = x /\ r \o <<>> = r /\ <<>> \in Seq(Nat)
    BY <1>1, CutFacts, CutFields, ConcatEmptySeq, EmptySeq
  <2> QED
    BY <1>1, <2>1
<1>3. ASSUME NEW u \in Seq(Nat), NEW c \in Nat, u \in T PROVE Append(u, c) \in T
  <2> DEFINE p == CutText(u).out
             q == CutText(u).rest
             y == CutText(x \o u)
             z == CutText(Append(u, c))
  <2>1. /\ p \in Seq(Seq(Nat)) /\ q \in Seq(Nat) /\ Append(u, c) \in Seq(Nat)
        /\ z = CutAt(CutText(u), c)
    BY CutFacts, Grows DEF Cuts
  <2>2. CutText(x \o Append(u, c)) = CutAt(y, c)
    <3>1. x \o u \in Seq(Nat) /\ x \o Append(u, c) = Append(x \o u, c)
      BY GrowsAfter
    <3> QED
      BY <3>1, CutFacts
  <2>3. y = IF p = <<>> THEN Cut(o, r \o q) ELSE Cut(o \o Continuing(r, p), q)
    BY <1>3
  <2>4. /\ c = LF => z.out = Append(p, q) /\ z.rest = <<>>
        /\ c # LF => z.out = p /\ z.rest = Append(q, c)
    BY <2>1, CutFields DEF CutAt
  <2> HIDE DEF p, q, y, z
  <2>5. /\ Append(p, q) # <<>> /\ r \o q \in Seq(Nat) /\ r \o <<>> = r
        /\ r \o Append(q, c) = Append(r \o q, c)
    <3>1. Append(p, q) # <<>>
      BY <2>1, LinesNotEmpty
    <3>2. r \o <<>> = r
      BY <1>1, ConcatEmptySeq
    <3> QED
      BY <1>1, <2>1, <3>1, <3>2, GrowsAfter
  <2>6. CutAt(y, c) = IF z.out = <<>> THEN Cut(o, r \o z.rest) ELSE Cut(o \o Continuing(r, z.out), z.rest)
    <3>1. CASE c # LF /\ p = <<>>
      <4>1. y = Cut(o, r \o q)
        BY <2>3, <3>1
      <4>2. CutAt(y, c) = Cut(o, Append(r \o q, c))
        BY <3>1, <4>1, CutsAt
      <4>3. z.out = <<>> /\ z.rest = Append(q, c)
        BY <2>4, <3>1
      <4> QED
        BY <2>5, <4>2, <4>3
    <3>2. CASE c # LF /\ p # <<>>
      <4>1. y = Cut(o \o Continuing(r, p), q)
        BY <2>3, <3>2
      <4>2. CutAt(y, c) = Cut(o \o Continuing(r, p), Append(q, c))
        BY <3>2, <4>1, CutsAt
      <4> QED
        BY <2>4, <3>2, <4>2
    <3>3. CASE c = LF /\ p = <<>>
      <4>1. CutAt(y, c) = Cut(Append(o, r \o q), <<>>)
        BY <2>3, <3>3, CutsAt
      <4>2. Continuing(r, Append(p, q)) = Append(<<>>, r \o q)
        BY <1>1, <2>1, <3>3, ContinuingFacts
      <4>3. o \o Append(<<>>, r \o q) = Append(o, r \o q)
        <5>1. <<>> \in Seq(Seq(Nat)) /\ o \o <<>> = o
          BY <1>1, EmptySeq, ConcatEmptySeq
        <5>2. o \o Append(<<>>, r \o q) = Append(o \o <<>>, r \o q)
          BY <1>1, <2>5, <5>1, LinesGrow
        <5> QED
          BY <5>1, <5>2
      <4> QED
        BY <2>4, <2>5, <3>3, <4>1, <4>2, <4>3
    <3>4. CASE c = LF /\ p # <<>>
      <4>1. CutAt(y, c) = Cut(Append(o \o Continuing(r, p), q), <<>>)
        BY <2>3, <3>4, CutsAt
      <4>2. Continuing(r, Append(p, q)) = Append(Continuing(r, p), q) /\ Continuing(r, p) \in Seq(Seq(Nat))
        BY <1>1, <2>1, <3>4, ContinuingFacts
      <4>3. o \o Append(Continuing(r, p), q) = Append(o \o Continuing(r, p), q)
        BY <1>1, <2>1, <4>2, LinesGrow
      <4> QED
        BY <2>4, <2>5, <3>4, <4>1, <4>2, <4>3
    <3> QED
      BY <3>1, <3>2, <3>3, <3>4
  <2> QED
    BY <2>1, <2>2, <2>6 DEF z
<1>4. Seq(Nat) \subseteq T
  <2> HIDE DEF T
  <2> QED
    BY <1>2, <1>3, SequenceInduction
<1> DEFINE p == CutText(t).out
           q == CutText(t).rest
<1>5. CutText(x \o t) = IF p = <<>> THEN Cut(o, r \o q) ELSE Cut(o \o Continuing(r, p), q)
  BY <1>4
<1>6. p \in Seq(Seq(Nat)) /\ q \in Seq(Nat) /\ r \o q \in Seq(Nat) /\ Lines(t) = Append(p, q)
  BY <1>1, CutFacts, ConcatTyped DEF Cuts, Lines
<1> HIDE DEF p, q
<1>7. Lines(x \o t) = o \o Continuing(r, Append(p, q))
  <2>1. CASE p = <<>>
    <3>1. Lines(x \o t) = Append(o, r \o q)
      BY <1>5, <2>1, CutFields DEF Lines
    <3>2. Continuing(r, Append(p, q)) = Append(<<>>, r \o q)
      BY <1>1, <1>6, <2>1, ContinuingFacts
    <3>3. <<>> \in Seq(Seq(Nat)) /\ o \o <<>> = o
      BY <1>1, EmptySeq, ConcatEmptySeq
    <3>4. o \o Append(<<>>, r \o q) = Append(o \o <<>>, r \o q)
      BY <1>1, <1>6, <3>3, LinesGrow
    <3> QED
      BY <3>1, <3>2, <3>3, <3>4
  <2>2. CASE p # <<>>
    <3>1. Lines(x \o t) = Append(o \o Continuing(r, p), q)
      BY <1>5, <2>2, CutFields DEF Lines
    <3>2. Continuing(r, Append(p, q)) = Append(Continuing(r, p), q) /\ Continuing(r, p) \in Seq(Seq(Nat))
      BY <1>1, <1>6, <2>2, ContinuingFacts
    <3>3. o \o Append(Continuing(r, p), q) = Append(o \o Continuing(r, p), q)
      BY <1>1, <1>6, <3>2, LinesGrow
    <3> QED
      BY <3>1, <3>2, <3>3
  <2> QED
    BY <2>1, <2>2
<1> QED
  BY <1>6, <1>7 DEF o, r

(* Behind a backslash, a line end joins.                                       *)
LEMMA JoinedRunsOn ==
  ASSUME NEW a \in Seq(Nat), NEW b \in Seq(Nat), EndsOpen(a)
  PROVE  \E x \in Seq(Nat) : /\ Joined(a) = Append(x, Backslash)
                             /\ Joined((a \o <<LF>>) \o b) = x \o Joined(b)
<1>1. LF \in Nat /\ Backslash \in Nat /\ LF # Backslash
  BY DEF LF, Backslash
<1>2. JoinState(a).last = Backslash /\ JoinState(a) = Joining(JoinState(a).out, Backslash)
  BY LastJoint DEF EndsOpen
<1>3. PICK x \in Seq(Nat) : JoinState(a).out = Append(x, Backslash)
  BY <1>2, LastJoint
<1>4. a \o <<LF>> = Append(a, LF) /\ Append(a, LF) \in Seq(Nat)
  BY <1>1, Grows
<1>5. JoinState(Append(a, LF)) = JoinNext(JoinState(a), LF)
  BY <1>1, JointFacts
<1>6. JoinNext(JoinState(a), LF) = Joining(Front(Append(x, Backslash)), LF)
  BY <1>2, <1>3, JointFields DEF JoinNext
<1>7. JoinState(Append(a, LF)) = Joining(x, LF)
  BY <1>1, <1>5, <1>6, FrontFacts
<1>8. JoinState(Append(a, LF) \o b) = Joining(x \o JoinState(b).out, IF b = <<>> THEN LF ELSE JoinState(b).last)
  <2> DEFINE p == Append(a, LF)
  <2>1. p \in Seq(Nat) /\ JoinState(p) = Joining(x, LF)
    BY <1>4, <1>7
  <2> HIDE DEF p
  <2>2. JoinState(p \o b) = Joining(x \o JoinState(b).out, IF b = <<>> THEN LF ELSE JoinState(b).last)
    BY <1>1, <2>1, JoinsAfresh
  <2> QED
    BY <2>2 DEF p
<1>9. Joined(Append(a, LF) \o b) = x \o Joined(b)
  BY <1>8, JointFields DEF Joined
<1> QED
  BY <1>3, <1>4, <1>9 DEF Joined

(* What is read of a text is lines, at least one.                              *)
LEMMA LinesReadTyped ==
  ASSUME NEW t \in Seq(Nat)
  PROVE  /\ Joined(t) \in Seq(Nat) /\ LinesRead(t) \in Seq(Seq(Nat)) /\ LinesRead(t) # <<>>
         /\ Len(LinesRead(t)) \in Nat \ {0} /\ Head(LinesRead(t)) = LinesRead(t)[1]
         /\ Head(LinesRead(t)) \in Seq(Nat)
<1>1. Joined(t) \in Seq(Nat)
  BY JointFacts DEF Joined, Joints
<1>2. CutText(Joined(t)).out \in Seq(Seq(Nat)) /\ CutText(Joined(t)).rest \in Seq(Nat)
  BY <1>1, CutFacts DEF Cuts
<1> DEFINE u == Append(CutText(Joined(t)).out, CutText(Joined(t)).rest)
<1>3. u \in Seq(Seq(Nat)) /\ u # <<>>
  BY <1>2, AppendProperties
<1> HIDE DEF u
<1>4. Len(u) \in Nat \ {0} /\ Head(u) = u[1] /\ Head(u) \in Seq(Nat)
  BY <1>3, EmptySeq, LenProperties, ElementOfSeq
<1> QED
  BY <1>1, <1>3, <1>4 DEF LinesRead, Lines, u

(* The verdict is that on the lines.                                          *)
LEMMA SafeByLine == \A t : IsSafe(t) <=> LinesAreSafe(LinesRead(t))
BY DEF IsSafe, Parse, LinesAreSafe, LineIsSafe, LinesRead

(* The verdict on a text above another is that of the lines of both, each for      *)
(* itself, a backslash at the end of the first making one line of two: whatever     *)
(* comments, quotes and escapes they hold.                                     *)
THEOREM VerdictIsThatOfTheLines ==
  ASSUME NEW a \in Seq(Nat), NEW b \in Seq(Nat)
  PROVE  IsSafe(a \o <<LF>> \o b) = LinesAreSafe(LinesReadOfBoth(a, b))
<1> DEFINE text == (a \o <<LF>>) \o b
<1>1. Joined(a) \in Seq(Nat) /\ Joined(b) \in Seq(Nat)
  BY LinesReadTyped
<1>2. ASSUME ~EndsOpen(a) PROVE LinesRead(text) = LinesReadOfBoth(a, b)
  <2>1. Joined(text) = Append(Joined(a), LF) \o Joined(b)
    BY <1>2, JoinedByLine
  <2>2. Lines(Joined(text)) = Lines(Joined(a)) \o Lines(Joined(b))
    BY <1>1, <2>1, LinesOfBoth
  <2> QED
    BY <1>2, <2>2 DEF LinesRead, LinesReadOfBoth
<1>3. ASSUME EndsOpen(a) PROVE LinesRead(text) = LinesReadOfBoth(a, b)
  <2>1. PICK x \in Seq(Nat) : Joined(a) = Append(x, Backslash) /\ Joined(text) = x \o Joined(b)
    BY <1>3, JoinedRunsOn
  <2> DEFINE o == CutText(x).out
             l == CutText(x).rest
  <2>2. o \in Seq(Seq(Nat)) /\ l \in Seq(Nat) /\ Backslash \in Nat /\ Backslash # LF
    BY CutFacts DEF Cuts, Backslash, LF
  <2>3. Lines(Joined(a)) = Append(o, Append(l, Backslash))
    <3>1. CutText(Append(x, Backslash)) = CutAt(CutText(x), Backslash)
      BY <2>2, CutFacts
    <3>2. CutAt(CutText(x), Backslash) = Cut(o, Append(l, Backslash))
      BY <2>2 DEF CutAt
    <3>3. CutText(Joined(a)) = Cut(o, Append(l, Backslash))
      BY <2>1, <3>1, <3>2
    <3> HIDE DEF o, l
    <3>4. CutText(Joined(a)).out = o /\ CutText(Joined(a)).rest = Append(l, Backslash)
      BY <3>3, CutFields
    <3> QED
      BY <3>4 DEF Lines
  <2>4. Lines(Joined(text)) = o \o Continuing(l, Lines(Joined(b)))
    BY <1>1, <2>1, LinesRunOn
  <2> HIDE DEF o, l
  <2>5. Append(l, Backslash) \in Seq(Nat) /\ Front(Append(l, Backslash)) = l
    BY <2>2, Grows, FrontFacts
  <2>6. Front(Lines(Joined(a))) = o /\ Front(Last(Lines(Joined(a)))) = l
    <3> DEFINE e == Append(l, Backslash)
    <3>1. Lines(Joined(a)) = Append(o, e) /\ e \in Seq(Nat) /\ Front(e) = l
      BY <2>3, <2>5
    <3> HIDE DEF e
    <3>2. Front(Append(o, e)) = o /\ Last(Append(o, e)) = e
      BY <2>2, <3>1, FrontOfLines
    <3> QED
      BY <3>1, <3>2
  <2> QED
    BY <1>3, <2>4, <2>6 DEF LinesRead, LinesReadOfBoth, Continuing
<1>4. LinesRead(text) = LinesReadOfBoth(a, b)
  BY <1>2, <1>3
<1>5. IsSafe(text) <=> LinesAreSafe(LinesReadOfBoth(a, b))
  BY <1>4, SafeByLine
<1>6. \A t : IsSafe(t) \in BOOLEAN /\ LinesAreSafe(t) \in BOOLEAN
  BY Zenon DEF IsSafe, LinesAreSafe
<1>7. IsSafe(text) \in BOOLEAN /\ LinesAreSafe(LinesReadOfBoth(a, b)) \in BOOLEAN
  BY <1>6
<1> DEFINE p == IsSafe(text)
           q == LinesAreSafe(LinesReadOfBoth(a, b))
<1>8. p \in BOOLEAN /\ q \in BOOLEAN /\ (p <=> q)
  BY <1>5, <1>7
<1> HIDE DEF p, q
<1>9. p = q
  BY <1>8
<1> QED
  BY <1>9 DEF p, q, text

-----------------------------------------------------------------------------
(* A name's letters are spelled one after the other.                            *)
Letter == [ch : Plain, style : Style]
Spells == [x \in Seq(Nat) \X Letter |-> AddSpelled(x[1], x[2])]

(* A letter of a name has no meaning to the tokenizer.                       *)
LEMMA PlainFacts == \A c \in Plain :
  /\ c \in Nat /\ c \notin Whitespace /\ c \notin CommentMark
  /\ c \notin {Backslash, Quote, DoubleQuote, Slash, LF}
BY DEF Plain, Whitespace

(* The characters with a meaning are different from each other.              *)
LEMMA Marks ==
  /\ {Backslash, Quote, DoubleQuote, LF} \subseteq Nat
  /\ LF \notin {Backslash, Quote, DoubleQuote} /\ Backslash \notin {Quote, DoubleQuote} /\ Quote # DoubleQuote
  /\ {Backslash, Quote, DoubleQuote} \cap (Whitespace \cup CommentMark \cup {Slash} \cup Plain) = {}
  /\ LF \in Whitespace /\ Whitespace \subseteq Nat
<1>1. {Backslash, Quote, DoubleQuote} \cap (Whitespace \cup CommentMark \cup {Slash}) = {}
  BY DEF Backslash, Quote, DoubleQuote, LF, Whitespace, CommentMark, Slash, Tab, CR, Space, Hash, Semicolon
<1>2. {Backslash, Quote, DoubleQuote} \cap Plain = {}
  BY PlainFacts
<1>3. /\ {Backslash, Quote, DoubleQuote, LF} \subseteq Nat
      /\ LF \notin {Backslash, Quote, DoubleQuote} /\ Backslash \notin {Quote, DoubleQuote} /\ Quote # DoubleQuote
      /\ LF \in Whitespace /\ Whitespace \subseteq Nat
  BY DEF Backslash, Quote, DoubleQuote, LF, Whitespace, Tab, CR, Space
<1> QED
  BY <1>1, <1>2, <1>3

(* The spelling of a letter, and what is left of it once the lines are joined.     *)
RawSpelled(letter) == IF letter.style = "after a joint" THEN <<letter.ch>> ELSE Spelled(letter)

(* A letter's raw spelling is the letter, or the letter after a backslash or in    *)
(* quotes.                                                                    *)
LEMMA RawForms ==
  ASSUME NEW l \in Letter
  PROVE  /\ l.ch \in Plain
         /\ \/ RawSpelled(l) = <<l.ch>>
            \/ RawSpelled(l) = <<Backslash, l.ch>>
            \/ \E q \in {Quote, DoubleQuote} : RawSpelled(l) = <<q, l.ch, q>>
         /\ \/ Spelled(l) = RawSpelled(l)
            \/ Spelled(l) = <<Backslash, LF, l.ch>> /\ RawSpelled(l) = <<l.ch>>
<1>1. l.ch \in Plain /\ l.style \in Style
  BY DEF Letter
<1>2. CASE l.style = "escaped"
  BY <1>1, <1>2 DEF Spelled, RawSpelled
<1>3. CASE l.style = "single"
  BY <1>1, <1>3 DEF Spelled, RawSpelled
<1>4. CASE l.style = "double"
  BY <1>1, <1>4 DEF Spelled, RawSpelled
<1>5. CASE l.style = "after a joint"
  BY <1>1, <1>5 DEF Spelled, RawSpelled
<1>6. CASE l.style = "bare"
  BY <1>1, <1>6 DEF Spelled, RawSpelled
<1> QED
  BY <1>1, <1>2, <1>3, <1>4, <1>5, <1>6 DEF Style

(* Texts of one, two and three characters.                                   *)
LEMMA Short ==
  /\ \A a \in Nat : <<a>> \in Seq(Nat) /\ <<a>> # <<>> /\ Last(<<a>>) = a /\ <<a>>[1] = a
  /\ \A a, b \in Nat : <<a, b>> \in Seq(Nat) /\ <<a, b>> # <<>> /\ Last(<<a, b>>) = b /\ <<a, b>>[1] = a
  /\ \A a, b, c \in Nat :
       <<a, b, c>> \in Seq(Nat) /\ <<a, b, c>> # <<>> /\ Last(<<a, b, c>>) = c /\ <<a, b, c>>[1] = a
<1>1. \A a \in Nat : Len(<<a>>) = 1
  OBVIOUS
<1>2. \A a, b \in Nat : Len(<<a, b>>) = 2
  OBVIOUS
<1>3. \A a, b, c \in Nat : Len(<<a, b, c>>) = 3
  OBVIOUS
<1> QED
  BY <1>1, <1>2, <1>3 DEF Last

(* Three characters more.                                                      *)
LEMMA Appends ==
  /\ \A s \in Seq(Nat), a \in Nat : Append(s, a) \in Seq(Nat) /\ s \o <<a>> = Append(s, a)
  /\ \A s \in Seq(Nat), a, b \in Nat : s \o <<a, b>> = Append(Append(s, a), b)
  /\ \A s \in Seq(Nat), a, b, c \in Nat : s \o <<a, b, c>> = Append(Append(Append(s, a), b), c)
<1>1. \A s \in Seq(Nat), a \in Nat : Append(s, a) \in Seq(Nat) /\ s \o <<a>> = Append(s, a)
  BY Grows
<1>2. ASSUME NEW s \in Seq(Nat), NEW a \in Nat, NEW b \in Nat PROVE s \o <<a, b>> = Append(Append(s, a), b)
  <2>1. <<a>> \in Seq(Nat) /\ <<a, b>> = Append(<<a>>, b)
    BY Short, PairAppends
  <2>2. s \o Append(<<a>>, b) = Append(s \o <<a>>, b)
    BY <2>1, GrowsAfter
  <2> QED
    BY <1>1, <2>1, <2>2
<1>3. ASSUME NEW s \in Seq(Nat), NEW a \in Nat, NEW b \in Nat, NEW c \in Nat
      PROVE  s \o <<a, b, c>> = Append(Append(Append(s, a), b), c)
  <2>1. <<a, b>> \in Seq(Nat) /\ <<a, b, c>> = Append(<<a, b>>, c)
    BY Short, TripleAppends
  <2>2. s \o Append(<<a, b>>, c) = Append(s \o <<a, b>>, c)
    BY <2>1, GrowsAfter
  <2> QED
    BY <1>2, <2>1, <2>2
<1> QED
  BY <1>1, <1>2, <1>3

LEMMA SpelledTyped == \A l \in Letter : Spelled(l) \in Seq(Nat) /\ RawSpelled(l) \in Seq(Nat)
<1> SUFFICES ASSUME NEW l \in Letter PROVE Spelled(l) \in Seq(Nat) /\ RawSpelled(l) \in Seq(Nat)
  OBVIOUS
<1>1. l.ch \in Nat
  BY RawForms, PlainFacts
<1>2. RawSpelled(l) \in Seq(Nat)
  <2>1. <<l.ch>> \in Seq(Nat)
    BY <1>1
  <2>2. <<Backslash, l.ch>> \in Seq(Nat) /\ \A q \in {Quote, DoubleQuote} : <<q, l.ch, q>> \in Seq(Nat)
    BY <1>1, Marks
  <2> QED
    BY <2>1, <2>2, RawForms
<1>3. <<Backslash, LF, l.ch>> \in Seq(Nat)
  BY <1>1, Marks, Short
<1> QED
  BY <1>2, <1>3, RawForms

LEMMA SpellingTypes == <<>> \in Seq(Nat) /\ \A s \in Seq(Nat), c \in Letter : AddSpelled(s, c) \in Seq(Nat)
<1>1. \A s, t \in Seq(Nat) : s \o t \in Seq(Nat)
  BY ConcatTyped
<1> QED
  BY <1>1, SpelledTyped, EmptySeq DEF AddSpelled

(* Spelling a name is a fold. *)
LEMMA SpellingFolds ==
  /\ Foldable(Letter, Seq(Nat), Spells, <<>>)
  /\ \A s \in Seq(Nat), c \in Letter : Spells[<<s, c>>] = AddSpelled(s, c)
BY SpellingTypes DEF Foldable, Spells

LEMMA SpellingIsFold ==
  ASSUME NEW letters \in Seq(Letter)
  PROVE  Spelling(letters) = Folded(Letter, Seq(Nat), Spells, <<>>, letters)
<1> DEFINE P(it) == it = [s \in SUBSET DOMAIN letters |->
                            IF s = {} THEN <<>>
                            ELSE AddSpelled(it[s \ {Max(s)}], letters[Max(s)])]
           it == CHOOSE f : P(f)
<1>1. /\ Len(letters) \in Nat /\ DOMAIN letters = 1..Len(letters)
      /\ \A i \in 1..Len(letters) : letters[i] \in Letter
  BY LenProperties, ElementOfSeq
<1>2. P(it)
  <2>1. PICK f : Stays(Letter, Seq(Nat), Spells, <<>>, letters, f)
    BY SpellingFolds, FoldStays
  <2>2. P(f)
    BY <1>1, <2>1, SpellingFolds DEF Stays, Unfolds
  <2> QED
    BY <2>2
<1>3. Spelling(letters) = it[DOMAIN letters]
  BY DEF Spelling, FoldLeft, MapThenFoldSet
<1>4. ASSUME NEW k \in 1..Len(letters)
      PROVE  it[1..k] = AddSpelled(it[1..k - 1], letters[k])
  <2>1. /\ 1..k \in SUBSET DOMAIN letters /\ 1..k # {} /\ Max(1..k) = k
        /\ (1..k) \ {k} = 1..k - 1
    BY <1>1, Downward
  <2> QED
    BY <1>2, <2>1
<1>5. it[{}] = <<>>
  BY <1>2
<1> HIDE DEF it
<1>6. GoesAlong(Letter, Seq(Nat), Spells, <<>>, letters, it)
  BY <1>1, <1>4, <1>5, SpellingFolds DEF GoesAlong
<1> QED
  BY <1>1, <1>3, <1>6, FoldedAlong

(* Spelling a name, one letter at a time.                                    *)
LEMMA SpellingFacts ==
  /\ Spelling(<<>>) = <<>>
  /\ \A s \in Seq(Letter) : Spelling(s) \in Seq(Nat)
  /\ \A s \in Seq(Letter), c \in Letter : Spelling(Append(s, c)) = AddSpelled(Spelling(s), c)
<1> DEFINE F(s) == Folded(Letter, Seq(Nat), Spells, <<>>, s)
<1>1. /\ F(<<>>) = <<>>
      /\ \A s \in Seq(Letter) : F(s) \in Seq(Nat)
      /\ \A s \in Seq(Letter), c \in Letter : F(Append(s, c)) = Spells[<<F(s), c>>]
  BY SpellingFolds, FoldedFacts
<1>2. <<>> \in Seq(Letter) /\ \A s \in Seq(Letter), c \in Letter : Append(s, c) \in Seq(Letter)
  BY EmptySeq, AppendProperties
<1>3. \A s \in Seq(Letter) : Spelling(s) = F(s)
  BY SpellingIsFold
<1> HIDE DEF F
<1>4. Spelling(<<>>) = <<>> /\ \A s \in Seq(Letter) : Spelling(s) \in Seq(Nat)
  BY <1>1, <1>2, <1>3
<1>5. ASSUME NEW s \in Seq(Letter), NEW c \in Letter PROVE Spelling(Append(s, c)) = AddSpelled(Spelling(s), c)
  <2>1. Spelling(s) = F(s) /\ Spelling(Append(s, c)) = F(Append(s, c)) /\ F(s) \in Seq(Nat)
    BY <1>1, <1>2, <1>3
  <2> QED
    BY <1>1, <2>1, SpellingFolds
<1> QED
  BY <1>4, <1>5

(* A text without line ends is joined as it stands.                             *)
LEMMA JoinedAsIs == \A t \in Seq(Nat) : ~Has(t, LF) => Joined(t) = t
<1> DEFINE T == {u \in Seq(Nat) : ~Has(u, LF) => Joined(u) = u}
<1>1. <<>> \in T
  BY JointFacts, JointFields, EmptySeq DEF Unjoined, Joined
<1>2. ASSUME NEW u \in Seq(Nat), NEW c \in Nat, u \in T PROVE Append(u, c) \in T
  <2> SUFFICES ASSUME ~Has(Append(u, c), LF) PROVE Joined(Append(u, c)) = Append(u, c)
    BY Grows
  <2>1. ~Has(u, LF) /\ c # LF
    BY Grows
  <2>2. JoinState(u).out = u
    BY <1>2, <2>1 DEF Joined
  <2>3. JoinState(Append(u, c)) = JoinNext(JoinState(u), c)
    BY JointFacts
  <2> QED
    BY <2>1, <2>2, <2>3, JointFields DEF Joined, JoinNext
<1>3. Seq(Nat) \subseteq T
  <2> HIDE DEF T
  <2> QED
    BY <1>1, <1>2, SequenceInduction
<1> QED
  BY <1>3

(* Two texts are joined each for itself if the first does not end in a backslash.  *)
LEMMA JoinedApart ==
  ASSUME NEW a \in Seq(Nat), NEW b \in Seq(Nat), ~EndsOpen(a)
  PROVE  /\ Joined(a) \in Seq(Nat) /\ Joined(a \o b) = Joined(a) \o Joined(b)
         /\ ~EndsOpen(b) => ~EndsOpen(a \o b)
<1> DEFINE o == JoinState(a).out
           l == JoinState(a).last
<1>1. LF # Backslash
  BY Marks
<1>2. l # Backslash /\ (~EndsOpen(b) => JoinState(b).last # Backslash)
  BY <1>1, LastJoint DEF EndsOpen
<1>3. o \in Seq(Nat) /\ JoinState(a) = Joining(o, l)
  BY LastJoint, JointFacts DEF Joints
<1>4. JoinState(a \o b) = Joining(o \o JoinState(b).out, IF b = <<>> THEN l ELSE JoinState(b).last)
  <2> HIDE DEF o, l
  <2> QED
    BY <1>2, <1>3, JoinsAfresh
<1>5. Joined(a \o b) = Joined(a) \o Joined(b) /\ Joined(a) \in Seq(Nat)
  BY <1>3, <1>4, JointFields DEF Joined
<1>6. ~EndsOpen(b) => JoinState(a \o b).last # Backslash
  <2>1. JoinState(a \o b).last = IF b = <<>> THEN l ELSE JoinState(b).last
    BY <1>4, JointFields
  <2> QED
    BY <1>2, <2>1
<1>7. ~EndsOpen(b) => ~EndsOpen(a \o b)
  <2>1. a \o b \in Seq(Nat)
    BY ConcatTyped
  <2> QED
    BY <1>6, <2>1, LastJoint DEF EndsOpen
<1> QED
  BY <1>5, <1>7

(* A spelled letter is joined to its raw spelling.                              *)
LEMMA SpelledJoined ==
  ASSUME NEW l \in Letter
  PROVE  Joined(Spelled(l)) = RawSpelled(l) /\ ~EndsOpen(Spelled(l)) /\ Spelled(l) # <<>>
<1> DEFINE c == l.ch
           s == Spelled(l)
<1>1. c \in Nat /\ c # LF /\ c # Backslash
  BY RawForms, PlainFacts
<1>2. Quote # Backslash /\ DoubleQuote # Backslash
  BY Marks
<1>3. CASE s = <<Backslash, LF, c>> /\ RawSpelled(l) = <<c>>
  <2>1. LF \in Nat /\ Backslash \in Nat /\ LF # Backslash
    BY Marks
  <2>2. /\ <<Backslash>> \in Seq(Nat) /\ <<Backslash>> = Append(<<>>, Backslash) /\ <<>> \in Seq(Nat)
        /\ <<Backslash, LF>> \in Seq(Nat) /\ <<Backslash, LF>> = Append(<<Backslash>>, LF)
        /\ <<Backslash, LF, c>> = Append(<<Backslash, LF>>, c) /\ <<c>> = Append(<<>>, c)
    BY <1>1, <2>1
  <2>3. JoinState(<<>>) = Joining(<<>>, LF)
    BY JointFacts DEF Unjoined
  <2>4. JoinState(<<Backslash>>) = Joining(<<Backslash>>, Backslash)
    <3>1. JoinState(Append(<<>>, Backslash)) = JoinNext(JoinState(<<>>), Backslash)
      BY <2>1, <2>2, JointFacts
    <3>2. JoinNext(Joining(<<>>, LF), Backslash) = Joining(Append(<<>>, Backslash), Backslash)
      BY <2>1, JointFields DEF JoinNext
    <3> QED
      BY <2>2, <2>3, <3>1, <3>2
  <2>5. JoinState(<<Backslash, LF>>) = Joining(<<>>, LF)
    <3>1. JoinState(Append(<<Backslash>>, LF)) = JoinNext(JoinState(<<Backslash>>), LF)
      BY <2>1, <2>2, JointFacts
    <3>2. JoinNext(Joining(<<Backslash>>, Backslash), LF) = Joining(Front(<<Backslash>>), LF)
      BY JointFields DEF JoinNext
    <3>3. Front(Append(<<>>, Backslash)) = <<>>
      BY <2>1, <2>2, FrontFacts
    <3> QED
      BY <2>2, <2>4, <3>1, <3>2, <3>3
  <2>6. JoinState(<<Backslash, LF, c>>) = Joining(<<c>>, c)
    <3>1. JoinState(Append(<<Backslash, LF>>, c)) = JoinNext(JoinState(<<Backslash, LF>>), c)
      BY <1>1, <2>2, JointFacts
    <3>2. JoinNext(Joining(<<>>, LF), c) = Joining(Append(<<>>, c), c)
      BY <1>1, JointFields DEF JoinNext
    <3> QED
      BY <2>2, <2>5, <3>1, <3>2
  <2>7. Joined(s) = <<c>>
    BY <1>3, <2>6, JointFields DEF Joined
  <2>8. Last(s) = c /\ s # <<>>
    BY <1>1, <1>3, <2>1, Short
  <2> QED
    BY <1>1, <1>3, <2>7, <2>8 DEF EndsOpen
<1>4. CASE s = RawSpelled(l)
  <2>1. s \in Seq(Nat)
    BY SpelledTyped
  <2>2. ~Has(s, LF)
    <3>1. \A a \in Nat : a # LF => ~Has(<<a>>, LF)
      BY Short DEF Has
    <3>2. \A a, b \in Nat : a # LF /\ b # LF => ~Has(<<a, b>>, LF)
      BY DEF Has
    <3>3. \A a, b, d \in Nat : a # LF /\ b # LF /\ d # LF => ~Has(<<a, b, d>>, LF)
      BY DEF Has
    <3> QED
      BY <1>1, <1>4, <3>1, <3>2, <3>3, RawForms, Marks
  <2>3. s # <<>> /\ Last(s) # Backslash
    <3>1. CASE s = <<c>>
      BY <1>1, <3>1, Short
    <3>2. CASE s = <<Backslash, c>>
      BY <1>1, <3>2, Short, Marks
    <3>3. ASSUME NEW q \in {Quote, DoubleQuote}, s = <<q, c, q>> PROVE s # <<>> /\ Last(s) # Backslash
      BY <1>1, <1>2, <3>3, Short, Marks
    <3> QED
      BY <1>4, <3>1, <3>2, <3>3, RawForms
  <2> QED
    BY <1>4, <2>1, <2>2, <2>3, JoinedAsIs DEF EndsOpen
<1> QED
  BY <1>3, <1>4, RawForms

-----------------------------------------------------------------------------
(* The modes of the tokenizer and of `unquote` go through a text one character      *)
(* after the other.                                                           *)
TokenModes == {"plain", "escaped", "single", "double"}
ModeTaking == [x \in TokenModes \X Nat |-> TokenMode(x[1], x[2])]
Unquotes == [mode : TokenModes \cup {"escaped in double"}, out : Seq(Nat)]
UnquoteTaking == [x \in Unquotes \X Nat |-> UnquoteNext(x[1], x[2])]
NothingUnquoted == Unquoted("plain", <<>>)

LEMMA OpensTyped == \A c : Opens(c) \in TokenModes
<1> SUFFICES ASSUME NEW c PROVE Opens(c) \in TokenModes
  OBVIOUS
<1>1. CASE c = Backslash
  BY <1>1 DEF Opens, TokenModes
<1>2. CASE c = Quote
  BY <1>2, Marks DEF Opens, TokenModes
<1>3. CASE c = DoubleQuote
  BY <1>3, Marks DEF Opens, TokenModes
<1>4. CASE c \notin {Backslash, Quote, DoubleQuote}
  BY <1>4 DEF Opens, TokenModes
<1> QED
  BY <1>1, <1>2, <1>3, <1>4

LEMMA ModeTypes == "plain" \in TokenModes /\ \A s \in TokenModes, c \in Nat : TokenMode(s, c) \in TokenModes
<1>1. "plain" \in TokenModes
  BY DEF TokenModes
<1>2. ASSUME NEW s \in TokenModes, NEW c \in Nat PROVE TokenMode(s, c) \in TokenModes
  <2>1. CASE s = "plain"
    BY <2>1, OpensTyped DEF TokenMode
  <2>2. CASE s = "single"
    BY <2>2 DEF TokenMode, TokenModes
  <2>3. CASE s = "double"
    BY <2>3 DEF TokenMode, TokenModes
  <2>4. CASE s = "escaped"
    BY <2>4 DEF TokenMode, TokenModes
  <2> QED
    BY <2>1, <2>2, <2>3, <2>4 DEF TokenModes
<1> QED
  BY <1>1, <1>2

LEMMA UnquotedFields == \A m, o : Unquoted(m, o).mode = m /\ Unquoted(m, o).out = o
BY DEF Unquoted

LEMMA UnquoteTypes == NothingUnquoted \in Unquotes /\ \A s \in Unquotes, c \in Nat : UnquoteNext(s, c) \in Unquotes
<1>1. \A m \in TokenModes \cup {"escaped in double"}, o \in Seq(Nat) : Unquoted(m, o) \in Unquotes
  BY DEF Unquotes, Unquoted
<1>2. NothingUnquoted \in Unquotes
  BY <1>1, EmptySeq DEF NothingUnquoted, TokenModes
<1>3. ASSUME NEW s \in Unquotes, NEW c \in Nat PROVE UnquoteNext(s, c) \in Unquotes
  <2>1. s.mode \in TokenModes \cup {"escaped in double"} /\ s.out \in Seq(Nat)
    BY DEF Unquotes
  <2>2. Append(s.out, c) \in Seq(Nat)
    BY <2>1, Grows
  <2>3. CASE s.mode = "escaped"
    BY <1>1, <2>2, <2>3 DEF UnquoteNext, TokenModes
  <2>4. CASE s.mode = "escaped in double"
    BY <1>1, <2>2, <2>4 DEF UnquoteNext, TokenModes
  <2>5. CASE s.mode = "double" /\ c = Backslash
    BY <1>1, <2>1, <2>5 DEF UnquoteNext, TokenModes
  <2>6. CASE s.mode \in TokenModes /\ s.mode # "escaped" /\ ~(s.mode = "double" /\ c = Backslash)
    <3>1. TokenMode(s.mode, c) \in TokenModes
      BY <2>6, ModeTypes
    <3>2. UnquoteNext(s, c) = Unquoted(TokenMode(s.mode, c),
                                       IF TokenMode(s.mode, c) = s.mode THEN Append(s.out, c) ELSE s.out)
      BY <2>6 DEF UnquoteNext, TokenModes
    <3>3. (IF TokenMode(s.mode, c) = s.mode THEN Append(s.out, c) ELSE s.out) \in Seq(Nat)
      BY <2>1, <2>2
    <3> QED
      BY <1>1, <3>1, <3>2, <3>3
  <2> QED
    BY <2>1, <2>3, <2>4, <2>5, <2>6
<1> QED
  BY <1>2, <1>3

(* The tokenizer's mode is a fold. *)
LEMMA ModeFolds ==
  /\ Foldable(Nat, TokenModes, ModeTaking, "plain")
  /\ \A s \in TokenModes, c \in Nat : ModeTaking[<<s, c>>] = TokenMode(s, c)
BY ModeTypes DEF Foldable, ModeTaking

LEMMA ModeIsFold ==
  ASSUME NEW text \in Seq(Nat)
  PROVE  Mode(text) = Folded(Nat, TokenModes, ModeTaking, "plain", text)
<1> DEFINE P(it) == it = [s \in SUBSET DOMAIN text |->
                            IF s = {} THEN "plain"
                            ELSE TokenMode(it[s \ {Max(s)}], text[Max(s)])]
           it == CHOOSE f : P(f)
<1>1. /\ Len(text) \in Nat /\ DOMAIN text = 1..Len(text)
      /\ \A i \in 1..Len(text) : text[i] \in Nat
  BY LenProperties, ElementOfSeq
<1>2. P(it)
  <2>1. PICK f : Stays(Nat, TokenModes, ModeTaking, "plain", text, f)
    BY ModeFolds, FoldStays
  <2>2. P(f)
    BY <1>1, <2>1, ModeFolds DEF Stays, Unfolds
  <2> QED
    BY <2>2
<1>3. Mode(text) = it[DOMAIN text]
  BY DEF Mode, FoldLeft, MapThenFoldSet
<1>4. ASSUME NEW k \in 1..Len(text)
      PROVE  it[1..k] = TokenMode(it[1..k - 1], text[k])
  <2>1. /\ 1..k \in SUBSET DOMAIN text /\ 1..k # {} /\ Max(1..k) = k
        /\ (1..k) \ {k} = 1..k - 1
    BY <1>1, Downward
  <2> QED
    BY <1>2, <2>1
<1>5. it[{}] = "plain"
  BY <1>2
<1> HIDE DEF it
<1>6. GoesAlong(Nat, TokenModes, ModeTaking, "plain", text, it)
  BY <1>1, <1>4, <1>5, ModeFolds DEF GoesAlong
<1> QED
  BY <1>1, <1>3, <1>6, FoldedAlong

(* The tokenizer's mode, one character at a time.                            *)
LEMMA ModeFacts ==
  /\ Mode(<<>>) = "plain"
  /\ \A s \in Seq(Nat) : Mode(s) \in TokenModes
  /\ \A s \in Seq(Nat), c \in Nat : Mode(Append(s, c)) = TokenMode(Mode(s), c)
<1> DEFINE F(s) == Folded(Nat, TokenModes, ModeTaking, "plain", s)
<1>1. /\ F(<<>>) = "plain"
      /\ \A s \in Seq(Nat) : F(s) \in TokenModes
      /\ \A s \in Seq(Nat), c \in Nat : F(Append(s, c)) = ModeTaking[<<F(s), c>>]
  BY ModeFolds, FoldedFacts
<1>2. <<>> \in Seq(Nat) /\ \A s \in Seq(Nat), c \in Nat : Append(s, c) \in Seq(Nat)
  BY EmptySeq, AppendProperties
<1>3. \A s \in Seq(Nat) : Mode(s) = F(s)
  BY ModeIsFold
<1> HIDE DEF F
<1>4. Mode(<<>>) = "plain" /\ \A s \in Seq(Nat) : Mode(s) \in TokenModes
  BY <1>1, <1>2, <1>3
<1>5. ASSUME NEW s \in Seq(Nat), NEW c \in Nat PROVE Mode(Append(s, c)) = TokenMode(Mode(s), c)
  <2>1. Mode(s) = F(s) /\ Mode(Append(s, c)) = F(Append(s, c)) /\ F(s) \in TokenModes
    BY <1>1, <1>2, <1>3
  <2> QED
    BY <1>1, <2>1, ModeFolds
<1> QED
  BY <1>4, <1>5

(* So is unquoting. *)
LEMMA UnquoteFolds ==
  /\ Foldable(Nat, Unquotes, UnquoteTaking, NothingUnquoted)
  /\ \A s \in Unquotes, c \in Nat : UnquoteTaking[<<s, c>>] = UnquoteNext(s, c)
BY UnquoteTypes DEF Foldable, UnquoteTaking

LEMMA UnquoteIsFold ==
  ASSUME NEW text \in Seq(Nat)
  PROVE  UnquoteState(text) = Folded(Nat, Unquotes, UnquoteTaking, NothingUnquoted, text)
<1> DEFINE P(it) == it = [s \in SUBSET DOMAIN text |->
                            IF s = {} THEN NothingUnquoted
                            ELSE UnquoteNext(it[s \ {Max(s)}], text[Max(s)])]
           it == CHOOSE f : P(f)
<1>1. /\ Len(text) \in Nat /\ DOMAIN text = 1..Len(text)
      /\ \A i \in 1..Len(text) : text[i] \in Nat
  BY LenProperties, ElementOfSeq
<1>2. P(it)
  <2>1. PICK f : Stays(Nat, Unquotes, UnquoteTaking, NothingUnquoted, text, f)
    BY UnquoteFolds, FoldStays
  <2>2. P(f)
    BY <1>1, <2>1, UnquoteFolds DEF Stays, Unfolds
  <2> QED
    BY <2>2
<1>3. UnquoteState(text) = it[DOMAIN text]
  BY DEF UnquoteState, NothingUnquoted, FoldLeft, MapThenFoldSet
<1>4. ASSUME NEW k \in 1..Len(text)
      PROVE  it[1..k] = UnquoteNext(it[1..k - 1], text[k])
  <2>1. /\ 1..k \in SUBSET DOMAIN text /\ 1..k # {} /\ Max(1..k) = k
        /\ (1..k) \ {k} = 1..k - 1
    BY <1>1, Downward
  <2> QED
    BY <1>2, <2>1
<1>5. it[{}] = NothingUnquoted
  BY <1>2
<1> HIDE DEF it
<1>6. GoesAlong(Nat, Unquotes, UnquoteTaking, NothingUnquoted, text, it)
  BY <1>1, <1>4, <1>5, UnquoteFolds DEF GoesAlong
<1> QED
  BY <1>1, <1>3, <1>6, FoldedAlong

(* Unquoting a token, one character at a time.                               *)
LEMMA UnquoteFacts ==
  /\ UnquoteState(<<>>) = NothingUnquoted
  /\ \A s \in Seq(Nat) : UnquoteState(s) \in Unquotes
  /\ \A s \in Seq(Nat), c \in Nat : UnquoteState(Append(s, c)) = UnquoteNext(UnquoteState(s), c)
<1> DEFINE F(s) == Folded(Nat, Unquotes, UnquoteTaking, NothingUnquoted, s)
<1>1. /\ F(<<>>) = NothingUnquoted
      /\ \A s \in Seq(Nat) : F(s) \in Unquotes
      /\ \A s \in Seq(Nat), c \in Nat : F(Append(s, c)) = UnquoteTaking[<<F(s), c>>]
  BY UnquoteFolds, FoldedFacts
<1>2. <<>> \in Seq(Nat) /\ \A s \in Seq(Nat), c \in Nat : Append(s, c) \in Seq(Nat)
  BY EmptySeq, AppendProperties
<1>3. \A s \in Seq(Nat) : UnquoteState(s) = F(s)
  BY UnquoteIsFold
<1> HIDE DEF F
<1>4. UnquoteState(<<>>) = NothingUnquoted /\ \A s \in Seq(Nat) : UnquoteState(s) \in Unquotes
  BY <1>1, <1>2, <1>3
<1>5. ASSUME NEW s \in Seq(Nat), NEW c \in Nat PROVE UnquoteState(Append(s, c)) = UnquoteNext(UnquoteState(s), c)
  <2>1. UnquoteState(s) = F(s) /\ UnquoteState(Append(s, c)) = F(Append(s, c)) /\ F(s) \in Unquotes
    BY <1>1, <1>2, <1>3
  <2> QED
    BY <1>1, <2>1, UnquoteFolds
<1> QED
  BY <1>4, <1>5

-----------------------------------------------------------------------------
(* What is left of a spelled name once the lines are joined.                     *)
Raw(letters) == Joined(Spelling(letters))

(* A spelled name without its joints, one letter at a time.                  *)
LEMMA RawGrows ==
  /\ Raw(<<>>) = <<>>
  /\ \A ls \in Seq(Letter) : Spelling(ls) \in Seq(Nat) /\ ~EndsOpen(Spelling(ls)) /\ Raw(ls) \in Seq(Nat)
  /\ \A ls \in Seq(Letter), l \in Letter : Raw(Append(ls, l)) = Raw(ls) \o RawSpelled(l)
<1>1. Spelling(<<>>) = <<>> /\ Joined(<<>>) = <<>>
  BY SpellingFacts, JointFacts, JointFields DEF Joined, Unjoined
<1> DEFINE T == {ls \in Seq(Letter) : ~EndsOpen(Spelling(ls))}
<1>2. <<>> \in T
  BY <1>1, EmptySeq DEF EndsOpen
<1>3. ASSUME NEW ls \in Seq(Letter), NEW l \in Letter, ~EndsOpen(Spelling(ls))
      PROVE  ~EndsOpen(Spelling(Append(ls, l))) /\ Raw(Append(ls, l)) = Raw(ls) \o RawSpelled(l)
  <2>1. Spelling(ls) \in Seq(Nat) /\ Spelling(Append(ls, l)) = Spelling(ls) \o Spelled(l)
    BY SpellingFacts DEF AddSpelled
  <2>2. Spelled(l) \in Seq(Nat) /\ ~EndsOpen(Spelled(l)) /\ Joined(Spelled(l)) = RawSpelled(l)
    BY SpelledTyped, SpelledJoined
  <2> DEFINE a == Spelling(ls)
             b == Spelled(l)
  <2>3. Joined(a \o b) = Joined(a) \o Joined(b) /\ ~EndsOpen(a \o b)
    <3>1. a \in Seq(Nat) /\ b \in Seq(Nat) /\ ~EndsOpen(a) /\ ~EndsOpen(b)
      BY <1>3, <2>1, <2>2
    <3> HIDE DEF a, b
    <3> QED
      BY <3>1, JoinedApart
  <2> QED
    BY <2>1, <2>2, <2>3 DEF Raw
<1>4. \A ls \in Seq(Letter), l \in Letter : Append(ls, l) \in Seq(Letter)
  BY AppendProperties
<1>5. Seq(Letter) \subseteq T
  <2>1. \A ls \in Seq(Letter), l \in Letter : ls \in T => Append(ls, l) \in T
    BY <1>3, <1>4
  <2> HIDE DEF T
  <2> QED
    BY <1>2, <2>1, SequenceInduction
<1>6. \A ls \in Seq(Letter) : Spelling(ls) \in Seq(Nat) /\ Joined(Spelling(ls)) \in Seq(Nat)
  BY SpellingFacts, JointFacts DEF Joined, Joints
<1> QED
  BY <1>1, <1>3, <1>5, <1>6 DEF Raw

(* The name itself, one letter at a time.                                    *)
LEMMA WordGrows ==
  /\ Word(<<>>) = <<>>
  /\ \A ls \in Seq(Letter) : Word(ls) \in Seq(Nat)
  /\ \A ls \in Seq(Letter), l \in Letter : Word(Append(ls, l)) = Append(Word(ls), l.ch)
<1>1. \A l \in Letter : l.ch \in Nat
  BY RawForms, PlainFacts
<1>2. ASSUME NEW ls \in Seq(Letter)
      PROVE  Word(ls) \in Seq(Nat) /\ Len(Word(ls)) = Len(ls) /\ \A i \in 1..Len(ls) : Word(ls)[i] = ls[i].ch
  <2>1. Len(ls) \in Nat /\ \A i \in 1..Len(ls) : ls[i] \in Letter
    BY LenProperties, ElementOfSeq
  <2>2. Word(ls) = [i \in 1..Len(ls) |-> ls[i].ch]
    BY DEF Word
  <2>3. Word(ls) \in [1..Len(ls) -> Nat]
    BY <1>1, <2>1, <2>2
  <2>4. Word(ls) \in Seq(Nat)
    BY <2>1, <2>3, SeqDef
  <2> QED
    BY <2>1, <2>2, <2>3, <2>4, LenProperties
<1>3. Word(<<>>) = <<>>
  <2>1. <<>> \in Seq(Letter) /\ <<>> \in Seq(Nat) /\ Len(<<>>) = 0
    BY EmptySeq
  <2>2. Word(<<>>) \in Seq(Nat) /\ Len(Word(<<>>)) = 0
    BY <1>2, <2>1
  <2> QED
    BY <2>1, <2>2, SeqEqual
<1>4. ASSUME NEW ls \in Seq(Letter), NEW l \in Letter PROVE Word(Append(ls, l)) = Append(Word(ls), l.ch)
  <2> DEFINE s == Append(ls, l)
             w == Append(Word(ls), l.ch)
  <2>1. /\ s \in Seq(Letter) /\ Len(s) = Len(ls) + 1 /\ Len(ls) \in Nat /\ s[Len(ls) + 1] = l
        /\ \A i \in 1..Len(ls) : s[i] = ls[i]
    BY AppendProperties, LenProperties
  <2>2. /\ w \in Seq(Nat) /\ Len(w) = Len(Word(ls)) + 1 /\ w[Len(Word(ls)) + 1] = l.ch
        /\ \A i \in 1..Len(Word(ls)) : w[i] = Word(ls)[i]
    BY <1>1, <1>2, AppendProperties
  <2> HIDE DEF s, w
  <2>3. Len(Word(ls)) = Len(ls) /\ \A i \in 1..Len(ls) : Word(ls)[i] = ls[i].ch
    BY <1>2
  <2>4. Word(s) \in Seq(Nat) /\ Len(Word(s)) = Len(s) /\ \A i \in 1..Len(s) : Word(s)[i] = s[i].ch
    BY <1>2, <2>1
  <2>5. \A i \in 1..Len(s) : i = Len(ls) + 1 \/ i \in 1..Len(ls)
    BY <2>1
  <2>6. \A i \in 1..Len(s) : Word(s)[i] = w[i]
    <3>1. Word(s)[Len(ls) + 1] = w[Len(ls) + 1]
      BY <2>1, <2>2, <2>3, <2>4
    <3>2. \A i \in 1..Len(ls) : i \in 1..Len(s)
      BY <2>1
    <3>3. \A i \in 1..Len(ls) : Word(s)[i] = w[i]
      BY <2>1, <2>2, <2>3, <2>4, <3>2
    <3> QED
      BY <2>5, <3>1, <3>3
  <2>7. Word(s) = w
    BY <2>1, <2>2, <2>3, <2>4, <2>6, SeqEqual
  <2> QED
    BY <2>7 DEF s, w
<1> QED
  BY <1>2, <1>3, <1>4

(* Outside quotes the tokenizer is in its first mode again after a letter.         *)
LEMMA ModePieces ==
  ASSUME NEW s \in Seq(Nat), Mode(s) = "plain", NEW l \in Letter
  PROVE  Mode(s \o RawSpelled(l)) = "plain"
<1> DEFINE c == l.ch
<1>1. c \in Nat /\ c \notin {Backslash, Quote, DoubleQuote}
  BY RawForms, PlainFacts
<1>2. {Backslash, Quote, DoubleQuote} \subseteq Nat /\ Backslash \notin {Quote, DoubleQuote} /\ Quote # DoubleQuote
  BY Marks
<1>3. \A t \in Seq(Nat), d \in Nat : Append(t, d) \in Seq(Nat) /\ Mode(Append(t, d)) = TokenMode(Mode(t), d)
  BY ModeFacts, Grows
<1>4. /\ TokenMode("plain", c) = "plain" /\ TokenMode("plain", Backslash) = "escaped"
      /\ TokenMode("escaped", c) = "plain"
      /\ TokenMode("plain", Quote) = "single" /\ TokenMode("plain", DoubleQuote) = "double"
      /\ TokenMode("single", c) = "single" /\ TokenMode("double", c) = "double"
      /\ TokenMode("single", Quote) = "plain" /\ TokenMode("double", DoubleQuote) = "plain"
  BY <1>1, <1>2 DEF TokenMode, Opens
<1> HIDE DEF c
<1>5. CASE RawSpelled(l) = <<c>>
  <2>1. s \o <<c>> = Append(s, c)
    BY <1>1, Appends
  <2> QED
    BY <1>1, <1>3, <1>4, <1>5, <2>1
<1>6. CASE RawSpelled(l) = <<Backslash, c>>
  <2>1. s \o <<Backslash, c>> = Append(Append(s, Backslash), c)
    BY <1>1, <1>2, Appends
  <2>2. Mode(Append(s, Backslash)) = "escaped" /\ Append(s, Backslash) \in Seq(Nat)
    BY <1>2, <1>3, <1>4
  <2>3. Mode(Append(Append(s, Backslash), c)) = "plain"
    BY <1>1, <1>3, <1>4, <2>2
  <2> QED
    BY <1>6, <2>1, <2>3
<1>7. ASSUME NEW q \in {Quote, DoubleQuote}, RawSpelled(l) = <<q, c, q>> PROVE Mode(s \o RawSpelled(l)) = "plain"
  <2>1. s \o <<q, c, q>> = Append(Append(Append(s, q), c), q)
    BY <1>1, <1>2, Appends
  <2>2. Mode(Append(s, q)) = TokenMode("plain", q) /\ Append(s, q) \in Seq(Nat)
    BY <1>2, <1>3
  <2>3. /\ Mode(Append(Append(s, q), c)) = TokenMode(TokenMode("plain", q), c)
        /\ Append(Append(s, q), c) \in Seq(Nat)
    BY <1>1, <1>3, <2>2
  <2>4. Mode(Append(Append(Append(s, q), c), q)) = TokenMode(TokenMode(TokenMode("plain", q), c), q)
    BY <1>2, <1>3, <2>3
  <2> QED
    BY <1>4, <1>7, <2>1, <2>4
<1> QED
  BY <1>5, <1>6, <1>7, RawForms DEF c

(* ... and `unquote` has the letter.                                          *)
LEMMA UnquotePieces ==
  ASSUME NEW s \in Seq(Nat), NEW w \in Seq(Nat), UnquoteState(s) = Unquoted("plain", w), NEW l \in Letter
  PROVE  UnquoteState(s \o RawSpelled(l)) = Unquoted("plain", Append(w, l.ch))
<1> DEFINE c == l.ch
           v == Append(w, c)
           U(m, o) == Unquoted(m, o)
<1>1. c \in Nat /\ c \notin {Backslash, Quote, DoubleQuote}
  BY RawForms, PlainFacts
<1>2. {Backslash, Quote, DoubleQuote} \subseteq Nat /\ Backslash \notin {Quote, DoubleQuote} /\ Quote # DoubleQuote
  BY Marks
<1>3. \A t \in Seq(Nat), d \in Nat : Append(t, d) \in Seq(Nat) /\ UnquoteState(Append(t, d)) = UnquoteNext(UnquoteState(t), d)
  BY UnquoteFacts, Grows
<1>4. /\ UnquoteNext(Unquoted("plain", w), c) = Unquoted("plain", v)
      /\ UnquoteNext(Unquoted("plain", w), Backslash) = Unquoted("escaped", w)
      /\ UnquoteNext(Unquoted("plain", w), Quote) = Unquoted("single", w)
      /\ UnquoteNext(Unquoted("plain", w), DoubleQuote) = Unquoted("double", w)
  <2>1. /\ TokenMode("plain", c) = "plain" /\ TokenMode("plain", Backslash) = "escaped"
        /\ TokenMode("plain", Quote) = "single" /\ TokenMode("plain", DoubleQuote) = "double"
    BY <1>1, <1>2 DEF TokenMode, Opens
  <2>2. \A d \in Nat : UnquoteNext(Unquoted("plain", w), d)
          = Unquoted(TokenMode("plain", d), IF TokenMode("plain", d) = "plain" THEN Append(w, d) ELSE w)
    BY UnquotedFields DEF UnquoteNext
  <2> QED
    BY <1>1, <1>2, <2>1, <2>2
<1>5. UnquoteNext(Unquoted("escaped", w), c) = Unquoted("plain", v)
  <2> DEFINE x == Unquoted("escaped", w)
  <2>1. x.mode = "escaped" /\ x.out = w
    BY UnquotedFields
  <2> HIDE DEF x
  <2>2. UnquoteNext(x, c) = Unquoted("plain", Append(x.out, c))
    BY <2>1 DEF UnquoteNext
  <2> QED
    BY <2>1, <2>2 DEF x
<1>6. /\ UnquoteNext(Unquoted("single", w), c) = Unquoted("single", v)
      /\ UnquoteNext(Unquoted("single", v), Quote) = Unquoted("plain", v)
  <2>1. TokenMode("single", c) = "single" /\ TokenMode("single", Quote) = "plain"
    BY <1>1 DEF TokenMode
  <2>2. \A d, o : UnquoteNext(Unquoted("single", o), d)
          = Unquoted(TokenMode("single", d), IF TokenMode("single", d) = "single" THEN Append(o, d) ELSE o)
    BY UnquotedFields DEF UnquoteNext
  <2> QED
    BY <2>1, <2>2
<1>7. /\ UnquoteNext(Unquoted("double", w), c) = Unquoted("double", v)
      /\ UnquoteNext(Unquoted("double", v), DoubleQuote) = Unquoted("plain", v)
  <2>1. TokenMode("double", c) = "double" /\ TokenMode("double", DoubleQuote) = "plain"
    BY <1>1 DEF TokenMode
  <2>2. \A d, o : d # Backslash => UnquoteNext(Unquoted("double", o), d)
          = Unquoted(TokenMode("double", d), IF TokenMode("double", d) = "double" THEN Append(o, d) ELSE o)
    BY UnquotedFields DEF UnquoteNext
  <2> QED
    BY <1>1, <1>2, <2>1, <2>2
<1> HIDE DEF c, v
<1>8. CASE RawSpelled(l) = <<c>>
  <2>1. s \o <<c>> = Append(s, c)
    BY <1>1, Appends
  <2> QED
    BY <1>1, <1>3, <1>4, <1>8, <2>1 DEF c, v
<1>9. CASE RawSpelled(l) = <<Backslash, c>>
  <2>1. s \o <<Backslash, c>> = Append(Append(s, Backslash), c)
    BY <1>1, <1>2, Appends
  <2>2. UnquoteState(Append(s, Backslash)) = Unquoted("escaped", w) /\ Append(s, Backslash) \in Seq(Nat)
    BY <1>2, <1>3, <1>4
  <2>3. UnquoteState(Append(Append(s, Backslash), c)) = Unquoted("plain", v)
    BY <1>1, <1>3, <1>5, <2>2
  <2> QED
    BY <1>9, <2>1, <2>3 DEF c, v
<1>10. ASSUME NEW q \in {Quote, DoubleQuote}, RawSpelled(l) = <<q, c, q>>
       PROVE  UnquoteState(s \o RawSpelled(l)) = Unquoted("plain", v)
  <2>1. s \o <<q, c, q>> = Append(Append(Append(s, q), c), q)
    BY <1>1, <1>2, Appends
  <2>2. UnquoteState(Append(s, q)) = UnquoteNext(Unquoted("plain", w), q) /\ Append(s, q) \in Seq(Nat)
    BY <1>2, <1>3
  <2>3. /\ UnquoteState(Append(Append(s, q), c)) = UnquoteNext(UnquoteNext(Unquoted("plain", w), q), c)
        /\ Append(Append(s, q), c) \in Seq(Nat)
    BY <1>1, <1>3, <2>2
  <2>4. UnquoteState(Append(Append(Append(s, q), c), q))
          = UnquoteNext(UnquoteNext(UnquoteNext(Unquoted("plain", w), q), c), q)
    BY <1>2, <1>3, <2>3
  <2>5. UnquoteNext(UnquoteNext(UnquoteNext(Unquoted("plain", w), q), c), q) = Unquoted("plain", v)
    BY <1>4, <1>6, <1>7
  <2> QED
    BY <1>10, <2>1, <2>4, <2>5
<1> QED
  BY <1>8, <1>9, <1>10, RawForms DEF c, v

(* What a raw spelling begins with, and that it holds no white space.             *)
LEMMA RawCharacters ==
  ASSUME NEW l \in Letter
  PROVE  /\ RawSpelled(l) # <<>> /\ Len(RawSpelled(l)) \in Nat
         /\ \A i \in 1..Len(RawSpelled(l)) : RawSpelled(l)[i] \notin Whitespace
         /\ RawSpelled(l)[1] \notin CommentMark \cup {Slash}
         /\ (\A i \in 1..Len(RawSpelled(l)) : RawSpelled(l)[i] \in Plain) => RawSpelled(l) = <<l.ch>>
<1> DEFINE c == l.ch
<1>1. c \in Nat /\ c \notin Whitespace \cup CommentMark \cup {Slash}
  BY RawForms, PlainFacts
<1>2. \A q \in {Backslash, Quote, DoubleQuote} : q \in Nat /\ q \notin Whitespace \cup CommentMark \cup {Slash} \cup Plain
  BY Marks
<1> HIDE DEF c
<1>3. CASE RawSpelled(l) = <<c>>
  <2>1. Len(<<c>>) = 1 /\ <<c>>[1] = c /\ <<c>> # <<>>
    BY <1>1
  <2> QED
    BY <1>1, <1>3, <2>1 DEF c
<1>4. CASE RawSpelled(l) = <<Backslash, c>>
  <2> DEFINE r == <<Backslash, c>>
  <2>1. Len(r) = 2 /\ r[1] = Backslash /\ r[2] = c /\ r # <<>>
    BY <1>1, <1>2
  <2>2. \A i \in 1..2 : i = 1 \/ i = 2
    OBVIOUS
  <2> HIDE DEF r
  <2>3. r[1] \notin Plain /\ 1 \in 1..Len(r)
    BY <1>2, <2>1
  <2>4. RawSpelled(l) = r
    BY <1>4 DEF r
  <2>5. /\ r # <<>> /\ Len(r) \in Nat /\ (\A i \in 1..Len(r) : r[i] \notin Whitespace)
        /\ r[1] \notin CommentMark \cup {Slash}
    BY <1>1, <1>2, <2>1, <2>2
  <2> QED
    BY <2>3, <2>4, <2>5
<1>5. ASSUME NEW q \in {Quote, DoubleQuote}, RawSpelled(l) = <<q, c, q>>
      PROVE  /\ RawSpelled(l) # <<>> /\ Len(RawSpelled(l)) \in Nat
             /\ \A i \in 1..Len(RawSpelled(l)) : RawSpelled(l)[i] \notin Whitespace
             /\ RawSpelled(l)[1] \notin CommentMark \cup {Slash}
             /\ 1 \in 1..Len(RawSpelled(l)) /\ RawSpelled(l)[1] \notin Plain
  <2> DEFINE r == <<q, c, q>>
  <2>1. Len(r) = 3 /\ r[1] = q /\ r[2] = c /\ r[3] = q /\ r # <<>>
    BY <1>1, <1>2
  <2>2. \A i \in 1..3 : i = 1 \/ i = 2 \/ i = 3
    OBVIOUS
  <2> HIDE DEF r
  <2>3. r[1] \notin Plain /\ 1 \in 1..Len(r)
    BY <1>2, <2>1
  <2>4. RawSpelled(l) = r
    BY <1>5 DEF r
  <2>5. /\ r # <<>> /\ Len(r) \in Nat /\ (\A i \in 1..Len(r) : r[i] \notin Whitespace)
        /\ r[1] \notin CommentMark \cup {Slash}
    BY <1>1, <1>2, <2>1, <2>2
  <2> QED
    BY <2>3, <2>4, <2>5
<1> QED
  BY <1>3, <1>4, <1>5, RawForms DEF c

(* What a text is made of when another one follows.                              *)
LEMMA FirstPart ==
  ASSUME NEW a \in Seq(Nat), NEW b \in Seq(Nat)
  PROVE  /\ a \o b \in Seq(Nat) /\ Len(a \o b) = Len(a) + Len(b) /\ Len(a) \in Nat /\ Len(b) \in Nat
         /\ (\A i \in 1..Len(a) : (a \o b)[i] = a[i])
         /\ (\A i \in 1..Len(b) : (a \o b)[Len(a) + i] = b[i])
         /\ (\A i \in 1..Len(a \o b) : i \in 1..Len(a) \/ i - Len(a) \in 1..Len(b))
         /\ (\A i \in 1..Len(a \o b) : i - Len(a) \in 1..Len(b) => (a \o b)[i] = b[i - Len(a)])
<1> DEFINE t == a \o b
<1>1. /\ t \in Seq(Nat) /\ Len(t) = Len(a) + Len(b) /\ Len(a) \in Nat /\ Len(b) \in Nat
      /\ \A i \in 1..Len(a) + Len(b) : t[i] = IF i <= Len(a) THEN a[i] ELSE b[i - Len(a)]
  BY ConcatProperties, LenProperties
<1> HIDE DEF t
<1>2. \A i \in 1..Len(a) : t[i] = a[i]
  BY <1>1
<1>3. ASSUME NEW i \in 1..Len(b) PROVE t[Len(a) + i] = b[i]
  <2>1. Len(a) + i \in 1..Len(a) + Len(b) /\ ~(Len(a) + i <= Len(a)) /\ (Len(a) + i) - Len(a) = i
    BY <1>1
  <2> QED
    BY <1>1, <2>1
<1>4. \A i \in 1..Len(t) : i \in 1..Len(a) \/ i - Len(a) \in 1..Len(b)
  BY <1>1
<1>5. \A i \in 1..Len(t) : i - Len(a) \in 1..Len(b) => t[i] = b[i - Len(a)]
  BY <1>1
<1> QED
  BY <1>1, <1>2, <1>3, <1>4, <1>5 DEF t

(* A text that holds no character with a meaning is one of plain characters.      *)
LEMMA PlainText ==
  ASSUME NEW s \in Seq(Nat), \A i \in 1..Len(s) : s[i] \in Plain
  PROVE  s \in Seq(Plain)
<1>1. Len(s) \in Nat /\ s \in [1..Len(s) -> Nat]
  BY LenProperties
<1>2. s \in [1..Len(s) -> Plain]
  BY <1>1
<1> QED
  BY <1>1, <1>2, SeqDef

(* However a name is spelled, what is left on its line is one token outside quotes; *)
(* `unquote` returns the name, and if it has nothing to remove the token is it.     *)
ReadsAs(letters, raw) ==
  /\ Mode(raw) = "plain"
  /\ UnquoteState(raw) = Unquoted("plain", Word(letters))
  /\ \A i \in 1..Len(raw) : raw[i] \notin Whitespace
  /\ raw # <<>> => raw[1] \notin CommentMark \cup {Slash}
  /\ raw \in Seq(Plain) => raw = Word(letters)

(* Every spelling is one token that reads as the name.                       *)
LEMMA RawReads == \A ls \in Seq(Letter) : ReadsAs(ls, Raw(ls)) /\ (ls # <<>> => Raw(ls) # <<>>)
<1> DEFINE T == {ls \in Seq(Letter) : ReadsAs(ls, Raw(ls)) /\ (ls # <<>> => Raw(ls) # <<>>)}
<1>1. <<>> \in T
  <2>1. Raw(<<>>) = <<>> /\ Word(<<>>) = <<>> /\ <<>> \in Seq(Letter) /\ Len(<<>>) = 0
    BY RawGrows, WordGrows, EmptySeq
  <2>2. Mode(<<>>) = "plain" /\ UnquoteState(<<>>) = Unquoted("plain", <<>>)
    BY ModeFacts, UnquoteFacts DEF NothingUnquoted
  <2>3. ReadsAs(<<>>, <<>>)
    BY <2>1, <2>2 DEF ReadsAs
  <2> QED
    BY <2>1, <2>3
<1>2. ASSUME NEW ls \in Seq(Letter), NEW l \in Letter, ReadsAs(ls, Raw(ls))
      PROVE  ReadsAs(Append(ls, l), Raw(Append(ls, l))) /\ Raw(Append(ls, l)) # <<>>
  <2> DEFINE r == Raw(ls)
             p == RawSpelled(l)
             w == Word(ls)
             t == r \o p
  <2>1. /\ r \in Seq(Nat) /\ p \in Seq(Nat) /\ w \in Seq(Nat)
        /\ Raw(Append(ls, l)) = t /\ Word(Append(ls, l)) = Append(w, l.ch)
    BY RawGrows, WordGrows, SpelledTyped
  <2>2. /\ t \in Seq(Nat) /\ Len(t) = Len(r) + Len(p) /\ Len(r) \in Nat /\ Len(p) \in Nat
        /\ (\A i \in 1..Len(r) : t[i] = r[i])
        /\ (\A i \in 1..Len(p) : t[Len(r) + i] = p[i])
        /\ (\A i \in 1..Len(t) : i \in 1..Len(r) \/ i - Len(r) \in 1..Len(p))
        /\ (\A i \in 1..Len(t) : i - Len(r) \in 1..Len(p) => t[i] = p[i - Len(r)])
    <3> HIDE DEF r, p
    <3> QED
      BY <2>1, FirstPart
  <2>3. /\ p # <<>> /\ (\A i \in 1..Len(p) : p[i] \notin Whitespace) /\ p[1] \notin CommentMark \cup {Slash}
        /\ (\A i \in 1..Len(p) : p[i] \in Plain) => p = <<l.ch>>
    BY RawCharacters
  <2>4. /\ Mode(r) = "plain" /\ UnquoteState(r) = Unquoted("plain", w)
        /\ (\A i \in 1..Len(r) : r[i] \notin Whitespace)
        /\ (r # <<>> => r[1] \notin CommentMark \cup {Slash})
        /\ (r \in Seq(Plain) => r = w)
    BY <1>2 DEF ReadsAs
  <2>5. Mode(t) = "plain"
    <3> HIDE DEF r
    <3> QED
      BY <2>1, <2>4, ModePieces
  <2>6. UnquoteState(t) = Unquoted("plain", Append(w, l.ch))
    <3> HIDE DEF r, w
    <3> QED
      BY <2>1, <2>4, UnquotePieces
  <2> HIDE DEF r, p, w, t
  <2>7. \A i \in 1..Len(t) : t[i] \notin Whitespace
    BY <2>2, <2>3, <2>4
  <2>8. Len(p) # 0 /\ Len(t) # 0 /\ t # <<>>
    <3>1. Len(p) \in Nat \ {0}
      BY <2>1, <2>3, EmptySeq
    <3>2. Len(<<>>) = 0
      OBVIOUS
    <3> QED
      BY <2>2, <3>1, <3>2
  <2>9. t[1] \notin CommentMark \cup {Slash}
    <3>1. CASE r = <<>>
      <4>1. t = p
        BY <2>1, <3>1, ConcatEmptySeq DEF t
      <4> QED
        BY <2>3, <4>1
    <3>2. CASE r # <<>>
      <4>1. Len(r) \in Nat \ {0}
        BY <2>1, <3>2, EmptySeq
      <4>2. 1 \in 1..Len(r)
        BY <4>1
      <4> QED
        BY <2>2, <2>4, <3>2, <4>2
    <3> QED
      BY <3>1, <3>2
  <2>10. t \in Seq(Plain) => t = Append(w, l.ch)
    <3> SUFFICES ASSUME t \in Seq(Plain) PROVE t = Append(w, l.ch)
      OBVIOUS
    <3>1. \A i \in 1..Len(t) : t[i] \in Plain
      BY ElementOfSeq
    <3>2. (\A i \in 1..Len(r) : i \in 1..Len(t)) /\ (\A i \in 1..Len(p) : Len(r) + i \in 1..Len(t))
      BY <2>2
    <3>3. (\A i \in 1..Len(r) : r[i] \in Plain) /\ (\A i \in 1..Len(p) : p[i] \in Plain)
      BY <2>2, <3>1, <3>2
    <3>4. r = w
      BY <2>1, <2>4, <3>3, PlainText
    <3>5. p = <<l.ch>>
      BY <2>3, <3>3
    <3>6. l.ch \in Nat
      BY RawForms, PlainFacts
    <3>7. r \o <<l.ch>> = Append(r, l.ch)
      BY <2>1, <3>6, Appends
    <3> QED
      BY <3>4, <3>5, <3>7 DEF t
  <2> QED
    BY <2>1, <2>5, <2>6, <2>7, <2>8, <2>9, <2>10 DEF ReadsAs
<1>3. Seq(Letter) \subseteq T
  <2>1. \A ls \in Seq(Letter), l \in Letter : Append(ls, l) \in Seq(Letter)
    BY AppendProperties
  <2>2. \A ls \in Seq(Letter), l \in Letter : ls \in T => Append(ls, l) \in T
    BY <1>2, <2>1
  <2> HIDE DEF T
  <2> QED
    BY <1>1, <2>2, SequenceInduction
<1> QED
  BY <1>3

-----------------------------------------------------------------------------
(* The least number of a set.                                                  *)
LEMMA MinBelongs ==
  ASSUME NEW S, S # {}, S \subseteq Nat
  PROVE  Min(S) \in S /\ \A x \in S : Min(S) <= x
<1>1. \E m \in S : \A n \in S : m <= n
  BY LeastNatural
<1> QED
  BY <1>1 DEF Min

(* The end of a comment that the tokenizer skips.                                *)
LEMMA ClosesFacts ==
  ASSUME NEW row \in Seq(Nat), NEW i \in 1..Len(row), Closes(row, i) # {}
  PROVE  Min(Closes(row, i)) \in Nat /\ i < Min(Closes(row, i)) + 2 /\ Min(Closes(row, i)) + 2 <= Len(row) + 1
<1>1. Len(row) \in Nat
  BY LenProperties
<1>2. \A j \in Closes(row, i) : j \in Nat /\ i <= j /\ j <= Len(row) - 1
  BY <1>1 DEF Closes
<1>3. Min(Closes(row, i)) \in Closes(row, i)
  <2>1. Closes(row, i) \subseteq Nat
    BY <1>2
  <2> QED
    BY <2>1, MinBelongs
<1> QED
  BY <1>1, <1>2, <1>3

(* Skipping ends, at a place that follows from what is skipped.                   *)
SkipsTo(row) == [at : 1..Len(row) + 1, result : {"Ok", "Err"}]

(* The function that skips comments exists: each step looks further on.      *)
LEMMA SkipsUnfold ==
  ASSUME NEW row \in Seq(Nat)
  PROVE  \A i \in 1..(Len(row) + 1) : Skips(row)[i] = SkipFrom(row, Skips(row), i)
<1> DEFINE n == Len(row)
           D == 1..(n + 1)
           B == SkipsTo(row)
           m == [i \in D |-> n + 1 - i]
           F == [x \in D \X [D -> B] |-> SkipFrom(row, x[2], x[1])]
           S == CHOOSE s : s = [i \in D |-> SkipFrom(row, s, i)]
<1>1. n \in Nat
  BY LenProperties
<1>2. m \in [D -> 0..n] /\ B # {}
  <2>1. [at |-> 1, result |-> "Ok"] \in B
    BY <1>1 DEF SkipsTo
  <2>2. m \in [D -> 0..n]
    BY <1>1
  <2> QED
    BY <2>1, <2>2
<1>3. \A i \in D : [at |-> i, result |-> "Ok"] \in B /\ [at |-> i, result |-> "Err"] \in B
  BY <1>1 DEF SkipsTo
<1>4. ASSUME NEW i \in D, ~(i > n), Closes(row, i) # {}
      PROVE  Min(Closes(row, i)) + 2 \in D /\ i < Min(Closes(row, i)) + 2
  <2> DEFINE k == Min(Closes(row, i))
  <2>1. i \in 1..n
    BY <1>1, <1>4
  <2>2. k \in Nat /\ i < k + 2 /\ k + 2 <= n + 1
    BY <1>4, <2>1, ClosesFacts
  <2> HIDE DEF k
  <2> QED
    BY <1>1, <2>2 DEF k
<1>5. ASSUME NEW i \in D, NEW g \in [D -> B] PROVE SkipFrom(row, g, i) \in B
  <2>1. n + 1 \in D /\ (~(i > n) => i + 1 \in D)
    BY <1>1
  <2> HIDE DEF D, B, n
  <2> QED
    BY <1>3, <1>4, <2>1 DEF SkipFrom, n
<1>6. F \in [D \X [D -> B] -> B]
  <2>1. \A x \in D \X [D -> B] : x[1] \in D /\ x[2] \in [D -> B]
    OBVIOUS
  <2>2. \A x \in D \X [D -> B] : SkipFrom(row, x[2], x[1]) \in B
    <3> HIDE DEF D, B
    <3> QED
      BY <1>5, <2>1
  <2> HIDE DEF D, B
  <2> QED
    BY <2>2
<1>7. ASSUME NEW i \in D, NEW g \in [D -> B], NEW h \in [D -> B],
             \A j \in D : m[j] < m[i] => g[j] = h[j]
      PROVE  F[<<i, g>>] = F[<<i, h>>]
  <2>1. \A j \in D : i < j => g[j] = h[j]
    <3>1. \A j \in D : i < j => m[j] < m[i]
      BY <1>1
    <3> QED
      BY <1>7, <3>1
  <2>2. ~(i > n) => i + 1 \in D /\ i < i + 1
    BY <1>1
  <2>3. SkipFrom(row, g, i) = SkipFrom(row, h, i)
    <3> HIDE DEF D, B, n
    <3> QED
      BY <1>4, <2>1, <2>2 DEF SkipFrom, n
  <2> QED
    BY <2>3
<1>8. Grounded(D, B, n, m, F)
  <2>1. \A i \in D : \A g, h \in [D -> B] :
          (\A j \in D : m[j] < m[i] => g[j] = h[j]) => F[<<i, g>>] = F[<<i, h>>]
    BY <1>7
  <2> HIDE DEF D, B, m, F, n
  <2> QED
    BY <1>1, <1>2, <1>6, <2>1 DEF Grounded
<1>9. PICK f \in [D -> B] : \A i \in D : f[i] = F[<<i, f>>]
  <2> HIDE DEF D, B, m, F, n
  <2> QED
    BY <1>8, RecursionExists
<1>10. f = [i \in D |-> SkipFrom(row, f, i)]
  BY <1>9
<1>11. S = [i \in D |-> SkipFrom(row, S, i)]
  <2> HIDE DEF D
  <2> QED
    BY <1>10
<1>12. Skips(row) = S
  BY DEF Skips
<1> HIDE DEF S
<1>13. ASSUME NEW i \in D PROVE S[i] = SkipFrom(row, S, i)
  BY <1>11
<1> QED
  BY <1>12, <1>13

(* What follows from the numbers behind holds for every number up to a last one.     *)
LEMMA Backward ==
  ASSUME NEW n \in Nat, NEW T,
         \A i \in 1..(n + 1) : (\A j \in 1..(n + 1) : i < j => j \in T) => i \in T
  PROVE  1..(n + 1) \subseteq T
<1> DEFINE D == 1..(n + 1)
           U == {k \in Nat : \A i \in D : n + 1 - i < k => i \in T}
<1>1. 0 \in U
  OBVIOUS
<1>2. ASSUME NEW k \in Nat, k \in U PROVE k + 1 \in U
  <2> SUFFICES ASSUME NEW i \in D, n + 1 - i < k + 1 PROVE i \in T
    OBVIOUS
  <2>1. \A j \in D : i < j => n + 1 - j < k
    OBVIOUS
  <2>2. \A j \in D : i < j => j \in T
    BY <1>2, <2>1
  <2> QED
    BY <2>2
<1>3. Nat \subseteq U
  <2> HIDE DEF U
  <2> QED
    BY <1>1, <1>2, NaturalInduction
<1>4. n + 1 \in U
  <2> HIDE DEF U
  <2> QED
    BY <1>3
<1>5. \A i \in D : n + 1 - i < n + 1
  OBVIOUS
<1> QED
  BY <1>4, <1>5

(* It never goes back, and past white space it goes on.                          *)
LEMMA SkipAhead ==
  ASSUME NEW row \in Seq(Nat)
  PROVE  \A i \in 1..(Len(row) + 1) :
           /\ Skip(row, i).at \in i..(Len(row) + 1)
           /\ i <= Len(row) /\ row[i] \in Whitespace => i < Skip(row, i).at
<1> DEFINE n == Len(row)
           D == 1..(n + 1)
           to(i) == Skips(row)[i].at
           Ahead(i) == to(i) \in i..(n + 1) /\ (i <= n /\ row[i] \in Whitespace => i < to(i))
           T == {i \in D : Ahead(i)}
<1>1. n \in Nat
  BY LenProperties
<1>2. ASSUME NEW i \in D, \A j \in D : i < j => j \in T PROVE i \in T
  <2>1. Skips(row)[i] = SkipFrom(row, Skips(row), i)
    BY SkipsUnfold
  <2>2. \A j \in D : i < j => to(j) \in Int /\ i < to(j) /\ to(j) <= n + 1
    <3>1. \A j \in D : i < j => to(j) \in j..(n + 1)
      BY <1>2
    <3> HIDE DEF to
    <3> QED
      BY <1>1, <3>1
  <2>3. \A k, r : [at |-> k, result |-> r].at = k
    OBVIOUS
  <2>4. CASE i > n
    <3>1. to(i) = i
      BY <2>1, <2>3, <2>4 DEF SkipFrom
    <3> HIDE DEF to
    <3> QED
      BY <1>1, <2>4, <3>1
  <2>5. CASE i <= n /\ row[i] \in Whitespace
    <3>1. to(i) = to(i + 1) /\ i + 1 \in D
      BY <1>1, <2>1, <2>5 DEF SkipFrom
    <3> HIDE DEF to
    <3> QED
      BY <1>1, <2>2, <3>1
  <2>6. CASE i <= n /\ row[i] \notin Whitespace
    <3>1. \/ to(i) = n + 1
          \/ to(i) = i
          \/ Closes(row, i) # {} /\ to(i) = to(Min(Closes(row, i)) + 2)
      BY <1>1, <2>1, <2>3, <2>6 DEF SkipFrom
    <3>2. Closes(row, i) # {} => Min(Closes(row, i)) + 2 \in D /\ i < Min(Closes(row, i)) + 2
      <4> SUFFICES ASSUME Closes(row, i) # {}
                   PROVE  Min(Closes(row, i)) + 2 \in D /\ i < Min(Closes(row, i)) + 2
        OBVIOUS
      <4> DEFINE k == Min(Closes(row, i))
      <4>1. i \in 1..n
        BY <1>1, <2>6
      <4>2. k \in Nat /\ i < k + 2 /\ k + 2 <= n + 1
        BY <4>1, ClosesFacts
      <4> HIDE DEF k
      <4> QED
        BY <1>1, <4>2 DEF k
    <3>3. to(i) \in i..(n + 1)
      <4> HIDE DEF to
      <4> QED
        BY <1>1, <2>2, <3>1, <3>2
    <3> HIDE DEF to
    <3> QED
      BY <2>6, <3>3
  <2> QED
    BY <1>1, <2>4, <2>5, <2>6
<1>3. D \subseteq T
  <2> HIDE DEF T
  <2> QED
    BY <1>1, <1>2, Backward
<1> QED
  BY <1>3 DEF Skip

-----------------------------------------------------------------------------
(* A token does not end before it begins, and where it ends at once there is white  *)
(* space; so the next token begins behind.                                     *)
LEMMA TokenEndFacts ==
  ASSUME NEW row \in Seq(Nat), NEW i \in 1..Len(row)
  PROVE  /\ TokenEnd(row, i) \in i..(Len(row) + 1)
         /\ TokenEnd(row, i) = i => row[i] \in Whitespace
<1> DEFINE n == Len(row)
           S == {j \in i..n : row[j] \in Whitespace /\ Mode(SubSeq(row, i, j - 1)) = "plain"} \cup {n + 1}
<1>1. n \in Nat
  BY LenProperties
<1>2. n + 1 \in S /\ S \subseteq i..(n + 1) /\ (i \in S => row[i] \in Whitespace)
  BY <1>1
<1>3. TokenEnd(row, i) = Min(S)
  BY DEF TokenEnd
<1> HIDE DEF S
<1>4. Min(S) \in S
  <2>1. S # {} /\ S \subseteq Nat
    BY <1>1, <1>2
  <2> QED
    BY <2>1, MinBelongs
<1>5. Min(S) \in i..(n + 1) /\ (Min(S) = i => row[i] \in Whitespace)
  BY <1>2, <1>4
<1> QED
  BY <1>3, <1>5

(* After a token the tokenizer has moved on, so it comes to an end.          *)
LEMMA NextToken ==
  ASSUME NEW row \in Seq(Nat), NEW i \in 1..Len(row)
  PROVE  Skip(row, TokenEnd(row, i)).at \in (i + 1)..(Len(row) + 1)
<1> DEFINE n == Len(row)
           e == TokenEnd(row, i)
           to == Skip(row, e).at
<1>1. n \in Nat
  BY LenProperties
<1>2. e \in i..(n + 1) /\ (e = i => row[i] \in Whitespace)
  BY TokenEndFacts
<1> HIDE DEF e
<1>3. to \in e..(n + 1) /\ (e <= n /\ row[e] \in Whitespace => e < to)
  <2>1. e \in 1..(n + 1)
    BY <1>1, <1>2
  <2> QED
    BY <2>1, SkipAhead
<1> HIDE DEF to
<1>4. to \in (i + 1)..(n + 1)
  BY <1>1, <1>2, <1>3
<1> QED
  BY <1>4 DEF to, e

(* The function that collects tokens exists, for the same reason.            *)
LEMMA TokensUnfold ==
  ASSUME NEW row \in Seq(Nat)
  PROVE  \A i \in 1..(Len(row) + 1) :
           Tokens(row)[i] \in Seq(Seq(Nat)) /\ Tokens(row)[i] = TokensFrom(row, Tokens(row), i)
<1> DEFINE n == Len(row)
           D == 1..(n + 1)
           B == Seq(Seq(Nat))
           next(i) == Skip(row, TokenEnd(row, i)).at
           token(i) == SubSeq(row, i, TokenEnd(row, i) - 1)
           m == [i \in D |-> n + 1 - i]
           F == [x \in D \X [D -> B] |-> TokensFrom(row, x[2], x[1])]
           S == CHOOSE s : s = [i \in D |-> TokensFrom(row, s, i)]
<1>1. n \in Nat
  BY LenProperties
<1>2. m \in [D -> 0..n] /\ <<>> \in B
  BY <1>1, EmptySeq
<1>3. \A i \in D : ~(i > n) => i \in 1..n
  BY <1>1
<1>4. ASSUME NEW i \in 1..n PROVE next(i) \in D /\ i < next(i)
  <2>1. next(i) \in (i + 1)..(n + 1)
    BY NextToken
  <2> HIDE DEF next
  <2> QED
    BY <1>1, <2>1
<1>5. ASSUME NEW i \in 1..n PROVE <<token(i)>> \in B
  <2> DEFINE e == TokenEnd(row, i)
  <2>1. e \in i..(n + 1)
    BY TokenEndFacts
  <2> HIDE DEF e
  <2>2. i \in Int /\ e - 1 \in Int /\ \A j \in i..(e - 1) : row[j] \in Nat
    <3>1. \A j \in i..(e - 1) : j \in 1..n
      BY <1>1, <2>1
    <3> QED
      BY <1>1, <2>1, <3>1, ElementOfSeq
  <2>3. SubSeq(row, i, e - 1) \in Seq(Nat)
    BY <2>2, SubSeqProperties
  <2>4. \A t \in Seq(Nat) : <<t>> \in Seq(Seq(Nat))
    OBVIOUS
  <2> QED
    BY <2>3, <2>4 DEF e
<1> HIDE DEF next, token
<1>6. \A i, g : TokensFrom(row, g, i) = IF i > n THEN <<>> ELSE <<token(i)>> \o g[next(i)]
  BY DEF TokensFrom, token, next
<1>7. \A a, b \in B : a \o b \in B
  BY ConcatProperties
<1>8. ASSUME NEW i \in D, NEW g, \A j \in D : i < j => g[j] \in B PROVE TokensFrom(row, g, i) \in B
  <2> HIDE DEF D, B
  <2> QED
    BY <1>2, <1>3, <1>4, <1>5, <1>6, <1>7, <1>8
<1>9. F \in [D \X [D -> B] -> B]
  <2>1. \A x \in D \X [D -> B] : x[1] \in D /\ x[2] \in [D -> B]
    OBVIOUS
  <2>2. \A x \in D \X [D -> B] : TokensFrom(row, x[2], x[1]) \in B
    <3> HIDE DEF D, B
    <3> QED
      BY <1>8, <2>1
  <2> HIDE DEF D, B
  <2> QED
    BY <2>2
<1>10. ASSUME NEW i \in D, NEW g \in [D -> B], NEW h \in [D -> B],
              \A j \in D : m[j] < m[i] => g[j] = h[j]
       PROVE  F[<<i, g>>] = F[<<i, h>>]
  <2>1. \A j \in D : i < j => m[j] < m[i]
    BY <1>1
  <2>2. TokensFrom(row, g, i) = TokensFrom(row, h, i)
    <3> HIDE DEF D, B, m
    <3> QED
      BY <1>3, <1>4, <1>6, <1>10, <2>1
  <2> QED
    BY <2>2
<1>11. Grounded(D, B, n, m, F)
  <2>1. \A i \in D : \A g, h \in [D -> B] :
          (\A j \in D : m[j] < m[i] => g[j] = h[j]) => F[<<i, g>>] = F[<<i, h>>]
    BY <1>10
  <2> HIDE DEF D, B, m, F, n
  <2> QED
    BY <1>1, <1>2, <1>9, <2>1 DEF Grounded
<1>12. PICK f \in [D -> B] : \A i \in D : f[i] = F[<<i, f>>]
  <2> HIDE DEF D, B, m, F, n
  <2> QED
    BY <1>11, RecursionExists
<1>13. f = [i \in D |-> TokensFrom(row, f, i)]
  BY <1>12
<1>14. S = [i \in D |-> TokensFrom(row, S, i)]
  <2> HIDE DEF D
  <2> QED
    BY <1>13
<1>15. Tokens(row) = S
  BY DEF Tokens
<1> HIDE DEF S
<1>16. \A i \in D : S[i] = TokensFrom(row, S, i)
  BY <1>14
<1> DEFINE T == {i \in D : S[i] \in B}
<1>17. ASSUME NEW i \in D, \A j \in D : i < j => j \in T PROVE i \in T
  <2> HIDE DEF D, B
  <2> QED
    BY <1>8, <1>16, <1>17
<1>18. D \subseteq T
  <2> HIDE DEF T
  <2> QED
    BY <1>1, <1>17, Backward
<1> QED
  BY <1>15, <1>16, <1>18

(* The characters from k + 1 on.                                               *)
LEMMA MiddlePart ==
  ASSUME NEW s \in Seq(Nat), NEW r \in Seq(Nat), NEW k \in Nat, k + Len(r) <= Len(s),
         \A i \in 1..Len(r) : s[k + i] = r[i]
  PROVE  SubSeq(s, k + 1, k + Len(r)) = r
<1> DEFINE f == k + 1
           g == k + Len(r)
           t == SubSeq(s, f, g)
<1>1. Len(r) \in Nat /\ Len(s) \in Nat /\ \A i \in 1..Len(s) : s[i] \in Nat
  BY LenProperties, ElementOfSeq
<1>2. f \in Int /\ g \in Int /\ (\A j \in f..g : j \in 1..Len(s))
  BY <1>1
<1>3. g - f + 1 = Len(r) /\ (f <= g <=> Len(r) # 0)
  BY <1>1
<1>4. \A i \in 1..Len(r) : f + i - 1 = k + i
  BY <1>1
<1> HIDE DEF f, g
<1>5. \A j \in f..g : s[j] \in Nat
  BY <1>1, <1>2
<1>6. /\ t \in Seq(Nat) /\ Len(t) = (IF f <= g THEN g - f + 1 ELSE 0)
      /\ \A i \in 1..(g - f + 1) : t[i] = s[f + i - 1]
  BY <1>2, <1>5, SubSeqProperties
<1> HIDE DEF t
<1>7. Len(t) = Len(r) /\ \A i \in 1..Len(r) : t[i] = r[i]
  BY <1>1, <1>3, <1>4, <1>6
<1>8. t = r
  BY <1>6, <1>7, SeqEqual
<1> QED
  BY <1>8 DEF t, f, g

(* The first token of a line: what stands between white space and white space, if it *)
(* is no comment and closes its quotes.                                        *)
LEMMA FirstToken ==
  ASSUME NEW a \in Seq(Nat), \A i \in 1..Len(a) : a[i] \in Whitespace,
         NEW r \in Seq(Nat), r # <<>>, Mode(r) = "plain", \A i \in 1..Len(r) : r[i] \notin Whitespace,
         r[1] \notin CommentMark \cup {Slash},
         NEW b \in Seq(Nat), b # <<>> => b[1] \in Whitespace
  PROVE  ParseLine((a \o r) \o b) # <<>> /\ Head(ParseLine((a \o r) \o b)) = r
<1> DEFINE row == (a \o r) \o b
           n == Len(row)
           k == Len(a)
           m == Len(r)
           e == k + 1 + m
<1>1. /\ a \o r \in Seq(Nat) /\ Len(a \o r) = k + m /\ k \in Nat /\ m \in Nat
      /\ (\A i \in 1..k : (a \o r)[i] = a[i])
      /\ (\A i \in 1..m : (a \o r)[k + i] = r[i])
  BY FirstPart
<1>2. /\ row \in Seq(Nat) /\ n = Len(a \o r) + Len(b) /\ Len(b) \in Nat
      /\ (\A i \in 1..Len(a \o r) : row[i] = (a \o r)[i])
      /\ (\A i \in 1..Len(b) : row[Len(a \o r) + i] = b[i])
  BY <1>1, FirstPart
<1>3. m # 0
  BY EmptySeq
<1> HIDE DEF row, k, m, n
<1>4. \A i \in 1..k : row[i] \in Whitespace
  <2>1. \A i \in 1..k : i \in 1..Len(a \o r)
    BY <1>1
  <2> QED
    BY <1>1, <1>2, <2>1 DEF k
<1>5. \A i \in 1..m : row[k + i] = r[i]
  <2>1. \A i \in 1..m : k + i \in 1..Len(a \o r)
    BY <1>1
  <2> QED
    BY <1>1, <1>2, <2>1
<1>6. /\ n = k + m + Len(b) /\ n \in Nat /\ k \in Nat /\ m \in Nat
      /\ k + 1 \in 1..n /\ k + 1 \in 1..(n + 1) /\ e \in 1..(n + 1)
  <2>1. Len(a \o r) = k + m /\ k \in Nat /\ m \in Nat /\ m # 0
    BY <1>1, <1>3
  <2>2. n = Len(a \o r) + Len(b) /\ Len(b) \in Nat
    BY <1>2
  <2> QED
    BY <2>1, <2>2
<1>7. row[k + 1] \notin Whitespace /\ row[k + 1] \notin CommentMark /\ row[k + 1] # Slash
  <2>1. 1 \in 1..m
    BY <1>1, <1>3
  <2>2. row[k + 1] = r[1] /\ r[1] \notin Whitespace
    BY <1>5, <2>1 DEF m
  <2> QED
    BY <2>2
<1>8. Skip(row, 1) = [at |-> k + 1, result |-> "Ok"]
  <2> DEFINE T == {i \in 1..(k + 1) : Skip(row, i) = [at |-> k + 1, result |-> "Ok"]}
  <2>1. \A i \in 1..(n + 1) : Skip(row, i) = SkipFrom(row, Skips(row), i)
    BY <1>2, SkipsUnfold DEF Skip, n
  <2>2. ASSUME NEW i \in 1..(k + 1), \A j \in 1..(k + 1) : i < j => j \in T PROVE i \in T
    <3>1. i \in 1..(n + 1) /\ ~(i > n)
      BY <1>6
    <3>2. CASE i = k + 1
      <4>1. SkipFrom(row, Skips(row), i) = [at |-> i, result |-> "Ok"]
        BY <1>7, <3>1, <3>2 DEF SkipFrom, n
      <4> QED
        BY <2>1, <3>1, <3>2, <4>1
    <3>3. CASE i # k + 1
      <4>1. i \in 1..k /\ i + 1 \in 1..(k + 1) /\ i < i + 1
        BY <1>6, <3>3
      <4>2. SkipFrom(row, Skips(row), i) = Skip(row, i + 1)
        BY <1>4, <3>1, <4>1 DEF SkipFrom, Skip, n
      <4> QED
        BY <2>1, <2>2, <3>1, <4>1, <4>2
    <3> QED
      BY <3>2, <3>3
  <2>3. 1..(k + 1) \subseteq T
    <3> HIDE DEF T
    <3> QED
      BY <1>1, <2>2, Backward
  <2> QED
    BY <1>1, <2>3
<1>9. SubSeq(row, k + 1, e - 1) = r
  <2>1. e - 1 = k + m /\ k + m <= n
    <3>1. Len(b) \in Nat
      BY <1>2
    <3> QED
      BY <1>6, <3>1
  <2>2. SubSeq(row, k + 1, k + m) = r
    BY <1>2, <1>5, <1>6, <2>1, MiddlePart DEF m, n
  <2> QED
    BY <2>1, <2>2
<1>10. TokenEnd(row, k + 1) = e
  <2> DEFINE S == {j \in (k + 1)..n : row[j] \in Whitespace /\ Mode(SubSeq(row, k + 1, j - 1)) = "plain"} \cup {n + 1}
  <2>1. e \in S
    <3>1. CASE b = <<>>
      <4>1. Len(b) = 0
        BY <3>1
      <4>2. e = n + 1
        BY <1>6, <4>1
      <4> QED
        BY <4>2
    <3>2. CASE b # <<>>
      <4>1. Len(b) # 0 /\ b[1] \in Whitespace
        BY <3>2, EmptySeq
      <4>2. 1 \in 1..Len(b) /\ e \in (k + 1)..n
        <5>1. Len(b) \in Nat
          BY <1>2
        <5> QED
          BY <1>6, <4>1, <5>1
      <4>3. row[e] \in Whitespace
        <5>1. row[Len(a \o r) + 1] = b[1]
          BY <1>2, <4>2
        <5>2. Len(a \o r) + 1 = e
          BY <1>1, <1>6
        <5> QED
          BY <4>1, <5>1, <5>2
      <4> HIDE DEF e
      <4> QED
        BY <1>9, <4>2, <4>3
    <3> QED
      BY <3>1, <3>2
  <2>2. ASSUME NEW j \in S PROVE j \in Nat /\ e <= j
    <3>1. CASE j = n + 1
      BY <1>6, <3>1
    <3>2. CASE j \in (k + 1)..n /\ row[j] \in Whitespace
      <4>1. j \in Nat /\ (~(e <= j) => j - k \in 1..m /\ k + (j - k) = j)
        BY <1>6, <3>2
      <4>2. j - k \in 1..m => row[k + (j - k)] = r[j - k] /\ r[j - k] \notin Whitespace
        BY <1>5 DEF m
      <4> QED
        BY <3>2, <4>1, <4>2
    <3> QED
      BY <3>1, <3>2
  <2>3. TokenEnd(row, k + 1) = Min(S)
    BY DEF TokenEnd, n
  <2> HIDE DEF S
  <2>4. Min(S) \in S /\ Min(S) <= e
    BY <2>1, <2>2, MinBelongs
  <2>5. e \in Nat
    BY <1>6
  <2> QED
    BY <2>2, <2>3, <2>4, <2>5
<1>11. Skip(row, e).at \in 1..(n + 1)
  <2>1. Skip(row, e).at \in e..(n + 1)
    BY <1>2, <1>6, SkipAhead DEF n
  <2> QED
    BY <1>6, <2>1
<1>12. Tokens(row)[k + 1] = <<r>> \o Tokens(row)[Skip(row, e).at]
  <2>1. Tokens(row)[k + 1] = TokensFrom(row, Tokens(row), k + 1)
    BY <1>2, <1>6, TokensUnfold DEF n
  <2>2. ~(k + 1 > n)
    BY <1>6
  <2>3. TokensFrom(row, Tokens(row), k + 1)
          = <<SubSeq(row, k + 1, TokenEnd(row, k + 1) - 1)>> \o Tokens(row)[Skip(row, TokenEnd(row, k + 1)).at]
    BY <2>2 DEF TokensFrom, n
  <2> QED
    BY <1>9, <1>10, <2>1, <2>3
<1>13. ParseLine(row) = <<r>> \o Tokens(row)[Skip(row, e).at]
  <2>1. Skip(row, 1).result = "Ok" /\ Skip(row, 1).at = k + 1
    BY <1>8
  <2>2. ParseLine(row) = Tokens(row)[k + 1]
    BY <2>1 DEF ParseLine
  <2> QED
    BY <1>12, <2>2
<1>14. ASSUME NEW t \in Seq(Seq(Nat)) PROVE <<r>> \o t # <<>> /\ Head(<<r>> \o t) = r
  <2>1. <<r>> \in Seq(Seq(Nat)) /\ Len(<<r>>) = 1 /\ <<r>>[1] = r
    OBVIOUS
  <2> DEFINE u == <<r>> \o t
  <2>2. u \in Seq(Seq(Nat)) /\ Len(u) = 1 + Len(t) /\ Len(t) \in Nat /\ u[1] = <<r>>[1]
    BY <2>1, ConcatProperties, LenProperties
  <2> HIDE DEF u
  <2>3. u # <<>> /\ Head(u) = u[1]
    BY <2>2
  <2> QED
    BY <2>1, <2>2, <2>3 DEF u
<1>15. Tokens(row)[Skip(row, e).at] \in Seq(Seq(Nat))
  BY <1>2, <1>11, TokensUnfold DEF n
<1> QED
  BY <1>13, <1>14, <1>15 DEF row

(* A text without line ends opens a line and closes none.                       *)
LEMMA OneLine ==
  ASSUME NEW row \in Seq(Nat), ~Has(row, LF)
  PROVE  CutText(row) = Cut(<<>>, row)
<1>1. CutText(<<>>) = Cut(<<>>, <<>>) /\ <<>> \in Seq(Nat) /\ row \in Lacking(LF) /\ <<>> \o row = row
  BY CutFacts, EmptySeq, ConcatEmptySeq DEF Lacking
<1>2. CutText(<<>> \o row) = Cut(<<>>, <<>> \o row)
  BY <1>1, CutGoesOn
<1> QED
  BY <1>1, <1>2

(* The lines behind such a text: the first continues it.                        *)
LEMMA LinesBehind ==
  ASSUME NEW row \in Seq(Nat), ~Has(row, LF), NEW t \in Seq(Nat)
  PROVE  Lines(row \o t) = Continuing(row, Lines(t))
<1>1. Lines(row \o t) = CutText(row).out \o Continuing(CutText(row).rest, Lines(t))
  BY LinesRunOn
<1>2. CutText(row).out = <<>> /\ CutText(row).rest = row
  BY OneLine, CutFields
<1>3. Lines(t) \in Seq(Seq(Nat))
  BY CutFacts, AppendProperties DEF Cuts, Lines
<1>4. Continuing(row, Lines(t)) \in Seq(Seq(Nat))
  <2> DEFINE ls == Lines(t)
  <2>1. ls \in Seq(Seq(Nat)) /\ <<>> \in Seq(Nat)
    BY <1>3, EmptySeq
  <2> HIDE DEF ls
  <2>2. Continuing(row, ls) \in Seq(Seq(Nat))
    BY <2>1, ContinuingFacts
  <2> QED
    BY <2>2 DEF ls
<1> DEFINE u == Continuing(row, Lines(t))
<1> HIDE DEF u
<1>5. <<>> \o u = u
  BY <1>4, ConcatEmptySeq DEF u
<1> QED
  BY <1>1, <1>2, <1>5 DEF u

(* A text is its first character and the rest.                                  *)
LEMMA FirstAndRest ==
  ASSUME NEW s \in Seq(Nat), s # <<>>
  PROVE  /\ s[1] \in Nat /\ Head(s) = s[1] /\ Tail(s) \in Seq(Nat) /\ <<s[1]>> \in Seq(Nat)
         /\ s = <<s[1]>> \o Tail(s)
<1>1. /\ Len(s) \in Nat /\ Len(s) # 0 /\ Head(s) = s[1] /\ Tail(s) \in Seq(Nat)
      /\ Len(Tail(s)) = Len(s) - 1 /\ \A i \in 1..(Len(s) - 1) : Tail(s)[i] = s[i + 1]
  BY EmptySeq, LenProperties, HeadTailProperties
<1>2. s[1] \in Nat
  BY <1>1, ElementOfSeq
<1> DEFINE h == <<s[1]>>
           t == Tail(s)
           u == h \o t
<1>3. h \in Seq(Nat) /\ Len(h) = 1 /\ h[1] = s[1]
  BY <1>2
<1>4. t \in Seq(Nat) /\ Len(t) = Len(s) - 1 /\ \A i \in 1..Len(t) : t[i] = s[i + 1]
  BY <1>1
<1> HIDE DEF h, t
<1>5. /\ u \in Seq(Nat) /\ Len(u) = 1 + Len(t) /\ u[1] = h[1]
      /\ \A i \in 1..Len(t) : u[1 + i] = t[i]
  <2>1. /\ u \in Seq(Nat) /\ Len(u) = Len(h) + Len(t)
        /\ (\A i \in 1..Len(h) : u[i] = h[i]) /\ (\A i \in 1..Len(t) : u[Len(h) + i] = t[i])
    BY <1>3, <1>4, FirstPart
  <2> QED
    BY <1>3, <2>1
<1> HIDE DEF u
<1>6. Len(u) = Len(s)
  BY <1>1, <1>4, <1>5
<1>7. ASSUME NEW i \in 1..Len(s) PROVE u[i] = s[i]
  <2>1. CASE i = 1
    BY <1>3, <1>5, <2>1
  <2>2. CASE i # 1
    <3>1. i - 1 \in 1..Len(t) /\ 1 + (i - 1) = i /\ (i - 1) + 1 = i
      BY <1>1, <1>4, <2>2
    <3> QED
      BY <1>4, <1>5, <3>1
  <2> QED
    BY <2>1, <2>2
<1>8. u = s
  BY <1>5, <1>6, <1>7, SeqEqual
<1> QED
  BY <1>1, <1>2, <1>3, <1>8 DEF u, h, t

(* The first of some lines, when it continues a text, and the other ones.        *)
LEMMA FirstContinues ==
  ASSUME NEW r \in Seq(Nat), NEW lines \in Seq(Seq(Nat)), lines # <<>>
  PROVE  /\ Continuing(r, lines) \in Seq(Seq(Nat)) /\ Continuing(r, lines) # <<>>
         /\ Continuing(r, lines)[1] = r \o lines[1] /\ lines[1] \in Seq(Nat)
         /\ Tail(Continuing(r, lines)) = Tail(lines)
<1> DEFINE c == Continuing(r, lines)
           n == Len(lines)
<1>1. n \in Nat /\ n # 0 /\ DOMAIN lines = 1..n /\ (\A i \in 1..n : lines[i] \in Seq(Nat))
  BY EmptySeq, LenProperties, ElementOfSeq
<1>2. c \in Seq(Seq(Nat))
  <2>1. <<>> \in Seq(Nat)
    BY EmptySeq
  <2> QED
    BY <2>1, ContinuingFacts
<1>3. c = [i \in 1..n |-> IF i = 1 THEN r \o lines[1] ELSE lines[i]]
  BY <1>1 DEF Continuing
<1> HIDE DEF c
<1>4. Len(c) = n
  <2>1. DOMAIN c = 1..n /\ DOMAIN c = 1..Len(c) /\ Len(c) \in Nat
    BY <1>2, <1>3, LenProperties
  <2> QED
    BY <1>1, <2>1
<1>5. c # <<>> /\ c[1] = r \o lines[1]
  <2>1. 1 \in 1..n
    BY <1>1
  <2>2. Len(c) # 0
    BY <1>1, <1>4
  <2> HIDE DEF n
  <2>3. c[1] = r \o lines[1]
    BY <1>3, <2>1
  <2>4. c # <<>>
    BY <2>2, EmptySeq
  <2> QED
    BY <2>3, <2>4
<1>6. /\ Tail(c) \in Seq(Seq(Nat)) /\ Len(Tail(c)) = n - 1
      /\ \A i \in 1..(n - 1) : Tail(c)[i] = c[i + 1]
  BY <1>2, <1>4, <1>5, HeadTailProperties
<1>7. /\ Tail(lines) \in Seq(Seq(Nat)) /\ Len(Tail(lines)) = n - 1
      /\ \A i \in 1..(n - 1) : Tail(lines)[i] = lines[i + 1]
  BY HeadTailProperties
<1> HIDE DEF n
<1>8. \A i \in 1..(n - 1) : c[i + 1] = lines[i + 1]
  BY <1>1, <1>3
<1> DEFINE x == Tail(c)
           y == Tail(lines)
<1> HIDE DEF x, y
<1>9. /\ x \in Seq(Seq(Nat)) /\ y \in Seq(Seq(Nat)) /\ Len(x) = n - 1 /\ Len(y) = n - 1
      /\ \A i \in 1..(n - 1) : x[i] = y[i]
  BY <1>6, <1>7, <1>8 DEF x, y
<1>10. x = y
  BY <1>9, SeqEqual
<1>11. lines[1] \in Seq(Nat)
  <2>1. 1 \in 1..n
    BY <1>1
  <2> QED
    BY <1>1, <2>1
<1>12. Tail(c) = Tail(lines)
  BY <1>10 DEF x, y
<1> QED
  BY <1>2, <1>5, <1>11, <1>12 DEF c

(* Lines are safe if the first is, and the other ones.                          *)
LEMMA FirstAndOthers ==
  ASSUME NEW lines \in Seq(Seq(Nat)), lines # <<>>
  PROVE  LinesAreSafe(lines) <=> LineIsSafe(lines[1]) /\ LinesAreSafe(Tail(lines))
<1> DEFINE n == Len(lines)
           y == Tail(lines)
<1>1. n \in Nat /\ n # 0 /\ DOMAIN lines = 1..n
  BY EmptySeq, LenProperties
<1>2. y \in Seq(Seq(Nat)) /\ Len(y) = n - 1 /\ \A i \in 1..(n - 1) : y[i] = lines[i + 1]
  BY HeadTailProperties
<1> HIDE DEF n, y
<1>3. DOMAIN y = 1..(n - 1)
  BY <1>2, LenProperties
<1>4. Range(lines) \subseteq {lines[1]} \cup Range(y)
  <2> SUFFICES ASSUME NEW i \in 1..n PROVE lines[i] \in {lines[1]} \cup Range(y)
    BY <1>1 DEF Range
  <2>1. CASE i = 1
    BY <2>1
  <2>2. CASE i # 1
    <3>1. i - 1 \in 1..(n - 1) /\ (i - 1) + 1 = i
      BY <1>1, <2>2
    <3>2. y[i - 1] = lines[i]
      BY <1>2, <3>1
    <3> QED
      BY <1>3, <3>1, <3>2 DEF Range
  <2> QED
    BY <2>1, <2>2
<1>5. lines[1] \in Range(lines) /\ Range(y) \subseteq Range(lines)
  <2>1. 1 \in 1..n /\ \A i \in 1..(n - 1) : i + 1 \in 1..n
    BY <1>1
  <2> QED
    BY <1>1, <1>2, <1>3, <2>1 DEF Range
<1>6. \A x : x \in Range(lines) <=> x = lines[1] \/ x \in Range(y)
  BY <1>4, <1>5
<1> QED
  BY <1>6 DEF LinesAreSafe, y

(* Some lines and others are safe if the ones and the others are.                *)
LEMMA BothSafe ==
  ASSUME NEW s \in Seq(Seq(Nat)), NEW t \in Seq(Seq(Nat))
  PROVE  LinesAreSafe(s \o t) <=> LinesAreSafe(s) /\ LinesAreSafe(t)
<1>1. Range(s \o t) = Range(s) \cup Range(t)
  BY RangeOfBoth
<1> QED
  BY <1>1 DEF LinesAreSafe

(* All but the last of a sequence is one.                                       *)
LEMMA FrontTyped == ASSUME NEW A, NEW s \in Seq(A) PROVE Front(s) \in Seq(A)
<1>1. Len(s) \in Nat /\ Len(s) - 1 \in Int /\ \A i \in 1..(Len(s) - 1) : i \in 1..Len(s)
  BY LenProperties
<1>2. \A i \in 1..(Len(s) - 1) : s[i] \in A
  BY <1>1, ElementOfSeq
<1>3. SubSeq(s, 1, Len(s) - 1) \in Seq(A)
  BY <1>1, <1>2, SubSeqProperties
<1> QED
  BY <1>3 DEF Front

(* What may stand in front of a name on its line.                               *)
LEMMA IndentFacts == \A s \in Seq({Space, Tab}) :
  s \in Seq(Nat) /\ ~Has(s, LF) /\ ~EndsOpen(s) /\ \A i \in 1..Len(s) : s[i] \in Whitespace
<1>1. {Space, Tab} \subseteq Nat /\ LF \notin {Space, Tab} /\ Backslash \notin {Space, Tab}
      /\ {Space, Tab} \subseteq Whitespace
  BY DEF Space, Tab, LF, Backslash, Whitespace
<1> SUFFICES ASSUME NEW s \in Seq({Space, Tab})
             PROVE  s \in Seq(Nat) /\ ~Has(s, LF) /\ ~EndsOpen(s) /\ \A i \in 1..Len(s) : s[i] \in Whitespace
  OBVIOUS
<1>2. s \in Seq(Nat) /\ \A i \in 1..Len(s) : s[i] \in {Space, Tab}
  BY <1>1, SeqMonotonic, ElementOfSeq
<1>3. s # <<>> => Last(s) \in {Space, Tab}
  <2> SUFFICES ASSUME s # <<>> PROVE Last(s) \in {Space, Tab}
    OBVIOUS
  <2>1. Len(s) \in Nat \ {0}
    BY EmptySeq
  <2>2. Len(s) \in 1..Len(s)
    BY <2>1
  <2> QED
    BY <1>2, <2>2 DEF Last
<1> QED
  BY <1>1, <1>2, <1>3 DEF Has, EndsOpen

(* What follows a name ends it, on its line too, whatever joints and comments are in *)
(* it.                                                                        *)
LEMMA FollowingFacts ==
  ASSUME NEW s \in Following
  PROVE  /\ s \in Seq(Nat) /\ Joined(s) \in Seq(Nat)
         /\ LinesRead(s) \in Seq(Seq(Nat)) /\ LinesRead(s) # <<>>
         /\ Head(LinesRead(s)) = LinesRead(s)[1] /\ LinesRead(s)[1] \in Seq(Nat)
         /\ LinesRead(s)[1] # <<>> => LinesRead(s)[1][1] \in Whitespace
<1>1. s \in Seq(Nat)
  BY DEF Following
<1>2. /\ Joined(s) \in Seq(Nat) /\ LinesRead(s) \in Seq(Seq(Nat)) /\ LinesRead(s) # <<>>
      /\ Head(LinesRead(s)) = LinesRead(s)[1] /\ LinesRead(s)[1] \in Seq(Nat)
  BY <1>1, LinesReadTyped
<1>3. LinesRead(s)[1] # <<>> => LinesRead(s)[1][1] \in Whitespace
  <2>1. CASE s = <<>>
    <3>1. Joined(<<>>) = <<>> /\ CutText(<<>>) = Cut(<<>>, <<>>)
      BY JointFacts, JointFields, CutFacts DEF Joined, Unjoined
    <3>2. LinesRead(s) = Append(<<>>, <<>>)
      <4>1. CutText(<<>>).out = <<>> /\ CutText(<<>>).rest = <<>>
        BY <3>1, CutFields
      <4> QED
        BY <2>1, <3>1, <4>1 DEF LinesRead, Lines
    <3>3. Append(<<>>, <<>>)[1] = <<>>
      OBVIOUS
    <3> QED
      BY <3>2, <3>3
  <2>2. CASE s # <<>>
    <3> DEFINE c == s[1]
               t == Tail(s)
    <3>1. c \in Nat /\ c \in Whitespace /\ t \in Seq(Nat) /\ <<c>> \in Seq(Nat) /\ s = <<c>> \o t
      BY <1>1, <2>2, FirstAndRest DEF Following
    <3> HIDE DEF c, t
    <3>2. c # Backslash /\ LF # Backslash /\ LF \in Nat
      BY <3>1, Marks
    <3>3. <<>> \in Seq(Nat) /\ Append(<<>>, c) = <<c>>
      BY EmptySeq
    <3>4. Joined(<<c>>) = <<c>>
      <4>1. JoinState(Append(<<>>, c)) = JoinNext(JoinState(<<>>), c)
        BY <3>1, <3>3, JointFacts
      <4>2. JoinNext(Joining(<<>>, LF), c) = Joining(Append(<<>>, c), c)
        BY <3>2, JointFields DEF JoinNext
      <4>3. JoinState(<<>>) = Joining(<<>>, LF)
        BY JointFacts DEF Unjoined
      <4>4. JoinState(<<c>>) = Joining(<<c>>, c)
        BY <3>3, <4>1, <4>2, <4>3
      <4> QED
        BY <4>4, JointFields DEF Joined
    <3>5. ~EndsOpen(<<c>>)
      BY <3>1, <3>2, Short DEF EndsOpen
    <3> DEFINE h == <<c>>
               j == Joined(t)
    <3>6. h \in Seq(Nat) /\ ~EndsOpen(h) /\ Joined(h) = h /\ s = h \o t
      BY <3>1, <3>4, <3>5
    <3>7. j \in Seq(Nat) /\ Lines(j) \in Seq(Seq(Nat)) /\ Lines(j) # <<>>
      BY <3>1, LinesReadTyped DEF LinesRead
    <3> HIDE DEF h, j
    <3>8. Joined(h \o t) = h \o Joined(t)
      BY <3>1, <3>6, JoinedApart
    <3>9. LinesRead(s) = Lines(h \o j)
      BY <3>6, <3>8 DEF LinesRead, j
    <3>10. CASE c # LF
      <4>1. ~Has(h, LF)
        <5>1. Len(<<c>>) = 1 /\ <<c>>[1] = c
          OBVIOUS
        <5> QED
          BY <3>10, <5>1 DEF Has, h
      <4>2. Lines(h \o j) = Continuing(h, Lines(j))
        BY <3>6, <3>7, <4>1, LinesBehind
      <4> DEFINE ls == Lines(j)
      <4> HIDE DEF ls
      <4>3. Continuing(h, ls)[1] = h \o ls[1] /\ ls[1] \in Seq(Nat)
        BY <3>6, <3>7, FirstContinues DEF ls
      <4>4. (h \o ls[1])[1] = c
        <5>1. Len(h) = 1 /\ h[1] = c /\ 1 \in 1..Len(h)
          BY DEF h
        <5>2. \A i \in 1..Len(h) : (h \o ls[1])[i] = h[i]
          BY <3>6, <4>3, FirstPart
        <5> QED
          BY <5>1, <5>2
      <4> QED
        BY <3>1, <3>9, <4>2, <4>3, <4>4 DEF ls
    <3>11. CASE c = LF
      <4>1. CutText(h) = Cut(Append(<<>>, <<>>), <<>>)
        <5>1. CutText(Append(<<>>, LF)) = CutAt(CutText(<<>>), LF) /\ CutText(<<>>) = Cut(<<>>, <<>>)
          BY <3>2, <3>3, CutFacts
        <5>2. CutAt(Cut(<<>>, <<>>), LF) = Cut(Append(<<>>, <<>>), <<>>)
          BY CutFields DEF CutAt
        <5> QED
          BY <3>3, <3>11, <5>1, <5>2 DEF h
      <4>2. Lines(h \o j) = CutText(h).out \o Continuing(CutText(h).rest, Lines(j))
        BY <3>6, <3>7, LinesRunOn
      <4>3. CutText(h).out = Append(<<>>, <<>>) /\ CutText(h).rest = <<>>
        BY <4>1, CutFields
      <4> DEFINE o == Append(<<>>, <<>>)
                 d == Continuing(<<>>, Lines(j))
      <4>4. d \in Seq(Seq(Nat))
        <5> DEFINE ls == Lines(j)
        <5>1. ls \in Seq(Seq(Nat)) /\ ls # <<>>
          BY <3>7
        <5> HIDE DEF ls
        <5>2. Continuing(<<>>, ls) \in Seq(Seq(Nat))
          BY <3>3, <5>1, FirstContinues
        <5> QED
          BY <5>2 DEF ls
      <4>5. o \in Seq(Seq(Nat)) /\ Len(o) = 1 /\ o[1] = <<>>
        <5>1. <<>> \in Seq(Seq(Nat)) /\ Len(<<>>) = 0
          BY EmptySeq
        <5> QED
          BY <3>3, <5>1, AppendProperties
      <4> HIDE DEF o, d
      <4>6. (o \o d)[1] = <<>>
        <5>1. \A i \in 1..Len(o) : (o \o d)[i] = o[i]
          BY <4>4, <4>5, ConcatProperties, LenProperties
        <5> QED
          BY <4>5, <5>1
      <4> QED
        BY <3>9, <4>2, <4>3, <4>6 DEF o, d
    <3> QED
      BY <3>10, <3>11
  <2> QED
    BY <2>1, <2>2
<1> QED
  BY <1>1, <1>2, <1>3

(* The lines of an option: its own, and those that follow.                       *)
LEMMA OptionLines ==
  ASSUME NEW option \in Option
  PROVE  LET text == (option.indent \o Spelling(option.letters)) \o option.following
             lines == LinesRead(text)
         IN  /\ text \in Seq(Nat)
             /\ lines \in Seq(Seq(Nat)) /\ lines # <<>>
             /\ lines[1] = OptionLine(option)
             /\ Tail(lines) = Tail(LinesRead(option.following))
<1> DEFINE indent == option.indent
           letters == option.letters
           following == option.following
           spelled == Spelling(letters)
           raw == Raw(letters)
           pre == indent \o raw
           text == (indent \o spelled) \o following
           own == LinesRead(following)
<1>1. letters \in Seq(Letter) /\ indent \in Seq({Space, Tab}) /\ following \in Following
  BY DEF Option, Letter
<1>2. OptionLine(option) = pre \o Head(own)
  BY DEF OptionLine, Raw
<1> HIDE DEF indent, letters, following
<1>3. indent \in Seq(Nat) /\ ~Has(indent, LF) /\ ~EndsOpen(indent)
  BY <1>1, IndentFacts
<1>4. /\ following \in Seq(Nat) /\ Joined(following) \in Seq(Nat)
      /\ own \in Seq(Seq(Nat)) /\ own # <<>> /\ Head(own) = own[1]
  BY <1>1, FollowingFacts
<1>5. spelled \in Seq(Nat) /\ ~EndsOpen(spelled) /\ Joined(spelled) = raw /\ raw \in Seq(Nat)
  BY <1>1, RawGrows DEF Raw
<1>6. ~Has(raw, LF)
  BY <1>1, RawReads, Marks DEF ReadsAs, Has
<1> HIDE DEF spelled, raw, own
<1>7. Joined(indent) = indent
  BY <1>3, JoinedAsIs
<1>8. indent \o spelled \in Seq(Nat) /\ Joined(indent \o spelled) = pre /\ ~EndsOpen(indent \o spelled)
  <2>1. indent \o spelled \in Seq(Nat)
    BY <1>3, <1>5, ConcatTyped
  <2> QED
    BY <1>3, <1>5, <1>7, <2>1, JoinedApart
<1>9. text \in Seq(Nat) /\ Joined(text) = pre \o Joined(following)
  <2> DEFINE a == indent \o spelled
  <2>1. a \in Seq(Nat) /\ ~EndsOpen(a) /\ Joined(a) = pre
    BY <1>8
  <2> HIDE DEF a, pre
  <2>2. a \o following \in Seq(Nat)
    BY <1>4, <2>1, ConcatTyped
  <2>3. Joined(a \o following) = Joined(a) \o Joined(following)
    BY <1>4, <2>1, JoinedApart
  <2> QED
    BY <2>1, <2>2, <2>3 DEF a
<1>10. pre \in Seq(Nat) /\ ~Has(pre, LF)
  BY <1>3, <1>5, <1>6, HasConcat
<1> HIDE DEF pre, text
<1>11. LinesRead(text) = Continuing(pre, own)
  <2>1. Lines(pre \o Joined(following)) = Continuing(pre, Lines(Joined(following)))
    BY <1>4, <1>10, LinesBehind
  <2> QED
    BY <1>9, <2>1 DEF LinesRead, own
<1>12. /\ Continuing(pre, own) \in Seq(Seq(Nat)) /\ Continuing(pre, own) # <<>>
       /\ Continuing(pre, own)[1] = pre \o own[1] /\ Tail(Continuing(pre, own)) = Tail(own)
  BY <1>4, <1>10, FirstContinues
<1>13. /\ LinesRead(text) \in Seq(Seq(Nat)) /\ LinesRead(text) # <<>>
       /\ LinesRead(text)[1] = OptionLine(option) /\ Tail(LinesRead(text)) = Tail(own)
  BY <1>2, <1>4, <1>11, <1>12
<1> QED
  BY <1>9, <1>13 DEF text, spelled, own, indent, letters, following

(* An option's own line is judged by its name, however it is spelled, and if it is  *)
(* written as a plain `dns-updown` by its parameter.                           *)
LEMMA OptionIsJudged ==
  ASSUME NEW option \in Option
  PROVE  LineIsSafe(OptionLine(option)) <=> OptionIsSafe(option)
<1> DEFINE indent == option.indent
           letters == option.letters
           rest == Head(LinesRead(option.following))
           raw == Raw(letters)
           row == OptionLine(option)
<1>1. /\ letters \in Seq(Letter) /\ letters # <<>> /\ indent \in Seq({Space, Tab})
      /\ option.following \in Following
  BY DEF Option, Letter
<1>2. row = (indent \o raw) \o rest
  BY DEF OptionLine, Raw
<1>3. Joined(Spelling(letters)) = raw
  BY DEF Raw
<1>4. rest \in Seq(Nat) /\ (rest # <<>> => rest[1] \in Whitespace)
  BY <1>1, FollowingFacts
<1>5. OptionIsSafe(option) <=> /\ Word(letters) \notin UnsafeName
                               /\ raw = DnsUpdown => ~RunsDnsCommand(ParseLine(row))
  BY <1>3 DEF OptionIsSafe
<1>6. LineIsSafe(row) <=> ParseLine(row) = <<>> \/ EntryIsSafe(ParseLine(row))
  BY DEF LineIsSafe
<1> HIDE DEF indent, letters, rest, raw, row
<1>7. indent \in Seq(Nat) /\ \A i \in 1..Len(indent) : indent[i] \in Whitespace
  BY <1>1, IndentFacts
<1>8. raw \in Seq(Nat) /\ ReadsAs(letters, raw) /\ raw # <<>>
  BY <1>1, RawGrows, RawReads DEF raw
<1>9. ParseLine(row) # <<>> /\ Head(ParseLine(row)) = raw
  <2>1. Mode(raw) = "plain" /\ (\A i \in 1..Len(raw) : raw[i] \notin Whitespace) /\ raw[1] \notin CommentMark \cup {Slash}
    BY <1>8 DEF ReadsAs
  <2> QED
    BY <1>2, <1>4, <1>7, <1>8, <2>1, FirstToken
<1> DEFINE entry == ParseLine(row)
<1> HIDE DEF entry
<1>10. entry # <<>> /\ Head(entry) = raw
  BY <1>9 DEF entry
<1>11. Name(entry) = Word(letters)
  <2>1. UnquoteState(raw) = Unquoted("plain", Word(letters))
    BY <1>8 DEF ReadsAs
  <2> QED
    BY <1>10, <2>1, UnquotedFields DEF Name, Unquote
<1>12. RunsDnsCommand(entry) => raw = DnsUpdown
  BY <1>10 DEF RunsDnsCommand
<1>13. EntryIsSafe(entry) <=> Word(letters) \notin UnsafeName /\ ~RunsDnsCommand(entry)
  BY <1>11 DEF EntryIsSafe
<1>14. LineIsSafe(row) <=> OptionIsSafe(option)
  BY <1>5, <1>6, <1>10, <1>12, <1>13 DEF entry
<1> QED
  BY <1>14 DEF row

(* However its name is spelled, with backslashes, quotes and joints, whatever stands  *)
(* above it and whatever follows it, an option is judged by its name; unless the text *)
(* above ends in a backslash, in a comment too: then its line ends the last one there *)
(* and is judged as such.                                                      *)
THEOREM SpellingMakesNoDifference ==
  ASSUME NEW option \in Option
  PROVE  IsSafe(option.before \o <<LF>> \o (option.indent \o Spelling(option.letters) \o option.following))
           = /\ IF EndsOpen(option.before)
                  THEN /\ LinesAreSafe(Front(LinesRead(option.before)))
                       /\ LineIsSafe(Front(Last(LinesRead(option.before))) \o OptionLine(option))
                  ELSE IsSafe(option.before) /\ OptionIsSafe(option)
             /\ LinesAreSafe(Tail(LinesRead(option.following)))
<1> DEFINE a == option.before
           text == (option.indent \o Spelling(option.letters)) \o option.following
           above == LinesRead(a)
           lines == LinesRead(text)
           others == Tail(LinesRead(option.following))
           row == OptionLine(option)
           p == IsSafe(a \o <<LF>> \o text)
           q == /\ IF EndsOpen(a)
                     THEN /\ LinesAreSafe(Front(above))
                          /\ LineIsSafe(Front(Last(above)) \o row)
                     ELSE IsSafe(a) /\ OptionIsSafe(option)
                /\ LinesAreSafe(others)
<1>1. a \in Seq(Nat)
  BY DEF Option
<1>2. /\ text \in Seq(Nat) /\ lines \in Seq(Seq(Nat)) /\ lines # <<>>
      /\ lines[1] = row /\ Tail(lines) = others
  BY OptionLines
<1> HIDE DEF a, text
<1>3. above \in Seq(Seq(Nat)) /\ above # <<>>
  BY <1>1, LinesReadTyped
<1>4. p <=> LinesAreSafe(LinesReadOfBoth(a, text))
  BY <1>1, <1>2, VerdictIsThatOfTheLines
<1>5. LinesReadOfBoth(a, text) =
        IF EndsOpen(a) THEN Front(above) \o Continuing(Front(Last(above)), lines) ELSE above \o lines
  BY DEF LinesReadOfBoth, Continuing
<1>6. IsSafe(a) <=> LinesAreSafe(above)
  BY SafeByLine
<1>7. LineIsSafe(row) <=> OptionIsSafe(option)
  BY OptionIsJudged
<1> HIDE DEF above, lines, others, row
<1>8. ASSUME ~EndsOpen(a) PROVE p <=> q
  <2>1. LinesAreSafe(above \o lines) <=> LinesAreSafe(above) /\ LinesAreSafe(lines)
    BY <1>2, <1>3, BothSafe
  <2>2. LinesAreSafe(lines) <=> LineIsSafe(lines[1]) /\ LinesAreSafe(Tail(lines))
    BY <1>2, FirstAndOthers
  <2>3. p <=> IsSafe(a) /\ OptionIsSafe(option) /\ LinesAreSafe(others)
    BY <1>2, <1>4, <1>5, <1>6, <1>7, <1>8, <2>1, <2>2
  <2> QED
    BY <1>8, <2>3
<1>9. ASSUME EndsOpen(a) PROVE p <=> q
  <2> DEFINE s == Front(above)
             l == Front(Last(above))
             c == Continuing(l, lines)
  <2>1. s \in Seq(Seq(Nat))
    BY <1>3, FrontTyped
  <2>2. l \in Seq(Nat)
    <3>1. Last(above) \in Seq(Nat)
      <4>1. Len(above) \in 1..Len(above)
        BY <1>3, EmptySeq, LenProperties
      <4> QED
        BY <1>3, <4>1, ElementOfSeq DEF Last
    <3> DEFINE last == Last(above)
    <3> HIDE DEF last
    <3>2. Front(last) \in Seq(Nat)
      BY <3>1, FrontTyped DEF last
    <3> QED
      BY <3>2 DEF last
  <2>3. p <=> LinesAreSafe(s \o c)
    BY <1>4, <1>5, <1>9
  <2> HIDE DEF s, l
  <2>4. c \in Seq(Seq(Nat)) /\ c # <<>> /\ c[1] = l \o lines[1] /\ Tail(c) = Tail(lines)
    BY <1>2, <2>2, FirstContinues
  <2> HIDE DEF c
  <2>5. LinesAreSafe(s \o c) <=> LinesAreSafe(s) /\ LinesAreSafe(c)
    BY <2>1, <2>4, BothSafe
  <2>6. LinesAreSafe(c) <=> LineIsSafe(c[1]) /\ LinesAreSafe(Tail(c))
    BY <2>4, FirstAndOthers
  <2>7. p <=> LinesAreSafe(s) /\ LineIsSafe(l \o row) /\ LinesAreSafe(others)
    BY <1>2, <2>3, <2>4, <2>5, <2>6
  <2> QED
    BY <1>9, <2>7 DEF s, l
<1>10. p <=> q
  BY <1>8, <1>9
<1>11. p \in BOOLEAN
  BY Zenon DEF IsSafe
<1>12. q \in BOOLEAN
  BY DEF OptionIsSafe, LinesAreSafe, LineIsSafe, IsSafe
<1> HIDE DEF p, q
<1>13. p = q
  BY <1>10, <1>11, <1>12
<1> QED
  BY <1>13 DEF p, q, a, text, above, others, row

-----------------------------------------------------------------------------
(* The lines of a configuration by their tags.                                 *)
LEMMA LineFacts ==
  /\ \A row \in Line : row # Placeholder /\ (OpensSecret(row) => row.block \in Block)
  /\ \A b : ~OpensSecret(Closing(b))
<1>1. \A b : /\ Opening(b).tag = "open" /\ Opening(b).block = b
             /\ Closing(b).tag = "close"
  BY DEF Opening, Closing
<1>2. Other.tag = "none" /\ Placeholder.tag = "omitted"
  BY DEF Other, Placeholder
<1>3. ASSUME NEW row \in Line PROVE row # Placeholder /\ (OpensSecret(row) => row.block \in Block)
  <2>1. CASE \E b \in Block : row = Opening(b)
    BY <1>1, <1>2, <2>1
  <2>2. CASE \E b \in Block : row = Closing(b)
    BY <1>1, <1>2, <2>2 DEF OpensSecret
  <2>3. CASE row = Other
    BY <1>2, <2>3 DEF OpensSecret
  <2> QED
    BY <2>1, <2>2, <2>3 DEF Line
<1> QED
  BY <1>1, <1>3 DEF OpensSecret

(* The copy without secrets goes through the lines one by one, and so does the   *)
(* removal of its placeholders.                                               *)
CopyLine == Line \cup {Placeholder}
Copies == [skipping : SUBSET Block, out : Seq(CopyLine)]
Copying == [x \in Copies \X Line |-> SanitizeRow(x[1], x[2])]
Showing == [x \in Seq(Line) \X CopyLine |-> AddShown(x[1], x[2])]
NothingCopied == Sanitized({}, <<>>)

LEMMA CopyFields == \A skipping, out :
  Sanitized(skipping, out).skipping = skipping /\ Sanitized(skipping, out).out = out
BY DEF Sanitized

LEMMA PlaceholderIsCopied == Placeholder \in CopyLine /\ \A row \in Line : row \in CopyLine
BY DEF CopyLine

LEMMA CopyTypes == NothingCopied \in Copies /\ \A s \in Copies, c \in Line : SanitizeRow(s, c) \in Copies
<1>1. \A skipping \in SUBSET Block, out \in Seq(CopyLine) : Sanitized(skipping, out) \in Copies
  BY DEF Sanitized, Copies
<1>2. NothingCopied \in Copies
  BY <1>1, EmptySeq DEF NothingCopied
<1>3. ASSUME NEW s \in Copies, NEW c \in Line PROVE SanitizeRow(s, c) \in Copies
  <2>1. s.skipping \in SUBSET Block /\ s.out \in Seq(CopyLine)
    BY DEF Copies
  <2>2. Append(s.out, c) \in Seq(CopyLine)
    BY <2>1, AppendProperties, PlaceholderIsCopied
  <2>3. s.out \o <<c, Placeholder>> \in Seq(CopyLine)
    <3>1. <<c, Placeholder>> \in Seq(CopyLine)
      BY PlaceholderIsCopied
    <3> QED
      BY <2>1, <3>1, ConcatProperties
  <2>4. OpensSecret(c) => {c.block} \in SUBSET Block
    BY LineFacts
  <2>5. /\ Sanitized({}, Append(s.out, c)) \in Copies
        /\ OpensSecret(c) => Sanitized({c.block}, s.out \o <<c, Placeholder>>) \in Copies
    BY <1>1, <2>2, <2>3, <2>4
  <2> QED
    BY <2>5 DEF SanitizeRow
<1> QED
  BY <1>2, <1>3

LEMMA ShownTypes == <<>> \in Seq(Line) /\ \A s \in Seq(Line), c \in CopyLine : AddShown(s, c) \in Seq(Line)
<1>1. ASSUME NEW s \in Seq(Line), NEW c \in CopyLine PROVE AddShown(s, c) \in Seq(Line)
  <2>1. c # Placeholder => c \in Line
    BY DEF CopyLine
  <2>2. c \in Line => Append(s, c) \in Seq(Line)
    BY AppendProperties
  <2> QED
    BY <2>1, <2>2 DEF AddShown
<1> QED
  BY <1>1, EmptySeq

(* Copying is a fold. *)
LEMMA CopyFolds ==
  /\ Foldable(Line, Copies, Copying, NothingCopied)
  /\ \A s \in Copies, c \in Line : Copying[<<s, c>>] = SanitizeRow(s, c)
BY CopyTypes DEF Foldable, Copying

LEMMA CopyIsFold ==
  ASSUME NEW rows \in Seq(Line)
  PROVE  SanitizeState(rows) = Folded(Line, Copies, Copying, NothingCopied, rows)
<1> DEFINE P(it) == it = [s \in SUBSET DOMAIN rows |->
                            IF s = {} THEN NothingCopied
                            ELSE SanitizeRow(it[s \ {Max(s)}], rows[Max(s)])]
           it == CHOOSE f : P(f)
<1>1. /\ Len(rows) \in Nat /\ DOMAIN rows = 1..Len(rows)
      /\ \A i \in 1..Len(rows) : rows[i] \in Line
  BY LenProperties, ElementOfSeq
<1>2. P(it)
  <2>1. PICK f : Stays(Line, Copies, Copying, NothingCopied, rows, f)
    BY CopyFolds, FoldStays
  <2>2. P(f)
    BY <1>1, <2>1, CopyFolds DEF Stays, Unfolds
  <2> QED
    BY <2>2
<1>3. SanitizeState(rows) = it[DOMAIN rows]
  BY DEF SanitizeState, NothingCopied, FoldLeft, MapThenFoldSet
<1>4. ASSUME NEW k \in 1..Len(rows)
      PROVE  it[1..k] = SanitizeRow(it[1..k - 1], rows[k])
  <2>1. /\ 1..k \in SUBSET DOMAIN rows /\ 1..k # {} /\ Max(1..k) = k
        /\ (1..k) \ {k} = 1..k - 1
    BY <1>1, Downward
  <2> QED
    BY <1>2, <2>1
<1>5. it[{}] = NothingCopied
  BY <1>2
<1> HIDE DEF it
<1>6. GoesAlong(Line, Copies, Copying, NothingCopied, rows, it)
  BY <1>1, <1>4, <1>5, CopyFolds DEF GoesAlong
<1> QED
  BY <1>1, <1>3, <1>6, FoldedAlong

(* The copy without secrets, one row at a time.                              *)
LEMMA CopyFacts ==
  /\ SanitizeState(<<>>) = NothingCopied
  /\ \A s \in Seq(Line) : SanitizeState(s) \in Copies
  /\ \A s \in Seq(Line), c \in Line : SanitizeState(Append(s, c)) = SanitizeRow(SanitizeState(s), c)
<1> DEFINE F(s) == Folded(Line, Copies, Copying, NothingCopied, s)
<1>1. /\ F(<<>>) = NothingCopied
      /\ \A s \in Seq(Line) : F(s) \in Copies
      /\ \A s \in Seq(Line), c \in Line : F(Append(s, c)) = Copying[<<F(s), c>>]
  BY CopyFolds, FoldedFacts
<1>2. <<>> \in Seq(Line) /\ \A s \in Seq(Line), c \in Line : Append(s, c) \in Seq(Line)
  BY EmptySeq, AppendProperties
<1>3. \A s \in Seq(Line) : SanitizeState(s) = F(s)
  BY CopyIsFold
<1> HIDE DEF F
<1>4. SanitizeState(<<>>) = NothingCopied /\ \A s \in Seq(Line) : SanitizeState(s) \in Copies
  BY <1>1, <1>2, <1>3
<1>5. ASSUME NEW s \in Seq(Line), NEW c \in Line PROVE SanitizeState(Append(s, c)) = SanitizeRow(SanitizeState(s), c)
  <2>1. SanitizeState(s) = F(s) /\ SanitizeState(Append(s, c)) = F(Append(s, c)) /\ F(s) \in Copies
    BY <1>1, <1>2, <1>3
  <2> QED
    BY <1>1, <2>1, CopyFolds
<1> QED
  BY <1>4, <1>5

(* So is showing what was copied. *)
LEMMA ShownFolds ==
  /\ Foldable(CopyLine, Seq(Line), Showing, <<>>)
  /\ \A s \in Seq(Line), c \in CopyLine : Showing[<<s, c>>] = AddShown(s, c)
BY ShownTypes DEF Foldable, Showing

LEMMA ShownIsFold ==
  ASSUME NEW rows \in Seq(CopyLine)
  PROVE  Shown(rows) = Folded(CopyLine, Seq(Line), Showing, <<>>, rows)
<1> DEFINE P(it) == it = [s \in SUBSET DOMAIN rows |->
                            IF s = {} THEN <<>>
                            ELSE AddShown(it[s \ {Max(s)}], rows[Max(s)])]
           it == CHOOSE f : P(f)
<1>1. /\ Len(rows) \in Nat /\ DOMAIN rows = 1..Len(rows)
      /\ \A i \in 1..Len(rows) : rows[i] \in CopyLine
  BY LenProperties, ElementOfSeq
<1>2. P(it)
  <2>1. PICK f : Stays(CopyLine, Seq(Line), Showing, <<>>, rows, f)
    BY ShownFolds, FoldStays
  <2>2. P(f)
    BY <1>1, <2>1, ShownFolds DEF Stays, Unfolds
  <2> QED
    BY <2>2
<1>3. Shown(rows) = it[DOMAIN rows]
  BY DEF Shown, FoldLeft, MapThenFoldSet
<1>4. ASSUME NEW k \in 1..Len(rows)
      PROVE  it[1..k] = AddShown(it[1..k - 1], rows[k])
  <2>1. /\ 1..k \in SUBSET DOMAIN rows /\ 1..k # {} /\ Max(1..k) = k
        /\ (1..k) \ {k} = 1..k - 1
    BY <1>1, Downward
  <2> QED
    BY <1>2, <2>1
<1>5. it[{}] = <<>>
  BY <1>2
<1> HIDE DEF it
<1>6. GoesAlong(CopyLine, Seq(Line), Showing, <<>>, rows, it)
  BY <1>1, <1>4, <1>5, ShownFolds DEF GoesAlong
<1> QED
  BY <1>1, <1>3, <1>6, FoldedAlong

(* What is shown of a copy, one row at a time.                               *)
LEMMA ShownFacts ==
  /\ Shown(<<>>) = <<>>
  /\ \A s \in Seq(CopyLine) : Shown(s) \in Seq(Line)
  /\ \A s \in Seq(CopyLine), c \in CopyLine : Shown(Append(s, c)) = AddShown(Shown(s), c)
<1> DEFINE F(s) == Folded(CopyLine, Seq(Line), Showing, <<>>, s)
<1>1. /\ F(<<>>) = <<>>
      /\ \A s \in Seq(CopyLine) : F(s) \in Seq(Line)
      /\ \A s \in Seq(CopyLine), c \in CopyLine : F(Append(s, c)) = Showing[<<F(s), c>>]
  BY ShownFolds, FoldedFacts
<1>2. <<>> \in Seq(CopyLine) /\ \A s \in Seq(CopyLine), c \in CopyLine : Append(s, c) \in Seq(CopyLine)
  BY EmptySeq, AppendProperties
<1>3. \A s \in Seq(CopyLine) : Shown(s) = F(s)
  BY ShownIsFold
<1> HIDE DEF F
<1>4. Shown(<<>>) = <<>> /\ \A s \in Seq(CopyLine) : Shown(s) \in Seq(Line)
  BY <1>1, <1>2, <1>3
<1>5. ASSUME NEW s \in Seq(CopyLine), NEW c \in CopyLine PROVE Shown(Append(s, c)) = AddShown(Shown(s), c)
  <2>1. Shown(s) = F(s) /\ Shown(Append(s, c)) = F(Append(s, c)) /\ F(s) \in Seq(Line)
    BY <1>1, <1>2, <1>3
  <2> QED
    BY <1>1, <2>1, ShownFolds
<1> QED
  BY <1>4, <1>5

(* One line more of the copy, alone or with a placeholder after it.              *)
LEMMA ShowsMore ==
  ASSUME NEW out \in Seq(CopyLine), NEW row \in Line
  PROVE  /\ Shown(Append(out, row)) = Append(Shown(out), row)
         /\ Shown(out \o <<row, Placeholder>>) = Append(Shown(out), row)
<1>1. row \in CopyLine /\ row # Placeholder /\ Placeholder \in CopyLine
  BY LineFacts, PlaceholderIsCopied
<1>2. Shown(Append(out, row)) = Append(Shown(out), row)
  BY <1>1, ShownFacts DEF AddShown
<1>3. Append(out, row) \in Seq(CopyLine) /\ out \o <<row, Placeholder>> = Append(Append(out, row), Placeholder)
  BY <1>1, Concats
<1>4. Shown(Append(Append(out, row), Placeholder)) = Shown(Append(out, row))
  BY <1>1, <1>3, ShownFacts DEF AddShown
<1> QED
  BY <1>2, <1>3, <1>4

-----------------------------------------------------------------------------
(* Whether a line is hidden follows from the lines before it.                   *)
LEMMA HiddenUnfolds ==
  ASSUME NEW rows \in Seq(Line)
  PROVE  \A k \in 1..Len(rows) : Hidden(rows)[k] = HiddenBy(rows, Hidden(rows), k)
<1> DEFINE D == 1..Len(rows)
           B == SUBSET Nat
           m == [k \in D |-> k]
           F == [x \in D \X [D -> B] |-> HiddenBy(rows, x[2], x[1])]
           H == CHOOSE h : h = [k \in D |-> HiddenBy(rows, h, k)]
<1>1. Len(rows) \in Nat
  BY LenProperties
<1>2. m \in [D -> 0..Len(rows)] /\ B # {}
  <2>1. {} \in B
    OBVIOUS
  <2>2. m \in [D -> 0..Len(rows)]
    BY <1>1
  <2> QED
    BY <2>1, <2>2
<1>3. F \in [D \X [D -> B] -> B]
  <2>1. \A i \in D, g \in [D -> B] : HiddenBy(rows, g, i) \in B
    BY <1>1 DEF HiddenBy
  <2>2. \A x \in D \X [D -> B] : x[1] \in D /\ x[2] \in [D -> B]
    OBVIOUS
  <2>3. \A x \in D \X [D -> B] : HiddenBy(rows, x[2], x[1]) \in B
    <3> HIDE DEF D, B
    <3> QED
      BY <2>1, <2>2
  <2> HIDE DEF D, B
  <2> QED
    BY <2>3
<1>4. ASSUME NEW i \in D, NEW g \in [D -> B], NEW h \in [D -> B],
             \A j \in D : m[j] < m[i] => g[j] = h[j]
      PROVE  F[<<i, g>>] = F[<<i, h>>]
  <2>1. \A j \in 1..(i - 1) : g[j] = h[j]
    BY <1>1, <1>4
  <2>2. HiddenBy(rows, g, i) = HiddenBy(rows, h, i)
    BY <2>1 DEF HiddenBy
  <2> QED
    BY <2>2
<1>5. Grounded(D, B, Len(rows), m, F)
  <2>1. \A i \in D : \A g, h \in [D -> B] :
          (\A j \in D : m[j] < m[i] => g[j] = h[j]) => F[<<i, g>>] = F[<<i, h>>]
    BY <1>4
  <2> HIDE DEF D, B, m, F
  <2> QED
    BY <1>1, <1>2, <1>3, <2>1 DEF Grounded
<1>6. PICK f \in [D -> B] : \A i \in D : f[i] = F[<<i, f>>]
  <2> HIDE DEF D, B, m, F
  <2> QED
    BY <1>5, RecursionExists
<1>7. f = [k \in D |-> HiddenBy(rows, f, k)]
  BY <1>6
<1>8. H = [k \in D |-> HiddenBy(rows, H, k)]
  <2> HIDE DEF D
  <2> QED
    BY <1>7
<1>9. Hidden(rows) = H
  BY DEF Hidden
<1> HIDE DEF H
<1> QED
  BY <1>8, <1>9

(* Where a secret block opens that is not closed up to k.                       *)
OpenAt(rows, k) ==
  {j \in 1..k : /\ OpensSecret(rows[j]) /\ Hidden(rows)[j] = {}
                /\ \A i \in (j + 1)..k : rows[i] # Closing(rows[j].block)}

(* One line more: what hides it, and what is open after it.                     *)
LEMMA OpenNext ==
  ASSUME NEW rows \in Seq(Line), NEW k \in Nat, k + 1 \in 1..Len(rows)
  PROVE  /\ Hidden(rows)[k + 1] = {j \in OpenAt(rows, k) : rows[k + 1] # Closing(rows[j].block)}
         /\ OpenAt(rows, k + 1) =
              Hidden(rows)[k + 1]
                \cup {j \in {k + 1} : OpensSecret(rows[k + 1]) /\ Hidden(rows)[k + 1] = {}}
<1> DEFINE H == Hidden(rows)
           Open(j, l) == /\ OpensSecret(rows[j]) /\ H[j] = {}
                         /\ \A i \in (j + 1)..l : rows[i] # Closing(rows[j].block)
<1>1. H[k + 1] = {j \in 1..k : Open(j, k + 1)}
  <2>1. (k + 1) - 1 = k
    OBVIOUS
  <2>2. H[k + 1] = HiddenBy(rows, H, k + 1)
    BY HiddenUnfolds
  <2> HIDE DEF H
  <2> QED
    BY <2>1, <2>2 DEF HiddenBy
<1>2. OpenAt(rows, k) = {j \in 1..k : Open(j, k)} /\ OpenAt(rows, k + 1) = {j \in 1..k + 1 : Open(j, k + 1)}
  BY DEF OpenAt
<1> HIDE DEF H
<1>3. \A j \in 1..k : Open(j, k + 1) <=> Open(j, k) /\ rows[k + 1] # Closing(rows[j].block)
  <2>1. \A j \in 1..k : \A i : i \in (j + 1)..(k + 1) <=> (i \in (j + 1)..k \/ i = k + 1)
    OBVIOUS
  <2> QED
    BY <2>1
<1>4. Open(k + 1, k + 1) <=> OpensSecret(rows[k + 1]) /\ H[k + 1] = {}
  <2>1. (k + 1 + 1)..(k + 1) = {}
    OBVIOUS
  <2> QED
    BY <2>1
<1>5. \A j : j \in 1..k + 1 <=> (j \in 1..k \/ j = k + 1)
  OBVIOUS
<1> HIDE DEF Open
<1> QED
  BY <1>1, <1>2, <1>3, <1>4, <1>5 DEF H

-----------------------------------------------------------------------------
(* Up to a line, the copy has the visible lines, and an omission goes on exactly *)
(* if one secret block is open.                                              *)
OmissionAt(rows, k, skipping) ==
  \/ OpenAt(rows, k) = {} /\ skipping = {}
  \/ \E j \in 1..k : OpenAt(rows, k) = {j} /\ skipping = {rows[j].block}

ShownUpTo(rows, k, shown) ==
  /\ Len(shown) = Cardinality(VisibleUpTo(rows, k))
  /\ \A j \in VisibleUpTo(rows, k) : shown[Cardinality(VisibleUpTo(rows, j))] = rows[j]

(* How the visible rows are counted, from one row to the next.               *)
LEMMA VisibleFacts ==
  ASSUME NEW rows, NEW k \in Nat
  PROVE  /\ IsFiniteSet(VisibleUpTo(rows, k)) /\ Cardinality(VisibleUpTo(rows, k)) \in Nat
         /\ \A j \in VisibleUpTo(rows, k) :
              Cardinality(VisibleUpTo(rows, j)) \in 1..Cardinality(VisibleUpTo(rows, k))
         /\ Hidden(rows)[k + 1] # {} => VisibleUpTo(rows, k + 1) = VisibleUpTo(rows, k)
         /\ Hidden(rows)[k + 1] = {} =>
              /\ VisibleUpTo(rows, k + 1) = VisibleUpTo(rows, k) \cup {k + 1}
              /\ Cardinality(VisibleUpTo(rows, k + 1)) = Cardinality(VisibleUpTo(rows, k)) + 1
<1> DEFINE V(l) == VisibleUpTo(rows, l)
<1>1. \A l \in Nat : V(l) \subseteq 1..l
  BY DEF VisibleUpTo
<1>2. \A l \in Nat : IsFiniteSet(V(l)) /\ Cardinality(V(l)) \in Nat
  <2> SUFFICES ASSUME NEW l \in Nat PROVE IsFiniteSet(V(l)) /\ Cardinality(V(l)) \in Nat
    OBVIOUS
  <2>1. IsFiniteSet(1..l)
    BY FS_Interval
  <2>2. IsFiniteSet(V(l))
    BY <1>1, <2>1, FS_Subset
  <2> QED
    BY <2>2, FS_CardinalityType
<1>3. ASSUME NEW j \in V(k) PROVE Cardinality(V(j)) \in 1..Cardinality(V(k))
  <2>1. j \in 1..k /\ j \in Nat /\ V(j) \subseteq V(k) /\ j \in V(j)
    BY DEF VisibleUpTo
  <2>2. Cardinality(V(j)) <= Cardinality(V(k)) /\ Cardinality(V(j)) \in Nat /\ Cardinality(V(k)) \in Nat
    BY <1>2, <2>1, FS_Subset
  <2>3. Cardinality(V(j)) # 0
    BY <1>2, <2>1, FS_EmptySet
  <2> QED
    BY <2>2, <2>3
<1>4. k + 1 \notin V(k)
  BY <1>1
<1>5. \A j : j \in 1..k + 1 <=> (j \in 1..k \/ j = k + 1)
  OBVIOUS
<1>6. Hidden(rows)[k + 1] # {} => V(k + 1) = V(k)
  BY <1>5 DEF VisibleUpTo
<1>7. Hidden(rows)[k + 1] = {} => V(k + 1) = V(k) \cup {k + 1}
  BY <1>5 DEF VisibleUpTo
<1>8. Cardinality(V(k) \cup {k + 1}) = Cardinality(V(k)) + 1
  BY <1>2, <1>4, FS_AddElement
<1> QED
  BY <1>2, <1>3, <1>6, <1>7, <1>8

(* A visible line is shown after the others.                                   *)
LEMMA VisibleIsShown ==
  ASSUME NEW rows \in Seq(Line), NEW k \in Nat, k + 1 \in 1..Len(rows),
         NEW shown \in Seq(Line), ShownUpTo(rows, k, shown), Hidden(rows)[k + 1] = {}
  PROVE  ShownUpTo(rows, k + 1, Append(shown, rows[k + 1]))
<1> DEFINE more == Append(shown, rows[k + 1])
<1>1. rows[k + 1] \in Line
  BY ElementOfSeq
<1>2. /\ Len(more) = Len(shown) + 1 /\ Len(shown) \in Nat /\ more[Len(shown) + 1] = rows[k + 1]
      /\ \A i \in 1..Len(shown) : more[i] = shown[i]
  BY <1>1, AppendProperties, LenProperties
<1> HIDE DEF more
<1>3. /\ VisibleUpTo(rows, k + 1) = VisibleUpTo(rows, k) \cup {k + 1}
      /\ Cardinality(VisibleUpTo(rows, k + 1)) = Cardinality(VisibleUpTo(rows, k)) + 1
      /\ \A j \in VisibleUpTo(rows, k) :
           Cardinality(VisibleUpTo(rows, j)) \in 1..Cardinality(VisibleUpTo(rows, k))
  BY VisibleFacts
<1>4. \A j \in VisibleUpTo(rows, k) : more[Cardinality(VisibleUpTo(rows, j))] = rows[j]
  BY <1>2, <1>3 DEF ShownUpTo
<1>5. more[Cardinality(VisibleUpTo(rows, k + 1))] = rows[k + 1]
  BY <1>2, <1>3 DEF ShownUpTo
<1> QED
  BY <1>2, <1>3, <1>4, <1>5 DEF ShownUpTo, more

CopiedUpTo(rows, k) ==
  LET s == SanitizeState(SubSeq(rows, 1, k))
  IN OmissionAt(rows, k, s.skipping) /\ ShownUpTo(rows, k, Shown(s.out))

(* One row more is copied as the visible rows say.                           *)
LEMMA CopiedNext ==
  ASSUME NEW rows \in Seq(Line), NEW k \in Nat, k + 1 \in 1..Len(rows), CopiedUpTo(rows, k)
  PROVE  CopiedUpTo(rows, k + 1)
<1> DEFINE r == rows[k + 1]
           s == SanitizeState(SubSeq(rows, 1, k))
           next == SanitizeState(SubSeq(rows, 1, k + 1))
           H == Hidden(rows)[k + 1]
<1>1. r \in Line /\ Len(rows) \in Nat /\ k \in 0..Len(rows)
  BY ElementOfSeq, LenProperties
<1>2. SubSeq(rows, 1, k) \in Seq(Line) /\ SubSeq(rows, 1, k + 1) = Append(SubSeq(rows, 1, k), r)
  BY <1>1, Beginnings
<1>3. next = SanitizeRow(s, r) /\ s \in Copies
  BY <1>1, <1>2, CopyFacts
<1>4. s.out \in Seq(CopyLine)
  BY <1>3 DEF Copies
<1>5. OmissionAt(rows, k, s.skipping) /\ ShownUpTo(rows, k, Shown(s.out)) /\ Shown(s.out) \in Seq(Line)
  BY <1>4, ShownFacts DEF CopiedUpTo
<1>6. /\ H = {j \in OpenAt(rows, k) : r # Closing(rows[j].block)}
      /\ OpenAt(rows, k + 1) = H \cup {j \in {k + 1} : OpensSecret(r) /\ H = {}}
  BY OpenNext
<1>7. H = {} => ShownUpTo(rows, k + 1, Append(Shown(s.out), r))
  BY <1>5, VisibleIsShown
<1>8. /\ Shown(Append(s.out, r)) = Append(Shown(s.out), r)
      /\ Shown(s.out \o <<r, Placeholder>>) = Append(Shown(s.out), r)
  BY <1>1, <1>4, ShowsMore
<1>9. CopiedUpTo(rows, k + 1) <=>
        OmissionAt(rows, k + 1, next.skipping) /\ ShownUpTo(rows, k + 1, Shown(next.out))
  BY DEF CopiedUpTo
<1> HIDE DEF r, s, next, H
<1>10. CASE OpenAt(rows, k) = {} /\ s.skipping = {}
  <2>1. H = {}
    BY <1>6, <1>10
  <2>2. CASE OpensSecret(r)
    <3>1. next = Sanitized({r.block}, s.out \o <<r, Placeholder>>)
      BY <1>3, <1>10, <2>2 DEF SanitizeRow
    <3>2. next.skipping = {r.block} /\ next.out = s.out \o <<r, Placeholder>>
      BY <3>1, CopyFields
    <3>3. OpenAt(rows, k + 1) = {k + 1}
      BY <1>6, <2>1, <2>2
    <3>4. OmissionAt(rows, k + 1, next.skipping)
      BY <3>2, <3>3 DEF OmissionAt, r
    <3> QED
      BY <1>7, <1>8, <1>9, <2>1, <3>2, <3>4
  <2>3. CASE ~OpensSecret(r)
    <3>1. next = Sanitized({}, Append(s.out, r))
      BY <1>3, <1>10, <2>3 DEF SanitizeRow
    <3>2. next.skipping = {} /\ next.out = Append(s.out, r)
      BY <3>1, CopyFields
    <3>3. OpenAt(rows, k + 1) = {}
      BY <1>6, <2>1, <2>3
    <3>4. OmissionAt(rows, k + 1, next.skipping)
      BY <3>2, <3>3 DEF OmissionAt
    <3> QED
      BY <1>7, <1>8, <1>9, <2>1, <3>2, <3>4
  <2> QED
    BY <2>2, <2>3
<1>11. ASSUME NEW j \in 1..k, OpenAt(rows, k) = {j}, s.skipping = {rows[j].block}
       PROVE  CopiedUpTo(rows, k + 1)
  <2>1. EndsOmission(s.skipping, r) <=> r = Closing(rows[j].block)
    BY <1>11 DEF EndsOmission
  <2>2. CASE r = Closing(rows[j].block)
    <3>1. next = Sanitized({}, Append(s.out, r))
      BY <1>3, <1>11, <2>1, <2>2 DEF SanitizeRow
    <3>2. next.skipping = {} /\ next.out = Append(s.out, r)
      BY <3>1, CopyFields
    <3>3. H = {} /\ ~OpensSecret(r)
      BY <1>6, <1>11, <2>2, LineFacts
    <3>4. OpenAt(rows, k + 1) = {}
      BY <1>6, <3>3
    <3>5. OmissionAt(rows, k + 1, next.skipping)
      BY <3>2, <3>4 DEF OmissionAt
    <3> QED
      BY <1>7, <1>8, <1>9, <3>2, <3>3, <3>5
  <2>3. CASE r # Closing(rows[j].block)
    <3>1. next = s
      BY <1>3, <1>11, <2>1, <2>3 DEF SanitizeRow
    <3>2. H = {j}
      BY <1>6, <1>11, <2>3
    <3>3. OpenAt(rows, k + 1) = {j}
      BY <1>6, <3>2
    <3>4. OmissionAt(rows, k + 1, next.skipping)
      <4>1. j \in 1..k + 1
        OBVIOUS
      <4> QED
        BY <1>11, <3>1, <3>3, <4>1 DEF OmissionAt
    <3>5. VisibleUpTo(rows, k + 1) = VisibleUpTo(rows, k)
      BY <3>2, VisibleFacts DEF H
    <3>6. ShownUpTo(rows, k + 1, Shown(next.out))
      BY <1>5, <3>1, <3>5 DEF ShownUpTo
    <3> QED
      BY <1>9, <3>4, <3>6
  <2> QED
    BY <2>2, <2>3
<1> QED
  BY <1>5, <1>10, <1>11 DEF OmissionAt

(* The copy has every visible line, in order, and no other, however many lines   *)
(* and blocks there are.                                                      *)
THEOREM SecretsAreOmitted ==
  ASSUME NEW rows \in Seq(Line)
  PROVE  OmitsSecrets(rows, Shown(SanitizeConfig(rows)))
<1> DEFINE T == {k \in Nat : k <= Len(rows) => CopiedUpTo(rows, k)}
<1>1. Len(rows) \in Nat
  BY LenProperties
<1>2. 0 \in T
  <2>1. SubSeq(rows, 1, 0) = <<>>
    BY SubSeqEmpty
  <2>2. SanitizeState(<<>>).skipping = {} /\ SanitizeState(<<>>).out = <<>>
    BY CopyFacts, CopyFields DEF NothingCopied
  <2>3. OpenAt(rows, 0) = {} /\ VisibleUpTo(rows, 0) = {}
    BY DEF OpenAt, VisibleUpTo
  <2>4. Shown(<<>>) = <<>> /\ Len(<<>>) = 0 /\ Cardinality({}) = 0
    BY ShownFacts, FS_EmptySet
  <2>5. OmissionAt(rows, 0, {})
    BY <2>3 DEF OmissionAt
  <2>6. ShownUpTo(rows, 0, Shown(<<>>))
    BY <2>3, <2>4 DEF ShownUpTo
  <2> QED
    BY <2>1, <2>2, <2>5, <2>6 DEF CopiedUpTo
<1>3. ASSUME NEW k \in Nat, k \in T PROVE k + 1 \in T
  BY <1>1, <1>3, CopiedNext
<1>4. Nat \subseteq T
  <2> HIDE DEF T
  <2> QED
    BY <1>2, <1>3, NaturalInduction
<1>5. CopiedUpTo(rows, Len(rows))
  BY <1>1, <1>4
<1>6. SubSeq(rows, 1, Len(rows)) = rows
  BY SubSeqFull
<1> QED
  BY <1>5, <1>6 DEF CopiedUpTo, ShownUpTo, OmitsSecrets, SanitizeConfig

-----------------------------------------------------------------------------
(* The display name and the verdict come back from their file as they were       *)
(* written, whatever samples are tried.                                       *)
THEOREM MetadataIsAlwaysRead == TextSpec => []MetadataIsRead
<1>1. Sampled => MetadataIsRead
  <2> SUFFICES ASSUME Sampled, sample.kind = "name" PROVE MetadataIsRead
    BY DEF MetadataIsRead
  <2>1. sample.safe \in BOOLEAN /\ sample.name \in Seq(Nat)
    BY SampleAssumption, NoneSampled DEF Sampled, Names
  <2> QED
    BY <2>1, MetadataIsReadBack DEF MetadataIsRead, EncodeMetaValue
<1> QED
  BY <1>1, AlwaysSampled, PTL

(* The copy for a log shows every line outside the secret blocks and none inside, *)
(* whatever samples are tried.                                                *)
THEOREM SecretsAreAlwaysOmitted == TextSpec => []SanitizedOmitsSecrets
<1>1. Sampled => SanitizedOmitsSecrets
  <2> SUFFICES ASSUME Sampled, sample.kind = "rows"
               PROVE  OmitsSecrets(sample.rows, Shown(SanitizeConfig(sample.rows)))
    BY DEF SanitizedOmitsSecrets
  <2>1. sample.rows \in Seq(Line)
    BY SampleAssumption, NoneSampled DEF Sampled, Rows
  <2> QED
    BY <2>1, SecretsAreOmitted
<1> QED
  BY <1>1, AlwaysSampled, PTL

(* The verdict on a text above another is that of the lines of both, one line made of *)
(* two at a backslash, whatever samples are tried.                             *)
THEOREM VerdictIsAlwaysByLine == TextSpec => []VerdictIsByLine
<1>1. Sampled => VerdictIsByLine
  <2> SUFFICES ASSUME Sampled, sample.kind = "pair"
               PROVE  IsSafe((sample.first \o <<LF>>) \o sample.second)
                        = LinesAreSafe(LinesReadOfBoth(sample.first, sample.second))
    BY DEF VerdictIsByLine
  <2>1. sample.first \in Seq(Nat) /\ sample.second \in Seq(Nat)
    BY SampleAssumption, NoneSampled DEF Sampled, Pair
  <2> QED
    BY <2>1, VerdictIsThatOfTheLines
<1> QED
  BY <1>1, AlwaysSampled, PTL

(* An option is judged by its name, or as the end of the line it is joined to,       *)
(* whatever samples are tried.                                                *)
THEOREM SpellingIsAlwaysIrrelevant == TextSpec => []SpellingIsIrrelevant
<1>1. Sampled => SpellingIsIrrelevant
  <2> SUFFICES ASSUME Sampled, sample.kind = "option" PROVE SpellingIsIrrelevant
    BY DEF SpellingIsIrrelevant
  <2>1. sample \in Option
    BY SampleAssumption, NoneSampled DEF Sampled
  <2> QED
    BY <2>1, SpellingMakesNoDifference DEF SpellingIsIrrelevant
<1> QED
  BY <1>1, AlwaysSampled, PTL
=============================================================================
