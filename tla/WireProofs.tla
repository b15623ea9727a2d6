------------------------------ MODULE WireProofs ------------------------------
(***************************************************************************)
(* Proofs about Wire: the types of its two ends, that the reader returns   *)
(* the notes that were written, in order, and what it reports when the     *)
(* stream ends, for any alphabet of bytes, any notes and any limits.       *)
(*                                                                         *)
(* The inductive invariant knows where in the stream each frame starts,    *)
(* up to the first stray byte, and where in its frame the reader is.       *)
(***************************************************************************)
EXTENDS Wire, SequenceTheorems, TLAPS

-----------------------------------------------------------------------------
(* The invariant                                                           *)

(* The frame in the making is what is left of that of body.                *)
Making ==
  frame # <<>> =>
    /\ body \in Notes /\ Len(body) <= MaxFrameSize
    /\ Len(frame) <= HeaderSize + Len(body)
    /\ \A j \in 1 .. Len(frame) : frame[j] = FrameOf(body)[Remainder + j]

(* Types, with the counts that bound them.                                 *)
Typed ==
  /\ WireTypeOK
  /\ Len(sent) + (IF frame = <<>> THEN 0 ELSE 1) <= called
  /\ \A i \in DOMAIN sent : Len(sent[i]) <= MaxFrameSize
  /\ at = "header" => Len(part) <= HeaderSize
  /\ at = "body" => Len(part) <= need
  /\ at # "ended" => result = "none"
  /\ stray # <<>> => stray[1] <= Len(sent)

(* What the reader has of a header or a body it has just taken out.        *)
Copied ==
  /\ Len(part) <= taken
  /\ \A j \in 1 .. Len(part) : part[j] = stream[taken - Len(part) + j]

(* The frames of the kept notes fill the stream from its first byte; s[i]  *)
(* bytes come before the i-th.                                             *)
Starts(s) ==
  /\ s \in [1 .. Kept + 1 -> Nat]
  /\ s[1] = 0
  /\ \A i \in 1 .. Kept : s[i + 1] = s[i] + HeaderSize + Len(sent[i])
  /\ \A i \in 1 .. Kept + 1 : s[i] <= Len(stream)
  /\ \A i \in 1 .. Kept : \A j \in 1 .. HeaderSize + Len(sent[i]) :
       stream[s[i] + j] = FrameOf(sent[i])[j]

(* Without stray bytes the rest of the stream is the begun frame.          *)
Begun(s) ==
  Clean => /\ Len(stream) = s[Kept + 1] + Remainder
           /\ \A j \in 1 .. Remainder :
                stream[s[Kept + 1] + j] = FrameOf(body)[j]

(* The note the reader is at.                                              *)
Current == IF Len(got) < Kept THEN sent[Len(got) + 1] ELSE body

(* The reader is in the frame of the note it is to return next.            *)
Placed(s) ==
  Clean \/ Len(got) < Kept =>
    /\ at = "header" => taken = s[Len(got) + 1] + Len(part)
    /\ at = "body" => /\ taken = s[Len(got) + 1] + HeaderSize + Len(part)
                      /\ need = Len(Current)

(* What it has returned is what was written.                               *)
Returned ==
  /\ Clean => Len(got) <= Len(sent)
  /\ \A i \in DOMAIN got : i <= Kept => got[i] = sent[i]

(* Without stray bytes it ends where it should.                            *)
Ended ==
  Clean =>
    /\ result # "ErrFrameTooLarge"
    /\ result = "illegible" =>
         Len(got) < Len(sent) /\ sent[Len(got) + 1] \notin Legible
    /\ result \in {"EOF", "ErrUnexpectedEOF"} => got = sent /\ ~alive
    /\ result = "EOF" => Remainder \in {0, HeaderSize}

Framed == \E s : Starts(s) /\ Begun(s) /\ Placed(s)

WireInv == Typed /\ Making /\ Copied /\ Returned /\ Ended /\ Framed

-----------------------------------------------------------------------------
(* Bytes and frames                                                        *)

(* The last byte of a number and the rest of it.                           *)
LEMMA ByteSplit ==
  ASSUME NEW n \in Nat
  PROVE  /\ Low(n) \in Byte /\ Shift(n) \in Nat
         /\ Shift(n) * Base + Low(n) = n
  <1>1. Base \in Nat /\ Base > 0
    BY WireAssumption
  <1>2. /\ n \div Base \in Nat /\ n % Base \in 0 .. (Base - 1)
        /\ (n \div Base) * Base + (n % Base) = n
    BY <1>1
  <1> QED BY <1>2 DEF Low, Shift, Byte

LEMMA ShiftLess ==
  ASSUME NEW n \in Nat, NEW c \in Nat, n < c * Base
  PROVE  Shift(n) < c
  <1>1. /\ Base \in Nat /\ Base > 0
        /\ Shift(n) \in Nat /\ Low(n) \in Nat /\ Shift(n) * Base + Low(n) = n
    BY WireAssumption, ByteSplit DEF Byte
  <1> DEFINE q == Shift(n)
             r == Low(n)
  <1> HIDE DEF q, r
  <1>2. q \in Nat /\ r \in Nat /\ q * Base + r = n
    BY <1>1 DEF q, r
  <1>3. q >= c => q * Base >= c * Base
    BY <1>1, <1>2
  <1>4. q * Base \in Nat /\ c * Base \in Nat
    BY <1>1, <1>2
  <1>5. ~(q >= c)
    BY <1>2, <1>3, <1>4
  <1> QED BY <1>2, <1>5 DEF q

(* A length prefix is four bytes, and reading it gives the length back.    *)
LEMMA PrefixLength ==
  ASSUME NEW n \in Nat, n <= MaxFrameSize
  PROVE  /\ Prefix(n) \in Seq(Byte) /\ Len(Prefix(n)) = HeaderSize
         /\ Length(Prefix(n)) = n
  <1> DEFINE a == Shift(n)
             b == Shift(a)
             c == Shift(b)
  <1>1. Base \in Nat /\ Base > 1 /\ n < Base * Base * Base * Base
    BY WireAssumption
  <1>2. /\ a \in Nat /\ Low(n) \in Byte /\ a * Base + Low(n) = n
        /\ b \in Nat /\ Low(a) \in Byte /\ b * Base + Low(a) = a
        /\ c \in Nat /\ Low(b) \in Byte /\ c * Base + Low(b) = b
        /\ Low(c) \in Byte /\ Shift(c) \in Nat /\ Shift(c) * Base + Low(c) = c
    BY ByteSplit
  <1> HIDE DEF a, b, c
  <1>3. /\ Base * Base * Base \in Nat /\ Base * Base \in Nat
        /\ n < (Base * Base * Base) * Base
    BY <1>1
  <1>4. a < (Base * Base) * Base
    BY <1>3, ShiftLess DEF a
  <1>5. b < Base * Base
    BY <1>2, <1>3, <1>4, ShiftLess DEF b
  <1>6. c < Base
    BY <1>1, <1>2, <1>5, ShiftLess DEF c
  <1>7. Shift(c) < 1
    BY <1>1, <1>2, <1>6, ShiftLess
  <1>8. Low(c) = c
    <2>1. Shift(c) = 0
      BY <1>2, <1>7
    <2> QED BY <1>1, <1>2, <2>1 DEF Byte
  <1>9. Prefix(n) = <<Low(c), Low(b), Low(a), Low(n)>>
    BY DEF Prefix, a, b, c
  <1>10. Length(<<c, Low(b), Low(a), Low(n)>>)
           = ((c * Base + Low(b)) * Base + Low(a)) * Base + Low(n)
    BY DEF Length
  <1>11. <<Low(c), Low(b), Low(a), Low(n)>> \in Seq(Byte)
         /\ Len(<<Low(c), Low(b), Low(a), Low(n)>>) = 4
    BY <1>2
  <1> QED BY <1>2, <1>8, <1>9, <1>10, <1>11 DEF HeaderSize

(* Any four bytes read as a natural number.                                *)
LEMMA LengthType ==
  ASSUME NEW h \in Seq(Byte), Len(h) = HeaderSize
  PROVE  Length(h) \in Nat
  <1>1. PICK a \in Nat, b \in Nat, c \in Nat, d \in Nat :
          a = h[1] /\ b = h[2] /\ c = h[3] /\ d = h[4]
    <2>1. \A j \in 1 .. 4 : h[j] \in Byte
      BY ElementOfSeq DEF HeaderSize
    <2> QED BY <2>1 DEF Byte
  <1>2. Length(h) = ((a * Base + b) * Base + c) * Base + d
    BY <1>1 DEF Length
  <1>3. \A x, y \in Nat : x * Base + y \in Nat
    BY WireAssumption
  <1>4. (a * Base + b) * Base + c \in Nat
    BY <1>3
  <1> QED BY <1>2, <1>3, <1>4

(* A frame is its header followed by its body.                             *)
LEMMA FrameShape ==
  ASSUME NEW b \in Seq(Byte), Len(b) <= MaxFrameSize
  PROVE  /\ FrameOf(b) \in Seq(Byte) /\ Len(FrameOf(b)) = HeaderSize + Len(b)
         /\ \A j \in 1 .. HeaderSize : FrameOf(b)[j] = Prefix(Len(b))[j]
         /\ \A j \in 1 .. Len(b) : FrameOf(b)[HeaderSize + j] = b[j]
  <1> DEFINE p == Prefix(Len(b))
  <1>1. Len(b) \in Nat /\ p \in Seq(Byte) /\ Len(p) = HeaderSize
    BY PrefixLength
  <1> HIDE DEF p
  <1>2. /\ p \o b \in Seq(Byte) /\ Len(p \o b) = HeaderSize + Len(b)
        /\ \A j \in 1 .. HeaderSize : (p \o b)[j] = p[j]
        /\ \A j \in 1 .. Len(b) : (p \o b)[HeaderSize + j] = b[j]
    <2>1. /\ p \o b \in Seq(Byte) /\ Len(p \o b) = Len(p) + Len(b)
          /\ \A i \in 1 .. Len(p) + Len(b) :
               (p \o b)[i] = IF i <= Len(p) THEN p[i] ELSE b[i - Len(p)]
      BY <1>1, ConcatProperties
    <2>2. \A j \in 1 .. Len(b) : HeaderSize + j \in 1 .. HeaderSize + Len(b)
                                 /\ HeaderSize + j - HeaderSize = j
                                 /\ ~(HeaderSize + j <= HeaderSize)
      BY <1>1 DEF HeaderSize
    <2>3. \A j \in 1 .. HeaderSize : j \in 1 .. HeaderSize + Len(b)
      BY <1>1 DEF HeaderSize
    <2> QED BY <1>1, <2>1, <2>2, <2>3, SMTT(30)
  <1> QED BY <1>2 DEF FrameOf, p

-----------------------------------------------------------------------------
(* Types                                                                   *)

LEMMA NoteTypes ==
  /\ \A b \in Notes : b \in Seq(Byte) /\ Len(b) \in Nat /\ b # <<>>
  /\ HeaderSize \in Nat /\ HeaderSize > 0 /\ Byte \subseteq Nat
  /\ MaxFrameSize \in Nat
  <1>1. \A b \in Notes : b \in Seq(Byte) /\ b # <<>>
    BY WireAssumption
  <1>2. Byte \subseteq Nat
    BY WireAssumption DEF Byte
  <1> QED BY <1>1, <1>2, WireAssumption DEF HeaderSize

LEMMA EmptyLen ==
  ASSUME NEW S, NEW q \in Seq(S)
  PROVE  q = <<>> <=> Len(q) = 0
  OBVIOUS

LEMMA FirstOfSeq ==
  ASSUME NEW S, NEW q \in Seq(S), q # <<>>
  PROVE  1 \in 1 .. Len(q) /\ q[1] \in S /\ Head(q) = q[1]
  <1>1. Len(q) \in Nat /\ Len(q) # 0
    OBVIOUS
  <1>2. 1 \in 1 .. Len(q)
    BY <1>1
  <1> QED BY <1>2

LEMMA TypedInit == WireInit => Typed
  <1> SUFFICES ASSUME WireInit PROVE Typed
    OBVIOUS
  <1>1. Len(<<>>) = 0 /\ DOMAIN <<>> = {}
    OBVIOUS
  <1>2. \A S : <<>> \in Seq(S)
    OBVIOUS
  <1>3. WireTypeOK
    BY <1>1, <1>2, WireAssumption DEF WireInit, WireTypeOK, HeaderSize
  <1> QED BY <1>1, <1>3 DEF WireInit, Typed, HeaderSize

(* One byte of a frame goes into the pipe.                                 *)
LEMMA TypedPut ==
  ASSUME Typed, Making, PutByte
  PROVE  Typed'
  <1>0. /\ frame \in Seq(Byte) /\ stream \in Seq(Byte) /\ sent \in Seq(Notes)
        /\ stray \in Seq(0 .. MaxNotes) /\ taken \in 0 .. Len(stream)
        /\ Len(sent) \in Nat /\ Len(stream) \in Nat /\ called \in Nat
        /\ Len(sent) + (IF frame = <<>> THEN 0 ELSE 1) <= called
        /\ \A i \in 1 .. Len(sent) : Len(sent[i]) <= MaxFrameSize
        /\ stray # <<>> => stray[1] <= Len(sent)
    BY DEF Typed, WireTypeOK
  <1>1. /\ frame # <<>> /\ frame' = Tail(frame)
        /\ stream' = Append(stream, Head(frame))
        /\ sent' = IF frame' = <<>> THEN Append(sent, body) ELSE sent
        /\ UNCHANGED <<called, body, alive, stray, readerVars>>
    BY DEF PutByte
  <1>2. frame' \in Seq(Byte) /\ Head(frame) \in Byte
    BY <1>0, <1>1, HeadTailProperties
  <1>3. stream' \in Seq(Byte) /\ Len(stream') = Len(stream) + 1
    BY <1>0, <1>1, <1>2, AppendProperties
  <1>4. body \in Notes /\ Len(body) <= MaxFrameSize
    BY <1>1 DEF Making
  <1>5. /\ Append(sent, body) \in Seq(Notes)
        /\ Len(Append(sent, body)) = Len(sent) + 1
        /\ \A i \in 1 .. Len(sent) : Append(sent, body)[i] = sent[i]
        /\ Append(sent, body)[Len(sent) + 1] = body
    BY <1>0, <1>4, AppendProperties
  <1>6. taken' \in 0 .. Len(stream')
    BY <1>0, <1>1, <1>3 DEF readerVars
  <1>7. /\ sent' \in Seq(Notes) /\ Len(sent) <= Len(sent')
        /\ Len(sent') + (IF frame' = <<>> THEN 0 ELSE 1) <= called'
        /\ \A i \in 1 .. Len(sent') : Len(sent'[i]) <= MaxFrameSize
    <2>1. CASE frame' # <<>>
      <3>1. sent' = sent /\ called' = called
        BY <1>1, <2>1
      <3>2. Len(sent) + 1 <= called
        BY <1>0, <1>1
      <3>3. Len(sent') + (IF frame' = <<>> THEN 0 ELSE 1) <= called'
        BY <2>1, <3>1, <3>2
      <3> QED BY <1>0, <3>1, <3>3
    <2>2. CASE frame' = <<>>
      <3> DEFINE q == Append(sent, body)
      <3>1. sent' = q /\ called' = called
        BY <1>1, <2>2
      <3>2. /\ q \in Seq(Notes) /\ Len(q) = Len(sent) + 1 /\ q[Len(sent) + 1] = body
            /\ \A i \in 1 .. Len(sent) : q[i] = sent[i]
        BY <1>5
      <3> HIDE DEF q
      <3>3. \A i \in 1 .. Len(q) : Len(q[i]) <= MaxFrameSize
        <4> SUFFICES ASSUME NEW i \in 1 .. Len(q) PROVE Len(q[i]) <= MaxFrameSize
          OBVIOUS
        <4>1. i \in 1 .. Len(sent) \/ i = Len(sent) + 1
          BY <1>0, <3>2
        <4> QED BY <1>0, <1>4, <3>2, <4>1
      <3>4. Len(q) <= called
        BY <1>0, <1>1, <3>2
      <3> QED BY <1>0, <2>2, <3>1, <3>2, <3>3, <3>4
    <2> QED BY <2>1, <2>2
  <1>8. stray' # <<>> => stray'[1] <= Len(sent')
    <2>1. stray # <<>> => stray[1] \in Nat
      <3>1. ASSUME stray # <<>> PROVE stray[1] \in 0 .. MaxNotes
        BY <1>0, <3>1, FirstOfSeq
      <3> QED BY <3>1
    <2>2. Len(sent') \in Nat
      BY <1>7
    <2>3. stray' = stray
      BY <1>1
    <2>4. Len(sent) \in Nat /\ Len(sent) <= Len(sent')
          /\ (stray # <<>> => stray[1] <= Len(sent))
      BY <1>0, <1>7
    <2> QED BY <2>1, <2>2, <2>3, <2>4
  <1> QED
    <2>1. DOMAIN sent' = 1 .. Len(sent')
      BY <1>7
    <2> QED BY <1>1, <1>2, <1>3, <1>4, <1>6, <1>7, <1>8, <2>1
            DEF readerVars, Typed, WireTypeOK

LEMMA TypedStep ==
  ASSUME Typed, Making, [WireNext]_wireVars
  PROVE  Typed'
  <1> USE DEF Typed, WireTypeOK
  <1>0. /\ Len(sent) \in Nat /\ Len(stream) \in Nat /\ Len(stray) \in Nat
        /\ Len(part) \in Nat
    OBVIOUS
  <1>1. ASSUME NEW b \in Notes, WriteFrame(b) PROVE Typed'
    <2>1. /\ frame = <<>> /\ called < MaxNotes /\ called' = called + 1
          /\ \/ UNCHANGED <<frame, body>>
             \/ frame' = FrameOf(b) /\ body' = b /\ Len(b) <= MaxFrameSize
          /\ UNCHANGED <<sent, alive, stray, stream, readerVars>>
      BY <1>1, NoteTypes DEF WriteFrame, TooLarge
    <2>2. frame' \in Seq(Byte) /\ body' \in Notes \cup {<<>>}
      BY <2>1, NoteTypes, FrameShape
    <2>3. called' \in 0 .. MaxNotes
          /\ Len(sent') + (IF frame' = <<>> THEN 0 ELSE 1) <= called'
      BY <1>0, <2>1, WireAssumption
    <2> QED BY <2>1, <2>2, <2>3 DEF readerVars
  <1>2. ASSUME NEW x \in Byte, PutStray(x) PROVE Typed'
    <2>1. /\ Len(stray) < MaxStray /\ stray' = Append(stray, Len(sent))
          /\ stream' = Append(stream, x)
          /\ UNCHANGED <<called, frame, body, sent, alive, readerVars>>
      BY <1>2 DEF PutStray
    <2>2. Len(sent) \in 0 .. MaxNotes
      <3>1. Len(sent) <= called
        <4>1. CASE frame = <<>>
          BY <1>0, <4>1
        <4>2. CASE frame # <<>>
          BY <1>0, <4>2
        <4> QED BY <4>1, <4>2
      <3> QED BY <1>0, <3>1, WireAssumption
    <2>3. /\ stray' \in Seq(0 .. MaxNotes) /\ Len(stray') = Len(stray) + 1
          /\ stray'[1] = IF stray = <<>> THEN Len(sent) ELSE stray[1]
      <3>1. /\ Append(stray, Len(sent)) \in Seq(0 .. MaxNotes)
            /\ Len(Append(stray, Len(sent))) = Len(stray) + 1
            /\ \A i \in 1 .. Len(stray) : Append(stray, Len(sent))[i] = stray[i]
            /\ Append(stray, Len(sent))[Len(stray) + 1] = Len(sent)
        BY <2>2, AppendProperties
      <3>2. stray # <<>> => 1 \in 1 .. Len(stray)
        BY <1>0
      <3>3. stray = <<>> => Len(stray) + 1 = 1
        OBVIOUS
      <3> QED BY <2>1, <3>1, <3>2, <3>3
    <2>4. stream' \in Seq(Byte) /\ Len(stream') = Len(stream) + 1
      BY <2>1, AppendProperties
    <2>5. taken' \in 0 .. Len(stream')
      BY <1>0, <2>1, <2>4 DEF readerVars
    <2>6. Len(stray') <= MaxStray
      BY <1>0, <2>1, <2>3, WireAssumption
    <2>7. stray'[1] <= Len(sent')
      BY <1>0, <2>1, <2>3
    <2> QED BY <2>1, <2>3, <2>4, <2>5, <2>6, <2>7 DEF readerVars
  <1>3. CASE GetByte /\ UNCHANGED writerVars
    <2>1. /\ at # "ended" /\ ~Whole /\ taken < Len(stream)
          /\ part' = Append(part, stream[taken + 1]) /\ taken' = taken + 1
          /\ UNCHANGED <<at, need, got, result, writerVars>>
      BY <1>3 DEF GetByte
    <2>2. stream[taken + 1] \in Byte
      BY <1>0, <2>1
    <2>3. part' \in Seq(Byte) /\ Len(part') = Len(part) + 1
      BY <2>1, <2>2, AppendProperties
    <2>4. /\ at = "header" => Len(part') <= HeaderSize
          /\ at = "body" => Len(part') <= need
      <3>1. /\ at = "header" => Len(part) # HeaderSize /\ Len(part) <= HeaderSize
            /\ at = "body" => Len(part) # need /\ Len(part) <= need
        BY <2>1 DEF Whole
      <3>2. need \in Nat /\ HeaderSize \in Nat
        BY NoteTypes
      <3> HIDE DEF Typed, WireTypeOK
      <3> QED BY <1>0, <2>3, <3>1, <3>2
    <2>5. Len(part') <= MaxFrameSize + HeaderSize
      BY <1>0, <2>1, <2>3, <2>4, NoteTypes
    <2>6. taken' \in 0 .. Len(stream')
      BY <1>0, <2>1 DEF writerVars
    <2> QED BY <2>1, <2>3, <2>4, <2>5, <2>6 DEF writerVars
  <1>4. ASSUME NEW err \in {"EOF", "ErrUnexpectedEOF", "ErrFrameTooLarge",
                             "illegible"},
               End(err), UNCHANGED writerVars
        PROVE  Typed'
    BY <1>4 DEF End, writerVars
  <1>5. CASE HeaderRead /\ ~TooLarge(Length(part)) /\ UNCHANGED writerVars
    <2>1. /\ at = "header" /\ Len(part) = HeaderSize
          /\ at' = "body" /\ part' = <<>> /\ need' = Length(part)
          /\ ~(Length(part) > MaxFrameSize)
          /\ UNCHANGED <<taken, got, result, writerVars>>
      BY <1>5 DEF HeaderRead, Whole, TooLarge
    <2>2. need' \in 0 .. MaxFrameSize
      BY <2>1, LengthType, NoteTypes
    <2>3. part' \in Seq(Byte) /\ Len(part') = 0
      BY <2>1
    <2> QED BY <2>1, <2>2, <2>3, NoteTypes DEF writerVars
  <1>6. CASE BodyRead /\ part \in Legible /\ UNCHANGED writerVars
    <2>1. /\ got' = Append(got, part) /\ at' = "header" /\ part' = <<>>
          /\ at = "body" /\ UNCHANGED <<taken, need, result, writerVars>>
      BY <1>6 DEF BodyRead
    <2>2. got' \in Seq(Legible)
      BY <1>6, <2>1, AppendProperties
    <2>3. part' \in Seq(Byte) /\ Len(part') = 0
      BY <2>1
    <2> QED BY <2>1, <2>2, <2>3, NoteTypes DEF writerVars
  <1>7. CASE Dies \/ Rest \/ UNCHANGED wireVars
    BY <1>7 DEF Dies, Rest, wireVars, readerVars, writerVars
  <1>8. ASSUME ReaderStep PROVE Typed'
    <2>1. CASE HeaderRead /\ TooLarge(Length(part))
      BY <1>4, <1>8, <2>1 DEF HeaderRead, ReaderStep
    <2>2. CASE BodyRead /\ part \notin Legible
      BY <1>4, <1>8, <2>2 DEF BodyRead, ReaderStep
    <2>3. CASE StreamEnds
      <3>1. EndError \in {"EOF", "ErrUnexpectedEOF"}
        BY DEF EndError
      <3> QED BY <1>4, <1>8, <2>3, <3>1 DEF StreamEnds, ReaderStep
    <2> QED BY <1>3, <1>5, <1>6, <1>8, <2>1, <2>2, <2>3 DEF ReaderStep
  <1> QED BY <1>1, <1>2, <1>7, <1>8, TypedPut DEF WireNext, WriterStep

-----------------------------------------------------------------------------
(* The frame in the making and the bytes taken out                         *)

(* What the frame in the making has left, and what PutByte does to it.     *)
LEMMA MakingPut ==
  ASSUME Typed, Making, PutByte
  PROVE  /\ body \in Notes /\ Len(body) \in Nat /\ Len(body) <= MaxFrameSize
         /\ Remainder \in Nat /\ Remainder < HeaderSize + Len(body)
         /\ Head(frame) = FrameOf(body)[Remainder + 1]
         /\ frame' # <<>> => Remainder' = Remainder + 1
         /\ frame' = <<>> => /\ Remainder + 1 = HeaderSize + Len(body)
                             /\ Remainder' = 0
         /\ Making'
  <1>1. /\ frame \in Seq(Byte) /\ frame # <<>> /\ frame' = Tail(frame)
        /\ body' = body
    BY DEF Typed, WireTypeOK, PutByte
  <1>2. PICK k \in Nat, n \in Nat, m \in Nat :
          /\ k = Len(frame) /\ n = HeaderSize + Len(body) /\ m = Len(body)
          /\ k <= n /\ k > 0 /\ body \in Notes /\ m <= MaxFrameSize
          /\ Len(FrameOf(body)) = n
    <2>1. /\ body \in Notes /\ Len(body) <= MaxFrameSize
          /\ Len(frame) <= HeaderSize + Len(body)
      BY <1>1 DEF Making
    <2>2. Len(FrameOf(body)) = HeaderSize + Len(body)
      BY <2>1, NoteTypes, FrameShape
    <2>3. Len(frame) \in Nat /\ Len(frame) > 0
      BY <1>1, FirstOfSeq
    <2> QED BY <2>1, <2>2, <2>3, NoteTypes
  <1>3. /\ Remainder = n - k
        /\ \A j \in 1 .. k : frame[j] = FrameOf(body)[n - k + j]
    BY <1>1, <1>2 DEF Remainder, Making
  <1>4. Head(frame) = FrameOf(body)[n - k + 1]
    <2>1. Head(frame) = frame[1]
      BY <1>1, FirstOfSeq
    <2>2. 1 \in 1 .. k
      BY <1>2
    <2> QED BY <1>3, <2>1, <2>2
  <1>5. /\ frame' \in Seq(Byte) /\ Len(frame') = k - 1
        /\ \A j \in 1 .. k - 1 : frame'[j] = frame[j + 1]
    BY <1>1, <1>2, HeadTailProperties
  <1>6. frame' = <<>> <=> k = 1
    <2>1. frame' = <<>> <=> k - 1 = 0
      BY <1>5, EmptyLen
    <2> QED BY <1>2, <2>1
  <1>7. frame' # <<>> => Remainder' = n - (k - 1)
    BY <1>1, <1>2, <1>5 DEF Remainder, FrameOf, Prefix
  <1>8. frame' = <<>> => Remainder' = 0
    BY DEF Remainder
  <1>9. Making'
    <2> SUFFICES ASSUME frame' # <<>>
                 PROVE  /\ body' \in Notes /\ Len(body') <= MaxFrameSize
                        /\ Len(frame') <= HeaderSize + Len(body')
                        /\ \A j \in 1 .. Len(frame') :
                             frame'[j] = FrameOf(body')[Remainder' + j]
      BY DEF Making, FrameOf, Prefix
    <2>1. \A j \in 1 .. k - 1 : j + 1 \in 1 .. k /\ n - k + (j + 1) = n - (k - 1) + j
      BY <1>2
    <2>2. \A j \in 1 .. k - 1 : frame'[j] = FrameOf(body)[n - (k - 1) + j]
      BY <1>3, <1>5, <2>1
    <2> QED BY <1>1, <1>2, <1>5, <1>7, <2>2
  <1> QED BY <1>2, <1>3, <1>4, <1>6, <1>7, <1>8, <1>9

LEMMA MakingStep ==
  ASSUME Typed, Making, [WireNext]_wireVars
  PROVE  Making'
  <1>1. ASSUME NEW b \in Notes, WriteFrame(b) PROVE Making'
    <2>1. \/ frame' = <<>>
          \/ frame' = FrameOf(b) /\ body' = b /\ Len(b) <= MaxFrameSize
      BY <1>1, NoteTypes DEF WriteFrame, TooLarge
    <2>2. CASE frame' = <<>>
      BY <2>2 DEF Making
    <2>3. CASE frame' = FrameOf(b) /\ body' = b /\ Len(b) <= MaxFrameSize
      <3>1. FrameOf(b) \in Seq(Byte) /\ Len(FrameOf(b)) = HeaderSize + Len(b)
            /\ Len(b) \in Nat
        BY <2>3, NoteTypes, FrameShape
      <3>2. Len(frame') - Len(frame') = 0 /\ \A j \in 1 .. Len(frame') : 0 + j = j
        BY <2>3, <3>1, NoteTypes
      <3>3. Remainder' = 0
        BY <2>3, <3>2 DEF Remainder, FrameOf, Prefix
      <3>4. /\ b \in Notes /\ Len(frame') <= HeaderSize + Len(b)
            /\ \A j \in 1 .. Len(frame') : frame'[j] = FrameOf(b)[0 + j]
        BY <2>3, <3>1, <3>2, NoteTypes
      <3> QED BY <2>3, <3>3, <3>4 DEF Making, FrameOf, Prefix
    <2> QED BY <2>1, <2>2, <2>3
  <1>2. CASE UNCHANGED <<frame, body>>
    BY <1>2 DEF Making, Remainder, FrameOf, Prefix
  <1>3. PutByte \/ (\E b \in Notes : WriteFrame(b)) \/ UNCHANGED <<frame, body>>
    BY DEF WireNext, WriterStep, PutStray, Dies, ReaderStep, Rest, wireVars,
           writerVars
  <1> QED BY <1>1, <1>2, <1>3, MakingPut

(* The stream only grows.                                                  *)
LEMMA StreamGrows ==
  ASSUME Typed, Making, [WireNext]_wireVars
  PROVE  /\ Len(stream) \in Nat /\ Len(stream') \in Nat
         /\ Len(stream) <= Len(stream')
         /\ \A j \in 1 .. Len(stream) : stream'[j] = stream[j]
  <1>1. stream \in Seq(Byte)
    BY DEF Typed, WireTypeOK
  <1>2. ASSUME NEW x \in Byte, stream' = Append(stream, x)
        PROVE  /\ Len(stream') = Len(stream) + 1
               /\ \A j \in 1 .. Len(stream) : stream'[j] = stream[j]
    BY <1>1, <1>2, AppendProperties
  <1>3. CASE PutByte
    <2>1. Head(frame) \in Byte
      BY <1>3, HeadTailProperties DEF Typed, WireTypeOK, PutByte
    <2> QED BY <1>1, <1>2, <1>3, <2>1 DEF PutByte
  <1>4. ASSUME NEW x \in Byte, PutStray(x)
        PROVE  /\ Len(stream') = Len(stream) + 1
               /\ \A j \in 1 .. Len(stream) : stream'[j] = stream[j]
    BY <1>2, <1>4 DEF PutStray
  <1>5. PutByte \/ (\E x \in Byte : PutStray(x)) \/ UNCHANGED stream
    BY DEF WireNext, WriterStep, WriteFrame, Dies, ReaderStep, Rest, wireVars,
           writerVars
  <1>6. Len(stream) \in Nat
    BY <1>1
  <1> QED BY <1>1, <1>3, <1>4, <1>5, <1>6

LEMMA CopiedStep ==
  ASSUME Typed, Making, Copied, [WireNext]_wireVars
  PROVE  Copied'
  <1>0. /\ part \in Seq(Byte) /\ Len(part) \in Nat /\ taken \in Nat
        /\ Len(stream) \in Nat /\ taken <= Len(stream) /\ Len(part) <= taken
        /\ \A j \in 1 .. Len(part) : part[j] = stream[taken - Len(part) + j]
    BY DEF Typed, WireTypeOK, Copied
  <1>1. CASE UNCHANGED <<part, taken>>
    <2>1. \A j \in 1 .. Len(part) : taken - Len(part) + j \in 1 .. Len(stream)
      BY <1>0
    <2>2. \A j \in 1 .. Len(stream) : stream'[j] = stream[j]
      BY StreamGrows
    <2> QED BY <1>0, <1>1, <2>1, <2>2 DEF Copied
  <1>2. CASE GetByte /\ UNCHANGED writerVars
    <2> DEFINE x == stream[taken + 1]
    <2>1. /\ part' = Append(part, x) /\ taken' = taken + 1 /\ stream' = stream
          /\ taken < Len(stream)
      BY <1>2 DEF GetByte, writerVars
    <2>2. stream \in Seq(Byte) /\ taken + 1 \in 1 .. Len(stream)
      BY <1>0, <2>1 DEF Typed, WireTypeOK
    <2>3. x \in Byte
      BY <2>2
    <2> HIDE DEF x
    <2>4. /\ Len(part') = Len(part) + 1 /\ part'[Len(part) + 1] = x
          /\ \A j \in 1 .. Len(part) : part'[j] = part[j]
      BY <1>0, <2>1, <2>3, AppendProperties
    <2>5. taken' - Len(part') = taken - Len(part)
          /\ taken - Len(part) + (Len(part) + 1) = taken + 1
          /\ Len(part') <= taken'
      BY <1>0, <2>1, <2>4
    <2>6. \A j \in 1 .. Len(part) + 1 : j \in 1 .. Len(part) \/ j = Len(part) + 1
      BY <1>0
    <2>7. \A j \in 1 .. Len(part') : part'[j] = stream'[taken' - Len(part') + j]
      <3> SUFFICES ASSUME NEW j \in 1 .. Len(part) + 1
                   PROVE  part'[j] = stream[taken - Len(part) + j]
        BY <2>1, <2>4, <2>5
      <3>1. CASE j \in 1 .. Len(part)
        BY <1>0, <2>4, <3>1
      <3>2. CASE j = Len(part) + 1
        BY <2>4, <2>5, <3>2 DEF x
      <3> QED BY <2>6, <3>1, <3>2
    <2> QED BY <2>5, <2>7 DEF Copied
  <1>3. CASE part' = <<>> /\ taken' = taken
    <2>1. Len(part') = 0
      BY <1>3
    <2> QED BY <1>0, <1>3, <2>1 DEF Copied
  <1>4. \/ UNCHANGED <<part, taken>> \/ (GetByte /\ UNCHANGED writerVars)
        \/ (part' = <<>> /\ taken' = taken)
    <2>1. CASE ReaderStep
      BY <2>1 DEF ReaderStep, HeaderRead, BodyRead, StreamEnds, End
    <2>2. CASE ~ReaderStep
      BY <2>2 DEF WireNext, WriterStep, WriteFrame, PutByte, PutStray, Dies,
                  Rest, wireVars, readerVars
    <2> QED BY <2>1, <2>2
  <1> QED BY <1>1, <1>2, <1>3, <1>4

-----------------------------------------------------------------------------
(* Where the frames are                                                    *)

LEMMA RemainderBound ==
  ASSUME Typed, Making
  PROVE  /\ Remainder \in Nat
         /\ frame = <<>> => Remainder = 0
         /\ frame # <<>> => /\ Remainder < HeaderSize + Len(body)
                            /\ body \in Notes /\ Len(body) <= MaxFrameSize
  <1>1. CASE frame = <<>>
    BY <1>1 DEF Remainder
  <1>2. CASE frame # <<>>
    <2>1. /\ body \in Notes /\ Len(body) <= MaxFrameSize
          /\ Len(frame) <= HeaderSize + Len(body)
      BY <1>2 DEF Making
    <2>2. Len(FrameOf(body)) = HeaderSize + Len(body)
      BY <2>1, NoteTypes, FrameShape
    <2>3. Len(frame) \in Nat /\ Len(frame) > 0
      <3>1. frame \in Seq(Byte)
        BY DEF Typed, WireTypeOK
      <3>2. 1 \in 1 .. Len(frame) /\ Len(frame) \in Nat
        BY <1>2, <3>1, FirstOfSeq
      <3> QED BY <3>2
    <2>4. PICK n \in Nat, k \in Nat : n = HeaderSize + Len(body) /\ k = Len(frame)
      BY <2>1, <2>3, NoteTypes
    <2>5. Remainder = n - k
      BY <1>2, <2>2, <2>4 DEF Remainder
    <2>6. n - k \in Nat /\ n - k < n
      BY <2>1, <2>3, <2>4
    <2>7. Remainder \in Nat /\ Remainder < HeaderSize + Len(body)
      BY <2>4, <2>5, <2>6
    <2> QED BY <1>2, <2>1, <2>7
  <1> QED BY <1>1, <1>2

LEMMA KeptType ==
  ASSUME Typed
  PROVE  /\ Kept \in Nat /\ Kept <= Len(sent) /\ Len(sent) \in Nat
         /\ Len(got) \in Nat
         /\ \A i \in 1 .. Kept : /\ sent[i] \in Notes
                                 /\ Len(sent[i]) <= MaxFrameSize
  <1>1. /\ sent \in Seq(Notes) /\ Len(sent) \in Nat /\ Len(got) \in Nat
        /\ stray \in Seq(0 .. MaxNotes)
        /\ stray # <<>> => stray[1] <= Len(sent)
        /\ \A i \in 1 .. Len(sent) : Len(sent[i]) <= MaxFrameSize
    BY DEF Typed, WireTypeOK
  <1>2. Kept \in Nat /\ Kept <= Len(sent)
    <2>1. CASE stray = <<>>
      BY <1>1, <2>1 DEF Kept, Clean
    <2>2. CASE stray # <<>>
      <3>1. stray[1] \in 0 .. MaxNotes
        BY <1>1, <2>2, FirstOfSeq
      <3> QED BY <1>1, <2>2, <3>1 DEF Kept, Clean
    <2> QED BY <2>1, <2>2
  <1>3. \A i \in 1 .. Kept : i \in 1 .. Len(sent)
    BY <1>1, <1>2
  <1> QED BY <1>1, <1>2, <1>3

(* The frames stay where they are.                                         *)
LEMMA StartsStay ==
  ASSUME Typed, Making, [WireNext]_wireVars, NEW s, Starts(s),
         Kept' = Kept, \A i \in 1 .. Kept : sent'[i] = sent[i]
  PROVE  Starts(s)'
  <1>0. /\ Kept \in Nat
        /\ \A i \in 1 .. Kept : sent[i] \in Notes
        /\ \A i \in 1 .. Kept : Len(sent[i]) \in Nat
    BY KeptType, NoteTypes
  <1>1. /\ Len(stream) \in Nat /\ Len(stream') \in Nat
        /\ Len(stream) <= Len(stream')
        /\ \A j \in 1 .. Len(stream) : stream'[j] = stream[j]
    BY StreamGrows
  <1>2. /\ s \in [1 .. Kept + 1 -> Nat] /\ s[1] = 0
        /\ \A i \in 1 .. Kept : s[i + 1] = s[i] + HeaderSize + Len(sent[i])
        /\ \A i \in 1 .. Kept + 1 : s[i] <= Len(stream)
        /\ \A i \in 1 .. Kept : \A j \in 1 .. HeaderSize + Len(sent[i]) :
             stream[s[i] + j] = FrameOf(sent[i])[j]
    BY DEF Starts
  <1>3. \A i \in 1 .. Kept + 1 : s[i] \in Nat /\ s[i] <= Len(stream')
    BY <1>1, <1>2
  <1>4. ASSUME NEW i \in 1 .. Kept, NEW j \in 1 .. HeaderSize + Len(sent[i])
        PROVE  stream'[s[i] + j] = FrameOf(sent[i])[j]
    <2>1. i \in 1 .. Kept + 1 /\ i + 1 \in 1 .. Kept + 1
      BY <1>0
    <2>2. s[i + 1] = s[i] + HeaderSize + Len(sent[i]) /\ s[i + 1] <= Len(stream)
      BY <1>2, <2>1
    <2>3. PICK a \in Nat, l \in Nat, n \in Nat :
            /\ a = s[i] /\ l = Len(sent[i]) /\ n = Len(stream)
      BY <1>0, <1>1, <1>3, <2>1
    <2>4. a + HeaderSize + l <= n /\ j \in 1 .. HeaderSize + l
      BY <2>2, <2>3
    <2>5. a + j \in 1 .. n
      BY <2>3, <2>4, SMTT(30) DEF HeaderSize
    <2>6. s[i] + j \in 1 .. Len(stream)
      BY <2>3, <2>5
    <2> QED BY <1>1, <1>2, <2>6
  <1>5. \A i \in 1 .. Kept : \A j \in 1 .. HeaderSize + Len(sent[i]) :
          stream'[s[i] + j] = FrameOf(sent[i])[j]
    BY <1>4
  <1>6. /\ \A i \in 1 .. Kept' : s[i + 1] = s[i] + HeaderSize + Len(sent'[i])
        /\ \A i \in 1 .. Kept' : \A j \in 1 .. HeaderSize + Len(sent'[i]) :
             stream'[s[i] + j] = FrameOf(sent'[i])[j]
    BY <1>2, <1>5
  <1>7. /\ s \in [1 .. Kept' + 1 -> Nat]
        /\ \A i \in 1 .. Kept' + 1 : s[i] <= Len(stream')
    BY <1>2, <1>3
  <1> QED BY <1>2, <1>6, <1>7 DEF Starts, FrameOf, Prefix

(* What the reader has taken out of the frame it is in, up to its n-th     *)
(* byte, are the bytes of that frame.                                      *)
LEMMA FrameBytes ==
  ASSUME Typed, Making, NEW s, Starts(s), Begun(s),
         Returned, Clean \/ Len(got) < Kept,
         NEW n \in Nat, n > 0, s[Len(got) + 1] + n <= Len(stream)
  PROVE  /\ Current \in Notes /\ Len(Current) <= MaxFrameSize
         /\ s[Len(got) + 1] \in Nat
         /\ \A j \in 1 .. n : j <= HeaderSize + Len(Current) =>
              stream[s[Len(got) + 1] + j] = FrameOf(Current)[j]
         /\ n >= HeaderSize + Len(Current) => Len(got) < Kept
  <1>0. Kept \in Nat /\ Len(got) \in Nat /\ Len(stream) \in Nat
    BY KeptType DEF Typed, WireTypeOK
  <1>1. CASE Len(got) < Kept
    <2> DEFINE g == Len(got) + 1
    <2>1. g \in 1 .. Kept /\ g \in 1 .. Kept + 1
      BY <1>0, <1>1
    <2>2. Current = sent[g]
      BY <1>1 DEF Current
    <2> HIDE DEF g
    <2>3. Current \in Notes /\ Len(Current) <= MaxFrameSize /\ Len(Current) \in Nat
      BY <2>1, <2>2, KeptType, NoteTypes
    <2>4. s[g] \in Nat
      BY <2>1 DEF Starts
    <2>5. \A j \in 1 .. HeaderSize + Len(Current) :
            stream[s[g] + j] = FrameOf(Current)[j]
      BY <2>1, <2>2 DEF Starts
    <2>6. \A j \in 1 .. n : j <= HeaderSize + Len(Current) =>
            j \in 1 .. HeaderSize + Len(Current)
      BY <2>3, NoteTypes
    <2> QED BY <1>1, <2>3, <2>4, <2>5, <2>6 DEF g
  <1>2. CASE ~(Len(got) < Kept)
    <2>1. Clean /\ Len(got) = Kept
      BY <1>0, <1>2 DEF Returned, Kept
    <2>2. Current = body /\ Len(got) + 1 = Kept + 1 /\ Kept + 1 \in 1 .. Kept + 1
      BY <1>0, <1>2, <2>1 DEF Current
    <2>3. s[Kept + 1] \in Nat
      BY <2>2 DEF Starts
    <2>4. Len(stream) = s[Kept + 1] + Remainder /\ Remainder \in Nat
      BY <2>1, RemainderBound DEF Begun
    <2>5. n <= Remainder
      BY <2>2, <2>3, <2>4
    <2>6. frame # <<>>
      BY <2>5, RemainderBound
    <2>7. /\ body \in Notes /\ Len(body) <= MaxFrameSize /\ Len(body) \in Nat
          /\ Remainder < HeaderSize + Len(body)
      BY <2>6, RemainderBound, NoteTypes
    <2>8. \A j \in 1 .. n : stream[s[Kept + 1] + j] = FrameOf(body)[j]
      <3>1. \A j \in 1 .. n : j \in 1 .. Remainder
        BY <2>4, <2>5
      <3> QED BY <2>1, <3>1 DEF Begun
    <2>9. ~(n >= HeaderSize + Len(body))
      BY <2>4, <2>5, <2>7, NoteTypes
    <2> QED BY <2>2, <2>3, <2>7, <2>8, <2>9
  <1> QED BY <1>1, <1>2

LEMMA FramedAt ==
  ASSUME NEW s, Starts(s)', Begun(s)', Placed(s)'
  PROVE  Framed'
  BY DEF Framed, Starts, Begun, Placed, FrameOf, Prefix

-----------------------------------------------------------------------------
(* The writer's steps                                                      *)

(* The writer only adds to what was sent; a stray byte fixes what is kept. *)
LEMMA SentGrows ==
  ASSUME Typed, Making, WriterStep
  PROVE  /\ alive /\ UNCHANGED <<taken, at, part, need, got, result>>
         /\ Len(sent) \in Nat /\ Len(sent') \in Nat /\ Len(sent) <= Len(sent')
         /\ \A i \in 1 .. Len(sent) : sent'[i] = sent[i]
         /\ Clean' => Clean /\ Kept = Len(sent) /\ Kept' = Len(sent')
         /\ ~Clean' => Kept' = Kept
  <1>0. /\ sent \in Seq(Notes) /\ Len(sent) \in Nat
        /\ stray \in Seq(0 .. MaxNotes)
    BY DEF Typed, WireTypeOK
  <1>1. alive /\ UNCHANGED <<taken, at, part, need, got, result>>
    BY DEF WriterStep, WriteFrame, PutByte, PutStray, Dies, readerVars
  <1>2. CASE PutByte
    <2>1. body \in Notes /\ stray' = stray
          /\ sent' = IF frame' = <<>> THEN Append(sent, body) ELSE sent
      BY <1>2, MakingPut DEF PutByte
    <2>2. /\ Len(Append(sent, body)) = Len(sent) + 1
          /\ \A i \in 1 .. Len(sent) : Append(sent, body)[i] = sent[i]
      BY <1>0, <2>1, AppendProperties
    <2>3. /\ Len(sent') \in Nat /\ Len(sent) <= Len(sent')
          /\ \A i \in 1 .. Len(sent) : sent'[i] = sent[i]
      <3>1. CASE frame' = <<>>
        BY <1>0, <2>1, <2>2, <3>1
      <3>2. CASE frame' # <<>>
        BY <1>0, <2>1, <3>2
      <3> QED BY <3>1, <3>2
    <2> QED BY <1>0, <1>1, <2>1, <2>3 DEF Clean, Kept
  <1>3. ASSUME NEW x \in Byte, PutStray(x)
        PROVE  /\ sent' = sent /\ ~Clean' /\ Kept' = Kept
    <2>1. stray' = Append(stray, Len(sent)) /\ sent' = sent
      BY <1>3 DEF PutStray
    <2>2. Len(sent) \in 0 .. MaxNotes
      <3>1. Len(sent) <= called /\ called \in 0 .. MaxNotes
        <4>1. CASE frame = <<>>
          BY <1>0, <4>1 DEF Typed, WireTypeOK
        <4>2. CASE frame # <<>>
          BY <1>0, <4>2 DEF Typed, WireTypeOK
        <4> QED BY <4>1, <4>2
      <3> QED BY <1>0, <3>1, WireAssumption
    <2>3. /\ Append(stray, Len(sent)) \in Seq(0 .. MaxNotes)
          /\ Len(Append(stray, Len(sent))) = Len(stray) + 1
          /\ \A i \in 1 .. Len(stray) : Append(stray, Len(sent))[i] = stray[i]
          /\ Append(stray, Len(sent))[Len(stray) + 1] = Len(sent)
      BY <1>0, <2>2, AppendProperties
    <2>4. Len(stray) \in Nat
      BY <1>0
    <2>5. stray' # <<>>
      <3>1. Len(stray') # 0
        BY <2>1, <2>3, <2>4
      <3> QED BY <2>1, <2>3, <3>1, EmptyLen
    <2>6. CASE stray = <<>>
      <3>1. Len(stray) + 1 = 1
        BY <2>6
      <3>2. stray'[1] = Len(sent)
        BY <2>1, <2>3, <3>1
      <3> QED BY <2>1, <2>5, <2>6, <3>2 DEF Clean, Kept
    <2>7. CASE stray # <<>>
      <3>1. 1 \in 1 .. Len(stray)
        BY <1>0, <2>7, FirstOfSeq
      <3>2. stray'[1] = stray[1]
        BY <2>1, <2>3, <3>1
      <3> QED BY <2>1, <2>5, <2>7, <3>2 DEF Clean, Kept
    <2> QED BY <2>6, <2>7
  <1>4. CASE UNCHANGED <<sent, stray>>
    BY <1>0, <1>1, <1>4 DEF Clean, Kept
  <1>5. PutByte \/ (\E x \in Byte : PutStray(x)) \/ UNCHANGED <<sent, stray>>
    BY DEF WriterStep, WriteFrame, Dies
  <1> QED BY <1>0, <1>1, <1>2, <1>3, <1>4, <1>5

LEMMA ReturnedWriter ==
  ASSUME Typed, Making, Returned, Ended, WriterStep
  PROVE  Returned' /\ Ended'
  <1>0. /\ alive /\ UNCHANGED <<taken, at, part, need, got, result>>
        /\ Len(sent) \in Nat /\ Len(sent') \in Nat /\ Len(sent) <= Len(sent')
        /\ \A i \in 1 .. Len(sent) : sent'[i] = sent[i]
        /\ Clean' => Clean /\ Kept = Len(sent) /\ Kept' = Len(sent')
        /\ ~Clean' => Kept' = Kept
    BY SentGrows
  <1>1. /\ Kept \in Nat /\ Kept <= Len(sent) /\ Len(got) \in Nat
        /\ DOMAIN got = 1 .. Len(got)
    BY KeptType DEF Typed, WireTypeOK
  <1>2. Clean' => Len(got) <= Len(sent) /\ Len(got) <= Len(sent')
    BY <1>0, <1>1 DEF Returned
  <1>3. ASSUME NEW i \in 1 .. Len(got), i <= Kept' PROVE got[i] = sent'[i]
    <2>1. i <= Kept
      BY <1>0, <1>1, <1>2, <1>3
    <2>2. i \in 1 .. Len(sent)
      BY <1>0, <1>1, <2>1
    <2> QED BY <1>0, <1>1, <2>1, <2>2 DEF Returned
  <1>4. Returned'
    BY <1>0, <1>1, <1>2, <1>3 DEF Returned
  <1>5. ASSUME Clean' PROVE result \notin {"EOF", "ErrUnexpectedEOF"}
    BY <1>0, <1>5 DEF Ended
  <1>6. ASSUME Clean', result = "illegible"
        PROVE  Len(got) < Len(sent') /\ sent'[Len(got) + 1] \notin Legible
    <2>1. Len(got) < Len(sent) /\ sent[Len(got) + 1] \notin Legible
      BY <1>0, <1>6 DEF Ended
    <2>2. Len(got) + 1 \in 1 .. Len(sent)
      BY <1>0, <1>1, <2>1
    <2> QED BY <1>0, <1>1, <2>1, <2>2
  <1>7. Clean' => result # "ErrFrameTooLarge"
    BY <1>0 DEF Ended
  <1> QED BY <1>0, <1>4, <1>5, <1>6, <1>7 DEF Ended

(* The reader's place is the same if the kept frames are and, when it is   *)
(* in the body after the last of them, that body is.                       *)
LEMMA PlacedStay ==
  ASSUME Typed, NEW s, Placed(s),
         UNCHANGED <<taken, at, part, need, got>>,
         Kept' = Kept, \A i \in 1 .. Kept : sent'[i] = sent[i],
         Clean' => Clean,
         at = "body" /\ ~(Len(got) < Kept) => body' = body
  PROVE  Placed(s)'
  <1>1. Kept \in Nat /\ Len(got) \in Nat
    BY KeptType
  <1>2. at = "body" => Current' = Current
    <2>1. CASE Len(got) < Kept
      <3>1. Len(got) + 1 \in 1 .. Kept
        BY <1>1, <2>1
      <3> QED BY <2>1, <3>1 DEF Current
    <2>2. CASE ~(Len(got) < Kept)
      BY <2>2 DEF Current
    <2> QED BY <2>1, <2>2
  <1>3. (Clean \/ Len(got) < Kept)' => Clean \/ Len(got) < Kept
    OBVIOUS
  <1> QED BY <1>2, <1>3 DEF Placed

(* A byte of a frame that is not its last.                                 *)
LEMMA FramedPut ==
  ASSUME Typed, Making, PutByte, frame' # <<>> \/ ~Clean,
         NEW s, Starts(s), Begun(s), Placed(s)
  PROVE  Framed'
  <1>0. WriterStep /\ [WireNext]_wireVars
    BY DEF WriterStep, WireNext
  <1>1. /\ UNCHANGED <<taken, at, part, need, got, result>>
        /\ Len(sent) \in Nat /\ Kept \in Nat /\ Kept <= Len(sent)
        /\ \A i \in 1 .. Len(sent) : sent'[i] = sent[i]
        /\ ~Clean' => Kept' = Kept
    BY <1>0, SentGrows, KeptType
  <1>2. /\ body' = body /\ stray' = stray /\ stream' = Append(stream, Head(frame))
        /\ frame' # <<>> => sent' = sent
    BY DEF PutByte
  <1>3. Kept' = Kept /\ (Clean' <=> Clean)
    BY <1>1, <1>2 DEF Clean, Kept
  <1>4. \A i \in 1 .. Kept : sent'[i] = sent[i]
    BY <1>1
  <1>5. Starts(s)'
    BY <1>0, <1>3, <1>4, StartsStay
  <1>6. Placed(s)'
    BY <1>1, <1>2, <1>3, <1>4, PlacedStay
  <1>7. Begun(s)'
    <2> SUFFICES ASSUME Clean
                 PROVE  /\ Len(stream') = s[Kept + 1] + Remainder'
                        /\ \A j \in 1 .. Remainder' :
                             stream'[s[Kept + 1] + j] = FrameOf(body)[j]
      BY <1>2, <1>3 DEF Begun, FrameOf, Prefix
    <2>1. /\ Len(stream) = s[Kept + 1] + Remainder
          /\ \A j \in 1 .. Remainder : stream[s[Kept + 1] + j] = FrameOf(body)[j]
      BY DEF Begun
    <2>2. /\ Remainder \in Nat /\ Remainder' = Remainder + 1
          /\ Head(frame) = FrameOf(body)[Remainder + 1]
      BY MakingPut
    <2>3. s[Kept + 1] \in Nat
      <3>1. Kept + 1 \in 1 .. Kept + 1
        BY <1>1
      <3> QED BY <3>1 DEF Starts
    <2>4. /\ Len(stream') = Len(stream) + 1
          /\ stream'[Len(stream) + 1] = Head(frame)
          /\ \A j \in 1 .. Len(stream) : stream'[j] = stream[j]
      <3>1. Head(frame) \in Byte /\ stream \in Seq(Byte)
        BY HeadTailProperties DEF Typed, WireTypeOK, PutByte
      <3> QED BY <1>2, <3>1, AppendProperties
    <2>5. ASSUME NEW j \in 1 .. Remainder + 1
          PROVE  stream'[s[Kept + 1] + j] = FrameOf(body)[j]
      <3>1. CASE j \in 1 .. Remainder
        <4>1. s[Kept + 1] + j \in 1 .. Len(stream)
          BY <2>1, <2>2, <2>3, <3>1
        <4> QED BY <2>1, <2>4, <3>1, <4>1
      <3>2. CASE j = Remainder + 1
        <4>1. s[Kept + 1] + j = Len(stream) + 1
          BY <2>1, <2>2, <2>3, <3>2
        <4> QED BY <2>2, <2>4, <3>2, <4>1
      <3>3. j \in 1 .. Remainder \/ j = Remainder + 1
        BY <2>2
      <3> QED BY <3>1, <3>2, <3>3
    <2>6. Len(stream') = s[Kept + 1] + Remainder'
      BY <2>1, <2>2, <2>3, <2>4
    <2> QED BY <2>2, <2>5, <2>6
  <1> QED BY <1>5, <1>6, <1>7, FramedAt

(* The last byte of a frame: the note is sent, the next frame starts where *)
(* the stream now ends.                                                    *)
LEMMA FramedLast ==
  ASSUME Typed, Making, Returned, PutByte, frame' = <<>>, Clean,
         NEW s, Starts(s), Begun(s), Placed(s)
  PROVE  Framed'
  <1>0. WriterStep /\ [WireNext]_wireVars
    BY DEF WriterStep, WireNext
  <1>1. /\ UNCHANGED <<taken, at, part, need, got, result>>
        /\ Len(sent) \in Nat /\ Len(got) \in Nat
        /\ \A i \in 1 .. Len(sent) : sent'[i] = sent[i]
    BY <1>0, SentGrows, KeptType
  <1>2. /\ body' = body /\ stray' = stray /\ stream' = Append(stream, Head(frame))
        /\ sent' = Append(sent, body)
    BY DEF PutByte
  <1>3. /\ body \in Notes /\ Len(body) \in Nat
        /\ Remainder \in Nat /\ Remainder + 1 = HeaderSize + Len(body)
        /\ Remainder' = 0 /\ Head(frame) = FrameOf(body)[Remainder + 1]
    BY MakingPut
  <1>4. Len(sent') = Len(sent) + 1 /\ sent'[Len(sent) + 1] = body
    BY <1>2, <1>3, AppendProperties DEF Typed, WireTypeOK
  <1>5. Clean' /\ Kept = Len(sent) /\ Kept' = Len(sent) + 1
    BY <1>2, <1>4 DEF Clean, Kept
  <1>6. /\ Len(stream') = Len(stream) + 1
        /\ stream'[Len(stream) + 1] = Head(frame)
        /\ \A j \in 1 .. Len(stream) : stream'[j] = stream[j]
        /\ Len(stream) \in Nat
    <2>1. Head(frame) \in Byte /\ stream \in Seq(Byte)
      BY HeadTailProperties DEF Typed, WireTypeOK, PutByte
    <2> QED BY <1>2, <2>1, AppendProperties
  <1> DEFINE k == Len(sent)
  <1>7. /\ k \in Nat /\ s \in [1 .. k + 1 -> Nat] /\ s[1] = 0
        /\ \A i \in 1 .. k : s[i + 1] = s[i] + HeaderSize + Len(sent[i])
        /\ \A i \in 1 .. k + 1 : s[i] <= Len(stream)
        /\ \A i \in 1 .. k : \A j \in 1 .. HeaderSize + Len(sent[i]) :
             stream[s[i] + j] = FrameOf(sent[i])[j]
        /\ Len(stream) = s[k + 1] + Remainder
        /\ \A j \in 1 .. Remainder : stream[s[k + 1] + j] = FrameOf(body)[j]
    BY <1>1, <1>5 DEF Starts, Begun
  <1>8. PICK t : /\ t \in [1 .. k + 2 -> Nat]
                 /\ \A i \in 1 .. k + 1 : t[i] = s[i] /\ t[i] \in Nat
                 /\ t[k + 2] = Len(stream')
    <2> DEFINE u == [i \in 1 .. k + 2 |-> IF i <= k + 1 THEN s[i] ELSE Len(stream')]
    <2>1. \A i \in 1 .. k + 1 : i \in 1 .. k + 2 /\ i <= k + 1
      BY <1>7
    <2>2. k + 2 \in 1 .. k + 2 /\ ~(k + 2 <= k + 1)
      BY <1>7
    <2>3. \A i \in 1 .. k + 2 : i \in 1 .. k + 1 \/ i = k + 2
      BY <1>7
    <2>4. \A i \in 1 .. k + 1 : s[i] \in Nat
      BY <1>7
    <2>5. Len(stream') \in Nat
      BY <1>6
    <2>6. /\ u \in [1 .. k + 2 -> Nat]
          /\ \A i \in 1 .. k + 1 : u[i] = s[i] /\ u[i] \in Nat
          /\ u[k + 2] = Len(stream')
      BY <2>1, <2>2, <2>3, <2>4, <2>5
    <2> QED BY <2>6
  <1>9. t[k + 2] = t[k + 1] + HeaderSize + Len(body)
    <2>1. k + 1 \in 1 .. k + 1
      BY <1>7
    <2>2. PICK a \in Nat : a = s[k + 1] /\ a = t[k + 1]
      BY <1>8, <2>1
    <2>3. t[k + 2] = a + Remainder + 1
      BY <1>6, <1>7, <1>8, <2>2
    <2> QED BY <1>3, <2>2, <2>3, SMTT(30) DEF HeaderSize
  <1>10. ASSUME NEW i \in 1 .. k + 1
         PROVE  /\ t[i + 1] = t[i] + HeaderSize + Len(sent'[i])
                /\ \A j \in 1 .. HeaderSize + Len(sent'[i]) :
                     stream'[t[i] + j] = FrameOf(sent'[i])[j]
    <2>1. CASE i \in 1 .. k
      <3>1. i + 1 \in 1 .. k + 1 /\ sent'[i] = sent[i]
        BY <1>1, <1>7, <2>1
      <3>2. /\ t[i + 1] = s[i + 1] /\ t[i] = s[i] /\ s[i] \in Nat
            /\ s[i + 1] = s[i] + HeaderSize + Len(sent[i])
            /\ s[i + 1] <= Len(stream)
        BY <1>7, <1>8, <2>1, <3>1
      <3>3. Len(sent[i]) \in Nat
        BY <1>5, <2>1, KeptType, NoteTypes
      <3>4. \A j \in 1 .. HeaderSize + Len(sent[i]) : s[i] + j \in 1 .. Len(stream)
        <4>1. PICK a \in Nat, l \in Nat, n \in Nat :
                a = s[i] /\ l = Len(sent[i]) /\ n = Len(stream)
          BY <1>6, <3>2, <3>3
        <4>2. a + HeaderSize + l <= n
          BY <3>2, <4>1
        <4>3. \A j \in 1 .. HeaderSize + l : a + j \in 1 .. n
          BY <4>1, <4>2, SMTT(30) DEF HeaderSize
        <4> QED BY <4>1, <4>3
      <3>5. \A j \in 1 .. HeaderSize + Len(sent[i]) :
              stream'[s[i] + j] = FrameOf(sent[i])[j]
        BY <1>6, <1>7, <2>1, <3>4
      <3> QED BY <3>1, <3>2, <3>5
    <2>2. CASE i = k + 1
      <3>1. sent'[i] = body /\ t[i] = s[k + 1] /\ s[k + 1] \in Nat /\ i + 1 = k + 2
        BY <1>4, <1>7, <1>8, <2>2
      <3>2. t[i + 1] = t[i] + HeaderSize + Len(sent'[i])
        BY <1>9, <2>2, <3>1
      <3>3. ASSUME NEW j \in 1 .. Remainder + 1
            PROVE  stream'[s[k + 1] + j] = FrameOf(body)[j]
        <4>1. CASE j \in 1 .. Remainder
          <5>1. s[k + 1] + j \in 1 .. Len(stream)
            BY <1>3, <1>7, <3>1, <4>1
          <5> QED BY <1>6, <1>7, <4>1, <5>1
        <4>2. CASE j = Remainder + 1
          <5>1. s[k + 1] + j = Len(stream) + 1
            BY <1>3, <1>7, <3>1, <4>2
          <5> QED BY <1>3, <1>6, <4>2, <5>1
        <4>3. j \in 1 .. Remainder \/ j = Remainder + 1
          BY <1>3
        <4> QED BY <4>1, <4>2, <4>3
      <3> QED BY <1>3, <3>1, <3>2, <3>3
    <2>3. i \in 1 .. k \/ i = k + 1
      BY <1>7
    <2> QED BY <2>1, <2>2, <2>3
  <1>11. \A i \in 1 .. k + 2 : t[i] <= Len(stream')
    <2>1. \A i \in 1 .. k + 1 : t[i] <= Len(stream')
      <3> SUFFICES ASSUME NEW i \in 1 .. k + 1 PROVE t[i] <= Len(stream')
        OBVIOUS
      <3>1. t[i] \in Nat /\ t[i] <= Len(stream)
        BY <1>7, <1>8
      <3> QED BY <1>6, <3>1
    <2>2. t[k + 2] <= Len(stream')
      BY <1>6, <1>8
    <2>3. \A i \in 1 .. k + 2 : i \in 1 .. k + 1 \/ i = k + 2
      BY <1>7
    <2> QED BY <2>1, <2>2, <2>3
  <1>12. Kept' + 1 = k + 2 /\ 1 \in 1 .. k + 1
    BY <1>5, <1>7
  <1>13. Starts(t)'
    <2>1. t[1] = 0
      BY <1>7, <1>8, <1>12
    <2>2. /\ \A i \in 1 .. Kept' : t[i + 1] = t[i] + HeaderSize + Len(sent'[i])
          /\ \A i \in 1 .. Kept' : \A j \in 1 .. HeaderSize + Len(sent'[i]) :
               stream'[t[i] + j] = FrameOf(sent'[i])[j]
      BY <1>5, <1>10
    <2>3. /\ t \in [1 .. Kept' + 1 -> Nat]
          /\ \A i \in 1 .. Kept' + 1 : t[i] <= Len(stream')
      BY <1>8, <1>11, <1>12
    <2> QED BY <2>1, <2>2, <2>3 DEF Starts, FrameOf, Prefix
  <1>14. Begun(t)'
    <2>1. Len(stream') = t[Kept' + 1] + 0
      BY <1>6, <1>8, <1>12
    <2>2. \A j \in 1 .. 0 : FALSE
      OBVIOUS
    <2> QED BY <1>3, <2>1, <2>2 DEF Begun, FrameOf, Prefix
  <1>15. Placed(t)'
    <2>1. Len(got) + 1 \in 1 .. k + 1
      BY <1>1, <1>7 DEF Returned
    <2>2. t[Len(got) + 1] = s[Len(got) + 1]
      BY <1>8, <2>1
    <2>3. Current' = Current
      <3>1. CASE Len(got) < k
        <4>1. Len(got) + 1 \in 1 .. k /\ Len(got) < k + 1
          BY <1>1, <1>7, <3>1
        <4> QED BY <1>1, <1>5, <3>1, <4>1 DEF Current
      <3>2. CASE ~(Len(got) < k)
        <4>1. Len(got) + 1 = k + 1 /\ Len(got) < k + 1
          BY <1>1, <1>7, <2>1, <3>2
        <4> QED BY <1>1, <1>4, <1>5, <3>2, <4>1 DEF Current
      <3> QED BY <3>1, <3>2
    <2> QED BY <1>1, <2>2, <2>3 DEF Placed
  <1> QED BY <1>13, <1>14, <1>15, FramedAt

LEMMA FramedWriter ==
  ASSUME Typed, Making, Returned, Framed, WriterStep
  PROVE  Framed'
  <1>1. PICK s : Starts(s) /\ Begun(s) /\ Placed(s)
    BY DEF Framed
  <1>2. /\ [WireNext]_wireVars
        /\ UNCHANGED <<taken, at, part, need, got, result>>
        /\ \A i \in 1 .. Len(sent) : sent'[i] = sent[i]
        /\ Clean' => Clean /\ Kept = Len(sent) /\ Kept' = Len(sent')
        /\ ~Clean' => Kept' = Kept
    BY SentGrows DEF WireNext
  <1>3. Kept \in Nat /\ Kept <= Len(sent) /\ Len(sent) \in Nat /\ Len(got) \in Nat
    BY KeptType
  <1>4. ASSUME Kept' = Kept PROVE Starts(s)'
    BY <1>1, <1>2, <1>3, <1>4, StartsStay
  <1>5. CASE PutByte
    BY <1>1, <1>5, FramedPut, FramedLast
  <1>6. ASSUME NEW x \in Byte, PutStray(x) PROVE Framed'
    <2>1. body' = body /\ ~Clean'
      <3>1. /\ body' = body /\ stray' = Append(stray, Len(sent))
            /\ stray \in Seq(0 .. MaxNotes)
        BY <1>6 DEF PutStray, Typed, WireTypeOK
      <3>2. stray' # <<>>
        <4>1. Len(stray') = Len(stray) + 1 /\ Len(stray) \in Nat
          BY <3>1
        <4> QED BY <4>1
      <3> QED BY <3>1, <3>2 DEF Clean
    <2>2. Placed(s)'
      BY <1>1, <1>2, <1>3, <2>1, PlacedStay
    <2>3. Begun(s)'
      BY <2>1 DEF Begun
    <2> QED BY <1>2, <1>4, <2>1, <2>2, <2>3, FramedAt
  <1>7. ASSUME frame = <<>> \/ body' = body, Remainder' = Remainder,
               UNCHANGED <<sent, stray, stream>>
        PROVE  Framed'
    <2>1. Kept' = Kept /\ (Clean' <=> Clean)
      BY <1>7 DEF Clean, Kept
    <2>2. Begun(s)'
      <3>1. CASE frame = <<>>
        <4>1. Remainder = 0 /\ \A j \in 1 .. 0 : FALSE
          BY <3>1, RemainderBound
        <4> QED BY <1>1, <1>7, <2>1, <4>1 DEF Begun, FrameOf, Prefix
      <3>2. CASE body' = body
        BY <1>1, <1>7, <2>1, <3>2 DEF Begun, FrameOf, Prefix
      <3> QED BY <1>7, <3>1, <3>2
    <2>3. ASSUME at = "body", ~(Len(got) < Kept), Clean PROVE body' = body
      <3>1. Len(got) = Kept
        BY <1>3, <2>3 DEF Returned, Kept
      <3>2. /\ taken = s[Kept + 1] + HeaderSize + Len(part)
            /\ Len(stream) = s[Kept + 1] + Remainder
        BY <1>1, <2>3, <3>1 DEF Placed, Begun
      <3>3. s[Kept + 1] \in Nat
        <4>1. Kept + 1 \in 1 .. Kept + 1
          BY <1>3
        <4> QED BY <1>1, <4>1 DEF Starts
      <3>4. /\ taken \in Nat /\ Len(stream) \in Nat /\ taken <= Len(stream)
            /\ Len(part) \in Nat
        BY DEF Typed, WireTypeOK
      <3>5. ~(Remainder = 0)
        BY <3>2, <3>3, <3>4 DEF HeaderSize
      <3> QED BY <1>7, <3>5, RemainderBound
    <2>4. Placed(s)'
      <3>2. ASSUME Clean PROVE Placed(s)'
        BY <1>1, <1>2, <1>3, <2>1, <2>3, <3>2, PlacedStay
      <3>3. ASSUME ~Clean PROVE Placed(s)'
        <4>1. Len(got) < Kept => Current' = Current
          BY <1>7, <2>1, <1>2 DEF Current
        <4> QED BY <1>1, <1>2, <2>1, <3>3, <4>1 DEF Placed
      <3> QED BY <3>2, <3>3
    <2> QED BY <1>4, <2>1, <2>2, <2>4, FramedAt
  <1>8. ASSUME NEW b \in Notes, WriteFrame(b) PROVE Framed'
    <2>1. /\ frame = <<>> /\ UNCHANGED <<sent, stray, stream>>
          /\ \/ UNCHANGED <<frame, body>>
             \/ frame' = FrameOf(b) /\ body' = b /\ Len(b) <= MaxFrameSize
      BY <1>8, NoteTypes DEF WriteFrame, TooLarge
    <2>2. Remainder' = 0
      <3>1. CASE UNCHANGED <<frame, body>>
        BY <2>1, <3>1 DEF Remainder
      <3>2. CASE frame' = FrameOf(b) /\ body' = b /\ Len(b) <= MaxFrameSize
        <4>1. Len(FrameOf(b)) \in Nat
          BY <3>2, NoteTypes, FrameShape
        <4>2. Len(FrameOf(b)) - Len(FrameOf(b)) = 0
          BY <4>1
        <4> QED BY <3>2, <4>2 DEF Remainder, FrameOf, Prefix
      <3> QED BY <2>1, <3>1, <3>2
    <2>3. Remainder = 0
      BY <2>1 DEF Remainder
    <2> QED BY <1>7, <2>1, <2>2, <2>3
  <1>9. CASE Dies
    <2>1. UNCHANGED <<frame, body, sent, stray, stream>>
      BY <1>9 DEF Dies
    <2>2. Remainder' = Remainder
      BY <2>1 DEF Remainder, FrameOf, Prefix
    <2> QED BY <1>7, <2>1, <2>2
  <1> QED BY <1>5, <1>6, <1>8, <1>9 DEF WriterStep

-----------------------------------------------------------------------------
(* The reader's steps                                                      *)

LEMMA SameSeq ==
  ASSUME NEW S, NEW p \in Seq(S), NEW T, NEW q \in Seq(T), Len(p) = Len(q),
         \A i \in 1 .. Len(p) : p[i] = q[i]
  PROVE  p = q
  OBVIOUS

(* Where the frame starts that the reader is in.                           *)
LEMMA StartType ==
  ASSUME Typed, Returned, Clean \/ Len(got) < Kept, NEW s, Starts(s)
  PROVE  /\ Len(got) + 1 \in 1 .. Kept + 1 /\ s[Len(got) + 1] \in Nat
         /\ Len(got) < Kept =>
              s[Len(got) + 2] = s[Len(got) + 1] + HeaderSize + Len(Current)
              /\ s[Len(got) + 2] <= Len(stream)
  <1>1. Kept \in Nat /\ Len(got) \in Nat
    BY KeptType
  <1>2. Len(got) <= Kept
    BY <1>1 DEF Returned, Kept
  <1>3. Len(got) + 1 \in 1 .. Kept + 1
    BY <1>1, <1>2
  <1>4. ASSUME Len(got) < Kept
        PROVE  s[Len(got) + 2] = s[Len(got) + 1] + HeaderSize + Len(Current)
               /\ s[Len(got) + 2] <= Len(stream)
    <2> DEFINE g == Len(got) + 1
    <2>1. g \in 1 .. Kept /\ g + 1 \in 1 .. Kept + 1 /\ g + 1 = Len(got) + 2
      BY <1>1, <1>4
    <2>2. Current = sent[g]
      BY <1>4 DEF Current
    <2> HIDE DEF g
    <2>3. s[g + 1] = s[g] + HeaderSize + Len(sent[g]) /\ s[g + 1] <= Len(stream)
      BY <2>1 DEF Starts
    <2> QED BY <2>1, <2>2, <2>3 DEF g
  <1> QED BY <1>3, <1>4 DEF Starts

(* A whole header tells the length of the note it belongs to.              *)
LEMMA HeaderIs ==
  ASSUME Typed, Making, Copied, Returned, Framed,
         Clean \/ Len(got) < Kept, at = "header", Len(part) = HeaderSize
  PROVE  Length(part) = Len(Current) /\ ~TooLarge(Length(part))
  <1>1. PICK s : Starts(s) /\ Begun(s) /\ Placed(s)
    BY DEF Framed
  <1>2. /\ part \in Seq(Byte) /\ taken \in Nat /\ Len(stream) \in Nat
        /\ taken <= Len(stream) /\ HeaderSize \in Nat /\ HeaderSize > 0
    BY NoteTypes DEF Typed, WireTypeOK
  <1>3. taken = s[Len(got) + 1] + HeaderSize /\ s[Len(got) + 1] \in Nat
    BY <1>1, StartType DEF Placed
  <1>4. /\ Current \in Notes /\ Len(Current) <= MaxFrameSize
        /\ \A j \in 1 .. HeaderSize : j <= HeaderSize + Len(Current) =>
             stream[s[Len(got) + 1] + j] = FrameOf(Current)[j]
    <2>1. s[Len(got) + 1] + HeaderSize <= Len(stream)
      BY <1>2, <1>3
    <2> QED BY <1>1, <1>2, <2>1, FrameBytes
  <1>5. Current \in Seq(Byte) /\ Len(Current) \in Nat
    BY <1>4, NoteTypes
  <1>6. \A j \in 1 .. HeaderSize : part[j] = Prefix(Len(Current))[j]
    <2> SUFFICES ASSUME NEW j \in 1 .. HeaderSize
                 PROVE  part[j] = Prefix(Len(Current))[j]
      OBVIOUS
    <2>1. part[j] = stream[taken - HeaderSize + j]
      BY DEF Copied
    <2>2. taken - HeaderSize + j = s[Len(got) + 1] + j
      BY <1>2, <1>3
    <2>3. j <= HeaderSize + Len(Current)
      BY <1>2, <1>5
    <2>4. FrameOf(Current)[j] = Prefix(Len(Current))[j]
      BY <1>4, <1>5, FrameShape
    <2> QED BY <1>4, <2>1, <2>2, <2>3, <2>4
  <1>7. Length(part) = Length(Prefix(Len(Current)))
    <2>1. 1 \in 1 .. HeaderSize /\ 2 \in 1 .. HeaderSize
          /\ 3 \in 1 .. HeaderSize /\ 4 \in 1 .. HeaderSize
      BY DEF HeaderSize
    <2> QED BY <1>6, <2>1 DEF Length
  <1>8. Length(part) = Len(Current)
    BY <1>4, <1>5, <1>7, PrefixLength
  <1> QED BY <1>4, <1>5, <1>8, NoteTypes DEF TooLarge

(* A whole body is the note it belongs to, and that was sent.              *)
LEMMA BodyIs ==
  ASSUME Typed, Making, Copied, Returned, Framed,
         Clean \/ Len(got) < Kept, at = "body", Len(part) = need
  PROVE  Len(got) < Kept /\ part = sent[Len(got) + 1]
  <1>1. PICK s : Starts(s) /\ Begun(s) /\ Placed(s)
    BY DEF Framed
  <1>2. /\ part \in Seq(Byte) /\ taken \in Nat /\ Len(stream) \in Nat
        /\ taken <= Len(stream) /\ HeaderSize \in Nat /\ HeaderSize > 0
        /\ Len(part) \in Nat
    BY NoteTypes DEF Typed, WireTypeOK
  <1>3. /\ taken = s[Len(got) + 1] + HeaderSize + Len(part)
        /\ s[Len(got) + 1] \in Nat /\ Len(part) = Len(Current)
    BY <1>1, StartType DEF Placed
  <1>4. PICK n \in Nat : n = HeaderSize + Len(part) /\ n > 0
    BY <1>2
  <1>5. /\ Current \in Notes /\ Len(Current) <= MaxFrameSize
        /\ \A j \in 1 .. n : j <= HeaderSize + Len(Current) =>
             stream[s[Len(got) + 1] + j] = FrameOf(Current)[j]
        /\ n >= HeaderSize + Len(Current) => Len(got) < Kept
    <2>1. s[Len(got) + 1] + n <= Len(stream)
      BY <1>2, <1>3, <1>4
    <2> QED BY <1>1, <1>4, <2>1, FrameBytes
  <1>6. Len(got) < Kept
    BY <1>2, <1>3, <1>4, <1>5
  <1>7. Current \in Seq(Byte) /\ Len(Current) \in Nat
    BY <1>5, NoteTypes
  <1>8. \A j \in 1 .. Len(part) : part[j] = Current[j]
    <2> SUFFICES ASSUME NEW j \in 1 .. Len(part) PROVE part[j] = Current[j]
      OBVIOUS
    <2>1. part[j] = stream[taken - Len(part) + j]
      BY DEF Copied
    <2>2. taken - Len(part) + j = s[Len(got) + 1] + (HeaderSize + j)
      BY <1>2, <1>3
    <2>3. HeaderSize + j \in 1 .. n /\ HeaderSize + j <= HeaderSize + Len(Current)
      BY <1>2, <1>3, <1>4
    <2>4. FrameOf(Current)[HeaderSize + j] = Current[j]
      BY <1>3, <1>5, <1>7, FrameShape
    <2> QED BY <1>5, <2>1, <2>2, <2>3, <2>4
  <1>9. part = Current
    BY <1>2, <1>3, <1>7, <1>8, SameSeq
  <1> QED BY <1>6, <1>9 DEF Current

(* A step of the reader moves no frame.                                    *)
LEMMA FramesStay ==
  ASSUME Typed, NEW s, Starts(s), Begun(s), UNCHANGED writerVars
  PROVE  /\ Kept' = Kept /\ (Clean' <=> Clean) /\ Remainder' = Remainder
         /\ UNCHANGED <<sent, body, alive, stream>>
         /\ Starts(s)' /\ Begun(s)'
  BY DEF writerVars, Kept, Clean, Remainder, Starts, Begun, FrameOf, Prefix

LEMMA GetByteStep ==
  ASSUME Typed, Returned, Ended, Framed, GetByte, UNCHANGED writerVars
  PROVE  Returned' /\ Ended' /\ Framed'
  <1>1. PICK s : Starts(s) /\ Begun(s) /\ Placed(s)
    BY DEF Framed
  <1>2. /\ Kept' = Kept /\ (Clean' <=> Clean) /\ Remainder' = Remainder
        /\ UNCHANGED <<sent, body, alive, stream>>
        /\ Starts(s)' /\ Begun(s)'
    BY <1>1, FramesStay
  <1>3. /\ UNCHANGED <<at, need, got, result>> /\ taken' = taken + 1
        /\ part \in Seq(Byte) /\ taken \in Nat
        /\ Len(part') = Len(part) + 1 /\ Len(part) \in Nat
    <2>1. /\ UNCHANGED <<at, need, got, result>> /\ taken' = taken + 1
          /\ part' = Append(part, stream[taken + 1]) /\ taken < Len(stream)
      BY DEF GetByte
    <2>2. part \in Seq(Byte) /\ taken \in Nat /\ stream \in Seq(Byte)
      BY DEF Typed, WireTypeOK
    <2>3. taken + 1 \in 1 .. Len(stream)
      BY <2>1, <2>2
    <2>4. stream[taken + 1] \in Byte
      BY <2>2, <2>3
    <2> QED BY <2>1, <2>2, <2>4, AppendProperties
  <1>4. Returned' /\ Ended'
    BY <1>2, <1>3 DEF Returned, Ended
  <1>5. Placed(s)'
    <2> SUFFICES ASSUME Clean \/ Len(got) < Kept
                 PROVE  /\ at = "header" => taken' = s[Len(got) + 1] + Len(part')
                        /\ at = "body" =>
                             /\ taken' = s[Len(got) + 1] + HeaderSize + Len(part')
                             /\ need = Len(Current')
      BY <1>2, <1>3 DEF Placed
    <2>1. s[Len(got) + 1] \in Nat
      BY <1>1, StartType
    <2>2. Current' = Current
      BY <1>2, <1>3 DEF Current
    <2>3. /\ at = "header" => taken = s[Len(got) + 1] + Len(part)
          /\ at = "body" => /\ taken = s[Len(got) + 1] + HeaderSize + Len(part)
                            /\ need = Len(Current)
      BY <1>1 DEF Placed
    <2> QED BY <1>3, <2>1, <2>2, <2>3 DEF HeaderSize
  <1> QED BY <1>2, <1>4, <1>5, FramedAt

(* A reader that has returned is in no frame.                              *)
LEMMA EndStep ==
  ASSUME Typed, Returned, Framed, at' = "ended", got' = got,
         UNCHANGED writerVars
  PROVE  Returned' /\ Framed'
  <1>1. PICK s : Starts(s) /\ Begun(s) /\ Placed(s)
    BY DEF Framed
  <1>2. /\ Kept' = Kept /\ (Clean' <=> Clean) /\ UNCHANGED <<sent, body, stream>>
        /\ Starts(s)' /\ Begun(s)'
    BY <1>1, FramesStay
  <1>3. Returned'
    BY <1>2 DEF Returned
  <1>4. Placed(s)'
    BY DEF Placed
  <1>5. Framed'
    BY <1>2, <1>4, FramedAt
  <1> QED BY <1>3, <1>5

LEMMA HeaderReadStep ==
  ASSUME Typed, Making, Copied, Returned, Ended, Framed, HeaderRead,
         UNCHANGED writerVars
  PROVE  Returned' /\ Ended' /\ Framed'
  <1>0. at = "header" /\ Len(part) = HeaderSize /\ result = "none"
    BY DEF HeaderRead, Whole, Typed
  <1>1. PICK s : Starts(s) /\ Begun(s) /\ Placed(s)
    BY DEF Framed
  <1>2. /\ Kept' = Kept /\ (Clean' <=> Clean) /\ Remainder' = Remainder
        /\ UNCHANGED <<sent, body, alive, stream>>
        /\ Starts(s)' /\ Begun(s)'
    BY <1>1, FramesStay
  <1>3. CASE TooLarge(Length(part))
    <2>1. at' = "ended" /\ got' = got /\ result' = "ErrFrameTooLarge"
      BY <1>3 DEF HeaderRead, End
    <2>2. ~Clean
      BY <1>0, <1>3, HeaderIs
    <2>3. Ended'
      BY <1>2, <2>2 DEF Ended
    <2> QED BY <2>1, <2>3, EndStep
  <1>4. CASE ~TooLarge(Length(part))
    <2>1. /\ at' = "body" /\ part' = <<>> /\ need' = Length(part)
          /\ UNCHANGED <<taken, got, result>>
      BY <1>4 DEF HeaderRead
    <2>2. Returned' /\ Ended'
      BY <1>2, <2>1 DEF Returned, Ended
    <2>3. Placed(s)'
      <3> SUFFICES ASSUME Clean \/ Len(got) < Kept
                   PROVE  /\ taken = s[Len(got) + 1] + HeaderSize + Len(part')
                          /\ need' = Len(Current')
        BY <1>2, <2>1 DEF Placed
      <3>1. Current' = Current
        BY <1>2, <2>1 DEF Current
      <3>2. need' = Len(Current')
        BY <1>0, <2>1, <3>1, HeaderIs
      <3>3. taken = s[Len(got) + 1] + HeaderSize /\ s[Len(got) + 1] \in Nat
        BY <1>0, <1>1, StartType DEF Placed
      <3>4. Len(part') = 0
        BY <2>1
      <3> QED BY <3>2, <3>3, <3>4 DEF HeaderSize
    <2> QED BY <1>2, <2>2, <2>3, FramedAt
  <1> QED BY <1>3, <1>4

LEMMA BodyReadStep ==
  ASSUME Typed, Making, Copied, Returned, Ended, Framed, BodyRead,
         UNCHANGED writerVars
  PROVE  Returned' /\ Ended' /\ Framed'
  <1>0. at = "body" /\ Len(part) = need /\ result = "none"
    BY DEF BodyRead, Whole, Typed
  <1>1. PICK s : Starts(s) /\ Begun(s) /\ Placed(s)
    BY DEF Framed
  <1>2. /\ Kept' = Kept /\ (Clean' <=> Clean) /\ Remainder' = Remainder
        /\ UNCHANGED <<sent, body, alive, stream>>
        /\ Starts(s)' /\ Begun(s)'
    BY <1>1, FramesStay
  <1>3. /\ Kept \in Nat /\ Kept <= Len(sent) /\ Len(got) \in Nat
        /\ Clean => Kept = Len(sent)
        /\ got \in Seq(Legible)
    BY KeptType DEF Kept, Typed, WireTypeOK
  <1>4. Clean \/ Len(got) < Kept => Len(got) < Kept /\ part = sent[Len(got) + 1]
    BY <1>0, BodyIs
  <1>5. CASE part \notin Legible
    <2>1. at' = "ended" /\ got' = got /\ result' = "illegible"
      BY <1>5 DEF BodyRead, End
    <2>2. Ended'
      BY <1>2, <1>3, <1>4, <1>5, <2>1 DEF Ended
    <2> QED BY <2>1, <2>2, EndStep
  <1>6. CASE part \in Legible
    <2>1. /\ got' = Append(got, part) /\ at' = "header" /\ part' = <<>>
          /\ UNCHANGED <<taken, need, result>>
      BY <1>6 DEF BodyRead
    <2>2. /\ Len(got') = Len(got) + 1 /\ got'[Len(got) + 1] = part
          /\ \A i \in 1 .. Len(got) : got'[i] = got[i]
          /\ DOMAIN got' = 1 .. Len(got) + 1 /\ DOMAIN got = 1 .. Len(got)
      BY <1>3, <1>6, <2>1, AppendProperties
    <2>3. ASSUME NEW i \in 1 .. Len(got) + 1, i <= Kept PROVE got'[i] = sent[i]
      <3>1. CASE i \in 1 .. Len(got)
        BY <2>2, <2>3, <3>1 DEF Returned
      <3>2. CASE i = Len(got) + 1
        <4>1. Len(got) < Kept
          BY <1>3, <2>3, <3>2
        <4> QED BY <1>4, <2>2, <3>2, <4>1
      <3>3. i \in 1 .. Len(got) \/ i = Len(got) + 1
        BY <1>3
      <3> QED BY <3>1, <3>2, <3>3
    <2>4. Returned'
      <3>1. Clean => Len(got') <= Len(sent)
        BY <1>3, <1>4, <2>2
      <3> QED BY <1>2, <2>2, <2>3, <3>1 DEF Returned
    <2>5. Ended'
      BY <1>0, <1>2, <2>1 DEF Ended
    <2>6. Placed(s)'
      <3> SUFFICES ASSUME Clean \/ Len(got') < Kept
                   PROVE  taken = s[Len(got') + 1] + Len(part')
        BY <1>2, <2>1 DEF Placed
      <3>1. Clean \/ Len(got) < Kept
        BY <1>3, <2>2
      <3>2. Len(got) < Kept
        BY <1>4, <3>1
      <3>3. /\ taken = s[Len(got) + 1] + HeaderSize + Len(part)
            /\ Len(part) = Len(Current)
        BY <1>0, <1>1, <3>1 DEF Placed
      <3>4. s[Len(got) + 2] = s[Len(got) + 1] + HeaderSize + Len(Current)
        BY <1>1, <3>2, StartType
      <3>5. Len(got') + 1 = Len(got) + 2 /\ Len(part') = 0 /\ taken \in Nat
        BY <1>3, <2>1, <2>2 DEF Typed, WireTypeOK
      <3> QED BY <3>3, <3>4, <3>5
    <2> QED BY <1>2, <2>4, <2>5, <2>6, FramedAt
  <1> QED BY <1>5, <1>6

(* At its end the stream holds no frame that was not read.                 *)
LEMMA AllTaken ==
  ASSUME Typed, Returned, Framed, StreamEnds
  PROVE  ~(Len(got) < Kept)
  <1> SUFFICES ASSUME Len(got) < Kept PROVE FALSE
    OBVIOUS
  <1>1. PICK s : Starts(s) /\ Begun(s) /\ Placed(s)
    BY DEF Framed
  <1>2. /\ at # "ended" /\ ~Whole /\ taken = Len(stream)
        /\ at \in {"header", "body", "ended"} /\ need \in Nat
        /\ at = "header" => Len(part) <= HeaderSize
        /\ at = "body" => Len(part) <= need
        /\ Len(part) \in Nat /\ Len(stream) \in Nat
    BY WireAssumption DEF StreamEnds, AtEnd, Typed, WireTypeOK
  <1>3. /\ at = "header" => Len(part) < HeaderSize
        /\ at = "body" => Len(part) < need
    BY <1>2, NoteTypes DEF Whole
  <1>4. /\ Len(got) + 1 \in 1 .. Kept /\ Current = sent[Len(got) + 1]
    BY KeptType DEF Current
  <1>5. Len(Current) \in Nat
    BY <1>4, KeptType, NoteTypes
  <1>6. /\ s[Len(got) + 1] \in Nat
        /\ s[Len(got) + 2] = s[Len(got) + 1] + HeaderSize + Len(Current)
        /\ s[Len(got) + 2] <= Len(stream)
    BY <1>1, StartType
  <1>7. PICK a \in Nat, c \in Nat, p \in Nat, n \in Nat :
          /\ a = s[Len(got) + 1] /\ c = Len(Current) /\ p = Len(part)
          /\ n = Len(stream)
    BY <1>2, <1>5, <1>6
  <1>8. a + HeaderSize + c <= n
    BY <1>6, <1>7
  <1>9. CASE at = "header"
    <2>1. n = a + p /\ p < HeaderSize
      BY <1>1, <1>2, <1>3, <1>7, <1>9 DEF Placed
    <2> QED BY <1>7, <1>8, <2>1 DEF HeaderSize
  <1>10. CASE at = "body"
    <2>1. n = a + HeaderSize + p /\ p < c
      BY <1>1, <1>2, <1>3, <1>7, <1>10 DEF Placed
    <2> QED BY <1>7, <1>8, <2>1 DEF HeaderSize
  <1> QED BY <1>2, <1>9, <1>10

LEMMA StreamEndsStep ==
  ASSUME Typed, Making, Returned, Ended, Framed, StreamEnds,
         UNCHANGED writerVars
  PROVE  Returned' /\ Ended' /\ Framed'
  <1>1. PICK s : Starts(s) /\ Begun(s) /\ Placed(s)
    BY DEF Framed
  <1>2. /\ (Clean' <=> Clean) /\ Remainder' = Remainder
        /\ UNCHANGED <<sent, alive>>
    BY <1>1, FramesStay
  <1>3. /\ at \in {"header", "body"} /\ ~alive /\ taken = Len(stream)
        /\ at = "header" => Len(part) < HeaderSize
        /\ at = "body" => Len(part) < need
        /\ at' = "ended" /\ got' = got /\ result' = EndError
        /\ Len(part) \in Nat /\ Len(stream) \in Nat /\ part \in Seq(Byte)
    <2>1. /\ at # "ended" /\ ~Whole /\ ~alive /\ taken = Len(stream)
          /\ at' = "ended" /\ got' = got /\ result' = EndError
      BY DEF StreamEnds, AtEnd, End
    <2>2. /\ at \in {"header", "body", "ended"} /\ Len(part) \in Nat
          /\ part \in Seq(Byte) /\ Len(stream) \in Nat /\ need \in Nat
          /\ at = "header" => Len(part) <= HeaderSize
          /\ at = "body" => Len(part) <= need
      BY WireAssumption DEF Typed, WireTypeOK
    <2>3. /\ at = "header" => Len(part) # HeaderSize
          /\ at = "body" => Len(part) # need
      BY <2>1 DEF Whole
    <2> QED BY <2>1, <2>2, <2>3, NoteTypes
  <1>4. EndError = "EOF" <=> Len(part) = 0
    <2>1. part = <<>> <=> Len(part) = 0
      BY <1>3, EmptyLen
    <2> QED BY <2>1 DEF EndError
  <1>5. EndError \in {"EOF", "ErrUnexpectedEOF"}
    BY DEF EndError
  <1>6. ASSUME Clean PROVE got = sent /\ (Len(part) = 0 => Remainder \in {0, HeaderSize})
    <2>1. Kept = Len(sent) /\ Len(got) \in Nat /\ Len(sent) \in Nat
      BY <1>6, KeptType DEF Kept
    <2>2. /\ s[Len(got) + 1] \in Nat
          /\ Len(got) < Kept =>
               s[Len(got) + 2] = s[Len(got) + 1] + HeaderSize + Len(Current)
               /\ s[Len(got) + 2] <= Len(stream)
      BY <1>1, <1>6, StartType
    <2>3. /\ at = "header" => taken = s[Len(got) + 1] + Len(part)
          /\ at = "body" => /\ taken = s[Len(got) + 1] + HeaderSize + Len(part)
                            /\ need = Len(Current)
      BY <1>1, <1>6 DEF Placed
    <2>4. ~(Len(got) < Kept)
      BY AllTaken
    <2>5. Len(got) = Len(sent)
      BY <1>6, <2>1, <2>4 DEF Returned
    <2>6. got = sent
      <3>1. got \in Seq(Legible) /\ sent \in Seq(Notes)
        BY DEF Typed, WireTypeOK
      <3>2. \A i \in 1 .. Len(got) : got[i] = sent[i]
        BY <2>1, <2>5, <3>1 DEF Returned
      <3> QED BY <2>5, <3>1, <3>2, SameSeq
    <2>7. Len(part) = 0 => Remainder \in {0, HeaderSize}
      <3>1. Len(stream) = s[Len(got) + 1] + Remainder /\ Remainder \in Nat
        BY <1>1, <1>6, <2>1, <2>5, RemainderBound DEF Begun
      <3>2. Len(part) = 0 => Len(stream) = s[Len(got) + 1]
                             \/ Len(stream) = s[Len(got) + 1] + HeaderSize
        BY <1>3, <2>2, <2>3 DEF HeaderSize
      <3> QED BY <2>2, <3>1, <3>2 DEF HeaderSize
    <2> QED BY <2>6, <2>7
  <1>7. Ended'
    BY <1>2, <1>3, <1>4, <1>5, <1>6 DEF Ended
  <1> QED BY <1>3, <1>7, EndStep

-----------------------------------------------------------------------------
(* The theorems                                                            *)

LEMMA WireInvInit == WireInit => WireInv
  <1> SUFFICES ASSUME WireInit PROVE WireInv
    OBVIOUS
  <1>1. /\ frame = <<>> /\ body = <<>> /\ sent = <<>> /\ stray = <<>>
        /\ stream = <<>> /\ taken = 0 /\ at = "header" /\ part = <<>>
        /\ got = <<>> /\ result = "none" /\ Len(<<>>) = 0 /\ DOMAIN <<>> = {}
    BY DEF WireInit
  <1>2. Kept = 0 /\ Clean /\ Remainder = 0
    BY <1>1 DEF Kept, Clean, Remainder
  <1>3. Making /\ Copied /\ Returned /\ Ended
    BY <1>1, <1>2 DEF Making, Copied, Returned, Ended
  <1>4. Framed
    <2> DEFINE s == [i \in 1 .. 1 |-> 0]
    <2>1. /\ s \in [1 .. 1 -> Nat] /\ s[1] = 0 /\ \A i \in 1 .. 1 : s[i] = 0
          /\ 0 + 1 = 1 /\ \A j \in 1 .. 0 : FALSE
      OBVIOUS
    <2> HIDE DEF s
    <2>2. Starts(s)
      BY <1>1, <1>2, <2>1 DEF Starts
    <2>3. Begun(s)
      BY <1>1, <1>2, <2>1 DEF Begun
    <2>4. Placed(s)
      BY <1>1, <2>1 DEF Placed
    <2> QED BY <2>2, <2>3, <2>4 DEF Framed
  <1> QED BY <1>3, <1>4, TypedInit DEF WireInv

LEMMA WireInvStep ==
  ASSUME WireInv, [WireNext]_wireVars
  PROVE  WireInv'
  <1>1. Typed /\ Making /\ Copied /\ Returned /\ Ended /\ Framed
    BY DEF WireInv
  <1>2. Typed' /\ Making' /\ Copied'
    BY <1>1, TypedStep, MakingStep, CopiedStep
  <1>3. CASE WriterStep
    BY <1>1, <1>2, <1>3, ReturnedWriter, FramedWriter DEF WireInv
  <1>4. CASE ReaderStep
    <2>1. UNCHANGED writerVars
      BY <1>4 DEF ReaderStep
    <2>2. GetByte \/ HeaderRead \/ BodyRead \/ StreamEnds
      BY <1>4 DEF ReaderStep
    <2>3. Returned' /\ Ended' /\ Framed'
      BY <1>1, <2>1, <2>2, GetByteStep, HeaderReadStep, BodyReadStep,
         StreamEndsStep
    <2> QED BY <1>2, <2>3 DEF WireInv
  <1>5. CASE Rest \/ UNCHANGED wireVars
    <2>1. UNCHANGED writerVars
          /\ UNCHANGED <<taken, at, part, need, got, result>>
      BY <1>5 DEF Rest, wireVars, readerVars
    <2>2. PICK s : Starts(s) /\ Begun(s) /\ Placed(s)
      BY <1>1 DEF Framed
    <2>3. /\ Kept' = Kept /\ (Clean' <=> Clean) /\ Remainder' = Remainder
          /\ UNCHANGED <<sent, body, alive, stream>>
          /\ Starts(s)' /\ Begun(s)'
      BY <1>1, <2>1, <2>2, FramesStay
    <2>4. Returned' /\ Ended'
      BY <1>1, <2>1, <2>3 DEF Returned, Ended
    <2>5. Placed(s)'
      BY <1>1, <2>1, <2>2, <2>3, PlacedStay
    <2> QED BY <1>2, <2>3, <2>4, <2>5, FramedAt DEF WireInv
  <1> QED BY <1>3, <1>4, <1>5 DEF WireNext

(* At every moment the stream is the frames of what was sent, and the      *)
(* reader is in the frame of the note it returns next.                     *)
THEOREM WireInvAlways == WireSpec => []WireInv
  BY WireInvInit, WireInvStep, PTL DEF WireSpec

(* Both ends keep their types; a body larger than MaxFrameSize is never    *)
(* allocated, whatever bytes come (note/wire.go, WriteFrame and Read).     *)
THEOREM WireTypes == WireSpec => []WireTypeOK
  <1>1. WireInv => WireTypeOK
    BY DEF WireInv, Typed
  <1> QED BY <1>1, WireInvAlways, PTL

(* The reader returns the notes that were written, in their order, however *)
(* the pipe cuts the bytes, up to the first byte that is of no frame; the  *)
(* framing itself never ends it (note/wire.go, WriteFrame and Read).       *)
THEOREM InSyncAlways == WireSpec => []InSync
  <1>1. ASSUME WireInv PROVE InSync
    <2>0. Typed /\ Returned /\ Ended
      BY <1>1 DEF WireInv
    <2>1. CASE Clean
      <3>1. /\ got \in Seq(Legible) /\ sent \in Seq(Notes)
            /\ Len(got) \in Nat /\ Len(sent) \in Nat /\ Len(got) <= Len(sent)
            /\ Kept = Len(sent)
        BY <2>0, <2>1 DEF Typed, WireTypeOK, Returned, Kept
      <3>2. \A i \in 1 .. Len(got) : got[i] = sent[i]
        BY <2>0, <3>1 DEF Returned
      <3>3. SubSeq(got, 1, Len(got)) = SubSeq(sent, 1, Len(got))
        <4>1. /\ SubSeq(got, 1, Len(got)) = [i \in 1 .. Len(got) |-> got[i]]
              /\ SubSeq(sent, 1, Len(got)) = [i \in 1 .. Len(got) |-> sent[i]]
          BY <3>1
        <4> QED BY <3>2, <4>1
      <3>4. IsPrefix(got, sent)
        BY <3>1, <3>3 DEF IsPrefix
      <3> QED BY <2>0, <2>1, <3>4 DEF Ended, InSync
    <2>2. CASE ~Clean
      BY <2>0, <2>2 DEF Returned, Kept, InSync
    <2> QED BY <2>1, <2>2
  <1> QED BY <1>1, WireInvAlways, PTL

(* A reader that came to the end of the stream has returned every note     *)
(* written to the last byte, also those that were still in the pipe when   *)
(* the handler process exited (worker.go, readLoop).                       *)
THEOREM NothingSkippedAlways == WireSpec => []NothingSkipped
  <1>1. WireInv => NothingSkipped
    BY DEF WireInv, Ended, NothingSkipped
  <1> QED BY <1>1, WireInvAlways, PTL

(* A clean end is reported only at the end of a frame or between a header  *)
(* and its body (note/wire.go, the two ReadFull of Read).                  *)
THEOREM TornIsNoticedAlways == WireSpec => []TornIsNoticed
  <1>1. WireInv => TornIsNoticed
    BY DEF WireInv, Ended, TornIsNoticed
  <1> QED BY <1>1, WireInvAlways, PTL

-----------------------------------------------------------------------------
(* The pipe of notes                                                       *)

LEMMA SameWindow ==
  ASSUME NEW n \in Nat, NEW k \in Nat, NEW p, NEW q,
         \A i \in 1 .. k : p[i] = q[i]
  PROVE  SubSeq(p, n + 1, k) = SubSeq(q, n + 1, k)
  <1>1. \A i \in 1 .. k - (n + 1) + 1 : (n + 1) + i - 1 \in 1 .. k
    OBVIOUS
  <1> QED BY <1>1

(* The kept notes that were not read, and what reading one makes of them.  *)
LEMMA PipeIs ==
  ASSUME Typed
  PROVE  /\ Len(got) < Kept =>
              /\ SubSeq(sent, Len(got) + 1, Kept) # <<>>
              /\ Head(SubSeq(sent, Len(got) + 1, Kept)) = sent[Len(got) + 1]
              /\ Tail(SubSeq(sent, Len(got) + 1, Kept))
                   = SubSeq(sent, Len(got) + 2, Kept)
         /\ ~(Len(got) < Kept) => SubSeq(sent, Len(got) + 1, Kept) = <<>>
  <1>1. /\ Kept \in Nat /\ Kept <= Len(sent) /\ Len(sent) \in Nat
        /\ Len(got) \in Nat /\ sent \in Seq(Notes)
    BY KeptType DEF Typed, WireTypeOK
  <1>2. CASE Len(got) < Kept
    <2> DEFINE m == Len(got) + 1
               q == SubSeq(sent, m, Kept)
    <2>1. m \in 1 .. Len(sent) /\ Kept \in m .. Len(sent) /\ m + 1 = Len(got) + 2
      BY <1>1, <1>2
    <2> HIDE DEF m
    <2>2. Head(q) = sent[m] /\ Tail(q) = SubSeq(sent, m + 1, Kept)
      BY <1>1, <2>1, HeadTailOfSubSeq
    <2>3. q # <<>>
      <3>1. \A i \in m .. Kept : sent[i] \in Notes
        BY <1>1, <2>1
      <3>2. q \in Seq(Notes) /\ Len(q) = Kept - m + 1
        BY <1>1, <2>1, <3>1, SubSeqProperties
      <3>3. Len(q) # 0
        BY <1>1, <2>1, <3>2
      <3> HIDE DEF q
      <3> QED BY <3>2, <3>3, EmptyLen
    <2> QED BY <1>2, <2>1, <2>2, <2>3 DEF m
  <1>3. CASE ~(Len(got) < Kept)
    BY <1>1, <1>3, SubSeqEmpty
  <1> QED BY <1>2, <1>3

(* What a step leaves to be read when it neither adds a kept note nor      *)
(* reads one.                                                              *)
LEMMA PipeStays ==
  ASSUME Typed, got' = got, Kept' = Kept,
         \A i \in 1 .. Len(sent) : sent'[i] = sent[i]
  PROVE  SubSeq(sent, Len(got) + 1, Kept)' = SubSeq(sent, Len(got) + 1, Kept)
  <1>1. /\ Kept \in Nat /\ Len(got) \in Nat
        /\ \A i \in 1 .. Kept : sent'[i] = sent[i]
    BY KeptType
  <1> QED BY <1>1, SameWindow

(* The last byte of a frame is a note in the pipe.                         *)
LEMMA PipeGrows ==
  ASSUME Typed, Making, Returned, PutByte, frame' = <<>>, Clean
  PROVE  /\ body \in Notes
         /\ SubSeq(sent, Len(got) + 1, Kept)'
              = Append(SubSeq(sent, Len(got) + 1, Kept), body)
  <1> DEFINE k == Len(sent)
             g == Len(got)
             q == Append(sent, body)
  <1>1. /\ body \in Notes /\ sent' = q /\ got' = got /\ stray' = stray
    BY MakingPut DEF PutByte, readerVars
  <1>2. /\ sent \in Seq(Notes) /\ k \in Nat /\ g \in Nat /\ g <= k /\ Kept = k
    BY KeptType DEF Typed, WireTypeOK, Returned, Kept
  <1>3. /\ q \in Seq(Notes) /\ Len(q) = k + 1 /\ q[k + 1] = body
        /\ \A i \in 1 .. k : q[i] = sent[i]
    BY <1>1, <1>2, AppendProperties
  <1>4. Kept' = k + 1
    BY <1>1, <1>3 DEF Kept, Clean
  <1> HIDE DEF q, k, g
  <1>5. SubSeq(q, g + 1, k) = SubSeq(sent, g + 1, k)
    BY <1>2, <1>3, SameWindow
  <1>6. SubSeq(q, g + 1, k + 1) = SubSeq(q, g + 1, k) \o <<q[k + 1]>>
    <2>1. g + 1 \in 1 .. Len(q) /\ k + 1 \in g + 1 .. Len(q) /\ (k + 1) - 1 = k
      BY <1>2, <1>3
    <2>2. SubSeq(q, g + 1, k + 1) = SubSeq(q, g + 1, (k + 1) - 1) \o <<q[k + 1]>>
      BY <1>3, <2>1, SubSeqRecursiveSecond
    <2> QED BY <2>1, <2>2
  <1>7. SubSeq(sent, g + 1, k) \in Seq(Notes)
    <2>1. \A i \in g + 1 .. k : i \in 1 .. k
      BY <1>2
    <2>2. \A i \in 1 .. k : sent[i] \in Notes
      BY <1>2 DEF k
    <2> QED BY <1>2, <2>1, <2>2, SubSeqProperties
  <1>8. SubSeq(sent, g + 1, k) \o <<body>> = Append(SubSeq(sent, g + 1, k), body)
    BY <1>1, <1>7, AppendIsConcat
  <1>9. SubSeq(sent', Len(got') + 1, Kept') = SubSeq(q, g + 1, k + 1)
    BY <1>1, <1>4 DEF g
  <1> QED BY <1>1, <1>2, <1>3, <1>5, <1>6, <1>8, <1>9 DEF g

(* Every step is one of the pipe of notes, or nothing to it.               *)
LEMMA NoteStep ==
  ASSUME WireInv, [WireNext]_wireVars
  PROVE  [Pipe!NotePipeNext]_(Pipe!notePipeVars)
  <1> DEFINE pipe == SubSeq(sent, Len(got) + 1, Kept)
  <1>0. Typed /\ Making /\ Copied /\ Returned /\ Ended /\ Framed
    BY DEF WireInv
  <1>1. ASSUME pipe' = pipe, UNCHANGED <<got, alive, stray, result>>
        PROVE  UNCHANGED Pipe!notePipeVars
    BY <1>1 DEF Pipe!notePipeVars, Clean
  <1>2. CASE WriterStep
    <2>1. /\ alive /\ got' = got /\ result' = result
          /\ \A i \in 1 .. Len(sent) : sent'[i] = sent[i]
          /\ ~Clean' => Kept' = Kept
      BY <1>0, <1>2, SentGrows
    <2>2. ASSUME Kept' = Kept PROVE pipe' = pipe
      BY <1>0, <2>1, <2>2, PipeStays
    <2>3. CASE PutByte /\ frame' = <<>> /\ Clean
      <3>1. body \in Notes /\ pipe' = Append(pipe, body)
        BY <1>0, <2>3, PipeGrows
      <3>2. alive' = alive /\ stray' = stray
        BY <2>3 DEF PutByte
      <3> HIDE DEF pipe
      <3>3. Pipe!WriteNote(body)
        BY <2>1, <2>3, <3>1, <3>2 DEF Pipe!WriteNote, pipe, Clean
      <3> QED BY <3>1, <3>3 DEF Pipe!NotePipeNext
    <2>4. CASE PutByte /\ ~(frame' = <<>> /\ Clean)
      <3>1. UNCHANGED <<alive, stray>> /\ (frame' # <<>> => sent' = sent)
        BY <2>4 DEF PutByte
      <3>2. Kept' = Kept
        BY <2>1, <2>4, <3>1 DEF Kept, Clean
      <3> QED BY <1>1, <2>1, <2>2, <3>1, <3>2
    <2>5. ASSUME NEW x \in Byte, PutStray(x) PROVE Pipe!Spoil
      <3>1. alive' = alive /\ stray' # <<>>
        <4>1. alive' = alive /\ stray' = Append(stray, Len(sent))
          BY <2>5 DEF PutStray
        <4>2. Len(stray) \in Nat /\ Len(stray') = Len(stray) + 1
          BY <1>0, <4>1 DEF Typed, WireTypeOK
        <4> QED BY <4>1, <4>2
      <3>2. pipe' = pipe
        BY <2>1, <2>2, <3>1 DEF Clean
      <3> QED BY <2>1, <3>1, <3>2 DEF Pipe!Spoil, Clean
    <2>6. CASE \E b \in Notes : WriteFrame(b)
      <3>1. UNCHANGED <<alive, stray, sent>>
        BY <2>6 DEF WriteFrame
      <3> QED BY <1>1, <2>1, <2>2, <3>1 DEF Kept, Clean
    <2>7. CASE Dies
      <3>1. alive' = FALSE /\ UNCHANGED <<stray, sent>>
        BY <2>7 DEF Dies
      <3>2. pipe' = pipe
        BY <2>2, <3>1 DEF Kept, Clean
      <3>3. Pipe!Close
        BY <2>1, <3>1, <3>2 DEF Pipe!Close, Clean
      <3> QED BY <3>3 DEF Pipe!NotePipeNext
    <2> QED BY <1>2, <2>3, <2>4, <2>5, <2>6, <2>7
            DEF WriterStep, Pipe!NotePipeNext
  <1>3. CASE ReaderStep
    <2>1. UNCHANGED <<alive, stray, sent>> /\ Kept' = Kept /\ (Clean' <=> Clean)
      BY <1>3 DEF ReaderStep, writerVars, Kept, Clean
    <2>2. ASSUME got' = got PROVE pipe' = pipe
      BY <2>1, <2>2
    <2>3. at # "ended" => result = "none"
      BY <1>0 DEF Typed
    <2>4. CASE GetByte \/ (HeaderRead /\ ~TooLarge(Length(part)))
      <3>1. got' = got /\ result' = result
        BY <2>4 DEF GetByte, HeaderRead
      <3> QED BY <1>1, <2>1, <2>2, <3>1
    <2>5. ASSUME NEW err, at # "ended", End(err) PROVE Pipe!Fails(err)
      <3>1. got' = got /\ result' = err
        BY <2>5 DEF End
      <3> QED BY <2>1, <2>2, <2>3, <2>5, <3>1 DEF Pipe!Fails
    <2>6. CASE HeaderRead /\ TooLarge(Length(part))
      <3>1. ~Clean /\ ~(Len(got) < Kept) /\ at # "ended"
        BY <1>0, <2>6, HeaderIs DEF HeaderRead, Whole
      <3>2. pipe = <<>>
        BY <1>0, <3>1, PipeIs
      <3>3. Pipe!Fails("ErrFrameTooLarge")
        BY <2>5, <2>6, <3>1 DEF HeaderRead
      <3>4. Pipe!ReadGarbage
        BY <2>3, <3>1, <3>2, <3>3 DEF Pipe!ReadGarbage
      <3> QED BY <3>4 DEF Pipe!NotePipeNext
    <2>7. CASE BodyRead
      <3>1. at = "body" /\ Len(part) = need
        BY <2>7 DEF BodyRead, Whole
      <3>2. CASE Clean \/ Len(got) < Kept
        <4>1. Len(got) < Kept /\ part = sent[Len(got) + 1]
          BY <1>0, <3>1, <3>2, BodyIs
        <4>2. /\ pipe # <<>> /\ Head(pipe) = part
              /\ Tail(pipe) = SubSeq(sent, Len(got) + 2, Kept)
          BY <1>0, <4>1, PipeIs
        <4>3. CASE part \in Legible
          <5>1. got' = Append(got, part) /\ result' = result
            BY <2>7, <4>3 DEF BodyRead
          <5>2. Len(got') + 1 = Len(got) + 2
            <6>1. got \in Seq(Legible)
              BY <1>0 DEF Typed, WireTypeOK
            <6> QED BY <4>3, <5>1, <6>1, AppendProperties
          <5>3. pipe' = Tail(pipe)
            BY <2>1, <4>2, <5>2
          <5>4. Pipe!ReadNote
            BY <2>1, <2>3, <3>1, <4>2, <4>3, <5>1, <5>3 DEF Pipe!ReadNote
          <5> QED BY <5>4 DEF Pipe!NotePipeNext
        <4>4. CASE part \notin Legible
          <5>1. Pipe!Fails("illegible")
            BY <2>5, <2>7, <3>1, <4>4 DEF BodyRead
          <5>2. Pipe!RejectNote
            BY <4>2, <4>4, <5>1 DEF Pipe!RejectNote
          <5> QED BY <5>2 DEF Pipe!NotePipeNext
        <4> QED BY <4>3, <4>4
      <3>3. CASE ~(Clean \/ Len(got) < Kept)
        <4>1. pipe = <<>>
          BY <1>0, <3>3, PipeIs
        <4>2. CASE part \in Legible
          <5>1. got' = Append(got, part) /\ result' = result
            BY <2>7, <4>2 DEF BodyRead
          <5>2. pipe' = <<>>
            <6>1. /\ got \in Seq(Legible) /\ Len(got) \in Nat /\ Kept \in Nat
                  /\ Len(got') = Len(got) + 1
              BY <1>0, <4>2, <5>1, KeptType, AppendProperties
                 DEF Typed, WireTypeOK
            <6>2. Len(got') + 1 \in Int /\ Kept \in Int /\ Kept < Len(got') + 1
              BY <3>3, <6>1
            <6>3. SubSeq(sent, Len(got') + 1, Kept) = <<>>
              BY <6>2, SubSeqEmpty
            <6> QED BY <2>1, <6>3
          <5>3. Pipe!ReadGarbage
            BY <2>1, <2>3, <3>1, <3>3, <4>1, <4>2, <5>1, <5>2
               DEF Pipe!ReadGarbage
          <5> QED BY <5>3 DEF Pipe!NotePipeNext
        <4>3. CASE part \notin Legible
          <5>1. Pipe!Fails("illegible")
            BY <2>5, <2>7, <3>1, <4>3 DEF BodyRead
          <5>2. Pipe!ReadGarbage
            BY <2>3, <3>1, <3>3, <4>1, <5>1 DEF Pipe!ReadGarbage
          <5> QED BY <5>2 DEF Pipe!NotePipeNext
        <4> QED BY <4>2, <4>3
      <3> QED BY <3>2, <3>3
    <2>8. CASE StreamEnds
      <3>1. at # "ended" /\ ~alive /\ End(EndError)
        BY <2>8 DEF StreamEnds, AtEnd
      <3>2. pipe = <<>>
        BY <1>0, <2>8, AllTaken, PipeIs
      <3>3. EndError \in {"EOF", "ErrUnexpectedEOF"}
        BY DEF EndError
      <3>4. Pipe!ReadEnd
        BY <2>5, <3>1, <3>2, <3>3 DEF Pipe!ReadEnd
      <3> QED BY <3>4 DEF Pipe!NotePipeNext
    <2> QED BY <1>3, <2>4, <2>6, <2>7, <2>8 DEF ReaderStep
  <1>4. CASE Rest \/ UNCHANGED wireVars
    BY <1>4 DEF Rest, wireVars, writerVars, readerVars, Pipe!notePipeVars, Kept,
            Clean
  <1> QED BY <1>2, <1>3, <1>4 DEF WireNext

(* The two ends of the stream are those of a pipe of whole notes, as       *)
(* Handler and Worker have it: whatever cuts the bytes, ends the writer or *)
(* writes something else between them (note/wire.go, WriteFrame and Read). *)
THEOREM NotesKept == WireSpec => KeepsNotes
  <1>1. WireInit => Pipe!NotePipeInit
    <2> SUFFICES ASSUME WireInit PROVE Pipe!NotePipeInit
      OBVIOUS
    <2>1. /\ sent = <<>> /\ got = <<>> /\ stray = <<>> /\ alive = TRUE
          /\ result = "none" /\ Len(<<>>) = 0
      BY DEF WireInit
    <2>2. Kept = 0 /\ Clean
      BY <2>1 DEF Kept, Clean
    <2>3. SubSeq(sent, Len(got) + 1, Kept) = <<>>
      BY <2>1, <2>2, SubSeqEmpty
    <2> QED BY <2>1, <2>2, <2>3 DEF Pipe!NotePipeInit
  <1>2. WireInv /\ [WireNext]_wireVars
          => [Pipe!NotePipeNext]_(Pipe!notePipeVars)
    BY NoteStep
  <1> QED BY <1>1, <1>2, WireInvAlways, PTL
          DEF WireSpec, KeepsNotes, Pipe!NotePipeSpec
=============================================================================
