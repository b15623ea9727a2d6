--------------------------------- MODULE Wire ---------------------------------
(***************************************************************************)
(* One direction of the stream between the engine and a handler process    *)
(* (note/wire.go): WriteFrame at one end of a bounded pipe, Reader.Read in *)
(* readLoop's loop (worker.go) at the other.                               *)
(*                                                                         *)
(* The pipe keeps bytes, not notes: a Write or a Read may move any number  *)
(* of them, the writer may die between any two, and a handler that prints  *)
(* to its stdout puts bytes into the stream that belong to no frame.       *)
(* Bytes are moved one at a time; the code's larger reads and writes are   *)
(* sequences of such moves.  bufio's read-ahead counts as pipe.            *)
(***************************************************************************)
EXTENDS Naturals, Sequences, SequencesExt

CONSTANTS
  Base,          \* the number of values a byte has, 256 in the code
  MaxFrameSize,
  Notes,         \* the bodies notes are marshalled to
  Legible,       \* those Read decodes: an emit, a done or a pickup
  Room,          \* how many bytes the pipe holds
  MaxNotes,      \* bound: calls of WriteFrame
  MaxStray       \* bound: bytes written outside frames

HeaderSize == 4
Byte == 0 .. Base - 1

ASSUME WireAssumption ==
  /\ Base \in Nat /\ Base > 1
  /\ MaxFrameSize \in Nat \ {0} /\ MaxFrameSize < Base * Base * Base * Base
  /\ Notes \subseteq Seq(Byte) \ {<<>>} /\ Legible \subseteq Notes
  /\ Room \in Nat /\ Room > 0 /\ MaxNotes \in Nat /\ MaxStray \in Nat

VARIABLES
  called,   \* history: how often WriteFrame was called
  frame,    \* the bytes WriteFrame still has to write
  body,     \* the note they are about
  sent,     \* history: the notes written to the last byte
  alive,    \* the writer's process
  stray,    \* history: len(sent) whenever a stray byte was written
  stream,   \* history: all bytes that went into the pipe
  taken,    \* how many of them the reader took out
  at,       \* what the reader is reading: header, body, ended
  part,     \* what it has of it
  need,     \* how many bytes the body has
  got,      \* the notes it returned
  result    \* the error it ended with

writerVars == <<called, frame, body, sent, alive, stray, stream>>
readerVars == <<taken, at, part, need, got, result>>
wireVars == <<writerVars, readerVars>>

WireInit ==
  /\ called = 0 /\ frame = <<>> /\ body = <<>> /\ sent = <<>>
  /\ alive = TRUE /\ stray = <<>> /\ stream = <<>>
  /\ taken = 0 /\ at = "header" /\ part = <<>> /\ need = 0
  /\ got = <<>> /\ result = "none"

(* byte(n) and n >> 8.                                                     *)
Low(n) == n % Base
Shift(n) == n \div Base

(* PutUint32.                                                              *)
Prefix(n) ==
  <<Low(Shift(Shift(Shift(n)))), Low(Shift(Shift(n))), Low(Shift(n)), Low(n)>>

(* Variants: the prefix is read with its last byte first; it counts a      *)
(* final byte that is not written; the limit is off by one.                *)
LastByteFirst(h) == ((h[4] * Base + h[3]) * Base + h[2]) * Base + h[1]
LongPrefix(b) == Prefix(Len(b) + 1) \o b
TooLargeLate(n) == n > MaxFrameSize + 1

(* Uint32.                                                                 *)
Length(h) == ((h[1] * Base + h[2]) * Base + h[3]) * Base + h[4]

-----------------------------------------------------------------------------
(* The writer                                                              *)

TooLarge(n) == n > MaxFrameSize

FrameOf(b) == Prefix(Len(b)) \o b

HasRoom == Len(stream) - taken < Room

(* A refused note leaves no byte.                                          *)
WriteFrame(b) ==
  /\ alive /\ frame = <<>> /\ called < MaxNotes
  /\ called' = called + 1
  /\ IF TooLarge(Len(b)) THEN UNCHANGED <<frame, body>>
     ELSE frame' = FrameOf(b) /\ body' = b
  /\ UNCHANGED <<sent, alive, stray, stream, readerVars>>

PutByte ==
  /\ alive /\ frame # <<>> /\ HasRoom
  /\ stream' = Append(stream, Head(frame))
  /\ frame' = Tail(frame)
  /\ sent' = IF frame' = <<>> THEN Append(sent, body) ELSE sent
  /\ UNCHANGED <<called, body, alive, stray, readerVars>>

(* Something else than WriteFrame writes to the stream.                    *)
PutStray(x) ==
  /\ alive /\ HasRoom /\ Len(stray) < MaxStray
  /\ stray' = Append(stray, Len(sent))
  /\ stream' = Append(stream, x)
  /\ UNCHANGED <<called, frame, body, sent, alive, readerVars>>

(* The process exits or is killed, or the pipe is closed.                  *)
Dies ==
  /\ alive
  /\ alive' = FALSE
  /\ UNCHANGED <<called, frame, body, sent, stray, stream, readerVars>>

WriterStep ==
  \/ \E b \in Notes : WriteFrame(b)
  \/ PutByte
  \/ \E x \in Byte : PutStray(x)
  \/ Dies

-----------------------------------------------------------------------------
(* The reader: io.ReadFull of a header, io.ReadFull of a body, and again.  *)

(* Variant: Read, which may return less, in place of ReadFull for a body.  *)
ShortRead ==
  \/ at = "header" /\ Len(part) = HeaderSize
  \/ at = "body" /\ (need = 0 \/ part # <<>>)

Whole ==
  \/ at = "header" /\ Len(part) = HeaderSize
  \/ at = "body" /\ Len(part) = need

GetByte ==
  /\ at # "ended" /\ ~Whole /\ taken < Len(stream)
  /\ part' = Append(part, stream[taken + 1])
  /\ taken' = taken + 1
  /\ UNCHANGED <<at, need, got, result>>

End(err) ==
  /\ at' = "ended" /\ result' = err
  /\ UNCHANGED <<taken, part, need, got>>

HeaderRead ==
  /\ at = "header" /\ Whole
  /\ IF TooLarge(Length(part)) THEN End("ErrFrameTooLarge")
     ELSE /\ at' = "body" /\ part' = <<>> /\ need' = Length(part)
          /\ UNCHANGED <<taken, got, result>>

BodyRead ==
  /\ at = "body" /\ Whole
  /\ IF part \in Legible
     THEN /\ got' = Append(got, part)
          /\ at' = "header" /\ part' = <<>>
          /\ UNCHANGED <<taken, need, result>>
     ELSE End("illegible")

(* Variant: the exit of the process is the end of its output (cmd.Wait     *)
(* before the last Read).                                                  *)
ExitIsEnd == ~alive

(* The pipe is at its end: nobody writes to it and nothing is left in it.  *)
AtEnd == ~alive /\ taken = Len(stream)

(* Variant: the body is read with Read's error.                            *)
PlainEOF == "EOF"

(* io.ReadFull: a clean end only if it has not read anything, be it of a   *)
(* header or of a body.                                                    *)
EndError == IF part = <<>> THEN "EOF" ELSE "ErrUnexpectedEOF"

StreamEnds ==
  /\ at # "ended" /\ ~Whole /\ AtEnd
  /\ End(EndError)

ReaderStep ==
  /\ GetByte \/ HeaderRead \/ BodyRead \/ StreamEnds
  /\ UNCHANGED writerVars

(* The reader has returned; a writer may be left with no room to write.    *)
Rest == at = "ended" /\ UNCHANGED wireVars

WireNext == WriterStep \/ ReaderStep \/ Rest

(* The reader is a goroutine of its own that does nothing but read, the    *)
(* kernel moves what a blocked Write still has; nobody has to die.         *)
WireSpec ==
  /\ WireInit /\ [][WireNext]_wireVars
  /\ WF_wireVars(ReaderStep)
  /\ WF_wireVars(PutByte)

-----------------------------------------------------------------------------
(* Properties                                                              *)

(* The types of the two ends; no body larger than MaxFrameSize is ever     *)
(* allocated, whatever bytes come (wire.go:13-17, 23-63).                  *)
WireTypeOK ==
  /\ called \in 0 .. MaxNotes
  /\ frame \in Seq(Byte) /\ body \in Notes \cup {<<>>}
  /\ sent \in Seq(Notes) /\ alive \in BOOLEAN
  /\ stray \in Seq(0 .. MaxNotes) /\ Len(stray) <= MaxStray
  /\ stream \in Seq(Byte) /\ taken \in 0 .. Len(stream)
  /\ at \in {"header", "body", "ended"} /\ part \in Seq(Byte)
  /\ need \in 0 .. MaxFrameSize /\ Len(part) <= MaxFrameSize + HeaderSize
  /\ got \in Seq(Legible)
  /\ result \in {"none", "EOF", "ErrUnexpectedEOF", "ErrFrameTooLarge",
                 "illegible"}

Clean == stray = <<>>

(* The reader returns exactly the notes that were written, in their order, *)
(* however the pipe cuts them, up to the first stray byte; without one it  *)
(* never takes other bytes for a header, and stops at the first note that  *)
(* it cannot decode (wire.go:46-63, 119-158).                              *)
InSync ==
  IF Clean
  THEN /\ IsPrefix(got, sent)
       /\ result # "ErrFrameTooLarge"
       /\ result = "illegible" =>
            Len(got) < Len(sent) /\ sent[Len(got) + 1] \notin Legible
  ELSE \A i \in DOMAIN got : i <= stray[1] => got[i] = sent[i]

(* A reader that came to the end of the stream has returned every note     *)
(* written before any stray byte, those still in the pipe when the process *)
(* exited too, and no refused one left a trace (wire.go:34-36,             *)
(* worker.go:311-325).                                                     *)
NothingSkipped ==
  Clean /\ result \in {"EOF", "ErrUnexpectedEOF"} => got = sent

(* How many bytes of an unfinished frame went into the pipe.               *)
Remainder ==
  IF frame = <<>> THEN 0 ELSE Len(FrameOf(body)) - Len(frame)

(* A frame cut off by the writer's death is reported as such, unless it    *)
(* was cut between header and body: there the second ReadFull's io.EOF     *)
(* passes for a clean end, other than wire.go:46-48 says, and readLoop     *)
(* does not warn of it (wire.go:49-62, worker.go:320-323).                 *)
TornIsNoticed ==
  Clean /\ result = "EOF" => Remainder \in {0, HeaderSize}

(* What wire.go:46-48 says of ReadFrame: io.EOF only at a frame boundary,  *)
(* so that a clean end leaves no part of a frame behind.                   *)
EOFOnlyAtBoundary ==
  Clean /\ result = "EOF" => Remainder = 0

(* The notes written before any stray byte.                                *)
Kept == IF Clean THEN Len(sent) ELSE stray[1]

(* Refinement: however bytes are moved, cut off or mixed with others, the  *)
(* two ends of the stream do to each other what the ends of a pipe of      *)
(* whole notes would; this is the pipe Handler and Worker have             *)
(* (wire.go:23-63, 119-158, worker.go:311-325).                            *)
Pipe == INSTANCE NotePipe WITH
          pipe <- SubSeq(sent, Len(got) + 1, Kept), read <- got,
          open <- alive, spoilt <- ~Clean, outcome <- result
KeepsNotes == Pipe!NotePipeSpec

(* Every note written is read in the end, and the end of the stream is     *)
(* seen, unless the reader ended before: no cut of the bytes makes both    *)
(* ends wait for each other (wire.go:37-43, 49-63).                        *)
WrittenIsRead ==
  /\ \A k \in 1 .. MaxNotes : Len(sent) >= k ~> Len(got) >= k \/ at = "ended"
  /\ ~alive ~> at = "ended"
=============================================================================
