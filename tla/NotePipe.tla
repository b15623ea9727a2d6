------------------------------- MODULE NotePipe -------------------------------
(***************************************************************************)
(* What WriteFrame and Reader.Read make of a byte stream (note/wire.go,    *)
(* the comments on ReadFrame and Reader), with no byte or frame in sight:  *)
(* a pipe of whole notes, as Handler and Worker use stdin and stdout.  A   *)
(* note goes in whole or not at all; the notes come out one by one, in     *)
(* order; the reader stops at one it cannot decode, and at the end only    *)
(* when the writer has gone and nothing is left.  Once something else than *)
(* a note was written, what is in the pipe still comes out, and then       *)
(* anything may.                                                           *)
(***************************************************************************)
EXTENDS Sequences

CONSTANTS Notes, Legible

VARIABLES
  pipe,    \* the notes written and not yet read
  read,    \* the notes read so far
  open,    \* the writer is there
  spoilt,  \* something else than a note was written
  outcome  \* the error the reader ended with

notePipeVars == <<pipe, read, open, spoilt, outcome>>

NotePipeInit ==
  /\ pipe = <<>> /\ read = <<>> /\ open = TRUE /\ spoilt = FALSE
  /\ outcome = "none"

WriteNote(b) ==
  /\ open /\ ~spoilt
  /\ pipe' = Append(pipe, b)
  /\ UNCHANGED <<read, open, spoilt, outcome>>

Spoil ==
  /\ open
  /\ spoilt' = TRUE
  /\ UNCHANGED <<pipe, read, open, outcome>>

Close ==
  /\ open
  /\ open' = FALSE
  /\ UNCHANGED <<pipe, read, spoilt, outcome>>

ReadNote ==
  /\ outcome = "none" /\ pipe # <<>> /\ Head(pipe) \in Legible
  /\ pipe' = Tail(pipe) /\ read' = Append(read, Head(pipe))
  /\ UNCHANGED <<open, spoilt, outcome>>

Fails(err) ==
  /\ outcome = "none" /\ outcome' = err
  /\ UNCHANGED <<pipe, read, open, spoilt>>

RejectNote == pipe # <<>> /\ Head(pipe) \notin Legible /\ Fails("illegible")

ReadEnd ==
  /\ pipe = <<>> /\ ~open
  /\ Fails("EOF") \/ Fails("ErrUnexpectedEOF")

(* Bytes that are no note are taken for one, or for the header of one.     *)
ReadGarbage ==
  /\ spoilt /\ pipe = <<>> /\ outcome = "none"
  /\ \/ /\ \E b \in Legible : read' = Append(read, b)
        /\ UNCHANGED <<pipe, open, spoilt, outcome>>
     \/ Fails("illegible") \/ Fails("ErrFrameTooLarge")

NotePipeNext ==
  \/ \E b \in Notes : WriteNote(b)
  \/ Spoil \/ Close
  \/ ReadNote \/ RejectNote \/ ReadEnd \/ ReadGarbage

NotePipeSpec == NotePipeInit /\ [][NotePipeNext]_notePipeVars
=============================================================================
