-------------------------------- MODULE MCWire --------------------------------
(***************************************************************************)
(* A small instance of Wire for TLC: bytes of two values.                  *)
(***************************************************************************)
EXTENDS Wire

(* One that looks like the start of a header, one that fills a frame, one  *)
(* that no handler may send, and one too large for a frame.                *)
Readable == {<<0>>, <<1, 0, 1>>}
AllNotes == Readable \cup {<<1, 1>>, <<0, 0, 0, 1>>}
=============================================================================
