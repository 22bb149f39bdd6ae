--------------------------- MODULE MCFrameReader ---------------------------
(***************************************************************************)
(* Instances of FrameReader for TLC: headers of two bytes, a buffer of     *)
(* four, so that headers and contents of every alignment meet its end.     *)
(***************************************************************************)
EXTENDS FrameReaderProps

=============================================================================
