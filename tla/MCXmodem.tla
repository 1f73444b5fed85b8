------------------------------- MODULE MCXmodem -------------------------------
(* Xmodem with a short file one of whose bytes looks like EOT, and block     *)
(* numbers that wrap around within it.                                       *)
EXTENDS Xmodem

MCFile == <<9, 4, 9, 1>>
=============================================================================
