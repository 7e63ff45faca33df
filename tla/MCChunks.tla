------------------------------ MODULE MCChunks -------------------------------
(* Files of every length up to two chunks and a byte, no two bytes alike,  *)
(* and with digits and letters among their hexadecimal digits.             *)
EXTENDS MakeChunks

FilesOfEveryLength == {[i \in 1 .. n |-> 255 - 14 * (i - 1)] : n \in 0 .. 17}
=============================================================================
