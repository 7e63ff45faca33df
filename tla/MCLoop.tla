------------------------------- MODULE MCLoop -------------------------------
(* What a user may type at a terminal, and what the frame may hold.        *)
EXTENDS EventLoop, TLC

CONSTANTS a, nl

(* A terminal hands over a line, or what was typed of it so far.           *)
Typed == {<<nl>>, <<a>>}

(* A tv_usec that select() refuses and one that it takes.                  *)
Unwritten == {-1, 0}
=============================================================================
