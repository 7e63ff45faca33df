----------------------------- MODULE LineReader ------------------------------
(***************************************************************************)
(* What reading lines from a stream promises, with no buffer: bytes are    *)
(* due from when they are read until the line they belong to is handed     *)
(* out, lines come out in the order of the stream, and more is read only   *)
(* when no whole line is due.                                              *)
(***************************************************************************)
EXTENDS Integers, Sequences

CONSTANT Newline

VARIABLES
    due,   \* the bytes read that belong to no line handed out yet
    line   \* the line handed out last

State == <<due, line>>

Init == due = <<>> /\ line = <<>>

Read ==
    /\ \A i \in DOMAIN due : due[i] # Newline
    /\ Len(due') >= Len(due)
    /\ SubSeq(due', 1, Len(due)) = due
    /\ UNCHANGED line

Hand ==
    \E k \in DOMAIN due :
        /\ due[k] = Newline
        /\ \A i \in 1 .. k - 1 : due[i] # Newline
        /\ line' = SubSeq(due, 1, k - 1)
        /\ due' = SubSeq(due, k + 1, Len(due))

Next == Read \/ Hand

Spec == Init /\ [][Next]_State
=============================================================================
