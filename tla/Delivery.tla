------------------------------ MODULE Delivery ------------------------------
(***************************************************************************)
(* What a download promises, with no packets, sessions or tables: a line   *)
(* of the request file is absent, then coming, block after block in order, *)
(* then got, and got only with its last block.  Nothing stored is taken    *)
(* away again.                                                             *)
(***************************************************************************)
EXTENDS Naturals

CONSTANTS Owners, LineIds, BlocksPerLine  \* BlocksPerLine is positive

VARIABLES
    stage,   \* of each line of each owner
    stored   \* the right blocks stored so far from the start of the line

State == <<stage, stored>>

Init ==
    /\ stage = [p \in Owners |-> [l \in LineIds |-> "absent"]]
    /\ stored = [p \in Owners |-> [l \in LineIds |-> 0]]

Begin(p, l) ==
    /\ stage[p][l] = "absent"
    /\ stage' = [stage EXCEPT ![p][l] = "coming"]
    /\ UNCHANGED stored

Store(p, l) ==
    /\ stage[p][l] = "coming"
    /\ stored[p][l] < BlocksPerLine - 1
    /\ stored' = [stored EXCEPT ![p][l] = @ + 1]
    /\ UNCHANGED stage

Finish(p, l) ==
    /\ stage[p][l] = "coming"
    /\ stored[p][l] = BlocksPerLine - 1
    /\ stored' = [stored EXCEPT ![p][l] = BlocksPerLine]
    /\ stage' = [stage EXCEPT ![p][l] = "got"]

Next == \E p \in Owners, l \in LineIds : Begin(p, l) \/ Store(p, l) \/ Finish(p, l)

Spec == Init /\ [][Next]_State
=============================================================================
