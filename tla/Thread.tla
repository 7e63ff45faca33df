------------------------------- MODULE Thread -------------------------------
(***************************************************************************)
(* A peer runs one thread, the loop of peer_run: select(), a scan of the   *)
(* waiting list, then one packet, one line of the user's or the timer.     *)
(* task[p] is what that thread is in the middle of.  A loop of the code    *)
(* that changes state is a sequence of steps here, and the thread starts   *)
(* nothing else before the loop ends.                                      *)
(***************************************************************************)
EXTENDS Wire

VARIABLE task

(* Blocked in select(), and past the scan that follows select().           *)
Select == [doing |-> "select"]
Ready == [doing |-> "ready"]

Doing(p, what) == task[p].doing = what

(* A handler that returns goes back to select().                           *)
Return(p) == task' = [task EXCEPT ![p] = Select]

(* The searches of the code return the first index that fits, or -1.       *)
First(indices) ==
    IF \E i \in indices : \A j \in indices : i <= j
    THEN CHOOSE i \in indices : \A j \in indices : i <= j
    ELSE -1
=============================================================================
