------------------------------- MODULE MCSwarm ------------------------------
(* Small swarms: who has what, and who asks for what.                      *)
EXTENDS Swarm, TLC

CONSTANTS ann, bob, cat, c0, c1, c2

HasOf(a, b, c) == [p \in Peers |-> CASE p = ann -> a [] p = bob -> b
                                     [] OTHER -> c]

(* Ann downloads a file of two chunks from bob, or two files one after the *)
(* other, the second of one other chunk or of the same chunks swapped, or  *)
(* three chunks while cat downloads one of them from bob.                  *)
BobHasTwo == HasOf(<<>>, <<c1, c0>>, <<>>)
BobHasThree == HasOf(<<>>, <<c0, c1, c2>>, <<>>)
AnnWantsTwo == HasOf(<<<<c0, c1>>>>, <<>>, <<>>)
AnnWantsThree == HasOf(<<<<c0, c1, c2>>>>, <<>>, <<>>)
AnnThreeCatOne == HasOf(<<<<c0, c1, c2>>>>, <<>>, <<<<c1>>>>)
AnnWantsTwice == HasOf(<<<<c0>>, <<c1>>>>, <<>>, <<>>)
AnnWantsSwapped == HasOf(<<<<c0, c1>>, <<c1, c0>>>>, <<>>, <<>>)

(* Ann downloads from bob and cat, who have a chunk each or both have all. *)
ProvidersShare == HasOf(<<>>, <<c0>>, <<c1>>)
ProvidersHaveAll == HasOf(<<>>, <<c0, c1>>, <<c0, c1>>)

(* Ann downloads from bob and cat, who share a chunk, and bob from ann.    *)
TradersHave == HasOf(<<c2>>, <<c0>>, <<c0, c1>>)
TradersWant == HasOf(<<<<c0, c1>>>>, <<<<c2>>>>, <<>>)

(* The word malloc keeps in front of the download table, 32 * max_conn +   *)
(* 17, reads as a block number: of no chunk when max_conn is 16 or more,   *)
(* and else of one of its blocks (145 of 512 for -m 4), though never of    *)
(* the last, as it is odd.                                                 *)
WordBeyondChunk == [NoSession EXCEPT !.seq = N + 1]
WordInChunk == [NoSession EXCEPT !.seq = N - 1]
=============================================================================
