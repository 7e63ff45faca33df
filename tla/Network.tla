------------------------------ MODULE Network -------------------------------
(***************************************************************************)
(* The network between the peers, as the simulator hupsim_adv.pl provides  *)
(* it and spiffy.c enters it: one FIFO path for each ordered pair of       *)
(* peers, whose queue drops what does not fit, and which may lose or       *)
(* repeat a DATA or an ACK but no other packet.  Where hops are shared, or *)
(* a path has several, a queue on the way may be full of what others sent, *)
(* and any packet may find it so.  Each of these acts on the packet at the *)
(* head of a path: the receiver cannot tell at which hop, or how early, a  *)
(* packet of a FIFO path was lost or copied.                               *)
(***************************************************************************)
EXTENDS Wire

CONSTANTS
    QueueMax,    \* packets a path holds
    Lossy,       \* whether the simulator has a drop rate or a drop list
    Dups,        \* copies added of a repeated packet, 0 when none is repeated
    Shared,      \* whether a path has more hops than one or shares one with
                 \* another path: the queues belong to the hops
    MaxInFlight  \* bound: two peers exchange copies and repeated blocks only
                 \* while fewer packets than this are under way between them

ASSUME QueueMaxAssumption == QueueMax \in Nat \ {0}
ASSUME LossAssumption == Lossy \in BOOLEAN /\ Dups \in Nat
ASSUME SharedAssumption == Shared \in BOOLEAN
ASSUME MaxInFlightAssumption == MaxInFlight \in Nat

VARIABLE net  \* net[p][q]: the packets sent by p that q has not received

Paths == [Peers -> [Peers -> Seq(Packet)]]
NetworkTypeOK == net \in Paths
NetworkInit == net = [p \in Peers |-> [q \in Peers |-> <<>>]]

-----------------------------------------------------------------------------
(* NSQueue::enQ drops the packet that finds the queue full.                *)
enQ(queue, m) == IF Len(queue) < QueueMax THEN Append(queue, m) ELSE queue

(* The network n after p sends m to q, and after q takes the next packet   *)
(* p sent it.                                                              *)
Sent(n, p, q, m) == [n EXCEPT ![p][q] = enQ(@, m)]
Taken(n, p, q) == [n EXCEPT ![p][q] = Tail(@)]

(* The reply of p to the packet it has just taken from q.                  *)
Answered(p, q, m) == Sent(Taken(net, q, p), p, q, m)

Arrived(p, q, type) == net[p][q] # <<>> /\ Head(net[p][q]).type = type

InFlight(p, q) == Len(net[p][q]) + Len(net[q][p])

-----------------------------------------------------------------------------
Unreliable(p, q) == Arrived(p, q, "DATA") \/ Arrived(p, q, "ACK")

Lose(p, q) ==
    /\ Lossy
    /\ Unreliable(p, q)
    /\ net' = Taken(net, p, q)

CrowdOut(p, q) ==
    /\ Shared
    /\ net[p][q] # <<>>
    /\ net' = Taken(net, p, q)

Duplicate(p, q) ==
    /\ Dups > 0
    /\ Unreliable(p, q)
    /\ InFlight(p, q) + Dups <= MaxInFlight
    /\ net' = [net EXCEPT ![p][q] = [i \in 1 .. Dups |-> Head(@)] \o @]
=============================================================================
