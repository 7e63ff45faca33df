---------------------------- MODULE TransferProofs ---------------------------
(***************************************************************************)
(* Why a chunk arrives as it was sent.  In a swarm in which each peer      *)
(* serves one other and no peer opens two sessions with the same provider, *)
(* the packets under way between a client and its provider belong to the   *)
(* one transfer that is going on, or are too late to be taken for one.     *)
(***************************************************************************)
EXTENDS OfferProofs

(* No two peers want what the same peer has.                               *)
OneCustomer ==
    \A q \in Peers : \A p, r \in Peers \ {q} :
        /\ Orders(p) \cap Hashes(HasFiles[q]) # {}
        /\ Orders(r) \cap Hashes(HasFiles[q]) # {}
        => p = r

(* The memory in front of the download table reads as a session no DATA is *)
(* for.  On the heap of glibc it reads as block 32 * max_conn + 17, which  *)
(* no chunk has from max_conn 16 on.  With the 4 of the test scripts it is *)
(* a block of a chunk, and what rests on this condition fails: see run     *)
(* heap_block.                                                             *)
SlotUnmatched == HeapSlot.seq > N /\ ~HeapSlot.active

(* The swarms of this module: one GET command each, one customer each, a   *)
(* chunk has several blocks.                                               *)
Plain ==
    /\ OneGet
    /\ OneCustomer
    /\ N >= 2
    /\ SlotUnmatched

(* What the waiting list is for, and what its busy flag fails at when a    *)
(* peer offers three chunks or more.                                       *)
Orderly == OneSessionPerPeer /\ TablesSuffice

-----------------------------------------------------------------------------
(* Every three packets of a queue, in the order they stand in it, are in   *)
(* T; a packet may stand for two or three of them.                         *)
InTurn(queue, T) ==
    \A i, j, k \in 1 .. Len(queue) :
        i <= j /\ j <= k => <<queue[i], queue[j], queue[k]>> \in T

(* No two GETs.                                                            *)
OnlyGet(queue) ==
    \A i, j \in 1 .. Len(queue) :
        queue[i].type = "GET" /\ queue[j].type = "GET" => i = j

Holds(queue, type) == \E i \in 1 .. Len(queue) : queue[i].type = type

Three == Packet \X Packet \X Packet

LEMMA InTurnTail ==
    ASSUME NEW S, NEW T, NEW queue \in Seq(S), queue # <<>>, InTurn(queue, T)
    PROVE  /\ InTurn(Tail(queue), T)
           /\ <<Head(queue), Head(queue), Head(queue)>> \in T
           /\ \A i \in 1 .. Len(Tail(queue)) :
                 <<Head(queue), Head(queue), Tail(queue)[i]>> \in T
           /\ \A i, j \in 1 .. Len(Tail(queue)) : i <= j =>
                 <<Head(queue), Tail(queue)[i], Tail(queue)[j]>> \in T
<1>1. Len(queue) \in Nat /\ Len(queue) # 0 /\ Head(queue) = queue[1]
  BY EmptySeq
<1>2. /\ Len(Tail(queue)) = Len(queue) - 1
      /\ \A i \in 1 .. Len(Tail(queue)) : Tail(queue)[i] = queue[i + 1]
  BY HeadTailProperties
<1>3. 1 \in 1 .. Len(queue)
  BY <1>1
<1>4. ASSUME NEW i \in 1 .. Len(Tail(queue))
      PROVE  i + 1 \in 1 .. Len(queue) /\ 1 <= i + 1
  BY <1>1, <1>2
<1>5. ASSUME NEW i \in 1 .. Len(Tail(queue)), NEW j \in 1 .. Len(Tail(queue)),
             i <= j
      PROVE  i + 1 <= j + 1
  BY <1>5, <1>1, <1>2
<1>6. InTurn(Tail(queue), T)
  BY <1>2, <1>4, <1>5 DEF InTurn
<1> QED
  BY <1>1, <1>2, <1>3, <1>4, <1>5, <1>6 DEF InTurn

LEMMA InTurnEnQ ==
    ASSUME NEW T, NEW queue \in Seq(Packet), InTurn(queue, T),
           NEW m \in Packet, <<m, m, m>> \in T,
           \A i, j \in 1 .. Len(queue) : i <= j =>
               <<queue[i], m, m>> \in T /\ <<queue[i], queue[j], m>> \in T
    PROVE  InTurn(enQ(queue, m), T)
<1> DEFINE longer == Append(queue, m)
<1>1. /\ Len(queue) \in Nat /\ Len(longer) = Len(queue) + 1
      /\ longer[Len(queue) + 1] = m
      /\ \A i \in 1 .. Len(queue) : longer[i] = queue[i]
  BY AppendProperties
<1> HIDE DEF longer
<1>2. ASSUME NEW i \in 1 .. Len(queue) PROVE <<queue[i], m, m>> \in T
  <2>1. i <= i
    BY <1>1
  <2> QED
    BY <2>1
<1>3. ASSUME NEW i \in 1 .. Len(longer), NEW j \in 1 .. Len(longer),
             NEW k \in 1 .. Len(longer), i <= j, j <= k
      PROVE  <<longer[i], longer[j], longer[k]>> \in T
  <2>1. CASE k \in 1 .. Len(queue)
    <3>1. i \in 1 .. Len(queue) /\ j \in 1 .. Len(queue)
      BY <1>1, <1>3, <2>1
    <3> QED
      BY <1>1, <1>3, <2>1, <3>1 DEF InTurn
  <2>2. CASE k = Len(queue) + 1 /\ j \in 1 .. Len(queue)
    <3>1. i \in 1 .. Len(queue)
      BY <1>1, <1>3, <2>2
    <3> QED
      BY <1>1, <1>3, <2>2, <3>1
  <2>3. CASE k = Len(queue) + 1 /\ j = Len(queue) + 1
    <3>1. i \in 1 .. Len(queue) \/ i = Len(queue) + 1
      BY <1>1, <1>3
    <3> QED
      BY <1>1, <1>2, <2>3, <3>1
  <2> QED
    BY <1>1, <1>3, <2>1, <2>2, <2>3
<1> QED
  BY <1>3 DEF InTurn, enQ, longer

(* Copies of the first packet in front of it.                              *)
Copied(queue, n) == [i \in 1 .. n |-> Head(queue)] \o queue

LEMMA CopiedIs ==
    ASSUME NEW S, NEW queue \in Seq(S), queue # <<>>, NEW n \in Nat
    PROVE  /\ Copied(queue, n) \in Seq(S)
           /\ Len(Copied(queue, n)) = n + Len(queue)
           /\ \A i \in 1 .. Len(Copied(queue, n)) :
                 Copied(queue, n)[i] = IF i <= n THEN queue[1] ELSE queue[i - n]
<1> DEFINE copies == [i \in 1 .. n |-> Head(queue)]
<1>1. Head(queue) \in S /\ Head(queue) = queue[1] /\ Len(queue) \in Nat
  BY HeadTailProperties
<1>2. copies \in Seq(S) /\ Len(copies) = n /\ \A i \in 1 .. n : copies[i] = queue[1]
  BY <1>1, IsASeq
<1> HIDE DEF copies
<1>3. /\ copies \o queue \in Seq(S)
      /\ Len(copies \o queue) = n + Len(queue)
      /\ \A i \in 1 .. n + Len(queue) : (copies \o queue)[i] =
            IF i <= n THEN copies[i] ELSE queue[i - n]
  BY <1>1, <1>2, ConcatProperties
<1>4. \A i \in 1 .. n + Len(queue) : i <= n => i \in 1 .. n
  BY <1>1
<1> QED
  BY <1>2, <1>3, <1>4 DEF Copied, copies

LEMMA InTurnCopied ==
    ASSUME NEW S, NEW T, NEW queue \in Seq(S), queue # <<>>, NEW n \in Nat,
           InTurn(queue, T)
    PROVE  InTurn(Copied(queue, n), T)
<1> DEFINE longer == Copied(queue, n)
           at(i) == IF i <= n THEN 1 ELSE i - n
<1>1. Len(queue) \in Nat \ {0} /\ Len(longer) = n + Len(queue)
  BY CopiedIs, EmptySeq
<1>2. \A i \in 1 .. Len(longer) : longer[i] = queue[at(i)]
  BY CopiedIs
<1>3. \A i \in 1 .. Len(longer) : at(i) \in 1 .. Len(queue)
  <2> HIDE DEF longer
  <2> QED
    BY <1>1
<1>4. \A i, j \in 1 .. Len(longer) : i <= j => at(i) <= at(j)
  <2> HIDE DEF longer
  <2> QED
    BY <1>1
<1> HIDE DEF at
<1> QED
  BY <1>2, <1>3, <1>4 DEF InTurn

LEMMA OnlyGetTail ==
    ASSUME NEW S, NEW queue \in Seq(S), queue # <<>>, OnlyGet(queue)
    PROVE  /\ OnlyGet(Tail(queue))
           /\ Head(queue).type = "GET" =>
                 \A i \in 1 .. Len(Tail(queue)) : Tail(queue)[i].type # "GET"
<1>1. Len(queue) \in Nat /\ Len(queue) # 0 /\ Head(queue) = queue[1]
  BY EmptySeq
<1>2. /\ Len(Tail(queue)) = Len(queue) - 1
      /\ \A i \in 1 .. Len(Tail(queue)) : Tail(queue)[i] = queue[i + 1]
  BY HeadTailProperties
<1>3. \A i \in 1 .. Len(Tail(queue)) : i + 1 \in 1 .. Len(queue) /\ i + 1 # 1
  BY <1>1, <1>2
<1>4. 1 \in 1 .. Len(queue)
  BY <1>1
<1> QED
  BY <1>1, <1>2, <1>3, <1>4 DEF OnlyGet

LEMMA OnlyGetEnQ ==
    ASSUME NEW S, NEW queue \in Seq(S), NEW m \in S, OnlyGet(queue),
           m.type # "GET" \/ \A i \in 1 .. Len(queue) : queue[i].type # "GET"
    PROVE  OnlyGet(enQ(queue, m))
<1> DEFINE longer == Append(queue, m)
<1>1. /\ Len(queue) \in Nat /\ Len(longer) = Len(queue) + 1
      /\ longer[Len(queue) + 1] = m
      /\ \A i \in 1 .. Len(queue) : longer[i] = queue[i]
  BY AppendProperties
<1> HIDE DEF longer
<1>2. \A i \in 1 .. Len(longer) : i \in 1 .. Len(queue) \/ i = Len(queue) + 1
  BY <1>1
<1>3. OnlyGet(longer)
  BY <1>1, <1>2 DEF OnlyGet
<1> QED
  BY <1>3 DEF enQ, longer

LEMMA OnlyGetCopied ==
    ASSUME NEW S, NEW queue \in Seq(S), queue # <<>>, NEW n \in Nat,
           OnlyGet(queue), Head(queue).type # "GET"
    PROVE  OnlyGet(Copied(queue, n))
<1> DEFINE longer == Copied(queue, n)
<1>1. Len(queue) \in Nat /\ Len(queue) # 0 /\ Head(queue) = queue[1]
  BY EmptySeq
<1>2. /\ Len(longer) = n + Len(queue)
      /\ \A i \in 1 .. Len(longer) :
            longer[i] = IF i <= n THEN queue[1] ELSE queue[i - n]
  BY CopiedIs
<1> HIDE DEF longer
<1>3. \A i \in 1 .. Len(longer) : longer[i].type = "GET" =>
          i - n \in 1 .. Len(queue) /\ longer[i] = queue[i - n]
  BY <1>1, <1>2
<1> QED
  BY <1>2, <1>3 DEF OnlyGet, longer

-----------------------------------------------------------------------------
(* The transfer between a client p and a provider q: chan carries the GETs *)
(* and ACKs of p to q, back the DATA of q to p, u is the upload of q and   *)
(* table the download table of p.                                          *)
Open(table, q) == {k \in 0 .. MaxConn - 1 : table[k].active /\ table[k].from = q}

(* The ACK that a session which has written pos blocks answers with.       *)
Top(pos) == IF pos = 0 THEN 1 ELSE pos

(* A GET is for a session that waits for its first block, and what follows *)
(* it answers blocks that are too late.                                    *)
AskRule(p, q, table) ==
    {t \in Three :
        /\ t[1].type = "GET" =>
              /\ \E k \in Open(table, q) :
                    table[k].pos = 0 /\ Wanted(p, table[k].rid) = t[1].hash
              /\ t[2].type = "ACK" => t[2].ack = 1
        /\ t[1].type = "ACK" => t[1].ack >= 1}

(* A DATA of an earlier transfer is none of the blocks 1 to low.           *)
LateRule(low) == {t \in Three : t[1].type = "DATA" => t[1].seq >= low + 1}

(* The ACKs of the transfer, the last of them for block low or later.      *)
AckedRule(low, high) ==
    {t \in Three :
        /\ t[1].type # "GET"
        /\ t[1].type = "ACK" => low <= t[1].ack /\ t[1].ack <= high
        /\ t[1].type = "ACK" /\ t[2].type = "ACK" => t[1].ack <= t[2].ack}

(* The DATA of the transfer, the last of them block high + 1 or earlier,   *)
(* in order; before the first block is taken, those that follow a first.   *)
SentRule(pos, c, high) ==
    {t \in Three :
        pos >= 1 \/ (t[1].type = "DATA" /\ t[1].seq = 1) =>
            /\ t[2].type = "DATA" =>
                  t[2].seq <= high + 1 /\ t[2].data = <<c, t[2].seq>>
            /\ t[2].type = "DATA" /\ t[3].type = "DATA" =>
                  t[2].seq <= t[3].seq}

Asking(p, q, chan, table) == InTurn(chan, AskRule(p, q, table)) /\ OnlyGet(chan)

(* How far the provider was when the last transfer ended; when it is not   *)
(* sure that every GET arrives it may since have been told of a first      *)
(* block that was none.                                                    *)
Low(sure) == IF sure THEN N - 1 ELSE 1

(* Between two transfers an ACK for less follows the GET of the next, and  *)
(* where GETs are sure to arrive an open session has its GET under way.    *)
Awaits(sure, q, chan, table) ==
    /\ \A i \in 1 .. Len(chan) :
          chan[i].type = "ACK" /\ chan[i].ack < Low(sure) =>
              \E j \in 1 .. i - 1 : chan[j].type = "GET"
    /\ sure /\ Open(table, q) # {} => Holds(chan, "GET")

(* No transfer is going on, though a session may be waiting for one.       *)
Quiet(sure, p, q, chan, back, u, table) ==
    /\ InTurn(back, LateRule(Low(sure)))
    /\ u.to = p => u.max_ack >= Low(sure)
    /\ \A k \in Open(table, q) : table[k].pos = 0
    /\ Awaits(sure, q, chan, table)

(* Session k is being served.                                              *)
Serving(p, k, chan, back, u, table) ==
    /\ u.to = p /\ u.chunk = Wanted(p, table[k].rid)
    /\ u.max_ack <= Top(table[k].pos)
    /\ InTurn(chan, AckedRule(u.max_ack, Top(table[k].pos)))
    /\ InTurn(back, SentRule(table[k].pos, u.chunk, u.max_ack))

Pair(sure, p, q, chan, back, u, table) ==
    /\ Asking(p, q, chan, table)
    /\ \/ Quiet(sure, p, q, chan, back, u, table)
       \/ \E k \in Open(table, q) : Serving(p, k, chan, back, u, table)

(* The transfers of a network n, uploads up and download tables down.      *)
PairsOf(sure, n, up, down) ==
    \A a, b \in Peers : Offer(a, b) # {} =>
        Pair(sure, a, b, n[a][b], n[b][a], up[b], down[a])

Transfers(sure) == PairsOf(sure, net, upload, download)
PairInv == Transfers(FALSE)

-----------------------------------------------------------------------------
(* What a packet more or less does to a transfer.                          *)
LEMMA LowIs ==
    ASSUME NEW sure \in BOOLEAN
    PROVE  Low(sure) \in Nat /\ (N >= 2 => Low(sure) >= 1 /\ Low(sure) <= N - 1)
  BY NAssumption DEF Low

LEMMA AwaitsTail ==
    ASSUME NEW sure, NEW q, NEW table, NEW chan \in Seq(Packet), chan # <<>>,
           Awaits(sure, q, chan, table), Head(chan).type # "GET"
    PROVE  Awaits(sure, q, Tail(chan), table)
<1> DEFINE tail == Tail(chan)
<1>1. Len(chan) \in Nat /\ Len(chan) # 0 /\ chan[1].type # "GET"
  BY EmptySeq
<1>2. /\ Len(tail) = Len(chan) - 1
      /\ \A i \in 1 .. Len(tail) : tail[i] = chan[i + 1] /\ i + 1 \in 1 .. Len(chan)
  <2>1. /\ Len(tail) = Len(chan) - 1
        /\ \A i \in 1 .. Len(tail) : tail[i] = chan[i + 1]
    BY HeadTailProperties
  <2> HIDE DEF tail
  <2> QED
    BY <1>1, <2>1
<1>3. \A j \in 1 .. Len(chan) : chan[j].type = "GET" =>
          j - 1 \in 1 .. Len(tail) /\ tail[j - 1].type = "GET"
  <2> SUFFICES ASSUME NEW j \in 1 .. Len(chan), chan[j].type = "GET"
               PROVE  j - 1 \in 1 .. Len(tail) /\ tail[j - 1].type = "GET"
    OBVIOUS
  <2>1. j # 1
    BY <1>1
  <2>2. j - 1 \in 1 .. Len(tail) /\ (j - 1) + 1 = j
    BY <1>1, <1>2, <2>1
  <2> QED
    BY <1>2, <2>2
<1> HIDE DEF tail
<1>4. ASSUME NEW i \in 1 .. Len(tail), tail[i].type = "ACK",
             tail[i].ack < Low(sure)
      PROVE  \E j \in 1 .. i - 1 : tail[j].type = "GET"
  <2>1. PICK j \in 1 .. (i + 1) - 1 : chan[j].type = "GET"
    BY <1>2, <1>4 DEF Awaits
  <2>2. j \in 1 .. Len(chan) /\ j <= i
    BY <1>1, <1>2, <2>1
  <2>3. j - 1 \in 1 .. i - 1 /\ tail[j - 1].type = "GET"
    BY <1>1, <1>2, <1>3, <2>1, <2>2
  <2> QED
    BY <2>3
<1>5. Holds(chan, "GET") => Holds(tail, "GET")
  BY <1>3 DEF Holds
<1> QED
  BY <1>4, <1>5 DEF Awaits, tail

LEMMA AwaitsEnQ ==
    ASSUME NEW sure, NEW q, NEW table, NEW chan \in Seq(Packet), NEW m \in Packet,
           Awaits(sure, q, chan, table),
           m.type = "ACK" /\ m.ack < Low(sure) => Holds(chan, "GET")
    PROVE  Awaits(sure, q, enQ(chan, m), table)
<1> DEFINE longer == Append(chan, m)
<1>1. /\ Len(chan) \in Nat /\ Len(longer) = Len(chan) + 1
      /\ longer[Len(chan) + 1] = m
      /\ \A i \in 1 .. Len(chan) : longer[i] = chan[i]
  BY AppendProperties
<1> HIDE DEF longer
<1>2. ASSUME NEW i \in 1 .. Len(longer), longer[i].type = "ACK",
             longer[i].ack < Low(sure)
      PROVE  \E j \in 1 .. i - 1 : longer[j].type = "GET"
  <2>1. CASE i \in 1 .. Len(chan)
    <3>1. PICK j \in 1 .. i - 1 : chan[j].type = "GET"
      BY <1>1, <1>2, <2>1 DEF Awaits
    <3>2. j \in 1 .. Len(chan)
      BY <1>1, <2>1, <3>1
    <3> QED
      BY <1>1, <3>1, <3>2
  <2>2. CASE i = Len(chan) + 1
    <3>1. PICK j \in 1 .. Len(chan) : chan[j].type = "GET"
      BY <1>1, <1>2, <2>2 DEF Holds
    <3>2. j \in 1 .. i - 1
      BY <1>1, <2>2, <3>1
    <3> QED
      BY <1>1, <3>1, <3>2
  <2> QED
    BY <1>1, <2>1, <2>2
<1>3. Holds(chan, "GET") => Holds(longer, "GET")
  <2>1. \A i \in 1 .. Len(chan) : i \in 1 .. Len(longer)
    BY <1>1
  <2> QED
    BY <1>1, <2>1 DEF Holds
<1>4. Awaits(sure, q, longer, table)
  BY <1>2, <1>3 DEF Awaits
<1> QED
  BY <1>4 DEF enQ, longer

LEMMA AwaitsCopied ==
    ASSUME NEW sure, NEW q, NEW table, NEW chan \in Seq(Packet), chan # <<>>,
           Awaits(sure, q, chan, table), NEW n \in Nat
    PROVE  Awaits(sure, q, Copied(chan, n), table)
<1> DEFINE longer == Copied(chan, n)
<1>1. Len(chan) \in Nat /\ Len(chan) # 0
  BY EmptySeq
<1>2. /\ Len(longer) = n + Len(chan)
      /\ \A i \in 1 .. Len(longer) :
            longer[i] = IF i <= n THEN chan[1] ELSE chan[i - n]
  BY CopiedIs
<1> HIDE DEF longer
<1>3. \A j \in 1 .. Len(chan) : j + n \in 1 .. Len(longer) /\ longer[j + n] = chan[j]
  <2> SUFFICES ASSUME NEW j \in 1 .. Len(chan)
               PROVE  j + n \in 1 .. Len(longer) /\ longer[j + n] = chan[j]
    OBVIOUS
  <2>1. j + n \in 1 .. Len(longer) /\ ~(j + n <= n) /\ (j + n) - n = j
    BY <1>1, <1>2
  <2> QED
    BY <1>2, <2>1
<1>4. ASSUME NEW i \in 1 .. Len(longer), longer[i].type = "ACK",
             longer[i].ack < Low(sure)
      PROVE  \E j \in 1 .. i - 1 : longer[j].type = "GET"
  <2>1. CASE i <= n
    <3>1. longer[i] = chan[1] /\ 1 \in 1 .. Len(chan)
      BY <1>1, <1>2, <2>1
    <3>2. PICK j \in 1 .. 1 - 1 : chan[j].type = "GET"
      BY <1>4, <3>1 DEF Awaits
    <3> QED
      BY <3>2
  <2>2. CASE ~(i <= n)
    <3>1. longer[i] = chan[i - n] /\ i - n \in 1 .. Len(chan)
      BY <1>1, <1>2, <2>2
    <3>2. PICK j \in 1 .. (i - n) - 1 : chan[j].type = "GET"
      BY <1>4, <3>1 DEF Awaits
    <3>3. j \in 1 .. Len(chan) /\ j + n \in 1 .. i - 1
      BY <1>1, <3>1, <3>2
    <3> QED
      BY <1>3, <3>2, <3>3
  <2> QED
    BY <2>1, <2>2
<1>5. Holds(chan, "GET") => Holds(longer, "GET")
  BY <1>3 DEF Holds
<1> QED
  BY <1>4, <1>5 DEF Awaits, longer

(* Where GETs are not sure to arrive, nothing is awaited.                  *)
LEMMA AskedAwaits ==
    ASSUME NEW p, NEW q, NEW table, NEW chan \in Seq(Packet),
           Asking(p, q, chan, table), NEW sure, ~sure, Low(sure) = 1
    PROVE  Awaits(sure, q, chan, table)
<1>1. ASSUME NEW i \in 1 .. Len(chan), chan[i].type = "ACK", chan[i].ack < 1
      PROVE  FALSE
  <2>1. chan[i] \in Packet /\ i <= i
    BY ElementOfSeq
  <2>2. <<chan[i], chan[i], chan[i]>> \in AskRule(p, q, table)
    BY <2>1 DEF Asking, InTurn
  <2>3. chan[i].ack >= 1 /\ chan[i].ack \in Nat
    BY <1>1, <2>1, <2>2, PacketFields DEF AskRule
  <2> QED
    BY <1>1, <2>3
<1> QED
  BY <1>1 DEF Awaits

LEMMA ChanTakes ==
    ASSUME NEW sure \in BOOLEAN,
           NEW p, NEW q, NEW chan \in Seq(Packet), NEW back, NEW u, NEW table,
           Pair(sure, p, q, chan, back, u, table), chan # <<>>,
           Head(chan).type # "GET" \/ ~sure
    PROVE  Pair(sure, p, q, Tail(chan), back, u, table)
<1>1. Asking(p, q, Tail(chan), table)
  BY InTurnTail, OnlyGetTail DEF Pair, Asking
<1>2. ASSUME NEW k \in Open(table, q), Serving(p, k, chan, back, u, table)
      PROVE  Serving(p, k, Tail(chan), back, u, table)
  BY <1>2, InTurnTail DEF Serving
<1>3. Quiet(sure, p, q, chan, back, u, table)
      => Quiet(sure, p, q, Tail(chan), back, u, table)
  <2>1. CASE Head(chan).type # "GET"
    BY <2>1, AwaitsTail DEF Quiet
  <2>2. CASE ~sure
    <3>1. Tail(chan) \in Seq(Packet) /\ Low(sure) = 1
      BY <2>2, HeadTailProperties DEF Low
    <3>2. Awaits(sure, q, Tail(chan), table)
      BY <1>1, <2>2, <3>1, AskedAwaits
    <3> QED
      BY <3>2 DEF Quiet
  <2> QED
    BY <2>1, <2>2
<1> QED
  BY <1>1, <1>2, <1>3 DEF Pair

LEMMA ChanAdds ==
    ASSUME NEW sure \in BOOLEAN,
           NEW p, NEW q, NEW chan \in Seq(Packet), NEW back, NEW u, NEW table,
           Pair(sure, p, q, chan, back, u, table),
           NEW m \in Packet, m.type \notin {"GET", "ACK"}
    PROVE  Pair(sure, p, q, enQ(chan, m), back, u, table)
<1> DEFINE T == AskRule(p, q, table)
<1>1. Asking(p, q, enQ(chan, m), table)
  <2>1. InTurn(chan, T) /\ OnlyGet(chan)
    BY DEF Pair, Asking
  <2>2. <<m, m, m>> \in T
    BY DEF AskRule, Three
  <2>3. ASSUME NEW i \in 1 .. Len(chan), NEW j \in 1 .. Len(chan), i <= j
        PROVE  <<chan[i], m, m>> \in T /\ <<chan[i], chan[j], m>> \in T
    <3>1. chan[i] \in Packet /\ chan[j] \in Packet
      OBVIOUS
    <3>2. <<chan[i], chan[j], chan[j]>> \in T
      BY <2>1, <2>3 DEF InTurn
    <3> QED
      BY <3>1, <3>2 DEF AskRule, Three
  <2> HIDE DEF T
  <2>4. \A i, j \in 1 .. Len(chan) : i <= j =>
            <<chan[i], m, m>> \in T /\ <<chan[i], chan[j], m>> \in T
    BY <2>3
  <2>5. InTurn(enQ(chan, m), T)
    BY <2>1, <2>2, <2>4, InTurnEnQ
  <2> QED
    BY <2>1, <2>5, OnlyGetEnQ DEF Asking, T
<1>2. ASSUME NEW k \in Open(table, q), Serving(p, k, chan, back, u, table)
      PROVE  Serving(p, k, enQ(chan, m), back, u, table)
  <2> DEFINE A == AckedRule(u.max_ack, Top(table[k].pos))
  <2>1. InTurn(chan, A)
    BY <1>2 DEF Serving
  <2>2. <<m, m, m>> \in A
    BY DEF AckedRule, Three
  <2>3. ASSUME NEW i \in 1 .. Len(chan), NEW j \in 1 .. Len(chan), i <= j
        PROVE  <<chan[i], m, m>> \in A /\ <<chan[i], chan[j], m>> \in A
    <3>1. chan[i] \in Packet /\ chan[j] \in Packet
      OBVIOUS
    <3>2. <<chan[i], chan[j], chan[j]>> \in A
      BY <2>1, <2>3 DEF InTurn
    <3> QED
      BY <3>1, <3>2 DEF AckedRule, Three
  <2> HIDE DEF A
  <2>4. \A i, j \in 1 .. Len(chan) : i <= j =>
            <<chan[i], m, m>> \in A /\ <<chan[i], chan[j], m>> \in A
    BY <2>3
  <2>5. InTurn(enQ(chan, m), A)
    BY <2>1, <2>2, <2>4, InTurnEnQ
  <2> QED
    BY <1>2, <2>5 DEF Serving, A
<1>3. Quiet(sure, p, q, chan, back, u, table)
      => Quiet(sure, p, q, enQ(chan, m), back, u, table)
  BY AwaitsEnQ DEF Quiet
<1> QED
  BY <1>1, <1>2, <1>3 DEF Pair

LEMMA ChanCopies ==
    ASSUME NEW sure \in BOOLEAN,
           NEW p, NEW q, NEW chan \in Seq(Packet), NEW back, NEW u, NEW table,
           Pair(sure, p, q, chan, back, u, table), chan # <<>>,
           Head(chan).type # "GET", NEW n \in Nat
    PROVE  Pair(sure, p, q, Copied(chan, n), back, u, table)
<1>1. Asking(p, q, Copied(chan, n), table)
  BY InTurnCopied, OnlyGetCopied DEF Pair, Asking
<1>2. ASSUME NEW k \in Open(table, q), Serving(p, k, chan, back, u, table)
      PROVE  Serving(p, k, Copied(chan, n), back, u, table)
  BY <1>2, InTurnCopied DEF Serving
<1>3. Quiet(sure, p, q, chan, back, u, table)
      => Quiet(sure, p, q, Copied(chan, n), back, u, table)
  BY AwaitsCopied DEF Quiet
<1> QED
  BY <1>1, <1>2, <1>3 DEF Pair

LEMMA BackTakes ==
    ASSUME NEW sure \in BOOLEAN,
           NEW p, NEW q, NEW chan, NEW back \in Seq(Packet), NEW u, NEW table,
           Pair(sure, p, q, chan, back, u, table), back # <<>>
    PROVE  Pair(sure, p, q, chan, Tail(back), u, table)
<1>1. Quiet(sure, p, q, chan, back, u, table)
      => Quiet(sure, p, q, chan, Tail(back), u, table)
  BY InTurnTail DEF Quiet
<1>2. ASSUME NEW k \in Open(table, q), Serving(p, k, chan, back, u, table)
      PROVE  Serving(p, k, chan, Tail(back), u, table)
  BY <1>2, InTurnTail DEF Serving
<1> QED
  BY <1>1, <1>2 DEF Pair

LEMMA BackCopies ==
    ASSUME NEW sure \in BOOLEAN,
           NEW p, NEW q, NEW chan, NEW back \in Seq(Packet), NEW u, NEW table,
           Pair(sure, p, q, chan, back, u, table), back # <<>>, NEW n \in Nat
    PROVE  Pair(sure, p, q, chan, Copied(back, n), u, table)
<1>1. Quiet(sure, p, q, chan, back, u, table)
      => Quiet(sure, p, q, chan, Copied(back, n), u, table)
  BY InTurnCopied DEF Quiet
<1>2. ASSUME NEW k \in Open(table, q), Serving(p, k, chan, back, u, table)
      PROVE  Serving(p, k, chan, Copied(back, n), u, table)
  BY <1>2, InTurnCopied DEF Serving
<1> QED
  BY <1>1, <1>2 DEF Pair

(* A rule that says nothing of what m is.                                  *)
LEMMA LateAdds ==
    ASSUME NEW low, NEW back \in Seq(Packet), InTurn(back, LateRule(low)),
           NEW m \in Packet, m.type = "DATA" => m.seq >= low + 1
    PROVE  InTurn(enQ(back, m), LateRule(low))
<1>1. <<m, m, m>> \in LateRule(low)
  BY DEF LateRule, Three
<1>2. ASSUME NEW i \in 1 .. Len(back), NEW j \in 1 .. Len(back), i <= j
      PROVE  /\ <<back[i], m, m>> \in LateRule(low)
             /\ <<back[i], back[j], m>> \in LateRule(low)
  <2>1. back[i] \in Packet /\ back[j] \in Packet
    OBVIOUS
  <2>2. <<back[i], back[j], back[j]>> \in LateRule(low)
    BY <1>2 DEF InTurn
  <2> QED
    BY <2>1, <2>2 DEF LateRule, Three
<1>3. \A i, j \in 1 .. Len(back) : i <= j =>
          /\ <<back[i], m, m>> \in LateRule(low)
          /\ <<back[i], back[j], m>> \in LateRule(low)
  BY <1>2
<1> QED
  BY <1>1, <1>3, InTurnEnQ

LEMMA SentAdds ==
    ASSUME NEW back \in Seq(Packet), NEW pos \in Nat, NEW c, NEW high \in Nat,
           InTurn(back, SentRule(pos, c, high)), NEW m \in Packet,
           m.type = "DATA" => m.seq = high + 1 /\ m.data = <<c, m.seq>>
    PROVE  InTurn(enQ(back, m), SentRule(pos, c, high))
<1> DEFINE T == SentRule(pos, c, high)
<1>1. \A x \in Packet : x.type = "DATA" => x.seq \in Nat
  BY PacketFields
<1>2. <<m, m, m>> \in T
  BY <1>1 DEF SentRule, Three
<1>3. ASSUME NEW i \in 1 .. Len(back), NEW j \in 1 .. Len(back), i <= j
      PROVE  <<back[i], m, m>> \in T /\ <<back[i], back[j], m>> \in T
  <2>1. back[i] \in Packet /\ back[j] \in Packet
    OBVIOUS
  <2>2. <<back[i], back[j], back[j]>> \in T
    BY <1>3 DEF InTurn
  <2> QED
    BY <1>1, <2>1, <2>2 DEF SentRule, Three
<1>4. InTurn(back, T)
  OBVIOUS
<1> HIDE DEF T
<1>5. \A i, j \in 1 .. Len(back) : i <= j =>
          <<back[i], m, m>> \in T /\ <<back[i], back[j], m>> \in T
  BY <1>3
<1>6. InTurn(enQ(back, m), T)
  BY <1>2, <1>4, <1>5, InTurnEnQ
<1> QED
  BY <1>6 DEF T

LEMMA BackAdds ==
    ASSUME NEW sure \in BOOLEAN,
           NEW p, NEW q, NEW chan, NEW back \in Seq(Packet),
           NEW u \in UploadInfo \cup {NoUpload}, NEW table \in [Slots -> Session],
           Pair(sure, p, q, chan, back, u, table), NEW m \in Packet,
           m.type = "DATA" =>
               /\ u.to = p /\ m.seq = u.max_ack + 1
               /\ m.data = <<u.chunk, m.seq>>
    PROVE  Pair(sure, p, q, chan, enQ(back, m), u, table)
<1>1. u.max_ack \in Nat /\ \A k \in Open(table, q) : table[k].pos \in Nat
  <2>1. u.max_ack \in Nat
    BY NAssumption DEF UploadInfo, NoUpload
  <2>2. \A k \in Open(table, q) : k \in Slots
    BY TablesAssumption DEF Open, Slots
  <2> QED
    BY <2>1, <2>2 DEF Session
<1>2. Quiet(sure, p, q, chan, back, u, table)
      => Quiet(sure, p, q, chan, enQ(back, m), u, table)
  <2> SUFFICES ASSUME Quiet(sure, p, q, chan, back, u, table)
               PROVE  Quiet(sure, p, q, chan, enQ(back, m), u, table)
    OBVIOUS
  <2>1. m.type = "DATA" => m.seq >= Low(sure) + 1
    <3>1. m.type = "DATA" => m.seq = u.max_ack + 1 /\ u.max_ack >= Low(sure)
      BY DEF Quiet
    <3> QED
      BY <1>1, <3>1, LowIs
  <2> QED
    BY <2>1, LateAdds DEF Quiet
<1>3. ASSUME NEW k \in Open(table, q), Serving(p, k, chan, back, u, table)
      PROVE  Serving(p, k, chan, enQ(back, m), u, table)
  BY <1>1, <1>3, SentAdds DEF Serving
<1> QED
  BY <1>2, <1>3 DEF Pair

-----------------------------------------------------------------------------
(* The steps of a transfer.                                                *)
LEMMA InTurnWider ==
    ASSUME NEW queue, NEW T, NEW T2, T \subseteq T2, InTurn(queue, T)
    PROVE  InTurn(queue, T2)
  BY DEF InTurn

(* The provider takes the GET.                                             *)
LEMMA GetTaken ==
    ASSUME NEW sure \in BOOLEAN,
           NEW p \in Peers, NEW q, NEW chan \in Seq(Packet),
           NEW back \in Seq(Packet), NEW u, NEW table, N >= 2,
           Pair(sure, p, q, chan, back, u, table), chan # <<>>,
           Head(chan).type = "GET", NEW c \in Chunks, c = Head(chan).hash
    PROVE  Pair(sure, p, q, Tail(chan), enQ(back, Data(1, master(c, 1))),
                [chunk |-> c, to |-> p, max_ack |-> 0], table)
<1> DEFINE H == Head(chan)
           tail == Tail(chan)
           m == Data(1, master(c, 1))
           u2 == [chunk |-> c, to |-> p, max_ack |-> 0]
<1>1. H \in Packet /\ tail \in Seq(Packet)
  BY HeadTailProperties
<1>2. Asking(p, q, tail, table)
  BY InTurnTail, OnlyGetTail DEF Pair, Asking
<1>3. \A i \in 1 .. Len(tail) : tail[i].type # "GET"
  BY OnlyGetTail DEF Pair, Asking
<1>4. Quiet(sure, p, q, chan, back, u, table)
  <2>1. ASSUME NEW k \in Open(table, q), Serving(p, k, chan, back, u, table)
        PROVE  FALSE
    <3>1. <<H, H, H>> \in AckedRule(u.max_ack, Top(table[k].pos))
      BY <2>1, InTurnTail DEF Serving
    <3> QED
      BY <3>1 DEF AckedRule
  <2> QED
    BY <2>1 DEF Pair
<1>5. PICK k \in Open(table, q) : table[k].pos = 0 /\ Wanted(p, table[k].rid) = c
  <2>1. <<H, H, H>> \in AskRule(p, q, table)
    BY InTurnTail DEF Pair, Asking
  <2> QED
    BY <2>1 DEF AskRule
<1>6. \A i \in 1 .. Len(tail) : tail[i].type = "ACK" => tail[i].ack = 1
  <2> SUFFICES ASSUME NEW i \in 1 .. Len(tail), tail[i].type = "ACK"
               PROVE  tail[i].ack = 1
    OBVIOUS
  <2>1. i <= i /\ InTurn(chan, AskRule(p, q, table))
    BY <1>1 DEF Pair, Asking
  <2>2. <<H, tail[i], tail[i]>> \in AskRule(p, q, table)
    BY <2>1, InTurnTail
  <2> QED
    BY <2>2 DEF AskRule
<1>7. InTurn(tail, AckedRule(0, 1))
  <2>1. \A i \in 1 .. Len(tail) : tail[i] \in Packet
    BY <1>1
  <2>2. \A i, j, l \in 1 .. Len(tail) :
            <<tail[i], tail[j], tail[l]>> \in AckedRule(0, 1)
    <3> HIDE DEF tail
    <3> QED
      BY <1>3, <1>6, <2>1 DEF AckedRule, Three
  <2> QED
    BY <2>2 DEF InTurn
<1>8. InTurn(enQ(back, m), SentRule(0, c, 0))
  <2>1. LateRule(Low(sure)) \subseteq SentRule(0, c, 0)
    <3>1. Low(sure) \in Nat /\ Low(sure) >= 1
      BY LowIs
    <3> QED
      BY <3>1 DEF LateRule, SentRule, Three
  <2>2. InTurn(back, SentRule(0, c, 0))
    BY <1>4, <2>1, InTurnWider DEF Quiet
  <2>3. m \in Packet /\ m.seq = 0 + 1 /\ m.data = <<c, m.seq>>
    <3>1. 1 \in 1 .. N /\ 1 \in Nat
      BY NAssumption
    <3> QED
      BY <3>1, MasterType, PacketTypes DEF Data, master
  <2> HIDE DEF m
  <2> QED
    BY <2>2, <2>3, SentAdds
<1> HIDE DEF m, tail
<1>9. Serving(p, k, tail, enQ(back, m), u2, table)
  <2>1. u2.to = p /\ u2.chunk = c /\ u2.max_ack = 0 /\ Top(table[k].pos) = 1
    BY <1>5 DEF Top
  <2> HIDE DEF u2
  <2> QED
    BY <1>5, <1>7, <1>8, <2>1 DEF Serving
<1> QED
  BY <1>2, <1>9 DEF Pair, m, tail

(* An ACK that no GET is in front of.                                      *)
LEMMA AwaitedHead ==
    ASSUME NEW sure \in BOOLEAN,
           NEW q, NEW table, NEW chan \in Seq(Packet), chan # <<>>,
           Awaits(sure, q, chan, table), Head(chan).type = "ACK",
           NEW a \in Nat, a = Head(chan).ack
    PROVE  a >= Low(sure)
<1>1. Len(chan) \in Nat /\ Len(chan) # 0 /\ Head(chan) = chan[1]
  BY EmptySeq
<1>2. 1 \in 1 .. Len(chan) /\ \A j : j \notin 1 .. 1 - 1
  BY <1>1
<1>3. ~(a < Low(sure))
  BY <1>1, <1>2 DEF Awaits
<1> QED
  BY <1>3, LowIs

(* The provider takes an ACK that is not the last.                         *)
LEMMA AckTaken ==
    ASSUME NEW sure \in BOOLEAN,
           NEW p, NEW q, NEW chan \in Seq(Packet), NEW back \in Seq(Packet),
           NEW u \in UploadInfo, u.to = p, NEW table \in [Slots -> Session],
           Pair(sure, p, q, chan, back, u, table), chan # <<>>,
           Head(chan).type = "ACK", NEW a \in Nat, a = Head(chan).ack, a + 1 <= N
    PROVE  Pair(sure, p, q, Tail(chan), enQ(back, Data(a + 1, master(u.chunk, a + 1))),
                [u EXCEPT !.max_ack = a], table)
<1> DEFINE H == Head(chan)
           tail == Tail(chan)
           m == Data(a + 1, master(u.chunk, a + 1))
           u2 == [u EXCEPT !.max_ack = a]
<1>1. H \in Packet /\ tail \in Seq(Packet)
  BY HeadTailProperties
<1>2. Asking(p, q, tail, table)
  BY InTurnTail, OnlyGetTail DEF Pair, Asking
<1>3. a >= 1
  <2>1. <<H, H, H>> \in AskRule(p, q, table)
    BY InTurnTail DEF Pair, Asking
  <2> QED
    BY <2>1 DEF AskRule
<1>4. u2.to = p /\ u2.chunk = u.chunk /\ u2.max_ack = a
      /\ u.chunk \in Chunks /\ u.max_ack \in Nat
  BY NAssumption DEF UploadInfo
<1>5. m \in Packet /\ m.seq = a + 1 /\ m.data = <<u.chunk, m.seq>>
  <2>1. a + 1 \in Nat /\ a + 1 \in 1 .. N
    BY <1>3, NAssumption
  <2> QED
    BY <1>4, <2>1, MasterType, PacketTypes DEF Data, master
<1> HIDE DEF m, u2
<1>6. Quiet(sure, p, q, chan, back, u, table)
      => Quiet(sure, p, q, tail, enQ(back, m), u2, table)
  <2> SUFFICES ASSUME Quiet(sure, p, q, chan, back, u, table)
               PROVE  Quiet(sure, p, q, tail, enQ(back, m), u2, table)
    OBVIOUS
  <2>1. a >= Low(sure)
    BY LowIs, AwaitedHead DEF Quiet
  <2>2. m.seq >= Low(sure) + 1
    BY <1>5, <2>1, LowIs
  <2>3. Awaits(sure, q, tail, table)
    BY AwaitsTail DEF Quiet
  <2> HIDE DEF tail
  <2> QED
    BY <1>4, <1>5, <2>1, <2>2, <2>3, LateAdds DEF Quiet
<1>7. ASSUME NEW k \in Open(table, q), Serving(p, k, chan, back, u, table)
      PROVE  Serving(p, k, tail, enQ(back, m), u2, table)
  <2> DEFINE pos == table[k].pos
             A == AckedRule(u.max_ack, Top(pos))
  <2>1. pos \in Nat
    BY TablesAssumption DEF Open, Slots, Session
  <2>2. InTurn(chan, A) /\ InTurn(back, SentRule(pos, u.chunk, u.max_ack))
    BY <1>7 DEF Serving
  <2> HIDE DEF pos, tail
  <2>3. u.max_ack <= a /\ a <= Top(pos)
    <3>1. <<H, H, H>> \in A
      BY <2>2, InTurnTail
    <3> QED
      BY <3>1 DEF AckedRule
  <2>4. InTurn(tail, AckedRule(a, Top(pos)))
    <3>1. \A i \in 1 .. Len(tail) : tail[i] \in Packet
      BY <1>1
    <3>2. ASSUME NEW i \in 1 .. Len(tail), NEW j \in 1 .. Len(tail),
                 NEW l \in 1 .. Len(tail), i <= j, j <= l
          PROVE  <<tail[i], tail[j], tail[l]>> \in AckedRule(a, Top(pos))
      <4>1. <<tail[i], tail[j], tail[l]>> \in A
        BY <2>2, <3>2, InTurnTail DEF InTurn, tail
      <4>2. <<H, tail[i], tail[j]>> \in A
        BY <2>2, <3>2, InTurnTail DEF tail
      <4> QED
        BY <3>1, <4>1, <4>2 DEF AckedRule, Three
    <3> QED
      BY <3>2 DEF InTurn
  <2>5. InTurn(enQ(back, m), SentRule(pos, u.chunk, a))
    <3>1. SentRule(pos, u.chunk, u.max_ack) \subseteq SentRule(pos, u.chunk, a)
      <4>1. \A x \in Packet : x.type = "DATA" => x.seq \in Nat
        BY PacketFields
      <4> QED
        BY <1>4, <2>3, <4>1 DEF SentRule, Three
    <3>2. InTurn(back, SentRule(pos, u.chunk, a))
      BY <2>2, <3>1, InTurnWider
    <3> QED
      BY <1>5, <2>1, <3>2, SentAdds
  <2> QED
    BY <1>4, <1>7, <2>3, <2>4, <2>5 DEF Serving, pos
<1> QED
  BY <1>2, <1>6, <1>7 DEF Pair, m, u2

(* The client answers.                                                     *)
LEMMA AskAdds ==
    ASSUME NEW p, NEW q, NEW table, NEW chan \in Seq(Packet),
           Asking(p, q, chan, table), NEW ack \in Nat, ack >= 1,
           ack = 1 \/ Open(table, q) = {}
                   \/ \A i \in 1 .. Len(chan) : chan[i].type # "GET"
    PROVE  Asking(p, q, enQ(chan, Ack(ack)), table)
<1> DEFINE T == AskRule(p, q, table)
           m == Ack(ack)
<1>1. m \in Packet /\ m.type = "ACK" /\ m.ack = ack
  BY PacketTypes DEF Ack
<1> HIDE DEF m
<1>2. InTurn(chan, T) /\ OnlyGet(chan)
  BY DEF Asking
<1>3. <<m, m, m>> \in T
  BY <1>1 DEF AskRule, Three
<1>4. ASSUME NEW i \in 1 .. Len(chan), NEW j \in 1 .. Len(chan), i <= j
      PROVE  <<chan[i], m, m>> \in T /\ <<chan[i], chan[j], m>> \in T
  <2>1. chan[i] \in Packet /\ chan[j] \in Packet
    OBVIOUS
  <2>2. <<chan[i], chan[j], chan[j]>> \in T
    BY <1>2, <1>4 DEF InTurn
  <2>3. chan[i].type = "GET" => ack = 1
    BY <2>2 DEF AskRule
  <2> QED
    BY <1>1, <2>1, <2>2, <2>3 DEF AskRule, Three
<1> HIDE DEF T
<1>5. \A i, j \in 1 .. Len(chan) : i <= j =>
          <<chan[i], m, m>> \in T /\ <<chan[i], chan[j], m>> \in T
  BY <1>4
<1>6. InTurn(enQ(chan, m), T)
  BY <1>1, <1>2, <1>3, <1>5, InTurnEnQ
<1>7. OnlyGet(enQ(chan, m))
  BY <1>1, <1>2, OnlyGetEnQ
<1> QED
  BY <1>6, <1>7 DEF Asking, T, m

LEMMA AckedAdds ==
    ASSUME NEW chan \in Seq(Packet), NEW low \in Nat, NEW high \in Nat,
           InTurn(chan, AckedRule(low, high)),
           NEW ack \in Nat, low <= ack, high <= ack
    PROVE  InTurn(enQ(chan, Ack(ack)), AckedRule(low, ack))
<1> DEFINE T == AckedRule(low, ack)
           m == Ack(ack)
<1>1. m \in Packet /\ m.type = "ACK" /\ m.ack = ack
  BY PacketTypes DEF Ack
<1> HIDE DEF m
<1>2. \A x \in Packet : x.type = "ACK" => x.ack \in Nat
  BY PacketFields
<1>3. InTurn(chan, T)
  <2>1. AckedRule(low, high) \subseteq T
    BY <1>2 DEF AckedRule, Three
  <2> QED
    BY <2>1, InTurnWider
<1>4. <<m, m, m>> \in T
  BY <1>1 DEF AckedRule, Three
<1>5. ASSUME NEW i \in 1 .. Len(chan), NEW j \in 1 .. Len(chan), i <= j
      PROVE  <<chan[i], m, m>> \in T /\ <<chan[i], chan[j], m>> \in T
  <2>1. chan[i] \in Packet /\ chan[j] \in Packet
    OBVIOUS
  <2>2. <<chan[i], chan[j], chan[j]>> \in T
    BY <1>3, <1>5 DEF InTurn
  <2> QED
    BY <1>1, <1>2, <2>1, <2>2 DEF AckedRule, Three
<1> HIDE DEF T
<1>6. \A i, j \in 1 .. Len(chan) : i <= j =>
          <<chan[i], m, m>> \in T /\ <<chan[i], chan[j], m>> \in T
  BY <1>5
<1>7. InTurn(enQ(chan, m), T)
  BY <1>1, <1>3, <1>4, <1>6, InTurnEnQ
<1> QED
  BY <1>7 DEF T, m

(* What a session that is served has got under way.                        *)
LEMMA ServedState ==
    ASSUME NEW p, NEW q, NEW chan \in Seq(Packet), NEW back,
           NEW u \in UploadInfo \cup {NoUpload}, NEW table \in [Slots -> Session],
           NEW k \in Open(table, q), Serving(p, k, chan, back, u, table)
    PROVE  /\ u.max_ack \in Nat /\ table[k].pos \in Nat
           /\ Top(table[k].pos) \in Nat /\ u.max_ack <= Top(table[k].pos)
           /\ \A i \in 1 .. Len(chan) : chan[i].type # "GET"
<1>1. table[k].pos \in Nat /\ u.max_ack \in Nat
  BY TablesAssumption, NAssumption
  DEF Open, Slots, Session, UploadInfo, NoUpload
<1>2. ASSUME NEW i \in 1 .. Len(chan) PROVE chan[i].type # "GET"
  <2>1. i <= i
    OBVIOUS
  <2>2. <<chan[i], chan[i], chan[i]>> \in
            AckedRule(u.max_ack, Top(table[k].pos))
    BY <2>1 DEF Serving, InTurn
  <2> QED
    BY <2>2 DEF AckedRule
<1> QED
  BY <1>1, <1>2 DEF Serving, Top

(* A DATA that no session expects: one session is with the provider.       *)
LEMMA DataIgnored ==
    ASSUME NEW sure \in BOOLEAN,
           NEW p, NEW q, NEW chan \in Seq(Packet), NEW back \in Seq(Packet),
           NEW u \in UploadInfo \cup {NoUpload}, NEW table \in [Slots -> Session],
           Pair(sure, p, q, chan, back, u, table), back # <<>>,
           NEW k, Open(table, q) = {k}, table[k].seq = table[k].pos + 1
    PROVE  Pair(sure, p, q, enQ(chan, Ack(expected_ack(table[k]))), Tail(back), u, table)
<1> DEFINE ack == Top(table[k].pos)
<1>1. table[k].pos \in Nat
  BY TablesAssumption DEF Open, Slots, Session
<1>2. expected_ack(table[k]) = ack /\ ack \in Nat /\ ack >= 1
  BY <1>1 DEF expected_ack, Top
<1>3. Pair(sure, p, q, chan, Tail(back), u, table)
  BY BackTakes
<1> HIDE DEF ack
<1>4. CASE Quiet(sure, p, q, chan, Tail(back), u, table)
  <2>1. ack = 1
    BY <1>4 DEF Quiet, ack, Top
  <2>2. Asking(p, q, enQ(chan, Ack(ack)), table)
    BY <1>2, <1>3, <2>1, AskAdds DEF Pair
  <2>3. Awaits(sure, q, enQ(chan, Ack(ack)), table)
    <3>1. Awaits(sure, q, chan, table)
      BY <1>4 DEF Quiet
    <3>2. CASE sure
      <4>1. Holds(chan, "GET")
        BY <3>1, <3>2 DEF Awaits
      <4> QED
        BY <1>2, <3>1, <4>1, AwaitsEnQ, PacketTypes DEF Ack
    <3>3. CASE ~sure
      <4>1. ~(ack < Low(sure))
        BY <2>1, <3>3 DEF Low
      <4>2. Ack(ack) \in Packet /\ Ack(ack).ack = ack
        BY <1>2, PacketTypes DEF Ack
      <4> QED
        BY <3>1, <4>1, <4>2, AwaitsEnQ
    <3> QED
      BY <3>2, <3>3
  <2>4. Quiet(sure, p, q, enQ(chan, Ack(ack)), Tail(back), u, table)
    BY <1>4, <2>3 DEF Quiet
  <2> QED
    BY <1>2, <2>2, <2>4 DEF Pair
<1>5. CASE Serving(p, k, chan, Tail(back), u, table)
  <2>1. /\ u.max_ack \in Nat /\ u.max_ack <= ack
        /\ \A i \in 1 .. Len(chan) : chan[i].type # "GET"
    BY <1>5, ServedState DEF ack
  <2>2. Asking(p, q, enQ(chan, Ack(ack)), table)
    BY <1>2, <1>3, <2>1, AskAdds DEF Pair
  <2>3. InTurn(enQ(chan, Ack(ack)), AckedRule(u.max_ack, ack))
    <3>1. InTurn(chan, AckedRule(u.max_ack, ack))
      BY <1>5 DEF Serving, ack
    <3> QED
      BY <1>2, <2>1, <3>1, AckedAdds
  <2> QED
    BY <1>2, <1>5, <2>2, <2>3 DEF Pair, Serving, ack
<1> QED
  BY <1>3, <1>4, <1>5 DEF Pair

(* A DATA for which there is no session: answered twice.                   *)
LEMMA StrangerAnswers ==
    ASSUME NEW sure \in BOOLEAN,
           NEW p, NEW q, NEW chan \in Seq(Packet), NEW back, NEW u, NEW table,
           Pair(sure, p, q, chan, back, u, table), Open(table, q) = {},
           NEW ack \in Nat, ack >= 1, ack >= Low(sure)
    PROVE  Pair(sure, p, q, enQ(chan, Ack(ack)), back, u, table)
<1>1. Asking(p, q, enQ(chan, Ack(ack)), table)
  <2>1. ASSUME NEW i \in 1 .. Len(chan), chan[i].type = "GET" PROVE FALSE
    <3>1. i <= i
      OBVIOUS
    <3>2. <<chan[i], chan[i], chan[i]>> \in AskRule(p, q, table)
      BY <3>1 DEF Pair, Asking, InTurn
    <3> QED
      BY <2>1, <3>2 DEF AskRule
  <2> QED
    BY <2>1, AskAdds DEF Pair
<1>2. Quiet(sure, p, q, chan, back, u, table)
  BY DEF Pair
<1>3. Ack(ack) \in Packet /\ Ack(ack).ack = ack /\ ~(ack < Low(sure))
  BY PacketTypes, LowIs DEF Ack
<1>4. Quiet(sure, p, q, enQ(chan, Ack(ack)), back, u, table)
  BY <1>2, <1>3, AwaitsEnQ DEF Quiet
<1> QED
  BY <1>1, <1>4 DEF Pair

(* It is a late one.                                                       *)
LEMMA StrangerIsLate ==
    ASSUME NEW sure \in BOOLEAN,
           NEW p, NEW q, NEW chan, NEW back \in Seq(Packet), NEW u, NEW table,
           Pair(sure, p, q, chan, back, u, table), Open(table, q) = {},
           back # <<>>, Head(back).type = "DATA"
    PROVE  Head(back).seq >= Low(sure) + 1
<1>1. <<Head(back), Head(back), Head(back)>> \in LateRule(Low(sure))
  BY InTurnTail DEF Pair, Quiet
<1> QED
  BY <1>1 DEF LateRule

(* Session k has taken one more block, or its last.                        *)
GoneOn(table, table2, k, q) ==
    /\ \A i \in 0 .. MaxConn - 1 : i # k => table2[i] = table[i]
    /\ IF table[k].pos + 1 >= N THEN ~table2[k].active
       ELSE /\ table2[k].active /\ table2[k].from = q
            /\ table2[k].rid = table[k].rid
            /\ table2[k].pos = table[k].pos + 1

(* A DATA that a session expects is a block of the chunk the session is    *)
(* for, and the transfer goes on or is over.                               *)
LEMMA DataAccepted ==
    ASSUME NEW sure \in BOOLEAN,
           N >= 2, NEW p, NEW q, NEW chan \in Seq(Packet),
           NEW back \in Seq(Packet),
           NEW u \in UploadInfo \cup {NoUpload}, NEW table \in [Slots -> Session],
           Pair(sure, p, q, chan, back, u, table), back # <<>>,
           Head(back).type = "DATA",
           NEW k, Open(table, q) = {k}, table[k].seq = table[k].pos + 1,
           table[k].pos < N, Head(back).seq = table[k].seq,
           NEW table2 \in [Slots -> Session], GoneOn(table, table2, k, q)
    PROVE  /\ Head(back).data = <<Wanted(p, table[k].rid), Head(back).seq>>
           /\ Pair(sure, p, q, enQ(chan, Ack(Head(back).seq)), Tail(back), u, table2)
<1> DEFINE H == Head(back)
           tail == Tail(back)
           pos == table[k].pos
           T == SentRule(pos, u.chunk, u.max_ack)
<1>1. pos \in Nat /\ H.seq = pos + 1 /\ H \in Packet /\ tail \in Seq(Packet)
  <2>1. k \in Slots
    BY TablesAssumption DEF Open, Slots
  <2>2. table[k] \in Session
    BY <2>1
  <2>3. pos \in Nat
    BY <2>2 DEF Session
  <2>4. H \in Packet /\ tail \in Seq(Packet)
    BY HeadTailProperties
  <2> QED
    BY <2>3, <2>4
<1>2. Serving(p, k, chan, back, u, table)
  <2>1. ~Quiet(sure, p, q, chan, back, u, table)
    <3> SUFFICES ASSUME Quiet(sure, p, q, chan, back, u, table) PROVE FALSE
      OBVIOUS
    <3>1. <<H, H, H>> \in LateRule(Low(sure))
      BY InTurnTail DEF Quiet
    <3>2. pos = 0
      BY DEF Quiet
    <3>3. H.seq >= Low(sure) + 1
      BY <3>1 DEF LateRule
    <3> QED
      BY <1>1, <3>2, <3>3, LowIs
  <2> QED
    BY <2>1 DEF Pair
<1>3. /\ u.max_ack \in Nat /\ u.max_ack <= Top(pos)
      /\ \A i \in 1 .. Len(chan) : chan[i].type # "GET"
  BY <1>2, ServedState
<1>4. u.to = p /\ u.chunk = Wanted(p, table[k].rid) /\ InTurn(back, T)
      /\ InTurn(chan, AckedRule(u.max_ack, Top(pos)))
  BY <1>2 DEF Serving
<1>5. pos >= 1 \/ (H.type = "DATA" /\ H.seq = 1)
  BY <1>1
<1>6. H.seq <= u.max_ack + 1 /\ H.data = <<u.chunk, H.seq>>
  <2>1. <<H, H, H>> \in T
    BY <1>4, InTurnTail
  <2> QED
    BY <1>5, <2>1 DEF SentRule
<1>7. H.data = <<Wanted(p, table[k].rid), H.seq>>
  BY <1>4, <1>6
<1>8. \A i, j \in 1 .. Len(tail) : i <= j => <<H, tail[i], tail[j]>> \in T
  BY <1>4, InTurnTail
<1>9. \A i \in 1 .. Len(tail) : <<H, H, tail[i]>> \in T
  BY <1>4, InTurnTail
<1>10. \A i \in 1 .. Len(tail) : tail[i] \in Packet
  BY <1>1
<1> HIDE DEF pos, tail
<1>11. Top(pos) \in Nat /\ Top(pos) <= pos + 1 /\ pos + 1 \in Nat /\ pos + 1 >= 1
  BY <1>1 DEF Top
<1>12. Asking(p, q, enQ(chan, Ack(pos + 1)), table2)
  <2>1. OnlyGet(chan)
    BY DEF Pair, Asking
  <2>2. InTurn(chan, AskRule(p, q, table2))
    <3>1. ASSUME NEW i \in 1 .. Len(chan), NEW j \in 1 .. Len(chan),
                 NEW l \in 1 .. Len(chan), i <= j, j <= l
          PROVE  <<chan[i], chan[j], chan[l]>> \in AskRule(p, q, table2)
      <4>1. <<chan[i], chan[j], chan[l]>> \in AskRule(p, q, table)
        BY <3>1 DEF Pair, Asking, InTurn
      <4> QED
        BY <1>3, <4>1 DEF AskRule
    <3> QED
      BY <3>1 DEF InTurn
  <2> QED
    BY <1>3, <1>11, <2>1, <2>2, AskAdds DEF Asking
<1>13. CASE pos + 1 < N
  <2>1. /\ table2[k].active /\ table2[k].from = q /\ k \in 0 .. MaxConn - 1
        /\ table2[k].rid = table[k].rid /\ table2[k].pos = pos + 1
    BY <1>1, <1>13, NAssumption DEF Open, GoneOn, pos
  <2>2. Top(pos + 1) = pos + 1
    BY <1>1 DEF Top
  <2>3. InTurn(enQ(chan, Ack(pos + 1)), AckedRule(u.max_ack, pos + 1))
    <3>1. u.max_ack <= pos + 1
      BY <1>3, <1>11
    <3> QED
      BY <1>3, <1>4, <1>11, <3>1, AckedAdds
  <2>4. InTurn(tail, SentRule(pos + 1, u.chunk, u.max_ack))
    <3>1. ASSUME NEW i \in 1 .. Len(tail), NEW j \in 1 .. Len(tail),
                 NEW l \in 1 .. Len(tail), i <= j, j <= l
          PROVE  <<tail[i], tail[j], tail[l]>> \in
                     SentRule(pos + 1, u.chunk, u.max_ack)
      <4>1. <<H, tail[j], tail[l]>> \in T
        BY <1>8, <3>1
      <4> QED
        BY <1>5, <1>10, <4>1 DEF SentRule, Three
    <3> QED
      BY <3>1 DEF InTurn
  <2>5. Serving(p, k, enQ(chan, Ack(pos + 1)), tail, u, table2)
    BY <1>3, <1>4, <1>11, <2>1, <2>2, <2>3, <2>4 DEF Serving
  <2>6. k \in Open(table2, q)
    BY <2>1 DEF Open
  <2> QED
    BY <1>1, <1>7, <1>12, <2>5, <2>6 DEF Pair, tail, pos
<1>14. CASE pos + 1 >= N
  <2>1. Open(table2, q) = {}
    BY <1>1, <1>14 DEF Open, GoneOn, pos
  <2>2. H.seq >= Low(sure) + 1 /\ u.max_ack >= Low(sure) /\ pos + 1 >= Low(sure)
        /\ Low(sure) \in Nat
    BY <1>1, <1>3, <1>6, <1>14, LowIs, NAssumption
  <2>3. InTurn(tail, LateRule(Low(sure)))
    <3>1. ASSUME NEW i \in 1 .. Len(tail), NEW j \in 1 .. Len(tail),
                 NEW l \in 1 .. Len(tail)
          PROVE  <<tail[i], tail[j], tail[l]>> \in LateRule(Low(sure))
      <4>1. <<H, H, tail[i]>> \in T
        BY <1>9
      <4>2. tail[i].type = "DATA" => H.seq <= tail[i].seq
        BY <1>5, <4>1 DEF SentRule
      <4>3. tail[i].type = "DATA" => tail[i].seq \in Nat
        BY <1>10, PacketFields
      <4> QED
        BY <1>1, <1>10, <2>2, <4>2, <4>3 DEF LateRule, Three
    <3> QED
      BY <3>1 DEF InTurn
  <2>4. Awaits(sure, q, enQ(chan, Ack(pos + 1)), table2)
    <3>1. \A i \in 1 .. Len(chan) :
              chan[i].type = "ACK" => ~(chan[i].ack < Low(sure))
      <4> SUFFICES ASSUME NEW i \in 1 .. Len(chan), chan[i].type = "ACK"
                   PROVE  ~(chan[i].ack < Low(sure))
        OBVIOUS
      <4>1. i <= i
        OBVIOUS
      <4>2. <<chan[i], chan[i], chan[i]>> \in AckedRule(u.max_ack, Top(pos))
        BY <1>4, <4>1 DEF InTurn
      <4>3. u.max_ack <= chan[i].ack
        BY <4>2 DEF AckedRule
      <4>4. chan[i].ack \in Nat
        BY PacketFields
      <4> QED
        BY <1>3, <2>2, <4>3, <4>4
    <3>2. Awaits(sure, q, chan, table2)
      BY <2>1, <3>1 DEF Awaits
    <3>3. /\ Ack(pos + 1) \in Packet /\ Ack(pos + 1).ack = pos + 1
          /\ ~(pos + 1 < Low(sure))
      BY <1>11, <2>2, PacketTypes DEF Ack
    <3> QED
      BY <3>2, <3>3, AwaitsEnQ
  <2>5. Quiet(sure, p, q, enQ(chan, Ack(pos + 1)), tail, u, table2)
    BY <2>1, <2>2, <2>3, <2>4 DEF Quiet
  <2> QED
    BY <1>1, <1>7, <1>12, <2>5 DEF Pair, tail
<1> QED
  BY <1>1, <1>13, <1>14, NAssumption

(* The client opens a session with a provider it has none with.            *)
LEMMA Opens ==
    ASSUME NEW sure \in BOOLEAN,
           NEW p, NEW q, NEW chan \in Seq(Packet), NEW back, NEW u,
           NEW table \in [Slots -> Session], NEW table2,
           Pair(sure, p, q, chan, back, u, table), Open(table, q) = {},
           NEW f \in 0 .. MaxConn - 1, NEW rid,
           table2 = [table EXCEPT ![f] = new_session(rid, q)],
           NEW c \in Chunks, Wanted(p, rid) = c, sure => Len(chan) < QueueMax
    PROVE  Pair(sure, p, q, enQ(chan, Get(c)), back, u, table2)
<1> DEFINE T == AskRule(p, q, table2)
           m == Get(c)
<1>1. \A i \in 0 .. MaxConn - 1 : i \in Slots
  BY TablesAssumption DEF Slots
<1>2. /\ table2[f] = new_session(rid, q)
      /\ \A i \in 0 .. MaxConn - 1 : i # f => table2[i] = table[i]
  BY <1>1
<1>3. Open(table2, q) = {f} /\ table2[f].pos = 0 /\ table2[f].rid = rid
  <2>1. /\ new_session(rid, q).active /\ new_session(rid, q).from = q
        /\ new_session(rid, q).pos = 0 /\ new_session(rid, q).rid = rid
    BY DEF new_session
  <2> QED
    BY <1>2, <2>1 DEF Open
<1>4. m \in Packet /\ m.type = "GET" /\ m.hash = c
  BY PacketTypes DEF Get
<1> HIDE DEF m
<1>5. ASSUME NEW i \in 1 .. Len(chan), NEW j \in 1 .. Len(chan),
             NEW l \in 1 .. Len(chan), i <= j, j <= l
      PROVE  <<chan[i], chan[j], chan[l]>> \in T /\ chan[i].type # "GET"
  <2>1. <<chan[i], chan[j], chan[l]>> \in AskRule(p, q, table)
    BY <1>5 DEF Pair, Asking, InTurn
  <2> QED
    BY <2>1 DEF AskRule
<1>6. InTurn(chan, T)
  BY <1>5 DEF InTurn
<1>7. \A i \in 1 .. Len(chan) : chan[i].type # "GET"
  <2>1. \A i \in 1 .. Len(chan) : i <= i
    OBVIOUS
  <2> QED
    BY <1>5, <2>1
<1>8. <<m, m, m>> \in T
  BY <1>3, <1>4 DEF AskRule, Three
<1>9. ASSUME NEW i \in 1 .. Len(chan), NEW j \in 1 .. Len(chan), i <= j
      PROVE  <<chan[i], m, m>> \in T /\ <<chan[i], chan[j], m>> \in T
  <2>1. chan[i] \in Packet /\ chan[j] \in Packet /\ chan[i].type # "GET"
    BY <1>7
  <2>2. <<chan[i], chan[j], chan[j]>> \in T
    <3> HIDE DEF T
    <3>1. j <= j
      OBVIOUS
    <3> QED
      BY <1>6, <1>9, <3>1 DEF InTurn
  <2> QED
    BY <1>4, <2>1, <2>2 DEF AskRule, Three
<1> HIDE DEF T
<1>10. \A i, j \in 1 .. Len(chan) : i <= j =>
          <<chan[i], m, m>> \in T /\ <<chan[i], chan[j], m>> \in T
  BY <1>9
<1>11. InTurn(enQ(chan, m), T)
  BY <1>4, <1>6, <1>8, <1>10, InTurnEnQ
<1>12. OnlyGet(enQ(chan, m))
  BY <1>4, <1>7, OnlyGetEnQ DEF Pair, Asking
<1>13. Quiet(sure, p, q, enQ(chan, m), back, u, table2)
  <2>1. Quiet(sure, p, q, chan, back, u, table)
    BY DEF Pair
  <2>2. Awaits(sure, q, enQ(chan, m), table)
    BY <1>4, <2>1, AwaitsEnQ DEF Quiet
  <2>3. sure => Holds(enQ(chan, m), "GET")
    <3> SUFFICES ASSUME sure PROVE Holds(enQ(chan, m), "GET")
      OBVIOUS
    <3>1. enQ(chan, m) = Append(chan, m)
      BY DEF enQ
    <3>2. /\ Len(chan) + 1 \in 1 .. Len(Append(chan, m))
          /\ Append(chan, m)[Len(chan) + 1] = m
      BY AppendProperties
    <3> QED
      BY <1>4, <3>1, <3>2 DEF Holds
  <2>4. Awaits(sure, q, enQ(chan, m), table2)
    BY <2>2, <2>3 DEF Awaits
  <2> QED
    BY <1>3, <2>1, <2>4 DEF Quiet
<1> QED
  BY <1>11, <1>12, <1>13 DEF Pair, Asking, T, m

(* Sessions with others do not matter.                                     *)
LEMMA OthersOpen ==
    ASSUME NEW sure \in BOOLEAN,
           NEW p, NEW q, NEW chan, NEW back, NEW u, NEW table, NEW table2,
           Pair(sure, p, q, chan, back, u, table), Open(table2, q) = Open(table, q),
           \A k \in Open(table, q) : table2[k] = table[k]
    PROVE  Pair(sure, p, q, chan, back, u, table2)
<1>1. AskRule(p, q, table2) = AskRule(p, q, table)
  BY DEF AskRule
<1> QED
  BY <1>1 DEF Pair, Asking, Quiet, Awaits, Serving

-----------------------------------------------------------------------------
(* All transfers at once.                                                  *)
LEMMA OfferApart == \A a, b : Offer(a, b) # {} => a # b
  BY DEF Offer

(* Two peers are not offered something by the same peer.                   *)
LEMMA SoleCustomer ==
    ASSUME OneCustomer, TypeOK, NEW q \in Peers, NEW p \in Peers,
           NEW r \in Peers, Offer(p, q) # {}, Offer(r, q) # {}
    PROVE  p = r
<1>1. p # q /\ r # q
  BY OfferApart
<1>2. /\ Orders(p) \cap Hashes(HasFiles[q]) # {}
      /\ Orders(r) \cap Hashes(HasFiles[q]) # {}
  BY <1>1, OrdersWished DEF Offer
<1> QED
  BY <1>1, <1>2 DEF OneCustomer

(* Transfers depend on the GET commands given, and on the tables and the   *)
(* network of now.                                                         *)
LEMMA PairsStill ==
    ASSUME NEW sure \in BOOLEAN,
           UNCHANGED gets, PairsOf(sure, net', upload', download')
    PROVE  Transfers(sure)'
<1>1. \A p : request_file(p)' = request_file(p)
  BY DEF request_file
<1>2. \A p, q : Offer(p, q)' = Offer(p, q)
  BY <1>1 DEF Offer, Wishes
<1>3. \A p, rid : Wanted(p, rid)' = Wanted(p, rid)
  BY <1>1 DEF Wanted
<1>4. \A p, q, table : AskRule(p, q, table)' = AskRule(p, q, table)
  BY <1>3 DEF AskRule
<1>5. \A p, q, chan, table : Asking(p, q, chan, table)' = Asking(p, q, chan, table)
  BY <1>4 DEF Asking
<1>6. \A p, k, chan, back, u, table :
          Serving(p, k, chan, back, u, table)' = Serving(p, k, chan, back, u, table)
  BY <1>3 DEF Serving
<1>7. \A p, q, chan, back, u, table :
          Pair(sure, p, q, chan, back, u, table)' = Pair(sure, p, q, chan, back, u, table)
  BY <1>5, <1>6 DEF Pair
<1> QED
  BY <1>2, <1>7 DEF Transfers, PairsOf

(* A packet taken that asks for nothing, or that need not arrive.          *)
LEMMA PairsTaken ==
    ASSUME NEW sure \in BOOLEAN,
           NEW n \in Paths, NEW up, NEW down, PairsOf(sure, n, up, down),
           NEW x \in Peers, NEW y \in Peers, n[x][y] # <<>>,
           Head(n[x][y]).type # "GET" \/ Offer(x, y) = {} \/ ~sure
    PROVE  PairsOf(sure, Taken(n, x, y), up, down)
<1> DEFINE n2 == Taken(n, x, y)
<1> SUFFICES ASSUME NEW a \in Peers, NEW b \in Peers, Offer(a, b) # {}
             PROVE  Pair(sure, a, b, n2[a][b], n2[b][a], up[b], down[a])
  BY DEF PairsOf
<1>1. Pair(sure, a, b, n[a][b], n[b][a], up[b], down[a]) /\ a # b
  BY OfferApart DEF PairsOf
<1>2. n[a][b] \in Seq(Packet) /\ n[b][a] \in Seq(Packet)
  BY DEF Paths
<1>3. n2[a][b] = IF a = x /\ b = y THEN Tail(n[x][y]) ELSE n[a][b]
  BY TakenAt
<1>4. n2[b][a] = IF b = x /\ a = y THEN Tail(n[x][y]) ELSE n[b][a]
  BY TakenAt
<1> HIDE DEF n2
<1>5. CASE a = x /\ b = y
  BY <1>1, <1>2, <1>3, <1>4, <1>5, ChanTakes
<1>6. CASE b = x /\ a = y
  BY <1>1, <1>2, <1>3, <1>4, <1>6, BackTakes
<1>7. CASE ~(a = x /\ b = y) /\ ~(b = x /\ a = y)
  BY <1>1, <1>3, <1>4, <1>7
<1> QED
  BY <1>5, <1>6, <1>7

(* A packet sent that is neither GET nor ACK, and the block that is due if *)
(* it is a DATA.                                                           *)
LEMMA PairsSent ==
    ASSUME NEW sure \in BOOLEAN,
           NEW n \in Paths, NEW up, NEW down \in [Peers -> [Slots -> Session]],
           PairsOf(sure, n, up, down), NEW x \in Peers, NEW y \in Peers,
           up[x] \in UploadInfo \cup {NoUpload},
           NEW m \in Packet, m.type \notin {"GET", "ACK"},
           m.type = "DATA" => /\ up[x].to = y /\ m.seq = up[x].max_ack + 1
                              /\ m.data = <<up[x].chunk, m.seq>>
    PROVE  PairsOf(sure, Sent(n, x, y, m), up, down)
<1> DEFINE n2 == Sent(n, x, y, m)
<1> SUFFICES ASSUME NEW a \in Peers, NEW b \in Peers, Offer(a, b) # {}
             PROVE  Pair(sure, a, b, n2[a][b], n2[b][a], up[b], down[a])
  BY DEF PairsOf
<1>1. Pair(sure, a, b, n[a][b], n[b][a], up[b], down[a]) /\ a # b
  BY OfferApart DEF PairsOf
<1>2. n[a][b] \in Seq(Packet) /\ n[b][a] \in Seq(Packet)
  BY DEF Paths
<1>3. n2[a][b] = IF a = x /\ b = y THEN enQ(n[x][y], m) ELSE n[a][b]
  BY SentAt
<1>4. n2[b][a] = IF b = x /\ a = y THEN enQ(n[x][y], m) ELSE n[b][a]
  BY SentAt
<1> HIDE DEF n2
<1>5. CASE a = x /\ b = y
  <2>1. Pair(sure, x, y, enQ(n[x][y], m), n[y][x], up[y], down[x])
    BY <1>1, <1>2, <1>5, ChanAdds
  <2> QED
    BY <1>1, <1>3, <1>4, <1>5, <2>1
<1>6. CASE b = x /\ a = y
  <2>1. down[y] \in [Slots -> Session]
    OBVIOUS
  <2>2. Pair(sure, y, x, n[y][x], enQ(n[x][y], m), up[x], down[y])
    BY <1>1, <1>2, <1>6, <2>1, BackAdds
  <2> QED
    BY <1>1, <1>3, <1>4, <1>6, <2>2
<1>7. CASE ~(a = x /\ b = y) /\ ~(b = x /\ a = y)
  BY <1>1, <1>3, <1>4, <1>7
<1> QED
  BY <1>5, <1>6, <1>7

LEMMA PairsCopied ==
    ASSUME NEW sure \in BOOLEAN,
           NEW n \in Paths, NEW up, NEW down, PairsOf(sure, n, up, down),
           NEW x \in Peers, NEW y \in Peers, n[x][y] # <<>>,
           Head(n[x][y]).type # "GET", NEW copies \in Nat
    PROVE  PairsOf(sure, [n EXCEPT ![x][y] = Copied(n[x][y], copies)], up, down)
<1> DEFINE n2 == [n EXCEPT ![x][y] = Copied(n[x][y], copies)]
<1> SUFFICES ASSUME NEW a \in Peers, NEW b \in Peers, Offer(a, b) # {}
             PROVE  Pair(sure, a, b, n2[a][b], n2[b][a], up[b], down[a])
  BY DEF PairsOf
<1>1. Pair(sure, a, b, n[a][b], n[b][a], up[b], down[a]) /\ a # b
  BY OfferApart DEF PairsOf
<1>2. n[a][b] \in Seq(Packet) /\ n[b][a] \in Seq(Packet)
  BY DEF Paths
<1>3. n2[a][b] = IF a = x /\ b = y THEN Copied(n[x][y], copies) ELSE n[a][b]
  BY DEF Paths
<1>4. n2[b][a] = IF b = x /\ a = y THEN Copied(n[x][y], copies) ELSE n[b][a]
  BY DEF Paths
<1> HIDE DEF n2
<1>5. CASE a = x /\ b = y
  BY <1>1, <1>2, <1>3, <1>4, <1>5, ChanCopies
<1>6. CASE b = x /\ a = y
  BY <1>1, <1>2, <1>3, <1>4, <1>6, BackCopies
<1>7. CASE ~(a = x /\ b = y) /\ ~(b = x /\ a = y)
  BY <1>1, <1>3, <1>4, <1>7
<1> QED
  BY <1>5, <1>6, <1>7

(* The client p sends an ACK or a GET to q, and its table changes in what  *)
(* concerns q.                                                             *)
LEMMA PairsAnswered ==
    ASSUME NEW sure \in BOOLEAN,
           NEW n \in Paths, NEW up \in [Peers -> UploadInfo \cup {NoUpload}],
           NEW down \in [Peers -> [Slots -> Session]], PairsOf(sure, n, up, down),
           NEW p \in Peers, NEW q \in Peers, p # q,
           NEW m \in Packet, m.type # "DATA", NEW table,
           \A r \in Peers : r # q =>
               /\ Open(table, r) = Open(down[p], r)
               /\ \A k \in Open(down[p], r) : table[k] = down[p][k],
           Pair(sure, p, q, enQ(n[p][q], m), n[q][p], up[q], table)
    PROVE  PairsOf(sure, Sent(n, p, q, m), up, [down EXCEPT ![p] = table])
<1> DEFINE n2 == Sent(n, p, q, m)
           down2 == [down EXCEPT ![p] = table]
<1> SUFFICES ASSUME NEW a \in Peers, NEW b \in Peers, Offer(a, b) # {}
             PROVE  Pair(sure, a, b, n2[a][b], n2[b][a], up[b], down2[a])
  BY DEF PairsOf
<1>1. Pair(sure, a, b, n[a][b], n[b][a], up[b], down[a]) /\ a # b
  BY OfferApart DEF PairsOf
<1>2. n[a][b] \in Seq(Packet) /\ n[b][a] \in Seq(Packet)
  BY DEF Paths
<1>3. n2[a][b] = IF a = p /\ b = q THEN enQ(n[p][q], m) ELSE n[a][b]
  BY SentAt
<1>4. n2[b][a] = IF b = p /\ a = q THEN enQ(n[p][q], m) ELSE n[b][a]
  BY SentAt
<1>5. down2[a] = IF a = p THEN table ELSE down[a]
  OBVIOUS
<1> HIDE DEF n2, down2
<1>6. CASE a = p /\ b = q
  BY <1>3, <1>4, <1>5, <1>6
<1>7. CASE b = p /\ a = q
  <2>1. down[q] \in [Slots -> Session] /\ up[p] \in UploadInfo \cup {NoUpload}
    OBVIOUS
  <2>2. Pair(sure, q, p, n[q][p], enQ(n[p][q], m), up[p], down[q])
    BY <1>1, <1>2, <1>7, <2>1, BackAdds
  <2> QED
    BY <1>1, <1>3, <1>4, <1>5, <1>7, <2>2
<1>8. CASE a = p /\ b # q
  <2>1. Pair(sure, p, b, n[p][b], n[b][p], up[b], table)
    BY <1>1, <1>8, OthersOpen
  <2> QED
    BY <1>1, <1>3, <1>4, <1>5, <1>8, <2>1
<1>9. CASE a # p /\ b # p
  BY <1>1, <1>3, <1>4, <1>5, <1>9
<1>10. CASE b = p /\ a # q
  BY <1>1, <1>3, <1>4, <1>5, <1>10
<1> QED
  BY <1>6, <1>7, <1>8, <1>9, <1>10

(* The provider p answers its customer q with a block.                     *)
LEMMA PairsServed ==
    ASSUME NEW sure \in BOOLEAN,
           OneCustomer, TypeOK, Transfers(sure), NEW p \in Peers, NEW q \in Peers,
           Offer(q, p) # {}, net[q][p] # <<>>,
           NEW m \in Packet, m.type = "DATA", NEW u,
           Pair(sure, q, p, Tail(net[q][p]), enQ(net[p][q], m), u, download[q])
    PROVE  PairsOf(sure, Answered(p, q, m), [upload EXCEPT ![p] = u], download)
<1> DEFINE n1 == Taken(net, q, p)
           n2 == Sent(n1, p, q, m)
           up2 == [upload EXCEPT ![p] = u]
<1> SUFFICES ASSUME NEW a \in Peers, NEW b \in Peers, Offer(a, b) # {}
             PROVE  Pair(sure, a, b, n2[a][b], n2[b][a], up2[b], download[a])
  BY DEF PairsOf, Answered
<1>1. Pair(sure, a, b, net[a][b], net[b][a], upload[b], download[a]) /\ a # b
  BY OfferApart DEF Transfers, PairsOf
<1>2. net \in Paths /\ upload \in [Peers -> UploadInfo \cup {NoUpload}]
  BY DEF TypeOK, NetworkTypeOK, UploadTypeOK
<1>3. net[p][q] \in Seq(Packet) /\ net[q][p] \in Seq(Packet) /\ p # q
  BY <1>2, OfferApart DEF Paths
<1>4. n1 \in Paths
  BY <1>2, TakenType
<1>5. n1[a][b] = (IF a = q /\ b = p THEN Tail(net[q][p]) ELSE net[a][b])
      /\ n1[b][a] = (IF b = q /\ a = p THEN Tail(net[q][p]) ELSE net[b][a])
      /\ n1[p][q] = net[p][q]
  BY <1>2, <1>3, TakenAt
<1> HIDE DEF n1
<1>6. n2[a][b] = (IF a = p /\ b = q THEN enQ(n1[p][q], m) ELSE n1[a][b])
      /\ n2[b][a] = (IF b = p /\ a = q THEN enQ(n1[p][q], m) ELSE n1[b][a])
  BY <1>4, SentAt
<1>7. up2[b] = IF b = p THEN u ELSE upload[b]
  BY <1>2
<1> HIDE DEF n2, up2
<1>8. CASE a = q /\ b = p
  BY <1>3, <1>5, <1>6, <1>7, <1>8
<1>9. CASE b = p /\ a # q
  BY <1>9, SoleCustomer
<1>10. CASE a = p /\ b = q
  <2>1. Pair(sure, p, q, net[p][q], Tail(net[q][p]), upload[q], download[p])
    BY <1>1, <1>3, <1>10, BackTakes
  <2>2. Pair(sure, p, q, enQ(net[p][q], m), Tail(net[q][p]), upload[q], download[p])
    BY <1>3, <2>1, ChanAdds
  <2> QED
    BY <1>3, <1>5, <1>6, <1>7, <1>10, <2>2
<1>11. CASE b # p /\ ~(a = p /\ b = q)
  BY <1>1, <1>5, <1>6, <1>7, <1>11
<1> QED
  BY <1>8, <1>9, <1>10, <1>11

-----------------------------------------------------------------------------
(* Each step keeps the transfers.                                          *)
Known == IInv /\ OfferInv /\ SessionInStep /\ DataHonest

LEMMA KnownTypes ==
    ASSUME Known
    PROVE  /\ net \in Paths
           /\ upload \in [Peers -> UploadInfo \cup {NoUpload}]
           /\ download \in [Peers -> [Slots -> Session]]
           /\ \A a, b \in Peers : net[a][b] \in Seq(Packet)
  BY DEF Known, IInv, TypeOK, NetworkTypeOK, UploadTypeOK, DownloaderTypeOK,
         Paths

(* What arrives fits.                                                      *)
LEMMA ArrivedFits ==
    ASSUME Known, NEW p \in Peers, NEW q \in Peers, net[q][p] # <<>>
    PROVE  /\ Head(net[q][p]) \in Packet /\ Fits(q, p, Head(net[q][p]))
           /\ Head(net[q][p]).type = "DATA" => Head(net[q][p]).seq \in 1 .. N
<1> DEFINE m == Head(net[q][p])
<1>1. m \in Packet /\ Fits(q, p, m)
  BY FitsNow, TakenFits DEF Known
<1>2. ASSUME m.type = "DATA" PROVE m.seq \in 1 .. N
  <2>1. PICK c \in Chunks : m.data = <<c, m.seq>>
    BY <1>2, ArrivedHonest DEF Known, Honest
  <2>2. m.data \in Cell
    BY <1>1, <1>2, PacketFields
  <2> HIDE DEF m
  <2>3. m.data # Hole
    BY <2>1, ChunksAssumption DEF Hole
  <2> QED
    BY <2>1, <2>2, <2>3 DEF Cell, Block
<1> QED
  BY <1>1, <1>2

LEMMA GetPairs ==
    ASSUME NEW sure \in BOOLEAN,
           N >= 2, OneCustomer, Known, Transfers(sure), NEW p \in Peers,
           NEW q \in Peers, Arrived(q, p, "GET"), deal_with_GET(p, q, Head(net[q][p])),
           UNCHANGED client
    PROVE  Transfers(sure)'
<1> DEFINE m == Head(net[q][p])
           c == m.hash
           reply == Data(1, master(c, 1))
           u == [chunk |-> c, to |-> q, max_ack |-> 0]
<1>1. net[q][p] # <<>> /\ m.type = "GET"
  BY DEF Arrived
<1>2. m \in Packet /\ Fits(q, p, m)
  BY <1>1, ArrivedFits
<1>3. c \in Chunks /\ c \in Offer(q, p)
  BY <1>1, <1>2, PacketFields DEF Fits
<1>4. reply \in Packet /\ reply.type = "DATA"
  <2>1. 1 \in 1 .. N /\ 1 \in Nat
    BY NAssumption
  <2> QED
    BY <1>3, <2>1, MasterType, PacketTypes DEF Data
<1>5. /\ upload' = [upload EXCEPT ![p] = u] /\ net' = Answered(p, q, reply)
      /\ UNCHANGED <<gets, download>>
  BY DEF deal_with_GET, client
<1>6. Pair(sure, q, p, net[q][p], net[p][q], upload[p], download[q])
  BY <1>3 DEF Transfers, PairsOf
<1>7. net[q][p] \in Seq(Packet) /\ net[p][q] \in Seq(Packet)
  BY KnownTypes
<1>8. Pair(sure, q, p, Tail(net[q][p]), enQ(net[p][q], reply), u, download[q])
  BY <1>1, <1>3, <1>6, <1>7, GetTaken
<1> HIDE DEF reply, u
<1>9. PairsOf(sure, Answered(p, q, reply), [upload EXCEPT ![p] = u], download)
  BY <1>1, <1>3, <1>4, <1>8, PairsServed DEF Known, IInv
<1> QED
  BY <1>5, <1>9, PairsStill

LEMMA AckPairs ==
    ASSUME NEW sure \in BOOLEAN,
           OneCustomer, Known, Transfers(sure), NEW p \in Peers, NEW q \in Peers,
           Arrived(q, p, "ACK"), deal_with_ACK(p, q, Head(net[q][p])),
           UNCHANGED client
    PROVE  Transfers(sure)'
<1> DEFINE m == Head(net[q][p])
           a == m.ack
           reply == Data(a + 1, master(upload[p].chunk, a + 1))
           u == [upload[p] EXCEPT !.max_ack = a]
<1>1. net[q][p] # <<>> /\ m.type = "ACK"
  BY DEF Arrived
<1>2. m \in Packet /\ Fits(q, p, m)
  BY <1>1, ArrivedFits
<1>3. a \in Nat /\ Offer(q, p) # {}
  BY <1>1, <1>2, PacketFields DEF Fits
<1>4. UNCHANGED <<gets, download>>
  BY DEF client
<1>5. CASE net' = Taken(net, q, p) /\ UNCHANGED upload
  <2>1. PairsOf(sure, Taken(net, q, p), upload, download)
    BY <1>1, KnownTypes, PairsTaken DEF Transfers
  <2> QED
    BY <1>4, <1>5, <2>1, PairsStill
<1>6. CASE /\ ~last_acked(a) /\ upload[p].to # NoPeer
           /\ upload' = [upload EXCEPT ![p].max_ack = a]
           /\ net' = Answered(p, q, reply)
  <2>1. upload[p] \in UploadInfo /\ a + 1 <= N
    BY <1>3, <1>6, UploadFields, NAssumption DEF Known, IInv, last_acked
  <2>2. upload[p].to = q
    <3>1. upload[p].chunk \in Offer(upload[p].to, p) /\ upload[p].to \in Peers
      BY <1>6, <2>1, FitsNow DEF Known, UploadFits, UploadInfo
    <3> QED
      BY <1>3, <3>1, SoleCustomer DEF Known, IInv
  <2>3. reply \in Packet /\ reply.type = "DATA"
    <3>1. a + 1 \in 1 .. N /\ a + 1 \in Nat /\ upload[p].chunk \in Chunks
      BY <1>3, <2>1, NAssumption DEF UploadInfo
    <3> QED
      BY <3>1, MasterType, PacketTypes DEF Data
  <2>4. Pair(sure, q, p, net[q][p], net[p][q], upload[p], download[q])
    BY <1>3 DEF Transfers, PairsOf
  <2>5. /\ net[q][p] \in Seq(Packet) /\ net[p][q] \in Seq(Packet)
        /\ download[q] \in [Slots -> Session]
    BY KnownTypes
  <2>6. Pair(sure, q, p, Tail(net[q][p]), enQ(net[p][q], reply), u, download[q])
    BY <1>1, <1>3, <2>1, <2>2, <2>4, <2>5, AckTaken
  <2>7. upload' = [upload EXCEPT ![p] = u]
    BY <1>6, KnownTypes
  <2> HIDE DEF reply, u
  <2>8. PairsOf(sure, Answered(p, q, reply), [upload EXCEPT ![p] = u], download)
    BY <1>1, <1>3, <2>3, <2>6, PairsServed DEF Known, IInv
  <2> QED
    BY <1>4, <1>6, <2>7, <2>8, PairsStill
<1> QED
  BY <1>5, <1>6 DEF deal_with_ACK

(* The memory in front of the tables is as it was found.                   *)
SlotBeyond == \A p \in Peers : download[p][-1] = HeapSlot

(* The search for the session a DATA is for.                               *)
LEMMA SessionFrom ==
    ASSUME OneSessionPerPeer, NEW p \in Peers, NEW q \in Peers
    PROVE  \/ Open(download[p], q) = {} /\ session_from(p, q) = -1
           \/ \E k \in 0 .. MaxConn - 1 :
                 Open(download[p], q) = {k} /\ session_from(p, q) = k
<1> DEFINE S == Open(download[p], q)
<1>1. session_from(p, q) = First(S)
  BY DEF session_from, Open
<1>2. CASE S = {}
  BY <1>1, <1>2 DEF First
<1>3. ASSUME NEW k \in S PROVE S = {k} /\ First(S) = k /\ k \in 0 .. MaxConn - 1
  <2>1. \A i \in S : i = k
    BY <1>3 DEF OneSessionPerPeer, Sessions, Open
  <2>2. S = {k}
    BY <1>3, <2>1
  <2>3. k \in 0 .. MaxConn - 1
    BY <1>3 DEF Open
  <2> HIDE DEF S
  <2>4. First({k}) = k
    BY <2>3 DEF First
  <2> QED
    BY <2>2, <2>3, <2>4
<1> QED
  BY <1>1, <1>2, <1>3

(* What a session takes is the block it waits for, of the chunk it asked   *)
(* for.                                                                    *)
LEMMA AcceptsRight ==
    ASSUME NEW sure \in BOOLEAN,
           Plain, Known, Transfers(sure), SlotBeyond, OneSessionPerPeer,
           NEW p \in Peers, NEW q \in Peers,
           Arrived(q, p, "DATA"), accept_DATA(p, q, Head(net[q][p]))
    PROVE  LET k == session_from(p, q)
               m == Head(net[q][p])
           IN  /\ k \in 0 .. MaxConn - 1 /\ Open(download[p], q) = {k}
               /\ k \in Sessions(p) /\ download[p][k].from = q
               /\ IsLine(p, download[p][k].rid)
               /\ m.seq = download[p][k].pos + 1
               /\ m.data = <<Wanted(p, download[p][k].rid), m.seq>>
               /\ UNCHANGED <<upload, gets>> => Transfers(sure)'
<1> DEFINE k == session_from(p, q)
           m == Head(net[q][p])
           s == download[p][k]
           table == download'[p]
<1>1. net[q][p] # <<>> /\ m.type = "DATA"
  BY DEF Arrived
<1>2. m \in Packet /\ Fits(q, p, m) /\ m.seq \in 1 .. N
  BY <1>1, ArrivedFits
<1>3. Offer(p, q) # {} /\ p # q
  BY <1>1, <1>2, OfferApart DEF Fits
<1>4. m.seq = s.seq
  BY DEF accept_DATA, is_expected
<1>5. k \in 0 .. MaxConn - 1 /\ Open(download[p], q) = {k}
  <2>1. CASE k = -1
    <3>1. m.seq = HeapSlot.seq
      BY <1>4, <2>1 DEF SlotBeyond
    <3>2. HeapSlot.seq \in Nat /\ HeapSlot.seq > N
      BY HeapAssumption DEF Session, Plain, SlotUnmatched
    <3> QED
      BY <1>2, <3>1, <3>2, NAssumption
  <2> QED
    BY <2>1, SessionFrom
<1>6. k \in Sessions(p) /\ s.from = q /\ s.active
  BY <1>5 DEF Open, Sessions
<1>7. /\ download \in [Peers -> [Slots -> Session]] /\ k \in Slots
      /\ upload[q] \in UploadInfo \cup {NoUpload}
      /\ net[p][q] \in Seq(Packet) /\ net[q][p] \in Seq(Packet) /\ net \in Paths
  BY <1>5, KnownTypes, TablesAssumption DEF Slots
<1>8. s \in Session /\ s.pos \in Nat /\ s.seq = s.pos + 1 /\ s.pos < N
  <2>1. s \in Session /\ s.pos \in Nat /\ s.seq \in Nat
    BY <1>7 DEF Session
  <2>2. s.pos = s.seq - 1 /\ s.pos < N
    BY <1>6 DEF Known, SessionInStep
  <2> HIDE DEF s
  <2> QED
    BY <2>1, <2>2
<1>9. IsLine(p, s.rid)
  BY <1>5, <1>6, FitsNow DEF Known, TableFits
<1>10. /\ table \in [Slots -> Session]
       /\ \A i \in Slots : i # k => table[i] = download[p][i]
       /\ download' = [download EXCEPT ![p] = table]
       /\ IF s.pos + 1 >= N THEN ~table[k].active
          ELSE /\ table[k].active /\ table[k].from = q /\ table[k].rid = s.rid
               /\ table[k].pos = s.pos + 1
  <2> DEFINE grown == [s EXCEPT !.pos = s.pos + 1, !.seq = s.seq + 1]
  <2>1. /\ grown.pos = s.pos + 1 /\ grown.active = s.active
        /\ grown.from = s.from /\ grown.rid = s.rid /\ grown \in Session
    <3>1. s.pos + 1 \in Nat /\ s.seq + 1 \in Nat
      BY <1>8
    <3> HIDE DEF s
    <3> QED
      BY <1>8, <3>1 DEF Session
  <2>2. NoSession \in Session /\ ~NoSession.active
    BY RequestFilesAssumption DEF NoSession, Session, Lines
  <2>3. CASE is_chunk_full(grown) /\ download' = [download EXCEPT ![p][k] = NoSession]
    <3>1. s.pos + 1 >= N
      BY <2>1, <2>3 DEF is_chunk_full
    <3>2. /\ table = [download[p] EXCEPT ![k] = NoSession]
          /\ download' = [download EXCEPT ![p] = table]
      BY <1>7, <2>3
    <3> QED
      BY <1>7, <2>2, <3>1, <3>2
  <2>4. CASE ~is_chunk_full(grown) /\ download' = [download EXCEPT ![p][k] = grown]
    <3>1. ~(s.pos + 1 >= N)
      BY <2>1, <2>4 DEF is_chunk_full
    <3>2. /\ table = [download[p] EXCEPT ![k] = grown]
          /\ download' = [download EXCEPT ![p] = table]
      BY <1>7, <2>4
    <3>3. table[k] = grown /\ \A i \in Slots : i # k => table[i] = download[p][i]
      BY <1>7, <3>2
    <3>4. table \in [Slots -> Session]
      <4> HIDE DEF grown
      <4> QED
        BY <1>7, <2>1, <3>2
    <3> HIDE DEF grown, table
    <3> QED
      BY <1>6, <2>1, <3>1, <3>2, <3>3, <3>4
  <2> QED
    BY <2>3, <2>4 DEF accept_DATA
<1>11. \A i \in 0 .. MaxConn - 1 : i \in Slots
  BY TablesAssumption DEF Slots
<1>12. Pair(sure, p, q, net[p][q], net[q][p], upload[q], download[p])
  BY <1>3 DEF Transfers, PairsOf
<1>13. /\ m.data = <<Wanted(p, s.rid), m.seq>>
       /\ Pair(sure, p, q, enQ(net[p][q], Ack(m.seq)), Tail(net[q][p]), upload[q], table)
  <2>1. download[p] \in [Slots -> Session]
    BY <1>7
  <2>2. GoneOn(download[p], table, k, q)
    BY <1>10, <1>11 DEF GoneOn
  <2>3. N >= 2 /\ Head(net[q][p]).type = "DATA"
        /\ Head(net[q][p]).seq = download[p][k].seq
    BY <1>1, <1>4 DEF Plain
  <2>4. /\ Open(download[p], q) = {k}
        /\ download[p][k].seq = download[p][k].pos + 1 /\ download[p][k].pos < N
        /\ net[q][p] # <<>> /\ net[q][p] \in Seq(Packet)
        /\ net[p][q] \in Seq(Packet) /\ upload[q] \in UploadInfo \cup {NoUpload}
        /\ table \in [Slots -> Session]
    BY <1>1, <1>5, <1>7, <1>8, <1>10
  <2> HIDE DEF table, k
  <2> QED
    BY <1>12, <2>1, <2>2, <2>3, <2>4, DataAccepted
<1>14. ASSUME UNCHANGED <<upload, gets>> PROVE Transfers(sure)'
  <2>1. net' = Sent(Taken(net, q, p), p, q, Ack(m.seq))
    <3>1. acked_stranger(p, q, m) = Taken(net, q, p)
      <4>1. session_from(p, q) # -1
        BY <1>5
      <4> QED
        BY <4>1 DEF acked_stranger
    <3>2. net' = Sent(acked_stranger(p, q, m), p, q, Ack(m.seq))
      BY DEF accept_DATA
    <3> QED
      BY <3>1, <3>2
  <2>2. PairsOf(sure, Taken(net, q, p), upload, download) /\ Taken(net, q, p) \in Paths
    BY <1>1, <1>7, TakenType, PairsTaken DEF Transfers
  <2>3. /\ Taken(net, q, p)[p][q] = net[p][q]
        /\ Taken(net, q, p)[q][p] = Tail(net[q][p])
    BY <1>3, <1>7, TakenAt
  <2>4. Ack(m.seq) \in Packet /\ Ack(m.seq).type # "DATA"
    BY <1>2, PacketTypes DEF Ack
  <2>5. \A r \in Peers : r # q =>
            /\ Open(table, r) = Open(download[p], r)
            /\ \A i \in Open(download[p], r) : table[i] = download[p][i]
    <3> SUFFICES ASSUME NEW r \in Peers, r # q
                 PROVE  /\ Open(table, r) = Open(download[p], r)
                        /\ \A i \in Open(download[p], r) : table[i] = download[p][i]
      OBVIOUS
    <3>1. table[k].active => table[k].from = q
      BY <1>10
    <3>2. download[p][k].from = q
      BY <1>6
    <3> HIDE DEF table, k, s
    <3> QED
      BY <1>10, <1>11, <3>1, <3>2 DEF Open
  <2>6. upload \in [Peers -> UploadInfo \cup {NoUpload}]
    BY KnownTypes
  <2> HIDE DEF table
  <2>7. PairsOf(sure, net', upload, [download EXCEPT ![p] = table])
    BY <1>3, <1>7, <1>13, <2>1, <2>2, <2>3, <2>4, <2>5, <2>6, PairsAnswered
  <2>8. PairsOf(sure, net', upload', download')
    BY <1>10, <1>14, <2>7
  <2> QED
    BY <1>14, <2>8, PairsStill
<1> QED
  BY <1>4, <1>5, <1>6, <1>8, <1>9, <1>13, <1>14

(* A DATA that is not taken is answered, twice if no session is with its   *)
(* sender.                                                                 *)
LEMMA IgnorePairs ==
    ASSUME NEW sure \in BOOLEAN,
           Plain, Known, Transfers(sure), SlotBeyond, OneSessionPerPeer,
           NEW p \in Peers, NEW q \in Peers,
           Arrived(q, p, "DATA"), ignore_DATA(p, q, Head(net[q][p])),
           UNCHANGED upload
    PROVE  Transfers(sure)'
<1> DEFINE k == session_from(p, q)
           m == Head(net[q][p])
           s == download[p][k]
           n == Taken(net, q, p)
<1>1. net[q][p] # <<>> /\ m.type = "DATA"
  BY DEF Arrived
<1>2. m \in Packet /\ Fits(q, p, m) /\ m.seq \in 1 .. N
  BY <1>1, ArrivedFits
<1>3. Offer(p, q) # {} /\ p # q
  BY <1>1, <1>2, OfferApart DEF Fits
<1>4. /\ download \in [Peers -> [Slots -> Session]]
      /\ download[p] \in [Slots -> Session] /\ k \in Slots
      /\ upload \in [Peers -> UploadInfo \cup {NoUpload}]
      /\ upload[q] \in UploadInfo \cup {NoUpload}
      /\ net[p][q] \in Seq(Packet) /\ net[q][p] \in Seq(Packet) /\ net \in Paths
  BY KnownTypes, SlotSearchType
<1>5. n \in Paths /\ PairsOf(sure, n, upload, download)
  BY <1>1, <1>4, TakenType, PairsTaken DEF Transfers
<1>6. n[p][q] = net[p][q] /\ n[q][p] = Tail(net[q][p])
  BY <1>3, <1>4, TakenAt
<1>7. UNCHANGED <<gets, download>>
  BY DEF ignore_DATA, client
<1>8. [download EXCEPT ![p] = download[p]] = download
  BY <1>4
<1>9. ASSUME NEW n1 \in Paths, PairsOf(sure, n1, upload, download), NEW ack \in Nat,
             Pair(sure, p, q, enQ(n1[p][q], Ack(ack)), n1[q][p], upload[q], download[p])
      PROVE  PairsOf(sure, Sent(n1, p, q, Ack(ack)), upload, download)
  <2>1. Ack(ack) \in Packet /\ Ack(ack).type # "DATA"
    BY PacketTypes DEF Ack
  <2>2. PairsOf(sure, Sent(n1, p, q, Ack(ack)), upload,
                [download EXCEPT ![p] = download[p]])
    BY <1>3, <1>4, <1>9, <2>1, PairsAnswered
  <2> QED
    BY <1>8, <2>2
<1>10. CASE k # -1
  <2>1. k \in 0 .. MaxConn - 1 /\ Open(download[p], q) = {k}
    BY <1>10, SessionFrom
  <2>2. s.seq = s.pos + 1
    <3>1. s.pos \in Nat /\ s.seq \in Nat
      BY <1>4 DEF Session
    <3>2. s.pos = s.seq - 1
      BY <2>1 DEF Known, SessionInStep, Open, Sessions
    <3> HIDE DEF s
    <3> QED
      BY <3>1, <3>2
  <2>3. expected_ack(s) \in Nat
    <3>1. s.seq \in Nat
      BY <1>4 DEF Session
    <3> HIDE DEF s
    <3> QED
      BY <3>1 DEF expected_ack
  <2>4. Pair(sure, p, q, net[p][q], net[q][p], upload[q], download[p])
    BY <1>3 DEF Transfers, PairsOf
  <2>5. Pair(sure, p, q, enQ(net[p][q], Ack(expected_ack(s))), Tail(net[q][p]),
             upload[q], download[p])
    <3> HIDE DEF k
    <3> QED
      BY <1>1, <1>4, <2>1, <2>2, <2>4, DataIgnored
  <2>6. net' = Sent(n, p, q, Ack(expected_ack(s)))
    BY <1>10 DEF ignore_DATA, acked_stranger
  <2> HIDE DEF s, n
  <2>7. PairsOf(sure, net', upload, download)
    BY <1>5, <1>6, <1>9, <2>3, <2>5, <2>6
  <2> QED
    BY <1>7, <2>7, PairsStill
<1>11. CASE k = -1
  <2> DEFINE n1 == Sent(n, p, q, Ack(m.seq))
             ack == expected_ack(HeapSlot)
  <2>1. Open(download[p], q) = {}
    BY <1>11, SessionFrom
  <2>2. ack \in Nat /\ ack >= 1 /\ ack >= Low(sure)
    <3>1. HeapSlot.seq \in Nat /\ HeapSlot.seq > N /\ N >= 2
      BY HeapAssumption DEF Session, Plain, SlotUnmatched
    <3>2. ack = HeapSlot.seq - 1
      BY <3>1, NAssumption DEF expected_ack
    <3> HIDE DEF ack
    <3> QED
      BY <3>1, <3>2, LowIs, NAssumption
  <2>3. net' = Sent(n1, p, q, Ack(ack))
    BY <1>11 DEF ignore_DATA, acked_stranger, Answered, SlotBeyond
  <2>4. Pair(sure, p, q, n[p][q], n[q][p], upload[q], download[p])
    BY <1>3, <1>5 DEF PairsOf
  <2>5. m.seq \in Nat /\ m.seq >= 1 /\ m.seq >= Low(sure)
    <3>1. m.seq >= Low(sure) + 1
      <4>1. Pair(sure, p, q, net[p][q], net[q][p], upload[q], download[p])
        BY <1>3 DEF Transfers, PairsOf
      <4> QED
        BY <1>1, <1>4, <2>1, <4>1, StrangerIsLate
    <3> HIDE DEF m
    <3>2. m.seq \in Nat /\ m.seq >= 1
      BY <1>2
    <3> QED
      BY <3>1, <3>2, LowIs
  <2>6. n[p][q] \in Seq(Packet)
    BY <1>4, <1>6
  <2> HIDE DEF ack, n, m
  <2>7. Pair(sure, p, q, enQ(n[p][q], Ack(m.seq)), n[q][p], upload[q], download[p])
    BY <2>1, <2>4, <2>5, <2>6, StrangerAnswers
  <2>8. PairsOf(sure, n1, upload, download)
    BY <1>5, <1>9, <2>5, <2>7
  <2>9. n1 \in Paths
    BY <1>5, <2>5, PacketTypes, SentType
  <2>10. Pair(sure, p, q, n1[p][q], n1[q][p], upload[q], download[p])
    BY <1>3, <2>8 DEF PairsOf
  <2>11. n1[p][q] \in Seq(Packet)
    BY <2>9 DEF Paths
  <2> HIDE DEF n1
  <2>12. Pair(sure, p, q, enQ(n1[p][q], Ack(ack)), n1[q][p], upload[q], download[p])
    BY <2>1, <2>2, <2>10, <2>11, StrangerAnswers
  <2>13. PairsOf(sure, net', upload, download)
    BY <1>9, <2>2, <2>3, <2>8, <2>9, <2>12
  <2> QED
    BY <1>7, <2>13, PairsStill
<1> QED
  BY <1>10, <1>11

(* A session opened and its GET sent, by the handler of IHAVE or by the    *)
(* scan of the waiting list.                                               *)
OpensFor(p, q, rid) ==
    /\ Doing(p, "parse") \/ Doing(p, "scan")
    /\ download' = [download EXCEPT ![p] = with_session(@, rid, q)]
    /\ net' = Sent(net, p, q, Get(Wanted(p, rid)))
    /\ Wanted(p, rid) \in Offer(p, q) \cap Chunks /\ IsLine(p, rid)
    /\ UNCHANGED <<gets, upload, output>>

LEMMA OpeningIs ==
    ASSUME Known, NEW p \in Peers, UNCHANGED upload
    PROVE  /\ get_first_hash(p) =>
                 /\ task[p].from \in Peers
                 /\ OpensFor(p, task[p].from,
                             search_id_for_hash(p, Head(task[p].left)))
           /\ send_entry(p) =>
                 /\ waiting[p][task[p].at].from \in Peers
                 /\ OpensFor(p, waiting[p][task[p].at].from,
                             waiting[p][task[p].at].rid)
<1>1. ASSUME get_first_hash(p)
      PROVE  /\ task[p].from \in Peers
             /\ OpensFor(p, task[p].from,
                         search_id_for_hash(p, Head(task[p].left)))
  <2> DEFINE c == Head(task[p].left)
  <2>1. c \in Offer(p, task[p].from) /\ c \in Chunks /\ task[p].from \in Peers
    BY <1>1, ParseFits, ParseFields DEF get_first_hash, Known
  <2>2. IsLine(p, search_id_for_hash(p, c)) /\ Wanted(p, search_id_for_hash(p, c)) = c
    BY <2>1, LineOfWish DEF Offer, Known, IInv
  <2> QED
    BY <1>1, <2>1, <2>2 DEF get_first_hash, OpensFor
<1>2. ASSUME send_entry(p)
      PROVE  /\ waiting[p][task[p].at].from \in Peers
             /\ OpensFor(p, waiting[p][task[p].at].from,
                         waiting[p][task[p].at].rid)
  <2> DEFINE entry == waiting[p][task[p].at]
  <2>1. task[p].at \in Entries /\ entry \in Waiting
    BY <1>2, ScanFields, TablesAssumption DEF send_entry, Known, Entries
  <2>2. entry.from \in Peers /\ entry.hash \in Chunks /\ entry.active
    BY <2>1 DEF Waiting
  <2>3. /\ entry.hash \in Offer(p, entry.from) /\ IsLine(p, entry.rid)
        /\ Wanted(p, entry.rid) = entry.hash
    BY <2>1, <2>2, FitsNow DEF ListFits, Known
  <2> QED
    BY <1>2, <2>2, <2>3 DEF send_entry, OpensFor
<1> QED
  BY <1>1, <1>2

(* An opening that leaves the memory in front of the table alone found a   *)
(* free entry.                                                             *)
LEMMA OpensFree ==
    ASSUME Known, NEW p \in Peers, NEW q \in Peers, NEW rid,
           OpensFor(p, q, rid), ~download'[p][-1].active
    PROVE  LET f == find_free_download_info(download[p])
           IN  /\ f \in 0 .. MaxConn - 1 /\ ~download[p][f].active
               /\ download'[p] = [download[p] EXCEPT ![f] = new_session(rid, q)]
               /\ \A r \in Peers : r # p => download'[r] = download[r]
<1> DEFINE f == find_free_download_info(download[p])
           table == download'[p]
<1>1. download \in [Peers -> [Slots -> Session]] /\ download[p] \in [Slots -> Session]
  BY KnownTypes
<1>2. /\ table = [download[p] EXCEPT ![f] = new_session(rid, q)]
      /\ \A r \in Peers : r # p => download'[r] = download[r]
  BY <1>1 DEF OpensFor, with_session
<1>3. f \in Slots /\ f \in {i \in 0 .. MaxConn - 1 : ~download[p][i].active} \cup {-1}
  BY SlotSearchType, FirstIsIndex DEF find_free_download_info
<1>4. table[f] = new_session(rid, q) /\ table[f].active
  BY <1>1, <1>2, <1>3 DEF new_session
<1>5. f \in 0 .. MaxConn - 1 /\ ~download[p][f].active
  BY <1>3, <1>4
<1> QED
  BY <1>2, <1>5

(* If it leaves the tables in order, it found no session with the same     *)
(* peer.                                                                   *)
LEMMA OpensOrderly ==
    ASSUME Known, Orderly', NEW p \in Peers, NEW q \in Peers, NEW rid,
           OpensFor(p, q, rid)
    PROVE  LET f == find_free_download_info(download[p])
           IN  /\ f \in 0 .. MaxConn - 1 /\ ~download[p][f].active
               /\ Open(download[p], q) = {}
               /\ download'[p] = [download[p] EXCEPT ![f] = new_session(rid, q)]
               /\ \A r \in Peers : r # p => download'[r] = download[r]
<1> DEFINE f == find_free_download_info(download[p])
           table == download'[p]
<1>1. download[p] \in [Slots -> Session]
  BY KnownTypes
<1>2. /\ f \in 0 .. MaxConn - 1 /\ ~download[p][f].active
      /\ table = [download[p] EXCEPT ![f] = new_session(rid, q)]
      /\ \A r \in Peers : r # p => download'[r] = download[r]
  <2>1. ~table[-1].active
    BY DEF Orderly, TablesSuffice
  <2> QED
    BY <2>1, OpensFree
<1>3. table[f].active /\ table[f].from = q
  <2>1. f \in Slots
    BY <1>2, TablesAssumption DEF Slots
  <2> QED
    BY <1>1, <1>2, <2>1 DEF new_session
<1>4. ASSUME NEW i \in Open(download[p], q) PROVE FALSE
  <2>1. i \in 0 .. MaxConn - 1 /\ download[p][i].active /\ download[p][i].from = q
    BY DEF Open
  <2>2. table[i] = download[p][i]
    <3>1. with_session(download[p], rid, q)[i] = download[p][i]
      BY <1>1, <2>1, OpeningChangesNone
    <3> HIDE DEF table
    <3> QED
      BY <1>2, <3>1 DEF with_session
  <2> HIDE DEF f
  <2>3. i = f
    <3>1. OneSessionPerPeer'
      BY DEF Orderly
    <3>2. /\ download'[p][f].active /\ download'[p][f].from = q
          /\ download'[p][i].active /\ download'[p][i].from = q
      BY <1>3, <2>1, <2>2
    <3>3. f \in Sessions(p)' /\ i \in Sessions(p)'
      BY <1>2, <2>1, <3>2 DEF Sessions
    <3> QED
      BY <3>1, <3>2, <3>3 DEF OneSessionPerPeer
  <2> QED
    BY <1>2, <2>1, <2>3
<1> QED
  BY <1>2, <1>4

LEMMA OpeningPairs ==
    ASSUME NEW sure \in BOOLEAN,
           Known, Transfers(sure), sure => GetsHaveRoom, Orderly',
           NEW p \in Peers, NEW q \in Peers, NEW rid, OpensFor(p, q, rid)
    PROVE  Transfers(sure)'
<1> DEFINE f == find_free_download_info(download[p])
           c == Wanted(p, rid)
           table == download'[p]
<1>1. /\ f \in 0 .. MaxConn - 1 /\ ~download[p][f].active
      /\ Open(download[p], q) = {}
      /\ table = [download[p] EXCEPT ![f] = new_session(rid, q)]
      /\ \A r \in Peers : r # p => download'[r] = download[r]
  BY OpensOrderly
<1>2. /\ net' = Sent(net, p, q, Get(c)) /\ c \in Offer(p, q) /\ c \in Chunks
      /\ UNCHANGED <<gets, upload>>
      /\ download' = [download EXCEPT ![p] = with_session(@, rid, q)]
  BY DEF OpensFor
<1>3. /\ net \in Paths /\ net[p][q] \in Seq(Packet)
      /\ upload \in [Peers -> UploadInfo \cup {NoUpload}]
      /\ download \in [Peers -> [Slots -> Session]]
      /\ download[p] \in [Slots -> Session]
  BY KnownTypes
<1>4. download' = [download EXCEPT ![p] = table]
  BY <1>2, <1>3
<1>5. /\ p # q /\ Pair(sure, p, q, net[p][q], net[q][p], upload[q], download[p])
      /\ sure => Len(net[p][q]) < QueueMax
  BY <1>2, OfferApart DEF Transfers, PairsOf, GetsHaveRoom, OpensFor
<1> HIDE DEF f, c, table
<1>6. Pair(sure, p, q, enQ(net[p][q], Get(c)), net[q][p], upload[q], table)
  BY <1>1, <1>2, <1>3, <1>5, Opens DEF c
<1>7. Get(c) \in Packet /\ Get(c).type # "DATA"
  BY <1>2, PacketTypes DEF Get
<1>8. \A r \in Peers : r # q =>
          /\ Open(table, r) = Open(download[p], r)
          /\ \A i \in Open(download[p], r) : table[i] = download[p][i]
  <2>1. /\ \A i \in 0 .. MaxConn - 1 : i \in Slots
        /\ new_session(rid, q).from = q
    BY TablesAssumption DEF Slots, new_session
  <2>2. /\ table[f].from = q
        /\ \A i \in 0 .. MaxConn - 1 : i # f => table[i] = download[p][i]
    BY <1>1, <1>3, <2>1
  <2> QED
    BY <1>1, <2>2 DEF Open
<1>9. PairsOf(sure, net', upload, [download EXCEPT ![p] = table])
  BY <1>2, <1>3, <1>5, <1>6, <1>7, <1>8, PairsAnswered DEF Transfers
<1>10. PairsOf(sure, net', upload', download')
  BY <1>2, <1>4, <1>9
<1> QED
  BY <1>2, <1>10, PairsStill

(* A step that only sends or takes what belongs to no transfer, or repeats *)
(* what belongs to one.                                                    *)
LEMMA CalmPairs ==
    ASSUME NEW sure \in BOOLEAN,
           PairsOf(sure, net', upload, download), UNCHANGED <<gets, upload, download>>
    PROVE  Transfers(sure)'
<1>1. PairsOf(sure, net', upload', download')
  OBVIOUS
<1> QED
  BY <1>1, PairsStill

LEMMA TimerPairs ==
    ASSUME NEW sure \in BOOLEAN,
           Known, Transfers(sure), NEW p \in Peers, timer(p)
    PROVE  Transfers(sure)'
<1> DEFINE u == upload[p]
           m == Data(u.max_ack + 1, master(u.chunk, u.max_ack + 1))
<1>1. u \in UploadInfo
  BY UploadFields DEF timer, retransmit, Known, IInv
<1>2. u.max_ack + 1 \in 1 .. N /\ u.max_ack + 1 \in Nat
      /\ u.to \in Peers /\ u.chunk \in Chunks
  BY <1>1, NAssumption DEF UploadInfo
<1>3. /\ m \in Packet /\ m.type \notin {"GET", "ACK"}
      /\ m.seq = u.max_ack + 1 /\ m.data = <<u.chunk, m.seq>>
  BY <1>2, MasterType, PacketTypes DEF Data, master
<1>4. /\ net' = Sent(net, p, u.to, m) /\ UNCHANGED <<gets, upload, download>>
  BY DEF timer, retransmit, client
<1>5. u \in UploadInfo \cup {NoUpload}
  BY <1>1
<1> HIDE DEF m
<1>6. PairsOf(sure, net', upload, download)
  BY <1>2, <1>3, <1>4, <1>5, KnownTypes, PairsSent DEF Transfers
<1> QED
  BY <1>4, <1>6, CalmPairs

LEMMA SendIhavePairs ==
    ASSUME NEW sure \in BOOLEAN,
           Known, Transfers(sure), NEW p \in Peers, send_IHAVE(p), UNCHANGED client
    PROVE  Transfers(sure)'
<1> DEFINE t == task[p]
<1>1. t \in AnswerTask
  BY TaskFields DEF send_IHAVE, Doing, Known, IInv, TypeOK
<1>2. t.to \in Peers /\ t.found \in Seq(Chunks)
  BY <1>1 DEF AnswerTask
<1>3. Ihave(t.found) \in Packet /\ Ihave(t.found).type = "IHAVE"
  BY <1>2, PacketTypes DEF Ihave
<1>4. upload[p] \in UploadInfo \cup {NoUpload}
  BY KnownTypes
<1>5. PairsOf(sure, Sent(net, p, t.to, Ihave(t.found)), upload, download)
  BY <1>2, <1>3, <1>4, KnownTypes, PairsSent DEF Transfers
<1>6. PairsOf(sure, net', upload, download)
  BY <1>5 DEF send_IHAVE, Transfers
<1> QED
  BY <1>6, CalmPairs DEF send_IHAVE, client

LEMMA DisturbPairs ==
    ASSUME NEW sure \in BOOLEAN,
           Known, Transfers(sure), sure => ~Shared,
           NEW p \in Peers, NEW q \in Peers, disturb(p, q)
    PROVE  Transfers(sure)'
<1>1. net[p][q] # <<>> /\ (CrowdOut(p, q) \/ Head(net[p][q]).type # "GET")
  BY DEF disturb, Lose, CrowdOut, Duplicate, Unreliable, Arrived
<1>2. net \in Paths
  BY KnownTypes
<1>3. CASE Lose(p, q) \/ CrowdOut(p, q)
  <2>0. net' = Taken(net, p, q) /\ (Head(net[p][q]).type # "GET" \/ ~sure)
    BY <1>3 DEF Lose, CrowdOut, Unreliable, Arrived
  <2>1. PairsOf(sure, net', upload, download)
    BY <1>1, <1>2, <2>0, PairsTaken DEF Transfers
  <2> QED
    BY <2>1, CalmPairs DEF disturb, client
<1>4. CASE Duplicate(p, q)
  <2>0. Head(net[p][q]).type # "GET"
    BY <1>4 DEF Duplicate, Unreliable, Arrived
  <2>1. net' = [net EXCEPT ![p][q] = Copied(net[p][q], Dups)]
    BY <1>2, <1>4 DEF Duplicate, Copied, Paths
  <2>2. PairsOf(sure, net', upload, download)
    BY <1>1, <1>2, <2>0, <2>1, LossAssumption, PairsCopied DEF Transfers
  <2> QED
    BY <2>2, CalmPairs DEF disturb, client
<1> QED
  BY <1>3, <1>4 DEF disturb

LEMMA ReceivePairs ==
    ASSUME NEW sure \in BOOLEAN,
           Plain, Known, Transfers(sure), SlotBeyond, OneSessionPerPeer,
           NEW p \in Peers, NEW q \in Peers, process_inbound_udp(p, q)
    PROVE  Transfers(sure)'
<1>1. CASE net[q][p] # <<>> /\ Head(net[q][p]).type # "GET"
           /\ net' = Taken(net, q, p) /\ UNCHANGED <<gets, upload, download>>
  <2>1. PairsOf(sure, net', upload, download)
    BY <1>1, KnownTypes, PairsTaken DEF Transfers
  <2> QED
    BY <1>1, <2>1, CalmPairs
<1>2. CASE \/ /\ Arrived(q, p, "WHOHAS")
              /\ deal_with_WHOHAS(p, q, Head(net[q][p]))
              /\ UNCHANGED client
           \/ /\ Arrived(q, p, "IHAVE")
              /\ deal_with_IHAVE(p, q, Head(net[q][p]))
              /\ UNCHANGED upload
  BY <1>1, <1>2 DEF deal_with_WHOHAS, deal_with_IHAVE, Arrived, client
<1>3. CASE /\ Arrived(q, p, "DATA") /\ UNCHANGED upload
           /\ deal_with_DATA(p, q, Head(net[q][p]))
  <2>1. accept_DATA(p, q, Head(net[q][p])) => UNCHANGED gets
    BY DEF accept_DATA
  <2> QED
    BY <1>3, <2>1, AcceptsRight, IgnorePairs DEF deal_with_DATA
<1> QED
  BY <1>2, <1>3, GetPairs, AckPairs DEF process_inbound_udp, Plain

LEMMA WorkPairs ==
    ASSUME NEW sure \in BOOLEAN,
           Known, Transfers(sure), sure => GetsHaveRoom, Orderly',
           NEW p \in Peers, work(p)
    PROVE  Transfers(sure)'
<1>1. CASE UNCHANGED <<net, gets, upload, download>>
  BY <1>1, CalmPairs DEF Transfers
<1>2. CASE get_first_hash(p) /\ UNCHANGED upload
  BY <1>2, OpeningIs, OpeningPairs
<1>3. CASE send_entry(p) /\ UNCHANGED upload
  BY <1>3, OpeningIs, OpeningPairs
<1> QED
  BY <1>1, <1>2, <1>3, SendIhavePairs
  DEF work, answer_line, skip_hash, queue_hash, drop_entry, keep_entry, client

(* A pair between which nothing has happened yet.                          *)
LEMMA FreshPair ==
    ASSUME NEW sure \in BOOLEAN,
           NEW p, NEW q, NEW chan \in Seq(Packet), NEW back \in Seq(Packet),
           NEW u, NEW table,
           \A i \in 1 .. Len(chan) : chan[i].type \notin {"GET", "ACK"},
           \A i \in 1 .. Len(back) : back[i].type # "DATA",
           u.to # p, Open(table, q) = {}
    PROVE  Pair(sure, p, q, chan, back, u, table)
           /\ Pair(sure, p, q, chan, back, u, table)'
<1>1. OnlyGet(chan) /\ InTurn(back, LateRule(Low(sure)))
  <2>1. \A i \in 1 .. Len(back) : back[i] \in Packet
    OBVIOUS
  <2> QED
    BY <2>1 DEF OnlyGet, InTurn, LateRule, Three
<1>2. \A i \in 1 .. Len(chan) : chan[i] \in Packet
  OBVIOUS
<1>3. InTurn(chan, AskRule(p, q, table))
  BY <1>2 DEF InTurn, AskRule, Three
<1>4. InTurn(chan, AskRule(p, q, table)')
  BY <1>2 DEF InTurn, AskRule, Three
<1>5. Quiet(sure, p, q, chan, back, u, table)
  BY <1>1 DEF Quiet, Awaits
<1> QED
  BY <1>1, <1>3, <1>4, <1>5 DEF Pair, Asking

LEMMA UserInputPairs ==
    ASSUME NEW sure \in BOOLEAN,
           OneGet, Known, Transfers(sure), NEW p \in Peers, handle_user_input(p)
    PROVE  Transfers(sure)'
<1> DEFINE file == RequestFiles[p][1]
<1>1. /\ gets[p] = 0 /\ 1 \in 1 .. Len(RequestFiles[p])
      /\ request_file(p) = <<>>
      /\ \A r \in Peers : r # p => request_file(r)' = request_file(r)
  BY FirstGet DEF Known
<1>2. file \in Seq(Chunks)
  <2>1. RequestFiles[p] \in Seq(Seq(Chunks))
    BY RequestFilesAssumption
  <2> QED
    BY <1>1, <2>1, ElementOfSeq
<1>3. /\ net \in Paths
      /\ upload \in [Peers -> UploadInfo \cup {NoUpload}]
      /\ download \in [Peers -> [Slots -> Session]]
      /\ \A a, b \in Peers : net[a][b] \in Seq(Packet)
  BY KnownTypes
<1>4. /\ net' = [net EXCEPT ![p] =
           [q \in Peers |-> IF q = p THEN net[p][q]
                            ELSE enQ(net[p][q], Whohas(file))]]
      /\ UNCHANGED <<upload, download>>
  <2>1. gets[p] + 1 = 1
    BY <1>1
  <2> QED
    BY <1>3, <2>1 DEF handle_user_input, process_get, Paths
<1>5. Whohas(file) \in Packet /\ Whohas(file).type = "WHOHAS"
  BY <1>2, PacketTypes DEF Whohas
<1> HIDE DEF file
<1>6. \A a, b \in Peers : a # b =>
          net'[a][b] = IF a = p THEN enQ(net[a][b], Whohas(file)) ELSE net[a][b]
  BY <1>3, <1>4 DEF Paths
<1>7. \A q \in Peers : Offer(p, q) = {}
  <2>1. Wishes(p) = {}
    BY <1>1, EmptySeq DEF Wishes, Hashes
  <2> QED
    BY <2>1 DEF Offer
<1> SUFFICES ASSUME NEW a \in Peers, NEW b \in Peers, Offer(a, b)' # {},
                    NEW chan, NEW back, NEW u, NEW table,
                    chan = net'[a][b], back = net'[b][a],
                    u = upload'[b], table = download'[a]
             PROVE  Pair(sure, a, b, chan, back, u, table)'
  BY DEF Transfers, PairsOf
<1>8. a # b /\ u = upload[b] /\ table = download[a]
  BY <1>4 DEF Offer
<1>9. /\ chan = IF a = p THEN enQ(net[a][b], Whohas(file)) ELSE net[a][b]
      /\ back = IF b = p THEN enQ(net[b][a], Whohas(file)) ELSE net[b][a]
  BY <1>6, <1>8
<1>10. u \in UploadInfo \cup {NoUpload} /\ table \in [Slots -> Session]
  BY <1>3, <1>8
<1>11. CASE a = p
  <2>1. Carries(net) /\ TableFits(p, download[p]) /\ UploadFits(b, upload[b])
    BY FitsNow DEF Known
  <2>2. /\ \A i \in 1 .. Len(net[p][b]) : net[p][b][i] \in Fit(p, b)
        /\ \A i \in 1 .. Len(net[b][p]) : net[b][p][i] \in Fit(b, p)
    BY <2>1 DEF Carries
  <2>3. /\ \A i \in 1 .. Len(net[p][b]) : net[p][b][i].type \notin {"GET", "ACK"}
        /\ \A i \in 1 .. Len(net[b][p]) : net[b][p][i].type # "DATA"
    BY <1>7, <2>2 DEF Fit, Fits
  <2>4. u.to # p
    BY <1>7, <1>8, <2>1, PeersAssumption DEF UploadFits
  <2>5. Open(table, b) = {}
    BY <1>7, <1>8, <1>11, <2>1 DEF TableFits, Open
  <2>6. chan \in Seq(Packet) /\ back \in Seq(Packet)
    BY <1>3, <1>5, <1>8, <1>9, AppendProperties DEF enQ
  <2>7. \A i \in 1 .. Len(chan) : chan[i].type \notin {"GET", "ACK"}
    <3>1. \A i \in 1 .. Len(enQ(net[p][b], Whohas(file))) :
              enQ(net[p][b], Whohas(file))[i].type \notin {"GET", "ACK"}
      <4> DEFINE longer == Append(net[p][b], Whohas(file))
      <4>1. /\ Len(net[p][b]) \in Nat /\ Len(longer) = Len(net[p][b]) + 1
            /\ longer[Len(net[p][b]) + 1] = Whohas(file)
            /\ \A i \in 1 .. Len(net[p][b]) : longer[i] = net[p][b][i]
        BY <1>3, <1>5, AppendProperties
      <4> HIDE DEF longer
      <4>2. \A i \in 1 .. Len(longer) :
                i \in 1 .. Len(net[p][b]) \/ i = Len(net[p][b]) + 1
        BY <4>1
      <4>3. \A i \in 1 .. Len(longer) : longer[i].type \notin {"GET", "ACK"}
        BY <1>5, <2>3, <4>1, <4>2
      <4> QED
        BY <2>3, <4>3 DEF enQ, longer
    <3> QED
      BY <1>9, <1>11, <3>1
  <2>8. \A i \in 1 .. Len(back) : back[i].type # "DATA"
    BY <1>8, <1>9, <1>11, <2>3
  <2> QED
    BY <1>11, <2>4, <2>5, <2>6, <2>7, <2>8, FreshPair
<1>12. CASE a # p
  <2>1. request_file(a)' = request_file(a)
    BY <1>1, <1>12
  <2>2. Offer(a, b) # {}
    BY <2>1 DEF Offer, Wishes
  <2>3. Pair(sure, a, b, net[a][b], net[b][a], u, table)
    BY <1>8, <2>2 DEF Transfers, PairsOf
  <2>4. Pair(sure, a, b, chan, back, u, table)
    <3>1. CASE b = p
      BY <1>3, <1>5, <1>9, <1>10, <1>12, <2>3, <3>1, BackAdds
    <3>2. CASE b # p
      BY <1>9, <1>12, <2>3, <3>2
    <3> QED
      BY <3>1, <3>2
  <2>5. \A rid : Wanted(a, rid)' = Wanted(a, rid)
    BY <2>1 DEF Wanted
  <2>6. AskRule(a, b, table)' = AskRule(a, b, table)
    BY <2>5 DEF AskRule
  <2>7. Asking(a, b, chan, table)' = Asking(a, b, chan, table)
    BY <2>6 DEF Asking
  <2>8. \A k : Serving(a, k, chan, back, u, table)'
               = Serving(a, k, chan, back, u, table)
    BY <2>5 DEF Serving
  <2> QED
    BY <2>4, <2>7, <2>8 DEF Pair
<1> QED
  BY <1>11, <1>12

-----------------------------------------------------------------------------
LEMMA NextPairs ==
    ASSUME NEW sure \in BOOLEAN,
           Plain, Known, Transfers(sure), sure => GetsHaveRoom /\ ~Shared,
           SlotBeyond, Orderly, Orderly', [Next]_vars
    PROVE  Transfers(sure)'
<1>1. CASE UNCHANGED <<net, gets, upload, download>>
  BY <1>1, CalmPairs DEF Transfers
<1>2. OneSessionPerPeer /\ OneGet
  BY DEF Orderly, Plain
<1>3. ASSUME NEW p \in Peers,
             wake(p) \/ other_input(p) \/ work(p) \/ handle_user_input(p) \/ timer(p)
      PROVE  Transfers(sure)'
  BY <1>1, <1>2, <1>3, WorkPairs, UserInputPairs, TimerPairs
  DEF wake, other_input, client
<1>4. ASSUME NEW p \in Peers, NEW q \in Peers,
             process_inbound_udp(p, q) \/ disturb(p, q)
      PROVE  Transfers(sure)'
  BY <1>2, <1>4, ReceivePairs, DisturbPairs
<1> QED
  BY <1>1, <1>3, <1>4 DEF Next, vars, client

-----------------------------------------------------------------------------
(* What the transfers carry ends up in the file.                           *)
LEMMA AcceptStores ==
    ASSUME Plain, Known, PairInv, SlotBeyond, OneSessionPerPeer, BlocksInPlace,
           NEW p \in Peers, NEW q \in Peers,
           Arrived(q, p, "DATA"), accept_DATA(p, q, Head(net[q][p]))
    PROVE  LET k == session_from(p, q)
               s == download[p][k]
           IN  /\ k \in 0 .. MaxConn - 1 /\ s.active
               /\ s.rid \in 0 .. MaxLines - 1 /\ IsLine(p, s.rid)
               /\ s.pos \in Nat /\ s.pos + 1 \in 1 .. N
               /\ output' = [output EXCEPT
                     ![p][s.rid][s.pos + 1] = <<Wanted(p, s.rid), s.pos + 1>>]
               /\ UNCHANGED <<gets, waiting>>
               /\ \/ /\ s.pos + 1 < N
                     /\ download' = [download EXCEPT ![p][k] =
                           [s EXCEPT !.pos = s.pos + 1, !.seq = s.seq + 1]]
                     /\ UNCHANGED chunk_status
                  \/ /\ s.pos + 1 = N
                     /\ download' = [download EXCEPT ![p][k] = NoSession]
                     /\ chunk_status' = [chunk_status EXCEPT ![p][s.rid].status = 2]
                     /\ output'[p][s.rid] = ChunkOf(Wanted(p, s.rid))
<1> DEFINE k == session_from(p, q)
           m == Head(net[q][p])
           s == download[p][k]
           grown == [s EXCEPT !.pos = s.pos + 1, !.seq = s.seq + 1]
           c == Wanted(p, s.rid)
<1>1. /\ k \in 0 .. MaxConn - 1 /\ k \in Sessions(p)
      /\ IsLine(p, s.rid) /\ m.seq = s.pos + 1 /\ m.data = <<c, m.seq>>
  BY AcceptsRight DEF PairInv
<1>2. s \in Session /\ s.pos \in Nat /\ s.seq \in Nat /\ s.pos < N /\ s.active
  <2>1. download[p] \in [Slots -> Session] /\ k \in Slots
    BY <1>1, KnownTypes, TablesAssumption DEF Slots
  <2>2. s.pos < N /\ s.active
    BY <1>1 DEF Known, SessionInStep, Sessions
  <2> QED
    BY <2>1, <2>2 DEF Session
<1>3. s.rid \in 0 .. MaxLines - 1 /\ s.rid \in Lines /\ s.rid # -1
  <2>1. Len(request_file(p)) \in 0 .. MaxLines
    BY RequestFileType DEF Known, IInv
  <2> HIDE DEF s
  <2> QED
    BY <1>1, <2>1, RequestFilesAssumption DEF IsLine, Lines
<1>4. s.pos + 1 \in 1 .. N
  <2> HIDE DEF s
  <2> QED
    BY <1>2, NAssumption
<1>5. /\ output' = [output EXCEPT ![p][s.rid][s.pos + 1] = <<c, s.pos + 1>>]
      /\ UNCHANGED <<gets, waiting>>
  <2>1. line_written(s) = s.rid /\ block_written(s) = s.pos + 1
    BY <1>3 DEF line_written, block_written
  <2> QED
    BY <1>1, <2>1 DEF accept_DATA
<1>6. grown.pos = s.pos + 1
  <2> HIDE DEF s
  <2> QED
    BY <1>2 DEF Session
<1>7. CASE s.pos + 1 >= N
  <2>1. is_chunk_full(grown) /\ s.pos + 1 = N
    <3> HIDE DEF s, grown
    <3> QED
      BY <1>2, <1>6, <1>7, NAssumption DEF is_chunk_full
  <2>2. output[p] \in [0 .. MaxLines - 1 -> [1 .. N -> Cell]]
        /\ output \in [Peers -> [0 .. MaxLines - 1 -> [1 .. N -> Cell]]]
    BY DEF Known, IInv, TypeOK, DownloaderTypeOK
  <2>3. \A b \in 1 .. s.pos : output[p][s.rid][b] = ChunkOf(c)[b]
    BY <1>1 DEF BlocksInPlace
  <2>4. output'[p][s.rid] = ChunkOf(c)
    <3> HIDE DEF s, c
    <3>1. output'[p][s.rid] = [output[p][s.rid] EXCEPT ![s.pos + 1] = <<c, s.pos + 1>>]
      BY <1>3, <1>5, <2>2
    <3>2. output[p][s.rid] \in [1 .. N -> Cell]
      BY <1>3, <2>2
    <3>3. \A b \in 1 .. N : b \in 1 .. s.pos \/ b = s.pos + 1
      BY <1>2, <2>1, NAssumption
    <3>4. \A b \in 1 .. N : output'[p][s.rid][b] = <<c, b>>
      BY <2>3, <3>1, <3>2, <3>3 DEF ChunkOf
    <3>5. output'[p][s.rid] = [b \in 1 .. N |-> output'[p][s.rid][b]]
      BY <3>1, <3>2
    <3> QED
      BY <3>4, <3>5 DEF ChunkOf
  <2>5. check_hash(p, s.rid, output'[p][line_written(s)])
    <3>1. chunk_status[p][s.rid].hash = c
      BY <1>1, FitsNow DEF Known, StatusFits, IsLine
    <3>2. line_written(s) = s.rid
      BY <1>3 DEF line_written
    <3> QED
      BY <2>4, <3>1, <3>2 DEF check_hash
  <2>6. /\ download' = [download EXCEPT ![p][k] = NoSession]
        /\ chunk_status' = [chunk_status EXCEPT ![p][s.rid].status = 2]
    BY <2>1, <2>5 DEF accept_DATA
  <2> QED
    BY <1>1, <1>2, <1>3, <1>4, <1>5, <2>1, <2>4, <2>6
<1>8. CASE ~(s.pos + 1 >= N)
  <2>1. ~is_chunk_full(grown) /\ s.pos + 1 < N
    <3> HIDE DEF s, grown
    <3> QED
      BY <1>2, <1>6, <1>8, NAssumption DEF is_chunk_full
  <2>2. download' = [download EXCEPT ![p][k] = grown] /\ UNCHANGED chunk_status
    BY <2>1 DEF accept_DATA
  <2> QED
    BY <1>1, <1>2, <1>3, <1>4, <1>5, <2>1, <2>2
<1> QED
  BY <1>7, <1>8

(* Blocks and chunks of one peer.                                          *)
Stored(p) ==
    /\ download[p][-1] = HeapSlot
    /\ \A i \in Sessions(p) : \A b \in 1 .. download[p][i].pos :
           output[p][download[p][i].rid][b]
               = ChunkOf(Wanted(p, download[p][i].rid))[b]
    /\ \A l \in 0 .. Len(request_file(p)) - 1 :
           chunk_status[p][l].status = 2 => output[p][l] = ChunkOf(Wanted(p, l))

AllStored == \A p \in Peers : Stored(p)

LEMMA StoredIs == AllStored <=> SlotBeyond /\ BlocksInPlace /\ GotIntact
  BY DEF AllStored, Stored, SlotBeyond, BlocksInPlace, GotIntact

LEMMA SameStored ==
    ASSUME NEW p \in Peers, Stored(p), request_file(p)' = request_file(p),
           download'[p] = download[p], output'[p] = output[p],
           \A l \in 0 .. Len(request_file(p)) - 1 :
               chunk_status'[p][l].status = 2 => chunk_status[p][l].status = 2
    PROVE  Stored(p)'
<1>1. Sessions(p)' = Sessions(p)
  BY DEF Sessions
<1> QED
  BY <1>1 DEF Stored, Wanted

LEMMA AcceptStored ==
    ASSUME Plain, Known, PairInv, AllStored, OneSessionPerPeer,
           NEW p \in Peers, NEW q \in Peers,
           Arrived(q, p, "DATA"), accept_DATA(p, q, Head(net[q][p]))
    PROVE  AllStored'
<1> DEFINE k == session_from(p, q)
           s == download[p][k]
           grown == [s EXCEPT !.pos = s.pos + 1, !.seq = s.seq + 1]
           c == Wanted(p, s.rid)
<1>1. SlotBeyond /\ BlocksInPlace
  BY StoredIs
<1>2. /\ k \in 0 .. MaxConn - 1 /\ s.active
      /\ s.rid \in 0 .. MaxLines - 1 /\ IsLine(p, s.rid)
      /\ s.pos \in Nat /\ s.pos + 1 \in 1 .. N
      /\ output' = [output EXCEPT ![p][s.rid][s.pos + 1] = <<c, s.pos + 1>>]
      /\ UNCHANGED <<gets, waiting>>
      /\ \/ /\ s.pos + 1 < N
            /\ download' = [download EXCEPT ![p][k] = grown]
            /\ UNCHANGED chunk_status
         \/ /\ s.pos + 1 = N
            /\ download' = [download EXCEPT ![p][k] = NoSession]
            /\ chunk_status' = [chunk_status EXCEPT ![p][s.rid].status = 2]
            /\ output'[p][s.rid] = ChunkOf(c)
  BY <1>1, AcceptStores
<1>3. /\ output \in [Peers -> [0 .. MaxLines - 1 -> [1 .. N -> Cell]]]
      /\ download \in [Peers -> [Slots -> Session]]
      /\ chunk_status \in [Peers -> [Lines -> ChunkState]]
      /\ k \in Slots /\ k # -1 /\ -1 \in Slots /\ s \in Session
      /\ \A i \in 0 .. MaxConn - 1 : i \in Slots
  <2>1. \A i \in 0 .. MaxConn - 1 : i \in Slots /\ i # -1
    BY TablesAssumption DEF Slots
  <2>2. -1 \in Slots
    BY TablesAssumption DEF Slots
  <2> QED
    BY <1>2, <2>1, <2>2 DEF Known, IInv, TypeOK, DownloaderTypeOK
<1>4. grown.pos = s.pos + 1 /\ grown.rid = s.rid
  <2> HIDE DEF s
  <2> QED
    BY <1>3 DEF Session
<1>5. \A r : request_file(r)' = request_file(r)
  BY <1>2 DEF request_file
<1> HIDE DEF grown, s, k, c
<1>6. ASSUME NEW r \in Peers, r # p PROVE Stored(r)'
  <2>1. download'[r] = download[r]
    BY <1>2, <1>3, <1>6
  <2>2. output'[r] = output[r]
    BY <1>2, <1>3, <1>6
  <2>3. chunk_status'[r] = chunk_status[r]
    BY <1>2, <1>3, <1>6
  <2> QED
    BY <1>5, <2>1, <2>2, <2>3, SameStored DEF AllStored
<1>7. Stored(p)
  BY DEF AllStored
<1>8. /\ output'[p] = [output[p] EXCEPT ![s.rid][s.pos + 1] = <<c, s.pos + 1>>]
      /\ output[p] \in [0 .. MaxLines - 1 -> [1 .. N -> Cell]]
  BY <1>2, <1>3
<1>9. /\ \A l \in 0 .. MaxLines - 1 : l # s.rid => output'[p][l] = output[p][l]
      /\ output'[p][s.rid] = [output[p][s.rid] EXCEPT ![s.pos + 1] = <<c, s.pos + 1>>]
      /\ output[p][s.rid] \in [1 .. N -> Cell]
  <2> DEFINE v == <<c, s.pos + 1>>
             b == s.pos + 1
             l0 == s.rid
  <2>1. l0 \in 0 .. MaxLines - 1 /\ output'[p] = [output[p] EXCEPT ![l0][b] = v]
    BY <1>2, <1>8
  <2> HIDE DEF v, b, l0
  <2>2. /\ \A l \in 0 .. MaxLines - 1 : l # l0 => output'[p][l] = output[p][l]
        /\ output'[p][l0] = [output[p][l0] EXCEPT ![b] = v]
        /\ output[p][l0] \in [1 .. N -> Cell]
    BY <1>8, <2>1
  <2> QED
    BY <2>2 DEF v, b, l0
<1>10. \A b \in 1 .. N : output'[p][s.rid][b] =
           IF b = s.pos + 1 THEN ChunkOf(c)[b] ELSE output[p][s.rid][b]
  <2> SUFFICES ASSUME NEW b \in 1 .. N
               PROVE  output'[p][s.rid][b] = IF b = s.pos + 1 THEN ChunkOf(c)[b]
                                             ELSE output[p][s.rid][b]
    OBVIOUS
  <2>1. ChunkOf(c)[b] = <<c, b>>
    BY DEF ChunkOf
  <2>2. CASE b = s.pos + 1
    <3>1. output'[p][s.rid][b] = <<c, s.pos + 1>>
      BY <1>9, <2>2
    <3> QED
      BY <2>1, <2>2, <3>1
  <2>3. CASE b # s.pos + 1
    BY <1>9, <2>3
  <2> QED
    BY <2>2, <2>3
<1>11. \A l \in 0 .. Len(request_file(p)) - 1 : l \in Lines /\ l \in 0 .. MaxLines - 1
  BY RequestFileType, RequestFilesAssumption DEF Lines, Known, IInv
<1>12. c = Wanted(p, s.rid)
  BY DEF c
<1>13. /\ download'[p][-1] = HeapSlot
       /\ \A i \in 0 .. MaxConn - 1 : i # k => download'[p][i] = download[p][i]
       /\ download'[p][k] \in {grown, NoSession}
  <2>1. download[p][-1] = HeapSlot
    BY <1>7 DEF Stored
  <2>2. ASSUME NEW e, download' = [download EXCEPT ![p][k] = e]
        PROVE  /\ download'[p][-1] = HeapSlot /\ download'[p][k] = e
               /\ \A i \in 0 .. MaxConn - 1 : i # k => download'[p][i] = download[p][i]
    <3>1. download'[p] = [download[p] EXCEPT ![k] = e] /\ download[p] \in [Slots -> Session]
      BY <1>3, <2>2
    <3> QED
      BY <1>3, <2>1, <3>1
  <2> QED
    BY <1>2, <2>2
<1>14. ASSUME NEW i \in 0 .. MaxConn - 1, download'[p][i].active,
              NEW b \in 1 .. download'[p][i].pos
       PROVE  output'[p][download'[p][i].rid][b] = ChunkOf(Wanted(p, download'[p][i].rid))[b]
  <2> DEFINE e == download'[p][i]
  <2>1. /\ e.rid \in 0 .. MaxLines - 1 /\ b \in 1 .. N /\ e.pos \in Nat
        /\ \/ b \in 1 .. N /\ e.rid = s.rid /\ b = s.pos + 1
           \/ output[p][e.rid][b] = ChunkOf(Wanted(p, e.rid))[b]
    <3>1. CASE i # k
      <4>1. e = download[p][i] /\ i \in Sessions(p)
        BY <1>13, <1>14, <3>1 DEF Sessions
      <4>2. IsLine(p, e.rid)
        BY <1>14, <4>1, FitsNow DEF TableFits, Known, Sessions
      <4>3. e.pos \in Nat /\ e.pos < N
        <5>1. e \in Session
          BY <1>3, <4>1
        <5> QED
          BY <4>1, <5>1 DEF Known, SessionInStep, Session
      <4>4. output[p][e.rid][b] = ChunkOf(Wanted(p, e.rid))[b]
        BY <1>7, <1>14, <4>1 DEF Stored
      <4>5. b \in 1 .. N
        <5> HIDE DEF e
        <5>1. b \in 1 .. e.pos
          BY <1>14 DEF e
        <5> QED
          BY <4>3, <5>1, NAssumption
      <4> QED
        BY <1>11, <4>2, <4>3, <4>4, <4>5 DEF IsLine
    <3>2. CASE i = k
      <4>1. e = grown
        BY <1>13, <1>14, <3>2 DEF NoSession
      <4>2. e.pos = s.pos + 1 /\ e.rid = s.rid
        BY <1>4, <4>1
      <4>3. b \in 1 .. s.pos + 1
        BY <1>14, <4>2
      <4>4. b \in 1 .. s.pos \/ b = s.pos + 1
        BY <1>2, <4>3
      <4>5. b \in 1 .. N
        BY <1>2, <4>3, NAssumption
      <4>6. b \in 1 .. s.pos => output[p][s.rid][b] = ChunkOf(Wanted(p, s.rid))[b]
        BY <1>2, <1>7 DEF Stored, Sessions, s
      <4> HIDE DEF e
      <4> QED
        BY <1>2, <4>2, <4>4, <4>5, <4>6
    <3> QED
      BY <3>1, <3>2
  <2> HIDE DEF e
  <2>2. output'[p][e.rid][b] = ChunkOf(Wanted(p, e.rid))[b]
    <3>1. CASE e.rid # s.rid
      BY <1>9, <2>1, <3>1
    <3>2. CASE e.rid = s.rid
      BY <1>10, <1>12, <2>1, <3>2
    <3> QED
      BY <3>1, <3>2
  <2> QED
    BY <2>2 DEF e
<1>15. ASSUME NEW l \in 0 .. Len(request_file(p)) - 1, chunk_status'[p][l].status = 2
       PROVE  output'[p][l] = ChunkOf(Wanted(p, l))
  <2>1. l \in Lines /\ l \in 0 .. MaxLines - 1
    BY <1>11
  <2>2. CASE l # s.rid
    <3>1. chunk_status'[p][l] = chunk_status[p][l]
      BY <1>2, <1>3, <2>1, <2>2
    <3> QED
      BY <1>7, <1>9, <1>15, <2>1, <2>2, <3>1 DEF Stored
  <2>3. CASE l = s.rid /\ chunk_status'[p][l] = chunk_status[p][l]
    <3>1. output[p][s.rid] = ChunkOf(c)
      BY <1>7, <1>12, <1>15, <2>3 DEF Stored
    <3>2. \A b \in 1 .. N : output'[p][s.rid][b] = ChunkOf(c)[b]
      BY <1>10, <3>1
    <3>3. output'[p][s.rid] = [b \in 1 .. N |-> output'[p][s.rid][b]]
      BY <1>9
    <3> QED
      BY <1>12, <2>3, <3>2, <3>3 DEF ChunkOf
  <2>4. CASE l = s.rid /\ output'[p][s.rid] = ChunkOf(c)
    BY <1>12, <2>4
  <2> QED
    BY <1>2, <2>2, <2>3, <2>4
<1>16. Stored(p)'
  <2>1. \A rid : Wanted(p, rid)' = Wanted(p, rid)
    BY <1>5 DEF Wanted
  <2> QED
    BY <1>5, <1>13, <1>14, <1>15, <2>1 DEF Stored, Sessions
<1> QED
  BY <1>6, <1>16 DEF AllStored

LEMMA OpeningStored ==
    ASSUME Known, AllStored, Orderly', NEW p \in Peers, NEW q \in Peers,
           NEW rid, OpensFor(p, q, rid),
           \A r \in Peers : \A l \in 0 .. Len(request_file(r)) - 1 :
               chunk_status'[r][l].status = 2 => chunk_status[r][l].status = 2
    PROVE  AllStored'
<1> DEFINE f == find_free_download_info(download[p])
<1>1. /\ f \in 0 .. MaxConn - 1
      /\ download'[p] = [download[p] EXCEPT ![f] = new_session(rid, q)]
      /\ \A r \in Peers : r # p => download'[r] = download[r]
  BY OpensOrderly
<1>2. \A r : request_file(r)' = request_file(r) /\ output'[r] = output[r]
  BY DEF OpensFor, request_file
<1> HIDE DEF f
<1>3. ASSUME NEW r \in Peers, r # p PROVE Stored(r)'
  BY <1>1, <1>2, <1>3, SameStored DEF AllStored
<1>4. Stored(p)'
  <2>0. /\ request_file(p)' = request_file(p) /\ output'[p] = output[p]
        /\ \A l : Wanted(p, l)' = Wanted(p, l)
    BY <1>2 DEF Wanted
  <2>1. Stored(p) /\ download[p] \in [Slots -> Session]
    BY KnownTypes DEF AllStored
  <2>2. /\ -1 # f /\ -1 \in Slots
        /\ \A i \in 0 .. MaxConn - 1 : i \in Slots
    BY <1>1, TablesAssumption DEF Slots
  <2>3. download'[p][-1] = HeapSlot
    BY <1>1, <2>1, <2>2 DEF Stored
  <2>4. ASSUME NEW i \in 0 .. MaxConn - 1, download'[p][i].active,
               NEW b \in 1 .. download'[p][i].pos
        PROVE  output'[p][download'[p][i].rid][b]
                   = ChunkOf(Wanted(p, download'[p][i].rid))[b]
    <3>1. CASE i = f
      <4>1. download'[p][i].pos = 0
        BY <1>1, <2>1, <2>2, <3>1 DEF new_session
      <4> QED
        BY <4>1
    <3>2. CASE i # f
      <4>1. download'[p][i] = download[p][i] /\ i \in Sessions(p)
        BY <1>1, <2>1, <2>2, <2>4, <3>2 DEF Sessions
      <4> QED
        BY <2>0, <2>1, <4>1 DEF Stored
    <3> QED
      BY <3>1, <3>2
  <2>5. ASSUME NEW l \in 0 .. Len(request_file(p)) - 1,
               chunk_status'[p][l].status = 2
        PROVE  output'[p][l] = ChunkOf(Wanted(p, l))
    BY <2>0, <2>1, <2>5 DEF Stored
  <2> QED
    BY <2>0, <2>3, <2>4, <2>5 DEF Stored, Sessions
<1> QED
  BY <1>3, <1>4 DEF AllStored

(* What the first GET command of a user leaves in the tables and the file. *)
LEMMA GetStarts ==
    ASSUME OneGet, Known, NEW p \in Peers, handle_user_input(p)
    PROVE  /\ Sessions(p) = {} /\ download' = download
           /\ \A l \in 0 .. Len(RequestFiles[p][1]) - 1 :
                 chunk_status'[p][l].status = 0
           /\ output'[p] = [l \in 0 .. MaxLines - 1 |-> [b \in 1 .. N |-> Hole]]
           /\ \A r \in Peers : r # p => /\ chunk_status'[r] = chunk_status[r]
                                        /\ output'[r] = output[r]
<1> DEFINE file == RequestFiles[p][1]
<1>1. gets[p] = 0 /\ 1 \in 1 .. Len(RequestFiles[p]) /\ request_file(p) = <<>>
  BY FirstGet DEF Known
<1>2. file \in Seq(Chunks) /\ Len(file) <= MaxLines /\ Len(file) \in Nat
  <2>1. RequestFiles[p] \in Seq(Seq(Chunks)) /\ Len(file) <= MaxLines
    BY <1>1, RequestFilesAssumption
  <2>2. file \in Seq(Chunks)
    BY <1>1, <2>1, ElementOfSeq
  <2> QED
    BY <2>1, <2>2
<1>3. Sessions(p) = {}
  <2>1. TableFits(p, download[p])
    BY FitsNow DEF Known
  <2>2. \A l : ~IsLine(p, l)
    BY <1>1, EmptySeq DEF IsLine
  <2> QED
    BY <2>1, <2>2 DEF TableFits, Sessions
<1>4. /\ chunk_status \in [Peers -> [Lines -> ChunkState]]
      /\ output \in [Peers -> [0 .. MaxLines - 1 -> [1 .. N -> Cell]]]
  BY DEF Known, IInv, TypeOK, DownloaderTypeOK
<1>5. PICK h \in HeapStatus :
          chunk_status' = [chunk_status EXCEPT ![p] =
              [l \in Lines |-> IF l \in 0 .. Len(file) - 1
                               THEN [status |-> 0, hash |-> file[l + 1]]
                               ELSE [status |-> h, hash |-> NoChunk]]]
  <2>1. gets[p] + 1 = 1
    BY <1>1
  <2> QED
    BY <2>1 DEF handle_user_input, process_get
<1>6. \A l \in 0 .. Len(file) - 1 : l \in Lines
  BY <1>2, RequestFilesAssumption DEF Lines
<1> HIDE DEF file
<1>7. \A l \in 0 .. Len(file) - 1 : chunk_status'[p][l].status = 0
  BY <1>4, <1>5, <1>6
<1>8. \A r \in Peers : r # p => chunk_status'[r] = chunk_status[r]
  BY <1>4, <1>5
<1>9. /\ output'[p] = [l \in 0 .. MaxLines - 1 |-> [b \in 1 .. N |-> Hole]]
      /\ \A r \in Peers : r # p => output'[r] = output[r]
      /\ download' = download
  BY <1>4 DEF handle_user_input, process_get
<1> QED
  BY <1>3, <1>7, <1>8, <1>9 DEF file

LEMMA UserInputStored ==
    ASSUME OneGet, Known, AllStored, NEW p \in Peers, handle_user_input(p)
    PROVE  AllStored'
<1> DEFINE file == RequestFiles[p][1]
<1>1. /\ request_file(p)' = file
      /\ \A r \in Peers : r # p => request_file(r)' = request_file(r)
  BY FirstGet DEF Known
<1>2. Sessions(p) = {}
  BY GetStarts
<1>3. /\ \A l \in 0 .. Len(file) - 1 : chunk_status'[p][l].status = 0
      /\ \A r \in Peers : r # p => /\ chunk_status'[r] = chunk_status[r]
                                   /\ output'[r] = output[r]
      /\ download' = download
  BY GetStarts
<1> HIDE DEF file
<1>4. ASSUME NEW r \in Peers, r # p PROVE Stored(r)'
  BY <1>1, <1>3, <1>4, SameStored DEF AllStored
<1>5. Stored(p)'
  <2>1. Stored(p)
    BY DEF AllStored
  <2>2. Sessions(p)' = {} /\ download'[p][-1] = HeapSlot
    BY <1>2, <1>3, <2>1 DEF Sessions, Stored
  <2>3. \A l \in 0 .. Len(request_file(p)') - 1 : chunk_status'[p][l].status # 2
    BY <1>1, <1>3
  <2> QED
    BY <2>2, <2>3 DEF Stored
<1> QED
  BY <1>4, <1>5 DEF AllStored

LEMMA CalmStored ==
    ASSUME AllStored, UNCHANGED <<gets, chunk_status, download, output>>
    PROVE  AllStored'
<1>1. \A r : request_file(r)' = request_file(r)
  BY DEF request_file
<1> QED
  BY <1>1, SameStored DEF AllStored

LEMMA NextStored ==
    ASSUME Plain, Known, PairInv, AllStored, Orderly, Orderly', [Next]_vars
    PROVE  AllStored'
<1>1. OneGet /\ OneSessionPerPeer
  BY DEF Plain, Orderly
<1>2. CASE UNCHANGED client
  BY <1>2, CalmStored DEF client
<1>3. ASSUME NEW p \in Peers, get_first_hash(p) \/ send_entry(p), UNCHANGED upload
      PROVE  AllStored'
  <2>1. CASE get_first_hash(p)
    <3> DEFINE rid == search_id_for_hash(p, Head(task[p].left))
    <3>1. \A r \in Peers : \A l \in 0 .. Len(request_file(r)) - 1 :
              chunk_status'[r][l].status = 2 => chunk_status[r][l].status = 2
      <4>1. chunk_status \in [Peers -> [Lines -> ChunkState]]
        BY DEF Known, IInv, TypeOK, DownloaderTypeOK
      <4>2. chunk_status' = [chunk_status EXCEPT ![p][rid] =
                                [status |-> 1, hash |-> Head(task[p].left)]]
        BY <2>1 DEF get_first_hash
      <4> HIDE DEF rid
      <4>3. \A r \in Peers : r # p => chunk_status'[r] = chunk_status[r]
        BY <4>1, <4>2
      <4>4. \A l \in Lines : chunk_status'[p][l] = chunk_status[p][l]
                             \/ chunk_status'[p][l].status = 1
        BY <4>1, <4>2
      <4>5. \A r \in Peers : \A l \in 0 .. Len(request_file(r)) - 1 : l \in Lines
        <5>1. \A r \in Peers : Len(request_file(r)) \in 0 .. MaxLines
          BY RequestFileType DEF Known, IInv
        <5> QED
          BY <5>1, RequestFilesAssumption DEF Lines
      <4> QED
        BY <4>3, <4>4, <4>5
    <3> QED
      BY <1>3, <2>1, <3>1, OpeningIs, OpeningStored
  <2>2. CASE send_entry(p)
    <3>1. UNCHANGED chunk_status
      BY <2>2 DEF send_entry
    <3> QED
      BY <1>3, <2>2, <3>1, OpeningIs, OpeningStored
  <2> QED
    BY <1>3, <2>1, <2>2
<1>4. ASSUME NEW p \in Peers,
             wake(p) \/ other_input(p) \/ work(p) \/ handle_user_input(p) \/ timer(p)
      PROVE  AllStored'
  BY <1>1, <1>2, <1>3, <1>4, CalmStored, UserInputStored
  DEF wake, other_input, timer, work, skip_hash, queue_hash, drop_entry,
      keep_entry
<1>5. ASSUME NEW p \in Peers, NEW q \in Peers, process_inbound_udp(p, q)
      PROVE  AllStored'
  BY <1>1, <1>2, <1>5, AcceptStored
  DEF process_inbound_udp, deal_with_DATA, deal_with_IHAVE, ignore_DATA
<1> QED
  BY <1>2, <1>4, <1>5 DEF Next, vars, disturb

-----------------------------------------------------------------------------
(* A session ends in accept_DATA only, with its chunk verified.            *)
Verified(p, i) ==
    ~download'[p][i].active =>
        chunk_status'[p][download[p][i].rid].status = 2

LEMMA AcceptVerifies ==
    ASSUME Plain, Known, PairInv, AllStored, OneSessionPerPeer,
           NEW p \in Peers, NEW q \in Peers,
           Arrived(q, p, "DATA"), accept_DATA(p, q, Head(net[q][p])),
           NEW r \in Peers, NEW i \in Sessions(r)
    PROVE  Verified(r, i)
<1> DEFINE k == session_from(p, q)
           s == download[p][k]
           grown == [s EXCEPT !.pos = s.pos + 1, !.seq = s.seq + 1]
<1>1. /\ k \in 0 .. MaxConn - 1 /\ s.active /\ s.rid \in 0 .. MaxLines - 1
      /\ \/ download' = [download EXCEPT ![p][k] = grown]
         \/ /\ download' = [download EXCEPT ![p][k] = NoSession]
            /\ chunk_status' = [chunk_status EXCEPT ![p][s.rid].status = 2]
  <2>1. SlotBeyond /\ BlocksInPlace
    BY StoredIs
  <2> QED
    BY <2>1, AcceptStores
<1>2. /\ download \in [Peers -> [Slots -> Session]] /\ s \in Session
      /\ chunk_status \in [Peers -> [Lines -> ChunkState]]
      /\ i \in Slots /\ k \in Slots /\ s.rid \in Lines /\ download[r][i].active
  <2>1. \A j \in 0 .. MaxConn - 1 : j \in Slots
    BY TablesAssumption DEF Slots
  <2>2. \A l \in 0 .. MaxLines - 1 : l \in Lines
    BY RequestFilesAssumption DEF Lines
  <2> QED
    BY <1>1, <2>1, <2>2 DEF Known, IInv, TypeOK, DownloaderTypeOK, Sessions
<1>3. grown.active
  <2> HIDE DEF s
  <2> QED
    BY <1>1, <1>2 DEF Session
<1> HIDE DEF k, grown
<1>4. CASE r = p /\ i = k
  <2>1. CASE download' = [download EXCEPT ![p][k] = grown]
    BY <1>2, <1>3, <1>4, <2>1 DEF Verified
  <2>2. CASE chunk_status' = [chunk_status EXCEPT ![p][s.rid].status = 2]
    <3>1. download[r][i] = s
      BY <1>4
    <3> HIDE DEF s
    <3>2. chunk_status'[p][s.rid].status = 2
      BY <1>2, <2>2 DEF ChunkState, Status
    <3> QED
      BY <1>4, <3>1, <3>2 DEF Verified
  <2> QED
    BY <1>1, <2>1, <2>2
<1>5. CASE ~(r = p /\ i = k)
  <2>1. ASSUME NEW e, download' = [download EXCEPT ![p][k] = e]
        PROVE  download'[r][i] = download[r][i]
    BY <1>2, <1>5, <2>1
  <2>2. download'[r][i] = download[r][i]
    BY <1>1, <2>1
  <2> QED
    BY <1>2, <2>2 DEF Verified
<1> QED
  BY <1>4, <1>5

LEMMA NextVerifies ==
    ASSUME Plain, Known, PairInv, AllStored, OneSessionPerPeer, [Next]_vars,
           NEW r \in Peers, NEW i \in Sessions(r)
    PROVE  Verified(r, i)
<1>1. download[r][i].active /\ i \in 0 .. MaxConn - 1
  BY DEF Sessions
<1>2. CASE UNCHANGED download
  BY <1>1, <1>2 DEF Verified
<1>3. ASSUME NEW p \in Peers, get_first_hash(p) \/ send_entry(p)
      PROVE  Verified(r, i)
  <2>1. PICK rid, q : download' = [download EXCEPT ![p] = with_session(@, rid, q)]
    BY <1>3 DEF get_first_hash, send_entry
  <2>2. download \in [Peers -> [Slots -> Session]]
    BY KnownTypes
  <2>3. download'[r][i] = download[r][i]
    <3>1. CASE r # p
      BY <2>1, <2>2, <3>1
    <3>2. CASE r = p
      <4>1. download'[p] = with_session(download[p], rid, q)
        BY <2>1, <2>2
      <4> QED
        BY <1>1, <2>2, <3>2, <4>1, OpeningChangesNone
    <3> QED
      BY <3>1, <3>2
  <2> QED
    BY <1>1, <2>3 DEF Verified
<1>4. ASSUME NEW p \in Peers,
             wake(p) \/ other_input(p) \/ work(p) \/ handle_user_input(p) \/ timer(p)
      PROVE  Verified(r, i)
  BY <1>2, <1>3, <1>4
  DEF wake, other_input, timer, work, skip_hash, queue_hash, drop_entry,
      keep_entry, handle_user_input, process_get, client
<1>5. ASSUME NEW p \in Peers, NEW q \in Peers, process_inbound_udp(p, q)
      PROVE  Verified(r, i)
  BY <1>2, <1>5, AcceptVerifies
  DEF process_inbound_udp, deal_with_DATA, deal_with_IHAVE, ignore_DATA, client
<1> QED
  BY <1>2, <1>4, <1>5 DEF Next, vars, disturb, client

-----------------------------------------------------------------------------
(* Initially.                                                              *)
LEMMA InitTransfers ==
    ASSUME Init
    PROVE  (\A sure : Transfers(sure)) /\ AllStored
<1>1. \A p, q \in Peers : Offer(p, q) = {}
  BY EmptySeq DEF Init, DownloaderInit, Offer, Wishes, Hashes, request_file
<1>2. \A sure : Transfers(sure)
  BY <1>1 DEF Transfers, PairsOf
<1>3. ASSUME NEW p \in Peers PROVE Stored(p)
  <2>1. -1 \in Slots /\ \A i \in 0 .. MaxConn - 1 : i \in Slots /\ i # -1
    BY TablesAssumption DEF Slots
  <2>2. download[p][-1] = HeapSlot /\ Sessions(p) = {}
    BY <2>1 DEF Init, DownloaderInit, Sessions, NoSession
  <2>3. Len(request_file(p)) = 0
    BY EmptySeq DEF Init, DownloaderInit, request_file
  <2> QED
    BY <2>2, <2>3 DEF Stored
<1> QED
  BY <1>2, <1>3 DEF AllStored

LEMMA InitKnown == Init => Known
<1>1. Init => SessionInStep
  BY TablesAssumption
  DEF Init, DownloaderInit, SessionInStep, Sessions, Slots, NoSession
<1>2. Init => DataHonest
  BY EmptySeq DEF Init, NetworkInit, DataHonest, HonestPaths
<1> QED
  BY <1>1, <1>2, InitIInv, InitFits DEF Known

LEMMA NextKnown == OneGet /\ Known /\ [Next]_vars => Known'
  BY NextIInv, NextFits, NextInStep, NextHonest DEF Known, IInv

(* In a swarm in which every peer serves one other and no DATA is for the  *)
(* memory in front of the table, as long as the waiting list does what it  *)
(* is for -- no two sessions with one provider, no full table -- no packet *)
(* that is lost and no block or ACK that is late or repeated, by the       *)
(* network or by the timer, spoils a chunk: the blocks a session has       *)
(* stored are the first blocks of its chunk, what was reported GOT is the  *)
(* chunk, and no download ends with CORRUPTED.                             *)
THEOREM OrderKeepsChunks ==
    ASSUME Plain
    PROVE  Spec /\ []Orderly =>
               /\ []BlocksInPlace /\ []GotIntact /\ EveryDownloadVerifies
<1> DEFINE Inv == Known /\ PairInv /\ AllStored
           VStep == \A p \in Peers : \A i \in Sessions(p) : Verified(p, i)
<1>1. Init => Inv
  BY InitKnown, InitTransfers DEF PairInv
<1>2. Inv /\ Orderly /\ Orderly' /\ [Next]_vars => Inv'
  <2> SUFFICES ASSUME Inv, Orderly, Orderly', [Next]_vars PROVE Inv'
    OBVIOUS
  <2>1. OneGet /\ SlotBeyond
    BY StoredIs DEF Plain
  <2>2. Known'
    BY <2>1, NextKnown
  <2>3. PairInv'
    BY <2>1, NextPairs DEF PairInv
  <2> QED
    BY <2>1, <2>2, <2>3, NextStored
<1>3. Inv /\ Orderly /\ [Next]_vars => VStep
  BY NextVerifies DEF Orderly
<1>4. Inv => BlocksInPlace /\ GotIntact
  BY StoredIs
<1>5. VStep => \A p \in Peers : \A i \in Sessions(p) :
          ~download'[p][i].active =>
              chunk_status'[p][download[p][i].rid].status = 2
  BY DEF Verified
<1> HIDE DEF Inv, VStep
<1> QED
  BY <1>1, <1>2, <1>3, <1>4, <1>5, PTL DEF Spec, EveryDownloadVerifies

-----------------------------------------------------------------------------
(* Where no path is full, the two ends of a transfer agree.                *)
LEMMA ServedIs ==
    ASSUME Known, Transfers(TRUE), OneSessionPerPeer
    PROVE  UploadServesSession /\ SenderNotAhead
<1> SUFFICES ASSUME NEW p \in Peers, NEW i \in Sessions(p), NEW s, NEW q,
                    s = download[p][i], q = s.from
             PROVE  \/ GetInFlight(p, q)
                    \/ /\ upload[q].to = p
                       /\ upload[q].chunk = Wanted(p, s.rid)
                       /\ upload[q].max_ack <= IF s.pos = 0 THEN 1 ELSE s.pos
  BY DEF UploadServesSession, SenderNotAhead
<1>1. i \in 0 .. MaxConn - 1 /\ s.active
  BY DEF Sessions
<1>2. q \in Peers /\ Offer(p, q) # {}
  <2>1. TableFits(p, download[p])
    BY FitsNow DEF Known
  <2> QED
    BY <1>1, <2>1 DEF TableFits
<1>3. Pair(TRUE, p, q, net[p][q], net[q][p], upload[q], download[p])
  BY <1>2 DEF Transfers, PairsOf
<1>4. i \in Open(download[p], q)
  BY <1>1 DEF Open
<1>5. CASE Quiet(TRUE, p, q, net[p][q], net[q][p], upload[q], download[p])
  <2>1. Holds(net[p][q], "GET")
    BY <1>4, <1>5 DEF Quiet, Awaits
  <2>2. net[p][q] \in Seq(Packet)
    BY <1>2, KnownTypes
  <2>3. DOMAIN net[p][q] = 1 .. Len(net[p][q])
    BY <2>2
  <2> QED
    BY <2>1, <2>3 DEF Holds, GetInFlight
<1>6. ASSUME NEW k \in Open(download[p], q),
             Serving(p, k, net[p][q], net[q][p], upload[q], download[p])
      PROVE  /\ upload[q].to = p
             /\ upload[q].chunk = Wanted(p, s.rid)
             /\ upload[q].max_ack <= IF s.pos = 0 THEN 1 ELSE s.pos
  <2>1. k = i
    BY <1>4 DEF OneSessionPerPeer, Open, Sessions
  <2> QED
    BY <1>6, <2>1 DEF Serving, Top
<1> QED
  BY <1>3, <1>5, <1>6 DEF Pair

(* An ACK that the provider stores is for no earlier block than it knew of.*)
LEMMA AckGrows ==
    ASSUME NEW p, NEW q, NEW chan \in Seq(Packet), NEW back,
           NEW u \in UploadInfo, NEW table, chan # <<>>,
           Pair(TRUE, p, q, chan, back, u, table),
           Head(chan).type = "ACK", NEW a \in Nat, a = Head(chan).ack
    PROVE  u.max_ack <= a
<1>1. u.max_ack \in Nat /\ u.max_ack <= N - 1
  BY NAssumption DEF UploadInfo
<1>2. CASE Quiet(TRUE, p, q, chan, back, u, table)
  <2>1. a >= Low(TRUE)
    BY <1>2, AwaitedHead DEF Quiet
  <2> QED
    BY <1>1, <2>1, NAssumption DEF Low
<1>3. ASSUME NEW k \in Open(table, q), Serving(p, k, chan, back, u, table)
      PROVE  u.max_ack <= a
  <2>1. <<Head(chan), Head(chan), Head(chan)>> \in
            AckedRule(u.max_ack, Top(table[k].pos))
    BY <1>3, InTurnTail DEF Serving
  <2> QED
    BY <2>1 DEF AckedRule
<1> QED
  BY <1>2, <1>3 DEF Pair

GrowsAt(r) ==
    upload'[r].max_ack < upload[r].max_ack => \E x \in Peers : Arrived(x, r, "GET")

LEMMA AckArrivedGrows ==
    ASSUME Known, Transfers(TRUE), NEW p \in Peers, NEW q \in Peers,
           Arrived(q, p, "ACK"), deal_with_ACK(p, q, Head(net[q][p])),
           NEW r \in Peers
    PROVE  GrowsAt(r)
<1> DEFINE m == Head(net[q][p])
           a == m.ack
<1>1. net[q][p] # <<>> /\ m.type = "ACK"
  BY DEF Arrived
<1>2. a \in Nat /\ Offer(q, p) # {}
  <2>1. m \in Packet /\ Fits(q, p, m)
    BY <1>1, ArrivedFits
  <2> QED
    BY <1>1, <2>1, PacketFields DEF Fits
<1>3. upload \in [Peers -> UploadInfo \cup {NoUpload}] /\ net[q][p] \in Seq(Packet)
  BY KnownTypes
<1>4. CASE upload'[r] = upload[r]
  <2>1. upload[r].max_ack \in Nat
    BY <1>3, NAssumption DEF UploadInfo, NoUpload
  <2> QED
    BY <1>4, <2>1 DEF GrowsAt
<1>5. CASE r = p /\ upload[p].to # NoPeer
           /\ upload' = [upload EXCEPT ![p].max_ack = a]
  <2>1. upload[p] \in UploadInfo
    BY <1>5, UploadFields DEF Known, IInv
  <2>2. Pair(TRUE, q, p, net[q][p], net[p][q], upload[p], download[q])
    BY <1>2 DEF Transfers, PairsOf
  <2>3. upload[p].max_ack <= a
    BY <1>1, <1>2, <1>3, <2>1, <2>2, AckGrows
  <2>4. upload'[p].max_ack = a
    BY <1>3, <1>5, <2>1 DEF UploadInfo
  <2>5. upload[p].max_ack \in Nat
    BY <2>1, NAssumption DEF UploadInfo
  <2> HIDE DEF a
  <2> QED
    BY <1>2, <1>5, <2>3, <2>4, <2>5 DEF GrowsAt
<1> QED
  BY <1>3, <1>4, <1>5 DEF deal_with_ACK

LEMMA NextGrows ==
    ASSUME Known, Transfers(TRUE), [Next]_vars, NEW r \in Peers
    PROVE  GrowsAt(r)
<1>1. upload \in [Peers -> UploadInfo \cup {NoUpload}]
  BY KnownTypes
<1>2. CASE upload'[r] = upload[r]
  <2>1. upload[r].max_ack \in Nat
    BY <1>1, NAssumption DEF UploadInfo, NoUpload
  <2> QED
    BY <1>2, <2>1 DEF GrowsAt
<1>3. ASSUME NEW p \in Peers,
             wake(p) \/ other_input(p) \/ work(p) \/ handle_user_input(p) \/ timer(p)
      PROVE  GrowsAt(r)
  BY <1>2, <1>3
  DEF wake, other_input, timer, retransmit, work, answer_line, send_IHAVE,
      handle_user_input
<1>4. ASSUME NEW p \in Peers, NEW q \in Peers, process_inbound_udp(p, q)
      PROVE  GrowsAt(r)
  <2>1. CASE UNCHANGED upload
    BY <1>2, <2>1
  <2>2. CASE Arrived(q, p, "GET") /\ deal_with_GET(p, q, Head(net[q][p]))
    <3>1. CASE r = p
      BY <2>2, <3>1 DEF GrowsAt
    <3>2. CASE r # p
      BY <1>1, <1>2, <2>2, <3>2 DEF deal_with_GET
    <3> QED
      BY <3>1, <3>2
  <2> QED
    BY <1>4, <2>1, <2>2, AckArrivedGrows
    DEF process_inbound_udp, deal_with_WHOHAS
<1> QED
  BY <1>2, <1>3, <1>4 DEF Next, vars, disturb

(* In such a swarm, where each two peers have a link of their own and no   *)
(* GET finds it full, the provider that a session waits on serves that     *)
(* session or is about to be asked to, is not ahead of it by more than the *)
(* ACK 1 of finding 1, and never goes back.                                *)
THEOREM OrderKeepsPace ==
    ASSUME Plain, ~Shared
    PROVE  Spec /\ []Orderly /\ []GetsHaveRoom =>
               []UploadServesSession /\ []SenderNotAhead /\ MaxAckGrows
<1> DEFINE Inv == Known /\ PairInv /\ Transfers(TRUE) /\ AllStored
           GStep == \A r \in Peers : GrowsAt(r)
<1>1. Init => Inv
  BY InitKnown, InitTransfers DEF PairInv
<1>2. Inv /\ Orderly /\ Orderly' /\ GetsHaveRoom /\ [Next]_vars => Inv'
  <2> SUFFICES ASSUME Inv, Orderly, Orderly', GetsHaveRoom, [Next]_vars
               PROVE  Inv'
    OBVIOUS
  <2>1. OneGet /\ SlotBeyond
    BY StoredIs DEF Plain
  <2>2. Known'
    BY <2>1, NextKnown
  <2>3. PairInv' /\ Transfers(TRUE)'
    BY <2>1, NextPairs DEF PairInv
  <2> QED
    BY <2>1, <2>2, <2>3, NextStored
<1>3. Inv /\ [Next]_vars => GStep
  BY NextGrows
<1>4. Inv /\ Orderly => UploadServesSession /\ SenderNotAhead
  BY ServedIs DEF Orderly
<1>5. GStep => \A p \in Peers :
          upload'[p].max_ack < upload[p].max_ack =>
              \E q \in Peers : Arrived(q, p, "GET")
  BY DEF GrowsAt
<1> HIDE DEF Inv, GStep
<1> QED
  BY <1>1, <1>2, <1>3, <1>4, <1>5, PTL DEF Spec, MaxAckGrows
=============================================================================
