---------------------------- MODULE RoomProofs ------------------------------
(***************************************************************************)
(* Room on the paths: between two peers with a link of their own no GET is *)
(* dropped by a full queue, if the queue is longer than what the timer,    *)
(* which adds a block only while fewer than MaxInFlight packets are under  *)
(* way between the two, the copies and the requests leave in it.           *)
(***************************************************************************)
EXTENDS SmallProofs, FiniteSetTheorems

(* Each two peers have a link of their own, with a queue longer than the   *)
(* most that they exchange: twice what they have under way when a copy or  *)
(* a repeated block is added, and the requests of both.                    *)
Roomy == ~Shared /\ QueueMax > 2 * MaxInFlight + 8

(* A packet is live if its receiver may answer it with one that has to be  *)
(* answered in turn.  What is under way weighs one a packet, and one more  *)
(* if it is live: an answer never weighs more than what it answers.        *)
Live(m) == m.type \in {"GET", "DATA"} \/ (m.type = "ACK" /\ ~last_acked(m.ack))
Weight(m) == IF Live(m) THEN 2 ELSE 1
LiveOnes(queue) == {i \in 1 .. Len(queue) : Live(queue[i])}
Load(queue) == Len(queue) + Cardinality(LiveOnes(queue))
Between(n, p, q) == Load(n[p][q]) + Load(n[q][p])

(* What p's request may still add between p and q without an answer to     *)
(* anything: the WHOHAS, the IHAVE, and the GET of a second chunk, which   *)
(* weighs two and waits for the first to be done.                          *)
Second(p, q) ==
    \/ Doing(p, "parse") /\ task[p].sent /\ task[p].from = q
    \/ waiting[p][0].active /\ waiting[p][0].from = q
Due(p, q) ==
    IF gets[p] = 0 \/ Answering(p, q) \/ Hearing(p, q) THEN 4
    ELSE IF Asked(p, q) \/ Offered(p, q) THEN 3
    ELSE IF Second(p, q) THEN 2 ELSE 0
Budget(p, q) == Between(net, p, q) + Due(p, q) + Due(q, p) <= 2 * MaxInFlight + 8
SelfEmpty == \A p \in Peers : net[p][p] = <<>>

LEMMA LoadType ==
    ASSUME NEW S, NEW queue \in Seq(S)
    PROVE  /\ IsFiniteSet(LiveOnes(queue)) /\ Cardinality(LiveOnes(queue)) \in Nat
           /\ Load(queue) \in Nat
           /\ Len(queue) <= Load(queue) /\ Load(queue) <= 2 * Len(queue)
<1> DEFINE n == Len(queue)
           L == LiveOnes(queue)
<1>1. n \in Nat /\ L \in SUBSET (1 .. n)
  BY DEF LiveOnes
<1>2. IsFiniteSet(1 .. n) /\ Cardinality(1 .. n) = n
  <2> HIDE DEF n
  <2>1. IsFiniteSet(1 .. n) /\ Cardinality(1 .. n) = IF 1 > n THEN 0 ELSE n - 1 + 1
    BY <1>1, FS_Interval
  <2> QED
    BY <1>1, <2>1
<1> HIDE DEF n, L
<1>3. IsFiniteSet(L) /\ Cardinality(L) <= n
  BY <1>1, <1>2, FS_Subset
<1>4. Cardinality(L) \in Nat
  BY <1>3, FS_CardinalityType
<1>5. Load(queue) = n + Cardinality(L)
  BY DEF Load, n, L
<1> QED
  BY <1>1, <1>3, <1>4, <1>5 DEF L, n

LEMMA LoadEnQ ==
    ASSUME NEW S, NEW queue \in Seq(S), NEW m \in S
    PROVE  /\ Load(enQ(queue, m)) \in Nat
           /\ Load(enQ(queue, m)) <= Load(queue) + Weight(m)
<1>1. Load(queue) \in Nat /\ Load(queue) = Len(queue) + Cardinality(LiveOnes(queue))
      /\ IsFiniteSet(LiveOnes(queue)) /\ Cardinality(LiveOnes(queue)) \in Nat
      /\ Len(queue) \in Nat /\ Weight(m) \in {1, 2}
  BY LoadType DEF Load, Weight
<1>2. CASE enQ(queue, m) = queue
  BY <1>1, <1>2
<1>3. CASE enQ(queue, m) = Append(queue, m)
  <2> DEFINE long == Append(queue, m)
             n == Len(queue)
  <2>1. long \in Seq(S) /\ Len(long) = n + 1 /\ long[n + 1] = m
        /\ \A i \in 1 .. n : long[i] = queue[i]
    OBVIOUS
  <2>2. LiveOnes(long) = IF Live(m) THEN LiveOnes(queue) \cup {n + 1} ELSE LiveOnes(queue)
    <3> HIDE DEF long
    <3> QED
      BY <1>1, <2>1 DEF LiveOnes
  <2>3. n + 1 \notin LiveOnes(queue)
    BY <1>1 DEF LiveOnes
  <2> HIDE DEF long, n
  <2>4. Cardinality(LiveOnes(queue) \cup {n + 1}) = Cardinality(LiveOnes(queue)) + 1
    BY <1>1, <2>3, FS_AddElement
  <2>5. Cardinality(LiveOnes(long))
            = Cardinality(LiveOnes(queue)) + (IF Live(m) THEN 1 ELSE 0)
    BY <1>1, <2>2, <2>4
  <2>6. Load(long) = n + 1 + Cardinality(LiveOnes(queue)) + (IF Live(m) THEN 1 ELSE 0)
    BY <1>1, <2>1, <2>5 DEF Load, n
  <2> QED
    BY <1>1, <1>3, <2>6 DEF Weight, long, n
<1> QED
  BY <1>2, <1>3 DEF enQ

LEMMA LoadTail ==
    ASSUME NEW S, NEW queue \in Seq(S), queue # <<>>
    PROVE  /\ Load(Tail(queue)) \in Nat
           /\ Load(queue) = Load(Tail(queue)) + Weight(Head(queue))
<1> DEFINE n == Len(queue)
           t == Tail(queue)
           A == LiveOnes(t)
           B == LiveOnes(queue) \ {1}
<1>1. n \in Nat \ {0} /\ t \in Seq(S) /\ Len(t) = n - 1 /\ Head(queue) = queue[1]
      /\ \A i \in 1 .. n - 1 : t[i] = queue[i + 1]
  OBVIOUS
<1>2. IsFiniteSet(A) /\ Cardinality(A) \in Nat /\ Load(t) \in Nat
      /\ IsFiniteSet(LiveOnes(queue)) /\ Cardinality(LiveOnes(queue)) \in Nat
  BY <1>1, LoadType
<1>3. A = {i \in 1 .. n - 1 : Live(queue[i + 1])}
  BY <1>1 DEF LiveOnes
<1>4. B = {i \in 2 .. n : Live(queue[i])}
  BY <1>1 DEF LiveOnes
<1>5. 1 \in LiveOnes(queue) <=> Live(Head(queue))
  BY <1>1 DEF LiveOnes
<1>6. Cardinality(B) = Cardinality(A)
  <2> DEFINE f == [i \in A |-> i + 1]
  <2> HIDE DEF n, A, B
  <2>1. f \in [A -> B]
    BY <1>1, <1>3, <1>4
  <2>2. \A i, j \in A : f[i] = f[j] => i = j
    BY <1>3
  <2>3. \A j \in B : \E i \in A : f[i] = j
    <3> TAKE j \in B
    <3>1. j - 1 \in A
      BY <1>1, <1>3, <1>4
    <3>2. f[j - 1] = j
      BY <3>1, <1>4
    <3> QED
      BY <3>1, <3>2
  <2> HIDE DEF f
  <2>4. f \in Bijection(A, B)
    BY <2>1, <2>2, <2>3 DEF Bijection, Injection, Surjection, IsInjective
  <2>5. ExistsBijection(A, B)
    BY <2>4 DEF ExistsBijection
  <2> QED
    BY <1>2, <2>5, FS_Bijection
<1>7. Cardinality(B) = IF 1 \in LiveOnes(queue) THEN Cardinality(LiveOnes(queue)) - 1
                       ELSE Cardinality(LiveOnes(queue))
  BY <1>2, FS_RemoveElement
<1>8. Load(queue) = n + Cardinality(LiveOnes(queue)) /\ Load(t) = n - 1 + Cardinality(A)
  BY <1>1 DEF Load
<1> HIDE DEF n, t, A, B
<1>9. n \in Nat
  BY <1>1
<1>10. CASE Live(Head(queue))
  <2>1. Cardinality(A) = Cardinality(LiveOnes(queue)) - 1 /\ Weight(Head(queue)) = 2
    BY <1>5, <1>6, <1>7, <1>10 DEF Weight
  <2> QED
    BY <1>2, <1>8, <1>9, <2>1 DEF t
<1>11. CASE ~Live(Head(queue))
  <2>1. Cardinality(A) = Cardinality(LiveOnes(queue)) /\ Weight(Head(queue)) = 1
    BY <1>5, <1>6, <1>7, <1>11 DEF Weight
  <2> QED
    BY <1>2, <1>8, <1>9, <2>1 DEF t
<1> QED
  BY <1>10, <1>11

LEMMA EmptyLoad == Load(<<>>) = 0
<1>1. LiveOnes(<<>>) = {} /\ Len(<<>>) = 0
  BY DEF LiveOnes
<1> QED
  BY <1>1, FS_EmptySet DEF Load

LEMMA WeightType == \A m : Weight(m) \in {1, 2}
  BY DEF Weight

Joins(x, y, p, q) == (x = p /\ y = q) \/ (x = q /\ y = p)

LEMMA BetweenType ==
    ASSUME NEW n \in Paths, NEW p \in Peers, NEW q \in Peers
    PROVE  /\ Between(n, p, q) \in Nat
           /\ Len(n[p][q]) \in Nat /\ Len(n[q][p]) \in Nat
           /\ Len(n[p][q]) + Len(n[q][p]) <= Between(n, p, q)
           /\ Between(n, p, q) <= 2 * (Len(n[p][q]) + Len(n[q][p]))
<1>1. n[p][q] \in Seq(Packet) /\ n[q][p] \in Seq(Packet)
  BY DEF Paths
<1> DEFINE a == n[p][q]
           b == n[q][p]
<1>2. a \in Seq(Packet) /\ b \in Seq(Packet)
  BY <1>1
<1> HIDE DEF a, b
<1>3. /\ Load(a) \in Nat /\ Len(a) <= Load(a) /\ Load(a) <= 2 * Len(a)
      /\ Load(b) \in Nat /\ Len(b) <= Load(b) /\ Load(b) <= 2 * Len(b)
      /\ Len(a) \in Nat /\ Len(b) \in Nat
  BY <1>2, LoadType
<1>4. Between(n, p, q) = Load(a) + Load(b)
  BY DEF Between, a, b
<1>5. /\ Between(n, p, q) \in Nat /\ Len(a) + Len(b) <= Between(n, p, q)
      /\ Between(n, p, q) <= 2 * (Len(a) + Len(b))
  BY <1>3, <1>4
<1> QED
  BY <1>3, <1>5 DEF a, b

LEMMA BetweenSent ==
    ASSUME NEW n \in Paths, NEW x \in Peers, NEW y \in Peers, NEW m,
           NEW p \in Peers, NEW q \in Peers, p # q
    PROVE  /\ Between(Sent(n, x, y, m), p, q) \in Nat
           /\ Joins(x, y, p, q) =>
                 Between(Sent(n, x, y, m), p, q) <= Between(n, p, q) + Weight(m)
           /\ ~Joins(x, y, p, q) => Between(Sent(n, x, y, m), p, q) = Between(n, p, q)
<1>1. /\ Sent(n, x, y, m)[p][q] = IF p = x /\ q = y THEN enQ(n[x][y], m) ELSE n[p][q]
      /\ Sent(n, x, y, m)[q][p] = IF q = x /\ p = y THEN enQ(n[x][y], m) ELSE n[q][p]
  BY SentAt
<1>2. n[p][q] \in Seq(Packet \cup {m}) /\ n[q][p] \in Seq(Packet \cup {m})
  <2>1. n[p][q] \in Seq(Packet) /\ n[q][p] \in Seq(Packet)
    BY DEF Paths
  <2> QED
    BY <2>1
<1> DEFINE a == n[p][q]
           b == n[q][p]
           a2 == Sent(n, x, y, m)[p][q]
           b2 == Sent(n, x, y, m)[q][p]
<1>3. /\ Between(n, p, q) = Load(a) + Load(b)
      /\ Between(Sent(n, x, y, m), p, q) = Load(a2) + Load(b2)
  BY DEF Between
<1>4. /\ p = x /\ q = y => a2 = enQ(a, m) /\ b2 = b
      /\ q = x /\ p = y => a2 = a /\ b2 = enQ(b, m)
      /\ ~Joins(x, y, p, q) => a2 = a /\ b2 = b
  BY <1>1 DEF Joins
<1>5. a \in Seq(Packet \cup {m}) /\ b \in Seq(Packet \cup {m})
  BY <1>2
<1> HIDE DEF a, b, a2, b2
<1>6. /\ Load(a) \in Nat /\ Load(b) \in Nat /\ Load(enQ(a, m)) \in Nat
      /\ Load(enQ(b, m)) \in Nat
      /\ Load(enQ(a, m)) <= Load(a) + Weight(m)
      /\ Load(enQ(b, m)) <= Load(b) + Weight(m)
      /\ Weight(m) \in {1, 2}
  BY <1>5, LoadType, LoadEnQ, WeightType
<1> QED
  BY <1>3, <1>4, <1>6 DEF Joins

LEMMA BetweenTaken ==
    ASSUME NEW n \in Paths, NEW x \in Peers, NEW y \in Peers, n[x][y] # <<>>,
           NEW p \in Peers, NEW q \in Peers, p # q
    PROVE  /\ Between(Taken(n, x, y), p, q) \in Nat
           /\ Joins(x, y, p, q) =>
                 Between(n, p, q)
                 = Between(Taken(n, x, y), p, q) + Weight(Head(n[x][y]))
           /\ ~Joins(x, y, p, q) => Between(Taken(n, x, y), p, q) = Between(n, p, q)
<1>1. /\ Taken(n, x, y)[p][q] = IF p = x /\ q = y THEN Tail(n[x][y]) ELSE n[p][q]
      /\ Taken(n, x, y)[q][p] = IF q = x /\ p = y THEN Tail(n[x][y]) ELSE n[q][p]
  BY TakenAt
<1>2. n[p][q] \in Seq(Packet) /\ n[q][p] \in Seq(Packet)
  BY DEF Paths
<1> DEFINE a == n[p][q]
           b == n[q][p]
           a2 == Taken(n, x, y)[p][q]
           b2 == Taken(n, x, y)[q][p]
<1>3. /\ Between(n, p, q) = Load(a) + Load(b)
      /\ Between(Taken(n, x, y), p, q) = Load(a2) + Load(b2)
  BY DEF Between
<1>4. /\ p = x /\ q = y => a2 = Tail(a) /\ b2 = b /\ a # <<>> /\ n[x][y] = a
      /\ q = x /\ p = y => a2 = a /\ b2 = Tail(b) /\ b # <<>> /\ n[x][y] = b
      /\ ~Joins(x, y, p, q) => a2 = a /\ b2 = b
  BY <1>1 DEF Joins
<1>5. a \in Seq(Packet) /\ b \in Seq(Packet)
  BY <1>2
<1> HIDE DEF a, b, a2, b2
<1>6. /\ Load(a) \in Nat /\ Load(b) \in Nat
      /\ a # <<>> => /\ Load(Tail(a)) \in Nat
                     /\ Load(a) = Load(Tail(a)) + Weight(Head(a))
      /\ b # <<>> => /\ Load(Tail(b)) \in Nat
                     /\ Load(b) = Load(Tail(b)) + Weight(Head(b))
      /\ Weight(Head(a)) \in {1, 2} /\ Weight(Head(b)) \in {1, 2}
  <2>1. a # <<>> => /\ Load(Tail(a)) \in Nat
                    /\ Load(a) = Load(Tail(a)) + Weight(Head(a))
    BY <1>5, LoadTail
  <2>2. b # <<>> => /\ Load(Tail(b)) \in Nat
                    /\ Load(b) = Load(Tail(b)) + Weight(Head(b))
    BY <1>5, LoadTail
  <2> QED
    BY <1>5, <2>1, <2>2, LoadType, WeightType
<1>7. CASE p = x /\ q = y
  <2>1. a2 = Tail(a) /\ b2 = b /\ a # <<>> /\ n[x][y] = a /\ Joins(x, y, p, q)
    BY <1>4, <1>7 DEF Joins
  <2>2. /\ Between(n, p, q) = Load(Tail(a)) + Weight(Head(a)) + Load(b)
        /\ Between(Taken(n, x, y), p, q) = Load(Tail(a)) + Load(b)
    BY <1>3, <1>6, <2>1
  <2>3. Load(Tail(a)) \in Nat
    BY <1>6, <2>1
  <2> QED
    BY <1>6, <2>1, <2>2, <2>3
<1>8. CASE q = x /\ p = y
  <2>1. a2 = a /\ b2 = Tail(b) /\ b # <<>> /\ n[x][y] = b /\ Joins(x, y, p, q)
    BY <1>4, <1>8 DEF Joins
  <2>2. /\ Between(n, p, q) = Load(a) + Load(Tail(b)) + Weight(Head(b))
        /\ Between(Taken(n, x, y), p, q) = Load(a) + Load(Tail(b))
    BY <1>3, <1>6, <2>1
  <2>3. Load(Tail(b)) \in Nat
    BY <1>6, <2>1
  <2> QED
    BY <1>6, <2>1, <2>2, <2>3
<1>9. CASE ~Joins(x, y, p, q)
  BY <1>3, <1>4, <1>6, <1>9
<1> QED
  BY <1>7, <1>8, <1>9 DEF Joins

-----------------------------------------------------------------------------
(* What may still be added.                                                *)

LEMMA DueType == \A p, q : Due(p, q) \in {0, 2, 3, 4} /\ (Due(p, q) \in {0, 2, 3, 4})'
  BY DEF Due

(* No step of the request, no more to come.                                *)
LEMMA DueLess ==
    ASSUME NEW p \in Peers, NEW q \in Peers,
           gets'[p] = 0 => gets[p] = 0,
           Fewer("WHOHAS", net[p][q], net'[p][q]),
           Fewer("IHAVE", net[q][p], net'[q][p]),
           Answering(p, q)' => Answering(p, q), Hearing(p, q)' => Hearing(p, q),
           Second(p, q)' => Second(p, q)
    PROVE  Due(p, q)' <= Due(p, q)
<1>1. (Asked(p, q)' => Asked(p, q)) /\ (Offered(p, q)' => Offered(p, q))
  BY DEF Asked, Offered, Fewer
<1>2. CASE Due(p, q) = 4
  BY <1>2, DueType
<1>3. CASE Due(p, q) # 4
  <2>1. ~(gets[p] = 0 \/ Answering(p, q) \/ Hearing(p, q))
    BY <1>3 DEF Due
  <2>2. ~(gets'[p] = 0 \/ Answering(p, q)' \/ Hearing(p, q)')
    BY <2>1
  <2>3. CASE Asked(p, q) \/ Offered(p, q)
    BY <2>1, <2>2, <2>3 DEF Due
  <2>4. CASE ~(Asked(p, q) \/ Offered(p, q))
    BY <1>1, <2>1, <2>2, <2>4 DEF Due
  <2> QED
    BY <2>3, <2>4
<1> QED
  BY <1>2, <1>3

(* Who goes on reading hashes after its GET was reading from the same peer.*)
LEMMA ReadsOn ==
    ASSUME Known, NEW p \in Peers, Acts(p),
           task'[p].doing = "parse", task'[p].sent
    PROVE  /\ Doing(p, "parse") /\ task'[p].from = task[p].from
           /\ task[p].sent \/ get_first_hash(p)
<1>1. task \in [Peers -> Task] /\ task'[p].doing = "parse" /\ task'[p].sent
  BY TablesNow
<1>2. Select.doing # "parse" /\ Ready.doing # "parse"
  BY DEF Select, Ready
<1>3. ASSUME Return(p) PROVE FALSE
  BY <1>1, <1>2, <1>3 DEF Return
<1>4. CASE wake(p)
  <2>1. task'[p] \in {Ready} \cup ScanTask
    BY <1>1, <1>4, ScanType DEF wake, scan_first
  <2> QED
    BY <1>1, <1>2, <2>1 DEF ScanTask
<1>5. CASE other_input(p) \/ handle_user_input(p) \/ timer(p)
  BY <1>3, <1>5
  DEF other_input, handle_user_input, timer, process_get, retransmit
<1>6. CASE work(p)
  <2>1. ASSUME answer_line(p) PROVE FALSE
    <3>1. task[p].doing = "answer" /\ task[p] \in AnswerTask
      BY <1>1, <2>1, TaskFields DEF answer_line, Doing
    <3>2. task'[p].doing = "answer"
      BY <1>1, <2>1, <3>1 DEF answer_line, AnswerTask
    <3> QED
      BY <1>1, <3>2
  <2>2. ASSUME send_IHAVE(p) PROVE FALSE
    BY <1>3, <2>2 DEF send_IHAVE
  <2>3. CASE skip_hash(p)
    <3>1. Doing(p, "parse") /\ task[p].sent \in BOOLEAN /\ parsed(p, task[p].sent)
      BY <2>3, ParseFields DEF skip_hash, Known
    <3> QED
      BY <1>1, <1>2, <3>1, ParsedTo
  <2>4. CASE get_first_hash(p) \/ queue_hash(p)
    <3>1. Doing(p, "parse") /\ parsed(p, TRUE)
      BY <2>4 DEF get_first_hash, queue_hash
    <3>2. task'[p].from = task[p].from
      BY <1>1, <1>2, <3>1, ParsedTo
    <3> QED
      BY <2>4, <3>1, <3>2 DEF queue_hash
  <2>5. ASSUME drop_entry(p) \/ keep_entry(p) \/ send_entry(p) PROVE FALSE
    BY <1>1, <2>5, VisitedTo DEF drop_entry, keep_entry, send_entry
  <2> QED
    BY <1>6, <2>1, <2>2, <2>3, <2>4, <2>5 DEF work
<1>7. ASSUME NEW r \in Peers, process_inbound_udp(p, r)
      PROVE  FALSE
  <2> DEFINE m == Head(net[r][p])
  <2>1. ASSUME deal_with_WHOHAS(p, r, m) PROVE FALSE
    BY <1>1, <2>1 DEF deal_with_WHOHAS
  <2>2. ASSUME deal_with_GET(p, r, m) \/ deal_with_ACK(p, r, m) \/ ignore_DATA(p, r, m)
        PROVE FALSE
    BY <1>3, <2>2 DEF deal_with_GET, deal_with_ACK, ignore_DATA
  <2>3. ASSUME accept_DATA(p, r, m) PROVE FALSE
    <3>1. \A table : scan(table, waiting[p], Select) \in {Select} \cup ScanTask
      BY ScanType
    <3>2. \/ task' = [task EXCEPT ![p] = scan(download'[p], waiting[p], Select)]
          \/ task' = [task EXCEPT ![p] = Select]
      BY <2>3 DEF accept_DATA, Return
    <3>3. task'[p] \in {Select} \cup ScanTask
      BY <1>1, <3>1, <3>2
    <3> QED
      BY <1>1, <1>2, <3>3 DEF ScanTask
  <2>4. ASSUME deal_with_IHAVE(p, r, m) PROVE FALSE
    <3>1. task'[p] = IF HashesRead(m) = <<>> THEN Select
                     ELSE [doing |-> "parse", from |-> r, left |-> HashesRead(m),
                           sent |-> FALSE]
      BY <1>1, <2>4 DEF deal_with_IHAVE
    <3> QED
      BY <1>1, <1>2, <3>1
  <2> QED
    BY <1>7, <2>1, <2>2, <2>3, <2>4 DEF process_inbound_udp, deal_with_DATA
<1> QED
  BY <1>4, <1>5, <1>6, <1>7 DEF Acts

(* A second chunk is to be asked for since the first was; asking for it    *)
(* settles that.                                                           *)
LEMMA SecondOwn ==
    ASSUME Known, NEW p \in Peers, Orderliness(p), Acts(p),
           NEW q \in Peers, Second(p, q)'
    PROVE  \/ Second(p, q) /\ ~send_entry(p)
           \/ get_first_hash(p) /\ q = task[p].from
<1>1. /\ waiting \in [Peers -> [Entries -> Waiting \cup {NoWaiting}]]
      /\ 0 \in Entries
  BY TablesNow, TablesAssumption DEF Entries
<1>2. CASE Doing(p, "parse")' /\ task'[p].sent /\ task'[p].from = q
  <2>1. Doing(p, "parse") /\ task[p].from = q /\ (task[p].sent \/ get_first_hash(p))
    BY <1>2, ReadsOn DEF Doing
  <2>2. ~send_entry(p)
    BY <2>1 DEF send_entry, Doing
  <2> QED
    BY <2>1, <2>2 DEF Second
<1>3. CASE waiting'[p][0].active /\ waiting'[p][0].from = q
  <2>1. CASE queue_hash(p)
    <3> DEFINE f == find_free_waiting_entity(waiting[p])
    <3>1. /\ Doing(p, "parse") /\ task[p].sent
          /\ \E e : e.from = task[p].from /\ waiting' = [waiting EXCEPT ![p][f] = e]
      BY <2>1 DEF queue_hash
    <3> HIDE DEF f
    <3>2. waiting'[p][0] = waiting[p][0] \/ waiting'[p][0].from = task[p].from
      BY <1>1, <3>1
    <3>3. ~send_entry(p)
      BY <3>1 DEF send_entry, Doing
    <3> QED
      BY <1>3, <3>1, <3>2, <3>3 DEF Second
  <2>2. CASE drop_entry(p)
    <3>1. /\ Doing(p, "scan") /\ task[p].at \in Entries
          /\ waiting' = [waiting EXCEPT ![p][task[p].at] = NoWaiting]
      BY <2>2, VisitedTo DEF drop_entry
    <3>2. waiting'[p][0] = waiting[p][0]
      BY <1>1, <1>3, <3>1, ClearedEntry
    <3>3. ~send_entry(p)
      BY <2>2 DEF drop_entry, send_entry, is_asked_for
    <3> QED
      BY <1>3, <3>2, <3>3 DEF Second
  <2>3. ASSUME send_entry(p) PROVE FALSE
    <3>1. task[p].at = 0 /\ waiting' = [waiting EXCEPT ![p][task[p].at] = NoWaiting]
      BY <2>3, SendsAlone DEF send_entry
    <3>2. ~waiting'[p][0].active
      BY <1>1, <3>1, ClearedEntry
    <3> QED
      BY <1>3, <3>2
  <2>4. CASE UNCHANGED waiting
    BY <1>3, <2>3, <2>4 DEF Second
  <2> QED
    BY <2>1, <2>2, <2>3, <2>4
    DEF Acts, wake, other_input, work, handle_user_input, timer, process_get,
        process_inbound_udp, client, skip_hash, keep_entry, deal_with_IHAVE,
        deal_with_DATA, ignore_DATA, accept_DATA, get_first_hash
<1> QED
  BY <1>2, <1>3 DEF Second, Doing

-----------------------------------------------------------------------------
(* What the steps put on the paths.                                        *)

LEMMA TypeWeights ==
    /\ \A m : m.type \in {"WHOHAS", "IHAVE"} => Weight(m) = 1
    /\ \A m : m.type \in {"GET", "DATA"} => Weight(m) = 2
    /\ \A h : Weight(Whohas(h)) = 1 /\ Weight(Ihave(h)) = 1
    /\ \A ack : last_acked(ack) => Weight(Ack(ack)) = 1
  BY DEF Weight, Live, Whohas, Ihave, Ack

(* A DATA that no session waits for is answered twice, but it is the last  *)
(* block, and no answer comes back.                                        *)
LEMMA StrangerWeighs ==
    ASSUME Plain, Known, Transfers(TRUE), SlotBeyond, OneSessionPerPeer,
           NEW p \in Peers, NEW q \in Peers, Arrived(q, p, "DATA"),
           deal_with_DATA(p, q, Head(net[q][p]))
    PROVE  LET m == Head(net[q][p])
           IN  \/ \E ack \in Nat : net' = Answered(p, q, Ack(ack))
               \/ \E ack \in Nat : /\ net' = Sent(Answered(p, q, Ack(m.seq)), p, q, Ack(ack))
                                   /\ last_acked(m.seq) /\ last_acked(ack)
                                   /\ m.seq \in Nat
<1> DEFINE k == session_from(p, q)
           m == Head(net[q][p])
           s == download[p][k]
<1>1. net[q][p] # <<>> /\ m.type = "DATA"
  BY DEF Arrived
<1>2. m \in Packet /\ Fits(q, p, m) /\ m.seq \in Nat
  BY <1>1, ArrivedFits
<1>3. /\ download[p] \in [Slots -> Session] /\ k \in Slots
      /\ net[q][p] \in Seq(Packet) /\ s.seq \in Nat
  BY KnownTypes, SlotSearchType DEF Session
<1>4. expected_ack(s) \in Nat
  <2> HIDE DEF s
  <2> QED
    BY <1>3 DEF expected_ack
<1>5. PICK ack \in Nat : /\ net' = Sent(acked_stranger(p, q, m), p, q, Ack(ack))
                         /\ k = -1 => ack = expected_ack(s)
  <2>1. CASE ignore_DATA(p, q, m)
    BY <1>4, <2>1 DEF ignore_DATA
  <2>2. CASE accept_DATA(p, q, m)
    <3>1. k # -1
      <4>1. TRUE \in BOOLEAN /\ accept_DATA(p, q, Head(net[q][p]))
        BY <2>2
      <4>2. session_from(p, q) \in 0 .. MaxConn - 1
        BY <4>1, AcceptsRight
      <4> QED
        BY <4>2
    <3>2. net' = Sent(acked_stranger(p, q, m), p, q, Ack(m.seq))
      BY <2>2 DEF accept_DATA
    <3> QED
      BY <1>2, <3>1, <3>2
  <2> QED
    BY <2>1, <2>2 DEF deal_with_DATA
<1>6. CASE k # -1
  BY <1>5, <1>6 DEF acked_stranger, Answered
<1>7. CASE k = -1
  <2>1. Open(download[p], q) = {}
    BY <1>7, SessionFrom
  <2>2. Pair(TRUE, p, q, net[p][q], net[q][p], upload[q], download[p])
    BY <1>1, <1>2 DEF Fits, Transfers, PairsOf
  <2>3. m.seq >= Low(TRUE) + 1
    BY <1>1, <1>3, <2>1, <2>2, StrangerIsLate
  <2>4. last_acked(m.seq)
    <3> HIDE DEF m
    <3> QED
      BY <1>2, <2>3, NAssumption DEF Low, last_acked
  <2>5. s = HeapSlot /\ HeapSlot.seq \in Nat /\ HeapSlot.seq > N
    BY <1>7, HeapAssumption DEF SlotBeyond, Plain, SlotUnmatched, Session
  <2>6. last_acked(ack)
    <3>1. ack = HeapSlot.seq - 1
      BY <1>5, <1>7, <2>5, NAssumption DEF expected_ack
    <3> QED
      BY <2>5, <3>1, NAssumption DEF last_acked
  <2>7. net' = Sent(Answered(p, q, Ack(m.seq)), p, q, Ack(ack))
    BY <1>5, <1>7 DEF acked_stranger
  <2> QED
    BY <1>2, <2>4, <2>6, <2>7
<1> QED
  BY <1>6, <1>7

(* The answers to a packet weigh no more than the packet did, and a WHOHAS *)
(* or IHAVE is not answered at once.                                       *)
LEMMA AnswersWeigh ==
    ASSUME Plain, Known, Transfers(TRUE), SlotBeyond, OneSessionPerPeer,
           NEW p \in Peers, NEW q \in Peers, process_inbound_udp(p, q),
           NEW a \in Peers, NEW b \in Peers, a # b
    PROVE  /\ Between(net', a, b) \in Nat
           /\ Between(net', a, b) <= Between(net, a, b)
           /\ Joins(q, p, a, b) /\ (Arrived(q, p, "WHOHAS") \/ Arrived(q, p, "IHAVE"))
              => Between(net', a, b) + 1 <= Between(net, a, b)
<1> DEFINE m == Head(net[q][p])
           n == Taken(net, q, p)
<1>1. net \in Paths /\ net[q][p] # <<>> /\ Between(net, a, b) \in Nat
      /\ Weight(m) \in {1, 2}
  BY KnownTypes, BetweenType, WeightType DEF process_inbound_udp, Arrived
<1>2. /\ n \in Paths /\ Between(n, a, b) \in Nat
      /\ Joins(q, p, a, b) => Between(net, a, b) = Between(n, a, b) + Weight(m)
      /\ ~Joins(q, p, a, b) => Between(n, a, b) = Between(net, a, b)
  BY <1>1, TakenType, BetweenTaken
<1>3. Joins(q, p, a, b) <=> Joins(p, q, a, b)
  BY DEF Joins
<1> DEFINE was == Between(net, a, b)
           rest == Between(n, a, b)
           now == Between(net', a, b)
<1>4. ASSUME NEW r, Weight(r) <= Weight(m), net' = Sent(n, p, q, r)
      PROVE  now \in Nat /\ now <= was
  <2>1. /\ now \in Nat
        /\ Joins(p, q, a, b) => now <= rest + Weight(r)
        /\ ~Joins(p, q, a, b) => now = rest
    BY <1>2, <1>4, BetweenSent
  <2>2. Weight(r) \in {1, 2}
    BY WeightType
  <2> HIDE DEF now, was, rest, m, n
  <2> QED
    BY <1>1, <1>2, <1>3, <1>4, <2>1, <2>2 DEF was, rest
<1>5. CASE Arrived(q, p, "WHOHAS") \/ Arrived(q, p, "IHAVE")
  <2>1. net' = n /\ m.type \in {"WHOHAS", "IHAVE"}
    BY <1>5 DEF process_inbound_udp, deal_with_WHOHAS, deal_with_IHAVE, Arrived
  <2>2. Weight(m) = 1 /\ now = rest
    BY <2>1, TypeWeights
  <2> HIDE DEF m, n
  <2> QED
    BY <1>1, <1>2, <2>2
<1>6. CASE Arrived(q, p, "GET") /\ deal_with_GET(p, q, m)
  <2>1. net' = Sent(n, p, q, Data(1, master(m.hash, 1))) /\ m.type = "GET"
    BY <1>6 DEF deal_with_GET, Answered, Arrived
  <2>2. Weight(m) = 2 /\ Weight(Data(1, master(m.hash, 1))) = 2
    BY <2>1, TypeWeights DEF Data
  <2> HIDE DEF m, n, now, was
  <2> QED
    BY <1>4, <1>6, <2>1, <2>2 DEF Arrived, now, was, m
<1>7. CASE Arrived(q, p, "ACK") /\ deal_with_ACK(p, q, m)
  <2>1. CASE net' = n
    BY <1>1, <1>2, <1>7, <2>1 DEF Arrived
  <2>2. CASE ~last_acked(m.ack) /\ \E seq, cell : net' = Sent(n, p, q, Data(seq, cell))
    <3>1. PICK seq, cell : net' = Sent(n, p, q, Data(seq, cell))
      BY <2>2
    <3>2. m.type = "ACK"
      BY <1>7 DEF Arrived
    <3>3. Weight(m) = 2 /\ Weight(Data(seq, cell)) = 2
      BY <2>2, <3>2, TypeWeights DEF Weight, Live, Data
    <3>4. now \in Nat /\ now <= was
      BY <1>4, <3>1, <3>3
    <3> QED
      BY <3>2, <3>4 DEF Arrived
  <2> QED
    BY <1>7, <2>1, <2>2 DEF deal_with_ACK, Answered
<1>8. CASE Arrived(q, p, "DATA") /\ deal_with_DATA(p, q, m)
  <2>1. m.type = "DATA" /\ Weight(m) = 2
    BY <1>8, TypeWeights DEF Arrived
  <2>2. \A ack : Weight(Ack(ack)) \in {1, 2}
    BY WeightType
  <2>3. CASE \E ack \in Nat : net' = Answered(p, q, Ack(ack))
    <3>1. PICK ack \in Nat : net' = Sent(n, p, q, Ack(ack))
      BY <2>3 DEF Answered
    <3>2. Weight(Ack(ack)) <= Weight(m)
      <4> HIDE DEF m
      <4> QED
        BY <2>1, <2>2
    <3>3. now \in Nat /\ now <= was
      BY <1>4, <3>1, <3>2
    <3> QED
      BY <2>1, <3>3 DEF Arrived
  <2>4. CASE \E ack \in Nat : /\ net' = Sent(Answered(p, q, Ack(m.seq)), p, q, Ack(ack))
                              /\ last_acked(m.seq) /\ last_acked(ack)
                              /\ m.seq \in Nat
    <3> DEFINE n1 == Sent(n, p, q, Ack(m.seq))
               mid == Between(n1, a, b)
    <3>1. PICK ack \in Nat : net' = Sent(n1, p, q, Ack(ack)) /\ last_acked(ack)
      BY <2>4 DEF Answered
    <3>2. Weight(Ack(m.seq)) = 1 /\ Weight(Ack(ack)) = 1
      BY <2>4, <3>1, TypeWeights
    <3>3. n1 \in Paths
      BY <1>2, <2>4, PacketTypes, SentType
    <3>4. /\ mid \in Nat
          /\ Joins(p, q, a, b) => mid <= rest + Weight(Ack(m.seq))
          /\ ~Joins(p, q, a, b) => mid = rest
      BY <1>2, BetweenSent
    <3> HIDE DEF n1
    <3>5. /\ now \in Nat
          /\ Joins(p, q, a, b) => now <= mid + Weight(Ack(ack))
          /\ ~Joins(p, q, a, b) => now = mid
      <4>1. /\ Between(Sent(n1, p, q, Ack(ack)), a, b) \in Nat
            /\ Joins(p, q, a, b) =>
                  Between(Sent(n1, p, q, Ack(ack)), a, b) <= mid + Weight(Ack(ack))
            /\ ~Joins(p, q, a, b) => Between(Sent(n1, p, q, Ack(ack)), a, b) = mid
        BY <3>3, BetweenSent
      <4> QED
        BY <3>1, <4>1
    <3> HIDE DEF mid, rest, now, was, m
    <3>6. now \in Nat /\ now <= was
      BY <1>1, <1>2, <1>3, <2>1, <3>2, <3>4, <3>5 DEF rest, was
    <3> QED
      BY <2>1, <3>6 DEF Arrived, now, was, m
  <2> QED
    BY <1>8, <2>3, <2>4, StrangerWeighs
<1> QED
  BY <1>5, <1>6, <1>7, <1>8 DEF process_inbound_udp

-----------------------------------------------------------------------------
(* The budget of a pair.                                                   *)
LEMMA BetweenBothWays ==
    ASSUME NEW n \in Paths, NEW p \in Peers, NEW q \in Peers
    PROVE  Between(n, p, q) \in Nat /\ Between(n, p, q) = Between(n, q, p)
<1>1. n[p][q] \in Seq(Packet) /\ n[q][p] \in Seq(Packet)
  BY DEF Paths
<1>2. Load(n[p][q]) \in Nat /\ Load(n[q][p]) \in Nat
  BY <1>1, LoadType
<1> QED
  BY <1>2 DEF Between

(* What is added is taken off what was due, in a pair p takes part in.     *)
LEMMA BudgetMoves ==
    ASSUME NEW p \in Peers, NEW q \in Peers, Budget(p, q),
           Between(net, p, q) \in Nat, Between(net', p, q) \in Nat,
           Between(net', p, q) + Due(p, q)' + Due(q, p)'
               <= Between(net, p, q) + Due(p, q) + Due(q, p)
    PROVE  Budget(p, q)'
<1>1. /\ Due(p, q) \in {0, 2, 3, 4} /\ Due(q, p) \in {0, 2, 3, 4}
      /\ Due(p, q)' \in {0, 2, 3, 4} /\ Due(q, p)' \in {0, 2, 3, 4}
  BY DueType
<1> QED
  BY <1>1, MaxInFlightAssumption DEF Budget

LEMMA BudgetFew ==
    ASSUME NEW p \in Peers, NEW q \in Peers, net' \in Paths,
           Len(net'[p][q]) + Len(net'[q][p]) <= MaxInFlight
    PROVE  Budget(p, q)'
<1>1. /\ Due(p, q)' \in {0, 2, 3, 4} /\ Due(q, p)' \in {0, 2, 3, 4}
  BY DueType
<1>2. /\ Between(net', p, q) \in Nat
      /\ Len(net'[p][q]) \in Nat /\ Len(net'[q][p]) \in Nat
      /\ Between(net', p, q) <= 2 * (Len(net'[p][q]) + Len(net'[q][p]))
  BY BetweenType
<1> DEFINE a == Len(net'[p][q])
           b == Len(net'[q][p])
<1>3. a \in Nat /\ b \in Nat /\ Between(net', p, q) <= 2 * (a + b)
      /\ a + b <= MaxInFlight
  BY <1>2
<1> HIDE DEF a, b
<1> QED
  BY <1>1, <1>2, <1>3, MaxInFlightAssumption DEF Budget

(* The steps of p that are no step of a request between p and q.           *)
LEMMA CalmDues ==
    ASSUME Small, Known, SmallInv, NEW p \in Peers, Acts(p),
           NEW q \in Peers, q # p,
           ~handle_user_input(p), ~send_IHAVE(p)
    PROVE  /\ ~(Arrived(q, p, "WHOHAS") /\ deal_with_WHOHAS(p, q, Head(net[q][p])))
              => Due(q, p)' <= Due(q, p)
           /\ ~(Arrived(q, p, "IHAVE") /\ deal_with_IHAVE(p, q, Head(net[q][p])))
              /\ ~(get_first_hash(p) /\ q = task[p].from)
              => Due(p, q)' <= Due(p, q)
<1>1. /\ OneGet /\ OthersSame(p) /\ Orderliness(p)
      /\ gets'[p] = 0 => gets[p] = 0
      /\ gets'[q] = 0 => gets[q] = 0
  BY OthersFiles, OneActs DEF SmallInv, AskingInv, Small, Plain, Known, Acts
<1>2. AllCalmer(net, net')
  BY CalmOwn
<1>3. /\ Fewer("WHOHAS", net[p][q], net'[p][q]) /\ Fewer("IHAVE", net[p][q], net'[p][q])
      /\ Fewer("WHOHAS", net[q][p], net'[q][p]) /\ Fewer("IHAVE", net[q][p], net'[q][p])
  BY <1>2 DEF AllCalmer, Calmer
<1>4. /\ Answering(p, q)' => Answering(p, q)
      /\ Hearing(q, p)' => Hearing(q, p)
      /\ Second(q, p)' => Second(q, p)
  BY <1>1 DEF OthersSame, Answering, Hearing, Second, Doing
<1>5. ASSUME ~(Arrived(q, p, "WHOHAS") /\ deal_with_WHOHAS(p, q, Head(net[q][p])))
      PROVE  Due(q, p)' <= Due(q, p)
  <2>1. Answering(q, p)' => Answering(q, p)
    BY <1>5, AnsweringOwn
  <2> QED
    BY <1>1, <1>3, <1>4, <2>1, DueLess
<1>6. ASSUME ~(Arrived(q, p, "IHAVE") /\ deal_with_IHAVE(p, q, Head(net[q][p]))),
             ~(get_first_hash(p) /\ q = task[p].from)
      PROVE  Due(p, q)' <= Due(p, q)
  <2>1. Hearing(p, q)' => Hearing(p, q)
    BY <1>6, HearingOwn
  <2>2. Second(p, q)' => Second(p, q)
    BY <1>1, <1>6, SecondOwn
  <2> QED
    BY <1>1, <1>3, <1>4, <2>1, <2>2, DueLess
<1> QED
  BY <1>5, <1>6

(* What a pair owes at each step of a request.                             *)
LEMMA DueAt ==
    ASSUME NEW p, NEW q
    PROVE  /\ gets[p] = 0 \/ Answering(p, q) \/ Hearing(p, q) => Due(p, q) = 4
           /\ Asked(p, q) \/ Offered(p, q) => Due(p, q) >= 3
           /\ Second(p, q) => Due(p, q) >= 2
           /\ ~(gets'[p] = 0 \/ Answering(p, q)' \/ Hearing(p, q)') => Due(p, q)' <= 3
           /\ ~(gets'[p] = 0 \/ Answering(p, q)' \/ Hearing(p, q)')
              /\ ~(Asked(p, q)' \/ Offered(p, q)') => Due(p, q)' <= 2
           /\ ~(gets'[p] = 0 \/ Answering(p, q)' \/ Hearing(p, q)')
              /\ ~(Asked(p, q)' \/ Offered(p, q)') /\ ~Second(p, q)' => Due(p, q)' = 0
  BY DEF Due

LEMMA UserInputBudget ==
    ASSUME Small, Known, SmallInv, NEW p \in Peers, handle_user_input(p),
           NEW q \in Peers, q # p, Budget(p, q)
    PROVE  Budget(p, q)'
<1> DEFINE m == Whohas(RequestFiles[p][gets[p] + 1])
<1>1. /\ net \in Paths /\ task \in [Peers -> Task]
      /\ gets \in [Peers -> Nat] /\ gets[p] = 0 /\ gets' = [gets EXCEPT ![p] = 1]
  BY KnownTypes, TablesNow, FirstGet
  DEF Known, IInv, TypeOK, DownloaderTypeOK, Small, Plain
<1>2. /\ gets'[p] # 0 /\ gets'[q] = gets[q] /\ task'[p] = Select /\ task'[q] = task[q]
      /\ UNCHANGED <<download, waiting>>
  BY <1>1 DEF handle_user_input, process_get, Return
<1>3. net'[q][p] = net[q][p] /\ net'[p][q] = enQ(net[p][q], m)
  BY <1>1 DEF handle_user_input, process_get, Paths
<1>4. m.type = "WHOHAS" /\ Weight(m) = 1
  BY TypeWeights DEF Whohas
<1> HIDE DEF m
<1>5. net[p][q] \in Seq(Packet) /\ net[q][p] \in Seq(Packet)
      /\ net[p][q] \in Seq(Packet \cup {m})
  <2>1. net[p][q] \in Seq(Packet) /\ net[q][p] \in Seq(Packet)
    BY <1>1 DEF Paths
  <2> QED
    BY <2>1
<1>6. At(p, q, "idle")
  BY <1>1 DEF SmallInv, AskingInv, Once, At
<1>7. Due(p, q) = 4
  BY <1>1, DueAt
<1>8. Due(p, q)' <= 3
  <2>1. ~Answering(p, q)' /\ ~Hearing(p, q)'
    BY <1>2, <1>6 DEF At, Answering, Hearing, Doing, Select
  <2> QED
    BY <1>2, <2>1, DueAt
<1>9. Due(q, p)' <= Due(q, p)
  <2>1. Fewer("WHOHAS", net[q][p], net'[q][p])
    BY <1>3 DEF Fewer
  <2>2. Fewer("IHAVE", net[p][q], net'[p][q])
    BY <1>3, <1>4, <1>5, FewerEnQ
  <2>3. /\ ~Answering(q, p)'
        /\ Hearing(q, p)' => Hearing(q, p)
        /\ Second(q, p)' => Second(q, p)
    BY <1>2 DEF Answering, Hearing, Second, Doing, Select
  <2> QED
    BY <1>2, <2>1, <2>2, <2>3, DueLess
<1>10. /\ Between(net, p, q) \in Nat /\ Between(net', p, q) \in Nat
       /\ Between(net', p, q) <= Between(net, p, q) + 1
  <2>1. /\ Load(net[p][q]) \in Nat /\ Load(net[q][p]) \in Nat
        /\ Load(enQ(net[p][q], m)) \in Nat
        /\ Load(enQ(net[p][q], m)) <= Load(net[p][q]) + 1
    BY <1>4, <1>5, LoadType, LoadEnQ
  <2> QED
    BY <1>3, <2>1 DEF Between
<1>11. Due(p, q)' \in {0, 2, 3, 4} /\ Due(q, p) \in {0, 2, 3, 4}
       /\ Due(q, p)' \in {0, 2, 3, 4}
  BY DueType
<1> QED
  BY <1>7, <1>8, <1>9, <1>10, <1>11, BudgetMoves

LEMMA SendIhaveBudget ==
    ASSUME Small, Known, SmallInv, NEW p \in Peers, send_IHAVE(p), UNCHANGED client,
           NEW q \in Peers, q # p, Budget(p, q)
    PROVE  Budget(p, q)'
<1> DEFINE m == Ihave(task[p].found)
<1>1. net \in Paths /\ task \in [Peers -> Task] /\ gets' = gets
  BY KnownTypes, TablesNow DEF client
<1>2. Doing(p, "answer") /\ task' = [task EXCEPT ![p] = Select] /\ UNCHANGED waiting
      /\ (net' = net \/ net' = Sent(net, p, task[p].to, m))
  BY DEF send_IHAVE, Return, client
<1>3. task[p].to \in Peers
  BY <1>1, <1>2, TaskFields DEF Doing, AnswerTask
<1>4. task'[p] = Select /\ task'[q] = task[q]
  BY <1>1, <1>2
<1>5. m.type = "IHAVE" /\ Weight(m) = 1
  BY TypeWeights DEF Ihave
<1> HIDE DEF m
<1>6. net[p][q] \in Seq(Packet \cup {m})
  <2>1. net[p][q] \in Seq(Packet)
    BY <1>1 DEF Paths
  <2> QED
    BY <2>1
<1>7. /\ net'[q][p] = net[q][p]
      /\ net'[p][q] = net[p][q] \/ (task[p].to = q /\ net'[p][q] = enQ(net[p][q], m))
  BY <1>1, <1>2, <1>3, SentAt
<1>8. /\ Between(net, p, q) \in Nat /\ Between(net', p, q) \in Nat
      /\ Between(net', p, q) <= Between(net, p, q)
         \/ (task[p].to = q /\ Between(net', p, q) <= Between(net, p, q) + 1)
  <2>1. /\ net[p][q] \in Seq(Packet \cup {m}) /\ net[q][p] \in Seq(Packet)
        /\ m \in Packet \cup {m}
    BY <1>1, <1>6 DEF Paths
  <2>2. /\ Load(net[p][q]) \in Nat /\ Load(net[q][p]) \in Nat
        /\ Load(enQ(net[p][q], m)) \in Nat
        /\ Load(enQ(net[p][q], m)) <= Load(net[p][q]) + 1
    BY <1>5, <2>1, LoadType, LoadEnQ
  <2> QED
    BY <1>7, <2>2 DEF Between
<1>9. Due(p, q)' <= Due(p, q)
  <2>1. /\ Answering(p, q)' => Answering(p, q)
        /\ ~Hearing(p, q)'
        /\ Second(p, q)' => Second(p, q)
    BY <1>2, <1>4 DEF Answering, Hearing, Second, Doing, Select
  <2>2. Fewer("WHOHAS", net[p][q], net'[p][q])
    <3>1. Fewer("WHOHAS", net[p][q], enQ(net[p][q], m))
      BY <1>5, <1>6, FewerEnQ
    <3> QED
      BY <1>7, <3>1 DEF Fewer
  <2>3. Fewer("IHAVE", net[q][p], net'[q][p])
    BY <1>7 DEF Fewer
  <2> QED
    BY <1>1, <2>1, <2>2, <2>3, DueLess
<1>10. CASE task[p].to = q
  <2>1. Answering(q, p)
    BY <1>2, <1>10 DEF Answering
  <2>2. At(q, p, "answering") /\ gets[q] # 0
    BY <2>1 DEF SmallInv, AskingInv, Once, At, Stages
  <2>3. ~Answering(q, p)' /\ ~Hearing(q, p)' /\ gets'[q] # 0
    BY <1>1, <1>4, <2>2 DEF At, Answering, Hearing, Doing, Select
  <2>4. Due(q, p) = 4 /\ Due(q, p)' <= 3
    BY <2>1, <2>3, DueAt
  <2>5. /\ Due(p, q) \in {0, 2, 3, 4} /\ Due(p, q)' \in {0, 2, 3, 4}
        /\ Due(q, p)' \in {0, 2, 3, 4}
    BY DueType
  <2> QED
    BY <1>8, <1>9, <2>4, <2>5, BudgetMoves
<1>11. CASE task[p].to # q
  <2>1. net'[p][q] = net[p][q]
    BY <1>7, <1>11
  <2>2. Due(q, p)' <= Due(q, p)
    <3>1. /\ ~Answering(q, p)'
          /\ Hearing(q, p)' => Hearing(q, p)
          /\ Second(q, p)' => Second(q, p)
      BY <1>2, <1>4 DEF Answering, Hearing, Second, Doing, Select
    <3> QED
      BY <1>1, <1>7, <2>1, <3>1, DueLess DEF Fewer
  <2>3. /\ Due(p, q) \in {0, 2, 3, 4} /\ Due(p, q)' \in {0, 2, 3, 4}
        /\ Due(q, p) \in {0, 2, 3, 4} /\ Due(q, p)' \in {0, 2, 3, 4}
    BY DueType
  <2> QED
    BY <1>8, <1>9, <1>11, <2>2, <2>3, BudgetMoves
<1> QED
  BY <1>10, <1>11

LEMMA NothingTaken ==
    ASSUME Known, NEW p \in Peers, NEW q \in Peers, net'[q][p] = net[q][p]
    PROVE  /\ ~(Arrived(q, p, "WHOHAS") /\ deal_with_WHOHAS(p, q, Head(net[q][p])))
           /\ ~(Arrived(q, p, "IHAVE") /\ deal_with_IHAVE(p, q, Head(net[q][p])))
<1> SUFFICES ASSUME net[q][p] # <<>>, net' = Taken(net, q, p)
             PROVE  FALSE
  BY DEF Arrived, deal_with_WHOHAS, deal_with_IHAVE
<1>1. net \in Paths /\ net[q][p] \in Seq(Packet)
  BY KnownTypes
<1>2. Tail(net[q][p]) = net[q][p]
  BY <1>1, TakenAt
<1> DEFINE queue == net[q][p]
<1>3. queue \in Seq(Packet) /\ queue # <<>> /\ Tail(queue) = queue
  BY <1>1, <1>2
<1> HIDE DEF queue
<1> QED
  BY <1>3

LEMMA FirstBudget ==
    ASSUME Small, Known, SmallInv, NEW p \in Peers, Acts(p), get_first_hash(p),
           ~handle_user_input(p), ~send_IHAVE(p),
           NEW q \in Peers, q # p, Budget(p, q)
    PROVE  Budget(p, q)'
<1> DEFINE m == Get(Head(task[p].left))
           r == task[p].from
<1>1. /\ net \in Paths /\ net' = Sent(net, p, r, m) /\ gets' = gets
      /\ Doing(p, "parse") /\ parsed(p, TRUE)
  BY KnownTypes DEF get_first_hash
<1>2. r \in Peers /\ Hearing(p, r)
  BY FirstIsFirst DEF SmallInv
<1>3. Weight(m) = 2
  BY TypeWeights DEF Get
<1> HIDE DEF m, r
<1>4. /\ Between(net, p, q) \in Nat /\ Between(net', p, q) \in Nat
      /\ q = r => Between(net', p, q) <= Between(net, p, q) + 2
      /\ q # r => Between(net', p, q) = Between(net, p, q)
  <2>1. /\ Between(net', p, q) \in Nat
        /\ Joins(p, r, p, q) => Between(net', p, q) <= Between(net, p, q) + Weight(m)
        /\ ~Joins(p, r, p, q) => Between(net', p, q) = Between(net, p, q)
    <3>1. /\ Between(Sent(net, p, r, m), p, q) \in Nat
          /\ Joins(p, r, p, q) =>
                Between(Sent(net, p, r, m), p, q) <= Between(net, p, q) + Weight(m)
          /\ ~Joins(p, r, p, q) =>
                Between(Sent(net, p, r, m), p, q) = Between(net, p, q)
      <4>1. net \in Paths /\ r \in Peers /\ p # q
        BY <1>1, <1>2
      <4>2. Between(net, p, q) \in Nat /\ Weight(m) = 2
        BY <1>1, <1>3, BetweenType
      <4> QED
        BY <4>1, <4>2, BetweenSent
    <3>2. net' = Sent(net, p, r, m)
      BY <1>1
    <3> QED
      BY <3>1, <3>2
  <2>2. Between(net, p, q) \in Nat
    BY <1>1, BetweenType
  <2>3. Joins(p, r, p, q) <=> q = r
    BY DEF Joins
  <2> QED
    BY <1>3, <2>1, <2>2, <2>3
<1>5. net'[q][p] = net[q][p]
  BY <1>1, <1>2, SentAt
<1>6. Due(q, p)' <= Due(q, p) /\ (q # r => Due(p, q)' <= Due(p, q))
  BY <1>5, NothingTaken, CalmDues DEF r
<1>7. CASE q = r
  <2>1. At(p, q, "hearing") /\ gets[p] # 0
    BY <1>2, <1>7 DEF SmallInv, AskingInv, Once, At, Stages
  <2>2. ~Hearing(p, q)'
    <3>1. task'[p] = Select \/ task'[p].sent = TRUE
      BY <1>1, ParsedTo
    <3> QED
      BY <3>1 DEF Hearing, Doing, Select
  <2>3. ~Answering(p, q)'
    <3>1. OthersSame(p)
      BY OneActs DEF Known, Acts
    <3> QED
      BY <2>1, <3>1 DEF OthersSame, At, Answering, Doing
  <2>4. ~Asked(p, q)' /\ ~Offered(p, q)'
    <3>1. AllCalmer(net, net')
      BY CalmOwn
    <3> QED
      BY <2>1, <3>1 DEF AllCalmer, Calmer, Fewer, Asked, Offered, At
  <2>5. Due(p, q) = 4 /\ Due(p, q)' <= 2
    BY <1>1, <1>2, <1>7, <2>1, <2>2, <2>3, <2>4, DueAt
  <2>6. Due(p, q)' \in {0, 2, 3, 4} /\ Due(q, p) \in {0, 2, 3, 4}
        /\ Due(q, p)' \in {0, 2, 3, 4}
    BY DueType
  <2> QED
    BY <1>4, <1>6, <1>7, <2>5, <2>6, BudgetMoves
<1>8. CASE q # r
  <2>1. /\ Due(p, q) \in {0, 2, 3, 4} /\ Due(p, q)' \in {0, 2, 3, 4}
        /\ Due(q, p) \in {0, 2, 3, 4} /\ Due(q, p)' \in {0, 2, 3, 4}
    BY DueType
  <2> QED
    BY <1>4, <1>6, <1>8, <2>1, BudgetMoves
<1> QED
  BY <1>7, <1>8

LEMMA EntryBudget ==
    ASSUME Small, Known, SmallInv, NEW p \in Peers, Acts(p), send_entry(p),
           ~handle_user_input(p), ~send_IHAVE(p),
           NEW q \in Peers, q # p, Budget(p, q)
    PROVE  Budget(p, q)'
<1> DEFINE m == Get(waiting[p][task[p].at].hash)
           r == waiting[p][0].from
<1>1. task[p].at = 0 /\ waiting[p][0].active /\ Orderliness(p)
  BY SendsAlone DEF SmallInv
<1>2. /\ net \in Paths /\ net' = Sent(net, p, r, m) /\ gets' = gets
      /\ Doing(p, "scan") /\ visited(p, waiting'[p])
  BY <1>1, KnownTypes DEF send_entry
<1>3. r \in Peers
  BY <1>1, <1>2, ScanFields DEF Known, Waiting
<1>4. Weight(m) = 2
  BY TypeWeights DEF Get
<1>5. q = r => Engaged(p, q) /\ Second(p, q)
  <2>1. 0 \in 0 .. WaitMax - 1
    BY TablesAssumption
  <2> QED
    BY <1>1, <2>1 DEF Engaged, Second
<1> HIDE DEF m, r
<1>6. /\ Between(net, p, q) \in Nat /\ Between(net', p, q) \in Nat
      /\ q = r => Between(net', p, q) <= Between(net, p, q) + 2
      /\ q # r => Between(net', p, q) = Between(net, p, q)
  <2>1. /\ Between(net', p, q) \in Nat
        /\ Joins(p, r, p, q) => Between(net', p, q) <= Between(net, p, q) + Weight(m)
        /\ ~Joins(p, r, p, q) => Between(net', p, q) = Between(net, p, q)
    <3>1. /\ Between(Sent(net, p, r, m), p, q) \in Nat
          /\ Joins(p, r, p, q) =>
                Between(Sent(net, p, r, m), p, q) <= Between(net, p, q) + Weight(m)
          /\ ~Joins(p, r, p, q) =>
                Between(Sent(net, p, r, m), p, q) = Between(net, p, q)
      <4>1. net \in Paths /\ r \in Peers /\ p # q
        BY <1>2, <1>3
      <4>2. Between(net, p, q) \in Nat /\ Weight(m) = 2
        BY <1>2, <1>4, BetweenType
      <4> QED
        BY <4>1, <4>2, BetweenSent
    <3>2. net' = Sent(net, p, r, m)
      BY <1>2
    <3> QED
      BY <3>1, <3>2
  <2>2. Between(net, p, q) \in Nat
    BY <1>2, BetweenType
  <2>3. Joins(p, r, p, q) <=> q = r
    BY DEF Joins
  <2> QED
    BY <1>4, <2>1, <2>2, <2>3
<1>7. net'[q][p] = net[q][p]
  BY <1>2, <1>3, SentAt
<1>8. ~get_first_hash(p)
  BY <1>2 DEF get_first_hash, Doing
<1>9. Due(q, p)' <= Due(q, p) /\ Due(p, q)' <= Due(p, q)
  BY <1>7, <1>8, NothingTaken, CalmDues
<1>10. CASE q = r
  <2>1. At(p, q, "engaged") /\ gets[p] # 0
    BY <1>5, <1>10 DEF SmallInv, AskingInv, Once, At, Stages
  <2>2. ~Hearing(p, q)'
    <3>1. task'[p].doing # "parse"
      BY <1>2, VisitedTo
    <3> QED
      BY <3>1 DEF Hearing, Doing
  <2>3. ~Answering(p, q)'
    <3>1. OthersSame(p)
      BY OneActs DEF Known, Acts
    <3> QED
      BY <2>1, <3>1 DEF OthersSame, At, Answering, Doing
  <2>4. ~Asked(p, q)' /\ ~Offered(p, q)'
    <3>1. AllCalmer(net, net')
      BY CalmOwn
    <3> QED
      BY <2>1, <3>1 DEF AllCalmer, Calmer, Fewer, Asked, Offered, At
  <2>5. ~Second(p, q)'
    BY <1>1, <1>8, SecondOwn
  <2>6. Due(p, q) >= 2 /\ Due(p, q)' = 0
    BY <1>2, <1>5, <1>10, <2>1, <2>2, <2>3, <2>4, <2>5, DueAt
  <2>7. Due(p, q) \in {0, 2, 3, 4} /\ Due(q, p) \in {0, 2, 3, 4}
        /\ Due(q, p)' \in {0, 2, 3, 4}
    BY DueType
  <2> QED
    BY <1>6, <1>9, <1>10, <2>6, <2>7, BudgetMoves
<1>11. CASE q # r
  <2>1. /\ Due(p, q) \in {0, 2, 3, 4} /\ Due(p, q)' \in {0, 2, 3, 4}
        /\ Due(q, p) \in {0, 2, 3, 4} /\ Due(q, p)' \in {0, 2, 3, 4}
    BY DueType
  <2> QED
    BY <1>6, <1>9, <1>11, <2>1, BudgetMoves
<1> QED
  BY <1>10, <1>11

LEMMA TimerBudget ==
    ASSUME Small, Known, SmallInv, NEW p \in Peers, Acts(p), timer(p),
           ~handle_user_input(p), ~send_IHAVE(p), ~get_first_hash(p),
           NEW q \in Peers, q # p, Budget(p, q)
    PROVE  Budget(p, q)'
<1> DEFINE u == upload[p]
           m == Data(u.max_ack + 1, master(u.chunk, u.max_ack + 1))
<1>1. net \in Paths /\ net' = Sent(net, p, u.to, m) /\ InFlight(p, u.to) < MaxInFlight
  BY KnownTypes DEF timer, retransmit
<1>2. u.to \in Peers /\ m \in Packet
  <2>1. u \in UploadInfo
    BY UploadFields DEF timer, retransmit, Known, IInv
  <2>2. u.max_ack + 1 \in 1 .. N /\ u.to \in Peers /\ u.chunk \in Chunks
    BY <2>1, NAssumption DEF UploadInfo
  <2> QED
    BY <2>2, MasterType, PacketTypes
<1> HIDE DEF m, u
<1>3. CASE u.to = q
  <2>1. net' \in Paths
    BY <1>1, <1>2, SentType
  <2>2. net'[p][q] = enQ(net[p][q], m) /\ net'[q][p] = net[q][p]
    BY <1>1, <1>2, <1>3, SentAt
  <2> DEFINE a == net[p][q]
             b == net[q][p]
  <2>3. a \in Seq(Packet) /\ b \in Seq(Packet)
    BY <1>1 DEF Paths
  <2>4. Len(a) + Len(b) < MaxInFlight
    BY <1>1, <1>3 DEF InFlight
  <2> HIDE DEF a, b
  <2>5. Len(enQ(a, m)) \in Nat /\ Len(enQ(a, m)) <= Len(a) + 1
    BY <1>2, <2>3 DEF enQ
  <2>6. Len(enQ(a, m)) + Len(b) <= MaxInFlight
    BY <2>3, <2>4, <2>5, MaxInFlightAssumption
  <2> QED
    BY <2>1, <2>2, <2>6, BudgetFew DEF a, b
<1>4. CASE u.to # q
  <2>1. /\ Between(net, p, q) \in Nat /\ Between(net', p, q) = Between(net, p, q)
    <3>1. ~Joins(p, u.to, p, q)
      BY <1>4 DEF Joins
    <3> DEFINE r == u.to
    <3>2. r \in Peers /\ net' = Sent(net, p, r, m) /\ ~Joins(p, r, p, q)
      BY <1>1, <1>2, <3>1
    <3>3. Between(net, p, q) \in Nat
      BY <1>1, BetweenType
    <3> HIDE DEF r
    <3>4. Between(Sent(net, p, r, m), p, q) = Between(net, p, q)
      BY <1>1, <3>2, BetweenSent
    <3> QED
      BY <3>2, <3>3, <3>4
  <2>2. net'[q][p] = net[q][p]
    BY <1>1, <1>2, SentAt
  <2>3. Due(q, p)' <= Due(q, p) /\ Due(p, q)' <= Due(p, q)
    BY <2>2, NothingTaken, CalmDues
  <2>4. /\ Due(p, q) \in {0, 2, 3, 4} /\ Due(p, q)' \in {0, 2, 3, 4}
        /\ Due(q, p) \in {0, 2, 3, 4} /\ Due(q, p)' \in {0, 2, 3, 4}
    BY DueType
  <2> QED
    BY <2>1, <2>3, <2>4, BudgetMoves
<1> QED
  BY <1>3, <1>4

LEMMA OwnBudget ==
    ASSUME Small, SmallAll, Transfers(TRUE), NEW p \in Peers, Acts(p),
           NEW q \in Peers, q # p, Budget(p, q)
    PROVE  Budget(p, q)'
<1>1. Plain /\ Known /\ SmallInv /\ SlotBeyond /\ OneSessionPerPeer /\ net \in Paths
  BY StoredIs, SmallOrderly, KnownTypes DEF SmallAll, Small, Orderly
<1>2. CASE handle_user_input(p)
  BY <1>1, <1>2, UserInputBudget
<1>3. CASE ~handle_user_input(p) /\ send_IHAVE(p)
  <2>1. UNCHANGED client
    <3>1. task[p].doing = "answer"
      BY <1>3 DEF send_IHAVE, Doing
    <3>2. task[p] # Select /\ task[p] # Ready
      BY <3>1 DEF Select, Ready
    <3> QED
      BY <1>3, <3>1, <3>2
      DEF Acts, wake, other_input, work, timer, process_inbound_udp, MayServe,
          MayEndIteration, skip_hash, get_first_hash, queue_hash, drop_entry,
          keep_entry, send_entry, Doing
  <2> QED
    BY <1>1, <1>3, <2>1, SendIhaveBudget
<1>4. ASSUME ~handle_user_input(p), ~send_IHAVE(p)
      PROVE  Budget(p, q)'
  <2>1. CASE get_first_hash(p)
    BY <1>1, <1>4, <2>1, FirstBudget
  <2>2. CASE send_entry(p)
    BY <1>1, <1>4, <2>2, EntryBudget
  <2>3. CASE ~get_first_hash(p) /\ timer(p)
    BY <1>1, <1>4, <2>3, TimerBudget
  <2>4. ASSUME ~get_first_hash(p), ~send_entry(p), ~timer(p)
        PROVE  Budget(p, q)'
    <3>1. /\ Between(net, p, q) \in Nat /\ Between(net', p, q) \in Nat
          /\ Between(net', p, q) <= Between(net, p, q)
      <4>1. Between(net, p, q) \in Nat
        BY <1>1, BetweenType
      <4>2. CASE UNCHANGED net
        BY <4>1, <4>2
      <4>3. ASSUME NEW r \in Peers, process_inbound_udp(p, r)
            PROVE  Between(net', p, q) \in Nat /\ Between(net', p, q) <= Between(net, p, q)
        BY <1>1, <4>3, AnswersWeigh
      <4> QED
        BY <1>4, <2>4, <4>1, <4>2, <4>3
        DEF Acts, wake, other_input, work, answer_line, skip_hash, queue_hash,
            drop_entry, keep_entry
    <3>2. /\ Due(p, q) \in {0, 2, 3, 4} /\ Due(p, q)' \in {0, 2, 3, 4}
          /\ Due(q, p) \in {0, 2, 3, 4} /\ Due(q, p)' \in {0, 2, 3, 4}
      BY DueType
    <3> DEFINE asked == Arrived(q, p, "WHOHAS") /\ deal_with_WHOHAS(p, q, Head(net[q][p]))
               offered == Arrived(q, p, "IHAVE") /\ deal_with_IHAVE(p, q, Head(net[q][p]))
    <3>3. /\ ~asked => Due(q, p)' <= Due(q, p)
          /\ ~offered => Due(p, q)' <= Due(p, q)
      BY <1>1, <1>4, <2>4, CalmDues
    <3>4. ASSUME asked \/ offered
          PROVE  Between(net', p, q) + 1 = Between(net, p, q)
      <4>1. /\ net' = Taken(net, q, p) /\ net[q][p] # <<>>
            /\ Head(net[q][p]).type \in {"WHOHAS", "IHAVE"}
        BY <3>4 DEF deal_with_WHOHAS, deal_with_IHAVE, Arrived
      <4>2. Weight(Head(net[q][p])) = 1 /\ Joins(q, p, p, q)
        BY <4>1, TypeWeights DEF Joins
      <4> QED
        BY <1>1, <4>1, <4>2, BetweenTaken
    <3>5. (asked => Asked(q, p) /\ ~offered) /\ (offered => Offered(p, q) /\ ~asked)
      <4>1. net[q][p] \in Seq(Packet)
        BY KnownTypes, <1>1
      <4>2. \A type : Arrived(q, p, type) => Holds(net[q][p], type)
        <5> SUFFICES ASSUME NEW type, Arrived(q, p, type) PROVE Holds(net[q][p], type)
          OBVIOUS
        <5>1. net[q][p] # <<>> /\ Head(net[q][p]).type = type
          BY DEF Arrived
        <5> DEFINE queue == net[q][p]
        <5>2. queue \in Seq(Packet) /\ queue # <<>> /\ Head(queue).type = type
          BY <4>1, <5>1
        <5> HIDE DEF queue
        <5>3. 1 \in 1 .. Len(queue) /\ queue[1].type = type
          BY <5>2
        <5> QED
          BY <5>3 DEF Holds, queue
      <4> QED
        BY <4>2 DEF Asked, Offered, Arrived
    <3>6. /\ asked => Due(q, p) >= 3
          /\ offered => Due(p, q) >= 3
      BY <3>5, DueAt
    <3> HIDE DEF asked, offered
    <3>7. Between(net', p, q) + Due(p, q)' + Due(q, p)'
              <= Between(net, p, q) + Due(p, q) + Due(q, p)
      BY <3>1, <3>2, <3>3, <3>4, <3>5, <3>6
    <3> QED
      BY <3>1, <3>7, BudgetMoves
  <2> QED
    BY <2>1, <2>2, <2>3, <2>4
<1> QED
  BY <1>2, <1>3, <1>4

(* A pair that p takes no part in.                                         *)
LEMMA OthersBudget ==
    ASSUME Small, SmallAll, Transfers(TRUE), NEW p \in Peers, Acts(p),
           NEW a \in Peers, NEW b \in Peers, a # b, a # p, b # p, Budget(a, b)
    PROVE  Budget(a, b)'
<1>1. /\ Plain /\ OneGet /\ Known /\ SmallInv /\ SlotBeyond /\ OneSessionPerPeer
      /\ net \in Paths /\ task \in [Peers -> Task]
  BY StoredIs, SmallOrderly, KnownTypes, TablesNow DEF SmallAll, Small, Plain, Orderly
<1>2. OthersSame(p) /\ (gets'[a] = 0 => gets[a] = 0) /\ (gets'[b] = 0 => gets[b] = 0)
  BY <1>1, OneActs, OthersFiles DEF Known, Acts
<1>3. /\ Answering(a, b)' => Answering(a, b)
      /\ Answering(b, a)' => Answering(b, a)
      /\ Hearing(a, b)' => Hearing(a, b)
      /\ Hearing(b, a)' => Hearing(b, a)
      /\ Second(a, b)' => Second(a, b)
      /\ Second(b, a)' => Second(b, a)
  BY <1>2 DEF OthersSame, Answering, Hearing, Second, Doing
<1>4. /\ Between(net, a, b) \in Nat /\ Between(net', a, b) \in Nat
      /\ Between(net', a, b) <= Between(net, a, b)
      /\ Fewer("WHOHAS", net[a][b], net'[a][b]) /\ Fewer("IHAVE", net[a][b], net'[a][b])
      /\ Fewer("WHOHAS", net[b][a], net'[b][a]) /\ Fewer("IHAVE", net[b][a], net'[b][a])
  <2>1. Between(net, a, b) \in Nat
    BY <1>1, BetweenType
  <2>2. ASSUME net'[a][b] = net[a][b], net'[b][a] = net[b][a]
        PROVE  <1>4!:
    BY <2>1, <2>2 DEF Between, Fewer
  <2>3. ASSUME NEW q \in Peers, NEW m, net' = Sent(net, p, q, m)
        PROVE  <1>4!:
    BY <1>1, <2>2, <2>3, SentAt
  <2>4. CASE handle_user_input(p)
    <3>1. net'[a][b] = net[a][b] /\ net'[b][a] = net[b][a]
      BY <1>1, <2>4 DEF handle_user_input, process_get, Paths
    <3> QED
      BY <2>2, <3>1
  <2>5. CASE send_IHAVE(p)
    <3>1. task[p].to \in Peers
      BY <1>1, <2>5, TaskFields DEF send_IHAVE, Doing, AnswerTask
    <3> QED
      BY <2>2, <2>3, <2>5, <3>1 DEF send_IHAVE
  <2>6. CASE UNCHANGED net
    BY <2>2, <2>6
  <2>7. CASE get_first_hash(p)
    <3>1. task[p].from \in Peers
      BY <1>1, <2>7, ParseFields DEF get_first_hash, Known
    <3> QED
      BY <2>3, <2>7, <3>1 DEF get_first_hash
  <2>8. CASE send_entry(p)
    <3>1. waiting[p][task[p].at].from \in Peers
      BY <1>1, <2>8, ScanFields DEF send_entry, Known, Waiting
    <3> QED
      BY <2>3, <2>8, <3>1 DEF send_entry
  <2>9. CASE timer(p)
    <3>1. upload[p].to \in Peers
      <4>1. upload[p] \in UploadInfo
        BY <1>1, <2>9, UploadFields DEF timer, retransmit, Known, IInv
      <4> QED
        BY <4>1 DEF UploadInfo
    <3> QED
      BY <2>3, <2>9, <3>1 DEF timer, retransmit
  <2>10. ASSUME NEW q \in Peers, process_inbound_udp(p, q),
                ~handle_user_input(p), ~send_IHAVE(p)
         PROVE  <1>4!:
    <3>1. Between(net', a, b) \in Nat /\ Between(net', a, b) <= Between(net, a, b)
      BY <1>1, <2>10, AnswersWeigh
    <3>2. AllCalmer(net, net')
      BY <1>1, <2>10, CalmOwn
    <3> QED
      BY <2>1, <3>1, <3>2 DEF AllCalmer, Calmer
  <2> QED
    BY <2>4, <2>5, <2>6, <2>7, <2>8, <2>9, <2>10
    DEF Acts, wake, other_input, work, answer_line, skip_hash, queue_hash,
        drop_entry, keep_entry
<1>5. Due(a, b)' <= Due(a, b) /\ Due(b, a)' <= Due(b, a)
  BY <1>2, <1>3, <1>4, DueLess
<1>6. /\ Due(a, b) \in {0, 2, 3, 4} /\ Due(a, b)' \in {0, 2, 3, 4}
      /\ Due(b, a) \in {0, 2, 3, 4} /\ Due(b, a)' \in {0, 2, 3, 4}
  BY DueType
<1> QED
  BY <1>4, <1>5, <1>6, BudgetMoves

LEMMA DisturbBudget ==
    ASSUME Known, NEW x \in Peers, NEW y \in Peers, disturb(x, y),
           NEW a \in Peers, NEW b \in Peers, a # b, Budget(a, b)
    PROVE  Budget(a, b)'
<1>1. net \in Paths /\ net[x][y] # <<>> /\ net[x][y] \in Seq(Packet)
      /\ UNCHANGED <<task, gets, waiting>>
  BY KnownTypes
  DEF disturb, Lose, CrowdOut, Duplicate, Unreliable, Arrived, client
<1>2. Due(a, b)' <= Due(a, b) /\ Due(b, a)' <= Due(b, a)
  <2>1. AllCalmer(net, net')
    BY CalmerDisturbed
  <2>2. /\ Fewer("WHOHAS", net[a][b], net'[a][b]) /\ Fewer("IHAVE", net[a][b], net'[a][b])
        /\ Fewer("WHOHAS", net[b][a], net'[b][a]) /\ Fewer("IHAVE", net[b][a], net'[b][a])
    BY <2>1 DEF AllCalmer, Calmer
  <2>3. /\ Answering(a, b)' => Answering(a, b)
        /\ Answering(b, a)' => Answering(b, a)
        /\ Hearing(a, b)' => Hearing(a, b)
        /\ Hearing(b, a)' => Hearing(b, a)
        /\ Second(a, b)' => Second(a, b)
        /\ Second(b, a)' => Second(b, a)
    BY <1>1 DEF Answering, Hearing, Second, Doing
  <2> QED
    BY <1>1, <2>2, <2>3, DueLess
<1>3. /\ Due(a, b) \in {0, 2, 3, 4} /\ Due(a, b)' \in {0, 2, 3, 4}
      /\ Due(b, a) \in {0, 2, 3, 4} /\ Due(b, a)' \in {0, 2, 3, 4}
  BY DueType
<1>4. ASSUME Between(net', a, b) \in Nat, Between(net', a, b) <= Between(net, a, b)
      PROVE  Budget(a, b)'
  <2>1. Between(net, a, b) \in Nat
    BY <1>1, BetweenType
  <2> QED
    BY <1>2, <1>3, <1>4, <2>1, BudgetMoves
<1>5. CASE Lose(x, y) \/ CrowdOut(x, y)
  <2>1. net' = Taken(net, x, y) /\ Weight(Head(net[x][y])) \in {1, 2}
        /\ Between(net, a, b) \in Nat
    BY <1>1, <1>5, WeightType, BetweenType DEF Lose, CrowdOut
  <2> DEFINE n == Taken(net, x, y)
  <2>2. /\ Between(n, a, b) \in Nat
        /\ \/ Between(net, a, b) = Between(n, a, b) + Weight(Head(net[x][y]))
           \/ Between(net, a, b) = Between(n, a, b)
    BY <1>1, BetweenTaken
  <2> HIDE DEF n
  <2>3. Between(net', a, b) \in Nat /\ Between(net', a, b) <= Between(net, a, b)
    BY <2>1, <2>2 DEF n
  <2> QED
    BY <1>4, <2>3
<1>6. CASE Duplicate(x, y)
  <2> DEFINE queue == net[x][y]
             long == Copied(queue, Dups)
  <2>1. queue \in Seq(Packet) /\ queue # <<>> /\ Dups \in Nat
    BY <1>1, LossAssumption
  <2>2. net' = [net EXCEPT ![x][y] = long] /\ InFlight(x, y) + Dups <= MaxInFlight
    BY <1>1, <1>6 DEF Duplicate, Copied, Paths
  <2> HIDE DEF queue
  <2>3. long \in Seq(Packet) /\ Len(long) = Dups + Len(queue)
    BY <2>1, CopiedIs
  <2> HIDE DEF long
  <2>4. net' \in Paths
    BY <1>1, <2>2, <2>3 DEF Paths
  <2>5. CASE Joins(x, y, a, b)
    <3>1. /\ x # y /\ net'[x][y] = long /\ net'[y][x] = net[y][x]
      BY <1>1, <2>2, <2>5 DEF Joins, Paths
    <3> DEFINE n1 == Len(queue)
               n2 == Len(net[y][x])
    <3>2. n1 \in Nat /\ n2 \in Nat
      <4>1. net[y][x] \in Seq(Packet)
        BY <1>1 DEF Paths
      <4> QED
        BY <2>1, <4>1
    <3>3. n1 + n2 + Dups <= MaxInFlight
      BY <2>2 DEF InFlight, queue
    <3>4. Len(net'[x][y]) = Dups + n1 /\ Len(net'[y][x]) = n2
      BY <2>3, <3>1
    <3> HIDE DEF n1, n2
    <3>5. /\ Len(net'[x][y]) + Len(net'[y][x]) <= MaxInFlight
          /\ Len(net'[y][x]) + Len(net'[x][y]) <= MaxInFlight
      BY <2>1, <3>2, <3>3, <3>4, MaxInFlightAssumption
    <3> QED
      BY <2>4, <2>5, <3>5, BudgetFew DEF Joins
  <2>6. CASE ~Joins(x, y, a, b)
    <3>1. net'[a][b] = net[a][b] /\ net'[b][a] = net[b][a]
      BY <1>1, <2>2, <2>6 DEF Joins, Paths
    <3>2. Between(net', a, b) = Between(net, a, b) /\ Between(net, a, b) \in Nat
      BY <1>1, <3>1, BetweenType DEF Between
    <3> QED
      BY <1>4, <3>2
  <2> QED
    BY <2>5, <2>6
<1> QED
  BY <1>5, <1>6 DEF disturb

-----------------------------------------------------------------------------
(* Nobody sends itself anything.                                           *)
LEMMA NextSelfEmpty ==
    ASSUME OneGet, Known, SelfEmpty, [Next]_vars
    PROVE  SelfEmpty'
<1>1. net \in Paths /\ IInv /\ OfferInv
  BY KnownTypes DEF Known
<1>2. ASSUME NEW x \in Peers, NEW y \in Peers, x # y, NEW m, NEW n \in Paths,
             \A r \in Peers : n[r][r] = <<>>
      PROVE  \A r \in Peers : Sent(n, x, y, m)[r][r] = <<>>
  BY <1>2, SentAt
<1>3. \A r \in Peers : net[r][r] = <<>>
  BY DEF SelfEmpty
<1>4. CASE UNCHANGED net
  BY <1>3, <1>4 DEF SelfEmpty
<1>5. ASSUME NEW p \in Peers, handle_user_input(p)
      PROVE  SelfEmpty'
  <2>1. net'[p][p] = net[p][p] /\ \A r \in Peers : r # p => net'[r] = net[r]
    BY <1>1, <1>5 DEF handle_user_input, process_get, Paths
  <2> QED
    BY <1>3, <2>1 DEF SelfEmpty
<1>6. ASSUME NEW p \in Peers, work(p)
      PROVE  SelfEmpty'
  <2>1. CASE send_IHAVE(p)
    <3>1. task[p].to \in Peers /\ task[p].to # p
      <4>1. task[p] \in AnswerTask /\ TaskFits(p, task[p]) /\ task[p].doing = "answer"
        BY <1>1, <2>1, TaskFields DEF send_IHAVE, Doing, IInv, TypeOK, OfferInv, PeerFits
      <4> QED
        BY <4>1 DEF AnswerTask, TaskFits
    <3>2. net' = net \/ net' = Sent(net, p, task[p].to, Ihave(task[p].found))
      BY <2>1 DEF send_IHAVE
    <3> QED
      BY <1>1, <1>2, <1>3, <1>4, <3>1, <3>2 DEF SelfEmpty
  <2>2. CASE get_first_hash(p)
    <3>1. task[p].from \in Peers /\ task[p].from # p
      <4>1. Doing(p, "parse") /\ parsed(p, TRUE)
        BY <2>2 DEF get_first_hash
      <4>2. Head(task[p].left) \in Offer(p, task[p].from)
        BY <1>1, <4>1, ParseFits
      <4> QED
        BY <1>1, <4>1, <4>2, ParseFields, OfferApart
    <3>2. PICK m : net' = Sent(net, p, task[p].from, m)
      BY <2>2 DEF get_first_hash
    <3> QED
      BY <1>1, <1>2, <1>3, <3>1, <3>2 DEF SelfEmpty
  <2>3. CASE send_entry(p)
    <3> DEFINE e == waiting[p][task[p].at]
    <3>1. e.from \in Peers /\ e.from # p
      <4>1. Doing(p, "scan")
        BY <2>3 DEF send_entry
      <4>2. e \in Waiting /\ task[p].at \in Entries
        BY <1>1, <4>1, ScanFields, TablesAssumption DEF Entries
      <4>3. e.hash \in Offer(p, e.from)
        BY <1>1, <4>2 DEF Waiting, OfferInv, PeerFits, ListFits
      <4> QED
        BY <4>2, <4>3, OfferApart DEF Waiting
    <3>2. PICK m : net' = Sent(net, p, e.from, m)
      BY <2>3 DEF send_entry
    <3> QED
      BY <1>1, <1>2, <1>3, <3>1, <3>2 DEF SelfEmpty
  <2> QED
    BY <1>4, <1>6, <2>1, <2>2, <2>3
    DEF work, answer_line, skip_hash, queue_hash, drop_entry, keep_entry
<1>7. ASSUME NEW p \in Peers, timer(p)
      PROVE  SelfEmpty'
  <2>1. upload[p].to \in Peers /\ upload[p].to # p
    <3>1. upload[p] \in UploadInfo /\ UploadFits(p, upload[p]) /\ upload[p].to # NoPeer
      BY <1>1, <1>7, UploadFields DEF timer, retransmit, IInv, OfferInv, PeerFits
    <3> QED
      BY <3>1, OfferApart DEF UploadInfo, UploadFits
  <2>2. PICK m : net' = Sent(net, p, upload[p].to, m)
    BY <1>7 DEF timer, retransmit
  <2> QED
    BY <1>1, <1>2, <1>3, <2>1, <2>2 DEF SelfEmpty
<1>8. ASSUME NEW p \in Peers, NEW q \in Peers, process_inbound_udp(p, q)
      PROVE  SelfEmpty'
  <2> DEFINE m == Head(net[q][p])
             n == Taken(net, q, p)
  <2>1. net[q][p] # <<>> /\ p # q
    BY <1>3, <1>8 DEF process_inbound_udp, Arrived
  <2>2. n \in Paths /\ \A r \in Peers : n[r][r] = <<>>
    BY <1>1, <1>3, <2>1, TakenType, TakenAt
  <2> HIDE DEF n
  <2>3. ASSUME NEW a, net' = Sent(n, p, q, a) PROVE SelfEmpty'
    BY <1>2, <2>1, <2>2, <2>3 DEF SelfEmpty
  <2>4. CASE net' = n
    BY <2>2, <2>4 DEF SelfEmpty
  <2>5. CASE deal_with_GET(p, q, m) \/ deal_with_ACK(p, q, m)
    BY <2>3, <2>4, <2>5 DEF deal_with_GET, deal_with_ACK, Answered, n
  <2>6. CASE Arrived(q, p, "DATA") /\ deal_with_DATA(p, q, m)
    <3>1. PICK a : net' = Sent(acked_stranger(p, q, m), p, q, a)
      BY <2>6 DEF deal_with_DATA, ignore_DATA, accept_DATA
    <3>2. CASE acked_stranger(p, q, m) = n
      BY <2>3, <3>1, <3>2
    <3>3. CASE acked_stranger(p, q, m) = Sent(n, p, q, Ack(m.seq))
      <4>1. m.seq \in Nat
        BY <1>1, <2>1, <2>6, ArrivedPacket, PacketFields DEF IInv, TypeOK
      <4>2. Sent(n, p, q, Ack(m.seq)) \in Paths
        BY <2>2, <4>1, PacketTypes, SentType
      <4>3. \A r \in Peers : Sent(n, p, q, Ack(m.seq))[r][r] = <<>>
        BY <1>2, <2>1, <2>2
      <4> QED
        BY <1>2, <2>1, <3>1, <3>3, <4>2, <4>3 DEF SelfEmpty
    <3> QED
      BY <3>2, <3>3 DEF acked_stranger, Answered, n
  <2> QED
    BY <1>8, <2>4, <2>5, <2>6
    DEF process_inbound_udp, deal_with_WHOHAS, deal_with_IHAVE, n
<1>9. ASSUME NEW x \in Peers, NEW y \in Peers, disturb(x, y)
      PROVE  SelfEmpty'
  <2>1. x # y
    BY <1>3, <1>9 DEF disturb, Lose, CrowdOut, Duplicate, Unreliable, Arrived
  <2>2. \A r \in Peers : net'[r][r] = net[r][r]
    BY <1>1, <1>9, <2>1 DEF disturb, Lose, CrowdOut, Duplicate, Taken, Paths
  <2> QED
    BY <1>3, <2>2 DEF SelfEmpty
<1> QED
  BY <1>4, <1>5, <1>6, <1>7, <1>8, <1>9 DEF Next, vars, wake, other_input

(* What is kept while nothing is lost to a full queue.                     *)
SureAll ==
    /\ SmallAll /\ Transfers(TRUE) /\ SelfEmpty
    /\ \A p, q \in Peers : p # q => Budget(p, q)

LEMMA InitSureAll ==
    ASSUME Small
    PROVE  Init => SureAll
<1> SUFFICES ASSUME Init PROVE SureAll
  OBVIOUS
<1>1. SmallAll /\ Transfers(TRUE)
  BY InitSmallAll, InitTransfers
<1>2. \A p, q \in Peers : net[p][q] = <<>> /\ gets[p] = 0
  BY DEF Init, NetworkInit, DownloaderInit
<1>3. ASSUME NEW p \in Peers, NEW q \in Peers
      PROVE  Budget(p, q)
  <2>1. Between(net, p, q) = 0
    BY <1>2, EmptyLoad DEF Between
  <2>2. Due(p, q) = 4 /\ Due(q, p) = 4
    BY <1>2 DEF Due
  <2> QED
    BY <2>1, <2>2, MaxInFlightAssumption DEF Budget
<1> QED
  BY <1>1, <1>2, <1>3 DEF SureAll, SelfEmpty

LEMMA SureHasRoom ==
    ASSUME Roomy, SureAll
    PROVE  GetsHaveRoom
<1>1. ASSUME NEW p \in Peers, NEW q \in Peers
      PROVE  Len(net[p][q]) < QueueMax
  <2>1. Known /\ net \in Paths /\ QueueMax \in Nat
    BY KnownTypes, QueueMaxAssumption DEF SureAll, SmallAll
  <2>2. CASE p = q
    BY <2>1, <2>2, QueueMaxAssumption DEF SureAll, SelfEmpty
  <2>3. CASE p # q
    <3>1. Budget(p, q)
      BY <2>3 DEF SureAll
    <3>2. Due(p, q) \in {0, 2, 3, 4} /\ Due(q, p) \in {0, 2, 3, 4}
      BY DueType
    <3>3. /\ Between(net, p, q) \in Nat
          /\ Len(net[p][q]) \in Nat /\ Len(net[q][p]) \in Nat
          /\ Len(net[p][q]) + Len(net[q][p]) <= Between(net, p, q)
      BY <2>1, BetweenType
    <3> DEFINE a == Len(net[p][q])
               b == Len(net[q][p])
    <3>4. a \in Nat /\ b \in Nat /\ a + b <= Between(net, p, q)
      BY <3>3
    <3> HIDE DEF a, b
    <3>5. a < QueueMax
      BY <2>1, <3>1, <3>2, <3>3, <3>4, MaxInFlightAssumption DEF Budget, Roomy
    <3> QED
      BY <3>5 DEF a
  <2> QED
    BY <2>2, <2>3
<1> QED
  BY <1>1 DEF GetsHaveRoom

LEMMA NextSureAll ==
    ASSUME Small, Roomy, SureAll, [Next]_vars
    PROVE  SureAll'
<1>1. /\ SmallAll /\ Transfers(TRUE) /\ GetsHaveRoom /\ SelfEmpty /\ Known /\ OneGet
      /\ \A p, q \in Peers : p # q => Budget(p, q)
  BY SureHasRoom DEF SureAll, SmallAll, Small, Plain
<1>2. SmallAll' /\ Transfers(TRUE)'
  BY <1>1, NextSmallSure DEF Roomy
<1>3. SelfEmpty'
  BY <1>1, NextSelfEmpty
<1>4. ASSUME NEW a \in Peers, NEW b \in Peers, a # b
      PROVE  Budget(a, b)'
  <2>1. Budget(a, b) /\ Budget(b, a)
    BY <1>1, <1>4
  <2>2. ASSUME NEW p \in Peers, Acts(p)
        PROVE  Budget(a, b)'
    <3>1. CASE a = p
      BY <1>1, <1>4, <2>1, <2>2, <3>1, OwnBudget
    <3>2. CASE b = p
      <4>1. Budget(b, a)'
        BY <1>1, <1>4, <2>1, <2>2, <3>2, OwnBudget
      <4>2. net' \in Paths
        BY <1>2 DEF SmallAll, Known, IInv, TypeOK, NetworkTypeOK, Paths
      <4>3. Between(net', a, b) \in Nat /\ Between(net', a, b) = Between(net', b, a)
        BY <4>2, BetweenBothWays
      <4>4. Due(a, b)' \in {0, 2, 3, 4} /\ Due(b, a)' \in {0, 2, 3, 4}
        BY DueType
      <4>5. Between(net', b, a) + Due(b, a)' + Due(a, b)' <= 2 * MaxInFlight + 8
        BY <4>1 DEF Budget
      <4>6. Between(net', a, b) + Due(a, b)' + Due(b, a)' <= 2 * MaxInFlight + 8
        BY <4>3, <4>4, <4>5
      <4> QED
        BY <4>6 DEF Budget
    <3>3. CASE a # p /\ b # p
      BY <1>1, <1>4, <2>1, <2>2, <3>3, OthersBudget
    <3> QED
      BY <3>1, <3>2, <3>3
  <2>3. ASSUME NEW x \in Peers, NEW y \in Peers, disturb(x, y)
        PROVE  Budget(a, b)'
    BY <1>1, <1>4, <2>1, <2>3, DisturbBudget
  <2>4. CASE UNCHANGED vars
    BY <2>1, <2>4 DEF vars, client, Budget, Between, Due, Answering, Hearing, Asked,
       Offered, Second, Doing
  <2> QED
    BY <2>2, <2>3, <2>4 DEF Next, Acts
<1> QED
  BY <1>2, <1>3, <1>4 DEF SureAll

(* No link is ever full, so a GET always finds room.  This rests on the    *)
(* bound MaxInFlight: the timer of the code repeats a block every half a   *)
(* second whatever is under way, and only a network that delivers faster   *)
(* than that keeps the code below the bound.                               *)
THEOREM RoomForGets ==
    ASSUME Small, Roomy
    PROVE  Spec => []GetsHaveRoom
<1>1. SureAll /\ [Next]_vars => SureAll'
  BY NextSureAll
<1>2. SureAll => GetsHaveRoom
  BY SureHasRoom
<1> QED
  BY <1>1, <1>2, InitSureAll, PTL DEF Spec

(* Then the provider that a session waits on serves that session or is     *)
(* about to be asked to, and is not ahead of it by more than the ACK 1 of  *)
(* finding 1.                                                              *)
THEOREM UploadsAlwaysServe ==
    ASSUME Small, Roomy
    PROVE  Spec => []UploadServesSession /\ []SenderNotAhead
<1>1. Spec => []GetsHaveRoom
  BY RoomForGets
<1>2. Spec /\ []GetsHaveRoom => []UploadServesSession /\ []SenderNotAhead
  BY UploadsServe DEF Roomy
<1> QED
  BY <1>1, <1>2, PTL

(* Nor does its max_ack ever go back, except that a GET starts it anew.    *)
THEOREM AcksAlwaysGrow ==
    ASSUME Small, Roomy
    PROVE  Spec => MaxAckGrows
<1>1. Spec => []GetsHaveRoom
  BY RoomForGets
<1>2. Spec /\ []GetsHaveRoom => MaxAckGrows
  BY AcksGrow DEF Roomy
<1> QED
  BY <1>1, <1>2, PTL
=============================================================================
