----------------------------- MODULE OfferProofs -----------------------------
(***************************************************************************)
(* Who asks whom for what.  Everything that follows a WHOHAS, up to the    *)
(* upload it ends in, is about a chunk that this peer's user asked for and *)
(* that this provider has: when no user gives a second GET command while   *)
(* answers to the first are still under way.                               *)
(***************************************************************************)
EXTENDS SwarmProofs, NaturalsInduction, WellFoundedInduction

(* No user gives more than one GET command.                                *)
OneGet == \A p \in Peers : Len(RequestFiles[p]) <= 1

Hashes(seq) == {seq[i] : i \in 1 .. Len(seq)}

(* What the user of p asked for, and what p can be offered by q.           *)
Wishes(p) == Hashes(request_file(p))
Offer(p, q) == IF p = q THEN {} ELSE Wishes(p) \cap Hashes(HasFiles[q])

IsLine(p, rid) == rid \in 0 .. Len(request_file(p)) - 1

(* All that the user of p ever asks for.                                   *)
Orders(p) ==
    UNION {Hashes(RequestFiles[p][g]) : g \in 1 .. Len(RequestFiles[p])}

(* The chunks that q lists behind another one that p orders: when p hears  *)
(* of such a chunk it has asked q for the other.                           *)
Behind(p, q) ==
    {HasFiles[q][j] : j \in {j \in 1 .. Len(HasFiles[q]) :
        \E i \in 1 .. j - 1 : HasFiles[q][i] \in Orders(p)}}

RestBehind(p, q, seq) == \A j \in 2 .. Len(seq) : seq[j] \in Behind(p, q)

-----------------------------------------------------------------------------
(* The packets x may send y.                                               *)
Fits(x, y, m) ==
    /\ m.type = "WHOHAS" => x # y /\ Hashes(m.hashes) \subseteq Wishes(x)
    /\ m.type = "IHAVE" => /\ Hashes(m.hashes) \subseteq Offer(y, x)
                           /\ RestBehind(y, x, m.hashes)
    /\ m.type = "GET" => m.hash \in Offer(x, y)
    /\ m.type = "DATA" => Offer(y, x) # {}
    /\ m.type = "ACK" => Offer(x, y) # {}

Fit(x, y) == {m \in Packet : Fits(x, y, m)}

PathsFit == \A x, y \in Peers : net[x][y] \in Seq(Fit(x, y))

(* What a thread may be doing, and what may be in the tables.              *)
FoundSome(p, q, found, at) ==
    found # <<>> => \E i \in 1 .. at - 1 : HasFiles[q][i] \in Orders(p)

TaskFits(p, t) ==
    /\ t.doing = "answer" => /\ t.to # p
                             /\ t.asked \subseteq Wishes(t.to)
                             /\ Hashes(t.found) \subseteq Offer(t.to, p)
                             /\ RestBehind(t.to, p, t.found)
                             /\ FoundSome(t.to, p, t.found, t.at)
    /\ t.doing = "parse" => /\ Hashes(t.left) \subseteq Offer(p, t.from)
                            /\ RestBehind(p, t.from, t.left)
                            /\ t.sent => Head(t.left) \in Behind(p, t.from)

ListFits(p, list) ==
    \A i \in Entries : list[i].active =>
        /\ list[i].hash \in Offer(p, list[i].from)
        /\ list[i].hash \in Behind(p, list[i].from)
        /\ IsLine(p, list[i].rid) /\ Wanted(p, list[i].rid) = list[i].hash

TableFits(p, table) ==
    \A i \in 0 .. MaxConn - 1 : table[i].active =>
        /\ IsLine(p, table[i].rid) /\ table[i].from \in Peers
        /\ Wanted(p, table[i].rid) \in Offer(p, table[i].from)

UploadFits(p, u) == u.to # NoPeer => u.chunk \in Offer(u.to, p)

StatusFits(p, status) ==
    \A l \in 0 .. Len(request_file(p)) - 1 : status[l].hash = Wanted(p, l)

PeerFits(p) ==
    /\ TaskFits(p, task[p])
    /\ ListFits(p, waiting[p])
    /\ TableFits(p, download[p])
    /\ UploadFits(p, upload[p])
    /\ StatusFits(p, chunk_status[p])

OfferInv == PathsFit /\ \A p \in Peers : PeerFits(p)

-----------------------------------------------------------------------------
(* A search that has something to find finds it.                           *)
LEMMA FirstFinds ==
    ASSUME NEW S \in SUBSET Nat, S # {}
    PROVE  First(S) \in S /\ \A i \in S : First(S) <= i
<1>1. PICK x \in S : \A y \in S : ~(<<y, x>> \in OpToRel(<, Nat))
  BY NatLessThanWellFounded, WFMin
<1>2. ASSUME NEW y \in S PROVE x <= y
  <2>1. x \in Nat /\ y \in Nat
    OBVIOUS
  <2>2. ~(y < x)
    BY <1>1, <2>1 DEF OpToRel
  <2> QED
    BY <2>1, <2>2
<1> QED
  BY <1>2 DEF First

(* The line of a hash that is in the request file.                         *)
LEMMA LineOfWish ==
    ASSUME TypeOK, NEW p \in Peers, NEW c \in Wishes(p)
    PROVE  /\ IsLine(p, search_id_for_hash(p, c))
           /\ Wanted(p, search_id_for_hash(p, c)) = c
<1> DEFINE S == {l \in 0 .. Len(request_file(p)) - 1 : request_file(p)[l + 1] = c}
<1>1. Len(request_file(p)) \in Nat
  BY RequestFileType, RequestFilesAssumption
<1>2. PICK i \in 1 .. Len(request_file(p)) : c = request_file(p)[i]
  BY DEF Wishes, Hashes
<1>3. i - 1 \in S
  BY <1>1, <1>2
<1>4. S \in SUBSET Nat /\ S # {}
  <2>1. 0 .. Len(request_file(p)) - 1 \subseteq Nat
    BY <1>1
  <2>2. S \subseteq 0 .. Len(request_file(p)) - 1
    OBVIOUS
  <2> HIDE DEF S
  <2> QED
    BY <1>3, <2>1, <2>2
<1>5. First(S) \in S
  <2> HIDE DEF S
  <2> QED
    BY <1>4, FirstFinds
<1> QED
  BY <1>5 DEF search_id_for_hash, IsLine, Wanted

(* The parts of a list of hashes.                                          *)
LEMMA HeadTailHashes ==
    ASSUME NEW S, NEW seq \in Seq(S), seq # <<>>
    PROVE  Head(seq) \in Hashes(seq) /\ Hashes(Tail(seq)) \subseteq Hashes(seq)
<1>1. Len(seq) \in Nat /\ Len(seq) # 0
  BY EmptySeq
<1>2. Head(seq) = seq[1]
  BY <1>1
<1>3. Len(Tail(seq)) = Len(seq) - 1 /\ \A i \in 1 .. Len(Tail(seq)) : Tail(seq)[i] = seq[i + 1]
  BY HeadTailProperties
<1> QED
  BY <1>1, <1>2, <1>3 DEF Hashes

LEMMA OrdersWished ==
    ASSUME TypeOK, NEW p \in Peers
    PROVE  Wishes(p) \subseteq Orders(p)
<1>1. CASE gets[p] = 0
  <2>1. Wishes(p) = {}
    BY <1>1, EmptySeq DEF Wishes, Hashes, request_file
  <2> QED
    BY <2>1
<1>2. CASE gets[p] # 0
  <2>1. gets[p] \in 1 .. Len(RequestFiles[p])
    <3>1. gets[p] \in Nat /\ gets[p] <= Len(RequestFiles[p])
      BY DEF TypeOK, DownloaderTypeOK
    <3>2. Len(RequestFiles[p]) \in Nat
      BY RequestFilesAssumption
    <3> QED
      BY <1>2, <3>1, <3>2
  <2> QED
    BY <1>2, <2>1 DEF Wishes, Orders, request_file
<1> QED
  BY <1>1, <1>2

LEMMA HashesReadSent ==
    ASSUME NEW m, m.hashes \in Seq(Chunks)
    PROVE  /\ Hashes(HashesRead(m)) \subseteq Hashes(m.hashes)
           /\ \A p, q : RestBehind(p, q, m.hashes) =>
                  RestBehind(p, q, HashesRead(m))
<1> DEFINE n == ParsedCount(Len(m.hashes))
<1>1. Len(m.hashes) \in Nat /\ n \in 0 .. Len(m.hashes)
  BY ParsedCountBound
<1>2. \A i \in 1 .. n : m.hashes[i] \in Chunks
  BY <1>1
<1>3. Len(HashesRead(m)) = n /\ \A i \in 1 .. n : HashesRead(m)[i] = m.hashes[i]
  BY <1>1, <1>2, SubSeqProperties DEF HashesRead
<1>4. \A p, q : RestBehind(p, q, m.hashes) => RestBehind(p, q, HashesRead(m))
  BY <1>1, <1>3 DEF RestBehind
<1> QED
  BY <1>1, <1>3, <1>4 DEF Hashes

LEMMA EmptyBehind ==
    \A p, q, at : RestBehind(p, q, <<>>) /\ FoundSome(p, q, <<>>, at)
<1>1. Len(<<>>) = 0
  BY EmptySeq
<1> QED
  BY <1>1 DEF RestBehind, FoundSome

-----------------------------------------------------------------------------
(* The network.                                                            *)
LEMMA SentAt ==
    ASSUME NEW n \in Paths, NEW p \in Peers, NEW q \in Peers, NEW m,
           NEW x \in Peers, NEW y \in Peers
    PROVE  Sent(n, p, q, m)[x][y] = IF x = p /\ y = q THEN enQ(n[p][q], m)
                                    ELSE n[x][y]
  BY DEF Sent, Paths

LEMMA TakenAt ==
    ASSUME NEW n \in Paths, NEW p \in Peers, NEW q \in Peers,
           NEW x \in Peers, NEW y \in Peers
    PROVE  Taken(n, p, q)[x][y] = IF x = p /\ y = q THEN Tail(n[p][q])
                                  ELSE n[x][y]
  BY DEF Taken, Paths

(* The paths of a network n carry what fits.                               *)
Carries(n) == n \in Paths /\ \A x, y \in Peers : n[x][y] \in Seq(Fit(x, y))

LEMMA SentFits ==
    ASSUME NEW n, Carries(n), NEW p \in Peers, NEW q \in Peers,
           NEW m \in Packet, Fits(p, q, m)
    PROVE  Carries(Sent(n, p, q, m))
<1>1. n \in Paths /\ \A x, y \in Peers : n[x][y] \in Seq(Fit(x, y))
  BY DEF Carries
<1>2. Sent(n, p, q, m) \in Paths
  BY <1>1, SentType
<1>3. ASSUME NEW x \in Peers, NEW y \in Peers
      PROVE  Sent(n, p, q, m)[x][y] \in Seq(Fit(x, y))
  <2>1. m \in Fit(p, q)
    BY DEF Fit
  <2>2. enQ(n[p][q], m) \in Seq(Fit(p, q))
    BY <1>1, <2>1, AppendProperties DEF enQ
  <2> QED
    BY <1>1, <2>2, SentAt
<1> QED
  BY <1>2, <1>3 DEF Carries

LEMMA TakenFits ==
    ASSUME NEW n, Carries(n), NEW p \in Peers, NEW q \in Peers, n[p][q] # <<>>
    PROVE  /\ Carries(Taken(n, p, q))
           /\ Head(n[p][q]) \in Packet /\ Fits(p, q, Head(n[p][q]))
<1>1. n \in Paths /\ \A x, y \in Peers : n[x][y] \in Seq(Fit(x, y))
  BY DEF Carries
<1>2. Taken(n, p, q) \in Paths
  BY <1>1, TakenType
<1>3. Head(n[p][q]) \in Fit(p, q) /\ Tail(n[p][q]) \in Seq(Fit(p, q))
  BY <1>1, HeadTailProperties
<1>4. ASSUME NEW x \in Peers, NEW y \in Peers
      PROVE  Taken(n, p, q)[x][y] \in Seq(Fit(x, y))
  <2>1. CASE x = p /\ y = q
    <3>1. Taken(n, p, q)[p][q] = Tail(n[p][q])
      BY <1>1, TakenAt
    <3> QED
      BY <1>3, <2>1, <3>1
  <2>2. CASE ~(x = p /\ y = q)
    BY <1>1, <2>2, TakenAt
  <2> QED
    BY <2>1, <2>2
<1> QED
  BY <1>2, <1>3, <1>4 DEF Carries, Fit

-----------------------------------------------------------------------------
(* What fits depends on the GET commands given, and on nothing else.       *)
LEMMA StillFits ==
    ASSUME UNCHANGED gets
    PROVE  /\ \A x, y : Fit(x, y)' = Fit(x, y)
           /\ \A p, t : TaskFits(p, t)' = TaskFits(p, t)
           /\ \A p, list : ListFits(p, list)' = ListFits(p, list)
           /\ \A p, table : TableFits(p, table)' = TableFits(p, table)
           /\ \A p, u : UploadFits(p, u)' = UploadFits(p, u)
           /\ \A p, status : StatusFits(p, status)' = StatusFits(p, status)
<1>1. \A p : request_file(p)' = request_file(p)
  BY DEF request_file
<1>2. \A p : Wishes(p)' = Wishes(p)
  BY <1>1 DEF Wishes
<1>3. \A p, q : Offer(p, q)' = Offer(p, q)
  BY <1>2 DEF Offer
<1>4. \A x, y, m : Fits(x, y, m)' = Fits(x, y, m)
  BY <1>2, <1>3 DEF Fits
<1>5. \A p, l : IsLine(p, l)' = IsLine(p, l) /\ Wanted(p, l)' = Wanted(p, l)
  BY <1>1 DEF IsLine, Wanted
<1>6. \A x, y : Fit(x, y)' = Fit(x, y)
  BY <1>4 DEF Fit
<1>7. \A p, t : TaskFits(p, t)' = TaskFits(p, t)
  BY <1>2, <1>3 DEF TaskFits
<1>8. \A p, list : ListFits(p, list)' = ListFits(p, list)
  BY <1>3, <1>5 DEF ListFits
<1>9. \A p, table : TableFits(p, table)' = TableFits(p, table)
  BY <1>3, <1>5 DEF TableFits
<1>10. \A p, u : UploadFits(p, u)' = UploadFits(p, u)
  BY <1>3 DEF UploadFits
<1>11. \A p, status : StatusFits(p, status)' = StatusFits(p, status)
  BY <1>1, <1>5 DEF StatusFits
<1> QED
  BY <1>6, <1>7, <1>8, <1>9, <1>10, <1>11

(* The tables of the peers other than p are what they were.                *)
OthersSame(p) ==
    \A r \in Peers : r # p =>
        /\ task'[r] = task[r]
        /\ waiting'[r] = waiting[r]
        /\ download'[r] = download[r]
        /\ upload'[r] = upload[r]
        /\ chunk_status'[r] = chunk_status[r]

(* A step of one thread keeps the invariant if what it sends and what it   *)
(* leaves in its own tables fits.                                          *)
LEMMA OneFits ==
    ASSUME OfferInv, NEW p \in Peers, UNCHANGED gets, OthersSame(p),
           Carries(net'),
           TaskFits(p, task'[p]), ListFits(p, waiting'[p]),
           TableFits(p, download'[p]), UploadFits(p, upload'[p]),
           StatusFits(p, chunk_status'[p])
    PROVE  OfferInv'
<1>1. PathsFit'
  BY StillFits DEF PathsFit, Carries
<1>2. ASSUME NEW r \in Peers PROVE PeerFits(r)'
  <2>1. PeerFits(r)
    BY DEF OfferInv
  <2>2. /\ TaskFits(r, task'[r]) /\ ListFits(r, waiting'[r])
        /\ TableFits(r, download'[r]) /\ UploadFits(r, upload'[r])
        /\ StatusFits(r, chunk_status'[r])
    <3>1. CASE r = p
      BY <3>1
    <3>2. CASE r # p
      BY <2>1, <3>2 DEF OthersSame, PeerFits
    <3> QED
      BY <3>1, <3>2
  <2>3. TaskFits(r, task)' = TaskFits(r, task')
    BY StillFits
  <2> QED
    BY <2>2, StillFits DEF PeerFits
<1> QED
  BY <1>1, <1>2 DEF OfferInv

(* Threads that serve nobody fit.                                          *)
LEMMA IdleFits ==
    ASSUME NEW p, NEW t, t \in {Select, Ready} \cup ScanTask
    PROVE  TaskFits(p, t)
  BY DEF TaskFits, Select, Ready, ScanTask

(* The fields of the current state that a step reads.                      *)
LEMMA FitsNow ==
    ASSUME IInv, OfferInv, NEW p \in Peers
    PROVE  /\ Carries(net)
           /\ TaskFits(p, task[p]) /\ ListFits(p, waiting[p])
           /\ TableFits(p, download[p]) /\ UploadFits(p, upload[p])
           /\ StatusFits(p, chunk_status[p])
  BY DEF OfferInv, PathsFit, PeerFits, Carries, IInv, TypeOK, NetworkTypeOK

LEMMA WakeFits ==
    ASSUME IInv, OfferInv, NEW p \in Peers, wake(p) \/ other_input(p)
    PROVE  OfferInv'
<1>1. PICK t \in {Select, Ready} \cup ScanTask : task' = [task EXCEPT ![p] = t]
  <2>1. scan_first(p) \in {Ready} \cup ScanTask
    BY ScanType DEF scan_first
  <2> QED
    BY <2>1 DEF wake, other_input, Return
<1>2. task'[p] = t /\ OthersSame(p)
  BY <1>1 DEF wake, other_input, client, OthersSame, IInv, TypeOK
<1>3. UNCHANGED <<net, upload, client>>
  BY DEF wake, other_input
<1> QED
  BY <1>1, <1>2, <1>3, IdleFits, FitsNow, OneFits DEF client

-----------------------------------------------------------------------------
(* The uploader.                                                           *)
LEMMA AskedFits ==
    ASSUME IInv, OfferInv, NEW p \in Peers, NEW q \in Peers,
           Arrived(q, p, "WHOHAS"), deal_with_WHOHAS(p, q, Head(net[q][p])),
           UNCHANGED client
    PROVE  OfferInv'
<1> DEFINE m == Head(net[q][p])
           asked == {HashesRead(m)[i] : i \in DOMAIN HashesRead(m)}
           t == [doing |-> "answer", to |-> q, asked |-> asked, at |-> 1,
                 found |-> <<>>]
<1>1. net[q][p] # <<>> /\ m.type = "WHOHAS"
  BY DEF Arrived
<1>2. Carries(Taken(net, q, p)) /\ m \in Packet /\ Fits(q, p, m)
  BY <1>1, FitsNow, TakenFits
<1>3. m.hashes \in Seq(Chunks)
  BY <1>1, <1>2, PacketFields
<1>4. q # p /\ asked \subseteq Wishes(q)
  <2>1. Hashes(HashesRead(m)) \subseteq Wishes(q) /\ q # p
    BY <1>1, <1>2, <1>3, HashesReadSent DEF Fits
  <2>2. DOMAIN HashesRead(m) = 1 .. Len(HashesRead(m))
    BY <1>3, HashesReadType
  <2> QED
    BY <2>1, <2>2 DEF Hashes
<1>5. TaskFits(p, t)
  <2>1. Hashes(<<>>) = {}
    BY EmptySeq DEF Hashes
  <2> QED
    BY <1>4, <2>1, EmptyBehind DEF TaskFits
<1>6. /\ net' = Taken(net, q, p) /\ task' = [task EXCEPT ![p] = t]
      /\ UNCHANGED <<upload, client>>
  BY DEF deal_with_WHOHAS
<1> HIDE DEF t
<1>7. task'[p] = t /\ OthersSame(p)
  BY <1>6 DEF client, OthersSame, IInv, TypeOK
<1> QED
  BY <1>2, <1>5, <1>6, <1>7, FitsNow, OneFits DEF client

LEMMA FoundBehind ==
    ASSUME NEW p, NEW q \in Peers, NEW at \in 1 .. Len(HasFiles[q]),
           NEW found \in Seq(Chunks), NEW asked, asked \subseteq Orders(p),
           RestBehind(p, q, found), FoundSome(p, q, found, at)
    PROVE  LET grown == IF HasFiles[q][at] \in asked
                        THEN Append(found, HasFiles[q][at]) ELSE found
           IN  RestBehind(p, q, grown) /\ FoundSome(p, q, grown, at + 1)
<1> DEFINE c == HasFiles[q][at]
           n == Len(HasFiles[q])
<1>1. HasFiles[q] \in Seq(Chunks) /\ n \in Nat /\ at \in Nat /\ c \in Chunks
  BY HasFilesAssumption
<1>2. at <= n /\ 1 <= at
  BY <1>1
<1> HIDE DEF n
<1>3. \A i \in 1 .. at - 1 : i \in 1 .. at /\ i \in 1 .. (at + 1) - 1
  BY <1>1
<1>4. CASE c \notin asked
  BY <1>3, <1>4 DEF FoundSome
<1>5. CASE c \in asked
  <2> DEFINE grown == Append(found, c)
             m == Len(found)
  <2>1. m \in Nat /\ Len(grown) = m + 1 /\ grown[m + 1] = c
        /\ \A i \in 1 .. m : grown[i] = found[i]
    BY <1>1, AppendProperties
  <2> HIDE DEF c, grown
  <2>2. m > 0 => c \in Behind(p, q)
    <3>1. m > 0 => found # <<>>
      BY EmptySeq
    <3> QED
      BY <1>1, <1>2, <3>1 DEF FoundSome, Behind, c, n
  <2>3. \A j \in 2 .. m + 1 : j \in 2 .. m \/ (j = m + 1 /\ m > 0)
    BY <2>1
  <2>4. \A j \in 2 .. m : j \in 1 .. m
    BY <2>1
  <2>5. RestBehind(p, q, grown)
    <3> HIDE DEF m
    <3>1. \A j \in 2 .. m : grown[j] \in Behind(p, q)
      BY <2>1, <2>4 DEF RestBehind, m
    <3> QED
      BY <2>1, <2>2, <2>3, <3>1 DEF RestBehind
  <2>6. FoundSome(p, q, grown, at + 1)
    <3>1. at \in 1 .. (at + 1) - 1
      BY <1>1, <1>2
    <3> QED
      BY <1>5, <3>1 DEF FoundSome, c
  <2> QED
    BY <1>5, <2>5, <2>6 DEF grown, c
<1> QED
  BY <1>4, <1>5

LEMMA AnswerFits ==
    ASSUME IInv, OfferInv, NEW p \in Peers, answer_line(p), UNCHANGED client
    PROVE  OfferInv'
<1> DEFINE t == task[p]
           found == IF HasFiles[p][t.at] \in t.asked
                    THEN Append(t.found, HasFiles[p][t.at]) ELSE t.found
           u == [t EXCEPT !.at = t.at + 1, !.found = found]
<1>1. t \in AnswerTask /\ t.at <= Len(HasFiles[p])
  BY TaskFields DEF answer_line, Doing, IInv, TypeOK
<1>2. HasFiles[p] \in Seq(Chunks) /\ t.at \in 1 .. Len(HasFiles[p])
  BY <1>1, HasFilesAssumption DEF AnswerTask
<1>3. t.found \in Seq(Chunks) /\ t.to # p /\ t.asked \subseteq Wishes(t.to)
      /\ Hashes(t.found) \subseteq Offer(t.to, p)
  BY <1>1, FitsNow DEF AnswerTask, TaskFits
<1>4. Hashes(found) \subseteq Offer(t.to, p)
  <2> DEFINE c == HasFiles[p][t.at]
  <2>1. CASE c \notin t.asked
    BY <1>3, <2>1
  <2>2. CASE c \in t.asked
    <3>1. c \in Hashes(HasFiles[p])
      BY <1>2 DEF Hashes
    <3>2. c \in Offer(t.to, p)
      BY <1>3, <2>2, <3>1 DEF Offer
    <3>3. c \in Chunks /\ found = Append(t.found, c)
      BY <1>2, <2>2
    <3>4. \A i \in 1 .. Len(found) : found[i] \in Hashes(t.found) \cup {c}
      <4> HIDE DEF c, found, t
      <4> QED
        BY <1>3, <3>3, AppendProperties DEF Hashes
    <3> QED
      BY <1>3, <3>2, <3>4 DEF Hashes
  <2> QED
    BY <2>1, <2>2
<1>5. task' = [task EXCEPT ![p] = u] /\ UNCHANGED <<net, upload, client>>
  BY DEF answer_line
<1>9. RestBehind(t.to, p, found) /\ FoundSome(t.to, p, found, t.at + 1)
  <2>1. /\ RestBehind(t.to, p, t.found) /\ FoundSome(t.to, p, t.found, t.at)
        /\ t.to \in Peers /\ t.asked \subseteq Orders(t.to)
    BY <1>1, <1>3, FitsNow, OrdersWished DEF AnswerTask, TaskFits, IInv
  <2> QED
    BY <1>2, <1>3, <2>1, FoundBehind
<1>6. /\ u.doing = "answer" /\ u.to = t.to /\ u.asked = t.asked
      /\ u.found = found /\ u.at = t.at + 1
  <2> HIDE DEF t, found
  <2> QED
    BY <1>1 DEF AnswerTask
<1> HIDE DEF u, found, t
<1>7. TaskFits(p, u)
  BY <1>3, <1>4, <1>6, <1>9 DEF TaskFits
<1>8. task'[p] = u /\ OthersSame(p)
  BY <1>5 DEF client, OthersSame, IInv, TypeOK
<1> QED
  BY <1>5, <1>7, <1>8, FitsNow, OneFits DEF client

LEMMA SendIhaveFits ==
    ASSUME IInv, OfferInv, NEW p \in Peers, send_IHAVE(p), UNCHANGED client
    PROVE  OfferInv'
<1> DEFINE t == task[p]
<1>1. t \in AnswerTask /\ t.doing = "answer"
  BY TaskFields DEF send_IHAVE, Doing, IInv, TypeOK
<1>2. t.to \in Peers /\ t.found \in Seq(Chunks)
  BY <1>1 DEF AnswerTask
<1>3. Fits(p, t.to, Ihave(t.found))
  BY <1>1, FitsNow DEF TaskFits, Fits, Ihave
<1>4. Ihave(t.found) \in Packet
  BY <1>2, PacketTypes
<1>5. Carries(net')
  BY <1>2, <1>3, <1>4, FitsNow, SentFits DEF send_IHAVE
<1>6. /\ task' = [task EXCEPT ![p] = Select]
      /\ UNCHANGED <<upload, client>>
  BY DEF send_IHAVE, Return
<1>7. task'[p] = Select /\ OthersSame(p)
  BY <1>6 DEF client, OthersSame, IInv, TypeOK
<1> QED
  BY <1>5, <1>6, <1>7, IdleFits, FitsNow, OneFits DEF client

LEMMA GetFits ==
    ASSUME IInv, OfferInv, NEW p \in Peers, NEW q \in Peers,
           Arrived(q, p, "GET"), deal_with_GET(p, q, Head(net[q][p])),
           UNCHANGED client
    PROVE  OfferInv'
<1> DEFINE m == Head(net[q][p])
           u == [chunk |-> m.hash, to |-> q, max_ack |-> 0]
           reply == Data(1, master(m.hash, 1))
<1>1. net[q][p] # <<>> /\ m.type = "GET"
  BY DEF Arrived
<1>2. Carries(Taken(net, q, p)) /\ m \in Packet /\ Fits(q, p, m)
  BY <1>1, FitsNow, TakenFits
<1>3. m.hash \in Chunks /\ m.hash \in Offer(q, p)
  BY <1>1, <1>2, PacketFields DEF Fits
<1>4. reply \in Packet
  <2>1. 1 \in 1 .. N
    BY NAssumption
  <2> QED
    BY <1>3, <2>1, MasterType, PacketTypes
<1>5. Fits(p, q, reply)
  BY <1>3 DEF Fits, Data
<1>6. /\ upload' = [upload EXCEPT ![p] = u] /\ net' = Answered(p, q, reply)
      /\ task' = [task EXCEPT ![p] = Select] /\ UNCHANGED client
  BY DEF deal_with_GET, Return
<1>7. UploadFits(p, u)
  BY <1>3 DEF UploadFits
<1> HIDE DEF reply, u
<1>8. Carries(net')
  BY <1>2, <1>4, <1>5, <1>6, SentFits DEF Answered
<1>9. task'[p] = Select /\ upload'[p] = u /\ OthersSame(p)
  BY <1>6 DEF client, OthersSame, IInv, TypeOK, UploadTypeOK
<1> QED
  BY <1>6, <1>7, <1>8, <1>9, IdleFits, FitsNow, OneFits DEF client

LEMMA AckFits ==
    ASSUME IInv, OfferInv, NEW p \in Peers, NEW q \in Peers,
           Arrived(q, p, "ACK"), deal_with_ACK(p, q, Head(net[q][p])),
           UNCHANGED client
    PROVE  OfferInv'
<1> DEFINE m == Head(net[q][p])
           reply == Data(m.ack + 1, master(upload[p].chunk, m.ack + 1))
<1>1. net[q][p] # <<>> /\ m.type = "ACK"
  BY DEF Arrived
<1>2. Carries(Taken(net, q, p)) /\ m \in Packet /\ Fits(q, p, m)
  BY <1>1, FitsNow, TakenFits
<1>3. m.ack \in Nat /\ Offer(q, p) # {}
  BY <1>1, <1>2, PacketFields DEF Fits
<1>4. task' = [task EXCEPT ![p] = Select]
  BY DEF deal_with_ACK, Return
<1>5. CASE net' = Taken(net, q, p) /\ UNCHANGED upload
  <2>1. task'[p] = Select /\ OthersSame(p)
    BY <1>4, <1>5 DEF client, OthersSame, IInv, TypeOK
  <2> QED
    BY <1>2, <1>5, <2>1, IdleFits, FitsNow, OneFits DEF client
<1>6. CASE /\ ~last_acked(m.ack) /\ upload[p].to # NoPeer
           /\ upload' = [upload EXCEPT ![p].max_ack = m.ack]
           /\ net' = Answered(p, q, reply)
  <2>1. upload[p] \in UploadInfo /\ m.ack + 1 \in 1 .. N
    BY <1>3, <1>6, UploadFields, NAssumption DEF last_acked, IInv
  <2>2. reply \in Packet
    BY <2>1, MasterType, PacketTypes DEF UploadInfo
  <2>3. Fits(p, q, reply)
    BY <1>3 DEF Fits, Data
  <2> HIDE DEF reply
  <2>4. Carries(net')
    BY <1>2, <1>6, <2>2, <2>3, SentFits DEF Answered
  <2>5. upload'[p].to = upload[p].to /\ upload'[p].chunk = upload[p].chunk
    BY <1>6, <2>1 DEF IInv, TypeOK, UploadTypeOK, UploadInfo
  <2>6. UploadFits(p, upload'[p])
    BY <2>5, FitsNow DEF UploadFits
  <2>7. task'[p] = Select /\ OthersSame(p)
    BY <1>4, <1>6 DEF client, OthersSame, IInv, TypeOK, UploadTypeOK
  <2> QED
    BY <2>4, <2>6, <2>7, IdleFits, FitsNow, OneFits DEF client
<1> QED
  BY <1>5, <1>6 DEF deal_with_ACK

LEMMA TimerFits ==
    ASSUME IInv, OfferInv, NEW p \in Peers, timer(p)
    PROVE  OfferInv'
<1> DEFINE u == upload[p]
           block == Data(u.max_ack + 1, master(u.chunk, u.max_ack + 1))
<1>1. u \in UploadInfo /\ u.to # NoPeer
  BY UploadFields DEF timer, retransmit, IInv
<1>2. u.max_ack + 1 \in 1 .. N /\ u.to \in Peers /\ u.chunk \in Chunks
  BY <1>1, NAssumption DEF UploadInfo
<1>3. block \in Packet
  BY <1>2, MasterType, PacketTypes
<1>4. Fits(p, u.to, block)
  BY <1>1, FitsNow DEF UploadFits, Fits, Data
<1>5. /\ net' = Sent(net, p, u.to, block)
      /\ task' = [task EXCEPT ![p] = Select] /\ UNCHANGED <<upload, client>>
  BY DEF timer, retransmit, Return
<1> HIDE DEF block
<1>6. Carries(net')
  BY <1>2, <1>3, <1>4, <1>5, FitsNow, SentFits
<1>7. task'[p] = Select /\ OthersSame(p)
  BY <1>5 DEF client, OthersSame, IInv, TypeOK
<1> QED
  BY <1>5, <1>6, <1>7, IdleFits, FitsNow, OneFits DEF client

-----------------------------------------------------------------------------
(* The downloader.                                                         *)
LEMMA IhaveFits ==
    ASSUME IInv, OfferInv, NEW p \in Peers, NEW q \in Peers,
           Arrived(q, p, "IHAVE"), deal_with_IHAVE(p, q, Head(net[q][p])),
           UNCHANGED upload
    PROVE  OfferInv'
<1> DEFINE m == Head(net[q][p])
           t == IF HashesRead(m) = <<>> THEN Select
                ELSE [doing |-> "parse", from |-> q, left |-> HashesRead(m),
                      sent |-> FALSE]
<1>1. net[q][p] # <<>> /\ m.type = "IHAVE"
  BY DEF Arrived
<1>2. Carries(Taken(net, q, p)) /\ m \in Packet /\ Fits(q, p, m)
  BY <1>1, FitsNow, TakenFits
<1>3. m.hashes \in Seq(Chunks)
  BY <1>1, <1>2, PacketFields
<1>4. /\ Hashes(HashesRead(m)) \subseteq Offer(p, q)
      /\ RestBehind(p, q, HashesRead(m))
  BY <1>1, <1>2, <1>3, HashesReadSent DEF Fits
<1>5. TaskFits(p, t)
  BY <1>4 DEF TaskFits, Select
<1>6. /\ net' = Taken(net, q, p) /\ task' = [task EXCEPT ![p] = t]
      /\ UNCHANGED client
  BY DEF deal_with_IHAVE
<1> HIDE DEF t
<1>7. task'[p] = t /\ OthersSame(p)
  BY <1>6 DEF client, OthersSame, IInv, TypeOK
<1> QED
  BY <1>2, <1>5, <1>6, <1>7, FitsNow, OneFits DEF client

LEMMA TailBehind ==
    ASSUME NEW p, NEW q, NEW left \in Seq(Chunks), left # <<>>, Len(left) # 1,
           RestBehind(p, q, left)
    PROVE  RestBehind(p, q, Tail(left)) /\ Head(Tail(left)) \in Behind(p, q)
<1> DEFINE n == Len(left)
<1>1. n \in Nat /\ n # 0 /\ n # 1
  BY EmptySeq
<1>2. /\ Tail(left) \in Seq(Chunks) /\ Len(Tail(left)) = n - 1
      /\ \A i \in 1 .. n - 1 : Tail(left)[i] = left[i + 1]
  BY HeadTailProperties
<1>3. \A j \in 2 .. n : left[j] \in Behind(p, q)
  BY DEF RestBehind
<1> HIDE DEF n
<1>4. n >= 2 /\ 1 \in 1 .. n - 1 /\ 1 + 1 \in 2 .. n
  BY <1>1
<1>5. \A j \in 2 .. n - 1 : j \in 1 .. n - 1 /\ j + 1 \in 2 .. n
  BY <1>1
<1>6. Head(Tail(left)) = left[1 + 1]
  <2> DEFINE rest == Tail(left)
  <2>1. rest \in Seq(Chunks) /\ Len(rest) = n - 1 /\ n - 1 # 0
    BY <1>1, <1>2
  <2> HIDE DEF rest
  <2>2. Head(rest) = rest[1]
    BY <2>1
  <2> QED
    BY <1>2, <1>4, <2>2 DEF rest
<1>7. \A j \in 2 .. Len(Tail(left)) : Tail(left)[j] \in Behind(p, q)
  BY <1>2, <1>3, <1>5
<1> QED
  BY <1>3, <1>4, <1>6, <1>7 DEF RestBehind

(* The hash an IHAVE is read at, and what is left of it afterwards.        *)
LEMMA ParseFits ==
    ASSUME IInv, OfferInv, NEW p \in Peers, Doing(p, "parse"),
           NEW sent \in BOOLEAN, parsed(p, sent)
    PROVE  /\ Head(task[p].left) \in Offer(p, task[p].from)
           /\ task[p].sent => Head(task[p].left) \in Behind(p, task[p].from)
           /\ TaskFits(p, task'[p])
           /\ \A r \in Peers : r # p => task'[r] = task[r]
<1> DEFINE left == task[p].left
           t == IF Len(left) = 1 THEN Select
                ELSE [task[p] EXCEPT !.left = Tail(left), !.sent = sent]
<1>1. task[p] \in ParseTask /\ left \in Seq(Chunks) /\ left # <<>>
  BY TaskFields DEF IInv, TypeOK, Doing, ParseTask
<1>2. /\ Hashes(left) \subseteq Offer(p, task[p].from)
      /\ RestBehind(p, task[p].from, left)
      /\ task[p].sent => Head(left) \in Behind(p, task[p].from)
  BY FitsNow DEF TaskFits, Doing
<1>3. Head(left) \in Hashes(left) /\ Hashes(Tail(left)) \subseteq Hashes(left)
  <2> HIDE DEF left
  <2> QED
    BY <1>1, HeadTailHashes
<1>4. task' = [task EXCEPT ![p] = t]
  BY DEF parsed
<1>5. TaskFits(p, t)
  <2>1. CASE t = Select
    BY <2>1, IdleFits
  <2>2. CASE t = [task[p] EXCEPT !.left = Tail(left), !.sent = sent]
    <3> HIDE DEF left, t
    <3>1. t.doing = "parse" /\ t.left = Tail(left) /\ t.from = task[p].from
      BY <1>1, <2>2 DEF ParseTask
    <3>2. CASE Len(left) = 1
      <4>1. t = Select
        BY <1>1, <3>2 DEF t, left
      <4> QED
        BY <4>1, IdleFits
    <3>3. CASE Len(left) # 1
      <4>1. /\ RestBehind(p, task[p].from, Tail(left))
            /\ Head(Tail(left)) \in Behind(p, task[p].from)
        BY <1>1, <1>2, <3>3, TailBehind
      <4> QED
        BY <1>2, <1>3, <3>1, <4>1 DEF TaskFits
    <3> QED
      BY <3>2, <3>3
  <2> QED
    BY <2>1, <2>2
<1> HIDE DEF t
<1>6. task'[p] = t /\ \A r \in Peers : r # p => task'[r] = task[r]
  BY <1>4 DEF IInv, TypeOK
<1> QED
  BY <1>2, <1>3, <1>5, <1>6

LEMMA SkipFits ==
    ASSUME IInv, OfferInv, NEW p \in Peers, skip_hash(p), UNCHANGED upload
    PROVE  OfferInv'
<1>1. task[p].sent \in BOOLEAN
  BY ParseFields DEF skip_hash
<1>2. TaskFits(p, task'[p]) /\ \A r \in Peers : r # p => task'[r] = task[r]
  BY <1>1, ParseFits DEF skip_hash
<1>3. UNCHANGED <<net, client, upload>>
  BY DEF skip_hash
<1>4. OthersSame(p)
  BY <1>2, <1>3 DEF OthersSame, client
<1> QED
  BY <1>2, <1>3, <1>4, FitsNow, OneFits DEF client

(* A session opened for a line the provider has.                           *)
LEMMA OpeningFits ==
    ASSUME NEW p \in Peers, NEW table \in [Slots -> Session],
           TableFits(p, table), NEW rid, NEW q \in Peers, IsLine(p, rid),
           Wanted(p, rid) \in Offer(p, q)
    PROVE  TableFits(p, with_session(table, rid, q))
<1> DEFINE f == find_free_download_info(table)
           s == new_session(rid, q)
<1>1. s.rid = rid /\ s.from = q
  BY DEF new_session
<1>2. with_session(table, rid, q) = [table EXCEPT ![f] = s]
  BY DEF with_session
<1> HIDE DEF f, s
<1>3. \A i \in 0 .. MaxConn - 1 : i \in Slots
  BY TablesAssumption DEF Slots
<1>4. ASSUME NEW i \in 0 .. MaxConn - 1
      PROVE  with_session(table, rid, q)[i] \in {s, table[i]}
  BY <1>2, <1>3
<1>5. ASSUME NEW i \in 0 .. MaxConn - 1, with_session(table, rid, q)[i].active
      PROVE  /\ IsLine(p, with_session(table, rid, q)[i].rid)
             /\ with_session(table, rid, q)[i].from \in Peers
             /\ Wanted(p, with_session(table, rid, q)[i].rid)
                    \in Offer(p, with_session(table, rid, q)[i].from)
  <2>1. CASE with_session(table, rid, q)[i] = s
    BY <1>1, <2>1
  <2>2. CASE with_session(table, rid, q)[i] = table[i]
    BY <1>5, <2>2 DEF TableFits
  <2> QED
    BY <1>4, <2>1, <2>2
<1> QED
  BY <1>5 DEF TableFits

LEMMA GetFirstFits ==
    ASSUME IInv, OfferInv, NEW p \in Peers, get_first_hash(p), UNCHANGED upload
    PROVE  OfferInv'
<1> DEFINE c == Head(task[p].left)
           from == task[p].from
           rid == search_id_for_hash(p, c)
<1>1. c \in Offer(p, from) /\ c \in Chunks /\ from \in Peers
  BY ParseFits, ParseFields DEF get_first_hash
<1>2. TaskFits(p, task'[p]) /\ \A r \in Peers : r # p => task'[r] = task[r]
  BY ParseFits DEF get_first_hash
<1>3. c \in Wishes(p)
  BY <1>1 DEF Offer
<1>4. IsLine(p, rid) /\ Wanted(p, rid) = c
  BY <1>3, LineOfWish DEF IInv
<1>5. /\ download' = [download EXCEPT ![p] = with_session(@, rid, from)]
      /\ chunk_status' = [chunk_status EXCEPT
             ![p][rid] = [status |-> 1, hash |-> c]]
      /\ net' = Sent(net, p, from, Get(c))
      /\ UNCHANGED <<gets, waiting, output>>
  BY DEF get_first_hash
<1> HIDE DEF c, from, rid
<1>6. download \in [Peers -> [Slots -> Session]]
      /\ chunk_status \in [Peers -> [Lines -> ChunkState]]
  BY DEF IInv, TypeOK, DownloaderTypeOK
<1>7. TableFits(p, download'[p])
  <2>1. download'[p] = with_session(download[p], rid, from)
    BY <1>5, <1>6
  <2> QED
    BY <1>1, <1>4, <1>6, <2>1, FitsNow, OpeningFits
<1>8. StatusFits(p, chunk_status'[p])
  <2>1. ASSUME NEW l \in 0 .. Len(request_file(p)) - 1
        PROVE  chunk_status'[p][l].hash = Wanted(p, l)
    <3>1. l \in Lines
      BY RequestFileType, RequestFilesAssumption DEF Lines, IInv
    <3>2. CASE l = rid
      BY <1>4, <1>5, <1>6, <3>1, <3>2
    <3>3. CASE l # rid
      <4>1. chunk_status'[p][l] = chunk_status[p][l]
        BY <1>5, <1>6, <3>1, <3>3
      <4> QED
        BY <4>1, FitsNow DEF StatusFits
    <3> QED
      BY <3>2, <3>3
  <2> QED
    BY <2>1 DEF StatusFits
<1>9. Carries(net')
  <2>1. Fits(p, from, Get(c)) /\ Get(c) \in Packet
    BY <1>1, PacketTypes DEF Fits, Get
  <2> QED
    BY <1>1, <1>5, <2>1, FitsNow, SentFits
<1>10. OthersSame(p)
  BY <1>2, <1>5, <1>6 DEF OthersSame
<1> QED
  BY <1>2, <1>5, <1>7, <1>8, <1>9, <1>10, FitsNow, OneFits

LEMMA QueueFits ==
    ASSUME IInv, OfferInv, NEW p \in Peers, queue_hash(p), UNCHANGED upload
    PROVE  OfferInv'
<1> DEFINE c == Head(task[p].left)
           from == task[p].from
           rid == search_id_for_hash(p, c)
           entry == [rid |-> rid, from |-> from, hash |-> c, active |-> TRUE]
           f == find_free_waiting_entity(waiting[p])
<1>1. c \in Offer(p, from) /\ c \in Behind(p, from)
  BY ParseFits DEF queue_hash
<1>2. TaskFits(p, task'[p]) /\ \A r \in Peers : r # p => task'[r] = task[r]
  BY ParseFits DEF queue_hash
<1>3. c \in Wishes(p)
  BY <1>1 DEF Offer
<1>4. IsLine(p, rid) /\ Wanted(p, rid) = c
  BY <1>3, LineOfWish DEF IInv
<1>5. /\ waiting' = [waiting EXCEPT ![p][f] = entry]
      /\ UNCHANGED <<net, gets, chunk_status, download, output>>
  BY DEF queue_hash
<1>6. entry.rid = rid /\ entry.from = from /\ entry.hash = c
  OBVIOUS
<1> HIDE DEF c, from, rid, entry, f
<1>7. waiting \in [Peers -> [Entries -> Waiting \cup {NoWaiting}]]
  BY DEF IInv, TypeOK, DownloaderTypeOK
<1>8. ListFits(p, waiting'[p])
  <2>1. \A i \in Entries : waiting'[p][i] \in {entry, waiting[p][i]}
    BY <1>5, <1>7
  <2>2. ListFits(p, waiting[p])
    BY FitsNow
  <2>3. ASSUME NEW i \in Entries, waiting'[p][i].active
        PROVE  LET e == waiting'[p][i]
               IN  /\ e.hash \in Offer(p, e.from)
                   /\ e.hash \in Behind(p, e.from)
                   /\ IsLine(p, e.rid) /\ Wanted(p, e.rid) = e.hash
    <3>1. CASE waiting'[p][i] = entry
      BY <1>1, <1>4, <1>6, <3>1
    <3>2. CASE waiting'[p][i] = waiting[p][i]
      BY <2>2, <2>3, <3>2 DEF ListFits
    <3> QED
      BY <2>1, <3>1, <3>2
  <2> QED
    BY <2>3 DEF ListFits
<1>9. OthersSame(p)
  BY <1>2, <1>5, <1>7 DEF OthersSame
<1> QED
  BY <1>2, <1>5, <1>8, <1>9, FitsNow, OneFits

(* Where a scan goes next.                                                 *)
LEMMA VisitedFits ==
    ASSUME IInv, NEW p \in Peers, Doing(p, "scan"), NEW list,
           visited(p, list)
    PROVE  /\ TaskFits(p, task'[p])
           /\ \A r \in Peers : r # p => task'[r] = task[r]
<1> DEFINE t == next_entry(list, task[p].at + 1, task[p].after)
<1>1. task[p].at + 1 \in Nat /\ task[p].after \in {Select, Ready}
  BY ScanFields
<1>2. t \in {Select, Ready} \cup ScanTask
  BY <1>1, NextEntryType
<1>3. task' = [task EXCEPT ![p] = t]
  BY DEF visited
<1> HIDE DEF t
<1>4. task'[p] = t /\ \A r \in Peers : r # p => task'[r] = task[r]
  BY <1>3 DEF IInv, TypeOK
<1> QED
  BY <1>2, <1>4, IdleFits

(* A waiting list with one entry fewer.                                    *)
LEMMA LessFits ==
    ASSUME IInv, OfferInv, NEW p \in Peers, NEW i,
           waiting' = [waiting EXCEPT ![p][i] = NoWaiting]
    PROVE  /\ ListFits(p, waiting'[p])
           /\ \A r \in Peers : r # p => waiting'[r] = waiting[r]
<1>1. waiting \in [Peers -> [Entries -> Waiting \cup {NoWaiting}]]
  BY DEF IInv, TypeOK, DownloaderTypeOK
<1>2. \A j \in Entries : waiting'[p][j] \in {NoWaiting, waiting[p][j]}
  BY <1>1
<1>3. ListFits(p, waiting[p]) /\ ~NoWaiting.active
  BY FitsNow DEF NoWaiting
<1>4. \A j \in Entries : waiting'[p][j].active =>
          waiting'[p][j] = waiting[p][j]
  BY <1>2, <1>3
<1>5. ListFits(p, waiting'[p])
  BY <1>3, <1>4 DEF ListFits
<1> QED
  BY <1>1, <1>5

LEMMA DropFits ==
    ASSUME IInv, OfferInv, NEW p \in Peers, drop_entry(p), UNCHANGED upload
    PROVE  OfferInv'
<1>1. TaskFits(p, task'[p]) /\ \A r \in Peers : r # p => task'[r] = task[r]
  BY VisitedFits DEF drop_entry
<1>2. /\ ListFits(p, waiting'[p])
      /\ \A r \in Peers : r # p => waiting'[r] = waiting[r]
  BY LessFits DEF drop_entry
<1>3. UNCHANGED <<net, gets, chunk_status, download, output>>
  BY DEF drop_entry
<1>4. OthersSame(p)
  BY <1>1, <1>2, <1>3 DEF OthersSame
<1> QED
  BY <1>1, <1>2, <1>3, <1>4, FitsNow, OneFits

LEMMA KeepFits ==
    ASSUME IInv, OfferInv, NEW p \in Peers, keep_entry(p), UNCHANGED upload
    PROVE  OfferInv'
<1>1. TaskFits(p, task'[p]) /\ \A r \in Peers : r # p => task'[r] = task[r]
  BY VisitedFits DEF keep_entry
<1>2. UNCHANGED <<net, client>>
  BY DEF keep_entry
<1>3. OthersSame(p)
  BY <1>1, <1>2 DEF OthersSame, client
<1> QED
  BY <1>1, <1>2, <1>3, FitsNow, OneFits DEF client

LEMMA SendEntryFits ==
    ASSUME IInv, OfferInv, NEW p \in Peers, send_entry(p), UNCHANGED upload
    PROVE  OfferInv'
<1> DEFINE i == task[p].at
           entry == waiting[p][i]
<1>1. i \in Entries /\ entry.active /\ entry \in Waiting
  <2>1. i \in 0 .. WaitMax - 1 /\ entry \in Waiting
    BY ScanFields DEF send_entry
  <2> HIDE DEF i, entry
  <2>2. i \in Entries
    BY <2>1, TablesAssumption DEF Entries
  <2>3. entry.active
    BY <2>1 DEF Waiting
  <2> QED
    BY <2>1, <2>2, <2>3
<1>2. entry.from \in Peers /\ entry.hash \in Chunks
  BY <1>1 DEF Waiting
<1>3. /\ entry.hash \in Offer(p, entry.from) /\ IsLine(p, entry.rid)
      /\ Wanted(p, entry.rid) = entry.hash
  BY <1>1, FitsNow DEF ListFits
<1>4. TaskFits(p, task'[p]) /\ \A r \in Peers : r # p => task'[r] = task[r]
  BY VisitedFits DEF send_entry
<1>5. /\ ListFits(p, waiting'[p])
      /\ \A r \in Peers : r # p => waiting'[r] = waiting[r]
  BY LessFits DEF send_entry
<1>6. /\ download' = [download EXCEPT
             ![p] = with_session(@, entry.rid, entry.from)]
      /\ net' = Sent(net, p, entry.from, Get(entry.hash))
      /\ UNCHANGED <<gets, chunk_status, output>>
  BY DEF send_entry
<1> HIDE DEF entry, i
<1>7. download \in [Peers -> [Slots -> Session]]
  BY DEF IInv, TypeOK, DownloaderTypeOK
<1>8. TableFits(p, download'[p])
  <2>1. download'[p] = with_session(download[p], entry.rid, entry.from)
    BY <1>6, <1>7
  <2> QED
    BY <1>2, <1>3, <1>7, <2>1, FitsNow, OpeningFits
<1>9. Carries(net')
  <2>1. Fits(p, entry.from, Get(entry.hash)) /\ Get(entry.hash) \in Packet
    BY <1>2, <1>3, PacketTypes DEF Fits, Get
  <2> QED
    BY <1>2, <1>6, <2>1, FitsNow, SentFits
<1>10. OthersSame(p)
  BY <1>4, <1>5, <1>6, <1>7 DEF OthersSame
<1> QED
  BY <1>4, <1>5, <1>6, <1>8, <1>9, <1>10, FitsNow, OneFits

LEMMA DataFits ==
    ASSUME IInv, OfferInv, NEW p \in Peers, NEW q \in Peers,
           Arrived(q, p, "DATA"), deal_with_DATA(p, q, Head(net[q][p])),
           UNCHANGED upload
    PROVE  OfferInv'
<1> DEFINE m == Head(net[q][p])
           k == session_from(p, q)
           s == download[p][k]
           grown == [s EXCEPT !.pos = s.pos + 1, !.seq = s.seq + 1]
<1>1. net[q][p] # <<>> /\ m.type = "DATA"
  BY DEF Arrived
<1>2. Carries(Taken(net, q, p)) /\ m \in Packet /\ Fits(q, p, m)
  BY <1>1, FitsNow, TakenFits
<1>3. m.seq \in Nat /\ Offer(p, q) # {}
  BY <1>1, <1>2, PacketFields DEF Fits
<1>4. \A ack \in Nat : Fits(p, q, Ack(ack)) /\ Ack(ack) \in Packet
  BY <1>3, PacketTypes DEF Fits, Ack
<1>5. s \in Session /\ k \in Slots /\ s.seq \in Nat
  BY SlotSearchType, SessionFields DEF IInv
<1>6. Carries(acked_stranger(p, q, m))
  <2> HIDE DEF m
  <2>1. Carries(Sent(Taken(net, q, p), p, q, Ack(m.seq)))
    BY <1>2, <1>3, <1>4, SentFits
  <2> QED
    BY <1>2, <2>1 DEF acked_stranger, Answered
<1>7. Carries(net')
  <2>1. PICK ack \in Nat : net' = Sent(acked_stranger(p, q, m), p, q, Ack(ack))
    <3>1. expected_ack(s) \in Nat
      <4> HIDE DEF s
      <4> QED
        BY <1>5 DEF expected_ack
    <3>2. \/ net' = Sent(acked_stranger(p, q, m), p, q, Ack(expected_ack(s)))
          \/ net' = Sent(acked_stranger(p, q, m), p, q, Ack(m.seq))
      BY DEF deal_with_DATA, ignore_DATA, accept_DATA
    <3> HIDE DEF s
    <3> QED
      BY <1>3, <3>1, <3>2
  <2> QED
    BY <1>4, <1>6, <2>1, SentFits
<1>8. CASE ignore_DATA(p, q, m)
  <2>1. task' = [task EXCEPT ![p] = Select] /\ UNCHANGED client
    BY <1>8 DEF ignore_DATA, Return
  <2>2. task'[p] = Select /\ OthersSame(p)
    BY <2>1 DEF client, OthersSame, IInv, TypeOK
  <2> QED
    BY <1>7, <2>1, <2>2, IdleFits, FitsNow, OneFits DEF client
<1>9. CASE accept_DATA(p, q, m)
  <2>1. PICK e, t :
            /\ download' = [download EXCEPT ![p][k] = e]
            /\ e \in {NoSession, grown}
            /\ task' = [task EXCEPT ![p] = t]
            /\ t \in {Select} \cup ScanTask
    <3>1. scan(download'[p], waiting[p], Select) \in {Select} \cup ScanTask
      BY ScanType
    <3>2. \/ /\ download' = [download EXCEPT ![p][k] = NoSession]
             /\ task' = [task EXCEPT
                    ![p] = scan(download'[p], waiting[p], Select)]
          \/ /\ download' = [download EXCEPT ![p][k] = grown]
             /\ task' = [task EXCEPT ![p] = Select]
      BY <1>9 DEF accept_DATA, Return
    <3> HIDE DEF grown
    <3> QED
      BY <3>1, <3>2
  <2>2. \/ UNCHANGED chunk_status
        \/ \E b : chunk_status' = [chunk_status EXCEPT ![p][s.rid].status = b]
    BY <1>9 DEF accept_DATA
  <2>3. UNCHANGED <<gets, waiting>>
    BY <1>9 DEF accept_DATA
  <2>4. grown.rid = s.rid /\ grown.from = s.from /\ grown.active = s.active
    <3> HIDE DEF s
    <3> QED
      BY <1>5 DEF Session
  <2> HIDE DEF grown, m
  <2>5. download \in [Peers -> [Slots -> Session]]
        /\ chunk_status \in [Peers -> [Lines -> ChunkState]]
        /\ task \in [Peers -> Task]
    BY DEF IInv, TypeOK, DownloaderTypeOK
  <2>6. TaskFits(p, task'[p]) /\ \A r \in Peers : r # p => task'[r] = task[r]
    <3>1. task'[p] = t
      BY <2>1, <2>5
    <3> QED
      BY <2>1, <2>5, <3>1, IdleFits
  <2>7. TableFits(p, download'[p])
    <3>1. TableFits(p, download[p]) /\ ~NoSession.active
      BY FitsNow DEF NoSession
    <3>2. ASSUME NEW i \in 0 .. MaxConn - 1, download'[p][i].active
          PROVE  /\ IsLine(p, download'[p][i].rid)
                 /\ download'[p][i].from \in Peers
                 /\ Wanted(p, download'[p][i].rid)
                        \in Offer(p, download'[p][i].from)
      <4>1. i \in Slots
        BY TablesAssumption DEF Slots
      <4>2. CASE i = k
        <5>1. download'[p][i] = e
          BY <2>1, <2>5, <4>1, <4>2
        <5>2. e = grown
          BY <2>1, <3>1, <3>2, <5>1
        <5> QED
          BY <2>4, <3>1, <3>2, <4>2, <5>1, <5>2 DEF TableFits
      <4>3. CASE i # k
        <5>1. download'[p][i] = download[p][i]
          <6> HIDE DEF k
          <6> QED
            BY <2>1, <2>5, <4>1, <4>3
        <5> QED
          BY <3>1, <3>2, <5>1 DEF TableFits
      <4> QED
        BY <4>2, <4>3
    <3> QED
      BY <3>2 DEF TableFits
  <2>8. StatusFits(p, chunk_status'[p])
    <3>1. ASSUME NEW l \in 0 .. Len(request_file(p)) - 1
          PROVE  chunk_status'[p][l].hash = chunk_status[p][l].hash
      <4> HIDE DEF s
      <4>1. l \in Lines
        BY RequestFileType, RequestFilesAssumption DEF Lines, IInv
      <4>2. CASE UNCHANGED chunk_status
        BY <4>2
      <4>3. ASSUME NEW b,
                   chunk_status' = [chunk_status EXCEPT ![p][s.rid].status = b]
            PROVE  chunk_status'[p][l].hash = chunk_status[p][l].hash
        <5>1. chunk_status[p][l] \in ChunkState
          BY <2>5, <4>1
        <5>2. chunk_status'[p][l] \in
                  {chunk_status[p][l], [chunk_status[p][l] EXCEPT !.status = b]}
          BY <2>5, <4>1, <4>3
        <5> QED
          BY <5>1, <5>2 DEF ChunkState, Status
      <4> QED
        BY <2>2, <4>2, <4>3
    <3> QED
      BY <3>1, FitsNow DEF StatusFits
  <2>9. OthersSame(p)
    <3>1. \A r \in Peers : r # p => download'[r] = download[r]
      BY <2>1, <2>5
    <3>2. \A r \in Peers : r # p => chunk_status'[r] = chunk_status[r]
      <4> HIDE DEF s
      <4> QED
        BY <2>2, <2>5
    <3> QED
      BY <2>3, <2>6, <3>1, <3>2 DEF OthersSame
  <2> QED
    BY <1>7, <2>3, <2>6, <2>7, <2>8, <2>9, FitsNow, OneFits
<1> QED
  BY <1>8, <1>9 DEF deal_with_DATA

-----------------------------------------------------------------------------
(* The network's own steps, and the user's.                                *)
LEMMA DisturbFits ==
    ASSUME IInv, OfferInv, NEW p \in Peers, NEW q \in Peers, disturb(p, q)
    PROVE  OfferInv'
<1>1. net[p][q] # <<>>
  BY DEF disturb, Lose, CrowdOut, Duplicate, Unreliable, Arrived
<1>2. Carries(net')
  <2>1. CASE Lose(p, q) \/ CrowdOut(p, q)
    BY <1>1, <2>1, FitsNow, TakenFits DEF Lose, CrowdOut
  <2>2. CASE Duplicate(p, q)
    <3> DEFINE F == Fit(p, q)
               copies == [i \in 1 .. Dups |-> Head(net[p][q])]
    <3>1. Carries(net) /\ net[p][q] \in Seq(F)
      BY FitsNow DEF Carries
    <3>2. F \subseteq Packet
      BY DEF Fit
    <3> HIDE DEF F
    <3>3. Head(net[p][q]) \in F
      BY <1>1, <3>1, HeadTailProperties
    <3>4. copies \in Seq(F)
      BY <3>3, LossAssumption, IsASeq
    <3>5. copies \o net[p][q] \in Seq(F)
      BY <3>1, <3>4, ConcatProperties
    <3>6. net \in [Peers -> [Peers -> Seq(Packet)]]
      BY <3>1 DEF Carries, Paths
    <3>7. net' = [net EXCEPT ![p][q] = copies \o net[p][q]]
      BY <2>2, <3>6 DEF Duplicate
    <3> HIDE DEF copies
    <3>8. copies \o net[p][q] \in Seq(Packet)
      BY <3>2, <3>5, SeqMonotonic
    <3>9. net' \in [Peers -> [Peers -> Seq(Packet)]]
      BY <3>6, <3>7, <3>8
    <3>10. ASSUME NEW x \in Peers, NEW y \in Peers
           PROVE  net'[x][y] \in Seq(Fit(x, y))
      <4>1. CASE x = p /\ y = q
        <5>1. net'[x][y] = copies \o net[p][q]
          BY <3>6, <3>7, <4>1
        <5> QED
          BY <3>5, <4>1, <5>1 DEF F
      <4>2. CASE ~(x = p /\ y = q)
        <5>1. net'[x][y] = net[x][y]
          BY <3>6, <3>7, <4>2
        <5> QED
          BY <3>1, <5>1 DEF Carries
      <4> QED
        BY <4>1, <4>2
    <3> QED
      BY <3>9, <3>10 DEF Carries, Paths
  <2> QED
    BY <2>1, <2>2 DEF disturb
<1>3. UNCHANGED <<task, upload, client>>
  BY DEF disturb
<1>4. OthersSame(p)
  BY <1>3 DEF OthersSame, client
<1> QED
  BY <1>2, <1>3, <1>4, FitsNow, OneFits DEF client

(* With one GET command, nothing that was going on is about a file that    *)
(* the command replaces.                                                   *)
LEMMA FirstGet ==
    ASSUME OneGet, IInv, OfferInv, NEW p \in Peers, handle_user_input(p)
    PROVE  /\ gets[p] = 0 /\ gets' = [gets EXCEPT ![p] = 1]
           /\ 1 \in 1 .. Len(RequestFiles[p])
           /\ request_file(p) = <<>> /\ request_file(p)' = RequestFiles[p][1]
           /\ \A r \in Peers : r # p => request_file(r)' = request_file(r)
<1>1. /\ gets[p] \in Nat /\ gets \in [Peers -> Nat]
      /\ gets[p] < Len(RequestFiles[p]) /\ gets' = [gets EXCEPT ![p] = @ + 1]
  BY DEF IInv, TypeOK, DownloaderTypeOK, handle_user_input, process_get
<1>2. Len(RequestFiles[p]) \in Nat /\ Len(RequestFiles[p]) <= 1
  BY RequestFilesAssumption DEF OneGet
<1>3. gets[p] = 0 /\ 1 \in 1 .. Len(RequestFiles[p])
  BY <1>1, <1>2
<1>4. gets' = [gets EXCEPT ![p] = 1]
  BY <1>1, <1>3
<1>5. gets'[p] = 1 /\ \A r \in Peers : r # p => gets'[r] = gets[r]
  BY <1>1, <1>4
<1> QED
  BY <1>3, <1>4, <1>5 DEF request_file

LEMMA UserInputFits ==
    ASSUME OneGet, IInv, OfferInv, NEW p \in Peers, handle_user_input(p)
    PROVE  OfferInv'
<1> DEFINE file == RequestFiles[p][1]
<1>1. /\ gets[p] = 0 /\ gets' = [gets EXCEPT ![p] = 1]
      /\ 1 \in 1 .. Len(RequestFiles[p])
      /\ request_file(p) = <<>> /\ request_file(p)' = file
      /\ \A r \in Peers : r # p => request_file(r)' = request_file(r)
  BY FirstGet
<1>2. file \in Seq(Chunks) /\ Len(file) \in Nat
  <2>1. RequestFiles[p] \in Seq(Seq(Chunks))
    BY RequestFilesAssumption
  <2>2. file \in Seq(Chunks)
    BY <1>1, <2>1, ElementOfSeq
  <2> QED
    BY <2>2, LenProperties
<1>3. gets[p] + 1 = 1
  BY <1>1
<1>4. /\ \E h \in HeapStatus :
           chunk_status' = [chunk_status EXCEPT ![p] =
              [l \in Lines |->
                  IF l \in 0 .. Len(file) - 1
                  THEN [status |-> 0, hash |-> file[l + 1]]
                  ELSE [status |-> h, hash |-> NoChunk]]]
      /\ net' = [net EXCEPT ![p] =
           [q \in Peers |-> IF q = p THEN net[p][q]
                            ELSE enQ(net[p][q], Whohas(file))]]
      /\ task' = [task EXCEPT ![p] = Select]
      /\ UNCHANGED <<upload, download, waiting>>
  BY <1>3 DEF handle_user_input, process_get, Return, IInv, TypeOK,
              NetworkTypeOK, Paths
<1> HIDE DEF file
<1>5. Wishes(p) = {} /\ Wishes(p)' = Hashes(file)
  <2>1. Len(<<>>) = 0
    BY EmptySeq
  <2> QED
    BY <1>1, <2>1 DEF Wishes, Hashes
<1>6. \A x, y \in Peers : Wishes(x) \subseteq Wishes(x)'
                          /\ Offer(x, y) \subseteq Offer(x, y)'
  BY <1>1, <1>5 DEF Wishes, Offer
<1>7. \A x \in Peers : \A l : IsLine(x, l) =>
          x # p /\ IsLine(x, l)' /\ Wanted(x, l)' = Wanted(x, l)
  <2>1. ~ \E l : IsLine(p, l)
    <3>1. Len(<<>>) = 0
      BY EmptySeq
    <3> QED
      BY <1>1, <3>1 DEF IsLine
  <2> QED
    BY <1>1, <2>1 DEF IsLine, Wanted
<1>8. \A x, y \in Peers : Fit(x, y) \subseteq Fit(x, y)'
  <2>1. ASSUME NEW x \in Peers, NEW y \in Peers, NEW m, Fits(x, y, m)
        PROVE  Fits(x, y, m)'
    <3>1. /\ Wishes(x) \subseteq Wishes(x)' /\ Offer(x, y) \subseteq Offer(x, y)'
          /\ Offer(y, x) \subseteq Offer(y, x)'
      BY <1>6
    <3> QED
      BY <2>1, <3>1 DEF Fits
  <2> QED
    BY <2>1 DEF Fit
<1>9. PathsFit'
  <2>1. ASSUME NEW x \in Peers, NEW y \in Peers
        PROVE  net'[x][y] \in Seq(Fit(x, y)')
    <3>1. net[x][y] \in Seq(Fit(x, y))
      BY DEF OfferInv, PathsFit
    <3>2. net[x][y] \in Seq(Fit(x, y)')
      <4>1. Seq(Fit(x, y)) \subseteq Seq(Fit(x, y)')
        BY <1>8, SeqMonotonic
      <4> QED
        BY <3>1, <4>1
    <3>3. CASE x = p /\ y # p
      <4>1. net'[x][y] = enQ(net[x][y], Whohas(file))
        BY <1>4, <3>3 DEF IInv, TypeOK, NetworkTypeOK, Paths
      <4>2. Whohas(file) \in Fit(x, y)'
        <5>1. Whohas(file) \in Packet
          BY <1>2, PacketTypes
        <5>2. Fits(x, y, Whohas(file))'
          BY <1>5, <3>3 DEF Fits, Whohas
        <5> QED
          BY <5>1, <5>2 DEF Fit
      <4> DEFINE F == Fit(x, y)'
      <4> HIDE DEF F
      <4>3. enQ(net[x][y], Whohas(file)) \in Seq(F)
        <5>1. net[x][y] \in Seq(F) /\ Whohas(file) \in F
          BY <3>2, <4>2 DEF F
        <5> QED
          BY <5>1, AppendProperties DEF enQ
      <4> QED
        BY <4>1, <4>3 DEF F
    <3>4. CASE ~(x = p /\ y # p)
      <4>1. net'[x][y] = net[x][y]
        BY <1>4, <3>4 DEF IInv, TypeOK, NetworkTypeOK, Paths
      <4> QED
        BY <3>2, <4>1
    <3> QED
      BY <3>3, <3>4
  <2> QED
    BY <2>1 DEF PathsFit
<1>10. ASSUME NEW r \in Peers PROVE PeerFits(r)'
  <2>1. PeerFits(r)
    BY DEF OfferInv
  <2>2. TaskFits(r, task[r])' 
    <3>1. CASE r = p
      <4>1. task'[r] = Select
        BY <1>4, <3>1 DEF IInv, TypeOK
      <4> QED
        BY <4>1 DEF TaskFits, Select
    <3>2. CASE r # p
      <4>1. task'[r] = task[r]
        BY <1>4, <3>2 DEF IInv, TypeOK
      <4>2. /\ task[r].doing = "answer" => task[r].to \in Peers
            /\ task[r].doing = "parse" => task[r].from \in Peers
        BY TaskFields DEF IInv, TypeOK, AnswerTask, ParseTask
      <4> QED
        BY <1>6, <2>1, <4>1, <4>2 DEF PeerFits, TaskFits
    <3> QED
      BY <3>1, <3>2
  <2>3. ListFits(r, waiting[r])'
    <3>1. waiting' = waiting
      BY <1>4
    <3>2. \A i \in Entries : waiting[r][i].active => waiting[r][i].from \in Peers
      <4>1. \A i \in Entries : waiting[r][i] \in Waiting \cup {NoWaiting}
        BY DEF IInv, TypeOK, DownloaderTypeOK
      <4>2. \A e \in Waiting : e.from \in Peers
        BY DEF Waiting
      <4>3. ~NoWaiting.active
        BY DEF NoWaiting
      <4> QED
        BY <4>1, <4>2, <4>3
    <3>3. ListFits(r, waiting[r])
      BY <2>1 DEF PeerFits
    <3> QED
      BY <1>6, <1>7, <3>1, <3>2, <3>3 DEF ListFits
  <2>4. TableFits(r, download[r])'
    <3>1. download' = download
      BY <1>4
    <3>2. TableFits(r, download[r])
      BY <2>1 DEF PeerFits
    <3>3. \A x, y : Offer(x, y) # {} => Offer(x, y) \subseteq Wishes(x)
      BY DEF Offer
    <3>4. r # p => \A y : Offer(r, y)' = Offer(r, y)
      BY <1>1 DEF Offer, Wishes
    <3>5. ASSUME NEW i \in 0 .. MaxConn - 1, download[r][i].active
          PROVE  /\ IsLine(r, download[r][i].rid)'
                 /\ download[r][i].from \in Peers
                 /\ Wanted(r, download[r][i].rid)'
                        \in Offer(r, download[r][i].from)'
      <4>1. /\ IsLine(r, download[r][i].rid) /\ download[r][i].from \in Peers
            /\ Wanted(r, download[r][i].rid) \in Offer(r, download[r][i].from)
        BY <3>2, <3>5 DEF TableFits
      <4> DEFINE l == download[r][i].rid
                 q == download[r][i].from
      <4>2. l' = l /\ q' = q
        BY <1>4
      <4> HIDE DEF l, q
      <4>3. r # p /\ IsLine(r, l)' /\ Wanted(r, l)' = Wanted(r, l)
        BY <1>7, <4>1, <4>2 DEF IsLine, Wanted, l
      <4>4. Offer(r, q)' = Offer(r, q)
        BY <3>4, <4>2, <4>3 DEF Offer, Wishes
      <4> QED
        BY <4>1, <4>3, <4>4 DEF l, q
    <3> QED
      BY <3>1, <3>5 DEF TableFits, IsLine, Wanted
  <2>5. UploadFits(r, upload[r])'
    <3>1. upload[r].to # NoPeer => upload[r].to \in Peers
      BY UploadFields DEF IInv, UploadInfo
    <3> QED
      BY <1>4, <1>6, <2>1, <3>1 DEF PeerFits, UploadFits
  <2>6. StatusFits(r, chunk_status[r])'
    <3>1. CASE r = p
      <4>1. Len(file) \in 0 .. MaxLines /\ MaxLines \in Nat
        <5>1. Len(file) <= MaxLines
          BY <1>1, RequestFilesAssumption DEF file
        <5> QED
          BY <1>2, <5>1, RequestFilesAssumption
      <4>2. \A l \in 0 .. Len(file) - 1 : l \in Lines
        BY <4>1 DEF Lines
      <4>3. \A l \in 0 .. Len(file) - 1 :
                chunk_status'[p][l].hash = file[l + 1]
        BY <1>4, <4>2 DEF IInv, TypeOK, DownloaderTypeOK
      <4> QED
        BY <1>1, <3>1, <4>3 DEF StatusFits, Wanted
    <3>2. CASE r # p
      <4>1. chunk_status'[r] = chunk_status[r]
        BY <1>4, <3>2 DEF IInv, TypeOK, DownloaderTypeOK
      <4> QED
        BY <1>1, <2>1, <3>2, <4>1 DEF PeerFits, StatusFits, Wanted
    <3> QED
      BY <3>1, <3>2
  <2> QED
    BY <2>2, <2>3, <2>4, <2>5, <2>6 DEF PeerFits
<1> QED
  BY <1>9, <1>10 DEF OfferInv

-----------------------------------------------------------------------------
LEMMA InitFits == Init => OfferInv
<1> SUFFICES ASSUME Init PROVE OfferInv
  OBVIOUS
<1>1. \A p \in Peers : request_file(p) = <<>> /\ Len(request_file(p)) = 0
  BY EmptySeq DEF Init, DownloaderInit, request_file
<1>2. PathsFit
  BY EmptySeq DEF Init, NetworkInit, PathsFit
<1>3. ASSUME NEW p \in Peers PROVE PeerFits(p)
  <2>1. TaskFits(p, task[p])
    BY IdleFits DEF Init
  <2>2. ListFits(p, waiting[p])
    BY DEF Init, DownloaderInit, ListFits, NoWaiting
  <2>3. TableFits(p, download[p])
    <3>1. \A i \in 0 .. MaxConn - 1 : i \in Slots /\ i # -1
      BY TablesAssumption DEF Slots
    <3> QED
      BY <3>1 DEF Init, DownloaderInit, TableFits, NoSession
  <2>4. UploadFits(p, upload[p])
    BY DEF Init, UploaderInit, UploadFits, NoUpload
  <2>5. StatusFits(p, chunk_status[p])
    BY <1>1 DEF StatusFits
  <2> QED
    BY <2>1, <2>2, <2>3, <2>4, <2>5 DEF PeerFits
<1> QED
  BY <1>2, <1>3 DEF OfferInv

LEMMA NextFits == OneGet /\ IInv /\ OfferInv /\ [Next]_vars => OfferInv'
<1> SUFFICES ASSUME OneGet, IInv, OfferInv, [Next]_vars PROVE OfferInv'
  OBVIOUS
<1>1. CASE UNCHANGED vars
  <2>1. UNCHANGED <<net, task, upload, client>>
    BY <1>1 DEF vars
  <2>2. PathsFit'
    BY <2>1, StillFits DEF PathsFit, OfferInv, client
  <2>3. ASSUME NEW p \in Peers PROVE OfferInv'
    BY <2>1, FitsNow, OneFits DEF client, OthersSame
  <2>4. CASE Peers = {}
    BY <2>2, <2>4 DEF OfferInv
  <2> QED
    BY <2>3, <2>4
<1>2. ASSUME NEW p \in Peers, work(p) PROVE OfferInv'
  BY <1>2, AnswerFits, SendIhaveFits, SkipFits, GetFirstFits, QueueFits,
     DropFits, KeepFits, SendEntryFits DEF work
<1>3. ASSUME NEW p \in Peers, NEW q \in Peers, process_inbound_udp(p, q)
      PROVE  OfferInv'
  BY <1>3, AskedFits, IhaveFits, GetFits, DataFits, AckFits
  DEF process_inbound_udp
<1> QED
  BY <1>1, <1>2, <1>3, WakeFits, UserInputFits, TimerFits, DisturbFits
  DEF Next

(* In a swarm whose users give one GET command each, whatever is asked,    *)
(* offered, listed, downloaded or served is a chunk that the one wants and *)
(* the other has, at the line of the request file it stands in: no search  *)
(* for a hash comes back with -1, no peer serves a chunk it does not have. *)
THEOREM OnlyOffersServed ==
    ASSUME OneGet
    PROVE  Spec => []OfferInv
  BY InitIInv, NextIInv, InitFits, NextFits, PTL DEF Spec

-----------------------------------------------------------------------------
(* The waiting list has a waker.                                           *)

(* Entry i is for a chunk that is still wanted.                            *)
Pending(p, i) == waiting[p][i].active /\ is_asked_for(p, waiting[p][i])

(* With no session open, the scan has every such entry still before it;    *)
(* and an IHAVE queues hashes only after it has opened a session.          *)
Awake(p) ==
    /\ Sessions(p) = {} =>
          \A i \in 0 .. WaitMax - 1 :
              Pending(p, i) => Doing(p, "scan") /\ task[p].at <= i
    /\ Doing(p, "parse") /\ task[p].sent => Sessions(p) # {}

AllAwake == \A p \in Peers : Awake(p)

(* The next entry of a scan is the first in use.                           *)
LEMMA NextEntryFirst ==
    ASSUME NEW list, NEW i \in Nat, NEW after
    PROVE  \A k \in i .. WaitMax - 1 : list[k].active =>
               /\ next_entry(list, i, after).doing = "scan"
               /\ next_entry(list, i, after).at <= k
<1> DEFINE S == {k \in i .. WaitMax - 1 : list[k].active}
<1> SUFFICES ASSUME S # {}
             PROVE  /\ next_entry(list, i, after).doing = "scan"
                    /\ \A k \in S : next_entry(list, i, after).at <= k
  OBVIOUS
<1>1. S \in SUBSET Nat
  <2>1. S \subseteq i .. WaitMax - 1
    OBVIOUS
  <2> HIDE DEF S
  <2> QED
    BY <2>1
<1>2. First(S) \in S /\ \A k \in S : First(S) <= k
  <2> HIDE DEF S
  <2> QED
    BY <1>1, FirstFinds
<1>3. First(S) # -1
  <2> HIDE DEF S
  <2> QED
    BY <1>1, <1>2
<1>4. next_entry(list, i, after) =
          IF First(S) = -1 THEN after
          ELSE [doing |-> "scan", at |-> First(S), after |-> after]
  BY DEF next_entry
<1> HIDE DEF S
<1> QED
  BY <1>2, <1>3, <1>4

(* A scan starts at the first entry in use, unless every session is taken. *)
LEMMA ScanWakes ==
    ASSUME NEW table, NEW list, NEW after
    PROVE  \/ \A i \in 0 .. MaxConn - 1 : table[i].active
           \/ \A k \in 0 .. WaitMax - 1 : list[k].active =>
                 /\ scan(table, list, after).doing = "scan"
                 /\ scan(table, list, after).at <= k
<1> DEFINE S == {i \in 0 .. MaxConn - 1 : ~table[i].active}
<1>1. CASE S = {}
  BY <1>1
<1>2. CASE S # {}
  <2>1. S \in SUBSET Nat
    <3>1. S \subseteq 0 .. MaxConn - 1
      OBVIOUS
    <3> HIDE DEF S
    <3> QED
      BY <3>1
  <2>2. find_free_download_info(table) # -1
    <3>1. find_free_download_info(table) = First(S)
      BY DEF find_free_download_info
    <3> HIDE DEF S
    <3>2. First(S) \in S
      BY <1>2, <2>1, FirstFinds
    <3> QED
      BY <2>1, <3>1, <3>2
  <2> QED
    BY <2>2, NextEntryFirst DEF scan
<1> QED
  BY <1>1, <1>2

(* Opening a session leaves one open, in a full table too.                 *)
LEMMA OpeningOpens ==
    ASSUME NEW table \in [Slots -> Session], NEW rid, NEW q
    PROVE  \E i \in 0 .. MaxConn - 1 : with_session(table, rid, q)[i].active
<1> DEFINE f == find_free_download_info(table)
<1>1. f \in Slots
  BY SlotSearchType
<1>2. with_session(table, rid, q) = [table EXCEPT ![f] = new_session(rid, q)]
      /\ new_session(rid, q).active
  BY DEF with_session, new_session
<1>3. 0 \in 0 .. MaxConn - 1 /\ \A i \in 0 .. MaxConn - 1 : i \in Slots
  BY TablesAssumption DEF Slots
<1> HIDE DEF f
<1>4. CASE f \in 0 .. MaxConn - 1
  BY <1>1, <1>2, <1>4
<1>5. CASE f \notin 0 .. MaxConn - 1
  <2>1. with_session(table, rid, q)[0] = table[0]
    BY <1>2, <1>3, <1>5
  <2>2. table[0].active
    <3> DEFINE S == {i \in 0 .. MaxConn - 1 : ~table[i].active}
    <3>1. f = First(S)
      BY DEF f, find_free_download_info
    <3>2. S \in SUBSET Nat
      <4>1. S \subseteq 0 .. MaxConn - 1
        OBVIOUS
      <4> HIDE DEF S
      <4> QED
        BY <4>1
    <3>3. S = {} \/ First(S) \in S
      <4> HIDE DEF S
      <4> QED
        BY <3>2, FirstFinds
    <3>4. S = {}
      BY <1>5, <3>1, <3>3
    <3> QED
      BY <1>3, <3>4
  <2> QED
    BY <1>3, <2>1, <2>2
<1> QED
  BY <1>4, <1>5

(* A peer to which nothing happened.                                       *)
LEMMA SameAwake ==
    ASSUME NEW p, Awake(p), task'[p] = task[p], waiting'[p] = waiting[p],
           chunk_status'[p] = chunk_status[p], download'[p] = download[p]
    PROVE  Awake(p)'
  BY DEF Awake, Pending, is_asked_for, status_of, Sessions, Doing

(* A thread that was not scanning, and leaves its tables alone.            *)
LEMMA CalmAwake ==
    ASSUME NEW p, Awake(p), ~Doing(p, "scan"), waiting'[p] = waiting[p],
           chunk_status'[p] = chunk_status[p], download'[p] = download[p],
           task'[p].doing = "parse" /\ task'[p].sent => Sessions(p) # {}
    PROVE  Awake(p)'
  BY DEF Awake, Pending, is_asked_for, status_of, Sessions, Doing

(* A thread that has just opened a session.                                *)
LEMMA OpenAwake ==
    ASSUME NEW p, NEW i \in 0 .. MaxConn - 1, download'[p][i].active
    PROVE  Awake(p)'
  BY DEF Awake, Sessions

(* A step of a thread changes its own entries of the tables only.          *)
LEMMA OneActs ==
    ASSUME IInv, NEW p \in Peers,
           \/ wake(p) \/ other_input(p) \/ work(p) \/ handle_user_input(p)
           \/ timer(p) \/ \E q \in Peers : process_inbound_udp(p, q)
    PROVE  OthersSame(p)
<1>1. /\ task \in [Peers -> Task]
      /\ upload \in [Peers -> UploadInfo \cup {NoUpload}]
      /\ waiting \in [Peers -> [Entries -> Waiting \cup {NoWaiting}]]
      /\ download \in [Peers -> [Slots -> Session]]
      /\ chunk_status \in [Peers -> [Lines -> ChunkState]]
  BY DEF IInv, TypeOK, UploadTypeOK, DownloaderTypeOK
<1>2. CASE UNCHANGED <<upload, client>> /\ \E t : task' = [task EXCEPT ![p] = t]
  BY <1>1, <1>2 DEF OthersSame, client
<1>3. CASE wake(p) \/ other_input(p) \/ timer(p)
  BY <1>2, <1>3 DEF wake, other_input, timer, retransmit, Return
<1>4. CASE handle_user_input(p)
  BY <1>1, <1>4 DEF handle_user_input, process_get, Return, OthersSame
<1>5. CASE work(p)
  <2>1. CASE (answer_line(p) \/ send_IHAVE(p)) /\ UNCHANGED client
    <3>1. UNCHANGED <<upload, client>>
      BY <2>1 DEF answer_line, send_IHAVE
    <3>2. \E t : task' = [task EXCEPT ![p] = t]
      <4>1. CASE answer_line(p)
        BY <1>1, <4>1 DEF answer_line
      <4>2. CASE send_IHAVE(p)
        BY <4>2 DEF send_IHAVE, Return
      <4> QED
        BY <2>1, <4>1, <4>2
    <3> QED
      BY <1>2, <3>1, <3>2
  <2>2. CASE skip_hash(p) /\ UNCHANGED upload
    BY <1>2, <2>2 DEF skip_hash, parsed
  <2>3. CASE get_first_hash(p) /\ UNCHANGED upload
    <3>1. \E t : task' = [task EXCEPT ![p] = t]
      BY <2>3 DEF get_first_hash, parsed
    <3>2. UNCHANGED <<upload, waiting>>
      BY <2>3 DEF get_first_hash
    <3>3. \E d : download' = [download EXCEPT ![p] = d]
      BY <1>1, <2>3 DEF get_first_hash
    <3>4. \E l, c : chunk_status' = [chunk_status EXCEPT ![p][l] = c]
      BY <2>3 DEF get_first_hash
    <3> QED
      BY <1>1, <3>1, <3>2, <3>3, <3>4 DEF OthersSame
  <2>4. CASE queue_hash(p) /\ UNCHANGED upload
    <3>1. \E t : task' = [task EXCEPT ![p] = t]
      BY <2>4 DEF queue_hash, parsed
    <3>2. UNCHANGED <<upload, chunk_status, download>>
      BY <2>4 DEF queue_hash
    <3>3. \E i, e : waiting' = [waiting EXCEPT ![p][i] = e]
      BY <2>4 DEF queue_hash
    <3> QED
      BY <1>1, <3>1, <3>2, <3>3 DEF OthersSame
  <2>5. CASE (drop_entry(p) \/ keep_entry(p) \/ send_entry(p)) /\ UNCHANGED upload
    <3>1. \E t : task' = [task EXCEPT ![p] = t]
      BY <2>5 DEF drop_entry, keep_entry, send_entry, visited
    <3>2. UNCHANGED <<upload, chunk_status>>
      BY <2>5 DEF drop_entry, keep_entry, send_entry, client
    <3>3. waiting' = waiting \/ \E i, e : waiting' = [waiting EXCEPT ![p][i] = e]
      BY <2>5 DEF drop_entry, keep_entry, send_entry, client
    <3>4. download' = download \/ \E d : download' = [download EXCEPT ![p] = d]
      BY <1>1, <2>5 DEF drop_entry, keep_entry, send_entry, client
    <3> QED
      BY <1>1, <3>1, <3>2, <3>3, <3>4 DEF OthersSame
  <2> QED
    BY <1>5, <2>1, <2>2, <2>3, <2>4, <2>5 DEF work
<1>6. ASSUME NEW q \in Peers, process_inbound_udp(p, q)
      PROVE  OthersSame(p)
  <2> DEFINE m == Head(net[q][p])
  <2>1. CASE deal_with_WHOHAS(p, q, m) /\ UNCHANGED client
    BY <1>2, <2>1 DEF deal_with_WHOHAS
  <2>2. CASE deal_with_IHAVE(p, q, m) /\ UNCHANGED upload
    BY <1>2, <2>2 DEF deal_with_IHAVE
  <2>3. CASE deal_with_GET(p, q, m) /\ UNCHANGED client
    BY <1>1, <2>3 DEF deal_with_GET, Return, OthersSame, client
  <2>4. CASE deal_with_ACK(p, q, m) /\ UNCHANGED client
    BY <1>1, <2>4 DEF deal_with_ACK, Return, OthersSame, client
  <2>5. CASE ignore_DATA(p, q, m) /\ UNCHANGED upload
    BY <1>2, <2>5 DEF ignore_DATA, Return
  <2>6. CASE accept_DATA(p, q, m) /\ UNCHANGED upload
    <3>1. \E t : task' = [task EXCEPT ![p] = t]
      BY <2>6 DEF accept_DATA, Return
    <3>2. UNCHANGED <<upload, waiting>>
      BY <2>6 DEF accept_DATA
    <3>3. \E k, e : download' = [download EXCEPT ![p][k] = e]
      BY <2>6 DEF accept_DATA
    <3>4. \/ chunk_status' = chunk_status
          \/ \E l, b : chunk_status' = [chunk_status EXCEPT ![p][l].status = b]
      BY <2>6 DEF accept_DATA
    <3> QED
      BY <1>1, <3>1, <3>2, <3>3, <3>4 DEF OthersSame
  <2> QED
    BY <1>6, <2>1, <2>2, <2>3, <2>4, <2>5, <2>6
    DEF process_inbound_udp, deal_with_DATA
<1> QED
  BY <1>3, <1>4, <1>5, <1>6

LEMMA OthersAwake ==
    ASSUME AllAwake, NEW p \in Peers, OthersSame(p), Awake(p)'
    PROVE  AllAwake'
<1>1. ASSUME NEW r \in Peers, r # p PROVE Awake(r)'
  BY <1>1, SameAwake DEF AllAwake, OthersSame
<1> QED
  BY <1>1 DEF AllAwake

(* Between the GET command and the first session nothing is listed.        *)
LEMMA UserInputAwake ==
    ASSUME OneGet, IInv, OfferInv, NEW p \in Peers, handle_user_input(p)
    PROVE  Awake(p)'
<1>1. request_file(p) = <<>>
  BY FirstGet
<1>2. ~ \E l : IsLine(p, l)
  BY <1>1, EmptySeq DEF IsLine
<1>3. \A i \in 0 .. WaitMax - 1 : i \in Entries
  BY TablesAssumption DEF Entries
<1>4. \A i \in 0 .. WaitMax - 1 : ~waiting[p][i].active
  BY <1>2, <1>3, FitsNow DEF ListFits
<1>5. waiting' = waiting /\ task'[p] = Select
  BY DEF handle_user_input, process_get, Return, IInv, TypeOK
<1> QED
  BY <1>4, <1>5 DEF Awake, Pending, Doing, Select

LEMMA WorkAwake ==
    ASSUME IInv, NEW p \in Peers, Awake(p), work(p)
    PROVE  Awake(p)'
<1>1. /\ task \in [Peers -> Task]
      /\ waiting \in [Peers -> [Entries -> Waiting \cup {NoWaiting}]]
      /\ download \in [Peers -> [Slots -> Session]]
  BY DEF IInv, TypeOK, DownloaderTypeOK
<1>2. CASE answer_line(p) /\ UNCHANGED client
  <2>1. task[p].doing = "answer" /\ task[p] \in AnswerTask
    BY <1>1, <1>2, TaskFields DEF answer_line, Doing
  <2>2. task'[p].doing = "answer"
    BY <1>1, <1>2, <2>1 DEF answer_line, AnswerTask
  <2> QED
    BY <1>2, <2>1, <2>2, CalmAwake DEF client, Doing
<1>3. CASE send_IHAVE(p) /\ UNCHANGED client
  BY <1>1, <1>3, CalmAwake DEF send_IHAVE, Return, client, Doing, Select
<1>4. CASE skip_hash(p)
  <2>1. task[p] \in ParseTask /\ Doing(p, "parse")
    BY <1>1, <1>4, TaskFields DEF skip_hash, Doing
  <2>2. task'[p] \in {Select, [task[p] EXCEPT !.left = Tail(task[p].left),
                                              !.sent = task[p].sent]}
    BY <1>1, <1>4 DEF skip_hash, parsed
  <2>3. task'[p].doing = "parse" /\ task'[p].sent => task[p].sent
    <3>1. [task[p] EXCEPT !.left = Tail(task[p].left),
                          !.sent = task[p].sent].sent = task[p].sent
      BY <2>1 DEF ParseTask
    <3>2. Select.doing # "parse"
      BY DEF Select
    <3> QED
      BY <2>2, <3>1, <3>2
  <2> QED
    BY <1>4, <2>1, <2>3, CalmAwake DEF skip_hash, client, Awake, Doing
<1>5. CASE get_first_hash(p)
  <2>1. PICK rid, q : download'[p] = with_session(download[p], rid, q)
    BY <1>1, <1>5 DEF get_first_hash
  <2> QED
    BY <1>1, <2>1, OpeningOpens, OpenAwake
<1>6. CASE queue_hash(p)
  <2>1. Sessions(p) # {} /\ UNCHANGED download
    BY <1>6 DEF queue_hash, Awake
  <2> QED
    BY <2>1 DEF Awake, Sessions
<1>7. CASE send_entry(p)
  <2>1. PICK rid, q : download'[p] = with_session(download[p], rid, q)
    BY <1>1, <1>7 DEF send_entry
  <2> QED
    BY <1>1, <2>1, OpeningOpens, OpenAwake
<1>8. ASSUME NEW a, a = task[p].at,
             Sessions(p) = {}, Doing(p, "scan"), visited(p, waiting'[p]),
             UNCHANGED <<download, chunk_status>>,
             \A i \in 0 .. WaitMax - 1 :
                waiting'[p][i].active => waiting'[p][i] = waiting[p][i],
             ~Pending(p, a)'
      PROVE  Awake(p)'
  <2> DEFINE t == next_entry(waiting'[p], a + 1, task[p].after)
  <2>1. a \in 0 .. WaitMax - 1 /\ task[p].after \in {Select, Ready}
    BY <1>8, ScanFields
  <2>2. task'[p] = t
    BY <1>1, <1>8 DEF visited
  <2>3. t.doing # "parse"
    <3>1. t \in {Select, Ready} \cup ScanTask
      BY <2>1, NextEntryType
    <3> HIDE DEF t
    <3> QED
      BY <3>1 DEF Select, Ready, ScanTask
  <2>4. ASSUME NEW i \in 0 .. WaitMax - 1, Pending(p, i)'
        PROVE  t.doing = "scan" /\ t.at <= i
    <3>1. Pending(p, i)
      BY <1>8, <2>4 DEF Pending, is_asked_for, status_of
    <3>2. a <= i
      BY <1>8, <3>1 DEF Awake
    <3>3. i \in a + 1 .. WaitMax - 1
      <4>1. i # a
        BY <1>8, <2>4
      <4> QED
        BY <2>1, <3>2, <4>1, TablesAssumption
    <3>4. waiting'[p][i].active
      BY <2>4 DEF Pending
    <3> QED
      BY <2>1, <3>3, <3>4, NextEntryFirst
  <2> HIDE DEF t
  <2> QED
    BY <2>2, <2>3, <2>4 DEF Awake, Doing
<1>9. ASSUME Sessions(p) # {}, UNCHANGED download, NEW list, visited(p, list),
             Doing(p, "scan")
      PROVE  Awake(p)'
  BY <1>9 DEF Awake, Sessions
<1>10. CASE drop_entry(p)
  <2>1. CASE Sessions(p) # {}
    BY <1>9, <1>10, <2>1 DEF drop_entry
  <2>2. CASE Sessions(p) = {}
    <3> DEFINE a == task[p].at
    <3>1. a \in 0 .. WaitMax - 1 /\ a \in Entries
      BY <1>10, ScanFields, TablesAssumption DEF drop_entry, Entries
    <3>2. waiting' = [waiting EXCEPT ![p][a] = NoWaiting]
      BY <1>10 DEF drop_entry
    <3>3. PICK b : b = a
      OBVIOUS
    <3> HIDE DEF a
    <3>4. waiting'[p] = [waiting[p] EXCEPT ![b] = NoWaiting]
      BY <1>1, <3>2, <3>3
    <3>5. waiting'[p][b] = NoWaiting /\ ~NoWaiting.active
      BY <1>1, <3>1, <3>3, <3>4 DEF NoWaiting
    <3>6. \A i \in 0 .. WaitMax - 1 :
              waiting'[p][i].active => waiting'[p][i] = waiting[p][i]
      <4>1. \A i \in 0 .. WaitMax - 1 : i \in Entries
        BY TablesAssumption DEF Entries
      <4> QED
        BY <1>1, <3>4, <3>5, <4>1
    <3>7. ~Pending(p, b)'
      BY <3>5 DEF Pending
    <3> QED
      BY <1>8, <1>10, <2>2, <3>3, <3>6, <3>7 DEF drop_entry, a
  <2> QED
    BY <2>1, <2>2
<1>11. CASE keep_entry(p)
  <2>1. UNCHANGED <<download, chunk_status, waiting>>
    BY <1>11 DEF keep_entry, client
  <2>2. CASE Sessions(p) # {}
    BY <1>9, <1>11, <2>1, <2>2 DEF keep_entry
  <2>3. CASE Sessions(p) = {}
    <3>1. PICK a : a = task[p].at
      OBVIOUS
    <3>2. busy_flags(p) = {FALSE}
      BY <2>3 DEF busy_flags, Sessions
    <3>3. status_of(p, waiting[p][a]) = 1
      BY <1>11, <3>1, <3>2 DEF keep_entry
    <3>4. ~Pending(p, a)'
      BY <2>1, <3>3 DEF Pending, is_asked_for, status_of
    <3> QED
      BY <1>8, <1>11, <2>1, <2>3, <3>1, <3>4 DEF keep_entry
  <2> QED
    BY <2>2, <2>3
<1> QED
  BY <1>2, <1>3, <1>4, <1>5, <1>6, <1>7, <1>10, <1>11 DEF work

LEMMA ReceiveAwake ==
    ASSUME IInv, NEW p \in Peers, NEW q \in Peers, Awake(p),
           process_inbound_udp(p, q)
    PROVE  Awake(p)'
<1> DEFINE m == Head(net[q][p])
<1>1. /\ task \in [Peers -> Task]
      /\ download \in [Peers -> [Slots -> Session]]
  BY DEF IInv, TypeOK, DownloaderTypeOK
<1>2. ~Doing(p, "scan")
  BY DEF process_inbound_udp, MayServe, Doing, Select, Ready
<1>3. ASSUME UNCHANGED client, NEW t, task' = [task EXCEPT ![p] = t],
             t.doing = "parse" => ~t.sent
      PROVE  Awake(p)'
  <2>1. task'[p] = t
    BY <1>1, <1>3
  <2> QED
    BY <1>2, <1>3, <2>1, CalmAwake DEF client
<1>4. CASE deal_with_WHOHAS(p, q, m) /\ UNCHANGED client
  <2> DEFINE asked == {HashesRead(m)[i] : i \in DOMAIN HashesRead(m)}
             t == [doing |-> "answer", to |-> q, asked |-> asked, at |-> 1,
                   found |-> <<>>]
  <2>1. task' = [task EXCEPT ![p] = t]
    BY <1>4 DEF deal_with_WHOHAS
  <2> HIDE DEF asked
  <2>2. t.doing = "answer"
    OBVIOUS
  <2> HIDE DEF t
  <2> QED
    BY <1>3, <1>4, <2>1, <2>2
<1>5. CASE deal_with_IHAVE(p, q, m)
  <2> DEFINE parse == [doing |-> "parse", from |-> q, left |-> HashesRead(m),
                       sent |-> FALSE]
  <2>1. PICK t \in {Select, parse} : task' = [task EXCEPT ![p] = t]
    BY <1>5 DEF deal_with_IHAVE
  <2>2. t.doing = "parse" => ~t.sent
    BY DEF Select
  <2>3. UNCHANGED client
    BY <1>5 DEF deal_with_IHAVE
  <2> QED
    BY <1>3, <2>1, <2>2, <2>3
<1>6. CASE /\ \/ deal_with_GET(p, q, m)
              \/ deal_with_ACK(p, q, m)
              \/ ignore_DATA(p, q, m)
           /\ UNCHANGED client
  <2>1. task' = [task EXCEPT ![p] = Select]
    BY <1>6 DEF deal_with_GET, deal_with_ACK, ignore_DATA, Return
  <2>2. Select.doing # "parse"
    BY DEF Select
  <2> QED
    BY <1>3, <1>6, <2>1, <2>2
<1>7. CASE accept_DATA(p, q, m)
  <2> DEFINE k == session_from(p, q)
             s == download[p][k]
             grown == [s EXCEPT !.pos = @ + 1, !.seq = @ + 1]
  <2>1. s \in Session /\ k \in Slots
    BY SlotSearchType, SessionFields DEF IInv
  <2>2. UNCHANGED waiting
    BY <1>7 DEF accept_DATA
  <2>3. CASE task' = [task EXCEPT ![p] = scan(download'[p], waiting[p], Select)]
    <3> DEFINE t == scan(download'[p], waiting[p], Select)
    <3>1. task'[p] = t
      BY <1>1, <2>3
    <3>2. t.doing # "parse"
      <4>1. t \in {Select} \cup ScanTask
        BY ScanType
      <4> HIDE DEF t
      <4> QED
        BY <4>1 DEF Select, ScanTask
    <3>3. CASE \A i \in 0 .. MaxConn - 1 : download'[p][i].active
      <4>1. 0 \in 0 .. MaxConn - 1
        BY TablesAssumption
      <4> QED
        BY <3>3, <4>1, OpenAwake
    <3>4. CASE \A i \in 0 .. WaitMax - 1 : waiting[p][i].active =>
                  t.doing = "scan" /\ t.at <= i
      <4> HIDE DEF t
      <4> QED
        BY <2>2, <3>1, <3>2, <3>4 DEF Awake, Pending, Doing
    <3> QED
      BY <3>3, <3>4, ScanWakes
  <2>4. CASE /\ download' = [download EXCEPT ![p][k] = grown]
             /\ Return(p) /\ UNCHANGED chunk_status
    <3>1. grown.active = s.active
      <4> HIDE DEF s
      <4> QED
        BY <2>1 DEF Session
    <3>2. \A i \in 0 .. MaxConn - 1 : download'[p][i].active = download[p][i].active
      <4>1. \A i \in 0 .. MaxConn - 1 : i \in Slots
        BY TablesAssumption DEF Slots
      <4> HIDE DEF k, grown
      <4> QED
        BY <1>1, <2>1, <2>4, <3>1, <4>1 DEF s
    <3>3. Sessions(p)' = Sessions(p)
      BY <3>2 DEF Sessions
    <3>4. task'[p] = Select
      BY <1>1, <2>4 DEF Return
    <3>5. ASSUME Sessions(p) = {}, NEW i \in 0 .. WaitMax - 1
          PROVE  ~Pending(p, i)'
      <4>1. ~Pending(p, i)
        BY <1>2, <3>5 DEF Awake
      <4> QED
        BY <2>2, <2>4, <4>1 DEF Pending, is_asked_for, status_of
    <3> QED
      BY <3>3, <3>4, <3>5 DEF Awake, Doing, Select
  <2> QED
    BY <1>7, <2>3, <2>4 DEF accept_DATA
<1>8. ignore_DATA(p, q, m) => UNCHANGED client
  BY DEF ignore_DATA
<1> QED
  BY <1>4, <1>5, <1>6, <1>7, <1>8 DEF process_inbound_udp, deal_with_DATA

LEMMA OtherAwake ==
    ASSUME IInv, NEW p \in Peers, Awake(p),
           wake(p) \/ other_input(p) \/ timer(p)
    PROVE  Awake(p)'
<1>1. ~Doing(p, "scan")
  BY DEF wake, other_input, timer, MayEndIteration, Doing, Select, Ready
<1>2. UNCHANGED client
  BY DEF wake, other_input, timer
<1>3. task'[p].doing # "parse"
  <2>1. CASE wake(p)
    <3>1. scan_first(p) \in {Ready} \cup ScanTask
      BY ScanType DEF scan_first
    <3>2. task'[p] = scan_first(p)
      BY <2>1 DEF wake, IInv, TypeOK
    <3> QED
      BY <3>1, <3>2 DEF Ready, ScanTask
  <2>2. CASE other_input(p) \/ timer(p)
    BY <2>2 DEF other_input, timer, retransmit, Return, Select, IInv, TypeOK
  <2> QED
    BY <2>1, <2>2
<1> QED
  BY <1>1, <1>2, <1>3, CalmAwake DEF client

LEMMA NextAwake ==
    OneGet /\ IInv /\ OfferInv /\ AllAwake /\ [Next]_vars => AllAwake'
<1> SUFFICES ASSUME OneGet, IInv, OfferInv, AllAwake, [Next]_vars
             PROVE  AllAwake'
  OBVIOUS
<1>1. ASSUME NEW p \in Peers,
             \/ wake(p) \/ other_input(p) \/ work(p) \/ handle_user_input(p)
             \/ timer(p) \/ \E q \in Peers : process_inbound_udp(p, q)
      PROVE  AllAwake'
  <2>1. Awake(p)
    BY DEF AllAwake
  <2>2. Awake(p)'
    BY <1>1, <2>1, OtherAwake, WorkAwake, UserInputAwake, ReceiveAwake
  <2> QED
    BY <1>1, <2>2, OneActs, OthersAwake
<1>2. CASE UNCHANGED <<task, client>>
  BY <1>2, SameAwake DEF AllAwake, client
<1> QED
  BY <1>1, <1>2 DEF Next, vars, disturb

LEMMA InitAwake == Init => AllAwake
<1> SUFFICES ASSUME Init, NEW p \in Peers PROVE Awake(p)
  BY DEF AllAwake
<1>1. \A i \in 0 .. WaitMax - 1 : ~waiting[p][i].active
  BY TablesAssumption DEF Init, DownloaderInit, Entries, NoWaiting
<1> QED
  BY <1>1 DEF Init, Awake, Pending, Doing, Select

(* In a swarm whose users give one GET command each, a chunk that a full   *)
(* table, a busy provider or a session of its own kept on the waiting list *)
(* is never forgotten: whenever the thread goes idle with such a chunk on  *)
(* the list, a session is open whose end scans the list again.             *)
THEOREM WaitingHasWaker ==
    ASSUME OneGet
    PROVE  Spec => []QueueHasWaker
<1>1. AllAwake => QueueHasWaker
  BY DEF AllAwake, Awake, Pending, QueueHasWaker, Doing, Select
<1> QED
  BY <1>1, InitIInv, NextIInv, InitFits, NextFits, InitAwake, NextAwake, PTL
  DEF Spec
=============================================================================
