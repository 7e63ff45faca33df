---------------------------- MODULE SmallProofs -----------------------------
(***************************************************************************)
(* Where the waiting list works.  With request files of two lines no peer  *)
(* opens two sessions with one provider and no table overflows, so what    *)
(* TransferProofs shows of its swarms (Plain) holds of every run of them.  *)
(***************************************************************************)
EXTENDS TransferProofs

AllDiffer(seq) == \A i, j \in 1 .. Len(seq) : seq[i] = seq[j] => i = j

(* No peer lists a chunk twice.                                            *)
Vary == \A q \in Peers : AllDiffer(HasFiles[q])

(* Request files of two lines.  The second chunk of a provider waits for   *)
(* the first at entry 0 of the list and for entry 0 of the download table, *)
(* the only place where the busy flag looks for it; a third line is one    *)
(* too many (two of one provider and one of another are enough).           *)
Small ==
    /\ Plain
    /\ MaxConn >= 2
    /\ \A p \in Peers : \A g \in 1 .. Len(RequestFiles[p]) :
           Len(RequestFiles[p][g]) <= 2
    /\ Vary

(* Some line is still to be asked for; some line no longer is.             *)
Unasked(p, status) ==
    \E l \in 0 .. Len(request_file(p)) - 1 : status[l].status \notin {1, 2}
Begun(p, status) ==
    \E l \in 0 .. Len(request_file(p)) - 1 : status[l].status \in {1, 2}

(* The download table, waiting list and chunk statuses of a peer.          *)
Tidy(p, table, list, status) ==
    /\ ~table[-1].active /\ ~list[-1].active
    /\ \A i \in 1 .. MaxConn - 1 : table[i].active => ~Unasked(p, status)
    /\ \A i \in 1 .. WaitMax - 1 : ~list[i].active
    /\ (\E i \in 0 .. MaxConn - 1 : table[i].active) \/ list[0].active =>
           Begun(p, status)
    /\ list[0].active /\ status[list[0].rid].status \notin {1, 2} /\ table[0].active =>
           table[0].from = list[0].from
    /\ \A i, j \in 0 .. MaxConn - 1 :
           table[i].active /\ table[j].active /\ table[i].from = table[j].from
           => i = j

(* An IHAVE being read: it lists two chunks at most, and its second is     *)
(* read next to a session with its sender.                                 *)
Reading(p, t, table, list, status) ==
    t.doing = "parse" =>
        /\ Len(t.left) <= 2
        /\ t.sent =>
              /\ Len(t.left) = 1
              /\ Unasked(p, status) =>
                    /\ ~list[0].active
                    /\ table[0].active /\ table[0].from = t.from

Orderliness(p) ==
    /\ Tidy(p, download[p], waiting[p], chunk_status[p])
    /\ Reading(p, task[p], download[p], waiting[p], chunk_status[p])

-----------------------------------------------------------------------------
(* A provider is asked once, answers once and is then downloaded from: at  *)
(* most one of these is going on between p and q.                          *)
OnlyOne(queue, type) ==
    \A i, j \in 1 .. Len(queue) :
        queue[i].type = type /\ queue[j].type = type => i = j

Asked(p, q) == Holds(net[p][q], "WHOHAS")
Answering(p, q) == Doing(q, "answer") /\ task[q].to = p
Offered(p, q) == Holds(net[q][p], "IHAVE")
Hearing(p, q) == Doing(p, "parse") /\ task[p].from = q /\ ~task[p].sent
Engaged(p, q) ==
    \/ \E i \in Sessions(p) : download[p][i].from = q
    \/ \E i \in 0 .. WaitMax - 1 : waiting[p][i].active /\ waiting[p][i].from = q

Stages == {"idle", "asked", "answering", "offered", "hearing", "engaged"}

At(p, q, stage) ==
    /\ gets[p] = 0 => stage = "idle"
    /\ Asked(p, q) => stage = "asked"
    /\ Answering(p, q) => stage = "answering"
    /\ Offered(p, q) => stage = "offered"
    /\ Hearing(p, q) => stage = "hearing"
    /\ Engaged(p, q) => stage = "engaged"

Once(p, q) ==
    /\ \E stage \in Stages : At(p, q, stage)
    /\ OnlyOne(net[p][q], "WHOHAS") /\ OnlyOne(net[q][p], "IHAVE")

(* An answer lists what it found so far in has_chunk_file, each once.      *)
Listing(q) ==
    Doing(q, "answer") =>
        /\ AllDiffer(task[q].found)
        /\ \A i \in 1 .. Len(task[q].found) : \E j \in 1 .. task[q].at - 1 :
               task[q].found[i] = HasFiles[q][j]

(* Every IHAVE lists different chunks.                                     *)
Distinct(queue) ==
    \A i \in 1 .. Len(queue) :
        queue[i].type = "IHAVE" => AllDiffer(queue[i].hashes)

AllDistinct == \A p, q \in Peers : Distinct(net[p][q])

(* The asking is the same in swarms of any size; the order of the tables   *)
(* is that of small ones.                                                  *)
AskingInv ==
    /\ \A p \in Peers : Listing(p)
    /\ \A p, q \in Peers : p # q => Once(p, q)
    /\ AllDistinct

SmallInv == AskingInv /\ \A p \in Peers : Orderliness(p)

-----------------------------------------------------------------------------
(* The tables.                                                             *)
LEMMA WantedUnasked ==
    ASSUME NEW p, NEW rid, is_wanted(p, rid)
    PROVE  chunk_status[p][rid].status \notin {1, 2}
  BY DEF is_wanted

LEMMA TwoLines ==
    ASSUME Small, TypeOK, NEW p \in Peers
    PROVE  Len(request_file(p)) \in 0 .. 2
<1>1. Len(request_file(p)) \in Nat
  BY RequestFileType
<1>2. CASE gets[p] = 0
  BY <1>2, EmptySeq DEF request_file
<1>3. CASE gets[p] # 0
  <2>1. gets[p] \in 1 .. Len(RequestFiles[p])
    <3>1. RequestFiles[p] \in Seq(Seq(Chunks))
      BY RequestFilesAssumption
    <3> QED
      BY <1>3, <3>1 DEF TypeOK, DownloaderTypeOK
  <2>2. Len(request_file(p)) <= 2
    BY <1>3, <2>1 DEF Small, request_file
  <2> DEFINE n == Len(request_file(p))
  <2>3. n \in Nat /\ n <= 2
    BY <1>1, <2>2
  <2> HIDE DEF n
  <2>4. n \in 0 .. 2
    BY <2>3
  <2> QED
    BY <2>4 DEF n
<1> QED
  BY <1>2, <1>3

(* No more different chunks than lines.                                    *)
LEMMA FewChunks ==
    ASSUME Small, TypeOK, NEW p \in Peers, NEW seq \in Seq(Chunks), AllDiffer(seq),
           Hashes(seq) \subseteq Wishes(p)
    PROVE  Len(seq) <= 2
<1> DEFINE n == Len(seq)
           k == Len(request_file(p))
<1>1. n \in Nat /\ k \in 0 .. 2
  BY TwoLines
<1>2. SUFFICES ASSUME n > 2 PROVE FALSE
  BY <1>1
<1> HIDE DEF n, k
<1>3. 1 \in 1 .. n /\ 2 \in 1 .. n /\ 3 \in 1 .. n
  BY <1>1, <1>2
<1>4. \A i \in 1 .. n : \E j \in 1 .. k : seq[i] = request_file(p)[j]
  BY DEF Hashes, Wishes, n, k
<1>5. \A j \in 1 .. k : j = 1 \/ j = 2
  BY <1>1
<1>6. \A i \in 1 .. n : seq[i] = request_file(p)[1] \/ seq[i] = request_file(p)[2]
  BY <1>4, <1>5
<1>7. seq[1] # seq[2] /\ seq[1] # seq[3] /\ seq[2] # seq[3]
  BY <1>3 DEF AllDiffer, n
<1> QED
  BY <1>3, <1>6, <1>7

(* The last line is asked for.                                             *)
LEMMA LastLine ==
    ASSUME Small, TypeOK, NEW p \in Peers, NEW rid, IsLine(p, rid),
           NEW status, status[rid].status \notin {1, 2}, Begun(p, status), NEW later,
           later[rid].status \in {1, 2},
           \A l \in Lines : later[l].status \notin {1, 2} => status[l].status \notin {1, 2}
    PROVE  ~Unasked(p, later)
<1>1. Len(request_file(p)) \in 0 .. 2 /\ Len(request_file(p)) <= MaxLines
  BY TwoLines, RequestFileType, RequestFilesAssumption
<1>2. PICK m \in 0 .. Len(request_file(p)) - 1 : status[m].status \in {1, 2}
  BY DEF Begun
<1>3. SUFFICES ASSUME NEW l \in 0 .. Len(request_file(p)) - 1, later[l].status \notin {1, 2}
               PROVE  FALSE
  BY DEF Unasked
<1>4. l # rid /\ status[l].status \notin {1, 2} /\ m # l /\ m # rid
  <2>1. l \in Lines
    BY <1>1, RequestFilesAssumption DEF Lines
  <2> QED
    BY <1>2, <1>3, <2>1
<1> DEFINE n == Len(request_file(p))
<1>5. n \in 0 .. 2 /\ l \in 0 .. n - 1 /\ m \in 0 .. n - 1 /\ rid \in 0 .. n - 1
  BY <1>1 DEF IsLine
<1> HIDE DEF n
<1>6. l \in {0, 1} /\ m \in {0, 1} /\ rid \in {0, 1}
  BY <1>5
<1> QED
  BY <1>4, <1>6

(* Tables with nothing new in them.                                        *)
LEMMA TidyLess ==
    ASSUME NEW p, TypeOK, p \in Peers,
           NEW table, NEW list, NEW status, Tidy(p, table, list, status),
           ListFits(p, list), NEW table2, NEW list2, NEW status2,
           \A i \in Slots : table2[i].active =>
               table[i].active /\ table2[i].from = table[i].from,
           \A i \in Entries : list2[i].active => list2[i] = list[i],
           \A l \in Lines : status2[l].status \notin {1, 2} => status[l].status \notin {1, 2}
    PROVE  Tidy(p, table2, list2, status2)
<1>1. /\ -1 \in Slots /\ \A i \in 0 .. MaxConn - 1 : i \in Slots
      /\ -1 \in Entries /\ \A i \in 0 .. WaitMax - 1 : i \in Entries
      /\ 0 \in Entries /\ 0 \in Slots
  BY TablesAssumption DEF Slots, Entries
<1>2. \A l \in 0 .. Len(request_file(p)) - 1 : l \in Lines
  BY RequestFileType, RequestFilesAssumption DEF Lines
<1>3. Unasked(p, status2) => Unasked(p, status)
  BY <1>2 DEF Unasked
<1>4. Begun(p, status) => Begun(p, status2)
  BY <1>2 DEF Begun
<1>5. ~table2[-1].active /\ ~list2[-1].active
  BY <1>1 DEF Tidy
<1>6. \A i \in 1 .. MaxConn - 1 : table2[i].active => ~Unasked(p, status2)
  <2>1. \A i \in 1 .. MaxConn - 1 : i \in Slots
    BY TablesAssumption DEF Slots
  <2> QED
    BY <1>3, <2>1 DEF Tidy
<1>7. \A i \in 1 .. WaitMax - 1 : ~list2[i].active
  <2>1. \A i \in 1 .. WaitMax - 1 : i \in Entries
    BY TablesAssumption DEF Entries
  <2> QED
    BY <2>1 DEF Tidy
<1>8. (\E i \in 0 .. MaxConn - 1 : table2[i].active) \/ list2[0].active =>
          Begun(p, status2)
  BY <1>1, <1>4 DEF Tidy
<1>9. ASSUME list2[0].active, status2[list2[0].rid].status \notin {1, 2}, table2[0].active
      PROVE  table2[0].from = list2[0].from
  <2>1. list2[0] = list[0]
    BY <1>1, <1>9
  <2>2. list[0].rid \in Lines
    BY <1>1, <1>2, <1>9, <2>1 DEF ListFits, IsLine
  <2> QED
    BY <1>1, <1>9, <2>1, <2>2 DEF Tidy
<1>10. \A i, j \in 0 .. MaxConn - 1 :
          table2[i].active /\ table2[j].active /\ table2[i].from = table2[j].from
          => i = j
  BY <1>1 DEF Tidy
<1> QED
  BY <1>5, <1>6, <1>7, <1>8, <1>9, <1>10 DEF Tidy

(* While a chunk is still to be asked for, one of the first two entries of *)
(* the download table is free, and it is found.                            *)
LEMMA FreeSlot ==
    ASSUME Small, NEW p, NEW table, NEW list, NEW status,
           Tidy(p, table, list, status), Unasked(p, status)
    PROVE  LET f == find_free_download_info(table)
           IN  /\ f = IF table[0].active THEN 1 ELSE 0
               /\ f \in 0 .. MaxConn - 1 /\ ~table[f].active
               /\ \A i \in 1 .. MaxConn - 1 : ~table[i].active
<1> DEFINE S == {i \in 0 .. MaxConn - 1 : ~table[i].active}
<1>1. MaxConn \in Nat /\ MaxConn >= 2
  BY TablesAssumption DEF Small
<1>2. \A i \in 1 .. MaxConn - 1 : ~table[i].active
  BY DEF Tidy
<1>3. 1 \in 1 .. MaxConn - 1 /\ 1 \in 0 .. MaxConn - 1 /\ 0 \in 0 .. MaxConn - 1
  BY <1>1
<1>4. 1 \in S /\ S # {}
  BY <1>2, <1>3
<1>5. S \in SUBSET Nat
  <2>1. S \subseteq 0 .. MaxConn - 1
    OBVIOUS
  <2> HIDE DEF S
  <2> QED
    BY <2>1
<1>6. First(S) \in S /\ First(S) <= 1
  <2> HIDE DEF S
  <2> QED
    BY <1>4, <1>5, FirstFinds
<1>7. First(S) = IF table[0].active THEN 1 ELSE 0
  <2>1. First(S) \in {0, 1}
    <3> DEFINE f == First(S)
    <3>1. f \in Nat /\ f <= 1
      <4> HIDE DEF S
      <4> QED
        BY <1>5, <1>6
    <3> HIDE DEF f
    <3>2. f \in {0, 1}
      BY <3>1
    <3> QED
      BY <3>2 DEF f
  <2>2. CASE table[0].active
    <3>1. First(S) # 0
      BY <1>6, <2>2
    <3> QED
      BY <2>1, <2>2, <3>1
  <2>3. CASE ~table[0].active
    <3>1. 0 \in S
      BY <1>3, <2>3
    <3>2. First(S) <= 0
      <4> HIDE DEF S
      <4> QED
        BY <1>4, <1>5, <3>1, FirstFinds
    <3> QED
      BY <2>1, <2>3, <3>2
  <2> QED
    BY <2>2, <2>3
<1>8. find_free_download_info(table) = First(S)
  BY DEF find_free_download_info
<1> QED
  BY <1>2, <1>6, <1>7, <1>8

(* A session opened by the handler of IHAVE.                               *)
LEMMA FirstTidy ==
    ASSUME Small, TypeOK, NEW p \in Peers, NEW table \in [Slots -> Session],
           NEW list, ListFits(p, list), NEW status, Tidy(p, table, list, status),
           NEW q, NEW rid, IsLine(p, rid), status[rid].status \notin {1, 2}, NEW later,
           later[rid].status \in {1, 2},
           \A l \in Lines : later[l].status \notin {1, 2} => status[l].status \notin {1, 2},
           \A i \in 0 .. MaxConn - 1 : table[i].active => table[i].from # q,
           table[0].active \/ ~(list[0].active /\ status[list[0].rid].status \notin {1, 2})
    PROVE  LET next == with_session(table, rid, q)
           IN  /\ Tidy(p, next, list, later)
               /\ Unasked(p, later) =>
                     ~list[0].active /\ next[0].active /\ next[0].from = q
<1> DEFINE f == find_free_download_info(table)
           next == with_session(table, rid, q)
<1>1. Unasked(p, status) /\ Begun(p, later)
  BY DEF Unasked, Begun, IsLine
<1>2. /\ f = IF table[0].active THEN 1 ELSE 0
      /\ f \in 0 .. MaxConn - 1 /\ ~table[f].active
      /\ \A i \in 1 .. MaxConn - 1 : ~table[i].active
  BY <1>1, FreeSlot
<1>3. /\ next = [table EXCEPT ![f] = new_session(rid, q)]
      /\ new_session(rid, q).active /\ new_session(rid, q).from = q
  BY DEF with_session, new_session
<1> HIDE DEF f, next
<1>4. /\ \A i \in 0 .. MaxConn - 1 : i \in Slots
      /\ -1 \in Slots /\ 0 \in 0 .. MaxConn - 1 /\ f # -1
      /\ \A i \in 1 .. MaxConn - 1 : i \in 0 .. MaxConn - 1
  BY <1>2, TablesAssumption DEF Slots
<1>5. /\ next[f].active /\ next[f].from = q /\ next[-1] = table[-1]
      /\ \A i \in 0 .. MaxConn - 1 : i # f => next[i] = table[i]
  BY <1>2, <1>3, <1>4
<1>6. Begun(p, status) => ~Unasked(p, later)
  BY LastLine
<1>7. table[0].active => Begun(p, status) /\ f = 1
  BY <1>2, <1>4 DEF Tidy
<1>8. ~next[-1].active /\ ~list[-1].active
  BY <1>5 DEF Tidy
<1>9. \A i \in 1 .. MaxConn - 1 : next[i].active => ~Unasked(p, later)
  <2>1. ASSUME NEW i \in 1 .. MaxConn - 1, next[i].active PROVE f = 1
    <3>1. i = f
      BY <1>2, <1>4, <1>5, <2>1
    <3> QED
      BY <1>2, <3>1
  <2> QED
    BY <1>2, <1>6, <1>7, <2>1
<1>10. \A i \in 1 .. WaitMax - 1 : ~list[i].active
  BY DEF Tidy
<1>11. ASSUME list[0].active, later[list[0].rid].status \notin {1, 2}
       PROVE  ~Unasked(p, later)
  BY <1>6, <1>11 DEF Tidy
<1>12. ASSUME list[0].active, later[list[0].rid].status \notin {1, 2} PROVE FALSE
  <2>1. IsLine(p, list[0].rid)
    <3>1. 0 \in Entries
      BY TablesAssumption DEF Entries
    <3> QED
      BY <1>12, <3>1 DEF ListFits
  <2> QED
    BY <1>11, <1>12, <2>1 DEF Unasked, IsLine
<1>13. \A i, j \in 0 .. MaxConn - 1 :
           next[i].active /\ next[j].active /\ next[i].from = next[j].from
           => i = j
  BY <1>5 DEF Tidy
<1>14. Tidy(p, next, list, later)
  BY <1>1, <1>8, <1>9, <1>10, <1>12, <1>13 DEF Tidy
<1>15. ASSUME Unasked(p, later)
       PROVE  ~list[0].active /\ next[0].active /\ next[0].from = q
  <2>1. ~Begun(p, status)
    BY <1>6, <1>15
  <2>2. ~table[0].active /\ ~list[0].active
    BY <1>4, <2>1 DEF Tidy
  <2> QED
    BY <1>2, <1>5, <2>2
<1> QED
  BY <1>14, <1>15 DEF next

(* The entry at 0 leaves the list when no session is open.                 *)
LEMMA EntryTidy ==
    ASSUME Small, NEW p, NEW table \in [Slots -> Session], NEW list, NEW status,
           Tidy(p, table, list, status), Unasked(p, status), Begun(p, status),
           ~table[0].active, NEW q, NEW rid, NEW shorter,
           ~shorter[-1].active, \A i \in 0 .. WaitMax - 1 : ~shorter[i].active
    PROVE  Tidy(p, with_session(table, rid, q), shorter, status)
<1> DEFINE next == with_session(table, rid, q)
<1>1. /\ find_free_download_info(table) = 0
      /\ \A i \in 1 .. MaxConn - 1 : ~table[i].active
  BY FreeSlot
<1>2. /\ \A i \in 0 .. MaxConn - 1 : i \in Slots
      /\ -1 \in Slots /\ 0 \in Slots
      /\ \A i \in 0 .. MaxConn - 1 : i # 0 => i \in 1 .. MaxConn - 1
      /\ \A i \in 1 .. MaxConn - 1 : i \in 0 .. MaxConn - 1 /\ i # 0
  BY TablesAssumption DEF Slots
<1>3. next = [table EXCEPT ![0] = new_session(rid, q)]
  BY <1>1 DEF with_session
<1> HIDE DEF next
<1>4. /\ next[-1] = table[-1]
      /\ \A i \in 1 .. MaxConn - 1 : ~next[i].active
  BY <1>1, <1>2, <1>3
<1>5. \A i, j \in 0 .. MaxConn - 1 : next[i].active /\ next[j].active => i = j
  BY <1>2, <1>4
<1>6. /\ ~shorter[0].active
      /\ \A i \in 1 .. WaitMax - 1 : ~shorter[i].active
  <2>1. 0 \in 0 .. WaitMax - 1 /\ \A i \in 1 .. WaitMax - 1 : i \in 0 .. WaitMax - 1
    BY TablesAssumption
  <2> QED
    BY <2>1
<1>7. Tidy(p, next, shorter, status)
  BY <1>4, <1>5, <1>6 DEF Tidy
<1> QED
  BY <1>7 DEF next

(* The second chunk of a provider is put on an empty list.                 *)
LEMMA QueueTidy ==
    ASSUME NEW p, NEW table, NEW list \in [Entries -> Waiting \cup {NoWaiting}],
           NEW status, Tidy(p, table, list, status), ~list[0].active,
           NEW entry, table[0].active, table[0].from = entry.from
    PROVE  /\ find_free_waiting_entity(list) = 0
           /\ Tidy(p, table, [list EXCEPT ![0] = entry], status)
<1> DEFINE S == {i \in 0 .. WaitMax - 1 : ~list[i].active}
           longer == [list EXCEPT ![0] = entry]
<1>1. /\ 0 \in 0 .. WaitMax - 1 /\ 0 \in Entries /\ -1 \in Entries
      /\ \A i \in 1 .. WaitMax - 1 : i \in Entries /\ i # 0
      /\ 0 \in 0 .. MaxConn - 1
  BY TablesAssumption DEF Entries
<1>2. find_free_waiting_entity(list) = 0
  <2>1. 0 \in S /\ S \in SUBSET Nat
    <3>1. S \subseteq 0 .. WaitMax - 1 /\ 0 \in S
      BY <1>1
    <3> HIDE DEF S
    <3> QED
      BY <3>1
  <2>2. First(S) \in S /\ First(S) <= 0
    <3> HIDE DEF S
    <3> QED
      BY <2>1, FirstFinds
  <2>3. First(S) = 0
    <3> DEFINE v == First(S)
    <3>1. v \in Nat /\ v <= 0
      <4> HIDE DEF S
      <4> QED
        BY <2>1, <2>2
    <3> HIDE DEF v
    <3>2. v = 0
      BY <3>1
    <3> QED
      BY <3>2 DEF v
  <2> QED
    BY <2>3 DEF find_free_waiting_entity
<1>3. /\ longer[0] = entry /\ longer[-1] = list[-1]
      /\ \A i \in 1 .. WaitMax - 1 : longer[i] = list[i]
  BY <1>1
<1> HIDE DEF longer
<1>4. Begun(p, status)
  BY <1>1 DEF Tidy
<1>5. Tidy(p, table, longer, status)
  BY <1>3, <1>4 DEF Tidy
<1> QED
  BY <1>2, <1>5 DEF longer

-----------------------------------------------------------------------------
(* The steps of a peer's own thread.                                       *)
LEMMA StillTidy ==
    ASSUME NEW p, request_file(p)' = request_file(p)
    PROVE  /\ \A table, list, status :
                 Tidy(p, table, list, status)' = Tidy(p, table, list, status)
           /\ \A t, table, list, status :
                 Reading(p, t, table, list, status)'
                 = Reading(p, t, table, list, status)
<1>1. \A status : Unasked(p, status)' = Unasked(p, status)
  BY DEF Unasked
<1>2. \A status : Begun(p, status)' = Begun(p, status)
  BY DEF Begun
<1> QED
  BY <1>1, <1>2 DEF Tidy, Reading

LEMMA OrderlinessNext ==
    ASSUME NEW p, request_file(p)' = request_file(p),
           Tidy(p, download'[p], waiting'[p], chunk_status'[p]),
           Reading(p, task'[p], download'[p], waiting'[p], chunk_status'[p])
    PROVE  Orderliness(p)'
<1>1. \A table, list, status :
          Tidy(p, table, list, status)' = Tidy(p, table, list, status)
  BY StillTidy
<1>2. \A t, table, list, status :
          Reading(p, t, table, list, status)' = Reading(p, t, table, list, status)
  BY StillTidy
<1> QED
  BY <1>1, <1>2 DEF Orderliness

(* A thread that leaves its tables alone.                                  *)
LEMMA CalmOrderliness ==
    ASSUME NEW p, Orderliness(p), request_file(p)' = request_file(p),
           download'[p] = download[p], waiting'[p] = waiting[p],
           chunk_status'[p] = chunk_status[p],
           task'[p].doing # "parse" \/ task'[p] = task[p]
    PROVE  Orderliness(p)'
<1>1. Reading(p, task'[p], download[p], waiting[p], chunk_status[p])
  BY DEF Orderliness, Reading
<1> QED
  BY <1>1, OrderlinessNext DEF Orderliness

(* What is known of the tables of a peer.                                  *)
LEMMA TablesNow ==
    ASSUME Known, NEW p \in Peers
    PROVE  /\ download \in [Peers -> [Slots -> Session]]
           /\ waiting \in [Peers -> [Entries -> Waiting \cup {NoWaiting}]]
           /\ chunk_status \in [Peers -> [Lines -> ChunkState]]
           /\ task \in [Peers -> Task] /\ TypeOK
           /\ ListFits(p, waiting[p]) /\ TableFits(p, download[p])
  BY FitsNow DEF Known, IInv, TypeOK, DownloaderTypeOK

LEMMA ParsedTo ==
    ASSUME Known, NEW p \in Peers, Doing(p, "parse"), NEW sent \in BOOLEAN,
           parsed(p, sent)
    PROVE  /\ Len(task[p].left) \in Nat
           /\ \/ task'[p] = Select
              \/ /\ Len(task[p].left) # 1
                 /\ Len(task'[p].left) = Len(task[p].left) - 1
                 /\ task'[p].from = task[p].from /\ task'[p].sent = sent
<1> DEFINE t == task[p]
           left == t.left
<1>1. task \in [Peers -> Task] /\ t \in ParseTask
  BY TablesNow, TaskFields DEF Doing
<1>2. left \in Seq(Chunks) /\ left # <<>>
  BY <1>1 DEF ParseTask
<1>3. task'[p] = IF Len(left) = 1 THEN Select
                 ELSE [t EXCEPT !.left = Tail(left), !.sent = sent]
  BY <1>1 DEF parsed
<1>4. Len(left) \in Nat /\ Len(Tail(left)) = Len(left) - 1
  BY <1>2, HeadTailProperties
<1>5. CASE Len(left) = 1
  BY <1>3, <1>4, <1>5
<1>6. CASE Len(left) # 1
  <2> DEFINE u == [t EXCEPT !.left = Tail(left), !.sent = sent]
  <2>1. u.left = Tail(left) /\ u.sent = sent /\ u.from = t.from
    BY <1>1 DEF ParseTask
  <2> QED
    BY <1>3, <1>4, <1>6, <2>1
<1> QED
  BY <1>5, <1>6

LEMMA SkipOrderly ==
    ASSUME Known, NEW p \in Peers, Orderliness(p), skip_hash(p)
    PROVE  Orderliness(p)'
<1>1. Doing(p, "parse") /\ task[p].sent \in BOOLEAN /\ UNCHANGED client
  BY ParseFields DEF skip_hash, Known
<1>2. \/ task'[p] = Select
      \/ /\ Len(task[p].left) # 1
         /\ Len(task'[p].left) = Len(task[p].left) - 1
         /\ task'[p].sent = task[p].sent
  BY <1>1, ParsedTo DEF skip_hash
<1>3. Len(task[p].left) \in Nat
  BY <1>1, ParsedTo DEF skip_hash
<1>4. Reading(p, task'[p], download[p], waiting[p], chunk_status[p])
  <2>1. Len(task[p].left) <= 2 /\ (task[p].sent => Len(task[p].left) = 1)
    BY <1>1 DEF Orderliness, Reading, Doing
  <2>2. CASE task'[p] = Select
    BY <2>2 DEF Reading, Select
  <2>3. CASE task'[p] # Select
    <3>1. Len(task'[p].left) <= 2 /\ ~task'[p].sent
      BY <1>2, <1>3, <2>1, <2>3
    <3> QED
      BY <3>1 DEF Reading
  <2> QED
    BY <2>2, <2>3
<1> QED
  BY <1>1, <1>4, OrderlinessNext DEF Orderliness, client, request_file

LEMMA FirstOrderly ==
    ASSUME Small, Known, NEW p \in Peers, Orderliness(p), Awake(p),
           get_first_hash(p),
           \A i \in Sessions(p) : download[p][i].from # task[p].from
    PROVE  Orderliness(p)'
<1> DEFINE c == Head(task[p].left)
           rid == search_id_for_hash(p, c)
           q == task[p].from
           later == chunk_status'[p]
           next == with_session(download[p], rid, q)
<1>1. /\ Doing(p, "parse") /\ ~task[p].sent /\ parsed(p, TRUE)
      /\ chunk_status[p][rid].status \notin {1, 2}
      /\ download' = [download EXCEPT ![p] = with_session(@, rid, q)]
      /\ chunk_status' = [chunk_status EXCEPT ![p][rid] = [status |-> 1, hash |-> c]]
      /\ UNCHANGED <<gets, waiting, output>>
  BY WantedUnasked DEF get_first_hash
<1>2. IsLine(p, rid)
  <2>1. c \in Offer(p, q)
    BY <1>1, ParseFits DEF Known
  <2> QED
    BY <2>1, LineOfWish, TablesNow DEF Offer
<1>3. rid \in Lines
  <2>1. \A l \in 0 .. Len(request_file(p)) - 1 : l \in Lines
    BY TablesNow, RequestFileType, RequestFilesAssumption DEF Lines
  <2> QED
    BY <1>2, <2>1 DEF IsLine
<1>4. /\ download \in [Peers -> [Slots -> Session]]
      /\ chunk_status \in [Peers -> [Lines -> ChunkState]]
      /\ TypeOK /\ ListFits(p, waiting[p])
  BY TablesNow
<1>5. download'[p] = next
  BY <1>1, <1>4
<1>6. later[rid].status = 1
      /\ \A l \in Lines : later[l].status \notin {1, 2} => chunk_status[p][l].status \notin {1, 2}
  <2> HIDE DEF rid, c
  <2> QED
    BY <1>1, <1>3, <1>4
<1>7. \A i \in 0 .. MaxConn - 1 : download[p][i].active => download[p][i].from # q
  BY DEF Sessions
<1>8. \/ download[p][0].active
      \/ ~(waiting[p][0].active /\ chunk_status[p][waiting[p][0].rid].status \notin {1, 2})
  <2> SUFFICES ASSUME ~download[p][0].active, Pending(p, 0) PROVE FALSE
    BY DEF Pending, is_asked_for, status_of
  <2>1. Unasked(p, chunk_status[p])
    BY <1>1, <1>2 DEF Unasked, IsLine
  <2>2. \A i \in 1 .. MaxConn - 1 : ~download[p][i].active
    BY <2>1 DEF Orderliness, Tidy
  <2>3. \A i \in 0 .. MaxConn - 1 : i = 0 \/ i \in 1 .. MaxConn - 1
    BY TablesAssumption
  <2>4. Sessions(p) = {}
    BY <2>2, <2>3 DEF Sessions
  <2>5. 0 \in 0 .. WaitMax - 1
    BY TablesAssumption
  <2> QED
    BY <1>1, <2>4, <2>5 DEF Awake, Doing
<1> HIDE DEF rid, c, q, later, next
<1>9. /\ Tidy(p, next, waiting[p], later)
      /\ Unasked(p, later) =>
            ~waiting[p][0].active /\ next[0].active /\ next[0].from = q
  <2>1. Tidy(p, download[p], waiting[p], chunk_status[p])
    BY DEF Orderliness
  <2>2. chunk_status[p][rid].status \notin {1, 2} /\ later[rid].status \in {1, 2}
    BY <1>1, <1>6
  <2>3. download[p] \in [Slots -> Session]
    BY <1>4
  <2> DEFINE table == download[p]
             list == waiting[p]
             status == chunk_status[p]
  <2>4. /\ table \in [Slots -> Session] /\ ListFits(p, list)
        /\ Tidy(p, table, list, status)
        /\ status[rid].status \notin {1, 2} /\ later[rid].status \in {1, 2}
        /\ next = with_session(table, rid, q)
    BY <1>4, <2>1, <2>2, <2>3 DEF next
  <2>5. \A l \in Lines : later[l].status \notin {1, 2} => status[l].status \notin {1, 2}
    BY <1>6
  <2>6. \A i \in 0 .. MaxConn - 1 : table[i].active => table[i].from # q
    BY <1>7
  <2>7. table[0].active \/ ~(list[0].active /\ status[list[0].rid].status \notin {1, 2})
    BY <1>8
  <2> HIDE DEF table, list, status
  <2>8. /\ Tidy(p, next, list, later)
        /\ Unasked(p, later) =>
              ~list[0].active /\ next[0].active /\ next[0].from = q
    <3>1. TypeOK /\ IsLine(p, rid)
      BY <1>2, <1>4
    <3> QED
      BY <2>4, <2>5, <2>6, <2>7, <3>1, FirstTidy
  <2> QED
    BY <2>8 DEF list
<1>10. Reading(p, task'[p], next, waiting[p], later)
  <2>1. /\ Len(task[p].left) \in Nat
        /\ \/ task'[p] = Select
           \/ /\ Len(task[p].left) # 1
              /\ Len(task'[p].left) = Len(task[p].left) - 1
              /\ task'[p].from = q
    BY <1>1, ParsedTo DEF q
  <2>2. Len(task[p].left) <= 2
    BY <1>1 DEF Orderliness, Reading, Doing
  <2>3. CASE task'[p] = Select
    BY <2>3 DEF Reading, Select
  <2>4. CASE task'[p] # Select
    <3>1. task[p].left # <<>> /\ task[p].left \in Seq(Chunks)
      BY <1>1, TablesNow, TaskFields DEF Doing, ParseTask
    <3> DEFINE n == Len(task[p].left)
    <3>2. n \in Nat /\ n # 0 /\ n # 1 /\ n <= 2
      BY <2>1, <2>2, <2>4, <3>1, EmptySeq
    <3> HIDE DEF n
    <3>3. n = 2
      BY <3>2
    <3>4. Len(task[p].left) = 2
      BY <3>3 DEF n
    <3>5. Len(task'[p].left) = 1 /\ task'[p].from = q
      BY <2>1, <2>4, <3>4
    <3> QED
      BY <1>9, <3>5 DEF Reading
  <2> QED
    BY <2>3, <2>4
<1>11. request_file(p)' = request_file(p) /\ waiting'[p] = waiting[p]
  BY <1>1 DEF request_file
<1> QED
  BY <1>5, <1>9, <1>10, <1>11, OrderlinessNext DEF later

LEMMA QueueOrderly ==
    ASSUME Known, NEW p \in Peers, Orderliness(p), queue_hash(p)
    PROVE  Orderliness(p)'
<1> DEFINE c == Head(task[p].left)
           rid == search_id_for_hash(p, c)
           q == task[p].from
           entry == [rid |-> rid, from |-> q, hash |-> c, active |-> TRUE]
           table == download[p]
           list == waiting[p]
           status == chunk_status[p]
<1>1. /\ Doing(p, "parse") /\ task[p].sent /\ parsed(p, TRUE)
      /\ status[rid].status \notin {1, 2}
      /\ waiting' = [waiting EXCEPT ![p][find_free_waiting_entity(list)] = entry]
      /\ UNCHANGED <<gets, download, chunk_status>>
  BY WantedUnasked DEF queue_hash
<1>2. IsLine(p, rid)
  <2>1. c \in Offer(p, q)
    BY <1>1, ParseFits DEF Known
  <2> QED
    BY <2>1, LineOfWish, TablesNow DEF Offer
<1>3. entry.from = q
  OBVIOUS
<1>4. waiting \in [Peers -> [Entries -> Waiting \cup {NoWaiting}]]
      /\ list \in [Entries -> Waiting \cup {NoWaiting}]
  BY TablesNow
<1>5. Tidy(p, table, list, status) /\ Len(task[p].left) = 1
      /\ (Unasked(p, status) =>
             ~list[0].active /\ table[0].active /\ table[0].from = q)
  BY <1>1 DEF Orderliness, Reading, Doing
<1>6. ~list[0].active /\ table[0].active /\ table[0].from = q
  BY <1>1, <1>2, <1>5 DEF Unasked, IsLine
<1>7. waiting'[p] = [list EXCEPT ![find_free_waiting_entity(list)] = entry]
  <2> HIDE DEF entry
  <2> QED
    BY <1>1, <1>4
<1> HIDE DEF entry, table, list, status
<1>8. /\ find_free_waiting_entity(list) = 0
      /\ Tidy(p, table, [list EXCEPT ![0] = entry], status)
  BY <1>3, <1>4, <1>5, <1>6, QueueTidy
<1>9. Tidy(p, download'[p], waiting'[p], chunk_status'[p])
  BY <1>1, <1>7, <1>8 DEF table, status
<1>10. task'[p] = Select
  BY <1>1, <1>5, ParsedTo
<1> QED
  BY <1>1, <1>9, <1>10, OrderlinessNext DEF Reading, Select, request_file

(* The list loses an entry.                                                *)
LEMMA ClearedEntry ==
    ASSUME NEW p \in Peers, NEW a \in Entries,
           waiting \in [Peers -> [Entries -> Waiting \cup {NoWaiting}]],
           waiting' = [waiting EXCEPT ![p][a] = NoWaiting]
    PROVE  /\ ~waiting'[p][a].active
           /\ \A i \in Entries : i # a => waiting'[p][i] = waiting[p][i]
           /\ \A i \in Entries :
                 waiting'[p][i].active => waiting'[p][i] = waiting[p][i]
<1>1. waiting'[p] = [waiting[p] EXCEPT ![a] = NoWaiting] /\ ~NoWaiting.active
  BY DEF NoWaiting
<1>2. waiting'[p][a] = NoWaiting
  BY <1>1
<1> QED
  BY <1>1, <1>2

LEMMA VisitedTo ==
    ASSUME Known, NEW p \in Peers, Doing(p, "scan"), NEW list, visited(p, list)
    PROVE  task'[p].doing # "parse" /\ task[p].at \in Entries
<1> DEFINE t == next_entry(list, task[p].at + 1, task[p].after)
<1>1. /\ task[p].at \in 0 .. WaitMax - 1 /\ task[p].at + 1 \in Nat
      /\ task[p].after \in {Select, Ready}
  BY ScanFields DEF Known
<1>2. t \in {Select, Ready} \cup ScanTask
  BY <1>1, NextEntryType
<1>3. task'[p] = t
  BY TablesNow DEF visited
<1> HIDE DEF t
<1>4. task'[p].doing # "parse"
  BY <1>2, <1>3 DEF Select, Ready, ScanTask
<1>5. task[p].at \in Entries
  BY <1>1, TablesAssumption DEF Entries
<1> QED
  BY <1>4, <1>5

LEMMA DropOrderly ==
    ASSUME Known, NEW p \in Peers, Orderliness(p), drop_entry(p)
    PROVE  Orderliness(p)'
<1>1. task'[p].doing # "parse" /\ task[p].at \in Entries
  BY VisitedTo DEF drop_entry
<1>2. /\ waiting' = [waiting EXCEPT ![p][task[p].at] = NoWaiting]
      /\ UNCHANGED <<gets, chunk_status, download>>
  BY DEF drop_entry
<1>3. \A i \in Entries : waiting'[p][i].active => waiting'[p][i] = waiting[p][i]
  BY <1>1, <1>2, TablesNow, ClearedEntry
<1>4. Tidy(p, download[p], waiting'[p], chunk_status[p])
  BY <1>3, TablesNow, TidyLess DEF Orderliness
<1> QED
  BY <1>1, <1>2, <1>4, OrderlinessNext DEF Reading, request_file

(* No session is open when the scan sends a GET: the one whose entry is 0  *)
(* would be found busy.                                                    *)
LEMMA SendsAlone ==
    ASSUME Known, NEW p \in Peers, Orderliness(p), send_entry(p)
    PROVE  /\ task[p].at = 0 /\ 0 \in Entries /\ ~download[p][0].active
           /\ waiting[p][0].active
           /\ Sessions(p) = {}
           /\ Unasked(p, chunk_status[p]) /\ Begun(p, chunk_status[p])
<1> DEFINE i == task[p].at
           entry == waiting[p][i]
<1>1. /\ Doing(p, "scan") /\ chunk_status[p][entry.rid].status \notin {1, 2}
      /\ FALSE \in busy_flags(p)
  BY DEF send_entry, is_asked_for, status_of
<1>2. i \in 0 .. WaitMax - 1 /\ i \in Entries /\ entry.active
  <2>1. i \in 0 .. WaitMax - 1 /\ entry \in Waiting
    BY <1>1, ScanFields DEF Known
  <2>2. \A k \in 0 .. WaitMax - 1 : k \in Entries
    BY TablesAssumption DEF Entries
  <2> QED
    BY <2>1, <2>2 DEF Waiting
<1>3. Tidy(p, download[p], waiting[p], chunk_status[p])
  BY DEF Orderliness
<1>4. i = 0
  <2>1. \A k \in 1 .. WaitMax - 1 : ~waiting[p][k].active
    BY <1>3 DEF Tidy
  <2>2. i \notin 1 .. WaitMax - 1
    BY <1>2, <2>1
  <2> HIDE DEF i
  <2> QED
    BY <1>2, <2>2, TablesAssumption
<1>5. waiting[p][0].active /\ chunk_status[p][waiting[p][0].rid].status \notin {1, 2}
  BY <1>1, <1>2, <1>4
<1>6. Unasked(p, chunk_status[p]) /\ Begun(p, chunk_status[p])
  <2>1. IsLine(p, waiting[p][0].rid)
    BY <1>2, <1>4, <1>5, TablesNow DEF ListFits
  <2> QED
    BY <1>3, <1>5, <2>1 DEF Tidy, Unasked, IsLine
<1>7. ~download[p][0].active
  <2> SUFFICES ASSUME download[p][0].active PROVE FALSE
    OBVIOUS
  <2>1. download[p][0].from = waiting[p][0].from
    BY <1>3, <1>5 DEF Tidy
  <2>2. 0 \in 0 .. MaxConn - 1 /\ 0 < WaitMax
    BY TablesAssumption
  <2>3. busy_flags(p) = {TRUE}
    BY <2>1, <2>2 DEF busy_flags
  <2> QED
    BY <1>1, <2>3
<1>8. Sessions(p) = {}
  <2>1. \A k \in 1 .. MaxConn - 1 : ~download[p][k].active
    BY <1>3, <1>6 DEF Tidy
  <2>2. \A k \in 0 .. MaxConn - 1 : k = 0 \/ k \in 1 .. MaxConn - 1
    BY TablesAssumption
  <2> QED
    BY <1>7, <2>1, <2>2 DEF Sessions
<1> QED
  BY <1>2, <1>4, <1>5, <1>6, <1>7, <1>8

LEMMA SendOrderly ==
    ASSUME Small, Known, NEW p \in Peers, Orderliness(p), send_entry(p)
    PROVE  Orderliness(p)'
<1>1. /\ task[p].at = 0 /\ 0 \in Entries /\ ~download[p][0].active
      /\ Unasked(p, chunk_status[p]) /\ Begun(p, chunk_status[p])
  BY SendsAlone
<1>2. Tidy(p, download[p], waiting[p], chunk_status[p])
  BY DEF Orderliness
<1>3. /\ waiting' = [waiting EXCEPT ![p][0] = NoWaiting]
      /\ UNCHANGED <<gets, chunk_status>>
  BY <1>1 DEF send_entry
<1>4. PICK rid, q : download' = [download EXCEPT ![p] = with_session(@, rid, q)]
  BY DEF send_entry
<1>5. task'[p].doing # "parse"
  BY VisitedTo DEF send_entry
<1>6. /\ ~waiting'[p][0].active
      /\ \A i \in Entries : i # 0 => waiting'[p][i] = waiting[p][i]
  BY <1>1, <1>3, TablesNow, ClearedEntry
<1>7. ~waiting'[p][-1].active /\ \A i \in 0 .. WaitMax - 1 : ~waiting'[p][i].active
  <2>1. -1 \in Entries /\ -1 # 0
    BY TablesAssumption DEF Entries
  <2>2. \A i \in 0 .. WaitMax - 1 : i \in Entries /\ (i = 0 \/ i \in 1 .. WaitMax - 1)
    BY TablesAssumption DEF Entries
  <2> QED
    BY <1>2, <1>6, <2>1, <2>2 DEF Tidy
<1>8. download[p] \in [Slots -> Session]
      /\ download'[p] = with_session(download[p], rid, q)
  BY <1>4, TablesNow
<1> DEFINE shorter == waiting'[p]
           status == chunk_status[p]
           list == waiting[p]
           table == download[p]
<1> HIDE DEF shorter, status, list, table
<1>9. Tidy(p, with_session(table, rid, q), shorter, status)
  <2>1. /\ ~shorter[-1].active /\ \A i \in 0 .. WaitMax - 1 : ~shorter[i].active
        /\ Tidy(p, table, list, status) /\ table \in [Slots -> Session]
        /\ Unasked(p, status) /\ Begun(p, status) /\ ~table[0].active
    BY <1>1, <1>2, <1>7, <1>8 DEF shorter, status, list, table
  <2> QED
    BY <2>1, EntryTidy
<1>10. Tidy(p, download'[p], waiting'[p], chunk_status'[p])
  BY <1>3, <1>8, <1>9 DEF shorter, status, table
<1> QED
  BY <1>3, <1>5, <1>10, OrderlinessNext DEF Reading, request_file

(* A block changes no more of a session than how far it is, or ends it.    *)
LEMMA AcceptKeeps ==
    ASSUME Known, NEW p \in Peers, NEW q \in Peers, NEW m, accept_DATA(p, q, m)
    PROVE  /\ UNCHANGED <<gets, waiting>>
           /\ \A i \in Slots : download'[p][i].active =>
                 /\ download[p][i].active
                 /\ download'[p][i].from = download[p][i].from
                 /\ download'[p][i].rid = download[p][i].rid
<1> DEFINE k == session_from(p, q)
           s == download[p][k]
           grown == [s EXCEPT !.pos = @ + 1, !.seq = @ + 1]
<1>1. k \in Slots
  <2>1. k \in 0 .. MaxConn - 1 \/ k = -1
    BY FirstIsIndex DEF session_from
  <2> QED
    BY <2>1, TablesAssumption DEF Slots
<1>2. /\ download \in [Peers -> [Slots -> Session]] /\ s \in Session
      /\ UNCHANGED <<gets, waiting>>
      /\ \/ download' = [download EXCEPT ![p][k] = grown]
         \/ download' = [download EXCEPT ![p][k] = NoSession]
  BY <1>1, KnownTypes DEF accept_DATA
<1>3. grown.active = s.active /\ grown.from = s.from /\ grown.rid = s.rid
  <2> HIDE DEF s
  <2> QED
    BY <1>2 DEF Session
<1> HIDE DEF grown, k
<1>4. ASSUME NEW e, download' = [download EXCEPT ![p][k] = e],
             e = grown \/ e = NoSession, NEW i \in Slots, download'[p][i].active
      PROVE  /\ download[p][i].active
             /\ download'[p][i].from = download[p][i].from
             /\ download'[p][i].rid = download[p][i].rid
  <2>1. download'[p] = [download[p] EXCEPT ![k] = e]
    BY <1>2, <1>4
  <2>2. CASE i = k
    <3>1. download'[p][i] = e
      BY <1>2, <2>1, <2>2
    <3>2. e = grown
      BY <1>4, <3>1 DEF NoSession
    <3> QED
      BY <1>3, <1>4, <2>2, <3>1, <3>2
  <2>3. CASE i # k
    BY <1>2, <1>4, <2>1, <2>3
  <2> QED
    BY <2>2, <2>3
<1> QED
  BY <1>2, <1>4

(* Blocks change no more of a session than how far it is, and the last one *)
(* leaves its line at status 2.                                            *)
LEMMA AcceptLess ==
    ASSUME Plain, Known, PairInv, AllStored, OneSessionPerPeer,
           NEW p \in Peers, NEW q \in Peers,
           Arrived(q, p, "DATA"), accept_DATA(p, q, Head(net[q][p]))
    PROVE  /\ UNCHANGED <<gets, waiting>>
           /\ \A i \in Slots : download'[p][i].active =>
                 download[p][i].active /\ download'[p][i].from = download[p][i].from
           /\ \A l \in Lines :
                 chunk_status'[p][l].status \notin {1, 2} => chunk_status[p][l].status \notin {1, 2}
<1> DEFINE k == session_from(p, q)
           s == download[p][k]
<1>1. /\ k \in 0 .. MaxConn - 1 /\ s.active /\ s.rid \in 0 .. MaxLines - 1
      /\ UNCHANGED <<gets, waiting>>
      /\ \/ UNCHANGED chunk_status
         \/ chunk_status' = [chunk_status EXCEPT ![p][s.rid].status = 2]
  <2>1. SlotBeyond /\ BlocksInPlace
    BY StoredIs
  <2> QED
    BY <2>1, AcceptStores
<1>2. /\ download \in [Peers -> [Slots -> Session]] /\ k \in Slots /\ s \in Session
      /\ chunk_status \in [Peers -> [Lines -> ChunkState]] /\ s.rid \in Lines
  <2>1. k \in Slots
    BY <1>1, TablesAssumption DEF Slots
  <2>2. s.rid \in Lines
    BY <1>1, RequestFilesAssumption DEF Lines
  <2> QED
    BY <2>1, <2>2, TablesNow
<1> HIDE DEF k
<1>3. \A l \in Lines :
          chunk_status'[p][l].status \notin {1, 2} => chunk_status[p][l].status \notin {1, 2}
  <2> DEFINE rid == s.rid
  <2>1. CASE UNCHANGED chunk_status
    BY <2>1
  <2>2. CASE chunk_status' = [chunk_status EXCEPT ![p][s.rid].status = 2]
    <3>1. /\ rid \in Lines
          /\ chunk_status'[p] = [chunk_status[p] EXCEPT ![rid].status = 2]
      BY <1>2, <2>2
    <3> HIDE DEF rid
    <3>2. /\ chunk_status'[p][rid].status = 2
          /\ \A l \in Lines : l # rid => chunk_status'[p][l] = chunk_status[p][l]
      BY <1>2, <3>1 DEF ChunkState, Status
    <3> QED
      BY <3>2
  <2> QED
    BY <1>1, <2>1, <2>2
<1> QED
  BY <1>3, AcceptKeeps

LEMMA AcceptOrderly ==
    ASSUME Plain, Known, PairInv, AllStored, OneSessionPerPeer,
           NEW p \in Peers, NEW q \in Peers, Orderliness(p),
           Arrived(q, p, "DATA"), accept_DATA(p, q, Head(net[q][p]))
    PROVE  Orderliness(p)'
<1>1. /\ UNCHANGED <<gets, waiting>>
      /\ \A i \in Slots : download'[p][i].active =>
            download[p][i].active /\ download'[p][i].from = download[p][i].from
      /\ \A l \in Lines :
            chunk_status'[p][l].status \notin {1, 2} => chunk_status[p][l].status \notin {1, 2}
  BY AcceptLess
<1>2. Tidy(p, download'[p], waiting[p], chunk_status'[p])
  BY <1>1, TablesNow, TidyLess DEF Orderliness
<1>3. task'[p].doing # "parse"
  <2>1. \A table : scan(table, waiting[p], Select) \in {Select} \cup ScanTask
    BY ScanType
  <2>2. \/ task' = [task EXCEPT ![p] = scan(download'[p], waiting[p], Select)]
        \/ task' = [task EXCEPT ![p] = Select]
    BY DEF accept_DATA, Return
  <2>3. task'[p] \in {Select} \cup ScanTask
    BY <2>1, <2>2, TablesNow
  <2> QED
    BY <2>3 DEF Select, ScanTask
<1> QED
  BY <1>1, <1>2, <1>3, OrderlinessNext DEF Reading, request_file

LEMMA IhaveOrderly ==
    ASSUME Small, Known, AllDistinct, NEW p \in Peers, NEW q \in Peers, Orderliness(p),
           Arrived(q, p, "IHAVE"), deal_with_IHAVE(p, q, Head(net[q][p]))
    PROVE  Orderliness(p)'
<1> DEFINE m == Head(net[q][p])
           read == HashesRead(m)
<1>1. /\ net[q][p] \in Seq(Packet) /\ net[q][p] # <<>> /\ m.type = "IHAVE"
      /\ m \in Packet
  BY KnownTypes, ArrivedFits DEF Arrived
<1>2. m = net[q][p][1] /\ 1 \in 1 .. Len(net[q][p])
  BY <1>1, EmptySeq
<1>3. Len(m.hashes) <= 2 /\ m.hashes \in Seq(Chunks)
  <2> DEFINE seq == m.hashes
  <2>1. seq \in Seq(Chunks) /\ AllDiffer(seq)
    BY <1>1, <1>2, PacketFields DEF AllDistinct, Distinct
  <2>2. Hashes(seq) \subseteq Wishes(p) /\ TypeOK
    BY <1>1, ArrivedFits DEF Fits, Offer, Known, IInv
  <2> HIDE DEF seq
  <2>3. Len(seq) <= 2
    BY <2>1, <2>2, FewChunks
  <2> QED
    BY <2>1, <2>3 DEF seq
<1>4. Len(read) <= 2
  <2>1. Len(m.hashes) \in Nat
    BY <1>3
  <2>2. ParsedCount(Len(m.hashes)) \in 0 .. Len(m.hashes)
    BY <2>1, ParsedCountBound
  <2>3. Len(read) = ParsedCount(Len(m.hashes))
    BY <1>3, <2>1, <2>2, SubSeqProperties DEF HashesRead
  <2> HIDE DEF read, m
  <2> QED
    BY <1>3, <2>1, <2>2, <2>3
<1>5. /\ task'[p] \in {Select, [doing |-> "parse", from |-> q, left |-> read,
                                sent |-> FALSE]}
      /\ UNCHANGED client
  BY TablesNow DEF deal_with_IHAVE
<1> HIDE DEF read
<1>6. Reading(p, task'[p], download[p], waiting[p], chunk_status[p])
  BY <1>4, <1>5 DEF Reading, Select
<1> QED
  BY <1>5, <1>6, OrderlinessNext DEF Orderliness, client, request_file

LEMMA EmptyTidy ==
    ASSUME NEW p, NEW table, NEW list, NEW status,
           ~table[-1].active, ~list[-1].active,
           \A i \in 0 .. MaxConn - 1 : ~table[i].active,
           \A i \in 0 .. WaitMax - 1 : ~list[i].active
    PROVE  Tidy(p, table, list, status) /\ Tidy(p, table, list, status)'
<1>1. 0 \in 0 .. WaitMax - 1 /\ 0 \in 0 .. MaxConn - 1
  BY TablesAssumption
<1>2. /\ \A i \in 1 .. MaxConn - 1 : i \in 0 .. MaxConn - 1
      /\ \A i \in 1 .. WaitMax - 1 : i \in 0 .. WaitMax - 1
  BY TablesAssumption
<1> QED
  BY <1>1, <1>2 DEF Tidy

LEMMA UserInputOrderly ==
    ASSUME OneGet, Known, NEW p \in Peers, Orderliness(p), handle_user_input(p)
    PROVE  Orderliness(p)'
<1>1. request_file(p) = <<>>
  BY FirstGet DEF Known
<1>2. \A l : ~IsLine(p, l)
  BY <1>1, EmptySeq DEF IsLine
<1>3. /\ \A i \in 0 .. MaxConn - 1 : ~download[p][i].active
      /\ \A i \in Entries : ~waiting[p][i].active
  BY <1>2, TablesNow DEF TableFits, ListFits
<1>4. ~download[p][-1].active /\ ~waiting[p][-1].active
  BY DEF Orderliness, Tidy
<1>5. UNCHANGED <<download, waiting>> /\ task'[p] = Select
  BY TablesNow DEF handle_user_input, process_get, Return
<1>6. \A i \in 0 .. WaitMax - 1 : i \in Entries
  BY TablesAssumption DEF Entries
<1> SUFFICES ASSUME NEW t, NEW table, NEW list, NEW status,
                    t = task'[p], table = download'[p], list = waiting'[p],
                    status = chunk_status'[p]
             PROVE  Tidy(p, table, list, status)' /\ Reading(p, t, table, list, status)'
  BY DEF Orderliness
<1>7. Tidy(p, table, list, status)'
  BY <1>3, <1>4, <1>5, <1>6, EmptyTidy
<1>8. Reading(p, t, table, list, status)'
  BY <1>5 DEF Reading, Select
<1> QED
  BY <1>7, <1>8

LEMMA OrderlyIs ==
    /\ (\A p \in Peers : Orderliness(p)) => Orderly
    /\ (\A p \in Peers : Orderliness(p)') => Orderly'
<1>1. (\A p \in Peers : Orderliness(p)) => Orderly
  BY
  DEF Orderliness, Tidy, Orderly, OneSessionPerPeer, TablesSuffice, Sessions
<1>2. (\A p \in Peers : Orderliness(p)') => Orderly'
  BY
  DEF Orderliness, Tidy, Orderly, OneSessionPerPeer, TablesSuffice, Sessions
<1> QED
  BY <1>1, <1>2

(* A provider is asked for its first chunk before any other session with   *)
(* it is opened.                                                           *)
LEMMA FirstIsFirst ==
    ASSUME Known, AskingInv, NEW p \in Peers, get_first_hash(p)
    PROVE  /\ task[p].from \in Peers \ {p} /\ Hearing(p, task[p].from)
           /\ ~Engaged(p, task[p].from)
           /\ \A i \in Sessions(p) : download[p][i].from # task[p].from
<1>1. Hearing(p, task[p].from) /\ Doing(p, "parse")
  BY DEF get_first_hash, Hearing
<1>2. task[p].from \in Peers /\ task[p].from # p
  BY <1>1, ParseFields, ParseFits DEF Known, get_first_hash, Offer
<1>3. PICK stage \in Stages : At(p, task[p].from, stage)
  BY <1>2 DEF AskingInv, Once
<1>4. ~Engaged(p, task[p].from)
  BY <1>1, <1>3 DEF At
<1> QED
  BY <1>1, <1>2, <1>4 DEF Engaged

(* The thread of p makes a step.                                           *)
Acts(p) ==
    \/ wake(p) \/ other_input(p) \/ work(p) \/ handle_user_input(p)
    \/ timer(p) \/ \E q \in Peers : process_inbound_udp(p, q)

LEMMA OwnOrderly ==
    ASSUME Small, Known, AllAwake, PairInv, AllStored, SmallInv,
           NEW p \in Peers, Acts(p)
    PROVE  Orderliness(p)'
<1>1. /\ Orderliness(p) /\ Awake(p) /\ AskingInv /\ AllDistinct
      /\ Plain /\ OneGet /\ OneSessionPerPeer
  BY OrderlyIs DEF SmallInv, AskingInv, AllAwake, Small, Plain, Orderly
<1>2. task \in [Peers -> Task]
  BY TablesNow
<1>3. ASSUME UNCHANGED client, task'[p].doing # "parse" PROVE Orderliness(p)'
  BY <1>1, <1>3, CalmOrderliness DEF client, request_file
<1>4. CASE wake(p)
  <2>1. task'[p] \in {Ready} \cup ScanTask
    BY <1>2, <1>4, ScanType DEF wake, scan_first
  <2> QED
    BY <1>3, <1>4, <2>1 DEF wake, Ready, ScanTask
<1>5. CASE other_input(p) \/ timer(p)
  BY <1>2, <1>3, <1>5 DEF other_input, timer, retransmit, Return, Select
<1>6. CASE handle_user_input(p)
  BY <1>1, <1>6, UserInputOrderly
<1>7. CASE work(p)
  <2>1. CASE answer_line(p) /\ UNCHANGED client
    <3>1. task[p].doing = "answer" /\ task[p] \in AnswerTask
      BY <1>2, <2>1, TaskFields DEF answer_line, Doing
    <3>2. task'[p].doing = "answer"
      BY <1>2, <2>1, <3>1 DEF answer_line, AnswerTask
    <3> QED
      BY <1>3, <2>1, <3>2
  <2>2. CASE send_IHAVE(p) /\ UNCHANGED client
    BY <1>2, <1>3, <2>2 DEF send_IHAVE, Return, Select
  <2>3. CASE get_first_hash(p)
    BY <1>1, <2>3, FirstIsFirst, FirstOrderly
  <2>4. CASE keep_entry(p)
    BY <1>3, <2>4, VisitedTo DEF keep_entry
  <2> QED
    BY <1>1, <1>7, <2>1, <2>2, <2>3, <2>4, SkipOrderly, QueueOrderly,
       DropOrderly, SendOrderly DEF work
<1>8. ASSUME NEW q \in Peers, process_inbound_udp(p, q)
      PROVE  Orderliness(p)'
  <2> DEFINE m == Head(net[q][p])
  <2>1. CASE \/ deal_with_WHOHAS(p, q, m) /\ UNCHANGED client
             \/ deal_with_GET(p, q, m) /\ UNCHANGED client
             \/ deal_with_ACK(p, q, m) /\ UNCHANGED client
             \/ ignore_DATA(p, q, m)
    <3>1. UNCHANGED client
      BY <2>1 DEF ignore_DATA
    <3>2. task'[p].doing # "parse"
      BY <1>2, <2>1
      DEF deal_with_WHOHAS, deal_with_GET, deal_with_ACK, ignore_DATA, Return,
          Select
    <3> QED
      BY <1>3, <3>1, <3>2
  <2>2. CASE Arrived(q, p, "IHAVE") /\ deal_with_IHAVE(p, q, m)
    BY <1>1, <2>2, IhaveOrderly
  <2>3. CASE Arrived(q, p, "DATA") /\ accept_DATA(p, q, m)
    BY <1>1, <2>3, AcceptOrderly
  <2> QED
    BY <1>8, <2>1, <2>2, <2>3 DEF process_inbound_udp, deal_with_DATA
<1> QED
  BY <1>4, <1>5, <1>6, <1>7, <1>8 DEF Acts

(* A thread changes the request file of its own user only.                 *)
LEMMA OthersFiles ==
    ASSUME OneGet, Known, NEW p \in Peers, Acts(p)
    PROVE  /\ \A r \in Peers : r # p => request_file(r)' = request_file(r)
           /\ \A r \in Peers : gets'[r] = 0 => gets[r] = 0
<1>1. CASE handle_user_input(p)
  <2>1. gets' = [gets EXCEPT ![p] = 1] /\ gets \in [Peers -> Nat]
    BY <1>1, FirstGet DEF Known, IInv, TypeOK, DownloaderTypeOK
  <2>2. \A r \in Peers : gets'[r] = 0 => gets[r] = 0
    BY <2>1
  <2> QED
    BY <1>1, <2>2, FirstGet DEF Known
<1>2. CASE UNCHANGED gets
  BY <1>2 DEF request_file
<1> QED
  BY <1>1, <1>2
  DEF wake, other_input, work, timer, process_inbound_udp, client, answer_line,
      send_IHAVE, skip_hash, get_first_hash, queue_hash, drop_entry, keep_entry,
      send_entry, deal_with_IHAVE, deal_with_DATA, ignore_DATA, accept_DATA,
      Acts

LEMMA NextOrderly ==
    ASSUME Small, Known, AllAwake, PairInv, AllStored, SmallInv, [Next]_vars
    PROVE  \A r \in Peers : Orderliness(r)'
<1>1. SUFFICES ASSUME NEW r \in Peers PROVE Orderliness(r)'
  OBVIOUS
<1>2. Orderliness(r) /\ OneGet
  BY DEF SmallInv, Small, Plain
<1>3. ASSUME NEW p \in Peers, Acts(p)
      PROVE  Orderliness(r)'
  <2>1. CASE r = p
    BY <1>3, <2>1, OwnOrderly
  <2>2. CASE r # p
    <3>1. OthersSame(p)
      BY <1>3, OneActs DEF Known, Acts
    <3>2. request_file(r)' = request_file(r)
      BY <1>2, <1>3, <2>2, OthersFiles
    <3> QED
      BY <1>2, <2>2, <3>1, <3>2, CalmOrderliness DEF OthersSame
  <2> QED
    BY <2>1, <2>2
<1>4. CASE UNCHANGED <<task, client>>
  BY <1>2, <1>4, CalmOrderliness DEF client, request_file
<1> QED
  BY <1>3, <1>4 DEF Next, vars, disturb, Acts

-----------------------------------------------------------------------------
(* Asking once.                                                            *)

(* The second of two queues has no question or answer the first had not.   *)
Fewer(type, queue, later) ==
    /\ Holds(later, type) => Holds(queue, type)
    /\ OnlyOne(queue, type) => OnlyOne(later, type)

Calmer(queue, later) ==
    /\ Fewer("WHOHAS", queue, later) /\ Fewer("IHAVE", queue, later)
    /\ Distinct(queue) => Distinct(later)

AllCalmer(n, later) == \A a, b \in Peers : Calmer(n[a][b], later[a][b])

LEMMA FewerEnQ ==
    ASSUME NEW S, NEW queue \in Seq(S), NEW m \in S, NEW type
    PROVE  /\ m.type # type => Fewer(type, queue, enQ(queue, m))
           /\ ~Holds(queue, type) => OnlyOne(enQ(queue, m), type)
           /\ (m.type = "IHAVE" => AllDiffer(m.hashes)) /\ Distinct(queue) =>
                 Distinct(enQ(queue, m))
<1> DEFINE longer == Append(queue, m)
<1>1. /\ Len(queue) \in Nat /\ Len(longer) = Len(queue) + 1
      /\ longer[Len(queue) + 1] = m
      /\ \A i \in 1 .. Len(queue) : longer[i] = queue[i]
  BY AppendProperties
<1> HIDE DEF longer
<1>2. \A i \in 1 .. Len(longer) : i \in 1 .. Len(queue) \/ i = Len(queue) + 1
  BY <1>1
<1>3. m.type # type => Fewer(type, queue, longer)
  BY <1>1, <1>2 DEF Fewer, Holds, OnlyOne
<1>4. ~Holds(queue, type) => OnlyOne(longer, type)
  BY <1>1, <1>2 DEF Holds, OnlyOne
<1>5. (m.type = "IHAVE" => AllDiffer(m.hashes)) /\ Distinct(queue) =>
          Distinct(longer)
  BY <1>1, <1>2 DEF Distinct
<1>6. Fewer(type, queue, queue) /\ (~Holds(queue, type) => OnlyOne(queue, type))
  BY DEF Fewer, Holds, OnlyOne
<1> QED
  BY <1>3, <1>4, <1>5, <1>6 DEF enQ, longer

LEMMA FewerTail ==
    ASSUME NEW S, NEW queue \in Seq(S), queue # <<>>, NEW type
    PROVE  /\ Fewer(type, queue, Tail(queue))
           /\ Distinct(queue) => Distinct(Tail(queue))
           /\ Head(queue).type = type =>
                 /\ Holds(queue, type)
                 /\ OnlyOne(queue, type) => ~Holds(Tail(queue), type)
<1>1. Len(queue) \in Nat /\ Len(queue) # 0 /\ Head(queue) = queue[1]
  BY EmptySeq
<1>2. /\ Len(Tail(queue)) = Len(queue) - 1
      /\ \A i \in 1 .. Len(Tail(queue)) : Tail(queue)[i] = queue[i + 1]
  BY HeadTailProperties
<1>3. \A i \in 1 .. Len(Tail(queue)) : i + 1 \in 1 .. Len(queue) /\ i + 1 # 1
  BY <1>1, <1>2
<1>4. 1 \in 1 .. Len(queue)
  BY <1>1
<1>5. Fewer(type, queue, Tail(queue))
  <2>1. Holds(Tail(queue), type) => Holds(queue, type)
    BY <1>2, <1>3 DEF Holds
  <2>2. ASSUME OnlyOne(queue, type),
               NEW i \in 1 .. Len(Tail(queue)), NEW j \in 1 .. Len(Tail(queue)),
               Tail(queue)[i].type = type, Tail(queue)[j].type = type
        PROVE  i = j
    <3>1. i + 1 = j + 1
      BY <1>2, <1>3, <2>2 DEF OnlyOne
    <3> QED
      BY <3>1
  <2> QED
    BY <2>1, <2>2 DEF Fewer, OnlyOne
<1>6. Distinct(queue) => Distinct(Tail(queue))
  BY <1>2, <1>3 DEF Distinct
<1>7. Head(queue).type = type =>
          /\ Holds(queue, type)
          /\ OnlyOne(queue, type) => ~Holds(Tail(queue), type)
  BY <1>1, <1>2, <1>3, <1>4 DEF Holds, OnlyOne
<1> QED
  BY <1>5, <1>6, <1>7

LEMMA FewerCopied ==
    ASSUME NEW S, NEW queue \in Seq(S), queue # <<>>, NEW n \in Nat, NEW type,
           Head(queue).type # type
    PROVE  /\ Fewer(type, queue, Copied(queue, n))
           /\ Distinct(queue) => Distinct(Copied(queue, n))
<1> DEFINE longer == Copied(queue, n)
<1>1. Len(queue) \in Nat /\ Len(queue) # 0 /\ Head(queue) = queue[1]
  BY EmptySeq
<1>2. /\ Len(longer) = n + Len(queue)
      /\ \A i \in 1 .. Len(longer) :
            longer[i] = IF i <= n THEN queue[1] ELSE queue[i - n]
  BY CopiedIs
<1> HIDE DEF longer
<1>3. \A i \in 1 .. Len(longer) : longer[i].type = type =>
          i - n \in 1 .. Len(queue) /\ longer[i] = queue[i - n]
  BY <1>1, <1>2
<1>4. Fewer(type, queue, longer)
  <2>1. Holds(longer, type) => Holds(queue, type)
    BY <1>3 DEF Holds
  <2>2. ASSUME OnlyOne(queue, type),
               NEW i \in 1 .. Len(longer), NEW j \in 1 .. Len(longer),
               longer[i].type = type, longer[j].type = type
        PROVE  i = j
    <3>1. i - n = j - n
      BY <1>3, <2>2 DEF OnlyOne
    <3> QED
      BY <3>1
  <2> QED
    BY <2>1, <2>2 DEF Fewer, OnlyOne
<1>5. ASSUME Distinct(queue), NEW i \in 1 .. Len(longer)
      PROVE  longer[i].type = "IHAVE" => AllDiffer(longer[i].hashes)
  <2>1. \E j \in 1 .. Len(queue) : longer[i] = queue[j]
    <3>1. CASE i <= n
      BY <1>1, <1>2, <3>1
    <3>2. CASE ~(i <= n)
      <4>1. i - n \in 1 .. Len(queue)
        BY <1>1, <1>2, <3>2
      <4> QED
        BY <1>2, <3>2, <4>1
    <3> QED
      BY <3>1, <3>2
  <2> QED
    BY <1>5, <2>1 DEF Distinct
<1> QED
  BY <1>4, <1>5 DEF Distinct, longer

LEMMA CalmerSame ==
    /\ \A queue : Calmer(queue, queue)
    /\ \A n : AllCalmer(n, n)
  BY DEF Calmer, Fewer, AllCalmer

LEMMA CalmerTwice ==
    ASSUME NEW n1, NEW n2, NEW n3, AllCalmer(n1, n2), AllCalmer(n2, n3)
    PROVE  AllCalmer(n1, n3)
  BY DEF AllCalmer, Calmer, Fewer

LEMMA CalmerSent ==
    ASSUME NEW n \in Paths, NEW p \in Peers, NEW q \in Peers, NEW m,
           m.type \notin {"WHOHAS", "IHAVE"}
    PROVE  AllCalmer(n, Sent(n, p, q, m))
<1>1. n[p][q] \in Seq(Packet)
  BY DEF Paths
<1>2. n[p][q] \in Seq(Packet \cup {m})
  BY <1>1
<1>3. Calmer(n[p][q], enQ(n[p][q], m))
  BY <1>2, FewerEnQ DEF Calmer
<1>4. ASSUME NEW a \in Peers, NEW b \in Peers
      PROVE  Calmer(n[a][b], Sent(n, p, q, m)[a][b])
  <2>1. CASE a = p /\ b = q
    BY <1>3, <2>1, SentAt
  <2>2. CASE ~(a = p /\ b = q)
    BY <2>2, SentAt, CalmerSame
  <2> QED
    BY <2>1, <2>2
<1> QED
  BY <1>4 DEF AllCalmer

LEMMA CalmerTaken ==
    ASSUME NEW n \in Paths, NEW p \in Peers, NEW q \in Peers, n[p][q] # <<>>
    PROVE  AllCalmer(n, Taken(n, p, q)) /\ Taken(n, p, q) \in Paths
<1>1. Calmer(n[p][q], Tail(n[p][q]))
  <2>1. n[p][q] \in Seq(Packet)
    BY DEF Paths
  <2> QED
    BY <2>1, FewerTail DEF Calmer
<1>2. ASSUME NEW a \in Peers, NEW b \in Peers
      PROVE  Calmer(n[a][b], Taken(n, p, q)[a][b])
  <2>1. CASE a = p /\ b = q
    BY <1>1, <2>1, TakenAt
  <2>2. CASE ~(a = p /\ b = q)
    BY <2>2, TakenAt, CalmerSame
  <2> QED
    BY <2>1, <2>2
<1> QED
  BY <1>2, TakenType DEF AllCalmer

LEMMA CalmerDisturbed ==
    ASSUME Known, NEW p \in Peers, NEW q \in Peers, disturb(p, q)
    PROVE  AllCalmer(net, net')
<1>1. net \in Paths /\ net[p][q] \in Seq(Packet)
  BY KnownTypes
<1>2. /\ net[p][q] # <<>>
      /\ Duplicate(p, q) => Head(net[p][q]).type \notin {"WHOHAS", "IHAVE"}
  BY DEF disturb, Lose, CrowdOut, Duplicate, Unreliable, Arrived
<1>3. CASE Lose(p, q) \/ CrowdOut(p, q)
  BY <1>1, <1>2, <1>3, CalmerTaken DEF Lose, CrowdOut
<1>4. CASE Duplicate(p, q)
  <2>1. net' = [net EXCEPT ![p][q] = Copied(net[p][q], Dups)]
    BY <1>1, <1>4 DEF Duplicate, Copied, Paths
  <2>2. Calmer(net[p][q], Copied(net[p][q], Dups))
    BY <1>1, <1>2, <1>4, LossAssumption, FewerCopied DEF Calmer
  <2>3. \A a, b \in Peers : net'[a][b] =
            IF a = p /\ b = q THEN Copied(net[p][q], Dups) ELSE net[a][b]
    BY <1>1, <2>1 DEF Paths
  <2> QED
    BY <2>2, <2>3, CalmerSame DEF AllCalmer
<1> QED
  BY <1>3, <1>4 DEF disturb

-----------------------------------------------------------------------------
(* What a step of p does to the stages of its pairs.                       *)
LEMMA OnceStays ==
    ASSUME NEW a \in Peers, NEW b \in Peers, Once(a, b),
           gets'[a] = 0 => gets[a] = 0,
           Fewer("WHOHAS", net[a][b], net'[a][b]),
           Fewer("IHAVE", net[b][a], net'[b][a]),
           Answering(a, b)' => Answering(a, b), Hearing(a, b)' => Hearing(a, b),
           Engaged(a, b)' => Engaged(a, b)
    PROVE  Once(a, b)'
<1>1. PICK stage \in Stages : At(a, b, stage)
  BY DEF Once
<1>2. Asked(a, b)' => Asked(a, b)
  BY DEF Fewer, Asked, Holds
<1>3. Offered(a, b)' => Offered(a, b)
  BY DEF Fewer, Offered, Holds
<1>4. At(a, b, stage)'
  BY <1>1, <1>2, <1>3 DEF At
<1>5. OnlyOne(net[a][b], "WHOHAS")' /\ OnlyOne(net[b][a], "IHAVE")'
  BY DEF Fewer, OnlyOne, Once
<1> QED
  BY <1>4, <1>5 DEF Once, Stages

(* A pair none of whose stages is left but one.                            *)
LEMMA OnceMoves ==
    ASSUME NEW a \in Peers, NEW b \in Peers, NEW stage \in Stages,
           gets'[a] # 0,
           Asked(a, b)' => stage = "asked",
           Answering(a, b)' => stage = "answering",
           Offered(a, b)' => stage = "offered",
           Hearing(a, b)' => stage = "hearing",
           Engaged(a, b)' => stage = "engaged",
           OnlyOne(net'[a][b], "WHOHAS"), OnlyOne(net'[b][a], "IHAVE")
    PROVE  Once(a, b)'
<1>1. At(a, b, stage)'
  BY DEF At
<1>2. OnlyOne(net[a][b], "WHOHAS")' /\ OnlyOne(net[b][a], "IHAVE")'
  BY DEF OnlyOne
<1> QED
  BY <1>1, <1>2 DEF Once, Stages

LEMMA HearingOwn ==
    ASSUME Known, NEW p \in Peers, Acts(p), NEW q \in Peers, Hearing(p, q)'
    PROVE  \/ Hearing(p, q) /\ ~get_first_hash(p)
           \/ Arrived(q, p, "IHAVE") /\ deal_with_IHAVE(p, q, Head(net[q][p]))
<1>1. /\ task \in [Peers -> Task]
      /\ task'[p].doing = "parse" /\ task'[p].from = q /\ ~task'[p].sent
  BY TablesNow DEF Hearing, Doing
<1>2. Select.doing # "parse" /\ Ready.doing # "parse"
  BY DEF Select, Ready
<1>3. ASSUME Return(p) PROVE FALSE
  BY <1>1, <1>2, <1>3 DEF Return
<1>4. ASSUME UNCHANGED task PROVE Hearing(p, q)
  BY <1>1, <1>4 DEF Hearing, Doing
<1>5. CASE wake(p)
  <2>1. task'[p] \in {Ready} \cup ScanTask
    BY <1>1, <1>5, ScanType DEF wake, scan_first
  <2> QED
    BY <1>1, <1>2, <2>1 DEF ScanTask
<1>6. CASE other_input(p) \/ handle_user_input(p) \/ timer(p)
  BY <1>3, <1>6
  DEF other_input, handle_user_input, timer, process_get, retransmit
<1>7. CASE work(p)
  <2>1. ASSUME answer_line(p) PROVE FALSE
    <3>1. task[p].doing = "answer" /\ task[p] \in AnswerTask
      BY <1>1, <2>1, TaskFields DEF answer_line, Doing
    <3>2. task'[p].doing = "answer"
      BY <1>1, <2>1, <3>1 DEF answer_line, AnswerTask
    <3> QED
      BY <1>1, <3>2
  <2>2. ASSUME send_IHAVE(p) PROVE FALSE
    BY <1>3, <2>2 DEF send_IHAVE
  <2>3. CASE skip_hash(p)
    <3>1. Doing(p, "parse") /\ task[p].sent \in BOOLEAN /\ parsed(p, task[p].sent)
      BY <2>3, ParseFields DEF skip_hash, Known
    <3>2. task'[p].from = task[p].from /\ task'[p].sent = task[p].sent
      BY <1>1, <1>2, <3>1, ParsedTo
    <3>3. ~get_first_hash(p)
      BY <2>3 DEF skip_hash, get_first_hash
    <3> QED
      BY <1>1, <3>1, <3>2, <3>3 DEF Hearing
  <2>4. ASSUME get_first_hash(p) \/ queue_hash(p) PROVE FALSE
    <3>1. Doing(p, "parse") /\ parsed(p, TRUE)
      BY <2>4 DEF get_first_hash, queue_hash
    <3>2. task'[p].sent = TRUE
      BY <1>1, <1>2, <3>1, ParsedTo
    <3> QED
      BY <1>1, <3>2
  <2>5. ASSUME drop_entry(p) \/ keep_entry(p) \/ send_entry(p) PROVE FALSE
    BY <1>1, <2>5, VisitedTo DEF drop_entry, keep_entry, send_entry
  <2> QED
    BY <1>7, <2>1, <2>2, <2>3, <2>4, <2>5 DEF work
<1>8. ASSUME NEW r \in Peers, process_inbound_udp(p, r)
      PROVE  Arrived(q, p, "IHAVE") /\ deal_with_IHAVE(p, q, Head(net[q][p]))
  <2> DEFINE m == Head(net[r][p])
  <2>1. ASSUME deal_with_WHOHAS(p, r, m) PROVE FALSE
    BY <1>1, <2>1 DEF deal_with_WHOHAS
  <2>2. ASSUME deal_with_GET(p, r, m) \/ deal_with_ACK(p, r, m) \/ ignore_DATA(p, r, m)
        PROVE FALSE
    BY <1>3, <2>2 DEF deal_with_GET, deal_with_ACK, ignore_DATA
  <2>3. ASSUME accept_DATA(p, r, m) PROVE FALSE
    <3>1. \A table : scan(table, waiting[p], Select) \in {Select} \cup ScanTask
      BY ScanType
    <3>2. \/ task' = [task EXCEPT ![p] = scan(download'[p], waiting[p], Select)]
          \/ task' = [task EXCEPT ![p] = Select]
      BY <2>3 DEF accept_DATA, Return
    <3>3. task'[p] \in {Select} \cup ScanTask
      BY <1>1, <3>1, <3>2
    <3> QED
      BY <1>1, <1>2, <3>3 DEF ScanTask
  <2>4. CASE Arrived(r, p, "IHAVE") /\ deal_with_IHAVE(p, r, m)
    <3>1. task'[p] = IF HashesRead(m) = <<>> THEN Select
                     ELSE [doing |-> "parse", from |-> r, left |-> HashesRead(m),
                           sent |-> FALSE]
      BY <1>1, <2>4 DEF deal_with_IHAVE
    <3>2. r = q
      BY <1>1, <1>2, <3>1
    <3> QED
      BY <2>4, <3>2
  <2> QED
    BY <1>8, <2>1, <2>2, <2>3, <2>4 DEF process_inbound_udp, deal_with_DATA
<1> QED
  BY <1>5, <1>6, <1>7, <1>8 DEF Acts

LEMMA AnsweringOwn ==
    ASSUME Known, NEW p \in Peers, Acts(p), NEW q \in Peers, Answering(q, p)'
    PROVE  \/ Answering(q, p) /\ ~send_IHAVE(p)
           \/ Arrived(q, p, "WHOHAS") /\ deal_with_WHOHAS(p, q, Head(net[q][p]))
<1>1. /\ task \in [Peers -> Task]
      /\ task'[p].doing = "answer" /\ task'[p].to = q
  BY TablesNow DEF Answering, Doing
<1>2. Select.doing # "answer" /\ Ready.doing # "answer"
  BY DEF Select, Ready
<1>3. ASSUME Return(p) PROVE FALSE
  BY <1>1, <1>2, <1>3 DEF Return
<1>4. \A t \in {Select, Ready} \cup ScanTask \cup ParseTask : task'[p] # t
  BY <1>1, <1>2 DEF ScanTask, ParseTask
<1>5. CASE wake(p)
  BY <1>1, <1>4, <1>5, ScanType DEF wake, scan_first
<1>6. CASE other_input(p) \/ handle_user_input(p) \/ timer(p)
  BY <1>3, <1>6
  DEF other_input, handle_user_input, timer, process_get, retransmit
<1>7. CASE work(p)
  <2>1. CASE answer_line(p)
    <3>1. task[p].doing = "answer" /\ task[p] \in AnswerTask
      BY <1>1, <2>1, TaskFields DEF answer_line, Doing
    <3>2. task'[p].to = task[p].to
      BY <1>1, <2>1, <3>1 DEF answer_line, AnswerTask
    <3>3. ~send_IHAVE(p)
      <4>1. task[p].at \in Nat /\ Len(HasFiles[p]) \in Nat
        BY <3>1, HasFilesAssumption DEF AnswerTask
      <4> QED
        BY <2>1, <4>1 DEF answer_line, send_IHAVE
    <3> QED
      BY <1>1, <3>1, <3>2, <3>3 DEF Answering, Doing
  <2>2. ASSUME send_IHAVE(p) PROVE FALSE
    BY <1>3, <2>2 DEF send_IHAVE
  <2>3. ASSUME skip_hash(p) \/ get_first_hash(p) \/ queue_hash(p) PROVE FALSE
    <3>1. PICK sent \in BOOLEAN : Doing(p, "parse") /\ parsed(p, sent)
      BY <2>3, ParseFields DEF skip_hash, get_first_hash, queue_hash, Known
    <3>2. task[p] \in ParseTask
      BY <1>1, <3>1, TaskFields DEF Doing
    <3>3. task'[p].doing = "parse" \/ task'[p] = Select
      BY <1>1, <3>1, <3>2 DEF parsed, ParseTask
    <3> QED
      BY <1>1, <1>4, <3>3
  <2>4. ASSUME drop_entry(p) \/ keep_entry(p) \/ send_entry(p) PROVE FALSE
    <3>1. PICK list : Doing(p, "scan") /\ visited(p, list)
      BY <2>4 DEF drop_entry, keep_entry, send_entry
    <3>2. /\ task[p].at + 1 \in Nat /\ task[p].after \in {Select, Ready}
      BY <3>1, ScanFields DEF Known
    <3>3. task'[p] \in {Select, Ready} \cup ScanTask
      BY <1>1, <3>1, <3>2, NextEntryType DEF visited
    <3> QED
      BY <1>4, <3>3
  <2> QED
    BY <1>7, <2>1, <2>2, <2>3, <2>4 DEF work
<1>8. ASSUME NEW r \in Peers, process_inbound_udp(p, r)
      PROVE  Arrived(q, p, "WHOHAS") /\ deal_with_WHOHAS(p, q, Head(net[q][p]))
  <2> DEFINE m == Head(net[r][p])
  <2>1. CASE Arrived(r, p, "WHOHAS") /\ deal_with_WHOHAS(p, r, m)
    <3>1. task'[p].to = r
      BY <1>1, <2>1 DEF deal_with_WHOHAS
    <3> QED
      BY <1>1, <2>1, <3>1
  <2>2. ASSUME deal_with_GET(p, r, m) \/ deal_with_ACK(p, r, m) \/ ignore_DATA(p, r, m)
        PROVE FALSE
    BY <1>3, <2>2 DEF deal_with_GET, deal_with_ACK, ignore_DATA
  <2>3. ASSUME accept_DATA(p, r, m) PROVE FALSE
    <3>1. \A table : scan(table, waiting[p], Select) \in {Select} \cup ScanTask
      BY ScanType
    <3>2. \/ task' = [task EXCEPT ![p] = scan(download'[p], waiting[p], Select)]
          \/ task' = [task EXCEPT ![p] = Select]
      BY <2>3 DEF accept_DATA, Return
    <3>3. task'[p] \in {Select} \cup ScanTask
      BY <1>1, <3>1, <3>2
    <3> QED
      BY <1>4, <3>3
  <2>4. ASSUME deal_with_IHAVE(p, r, m) PROVE FALSE
    <3>1. task'[p] = IF HashesRead(m) = <<>> THEN Select
                     ELSE [doing |-> "parse", from |-> r, left |-> HashesRead(m),
                           sent |-> FALSE]
      BY <1>1, <2>4 DEF deal_with_IHAVE
    <3> QED
      BY <1>1, <1>2, <3>1
  <2> QED
    BY <1>8, <2>1, <2>2, <2>3, <2>4 DEF process_inbound_udp, deal_with_DATA
<1> QED
  BY <1>5, <1>6, <1>7, <1>8 DEF Acts

LEMMA OpeningEngages ==
    ASSUME NEW p \in Peers, NEW rid, NEW from, NEW q,
           download \in [Peers -> [Slots -> Session]],
           download' = [download EXCEPT ![p] = with_session(@, rid, from)],
           \A i \in 0 .. WaitMax - 1 :
               waiting'[p][i].active => waiting'[p][i] = waiting[p][i],
           Engaged(p, q)'
    PROVE  Engaged(p, q) \/ q = from
<1> DEFINE f == find_free_download_info(download[p])
           next == with_session(download[p], rid, from)
<1>1. download'[p] = next
  OBVIOUS
<1>2. next = [download[p] EXCEPT ![f] = new_session(rid, from)]
      /\ new_session(rid, from).from = from
  BY DEF with_session, new_session
<1> HIDE DEF f, next
<1>3. CASE \E i \in 0 .. MaxConn - 1 : next[i].active /\ next[i].from = q
  <2>1. PICK i \in 0 .. MaxConn - 1 : next[i].active /\ next[i].from = q
    BY <1>3
  <2>2. i \in Slots
    BY TablesAssumption DEF Slots
  <2>3. CASE i = f
    BY <1>2, <2>1, <2>2, <2>3
  <2>4. CASE i # f
    BY <1>2, <2>1, <2>2, <2>4 DEF Engaged, Sessions
  <2> QED
    BY <2>3, <2>4
<1>4. CASE \E i \in 0 .. WaitMax - 1 : waiting'[p][i].active /\ waiting'[p][i].from = q
  BY <1>4 DEF Engaged
<1> QED
  BY <1>1, <1>3, <1>4 DEF Engaged, Sessions

(* With its first GET a peer turns to a provider: what it queues, or sends *)
(* from the list, is for one it has turned to before.                      *)
Meets(p) ==
    \A q \in Peers :
        Engaged(p, q)' => Engaged(p, q) \/ (get_first_hash(p) /\ q = task[p].from)

LEMMA Turning ==
    ASSUME Known, NEW p \in Peers, Acts(p),
           queue_hash(p) => Engaged(p, task[p].from)
    PROVE  Meets(p)
<1> SUFFICES ASSUME NEW q \in Peers, Engaged(p, q)'
             PROVE  Engaged(p, q) \/ (get_first_hash(p) /\ q = task[p].from)
  BY DEF Meets
<1>1. /\ \A i \in 0 .. WaitMax - 1 : i \in Entries
      /\ \A i \in 0 .. MaxConn - 1 : i \in Slots
  BY TablesAssumption DEF Entries, Slots
<1>2. CASE UNCHANGED <<download, waiting>>
  BY <1>2 DEF Engaged, Sessions
<1>3. CASE get_first_hash(p)
  BY <1>3, TablesNow, OpeningEngages DEF get_first_hash
<1>4. CASE queue_hash(p)
  <2> DEFINE c == Head(task[p].left)
             rid == search_id_for_hash(p, c)
             from == task[p].from
             entry == [rid |-> rid, from |-> from, hash |-> c, active |-> TRUE]
             f == find_free_waiting_entity(waiting[p])
  <2>1. /\ Doing(p, "parse") /\ task[p].sent /\ parsed(p, TRUE)
        /\ waiting' = [waiting EXCEPT ![p][f] = entry]
        /\ UNCHANGED download
    BY <1>4 DEF queue_hash, is_wanted
  <2>2. Engaged(p, from)
    BY <1>4
  <2>3. waiting'[p] = [waiting[p] EXCEPT ![f] = entry] /\ entry.from = from
    <3>1. entry.from = from
      OBVIOUS
    <3> HIDE DEF entry, f
    <3> QED
      BY <2>1, <3>1, TablesNow
  <2> HIDE DEF entry, f
  <2>4. ASSUME NEW i \in 0 .. WaitMax - 1, waiting'[p][i].active
        PROVE  waiting'[p][i].from = from \/ waiting'[p][i] = waiting[p][i]
    BY <1>1, <2>3, TablesNow
  <2> QED
    BY <2>1, <2>2, <2>4 DEF Engaged, Sessions
<1>5. CASE drop_entry(p) \/ send_entry(p)
  <2>1. /\ task[p].at \in Entries
        /\ waiting' = [waiting EXCEPT ![p][task[p].at] = NoWaiting]
    BY <1>5, VisitedTo DEF drop_entry, send_entry
  <2>2. \A i \in 0 .. WaitMax - 1 :
            waiting'[p][i].active => waiting'[p][i] = waiting[p][i]
    BY <1>1, <2>1, ClearedEntry, TablesNow
  <2>3. CASE drop_entry(p)
    BY <2>2, <2>3 DEF drop_entry, Engaged, Sessions
  <2>4. CASE send_entry(p)
    <3> DEFINE at == task[p].at
    <3>1. at \in 0 .. WaitMax - 1 /\ waiting[p][at].active
      BY <2>4, ScanFields DEF send_entry, Known, Waiting
    <3>2. PICK rid :
             download' = [download EXCEPT ![p] = with_session(@, rid, waiting[p][at].from)]
      BY <2>4 DEF send_entry
    <3> HIDE DEF at
    <3>3. Engaged(p, q) \/ q = waiting[p][at].from
      BY <2>2, <3>2, TablesNow, OpeningEngages
    <3> QED
      BY <3>1, <3>3 DEF Engaged
  <2> QED
    BY <1>5, <2>3, <2>4
<1>6. ASSUME NEW r \in Peers, Arrived(r, p, "DATA"),
             accept_DATA(p, r, Head(net[r][p]))
      PROVE  Engaged(p, q)
  <2>1. /\ UNCHANGED waiting
        /\ \A i \in Slots : download'[p][i].active =>
              download[p][i].active /\ download'[p][i].from = download[p][i].from
    BY <1>6, AcceptKeeps
  <2> QED
    BY <1>1, <2>1 DEF Engaged, Sessions
<1> QED
  BY <1>2, <1>3, <1>4, <1>5, <1>6
  DEF Acts, wake, other_input, work, handle_user_input, timer, process_get,
      process_inbound_udp, client, skip_hash, keep_entry, deal_with_IHAVE,
      deal_with_DATA, ignore_DATA

(* In a small swarm the second chunk of an IHAVE is queued next to the     *)
(* session of the first.                                                   *)
LEMMA SmallMeets ==
    ASSUME Small, Known, SmallInv, NEW p \in Peers, Acts(p)
    PROVE  Meets(p)
<1>1. ASSUME queue_hash(p) PROVE Engaged(p, task[p].from)
  <2> DEFINE c == Head(task[p].left)
             rid == search_id_for_hash(p, c)
             from == task[p].from
  <2>1. /\ Doing(p, "parse") /\ task[p].sent /\ parsed(p, TRUE)
        /\ chunk_status[p][rid].status \notin {1, 2} /\ Orderliness(p)
    BY <1>1, WantedUnasked DEF queue_hash, SmallInv
  <2>2. IsLine(p, rid)
    <3>1. c \in Offer(p, from)
      BY <2>1, ParseFits DEF Known
    <3> QED
      BY <3>1, LineOfWish, TablesNow DEF Offer
  <2>3. download[p][0].active /\ download[p][0].from = from
    BY <2>1, <2>2 DEF Orderliness, Reading, Doing, Unasked, IsLine
  <2>4. Engaged(p, from)
    <3>1. 0 \in 0 .. MaxConn - 1
      BY TablesAssumption
    <3> QED
      BY <2>3, <3>1 DEF Engaged, Sessions
  <2> QED
    BY <2>4
<1> QED
  BY <1>1, Turning

(* What a step of p takes from the network was sent to p, and what it      *)
(* sends is neither WHOHAS nor IHAVE but in two steps.                     *)
LEMMA CalmOwn ==
    ASSUME Known, NEW p \in Peers, Acts(p), ~send_IHAVE(p), ~handle_user_input(p)
    PROVE  AllCalmer(net, net')
<1>1. net \in Paths /\ TypeOK /\ NetworkTypeOK
  BY KnownTypes, TablesNow DEF TypeOK
<1>2. CASE UNCHANGED net
  BY <1>2, CalmerSame
<1>3. \A c, seq, cell, ack : /\ Get(c).type \notin {"WHOHAS", "IHAVE"}
                             /\ Data(seq, cell).type \notin {"WHOHAS", "IHAVE"}
                             /\ Ack(ack).type \notin {"WHOHAS", "IHAVE"}
  BY DEF Get, Data, Ack
<1>4. CASE get_first_hash(p)
  <2>1. PICK c : net' = Sent(net, p, task[p].from, Get(c))
    BY <1>4 DEF get_first_hash
  <2>2. task[p].from \in Peers
    BY <1>4, ParseFields DEF get_first_hash, Known
  <2> QED
    BY <1>1, <1>3, <2>1, <2>2, CalmerSent
<1>5. CASE send_entry(p)
  <2> DEFINE entry == waiting[p][task[p].at]
  <2>1. net' = Sent(net, p, entry.from, Get(entry.hash)) /\ Doing(p, "scan")
    BY <1>5 DEF send_entry
  <2>2. entry.from \in Peers
    BY <2>1, ScanFields DEF Known, Waiting
  <2> HIDE DEF entry
  <2> QED
    BY <1>1, <1>3, <2>1, <2>2, CalmerSent
<1>6. CASE timer(p)
  <2>1. upload[p].to \in Peers
    <3>1. upload[p].to # NoPeer
      BY <1>6 DEF timer, retransmit
    <3>2. upload[p] \in UploadInfo
      BY <1>1, <3>1, UploadFields
    <3> QED
      BY <3>2 DEF UploadInfo
  <2>2. net' = Sent(net, p, upload[p].to,
                    Data(upload[p].max_ack + 1,
                         master(upload[p].chunk, upload[p].max_ack + 1)))
    BY <1>6 DEF timer, retransmit
  <2> QED
    BY <1>1, <1>3, <2>1, <2>2, CalmerSent
<1>7. ASSUME NEW q \in Peers, process_inbound_udp(p, q)
      PROVE  AllCalmer(net, net')
  <2> DEFINE m == Head(net[q][p])
             taken == Taken(net, q, p)
  <2>1. net[q][p] # <<>>
    BY <1>7 DEF process_inbound_udp, Arrived
  <2>2. AllCalmer(net, taken) /\ taken \in Paths
    BY <1>1, <2>1, CalmerTaken
  <2> HIDE DEF m, taken
  <2>3. ASSUME NEW r, r.type \notin {"WHOHAS", "IHAVE"}
        PROVE  AllCalmer(net, Sent(taken, p, q, r))
    BY <2>2, <2>3, CalmerSent, CalmerTwice
  <2>4. \A r : Answered(p, q, r) = Sent(taken, p, q, r)
    BY DEF Answered, taken
  <2>5. CASE deal_with_WHOHAS(p, q, m) \/ deal_with_IHAVE(p, q, m)
    BY <2>2, <2>5 DEF deal_with_WHOHAS, deal_with_IHAVE, taken
  <2>6. CASE deal_with_GET(p, q, m)
    BY <1>3, <2>3, <2>4, <2>6 DEF deal_with_GET
  <2>7. CASE deal_with_ACK(p, q, m)
    BY <1>3, <2>2, <2>3, <2>4, <2>7 DEF deal_with_ACK, taken
  <2>8. CASE Arrived(q, p, "DATA") /\ deal_with_DATA(p, q, m)
    <3>1. m.seq \in Nat
      BY <2>1, <2>8, ArrivedPacket, PacketFields, <1>1 DEF m
    <3>2. acked_stranger(p, q, m) \in Paths
      BY <1>1, <2>1, <3>1, AckedStrangerType
    <3>3. AllCalmer(net, acked_stranger(p, q, m))
      BY <1>3, <2>2, <2>3, <2>4 DEF acked_stranger, taken
    <3>4. PICK ack : net' = Sent(acked_stranger(p, q, m), p, q, Ack(ack))
      BY <2>8 DEF deal_with_DATA, ignore_DATA, accept_DATA
    <3>5. AllCalmer(acked_stranger(p, q, m), net')
      BY <1>3, <3>2, <3>4, CalmerSent
    <3> QED
      BY <3>3, <3>5, CalmerTwice
  <2> QED
    BY <1>7, <2>5, <2>6, <2>7, <2>8 DEF process_inbound_udp, m
<1> QED
  BY <1>2, <1>4, <1>5, <1>6, <1>7
  DEF Acts, wake, other_input, work, answer_line, skip_hash, queue_hash,
      drop_entry, keep_entry

(* The WHOHAS that is answered was the only one.                           *)
LEMMA TakenFirst ==
    ASSUME Known, NEW p \in Peers, NEW q \in Peers, NEW type,
           Arrived(q, p, type), OnlyOne(net[q][p], type),
           net' = Taken(net, q, p)
    PROVE  Holds(net[q][p], type) /\ ~Holds(net'[q][p], type)
<1>1. net \in Paths /\ net[q][p] \in Seq(Packet) /\ net[q][p] # <<>>
      /\ Head(net[q][p]).type = type
  BY KnownTypes DEF Arrived
<1>2. net'[q][p] = Tail(net[q][p])
  BY <1>1, TakenAt
<1> DEFINE queue == net[q][p]
<1>3. queue \in Seq(Packet) /\ queue # <<>> /\ Head(queue).type = type
      /\ OnlyOne(queue, type)
  BY <1>1
<1> HIDE DEF queue
<1>4. Holds(queue, type) /\ ~Holds(Tail(queue), type)
  BY <1>3, FewerTail
<1> QED
  BY <1>2, <1>4 DEF queue

LEMMA AskedOnce ==
    ASSUME Known, NEW p \in Peers, NEW q \in Peers, Once(q, p),
           gets'[q] = 0 => gets[q] = 0, AllCalmer(net, net'),
           Arrived(q, p, "WHOHAS"), net' = Taken(net, q, p),
           Hearing(q, p)' => Hearing(q, p), Engaged(q, p)' => Engaged(q, p)
    PROVE  Once(q, p)'
<1>1. Asked(q, p) /\ ~Asked(q, p)'
  BY TakenFirst DEF Once, Asked, Holds
<1>2. At(q, p, "asked") /\ gets[q] # 0
  BY <1>1 DEF Once, At, Stages
<1>3. Offered(q, p)' => Offered(q, p)
  BY DEF AllCalmer, Calmer, Fewer, Offered, Holds
<1>4. OnlyOne(net'[q][p], "WHOHAS") /\ OnlyOne(net'[p][q], "IHAVE")
  BY DEF AllCalmer, Calmer, Fewer, Once
<1>5. "answering" \in Stages /\ gets'[q] # 0
  BY <1>2 DEF Stages
<1> QED
  BY <1>1, <1>2, <1>3, <1>4, <1>5, OnceMoves DEF At

LEMMA HeardOnce ==
    ASSUME Known, NEW p \in Peers, NEW q \in Peers, Once(p, q),
           gets'[p] = 0 => gets[p] = 0, AllCalmer(net, net'),
           Arrived(q, p, "IHAVE"), net' = Taken(net, q, p),
           Answering(p, q)' => Answering(p, q), Engaged(p, q)' => Engaged(p, q)
    PROVE  Once(p, q)'
<1>1. Offered(p, q) /\ ~Offered(p, q)'
  BY TakenFirst DEF Once, Offered, Holds
<1>2. At(p, q, "offered") /\ gets[p] # 0
  BY <1>1 DEF Once, At, Stages
<1>3. Asked(p, q)' => Asked(p, q)
  BY DEF AllCalmer, Calmer, Fewer, Asked, Holds
<1>4. OnlyOne(net'[p][q], "WHOHAS") /\ OnlyOne(net'[q][p], "IHAVE")
  BY DEF AllCalmer, Calmer, Fewer, Once
<1>5. "hearing" \in Stages /\ gets'[p] # 0
  BY <1>2 DEF Stages
<1> QED
  BY <1>1, <1>2, <1>3, <1>4, <1>5, OnceMoves DEF At

LEMMA EngagedOnce ==
    ASSUME NEW p \in Peers, NEW q \in Peers, Once(p, q),
           gets'[p] = 0 => gets[p] = 0, AllCalmer(net, net'),
           Hearing(p, q), ~Hearing(p, q)', Answering(p, q)' => Answering(p, q)
    PROVE  Once(p, q)'
<1>1. At(p, q, "hearing") /\ gets[p] # 0
  BY DEF Once, At, Stages
<1>2. Asked(p, q)' => Asked(p, q)
  BY DEF AllCalmer, Calmer, Fewer, Asked, Holds
<1>3. Offered(p, q)' => Offered(p, q)
  BY DEF AllCalmer, Calmer, Fewer, Offered, Holds
<1>4. OnlyOne(net'[p][q], "WHOHAS") /\ OnlyOne(net'[q][p], "IHAVE")
  BY DEF AllCalmer, Calmer, Fewer, Once
<1>5. "engaged" \in Stages /\ gets'[p] # 0
  BY <1>1 DEF Stages
<1> QED
  BY <1>1, <1>2, <1>3, <1>4, <1>5, OnceMoves DEF At

LEMMA OfferedOnce ==
    ASSUME NEW p \in Peers, NEW q \in Peers, Once(q, p), net \in Paths,
           gets'[q] = 0 => gets[q] = 0, p # q,
           NEW m, m.type = "IHAVE", net' = Sent(net, p, q, m),
           Answering(q, p), ~Answering(q, p)',
           Hearing(q, p)' => Hearing(q, p), Engaged(q, p)' => Engaged(q, p)
    PROVE  Once(q, p)'
<1>1. At(q, p, "answering") /\ gets[q] # 0
  BY DEF Once, At, Stages
<1>2. net'[q][p] = net[q][p] /\ net'[p][q] = enQ(net[p][q], m)
  BY SentAt
<1>3. Asked(q, p)' => Asked(q, p)
  BY <1>2 DEF Asked, Holds
<1>4. OnlyOne(net'[q][p], "WHOHAS")
  BY <1>2 DEF Once
<1>5. OnlyOne(net'[p][q], "IHAVE")
  <2>1. ~Holds(net[p][q], "IHAVE")
    BY <1>1 DEF At, Offered
  <2>2. net[p][q] \in Seq(Packet \cup {m})
    <3>1. net[p][q] \in Seq(Packet)
      BY DEF Paths
    <3> QED
      BY <3>1
  <2> QED
    BY <1>2, <2>1, <2>2, FewerEnQ
<1>6. "offered" \in Stages /\ gets'[q] # 0
  BY <1>1 DEF Stages
<1> QED
  BY <1>1, <1>3, <1>4, <1>5, <1>6, OnceMoves DEF At

LEMMA UserInputOnce ==
    ASSUME OneGet, Known, AskingInv, NEW p \in Peers, handle_user_input(p),
           NEW q \in Peers, q # p
    PROVE  Once(p, q)' /\ Once(q, p)'
<1> DEFINE m == Whohas(RequestFiles[p][gets[p] + 1])
<1>1. /\ net \in Paths /\ task \in [Peers -> Task]
      /\ gets \in [Peers -> Nat] /\ gets[p] = 0 /\ gets' = [gets EXCEPT ![p] = 1]
  BY KnownTypes, TablesNow, FirstGet DEF Known, IInv, TypeOK, DownloaderTypeOK
<1>2. /\ gets'[p] # 0 /\ gets'[q] = gets[q] /\ task'[p] = Select /\ task'[q] = task[q]
      /\ UNCHANGED <<download, waiting>>
  BY <1>1 DEF handle_user_input, process_get, Return
<1>3. net'[q][p] = net[q][p] /\ net'[p][q] = enQ(net[p][q], m)
  BY <1>1 DEF handle_user_input, process_get, Paths
<1>4. m.type = "WHOHAS"
  BY DEF Whohas
<1> HIDE DEF m
<1>5. net[p][q] \in Seq(Packet \cup {m})
  <2>1. net[p][q] \in Seq(Packet)
    BY <1>1 DEF Paths
  <2> QED
    BY <2>1
<1>6. Once(p, q) /\ Once(q, p)
  BY DEF AskingInv
<1>7. At(p, q, "idle")
  BY <1>1, <1>6 DEF Once, At
<1>8. Select.doing \notin {"answer", "parse"}
  BY DEF Select
<1>9. Once(p, q)'
  <2>1. OnlyOne(net'[p][q], "WHOHAS")
    <3>1. ~Holds(net[p][q], "WHOHAS")
      BY <1>7 DEF At, Asked
    <3> QED
      BY <1>3, <1>5, <3>1, FewerEnQ
  <2>2. OnlyOne(net'[q][p], "IHAVE")
    BY <1>3, <1>6 DEF Once
  <2>3. ~Answering(p, q)' /\ ~Hearing(p, q)' /\ ~Engaged(p, q)'
    BY <1>2, <1>7, <1>8 DEF At, Answering, Hearing, Engaged, Doing, Sessions
  <2>4. ~Offered(p, q)'
    BY <1>3, <1>7 DEF At, Offered, Holds
  <2>5. "asked" \in Stages
    BY DEF Stages
  <2> QED
    BY <1>2, <2>1, <2>2, <2>3, <2>4, <2>5, OnceMoves
<1>10. Once(q, p)'
  <2>1. Fewer("WHOHAS", net[q][p], net'[q][p])
    BY <1>3 DEF Fewer
  <2>2. Fewer("IHAVE", net[p][q], net'[p][q])
    BY <1>3, <1>4, <1>5, FewerEnQ
  <2>3. /\ ~Answering(q, p)'
        /\ Hearing(q, p)' => Hearing(q, p)
        /\ Engaged(q, p)' => Engaged(q, p)
    BY <1>2, <1>8 DEF Answering, Hearing, Engaged, Doing, Sessions
  <2> QED
    BY <1>2, <1>6, <2>1, <2>2, <2>3, OnceStays
<1> QED
  BY <1>9, <1>10

(* The pairs of p.                                                         *)
LEMMA OwnOnce ==
    ASSUME OneGet, Known, AskingInv, NEW p \in Peers, Acts(p), Meets(p),
           NEW q \in Peers, q # p
    PROVE  Once(p, q)' /\ Once(q, p)'
<1>1. /\ Once(p, q) /\ Once(q, p) /\ OthersSame(p)
      /\ gets'[p] = 0 => gets[p] = 0
      /\ gets'[q] = 0 => gets[q] = 0
  BY OthersFiles, OneActs DEF AskingInv, Known, Acts
<1>2. /\ Answering(p, q)' => Answering(p, q)
      /\ Hearing(q, p)' => Hearing(q, p)
      /\ Engaged(q, p)' => Engaged(q, p)
  BY <1>1 DEF OthersSame, Answering, Hearing, Engaged, Doing, Sessions
<1>3. task \in [Peers -> Task] /\ net \in Paths
  BY KnownTypes, TablesNow
<1>4. CASE handle_user_input(p)
  BY <1>1, <1>4, UserInputOnce
<1>5. CASE send_IHAVE(p)
  <2>1. ~Answering(q, p)' /\ ~Hearing(p, q)'
    BY <1>3, <1>5 DEF send_IHAVE, Return, Select, Answering, Hearing, Doing
  <2>2. Doing(p, "answer") /\ ~get_first_hash(p)
    BY <1>5 DEF send_IHAVE, get_first_hash, Doing
  <2>3. Engaged(p, q)' => Engaged(p, q)
    BY <2>2 DEF Meets
  <2>4. task[p].to \in Peers
    BY <1>3, <2>2, TaskFields DEF Doing, AnswerTask
  <2>5. CASE UNCHANGED net
    BY <1>1, <1>2, <2>1, <2>3, <2>5, OnceStays DEF Fewer
  <2>6. CASE net' = Sent(net, p, task[p].to, Ihave(task[p].found))
    <3>1. Once(p, q)'
      <4>1. net'[p][q] = net[p][q] \/ net'[p][q] = enQ(net[p][q], Ihave(task[p].found))
        BY <1>3, <2>4, <2>6, SentAt
      <4>2. net'[q][p] = net[q][p]
        BY <1>3, <2>4, <2>6, SentAt
      <4>3. Ihave(task[p].found).type = "IHAVE"
        BY DEF Ihave
      <4> DEFINE m == Ihave(task[p].found)
      <4> HIDE DEF m
      <4>4. net[p][q] \in Seq(Packet \cup {m})
        <5>1. net[p][q] \in Seq(Packet)
          BY <1>3 DEF Paths
        <5> QED
          BY <5>1
      <4>5. Fewer("WHOHAS", net[p][q], enQ(net[p][q], m))
        BY <4>3, <4>4, FewerEnQ DEF m
      <4>6. Fewer("WHOHAS", net[p][q], net'[p][q]) /\ Fewer("IHAVE", net[q][p], net'[q][p])
        BY <4>1, <4>2, <4>5 DEF Fewer, m
      <4> QED
        BY <1>1, <1>2, <2>1, <2>3, <4>6, OnceStays
    <3>2. Once(q, p)'
      <4>1. CASE task[p].to = q
        <5>1. Answering(q, p)
          BY <2>2, <4>1 DEF Answering
        <5>2. Ihave(task[p].found).type = "IHAVE"
          BY DEF Ihave
        <5> QED
          BY <1>1, <1>2, <1>3, <2>1, <2>6, <4>1, <5>1, <5>2, OfferedOnce
      <4>2. CASE task[p].to # q
        <5>1. net'[p][q] = net[p][q] /\ net'[q][p] = net[q][p]
          BY <1>3, <2>4, <2>6, <4>2, SentAt
        <5> QED
          BY <1>1, <1>2, <2>1, <5>1, OnceStays DEF Fewer
      <4> QED
        BY <4>1, <4>2
    <3> QED
      BY <3>1, <3>2
  <2> QED
    BY <1>5, <2>5, <2>6 DEF send_IHAVE
<1>6. CASE ~send_IHAVE(p) /\ ~handle_user_input(p)
  <2>1. AllCalmer(net, net')
    BY <1>6, CalmOwn
  <2>2. /\ Fewer("WHOHAS", net[p][q], net'[p][q]) /\ Fewer("IHAVE", net[p][q], net'[p][q])
        /\ Fewer("WHOHAS", net[q][p], net'[q][p]) /\ Fewer("IHAVE", net[q][p], net'[q][p])
    BY <2>1 DEF AllCalmer, Calmer
  <2>3. Once(p, q)'
    <3>1. CASE get_first_hash(p) /\ q = task[p].from
      <4>1. Hearing(p, q)
        BY <3>1 DEF get_first_hash, Hearing
      <4>2. ~Hearing(p, q)'
        <5>1. task'[p] = Select \/ task'[p].sent = TRUE
          BY <3>1, ParsedTo DEF get_first_hash
        <5> QED
          BY <5>1 DEF Hearing, Doing, Select
      <4> QED
        BY <1>1, <1>2, <2>1, <4>1, <4>2, EngagedOnce
    <3>2. CASE ~(get_first_hash(p) /\ q = task[p].from)
      <4>1. Engaged(p, q)' => Engaged(p, q)
        BY <3>2 DEF Meets
      <4>2. CASE Arrived(q, p, "IHAVE") /\ deal_with_IHAVE(p, q, Head(net[q][p]))
        <5>1. net' = Taken(net, q, p)
          BY <4>2 DEF deal_with_IHAVE
        <5> QED
          BY <1>1, <1>2, <2>1, <4>1, <4>2, <5>1, HeardOnce
      <4>3. CASE ~(Arrived(q, p, "IHAVE") /\ deal_with_IHAVE(p, q, Head(net[q][p])))
        <5>1. Hearing(p, q)' => Hearing(p, q)
          BY <4>3, HearingOwn
        <5> QED
          BY <1>1, <1>2, <2>2, <4>1, <5>1, OnceStays
      <4> QED
        BY <4>2, <4>3
    <3> QED
      BY <3>1, <3>2
  <2>4. Once(q, p)'
    <3>1. CASE Arrived(q, p, "WHOHAS") /\ deal_with_WHOHAS(p, q, Head(net[q][p]))
      <4>1. net' = Taken(net, q, p)
        BY <3>1 DEF deal_with_WHOHAS
      <4> QED
        BY <1>1, <1>2, <2>1, <3>1, <4>1, AskedOnce
    <3>2. CASE ~(Arrived(q, p, "WHOHAS") /\ deal_with_WHOHAS(p, q, Head(net[q][p])))
      <4>1. Answering(q, p)' => Answering(q, p)
        BY <3>2, AnsweringOwn
      <4> QED
        BY <1>1, <1>2, <2>2, <4>1, OnceStays
    <3> QED
      BY <3>1, <3>2
  <2> QED
    BY <2>3, <2>4
<1> QED
  BY <1>4, <1>5, <1>6

LEMMA NextOnce ==
    ASSUME OneGet, Known, AskingInv, [Next]_vars,
           \A p \in Peers : Acts(p) => Meets(p)
    PROVE  \A a, b \in Peers : a # b => Once(a, b)'
<1>1. SUFFICES ASSUME NEW a \in Peers, NEW b \in Peers, a # b
               PROVE  Once(a, b)'
  OBVIOUS
<1>2. Once(a, b)
  BY <1>1 DEF AskingInv
<1>3. ASSUME NEW p \in Peers, Acts(p)
      PROVE  Once(a, b)'
  <2>1. CASE a = p \/ b = p
    BY <1>1, <1>3, <2>1, OwnOnce
  <2>2. CASE a # p /\ b # p
    <3>1. OthersSame(p) /\ (gets'[a] = 0 => gets[a] = 0)
      BY <1>2, <1>3, OneActs, OthersFiles DEF Known, Acts
    <3>2. /\ Answering(a, b)' => Answering(a, b)
          /\ Hearing(a, b)' => Hearing(a, b)
          /\ Engaged(a, b)' => Engaged(a, b)
      BY <2>2, <3>1
      DEF OthersSame, Answering, Hearing, Engaged, Doing, Sessions
    <3>3. /\ Fewer("WHOHAS", net[a][b], net'[a][b])
          /\ Fewer("IHAVE", net[b][a], net'[b][a])
      <4>1. net \in Paths /\ task \in [Peers -> Task]
        BY KnownTypes, TablesNow
      <4>2. CASE handle_user_input(p)
        <5>1. net'[a][b] = net[a][b] /\ net'[b][a] = net[b][a]
          BY <2>2, <4>1, <4>2 DEF handle_user_input, process_get, Paths
        <5> QED
          BY <5>1 DEF Fewer
      <4>3. CASE send_IHAVE(p)
        <5>1. task[p].to \in Peers
          BY <4>1, <4>3, TaskFields DEF send_IHAVE, Doing, AnswerTask
        <5>2. net'[a][b] = net[a][b] /\ net'[b][a] = net[b][a]
          BY <2>2, <4>1, <4>3, <5>1, SentAt DEF send_IHAVE
        <5> QED
          BY <5>2 DEF Fewer
      <4>4. CASE ~handle_user_input(p) /\ ~send_IHAVE(p)
        <5>1. AllCalmer(net, net')
          BY <1>3, <4>4, CalmOwn
        <5> QED
          BY <5>1 DEF AllCalmer, Calmer
      <4> QED
        BY <4>2, <4>3, <4>4
    <3> QED
      BY <1>2, <3>1, <3>2, <3>3, OnceStays
  <2> QED
    BY <2>1, <2>2
<1>4. ASSUME UNCHANGED <<task, upload, client>>, AllCalmer(net, net')
      PROVE  Once(a, b)'
  <2>1. /\ Answering(a, b)' => Answering(a, b)
        /\ Hearing(a, b)' => Hearing(a, b)
        /\ Engaged(a, b)' => Engaged(a, b)
        /\ gets' = gets
    BY <1>4 DEF client, Answering, Hearing, Engaged, Doing, Sessions
  <2> QED
    BY <1>2, <1>4, <2>1, OnceStays DEF AllCalmer, Calmer
<1>5. CASE UNCHANGED vars
  BY <1>4, <1>5, CalmerSame DEF vars
<1>6. ASSUME NEW p \in Peers, NEW q \in Peers, disturb(p, q)
      PROVE  Once(a, b)'
  BY <1>4, <1>6, CalmerDisturbed DEF disturb
<1> QED
  BY <1>3, <1>5, <1>6 DEF Next, Acts

-----------------------------------------------------------------------------
(* The lists of the IHAVEs.                                                *)

LEMMA AnswerListing ==
    ASSUME Vary, Known, NEW p \in Peers, Listing(p), answer_line(p)
    PROVE  Listing(p)'
<1> DEFINE t == task[p]
           c == HasFiles[p][t.at]
<1>1. t \in AnswerTask /\ t.at <= Len(HasFiles[p])
  BY TablesNow, TaskFields DEF answer_line, Doing
<1>2. t.at \in Nat /\ t.at \in 1 .. Len(HasFiles[p]) /\ t.found \in Seq(Chunks)
  BY <1>1, HasFilesAssumption DEF AnswerTask
<1>3. task' = [task EXCEPT
              ![p].at = @ + 1,
              ![p].found = IF HasFiles[p][t.at] \in t.asked
                           THEN Append(@, HasFiles[p][t.at]) ELSE @]
  BY DEF answer_line
<1>4. /\ task'[p].at = t.at + 1
      /\ task'[p].found = IF c \in t.asked THEN Append(t.found, c) ELSE t.found
  <2>1. task \in [Peers -> Task]
    BY TablesNow
  <2> QED
    BY <1>1, <1>3, <2>1 DEF AnswerTask
<1>5. /\ AllDiffer(t.found)
      /\ \A i \in 1 .. Len(t.found) : \E j \in 1 .. t.at - 1 :
             t.found[i] = HasFiles[p][j]
  BY DEF Listing, answer_line
<1>6. \A j \in 1 .. t.at - 1 : HasFiles[p][j] # c
  <2>1. AllDiffer(HasFiles[p])
    BY DEF Vary
  <2>2. \A j \in 1 .. t.at - 1 : j \in 1 .. Len(HasFiles[p]) /\ j # t.at
    <3> DEFINE at == t.at
               l == Len(HasFiles[p])
    <3>1. at \in 1 .. l /\ l \in Nat
      BY <1>2, HasFilesAssumption
    <3> HIDE DEF at, l
    <3>2. \A j \in 1 .. at - 1 : j \in 1 .. l /\ j # at
      BY <3>1
    <3> QED
      BY <3>2 DEF at, l
  <2> QED
    BY <1>2, <2>1, <2>2 DEF AllDiffer
<1> DEFINE found == task'[p].found
<1> HIDE DEF c
<1>7. \A i \in 1 .. t.at - 1 : i \in 1 .. t.at + 1 - 1
  BY <1>2
<1>8. t.at \in 1 .. t.at + 1 - 1
  BY <1>2
<1>9. AllDiffer(found) /\ \A i \in 1 .. Len(found) : \E j \in 1 .. t.at + 1 - 1 :
          found[i] = HasFiles[p][j]
  <2>1. CASE c \notin t.asked
    BY <1>4, <1>5, <1>7, <2>1
  <2>2. CASE c \in t.asked
    <3> DEFINE old == t.found
               n == Len(old)
               at == t.at
    <3>1. /\ n \in Nat /\ Len(found) = n + 1 /\ found[n + 1] = c
          /\ \A i \in 1 .. n : found[i] = old[i]
      <4>1. found = Append(old, c)
        BY <1>4, <2>2
      <4>2. c \in Chunks
        BY <1>2, HasFilesAssumption DEF c
      <4> QED
        BY <1>2, <4>1, <4>2, AppendProperties
    <3>2. \A i \in 1 .. n : \E j \in 1 .. at - 1 : old[i] = HasFiles[p][j]
      BY <1>5
    <3>3. AllDiffer(old) /\ c = HasFiles[p][at] /\ at \in 1 .. at + 1 - 1
      BY <1>5, <1>8 DEF c
    <3>4. \A i \in 1 .. at - 1 : i \in 1 .. at + 1 - 1 /\ HasFiles[p][i] # c
      BY <1>6, <1>7
    <3> HIDE DEF found, old, at
    <3>5. \A i \in 1 .. Len(found) : i \in 1 .. n \/ i = n + 1
      BY <3>1
    <3>6. \A i \in 1 .. n : found[i] # c
      BY <3>1, <3>2, <3>4
    <3>7. AllDiffer(found)
      BY <3>1, <3>3, <3>5, <3>6 DEF AllDiffer
    <3>8. \A i \in 1 .. Len(found) : \E j \in 1 .. at + 1 - 1 :
              found[i] = HasFiles[p][j]
      BY <3>1, <3>2, <3>3, <3>4, <3>5
    <3> QED
      BY <3>7, <3>8 DEF at
  <2> QED
    BY <2>1, <2>2
<1>10. AllDiffer(task[p].found)'
  BY <1>9 DEF AllDiffer
<1>11. \A i \in 1 .. Len(found) : \E j \in 1 .. task'[p].at - 1 :
           found[i] = HasFiles[p][j]
  <2> DEFINE at == t.at
             later == task'[p].at
  <2>1. later = at + 1 /\ at \in Nat
    BY <1>2, <1>4
  <2>2. \A i \in 1 .. Len(found) : \E j \in 1 .. at + 1 - 1 :
            found[i] = HasFiles[p][j]
    BY <1>9
  <2> HIDE DEF found, at, later
  <2>3. \A i \in 1 .. Len(found) : \E j \in 1 .. later - 1 :
            found[i] = HasFiles[p][j]
    BY <2>1, <2>2
  <2> QED
    BY <2>3 DEF later
<1> QED
  BY <1>10, <1>11 DEF Listing, found

LEMMA OwnListing ==
    ASSUME Vary, Known, NEW p \in Peers, Listing(p), Acts(p)
    PROVE  Listing(p)'
<1>1. CASE ~Doing(p, "answer")'
  BY <1>1 DEF Listing, Doing
<1>2. CASE answer_line(p)
  BY <1>2, AnswerListing
<1>3. ASSUME Doing(p, "answer")', ~answer_line(p) PROVE Listing(p)'
  <2>1. ASSUME Doing(p, "answer") PROVE send_IHAVE(p)
    BY <1>3, <2>1
    DEF Acts, Doing, wake, other_input, work, handle_user_input, timer,
        MayEndIteration, MayServe, process_inbound_udp, skip_hash,
        get_first_hash, queue_hash, drop_entry, keep_entry, send_entry,
        Select, Ready
  <2>2. PICK q \in Peers : task'[p].doing = "answer" /\ task'[p].to = q
    <3>1. task' \in [Peers -> Task]
      BY NextIInv DEF Known, IInv, TypeOK, Next, Acts
    <3>2. task'[p].doing = "answer" /\ task'[p] \in Task
      BY <1>3, <3>1 DEF Doing
    <3> QED
      BY <3>2 DEF Task, Select, Ready, AnswerTask, ParseTask, ScanTask
  <2>3. Answering(q, p)'
    BY <2>2 DEF Answering, Doing
  <2>4. deal_with_WHOHAS(p, q, Head(net[q][p]))
    <3>1. ~(Answering(q, p) /\ ~send_IHAVE(p))
      BY <2>1 DEF Answering
    <3> QED
      BY <2>3, <3>1, AnsweringOwn
  <2>5. task'[p].found = <<>>
    BY <2>4, TablesNow DEF deal_with_WHOHAS
  <2>6. Len(<<>>) = 0
    BY EmptySeq
  <2>7. \A i : i \notin 1 .. 0
    OBVIOUS
  <2> QED
    BY <2>5, <2>6, <2>7 DEF Listing, AllDiffer
<1> QED
  BY <1>1, <1>2, <1>3

LEMMA NextListing ==
    ASSUME Vary, Known, AskingInv, [Next]_vars
    PROVE  \A r \in Peers : Listing(r)'
<1>1. SUFFICES ASSUME NEW r \in Peers PROVE Listing(r)'
  OBVIOUS
<1>2. Listing(r)
  BY DEF AskingInv
<1>3. ASSUME task'[r] = task[r] PROVE Listing(r)'
  BY <1>2, <1>3 DEF Listing, AllDiffer, Doing
<1>4. ASSUME NEW p \in Peers, Acts(p) PROVE Listing(r)'
  <2>1. CASE r = p
    BY <1>2, <1>4, <2>1, OwnListing
  <2>2. CASE r # p
    <3>1. OthersSame(p)
      BY <1>4, OneActs DEF Known, Acts
    <3> QED
      BY <1>3, <2>2, <3>1 DEF OthersSame
  <2> QED
    BY <2>1, <2>2
<1>5. CASE UNCHANGED task
  BY <1>3, <1>5
<1> QED
  BY <1>4, <1>5 DEF Next, vars, disturb, Acts

LEMMA NextLists ==
    ASSUME Known, AskingInv, [Next]_vars
    PROVE  AllDistinct'
<1>1. net \in Paths /\ AllDistinct
  BY KnownTypes DEF AskingInv
<1>2. ASSUME AllCalmer(net, net') PROVE AllDistinct'
  BY <1>1, <1>2 DEF AllCalmer, Calmer, AllDistinct, Distinct, AllDiffer
<1>3. ASSUME NEW p \in Peers, NEW q \in Peers, NEW m,
             m.type = "IHAVE" => AllDiffer(m.hashes)
      PROVE  Distinct(enQ(net[p][q], m))
  <2>1. net[p][q] \in Seq(Packet \cup {m})
    <3>1. net[p][q] \in Seq(Packet)
      BY <1>1 DEF Paths
    <3> QED
      BY <3>1
  <2>2. Distinct(net[p][q])
    BY <1>1 DEF AllDistinct
  <2> QED
    BY <1>3, <2>1, <2>2, FewerEnQ
<1>4. ASSUME \A a, b \in Peers : Distinct(net'[a][b]) PROVE AllDistinct'
  BY <1>4 DEF AllDistinct, Distinct, AllDiffer
<1>5. ASSUME NEW p \in Peers, handle_user_input(p) PROVE AllDistinct'
  <2> DEFINE m == Whohas(RequestFiles[p][gets[p] + 1])
  <2>1. \A a, b \in Peers :
            \/ net'[a][b] = net[a][b]
            \/ a = p /\ net'[a][b] = enQ(net[p][b], m)
    BY <1>1, <1>5 DEF handle_user_input, process_get, Paths
  <2>2. m.type # "IHAVE"
    BY DEF Whohas
  <2> HIDE DEF m
  <2>3. \A a, b \in Peers : Distinct(net'[a][b])
    BY <1>1, <1>3, <2>1, <2>2 DEF AllDistinct
  <2> QED
    BY <1>4, <2>3
<1>6. ASSUME NEW p \in Peers, send_IHAVE(p) PROVE AllDistinct'
  <2> DEFINE t == task[p]
             m == Ihave(t.found)
  <2>1. t \in AnswerTask /\ t.doing = "answer"
    BY <1>6, TablesNow, TaskFields DEF send_IHAVE, Doing
  <2>2. AllDiffer(t.found)
    BY <2>1 DEF AskingInv, Listing, Doing
  <2>3. net' = net \/ net' = Sent(net, p, t.to, m)
    BY <1>6 DEF send_IHAVE
  <2>4. m.type = "IHAVE" => AllDiffer(m.hashes)
    BY <2>2 DEF Ihave
  <2>5. t.to \in Peers
    BY <2>1 DEF AnswerTask
  <2> HIDE DEF t, m
  <2>6. ASSUME NEW a \in Peers, NEW b \in Peers PROVE Distinct(net'[a][b])
    <3>1. net'[a][b] = net[a][b] \/ net'[a][b] = enQ(net[a][b], m)
      BY <1>1, <2>3, <2>5, SentAt
    <3>2. Distinct(net[a][b])
      BY <1>1 DEF AllDistinct
    <3> QED
      BY <1>3, <2>4, <3>1, <3>2
  <2> QED
    BY <1>4, <2>6
<1>7. ASSUME NEW p \in Peers, Acts(p) PROVE AllDistinct'
  BY <1>2, <1>5, <1>6, <1>7, CalmOwn
<1>8. ASSUME NEW p \in Peers, NEW q \in Peers, disturb(p, q) PROVE AllDistinct'
  BY <1>2, <1>8, CalmerDisturbed
<1>9. CASE UNCHANGED vars
  BY <1>2, <1>9, CalmerSame DEF vars
<1> QED
  BY <1>7, <1>8, <1>9 DEF Next, Acts

LEMMA InitAsking ==
    ASSUME Init
    PROVE  AskingInv
<1>1. /\ \A p, q \in Peers : net[p][q] = <<>>
      /\ \A p \in Peers : gets[p] = 0 /\ task[p] = Select
      /\ \A p \in Peers : \A i \in 0 .. MaxConn - 1 : ~download[p][i].active
      /\ \A p \in Peers : \A i \in 0 .. WaitMax - 1 : ~waiting[p][i].active
  <2>1. /\ \A i \in 0 .. MaxConn - 1 : i \in Slots /\ i # -1
        /\ \A i \in 0 .. WaitMax - 1 : i \in Entries
    BY TablesAssumption DEF Slots, Entries
  <2> QED
    BY <2>1 DEF Init, NetworkInit, DownloaderInit, NoSession, NoWaiting
<1>2. Len(<<>>) = 0 /\ \A i : i \notin 1 .. 0
  BY EmptySeq
<1>3. Select.doing \notin {"answer", "parse"}
  BY DEF Select
<1>4. ASSUME NEW p \in Peers PROVE Listing(p)
  BY <1>1, <1>3 DEF Listing, Doing
<1>5. ASSUME NEW p \in Peers, NEW q \in Peers PROVE Once(p, q)
  <2>1. ~Asked(p, q) /\ ~Offered(p, q)
    BY <1>1, <1>2 DEF Asked, Offered, Holds
  <2>2. ~Answering(p, q) /\ ~Hearing(p, q) /\ ~Engaged(p, q)
    BY <1>1, <1>3 DEF Answering, Hearing, Engaged, Doing, Sessions
  <2>3. OnlyOne(net[p][q], "WHOHAS") /\ OnlyOne(net[q][p], "IHAVE")
    BY <1>1, <1>2 DEF OnlyOne
  <2> QED
    BY <2>1, <2>2, <2>3 DEF Once, At, Stages
<1>6. AllDistinct
  BY <1>1, <1>2 DEF AllDistinct, Distinct
<1> QED
  BY <1>4, <1>5, <1>6 DEF AskingInv

LEMMA InitSmall ==
    ASSUME Small, Init
    PROVE  SmallInv
<1>1. ASSUME NEW p \in Peers PROVE Orderliness(p)
  <2>1. /\ -1 \in Slots /\ \A i \in 0 .. MaxConn - 1 : i \in Slots /\ i # -1
        /\ -1 \in Entries /\ \A i \in 0 .. WaitMax - 1 : i \in Entries
    BY TablesAssumption DEF Slots, Entries
  <2>2. /\ ~download[p][-1].active /\ ~waiting[p][-1].active /\ task[p] = Select
        /\ \A i \in 0 .. MaxConn - 1 : ~download[p][i].active
        /\ \A i \in 0 .. WaitMax - 1 : ~waiting[p][i].active
    BY <2>1
    DEF Init, DownloaderInit, NoSession, NoWaiting, Small, Plain, SlotUnmatched
  <2> QED
    BY <2>2, EmptyTidy DEF Orderliness, Reading, Select
<1> QED
  BY <1>1, InitAsking DEF SmallInv

-----------------------------------------------------------------------------
(* All that holds of a small swarm.                                        *)
SmallAll == Known /\ AllAwake /\ PairInv /\ AllStored /\ SmallInv

LEMMA InitSmallAll ==
    ASSUME Small
    PROVE  Init => SmallAll
  BY InitKnown, InitAwake, InitTransfers, InitSmall DEF SmallAll, PairInv

LEMMA SmallOrderly ==
    /\ SmallInv => Orderly
    /\ SmallInv' => Orderly'
  BY OrderlyIs DEF SmallInv

LEMMA NextSmallAll ==
    ASSUME Small, SmallAll, [Next]_vars
    PROVE  SmallAll' /\ Orderly /\ Orderly'
<1>1. Plain /\ OneGet /\ Known /\ AllAwake /\ PairInv /\ AllStored /\ SmallInv
  BY DEF SmallAll, Small, Plain
<1>2. /\ \A r \in Peers : Orderliness(r)'
      /\ \A r \in Peers : Listing(r)'
      /\ \A a, b \in Peers : a # b => Once(a, b)'
      /\ AllDistinct'
  <2>1. /\ AskingInv /\ Vary
        /\ \A p \in Peers : Acts(p) => Meets(p)
    BY <1>1, SmallMeets DEF SmallInv, Small
  <2> QED
    BY <1>1, <2>1, NextOrderly, NextListing, NextOnce, NextLists
<1>3. SmallInv'
  BY <1>2 DEF SmallInv, AskingInv
<1>4. Orderly /\ Orderly'
  BY <1>1, <1>3, SmallOrderly
<1>5. SlotBeyond
  BY <1>1, StoredIs
<1>6. PairInv'
  BY <1>1, <1>4, <1>5, NextPairs DEF PairInv
<1>7. Known' /\ AllAwake' /\ AllStored'
  BY <1>1, <1>4, NextKnown, NextAwake, NextStored DEF Known
<1> QED
  BY <1>3, <1>4, <1>6, <1>7 DEF SmallAll

LEMMA NextSmallSure ==
    ASSUME Small, ~Shared, SmallAll, Transfers(TRUE), GetsHaveRoom, [Next]_vars
    PROVE  SmallAll' /\ Transfers(TRUE)'
<1>1. OneGet /\ Known /\ PairInv /\ AllStored
  BY DEF SmallAll, Small, Plain
<1>2. SmallAll' /\ Orderly /\ Orderly'
  BY NextSmallAll
<1>3. SlotBeyond
  BY <1>1, StoredIs
<1> QED
  BY <1>1, <1>2, <1>3, NextPairs DEF Small

(* With request files of two lines a peer never has two sessions with one  *)
(* provider: of the two chunks a provider may offer, the second waits on   *)
(* the list until the session of the first has ended, because the busy     *)
(* flag of the scan then looks at the right entries.                       *)
THEOREM OneSessionEach ==
    ASSUME Small
    PROVE  Spec => []OneSessionPerPeer
<1>1. SmallAll => OneSessionPerPeer
  BY SmallOrderly DEF SmallAll, Orderly
<1>2. SmallAll /\ [Next]_vars => SmallAll'
  BY NextSmallAll
<1> QED
  BY <1>1, <1>2, InitSmallAll, PTL DEF Spec

(* Nor does a search of the download table or of the waiting list ever     *)
(* fail, whose -1 the callers would use as an index.                       *)
THEOREM TablesAreEnough ==
    ASSUME Small
    PROVE  Spec => []TablesSuffice
<1>1. SmallAll => TablesSuffice
  BY SmallOrderly DEF SmallAll, Orderly
<1>2. SmallAll /\ [Next]_vars => SmallAll'
  BY NextSmallAll
<1> QED
  BY <1>1, <1>2, InitSmallAll, PTL DEF Spec

(* Every block a session has stored is the block of its chunk for that     *)
(* place, whatever packets are lost and whatever DATA and ACKs are         *)
(* repeated or late.                                                       *)
THEOREM BlocksStayInPlace ==
    ASSUME Small
    PROVE  Spec => []BlocksInPlace
<1>1. SmallAll => BlocksInPlace
  BY StoredIs DEF SmallAll
<1>2. SmallAll /\ [Next]_vars => SmallAll'
  BY NextSmallAll
<1> QED
  BY <1>1, <1>2, InitSmallAll, PTL DEF Spec

(* A chunk reported GOT is in the output file, and stays there.  The word  *)
(* in front of the download table must not look like a block number of a   *)
(* chunk (Plain): where it does, a repeated last block is written to the   *)
(* start of the file and GOT lines do not stay intact.                     *)
THEOREM GotStaysIntact ==
    ASSUME Small
    PROVE  Spec => []GotIntact
<1>1. SmallAll => GotIntact
  BY StoredIs DEF SmallAll
<1>2. SmallAll /\ [Next]_vars => SmallAll'
  BY NextSmallAll
<1> QED
  BY <1>1, <1>2, InitSmallAll, PTL DEF Spec

(* No download ends with CORRUPTED: deal_with_DATA clears a session only   *)
(* after check_hash has found the chunk that was asked for.                *)
THEOREM DownloadsVerify ==
    ASSUME Small
    PROVE  Spec => EveryDownloadVerifies
<1> DEFINE VStep == \A p \in Peers : \A i \in Sessions(p) : Verified(p, i)
<1>1. SmallAll /\ [Next]_vars => SmallAll' /\ VStep
  BY NextSmallAll, NextVerifies DEF SmallAll, Orderly, Small
<1>2. VStep => \A p \in Peers : \A i \in Sessions(p) :
          ~download'[p][i].active =>
              chunk_status'[p][download[p][i].rid].status = 2
  BY DEF Verified
<1> HIDE DEF VStep
<1> QED
  BY <1>1, <1>2, InitSmallAll, PTL DEF Spec, EveryDownloadVerifies

(* Where each two peers have a link of their own and no GET finds it full, *)
(* the provider that a session waits on serves that session or is about to *)
(* be asked to, and is not ahead of it by more than the ACK 1 of finding 1.*)
THEOREM UploadsServe ==
    ASSUME Small, ~Shared
    PROVE  Spec /\ []GetsHaveRoom => []UploadServesSession /\ []SenderNotAhead
<1>1. SmallAll /\ Transfers(TRUE) => UploadServesSession /\ SenderNotAhead
  BY SmallOrderly, ServedIs DEF SmallAll, Orderly
<1>2. Init => SmallAll /\ Transfers(TRUE)
  BY InitSmallAll, InitTransfers
<1>3. SmallAll /\ Transfers(TRUE) /\ GetsHaveRoom /\ [Next]_vars =>
          SmallAll' /\ Transfers(TRUE)'
  BY NextSmallSure
<1> QED
  BY <1>1, <1>2, <1>3, PTL DEF Spec

(* Nor does its max_ack ever go back, except that a GET starts it anew.    *)
THEOREM AcksGrow ==
    ASSUME Small, ~Shared
    PROVE  Spec /\ []GetsHaveRoom => MaxAckGrows
<1> DEFINE GStep == \A r \in Peers : GrowsAt(r)
<1>1. SmallAll /\ Transfers(TRUE) /\ [Next]_vars => GStep
  BY NextGrows DEF SmallAll
<1>2. Init => SmallAll /\ Transfers(TRUE)
  BY InitSmallAll, InitTransfers
<1>3. SmallAll /\ Transfers(TRUE) /\ GetsHaveRoom /\ [Next]_vars =>
          SmallAll' /\ Transfers(TRUE)'
  BY NextSmallSure
<1>4. GStep => \A p \in Peers :
          upload'[p].max_ack < upload[p].max_ack =>
              \E q \in Peers : Arrived(q, p, "GET")
  BY DEF GrowsAt
<1> HIDE DEF GStep
<1> QED
  BY <1>1, <1>2, <1>3, <1>4, PTL DEF Spec, MaxAckGrows
=============================================================================
