---------------------------- MODULE PromiseProofs ----------------------------
(***************************************************************************)
(* A chunk is downloaded once, and the download of a file is what Delivery *)
(* promises: in swarms where no chunk that waits at one provider can be    *)
(* had from another, first with files of two lines, then of any length.    *)
(***************************************************************************)
EXTENDS SmallProofs, FiniteSetTheorems

(* A chunk on the waiting list keeps status 0 when its GET is sent.  It    *)
(* can only be listed behind another chunk that was asked for at once; the *)
(* peers p asks next do not have it.                                       *)
Apart ==
    \A p \in Peers : \A q, r \in Peers \ {p} :
        q # r => Orders(p) \cap Behind(p, q) \cap Hashes(HasFiles[r]) = {}

(* The sessions of a peer: of different lines, each marked as being asked  *)
(* for, or from the waiting list.                                          *)
Sorted(p) ==
    /\ \A i, j \in Sessions(p) :
          download[p][i].rid = download[p][j].rid => i = j
    /\ \A i \in Sessions(p) :
          LET s == download[p][i]
              status == chunk_status[p][s.rid].status
          IN  /\ status # 2
              /\ status = 1 \/ Wanted(p, s.rid) \in Behind(p, s.from)

(* Lines without GOT: nothing is in the file beyond what the session of    *)
(* the line has written, and nothing at all when it has none.              *)
Blank(p) ==
    \A l \in 0 .. Len(request_file(p)) - 1 : \A b \in 1 .. N :
        \/ output[p][l][b] = Hole
        \/ chunk_status[p][l].status = 2
        \/ \E i \in Sessions(p) :
              download[p][i].rid = l /\ b <= download[p][i].pos

AllSorted == \A p \in Peers : Sorted(p)
AllBlank == \A p \in Peers : Blank(p)

-----------------------------------------------------------------------------
(* One session for each line.                                              *)
LEMMA SameSorted ==
    ASSUME NEW p, Sorted(p), request_file(p)' = request_file(p),
           download'[p] = download[p], chunk_status'[p] = chunk_status[p]
    PROVE  Sorted(p)'
<1>1. Sessions(p)' = Sessions(p) /\ \A l : Wanted(p, l)' = Wanted(p, l)
  BY DEF Sessions, Wanted
<1> QED
  BY <1>1 DEF Sorted

(* A second session for the same line would be with another provider.      *)
LEMMA OpensAlone ==
    ASSUME Apart, Known, Orderly', NEW p \in Peers, Sorted(p),
           NEW q \in Peers, NEW rid, OpensFor(p, q, rid),
           chunk_status[p][rid].status \notin {1, 2}, NEW i \in Sessions(p)
    PROVE  download[p][i].rid # rid
<1>1. SUFFICES ASSUME download[p][i].rid = rid PROVE FALSE
  OBVIOUS
<1> DEFINE c == Wanted(p, rid)
           r == download[p][i].from
<1>2. c \in Behind(p, r)
  BY <1>1 DEF Sorted
<1>3. c \in Offer(p, q) /\ r \in Peers /\ c \in Offer(p, r)
  <2>1. TableFits(p, download[p])
    BY TablesNow
  <2> QED
    BY <1>1, <2>1 DEF OpensFor, TableFits, Sessions
<1>4. c \in Orders(p) /\ c \in Hashes(HasFiles[q]) /\ q # p /\ r # p
  <2>1. Wishes(p) \subseteq Orders(p)
    BY OrdersWished DEF Known, IInv
  <2> HIDE DEF c, r
  <2> QED
    BY <1>3, <2>1 DEF Offer
<1>5. r = q
  <2> HIDE DEF c, r
  <2> QED
    BY <1>2, <1>3, <1>4 DEF Apart
<1>6. Open(download[p], q) = {}
  BY OpensOrderly
<1> QED
  BY <1>5, <1>6 DEF Open, Sessions

(* The chunk of an opened session is marked, or it waited on the list.     *)
Marks(p, q, rid) ==
    /\ \A r \in Peers : r # p => chunk_status'[r] = chunk_status[r]
    /\ \A l \in Lines : l # rid => chunk_status'[p][l] = chunk_status[p][l]
    /\ \/ chunk_status'[p][rid].status = 1
       \/ /\ chunk_status'[p][rid].status \notin {1, 2}
          /\ Wanted(p, rid) \in Behind(p, q)

LEMMA OpeningSorted ==
    ASSUME Apart, Known, Orderly', AllSorted, NEW p \in Peers,
           NEW q \in Peers, NEW rid, OpensFor(p, q, rid),
           chunk_status[p][rid].status \notin {1, 2}, Marks(p, q, rid)
    PROVE  AllSorted'
<1> DEFINE f == find_free_download_info(download[p])
<1>1. /\ f \in 0 .. MaxConn - 1 /\ ~download[p][f].active
      /\ download'[p] = [download[p] EXCEPT ![f] = new_session(rid, q)]
      /\ \A r \in Peers : r # p => download'[r] = download[r]
  BY OpensOrderly
<1>2. \A r : request_file(r)' = request_file(r)
  BY DEF OpensFor, request_file
<1> HIDE DEF f
<1>3. ASSUME NEW r \in Peers, r # p PROVE Sorted(r)'
  BY <1>1, <1>2, <1>3, SameSorted DEF AllSorted, Marks
<1>4. Sorted(p) /\ download[p] \in [Slots -> Session]
  BY KnownTypes DEF AllSorted
<1>5. /\ \A i \in 0 .. MaxConn - 1 : i \in Slots
      /\ \A l : Wanted(p, l)' = Wanted(p, l)
  BY <1>2, TablesAssumption DEF Slots, Wanted
<1>6. /\ download'[p][f] = new_session(rid, q)
      /\ \A i \in 0 .. MaxConn - 1 : i # f => download'[p][i] = download[p][i]
      /\ new_session(rid, q).rid = rid /\ new_session(rid, q).from = q
  BY <1>1, <1>4, <1>5 DEF new_session
<1>7. \A i \in Sessions(p) : download[p][i].rid # rid
  BY <1>4, OpensAlone
<1>8. \A i \in Sessions(p)' : i = f \/ (i \in Sessions(p) /\ i # f)
  BY <1>6 DEF Sessions
<1>9. ASSUME NEW i \in Sessions(p)', NEW j \in Sessions(p)',
             download'[p][i].rid = download'[p][j].rid
      PROVE  i = j
  <2>1. i \in 0 .. MaxConn - 1 /\ j \in 0 .. MaxConn - 1
    BY <1>9 DEF Sessions
  <2>2. CASE i # f /\ j # f
    BY <1>4, <1>6, <1>8, <1>9, <2>1, <2>2 DEF Sorted
  <2> QED
    BY <1>6, <1>7, <1>8, <1>9, <2>1, <2>2
<1>10. ASSUME NEW i \in Sessions(p)'
       PROVE  /\ chunk_status'[p][download'[p][i].rid].status # 2
              /\ \/ chunk_status'[p][download'[p][i].rid].status = 1
                 \/ Wanted(p, download'[p][i].rid) \in Behind(p, download'[p][i].from)
  <2>1. CASE i = f
    BY <1>6, <2>1 DEF Marks
  <2>2. CASE i # f
    <3>1. i \in Sessions(p) /\ download'[p][i] = download[p][i]
      BY <1>6, <1>8, <2>2 DEF Sessions
    <3>2. download[p][i].rid \in Lines /\ download[p][i].rid # rid
      BY <1>4, <1>5, <1>7, <3>1 DEF Sessions, Session
    <3> QED
      BY <1>4, <3>1, <3>2 DEF Sorted, Marks
  <2> QED
    BY <2>1, <2>2
<1>11. Sorted(p)'
  <2>1. \A i \in Sessions(p)' :
            Behind(p, download'[p][i].from) = Behind(p, download[p][i].from)'
    BY DEF Behind
  <2> QED
    BY <1>5, <1>9, <1>10, <2>1 DEF Sorted
<1> QED
  BY <1>3, <1>11 DEF AllSorted

(* An accepted block, as the tables and the file show it.                  *)
LEMMA AcceptMoves ==
    ASSUME Plain, Known, PairInv, AllStored, OneSessionPerPeer,
           NEW p \in Peers, NEW q \in Peers,
           Arrived(q, p, "DATA"), accept_DATA(p, q, Head(net[q][p]))
    PROVE  LET k == session_from(p, q)
               rid == download[p][k].rid
               pos == download[p][k].pos
           IN  /\ \A r \in Peers : r # p => /\ download'[r] = download[r]
                                            /\ chunk_status'[r] = chunk_status[r]
                                            /\ output'[r] = output[r]
               /\ \A r : request_file(r)' = request_file(r)
               /\ k \in Sessions(p) /\ IsLine(p, rid)
               /\ rid \in 0 .. MaxLines - 1
               /\ pos \in Nat /\ pos + 1 \in 1 .. N
               /\ \A i \in 0 .. MaxConn - 1 : i # k =>
                     download'[p][i] = download[p][i]
               /\ \A l \in 0 .. MaxLines - 1 : l # rid =>
                     /\ chunk_status'[p][l] = chunk_status[p][l]
                     /\ output'[p][l] = output[p][l]
               /\ \A b \in 1 .. N : b # pos + 1 =>
                     output'[p][rid][b] = output[p][rid][b]
               /\ \/ /\ pos + 1 < N /\ k \in Sessions(p)'
                     /\ download'[p][k].rid = rid
                     /\ download'[p][k].from = download[p][k].from
                     /\ download'[p][k].pos = pos + 1
                     /\ UNCHANGED chunk_status
                  \/ /\ pos + 1 = N /\ k \notin Sessions(p)'
                     /\ chunk_status'[p][rid].status = 2
<1> DEFINE k == session_from(p, q)
           s == download[p][k]
<1>1. SlotBeyond /\ BlocksInPlace
  BY StoredIs
<1>2. /\ k \in 0 .. MaxConn - 1 /\ s.active
      /\ s.rid \in 0 .. MaxLines - 1 /\ IsLine(p, s.rid)
      /\ s.pos \in Nat /\ s.pos + 1 \in 1 .. N
      /\ output' = [output EXCEPT
            ![p][s.rid][s.pos + 1] = <<Wanted(p, s.rid), s.pos + 1>>]
      /\ UNCHANGED gets
      /\ \/ /\ s.pos + 1 < N
            /\ download' = [download EXCEPT ![p][k] =
                   [s EXCEPT !.pos = s.pos + 1, !.seq = s.seq + 1]]
            /\ UNCHANGED chunk_status
         \/ /\ s.pos + 1 = N
            /\ download' = [download EXCEPT ![p][k] = NoSession]
            /\ chunk_status' = [chunk_status EXCEPT ![p][s.rid].status = 2]
  BY <1>1, AcceptStores
<1>3. /\ download \in [Peers -> [Slots -> Session]]
      /\ chunk_status \in [Peers -> [Lines -> ChunkState]]
      /\ output \in [Peers -> [0 .. MaxLines - 1 -> [1 .. N -> Cell]]]
      /\ \A i \in 0 .. MaxConn - 1 : i \in Slots
      /\ \A l \in 0 .. MaxLines - 1 : l \in Lines
      /\ \A r : request_file(r)' = request_file(r)
  <2>1. /\ download \in [Peers -> [Slots -> Session]]
        /\ chunk_status \in [Peers -> [Lines -> ChunkState]] /\ TypeOK
    BY TablesNow
  <2>2. output \in [Peers -> [0 .. MaxLines - 1 -> [1 .. N -> Cell]]]
    BY <2>1 DEF TypeOK, DownloaderTypeOK
  <2>3. /\ \A i \in 0 .. MaxConn - 1 : i \in Slots
        /\ \A l \in 0 .. MaxLines - 1 : l \in Lines
    BY TablesAssumption, RequestFilesAssumption DEF Slots, Lines
  <2>4. \A r : request_file(r)' = request_file(r)
    BY <1>2 DEF request_file
  <2> QED
    BY <2>1, <2>2, <2>3, <2>4
<1>4. s \in Session /\ k \in Sessions(p)
  BY <1>2, <1>3 DEF Sessions
<1> HIDE DEF k, s
<1>5. /\ \A r \in Peers : r # p => /\ download'[r] = download[r]
                                   /\ chunk_status'[r] = chunk_status[r]
                                   /\ output'[r] = output[r]
      /\ \A i \in 0 .. MaxConn - 1 : i # k => download'[p][i] = download[p][i]
      /\ \A l \in 0 .. MaxLines - 1 : l # s.rid =>
            chunk_status'[p][l] = chunk_status[p][l]
  BY <1>2, <1>3
<1>6. /\ \A l \in 0 .. MaxLines - 1 : l # s.rid => output'[p][l] = output[p][l]
      /\ \A b \in 1 .. N : b # s.pos + 1 => output'[p][s.rid][b] = output[p][s.rid][b]
  BY <1>2, <1>3
<1>7. \/ /\ s.pos + 1 < N /\ k \in Sessions(p)'
         /\ download'[p][k].rid = s.rid /\ download'[p][k].from = s.from
         /\ download'[p][k].pos = s.pos + 1
         /\ UNCHANGED chunk_status
      \/ /\ s.pos + 1 = N /\ k \notin Sessions(p)'
         /\ chunk_status'[p][s.rid].status = 2
  <2>1. CASE s.pos + 1 < N
    <3>1. /\ download'[p][k] = [s EXCEPT !.pos = s.pos + 1, !.seq = s.seq + 1]
          /\ UNCHANGED chunk_status
      BY <1>2, <1>3, <2>1
    <3> QED
      BY <1>2, <1>4, <2>1, <3>1 DEF Session, Sessions
  <2>2. CASE s.pos + 1 = N
    <3>1. /\ download'[p][k] = NoSession
          /\ chunk_status' = [chunk_status EXCEPT ![p][s.rid].status = 2]
      BY <1>2, <1>3, <2>2
    <3>2. chunk_status'[p][s.rid].status = 2
      <4>1. chunk_status[p][s.rid] \in ChunkState
        BY <1>2, <1>3
      <4> QED
        BY <1>2, <1>3, <3>1, <4>1 DEF ChunkState, Status
    <3> QED
      BY <2>2, <3>1, <3>2 DEF NoSession, Sessions
  <2> QED
    BY <1>2, <2>1, <2>2
<1> QED
  BY <1>2, <1>3, <1>4, <1>5, <1>6, <1>7 DEF s, k

(* The session of an accepted block goes on, or ends with GOT.             *)
LEMMA AcceptSorted ==
    ASSUME Plain, Known, PairInv, AllStored, OneSessionPerPeer, AllSorted,
           NEW p \in Peers, NEW q \in Peers,
           Arrived(q, p, "DATA"), accept_DATA(p, q, Head(net[q][p]))
    PROVE  AllSorted'
<1>1. PICK k \in Sessions(p), rid \in 0 .. MaxLines - 1 :
          /\ rid = download[p][k].rid
          /\ \A r \in Peers : r # p => /\ download'[r] = download[r]
                                       /\ chunk_status'[r] = chunk_status[r]
          /\ \A r : request_file(r)' = request_file(r)
          /\ \A i \in 0 .. MaxConn - 1 : i # k =>
                download'[p][i] = download[p][i]
          /\ \A l \in 0 .. MaxLines - 1 : l # rid =>
                chunk_status'[p][l] = chunk_status[p][l]
          /\ \/ /\ k \in Sessions(p)' /\ UNCHANGED chunk_status
                /\ download'[p][k].rid = rid
                /\ download'[p][k].from = download[p][k].from
             \/ k \notin Sessions(p)'
  BY AcceptMoves, SMTT(30)
<1>2. Sorted(p) /\ TableFits(p, download[p])
  BY TablesNow DEF AllSorted
<1>3. ASSUME NEW i \in Sessions(p)'
      PROVE  /\ i \in Sessions(p)
             /\ download'[p][i].rid = download[p][i].rid
             /\ download'[p][i].from = download[p][i].from
             /\ UNCHANGED chunk_status \/ i # k
  BY <1>1, <1>3 DEF Sessions
<1>4. ASSUME NEW i \in Sessions(p)'
      PROVE  chunk_status'[p][download[p][i].rid] = chunk_status[p][download[p][i].rid]
  <2>1. CASE UNCHANGED chunk_status
    BY <2>1
  <2>2. CASE i # k
    <3>1. download[p][i].rid # rid
      BY <1>1, <1>2, <1>3, <1>4, <2>2 DEF Sorted
    <3>2. download[p][i].rid \in 0 .. MaxLines - 1
      <4>1. IsLine(p, download[p][i].rid)
        BY <1>2, <1>3, <1>4 DEF TableFits, Sessions
      <4>2. Len(request_file(p)) \in 0 .. MaxLines
        BY RequestFileType DEF Known, IInv
      <4> QED
        BY <4>1, <4>2, RequestFilesAssumption DEF IsLine
    <3> QED
      BY <1>1, <3>1, <3>2
  <2> QED
    BY <1>3, <1>4, <2>1, <2>2
<1>5. Sorted(p)'
  <2>1. \A l : Wanted(p, l)' = Wanted(p, l)
    BY <1>1 DEF Wanted
  <2>2. ASSUME NEW i \in Sessions(p)', NEW j \in Sessions(p)',
               download'[p][i].rid = download'[p][j].rid
        PROVE  i = j
    BY <1>2, <1>3, <2>2 DEF Sorted
  <2>3. ASSUME NEW i \in Sessions(p)'
        PROVE  /\ chunk_status'[p][download'[p][i].rid].status # 2
               /\ \/ chunk_status'[p][download'[p][i].rid].status = 1
                  \/ Wanted(p, download'[p][i].rid) \in Behind(p, download'[p][i].from)
    BY <1>2, <1>3, <1>4, <2>3 DEF Sorted
  <2>4. \A i \in Sessions(p)' :
            Behind(p, download'[p][i].from) = Behind(p, download[p][i].from)'
    BY DEF Behind
  <2> QED
    BY <2>1, <2>2, <2>3, <2>4 DEF Sorted
<1> QED
  BY <1>1, <1>5, SameSorted DEF AllSorted

LEMMA UserInputSorted ==
    ASSUME OneGet, Known, AllSorted, NEW p \in Peers, handle_user_input(p)
    PROVE  AllSorted'
<1>1. /\ Sessions(p) = {} /\ download' = download
      /\ \A r \in Peers : r # p => /\ chunk_status'[r] = chunk_status[r]
                                   /\ request_file(r)' = request_file(r)
  BY GetStarts, FirstGet DEF Known
<1>2. ASSUME NEW r \in Peers, r # p PROVE Sorted(r)'
  BY <1>1, <1>2, SameSorted DEF AllSorted
<1>3. Sorted(p)'
  BY <1>1 DEF Sorted, Sessions
<1> QED
  BY <1>2, <1>3 DEF AllSorted

(* The two ways a session is opened.                                       *)
LEMMA OpeningMarks ==
    ASSUME Known, NEW p \in Peers, UNCHANGED upload
    PROVE  /\ get_first_hash(p) =>
                 \E q \in Peers, rid \in Lines :
                     /\ OpensFor(p, q, rid) /\ Marks(p, q, rid)
                     /\ chunk_status[p][rid].status \notin {1, 2}
           /\ send_entry(p) =>
                 \E q \in Peers, rid \in Lines :
                     /\ OpensFor(p, q, rid) /\ Marks(p, q, rid)
                     /\ chunk_status[p][rid].status \notin {1, 2}
<1>1. chunk_status \in [Peers -> [Lines -> ChunkState]]
  BY TablesNow
<1>2. \A rid : IsLine(p, rid) => rid \in Lines
  <2>1. Len(request_file(p)) \in 0 .. MaxLines
    BY RequestFileType DEF Known, IInv
  <2> QED
    BY <2>1, RequestFilesAssumption DEF IsLine, Lines
<1>3. ASSUME get_first_hash(p)
      PROVE  \E q \in Peers, rid \in Lines :
                 /\ OpensFor(p, q, rid) /\ Marks(p, q, rid)
                 /\ chunk_status[p][rid].status \notin {1, 2}
  <2> DEFINE rid == search_id_for_hash(p, Head(task[p].left))
             q == task[p].from
  <2>1. q \in Peers /\ OpensFor(p, q, rid) /\ rid \in Lines
    BY <1>2, <1>3, OpeningIs DEF OpensFor
  <2>2. /\ chunk_status[p][rid].status \notin {1, 2}
        /\ chunk_status' = [chunk_status EXCEPT ![p][rid] =
               [status |-> 1, hash |-> Head(task[p].left)]]
    BY <1>3 DEF get_first_hash, is_wanted
  <2> HIDE DEF rid, q
  <2>3. Marks(p, q, rid)
    BY <1>1, <2>1, <2>2 DEF Marks
  <2> QED
    BY <2>1, <2>2, <2>3
<1>4. ASSUME send_entry(p)
      PROVE  \E q \in Peers, rid \in Lines :
                 /\ OpensFor(p, q, rid) /\ Marks(p, q, rid)
                 /\ chunk_status[p][rid].status \notin {1, 2}
  <2> DEFINE entry == waiting[p][task[p].at]
  <2>1. /\ entry.from \in Peers /\ OpensFor(p, entry.from, entry.rid)
        /\ entry.rid \in Lines
    BY <1>2, <1>4, OpeningIs DEF OpensFor
  <2>2. chunk_status[p][entry.rid].status \notin {1, 2} /\ UNCHANGED chunk_status
    BY <1>4 DEF send_entry, is_asked_for, status_of
  <2>3. task[p].at \in Entries /\ entry.active
    <3>1. task[p].at \in Entries /\ entry \in Waiting
      BY <1>4, ScanFields, TablesAssumption DEF send_entry, Known, Entries
    <3> QED
      BY <3>1 DEF Waiting
  <2>4. Wanted(p, entry.rid) \in Behind(p, entry.from)
    <3>1. ListFits(p, waiting[p])
      BY TablesNow
    <3> QED
      BY <2>3, <3>1 DEF ListFits
  <2> HIDE DEF entry
  <2>5. Marks(p, entry.from, entry.rid)
    BY <2>2, <2>4 DEF Marks
  <2> QED
    BY <2>1, <2>2, <2>5
<1> QED
  BY <1>3, <1>4

LEMMA CalmSorted ==
    ASSUME AllSorted, UNCHANGED <<gets, chunk_status, download>>
    PROVE  AllSorted'
<1>1. \A r : request_file(r)' = request_file(r)
  BY DEF request_file
<1> QED
  BY <1>1, SameSorted DEF AllSorted

LEMMA NextSorted ==
    ASSUME Apart, Plain, Known, PairInv, AllStored, Orderly, Orderly',
           AllSorted, [Next]_vars
    PROVE  AllSorted'
<1>1. OneGet /\ OneSessionPerPeer
  BY DEF Plain, Orderly
<1>2. CASE UNCHANGED client
  BY <1>2, CalmSorted DEF client
<1>3. ASSUME NEW p \in Peers, get_first_hash(p) \/ send_entry(p), UNCHANGED upload
      PROVE  AllSorted'
  <2>1. PICK q \in Peers, rid \in Lines :
            /\ OpensFor(p, q, rid) /\ Marks(p, q, rid)
            /\ chunk_status[p][rid].status \notin {1, 2}
    BY <1>3, OpeningMarks
  <2> QED
    BY <2>1, OpeningSorted
<1>4. ASSUME NEW p \in Peers,
             wake(p) \/ other_input(p) \/ work(p) \/ handle_user_input(p) \/ timer(p)
      PROVE  AllSorted'
  BY <1>1, <1>2, <1>3, <1>4, CalmSorted, UserInputSorted
  DEF wake, other_input, timer, work, skip_hash, queue_hash, drop_entry,
      keep_entry
<1>5. ASSUME NEW p \in Peers, NEW q \in Peers, process_inbound_udp(p, q)
      PROVE  AllSorted'
  BY <1>1, <1>2, <1>5, AcceptSorted
  DEF process_inbound_udp, deal_with_DATA, deal_with_IHAVE, ignore_DATA
<1> QED
  BY <1>2, <1>4, <1>5 DEF Next, vars, disturb

LEMMA InitSorted ==
    ASSUME Init
    PROVE  AllSorted
<1>1. \A i \in 0 .. MaxConn - 1 : i \in Slots /\ i # -1
  BY TablesAssumption DEF Slots
<1>2. \A p \in Peers : Sessions(p) = {}
  BY <1>1 DEF Init, DownloaderInit, Sessions, NoSession
<1> QED
  BY <1>2 DEF AllSorted, Sorted

(* A chunk is downloaded by one session at a time, where no chunk that is  *)
(* listed behind another can be had from two peers.                        *)
THEOREM OneSessionEachChunk ==
    ASSUME Small, Apart
    PROVE  Spec => []OneSessionPerChunk
<1>1. AllSorted => OneSessionPerChunk
  BY DEF AllSorted, Sorted, OneSessionPerChunk
<1>2. SmallAll /\ AllSorted /\ [Next]_vars => SmallAll' /\ AllSorted'
  <2> SUFFICES ASSUME SmallAll, AllSorted, [Next]_vars
               PROVE  SmallAll' /\ AllSorted'
    OBVIOUS
  <2>1. SmallAll' /\ Orderly /\ Orderly'
    BY NextSmallAll
  <2> QED
    BY <2>1, NextSorted DEF SmallAll, Small
<1> QED
  BY <1>1, <1>2, InitSmallAll, InitSorted, PTL DEF Spec

-----------------------------------------------------------------------------
(* What is in the file.                                                    *)
LEMMA SameBlank ==
    ASSUME NEW p, Blank(p), request_file(p)' = request_file(p),
           download'[p] = download[p], chunk_status'[p] = chunk_status[p],
           output'[p] = output[p]
    PROVE  Blank(p)'
<1>1. Sessions(p)' = Sessions(p)
  BY DEF Sessions
<1> QED
  BY <1>1 DEF Blank

(* The table of a peer that opens a session.                               *)
LEMMA OpeningAdds ==
    ASSUME Known, Orderly', NEW p \in Peers, NEW q \in Peers, NEW rid,
           OpensFor(p, q, rid)
    PROVE  /\ \A r \in Peers : r # p => download'[r] = download[r]
           /\ \A r : request_file(r)' = request_file(r) /\ output'[r] = output[r]
           /\ \A i \in Sessions(p) :
                 i \in Sessions(p)' /\ download'[p][i] = download[p][i]
           /\ \E f \in 0 .. MaxConn - 1 :
                 /\ f \in Sessions(p)' /\ download'[p][f] = new_session(rid, q)
                 /\ \A i \in Sessions(p)' : i # f => i \in Sessions(p)
<1> DEFINE f == find_free_download_info(download[p])
<1>1. /\ f \in 0 .. MaxConn - 1 /\ ~download[p][f].active
      /\ download'[p] = [download[p] EXCEPT ![f] = new_session(rid, q)]
      /\ \A r \in Peers : r # p => download'[r] = download[r]
  BY OpensOrderly
<1>2. \A r : request_file(r)' = request_file(r) /\ output'[r] = output[r]
  BY DEF OpensFor, request_file
<1>3. download[p] \in [Slots -> Session] /\ \A i \in 0 .. MaxConn - 1 : i \in Slots
  BY KnownTypes, TablesAssumption DEF Slots
<1> HIDE DEF f
<1>4. /\ download'[p][f] = new_session(rid, q) /\ new_session(rid, q).active
      /\ \A i \in 0 .. MaxConn - 1 : i # f => download'[p][i] = download[p][i]
  BY <1>1, <1>3 DEF new_session
<1>5. \A i \in Sessions(p) : i \in Sessions(p)' /\ download'[p][i] = download[p][i]
  BY <1>1, <1>4 DEF Sessions
<1>6. f \in Sessions(p)' /\ \A i \in Sessions(p)' : i # f => i \in Sessions(p)
  BY <1>1, <1>4 DEF Sessions
<1> QED
  BY <1>1, <1>2, <1>4, <1>5, <1>6

LEMMA OpeningBlank ==
    ASSUME Known, Orderly', AllBlank, NEW p \in Peers,
           NEW q \in Peers, NEW rid, OpensFor(p, q, rid),
           chunk_status[p][rid].status \notin {1, 2}, Marks(p, q, rid)
    PROVE  AllBlank'
<1>1. /\ \A r \in Peers : r # p => download'[r] = download[r]
      /\ \A r : request_file(r)' = request_file(r) /\ output'[r] = output[r]
      /\ \A i \in Sessions(p) :
            i \in Sessions(p)' /\ download'[p][i] = download[p][i]
  BY OpeningAdds
<1>2. ASSUME NEW r \in Peers, r # p PROVE Blank(r)'
  BY <1>1, <1>2, SameBlank DEF AllBlank, Marks
<1>3. Blank(p) /\ IsLine(p, rid)
  BY DEF AllBlank, OpensFor
<1>4. /\ Len(request_file(p)) \in 0 .. MaxLines
      /\ \A l \in 0 .. MaxLines - 1 : l \in Lines
      /\ \A l \in 0 .. Len(request_file(p)) - 1 : l \in 0 .. MaxLines - 1
  BY RequestFileType, RequestFilesAssumption DEF Known, IInv, Lines
<1>5. \A l \in 0 .. MaxLines - 1 : l # rid =>
          chunk_status'[p][l] = chunk_status[p][l]
  BY <1>4 DEF Marks
<1>6. ASSUME NEW l \in 0 .. Len(request_file(p)) - 1, NEW b \in 1 .. N
      PROVE  \/ output[p][l][b] = Hole
             \/ chunk_status'[p][l].status = 2
             \/ \E i \in Sessions(p)' :
                   download'[p][i].rid = l /\ b <= download'[p][i].pos
  <2>1. CASE chunk_status[p][l].status = 2
    <3>1. l # rid
      BY <2>1
    <3> QED
      BY <1>4, <1>5, <2>1, <3>1
  <2> QED
    BY <1>1, <1>3, <2>1 DEF Blank
<1>7. Blank(p)'
  BY <1>1, <1>6 DEF Blank
<1> QED
  BY <1>2, <1>7 DEF AllBlank

LEMMA AcceptBlank ==
    ASSUME Plain, Known, PairInv, AllStored, OneSessionPerPeer, AllBlank,
           NEW p \in Peers, NEW q \in Peers,
           Arrived(q, p, "DATA"), accept_DATA(p, q, Head(net[q][p]))
    PROVE  AllBlank'
<1>1. PICK k \in Sessions(p), rid \in 0 .. MaxLines - 1, pos \in Nat :
          /\ rid = download[p][k].rid /\ pos = download[p][k].pos
          /\ \A r \in Peers : r # p => /\ download'[r] = download[r]
                                       /\ chunk_status'[r] = chunk_status[r]
                                       /\ output'[r] = output[r]
          /\ \A r : request_file(r)' = request_file(r)
          /\ IsLine(p, rid) /\ pos + 1 \in 1 .. N
          /\ \A i \in 0 .. MaxConn - 1 : i # k =>
                download'[p][i] = download[p][i]
          /\ \A l \in 0 .. MaxLines - 1 : l # rid =>
                /\ chunk_status'[p][l] = chunk_status[p][l]
                /\ output'[p][l] = output[p][l]
          /\ \A b \in 1 .. N : b # pos + 1 =>
                output'[p][rid][b] = output[p][rid][b]
          /\ \/ /\ pos + 1 < N /\ k \in Sessions(p)'
                /\ download'[p][k].rid = rid /\ download'[p][k].pos = pos + 1
                /\ UNCHANGED chunk_status
             \/ /\ pos + 1 = N /\ k \notin Sessions(p)'
                /\ chunk_status'[p][rid].status = 2
  BY AcceptMoves, SMTT(30)
<1>2. /\ Len(request_file(p)) \in 0 .. MaxLines
      /\ \A l \in 0 .. Len(request_file(p)) - 1 : l \in 0 .. MaxLines - 1
  BY RequestFileType, RequestFilesAssumption DEF Known, IInv
<1>3. Blank(p)
  BY DEF AllBlank
<1>4. ASSUME NEW i \in Sessions(p), i # k
      PROVE  i \in Sessions(p)' /\ download'[p][i] = download[p][i]
  BY <1>1, <1>4 DEF Sessions
<1>5. ASSUME NEW l \in 0 .. Len(request_file(p)) - 1, NEW b \in 1 .. N
      PROVE  \/ output'[p][l][b] = Hole
             \/ chunk_status'[p][l].status = 2
             \/ \E i \in Sessions(p)' :
                   download'[p][i].rid = l /\ b <= download'[p][i].pos
  <2>1. \/ output[p][l][b] = Hole
        \/ chunk_status[p][l].status = 2
        \/ \E i \in Sessions(p) : download[p][i].rid = l /\ b <= download[p][i].pos
    BY <1>3 DEF Blank
  <2>2. CASE l # rid
    <3>1. /\ chunk_status'[p][l] = chunk_status[p][l]
          /\ output'[p][l] = output[p][l]
      BY <1>1, <1>2, <2>2
    <3> QED
      BY <1>1, <1>4, <2>1, <2>2, <3>1
  <2>3. CASE l = rid /\ UNCHANGED chunk_status
    <3>1. CASE b = pos + 1 \/ \E i \in Sessions(p) :
                   i = k /\ download[p][i].rid = l /\ b <= download[p][i].pos
      <4>1. CASE pos + 1 = N
        BY <1>1, <2>3, <4>1
      <4>2. CASE pos + 1 < N
        <5>1. /\ k \in Sessions(p)' /\ download'[p][k].rid = rid
              /\ download'[p][k].pos = pos + 1
          BY <1>1, <4>2
        <5>2. b <= pos + 1
          BY <1>1, <3>1
        <5> QED
          BY <2>3, <5>1, <5>2
      <4>3. pos + 1 = N \/ pos + 1 < N
        BY <1>1
      <4> QED
        BY <4>1, <4>2, <4>3
    <3>2. CASE b # pos + 1 /\ output[p][l][b] = Hole
      BY <1>1, <2>3, <3>2
    <3>3. CASE chunk_status[p][l].status = 2
      BY <2>3, <3>3
    <3>4. CASE \E i \in Sessions(p) :
                   i # k /\ download[p][i].rid = l /\ b <= download[p][i].pos
      BY <1>4, <3>4
    <3> QED
      BY <2>1, <3>1, <3>2, <3>3, <3>4
  <2>4. CASE l = rid /\ ~UNCHANGED chunk_status
    BY <1>1, <2>4
  <2> QED
    BY <2>2, <2>3, <2>4
<1>6. Blank(p)'
  BY <1>1, <1>5 DEF Blank
<1> QED
  BY <1>1, <1>6, SameBlank DEF AllBlank

LEMMA UserInputBlank ==
    ASSUME OneGet, Known, AllBlank, NEW p \in Peers,
           handle_user_input(p)
    PROVE  AllBlank'
<1>1. /\ output'[p] = [l \in 0 .. MaxLines - 1 |-> [b \in 1 .. N |-> Hole]]
      /\ \A r \in Peers : r # p => /\ chunk_status'[r] = chunk_status[r]
                                   /\ output'[r] = output[r]
                                   /\ request_file(r)' = request_file(r)
      /\ download' = download
  BY GetStarts, FirstGet DEF Known
<1>2. ASSUME NEW r \in Peers, r # p PROVE Blank(r)'
  BY <1>1, <1>2, SameBlank DEF AllBlank
<1>3. \A l \in 0 .. Len(request_file(p)') - 1 : l \in 0 .. MaxLines - 1
  <2> DEFINE file == RequestFiles[p][1]
  <2>1. request_file(p)' = file /\ 1 \in 1 .. Len(RequestFiles[p])
    BY FirstGet DEF Known
  <2>2. RequestFiles[p] \in Seq(Seq(Chunks)) /\ Len(file) <= MaxLines
    BY <2>1, RequestFilesAssumption
  <2>3. file \in Seq(Chunks)
    BY <2>1, <2>2, ElementOfSeq
  <2> HIDE DEF file
  <2>4. Len(file) \in Nat /\ Len(file) <= MaxLines
    BY <2>2, <2>3
  <2>5. \A l \in 0 .. Len(file) - 1 : l \in 0 .. MaxLines - 1
    BY <2>4, RequestFilesAssumption
  <2> QED
    BY <2>1, <2>5
<1>4. Blank(p)'
  BY <1>1, <1>3 DEF Blank
<1> QED
  BY <1>2, <1>4 DEF AllBlank

LEMMA CalmBlank ==
    ASSUME AllBlank, UNCHANGED <<gets, chunk_status, download, output>>
    PROVE  AllBlank'
<1>1. \A r : request_file(r)' = request_file(r)
  BY DEF request_file
<1> QED
  BY <1>1, SameBlank DEF AllBlank

LEMMA NextBlank ==
    ASSUME Plain, Known, PairInv, AllStored, Orderly,
           Orderly', AllBlank, [Next]_vars
    PROVE  AllBlank'
<1>1. OneGet /\ OneSessionPerPeer
  BY DEF Plain, Orderly
<1>2. CASE UNCHANGED client
  BY <1>2, CalmBlank DEF client
<1>3. ASSUME NEW p \in Peers, get_first_hash(p) \/ send_entry(p), UNCHANGED upload
      PROVE  AllBlank'
  <2>1. PICK q \in Peers, rid \in Lines :
            /\ OpensFor(p, q, rid) /\ Marks(p, q, rid)
            /\ chunk_status[p][rid].status \notin {1, 2}
    BY <1>3, OpeningMarks
  <2> QED
    BY <2>1, OpeningBlank
<1>4. ASSUME NEW p \in Peers,
             wake(p) \/ other_input(p) \/ work(p) \/ handle_user_input(p) \/ timer(p)
      PROVE  AllBlank'
  BY <1>1, <1>2, <1>3, <1>4, CalmBlank, UserInputBlank
  DEF wake, other_input, timer, work, skip_hash, queue_hash, drop_entry,
      keep_entry
<1>5. ASSUME NEW p \in Peers, NEW q \in Peers, process_inbound_udp(p, q)
      PROVE  AllBlank'
  BY <1>1, <1>2, <1>5, AcceptBlank
  DEF process_inbound_udp, deal_with_DATA, deal_with_IHAVE, ignore_DATA
<1> QED
  BY <1>2, <1>4, <1>5 DEF Next, vars, disturb

LEMMA InitBlank ==
    ASSUME Init
    PROVE  AllBlank
<1>1. \A p \in Peers : Len(request_file(p)) = 0
  BY EmptySeq DEF Init, DownloaderInit, request_file
<1>2. \A l : l \notin 0 .. 0 - 1
  OBVIOUS
<1> QED
  BY <1>1, <1>2 DEF AllBlank, Blank

-----------------------------------------------------------------------------
(* A line of the request file: reported GOT, written by a session that has *)
(* stored n blocks, or neither.                                            *)
Done(p, l) == l < Len(request_file(p)) /\ chunk_status[p][l].status = 2
Going(p, l, n) ==
    \E i \in Sessions(p) : download[p][i].rid = l /\ download[p][i].pos = n
Idle(p, l) ==
    ~Done(p, l) /\ \A i \in Sessions(p) : download[p][i].rid # l

(* Delivery's reading of such a line.                                      *)
Shows(p, l, stage, stored) == stage_of(p, l) = stage /\ stored_of(p, l) = stored

Seen(p, l) ==
    /\ Done(p, l) => Shows(p, l, "got", N)
    /\ \A n \in Nat : Going(p, l, n) => Shows(p, l, "coming", n)
    /\ Idle(p, l) => Shows(p, l, "absent", 0)
    /\ Done(p, l) \/ Idle(p, l) \/ \E n \in Nat : Going(p, l, n)

AllSeen == \A p \in Peers : \A l \in 0 .. MaxLines - 1 : Seen(p, l)

LEMMA StoredBlocks ==
    ASSUME NEW p, NEW l, l < Len(request_file(p)), NEW n \in 0 .. N,
           \A b \in 1 .. n : output[p][l][b] = ChunkOf(Wanted(p, l))[b],
           n < N => output[p][l][n + 1] = Hole
    PROVE  stored_of(p, l) = n
<1> DEFINE R == right_blocks(p, l)
<1>1. N \in Nat
  BY NAssumption
<1>2. \A b \in 1 .. N : ChunkOf(Wanted(p, l))[b] # Hole
  BY DEF ChunkOf, Hole
<1>3. R = 1 .. n
  <2>1. ASSUME NEW b \in 1 .. N, \A a \in 1 .. b :
                   output[p][l][a] = ChunkOf(Wanted(p, l))[a]
        PROVE  b \in 1 .. n
    <3>1. SUFFICES ASSUME b > n PROVE FALSE
      BY <1>1
    <3>2. n < N /\ n + 1 \in 1 .. b /\ n + 1 \in 1 .. N
      BY <1>1, <3>1
    <3> QED
      BY <1>2, <2>1, <3>2
  <2>2. ASSUME NEW b \in 1 .. n
        PROVE  b \in 1 .. N /\ \A a \in 1 .. b : a \in 1 .. n
    BY <1>1
  <2> QED
    BY <2>1, <2>2 DEF right_blocks
<1> HIDE DEF R
<1>4. Cardinality(R) = n
  BY <1>3, FS_Interval
<1> QED
  BY <1>4 DEF stored_of, R

LEMMA AllAreSeen ==
    ASSUME Known, AllStored, AllSorted, AllBlank, NEW p \in Peers,
           NEW l \in 0 .. MaxLines - 1
    PROVE  Seen(p, l)
<1>1. /\ Stored(p) /\ Sorted(p) /\ Blank(p) /\ TableFits(p, download[p])
      /\ download[p] \in [Slots -> Session]
      /\ Len(request_file(p)) \in 0 .. MaxLines
  BY TablesNow, RequestFileType DEF AllStored, AllSorted, AllBlank
<1>2. N \in Nat \ {0}
  BY NAssumption
<1>3. ASSUME Done(p, l) PROVE Shows(p, l, "got", N)
  <2>1. l < Len(request_file(p)) /\ l \in 0 .. Len(request_file(p)) - 1
    <3> DEFINE n == Len(request_file(p))
    <3>1. n \in Nat /\ ~(l >= n)
      BY <1>1, <1>3 DEF Blank, Done
    <3> HIDE DEF n
    <3>2. l < n /\ l \in 0 .. n - 1
      BY <3>1
    <3> QED
      BY <3>2 DEF n
  <2>2. output[p][l] = ChunkOf(Wanted(p, l))
    BY <1>1, <1>3, <2>1 DEF Stored, Done
  <2>3. N \in 0 .. N /\ ~(N < N)
    BY <1>2
  <2>4. stored_of(p, l) = N
    BY <2>1, <2>2, <2>3, StoredBlocks
  <2> QED
    BY <1>3, <2>4 DEF Shows, stage_of, Done
<1>4. ASSUME NEW i \in Sessions(p), download[p][i].rid = l
      PROVE  /\ Shows(p, l, "coming", download[p][i].pos)
             /\ download[p][i].pos \in Nat
  <2> DEFINE n == download[p][i].pos
  <2>1. IsLine(p, l) /\ l < Len(request_file(p))
    <3>1. IsLine(p, l)
      BY <1>1, <1>4 DEF TableFits, Sessions
    <3> DEFINE m == Len(request_file(p))
    <3>2. m \in Nat /\ l \in 0 .. m - 1
      BY <1>1, <3>1 DEF IsLine
    <3> HIDE DEF m
    <3>3. l < m
      BY <3>2
    <3> QED
      BY <3>1, <3>3 DEF m
  <2>2. n \in Nat /\ n < N
    <3>1. i \in Slots
      BY TablesAssumption DEF Sessions, Slots
    <3>2. n < N
      BY DEF Known, SessionInStep
    <3> QED
      BY <1>1, <3>1, <3>2 DEF Session
  <2>3. chunk_status[p][l].status # 2
    BY <1>1, <1>4 DEF Sorted
  <2>4. \A b \in 1 .. n : output[p][l][b] = ChunkOf(Wanted(p, l))[b]
    BY <1>1, <1>4 DEF Stored
  <2>5. \A j \in Sessions(p) : download[p][j].rid = l => download[p][j].pos = n
    BY <1>1, <1>4 DEF Sorted
  <2> HIDE DEF n
  <2>6. n \in 0 .. N /\ n + 1 \in 1 .. N /\ ~(n + 1 <= n)
    BY <1>2, <2>2
  <2>7. output[p][l][n + 1] = Hole
    BY <1>1, <2>1, <2>3, <2>5, <2>6 DEF Blank, IsLine
  <2>8. stored_of(p, l) = n
    BY <2>1, <2>4, <2>6, <2>7, StoredBlocks
  <2> QED
    BY <1>4, <2>2, <2>3, <2>8 DEF n, Shows, stage_of
<1>5. ASSUME Idle(p, l) PROVE Shows(p, l, "absent", 0)
  <2>1. stage_of(p, l) = "absent"
    BY <1>5 DEF Idle, Done, stage_of
  <2>2. CASE l < Len(request_file(p))
    <3>1. l \in 0 .. Len(request_file(p)) - 1
      <4> DEFINE m == Len(request_file(p))
      <4>1. m \in Nat /\ l < m
        BY <1>1, <2>2
      <4> HIDE DEF m
      <4>2. l \in 0 .. m - 1
        BY <4>1
      <4> QED
        BY <4>2 DEF m
    <3>2. 0 \in 0 .. N /\ 1 \in 1 .. N /\ 0 + 1 = 1 /\ \A b : b \notin 1 .. 0
      BY <1>2
    <3>3. output[p][l][1] = Hole
      BY <1>1, <1>5, <3>1, <3>2 DEF Blank, Idle, Done
    <3>4. stored_of(p, l) = 0
      BY <2>2, <3>2, <3>3, StoredBlocks
    <3> QED
      BY <2>1, <3>4 DEF Shows
  <2>3. CASE ~(l < Len(request_file(p)))
    BY <2>1, <2>3 DEF Shows, stored_of
  <2> QED
    BY <2>2, <2>3
<1>6. \A n : Going(p, l, n) => n \in Nat /\ Shows(p, l, "coming", n)
  BY <1>4 DEF Going
<1>7. Done(p, l) \/ Idle(p, l) \/ \E n \in Nat : Going(p, l, n)
  BY <1>4 DEF Idle, Going
<1> QED
  BY <1>3, <1>5, <1>6, <1>7 DEF Seen

(* A line that a step leaves as it was.                                    *)
Stays(p, l) ==
    /\ Done(p, l) => Done(p, l)'
    /\ \A n \in Nat : Going(p, l, n) => Going(p, l, n)'
    /\ Idle(p, l) => Idle(p, l)'

LEMMA StaysSame ==
    ASSUME NEW p, NEW l, Seen(p, l), Seen(p, l)', Stays(p, l)
    PROVE  stage_of(p, l)' = stage_of(p, l) /\ stored_of(p, l)' = stored_of(p, l)
  BY DEF Seen, Stays, Shows

StageMap == [p \in Peers |-> [l \in 0 .. MaxLines - 1 |-> stage_of(p, l)]]
StoredMap == [p \in Peers |-> [l \in 0 .. MaxLines - 1 |-> stored_of(p, l)]]

(* The steps of Delivery in the maps.                                      *)
LEMMA DeliveryIs ==
    /\ Promise!Init <=>
          /\ StageMap = [p \in Peers |-> [l \in 0 .. MaxLines - 1 |-> "absent"]]
          /\ StoredMap = [p \in Peers |-> [l \in 0 .. MaxLines - 1 |-> 0]]
    /\ StageMap' = StageMap /\ StoredMap' = StoredMap => UNCHANGED Promise!State
    /\ \A p \in Peers, l \in 0 .. MaxLines - 1 :
          \/ /\ StageMap[p][l] = "absent"
             /\ StageMap' = [StageMap EXCEPT ![p][l] = "coming"]
             /\ StoredMap' = StoredMap
          \/ /\ StageMap[p][l] = "coming" /\ StoredMap[p][l] < N - 1
             /\ StoredMap' = [StoredMap EXCEPT ![p][l] = @ + 1]
             /\ StageMap' = StageMap
          \/ /\ StageMap[p][l] = "coming" /\ StoredMap[p][l] = N - 1
             /\ StoredMap' = [StoredMap EXCEPT ![p][l] = N]
             /\ StageMap' = [StageMap EXCEPT ![p][l] = "got"]
          => Promise!Next
<1>1. /\ StageMap' = [p \in Peers |-> [l \in 0 .. MaxLines - 1 |-> stage_of(p, l)']]
      /\ StoredMap' = [p \in Peers |-> [l \in 0 .. MaxLines - 1 |-> stored_of(p, l)']]
  BY DEF StageMap, StoredMap
<1> QED
  BY <1>1 DEF StageMap, StoredMap, Promise!Init, Promise!State, Promise!Next,
         Promise!Begin, Promise!Store, Promise!Finish

MapsStep == Promise!Next \/ UNCHANGED Promise!State

LEMMA StillMaps ==
    ASSUME AllSeen, AllSeen',
           \A p \in Peers : \A l \in 0 .. MaxLines - 1 : Stays(p, l)
    PROVE  MapsStep
<1>1. \A p \in Peers : \A l \in 0 .. MaxLines - 1 :
          stage_of(p, l)' = stage_of(p, l) /\ stored_of(p, l)' = stored_of(p, l)
  BY StaysSame DEF AllSeen
<1>2. StageMap' = StageMap /\ StoredMap' = StoredMap
  BY <1>1 DEF StageMap, StoredMap
<1> QED
  BY <1>2, DeliveryIs DEF MapsStep

(* One line moves on: its session is opened, stores a block, or ends.      *)
Moves(p, l) ==
    \/ Idle(p, l) /\ Going(p, l, 0)'
    \/ \E n \in Nat :
          /\ Going(p, l, n)
          /\ \/ n + 1 < N /\ Going(p, l, n + 1)'
             \/ n + 1 = N /\ Done(p, l)'

(* Two tables that differ in one cell at most.                             *)
Table(F) == F = [r \in Peers |-> [m \in 0 .. MaxLines - 1 |-> F[r][m]]]
Differ(F, G, p, l) ==
    \A r \in Peers : \A m \in 0 .. MaxLines - 1 :
        r # p \/ m # l => G[r][m] = F[r][m]

LEMMA OneCell ==
    ASSUME NEW F, NEW G, Table(F), Table(G),
           NEW p \in Peers, NEW l \in 0 .. MaxLines - 1, Differ(F, G, p, l)
    PROVE  /\ G = [F EXCEPT ![p][l] = G[p][l]]
           /\ G[p][l] = F[p][l] => G = F
<1> DEFINE T == 0 .. MaxLines - 1
<1>1. /\ F = [r \in Peers |-> [m \in T |-> F[r][m]]]
      /\ G = [r \in Peers |-> [m \in T |-> G[r][m]]]
      /\ l \in T
      /\ \A r \in Peers : \A m \in T : r # p \/ m # l => G[r][m] = F[r][m]
  BY DEF Table, Differ
<1> HIDE DEF T
<1>2. ASSUME NEW r \in Peers
      PROVE  /\ F[r] = [m \in T |-> F[r][m]]
             /\ G[r] = [m \in T |-> G[r][m]]
  BY <1>1
<1>3. ASSUME NEW r \in Peers, r # p PROVE G[r] = F[r]
  <2>1. [m \in T |-> G[r][m]] = [m \in T |-> F[r][m]]
    BY <1>1, <1>3
  <2> QED
    BY <1>2, <2>1
<1>4. G[p] = [F[p] EXCEPT ![l] = G[p][l]]
  <2>1. [m \in T |-> G[p][m]] = [[m \in T |-> F[p][m]] EXCEPT ![l] = G[p][l]]
    BY <1>1
  <2> QED
    BY <1>2, <2>1
<1>5. G = [F EXCEPT ![p] = G[p]]
  <2>1. [r \in Peers |-> G[r]] = [[r \in Peers |-> F[r]] EXCEPT ![p] = G[p]]
    BY <1>3
  <2>2. F = [r \in Peers |-> F[r]] /\ G = [r \in Peers |-> G[r]]
    BY <1>1
  <2> QED
    BY <2>1, <2>2
<1>6. G = [F EXCEPT ![p][l] = G[p][l]]
  BY <1>4, <1>5
<1>7. ASSUME G[p][l] = F[p][l] PROVE G = F
  <2>1. \A r \in Peers : \A m \in T : G[r][m] = F[r][m]
    BY <1>1, <1>7
  <2> QED
    BY <1>1, <2>1
<1> QED
  BY <1>6, <1>7

LEMMA MovesMap ==
    ASSUME AllSeen, AllSeen', NEW p \in Peers, NEW l \in 0 .. MaxLines - 1,
           Moves(p, l),
           \A r \in Peers : \A m \in 0 .. MaxLines - 1 :
               r # p \/ m # l => Stays(r, m)
    PROVE  MapsStep
<1>1. Differ(StageMap, StageMap', p, l) /\ Differ(StoredMap, StoredMap', p, l)
  <2>1. ASSUME NEW r \in Peers, NEW m \in 0 .. MaxLines - 1, r # p \/ m # l
        PROVE  /\ StageMap'[r][m] = StageMap[r][m]
               /\ StoredMap'[r][m] = StoredMap[r][m]
    BY <2>1, StaysSame DEF AllSeen, StageMap, StoredMap
  <2> QED
    BY <2>1 DEF Differ
<1>2. /\ Table(StageMap) /\ Table(StageMap')
      /\ Table(StoredMap) /\ Table(StoredMap')
  BY DEF StageMap, StoredMap, Table
<1>3. /\ StageMap[p][l] = stage_of(p, l) /\ StageMap'[p][l] = stage_of(p, l)'
      /\ StoredMap[p][l] = stored_of(p, l) /\ StoredMap'[p][l] = stored_of(p, l)'
  BY DEF StageMap, StoredMap
<1>4. Seen(p, l) /\ Seen(p, l)'
  BY DEF AllSeen
<1> HIDE DEF StageMap, StoredMap
<1>5. /\ StageMap' = [StageMap EXCEPT ![p][l] = StageMap'[p][l]]
      /\ StageMap'[p][l] = StageMap[p][l] => StageMap' = StageMap
  BY <1>1, <1>2, OneCell
<1>6. /\ StoredMap' = [StoredMap EXCEPT ![p][l] = StoredMap'[p][l]]
      /\ StoredMap'[p][l] = StoredMap[p][l] => StoredMap' = StoredMap
  BY <1>1, <1>2, OneCell
<1>7. CASE Idle(p, l) /\ Going(p, l, 0)'
  <2>1. /\ StageMap[p][l] = "absent" /\ StageMap'[p][l] = "coming"
        /\ StoredMap'[p][l] = StoredMap[p][l]
    BY <1>3, <1>4, <1>7 DEF Seen, Shows
  <2> QED
    BY <1>5, <1>6, <2>1, DeliveryIs DEF MapsStep
<1>8. ASSUME NEW n \in Nat, Going(p, l, n), n + 1 < N, Going(p, l, n + 1)'
      PROVE  MapsStep
  <2>1. /\ StageMap[p][l] = "coming" /\ StageMap'[p][l] = "coming"
        /\ StoredMap[p][l] = n /\ StoredMap'[p][l] = n + 1
    BY <1>3, <1>4, <1>8 DEF Seen, Shows
  <2>2. n < N - 1
    BY <1>8, NAssumption
  <2> QED
    BY <1>5, <1>6, <2>1, <2>2, DeliveryIs DEF MapsStep
<1>9. ASSUME NEW n \in Nat, Going(p, l, n), n + 1 = N, Done(p, l)'
       PROVE  MapsStep
  <2>1. /\ StageMap[p][l] = "coming" /\ StageMap'[p][l] = "got"
        /\ StoredMap[p][l] = n /\ StoredMap'[p][l] = N
    BY <1>3, <1>4, <1>9 DEF Seen, Shows
  <2>2. n = N - 1
    BY <1>9, NAssumption
  <2> QED
    BY <1>5, <1>6, <2>1, <2>2, DeliveryIs DEF MapsStep
<1> QED
  BY <1>7, <1>8, <1>9 DEF Moves

LEMMA SameStays ==
    ASSUME NEW r, request_file(r)' = request_file(r),
           chunk_status'[r] = chunk_status[r], download'[r] = download[r]
    PROVE  \A l : Stays(r, l)
  BY DEF Stays, Done, Going, Idle, Sessions

LEMMA OpeningMaps ==
    ASSUME Apart, Known, Orderly', AllSorted, AllSeen, AllSeen',
           NEW p \in Peers, NEW q \in Peers, NEW rid \in Lines,
           OpensFor(p, q, rid), Marks(p, q, rid),
           chunk_status[p][rid].status \notin {1, 2}
    PROVE  MapsStep
<1>1. rid \in 0 .. MaxLines - 1 /\ \A l \in 0 .. MaxLines - 1 : l \in Lines
  <2>1. Len(request_file(p)) \in 0 .. MaxLines /\ IsLine(p, rid)
    BY RequestFileType DEF Known, IInv, OpensFor
  <2> QED
    BY <2>1, RequestFilesAssumption DEF IsLine, Lines
<1>2. /\ \A r \in Peers : r # p => download'[r] = download[r]
      /\ \A r : request_file(r)' = request_file(r)
      /\ \A i \in Sessions(p) :
            i \in Sessions(p)' /\ download'[p][i] = download[p][i]
  BY OpeningAdds
<1>3. PICK f \in 0 .. MaxConn - 1 :
          /\ f \in Sessions(p)' /\ download'[p][f] = new_session(rid, q)
          /\ \A i \in Sessions(p)' : i # f => i \in Sessions(p)
  BY OpeningAdds
<1>4. download'[p][f].rid = rid /\ download'[p][f].pos = 0
  BY <1>3 DEF new_session
<1>5. Idle(p, rid)
  <2>1. \A i \in Sessions(p) : download[p][i].rid # rid
    BY OpensAlone DEF AllSorted
  <2> QED
    BY <2>1 DEF Idle, Done
<1>6. Moves(p, rid)
  BY <1>3, <1>4, <1>5 DEF Moves, Going
<1>7. ASSUME NEW l \in 0 .. MaxLines - 1, l # rid PROVE Stays(p, l)
  <2>1. chunk_status'[p][l] = chunk_status[p][l]
    BY <1>1, <1>7 DEF Marks
  <2>2. \A n : Going(p, l, n) => Going(p, l, n)'
    BY <1>2 DEF Going
  <2>3. Idle(p, l) => Idle(p, l)'
    BY <1>2, <1>3, <1>4, <1>7, <2>1 DEF Idle, Done
  <2> QED
    BY <1>2, <2>1, <2>2, <2>3 DEF Stays, Done
<1>8. ASSUME NEW r \in Peers, r # p PROVE \A l : Stays(r, l)
  BY <1>2, <1>8, SameStays DEF Marks
<1> QED
  BY <1>1, <1>6, <1>7, <1>8, MovesMap

LEMMA AcceptMaps ==
    ASSUME Plain, Known, PairInv, AllStored, OneSessionPerPeer,
           AllSeen, AllSeen', NEW p \in Peers, NEW q \in Peers,
           Arrived(q, p, "DATA"), accept_DATA(p, q, Head(net[q][p]))
    PROVE  MapsStep
<1>1. PICK k \in Sessions(p), rid \in 0 .. MaxLines - 1, pos \in Nat :
          /\ rid = download[p][k].rid /\ pos = download[p][k].pos
          /\ \A r \in Peers : r # p => /\ download'[r] = download[r]
                                       /\ chunk_status'[r] = chunk_status[r]
          /\ \A r : request_file(r)' = request_file(r)
          /\ IsLine(p, rid)
          /\ \A i \in 0 .. MaxConn - 1 : i # k =>
                download'[p][i] = download[p][i]
          /\ \A l \in 0 .. MaxLines - 1 : l # rid =>
                chunk_status'[p][l] = chunk_status[p][l]
          /\ \/ /\ pos + 1 < N /\ k \in Sessions(p)'
                /\ download'[p][k].rid = rid /\ download'[p][k].pos = pos + 1
             \/ /\ pos + 1 = N /\ k \notin Sessions(p)'
                /\ chunk_status'[p][rid].status = 2
  BY AcceptMoves, SMTT(30)
<1>2. Moves(p, rid)
  <2>1. Going(p, rid, pos)
    BY <1>1 DEF Going
  <2>2. rid < Len(request_file(p)')
    <3>1. Len(request_file(p)) \in Nat
      BY RequestFileType DEF Known, IInv
    <3> QED
      BY <1>1, <3>1 DEF IsLine
  <2>3. \/ pos + 1 < N /\ Going(p, rid, pos + 1)'
        \/ pos + 1 = N /\ Done(p, rid)'
    BY <1>1, <2>2 DEF Going, Done
  <2> QED
    BY <1>1, <2>1, <2>3 DEF Moves
<1>3. ASSUME NEW l \in 0 .. MaxLines - 1, l # rid PROVE Stays(p, l)
  <2>1. chunk_status'[p][l] = chunk_status[p][l]
    BY <1>1, <1>3
  <2>2. \A n : Going(p, l, n) => Going(p, l, n)'
    BY <1>1, <1>3 DEF Going, Sessions
  <2>3. Idle(p, l) => Idle(p, l)'
    BY <1>1, <1>3, <2>1 DEF Idle, Done, Sessions
  <2> QED
    BY <1>1, <2>1, <2>2, <2>3 DEF Stays, Done
<1>4. ASSUME NEW r \in Peers, r # p PROVE \A l : Stays(r, l)
  BY <1>1, <1>4, SameStays
<1> QED
  BY <1>1, <1>2, <1>3, <1>4, MovesMap

LEMMA UserInputMaps ==
    ASSUME OneGet, Known, AllSeen, AllSeen', NEW p \in Peers,
           handle_user_input(p)
    PROVE  MapsStep
<1> DEFINE file == RequestFiles[p][1]
<1>1. /\ Sessions(p) = {} /\ download' = download
      /\ \A l \in 0 .. Len(file) - 1 : chunk_status'[p][l].status = 0
      /\ \A r \in Peers : r # p => /\ chunk_status'[r] = chunk_status[r]
                                   /\ request_file(r)' = request_file(r)
      /\ Len(request_file(p)) = 0 /\ request_file(p)' = file
      /\ 1 \in 1 .. Len(RequestFiles[p])
  BY GetStarts, FirstGet, EmptySeq DEF Known
<1>2. Len(file) \in Nat
  <2>1. file \in Seq(Chunks)
    BY <1>1, RequestFilesAssumption, ElementOfSeq
  <2> QED
    BY <2>1
<1> HIDE DEF file
<1>3. ASSUME NEW l \in 0 .. MaxLines - 1 PROVE Stays(p, l)
  <2>1. ~Done(p, l)
    BY <1>1 DEF Done
  <2>2. ~Done(p, l)'
    <3>1. l < Len(file) => l \in 0 .. Len(file) - 1
      BY <1>2
    <3> QED
      BY <1>1, <3>1 DEF Done
  <2>3. Sessions(p)' = {}
    BY <1>1 DEF Sessions
  <2> QED
    BY <1>1, <2>1, <2>2, <2>3 DEF Stays, Going, Idle
<1>4. ASSUME NEW r \in Peers, r # p PROVE \A l : Stays(r, l)
  BY <1>1, <1>4, SameStays
<1> QED
  BY <1>3, <1>4, StillMaps

LEMMA NextMaps ==
    ASSUME Apart, Plain, Known, PairInv, AllStored, Orderly,
           Orderly', AllSorted, AllSeen, AllSeen', [Next]_vars
    PROVE  MapsStep
<1>1. OneGet /\ OneSessionPerPeer
  BY DEF Plain, Orderly
<1>2. ASSUME UNCHANGED <<gets, chunk_status, download>> PROVE MapsStep
  <2>1. \A r : request_file(r)' = request_file(r)
    BY <1>2 DEF request_file
  <2> QED
    BY <1>2, <2>1, SameStays, StillMaps
<1>3. ASSUME NEW p \in Peers, get_first_hash(p) \/ send_entry(p), UNCHANGED upload
      PROVE  MapsStep
  <2>1. PICK q \in Peers, rid \in Lines :
            /\ OpensFor(p, q, rid) /\ Marks(p, q, rid)
            /\ chunk_status[p][rid].status \notin {1, 2}
    BY <1>3, OpeningMarks
  <2> QED
    BY <2>1, OpeningMaps
<1>4. ASSUME NEW p \in Peers,
             wake(p) \/ other_input(p) \/ work(p) \/ handle_user_input(p) \/ timer(p)
      PROVE  MapsStep
  BY <1>1, <1>2, <1>3, <1>4, UserInputMaps
  DEF wake, other_input, timer, work, skip_hash, queue_hash, drop_entry,
      keep_entry, client
<1>5. ASSUME NEW p \in Peers, NEW q \in Peers, process_inbound_udp(p, q)
      PROVE  MapsStep
  BY <1>1, <1>2, <1>5, AcceptMaps
  DEF process_inbound_udp, deal_with_DATA, deal_with_IHAVE, ignore_DATA, client
<1> QED
  BY <1>2, <1>4, <1>5 DEF Next, vars, disturb, client

(* At the start nothing was asked for and nothing is in the file.          *)
LEMMA InitMaps ==
    ASSUME Init, AllSeen
    PROVE  Promise!Init
<1>1. \A i \in 0 .. MaxConn - 1 : i \in Slots /\ i # -1
  BY TablesAssumption DEF Slots
<1>2. \A l \in 0 .. MaxLines - 1 : l \in Lines
  BY RequestFilesAssumption DEF Lines
<1>3. \A p \in Peers : Sessions(p) = {}
  BY <1>1 DEF Init, DownloaderInit, Sessions, NoSession
<1>4. \A p \in Peers : \A l \in 0 .. MaxLines - 1 : Idle(p, l)
  BY <1>2, <1>3 DEF Init, DownloaderInit, Idle, Done
<1>5. \A p \in Peers : \A l \in 0 .. MaxLines - 1 :
          stage_of(p, l) = "absent" /\ stored_of(p, l) = 0
  BY <1>4 DEF AllSeen, Seen, Shows
<1> QED
  BY <1>5, DeliveryIs DEF StageMap, StoredMap

(* The download of a file is what Delivery promises: whatever is lost,     *)
(* repeated or delayed, each step of the swarm begins one line, adds the   *)
(* next right block to one line, or leaves the lines as they were, and a   *)
(* line is GOT with its last block and stays so.                           *)
THEOREM DownloadKeepsPromise ==
    ASSUME Small, Apart
    PROVE  Spec => KeepsPromise
<1> DEFINE Inv == SmallAll /\ AllSorted /\ AllBlank
<1>1. Inv => AllSeen
  BY AllAreSeen DEF SmallAll, AllSeen
<1>2. Init => Inv
  BY InitSmallAll, InitSorted, InitBlank
<1>3. Inv /\ [Next]_vars => Inv'
  <2> SUFFICES ASSUME Inv, [Next]_vars PROVE Inv'
    OBVIOUS
  <2>1. SmallAll' /\ Orderly /\ Orderly'
    BY NextSmallAll
  <2> QED
    BY <2>1, NextSorted, NextBlank DEF SmallAll, Small
<1>4. Inv /\ AllSeen /\ AllSeen' /\ [Next]_vars => MapsStep
  <2> SUFFICES ASSUME Inv, AllSeen, AllSeen', [Next]_vars PROVE MapsStep
    OBVIOUS
  <2>1. Orderly /\ Orderly'
    BY NextSmallAll
  <2> QED
    BY <2>1, NextMaps DEF SmallAll, Small
<1>5. Init /\ AllSeen => Promise!Init
  BY InitMaps
<1>6. MapsStep => [Promise!Next]_(Promise!State)
  BY DEF MapsStep
<1> HIDE DEF Inv
<1> QED
  BY <1>1, <1>2, <1>3, <1>4, <1>5, <1>6, PTL DEF Spec, KeepsPromise, Promise!Spec

-----------------------------------------------------------------------------
(* FILES OF ANY LENGTH                                                     *)

(* One GET command each, no chunk that waits at one provider can be had    *)
(* from another, and no DATA is for the memory in front of the download    *)
(* table.  Providers may have several customers.                           *)
Many == OneGet /\ Apart /\ Vary /\ SlotUnmatched

(* The sessions and the entries of the list are for different lines.  The  *)
(* line of a session is marked as being asked for, or was listed behind    *)
(* another chunk, and is not GOT.                                          *)
Spread(p, table, list, status) ==
    /\ \A i, j \in 0 .. MaxConn - 1 :
          table[i].active /\ table[j].active /\ table[i].rid = table[j].rid
          => i = j
    /\ \A i, j \in 0 .. WaitMax - 1 :
          list[i].active /\ list[j].active /\ list[i].rid = list[j].rid
          => i = j
    /\ \A i \in 0 .. MaxConn - 1, j \in 0 .. WaitMax - 1 :
          table[i].active /\ list[j].active => table[i].rid # list[j].rid
    /\ \A i \in 0 .. MaxConn - 1 : table[i].active =>
          LET s == table[i]
          IN  /\ status[s.rid].status # 2
              /\ status[s.rid].status = 1 \/ Wanted(p, s.rid) \in Behind(p, s.from)

(* An IHAVE being read lists no chunk for which its sender was turned to   *)
(* before, and once its first chunk is asked for there is a session.       *)
Listens(p, t, table, list) ==
    t.doing = "parse" =>
        /\ AllDiffer(t.left)
        /\ \A i \in 0 .. MaxConn - 1 : table[i].active /\ table[i].from = t.from =>
              Wanted(p, table[i].rid) \notin Hashes(t.left)
        /\ \A i \in 0 .. WaitMax - 1 : list[i].active /\ list[i].from = t.from =>
              list[i].hash \notin Hashes(t.left)
        /\ t.sent => \E i \in 0 .. MaxConn - 1 :
                         table[i].active /\ table[i].from = t.from

Lined(p) ==
    /\ Spread(p, download[p], waiting[p], chunk_status[p])
    /\ Listens(p, task[p], download[p], waiting[p])

ManyInv == SlotBeyond /\ GotIntact /\ AskingInv /\ \A p \in Peers : Lined(p)
ManyAll == Known /\ ManyInv

-----------------------------------------------------------------------------
LEMMA StillLined ==
    ASSUME NEW p, request_file(p)' = request_file(p)
    PROVE  /\ \A table, list, status :
                 Spread(p, table, list, status)' = Spread(p, table, list, status)
           /\ \A t, table, list :
                 Listens(p, t, table, list)' = Listens(p, t, table, list)
<1>1. \A l : Wanted(p, l)' = Wanted(p, l)
  BY DEF Wanted
<1> QED
  BY <1>1 DEF Spread, Listens

LEMMA LinedNext ==
    ASSUME NEW p, request_file(p)' = request_file(p),
           Spread(p, download'[p], waiting'[p], chunk_status'[p]),
           Listens(p, task'[p], download'[p], waiting'[p])
    PROVE  Lined(p)'
<1> SUFFICES ASSUME NEW t, NEW table, NEW list, NEW status,
                    t = task'[p], table = download'[p], list = waiting'[p],
                    status = chunk_status'[p]
             PROVE  Spread(p, table, list, status)' /\ Listens(p, t, table, list)'
  BY DEF Lined
<1> QED
  BY StillLined

LEMMA CalmLined ==
    ASSUME NEW p, Lined(p), request_file(p)' = request_file(p),
           download'[p] = download[p], waiting'[p] = waiting[p],
           chunk_status'[p] = chunk_status[p],
           task'[p].doing # "parse" \/ task'[p] = task[p]
    PROVE  Lined(p)'
<1>1. Listens(p, task'[p], download[p], waiting[p])
  BY DEF Lined, Listens
<1> QED
  BY <1>1, LinedNext DEF Lined

(* Tables that lose sessions or entries.                                   *)
LEMMA SpreadLess ==
    ASSUME NEW p, NEW table, NEW list, NEW status,
           Spread(p, table, list, status), NEW table2, NEW list2, NEW status2,
           \A i \in 0 .. MaxConn - 1 : table2[i].active =>
               /\ table[i].active /\ table2[i].from = table[i].from
               /\ table2[i].rid = table[i].rid
               /\ status2[table[i].rid].status = status[table[i].rid].status,
           \A i \in 0 .. WaitMax - 1 : list2[i].active => list2[i] = list[i]
    PROVE  Spread(p, table2, list2, status2)
<1>1. \A i, j \in 0 .. MaxConn - 1 :
          table2[i].active /\ table2[j].active /\ table2[i].rid = table2[j].rid
          => i = j
  BY DEF Spread
<1>2. \A i, j \in 0 .. WaitMax - 1 :
          list2[i].active /\ list2[j].active /\ list2[i].rid = list2[j].rid
          => i = j
  BY DEF Spread
<1>3. \A i \in 0 .. MaxConn - 1, j \in 0 .. WaitMax - 1 :
          table2[i].active /\ list2[j].active => table2[i].rid # list2[j].rid
  BY DEF Spread
<1>4. ASSUME NEW i \in 0 .. MaxConn - 1, table2[i].active
      PROVE  LET s == table2[i]
             IN  /\ status2[s.rid].status # 2
                 /\ status2[s.rid].status = 1
                    \/ Wanted(p, s.rid) \in Behind(p, s.from)
  BY <1>4 DEF Spread
<1> QED
  BY <1>1, <1>2, <1>3, <1>4 DEF Spread

(* No session and no entry but one is for the line.                        *)
Alone(p, rid, table, list) ==
    /\ \A i \in 0 .. MaxConn - 1 : table[i].active => table[i].rid # rid
    /\ \A i \in 0 .. WaitMax - 1 : list[i].active => list[i].rid # rid

(* A session is opened, for a line marked now or listed before.            *)
LEMMA SpreadOpens ==
    ASSUME NEW p, NEW table \in [Slots -> Session], NEW list, NEW status,
           Spread(p, table, list, status), NEW list2, NEW status2,
           NEW q, NEW rid, NEW f \in 0 .. MaxConn - 1, Alone(p, rid, table, list2),
           \A i \in 0 .. WaitMax - 1 : list2[i].active => list2[i] = list[i],
           \A i \in 0 .. MaxConn - 1 : table[i].active =>
               status2[table[i].rid].status = status[table[i].rid].status,
           status2[rid].status # 2,
           status2[rid].status = 1 \/ Wanted(p, rid) \in Behind(p, q)
    PROVE  Spread(p, [table EXCEPT ![f] = new_session(rid, q)], list2, status2)
<1> DEFINE next == [table EXCEPT ![f] = new_session(rid, q)]
<1>1. /\ next[f].rid = rid /\ next[f].from = q
      /\ \A i \in 0 .. MaxConn - 1 : i # f => next[i] = table[i]
  BY TablesAssumption DEF new_session, Slots
<1> HIDE DEF next
<1>2. ASSUME NEW i \in 0 .. MaxConn - 1, NEW j \in 0 .. MaxConn - 1,
             next[i].active, next[j].active, next[i].rid = next[j].rid
      PROVE  i = j
  BY <1>1, <1>2 DEF Spread, Alone
<1>3. \A i, j \in 0 .. WaitMax - 1 :
          list2[i].active /\ list2[j].active /\ list2[i].rid = list2[j].rid
          => i = j
  BY DEF Spread
<1>4. ASSUME NEW i \in 0 .. MaxConn - 1, NEW j \in 0 .. WaitMax - 1,
             next[i].active, list2[j].active
      PROVE  next[i].rid # list2[j].rid
  BY <1>1, <1>4 DEF Spread, Alone
<1>5. ASSUME NEW i \in 0 .. MaxConn - 1, next[i].active
      PROVE  LET s == next[i]
             IN  /\ status2[s.rid].status # 2
                 /\ status2[s.rid].status = 1
                    \/ Wanted(p, s.rid) \in Behind(p, s.from)
  BY <1>1, <1>5 DEF Spread
<1>6. Spread(p, next, list2, status2)
  BY <1>2, <1>3, <1>4, <1>5 DEF Spread
<1> QED
  BY <1>6 DEF next

(* An entry is added.                                                      *)
LEMMA SpreadQueues ==
    ASSUME NEW p, NEW table, NEW list \in [Entries -> Waiting \cup {NoWaiting}],
           NEW status, Spread(p, table, list, status), NEW entry,
           NEW f \in 0 .. WaitMax - 1, Alone(p, entry.rid, table, list)
    PROVE  Spread(p, table, [list EXCEPT ![f] = entry], status)
<1> DEFINE next == [list EXCEPT ![f] = entry]
<1>1. /\ next[f] = entry
      /\ \A i \in 0 .. WaitMax - 1 : i # f => next[i] = list[i]
  BY TablesAssumption DEF Entries
<1> HIDE DEF next
<1>2. ASSUME NEW i \in 0 .. WaitMax - 1, NEW j \in 0 .. WaitMax - 1,
             next[i].active, next[j].active, next[i].rid = next[j].rid
      PROVE  i = j
  BY <1>1, <1>2 DEF Spread, Alone
<1>3. ASSUME NEW i \in 0 .. MaxConn - 1, NEW j \in 0 .. WaitMax - 1,
             table[i].active, next[j].active
      PROVE  table[i].rid # next[j].rid
  BY <1>1, <1>3 DEF Spread, Alone
<1>4. Spread(p, table, next, status)
  BY <1>2, <1>3 DEF Spread
<1> QED
  BY <1>4 DEF next

-----------------------------------------------------------------------------
(* A list of different chunks, read from the front.                        *)
LEMMA TailDiffers ==
    ASSUME NEW S, NEW seq \in Seq(S), seq # <<>>, AllDiffer(seq)
    PROVE  /\ Head(seq) \in Hashes(seq) /\ AllDiffer(Tail(seq))
           /\ Hashes(Tail(seq)) \subseteq Hashes(seq) \ {Head(seq)}
<1>1. Len(seq) \in Nat /\ Len(seq) # 0 /\ Head(seq) = seq[1]
  BY EmptySeq
<1>2. /\ Len(Tail(seq)) = Len(seq) - 1
      /\ \A i \in 1 .. Len(Tail(seq)) : Tail(seq)[i] = seq[i + 1]
  BY HeadTailProperties
<1>3. /\ 1 \in 1 .. Len(seq)
      /\ \A i \in 1 .. Len(Tail(seq)) : i + 1 \in 1 .. Len(seq) /\ i + 1 # 1
  BY <1>1, <1>2
<1>4. ASSUME NEW i \in 1 .. Len(Tail(seq)), NEW j \in 1 .. Len(Tail(seq)),
             Tail(seq)[i] = Tail(seq)[j]
      PROVE  i = j
  <2>1. i + 1 = j + 1
    BY <1>2, <1>3, <1>4 DEF AllDiffer
  <2> QED
    BY <2>1
<1>5. Hashes(Tail(seq)) \subseteq Hashes(seq) \ {Head(seq)}
  BY <1>1, <1>2, <1>3 DEF Hashes, AllDiffer
<1> QED
  BY <1>1, <1>3, <1>4, <1>5 DEF Hashes, AllDiffer

LEMMA ParsedOn ==
    ASSUME Known, NEW p \in Peers, Doing(p, "parse"), AllDiffer(task[p].left),
           NEW sent \in BOOLEAN, parsed(p, sent)
    PROVE  /\ Head(task[p].left) \in Hashes(task[p].left)
           /\ \/ task'[p].doing # "parse"
              \/ /\ AllDiffer(task'[p].left)
                 /\ Hashes(task'[p].left)
                       \subseteq Hashes(task[p].left) \ {Head(task[p].left)}
                 /\ task'[p].from = task[p].from /\ task'[p].sent = sent
<1> DEFINE t == task[p]
           left == t.left
<1>1. task \in [Peers -> Task] /\ t \in ParseTask
  BY TablesNow, TaskFields DEF Doing
<1>2. left \in Seq(Chunks) /\ left # <<>>
  BY <1>1 DEF ParseTask
<1>3. task'[p] = IF Len(left) = 1 THEN Select
                 ELSE [t EXCEPT !.left = Tail(left), !.sent = sent]
  BY <1>1 DEF parsed
<1>4. AllDiffer(left)
  OBVIOUS
<1> DEFINE u == [t EXCEPT !.left = Tail(left), !.sent = sent]
<1>5. u.left = Tail(left) /\ u.sent = sent /\ u.from = t.from
  BY <1>1 DEF ParseTask
<1>6. Select.doing # "parse"
  BY DEF Select
<1> HIDE DEF left, u
<1>7. /\ Head(left) \in Hashes(left) /\ AllDiffer(Tail(left))
      /\ Hashes(Tail(left)) \subseteq Hashes(left) \ {Head(left)}
  BY <1>2, <1>4, TailDiffers
<1>8. CASE task'[p] = Select
  BY <1>6, <1>7, <1>8 DEF left
<1>9. CASE task'[p] = u
  BY <1>5, <1>7, <1>9 DEF left
<1> QED
  BY <1>3, <1>8, <1>9 DEF u

-----------------------------------------------------------------------------
(* A chunk that q offers, and that r listed behind another.                *)
LEMMA Elsewhere ==
    ASSUME Apart, Known, NEW p \in Peers, NEW q \in Peers, NEW r \in Peers,
           NEW c, c \in Offer(p, q), c \in Offer(p, r), c \in Behind(p, r)
    PROVE  r = q
<1>1. Wishes(p) \subseteq Orders(p)
  BY OrdersWished DEF Known, IInv
<1>2. c \in Orders(p) /\ c \in Hashes(HasFiles[q]) /\ q # p /\ r # p
  BY <1>1 DEF Offer
<1> QED
  BY <1>2 DEF Apart

(* A line still to be asked for that q has a chunk for: what is in the tables for it *)
(* is with q.                                                              *)
LEMMA WithSender ==
    ASSUME Apart, Known, NEW p \in Peers, Lined(p), NEW q \in Peers, NEW rid,
           Wanted(p, rid) \in Offer(p, q), chunk_status[p][rid].status \notin {1, 2}
    PROVE  /\ \A i \in 0 .. MaxConn - 1 :
                 download[p][i].active /\ download[p][i].rid = rid =>
                     download[p][i].from = q
           /\ \A i \in 0 .. WaitMax - 1 :
                 waiting[p][i].active /\ waiting[p][i].rid = rid =>
                     waiting[p][i].from = q /\ waiting[p][i].hash = Wanted(p, rid)
<1> DEFINE c == Wanted(p, rid)
<1>1. TableFits(p, download[p]) /\ ListFits(p, waiting[p])
  BY TablesNow
<1>2. ASSUME NEW i \in 0 .. MaxConn - 1,
             download[p][i].active, download[p][i].rid = rid
      PROVE  download[p][i].from = q
  <2> DEFINE r == download[p][i].from
  <2>1. r \in Peers /\ c \in Offer(p, r) /\ c \in Offer(p, q)
    BY <1>1, <1>2 DEF TableFits
  <2>2. c \in Behind(p, r)
    BY <1>2 DEF Lined, Spread
  <2> HIDE DEF c, r
  <2>3. r = q
    BY <2>1, <2>2, Elsewhere
  <2> QED
    BY <2>3 DEF r
<1>3. ASSUME NEW i \in 0 .. WaitMax - 1,
             waiting[p][i].active, waiting[p][i].rid = rid
      PROVE  waiting[p][i].from = q /\ waiting[p][i].hash = c
  <2> DEFINE r == waiting[p][i].from
  <2>1. i \in Entries
    BY TablesAssumption DEF Entries
  <2>2. /\ waiting[p][i].hash = c /\ c \in Offer(p, r) /\ c \in Behind(p, r)
        /\ c \in Offer(p, q)
    BY <1>1, <1>3, <2>1 DEF ListFits
  <2>3. r \in Peers
    <3>1. waiting[p][i] \in Waiting \cup {NoWaiting}
      BY <2>1, TablesNow
    <3>2. waiting[p][i] \in Waiting
      BY <1>3, <3>1 DEF NoWaiting
    <3> HIDE DEF c
    <3> QED
      BY <3>2 DEF Waiting
  <2> HIDE DEF c, r
  <2>4. r = q
    BY <2>2, <2>3, Elsewhere
  <2> QED
    BY <2>2, <2>4 DEF r
<1> QED
  BY <1>2, <1>3

(* The line of the chunk that is read.                                     *)
LEMMA ReadLine ==
    ASSUME Known, NEW p \in Peers, Doing(p, "parse"), NEW sent \in BOOLEAN,
           parsed(p, sent)
    PROVE  LET c == Head(task[p].left)
               rid == search_id_for_hash(p, c)
           IN  /\ IsLine(p, rid) /\ rid \in Lines /\ Wanted(p, rid) = c
               /\ c \in Offer(p, task[p].from) /\ task[p].from \in Peers
<1> DEFINE c == Head(task[p].left)
           rid == search_id_for_hash(p, c)
<1>1. c \in Offer(p, task[p].from) /\ task[p].from \in Peers
  BY ParseFits, ParseFields DEF Known
<1>2. IsLine(p, rid) /\ Wanted(p, rid) = c
  BY <1>1, LineOfWish, TablesNow DEF Offer
<1>3. rid \in Lines
  <2>1. Len(request_file(p)) \in 0 .. MaxLines
    BY RequestFileType DEF Known, IInv
  <2> HIDE DEF rid
  <2> QED
    BY <1>2, <2>1, RequestFilesAssumption DEF IsLine, Lines
<1> QED
  BY <1>1, <1>2, <1>3

LEMMA FirstAlone ==
    ASSUME Apart, Known, AskingInv, NEW p \in Peers, Lined(p), get_first_hash(p)
    PROVE  Alone(p, search_id_for_hash(p, Head(task[p].left)),
                 download[p], waiting[p])
<1> DEFINE c == Head(task[p].left)
           rid == search_id_for_hash(p, c)
           q == task[p].from
<1>1. /\ Doing(p, "parse") /\ parsed(p, TRUE)
      /\ chunk_status[p][rid].status \notin {1, 2}
  BY WantedUnasked DEF get_first_hash
<1>2. Wanted(p, rid) \in Offer(p, q) /\ q \in Peers
  BY <1>1, ReadLine
<1>3. ~Engaged(p, q)
  BY FirstIsFirst
<1> HIDE DEF rid, q
<1>4. /\ \A i \in 0 .. MaxConn - 1 :
            download[p][i].active /\ download[p][i].rid = rid =>
                download[p][i].from = q
      /\ \A i \in 0 .. WaitMax - 1 :
            waiting[p][i].active /\ waiting[p][i].rid = rid =>
                waiting[p][i].from = q
  BY <1>1, <1>2, WithSender
<1>5. Alone(p, rid, download[p], waiting[p])
  BY <1>3, <1>4 DEF Alone, Engaged, Sessions
<1> QED
  BY <1>5 DEF rid

LEMMA QueueAlone ==
    ASSUME Apart, Known, NEW p \in Peers, Lined(p), queue_hash(p)
    PROVE  Alone(p, search_id_for_hash(p, Head(task[p].left)),
                 download[p], waiting[p])
<1> DEFINE c == Head(task[p].left)
           rid == search_id_for_hash(p, c)
           q == task[p].from
<1>1. /\ Doing(p, "parse") /\ parsed(p, TRUE)
      /\ chunk_status[p][rid].status \notin {1, 2}
  BY WantedUnasked DEF queue_hash
<1>2. Wanted(p, rid) = c /\ Wanted(p, rid) \in Offer(p, q) /\ q \in Peers
  BY <1>1, ReadLine
<1>3. /\ AllDiffer(task[p].left)
      /\ \A i \in 0 .. MaxConn - 1 :
            download[p][i].active /\ download[p][i].from = q =>
                Wanted(p, download[p][i].rid) \notin Hashes(task[p].left)
      /\ \A i \in 0 .. WaitMax - 1 :
            waiting[p][i].active /\ waiting[p][i].from = q =>
                waiting[p][i].hash \notin Hashes(task[p].left)
  BY <1>1 DEF Lined, Listens, Doing
<1>4. c \in Hashes(task[p].left)
  BY <1>1, <1>3, ParsedOn
<1> HIDE DEF c, rid, q
<1>5. /\ \A i \in 0 .. MaxConn - 1 :
            download[p][i].active /\ download[p][i].rid = rid =>
                download[p][i].from = q
      /\ \A i \in 0 .. WaitMax - 1 :
            waiting[p][i].active /\ waiting[p][i].rid = rid =>
                waiting[p][i].from = q /\ waiting[p][i].hash = Wanted(p, rid)
  BY <1>1, <1>2, WithSender DEF rid, c
<1>6. Alone(p, rid, download[p], waiting[p])
  BY <1>2, <1>3, <1>4, <1>5 DEF Alone
<1> QED
  BY <1>6 DEF rid, c

(* The entry a scan stands at, and the list without it.                    *)
LEMMA EntryAlone ==
    ASSUME Known, NEW p \in Peers, Lined(p), Doing(p, "scan"),
           waiting' = [waiting EXCEPT ![p][task[p].at] = NoWaiting]
    PROVE  /\ \A i \in 0 .. WaitMax - 1 :
                  waiting'[p][i].active => waiting'[p][i] = waiting[p][i]
           /\ ~waiting'[p][task[p].at].active
           /\ Alone(p, waiting[p][task[p].at].rid, download[p], waiting'[p])
           /\ waiting[p][task[p].at].active
<1> DEFINE at == task[p].at
<1>1. at \in 0 .. WaitMax - 1 /\ waiting[p][at].active /\ at \in Entries
  <2>1. at \in 0 .. WaitMax - 1 /\ waiting[p][at] \in Waiting
    BY ScanFields DEF Known
  <2> HIDE DEF at
  <2>2. waiting[p][at].active
    BY <2>1 DEF Waiting
  <2>3. at \in Entries
    BY <2>1, TablesAssumption DEF Entries
  <2> QED
    BY <2>1, <2>2, <2>3
<1> HIDE DEF at
<1>2. /\ ~waiting'[p][at].active
      /\ \A i \in Entries :
            waiting'[p][i].active => waiting'[p][i] = waiting[p][i]
  BY <1>1, ClearedEntry, TablesNow DEF at
<1>3. \A i \in 0 .. WaitMax - 1 : i \in Entries
  BY TablesAssumption DEF Entries
<1>4. Spread(p, download[p], waiting[p], chunk_status[p])
  BY DEF Lined
<1>5. ASSUME NEW i \in 0 .. WaitMax - 1, waiting'[p][i].active
      PROVE  waiting'[p][i].rid # waiting[p][at].rid
  BY <1>1, <1>2, <1>3, <1>4, <1>5 DEF Spread
<1>6. \A i \in 0 .. MaxConn - 1 :
          download[p][i].active => download[p][i].rid # waiting[p][at].rid
  BY <1>1, <1>4 DEF Spread
<1> QED
  BY <1>1, <1>2, <1>3, <1>5, <1>6 DEF Alone, at

-----------------------------------------------------------------------------
(* The steps of p keep its tables so.                                      *)
LEMMA SkipLined ==
    ASSUME Known, NEW p \in Peers, Lined(p), skip_hash(p)
    PROVE  Lined(p)'
<1>1. /\ Doing(p, "parse") /\ task[p].sent \in BOOLEAN /\ UNCHANGED client
      /\ AllDiffer(task[p].left)
  BY ParseFields DEF skip_hash, Known, Lined, Listens, Doing
<1>2. \/ task'[p].doing # "parse"
      \/ /\ AllDiffer(task'[p].left)
         /\ Hashes(task'[p].left) \subseteq Hashes(task[p].left)
         /\ task'[p].from = task[p].from /\ task'[p].sent = task[p].sent
  BY <1>1, ParsedOn DEF skip_hash
<1>3. Listens(p, task'[p], download[p], waiting[p])
  BY <1>1, <1>2 DEF Lined, Listens, Doing
<1> QED
  BY <1>1, <1>3, LinedNext DEF Lined, client, request_file

LEMMA FirstLined ==
    ASSUME Many, Known, AskingInv, NEW p \in Peers, Lined(p), get_first_hash(p),
           UNCHANGED upload, ~download'[p][-1].active
    PROVE  Lined(p)'
<1> DEFINE c == Head(task[p].left)
           rid == search_id_for_hash(p, c)
           q == task[p].from
           f == find_free_download_info(download[p])
<1>1. /\ Doing(p, "parse") /\ parsed(p, TRUE) /\ chunk_status[p][rid].status \notin {1, 2}
      /\ chunk_status' = [chunk_status EXCEPT ![p][rid] = [status |-> 1, hash |-> c]]
      /\ UNCHANGED <<gets, waiting>>
  BY WantedUnasked DEF get_first_hash
<1>2. rid \in Lines /\ Wanted(p, rid) = c /\ q \in Peers
  BY <1>1, ReadLine
<1>3. /\ f \in 0 .. MaxConn - 1
      /\ download'[p] = [download[p] EXCEPT ![f] = new_session(rid, q)]
  <2>1. OpensFor(p, q, rid)
    BY OpeningIs
  <2> HIDE DEF rid, q
  <2> QED
    BY <1>2, <2>1, OpensFree
<1>4. Alone(p, rid, download[p], waiting[p])
  BY FirstAlone DEF Many
<1>5. ~Engaged(p, q)
  BY FirstIsFirst
<1>6. AllDiffer(task[p].left) /\ Spread(p, download[p], waiting[p], chunk_status[p])
  BY <1>1 DEF Lined, Listens, Doing
<1>7. \/ task'[p].doing # "parse"
      \/ /\ AllDiffer(task'[p].left) /\ c \notin Hashes(task'[p].left)
         /\ task'[p].from = q
  BY <1>1, <1>6, ParsedOn
<1>8. /\ download[p] \in [Slots -> Session]
      /\ \A i \in 0 .. MaxConn - 1 : i \in Slots
      /\ chunk_status \in [Peers -> [Lines -> ChunkState]]
  BY TablesNow, TablesAssumption DEF Slots
<1> DEFINE table == download[p]
           list == waiting[p]
           status == chunk_status[p]
           status2 == chunk_status'[p]
<1> HIDE DEF c, rid, q, f
<1>9. /\ status2[rid].status = 1
      /\ \A l \in Lines : l # rid => status2[l] = status[l]
  BY <1>1, <1>2, <1>8
<1>10. \A i \in 0 .. MaxConn - 1 : table[i].active =>
           status2[table[i].rid].status = status[table[i].rid].status
  <2>1. \A i \in 0 .. MaxConn - 1 : table[i].rid \in Lines
    BY <1>8 DEF Session
  <2> QED
    BY <1>4, <1>9, <2>1 DEF Alone
<1> HIDE DEF table, list, status, status2
<1>11. Spread(p, [table EXCEPT ![f] = new_session(rid, q)], list, status2)
  <2>1. table \in [Slots -> Session] /\ Spread(p, table, list, status)
        /\ Alone(p, rid, table, list)
    BY <1>4, <1>6, <1>8 DEF table, list, status
  <2>2. status2[rid].status # 2 /\ status2[rid].status = 1
    BY <1>9
  <2> QED
    BY <1>3, <1>10, <2>1, <2>2, SpreadOpens
<1>12. Spread(p, download'[p], waiting'[p], chunk_status'[p])
  BY <1>1, <1>3, <1>11 DEF table, list, status2
<1>13. /\ download'[p][f] = new_session(rid, q)
       /\ \A i \in 0 .. MaxConn - 1 : i # f => download'[p][i] = download[p][i]
       /\ new_session(rid, q).rid = rid /\ new_session(rid, q).from = q
       /\ new_session(rid, q).active
  BY <1>3, <1>8 DEF new_session
<1>14. ASSUME task'[p].doing = "parse"
       PROVE  /\ AllDiffer(task'[p].left)
              /\ \A i \in 0 .. MaxConn - 1 :
                    download'[p][i].active /\ download'[p][i].from = task'[p].from
                    => Wanted(p, download'[p][i].rid) \notin Hashes(task'[p].left)
              /\ \A i \in 0 .. WaitMax - 1 :
                    waiting[p][i].active => waiting[p][i].from # task'[p].from
              /\ \E i \in 0 .. MaxConn - 1 :
                    download'[p][i].active /\ download'[p][i].from = task'[p].from
  <2>1. /\ AllDiffer(task'[p].left) /\ c \notin Hashes(task'[p].left)
        /\ task'[p].from = q
    BY <1>7, <1>14
  <2>2. \A i \in 0 .. MaxConn - 1 :
            download[p][i].active => download[p][i].from # q
    BY <1>5 DEF Engaged, Sessions
  <2>3. \A i \in 0 .. WaitMax - 1 : waiting[p][i].active => waiting[p][i].from # q
    BY <1>5 DEF Engaged
  <2> QED
    BY <1>2, <1>3, <1>13, <2>1, <2>2, <2>3
<1>15. Listens(p, task'[p], download'[p], waiting'[p])
  BY <1>1, <1>14 DEF Listens
<1> QED
  BY <1>1, <1>12, <1>15, LinedNext DEF request_file

LEMMA QueueLined ==
    ASSUME Many, Known, NEW p \in Peers, Lined(p), queue_hash(p),
           ~waiting'[p][-1].active
    PROVE  Lined(p)'
<1> DEFINE c == Head(task[p].left)
           rid == search_id_for_hash(p, c)
           q == task[p].from
           entry == [rid |-> rid, from |-> q, hash |-> c, active |-> TRUE]
           f == find_free_waiting_entity(waiting[p])
<1>1. /\ Doing(p, "parse") /\ task[p].sent /\ parsed(p, TRUE)
      /\ waiting' = [waiting EXCEPT ![p][f] = entry]
      /\ UNCHANGED <<gets, download, chunk_status>>
  BY DEF queue_hash
<1>2. /\ entry.rid = rid /\ entry.from = q /\ entry.hash = c /\ entry.active
  OBVIOUS
<1>3. Alone(p, rid, download[p], waiting[p])
  BY QueueAlone DEF Many
<1>4. AllDiffer(task[p].left) /\ Spread(p, download[p], waiting[p], chunk_status[p])
      /\ Listens(p, task[p], download[p], waiting[p])
  BY <1>1 DEF Lined, Listens, Doing
<1>5. \/ task'[p].doing # "parse"
      \/ /\ AllDiffer(task'[p].left)
         /\ Hashes(task'[p].left) \subseteq Hashes(task[p].left) \ {c}
         /\ task'[p].from = q
  BY <1>1, <1>4, ParsedOn
<1> HIDE DEF entry
<1>6. /\ waiting[p] \in [Entries -> Waiting \cup {NoWaiting}]
      /\ waiting'[p] = [waiting[p] EXCEPT ![f] = entry]
      /\ \A i \in 0 .. WaitMax - 1 : i \in Entries
      /\ -1 \in Entries
  BY <1>1, TablesNow, TablesAssumption DEF Entries
<1>7. f \in 0 .. WaitMax - 1
  <2>1. f \in 0 .. WaitMax - 1 \/ f = -1
    BY FirstIsIndex DEF find_free_waiting_entity
  <2> HIDE DEF f
  <2>2. f # -1
    BY <1>2, <1>6
  <2> QED
    BY <2>1, <2>2
<1> HIDE DEF c, rid, q, f
<1>8. Spread(p, download'[p], waiting'[p], chunk_status'[p])
  <2> DEFINE table == download[p]
             list == waiting[p]
             status == chunk_status[p]
  <2>1. /\ list \in [Entries -> Waiting \cup {NoWaiting}]
        /\ Spread(p, table, list, status) /\ Alone(p, entry.rid, table, list)
    BY <1>2, <1>3, <1>4, <1>6
  <2> HIDE DEF table, list, status
  <2>2. Spread(p, table, [list EXCEPT ![f] = entry], status)
    BY <1>7, <2>1, SpreadQueues
  <2> QED
    BY <1>1, <1>6, <2>2 DEF table, list, status
<1>9. /\ waiting'[p][f] = entry
      /\ \A i \in 0 .. WaitMax - 1 : i # f => waiting'[p][i] = waiting[p][i]
  BY <1>6, <1>7
<1>10. Listens(p, task'[p], download[p], waiting'[p])
  <2>1. ASSUME task'[p].doing = "parse"
        PROVE  /\ AllDiffer(task'[p].left)
               /\ Hashes(task'[p].left) \subseteq Hashes(task[p].left) \ {c}
               /\ task'[p].from = q
    BY <1>5, <2>1
  <2>2. /\ \A i \in 0 .. MaxConn - 1 : download[p][i].active /\ download[p][i].from = q =>
              Wanted(p, download[p][i].rid) \notin Hashes(task[p].left)
        /\ \A i \in 0 .. WaitMax - 1 : waiting[p][i].active /\ waiting[p][i].from = q =>
              waiting[p][i].hash \notin Hashes(task[p].left)
        /\ \E i \in 0 .. MaxConn - 1 : download[p][i].active /\ download[p][i].from = q
    BY <1>1, <1>4 DEF Listens, Doing, q
  <2>3. ASSUME task'[p].doing = "parse", NEW i \in 0 .. WaitMax - 1,
               waiting'[p][i].active, waiting'[p][i].from = task'[p].from
        PROVE  waiting'[p][i].hash \notin Hashes(task'[p].left)
    BY <1>2, <1>9, <2>1, <2>2, <2>3
  <2> QED
    BY <2>1, <2>2, <2>3 DEF Listens
<1> QED
  BY <1>1, <1>8, <1>10, LinedNext DEF request_file

LEMMA EntryLined ==
    ASSUME Many, Known, NEW p \in Peers, Lined(p), send_entry(p),
           UNCHANGED upload, ~download'[p][-1].active
    PROVE  Lined(p)'
<1> DEFINE at == task[p].at
           rid == waiting[p][at].rid
           q == waiting[p][at].from
           f == find_free_download_info(download[p])
<1>1. /\ Doing(p, "scan") /\ visited(p, waiting'[p])
      /\ waiting' = [waiting EXCEPT ![p][task[p].at] = NoWaiting]
      /\ UNCHANGED <<gets, chunk_status>>
      /\ chunk_status[p][rid].status \notin {1, 2}
  BY DEF send_entry, is_asked_for, status_of
<1>2. /\ \A i \in 0 .. WaitMax - 1 :
            waiting'[p][i].active => waiting'[p][i] = waiting[p][i]
      /\ Alone(p, rid, download[p], waiting'[p]) /\ waiting[p][at].active
  BY <1>1, EntryAlone
<1>3. task'[p].doing # "parse" /\ at \in Entries
  BY <1>1, VisitedTo
<1>4. Wanted(p, rid) \in Behind(p, q)
  <2>1. waiting[p][at].hash \in Behind(p, q) /\ Wanted(p, rid) = waiting[p][at].hash
    BY <1>2, <1>3, TablesNow DEF ListFits
  <2> HIDE DEF rid, q
  <2> QED
    BY <2>1
<1>5. q \in Peers /\ OpensFor(p, q, rid)
  BY OpeningIs
<1> DEFINE table == download[p]
           list == waiting[p]
           list2 == waiting'[p]
           status == chunk_status[p]
<1>6. /\ table \in [Slots -> Session] /\ Spread(p, table, list, status)
      /\ Alone(p, rid, table, list2) /\ status[rid].status \notin {1, 2}
      /\ \A i \in 0 .. WaitMax - 1 : list2[i].active => list2[i] = list[i]
  BY <1>1, <1>2, TablesNow DEF Lined
<1> HIDE DEF at, rid, q, f
<1>7. /\ f \in 0 .. MaxConn - 1
      /\ download'[p] = [table EXCEPT ![f] = new_session(rid, q)]
  BY <1>5, OpensFree DEF f
<1> HIDE DEF table, list, list2, status
<1>8. Spread(p, [table EXCEPT ![f] = new_session(rid, q)], list2, status)
  <2>1. /\ status[rid].status # 2
        /\ status[rid].status = 1 \/ Wanted(p, rid) \in Behind(p, q)
        /\ \A i \in 0 .. MaxConn - 1 : table[i].active =>
              status[table[i].rid].status = status[table[i].rid].status
    BY <1>4, <1>6
  <2>2. f \in 0 .. MaxConn - 1
    BY <1>7
  <2> QED
    BY <1>6, <2>1, <2>2, SpreadOpens
<1>9. Spread(p, download'[p], waiting'[p], chunk_status'[p])
  BY <1>1, <1>7, <1>8 DEF list2, status
<1> QED
  BY <1>1, <1>3, <1>9, LinedNext DEF Listens, request_file

LEMMA DropLined ==
    ASSUME Known, NEW p \in Peers, Lined(p), drop_entry(p)
    PROVE  Lined(p)'
<1>1. /\ Doing(p, "scan") /\ visited(p, waiting'[p])
      /\ waiting' = [waiting EXCEPT ![p][task[p].at] = NoWaiting]
      /\ UNCHANGED <<gets, chunk_status, download>>
  BY DEF drop_entry
<1>2. \A i \in 0 .. WaitMax - 1 :
          waiting'[p][i].active => waiting'[p][i] = waiting[p][i]
  BY <1>1, EntryAlone
<1>3. task'[p].doing # "parse"
  BY <1>1, VisitedTo
<1>4. Spread(p, download[p], waiting'[p], chunk_status[p])
  <2> DEFINE table == download[p]
             list == waiting[p]
             list2 == waiting'[p]
             status == chunk_status[p]
  <2>1. /\ Spread(p, table, list, status)
        /\ \A i \in 0 .. WaitMax - 1 : list2[i].active => list2[i] = list[i]
    BY <1>2 DEF Lined
  <2> HIDE DEF table, list, list2, status
  <2>2. Spread(p, table, list2, status)
    BY <2>1, SpreadLess
  <2> QED
    BY <2>2 DEF table, list2, status
<1> QED
  BY <1>1, <1>3, <1>4, LinedNext DEF Listens, request_file

LEMMA IhaveLined ==
    ASSUME Known, AskingInv, NEW p \in Peers, NEW q \in Peers, Lined(p),
           Arrived(q, p, "IHAVE"), deal_with_IHAVE(p, q, Head(net[q][p]))
    PROVE  Lined(p)'
<1> DEFINE m == Head(net[q][p])
           read == HashesRead(m)
           n == Len(m.hashes)
<1>1. /\ net[q][p] \in Seq(Packet) /\ net[q][p] # <<>> /\ m.type = "IHAVE"
      /\ m \in Packet /\ Fits(q, p, m)
  BY KnownTypes, ArrivedFits DEF Arrived
<1>2. m = net[q][p][1] /\ 1 \in 1 .. Len(net[q][p])
  BY <1>1, EmptySeq
<1>3. m.hashes \in Seq(Chunks) /\ AllDiffer(m.hashes)
  <2>1. Distinct(net[q][p])
    BY DEF AskingInv, AllDistinct
  <2> QED
    BY <1>1, <1>2, <2>1, PacketFields DEF Distinct
<1>4. AllDiffer(read)
  <2>1. n \in Nat /\ ParsedCount(n) \in 0 .. n
    <3>1. n \in Nat
      BY <1>3
    <3> HIDE DEF n
    <3> QED
      BY <3>1, ParsedCountBound
  <2>2. /\ Len(read) = ParsedCount(n)
        /\ \A i \in 1 .. ParsedCount(n) : read[i] = m.hashes[i]
    BY <1>3, <2>1, SubSeqProperties DEF HashesRead
  <2>3. \A i \in 1 .. ParsedCount(n) : i \in 1 .. n
    BY <2>1
  <2> HIDE DEF read, m
  <2> QED
    BY <1>3, <2>2, <2>3 DEF AllDiffer
<1>5. read = <<>> \/ ~Engaged(p, q)
  <2>1. ASSUME p = q PROVE read = <<>>
    <3>1. Hashes(m.hashes) = {}
      BY <1>1, <2>1 DEF Fits, Offer
    <3>2. Hashes(read) = {} /\ read \in Seq(Chunks)
      BY <1>3, <3>1, HashesReadSent, HashesReadType
    <3> HIDE DEF read
    <3> QED
      BY <3>2, HeadTailHashes
  <2>2. ASSUME p # q PROVE ~Engaged(p, q)
    <3>1. Offered(p, q)
      BY <1>1, <1>2 DEF Offered, Holds
    <3>2. PICK stage \in Stages : At(p, q, stage)
      BY <2>2 DEF AskingInv, Once
    <3> QED
      BY <3>1, <3>2 DEF At
  <2> QED
    BY <2>1, <2>2
<1>6. /\ UNCHANGED client
      /\ task'[p] = IF read = <<>> THEN Select
                    ELSE [doing |-> "parse", from |-> q, left |-> read, sent |-> FALSE]
  BY TablesNow DEF deal_with_IHAVE
<1> HIDE DEF read
<1>7. ASSUME task'[p].doing = "parse"
      PROVE  /\ task'[p].from = q /\ task'[p].left = read /\ ~task'[p].sent
             /\ ~Engaged(p, q)
  BY <1>5, <1>6, <1>7 DEF Select
<1>8. Listens(p, task'[p], download[p], waiting[p])
  BY <1>4, <1>7 DEF Listens, Engaged, Sessions
<1> QED
  BY <1>6, <1>8, LinedNext DEF Lined, client, request_file

(* Where a block goes when no memory but the table's is taken for a        *)
(* session: to the line of the session, and if it is the last one the line *)
(* is marked GOT when it is the chunk asked for.                           *)
LEMMA AcceptTakes ==
    ASSUME Known, SlotBeyond, HeapSlot.seq > N, NEW p \in Peers, NEW q \in Peers,
           Arrived(q, p, "DATA"), accept_DATA(p, q, Head(net[q][p]))
    PROVE  LET k == session_from(p, q)
               rid == download[p][k].rid
           IN  /\ k \in 0 .. MaxConn - 1 /\ download[p][k].active
               /\ IsLine(p, rid) /\ rid \in Lines
               /\ \A l \in 0 .. MaxLines - 1 :
                     l # rid => output'[p][l] = output[p][l]
               /\ \/ UNCHANGED chunk_status
                  \/ /\ ~download'[p][k].active
                     /\ \A l \in Lines :
                           l # rid => chunk_status'[p][l] = chunk_status[p][l]
                     /\ chunk_status'[p][rid].status = 2 =>
                           output'[p][rid] = ChunkOf(Wanted(p, rid))
<1> DEFINE m == Head(net[q][p])
           k == session_from(p, q)
           s == download[p][k]
           rid == s.rid
<1>1. net[q][p] # <<>> /\ m.type = "DATA" /\ m.seq \in 1 .. N /\ m.seq = s.seq
  BY ArrivedFits DEF Arrived, accept_DATA, is_expected
<1>2. k \in 0 .. MaxConn - 1 /\ s.active
  <2>1. k \in {i \in 0 .. MaxConn - 1 :
                  download[p][i].active /\ download[p][i].from = q} \cup {-1}
    BY FirstIsIndex DEF session_from
  <2>2. k # -1
    <3>1. HeapSlot.seq \notin 1 .. N
      BY HeapAssumption, NAssumption DEF Session
    <3> QED
      BY <1>1, <3>1 DEF SlotBeyond
  <2> HIDE DEF k
  <2> QED
    BY <2>1, <2>2
<1>3. IsLine(p, rid) /\ rid \in Lines /\ rid # -1 /\ rid \in 0 .. MaxLines - 1
  <2>1. IsLine(p, rid)
    BY <1>2, TablesNow DEF TableFits
  <2>2. Len(request_file(p)) \in 0 .. MaxLines
    BY RequestFileType DEF Known, IInv
  <2> HIDE DEF rid
  <2> QED
    BY <2>1, <2>2, RequestFilesAssumption DEF IsLine, Lines
<1>4. /\ download \in [Peers -> [Slots -> Session]]
      /\ chunk_status \in [Peers -> [Lines -> ChunkState]]
      /\ output \in [Peers -> [0 .. MaxLines - 1 -> [1 .. N -> Cell]]]
      /\ k \in Slots
  <2>1. k \in Slots
    <3> HIDE DEF k
    <3> QED
      BY <1>2, TablesAssumption DEF Slots
  <2> QED
    BY <2>1, TablesNow DEF TypeOK, DownloaderTypeOK
<1>5. chunk_status[p][rid].hash = Wanted(p, rid)
  BY <1>3, FitsNow DEF Known, StatusFits, IsLine
<1>6. output' = [output EXCEPT ![p][rid][block_written(s)] = m.data]
  BY <1>3 DEF accept_DATA, line_written
<1>7. \A l \in 0 .. MaxLines - 1 : l # rid => output'[p][l] = output[p][l]
  <2> HIDE DEF rid, s, m
  <2> QED
    BY <1>3, <1>4, <1>6
<1>8. \/ UNCHANGED chunk_status
      \/ /\ chunk_status' = [chunk_status EXCEPT
                ![p][rid].status =
                    IF check_hash(p, rid, output'[p][rid]) THEN 2 ELSE 0]
         /\ download' = [download EXCEPT ![p][k] = NoSession]
  BY <1>3 DEF accept_DATA, line_written
<1>9. ASSUME chunk_status' = [chunk_status EXCEPT
                 ![p][rid].status =
                     IF check_hash(p, rid, output'[p][rid]) THEN 2 ELSE 0],
             download' = [download EXCEPT ![p][k] = NoSession]
      PROVE  /\ ~download'[p][k].active
             /\ \A l \in Lines :
                   l # rid => chunk_status'[p][l] = chunk_status[p][l]
             /\ chunk_status'[p][rid].status = 2 =>
                   output'[p][rid] = ChunkOf(Wanted(p, rid))
  <2> DEFINE st == IF check_hash(p, rid, output'[p][rid]) THEN 2 ELSE 0
  <2>1. st = 2 => output'[p][rid] = ChunkOf(Wanted(p, rid))
    BY <1>5 DEF check_hash
  <2>2. chunk_status' = [chunk_status EXCEPT ![p][rid].status = st]
    BY <1>9
  <2> HIDE DEF st, rid, k
  <2>3. /\ chunk_status'[p][rid].status = st
        /\ \A l \in Lines : l # rid => chunk_status'[p][l] = chunk_status[p][l]
    <3>1. chunk_status'[p] = [chunk_status[p] EXCEPT ![rid].status = st]
      BY <1>4, <2>2
    <3>2. chunk_status[p] \in [Lines -> ChunkState]
      BY <1>4
    <3>3. chunk_status'[p][rid] = [chunk_status[p][rid] EXCEPT !.status = st]
      BY <1>3, <3>1, <3>2
    <3> QED
      BY <1>3, <3>1, <3>2, <3>3 DEF ChunkState, Status
  <2>4. ~download'[p][k].active
    BY <1>4, <1>9 DEF NoSession
  <2> QED
    BY <2>1, <2>3, <2>4
<1> HIDE DEF rid, k
<1> QED
  BY <1>2, <1>3, <1>7, <1>8, <1>9 DEF rid, k

LEMMA AcceptLined ==
    ASSUME Known, SlotBeyond, HeapSlot.seq > N, NEW p \in Peers, NEW q \in Peers,
           Lined(p), Arrived(q, p, "DATA"), accept_DATA(p, q, Head(net[q][p]))
    PROVE  Lined(p)'
<1> DEFINE k == session_from(p, q)
           rid == download[p][k].rid
<1>1. /\ k \in 0 .. MaxConn - 1 /\ download[p][k].active
      /\ \/ UNCHANGED chunk_status
         \/ /\ ~download'[p][k].active
            /\ \A l \in Lines :
                  l # rid => chunk_status'[p][l] = chunk_status[p][l]
  BY AcceptTakes
<1>2. /\ UNCHANGED <<gets, waiting>>
      /\ \A i \in Slots : download'[p][i].active =>
            /\ download[p][i].active
            /\ download'[p][i].from = download[p][i].from
            /\ download'[p][i].rid = download[p][i].rid
  BY AcceptKeeps
<1> HIDE DEF k
<1>3. /\ \A i \in 0 .. MaxConn - 1 : i \in Slots
      /\ \A i \in Slots : download[p][i].rid \in Lines
      /\ Spread(p, download[p], waiting[p], chunk_status[p])
  <2>1. download[p] \in [Slots -> Session]
    BY TablesNow
  <2>2. \A i \in 0 .. MaxConn - 1 : i \in Slots
    BY TablesAssumption DEF Slots
  <2> QED
    BY <2>1, <2>2 DEF Session, Lined
<1>4. ASSUME NEW i \in 0 .. MaxConn - 1, download'[p][i].active
      PROVE  chunk_status'[p][download[p][i].rid].status
             = chunk_status[p][download[p][i].rid].status
  <2>1. CASE UNCHANGED chunk_status
    BY <2>1
  <2>2. ASSUME ~download'[p][k].active PROVE download[p][i].rid # rid
    BY <1>1, <1>2, <1>3, <1>4, <2>2 DEF Spread
  <2> QED
    BY <1>1, <1>3, <2>1, <2>2
<1>5. Spread(p, download'[p], waiting[p], chunk_status'[p])
  <2> DEFINE table == download[p]
             list == waiting[p]
             status == chunk_status[p]
             table2 == download'[p]
             status2 == chunk_status'[p]
  <2>1. /\ Spread(p, table, list, status)
        /\ \A i \in 0 .. MaxConn - 1 : table2[i].active =>
              /\ table[i].active /\ table2[i].from = table[i].from
              /\ table2[i].rid = table[i].rid
              /\ status2[table[i].rid].status = status[table[i].rid].status
    BY <1>2, <1>3, <1>4
  <2> HIDE DEF table, list, status, table2, status2
  <2>2. Spread(p, table2, list, status2)
    BY <2>1, SpreadLess
  <2> QED
    BY <2>2 DEF table2, list, status2
<1>6. task'[p].doing # "parse"
  <2>1. \A table : scan(table, waiting[p], Select) \in {Select} \cup ScanTask
    BY ScanType
  <2>2. \/ task' = [task EXCEPT ![p] = scan(download'[p], waiting[p], Select)]
        \/ task' = [task EXCEPT ![p] = Select]
    BY DEF accept_DATA, Return
  <2>3. task'[p] \in {Select} \cup ScanTask
    BY <2>1, <2>2, TablesNow
  <2> QED
    BY <2>3 DEF Select, ScanTask
<1> QED
  BY <1>2, <1>5, <1>6, LinedNext DEF Listens, request_file

LEMMA UserInputLined ==
    ASSUME OneGet, Known, NEW p \in Peers, handle_user_input(p)
    PROVE  Lined(p)'
<1>1. request_file(p) = <<>>
  BY FirstGet DEF Known
<1>2. \A l : ~IsLine(p, l)
  BY <1>1, EmptySeq DEF IsLine
<1>3. /\ \A i \in 0 .. MaxConn - 1 : ~download[p][i].active
      /\ \A i \in Entries : ~waiting[p][i].active
  BY <1>2, TablesNow DEF TableFits, ListFits
<1>4. UNCHANGED <<download, waiting>> /\ task'[p] = Select
  BY TablesNow DEF handle_user_input, process_get, Return
<1>5. \A i \in 0 .. WaitMax - 1 : i \in Entries
  BY TablesAssumption DEF Entries
<1> SUFFICES ASSUME NEW t, NEW table, NEW list, NEW status,
                    t = task'[p], table = download'[p], list = waiting'[p],
                    status = chunk_status'[p]
             PROVE  Spread(p, table, list, status)' /\ Listens(p, t, table, list)'
  BY DEF Lined
<1>6. Spread(p, table, list, status)'
  BY <1>3, <1>4, <1>5 DEF Spread
<1>7. Listens(p, t, table, list)'
  BY <1>4 DEF Listens, Select
<1> QED
  BY <1>6, <1>7

LEMMA OwnLined ==
    ASSUME Many, Known, SlotBeyond, AskingInv, NEW p \in Peers, Lined(p), Acts(p),
           ~download'[p][-1].active, ~waiting'[p][-1].active
    PROVE  Lined(p)'
<1>1. task \in [Peers -> Task] /\ OneGet /\ HeapSlot.seq > N
  BY TablesNow DEF Many, SlotUnmatched
<1>2. ASSUME UNCHANGED client, task'[p].doing # "parse" PROVE Lined(p)'
  BY <1>2, CalmLined DEF client, request_file
<1>3. CASE wake(p)
  <2>1. task'[p] \in {Ready} \cup ScanTask
    BY <1>1, <1>3, ScanType DEF wake, scan_first
  <2> QED
    BY <1>2, <1>3, <2>1 DEF wake, Ready, ScanTask
<1>4. CASE other_input(p) \/ timer(p)
  BY <1>1, <1>2, <1>4 DEF other_input, timer, retransmit, Return, Select
<1>5. CASE handle_user_input(p)
  BY <1>1, <1>5, UserInputLined
<1>6. CASE work(p)
  <2>1. CASE answer_line(p) /\ UNCHANGED client
    <3>1. task[p].doing = "answer" /\ task[p] \in AnswerTask
      BY <1>1, <2>1, TaskFields DEF answer_line, Doing
    <3>2. task'[p].doing = "answer"
      BY <1>1, <2>1, <3>1 DEF answer_line, AnswerTask
    <3> QED
      BY <1>2, <2>1, <3>2
  <2>2. CASE send_IHAVE(p) /\ UNCHANGED client
    BY <1>1, <1>2, <2>2 DEF send_IHAVE, Return, Select
  <2>3. CASE get_first_hash(p) /\ UNCHANGED upload
    BY <2>3, FirstLined
  <2>4. CASE keep_entry(p)
    BY <1>2, <2>4, VisitedTo DEF keep_entry
  <2>5. CASE send_entry(p) /\ UNCHANGED upload
    BY <2>5, EntryLined
  <2>6. CASE skip_hash(p) \/ drop_entry(p)
    BY <2>6, SkipLined, DropLined
  <2>7. CASE queue_hash(p)
    BY <2>7, QueueLined
  <2> QED
    BY <1>6, <2>1, <2>2, <2>3, <2>4, <2>5, <2>6, <2>7 DEF work
<1>7. ASSUME NEW q \in Peers, process_inbound_udp(p, q)
      PROVE  Lined(p)'
  <2> DEFINE m == Head(net[q][p])
  <2>1. CASE \/ deal_with_WHOHAS(p, q, m) /\ UNCHANGED client
             \/ deal_with_GET(p, q, m) /\ UNCHANGED client
             \/ deal_with_ACK(p, q, m) /\ UNCHANGED client
             \/ ignore_DATA(p, q, m)
    <3>1. UNCHANGED client
      BY <2>1 DEF ignore_DATA
    <3>2. task'[p].doing # "parse"
      BY <1>1, <2>1
      DEF deal_with_WHOHAS, deal_with_GET, deal_with_ACK, ignore_DATA, Return,
          Select
    <3> QED
      BY <1>2, <3>1, <3>2
  <2>2. CASE Arrived(q, p, "IHAVE") /\ deal_with_IHAVE(p, q, m)
    BY <2>2, IhaveLined
  <2>3. CASE Arrived(q, p, "DATA") /\ accept_DATA(p, q, m)
    BY <1>1, <2>3, AcceptLined
  <2> QED
    BY <1>7, <2>1, <2>2, <2>3 DEF process_inbound_udp, deal_with_DATA
<1> QED
  BY <1>3, <1>4, <1>5, <1>6, <1>7 DEF Acts

LEMMA NextLined ==
    ASSUME Many, Known, ManyInv, TablesSuffice', [Next]_vars
    PROVE  \A r \in Peers : Lined(r)'
<1>1. SUFFICES ASSUME NEW r \in Peers PROVE Lined(r)'
  OBVIOUS
<1>2. /\ Lined(r) /\ OneGet /\ SlotBeyond /\ AskingInv
      /\ ~download'[r][-1].active /\ ~waiting'[r][-1].active
  BY DEF ManyInv, Many, TablesSuffice
<1>3. ASSUME NEW p \in Peers, Acts(p)
      PROVE  Lined(r)'
  <2>1. CASE r = p
    BY <1>2, <1>3, <2>1, OwnLined
  <2>2. CASE r # p
    <3>1. OthersSame(p)
      BY <1>3, OneActs DEF Known, Acts
    <3>2. request_file(r)' = request_file(r)
      BY <1>2, <1>3, <2>2, OthersFiles
    <3> QED
      BY <1>2, <2>2, <3>1, <3>2, CalmLined DEF OthersSame
  <2> QED
    BY <2>1, <2>2
<1>4. CASE UNCHANGED <<task, client>>
  BY <1>2, <1>4, CalmLined DEF client, request_file
<1> QED
  BY <1>3, <1>4 DEF Next, vars, disturb, Acts

(* What waits behind a chunk waits for a session with its provider.        *)
LEMMA ManyMeets ==
    ASSUME Known, NEW p \in Peers, Lined(p), Acts(p)
    PROVE  Meets(p)
<1>1. ASSUME queue_hash(p) PROVE Engaged(p, task[p].from)
  BY <1>1 DEF queue_hash, Doing, Lined, Listens, Engaged, Sessions
<1> QED
  BY <1>1, Turning

LEMMA NextAsking ==
    ASSUME Many, Known, ManyInv, [Next]_vars
    PROVE  Known' /\ AskingInv'
<1>1. OneGet /\ Vary /\ AskingInv /\ \A p \in Peers : Lined(p)
  BY DEF Many, ManyInv
<1>2. \A p \in Peers : Acts(p) => Meets(p)
  BY <1>1, ManyMeets
<1>3. /\ \A r \in Peers : Listing(r)'
      /\ \A a, b \in Peers : a # b => Once(a, b)'
      /\ AllDistinct'
  BY <1>1, <1>2, NextListing, NextOnce, NextLists
<1>4. Known'
  BY <1>1, NextKnown
<1> QED
  BY <1>3, <1>4 DEF AskingInv

-----------------------------------------------------------------------------
(* The memory in front of a table and the lines marked GOT.                *)
Kept(p) ==
    /\ download[p][-1] = HeapSlot
    /\ \A l \in 0 .. Len(request_file(p)) - 1 :
           chunk_status[p][l].status = 2 => output[p][l] = ChunkOf(Wanted(p, l))

LEMMA KeptIs ==
    /\ SlotBeyond /\ GotIntact => \A p \in Peers : Kept(p)
    /\ (\A p \in Peers : Kept(p)') => SlotBeyond' /\ GotIntact'
<1>1. SlotBeyond /\ GotIntact => \A p \in Peers : Kept(p)
  BY DEF SlotBeyond, GotIntact, Kept
<1>2. (\A p \in Peers : Kept(p)') => SlotBeyond' /\ GotIntact'
  BY DEF SlotBeyond, GotIntact, Kept
<1> QED
  BY <1>1, <1>2

LEMMA StillKept ==
    ASSUME NEW p, Kept(p), request_file(p)' = request_file(p),
           download'[p][-1] = download[p][-1],
           \A l \in 0 .. Len(request_file(p)) - 1 :
               chunk_status'[p][l].status = 2 =>
                   \/ output'[p][l] = ChunkOf(Wanted(p, l))
                   \/ /\ chunk_status[p][l].status = 2
                      /\ output'[p][l] = output[p][l]
    PROVE  Kept(p)'
<1>1. \A l : Wanted(p, l)' = Wanted(p, l)
  BY DEF Wanted
<1>2. \A l \in 0 .. Len(request_file(p)) - 1 :
          chunk_status'[p][l].status = 2 => output'[p][l] = ChunkOf(Wanted(p, l))
  BY DEF Kept
<1> QED
  BY <1>1, <1>2 DEF Kept

LEMMA LineIsLine ==
    ASSUME Known, NEW p \in Peers, NEW l \in 0 .. Len(request_file(p)) - 1
    PROVE  l \in Lines /\ l \in 0 .. MaxLines - 1
<1>1. Len(request_file(p)) \in 0 .. MaxLines
  BY RequestFileType DEF Known, IInv
<1> DEFINE n == Len(request_file(p))
<1>2. n \in 0 .. MaxLines /\ l \in 0 .. n - 1
  BY <1>1
<1> HIDE DEF n
<1> QED
  BY <1>2, RequestFilesAssumption DEF Lines

LEMMA OpeningKept ==
    ASSUME Known, NEW p \in Peers, Kept(p), ~download'[p][-1].active,
           UNCHANGED upload, get_first_hash(p) \/ send_entry(p)
    PROVE  Kept(p)'
<1>1. PICK q \in Peers, rid \in Lines :
          /\ OpensFor(p, q, rid) /\ Marks(p, q, rid)
          /\ chunk_status[p][rid].status \notin {1, 2}
  BY OpeningMarks
<1> DEFINE f == find_free_download_info(download[p])
<1>2. /\ f \in 0 .. MaxConn - 1
      /\ download'[p] = [download[p] EXCEPT ![f] = new_session(rid, q)]
  <2>1. OpensFor(p, q, rid)
    BY <1>1
  <2> QED
    BY <2>1, OpensFree
<1>3. download[p] \in [Slots -> Session] /\ -1 \in Slots
  BY TablesNow, TablesAssumption DEF Slots
<1> HIDE DEF f
<1>4. download'[p][-1] = download[p][-1]
  BY <1>2, <1>3
<1>5. \A l \in Lines : chunk_status'[p][l].status = 2 =>
          chunk_status[p][l].status = 2
  BY <1>1 DEF Marks
<1>6. request_file(p)' = request_file(p) /\ UNCHANGED output
  BY <1>1 DEF OpensFor, request_file
<1> QED
  BY <1>4, <1>5, <1>6, LineIsLine, StillKept

LEMMA AcceptKept ==
    ASSUME Known, SlotBeyond, HeapSlot.seq > N, NEW p \in Peers, NEW q \in Peers,
           Lined(p), Kept(p),
           Arrived(q, p, "DATA"), accept_DATA(p, q, Head(net[q][p]))
    PROVE  Kept(p)'
<1> DEFINE k == session_from(p, q)
           rid == download[p][k].rid
<1>1. /\ k \in 0 .. MaxConn - 1 /\ download[p][k].active
      /\ \A l \in 0 .. MaxLines - 1 : l # rid => output'[p][l] = output[p][l]
      /\ \/ UNCHANGED chunk_status
         \/ /\ \A l \in Lines :
                  l # rid => chunk_status'[p][l] = chunk_status[p][l]
            /\ chunk_status'[p][rid].status = 2 =>
                  output'[p][rid] = ChunkOf(Wanted(p, rid))
  BY AcceptTakes
<1> HIDE DEF k
<1>2. chunk_status[p][rid].status # 2
  BY <1>1 DEF Lined, Spread
<1>3. request_file(p)' = request_file(p)
  BY AcceptKeeps DEF request_file
<1>4. download'[p][-1] = download[p][-1]
  <2>1. download \in [Peers -> [Slots -> Session]]
    BY TablesNow
  <2>2. \E e : download' = [download EXCEPT ![p][k] = e]
    BY DEF accept_DATA, k
  <2>3. k # -1
    BY <1>1
  <2>4. k \in Slots /\ -1 \in Slots
    BY <1>1, TablesAssumption DEF Slots
  <2> QED
    BY <2>1, <2>2, <2>3, <2>4
<1> HIDE DEF rid
<1>5. ASSUME NEW l \in 0 .. Len(request_file(p)) - 1,
             chunk_status'[p][l].status = 2
      PROVE  \/ output'[p][l] = ChunkOf(Wanted(p, l))
             \/ /\ chunk_status[p][l].status = 2
                /\ output'[p][l] = output[p][l]
  <2>1. l \in Lines /\ l \in 0 .. MaxLines - 1
    BY LineIsLine
  <2>2. CASE l = rid
    BY <1>1, <1>2, <1>5, <2>2
  <2>3. CASE l # rid
    BY <1>1, <1>5, <2>1, <2>3
  <2> QED
    BY <2>2, <2>3
<1> QED
  BY <1>3, <1>4, <1>5, StillKept

LEMMA UserInputKept ==
    ASSUME OneGet, Known, NEW p \in Peers, Kept(p), handle_user_input(p)
    PROVE  Kept(p)'
<1>1. request_file(p)' = RequestFiles[p][1]
  BY FirstGet DEF Known
<1>2. /\ \A l \in 0 .. Len(RequestFiles[p][1]) - 1 : chunk_status'[p][l].status = 0
      /\ download' = download
  BY GetStarts
<1> QED
  BY <1>1, <1>2 DEF Kept

LEMMA OwnKept ==
    ASSUME Many, Known, SlotBeyond, NEW p \in Peers, Lined(p), Kept(p), Acts(p),
           ~download'[p][-1].active
    PROVE  Kept(p)'
<1>1. OneGet /\ HeapSlot.seq > N
  BY DEF Many, SlotUnmatched
<1>2. ASSUME UNCHANGED <<gets, chunk_status, download, output>> PROVE Kept(p)'
  BY <1>2, StillKept DEF request_file
<1>3. CASE wake(p) \/ other_input(p) \/ work(p) \/ handle_user_input(p) \/ timer(p)
  BY <1>1, <1>2, <1>3, OpeningKept, UserInputKept
  DEF wake, other_input, timer, work, skip_hash, queue_hash, drop_entry,
      keep_entry, client
<1>4. ASSUME NEW q \in Peers, process_inbound_udp(p, q)
      PROVE  Kept(p)'
  BY <1>1, <1>2, <1>4, AcceptKept
  DEF process_inbound_udp, deal_with_DATA, deal_with_IHAVE, ignore_DATA, client
<1> QED
  BY <1>3, <1>4 DEF Acts

LEMMA OthersOutput ==
    ASSUME Known, NEW p \in Peers, Acts(p), NEW r \in Peers, r # p
    PROVE  output'[r] = output[r]
<1>1. output \in [Peers -> [0 .. MaxLines - 1 -> [1 .. N -> Cell]]]
  BY DEF Known, IInv, TypeOK, DownloaderTypeOK
<1>2. ASSUME NEW e, output' = [output EXCEPT ![p] = e] PROVE output'[r] = output[r]
  BY <1>1, <1>2
<1>3. CASE handle_user_input(p)
  BY <1>2, <1>3 DEF handle_user_input, process_get
<1>4. ASSUME NEW q \in Peers, accept_DATA(p, q, Head(net[q][p]))
      PROVE  output'[r] = output[r]
  BY <1>1, <1>4 DEF accept_DATA
<1>5. CASE UNCHANGED output
  BY <1>5
<1> QED
  BY <1>3, <1>4, <1>5
  DEF wake, other_input, work, timer, process_inbound_udp, client, answer_line,
      send_IHAVE, skip_hash, get_first_hash, queue_hash, drop_entry, keep_entry,
      send_entry, deal_with_IHAVE, deal_with_DATA, ignore_DATA, Acts

LEMMA NextKept ==
    ASSUME Many, Known, ManyInv, TablesSuffice', [Next]_vars
    PROVE  SlotBeyond' /\ GotIntact'
<1>1. SUFFICES ASSUME NEW r \in Peers PROVE Kept(r)'
  BY KeptIs
<1>2. /\ Lined(r) /\ Kept(r) /\ OneGet /\ SlotBeyond /\ ~download'[r][-1].active
  BY KeptIs DEF ManyInv, Many, TablesSuffice
<1>3. ASSUME NEW p \in Peers, Acts(p)
      PROVE  Kept(r)'
  <2>1. CASE r = p
    BY <1>2, <1>3, <2>1, OwnKept
  <2>2. CASE r # p
    <3>1. OthersSame(p)
      BY <1>3, OneActs DEF Known, Acts
    <3>2. request_file(r)' = request_file(r)
      BY <1>2, <1>3, <2>2, OthersFiles
    <3>3. /\ download'[r] = download[r] /\ chunk_status'[r] = chunk_status[r]
          /\ output'[r] = output[r]
      BY <1>3, <2>2, <3>1, OthersOutput DEF OthersSame
    <3> QED
      BY <1>2, <3>2, <3>3, StillKept
  <2> QED
    BY <2>1, <2>2
<1>4. CASE UNCHANGED <<task, client>>
  BY <1>2, <1>4, StillKept DEF client, request_file
<1> QED
  BY <1>3, <1>4 DEF Next, vars, disturb, Acts

LEMMA NextMany ==
    ASSUME Many, ManyAll, TablesSuffice', [Next]_vars
    PROVE  ManyAll'
  BY NextAsking, NextLined, NextKept DEF ManyAll, ManyInv

LEMMA InitMany ==
    ASSUME Many, Init
    PROVE  ManyAll
<1>1. SlotBeyond /\ GotIntact
  BY InitTransfers, StoredIs
<1>2. Known
  BY InitKnown
<1>3. AskingInv
  BY InitAsking
<1>4. ASSUME NEW p \in Peers PROVE Lined(p)
  <2>1. /\ \A i \in 0 .. MaxConn - 1 : ~download[p][i].active
        /\ \A i \in 0 .. WaitMax - 1 : ~waiting[p][i].active
        /\ task[p] = Select
    <3>1. \A i \in 0 .. MaxConn - 1 : i \in Slots /\ i # -1
      BY TablesAssumption DEF Slots
    <3>2. \A i \in 0 .. WaitMax - 1 : i \in Entries
      BY TablesAssumption DEF Entries
    <3> QED
      BY <3>1, <3>2 DEF Init, DownloaderInit, NoSession, NoWaiting
  <2> QED
    BY <2>1 DEF Lined, Spread, Listens, Select
<1> QED
  BY <1>1, <1>2, <1>3, <1>4 DEF ManyAll, ManyInv

-----------------------------------------------------------------------------
(* The download table has an entry for every line of a request file, and   *)
(* the waiting list for every line but one.                                *)
Ample ==
    \A p \in Peers : \A g \in 1 .. Len(RequestFiles[p]) :
        /\ Len(RequestFiles[p][g]) <= MaxConn
        /\ Len(RequestFiles[p][g]) <= WaitMax + 1

LEMMA AmpleLines ==
    ASSUME Ample, Known, NEW p \in Peers
    PROVE  /\ Len(request_file(p)) \in Nat
           /\ Len(request_file(p)) <= MaxConn /\ Len(request_file(p)) <= WaitMax + 1
<1>1. Len(request_file(p)) \in Nat
  BY RequestFileType DEF Known, IInv
<1>2. CASE gets[p] = 0
  <2>1. Len(request_file(p)) = 0
    BY <1>2, EmptySeq DEF request_file
  <2> QED
    BY <2>1, TablesAssumption
<1>3. CASE gets[p] # 0
  <2>1. RequestFiles[p] \in Seq(Seq(Chunks))
    BY RequestFilesAssumption
  <2>2. gets[p] \in 1 .. Len(RequestFiles[p])
    BY <1>3, <2>1 DEF Known, IInv, TypeOK, DownloaderTypeOK
  <2> QED
    BY <1>1, <1>3, <2>2 DEF Ample, request_file
<1> QED
  BY <1>2, <1>3

(* More sessions or entries than lines: two are for the same line.         *)
LEMMA LinesExcept ==
    ASSUME NEW n \in Nat, NEW l \in 0 .. n - 1
    PROVE  LET T == (0 .. n - 1) \ {l}
           IN  IsFiniteSet(T) /\ Cardinality(T) = n - 1
<1> DEFINE U == 0 .. n - 1
<1>1. /\ IsFiniteSet(U)
      /\ Cardinality(U) = IF 0 > n - 1 THEN 0 ELSE n - 1 - 0 + 1
  BY FS_Interval
<1>2. Cardinality(U) = n /\ l \in U
  <2>1. l \in U
    OBVIOUS
  <2> HIDE DEF U
  <2> QED
    BY <1>1, <2>1
<1> HIDE DEF U
<1>3. IsFiniteSet(U \ {l}) /\ Cardinality(U \ {l}) = n - 1
  BY <1>1, <1>2, FS_RemoveElement
<1> QED
  BY <1>3 DEF U

LEMMA TwoOnALine ==
    ASSUME NEW T, IsFiniteSet(T), NEW k \in Nat, Cardinality(T) \in Nat,
           Cardinality(T) < k, NEW F \in [0 .. k - 1 -> T]
    PROVE  \E i, j \in 0 .. k - 1 : i # j /\ F[i] = F[j]
<1> DEFINE S == 0 .. k - 1
<1>1. IsFiniteSet(S) /\ Cardinality(S) = k
  <2>1. /\ IsFiniteSet(S)
        /\ Cardinality(S) = IF 0 > k - 1 THEN 0 ELSE k - 1 - 0 + 1
    BY FS_Interval
  <2> HIDE DEF S
  <2> QED
    BY <2>1
<1> HIDE DEF S
<1>2. F \in [S -> T] /\ Cardinality(T) < Cardinality(S)
  BY <1>1 DEF S
<1>3. \E i, j \in S : i # j /\ F[i] = F[j]
  BY <1>1, <1>2, FS_PigeonHole
<1> QED
  BY <1>3 DEF S

(* There is an entry of the download table for one more line.              *)
LEMMA SlotLeft ==
    ASSUME Ample, Known, NEW p \in Peers, NEW list, NEW status,
           Spread(p, download[p], list, status), NEW rid, IsLine(p, rid),
           \A i \in 0 .. MaxConn - 1 :
               download[p][i].active => download[p][i].rid # rid
    PROVE  find_free_download_info(download[p]) \in 0 .. MaxConn - 1
<1> DEFINE n == Len(request_file(p))
           S == {i \in 0 .. MaxConn - 1 : ~download[p][i].active}
           F == [i \in 0 .. MaxConn - 1 |-> download[p][i].rid]
<1>1. n \in Nat /\ n <= MaxConn /\ rid \in 0 .. n - 1
  BY AmpleLines DEF IsLine
<1>2. ASSUME S = {} PROVE FALSE
  <2>1. \A i \in 0 .. MaxConn - 1 : download[p][i].active
    BY <1>2
  <2>2. \A i \in 0 .. MaxConn - 1 : download[p][i].rid \in 0 .. n - 1
    BY <2>1, TablesNow DEF TableFits, IsLine
  <2> HIDE DEF n
  <2> DEFINE T == (0 .. n - 1) \ {rid}
  <2>3. F \in [0 .. MaxConn - 1 -> T]
    BY <2>1, <2>2
  <2>4. IsFiniteSet(T) /\ Cardinality(T) = n - 1
    BY <1>1, LinesExcept
  <2> HIDE DEF F, T
  <2>5. PICK i \in 0 .. MaxConn - 1, j \in 0 .. MaxConn - 1 : i # j /\ F[i] = F[j]
    <3>1. MaxConn \in Nat /\ Cardinality(T) \in Nat /\ Cardinality(T) < MaxConn
      BY <1>1, <2>4, TablesAssumption
    <3> QED
      BY <2>3, <2>4, <3>1, TwoOnALine
  <2> QED
    BY <2>1, <2>5 DEF F, Spread
<1>3. First(S) \in S
  <2>1. S \in SUBSET Nat
    <3>1. S \subseteq 0 .. MaxConn - 1
      OBVIOUS
    <3> HIDE DEF S
    <3> QED
      BY <3>1
  <2> HIDE DEF S
  <2> QED
    BY <1>2, <2>1, FirstFinds
<1>4. find_free_download_info(download[p]) = First(S)
  BY DEF find_free_download_info
<1> QED
  BY <1>3, <1>4

(* There is an entry of the waiting list for one more line, if a session   *)
(* is open.                                                                *)
LEMMA EntryLeft ==
    ASSUME Ample, Known, NEW p \in Peers, NEW status,
           Spread(p, download[p], waiting[p], status), NEW rid, IsLine(p, rid),
           Alone(p, rid, download[p], waiting[p]),
           NEW k \in 0 .. MaxConn - 1, download[p][k].active
    PROVE  find_free_waiting_entity(waiting[p]) \in 0 .. WaitMax - 1
<1> DEFINE n == Len(request_file(p))
           S == {i \in 0 .. WaitMax - 1 : ~waiting[p][i].active}
           F == [i \in 0 .. WaitMax - 1 |-> waiting[p][i].rid]
           m == download[p][k].rid
<1>1. n \in Nat /\ n <= WaitMax + 1 /\ rid \in 0 .. n - 1
  BY AmpleLines DEF IsLine
<1>2. m \in 0 .. n - 1 /\ m # rid
  BY TablesNow DEF TableFits, IsLine, Alone
<1>3. ASSUME S = {} PROVE FALSE
  <2>1. \A i \in 0 .. WaitMax - 1 : waiting[p][i].active
    BY <1>3
  <2>2. \A i \in 0 .. WaitMax - 1 : waiting[p][i].rid \in 0 .. n - 1
    <3>1. \A i \in 0 .. WaitMax - 1 : i \in Entries
      BY TablesAssumption DEF Entries
    <3> QED
      BY <2>1, <3>1, TablesNow DEF ListFits, IsLine
  <2>3. \A i \in 0 .. WaitMax - 1 : waiting[p][i].rid \notin {rid, m}
    BY <2>1 DEF Alone, Spread
  <2> HIDE DEF n, m
  <2> DEFINE T == (0 .. n - 1) \ {rid}
  <2>4. F \in [0 .. WaitMax - 1 -> T \ {m}]
    BY <2>2, <2>3
  <2>5. IsFiniteSet(T) /\ Cardinality(T) = n - 1 /\ m \in T
    BY <1>1, <1>2, LinesExcept
  <2> HIDE DEF F, T
  <2>6. IsFiniteSet(T \ {m}) /\ Cardinality(T \ {m}) = n - 2
    BY <1>1, <2>5, FS_RemoveElement
  <2>7. PICK i \in 0 .. WaitMax - 1, j \in 0 .. WaitMax - 1 : i # j /\ F[i] = F[j]
    <3> DEFINE U == T \ {m}
    <3>1. /\ WaitMax \in Nat /\ Cardinality(U) \in Nat /\ Cardinality(U) < WaitMax
          /\ IsFiniteSet(U) /\ F \in [0 .. WaitMax - 1 -> U]
      <4>1. Cardinality(U) \in Nat
        BY <2>6, FS_CardinalityType
      <4> QED
        BY <1>1, <2>4, <2>6, <4>1, TablesAssumption
    <3> HIDE DEF U
    <3> QED
      BY <3>1, TwoOnALine
  <2> QED
    BY <2>1, <2>7 DEF F, Spread
<1>4. First(S) \in S
  <2>1. S \in SUBSET Nat
    <3>1. S \subseteq 0 .. WaitMax - 1
      OBVIOUS
    <3> HIDE DEF S
    <3> QED
      BY <3>1
  <2> HIDE DEF S
  <2> QED
    BY <1>3, <2>1, FirstFinds
<1>5. find_free_waiting_entity(waiting[p]) = First(S)
  BY DEF find_free_waiting_entity
<1> QED
  BY <1>4, <1>5

(* The memory in front of both tables stays unused.                        *)
Unharmed(p) == ~download[p][-1].active /\ ~waiting[p][-1].active

LEMMA OpeningUnharmed ==
    ASSUME Many, Ample, Known, AskingInv, NEW p \in Peers, Lined(p), Unharmed(p),
           UNCHANGED upload, get_first_hash(p) \/ send_entry(p)
    PROVE  Unharmed(p)'
<1> DEFINE f == find_free_download_info(download[p])
<1>1. ASSUME NEW q \in Peers, NEW rid, OpensFor(p, q, rid),
             \A i \in 0 .. MaxConn - 1 :
                 download[p][i].active => download[p][i].rid # rid
      PROVE  ~download'[p][-1].active
  <2>1. IsLine(p, rid) /\ download \in [Peers -> [Slots -> Session]]
        /\ Spread(p, download[p], waiting[p], chunk_status[p])
    BY <1>1, TablesNow DEF OpensFor, Lined
  <2>2. f \in 0 .. MaxConn - 1
    <3> DEFINE list == waiting[p]
               status == chunk_status[p]
    <3>1. Spread(p, download[p], list, status)
      BY <2>1
    <3> HIDE DEF list, status
    <3> QED
      BY <1>1, <2>1, <3>1, SlotLeft
  <2>3. download'[p] = [download[p] EXCEPT ![f] = new_session(rid, q)]
    BY <1>1, <2>1 DEF OpensFor, with_session
  <2> HIDE DEF f
  <2>4. f # -1 /\ -1 \in Slots
    BY <2>2, TablesAssumption DEF Slots
  <2>5. download'[p][-1] = download[p][-1]
    BY <2>1, <2>3, <2>4
  <2> QED
    BY <2>5 DEF Unharmed
<1>2. CASE get_first_hash(p)
  <2> DEFINE rid == search_id_for_hash(p, Head(task[p].left))
             q == task[p].from
  <2>1. q \in Peers /\ OpensFor(p, q, rid)
    BY <1>2, OpeningIs
  <2>2. \A i \in 0 .. MaxConn - 1 :
            download[p][i].active => download[p][i].rid # rid
    BY <1>2, FirstAlone DEF Many, Alone
  <2> HIDE DEF rid, q
  <2>3. ~download'[p][-1].active
    BY <1>1, <2>1, <2>2
  <2> QED
    BY <1>2, <2>3 DEF get_first_hash, Unharmed
<1>3. CASE send_entry(p)
  <2> DEFINE rid == waiting[p][task[p].at].rid
             q == waiting[p][task[p].at].from
  <2>1. q \in Peers /\ OpensFor(p, q, rid)
    BY <1>3, OpeningIs
  <2>2. /\ Doing(p, "scan") /\ visited(p, waiting'[p])
        /\ waiting' = [waiting EXCEPT ![p][task[p].at] = NoWaiting]
    BY <1>3 DEF send_entry
  <2>3. \A i \in 0 .. MaxConn - 1 :
            download[p][i].active => download[p][i].rid # rid
    BY <2>2, EntryAlone DEF Alone
  <2> HIDE DEF rid, q
  <2>4. ~download'[p][-1].active
    BY <1>1, <2>1, <2>3
  <2>5. ~waiting'[p][-1].active
    <3>1. task[p].at \in Entries /\ -1 \in Entries
      BY <2>2, VisitedTo, TablesAssumption DEF Entries
    <3>2. waiting'[p][-1].active => waiting'[p][-1] = waiting[p][-1]
      BY <2>2, <3>1, TablesNow, ClearedEntry
    <3> QED
      BY <3>2 DEF Unharmed
  <2> QED
    BY <2>4, <2>5 DEF Unharmed
<1> QED
  BY <1>2, <1>3

LEMMA QueueUnharmed ==
    ASSUME Many, Ample, Known, NEW p \in Peers, Lined(p), Unharmed(p), queue_hash(p)
    PROVE  Unharmed(p)'
<1> DEFINE c == Head(task[p].left)
           rid == search_id_for_hash(p, c)
           f == find_free_waiting_entity(waiting[p])
<1>1. /\ Doing(p, "parse") /\ task[p].sent /\ parsed(p, TRUE)
      /\ \E e : waiting' = [waiting EXCEPT ![p][f] = e]
      /\ UNCHANGED download
  BY DEF queue_hash
<1>2. IsLine(p, rid)
  BY <1>1, ReadLine
<1>3. Alone(p, rid, download[p], waiting[p])
  BY QueueAlone DEF Many
<1>4. PICK k \in 0 .. MaxConn - 1 : download[p][k].active
  BY <1>1 DEF Lined, Listens, Doing
<1> HIDE DEF rid
<1>5. f \in 0 .. WaitMax - 1
  <2> DEFINE status == chunk_status[p]
  <2>1. Spread(p, download[p], waiting[p], status)
    BY DEF Lined
  <2> HIDE DEF status
  <2> QED
    BY <1>2, <1>3, <1>4, <2>1, EntryLeft
<1> HIDE DEF f
<1>6. waiting'[p][-1] = waiting[p][-1]
  <2>1. f # -1 /\ -1 \in Entries
    BY <1>5, TablesAssumption DEF Entries
  <2> QED
    BY <1>1, <2>1, TablesNow
<1> QED
  BY <1>1, <1>6 DEF Unharmed

LEMMA OwnUnharmed ==
    ASSUME Many, Ample, Known, SlotBeyond, AskingInv, NEW p \in Peers, Lined(p),
           Unharmed(p), Acts(p)
    PROVE  Unharmed(p)'
<1>1. ASSUME UNCHANGED <<download, waiting>> PROVE Unharmed(p)'
  BY <1>1 DEF Unharmed
<1>2. CASE wake(p) \/ other_input(p) \/ handle_user_input(p) \/ timer(p)
  BY <1>1, <1>2
  DEF wake, other_input, handle_user_input, process_get, timer, client
<1>3. ASSUME drop_entry(p) PROVE Unharmed(p)'
  <2>1. task[p].at \in Entries /\ -1 \in Entries
    BY <1>3, VisitedTo, TablesAssumption DEF drop_entry, Entries
  <2>2. waiting' = [waiting EXCEPT ![p][task[p].at] = NoWaiting] /\ UNCHANGED download
    BY <1>3 DEF drop_entry
  <2>3. waiting'[p][-1].active => waiting'[p][-1] = waiting[p][-1]
    BY <2>1, <2>2, TablesNow, ClearedEntry
  <2> QED
    BY <2>2, <2>3 DEF Unharmed
<1>4. CASE work(p)
  BY <1>1, <1>3, <1>4, OpeningUnharmed, QueueUnharmed
  DEF work, skip_hash, keep_entry, client
<1>5. ASSUME NEW q \in Peers, Arrived(q, p, "DATA"),
             accept_DATA(p, q, Head(net[q][p]))
      PROVE  Unharmed(p)'
  <2> DEFINE k == session_from(p, q)
  <2>1. k \in 0 .. MaxConn - 1
    BY <1>5, AcceptTakes DEF Many, SlotUnmatched
  <2>2. UNCHANGED waiting /\ \E e : download' = [download EXCEPT ![p][k] = e]
    BY <1>5 DEF accept_DATA
  <2> HIDE DEF k
  <2>3. k # -1 /\ -1 \in Slots
    BY <2>1, TablesAssumption DEF Slots
  <2>4. download'[p][-1] = download[p][-1]
    BY <2>2, <2>3, TablesNow
  <2> QED
    BY <2>2, <2>4 DEF Unharmed
<1>6. ASSUME NEW q \in Peers, process_inbound_udp(p, q)
      PROVE  Unharmed(p)'
  BY <1>1, <1>5, <1>6
  DEF process_inbound_udp, deal_with_DATA, deal_with_IHAVE, ignore_DATA, client
<1> QED
  BY <1>2, <1>4, <1>6 DEF Acts

LEMMA NextAmple ==
    ASSUME Many, Ample, ManyAll, TablesSuffice, [Next]_vars
    PROVE  TablesSuffice'
<1>1. SUFFICES ASSUME NEW r \in Peers PROVE Unharmed(r)'
  BY DEF Unharmed, TablesSuffice
<1>2. Unharmed(r) /\ Lined(r) /\ Known /\ SlotBeyond /\ AskingInv
  BY DEF Unharmed, TablesSuffice, ManyAll, ManyInv
<1>3. ASSUME NEW p \in Peers, Acts(p)
      PROVE  Unharmed(r)'
  <2>1. CASE r = p
    BY <1>2, <1>3, <2>1, OwnUnharmed
  <2>2. CASE r # p
    <3>1. OthersSame(p)
      BY <1>2, <1>3, OneActs DEF Known, Acts
    <3> QED
      BY <1>2, <2>2, <3>1 DEF OthersSame, Unharmed
  <2> QED
    BY <2>1, <2>2
<1>4. CASE UNCHANGED <<task, client>>
  BY <1>2, <1>4 DEF client, Unharmed
<1> QED
  BY <1>3, <1>4 DEF Next, vars, disturb, Acts

-----------------------------------------------------------------------------
LEMMA ManySafe ==
    ASSUME ManyAll
    PROVE  OneSessionPerChunk /\ GotIntact
  BY DEF ManyAll, ManyInv, Lined, Spread, OneSessionPerChunk, Sessions

(* However long the request files are and however many customers a         *)
(* provider has: where no chunk that waits at one provider can be had from *)
(* another (else finding 3), and no DATA is for the memory in front of the *)
(* table (else finding 4), and as long as no search of a table that finds  *)
(* it full has its -1 used, no chunk is asked for twice at a time, and     *)
(* what is reported GOT is in the output file and stays there - though     *)
(* blocks of several uploads may be taken for one another on the way.      *)
THEOREM LinesStayApart ==
    ASSUME OneGet, Vary, Apart, SlotUnmatched
    PROVE  Spec /\ []TablesSuffice => []OneSessionPerChunk /\ []GotIntact
<1>0. Many
  BY DEF Many
<1>1. ManyAll /\ TablesSuffice' /\ [Next]_vars => ManyAll'
  BY <1>0, NextMany
<1>2. Init => ManyAll
  BY <1>0, InitMany
<1> QED
  BY <1>1, <1>2, ManySafe, PTL DEF Spec

(* Tables with an entry for every line of a request file never overflow,   *)
(* so that under the same conditions nothing more is asked of the run.     *)
THEOREM AmpleTablesSuffice ==
    ASSUME OneGet, Vary, Apart, SlotUnmatched, Ample
    PROVE  Spec => []TablesSuffice /\ []OneSessionPerChunk /\ []GotIntact
<1>0. Many
  BY DEF Many
<1>1. ManyAll /\ TablesSuffice /\ [Next]_vars => ManyAll' /\ TablesSuffice'
  BY <1>0, NextAmple, NextMany
<1>2. Init => ManyAll /\ TablesSuffice
  <2>1. Init => TablesSuffice
    <3>1. -1 \in Slots /\ -1 \in Entries
      BY TablesAssumption DEF Slots, Entries
    <3> QED
      BY <3>1 DEF Init, DownloaderInit, NoWaiting, TablesSuffice, SlotUnmatched
  <2> QED
    BY <1>0, <2>1, InitMany
<1> QED
  BY <1>1, <1>2, ManySafe, PTL DEF Spec
=============================================================================
