----------------------------- MODULE SwarmProofs ----------------------------
(***************************************************************************)
(* Proofs about Swarm for every swarm, chunk length, table size, queue     *)
(* length and kind of loss.                                                *)
(***************************************************************************)
EXTENDS Swarm, SequenceTheorems, TLAPS

-----------------------------------------------------------------------------
(* The searches.                                                           *)

(* A search returns one of the indices that fit, or -1.                    *)
LEMMA FirstIsIndex ==
    ASSUME NEW S
    PROVE  First(S) \in S \cup {-1}
  BY DEF First

(* The count a receiver reads from a packet is never above the count of    *)
(* hashes the packet carries.                                              *)
LEMMA ParsedCountBound ==
    ASSUME NEW n \in Nat
    PROVE  ParsedCount(n) \in 0 .. n
<1> DEFINE hi == (n % 256) \div 16
           lo == n % 16
<1>1. n % 256 \in 0 .. 255 /\ n % 256 <= n /\ lo \in 0 .. 15
  OBVIOUS
<1>2. hi \in 0 .. 15 /\ 16 * hi <= n % 256
  BY <1>1
<1>3. 16 * hi + lo <= n
  OBVIOUS
<1> HIDE DEF hi, lo
<1>4. 10 * hi + lo \in 0 .. n
  BY <1>1, <1>2, <1>3
<1>5. ParsedCount(n) = IF hi > 9 THEN 0
                       ELSE IF lo > 9 THEN hi ELSE 10 * hi + lo
  BY DEF ParsedCount, hi, lo
<1>6. hi \in 0 .. n
  BY <1>1, <1>2, <1>3
<1> QED
  BY <1>4, <1>5, <1>6

(* From ten hashes on the count is misread: ten to fifteen, one hex digit  *)
(* that is a letter, as none, and any number as less than it is.           *)
THEOREM CountMisread ==
    /\ \A n \in 10 .. 15 : ParsedCount(n) = 0
    /\ \A n \in Nat : n >= 10 => ParsedCount(n) < n
<1>1. ASSUME NEW n \in 10 .. 15 PROVE ParsedCount(n) = 0
  <2>1. (n % 256) \div 16 = 0 /\ n % 16 = n
    OBVIOUS
  <2> QED
    BY <2>1 DEF ParsedCount
<1>2. ASSUME NEW n \in Nat, n >= 10 PROVE ParsedCount(n) < n
  <2> DEFINE hi == (n % 256) \div 16
             lo == n % 16
  <2>1. n % 256 \in 0 .. 255 /\ n % 256 <= n /\ lo \in 0 .. 15 /\ hi \in 0 .. 15
    OBVIOUS
  <2>2. 16 * hi + lo <= n
    OBVIOUS
  <2>3. ParsedCount(n) = IF hi > 9 THEN 0 ELSE IF lo > 9 THEN hi ELSE 10 * hi + lo
    BY DEF ParsedCount
  <2> HIDE DEF hi, lo
  <2> QED
    BY <1>2, <2>1, <2>2, <2>3
<1> QED
  BY <1>1, <1>2

(* What a receiver reads from a WHOHAS or an IHAVE is a list of hashes.    *)
LEMMA HashesReadType ==
    ASSUME NEW m, m.hashes \in Seq(Chunks)
    PROVE  HashesRead(m) \in Seq(Chunks)
<1>1. Len(m.hashes) \in Nat
  OBVIOUS
<1>2. ParsedCount(Len(m.hashes)) \in 0 .. Len(m.hashes)
  BY <1>1, ParsedCountBound
<1>3. \A i \in 1 .. ParsedCount(Len(m.hashes)) : m.hashes[i] \in Chunks
  BY <1>1, <1>2
<1> QED
  BY <1>1, <1>2, <1>3, SubSeqProperties DEF HashesRead

-----------------------------------------------------------------------------
(* The network.                                                            *)

(* Sending a packet leaves a network of packets.                           *)
LEMMA SentType ==
    ASSUME NEW n \in Paths, NEW p \in Peers, NEW q \in Peers,
           NEW m \in Packet
    PROVE  Sent(n, p, q, m) \in Paths
<1>1. n[p] \in [Peers -> Seq(Packet)] /\ n[p][q] \in Seq(Packet)
  BY DEF Paths
<1>2. enQ(n[p][q], m) \in Seq(Packet)
  BY <1>1, AppendProperties DEF enQ
<1> QED
  BY <1>1, <1>2 DEF Sent, Paths

(* So does taking the next packet of a path that is not empty.             *)
LEMMA TakenType ==
    ASSUME NEW n \in Paths, NEW p \in Peers, NEW q \in Peers,
           n[p][q] # <<>>
    PROVE  Taken(n, p, q) \in Paths
<1>1. n[p] \in [Peers -> Seq(Packet)] /\ n[p][q] \in Seq(Packet)
  BY DEF Paths
<1>2. Tail(n[p][q]) \in Seq(Packet)
  BY <1>1, HeadTailProperties
<1> QED
  BY <1>1, <1>2 DEF Taken, Paths

(* So does replying to that packet.                                        *)
LEMMA AnsweredType ==
    ASSUME NetworkTypeOK, NEW p \in Peers, NEW q \in Peers,
           net[q][p] # <<>>, NEW m \in Packet
    PROVE  Answered(p, q, m) \in Paths
  BY TakenType, SentType DEF Answered, NetworkTypeOK

(* The packet that arrives has the fields of its type.                     *)
LEMMA ArrivedPacket ==
    ASSUME NetworkTypeOK, NEW p \in Peers, NEW q \in Peers,
           NEW type, Arrived(p, q, type)
    PROVE  /\ net[p][q] # <<>>
           /\ Head(net[p][q]) \in Packet
           /\ Head(net[p][q]).type = type
<1>1. net[p][q] \in Seq(Packet) /\ net[p][q] # <<>>
  BY DEF NetworkTypeOK, Paths, Arrived
<1> QED
  BY <1>1, HeadTailProperties DEF Arrived

LEMMA PacketFields ==
    ASSUME NEW m \in Packet
    PROVE  /\ m.type = "WHOHAS" => m.hashes \in Seq(Chunks)
           /\ m.type = "IHAVE" => m.hashes \in Seq(Chunks)
           /\ m.type = "GET" => m.hash \in Chunks
           /\ m.type = "DATA" => m.seq \in Nat /\ m.data \in Cell
           /\ m.type = "ACK" => m.ack \in Nat
  BY DEF Packet

(* What the handlers put into a packet makes a packet.                     *)
LEMMA PacketTypes ==
    /\ \A h \in Seq(Chunks) : Whohas(h) \in Packet /\ Ihave(h) \in Packet
    /\ \A c \in Chunks : Get(c) \in Packet
    /\ \A seq \in Nat, cell \in Cell : Data(seq, cell) \in Packet
    /\ \A ack \in Nat : Ack(ack) \in Packet
  BY DEF Whohas, Ihave, Get, Data, Ack, Packet

-----------------------------------------------------------------------------
(* Tasks.                                                                  *)

(* What a thread is in the middle of has the fields of its kind.           *)
LEMMA TaskFields ==
    ASSUME NEW t \in Task
    PROVE  /\ t.doing = "answer" => t \in AnswerTask
           /\ t.doing = "parse" => t \in ParseTask
           /\ t.doing = "scan" => t \in ScanTask
           /\ t.doing \in {"select", "ready"} => t \in {Select, Ready}
  BY DEF Task, AnswerTask, ParseTask, ScanTask, Select, Ready

(* The next entry of a scan is in use, and the scan goes on where it was   *)
(* going.                                                                  *)
LEMMA NextEntryType ==
    ASSUME NEW list, NEW i \in Nat, NEW after \in {Select, Ready}
    PROVE  /\ next_entry(list, i, after) \in {after} \cup ScanTask
           /\ next_entry(list, i, after).doing = "scan" =>
                 list[next_entry(list, i, after).at].active
<1> DEFINE S == {k \in i .. WaitMax - 1 : list[k].active}
           j == First(S)
<1>1. WaitMax \in Nat
  BY TablesAssumption
<1>2. after.doing # "scan"
  BY DEF Select, Ready
<1>3. CASE j = -1
  BY <1>2, <1>3 DEF next_entry
<1>4. CASE j # -1
  <2>1. j \in S
    BY <1>4, FirstIsIndex
  <2>2. j \in 0 .. WaitMax - 1 /\ list[j].active
    BY <2>1, <1>1
  <2>3. next_entry(list, i, after) =
            [doing |-> "scan", at |-> j, after |-> after]
    BY <1>4 DEF next_entry
  <2> QED
    BY <2>2, <2>3 DEF ScanTask
<1> QED
  BY <1>3, <1>4

LEMMA ScanType ==
    ASSUME NEW table, NEW list, NEW after \in {Select, Ready}
    PROVE  /\ scan(table, list, after) \in {after} \cup ScanTask
           /\ scan(table, list, after).doing = "scan" =>
                 list[scan(table, list, after).at].active
<1>1. after.doing # "scan"
  BY DEF Select, Ready
<1> QED
  BY <1>1, NextEntryType DEF scan

-----------------------------------------------------------------------------
(* The inductive invariant.  TypeOK alone is not inductive: the GET that a *)
(* scan sends has a type only because the entry it stands at is in use.    *)
IInv == TypeOK /\ ScanAtEntry

(* A step of one thread that leaves the waiting list alone keeps the       *)
(* invariant if what the thread does next has a type and is not a scan, or *)
(* is a scan that stands at an entry in use.                               *)
LEMMA OneThread ==
    ASSUME IInv, NEW p \in Peers, NEW t \in Task,
           task' = [task EXCEPT ![p] = t],
           \A r \in Peers : r # p => waiting'[r] = waiting[r],
           t.doing = "scan" => waiting'[p][t.at].active
    PROVE  /\ task' \in [Peers -> Task]
           /\ ScanAtEntry'
<1>1. task \in [Peers -> Task]
  BY DEF IInv, TypeOK
<1>2. task'[p] = t /\ \A r \in Peers : r # p => task'[r] = task[r]
  BY <1>1
<1>3. ScanAtEntry'
  <2> SUFFICES ASSUME NEW r \in Peers, Doing(r, "scan")'
               PROVE  (waiting[r][task[r].at].active)'
    BY DEF ScanAtEntry
  <2>1. CASE r = p
    BY <2>1, <1>2 DEF Doing
  <2>2. CASE r # p
    BY <2>2, <1>2 DEF IInv, ScanAtEntry, Doing
  <2> QED
    BY <2>1, <2>2
<1> QED
  BY <1>1, <1>3

-----------------------------------------------------------------------------
(* The uploader.                                                           *)

LEMMA UploadFields ==
    ASSUME TypeOK, NEW p \in Peers, upload[p].to # NoPeer
    PROVE  upload[p] \in UploadInfo
  BY DEF TypeOK, UploadTypeOK, NoUpload

LEMMA MasterType ==
    ASSUME NEW c \in Chunks, NEW b \in 1 .. N
    PROVE  master(c, b) \in Cell
  BY DEF master, Cell, Block

LEMMA SelectIsTask == Select \in Task /\ Select.doing # "scan"
  BY DEF Task, Select

LEMMA WHOHASType ==
    ASSUME IInv, NEW p \in Peers, NEW q \in Peers, Arrived(q, p, "WHOHAS"),
           deal_with_WHOHAS(p, q, Head(net[q][p])), UNCHANGED client
    PROVE  IInv'
<1> DEFINE m == Head(net[q][p])
           asked == {HashesRead(m)[i] : i \in DOMAIN HashesRead(m)}
           t == [doing |-> "answer", to |-> q, asked |-> asked, at |-> 1,
                 found |-> <<>>]
<1>1. net[q][p] # <<>> /\ HashesRead(m) \in Seq(Chunks)
  BY ArrivedPacket, PacketFields, HashesReadType DEF IInv, TypeOK
<1>2. asked \in SUBSET Chunks
  BY <1>1, LenProperties, ElementOfSeq
<1>3. t \in Task /\ t.doing # "scan"
  BY <1>2, EmptySeq DEF Task, AnswerTask
<1>4. task' = [task EXCEPT ![p] = t] /\ net' = Taken(net, q, p)
      /\ UNCHANGED upload
  BY DEF deal_with_WHOHAS
<1>5. net' \in Paths
  BY <1>1, <1>4, TakenType DEF IInv, TypeOK, NetworkTypeOK
<1>6. UNCHANGED waiting
  BY DEF client
<1> HIDE DEF t
<1>7. task' \in [Peers -> Task] /\ ScanAtEntry'
  BY <1>3, <1>4, <1>6, OneThread
<1> QED
  BY <1>4, <1>5, <1>7
  DEF IInv, TypeOK, NetworkTypeOK, UploadTypeOK, DownloaderTypeOK, client

LEMMA AnswerLineType ==
    ASSUME IInv, NEW p \in Peers, answer_line(p), UNCHANGED client
    PROVE  IInv'
<1> DEFINE t == task[p]
           found == IF HasFiles[p][t.at] \in t.asked
                    THEN Append(t.found, HasFiles[p][t.at]) ELSE t.found
           u == [t EXCEPT !.at = t.at + 1, !.found = found]
<1>1. t \in AnswerTask /\ t.doing # "scan"
  BY TaskFields DEF IInv, TypeOK, answer_line, Doing
<1>2. t.at \in 1 .. Len(HasFiles[p]) /\ HasFiles[p] \in Seq(Chunks)
  BY <1>1, HasFilesAssumption, LenProperties DEF answer_line, AnswerTask
<1>3. HasFiles[p][t.at] \in Chunks
  BY <1>2, ElementOfSeq
<1>4. t.found \in Seq(Chunks) /\ t.at \in Nat \ {0}
  BY <1>1 DEF AnswerTask
<1>5. found \in Seq(Chunks)
  BY <1>3, <1>4, AppendProperties
<1>6. u \in AnswerTask
  <2>1. t.at + 1 \in Nat \ {0}
    BY <1>4
  <2> HIDE DEF found, t
  <2> QED
    BY <1>1, <1>5, <2>1 DEF AnswerTask
<1>7. task' = [task EXCEPT ![p] = u] /\ u.doing # "scan"
  BY <1>6 DEF answer_line, IInv, TypeOK, AnswerTask
<1>8. UNCHANGED waiting
  BY DEF client
<1> HIDE DEF u
<1>9. task' \in [Peers -> Task] /\ ScanAtEntry'
  BY <1>6, <1>7, <1>8, OneThread DEF Task
<1> QED
  BY <1>9
  DEF IInv, TypeOK, NetworkTypeOK, UploadTypeOK, DownloaderTypeOK, client,
      answer_line

LEMMA SendIHAVEType ==
    ASSUME IInv, NEW p \in Peers, send_IHAVE(p), UNCHANGED client
    PROVE  IInv'
<1>1. task[p] \in AnswerTask
  BY TaskFields DEF IInv, TypeOK, send_IHAVE, Doing
<1>2. task[p].to \in Peers /\ Ihave(task[p].found) \in Packet
  BY <1>1, PacketTypes DEF AnswerTask
<1>3. net' \in Paths
  BY <1>2, SentType DEF send_IHAVE, IInv, TypeOK, NetworkTypeOK
<1>4. UNCHANGED waiting
  BY DEF client
<1>5. task' \in [Peers -> Task] /\ ScanAtEntry'
  BY <1>4, SelectIsTask, OneThread DEF send_IHAVE, Return
<1> QED
  BY <1>3, <1>5
  DEF IInv, TypeOK, NetworkTypeOK, UploadTypeOK, DownloaderTypeOK, client,
      send_IHAVE

LEMMA GETType ==
    ASSUME IInv, NEW p \in Peers, NEW q \in Peers, Arrived(q, p, "GET"),
           deal_with_GET(p, q, Head(net[q][p])), UNCHANGED client
    PROVE  IInv'
<1> DEFINE m == Head(net[q][p])
<1>1. net[q][p] # <<>> /\ m.hash \in Chunks
  BY ArrivedPacket, PacketFields DEF IInv, TypeOK
<1>2. Data(1, master(m.hash, 1)) \in Packet
  BY <1>1, NAssumption, MasterType, PacketTypes
<1>3. net' \in Paths
  BY <1>1, <1>2, AnsweredType DEF deal_with_GET, IInv, TypeOK
<1>4. [chunk |-> m.hash, to |-> q, max_ack |-> 0] \in UploadInfo
  BY <1>1, NAssumption DEF UploadInfo
<1>5. UploadTypeOK'
  BY <1>4 DEF deal_with_GET, UploadTypeOK, IInv, TypeOK
<1>6. UNCHANGED waiting
  BY DEF client
<1>7. task' \in [Peers -> Task] /\ ScanAtEntry'
  BY <1>6, SelectIsTask, OneThread DEF deal_with_GET, Return
<1> QED
  BY <1>3, <1>5, <1>7
  DEF IInv, TypeOK, NetworkTypeOK, DownloaderTypeOK, client

LEMMA ACKType ==
    ASSUME IInv, NEW p \in Peers, NEW q \in Peers, Arrived(q, p, "ACK"),
           deal_with_ACK(p, q, Head(net[q][p])), UNCHANGED client
    PROVE  IInv'
<1> DEFINE m == Head(net[q][p])
<1>1. net[q][p] # <<>> /\ m.ack \in Nat
  BY ArrivedPacket, PacketFields DEF IInv, TypeOK
<1>2. UNCHANGED waiting
  BY DEF client
<1>3. task' \in [Peers -> Task] /\ ScanAtEntry'
  BY <1>2, SelectIsTask, OneThread DEF deal_with_ACK, Return
<1>4. NetworkTypeOK' /\ UploadTypeOK'
  <2>1. CASE last_acked(m.ack) /\ net' = Taken(net, q, p) /\ UNCHANGED upload
    BY <1>1, <2>1, TakenType
    DEF IInv, TypeOK, NetworkTypeOK, UploadTypeOK
  <2>2. CASE /\ ~last_acked(m.ack)
             /\ upload[p].to # NoPeer
             /\ upload' = [upload EXCEPT ![p].max_ack = m.ack]
             /\ net' = Answered(p, q, Data(m.ack + 1,
                                      master(upload[p].chunk, m.ack + 1)))
    <3>1. upload[p] \in UploadInfo
      BY <2>2, UploadFields DEF IInv
    <3>2. m.ack \in 0 .. N - 1 /\ m.ack + 1 \in 1 .. N
      BY <1>1, <2>2, NAssumption DEF last_acked
    <3>3. Data(m.ack + 1, master(upload[p].chunk, m.ack + 1)) \in Packet
      BY <3>1, <3>2, MasterType, PacketTypes DEF UploadInfo
    <3>4. NetworkTypeOK'
      BY <1>1, <2>2, <3>3, AnsweredType DEF IInv, TypeOK, NetworkTypeOK
    <3>5. [upload[p] EXCEPT !.max_ack = m.ack] \in UploadInfo
      BY <3>1, <3>2 DEF UploadInfo
    <3>6. UploadTypeOK'
      BY <2>2, <3>5 DEF UploadTypeOK, IInv, TypeOK
    <3> QED
      BY <3>4, <3>6
  <2> QED
    BY <2>1, <2>2 DEF deal_with_ACK
<1> QED
  BY <1>3, <1>4 DEF IInv, TypeOK, DownloaderTypeOK, client

LEMMA TimerType ==
    ASSUME IInv, NEW p \in Peers, timer(p)
    PROVE  IInv'
<1> DEFINE u == upload[p]
<1>1. u \in UploadInfo
  BY UploadFields DEF timer, retransmit, IInv
<1>2. u.max_ack + 1 \in 1 .. N /\ u.to \in Peers /\ u.chunk \in Chunks
  BY <1>1, NAssumption DEF UploadInfo
<1>3. Data(u.max_ack + 1, master(u.chunk, u.max_ack + 1)) \in Packet
  BY <1>2, MasterType, PacketTypes
<1>4. net' \in Paths
  BY <1>2, <1>3, SentType DEF timer, retransmit, IInv, TypeOK, NetworkTypeOK
<1>5. UNCHANGED waiting
  BY DEF timer, client
<1>6. task' \in [Peers -> Task] /\ ScanAtEntry'
  BY <1>5, SelectIsTask, OneThread DEF timer, retransmit, Return
<1> QED
  BY <1>4, <1>6
  DEF IInv, TypeOK, NetworkTypeOK, UploadTypeOK, DownloaderTypeOK, client,
      timer, retransmit

-----------------------------------------------------------------------------
(* The downloader: what its searches return is an index of their table or  *)
(* the -1 in front of it.                                                  *)

LEMMA RequestFileType ==
    ASSUME TypeOK, NEW p \in Peers
    PROVE  /\ request_file(p) \in Seq(Chunks)
           /\ Len(request_file(p)) \in 0 .. MaxLines
<1>1. CASE gets[p] = 0
  BY <1>1, RequestFilesAssumption DEF request_file
<1>2. CASE gets[p] # 0
  <2>1. RequestFiles[p] \in Seq(Seq(Chunks)) /\ Len(RequestFiles[p]) \in Nat
    BY RequestFilesAssumption
  <2>2. gets[p] \in 1 .. Len(RequestFiles[p])
    BY <1>2, <2>1 DEF TypeOK, DownloaderTypeOK
  <2>3. request_file(p) = RequestFiles[p][gets[p]]
    BY <1>2 DEF request_file
  <2>4. request_file(p) \in Seq(Chunks)
    BY <2>1, <2>2, <2>3
  <2>5. Len(request_file(p)) \in Nat
    BY <2>4
  <2>6. Len(RequestFiles[p][gets[p]]) <= MaxLines
    BY <2>2, RequestFilesAssumption
  <2> QED
    BY <2>3, <2>4, <2>5, <2>6, RequestFilesAssumption
<1> QED
  BY <1>1, <1>2

LEMMA SearchIdType ==
    ASSUME TypeOK, NEW p \in Peers, NEW c
    PROVE  search_id_for_hash(p, c) \in Lines
<1> DEFINE S == {l \in 0 .. Len(request_file(p)) - 1 :
                    request_file(p)[l + 1] = c}
<1>1. First(S) \in S \cup {-1}
  BY FirstIsIndex
<1>2. Len(request_file(p)) \in 0 .. MaxLines /\ MaxLines \in Nat
  BY RequestFileType, RequestFilesAssumption
<1> QED
  BY <1>1, <1>2 DEF search_id_for_hash, Lines

LEMMA SlotSearchType ==
    ASSUME NEW p, NEW q, NEW table
    PROVE  find_free_download_info(table) \in Slots /\ session_from(p, q) \in Slots
<1>1. MaxConn \in Nat
  BY TablesAssumption
<1>2. ASSUME NEW S \in SUBSET (0 .. MaxConn - 1)
      PROVE  First(S) \in Slots
  <2>1. First(S) \in S \cup {-1}
    BY FirstIsIndex
  <2>2. S \subseteq 0 .. MaxConn - 1
    OBVIOUS
  <2>3. S \cup {-1} \subseteq Slots
    BY <1>1, <2>2 DEF Slots
  <2> QED
    BY <2>1, <2>3
<1> QED
  BY <1>2 DEF find_free_download_info, session_from

LEMMA WithSessionType ==
    ASSUME NEW table \in [Slots -> Session], NEW rid \in Lines, NEW q \in Peers
    PROVE  with_session(table, rid, q) \in [Slots -> Session]
<1>1. new_session(rid, q) \in Session
  BY DEF new_session, Session
<1> QED
  BY <1>1 DEF with_session

-----------------------------------------------------------------------------
LEMMA ProcessGetType ==
    ASSUME IInv, NEW p \in Peers, handle_user_input(p)
    PROVE  IInv'
<1> DEFINE file == RequestFiles[p][gets[p] + 1]
<1>1. gets[p] + 1 \in 1 .. Len(RequestFiles[p])
      /\ RequestFiles[p] \in Seq(Seq(Chunks))
  <2>1. RequestFiles[p] \in Seq(Seq(Chunks)) /\ Len(RequestFiles[p]) \in Nat
    BY RequestFilesAssumption
  <2>2. gets[p] \in Nat /\ gets[p] < Len(RequestFiles[p])
    BY DEF IInv, TypeOK, DownloaderTypeOK, handle_user_input, process_get
  <2> QED
    BY <2>1, <2>2
<1>2. file \in Seq(Chunks) /\ Len(file) \in 0 .. MaxLines /\ MaxLines \in Nat
  <2>1. file \in Seq(Chunks)
    BY <1>1, ElementOfSeq
  <2>2. Len(file) \in Nat
    BY <2>1, LenProperties
  <2>3. Len(file) <= MaxLines
    BY <1>1, RequestFilesAssumption
  <2> QED
    BY <2>1, <2>2, <2>3, RequestFilesAssumption
<1>3. Whohas(file) \in Packet
  BY <1>2, PacketTypes
<1> HIDE DEF file
<1>4. net' \in Paths
  <2>1. net' = [net EXCEPT ![p] =
            [q \in Peers |-> IF q = p THEN net[p][q]
                             ELSE enQ(net[p][q], Whohas(file))]]
    BY DEF handle_user_input, process_get, file, IInv, TypeOK, NetworkTypeOK,
           Paths
  <2>2. \A q \in Peers : net[p][q] \in Seq(Packet)
    BY DEF IInv, TypeOK, NetworkTypeOK, Paths
  <2>3. \A q \in Peers : enQ(net[p][q], Whohas(file)) \in Seq(Packet)
    BY <1>3, <2>2, AppendProperties DEF enQ
  <2> QED
    BY <2>1, <2>2, <2>3 DEF IInv, TypeOK, NetworkTypeOK, Paths
<1>5. gets' \in [Peers -> Nat] /\ \A r \in Peers : gets'[r] <= Len(RequestFiles[r])
  BY <1>1 DEF handle_user_input, process_get, IInv, TypeOK, DownloaderTypeOK
<1>6. chunk_status' \in [Peers -> [Lines -> ChunkState]]
  <2>1. PICK h \in HeapStatus :
            chunk_status' = [chunk_status EXCEPT ![p] =
                [l \in Lines |->
                    IF l \in 0 .. Len(file) - 1
                    THEN [status |-> 0, hash |-> file[l + 1]]
                    ELSE [status |-> h, hash |-> NoChunk]]]
    BY DEF handle_user_input, process_get, file
  <2>2. h \in Status
    BY HeapAssumption
  <2>3. \A l \in 0 .. Len(file) - 1 :
            [status |-> 0, hash |-> file[l + 1]] \in ChunkState
    <3> SUFFICES ASSUME NEW l \in 0 .. Len(file) - 1
                 PROVE  [status |-> 0, hash |-> file[l + 1]] \in ChunkState
      OBVIOUS
    <3>1. l + 1 \in 1 .. Len(file)
      BY <1>2
    <3>2. file[l + 1] \in Chunks
      BY <1>2, <3>1, ElementOfSeq
    <3> QED
      BY <3>2 DEF ChunkState, Status
  <2>4. [status |-> h, hash |-> NoChunk] \in ChunkState
    BY <2>2 DEF ChunkState, Status
  <2> QED
    BY <2>1, <2>3, <2>4 DEF IInv, TypeOK, DownloaderTypeOK
<1>7. output' \in [Peers -> [0 .. MaxLines - 1 -> [1 .. N -> Cell]]]
  BY DEF handle_user_input, process_get, IInv, TypeOK, DownloaderTypeOK, Cell
<1>8. task' \in [Peers -> Task] /\ ScanAtEntry'
  BY SelectIsTask, OneThread DEF handle_user_input, process_get, Return
<1> QED
  BY <1>4, <1>5, <1>6, <1>7, <1>8
  DEF IInv, TypeOK, NetworkTypeOK, UploadTypeOK, DownloaderTypeOK,
      handle_user_input, process_get

LEMMA IHAVEType ==
    ASSUME IInv, NEW p \in Peers, NEW q \in Peers, Arrived(q, p, "IHAVE"),
           deal_with_IHAVE(p, q, Head(net[q][p])), UNCHANGED upload
    PROVE  IInv'
<1> DEFINE m == Head(net[q][p])
           t == IF HashesRead(m) = <<>> THEN Select
                ELSE [doing |-> "parse", from |-> q, left |-> HashesRead(m),
                      sent |-> FALSE]
<1>1. net[q][p] # <<>> /\ HashesRead(m) \in Seq(Chunks)
  BY ArrivedPacket, PacketFields, HashesReadType DEF IInv, TypeOK
<1>2. t \in Task /\ t.doing # "scan"
  BY <1>1 DEF Task, ParseTask, Select
<1>3. net' \in Paths
  BY <1>1, TakenType DEF deal_with_IHAVE, IInv, TypeOK, NetworkTypeOK
<1>4. task' = [task EXCEPT ![p] = t] /\ UNCHANGED <<upload, client>>
  BY DEF deal_with_IHAVE
<1> HIDE DEF t
<1>5. task' \in [Peers -> Task] /\ ScanAtEntry'
  BY <1>2, <1>4, OneThread DEF client
<1> QED
  BY <1>3, <1>4, <1>5
  DEF IInv, TypeOK, NetworkTypeOK, UploadTypeOK, DownloaderTypeOK, client

(* The thread after one hash of an IHAVE.                                  *)
LEMMA ParsedType ==
    ASSUME IInv, NEW p \in Peers, Doing(p, "parse"), NEW sent \in BOOLEAN,
           parsed(p, sent), \A r \in Peers : r # p => waiting'[r] = waiting[r]
    PROVE  task' \in [Peers -> Task] /\ ScanAtEntry'
<1> DEFINE left == task[p].left
           t == IF Len(left) = 1 THEN Select
                ELSE [task[p] EXCEPT !.left = Tail(left), !.sent = sent]
<1>1. task[p] \in ParseTask /\ left \in Seq(Chunks) /\ left # <<>>
  BY TaskFields DEF IInv, TypeOK, Doing, ParseTask
<1>2. CASE Len(left) = 1
  BY <1>2, SelectIsTask, OneThread DEF parsed, IInv, TypeOK
<1>3. CASE Len(left) # 1
  <2>1. Tail(left) \in Seq(Chunks) /\ Tail(left) # <<>>
    <3>1. Len(left) \in Nat /\ Len(left) # 0
      BY <1>1, EmptySeq
    <3>2. Tail(left) \in Seq(Chunks) /\ Len(Tail(left)) = Len(left) - 1
      BY <1>1, HeadTailProperties
    <3>3. Len(<<>>) = 0
      BY EmptySeq
    <3>4. Len(Tail(left)) # 0
      BY <1>3, <3>1, <3>2
    <3> QED
      BY <3>2, <3>3, <3>4
  <2>2. [task[p] EXCEPT !.left = Tail(left), !.sent = sent] \in ParseTask
    <3> HIDE DEF left
    <3> QED
      BY <1>1, <2>1 DEF ParseTask
  <2>3. t = [task[p] EXCEPT !.left = Tail(left), !.sent = sent]
    BY <1>3
  <2>4. task' = [task EXCEPT ![p] = t]
    <3> HIDE DEF left
    <3> QED
      BY <1>3, <2>3 DEF parsed, left
  <2> HIDE DEF t
  <2>5. t \in Task /\ t.doing # "scan"
    BY <2>2, <2>3 DEF Task, ParseTask
  <2> QED
    BY <2>4, <2>5, OneThread
<1> QED
  BY <1>2, <1>3

LEMMA ParseFields ==
    ASSUME IInv, NEW p \in Peers, Doing(p, "parse")
    PROVE  /\ task[p].from \in Peers
           /\ Head(task[p].left) \in Chunks
           /\ task[p].sent \in BOOLEAN
<1>1. task[p] \in ParseTask
  BY TaskFields DEF IInv, TypeOK, Doing
<1> QED
  BY <1>1, HeadTailProperties DEF ParseTask

LEMMA SkipHashType ==
    ASSUME IInv, NEW p \in Peers, skip_hash(p), UNCHANGED upload
    PROVE  IInv'
<1>1. task[p].sent \in BOOLEAN
  BY ParseFields DEF skip_hash
<1>2. task' \in [Peers -> Task] /\ ScanAtEntry'
  BY <1>1, ParsedType DEF skip_hash, client
<1> QED
  BY <1>2
  DEF skip_hash, IInv, TypeOK, NetworkTypeOK, UploadTypeOK, DownloaderTypeOK,
      client

LEMMA GetFirstHashType ==
    ASSUME IInv, NEW p \in Peers, get_first_hash(p), UNCHANGED upload
    PROVE  IInv'
<1> DEFINE c == Head(task[p].left)
           rid == search_id_for_hash(p, c)
           from == task[p].from
<1>1. c \in Chunks /\ from \in Peers /\ rid \in Lines
  BY ParseFields, SearchIdType DEF get_first_hash, IInv
<1>2. /\ download' = [download EXCEPT ![p] = with_session(@, rid, from)]
      /\ chunk_status' = [chunk_status EXCEPT
             ![p][rid] = [status |-> 1, hash |-> c]]
      /\ net' = Sent(net, p, from, Get(c))
      /\ UNCHANGED <<gets, waiting, output>>
  BY DEF get_first_hash
<1>3. task' \in [Peers -> Task] /\ ScanAtEntry'
  BY <1>2, ParsedType DEF get_first_hash
<1> HIDE DEF c, rid, from
<1>4. net' \in Paths
  BY <1>1, <1>2, PacketTypes, SentType DEF IInv, TypeOK, NetworkTypeOK
<1>5. download' \in [Peers -> [Slots -> Session]]
  BY <1>1, <1>2, WithSessionType DEF IInv, TypeOK, DownloaderTypeOK
<1>6. chunk_status' \in [Peers -> [Lines -> ChunkState]]
  <2>1. [status |-> 1, hash |-> c] \in ChunkState
    BY <1>1 DEF ChunkState, Status
  <2> QED
    BY <1>1, <1>2, <2>1 DEF IInv, TypeOK, DownloaderTypeOK
<1> QED
  BY <1>2, <1>3, <1>4, <1>5, <1>6
  DEF IInv, TypeOK, NetworkTypeOK, UploadTypeOK, DownloaderTypeOK

LEMMA QueueHashType ==
    ASSUME IInv, NEW p \in Peers, queue_hash(p), UNCHANGED upload
    PROVE  IInv'
<1> DEFINE c == Head(task[p].left)
           rid == search_id_for_hash(p, c)
           from == task[p].from
           entry == [rid |-> rid, from |-> from, hash |-> c, active |-> TRUE]
           i == find_free_waiting_entity(waiting[p])
<1>1. c \in Chunks /\ from \in Peers /\ rid \in Lines
  BY ParseFields, SearchIdType DEF queue_hash, IInv
<1>2. /\ waiting' = [waiting EXCEPT ![p][i] = entry]
      /\ UNCHANGED <<net, gets, chunk_status, download, output>>
  BY DEF queue_hash
<1>3. waiting \in [Peers -> [Entries -> Waiting \cup {NoWaiting}]]
  BY DEF IInv, TypeOK, DownloaderTypeOK
<1>4. task' \in [Peers -> Task] /\ ScanAtEntry'
  <2>1. \A r \in Peers : r # p => waiting'[r] = waiting[r]
    BY <1>2, <1>3
  <2> QED
    BY <2>1, ParsedType DEF queue_hash
<1>5. waiting' \in [Peers -> [Entries -> Waiting \cup {NoWaiting}]]
  <2> HIDE DEF c, rid, from, i
  <2>1. entry \in Waiting
    BY <1>1 DEF Waiting
  <2> QED
    BY <1>2, <1>3, <2>1
<1> QED
  BY <1>2, <1>4, <1>5
  DEF IInv, TypeOK, NetworkTypeOK, UploadTypeOK, DownloaderTypeOK

-----------------------------------------------------------------------------
(* The scan of the waiting list.                                           *)

LEMMA ScanFields ==
    ASSUME IInv, NEW p \in Peers, Doing(p, "scan")
    PROVE  /\ task[p].at \in 0 .. WaitMax - 1
           /\ task[p].after \in {Select, Ready}
           /\ waiting[p][task[p].at] \in Waiting
<1>1. task[p] \in ScanTask
  BY TaskFields DEF IInv, TypeOK, Doing
<1>2. task[p].at \in 0 .. WaitMax - 1 /\ task[p].after \in {Select, Ready}
  BY <1>1 DEF ScanTask
<1>3. task[p].at \in Entries
  BY <1>2, TablesAssumption DEF Entries
<1>4. waiting[p][task[p].at] \in Waiting \cup {NoWaiting}
  BY <1>3 DEF IInv, TypeOK, DownloaderTypeOK
<1>5. waiting[p][task[p].at].active
  BY DEF IInv, ScanAtEntry
<1> QED
  BY <1>2, <1>4, <1>5 DEF NoWaiting

(* The thread after one entry of the waiting list.                         *)
LEMMA VisitedType ==
    ASSUME IInv, NEW p \in Peers, Doing(p, "scan"),
           visited(p, waiting'[p]),
           \A r \in Peers : r # p => waiting'[r] = waiting[r]
    PROVE  task' \in [Peers -> Task] /\ ScanAtEntry'
<1> DEFINE t == next_entry(waiting'[p], task[p].at + 1, task[p].after)
<1>1. task[p].at + 1 \in Nat /\ task[p].after \in {Select, Ready}
  BY ScanFields
<1>2. /\ t \in {task[p].after} \cup ScanTask
      /\ t.doing = "scan" => waiting'[p][t.at].active
  BY <1>1, NextEntryType
<1>3. task' = [task EXCEPT ![p] = t]
  BY DEF visited
<1> HIDE DEF t
<1>4. t \in Task
  BY <1>1, <1>2 DEF Task
<1> QED
  BY <1>2, <1>3, <1>4, OneThread

LEMMA DropEntryType ==
    ASSUME IInv, NEW p \in Peers, drop_entry(p), UNCHANGED upload
    PROVE  IInv'
<1>1. waiting \in [Peers -> [Entries -> Waiting \cup {NoWaiting}]]
  BY DEF IInv, TypeOK, DownloaderTypeOK
<1>2. /\ waiting' = [waiting EXCEPT ![p][task[p].at] = NoWaiting]
      /\ UNCHANGED <<net, gets, chunk_status, download, output>>
  BY DEF drop_entry
<1>3. \A r \in Peers : r # p => waiting'[r] = waiting[r]
  BY <1>1, <1>2
<1>4. task' \in [Peers -> Task] /\ ScanAtEntry'
  BY <1>3, VisitedType DEF drop_entry
<1>5. waiting' \in [Peers -> [Entries -> Waiting \cup {NoWaiting}]]
  BY <1>1, <1>2
<1> QED
  BY <1>2, <1>4, <1>5
  DEF IInv, TypeOK, NetworkTypeOK, UploadTypeOK, DownloaderTypeOK

LEMMA KeepEntryType ==
    ASSUME IInv, NEW p \in Peers, keep_entry(p), UNCHANGED upload
    PROVE  IInv'
<1>1. UNCHANGED waiting
  BY DEF keep_entry, client
<1>2. task' \in [Peers -> Task] /\ ScanAtEntry'
  BY <1>1, VisitedType DEF keep_entry
<1> QED
  BY <1>2
  DEF keep_entry, IInv, TypeOK, NetworkTypeOK, UploadTypeOK, DownloaderTypeOK,
      client

LEMMA SendEntryType ==
    ASSUME IInv, NEW p \in Peers, send_entry(p), UNCHANGED upload
    PROVE  IInv'
<1> DEFINE i == task[p].at
           entry == waiting[p][i]
<1>1. entry \in Waiting
  BY ScanFields DEF send_entry
<1>2. entry.rid \in Lines /\ entry.from \in Peers /\ entry.hash \in Chunks
  BY <1>1 DEF Waiting
<1>3. /\ download' = [download EXCEPT
             ![p] = with_session(@, entry.rid, entry.from)]
      /\ waiting' = [waiting EXCEPT ![p][i] = NoWaiting]
      /\ net' = Sent(net, p, entry.from, Get(entry.hash))
      /\ UNCHANGED <<gets, chunk_status, output>>
  BY DEF send_entry
<1>4. waiting \in [Peers -> [Entries -> Waiting \cup {NoWaiting}]]
  BY DEF IInv, TypeOK, DownloaderTypeOK
<1>5. \A r \in Peers : r # p => waiting'[r] = waiting[r]
  BY <1>3, <1>4
<1>6. task' \in [Peers -> Task] /\ ScanAtEntry'
  BY <1>5, VisitedType DEF send_entry
<1> HIDE DEF i, entry
<1>7. net' \in Paths
  BY <1>2, <1>3, PacketTypes, SentType DEF IInv, TypeOK, NetworkTypeOK
<1>8. download' \in [Peers -> [Slots -> Session]]
  BY <1>2, <1>3, WithSessionType DEF IInv, TypeOK, DownloaderTypeOK
<1>9. waiting' \in [Peers -> [Entries -> Waiting \cup {NoWaiting}]]
  BY <1>3, <1>4
<1> QED
  BY <1>3, <1>6, <1>7, <1>8, <1>9
  DEF IInv, TypeOK, NetworkTypeOK, UploadTypeOK, DownloaderTypeOK

-----------------------------------------------------------------------------
(* DATA.                                                                   *)

LEMMA AckedStrangerType ==
    ASSUME TypeOK, NEW p \in Peers, NEW q \in Peers, NEW m,
           net[q][p] # <<>>, m.seq \in Nat
    PROVE  acked_stranger(p, q, m) \in Paths
  BY AnsweredType, TakenType, PacketTypes
  DEF acked_stranger, TypeOK, NetworkTypeOK

LEMMA SessionFields ==
    ASSUME TypeOK, NEW p \in Peers, NEW k \in Slots
    PROVE  /\ download[p][k] \in Session
           /\ download[p][k].rid \in Lines
           /\ download[p][k].seq \in Nat
           /\ download[p][k].pos \in Nat
<1>1. download[p][k] \in Session
  BY DEF TypeOK, DownloaderTypeOK
<1> QED
  BY <1>1 DEF Session

LEMMA IgnoreDATAType ==
    ASSUME IInv, NEW p \in Peers, NEW q \in Peers, Arrived(q, p, "DATA"),
           ignore_DATA(p, q, Head(net[q][p])), UNCHANGED upload
    PROVE  IInv'
<1> DEFINE m == Head(net[q][p])
           s == download[p][session_from(p, q)]
<1>1. net[q][p] # <<>> /\ m.seq \in Nat
  BY ArrivedPacket, PacketFields DEF IInv, TypeOK
<1>2. s.seq \in Nat
  BY SlotSearchType, SessionFields DEF IInv
<1>3. expected_ack(s) \in Nat
  <2> HIDE DEF s
  <2> QED
    BY <1>2 DEF expected_ack
<1>4. net' = Sent(acked_stranger(p, q, m), p, q, Ack(expected_ack(s)))
  BY DEF ignore_DATA
<1>5. net' \in Paths
  <2> HIDE DEF s
  <2> QED
    BY <1>1, <1>3, <1>4, AckedStrangerType, SentType, PacketTypes DEF IInv
<1>6. UNCHANGED client
  BY DEF ignore_DATA
<1>7. task' \in [Peers -> Task] /\ ScanAtEntry'
  BY <1>6, SelectIsTask, OneThread DEF ignore_DATA, Return, client
<1> QED
  BY <1>5, <1>6, <1>7
  DEF IInv, TypeOK, NetworkTypeOK, UploadTypeOK, DownloaderTypeOK, client

LEMMA AcceptDATAType ==
    ASSUME IInv, NEW p \in Peers, NEW q \in Peers, Arrived(q, p, "DATA"),
           accept_DATA(p, q, Head(net[q][p])), UNCHANGED upload
    PROVE  IInv'
<1> DEFINE m == Head(net[q][p])
           k == session_from(p, q)
           s == download[p][k]
           grown == [s EXCEPT !.pos = s.pos + 1, !.seq = s.seq + 1]
<1>1. net[q][p] # <<>> /\ m.seq \in Nat /\ m.data \in Cell
  BY ArrivedPacket, PacketFields DEF IInv, TypeOK
<1>2. k \in Slots /\ s \in Session /\ s.rid \in Lines /\ s.pos \in Nat
      /\ s.seq \in Nat
  BY SlotSearchType, SessionFields DEF IInv
<1>3. /\ output' = [output EXCEPT
             ![p][line_written(s)][block_written(s)] = m.data]
      /\ net' = Sent(acked_stranger(p, q, m), p, q, Ack(m.seq))
      /\ UNCHANGED <<gets, waiting>>
  BY DEF accept_DATA
<1>4. grown \in Session
  <2>1. s.pos + 1 \in Nat /\ s.seq + 1 \in Nat
    BY <1>2
  <2> HIDE DEF s
  <2> QED
    BY <1>2, <2>1 DEF Session
<1>5. net' \in Paths
  BY <1>1, <1>3, AckedStrangerType, SentType, PacketTypes DEF IInv
<1>6. output' \in [Peers -> [0 .. MaxLines - 1 -> [1 .. N -> Cell]]]
  <2> HIDE DEF m, s
  <2> QED
    BY <1>1, <1>3 DEF IInv, TypeOK, DownloaderTypeOK
<1>7. CASE /\ is_chunk_full(grown)
           /\ \E b \in {0, 2} : chunk_status' =
                  [chunk_status EXCEPT ![p][s.rid].status = b]
           /\ download' = [download EXCEPT ![p][k] = NoSession]
           /\ task' = [task EXCEPT
                  ![p] = scan(download'[p], waiting[p], Select)]
  <2> DEFINE t == scan(download'[p], waiting[p], Select)
  <2>1. download' \in [Peers -> [Slots -> Session]]
    <3>1. NoSession \in Session
      BY RequestFilesAssumption DEF NoSession, Session, Lines
    <3> QED
      BY <1>7, <3>1 DEF IInv, TypeOK, DownloaderTypeOK
  <2>2. chunk_status' \in [Peers -> [Lines -> ChunkState]]
    <3>1. PICK b \in {0, 2} : chunk_status' =
              [chunk_status EXCEPT ![p][s.rid].status = b]
      BY <1>7
    <3>2. chunk_status[p][s.rid] \in ChunkState
      BY <1>2 DEF IInv, TypeOK, DownloaderTypeOK
    <3> HIDE DEF s
    <3>3. [chunk_status[p][s.rid] EXCEPT !.status = b] \in ChunkState
      BY <3>2 DEF ChunkState, Status
    <3> QED
      BY <1>2, <3>1, <3>3 DEF IInv, TypeOK, DownloaderTypeOK
  <2>3. /\ t \in {Select} \cup ScanTask
        /\ t.doing = "scan" => waiting[p][t.at].active
    BY ScanType
  <2>4. task' = [task EXCEPT ![p] = t] /\ UNCHANGED waiting
    BY <1>3, <1>7
  <2> HIDE DEF t
  <2>5. t \in Task
    BY <2>3 DEF Task
  <2>6. task' \in [Peers -> Task] /\ ScanAtEntry'
    BY <2>3, <2>4, <2>5, OneThread
  <2> QED
    BY <1>3, <1>5, <1>6, <2>1, <2>2, <2>6
    DEF IInv, TypeOK, NetworkTypeOK, UploadTypeOK, DownloaderTypeOK
<1>8. CASE /\ ~is_chunk_full(grown)
           /\ download' = [download EXCEPT ![p][k] = grown]
           /\ Return(p)
           /\ UNCHANGED chunk_status
  <2>1. download' \in [Peers -> [Slots -> Session]]
    <3> HIDE DEF grown, k
    <3> QED
      BY <1>4, <1>8 DEF IInv, TypeOK, DownloaderTypeOK
  <2>2. task' \in [Peers -> Task] /\ ScanAtEntry'
    BY <1>3, <1>8, SelectIsTask, OneThread DEF Return
  <2> QED
    BY <1>3, <1>5, <1>6, <1>8, <2>1, <2>2
    DEF IInv, TypeOK, NetworkTypeOK, UploadTypeOK, DownloaderTypeOK
<1> QED
  BY <1>7, <1>8 DEF accept_DATA

-----------------------------------------------------------------------------
(* The event loop and the network.                                         *)

LEMMA WakeType ==
    ASSUME IInv, NEW p \in Peers, wake(p)
    PROVE  IInv'
<1>1. /\ scan_first(p) \in {Ready} \cup ScanTask
      /\ scan_first(p).doing = "scan" =>
             waiting[p][scan_first(p).at].active
  BY ScanType DEF scan_first
<1>2. task' = [task EXCEPT ![p] = scan_first(p)] /\ UNCHANGED waiting
  BY DEF wake, client
<1>3. scan_first(p) \in Task
  BY <1>1 DEF Task
<1>4. task' \in [Peers -> Task] /\ ScanAtEntry'
  BY <1>1, <1>2, <1>3, OneThread
<1> QED
  BY <1>4
  DEF wake, IInv, TypeOK, NetworkTypeOK, UploadTypeOK, DownloaderTypeOK,
      client

LEMMA OtherInputType ==
    ASSUME IInv, NEW p \in Peers, other_input(p)
    PROVE  IInv'
<1>1. task' \in [Peers -> Task] /\ ScanAtEntry'
  BY SelectIsTask, OneThread DEF other_input, Return, client
<1> QED
  BY <1>1
  DEF other_input, IInv, TypeOK, NetworkTypeOK, UploadTypeOK,
      DownloaderTypeOK, client

LEMMA DisturbType ==
    ASSUME IInv, NEW p \in Peers, NEW q \in Peers, disturb(p, q)
    PROVE  IInv'
<1>1. net \in Paths /\ net[p][q] \in Seq(Packet) /\ net[p][q] # <<>>
  BY DEF IInv, TypeOK, NetworkTypeOK, Paths, disturb, Lose, CrowdOut,
         Duplicate, Unreliable, Arrived
<1>2. net' \in Paths
  <2>1. CASE Lose(p, q) \/ CrowdOut(p, q)
    BY <1>1, <2>1, TakenType DEF Lose, CrowdOut
  <2>2. CASE Duplicate(p, q)
    <3> DEFINE copies == [i \in 1 .. Dups |-> Head(net[p][q])]
    <3>1. Head(net[p][q]) \in Packet
      BY <1>1, HeadTailProperties
    <3>2. copies \in Seq(Packet)
      BY <3>1, LossAssumption, IsASeq
    <3>3. copies \o net[p][q] \in Seq(Packet)
      BY <1>1, <3>2, ConcatProperties
    <3>4. net' = [net EXCEPT ![p][q] = copies \o net[p][q]]
      BY <1>1, <2>2 DEF Duplicate, Paths
    <3> HIDE DEF copies
    <3> QED
      BY <1>1, <3>3, <3>4 DEF Paths
  <2> QED
    BY <2>1, <2>2 DEF disturb
<1> QED
  BY <1>2
  DEF disturb, IInv, TypeOK, NetworkTypeOK, UploadTypeOK, DownloaderTypeOK,
      ScanAtEntry, Doing, client

-----------------------------------------------------------------------------
LEMMA InitIInv == Init => IInv
<1> SUFFICES ASSUME Init PROVE IInv
  OBVIOUS
<1>1. NetworkTypeOK
  BY EmptySeq DEF Init, NetworkInit, NetworkTypeOK, Paths
<1>2. UploadTypeOK
  BY DEF Init, UploaderInit, UploadTypeOK
<1>3. DownloaderTypeOK
  <2>1. NoSession \in Session /\ HeapSlot \in Session
    BY RequestFilesAssumption, HeapAssumption
    DEF NoSession, Session, Lines
  <2>2. \A p \in Peers : 0 <= Len(RequestFiles[p])
    BY RequestFilesAssumption
  <2>3. [status |-> 0, hash |-> NoChunk] \in ChunkState
    BY DEF ChunkState, Status
  <2> QED
    BY <2>1, <2>2, <2>3 DEF Init, DownloaderInit, DownloaderTypeOK, Cell
<1>4. task \in [Peers -> Task] /\ ScanAtEntry
  BY SelectIsTask DEF Init, ScanAtEntry, Doing
<1> QED
  BY <1>1, <1>2, <1>3, <1>4 DEF IInv, TypeOK

LEMMA NextIInv == IInv /\ [Next]_vars => IInv'
<1> SUFFICES ASSUME IInv, [Next]_vars PROVE IInv'
  OBVIOUS
<1>1. CASE UNCHANGED vars
  BY <1>1
  DEF vars, client, IInv, TypeOK, NetworkTypeOK, UploadTypeOK,
      DownloaderTypeOK, ScanAtEntry, Doing
<1>2. CASE \E p \in Peers : \/ wake(p)
                            \/ other_input(p)
                            \/ work(p)
                            \/ handle_user_input(p)
                            \/ timer(p)
  <2>1. PICK p \in Peers : \/ wake(p)
                           \/ other_input(p)
                           \/ work(p)
                           \/ handle_user_input(p)
                           \/ timer(p)
    BY <1>2
  <2>2. CASE work(p)
    BY <2>2, AnswerLineType, SendIHAVEType, SkipHashType, GetFirstHashType,
       QueueHashType, DropEntryType, KeepEntryType, SendEntryType DEF work
  <2> QED
    BY <2>1, <2>2, WakeType, OtherInputType, ProcessGetType, TimerType
<1>3. CASE \E p, q \in Peers : process_inbound_udp(p, q) \/ disturb(p, q)
  <2>1. PICK p \in Peers, q \in Peers :
            process_inbound_udp(p, q) \/ disturb(p, q)
    BY <1>3
  <2>2. CASE process_inbound_udp(p, q)
    BY <2>2, WHOHASType, IHAVEType, GETType, IgnoreDATAType, AcceptDATAType,
       ACKType DEF process_inbound_udp, deal_with_DATA
  <2> QED
    BY <2>1, <2>2, DisturbType
<1> QED
  BY <1>1, <1>2, <1>3 DEF Next

(* Every variable keeps its type in every swarm: in particular a table is  *)
(* only ever indexed by an entry of it or by the -1 in front of it, and    *)
(* what the timer and the ACK handler send is a block of a chunk.          *)
THEOREM TypeCorrect == Spec => []TypeOK
<1>1. IInv => TypeOK
  BY DEF IInv
<1> QED
  BY InitIInv, NextIInv, <1>1, PTL DEF Spec

-----------------------------------------------------------------------------
(* SessionInStep.  It is inductive once the tables have their types.       *)

(* The property of one entry.                                              *)
InStep(s) == s.active => s.pos = s.seq - 1 /\ s.pos < N

LEMMA SessionInStepByEntry ==
    SessionInStep <=>
        \A p \in Peers : \A i \in 0 .. MaxConn - 1 : InStep(download[p][i])
  BY DEF SessionInStep, Sessions, InStep

(* Opening a session keeps the others; the new one starts at block 1.      *)
LEMMA WithSessionInStep ==
    ASSUME NEW table \in [Slots -> Session], NEW rid, NEW q,
           \A i \in 0 .. MaxConn - 1 : InStep(table[i])
    PROVE  \A i \in 0 .. MaxConn - 1 : InStep(with_session(table, rid, q)[i])
<1>1. InStep(new_session(rid, q))
  BY NAssumption DEF InStep, new_session
<1>2. 0 .. MaxConn - 1 \subseteq Slots
  BY TablesAssumption DEF Slots
<1> QED
  BY <1>1, <1>2 DEF with_session

(* A step after which each entry of one peer is what it was, or in step.   *)
LEMMA OneTableInStep ==
    ASSUME TypeOK, SessionInStep, NEW p \in Peers,
           \A r \in Peers : r # p => download'[r] = download[r],
           \A i \in 0 .. MaxConn - 1 : InStep(download'[p][i])
    PROVE  SessionInStep'
<1>1. \A r \in Peers : \A i \in 0 .. MaxConn - 1 : InStep(download'[r][i])
  BY SessionInStepByEntry
<1> QED
  BY <1>1 DEF SessionInStep, Sessions, InStep

LEMMA GetFirstHashInStep ==
    ASSUME TypeOK, SessionInStep, NEW p \in Peers, get_first_hash(p)
    PROVE  SessionInStep'
<1>1. PICK rid, q :
          download' = [download EXCEPT ![p] = with_session(@, rid, q)]
  BY DEF get_first_hash
<1>2. download \in [Peers -> [Slots -> Session]]
  BY DEF TypeOK, DownloaderTypeOK
<1>3. \A i \in 0 .. MaxConn - 1 : InStep(download[p][i])
  BY SessionInStepByEntry
<1>4. download'[p] = with_session(download[p], rid, q)
  BY <1>1, <1>2
<1>5. \A i \in 0 .. MaxConn - 1 : InStep(download'[p][i])
  BY <1>2, <1>3, <1>4, WithSessionInStep
<1> QED
  BY <1>1, <1>2, <1>5, OneTableInStep

LEMMA SendEntryInStep ==
    ASSUME TypeOK, SessionInStep, NEW p \in Peers, send_entry(p)
    PROVE  SessionInStep'
<1>1. PICK rid, q :
          download' = [download EXCEPT ![p] = with_session(@, rid, q)]
  BY DEF send_entry
<1>2. download \in [Peers -> [Slots -> Session]]
  BY DEF TypeOK, DownloaderTypeOK
<1>3. \A i \in 0 .. MaxConn - 1 : InStep(download[p][i])
  BY SessionInStepByEntry
<1>4. download'[p] = with_session(download[p], rid, q)
  BY <1>1, <1>2
<1>5. \A i \in 0 .. MaxConn - 1 : InStep(download'[p][i])
  BY <1>2, <1>3, <1>4, WithSessionInStep
<1> QED
  BY <1>1, <1>2, <1>5, OneTableInStep

(* The block expected moves position and number on together, and the one   *)
(* that fills the chunk ends the session.  When the entry is -1 no session *)
(* is touched.                                                             *)
LEMMA AcceptDATAInStep ==
    ASSUME TypeOK, SessionInStep, NEW p \in Peers, NEW q \in Peers, NEW m,
           accept_DATA(p, q, m)
    PROVE  SessionInStep'
<1> DEFINE k == session_from(p, q)
           s == download[p][k]
           grown == [s EXCEPT !.pos = s.pos + 1, !.seq = s.seq + 1]
<1>1. k \in Slots /\ s \in Session /\ s.pos \in Nat /\ s.seq \in Nat
  BY SlotSearchType, SessionFields
<1>2. download \in [Peers -> [Slots -> Session]]
  BY DEF TypeOK, DownloaderTypeOK
<1>3. \A i \in 0 .. MaxConn - 1 : InStep(download[p][i])
  BY SessionInStepByEntry
<1>4. k # -1 => InStep(s) /\ s.active
  <2>1. k # -1 => k \in Sessions(p)
    BY FirstIsIndex DEF session_from, Sessions
  <2> QED
    BY <1>3, <2>1 DEF Sessions
<1>5. InStep(NoSession)
  BY DEF InStep, NoSession
<1>6. k # -1 /\ ~is_chunk_full(grown) => InStep(grown)
  <2>1. /\ grown.pos = s.pos + 1
        /\ grown.seq = s.seq + 1
    <3> HIDE DEF s
    <3> QED
      BY <1>1 DEF Session
  <2> HIDE DEF s, grown, k
  <2> QED
    BY <1>1, <1>4, <2>1, NAssumption DEF is_chunk_full, InStep
<1>7. \/ download' = [download EXCEPT ![p][k] = NoSession]
      \/ ~is_chunk_full(grown) /\ download' = [download EXCEPT ![p][k] = grown]
  BY DEF accept_DATA
<1>8. 0 .. MaxConn - 1 \subseteq Slots /\ -1 \notin 0 .. MaxConn - 1
  BY TablesAssumption DEF Slots
<1>9. \A i \in 0 .. MaxConn - 1 : InStep(download'[p][i])
  <2> HIDE DEF grown, k
  <2> QED
    BY <1>1, <1>2, <1>3, <1>5, <1>6, <1>7, <1>8
<1>10. \A r \in Peers : r # p => download'[r] = download[r]
  <2> HIDE DEF grown, k
  <2> QED
    BY <1>2, <1>7
<1> QED
  BY <1>9, <1>10, OneTableInStep

LEMMA NextInStep == TypeOK /\ SessionInStep /\ [Next]_vars => SessionInStep'
<1> SUFFICES ASSUME TypeOK, SessionInStep, [Next]_vars
             PROVE  SessionInStep'
  OBVIOUS
<1>1. ASSUME UNCHANGED download
      PROVE  SessionInStep'
  BY <1>1 DEF SessionInStep, Sessions
<1>2. CASE UNCHANGED vars
  BY <1>1, <1>2 DEF vars, client
<1>3. ASSUME NEW p \in Peers, work(p)
      PROVE  SessionInStep'
  <2>1. CASE get_first_hash(p)
    BY <2>1, GetFirstHashInStep
  <2>2. CASE send_entry(p)
    BY <2>2, SendEntryInStep
  <2>3. CASE UNCHANGED download
    BY <2>3, <1>1
  <2> QED
    BY <1>3, <2>1, <2>2, <2>3
    DEF work, answer_line, send_IHAVE, skip_hash, queue_hash, drop_entry,
        keep_entry, client
<1>4. ASSUME NEW p \in Peers, \/ wake(p)
                              \/ other_input(p)
                              \/ handle_user_input(p)
                              \/ timer(p)
      PROVE  SessionInStep'
  <2>1. UNCHANGED download
    BY <1>4
    DEF wake, other_input, handle_user_input, process_get, timer, client
  <2> QED
    BY <1>1, <2>1
<1>5. ASSUME NEW p \in Peers, NEW q \in Peers, process_inbound_udp(p, q)
      PROVE  SessionInStep'
  <2>1. CASE accept_DATA(p, q, Head(net[q][p]))
    BY <2>1, AcceptDATAInStep
  <2>2. CASE UNCHANGED download
    BY <2>2, <1>1
  <2> QED
    BY <1>5, <2>1, <2>2
    DEF process_inbound_udp, deal_with_DATA, ignore_DATA, deal_with_IHAVE,
        client
<1>6. ASSUME NEW p \in Peers, NEW q \in Peers, disturb(p, q)
      PROVE  SessionInStep'
  BY <1>1, <1>6 DEF disturb, client
<1> QED
  BY <1>2, <1>3, <1>4, <1>5, <1>6 DEF Next

(* In every swarm a session's next block number and its write position     *)
(* move together, and no session waits for a block beyond its chunk:       *)
(* whatever arrives, in whatever order, however many sessions are mixed up *)
(* and whatever the memory in front of the table holds.                    *)
THEOREM SessionsStayInStep == Spec => []SessionInStep
<1>1. Init => SessionInStep
  BY TablesAssumption
  DEF Init, DownloaderInit, SessionInStep, Sessions, Slots, NoSession
<1> QED
  BY <1>1, NextInStep, TypeCorrect, PTL DEF Spec

-----------------------------------------------------------------------------
(* Why a block lands at its own place, in every swarm.  It joins the two   *)
(* ends of a transfer: every DATA under way carries the block its number   *)
(* names (the uploader), and a session writes the block it expects where   *)
(* that number says (SessionInStep).                                       *)

(* What a DATA carries is a block of the number in its header.             *)
Honest(m) ==
    m.type = "DATA" => \E c \in Chunks : m.data = <<c, m.seq>>

HonestPaths == [Peers -> [Peers -> Seq({m \in Packet : Honest(m)})]]

(* Every packet under way is honest.                                       *)
DataHonest == net \in HonestPaths

-----------------------------------------------------------------------------
LEMMA HonestPathsArePaths ==
    ASSUME NEW n \in HonestPaths
    PROVE  n \in Paths
<1>1. Seq({m \in Packet : Honest(m)}) \subseteq Seq(Packet)
  BY SeqMonotonic
<1> QED
  BY <1>1 DEF HonestPaths, Paths

LEMMA SentHonest ==
    ASSUME NEW n \in HonestPaths, NEW p \in Peers, NEW q \in Peers,
           NEW m \in Packet, Honest(m)
    PROVE  Sent(n, p, q, m) \in HonestPaths
<1> DEFINE H == {x \in Packet : Honest(x)}
<1>1. n[p] \in [Peers -> Seq(H)] /\ n[p][q] \in Seq(H) /\ m \in H
  BY DEF HonestPaths
<1> HIDE DEF H
<1>2. enQ(n[p][q], m) \in Seq(H)
  BY <1>1, AppendProperties DEF enQ
<1>3. n \in [Peers -> [Peers -> Seq(H)]]
  BY DEF HonestPaths, H
<1>4. Sent(n, p, q, m) \in [Peers -> [Peers -> Seq(H)]]
  BY <1>1, <1>2, <1>3 DEF Sent
<1> QED
  BY <1>4 DEF HonestPaths, H

LEMMA TakenHonest ==
    ASSUME NEW n \in HonestPaths, NEW p \in Peers, NEW q \in Peers,
           n[p][q] # <<>>
    PROVE  Taken(n, p, q) \in HonestPaths
<1> DEFINE H == {x \in Packet : Honest(x)}
<1>1. n[p] \in [Peers -> Seq(H)] /\ n[p][q] \in Seq(H)
  BY DEF HonestPaths
<1>2. n \in [Peers -> [Peers -> Seq(H)]]
  BY DEF HonestPaths
<1> HIDE DEF H
<1>3. Tail(n[p][q]) \in Seq(H)
  BY <1>1, HeadTailProperties
<1>4. Taken(n, p, q) \in [Peers -> [Peers -> Seq(H)]]
  BY <1>1, <1>2, <1>3 DEF Taken
<1> QED
  BY <1>4 DEF HonestPaths, H

LEMMA AnsweredHonest ==
    ASSUME DataHonest, NEW p \in Peers, NEW q \in Peers,
           net[q][p] # <<>>, NEW m \in Packet, Honest(m)
    PROVE  Answered(p, q, m) \in HonestPaths
  BY TakenHonest, SentHonest DEF Answered, DataHonest

(* The packet that arrives is honest.                                      *)
LEMMA ArrivedHonest ==
    ASSUME DataHonest, NEW p \in Peers, NEW q \in Peers, net[p][q] # <<>>
    PROVE  Honest(Head(net[p][q]))
<1> DEFINE H == {x \in Packet : Honest(x)}
<1>1. net[p][q] \in Seq(H)
  BY DEF DataHonest, HonestPaths
<1> HIDE DEF H
<1>2. Head(net[p][q]) \in H
  BY <1>1, HeadTailProperties
<1> QED
  BY <1>2 DEF H

(* Only a DATA can be dishonest, and a block read by master is not.        *)
LEMMA HonestPackets ==
    /\ \A h : Honest(Whohas(h)) /\ Honest(Ihave(h))
    /\ \A c : Honest(Get(c))
    /\ \A ack : Honest(Ack(ack))
    /\ \A c \in Chunks : \A b : Honest(Data(b, master(c, b)))
  BY DEF Honest, Whohas, Ihave, Get, Ack, Data, master

-----------------------------------------------------------------------------
LEMMA ReceiveHonest ==
    ASSUME IInv, DataHonest, NEW p \in Peers, NEW q \in Peers,
           process_inbound_udp(p, q)
    PROVE  DataHonest'
<1> DEFINE m == Head(net[q][p])
<1>1. net[q][p] # <<>>
  BY DEF process_inbound_udp, Arrived
<1>2. Taken(net, q, p) \in HonestPaths
  BY <1>1, TakenHonest DEF DataHonest
<1>3. CASE net' = Taken(net, q, p)
  BY <1>2, <1>3 DEF DataHonest
<1>4. CASE Arrived(q, p, "GET") /\ deal_with_GET(p, q, m)
  <2>1. m.hash \in Chunks
    BY <1>4, ArrivedPacket, PacketFields DEF IInv, TypeOK
  <2>2. 1 \in Nat /\ 1 \in 1 .. N
    BY NAssumption
  <2>3. Data(1, master(m.hash, 1)) \in Packet
    BY <2>1, <2>2, MasterType, PacketTypes
  <2> QED
    BY <1>1, <1>4, <2>1, <2>3, HonestPackets, AnsweredHonest
    DEF deal_with_GET, DataHonest
<1>5. CASE /\ Arrived(q, p, "ACK")
           /\ ~last_acked(m.ack)
           /\ upload[p].to # NoPeer
           /\ net' = Answered(p, q, Data(m.ack + 1,
                                    master(upload[p].chunk, m.ack + 1)))
  <2>1. m.ack \in Nat
    BY <1>5, ArrivedPacket, PacketFields DEF IInv, TypeOK
  <2>2. m.ack + 1 \in 1 .. N
    BY <1>5, <2>1, NAssumption DEF last_acked
  <2>3. upload[p].chunk \in Chunks
    BY <1>5, UploadFields DEF IInv, UploadInfo
  <2>4. Data(m.ack + 1, master(upload[p].chunk, m.ack + 1)) \in Packet
    BY <2>2, <2>3, MasterType, PacketTypes
  <2> QED
    BY <1>1, <1>5, <2>3, <2>4, HonestPackets, AnsweredHonest DEF DataHonest
<1>6. CASE Arrived(q, p, "DATA") /\ deal_with_DATA(p, q, m)
  <2>1. m.seq \in Nat
    BY <1>6, ArrivedPacket, PacketFields DEF IInv, TypeOK
  <2>2. acked_stranger(p, q, m) \in HonestPaths
    BY <1>1, <1>2, <2>1, AnsweredHonest, HonestPackets, PacketTypes
    DEF acked_stranger
  <2>3. PICK ack \in Nat : net' = Sent(acked_stranger(p, q, m), p, q, Ack(ack))
    <3> DEFINE s == download[p][session_from(p, q)]
    <3>1. s.seq \in Nat
      BY SlotSearchType, SessionFields DEF IInv
    <3>2. expected_ack(s) \in Nat
      <4> HIDE DEF s
      <4> QED
        BY <3>1 DEF expected_ack
    <3>3. \/ net' = Sent(acked_stranger(p, q, m), p, q, Ack(expected_ack(s)))
          \/ net' = Sent(acked_stranger(p, q, m), p, q, Ack(m.seq))
      BY <1>6 DEF deal_with_DATA, ignore_DATA, accept_DATA
    <3> HIDE DEF s
    <3> QED
      BY <2>1, <3>2, <3>3
  <2> QED
    BY <2>2, <2>3, SentHonest, HonestPackets, PacketTypes DEF DataHonest
<1> QED
  BY <1>3, <1>4, <1>5, <1>6
  DEF process_inbound_udp, deal_with_WHOHAS, deal_with_IHAVE, deal_with_ACK

LEMMA WorkHonest ==
    ASSUME IInv, DataHonest, NEW p \in Peers, work(p)
    PROVE  DataHonest'
<1>1. CASE UNCHANGED net
  BY <1>1 DEF DataHonest
<1>2. CASE send_IHAVE(p)
  <2>1. task[p] \in AnswerTask
    BY <1>2, TaskFields DEF IInv, TypeOK, send_IHAVE, Doing
  <2>2. task[p].to \in Peers /\ Ihave(task[p].found) \in Packet
    BY <2>1, PacketTypes DEF AnswerTask
  <2> QED
    BY <1>2, <2>2, SentHonest, HonestPackets DEF send_IHAVE, DataHonest
<1>3. CASE get_first_hash(p)
  <2>1. task[p].from \in Peers /\ Get(Head(task[p].left)) \in Packet
    BY <1>3, ParseFields, PacketTypes DEF get_first_hash
  <2>2. net' = Sent(net, p, task[p].from, Get(Head(task[p].left)))
    BY <1>3 DEF get_first_hash
  <2> QED
    BY <2>1, <2>2, SentHonest, HonestPackets DEF DataHonest
<1>4. CASE send_entry(p)
  <2> DEFINE entry == waiting[p][task[p].at]
  <2>1. entry.from \in Peers /\ Get(entry.hash) \in Packet
    BY <1>4, ScanFields, PacketTypes DEF send_entry, Waiting
  <2>2. net' = Sent(net, p, entry.from, Get(entry.hash))
    BY <1>4 DEF send_entry
  <2> QED
    BY <2>1, <2>2, SentHonest, HonestPackets DEF DataHonest
<1> QED
  BY <1>1, <1>2, <1>3, <1>4
  DEF work, answer_line, skip_hash, queue_hash, drop_entry, keep_entry

LEMMA UserInputHonest ==
    ASSUME IInv, DataHonest, NEW p \in Peers, handle_user_input(p)
    PROVE  DataHonest'
<1> DEFINE H == {x \in Packet : Honest(x)}
<1>1. gets[p] + 1 \in 1 .. Len(RequestFiles[p])
  <2>1. gets[p] \in Nat /\ gets[p] < Len(RequestFiles[p])
    BY DEF IInv, TypeOK, DownloaderTypeOK, handle_user_input, process_get
  <2>2. Len(RequestFiles[p]) \in Nat
    BY RequestFilesAssumption
  <2> QED
    BY <2>1, <2>2
<1>2. PICK file \in Seq(Chunks) : net' = [net EXCEPT ![p] =
          [q \in Peers |-> IF q = p THEN net[p][q]
                           ELSE enQ(net[p][q], Whohas(file))]]
  <2>1. RequestFiles[p] \in Seq(Seq(Chunks))
    BY RequestFilesAssumption
  <2>2. RequestFiles[p][gets[p] + 1] \in Seq(Chunks)
    BY <1>1, <2>1, ElementOfSeq
  <2> QED
    BY <2>2 DEF handle_user_input, process_get, DataHonest, HonestPaths
<1>3. Whohas(file) \in H
  BY <1>2, PacketTypes, HonestPackets
<1>4. net \in [Peers -> [Peers -> Seq(H)]]
  BY DEF DataHonest, HonestPaths
<1> HIDE DEF H
<1>5. \A q \in Peers : enQ(net[p][q], Whohas(file)) \in Seq(H)
  BY <1>3, <1>4, AppendProperties DEF enQ
<1>6. net' \in [Peers -> [Peers -> Seq(H)]]
  BY <1>2, <1>4, <1>5
<1> QED
  BY <1>6 DEF DataHonest, HonestPaths, H

LEMMA TimerHonest ==
    ASSUME IInv, DataHonest, NEW p \in Peers, timer(p)
    PROVE  DataHonest'
<1> DEFINE u == upload[p]
<1>1. u \in UploadInfo
  BY UploadFields DEF timer, retransmit, IInv
<1>2. u.max_ack + 1 \in 1 .. N /\ u.to \in Peers /\ u.chunk \in Chunks
  BY <1>1, NAssumption DEF UploadInfo
<1>3. Data(u.max_ack + 1, master(u.chunk, u.max_ack + 1)) \in Packet
  BY <1>2, MasterType, PacketTypes
<1> QED
  BY <1>2, <1>3, SentHonest, HonestPackets DEF timer, retransmit, DataHonest

LEMMA DisturbHonest ==
    ASSUME DataHonest, NEW p \in Peers, NEW q \in Peers, disturb(p, q)
    PROVE  DataHonest'
<1>1. net[p][q] # <<>>
  BY DEF disturb, Lose, CrowdOut, Duplicate, Unreliable, Arrived
<1>2. CASE Lose(p, q) \/ CrowdOut(p, q)
  BY <1>1, <1>2, TakenHonest DEF Lose, CrowdOut, DataHonest
<1>3. CASE Duplicate(p, q)
  <2> DEFINE H == {x \in Packet : Honest(x)}
             copies == [i \in 1 .. Dups |-> Head(net[p][q])]
  <2>1. net \in [Peers -> [Peers -> Seq(H)]]
    BY DEF DataHonest, HonestPaths
  <2> HIDE DEF H
  <2>2. Head(net[p][q]) \in H
    BY <1>1, <2>1, HeadTailProperties
  <2>3. copies \in Seq(H)
    BY <2>2, LossAssumption, IsASeq
  <2>4. copies \o net[p][q] \in Seq(H)
    BY <2>1, <2>3, ConcatProperties
  <2>5. net' = [net EXCEPT ![p][q] = copies \o net[p][q]]
    BY <1>3, <2>1 DEF Duplicate
  <2> HIDE DEF copies
  <2>6. net' \in [Peers -> [Peers -> Seq(H)]]
    BY <2>1, <2>4, <2>5
  <2> QED
    BY <2>6 DEF DataHonest, HonestPaths, H
<1> QED
  BY <1>2, <1>3 DEF disturb

LEMMA NextHonest == IInv /\ DataHonest /\ [Next]_vars => DataHonest'
<1> SUFFICES ASSUME IInv, DataHonest, [Next]_vars PROVE DataHonest'
  OBVIOUS
<1>1. CASE UNCHANGED net
  BY <1>1 DEF DataHonest
<1> QED
  BY <1>1, ReceiveHonest, WorkHonest, UserInputHonest, TimerHonest,
     DisturbHonest
  DEF Next, vars, wake, other_input

(* In every swarm, and over every network, each DATA under way carries the *)
(* block of a chunk that its sequence number names: the GET handler, the   *)
(* ACK handler and the timer number the blocks alike.                      *)
THEOREM DataStaysHonest == Spec => []DataHonest
<1>1. Init => DataHonest
  BY EmptySeq DEF Init, NetworkInit, DataHonest, HonestPaths
<1> QED
  BY <1>1, InitIInv, NextIInv, NextHonest, PTL DEF Spec

-----------------------------------------------------------------------------
(* What a step may do to an open session.                                  *)
Placed(p, i) ==
    LET s == download[p][i]
    IN  s.rid # -1 /\ download'[p][i] # s =>
            output'[p][s.rid][s.pos + 1]
                \in {ChunkOf(c)[s.pos + 1] : c \in Chunks}

(* Opening a session changes no open one: the entry taken is free or -1.   *)
LEMMA OpeningChangesNone ==
    ASSUME NEW table \in [Slots -> Session], NEW rid, NEW q,
           NEW i \in 0 .. MaxConn - 1, table[i].active
    PROVE  with_session(table, rid, q)[i] = table[i]
<1> DEFINE f == find_free_download_info(table)
<1>1. f # i
  <2>1. f \in {j \in 0 .. MaxConn - 1 : ~table[j].active} \cup {-1}
    BY FirstIsIndex DEF find_free_download_info
  <2> QED
    BY <2>1
<1>2. i \in Slots
  BY TablesAssumption DEF Slots
<1> QED
  BY <1>1, <1>2 DEF with_session

LEMMA AcceptPlaces ==
    ASSUME IInv, SessionInStep, DataHonest, NEW p \in Peers, NEW q \in Peers,
           Arrived(q, p, "DATA"), accept_DATA(p, q, Head(net[q][p])),
           NEW i \in Sessions(p)
    PROVE  Placed(p, i)
<1> DEFINE m == Head(net[q][p])
           k == session_from(p, q)
           s == download[p][i]
<1> SUFFICES ASSUME s.rid # -1, download'[p][i] # s
             PROVE  output'[p][s.rid][s.pos + 1]
                        \in {ChunkOf(c)[s.pos + 1] : c \in Chunks}
  BY DEF Placed
<1>1. download \in [Peers -> [Slots -> Session]] /\ i \in Slots
  BY TablesAssumption DEF IInv, TypeOK, DownloaderTypeOK, Sessions, Slots
<1>2. \E e : download' = [download EXCEPT ![p][k] = e]
  BY DEF accept_DATA
<1>3. k = i
  <2> HIDE DEF k
  <2> QED
    BY <1>1, <1>2
<1>4. m.seq = s.seq /\ output' = [output EXCEPT
          ![p][line_written(s)][block_written(s)] = m.data]
  BY <1>3 DEF accept_DATA, is_expected
<1>5. s.rid \in Lines /\ s.pos \in Nat /\ s.seq \in Nat
  BY <1>1, SessionFields DEF IInv
<1>6. s.pos = s.seq - 1 /\ s.pos < N
  BY DEF SessionInStep
<1>7. PICK c \in Chunks : m.data = <<c, m.seq>>
  <2>1. net[q][p] # <<>> /\ m.type = "DATA"
    BY DEF Arrived
  <2> QED
    BY <2>1, ArrivedHonest DEF Honest
<1>8. output \in [Peers -> [0 .. MaxLines - 1 -> [1 .. N -> Cell]]]
  BY DEF IInv, TypeOK, DownloaderTypeOK
<1> HIDE DEF s, m
<1>9. s.rid \in 0 .. MaxLines - 1 /\ s.pos + 1 \in 1 .. N /\ s.pos + 1 = s.seq
  BY <1>5, <1>6, NAssumption, RequestFilesAssumption DEF Lines
<1>10. output'[p][s.rid][s.pos + 1] = m.data
  BY <1>4, <1>8, <1>9 DEF line_written, block_written
<1>11. ChunkOf(c)[s.pos + 1] = <<c, m.seq>>
  BY <1>4, <1>9 DEF ChunkOf
<1> QED
  BY <1>7, <1>10, <1>11

LEMMA NextPlaces ==
    ASSUME IInv, SessionInStep, DataHonest, [Next]_vars,
           NEW p \in Peers, NEW i \in Sessions(p)
    PROVE  Placed(p, i)
<1>1. /\ download \in [Peers -> [Slots -> Session]]
      /\ i \in 0 .. MaxConn - 1 /\ download[p][i].active
  BY DEF IInv, TypeOK, DownloaderTypeOK, Sessions
<1>2. ASSUME download'[p][i] = download[p][i]
      PROVE  Placed(p, i)
  BY <1>2 DEF Placed
<1>3. ASSUME NEW r \in Peers, NEW rid, NEW q,
             download' = [download EXCEPT ![r] = with_session(@, rid, q)]
      PROVE  Placed(p, i)
  <2>1. CASE r = p
    <3>1. download'[p] = with_session(download[p], rid, q)
      BY <1>1, <1>3, <2>1
    <3>2. with_session(download[p], rid, q)[i] = download[p][i]
      BY <1>1, OpeningChangesNone
    <3> QED
      BY <1>2, <3>1, <3>2
  <2>2. CASE r # p
    BY <1>1, <1>2, <1>3, <2>2
  <2> QED
    BY <2>1, <2>2
<1>4. ASSUME NEW r \in Peers, work(r)
      PROVE  Placed(p, i)
  <2>1. CASE get_first_hash(r)
    BY <2>1, <1>3 DEF get_first_hash
  <2>2. CASE send_entry(r)
    BY <2>2, <1>3 DEF send_entry
  <2>3. CASE UNCHANGED download
    BY <2>3, <1>2
  <2> QED
    BY <1>4, <2>1, <2>2, <2>3
    DEF work, answer_line, send_IHAVE, skip_hash, queue_hash, drop_entry,
        keep_entry, client
<1>5. ASSUME NEW r \in Peers, NEW q \in Peers, process_inbound_udp(r, q)
      PROVE  Placed(p, i)
  <2>1. CASE Arrived(q, r, "DATA") /\ accept_DATA(r, q, Head(net[q][r]))
    <3>1. CASE r = p
      BY <2>1, <3>1, AcceptPlaces
    <3>2. CASE r # p
      <4>1. \E k, e : download' = [download EXCEPT ![r][k] = e]
        BY <2>1 DEF accept_DATA
      <4> QED
        BY <1>1, <1>2, <3>2, <4>1
    <3> QED
      BY <3>1, <3>2
  <2>2. CASE UNCHANGED download
    BY <2>2, <1>2
  <2> QED
    BY <1>5, <2>1, <2>2
    DEF process_inbound_udp, deal_with_DATA, ignore_DATA, deal_with_IHAVE,
        client
<1>6. CASE UNCHANGED download
  BY <1>2, <1>6
<1> QED
  BY <1>4, <1>5, <1>6
  DEF Next, vars, client, wake, other_input, handle_user_input, process_get,
      timer, disturb

(* However many sessions a peer has with whomever, and whatever the        *)
(* network loses, repeats or delays, the block a session takes is written  *)
(* where a block of that number belongs.  (Of which chunk is another       *)
(* matter: see the runs.)                                                  *)
THEOREM BlocksLandAtTheirPlace == Spec => BlockAtItsPlace
<1>1. IInv /\ SessionInStep /\ DataHonest /\ [Next]_vars =>
          \A p \in Peers : \A i \in Sessions(p) : Placed(p, i)
  BY NextPlaces
<1>2. (\A p \in Peers : \A i \in Sessions(p) : Placed(p, i)) =>
          [\A p \in Peers : \A i \in Sessions(p) :
             LET s == download[p][i]
             IN  s.rid # -1 /\ download'[p][i] # s =>
                     output'[p][s.rid][s.pos + 1]
                         \in {ChunkOf(c)[s.pos + 1] : c \in Chunks}]_vars
  BY DEF Placed
<1> QED
  BY <1>1, <1>2, InitIInv, NextIInv, SessionsStayInStep, DataStaysHonest,
     PTL DEF Spec, BlockAtItsPlace
=============================================================================
