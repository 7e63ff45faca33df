----------------------------- MODULE Downloader -----------------------------
(***************************************************************************)
(* A peer in the role of the client: process_get (peer.c), the handlers of *)
(* IHAVE and DATA packets (handler.c) and the scan of the waiting list     *)
(* (utils.c).                                                              *)
(*                                                                         *)
(* The tables keep the indices of the C arrays, and the index -1 that the  *)
(* search functions return for "none" and that their callers use: entry -1 *)
(* is the memory in front of the array.                                    *)
(***************************************************************************)
EXTENDS Network, Thread

CONSTANTS
    RequestFiles,  \* the chunk files the user of each peer names, one per GET
    MaxLines,      \* no request file is longer
    MaxConn,       \* config.max_conn: entries of the download table
    WaitMax,       \* entries of the waiting list (10)
    HeapSlot,      \* what the memory in front of the download table reads as
    HeapStatus     \* what unwritten memory may read as in a chunk's status

Lines == -1 .. MaxLines - 1
Slots == -1 .. MaxConn - 1
Entries == -1 .. WaitMax - 1

(* A status is 0, 1 (asked for) or 2 (verified), or, in memory that is not *)
(* a line's, something else.                                               *)
OtherStatus == 3
Status == 0 .. 2 \cup {OtherStatus}
ChunkState == [status : Status, hash : Chunks \cup {NoChunk}]
Session == [rid : Lines, from : Peers \cup {NoPeer}, pos : Nat, seq : Nat,
            active : BOOLEAN]
Waiting == [rid : Lines, from : Peers, hash : Chunks, active : {TRUE}]

ASSUME RequestFilesAssumption ==
    /\ RequestFiles \in [Peers -> Seq(Seq(Chunks))]
    /\ MaxLines \in Nat \ {0}
    /\ \A p \in Peers : \A g \in 1 .. Len(RequestFiles[p]) :
          Len(RequestFiles[p][g]) <= MaxLines
ASSUME PacketAssumption == MaxLines <= HashesPerPacket
ASSUME TablesAssumption == MaxConn \in Nat \ {0} /\ WaitMax \in Nat \ {0}
ASSUME HeapAssumption ==
    /\ HeapSlot \in Session
    /\ HeapStatus \in (SUBSET Status) \ {{}}

VARIABLES
    gets,          \* GET commands read so far
    chunk_status,  \* by line of the request file
    download,      \* download_from_peer_infos
    waiting,       \* waiting_list_of_I_HAVE
    output         \* the output file, by line and block

client == <<gets, chunk_status, download, waiting, output>>

-----------------------------------------------------------------------------
NoSession == [rid |-> 0, from |-> NoPeer, pos |-> 0, seq |-> 0,
              active |-> FALSE]
NoWaiting == [rid |-> 0, from |-> NoPeer, hash |-> NoChunk, active |-> FALSE]

ParseTask == [doing : {"parse"}, from : Peers, left : Seq(Chunks) \ {<<>>},
              sent : BOOLEAN]
ScanTask == [doing : {"scan"}, at : 0 .. WaitMax - 1, after : {Select, Ready}]

DownloaderTypeOK ==
    /\ gets \in [Peers -> Nat]
    /\ \A p \in Peers : gets[p] <= Len(RequestFiles[p])
    /\ chunk_status \in [Peers -> [Lines -> ChunkState]]
    /\ download \in [Peers -> [Slots -> Session]]
    /\ waiting \in [Peers -> [Entries -> Waiting \cup {NoWaiting}]]
    /\ output \in [Peers -> [0 .. MaxLines - 1 -> [1 .. N -> Cell]]]

DownloaderInit ==
    /\ gets = [p \in Peers |-> 0]
    /\ chunk_status = [p \in Peers |->
          [l \in Lines |-> [status |-> 0, hash |-> NoChunk]]]
    /\ download = [p \in Peers |->
          [i \in Slots |-> IF i = -1 THEN HeapSlot ELSE NoSession]]
    /\ waiting = [p \in Peers |-> [i \in Entries |-> NoWaiting]]
    /\ output = [p \in Peers |-> [l \in 0 .. MaxLines - 1 |->
                                     [b \in 1 .. N |-> Hole]]]

-----------------------------------------------------------------------------
(* The searches of utils.c and of deal_with_DATA.                          *)
request_file(p) == IF gets[p] = 0 THEN <<>> ELSE RequestFiles[p][gets[p]]

search_id_for_hash(p, c) ==
    First({l \in 0 .. Len(request_file(p)) - 1 : request_file(p)[l + 1] = c})

find_free_download_info(table) ==
    First({i \in 0 .. MaxConn - 1 : ~table[i].active})

(* Fault: the last entry is never looked at.                               *)
find_before_last(list) ==
    First({i \in 0 .. WaitMax - 2 : ~list[i].active})

find_free_waiting_entity(list) ==
    First({i \in 0 .. WaitMax - 1 : ~list[i].active})

session_from(p, q) ==
    First({i \in 0 .. MaxConn - 1 :
              download[p][i].active /\ download[p][i].from = q})

(* A session as deal_with_IHAVE and try_send_GET_in_waiting_list start it, *)
(* and the download table with it in the first free entry.                 *)
new_session(rid, q) ==
    [rid |-> rid, from |-> q, pos |-> 0, seq |-> 1, active |-> TRUE]
with_session(table, rid, q) ==
    [table EXCEPT ![find_free_download_info(table)] = new_session(rid, q)]

-----------------------------------------------------------------------------
(* process_get: new chunk statuses, a new output file and a WHOHAS with    *)
(* the whole request file to every other peer.  The memory beyond the new  *)
(* statuses reads as it happens to.  Sessions and waiting list stay.       *)
process_get(p) ==
    /\ gets[p] < Len(RequestFiles[p])
    /\ LET file == RequestFiles[p][gets[p] + 1]
       IN  /\ \E h \in HeapStatus :
                 chunk_status' = [chunk_status EXCEPT ![p] =
                    [l \in Lines |->
                        IF l \in 0 .. Len(file) - 1
                        THEN [status |-> 0, hash |-> file[l + 1]]
                        ELSE [status |-> h, hash |-> NoChunk]]]
           /\ net' = [net EXCEPT ![p] =
                 [q \in Peers |-> IF q = p THEN @[q]
                                  ELSE enQ(@[q], Whohas(file))]]
    /\ gets' = [gets EXCEPT ![p] = @ + 1]
    /\ output' = [output EXCEPT ![p] =
          [l \in 0 .. MaxLines - 1 |-> [b \in 1 .. N |-> Hole]]]
    /\ Return(p)
    /\ UNCHANGED <<download, waiting>>

-----------------------------------------------------------------------------
(* deal_with_IHAVE: the hashes read from the packet, then one step for     *)
(* each: skipped if its chunk is not at status 0, asked for at once if it  *)
(* is the first of this packet, and put on the waiting list otherwise.     *)
deal_with_IHAVE(p, q, m) ==
    /\ net' = Taken(net, q, p)
    /\ task' = [task EXCEPT ![p] =
          IF HashesRead(m) = <<>> THEN Select
          ELSE [doing |-> "parse", from |-> q, left |-> HashesRead(m),
                sent |-> FALSE]]
    /\ UNCHANGED client

(* Fault: a chunk being transferred is asked for again.                    *)
is_not_got(p, rid) == chunk_status[p][rid].status # 2

is_wanted(p, rid) == chunk_status[p][rid].status = 0

parsed(p, sent) ==
    LET t == task[p]
    IN  task' = [task EXCEPT ![p] =
                    IF Len(t.left) = 1 THEN Select
                    ELSE [t EXCEPT !.left = Tail(t.left), !.sent = sent]]

skip_hash(p) ==
    /\ Doing(p, "parse")
    /\ ~is_wanted(p, search_id_for_hash(p, Head(task[p].left)))
    /\ parsed(p, task[p].sent)
    /\ UNCHANGED <<net, client>>

get_first_hash(p) ==
    /\ Doing(p, "parse")
    /\ ~task[p].sent
    /\ LET c == Head(task[p].left)
           rid == search_id_for_hash(p, c)
       IN  /\ is_wanted(p, rid)
           /\ download' = [download EXCEPT
                 ![p] = with_session(@, rid, task[p].from)]
           /\ chunk_status' = [chunk_status EXCEPT
                 ![p][rid] = [status |-> 1, hash |-> c]]
           /\ net' = Sent(net, p, task[p].from, Get(c))
    /\ parsed(p, TRUE)
    /\ UNCHANGED <<gets, waiting, output>>

queue_hash(p) ==
    /\ Doing(p, "parse")
    /\ task[p].sent
    /\ LET c == Head(task[p].left)
           rid == search_id_for_hash(p, c)
           entry == [rid |-> rid, from |-> task[p].from, hash |-> c,
                     active |-> TRUE]
       IN  /\ is_wanted(p, rid)
           /\ waiting' = [waiting EXCEPT
                 ![p][find_free_waiting_entity(waiting[p])] = entry]
    /\ parsed(p, TRUE)
    /\ UNCHANGED <<net, gets, chunk_status, download, output>>

-----------------------------------------------------------------------------
(* try_send_GET_in_waiting_list: it returns at once when no download entry *)
(* is free, and otherwise visits the entries in use, one a step; `after'   *)
(* is where the thread goes then.                                          *)
next_entry(list, i, after) ==
    LET j == First({k \in i .. WaitMax - 1 : list[k].active})
    IN  IF j = -1 THEN after ELSE [doing |-> "scan", at |-> j, after |-> after]

(* Fault: the visit starts at entry 1.                                     *)
scan_but_first(table, list, after) ==
    IF find_free_download_info(table) = -1 THEN after
    ELSE next_entry(list, 1, after)

scan(table, list, after) ==
    IF find_free_download_info(table) = -1 THEN after
    ELSE next_entry(list, 0, after)

visited(p, list) ==
    task' = [task EXCEPT
                ![p] = next_entry(list, task[p].at + 1, task[p].after)]

(* Fault: no check that the peer is busy.                                  *)
never_busy(p) == {FALSE}

(* The flag that the inner loop computes.  It compares the port of session *)
(* j with that of waiting entry j, not of the entry being visited; past    *)
(* the end of the waiting list it compares with whatever lies there.       *)
busy_flags(p) ==
    LET in_use == {j \in 0 .. MaxConn - 1 : download[p][j].active}
    IN  IF \E j \in in_use : /\ j < WaitMax
                             /\ download[p][j].from = waiting[p][j].from
        THEN {TRUE}
        ELSE IF \E j \in in_use : j >= WaitMax THEN BOOLEAN ELSE {FALSE}

status_of(p, entry) == chunk_status[p][entry.rid].status
is_asked_for(p, entry) == status_of(p, entry) \notin {1, 2}

drop_entry(p) ==
    /\ Doing(p, "scan")
    /\ status_of(p, waiting[p][task[p].at]) = 2
    /\ waiting' = [waiting EXCEPT ![p][task[p].at] = NoWaiting]
    /\ visited(p, waiting'[p])
    /\ UNCHANGED <<net, gets, chunk_status, download, output>>

keep_entry(p) ==
    /\ Doing(p, "scan")
    /\ \/ status_of(p, waiting[p][task[p].at]) = 1
       \/ /\ is_asked_for(p, waiting[p][task[p].at])
          /\ TRUE \in busy_flags(p)
    /\ visited(p, waiting[p])
    /\ UNCHANGED <<net, client>>

(* The GET is sent and the session opened, but the chunk's status stays 0. *)
send_entry(p) ==
    /\ Doing(p, "scan")
    /\ LET i == task[p].at
           entry == waiting[p][i]
       IN  /\ is_asked_for(p, entry)
           /\ FALSE \in busy_flags(p)
           /\ download' = [download EXCEPT
                 ![p] = with_session(@, entry.rid, entry.from)]
           /\ waiting' = [waiting EXCEPT ![p][i] = NoWaiting]
           /\ net' = Sent(net, p, entry.from, Get(entry.hash))
    /\ visited(p, waiting'[p])
    /\ UNCHANGED <<gets, chunk_status, output>>

-----------------------------------------------------------------------------
(* Fault: an ACK is sent before the search, and then a second one.         *)
acked_any(p, q, m) == Answered(p, q, Ack(m.seq))

(* deal_with_DATA.  When no session is with the sender the handler sends   *)
(* an ACK and goes on with entry -1 all the same.                          *)
acked_stranger(p, q, m) ==
    IF session_from(p, q) = -1 THEN Answered(p, q, Ack(m.seq))
    ELSE Taken(net, q, p)

(* Faults: later blocks are taken too; earlier blocks are taken too.       *)
is_not_behind(s, m) == m.seq >= s.seq
is_not_ahead(s, m) == m.seq <= s.seq

is_expected(s, m) == m.seq = s.seq

(* Faults: the block expected is acknowledged; always the first one is.    *)
ack_of_expected(s) == s.seq
ack_of_first(s) == 1

expected_ack(s) == IF s.seq > 1 THEN s.seq - 1 ELSE 1

(* Where a session writes: an offset before the start of the file makes    *)
(* fseek fail, which leaves the position at the start.                     *)
line_written(s) == IF s.rid = -1 THEN 0 ELSE s.rid
block_written(s) == IF s.rid = -1 THEN 1 ELSE s.pos + 1

(* Fault: one block too many.                                              *)
is_over_full(s) == s.pos > N

is_chunk_full(s) == s.pos >= N

(* Fault: the hash is not compared.                                        *)
no_check(p, rid, line) == TRUE

(* check_hash: a line of the output file against the hash of its status.   *)
check_hash(p, rid, line) == line = ChunkOf(chunk_status[p][rid].hash)

ignore_DATA(p, q, m) ==
    LET s == download[p][session_from(p, q)]
    IN  /\ ~is_expected(s, m)
        /\ net' = Sent(acked_stranger(p, q, m), p, q, Ack(expected_ack(s)))
        /\ Return(p)
        /\ UNCHANGED client

accept_DATA(p, q, m) ==
    LET k == session_from(p, q)
        s == download[p][k]
        grown == [s EXCEPT !.pos = @ + 1, !.seq = @ + 1]
    IN  /\ is_expected(s, m)
        /\ output' = [output EXCEPT
              ![p][line_written(s)][block_written(s)] = m.data]
        /\ net' = Sent(acked_stranger(p, q, m), p, q, Ack(m.seq))
        /\ IF is_chunk_full(grown)
           THEN /\ chunk_status' = [chunk_status EXCEPT
                      ![p][s.rid].status =
                          IF check_hash(p, s.rid, output'[p][line_written(s)])
                          THEN 2 ELSE 0]
                /\ download' = [download EXCEPT ![p][k] = NoSession]
                /\ task' = [task EXCEPT
                      ![p] = scan(download'[p], waiting[p], Select)]
           ELSE /\ download' = [download EXCEPT ![p][k] = grown]
                /\ Return(p)
                /\ UNCHANGED chunk_status
        /\ UNCHANGED <<gets, waiting>>

deal_with_DATA(p, q, m) == ignore_DATA(p, q, m) \/ accept_DATA(p, q, m)
=============================================================================
