-------------------------------- MODULE Swarm -------------------------------
(***************************************************************************)
(* The peers and the network between them: peer_run and                    *)
(* process_inbound_udp of peer.c over the two roles of a peer.             *)
(***************************************************************************)
EXTENDS Uploader, Downloader

vars == <<net, task, upload, client>>

Init ==
    /\ NetworkInit
    /\ UploaderInit
    /\ DownloaderInit
    /\ task = [p \in Peers |-> Select]

-----------------------------------------------------------------------------
(* select() returned: the scan of the waiting list that every iteration of *)
(* the loop starts with.  A scan with nothing to visit is no step, and the *)
(* thread may serve at once.                                               *)
scan_first(p) == scan(download[p], waiting[p], Ready)

wake(p) ==
    /\ task[p] = Select
    /\ scan_first(p) # Ready
    /\ task' = [task EXCEPT ![p] = scan_first(p)]
    /\ UNCHANGED <<net, upload, client>>

MayServe(p) == task[p] = Ready \/ (task[p] = Select /\ scan_first(p) = Ready)

(* The rest of an iteration, with or without a packet before it.           *)
MayEndIteration(p) == task[p] \in {Select, Ready}

(* The line read from stdin was not a GET command.                         *)
other_input(p) ==
    /\ task[p] = Ready
    /\ Return(p)
    /\ UNCHANGED <<net, upload, client>>

-----------------------------------------------------------------------------
(* process_inbound_udp: the next packet from q, by its type.               *)
process_inbound_udp(p, q) ==
    /\ MayServe(p)
    /\ LET m == Head(net[q][p])
       IN  \/ /\ Arrived(q, p, "WHOHAS")
              /\ deal_with_WHOHAS(p, q, m)
              /\ UNCHANGED client
           \/ /\ Arrived(q, p, "IHAVE")
              /\ deal_with_IHAVE(p, q, m)
              /\ UNCHANGED upload
           \/ /\ Arrived(q, p, "GET")
              /\ deal_with_GET(p, q, m)
              /\ UNCHANGED client
           \/ /\ Arrived(q, p, "DATA")
              /\ deal_with_DATA(p, q, m)
              /\ UNCHANGED upload
           \/ /\ Arrived(q, p, "ACK")
              /\ deal_with_ACK(p, q, m)
              /\ UNCHANGED client

(* The steps of the loops inside the handlers.                             *)
work(p) ==
    \/ (answer_line(p) \/ send_IHAVE(p)) /\ UNCHANGED client
    \/ (skip_hash(p) \/ get_first_hash(p) \/ queue_hash(p)) /\ UNCHANGED upload
    \/ (drop_entry(p) \/ keep_entry(p) \/ send_entry(p)) /\ UNCHANGED upload

handle_user_input(p) ==
    MayEndIteration(p) /\ process_get(p) /\ UNCHANGED upload

timer(p) == MayEndIteration(p) /\ retransmit(p) /\ UNCHANGED client

(* A packet the network loses or repeats is one the receiver would take    *)
(* now: sooner makes no difference to anyone.                              *)
disturb(p, q) ==
    /\ MayServe(q)
    /\ Lose(p, q) \/ CrowdOut(p, q) \/ Duplicate(p, q)
    /\ UNCHANGED <<task, upload, client>>

Next ==
    \/ \E p \in Peers : \/ wake(p)
                        \/ other_input(p)
                        \/ work(p)
                        \/ handle_user_input(p)
                        \/ timer(p)
    \/ \E p, q \in Peers : process_inbound_udp(p, q) \/ disturb(p, q)

Spec == Init /\ [][Next]_vars

(* The user types the GETs, the thread of a peer goes on while it has      *)
(* something to do, its timer expires while an upload is unfinished, and a *)
(* path that is used again and again delivers again and again, though some *)
(* of its packets may be lost.                                             *)
Fairness ==
    /\ \A p \in Peers : /\ WF_vars(handle_user_input(p))
                        /\ WF_vars(wake(p))
                        /\ WF_vars(work(p))
                        /\ WF_vars(timer(p))
    /\ \A p, q \in Peers : SF_vars(process_inbound_udp(p, q))

FairSpec == Spec /\ Fairness

-----------------------------------------------------------------------------
Task == {Select, Ready} \cup AnswerTask \cup ParseTask \cup ScanTask

(* Every variable has its type; entry 0 of the upload table, once written, *)
(* names a block of a chunk of the master file.                            *)
TypeOK ==
    /\ NetworkTypeOK
    /\ UploadTypeOK
    /\ DownloaderTypeOK
    /\ task \in [Peers -> Task]

(* The scan stands at an entry of the waiting list that is in use: it is   *)
(* why the GET it sends is for a chunk and goes to a peer.                 *)
ScanAtEntry ==
    \A p \in Peers :
        Doing(p, "scan") => waiting[p][task[p].at].active

-----------------------------------------------------------------------------
(* What follows is about sessions: the download entries in use.            *)
Sessions(p) == {i \in 0 .. MaxConn - 1 : download[p][i].active}
GetInFlight(p, q) == \E i \in DOMAIN net[p][q] : net[p][q][i].type = "GET"

(* The chunk the user asked for at line rid.                               *)
Wanted(p, rid) == request_file(p)[rid + 1]

(* deal_with_DATA keeps the next block number and the write position of a  *)
(* session apart, and clears the entry when the chunk is full: the two     *)
(* never drift, and no session waits for a block the chunk does not have.  *)
SessionInStep ==
    \A p \in Peers : \A i \in Sessions(p) :
        LET s == download[p][i] IN s.pos = s.seq - 1 /\ s.pos < N

(* What a session has written so far are the first blocks of the chunk it  *)
(* asked for, at the chunk's place in the output file: no late, repeated   *)
(* or misdirected DATA was taken for the block expected.                   *)
BlocksInPlace ==
    \A p \in Peers : \A i \in Sessions(p) :
        LET s == download[p][i]
        IN  \A b \in 1 .. s.pos :
               output[p][s.rid][b] = ChunkOf(Wanted(p, s.rid))[b]

(* However the sessions of a peer are mixed up, the block a session takes  *)
(* lands at its own place: what is stored at the position of a block is a  *)
(* block of that number, of some chunk.                                    *)
BlockAtItsPlace ==
    [][\A p \in Peers : \A i \in Sessions(p) :
          LET s == download[p][i]
          IN  s.rid # -1 /\ download'[p][i] # s =>
                  output'[p][s.rid][s.pos + 1]
                      \in {ChunkOf(c)[s.pos + 1] : c \in Chunks}]_vars

(* A chunk reported GOT stays intact in the output file, whatever arrives  *)
(* after it was verified.                                                  *)
GotIntact ==
    \A p \in Peers : \A l \in 0 .. Len(request_file(p)) - 1 :
        chunk_status[p][l].status = 2 => output[p][l] = ChunkOf(Wanted(p, l))

(* No session ends with CORRUPTED: with a peer that has the chunk, every   *)
(* download that reaches its end passes check_hash.                        *)
EveryDownloadVerifies ==
    [][\A p \in Peers : \A i \in Sessions(p) :
          ~download'[p][i].active =>
              chunk_status'[p][download[p][i].rid].status = 2]_vars

(* While a peer downloads from another, the rest of what that one has      *)
(* waits: no two sessions are with the same peer.                          *)
OneSessionPerPeer ==
    \A p \in Peers : \A i, j \in Sessions(p) :
        download[p][i].from = download[p][j].from => i = j

(* A chunk that is being transferred is not asked for a second time.       *)
OneSessionPerChunk ==
    \A p \in Peers : \A i, j \in Sessions(p) :
        download[p][i].rid = download[p][j].rid => i = j

(* The path to a provider is never full when a thread is about to ask it   *)
(* for a chunk: a GET, which is never repeated, is not dropped behind the  *)
(* ACKs of an earlier session.                                             *)
GetsHaveRoom ==
    \A p, q \in Peers :
        Doing(p, "parse") \/ Doing(p, "scan") => Len(net[p][q]) < QueueMax

(* The peer a session waits on is serving that very session, or the GET    *)
(* for it is under way: nobody waits for blocks nobody sends.              *)
UploadServesSession ==
    \A p \in Peers : \A i \in Sessions(p) :
        LET s == download[p][i]
        IN  GetInFlight(p, s.from)
            \/ /\ upload[s.from].to = p
               /\ upload[s.from].chunk = Wanted(p, s.rid)

(* Whoever serves a session is at most at the block the session waits for, *)
(* except before the first one, where an out-of-order DATA is answered     *)
(* with ACK 1: a block lost after the first is sent again.                 *)
SenderNotAhead ==
    \A p \in Peers : \A i \in Sessions(p) :
        LET s == download[p][i]
        IN  upload[s.from].to = p /\ ~GetInFlight(p, s.from)
            => upload[s.from].max_ack <= IF s.pos = 0 THEN 1 ELSE s.pos

(* deal_with_ACK stores whatever ACK arrives, yet what is stored only      *)
(* grows until the next GET resets it: the block the timer repeats never   *)
(* goes back.                                                              *)
MaxAckGrows ==
    [][\A p \in Peers :
          upload'[p].max_ack < upload[p].max_ack =>
              \E q \in Peers : Arrived(q, p, "GET")]_vars

(* No search of a table that finds it full has its -1 used as an index.    *)
TablesSuffice ==
    \A p \in Peers : ~download[p][-1].active /\ ~waiting[p][-1].active

(* A queued chunk that is still wanted is never forgotten: while the       *)
(* thread is idle some session is open, whose end scans the list again.    *)
QueueHasWaker ==
    \A p \in Peers :
        task[p] = Select /\ Sessions(p) = {} =>
            \A i \in 0 .. WaitMax - 1 :
                ~(waiting[p][i].active /\ is_asked_for(p, waiting[p][i]))

(* Each GET command of a user ends with the whole file: every chunk of the *)
(* request file is reported GOT.                                           *)
FileArrives ==
    \A p \in Peers :
        gets[p] > 0 ~> \A l \in 0 .. Len(request_file(p)) - 1 :
                           chunk_status[p][l].status = 2

-----------------------------------------------------------------------------
(* How far each line has come, read off the tables and the output file.    *)
stage_of(p, l) ==
    IF l < Len(request_file(p)) /\ chunk_status[p][l].status = 2 THEN "got"
    ELSE IF \E i \in Sessions(p) : download[p][i].rid = l THEN "coming"
    ELSE "absent"

right_blocks(p, l) ==
    {b \in 1 .. N : \A a \in 1 .. b :
        output[p][l][a] = ChunkOf(Wanted(p, l))[a]}

stored_of(p, l) ==
    IF l < Len(request_file(p)) THEN Cardinality(right_blocks(p, l)) ELSE 0

Promise == INSTANCE Delivery WITH
    Owners <- Peers,
    LineIds <- 0 .. MaxLines - 1,
    BlocksPerLine <- N,
    stage <- [p \in Peers |-> [l \in 0 .. MaxLines - 1 |-> stage_of(p, l)]],
    stored <- [p \in Peers |-> [l \in 0 .. MaxLines - 1 |-> stored_of(p, l)]]

(* A download keeps the promise of Delivery: the tables and the file move  *)
(* together, a step adds one right block to one line or nothing, and a     *)
(* line is GOT exactly when its last block arrives, and stays so.          *)
KeepsPromise == Promise!Spec
=============================================================================
