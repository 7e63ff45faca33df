------------------------------ MODULE Uploader ------------------------------
(***************************************************************************)
(* A peer in the role of the server: the handlers of WHOHAS, GET and ACK   *)
(* packets in handler.c and the retransmission timer of peer_run.          *)
(*                                                                         *)
(* The code has a table of max_conn uploads but reads and writes entry 0   *)
(* only, so upload[p] is that entry.  Its status field is never set; what  *)
(* tells an entry in use is the address in it.                             *)
(***************************************************************************)
EXTENDS Network, Thread

CONSTANT HasFiles  \* has_chunk_file of each peer, a sequence of hashes

ASSUME HasFilesAssumption == HasFiles \in [Peers -> Seq(Chunks)]

VARIABLE upload

-----------------------------------------------------------------------------
UploadInfo == [chunk : Chunks, to : Peers, max_ack : 0 .. N - 1]
NoUpload == [chunk |-> NoChunk, to |-> NoPeer, max_ack |-> 0]

AnswerTask == [doing : {"answer"}, to : Peers, asked : SUBSET Chunks,
               at : Nat \ {0}, found : Seq(Chunks)]

UploadTypeOK == upload \in [Peers -> UploadInfo \cup {NoUpload}]
UploaderInit == upload = [p \in Peers |-> NoUpload]

-----------------------------------------------------------------------------
(* Fault: the block before.                                                *)
block_before(c, b) == <<c, b - 1>>

(* Block b of a chunk in the master file: what fseek and fread deliver.    *)
master(c, b) == <<c, b>>

(* deal_with_WHOHAS: the hashes read from the packet, then one step for    *)
(* each line of has_chunk_file, then the IHAVE, if a line matched.         *)
deal_with_WHOHAS(p, q, m) ==
    LET asked == {HashesRead(m)[i] : i \in DOMAIN HashesRead(m)}
    IN  /\ net' = Taken(net, q, p)
        /\ task' = [task EXCEPT ![p] =
              [doing |-> "answer", to |-> q, asked |-> asked, at |-> 1,
               found |-> <<>>]]
        /\ UNCHANGED upload

answer_line(p) ==
    LET t == task[p]
    IN  /\ Doing(p, "answer")
        /\ t.at <= Len(HasFiles[p])
        /\ task' = [task EXCEPT
              ![p].at = @ + 1,
              ![p].found = IF HasFiles[p][t.at] \in t.asked
                           THEN Append(@, HasFiles[p][t.at]) ELSE @]
        /\ UNCHANGED <<net, upload>>

send_IHAVE(p) ==
    LET t == task[p]
    IN  /\ Doing(p, "answer")
        /\ t.at > Len(HasFiles[p])
        /\ Return(p)
        /\ net' = IF t.found = <<>> THEN net
                  ELSE Sent(net, p, t.to, Ihave(t.found))
        /\ UNCHANGED upload

-----------------------------------------------------------------------------
(* Fault: the requester is not stored.                                     *)
forget_requester(p, q, m) ==
    /\ upload' = [upload EXCEPT ![p].chunk = m.hash, ![p].max_ack = 0]
    /\ net' = Answered(p, q, Data(1, master(m.hash, 1)))
    /\ Return(p)

(* deal_with_GET: entry 0 is overwritten, whoever it served.               *)
deal_with_GET(p, q, m) ==
    /\ upload' = [upload EXCEPT
          ![p] = [chunk |-> m.hash, to |-> q, max_ack |-> 0]]
    /\ net' = Answered(p, q, Data(1, master(m.hash, 1)))
    /\ Return(p)

(* Fault: the ACK of the last block asks for one more.                     *)
past_last_acked(ack) == ack > N

(* deal_with_ACK: the ACK of the last block ends the handler, any other    *)
(* ACK, from anyone, is answered with the next block of entry 0's chunk.   *)
(* (Before the first GET there is no file to read it from; no peer sends   *)
(* an ACK to a peer that has sent it no DATA.)                             *)
last_acked(ack) == ack >= N

deal_with_ACK(p, q, m) ==
    /\ Return(p)
    /\ \/ /\ last_acked(m.ack)
          /\ net' = Taken(net, q, p)
          /\ UNCHANGED upload
       \/ /\ ~last_acked(m.ack)
          /\ upload[p].to # NoPeer
          /\ upload' = [upload EXCEPT ![p].max_ack = m.ack]
          /\ net' = Answered(p, q, Data(m.ack + 1,
                                        master(upload[p].chunk, m.ack + 1)))

(* The timer: entry 0 was last sent to more than 500 ms ago.  Nothing      *)
(* stops it once the chunk is delivered.                                   *)
retransmit(p) ==
    LET u == upload[p]
    IN  /\ u.to # NoPeer
        /\ InFlight(p, u.to) < MaxInFlight
        /\ net' = Sent(net, p, u.to, Data(u.max_ack + 1,
                                          master(u.chunk, u.max_ack + 1)))
        /\ Return(p)
        /\ UNCHANGED upload
=============================================================================
