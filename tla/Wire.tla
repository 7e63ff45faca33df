-------------------------------- MODULE Wire --------------------------------
(***************************************************************************)
(* The constants every module shares, and the packets of packet.h as       *)
(* make_packet_header (utils.c) and its callers fill them in.  A chunk of  *)
(* BT_CHUNK_SIZE bytes is N blocks of LEN_OF_SENT_DATA bytes; a 20-byte    *)
(* hash stands for the chunk it is the hash of.                            *)
(***************************************************************************)
EXTENDS Integers, Sequences, FiniteSets

CONSTANTS
    Peers,    \* the processes, each at its own address
    NoPeer,   \* the address 0:0 that memset leaves in a table entry
    Chunks,   \* the chunks of the master file, named by their hashes
    NoChunk,  \* no hash
    N         \* blocks per chunk: BT_CHUNK_SIZE / LEN_OF_SENT_DATA (512)

ASSUME PeersAssumption == NoPeer \notin Peers
ASSUME ChunksAssumption == NoChunk \notin Chunks
ASSUME NAssumption == N \in Nat \ {0}

-----------------------------------------------------------------------------
(* What LEN_OF_SENT_DATA bytes of a file can hold: a block of the master   *)
(* file, named by its chunk and its place in it, or bytes never written.   *)
Block == Chunks \X (1 .. N)
Hole == <<NoChunk, 0>>
Cell == Block \cup {Hole}

(* The content of a whole chunk, block by block.                           *)
ChunkOf(c) == [b \in 1 .. N |-> <<c, b>>]

-----------------------------------------------------------------------------
(* One constructor per packet type; fields a type leaves at 0 are absent.  *)
Whohas(hashes) == [type |-> "WHOHAS", hashes |-> hashes]
Ihave(hashes) == [type |-> "IHAVE", hashes |-> hashes]
Get(c) == [type |-> "GET", hash |-> c]
Data(seq, cell) == [type |-> "DATA", seq |-> seq, data |-> cell]
Ack(ack) == [type |-> "ACK", ack |-> ack]

Packet == [type : {"WHOHAS", "IHAVE"}, hashes : Seq(Chunks)]
              \cup [type : {"GET"}, hash : Chunks]
              \cup [type : {"DATA"}, seq : Nat, data : Cell]
              \cup [type : {"ACK"}, ack : Nat]

-----------------------------------------------------------------------------
(* The hashes that fit into the BUFLEN (1500) bytes process_inbound_udp    *)
(* receives: 20 bytes each behind a header of 16 and a count of 4.  No     *)
(* file that a peer asks for has more.                                     *)
HashesPerPacket == 74

(* How many hashes a receiver reads from a packet that carries n: it       *)
(* prints the count byte in hex (binary2hex) and reads the two digits back *)
(* as decimal (atoi), which stops at the first letter.                     *)
ParsedCount(n) ==
    LET hi == (n % 256) \div 16
        lo == n % 16
    IN  IF hi > 9 THEN 0 ELSE IF lo > 9 THEN hi ELSE 10 * hi + lo

HashesRead(m) == SubSeq(m.hashes, 1, ParsedCount(Len(m.hashes)))
=============================================================================
