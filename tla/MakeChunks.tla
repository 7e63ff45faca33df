----------------------------- MODULE MakeChunks ------------------------------
(***************************************************************************)
(* The make-chunks program: make_chunks.c and make_chunks of chunk.c, with *)
(* the conversions between a hash and its hexadecimal digits.  It prints   *)
(* the list of chunks that has_chunk files and requests are cut from.      *)
(***************************************************************************)
EXTENDS Sha1

CONSTANTS
    ChunkSize,  \* BT_CHUNK_SIZE (512 KiB)
    Files,      \* what the input file may be: its bytes
    NoFile      \* or a file that cannot be opened

ASSUME ChunkAssumption == ChunkSize \in Nat \ {0}
ASSUME FilesAssumption == Files \subseteq Seq(Byte) /\ NoFile \notin Files

VARIABLES
    file,       \* the input file
    pos,        \* how far fread() has come
    numchunks,  \* the slots main allocated
    hashes,     \* the hashes make_chunks stored in them
    listing,    \* the lines printed: a number and the digits of a hash
    at          \* where main is

main == <<file, pos, numchunks, hashes, listing, at>>
vars == <<main, sha>>

-----------------------------------------------------------------------------
(* Hexadecimal digits, as their ASCII codes.  printf() writes small        *)
(* letters, toupper() makes them capitals.                                 *)
digit(n) == IF n <= 9 THEN 48 + n ELSE 97 + n - 10
toupper(h) == IF h \in 97 .. 122 THEN h - 32 ELSE h

binary2hex(bytes) ==
    [j \in 1 .. 2 * Len(bytes) |->
        LET byte == bytes[(j + 1) \div 2]
        IN  digit(IF j % 2 = 1 THEN byte \div 16 ELSE byte % 16)]

(* Fault: the letters are taken for capitals already.                      *)
hex_of_capitals(h) == IF h <= 57 THEN h - 48 ELSE h - (65 - 10)

_hex2binary(h) ==
    LET hex == toupper(h)
    IN  IF hex <= 57 THEN hex - 48 ELSE hex - (65 - 10)

hex2binary(digits) ==
    [i \in 1 .. Len(digits) \div 2 |->
        16 * _hex2binary(digits[2 * i - 1]) + _hex2binary(digits[2 * i])]

-----------------------------------------------------------------------------
(* Fault: the size is divided without rounding up.                         *)
numchunks_rounded_down(f) == Len(f) \div ChunkSize

get_numchunks(f) == (Len(f) + ChunkSize - 1) \div ChunkSize

(* main opens the file and allocates a slot for each chunk.  malloc(0) may *)
(* return NULL, and the program takes that for a lack of memory.           *)
allocate ==
    /\ at = "main"
    /\ \/ /\ file # NoFile
          /\ numchunks' = get_numchunks(file)
          /\ at' = "make_chunks"
       \/ /\ file = NoFile \/ file = <<>>
          /\ at' = "failed"
          /\ UNCHANGED numchunks
    /\ UNCHANGED <<file, pos, hashes, listing, sha>>

(* fread(): a whole chunk, or what is left of the file.                    *)
numbytes == IF Len(file) - pos < ChunkSize THEN Len(file) - pos ELSE ChunkSize

read_chunk ==
    /\ at = "make_chunks" /\ numbytes > 0
    /\ shahash(SubSeq(file, pos + 1, pos + numbytes))
    /\ pos' = pos + numbytes
    /\ UNCHANGED <<file, numchunks, hashes, listing, at>>

hash_chunk ==
    /\ SHA1Update \/ SHA1Final
    /\ UNCHANGED main

(* shahash returns: chunk_hashes[numchunks++].                             *)
store_hash ==
    /\ Hashed
    /\ hashes' = Append(hashes, sc.hash)
    /\ step' = "idle"
    /\ UNCHANGED <<file, pos, numchunks, listing, at, sc, piece, data, lengthPad>>

end_of_file ==
    /\ at = "make_chunks" /\ step = "idle" /\ numbytes = 0
    /\ at' = "print"
    /\ UNCHANGED <<file, pos, numchunks, hashes, listing, sha>>

print_hash ==
    /\ at = "print" /\ Len(listing) < Len(hashes)
    /\ LET i == Len(listing)
       IN  listing' = Append(listing, <<i, binary2hex(hashes[i + 1])>>)
    /\ UNCHANGED <<file, pos, numchunks, hashes, at, sha>>

return ==
    /\ at = "print" /\ Len(listing) = Len(hashes)
    /\ at' = "done"
    /\ UNCHANGED <<file, pos, numchunks, hashes, listing, sha>>

-----------------------------------------------------------------------------
(* The context is a local variable of shahash: its buffer is never set.    *)
Init ==
    /\ file \in Files \cup {NoFile}
    /\ pos = 0 /\ numchunks = 0
    /\ hashes = <<>> /\ listing = <<>>
    /\ at = "main"
    /\ sc = [hash |-> <<>>, buffer |-> [i \in 1 .. Block |-> 255],
             bufferLength |-> 0, totalLength |-> 0]
    /\ piece = <<>> /\ data = <<>> /\ lengthPad = <<>>
    /\ step = "idle"

Next ==
    \/ allocate \/ read_chunk \/ hash_chunk \/ store_hash
    \/ end_of_file \/ print_hash \/ return

(* The program is one thread, and it runs.                                 *)
Spec == Init /\ [][Next]_vars /\ WF_vars(Next)

-----------------------------------------------------------------------------
(* The values are of their types; what SHA1Update left in the buffer is    *)
(* less than a block, which is what the arithmetic of SHA1Final assumes.   *)
ChunksTypeOK ==
    /\ sc \in Context
    /\ piece \in Seq(Byte) /\ data \in Seq(Byte) /\ lengthPad \in Seq(Byte)
    /\ step \in {"idle", "message", "padding", "length"}
    /\ file \in Files \cup {NoFile}
    /\ pos \in Nat /\ numchunks \in Nat
    /\ hashes \in Seq(Seq(Byte))
    /\ listing \in Seq(Nat \X Seq(Byte))
    /\ at \in {"main", "make_chunks", "print", "done", "failed"}

(* make_chunks counts the chunks by reading them, main by the size of the  *)
(* file: no hash is stored behind the slots main allocated.                *)
SlotsSuffice == at = "make_chunks" => Len(hashes) <= numchunks

(* The list that is printed is that of the file: line i is numbered i and  *)
(* what a peer reads back from its digits is the hash of chunk i, and the  *)
(* chunks are all of the file.                                             *)
chunk(i) ==
    SubSeq(file, ChunkSize * i + 1,
           IF ChunkSize * (i + 1) < Len(file) THEN ChunkSize * (i + 1)
           ELSE Len(file))

ListingIsFile ==
    at = "done" =>
        /\ ChunkSize * Len(listing) \in Len(file) .. Len(file) + ChunkSize - 1
        /\ \A i \in DOMAIN listing :
              /\ listing[i][1] = i - 1
              /\ IsPadded(hex2binary(listing[i][2]), chunk(i - 1))

(* The loops end: that of SHA1Update, which counts what it copied, too.    *)
Finishes == <>(at \in {"done", "failed"})
=============================================================================
