-------------------------------- MODULE Sha1 ---------------------------------
(***************************************************************************)
(* shahash of chunk.c and the buffering of sha.c under it: how the bytes   *)
(* of a message reach the compression function, block by block, and how    *)
(* the last block is filled up.  SHA1Guts is abstracted to the bytes it    *)
(* was given: two messages have the same hash when it was given the same.  *)
(***************************************************************************)
EXTENDS Integers, Sequences

CONSTANTS
    Block,     \* bytes SHA1Guts takes at a time (64)
    LenBytes   \* bytes of the length at the end of the last block (8)

ASSUME BlockAssumption == Block \in Nat /\ LenBytes \in Nat
                          /\ 0 < LenBytes /\ LenBytes < Block

Byte == 0 .. 255

VARIABLES
    sc,         \* the SHA1Context; hash: the bytes SHA1Guts was given
    piece,      \* the message: str of shahash
    data,       \* what the SHA1Update in progress has not copied yet
    lengthPad,  \* what SHA1Final appends after the padding
    step        \* which call of SHA1Update is in progress, or "idle"

sha == <<sc, piece, data, lengthPad, step>>

Context == [hash : Seq(Byte),
            buffer : [1 .. Block -> Byte],
            bufferLength : 0 .. Block - 1,
            totalLength : Nat]

(* BYTESWAP64: the bytes of a number, the most significant first.          *)
BYTESWAP64(n) == [i \in 1 .. LenBytes |-> (n \div 256 ^ (LenBytes - i)) % 256]

-----------------------------------------------------------------------------
(* SHA1Init leaves the buffer as it finds it.                              *)
SHA1Init == [sc EXCEPT !.hash = <<>>, !.bufferLength = 0, !.totalLength = 0]

shahash(str) ==
    /\ step = "idle"
    /\ sc' = SHA1Init
    /\ piece' = str
    /\ data' = str
    /\ step' = "message"
    /\ UNCHANGED lengthPad

(* Fault: the block is compressed one byte early.                          *)
block_filled_early(n) == n >= Block - 1

(* Fault: a full block is left in the buffer.                              *)
block_overfull(n) == n > Block

block_filled(n) == n = Block

bytesToCopy == IF Len(data) < Block - sc.bufferLength THEN Len(data)
               ELSE Block - sc.bufferLength

(* One pass of the loop of SHA1Update: fill the buffer, and compress it    *)
(* when it is full.                                                        *)
filled == [i \in 1 .. Block |->
              IF i \in sc.bufferLength + 1 .. sc.bufferLength + bytesToCopy
              THEN data[i - sc.bufferLength] ELSE sc.buffer[i]]

SHA1Update ==
    LET length == sc.bufferLength + bytesToCopy
    IN  /\ step \in {"message", "padding", "length"}
        /\ data # <<>>
        /\ sc' = [hash |-> IF block_filled(length) THEN sc.hash \o filled
                           ELSE sc.hash,
                  buffer |-> filled,
                  bufferLength |-> IF block_filled(length) THEN 0 ELSE length,
                  totalLength |-> sc.totalLength + 8 * bytesToCopy]
        /\ data' = SubSeq(data, bytesToCopy + 1, Len(data))
        /\ UNCHANGED <<piece, lengthPad, step>>

(* Fault: a full block less is padded a byte too soon.                     *)
pad_of_exact_block ==
    LET n == 2 * Block - LenBytes - sc.bufferLength
    IN  IF n >= Block THEN n - Block ELSE n

(* SHA1Final: at least the marker, up to where the length begins.          *)
bytesToPad ==
    LET n == 2 * Block - LenBytes - sc.bufferLength
    IN  IF n > Block THEN n - Block ELSE n

padding(n) == [i \in 1 .. n |-> IF i = 1 THEN 128 ELSE 0]

(* The two updates of SHA1Final.                                           *)
pad ==
    /\ step = "message" /\ data = <<>>
    /\ lengthPad' = BYTESWAP64(sc.totalLength)
    /\ data' = padding(bytesToPad)
    /\ step' = "padding"
    /\ UNCHANGED <<sc, piece>>

append_length ==
    /\ step = "padding" /\ data = <<>>
    /\ data' = lengthPad
    /\ step' = "length"
    /\ UNCHANGED <<sc, piece, lengthPad>>

SHA1Final == pad \/ append_length

Hashed == step = "length" /\ data = <<>>

-----------------------------------------------------------------------------
(* What is to be hashed for a message p: the message, a one bit, zeros,    *)
(* and its length in bits, in whole blocks.                                *)
PaddedMessage(p, k) == p \o padding(k) \o BYTESWAP64(8 * Len(p))

IsPadded(m, p) == \E k \in 1 .. Block : m = PaddedMessage(p, k)

(* The bytes already given to the context, and those of the call.          *)
Fed == sc.hash \o SubSeq(sc.buffer, 1, sc.bufferLength) \o data

(* However its length falls on the blocks, the bytes of the message, of    *)
(* the padding and of the length go through the buffer each once and in    *)
(* order: compressed, waiting in the buffer or still to be copied.         *)
NothingLost ==
    CASE step = "message" -> Fed = piece
      [] step = "padding" ->
             \E k \in 1 .. Block : Fed = piece \o padding(k)
      [] step = "length" -> IsPadded(Fed, piece)
      [] OTHER -> TRUE

(* When SHA1Final has returned, what was compressed is the padded message, *)
(* to its last byte: nothing is left in the buffer.                        *)
PaddedRight == Hashed => sc.bufferLength = 0 /\ IsPadded(sc.hash, piece)
=============================================================================
