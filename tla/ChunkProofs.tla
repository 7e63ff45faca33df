----------------------------- MODULE ChunkProofs -----------------------------
(***************************************************************************)
(* SHA1Update, SHA1Final and make-chunks, for every block, length field,   *)
(* chunk size and file.                                                    *)
(***************************************************************************)
EXTENDS MakeChunks, SequenceTheorems, TLAPS

USE BlockAssumption, ChunkAssumption

(* The values a pass of SHA1Update starts from.                            *)
ShaTypes ==
    /\ sc \in Context
    /\ piece \in Seq(Byte) /\ data \in Seq(Byte) /\ lengthPad \in Seq(Byte)
    /\ step \in {"idle", "message", "padding", "length"}

(* How much of the call is left is in step with the block: the padding     *)
(* ends where the length begins, and the length ends the block.            *)
BlocksFit ==
    /\ step = "message" => sc.totalLength = 8 * (Len(piece) - Len(data))
    /\ step \in {"padding", "length"} => lengthPad = BYTESWAP64(8 * Len(piece))
    /\ step = "padding" => sc.bufferLength + Len(data)
                               \in {Block - LenBytes, 2 * Block - LenBytes}
    /\ step = "length" => sc.bufferLength + Len(data) \in {0, Block}

ShaInv == ShaTypes /\ BlocksFit /\ NothingLost

-----------------------------------------------------------------------------
(* The parts of a padded message are bytes, and as many as they should be. *)
LEMMA LengthBytes ==
    ASSUME NEW n \in Nat
    PROVE  BYTESWAP64(n) \in Seq(Byte) /\ Len(BYTESWAP64(n)) = LenBytes
<1>1. \A i \in 1 .. LenBytes : (n \div 256 ^ (LenBytes - i)) % 256 \in Byte
  BY DEF Byte
<1> QED
  BY <1>1 DEF BYTESWAP64

LEMMA PaddingBytes ==
    ASSUME NEW n \in Nat
    PROVE  padding(n) \in Seq(Byte) /\ Len(padding(n)) = n
<1>1. \A i \in 1 .. n : (IF i = 1 THEN 128 ELSE 0) \in Byte
  BY DEF Byte
<1> QED
  BY <1>1 DEF padding

(* What the context holds in order: compressed, waiting, to be copied.     *)
InOrder(h, b, bl, d) == (h \o SubSeq(b, 1, bl)) \o d

(* f is the buffer b after n bytes of the call d were copied behind bl.    *)
Filled(f, b, bl, d, n) ==
    \A i \in 1 .. Block : f[i] = IF i \in bl + 1 .. bl + n THEN d[i - bl] ELSE b[i]

Fits(h, b, bl, d, n, f) ==
    /\ h \in Seq(Byte) /\ b \in [1 .. Block -> Byte] /\ bl \in 0 .. Block - 1
    /\ d \in Seq(Byte) /\ n \in 0 .. Len(d) /\ bl + n <= Block
    /\ f \in [1 .. Block -> Byte] /\ Filled(f, b, bl, d, n)

(* What is left after a pass that copied n of the left bytes: copying      *)
(* stops at the end of the call or of the block.                           *)
LEMMA RestOfPadding ==
    ASSUME NEW bl \in 0 .. Block - 1, NEW left \in Nat, NEW n \in Nat, NEW rest,
           n = left \/ bl + n = Block, n <= left,
           bl + left \in {Block - LenBytes, 2 * Block - LenBytes},
           rest = IF bl + n = Block THEN left - n ELSE bl + left
    PROVE  rest \in {Block - LenBytes, 2 * Block - LenBytes}
<1>1. CASE bl + n = Block
  BY <1>1, BlockAssumption
<1>2. CASE bl + n # Block
  BY <1>2
<1> QED
  BY <1>1, <1>2

LEMMA RestOfLength ==
    ASSUME NEW bl \in 0 .. Block - 1, NEW left \in Nat, NEW n \in Nat, NEW rest,
           n = left \/ bl + n = Block, n <= left, bl + left \in {0, Block},
           rest = IF bl + n = Block THEN left - n ELSE bl + left
    PROVE  rest \in {0, Block}
<1>1. CASE bl + n = Block
  BY <1>1, BlockAssumption
<1>2. CASE bl + n # Block
  BY <1>2
<1> QED
  BY <1>1, <1>2

LEMMA Associative ==
    ASSUME NEW s \in Seq(Byte), NEW t \in Seq(Byte), NEW u \in Seq(Byte)
    PROVE  (s \o t) \o u = s \o (t \o u)
BY ConcatAssociative

(* A pass of the loop of SHA1Update: the first n bytes of the call d go    *)
(* behind the bl bytes in the buffer b; read in order nothing changes.     *)
LEMMA FillKeeps ==
    ASSUME NEW h, NEW b, NEW bl, NEW d, NEW n, NEW f, Fits(h, b, bl, d, n, f)
    PROVE  InOrder(h, f, bl + n, SubSeq(d, n + 1, Len(d))) = InOrder(h, b, bl, d)
<1>0. /\ h \in Seq(Byte) /\ b \in [1 .. Block -> Byte] /\ bl \in 0 .. Block - 1
      /\ d \in Seq(Byte) /\ n \in 0 .. Len(d) /\ bl + n <= Block
      /\ f \in [1 .. Block -> Byte]
  BY DEF Fits
<1> DEFINE x == SubSeq(f, 1, bl + n)
           y == SubSeq(d, n + 1, Len(d))
           z == SubSeq(b, 1, bl)
<1>1. b \in Seq(Byte) /\ Len(b) = Block /\ f \in Seq(Byte) /\ Len(f) = Block
  BY <1>0
<1>2. /\ Len(h) \in Nat /\ Len(d) \in Nat /\ n \in Nat /\ bl \in Nat
      /\ n <= Len(d) /\ bl + n <= Block
  BY <1>0
<1>3. /\ x \in Seq(Byte) /\ Len(x) = bl + n
      /\ \A i \in 1 .. bl + n : x[i] = f[i]
  BY <1>1, <1>2, SubSeqProperties
<1>4. /\ y \in Seq(Byte) /\ Len(y) = Len(d) - n
      /\ \A i \in 1 .. Len(d) - n : y[i] = d[i + n]
  <2>1. \A i \in n + 1 .. Len(d) : d[i] \in Byte
    BY <1>0, <1>2
  <2> QED
    BY <1>0, <1>2, <2>1, SubSeqProperties
<1>5. /\ z \in Seq(Byte) /\ Len(z) = bl
      /\ \A i \in 1 .. bl : z[i] = b[i]
  BY <1>1, <1>2, SubSeqProperties
<1> HIDE DEF x, y, z
<1>9. \A i \in 1 .. Block : f[i] = IF i \in bl + 1 .. bl + n THEN d[i - bl] ELSE b[i]
  BY DEF Fits, Filled
<1>6. \A i \in 1 .. bl : x[i] = z[i]
  BY <1>2, <1>3, <1>5, <1>9
<1>7. \A i \in 1 .. n : x[bl + i] = d[i]
  <2>1. TAKE i \in 1 .. n
  <2>2. /\ bl + i \in 1 .. bl + n /\ bl + i \in 1 .. Block
        /\ bl + i \in bl + 1 .. bl + n /\ (bl + i) - bl = i
    BY <1>2, <2>1
  <2>3. x[bl + i] = f[bl + i]
    BY <1>3, <2>2
  <2>4. f[bl + i] = d[(bl + i) - bl]
    BY <1>9, <2>2
  <2> QED
    BY <2>2, <2>3, <2>4
<1>8. x \o y = z \o d
  <2>1. /\ x \o y \in Seq(Byte) /\ Len(x \o y) = bl + Len(d)
        /\ z \o d \in Seq(Byte) /\ Len(z \o d) = bl + Len(d)
    <3>1. x \o y \in Seq(Byte) /\ Len(x \o y) = Len(x) + Len(y)
      BY <1>3, <1>4, ConcatProperties
    <3>2. z \o d \in Seq(Byte) /\ Len(z \o d) = Len(z) + Len(d)
      BY <1>0, <1>5, ConcatProperties
    <3> QED
      BY <1>2, <1>3, <1>4, <1>5, <3>1, <3>2
  <2>2. \A i \in 1 .. bl + Len(d) : (x \o y)[i] = (z \o d)[i]
    <3>1. TAKE i \in 1 .. bl + Len(d)
    <3>2. (x \o y)[i] = IF i <= bl + n THEN x[i] ELSE y[i - (bl + n)]
      BY <1>2, <1>3, <1>4, ConcatProperties
    <3>3. (z \o d)[i] = IF i <= bl THEN z[i] ELSE d[i - bl]
      BY <1>0, <1>2, <1>5, ConcatProperties
    <3>4. CASE i <= bl
      BY <1>2, <1>6, <3>1, <3>2, <3>3, <3>4
    <3>5. CASE i > bl /\ i <= bl + n
      <4>1. i - bl \in 1 .. n /\ bl + (i - bl) = i
        BY <1>2, <3>5
      <4>2. x[i] = d[i - bl]
        BY <1>7, <4>1
      <4>3. i <= bl + n /\ ~(i <= bl)
        BY <1>2, <3>1, <3>5
      <4> QED
        BY <3>2, <3>3, <4>2, <4>3
    <3>6. CASE i > bl + n
      <4>1. i - (bl + n) \in 1 .. Len(d) - n /\ i - (bl + n) + n = i - bl
        BY <1>2, <3>6
      <4>2. y[i - (bl + n)] = d[i - (bl + n) + n]
        BY <1>4, <4>1
      <4>3. ~(i <= bl + n) /\ ~(i <= bl)
        BY <1>2, <3>1, <3>6
      <4> QED
        BY <3>2, <3>3, <4>1, <4>2, <4>3
    <3>7. i <= bl \/ (i > bl /\ i <= bl + n) \/ i > bl + n
      BY <1>2, <3>1
    <3> QED
      BY <3>4, <3>5, <3>6, <3>7
  <2> QED
    BY <2>1, <2>2, SeqEqual
<1> QED
  <2>1. (h \o x) \o y = h \o (x \o y)
    <3>1. x \in Seq(Byte) /\ y \in Seq(Byte) /\ h \in Seq(Byte)
      BY <1>0, <1>3, <1>4
    <3> QED
      BY <3>1, Associative
  <2>2. (h \o z) \o d = h \o (z \o d)
    <3>1. z \in Seq(Byte) /\ d \in Seq(Byte) /\ h \in Seq(Byte)
      BY <1>0, <1>5
    <3> QED
      BY <3>1, Associative
  <2> QED
    BY <1>8, <2>1, <2>2 DEF InOrder, x, y, z

-----------------------------------------------------------------------------
(* NothingLost, step by step.                                              *)
LEMMA LostWhen ==
    /\ step = "message" => (NothingLost <=> Fed = piece)
    /\ step = "padding" =>
           (NothingLost <=> \E k \in 1 .. Block : Fed = piece \o padding(k))
    /\ step = "length" => (NothingLost <=> IsPadded(Fed, piece))
    /\ step = "idle" => NothingLost
BY DEF NothingLost

(* One pass of the loop of SHA1Update.                                     *)
LEMMA UpdateInv == ShaInv /\ SHA1Update => ShaInv'
<1> SUFFICES ASSUME ShaInv, SHA1Update PROVE ShaInv'
  OBVIOUS
<1> DEFINE bl == sc.bufferLength
           n == bytesToCopy
<1>1. /\ bl \in 0 .. Block - 1 /\ sc.hash \in Seq(Byte)
      /\ sc.buffer \in [1 .. Block -> Byte] /\ sc.totalLength \in Nat
      /\ piece \in Seq(Byte) /\ data \in Seq(Byte) /\ lengthPad \in Seq(Byte)
      /\ step \in {"message", "padding", "length"} /\ data # <<>>
  BY DEF ShaInv, ShaTypes, Context, SHA1Update
<1>2. Len(data) \in Nat \ {0} /\ Len(piece) \in Nat
  BY <1>1
<1>3. /\ n \in 1 .. Len(data) /\ bl + n <= Block /\ n \in Nat
      /\ n = Len(data) \/ bl + n = Block
  BY <1>1, <1>2 DEF bytesToCopy
<1>4. /\ sc' = [hash |-> IF bl + n = Block THEN sc.hash \o filled ELSE sc.hash,
                buffer |-> filled,
                bufferLength |-> IF bl + n = Block THEN 0 ELSE bl + n,
                totalLength |-> sc.totalLength + 8 * n]
      /\ data' = SubSeq(data, n + 1, Len(data))
      /\ UNCHANGED <<piece, lengthPad, step>>
  BY DEF SHA1Update, block_filled
<1>5. filled = [i \in 1 .. Block |->
                   IF i \in bl + 1 .. bl + n THEN data[i - bl] ELSE sc.buffer[i]]
  BY DEF filled
<1>6. filled \in [1 .. Block -> Byte]
  <2>1. \A i \in bl + 1 .. bl + n : i - bl \in 1 .. Len(data)
    BY <1>1, <1>2, <1>3
  <2>2. \A j \in 1 .. Len(data) : data[j] \in Byte
    BY <1>1
  <2> HIDE DEF bl, n
  <2> QED
    BY <1>1, <1>5, <2>1, <2>2
<1> HIDE DEF bl, n
<1>7. data' \in Seq(Byte) /\ Len(data') = Len(data) - n
  <2>1. \A i \in n + 1 .. Len(data) : data[i] \in Byte
    BY <1>1, <1>2, <1>3
  <2> QED
    BY <1>2, <1>3, <1>4, <2>1, SubSeqProperties
<1>8. filled \in Seq(Byte) /\ Len(filled) = Block
  BY <1>6
<1>9. /\ sc'.hash = IF bl + n = Block THEN sc.hash \o filled ELSE sc.hash
      /\ sc'.buffer = filled
      /\ sc'.bufferLength = IF bl + n = Block THEN 0 ELSE bl + n
      /\ sc'.totalLength = sc.totalLength + 8 * n
  BY <1>4
<1>10. ShaTypes'
  <2>1. sc.hash \o filled \in Seq(Byte)
    BY <1>1, <1>8, ConcatProperties
  <2>2. (IF bl + n = Block THEN sc.hash \o filled ELSE sc.hash) \in Seq(Byte)
    BY <1>1, <2>1
  <2>3. (IF bl + n = Block THEN 0 ELSE bl + n) \in 0 .. Block - 1
    BY <1>1, <1>3
  <2>4. sc.totalLength + 8 * n \in Nat
    BY <1>1, <1>3
  <2>5. sc' \in Context
    BY <1>4, <1>6, <2>2, <2>3, <2>4 DEF Context
  <2> QED
    BY <1>1, <1>4, <1>7, <2>5 DEF ShaTypes
<1>11. BlocksFit'
  <2> DEFINE left == Len(data)
  <2>0. /\ bl \in 0 .. Block - 1 /\ left \in Nat /\ n \in Nat /\ n <= left
        /\ n = left \/ bl + n = Block
        /\ sc'.bufferLength + Len(data')
               = IF bl + n = Block THEN left - n ELSE bl + left
    <3>1. sc'.bufferLength = IF bl + n = Block THEN 0 ELSE bl + n
      BY <1>9
    <3> QED
      BY <1>1, <1>2, <1>3, <1>7, <3>1
  <2> DEFINE rest == sc'.bufferLength + Len(data')
  <2> HIDE DEF left, rest
  <2>r. rest = IF bl + n = Block THEN left - n ELSE bl + left
    BY <2>0 DEF rest
  <2>1. step = "message" => sc'.totalLength = 8 * (Len(piece) - Len(data'))
    BY <1>1, <1>2, <1>3, <1>7, <1>9 DEF ShaInv, BlocksFit
  <2>2. step = "padding" =>
            sc'.bufferLength + Len(data') \in {Block - LenBytes, 2 * Block - LenBytes}
    <3>1. step = "padding" => bl + left \in {Block - LenBytes, 2 * Block - LenBytes}
      BY DEF ShaInv, BlocksFit, bl, left
    <3>2. bl + left \in {Block - LenBytes, 2 * Block - LenBytes}
              => rest \in {Block - LenBytes, 2 * Block - LenBytes}
      BY <2>0, <2>r, RestOfPadding
    <3> QED
      BY <3>1, <3>2 DEF rest
  <2>3. step = "length" => sc'.bufferLength + Len(data') \in {0, Block}
    <3>1. step = "length" => bl + left \in {0, Block}
      BY DEF ShaInv, BlocksFit, bl, left
    <3>2. bl + left \in {0, Block} => rest \in {0, Block}
      BY <2>0, <2>r, RestOfLength
    <3> QED
      BY <3>1, <3>2 DEF rest
  <2>4. step \in {"padding", "length"} => lengthPad = BYTESWAP64(8 * Len(piece))
    BY DEF ShaInv, BlocksFit
  <2> QED
    BY <1>4, <2>1, <2>2, <2>3, <2>4 DEF BlocksFit
<1>12. Fed' = Fed
  <2>1. (sc.hash \o SubSeq(filled, 1, bl + n)) \o data' = Fed
    <3> DEFINE h == sc.hash  b == sc.buffer  f == filled
    <3>1. /\ h \in Seq(Byte) /\ b \in [1 .. Block -> Byte]
          /\ bl \in 0 .. Block - 1 /\ data \in Seq(Byte)
          /\ n \in 0 .. Len(data) /\ bl + n <= Block
          /\ f \in [1 .. Block -> Byte]
      BY <1>1, <1>2, <1>3, <1>6
    <3>2. Filled(f, b, bl, data, n)
      BY <1>5 DEF Filled
    <3> HIDE DEF h, b, f
    <3>3. Fits(h, b, bl, data, n, f)
      BY <3>1, <3>2 DEF Fits
    <3>4. InOrder(h, f, bl + n, SubSeq(data, n + 1, Len(data)))
              = InOrder(h, b, bl, data)
      BY <3>3, FillKeeps
    <3> QED
      BY <1>4, <3>4 DEF Fed, InOrder, bl, h, b, f
  <2>2. Fed' = (sc'.hash \o SubSeq(sc'.buffer, 1, sc'.bufferLength)) \o data'
    BY DEF Fed
  <2>3. CASE bl + n = Block
    <3>1. SubSeq(filled, 1, bl + n) = filled
      BY <1>8, <2>3, SubSeqFull
    <3>2. SubSeq(filled, 1, 0) = <<>>
      BY SubSeqEmpty
    <3>3. (sc.hash \o filled) \o <<>> = sc.hash \o filled
      BY <1>1, <1>8, ConcatProperties, ConcatEmptySeq
    <3> QED
      BY <1>9, <2>1, <2>2, <2>3, <3>1, <3>2, <3>3
  <2>4. CASE bl + n # Block
    BY <1>9, <2>1, <2>2, <2>4
  <2> QED
    BY <2>3, <2>4
<1>13. NothingLost'
  <2>1. NothingLost
    BY DEF ShaInv
  <2> QED
    BY <1>4, <1>12, <2>1 DEF NothingLost
<1> QED
  BY <1>10, <1>11, <1>13 DEF ShaInv

-----------------------------------------------------------------------------
(* shahash starts with an empty context.                                   *)
LEMMA StartInv == \A str \in Seq(Byte) : ShaInv /\ shahash(str) => ShaInv'
<1>1. SUFFICES ASSUME NEW str \in Seq(Byte), ShaInv, shahash(str) PROVE ShaInv'
  OBVIOUS
<1>2. /\ sc' = [sc EXCEPT !.hash = <<>>, !.bufferLength = 0, !.totalLength = 0]
      /\ sc \in Context /\ lengthPad \in Seq(Byte)
      /\ piece' = str /\ data' = str /\ step' = "message" /\ lengthPad' = lengthPad
  BY <1>1 DEF shahash, SHA1Init, ShaInv, ShaTypes
<1>3. /\ sc'.hash = <<>> /\ sc'.bufferLength = 0 /\ sc'.totalLength = 0
      /\ sc' \in Context
  <2>1. sc = [hash |-> sc.hash, buffer |-> sc.buffer,
              bufferLength |-> sc.bufferLength, totalLength |-> sc.totalLength]
    BY <1>2 DEF Context
  <2>2. sc' = [hash |-> <<>>, buffer |-> sc.buffer,
               bufferLength |-> 0, totalLength |-> 0]
    BY <1>2, <2>1
  <2>3. <<>> \in Seq(Byte) /\ 0 \in 0 .. Block - 1
    OBVIOUS
  <2>4. sc.buffer \in [1 .. Block -> Byte]
    BY <1>2 DEF Context
  <2> QED
    BY <2>2, <2>3, <2>4 DEF Context
<1>4. ShaTypes'
  BY <1>2, <1>3 DEF ShaTypes
<1>5. BlocksFit'
  BY <1>2, <1>3 DEF BlocksFit
<1>6. NothingLost'
  <2>1. Fed' = (<<>> \o SubSeq(sc'.buffer, 1, 0)) \o str
    BY <1>2, <1>3 DEF Fed
  <2>2. SubSeq(sc'.buffer, 1, 0) = <<>>
    BY SubSeqEmpty
  <2>3. (<<>> \o <<>>) \o str = str
    <3>1. <<>> \o <<>> = <<>>
      BY ConcatEmptySeq
    <3> QED
      BY <3>1, ConcatEmptySeq
  <2> QED
    BY <1>2, <2>1, <2>2, <2>3 DEF NothingLost
<1> QED
  BY <1>4, <1>5, <1>6 DEF ShaInv

(* With the call at its end, the bytes are those in the context.           *)
Taken == sc.hash \o SubSeq(sc.buffer, 1, sc.bufferLength)

LEMMA FedIsTaken ==
    ASSUME sc \in Context
    PROVE  /\ Taken \in Seq(Byte)
           /\ data = <<>> => Fed = Taken
           /\ Fed = Taken \o data
<1>1. /\ sc.hash \in Seq(Byte) /\ sc.buffer \in Seq(Byte) /\ Len(sc.buffer) = Block
      /\ sc.bufferLength \in 0 .. Block - 1
  BY DEF Context
<1>2. SubSeq(sc.buffer, 1, sc.bufferLength) \in Seq(Byte)
  <2>1. \A i \in 1 .. sc.bufferLength : sc.buffer[i] \in Byte
    BY DEF Context
  <2> QED
    BY <1>1, <2>1, SubSeqProperties
<1>3. Taken \in Seq(Byte)
  BY <1>1, <1>2, ConcatProperties DEF Taken
<1>4. Fed = Taken \o data
  BY DEF Fed, Taken
<1>5. Taken \o <<>> = Taken
  BY <1>3, ConcatEmptySeq
<1> QED
  BY <1>3, <1>4, <1>5

(* SHA1Final pads up to where the length of the message begins.            *)
LEMMA PadInv == ShaInv /\ pad => ShaInv'
<1> SUFFICES ASSUME ShaInv, pad PROVE ShaInv'
  OBVIOUS
<1> DEFINE k == bytesToPad
<1>1. /\ sc \in Context /\ piece \in Seq(Byte) /\ data = <<>> /\ step = "message"
      /\ lengthPad' = BYTESWAP64(sc.totalLength) /\ data' = padding(k)
      /\ step' = "padding" /\ sc' = sc /\ piece' = piece
  BY DEF ShaInv, ShaTypes, pad
<1>2. sc.bufferLength \in 0 .. Block - 1
  BY <1>1 DEF Context
<1>3. /\ k \in 1 .. Block
      /\ sc.bufferLength + k \in {Block - LenBytes, 2 * Block - LenBytes}
  BY <1>2 DEF bytesToPad
<1> HIDE DEF k
<1>4. data' \in Seq(Byte) /\ Len(data') = k
  BY <1>1, <1>3, PaddingBytes
<1>5. sc.totalLength = 8 * Len(piece) /\ 8 * Len(piece) \in Nat
  <2>1. sc.totalLength = 8 * (Len(piece) - Len(data)) /\ Len(data) = 0
    BY <1>1 DEF ShaInv, BlocksFit
  <2> QED
    BY <1>1, <2>1
<1>6. lengthPad' = BYTESWAP64(8 * Len(piece)) /\ lengthPad' \in Seq(Byte)
  BY <1>1, <1>5, LengthBytes
<1>7. ShaTypes'
  BY <1>1, <1>4, <1>6 DEF ShaTypes
<1>8. BlocksFit'
  BY <1>1, <1>3, <1>4, <1>6 DEF BlocksFit
<1>9. NothingLost'
  <2>1. Fed = piece
    BY <1>1, LostWhen DEF ShaInv
  <2>2. Taken = piece
    BY <1>1, <2>1, FedIsTaken
  <2>3. Fed' = piece \o padding(k)
    BY <1>1, <2>2 DEF Fed, Taken
  <2> QED
    BY <1>1, <1>3, <2>3 DEF NothingLost
<1> QED
  BY <1>7, <1>8, <1>9 DEF ShaInv

(* The length follows the padding.                                         *)
LEMMA LengthInv == ShaInv /\ append_length => ShaInv'
<1> SUFFICES ASSUME ShaInv, append_length PROVE ShaInv'
  OBVIOUS
<1>1. /\ sc \in Context /\ piece \in Seq(Byte) /\ data = <<>> /\ step = "padding"
      /\ lengthPad \in Seq(Byte) /\ data' = lengthPad /\ step' = "length"
      /\ sc' = sc /\ piece' = piece /\ lengthPad' = lengthPad
  BY DEF ShaInv, ShaTypes, append_length
<1>2. lengthPad = BYTESWAP64(8 * Len(piece)) /\ 8 * Len(piece) \in Nat
  BY <1>1 DEF ShaInv, BlocksFit
<1>3. Len(lengthPad) = LenBytes
  BY <1>2, LengthBytes
<1>4. sc.bufferLength = Block - LenBytes
  <2>1. sc.bufferLength \in 0 .. Block - 1
    BY <1>1 DEF Context
  <2>2. sc.bufferLength + 0 \in {Block - LenBytes, 2 * Block - LenBytes}
    BY <1>1 DEF ShaInv, BlocksFit
  <2> QED
    BY <2>1, <2>2
<1>5. ShaTypes'
  BY <1>1 DEF ShaTypes
<1>6. BlocksFit'
  BY <1>1, <1>2, <1>3, <1>4 DEF BlocksFit
<1>7. NothingLost'
  <2>1. PICK k \in 1 .. Block : Fed = piece \o padding(k)
    BY <1>1, LostWhen DEF ShaInv
  <2>2. Taken = piece \o padding(k)
    BY <1>1, <2>1, FedIsTaken
  <2>3. Fed' = PaddedMessage(piece, k)
    BY <1>1, <1>2, <2>2 DEF Fed, Taken, PaddedMessage
  <2>4. IsPadded(Fed', piece)
    BY <2>3 DEF IsPadded
  <2> QED
    BY <1>1, <2>4 DEF NothingLost, IsPadded, PaddedMessage
<1> QED
  BY <1>5, <1>6, <1>7 DEF ShaInv

(* When SHA1Final has returned the last block was just compressed.         *)
LEMMA HashedIsPadded == ShaInv => PaddedRight
<1> SUFFICES ASSUME ShaInv, Hashed PROVE sc.bufferLength = 0 /\ IsPadded(sc.hash, piece)
  BY DEF PaddedRight
<1>1. sc \in Context /\ data = <<>> /\ step = "length"
  BY DEF ShaInv, ShaTypes, Hashed
<1>2. sc.bufferLength = 0
  <2>1. sc.bufferLength \in 0 .. Block - 1
    BY <1>1 DEF Context
  <2>2. sc.bufferLength + 0 \in {0, Block}
    BY <1>1 DEF ShaInv, BlocksFit
  <2> QED
    BY <2>1, <2>2
<1>3. Taken = sc.hash
  <2>1. SubSeq(sc.buffer, 1, 0) = <<>>
    BY SubSeqEmpty
  <2>2. sc.hash \in Seq(Byte)
    BY <1>1 DEF Context
  <2>3. sc.hash \o <<>> = sc.hash
    BY <2>2, ConcatEmptySeq
  <2> QED
    BY <1>2, <2>1, <2>3 DEF Taken
<1>4. IsPadded(Fed, piece)
  BY <1>1, LostWhen DEF ShaInv
<1> QED
  BY <1>1, <1>2, <1>3, <1>4, FedIsTaken

-----------------------------------------------------------------------------
(* Where main is in the file; behind what it read there is nothing.        *)
MainInv ==
    /\ file \in Files \cup {NoFile} /\ pos \in Nat
    /\ at # "main" => at = "failed" \/ file \in Files
    /\ file \in Files => pos <= Len(file)

ChunksInv == ShaInv /\ MainInv

LEMMA InitInv == Init => ChunksInv
<1> SUFFICES ASSUME Init PROVE ChunksInv
  OBVIOUS
<1>1. /\ file \in Files \cup {NoFile} /\ pos = 0 /\ at = "main"
      /\ sc = [hash |-> <<>>, buffer |-> [i \in 1 .. Block |-> 255],
               bufferLength |-> 0, totalLength |-> 0]
      /\ piece = <<>> /\ data = <<>> /\ lengthPad = <<>> /\ step = "idle"
  BY DEF Init
<1>2. sc \in Context
  <2>1. [i \in 1 .. Block |-> 255] \in [1 .. Block -> Byte]
    BY DEF Byte
  <2>2. <<>> \in Seq(Byte) /\ 0 \in 0 .. Block - 1
    OBVIOUS
  <2> QED
    BY <1>1, <2>1, <2>2 DEF Context
<1>3. ShaInv
  BY <1>1, <1>2 DEF ShaInv, ShaTypes, BlocksFit, NothingLost
<1>4. MainInv
  <2>1. file \in Files => Len(file) \in Nat
    BY FilesAssumption
  <2> QED
    BY <1>1, <2>1 DEF MainInv
<1> QED
  BY <1>3, <1>4 DEF ChunksInv

LEMMA ReadInv == ChunksInv /\ read_chunk => ChunksInv'
<1> SUFFICES ASSUME ChunksInv, read_chunk PROVE ChunksInv'
  OBVIOUS
<1> DEFINE str == SubSeq(file, pos + 1, pos + numbytes)
<1>1. /\ at = "make_chunks" /\ numbytes > 0 /\ shahash(str)
      /\ pos' = pos + numbytes /\ file' = file /\ at' = at
  BY DEF read_chunk
<1>2. file \in Files /\ file \in Seq(Byte) /\ pos \in Nat /\ pos <= Len(file)
  BY <1>1, FilesAssumption DEF ChunksInv, MainInv
<1>3. numbytes \in Nat /\ pos + numbytes <= Len(file)
  BY <1>1, <1>2 DEF numbytes
<1>4. str \in Seq(Byte)
  <2>1. \A i \in pos + 1 .. pos + numbytes : file[i] \in Byte
    BY <1>2, <1>3
  <2> QED
    BY <1>2, <1>3, <2>1, SubSeqProperties
<1> HIDE DEF str
<1>5. ShaInv'
  BY <1>1, <1>4, StartInv DEF ChunksInv
<1>6. MainInv'
  BY <1>1, <1>2, <1>3 DEF MainInv
<1> QED
  BY <1>5, <1>6 DEF ChunksInv

LEMMA HashInv == ChunksInv /\ hash_chunk => ChunksInv'
<1> SUFFICES ASSUME ChunksInv, hash_chunk PROVE ChunksInv'
  OBVIOUS
<1>1. SHA1Update \/ pad \/ append_length
  BY DEF hash_chunk, SHA1Final
<1>2. ShaInv'
  BY <1>1, UpdateInv, PadInv, LengthInv DEF ChunksInv
<1>3. MainInv'
  BY DEF ChunksInv, MainInv, hash_chunk, main
<1> QED
  BY <1>2, <1>3 DEF ChunksInv

(* The steps of main that call no function of sha.c.                       *)
LEMMA MainKeeps ==
    ChunksInv /\ (allocate \/ store_hash \/ end_of_file \/ print_hash \/ return
                  \/ UNCHANGED vars) => ChunksInv'
<1> SUFFICES ASSUME ChunksInv,
                    allocate \/ store_hash \/ end_of_file \/ print_hash \/ return
                        \/ UNCHANGED vars
             PROVE  ChunksInv'
  OBVIOUS
<1>1. /\ UNCHANGED <<sc, piece, data, lengthPad>>
      /\ step' = step \/ step' = "idle"
  BY DEF allocate, store_hash, end_of_file, print_hash, return, vars, sha
<1>2. Fed' = Fed
  BY <1>1 DEF Fed
<1>3. ShaInv'
  <2>1. CASE step' = step
    BY <1>1, <1>2, <2>1 DEF ChunksInv, ShaInv, ShaTypes, BlocksFit, NothingLost
  <2>2. CASE step' = "idle"
    BY <1>1, <2>2 DEF ChunksInv, ShaInv, ShaTypes, BlocksFit, NothingLost
  <2> QED
    BY <1>1, <2>1, <2>2
<1>4. /\ file' = file /\ pos' = pos
      /\ at' # "main" => at' = "failed" \/ file \in Files
  BY DEF ChunksInv, MainInv, allocate, store_hash, end_of_file, print_hash,
         return, vars, main
<1>5. MainInv'
  BY <1>4 DEF ChunksInv, MainInv
<1> QED
  BY <1>3, <1>5 DEF ChunksInv

LEMMA ChunksStep == ChunksInv /\ [Next]_vars => ChunksInv'
<1> SUFFICES ASSUME ChunksInv, [Next]_vars PROVE ChunksInv'
  OBVIOUS
<1>1. CASE read_chunk
  BY <1>1, ReadInv
<1>2. CASE hash_chunk
  BY <1>2, HashInv
<1>3. CASE allocate \/ store_hash \/ end_of_file \/ print_hash \/ return
           \/ UNCHANGED vars
  BY <1>3, MainKeeps
<1> QED
  BY <1>1, <1>2, <1>3 DEF Next

(* Whatever the length of a chunk, of a block and of the length field: no  *)
(* byte of the message, of the padding or of the length is lost, repeated  *)
(* or out of order in the buffer of SHA1Update, and when SHA1Final returns *)
(* the whole padded message was compressed.                                *)
THEOREM HashesWhatItReads == Spec => []NothingLost /\ []PaddedRight
<1>1. Init => ChunksInv
  BY InitInv
<1>2. ChunksInv /\ [Next]_vars => ChunksInv'
  BY ChunksStep
<1>3. ChunksInv => NothingLost /\ PaddedRight
  BY HashedIsPadded DEF ChunksInv, ShaInv
<1> QED
  BY <1>1, <1>2, <1>3, PTL DEF Spec

-----------------------------------------------------------------------------
(* The digits of a byte, and the byte of two digits.                       *)
OfDigits(x, y) == 16 * x + y

LEMMA ByteDigits ==
    ASSUME NEW b \in Byte
    PROVE  /\ b \div 16 \in 0 .. 15 /\ b % 16 \in 0 .. 15
           /\ OfDigits(b \div 16, b % 16) = b
<1>1. b \in Int /\ 0 <= b /\ b <= 255
  BY DEF Byte
<1>2. b \div 16 \in 0 .. 15
  BY <1>1
<1>3. b % 16 \in 0 .. 15
  BY <1>1
<1>4. OfDigits(b \div 16, b % 16) = b
  <2>1. \E q \in 0 .. 15, m \in 0 .. 15 : b = 16 * q + m
    BY <1>1
  <2>2. PICK q \in 0 .. 15, m \in 0 .. 15 : b = 16 * q + m
    BY <2>1
  <2>3. (16 * q + m) \div 16 = q
    OBVIOUS
  <2>4. (16 * q + m) % 16 = m
    OBVIOUS
  <2>5. b \div 16 = q /\ b % 16 = m
    BY <2>2, <2>3, <2>4
  <2>6. OfDigits(q, m) = b
    BY <2>2 DEF OfDigits
  <2> QED
    BY <2>5, <2>6
<1> QED
  BY <1>2, <1>3, <1>4

LEMMA DigitBack ==
    ASSUME NEW n \in 0 .. 15
    PROVE  _hex2binary(digit(n)) = n
<1>1. CASE n <= 9
  BY <1>1 DEF digit, _hex2binary, toupper
<1>2. CASE n > 9
  BY <1>2 DEF digit, _hex2binary, toupper
<1> QED
  BY <1>1, <1>2

LEMMA Halves ==
    ASSUME NEW i \in Nat \ {0}
    PROVE  /\ ((2 * i - 1) + 1) \div 2 = i /\ (2 * i - 1) % 2 = 1
           /\ (2 * i + 1) \div 2 = i /\ (2 * i) % 2 = 0
           /\ (2 * i) \div 2 = i
OBVIOUS

(* The digits are bytes themselves: codes of characters.                   *)
LEMMA DigitBytes ==
    ASSUME NEW s \in Seq(Byte)
    PROVE  binary2hex(s) \in Seq(Byte)
<1>1. Len(s) \in Nat /\ \A i \in 1 .. Len(s) : s[i] \in Byte
  OBVIOUS
<1>2. \A n \in 0 .. 15 : digit(n) \in Byte
  <2>1. ASSUME NEW n \in 0 .. 15 PROVE digit(n) \in Byte
    <3>1. CASE n <= 9
      BY <3>1 DEF digit, Byte
    <3>2. CASE n > 9
      BY <3>2 DEF digit, Byte
    <3> QED
      BY <3>1, <3>2
  <2> QED
    BY <2>1
<1> DEFINE nibble(j) == IF j % 2 = 1 THEN s[(j + 1) \div 2] \div 16
                        ELSE s[(j + 1) \div 2] % 16
<1>3. \A j \in 1 .. 2 * Len(s) : nibble(j) \in 0 .. 15
  <2>1. TAKE j \in 1 .. 2 * Len(s)
  <2>2. (j + 1) \div 2 \in 1 .. Len(s)
    BY <1>1, <2>1
  <2>3. s[(j + 1) \div 2] \in Byte
    BY <1>1, <2>2
  <2> QED
    BY <2>3, ByteDigits
<1>4. binary2hex(s) = [j \in 1 .. 2 * Len(s) |-> digit(nibble(j))]
  BY DEF binary2hex
<1> HIDE DEF nibble
<1>5. 2 * Len(s) \in Nat
  BY <1>1
<1>6. \A j \in 1 .. 2 * Len(s) : digit(nibble(j)) \in Byte
  BY <1>2, <1>3
<1> QED
  BY <1>4, <1>5, <1>6

(* What a peer reads back from the digits make-chunks printed is the hash. *)
LEMMA HexRoundTrip ==
    ASSUME NEW s \in Seq(Byte)
    PROVE  hex2binary(binary2hex(s)) = s
<1> DEFINE h == binary2hex(s)
           r == hex2binary(h)
           nibble(j) == IF j % 2 = 1 THEN s[(j + 1) \div 2] \div 16
                        ELSE s[(j + 1) \div 2] % 16
<1>1. Len(s) \in Nat
  OBVIOUS
<1>2. h = [j \in 1 .. 2 * Len(s) |-> digit(nibble(j))]
  BY DEF binary2hex
<1>3. Len(h) = 2 * Len(s) /\ Len(h) \div 2 = Len(s)
  <2>1. Len(h) = 2 * Len(s)
    BY <1>1, <1>2
  <2>2. (2 * Len(s)) \div 2 = Len(s)
    BY <1>1
  <2> QED
    BY <2>1, <2>2
<1> HIDE DEF h
<1>4. r = [i \in 1 .. Len(s) |-> 16 * _hex2binary(h[2 * i - 1]) + _hex2binary(h[2 * i])]
  BY <1>3 DEF hex2binary
<1>5. \A i \in 1 .. Len(s) : r[i] = s[i]
  <2>1. TAKE i \in 1 .. Len(s)
  <2>2. 2 * i - 1 \in 1 .. 2 * Len(s) /\ 2 * i \in 1 .. 2 * Len(s) /\ i \in Nat \ {0}
    BY <1>1, <2>1
  <2>3. s[i] \in Byte
    BY <2>1
  <2>4. nibble(2 * i - 1) = s[i] \div 16 /\ nibble(2 * i) = s[i] % 16
    BY <2>2, Halves
  <2>5. h[2 * i - 1] = digit(s[i] \div 16) /\ h[2 * i] = digit(s[i] % 16)
    <3> HIDE DEF nibble
    <3> QED
      BY <1>2, <2>2, <2>4
  <2>6. _hex2binary(h[2 * i - 1]) = s[i] \div 16 /\ _hex2binary(h[2 * i]) = s[i] % 16
    BY <2>3, <2>5, ByteDigits, DigitBack
  <2>7. r[i] = OfDigits(_hex2binary(h[2 * i - 1]), _hex2binary(h[2 * i]))
    <3> HIDE DEF r
    <3> QED
      BY <1>4, <2>1 DEF OfDigits
  <2>8. OfDigits(s[i] \div 16, s[i] % 16) = s[i]
    BY <2>3, ByteDigits
  <2> HIDE DEF r
  <2> QED
    BY <2>6, <2>7, <2>8
<1>6. r = [i \in 1 .. Len(s) |-> s[i]]
  <2> HIDE DEF r
  <2>1. r = [i \in 1 .. Len(s) |-> r[i]]
    BY <1>4
  <2> QED
    BY <1>5, <2>1
<1>7. s = [i \in 1 .. Len(s) |-> s[i]]
  OBVIOUS
<1> QED
  BY <1>6, <1>7 DEF h

-----------------------------------------------------------------------------
(* Where chunk i begins, for chunks of s bytes.                            *)
Offset(s, i) == s * i

LEMMA Offsets ==
    ASSUME NEW s \in Nat
    PROVE  /\ Offset(s, 0) = 0
           /\ \A i \in Nat : Offset(s, i) \in Nat /\ Offset(s, i + 1) = Offset(s, i) + s
           /\ \A i, j \in Nat : i <= j => Offset(s, i) <= Offset(s, j)
<1>1. Offset(s, 0) = 0
  BY DEF Offset
<1>2. ASSUME NEW i \in Nat PROVE Offset(s, i) \in Nat /\ Offset(s, i + 1) = Offset(s, i) + s
  <2>1. s * i \in Nat
    OBVIOUS
  <2>2. s * (i + 1) = s * i + s
    OBVIOUS
  <2> QED
    BY <2>1, <2>2 DEF Offset
<1>3. ASSUME NEW i \in Nat, NEW j \in Nat PROVE i <= j => Offset(s, i) <= Offset(s, j)
  <2>1. i <= j => s * i <= s * j
    OBVIOUS
  <2> QED
    BY <2>1 DEF Offset
<1> QED
  BY <1>1, <1>2, <1>3

LEMMA ChunkOffsets ==
    /\ Offset(ChunkSize, 0) = 0
    /\ \A i \in Nat : /\ Offset(ChunkSize, i) \in Nat
                      /\ Offset(ChunkSize, i + 1) = Offset(ChunkSize, i) + ChunkSize
    /\ \A i, j \in Nat : i <= j => Offset(ChunkSize, i) <= Offset(ChunkSize, j)
<1>1. ChunkSize \in Nat
  BY ChunkAssumption
<1> QED
  BY <1>1, Offsets

(* The division of get_numchunks rounds up.                                *)
LEMMA RoundedUp ==
    ASSUME NEW s \in Nat \ {0}, NEW l \in Nat, NEW c \in Nat, Offset(s, c) < l
    PROVE  c + 1 <= (l + s - 1) \div s
<1> DEFINE q == (l + s - 1) \div s
<1>1. q \in Nat /\ l + s - 1 < s * q + s
  <2>1. l + s - 1 \in Nat
    OBVIOUS
  <2> QED
    BY <2>1
<1>2. Offset(s, c) \in Nat /\ Offset(s, q) \in Nat /\ Offset(s, q) = s * q
  BY <1>1, Offsets DEF Offset
<1> HIDE DEF q
<1>3. l - 1 < Offset(s, q)
  BY <1>1, <1>2
<1>4. q <= c => Offset(s, q) <= Offset(s, c)
  BY <1>1, Offsets
<1>5. c + 1 <= q
  BY <1>1, <1>2, <1>3, <1>4
<1> QED
  BY <1>5 DEF q

-----------------------------------------------------------------------------
(* The chunks main has begun to read, and where that leaves it: behind     *)
(* them, or at the end of the file, which the last of them reached into.   *)
Begun == IF step = "idle" THEN Len(hashes) ELSE Len(hashes) + 1

Behind(c) ==
    /\ pos = IF Offset(ChunkSize, c) < Len(file) THEN Offset(ChunkSize, c)
             ELSE Len(file)
    /\ c > 0 => Offset(ChunkSize, c - 1) < Len(file)

Places ==
    /\ at \in {"main", "failed"} => step = "idle" /\ hashes = <<>> /\ listing = <<>> /\ pos = 0
    /\ at = "make_chunks" =>
           numchunks = get_numchunks(file) /\ listing = <<>> /\ Behind(Begun)
    /\ at \in {"print", "done"} =>
           step = "idle" /\ Behind(Len(hashes)) /\ pos = Len(file)
    /\ step # "idle" => at = "make_chunks" /\ piece = chunk(Len(hashes))
    /\ at = "done" => Len(listing) = Len(hashes)

ListTypes ==
    /\ hashes \in Seq(Seq(Byte)) /\ listing \in Seq(Nat \X Seq(Byte))
    /\ at \in {"main", "make_chunks", "print", "done", "failed"}

HashesOfChunks == \A i \in 1 .. Len(hashes) : IsPadded(hashes[i], chunk(i - 1))

LinesOfHashes ==
    /\ Len(listing) <= Len(hashes)
    /\ \A i \in 1 .. Len(listing) : listing[i] = <<i - 1, binary2hex(hashes[i])>>

ListInv == ListTypes /\ Places /\ HashesOfChunks /\ LinesOfHashes

LEMMA ListInit == Init => ListInv
<1> SUFFICES ASSUME Init PROVE ListInv
  OBVIOUS
<1>1. /\ at = "main" /\ step = "idle" /\ hashes = <<>> /\ listing = <<>> /\ pos = 0
  BY DEF Init
<1>2. ListTypes
  BY <1>1 DEF ListTypes
<1>3. Places
  BY <1>1 DEF Places
<1>4. HashesOfChunks /\ LinesOfHashes
  BY <1>1 DEF HashesOfChunks, LinesOfHashes
<1> QED
  BY <1>2, <1>3, <1>4 DEF ListInv

LEMMA ListAllocate == ChunksInv /\ ListInv /\ allocate => ListInv'
<1> SUFFICES ASSUME ChunksInv, ListInv, allocate PROVE ListInv'
  OBVIOUS
<1>1. /\ at = "main" /\ UNCHANGED <<file, pos, hashes, listing, step, piece>>
      /\ \/ file \in Files /\ numchunks' = get_numchunks(file) /\ at' = "make_chunks"
         \/ at' = "failed"
  BY DEF allocate, sha, ChunksInv, MainInv
<1>2. step = "idle" /\ hashes = <<>> /\ listing = <<>> /\ pos = 0
  BY <1>1 DEF ListInv, Places
<1>3. ListTypes' /\ HashesOfChunks' /\ LinesOfHashes'
  BY <1>1, <1>2 DEF ListInv, ListTypes, HashesOfChunks, LinesOfHashes
<1>4. file \in Files => Behind(0)
  <2>1. file \in Files => Len(file) \in Nat
    BY FilesAssumption
  <2>2. Offset(ChunkSize, 0) = 0
    BY ChunkOffsets
  <2> QED
    BY <1>2, <2>1, <2>2 DEF Behind
<1>5. Places'
  <2>1. CASE at' = "failed"
    BY <1>1, <1>2, <2>1 DEF Places
  <2>2. CASE at' = "make_chunks" /\ numchunks' = get_numchunks(file) /\ file \in Files
    <3>1. Begun' = 0
      BY <1>1, <1>2 DEF Begun
    <3>2. Behind(0)'
      BY <1>1, <1>4, <2>2 DEF Behind
    <3>3. get_numchunks(file)' = get_numchunks(file)
      BY <1>1 DEF get_numchunks
    <3> QED
      BY <1>1, <1>2, <2>2, <3>1, <3>2, <3>3 DEF Places, Behind
  <2> QED
    BY <1>1, <2>1, <2>2
<1> QED
  BY <1>3, <1>5 DEF ListInv

(* What is read is the next chunk.                                         *)
LEMMA ListRead == ChunksInv /\ ListInv /\ read_chunk => ListInv'
<1> SUFFICES ASSUME ChunksInv, ListInv, read_chunk PROVE ListInv'
  OBVIOUS
<1> DEFINE c == Len(hashes)  l == Len(file)
           begin == Offset(ChunkSize, c)  next == Offset(ChunkSize, c + 1)
<1>1. /\ at = "make_chunks" /\ numbytes > 0
      /\ shahash(SubSeq(file, pos + 1, pos + numbytes))
      /\ pos' = pos + numbytes
      /\ UNCHANGED <<file, numchunks, hashes, listing, at>>
  BY DEF read_chunk
<1>2. /\ step = "idle" /\ step' = "message"
      /\ piece' = SubSeq(file, pos + 1, pos + numbytes)
  BY <1>1 DEF shahash
<1>3. file \in Files /\ l \in Nat /\ pos \in Nat /\ c \in Nat
  BY <1>1, FilesAssumption DEF ChunksInv, MainInv, ListInv, ListTypes
<1>4. Behind(c) /\ numchunks = get_numchunks(file) /\ listing = <<>>
  BY <1>1, <1>2 DEF ListInv, Places, Begun
<1>5. begin \in Nat /\ next = begin + ChunkSize
  BY <1>3, ChunkOffsets
<1>6. pos = IF begin < l THEN begin ELSE l
  BY <1>4 DEF Behind
<1>7. numbytes = IF l - pos < ChunkSize THEN l - pos ELSE ChunkSize
  BY DEF numbytes
<1>8. chunk(c) = SubSeq(file, begin + 1, IF next < l THEN next ELSE l)
  BY DEF chunk, Offset
<1> HIDE DEF c, l, begin, next
<1>9. begin < l /\ pos = begin /\ pos' = IF next < l THEN next ELSE l
  BY <1>1, <1>3, <1>5, <1>6, <1>7, ChunkAssumption
<1>10. piece' = chunk(c)
  BY <1>1, <1>2, <1>8, <1>9
<1>11. Begun' = c + 1 /\ Len(hashes)' = c /\ (c + 1) - 1 = c
  BY <1>1, <1>2, <1>3 DEF Begun, c
<1>12. Behind(c + 1)'
  BY <1>1, <1>9, <1>11 DEF Behind, begin, next, l, c
<1>13. Places'
  <2>0. c' = c
    BY <1>1 DEF c
  <2>1. chunk(c)' = chunk(c)
    BY <1>1 DEF chunk, c
  <2>2. get_numchunks(file)' = get_numchunks(file)
    BY <1>1 DEF get_numchunks
  <2>3. Behind(Begun)'
    BY <1>11, <1>12, <2>0
  <2> QED
    BY <1>1, <1>2, <1>4, <1>10, <2>1, <2>2, <2>3 DEF Places, c
<1>14. ListTypes' /\ HashesOfChunks' /\ LinesOfHashes'
  BY <1>1 DEF ListInv, ListTypes, HashesOfChunks, LinesOfHashes, chunk
<1> QED
  BY <1>13, <1>14 DEF ListInv

LEMMA ListHash == ListInv /\ hash_chunk => ListInv'
<1> SUFFICES ASSUME ListInv, hash_chunk PROVE ListInv'
  OBVIOUS
<1>1. UNCHANGED main /\ piece' = piece /\ step # "idle" /\ step' # "idle"
  BY DEF hash_chunk, SHA1Update, SHA1Final, pad, append_length
<1>2. Begun' = Begun
  BY <1>1 DEF Begun, main
<1>3. Places'
  BY <1>1, <1>2 DEF ListInv, Places, Behind, main, chunk, get_numchunks
<1>4. ListTypes' /\ HashesOfChunks' /\ LinesOfHashes'
  BY <1>1 DEF ListInv, ListTypes, HashesOfChunks, LinesOfHashes, chunk, main
<1> QED
  BY <1>3, <1>4 DEF ListInv

LEMMA ListStore == ChunksInv /\ ListInv /\ store_hash => ListInv'
<1> SUFFICES ASSUME ChunksInv, ListInv, store_hash PROVE ListInv'
  OBVIOUS
<1> DEFINE c == Len(hashes)
<1>1. /\ Hashed /\ step # "idle" /\ step' = "idle"
      /\ hashes' = Append(hashes, sc.hash)
      /\ UNCHANGED <<file, pos, numchunks, listing, at, piece>>
  BY DEF store_hash, Hashed
<1>2. /\ sc.hash \in Seq(Byte) /\ IsPadded(sc.hash, piece)
      /\ hashes \in Seq(Seq(Byte)) /\ c \in Nat
  BY <1>1, HashedIsPadded
     DEF ChunksInv, ShaInv, ShaTypes, Context, PaddedRight, ListInv, ListTypes
<1>3. at = "make_chunks" /\ piece = chunk(c) /\ Begun = c + 1
  BY <1>1 DEF ListInv, Places, Begun
<1>4. /\ hashes' \in Seq(Seq(Byte)) /\ Len(hashes') = c + 1
      /\ hashes'[c + 1] = sc.hash
      /\ \A i \in 1 .. c : hashes'[i] = hashes[i]
  BY <1>1, <1>2
<1>5. \A i : chunk(i)' = chunk(i)
  BY <1>1 DEF chunk
<1> HIDE DEF c
<1>6. Places'
  <2>1. Begun' = Begun
    BY <1>1, <1>3, <1>4 DEF Begun
  <2> QED
    BY <1>1, <1>3, <2>1 DEF ListInv, Places, Behind, get_numchunks
<1>7. HashesOfChunks'
  <2>1. \A i \in 1 .. c : IsPadded(hashes'[i], chunk(i - 1))
    BY <1>4 DEF ListInv, HashesOfChunks, c
  <2>2. IsPadded(hashes'[c + 1], chunk(c)) /\ (c + 1) - 1 = c
    BY <1>2, <1>3, <1>4
  <2>3. \A i \in 1 .. c + 1 : i \in 1 .. c \/ i = c + 1
    BY <1>2
  <2>4. \A i \in 1 .. c + 1 : IsPadded(hashes'[i], chunk(i - 1))
    BY <2>1, <2>2, <2>3
  <2> QED
    BY <1>4, <1>5, <2>4 DEF HashesOfChunks, IsPadded, PaddedMessage
<1>8. ListTypes' /\ LinesOfHashes'
  <2>1. listing = <<>>
    BY <1>3 DEF ListInv, Places
  <2> QED
    BY <1>1, <1>2, <1>4, <2>1 DEF ListInv, ListTypes, LinesOfHashes
<1> QED
  BY <1>6, <1>7, <1>8 DEF ListInv

LEMMA ListEnd == ChunksInv /\ ListInv /\ end_of_file => ListInv'
<1> SUFFICES ASSUME ChunksInv, ListInv, end_of_file PROVE ListInv'
  OBVIOUS
<1>1. /\ at = "make_chunks" /\ step = "idle" /\ numbytes = 0 /\ at' = "print"
      /\ UNCHANGED <<file, pos, numchunks, hashes, listing, step, piece>>
  BY DEF end_of_file, sha
<1>2. file \in Files /\ Len(file) \in Nat /\ pos \in Nat /\ pos <= Len(file)
  BY <1>1, FilesAssumption DEF ChunksInv, MainInv
<1>3. pos = Len(file)
  BY <1>1, <1>2, ChunkAssumption DEF numbytes
<1>4. Behind(Len(hashes))
  BY <1>1 DEF ListInv, Places, Begun
<1>5. Behind(Len(hashes))'
  BY <1>1, <1>4 DEF Behind
<1>6. Places'
  BY <1>1, <1>3, <1>5 DEF Places
<1>7. ListTypes' /\ HashesOfChunks' /\ LinesOfHashes'
  BY <1>1 DEF ListInv, ListTypes, HashesOfChunks, LinesOfHashes, chunk
<1> QED
  BY <1>6, <1>7 DEF ListInv

LEMMA ListPrint == ListInv /\ print_hash => ListInv'
<1> SUFFICES ASSUME ListInv, print_hash PROVE ListInv'
  OBVIOUS
<1> DEFINE i == Len(listing)  line == <<i, binary2hex(hashes[i + 1])>>
<1>1. /\ at = "print" /\ i < Len(hashes) /\ listing' = Append(listing, line)
      /\ UNCHANGED <<file, pos, numchunks, hashes, at, step, piece>>
  BY DEF print_hash, sha
<1>2. /\ hashes \in Seq(Seq(Byte)) /\ listing \in Seq(Nat \X Seq(Byte))
      /\ i \in Nat /\ Len(hashes) \in Nat
  BY DEF ListInv, ListTypes
<1>3. hashes[i + 1] \in Seq(Byte)
  BY <1>1, <1>2
<1>4. line \in Nat \X Seq(Byte)
  BY <1>2, <1>3, DigitBytes
<1> HIDE DEF line
<1>5. /\ listing' \in Seq(Nat \X Seq(Byte)) /\ Len(listing') = i + 1
      /\ listing'[i + 1] = line
      /\ \A j \in 1 .. i : listing'[j] = listing[j]
  BY <1>1, <1>2, <1>4
<1> HIDE DEF i
<1>6. Places'
  BY <1>1 DEF ListInv, Places, Behind
<1>7. ListTypes' /\ HashesOfChunks'
  BY <1>1, <1>5 DEF ListInv, ListTypes, HashesOfChunks, chunk
<1>8. LinesOfHashes'
  <2>1. \A j \in 1 .. i : listing'[j] = <<j - 1, binary2hex(hashes[j])>>
    BY <1>5 DEF ListInv, LinesOfHashes, i
  <2>2. listing'[i + 1] = <<(i + 1) - 1, binary2hex(hashes[i + 1])>>
    <3>1. (i + 1) - 1 = i
      BY <1>2
    <3> QED
      BY <1>5, <3>1 DEF line
  <2>3. \A j \in 1 .. i + 1 : j \in 1 .. i \/ j = i + 1
    BY <1>2
  <2>4. i + 1 <= Len(hashes)
    BY <1>1, <1>2
  <2>5. \A j \in 1 .. i + 1 : listing'[j] = <<j - 1, binary2hex(hashes[j])>>
    BY <2>1, <2>2, <2>3
  <2> QED
    BY <1>1, <1>5, <2>4, <2>5 DEF LinesOfHashes
<1> QED
  BY <1>6, <1>7, <1>8 DEF ListInv

LEMMA ListReturn == ListInv /\ (return \/ UNCHANGED vars) => ListInv'
<1> SUFFICES ASSUME ListInv, return \/ UNCHANGED vars PROVE ListInv'
  OBVIOUS
<1>1. /\ UNCHANGED <<file, pos, numchunks, hashes, listing, step, piece>>
      /\ \/ at' = at
         \/ at = "print" /\ at' = "done" /\ Len(listing) = Len(hashes)
  BY DEF return, vars, main, sha
<1>2. Behind(Begun)' = Behind(Begun) /\ Behind(Len(hashes))' = Behind(Len(hashes))
  BY <1>1 DEF Behind, Begun
<1>3. Places'
  <2>1. CASE at' = at
    BY <1>1, <1>2, <2>1 DEF ListInv, Places, chunk, get_numchunks
  <2>2. CASE at = "print" /\ at' = "done" /\ Len(listing) = Len(hashes)
    BY <1>1, <1>2, <2>2 DEF ListInv, Places
  <2> QED
    BY <1>1, <2>1, <2>2
<1>4. ListTypes' /\ HashesOfChunks' /\ LinesOfHashes'
  BY <1>1 DEF ListInv, ListTypes, HashesOfChunks, LinesOfHashes, chunk
<1> QED
  BY <1>3, <1>4 DEF ListInv

-----------------------------------------------------------------------------
(* As many chunks are read as main counted in the file's size.             *)
LEMMA SlotsForAll == ChunksInv /\ ListInv => SlotsSuffice
<1> SUFFICES ASSUME ChunksInv, ListInv, at = "make_chunks" PROVE Len(hashes) <= numchunks
  BY DEF SlotsSuffice
<1> DEFINE c == Len(hashes)  l == Len(file)
<1>1. file \in Files /\ l \in Nat /\ c \in Nat
  BY FilesAssumption DEF ChunksInv, MainInv, ListInv, ListTypes
<1>2. numchunks = (l + ChunkSize - 1) \div ChunkSize /\ Behind(Begun)
  BY DEF ListInv, Places, get_numchunks
<1>3. Begun \in {c, c + 1}
  BY DEF Begun
<1> HIDE DEF c, l
<1>4. CASE c = 0
  <2>1. (l + ChunkSize - 1) \div ChunkSize \in Nat
    <3>1. l + ChunkSize - 1 \in Nat /\ ChunkSize \in Nat /\ 0 < ChunkSize
      BY <1>1, ChunkAssumption
    <3> QED
      BY <3>1
  <2> QED
    BY <1>2, <1>4, <2>1 DEF c
<1>5. CASE c # 0
  <2>1. Begun > 0 /\ Begun - 1 \in Nat /\ c - 1 \in Nat /\ c - 1 <= Begun - 1
    BY <1>1, <1>3, <1>5
  <2>2. Offset(ChunkSize, Begun - 1) < l
    BY <1>2, <2>1 DEF Behind, l
  <2>3. /\ Offset(ChunkSize, c - 1) <= Offset(ChunkSize, Begun - 1)
        /\ Offset(ChunkSize, c - 1) \in Nat /\ Offset(ChunkSize, Begun - 1) \in Nat
    BY <2>1, ChunkOffsets
  <2>4. Offset(ChunkSize, c - 1) < l
    BY <1>1, <2>2, <2>3
  <2>5. (c - 1) + 1 <= (l + ChunkSize - 1) \div ChunkSize
    BY <1>1, <2>1, <2>4, RoundedUp, ChunkAssumption
  <2>6. (c - 1) + 1 = c
    BY <1>1
  <2> QED
    BY <1>2, <2>5, <2>6 DEF c
<1> QED
  BY <1>4, <1>5

(* The lines printed are those of the file's chunks.                       *)
LEMMA ListingOfFile == ChunksInv /\ ListInv => ListingIsFile
<1> SUFFICES ASSUME ChunksInv, ListInv, at = "done"
             PROVE  /\ ChunkSize * Len(listing) \in Len(file) .. Len(file) + ChunkSize - 1
                    /\ \A i \in DOMAIN listing :
                          /\ listing[i][1] = i - 1
                          /\ IsPadded(hex2binary(listing[i][2]), chunk(i - 1))
  BY DEF ListingIsFile
<1> DEFINE c == Len(hashes)  l == Len(file)  all == Offset(ChunkSize, c)
<1>1. /\ file \in Files /\ l \in Nat /\ c \in Nat
      /\ hashes \in Seq(Seq(Byte)) /\ listing \in Seq(Nat \X Seq(Byte))
  BY FilesAssumption DEF ChunksInv, MainInv, ListInv, ListTypes
<1>2. Len(listing) = c /\ Behind(c) /\ pos = l
  BY DEF ListInv, Places
<1>3. ChunkSize * Len(listing) = all
  BY <1>2 DEF Offset
<1>4. all \in l .. l + ChunkSize - 1
  <2>1. all \in Nat /\ ChunkSize \in Nat /\ ChunkSize > 0
    BY <1>1, ChunkOffsets, ChunkAssumption
  <2>2. l = IF all < l THEN all ELSE l
    BY <1>2 DEF Behind
  <2>3. c > 0 => Offset(ChunkSize, c - 1) < l
    BY <1>2 DEF Behind
  <2> HIDE DEF c, l, all
  <2>4. all >= l
    BY <1>1, <2>1, <2>2
  <2>5. CASE c = 0
    <3>1. all = 0
      BY <2>5, ChunkOffsets DEF all
    <3> QED
      BY <1>1, <2>1, <2>4, <3>1
  <2>6. CASE c # 0
    <3>1. c > 0 /\ c - 1 \in Nat /\ (c - 1) + 1 = c
      BY <1>1, <2>6
    <3>2. /\ Offset(ChunkSize, (c - 1) + 1) = Offset(ChunkSize, c - 1) + ChunkSize
          /\ Offset(ChunkSize, c - 1) \in Nat
      BY <3>1, ChunkOffsets
    <3>3. all = Offset(ChunkSize, c - 1) + ChunkSize
      BY <3>1, <3>2 DEF all
    <3> QED
      BY <1>1, <2>1, <2>3, <2>4, <3>1, <3>2, <3>3
  <2> QED
    BY <2>5, <2>6
<1>5. ASSUME NEW i \in DOMAIN listing
      PROVE  listing[i][1] = i - 1 /\ IsPadded(hex2binary(listing[i][2]), chunk(i - 1))
  <2>1. i \in 1 .. Len(listing) /\ i \in 1 .. Len(hashes)
    BY <1>1, <1>2, <1>5
  <2>2. listing[i] = <<i - 1, binary2hex(hashes[i])>>
    BY <2>1 DEF ListInv, LinesOfHashes
  <2>3. hex2binary(binary2hex(hashes[i])) = hashes[i]
    <3>1. hashes[i] \in Seq(Byte)
      BY <1>1, <2>1
    <3> QED
      BY <3>1, HexRoundTrip
  <2>4. IsPadded(hashes[i], chunk(i - 1))
    BY <2>1 DEF ListInv, HashesOfChunks
  <2>5. listing[i][1] = i - 1 /\ listing[i][2] = binary2hex(hashes[i])
    BY <2>2
  <2> QED
    BY <2>3, <2>4, <2>5
<1> QED
  BY <1>3, <1>4, <1>5 DEF l

LEMMA ListingStep == ChunksInv /\ ListInv /\ [Next]_vars => ChunksInv' /\ ListInv'
<1> SUFFICES ASSUME ChunksInv, ListInv, [Next]_vars PROVE ChunksInv' /\ ListInv'
  OBVIOUS
<1>1. ChunksInv'
  BY ChunksStep
<1>2. ListInv'
  BY ListAllocate, ListRead, ListHash, ListStore, ListEnd, ListPrint, ListReturn
  DEF Next
<1> QED
  BY <1>1, <1>2

(* For every file and chunk size: make_chunks stores no hash behind the    *)
(* slots main allocated, and when the program ends it has printed, in      *)
(* order, digits from which a peer reads back the hash of every chunk, and *)
(* the chunks are the whole file.                                          *)
THEOREM PrintsTheFile == Spec => []SlotsSuffice /\ []ListingIsFile
<1>1. Init => ChunksInv /\ ListInv
  BY InitInv, ListInit
<1>2. ChunksInv /\ ListInv /\ [Next]_vars => ChunksInv' /\ ListInv'
  BY ListingStep
<1>3. ChunksInv /\ ListInv => SlotsSuffice /\ ListingIsFile
  BY SlotsForAll, ListingOfFile
<1> QED
  BY <1>1, <1>2, <1>3, PTL DEF Spec
-----------------------------------------------------------------------------
LEMMA SlotsCounted ==
    ASSUME ChunksInv, numchunks \in Nat, [Next]_vars
    PROVE  numchunks' \in Nat
<1>1. CASE allocate /\ file # NoFile
  <2>1. file \in Files /\ Len(file) \in Nat
    BY <1>1, FilesAssumption DEF ChunksInv, MainInv
  <2>2. Len(file) + ChunkSize - 1 \in Nat /\ ChunkSize \in Nat /\ 0 < ChunkSize
    BY <2>1, ChunkAssumption
  <2>3. get_numchunks(file) \in Nat
    BY <2>2 DEF get_numchunks
  <2> QED
    BY <1>1, <2>3 DEF allocate
<1>2. CASE numchunks' = numchunks
  BY <1>2
<1> QED
  BY <1>1, <1>2
  DEF Next, allocate, read_chunk, hash_chunk, store_hash, end_of_file,
      print_hash, return, vars, main

(* Whatever the file and the sizes, SHA1Update never leaves a whole block  *)
(* in the buffer, so that SHA1Final and the copy loop do not count below 0 *)
(* or beyond the block.                                                    *)
THEOREM ChunksTyped == Spec => []ChunksTypeOK
<1> DEFINE Inv == ChunksInv /\ ListInv /\ numchunks \in Nat
<1>1. Init => Inv
  BY InitInv, ListInit DEF Init
<1>2. Inv /\ [Next]_vars => Inv'
  BY ListingStep, SlotsCounted
<1>3. Inv => ChunksTypeOK
  BY DEF ChunksInv, ShaInv, ShaTypes, MainInv, ListInv, ListTypes, ChunksTypeOK
<1> HIDE DEF Inv
<1> QED
  BY <1>1, <1>2, <1>3, PTL DEF Spec
=============================================================================
