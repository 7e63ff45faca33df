----------------------------- MODULE LoopProofs ------------------------------
(***************************************************************************)
(* The lines of a terminal, for every size of the buffer, and the event    *)
(* loop, for every buffer, user and resolution of the clock: the timeouts  *)
(* it computes are sound, so after the first one select() is never refused *)
(* its timeout and recvfrom() is entered only with a packet there.         *)
(***************************************************************************)
EXTENDS EventLoop, SequenceTheorems, TLAPS

USE ByteAssumption, BufSizeAssumption

(* What the thread's part of the work on the input may find: the bytes     *)
(* counted are bytes of the stream, and the only newline in the whole      *)
(* buffer, old bytes included, is the one that was just read.              *)
InputInv ==
    /\ InputTypeOK
    /\ \A i \in 1 .. Len(stdin) - 1 : stdin[i] # Newline
    /\ \A i \in 0 .. cur - 1 : buf[i] # Nul
    /\ \A i \in 0 .. BufSize :
          buf[i] = Newline => at = "lines" /\ i = cur - 1
    /\ at = "exited" => TooLong

-----------------------------------------------------------------------------
(* The buffer starts empty.                                                *)
LEMMA InputInitInv == InputInit /\ at # "exited" => InputInv
<1>1. SUFFICES ASSUME InputInit, at # "exited" PROVE InputInv
  OBVIOUS
<1>2. buf = [i \in 0 .. BufSize |-> Nul] /\ cur = 0 /\ line = <<>>
      /\ stdin = <<>> /\ eof = FALSE
  BY <1>1 DEF InputInit
<1>3. <<>> \in Seq(Text) /\ <<>> \in Seq(Byte) /\ Len(stdin) = 0
  BY <1>2
<1>4. InputTypeOK
  BY <1>2, <1>3 DEF InputTypeOK, Byte
<1> QED
  BY <1>1, <1>2, <1>3, <1>4 DEF InputInv, Byte

(* A line typed, or the stream closed, is not in the buffer yet.           *)
LEMMA UserInv ==
    ASSUME ReadsEndWithLine, InputInv, type_piece \/ close_stdin
    PROVE  InputInv'
<1>1. stdin' \in Seq(Byte) /\ \A i \in 1 .. Len(stdin') - 1 : stdin'[i] # Newline
  BY PiecesAssumption
     DEF ReadsEndWithLine, InputInv, InputTypeOK, type_piece, close_stdin
<1>2. UNCHANGED <<buf, cur, line, at>> /\ eof' \in BOOLEAN
  BY DEF type_piece, close_stdin, InputInv, InputTypeOK
<1> QED
  BY <1>1, <1>2 DEF InputInv, InputTypeOK, TooLong

(* What read() returns goes behind the bytes counted, and fits.            *)
LEMMA ReadInv ==
    ASSUME InputInv, read_bytes
    PROVE  /\ InputInv'
           /\ cur' \in cur .. BufSize
           /\ \A i \in 0 .. cur - 1 : buf'[i] = buf[i]
<1> DEFINE n == taken
<1>1. cur \in 0 .. BufSize - 2 /\ stdin \in Seq(Byte) /\ Len(stdin) \in Nat
  BY DEF InputInv, InputTypeOK, read_bytes, TooLong
<1>2. n \in 0 .. BufSize - cur /\ n <= Len(stdin)
  BY <1>1 DEF taken, room
<1>3. /\ buf' = [i \in 0 .. BufSize |->
                    IF i \in cur .. cur + n - 1 THEN stdin[i - cur + 1] ELSE buf[i]]
      /\ cur' = cur + n
      /\ stdin' = SubSeq(stdin, n + 1, Len(stdin))
      /\ at' = "lines" /\ UNCHANGED <<line, eof>>
  BY DEF read_bytes
<1> HIDE DEF n
<1>4. \A j \in 1 .. Len(stdin) : stdin[j] \in Byte
  BY <1>1
<1>5. \A i \in cur .. cur + n - 1 : i - cur + 1 \in 1 .. Len(stdin)
  BY <1>1, <1>2
<1>6. \A i \in cur .. cur + n - 1 :
          /\ stdin[i - cur + 1] \in Byte
          /\ stdin[i - cur + 1] = Newline => i = cur + n - 1
  <2>1. TAKE i \in cur .. cur + n - 1
  <2>2. stdin[i - cur + 1] = Newline => i - cur + 1 >= Len(stdin)
    BY <1>1, <1>2, <2>1 DEF InputInv
  <2> QED
    BY <1>1, <1>2, <1>4, <1>5, <2>1, <2>2
<1>7. /\ stdin' \in Seq(Byte)
      /\ Len(stdin') = Len(stdin) - n
      /\ \A i \in 1 .. Len(stdin') : stdin'[i] = stdin[i + n]
  <2>1. \A i \in n + 1 .. Len(stdin) : stdin[i] \in Byte
    BY <1>1, <1>2, <1>4
  <2>2. Len(stdin) \in Nat /\ n \in Nat
    BY <1>1, <1>2
  <2> QED
    BY <1>2, <1>3, <2>1, <2>2, SubSeqProperties
<1>8. \A i \in 1 .. Len(stdin') - 1 : stdin'[i] # Newline
  BY <1>1, <1>2, <1>7 DEF InputInv
<1>9. buf' \in [0 .. BufSize -> Byte \cup {Nul}] /\ buf'[BufSize] = Nul
  <2>1. buf \in [0 .. BufSize -> Byte \cup {Nul}] /\ buf[BufSize] = Nul
    BY DEF InputInv, InputTypeOK
  <2> QED
    BY <1>1, <1>2, <1>3, <1>6, <2>1
<1>10. \A i \in 0 .. cur' - 1 : buf'[i] # Nul
  BY <1>1, <1>2, <1>3, <1>6 DEF InputInv, Byte
<1>11. \A i \in 0 .. BufSize : buf'[i] = Newline => i = cur' - 1
  BY <1>1, <1>2, <1>3, <1>6 DEF InputInv, read_bytes
<1>12. cur' \in cur .. BufSize
  BY <1>1, <1>2, <1>3
<1>13. \A i \in 0 .. cur - 1 : buf'[i] = buf[i]
  BY <1>1, <1>2, <1>3
<1>14. InputTypeOK'
  BY <1>1, <1>3, <1>7, <1>9, <1>12 DEF InputInv, InputTypeOK
<1> QED
  BY <1>3, <1>8, <1>10, <1>11, <1>12, <1>13, <1>14 DEF InputInv

(* A line handed out is all that was buffered, without its newline: no old *)
(* byte behind it comes into play, and the buffer is empty again.          *)
LEMMA HandInv ==
    ASSUME InputInv, hand_line
    PROVE  /\ InputInv'
           /\ cur \in 1 .. BufSize /\ buf[cur - 1] = Newline /\ cur' = 0
           /\ line' = [i \in 1 .. cur - 1 |-> buf[i - 1]]
<1>1. PICK k \in 0 .. BufSize :
          /\ IsNewlineAt(k)
          /\ line' = [i \in 1 .. k |-> buf[i - 1]]
          /\ buf' = shifted(k)
          /\ cur' = (cur - consumed(k)) % CurMod
  BY DEF hand_line
<1>2. buf[k] = Newline /\ k = cur - 1 /\ cur \in 1 .. BufSize
  BY <1>1 DEF IsNewlineAt, InputInv, InputTypeOK
<1>3. cur' = 0
  <2>1. cur - consumed(k) = 0 /\ CurMod \in Nat \ {0}
    BY <1>2 DEF consumed
  <2> QED
    BY <1>1, <2>1
<1>4. /\ buf \in [0 .. BufSize -> Byte \cup {Nul}]
      /\ buf[BufSize] = Nul
      /\ \A i \in 0 .. BufSize : i # k => buf[i] # Newline
  BY <1>2 DEF InputInv, InputTypeOK
<1>5. buf' = [i \in 0 .. BufSize |->
                 IF i < BufSize - k THEN buf[i + k + 1]
                 ELSE IF i = k THEN Nul ELSE buf[i]]
  BY <1>1 DEF shifted
<1>6. \A i \in 0 .. BufSize : i < BufSize - k => i + k + 1 \in 0 .. BufSize /\ i + k + 1 # k
  BY <1>2
<1>7. \A i \in 0 .. BufSize :
          buf'[i] \in Byte \cup {Nul} /\ buf'[i] # Newline
  BY <1>4, <1>5, <1>6 DEF Byte
<1>8. buf'[BufSize] = Nul
  BY <1>2, <1>4, <1>5
<1>9. line' \in Seq(Text)
  <2>1. \A i \in 1 .. k : buf[i - 1] \in Text
    BY <1>2, <1>4 DEF InputInv, Byte
  <2>2. k \in Nat
    OBVIOUS
  <2> QED
    BY <1>1, <2>1, <2>2
<1>10. UNCHANGED <<stdin, eof, at>> /\ at = "lines"
  BY DEF hand_line
<1>11. InputTypeOK'
  BY <1>3, <1>5, <1>7, <1>8, <1>9, <1>10 DEF InputInv, InputTypeOK
<1> QED
  BY <1>1, <1>2, <1>3, <1>7, <1>10, <1>11 DEF InputInv

(* When strchr() finds nothing more, there is no newline at all.           *)
LEMMA DoneInv ==
    ASSUME InputInv, lines_done
    PROVE  InputInv' /\ UNCHANGED input
<1>1. /\ UNCHANGED input /\ at' = "timer"
      /\ \A k \in 0 .. BufSize : ~IsNewlineAt(k)
  BY DEF lines_done
<1>2. \A i \in 0 .. BufSize : buf[i] # Newline
  <2>1. SUFFICES ASSUME NEW i \in 0 .. BufSize, buf[i] = Newline PROVE FALSE
    OBVIOUS
  <2>2. i = cur - 1
    BY <2>1 DEF InputInv
  <2>3. \A j \in 0 .. i - 1 : buf[j] # Nul /\ buf[j] # Newline
    BY <2>1, <2>2 DEF InputInv, InputTypeOK
  <2> QED
    BY <1>1, <2>1, <2>3 DEF IsNewlineAt
<1> QED
  BY <1>1, <1>2 DEF InputInv, InputTypeOK, input, TooLong

(* The program exits where it stood: with no newline and no more room.     *)
LEMMA FullInv ==
    ASSUME InputInv, buffer_full
    PROVE  InputInv' /\ UNCHANGED input
BY DEF InputInv, InputTypeOK, buffer_full, input, TooLong

(* Whatever else the program does between two calls.                       *)
LEMMA ElsewhereInv ==
    ASSUME InputInv, UNCHANGED input, at # "lines", at' # "exited" \/ at' = at
    PROVE  InputInv'
BY DEF InputInv, InputTypeOK, input, TooLong

-----------------------------------------------------------------------------
(* How the steps look to a reader of lines, who sees what is due and the   *)
(* last line.                                                              *)
LEMMA FirstBytes ==
    ASSUME NEW n \in Nat, NEW f, \A j \in 0 .. n - 1 : f[j] \in Byte
    PROVE  LET s == [i \in 1 .. n |-> f[i - 1]]
           IN  s \in Seq(Byte) /\ Len(s) = n /\ \A i \in 1 .. n : s[i] = f[i - 1]
OBVIOUS

BufferedIsCounted ==
    /\ Buffered \in Seq(Byte) /\ Len(Buffered) = cur
    /\ \A i \in 1 .. cur : Buffered[i] = buf[i - 1]

LEMMA BufferedProperties == InputInv => BufferedIsCounted
<1> SUFFICES ASSUME InputInv PROVE BufferedIsCounted
  OBVIOUS
<1>1. cur \in 0 .. BufSize /\ Buffered = [i \in 1 .. cur |-> buf[i - 1]]
  BY DEF InputInv, InputTypeOK, Buffered
<1>2. cur \in Nat /\ \A j \in 0 .. cur - 1 : buf[j] \in Byte
  BY <1>1 DEF InputInv, InputTypeOK
<1> QED
  BY <1>1, <1>2, FirstBytes DEF BufferedIsCounted

(* Reading extends what is due, and only when no whole line is.            *)
LEMMA ReadReads == InputInv /\ read_bytes => Reader!Read
<1>1. SUFFICES ASSUME InputInv, read_bytes PROVE Reader!Read
  OBVIOUS
<1>2. /\ InputInv' /\ cur' \in cur .. BufSize
      /\ \A i \in 0 .. cur - 1 : buf'[i] = buf[i]
  BY <1>1, ReadInv
<1>3. /\ Buffered \in Seq(Byte) /\ Len(Buffered) = cur
      /\ \A i \in 1 .. cur : Buffered[i] = buf[i - 1]
  BY <1>1, BufferedProperties DEF BufferedIsCounted
<1>4. /\ Buffered' \in Seq(Byte) /\ Len(Buffered') = cur'
      /\ \A i \in 1 .. cur' : Buffered'[i] = buf'[i - 1]
  <2>1. InputInv' => BufferedIsCounted'
    BY BufferedProperties, PTL
  <2> QED
    BY <1>2, <2>1 DEF BufferedIsCounted
<1>5. cur \in 0 .. BufSize
  BY <1>1 DEF InputInv, InputTypeOK
<1>6. \A i \in DOMAIN Buffered : Buffered[i] # Newline
  <2>1. at # "lines"
    BY <1>1 DEF read_bytes
  <2>2. \A i \in 0 .. BufSize : buf[i] # Newline
    BY <1>1, <2>1 DEF InputInv
  <2>3. \A i \in 1 .. cur : buf[i - 1] # Newline
    BY <1>5, <2>2
  <2>4. DOMAIN Buffered = 1 .. cur
    BY <1>3
  <2> QED
    BY <1>3, <2>3, <2>4
<1>7. SubSeq(Buffered', 1, Len(Buffered)) = Buffered
  <2>1. \A i \in 1 .. cur : Buffered'[i] = Buffered[i]
    <3>1. TAKE i \in 1 .. cur
    <3>2. i \in 1 .. cur' /\ i - 1 \in 0 .. cur - 1
      BY <1>2, <1>5, <3>1
    <3> QED
      BY <1>2, <1>3, <1>4, <3>1, <3>2
  <2>2. SubSeq(Buffered', 1, cur) = [i \in 1 .. cur |-> Buffered'[i]]
    BY <1>2, <1>4, <1>5
  <2>3. Buffered = [i \in 1 .. cur |-> Buffered[i]]
    BY <1>3, <1>5
  <2> QED
    BY <1>3, <2>1, <2>2, <2>3
<1>8. UNCHANGED line
  BY <1>1 DEF read_bytes
<1> QED
  BY <1>2, <1>3, <1>4, <1>5, <1>6, <1>7, <1>8 DEF Reader!Read

(* Handing out hands out the line that is due, and nothing else is.        *)
LEMMA HandHands == InputInv /\ hand_line => Reader!Hand
<1>1. SUFFICES ASSUME InputInv, hand_line PROVE Reader!Hand
  OBVIOUS
<1>2. /\ InputInv'
      /\ cur \in 1 .. BufSize /\ buf[cur - 1] = Newline /\ cur' = 0
      /\ line' = [i \in 1 .. cur - 1 |-> buf[i - 1]]
  BY <1>1, HandInv
<1>3. /\ Buffered \in Seq(Byte) /\ Len(Buffered) = cur
      /\ \A i \in 1 .. cur : Buffered[i] = buf[i - 1]
  BY <1>1, BufferedProperties DEF BufferedIsCounted
<1>4. Buffered' = <<>>
  BY <1>2 DEF Buffered
<1>5. cur \in DOMAIN Buffered /\ Buffered[cur] = Newline
  BY <1>2, <1>3
<1>6. \A i \in 1 .. cur - 1 : Buffered[i] # Newline
  <2>1. TAKE i \in 1 .. cur - 1
  <2>2. Buffered[i] = buf[i - 1] /\ i - 1 \in 0 .. BufSize /\ i - 1 # cur - 1
    BY <1>2, <1>3, <2>1
  <2> QED
    BY <1>1, <2>2 DEF InputInv
<1>7. line' = SubSeq(Buffered, 1, cur - 1)
  <2>1. SubSeq(Buffered, 1, cur - 1) = [i \in 1 .. cur - 1 |-> Buffered[i]]
    BY <1>2, <1>3
  <2> QED
    BY <1>2, <1>3, <2>1
<1>8. Buffered' = SubSeq(Buffered, cur + 1, Len(Buffered))
  BY <1>2, <1>3, <1>4
<1> QED
  BY <1>5, <1>6, <1>7, <1>8 DEF Reader!Hand

(* Every step of process_user_input is one of a reader of lines, or none.  *)
LEMMA InputStep ==
    ASSUME InputInv, process_user_input
    PROVE  InputInv' /\ [Reader!Next]_<<Buffered, line>>
<1>1. CASE buffer_full
  BY <1>1, FullInv DEF input, Buffered
<1>2. CASE read_bytes
  BY <1>2, ReadInv, ReadReads DEF Reader!Next
<1>3. CASE hand_line
  BY <1>3, HandInv, HandHands DEF Reader!Next
<1>4. CASE lines_done
  BY <1>4, DoneInv DEF input, Buffered
<1> QED
  BY <1>1, <1>2, <1>3, <1>4 DEF process_user_input

(* A step in which the buffer does not change is none to the reader.       *)
LEMMA UserStep ==
    ASSUME ReadsEndWithLine, InputInv, type_piece \/ close_stdin
    PROVE  InputInv' /\ UNCHANGED <<Buffered, line>>
BY UserInv DEF type_piece, close_stdin, Buffered

LEMMA ElsewhereStep ==
    ASSUME InputInv, UNCHANGED input, at # "lines", at' # "exited" \/ at' = at
    PROVE  InputInv' /\ UNCHANGED <<Buffered, line>>
BY ElsewhereInv DEF input, Buffered

LEMMA StillStep ==
    ASSUME InputInv, UNCHANGED <<input, at>>
    PROVE  InputInv' /\ UNCHANGED <<Buffered, line>>
BY DEF InputInv, InputTypeOK, TooLong, input, Buffered

LEMMA ReaderInit == InputInit => Reader!Init
BY DEF InputInit, Buffered, Reader!Init

(* What the invariant says of the checked properties.                      *)
LEMMA InvImplies == InputInv => InputTypeOK /\ ExitMeansLongLine
<1>1. SUFFICES ASSUME InputInv PROVE ExitMeansLongLine
  BY DEF InputInv
<1>2. Len(Buffered) = cur /\ \A i \in 1 .. cur : Buffered[i] = buf[i - 1]
  BY <1>1, BufferedProperties DEF BufferedIsCounted
<1>3. cur \in 0 .. BufSize /\ DOMAIN Buffered = 1 .. cur
  BY <1>1 DEF InputInv, InputTypeOK, Buffered
<1> QED
  BY <1>1, <1>2, <1>3 DEF ExitMeansLongLine, InputInv, TooLong

-----------------------------------------------------------------------------
(* test_input_buffer.c, reading from a terminal, for every size of the     *)
(* buffer, every line and every way the lines are cut into reads: the      *)
(* count never passes the buffer nor wraps, and every line comes out once, *)
(* whole and in order, which is what LineReader promises.                  *)
THEOREM LinesAsTyped ==
    ASSUME ReadsEndWithLine
    PROVE  Spec => []InputTypeOK /\ []ExitMeansLongLine /\ ReadsLines
<1>1. Init => InputInv /\ Reader!Init
  BY InputInitInv, ReaderInit DEF Init
<1>2. InputInv /\ [Next]_<<input, at>>
          => InputInv' /\ [Reader!Next]_<<Buffered, line>>
  <2>1. SUFFICES ASSUME InputInv, [Next]_<<input, at>>
                 PROVE  InputInv' /\ [Reader!Next]_<<Buffered, line>>
    OBVIOUS
  <2>2. CASE type_piece \/ close_stdin
    BY <2>1, <2>2, UserStep
  <2>3. CASE process_user_input
    BY <2>1, <2>3, InputStep
  <2>4. CASE again
    BY <2>1, <2>4, ElsewhereStep DEF again
  <2>5. CASE UNCHANGED <<input, at>>
    BY <2>1, <2>5, StillStep
  <2> QED
    BY <2>1, <2>2, <2>3, <2>4, <2>5 DEF Next
<1>3. InputInv => InputTypeOK /\ ExitMeansLongLine
  BY InvImplies
<1> QED
  BY <1>1, <1>2, <1>3, PTL DEF Spec, ReadsLines, Reader!Spec, Reader!State

-----------------------------------------------------------------------------
(* The loop around it.                                                     *)

USE SecondAssumption, MaxSecsAssumption

(* What the theorems assume of the platform and of the user: select()      *)
(* carries the seconds in tv_usec, the clock does not tick between the two *)
(* gettimeofday() calls of a retransmission, and stdin is a terminal.      *)
Platform == Carries = TRUE /\ Straddles = FALSE /\ ReadsEndWithLine

(* A timeout that ends when the 500 ms are over, or before.                *)
Sound(tv) == ~Refused(tv) /\ Ticks(tv) \in 0 .. Half

LoopTypes ==
    /\ at \in {"select", "recv", "sleep", "read", "lines", "timer",
               "exited", "crashed"}
    /\ usec \in 0 .. Second - 1
    /\ sent \in [done : BOOLEAN, secs : 0 .. MaxSecs, usec : 0 .. Second - 1]
    /\ next_tv \in [sec : Int, usec : Int]
    /\ inbox \in Seq(Packets)
    /\ readfds \subseteq Watched \cup Strays
    /\ nfds \in {-1, 0, 1}
    /\ c \in Packets
    /\ nap \in 0 .. Second

(* The clock does not run behind the time of the last DATA.                *)
ClockInv ==
    /\ sent.secs = 0 => sent.usec <= usec
    /\ ~sent.done => sent.usec = 0

(* The first timeout, as it was set or as select() counts it down.         *)
First(tv) ==
    \/ tv.sec = FirstSeconds
    \/ tv.sec \in Nat /\ tv.usec \in 0 .. Second - 1

(* Before the first GET a pass goes on to the timer only when there was    *)
(* nothing to report, because the first timeout is over, or was refused.   *)
BeforeInv ==
    ~sent.done =>
        /\ First(next_tv)
        /\ \A i \in 1 .. Len(inbox) : inbox[i] # "ACK"
        /\ c \in {"WHOHAS", "IHAVE", "DATA"}
        /\ at # "select" =>
              nfds = 1 \/ Ticks(next_tv) = 0 \/ Refused(next_tv)
        /\ at = "crashed" => nfds # 1

(* From then on it is sound, or this pass is going to compute it.          *)
AfterInv ==
    sent.done =>
        /\ at # "crashed"
        /\ \/ Sound(next_tv)
           \/ at \in {"read", "lines", "timer", "exited"} /\ c \in {"GET", "ACK"}

(* What select() reported is still there, unless it reported an error.     *)
ReadyInv ==
    /\ at = "recv" /\ "sock" \in readfds => inbox # <<>> \/ FirstRefused
    /\ at \in {"recv", "sleep"} /\ "stdin" \in readfds
          => stdin # <<>> \/ eof \/ FirstRefused
    /\ at = "read" => stdin # <<>> \/ eof \/ FirstRefused

LoopInv ==
    /\ InputInv /\ LoopTypes /\ ClockInv /\ BeforeInv /\ AfterInv /\ ReadyInv

-----------------------------------------------------------------------------
(* Division, as far as the timeouts need it.                               *)
LEMMA Division ==
    /\ \A u \in 0 .. Second - 1 : u \div Second = 0 /\ u % Second = u
    /\ \A u \in Second .. 2 * Second - 1 : u \div Second = 1
    /\ \A u \in Nat : /\ u \div Second \in Nat
                       /\ u - Second * (u \div Second) \in 0 .. Second - 1
<1>1. \A u \in 0 .. Second - 1 : u \div Second = 0
  OBVIOUS
<1>2. \A u \in 0 .. Second - 1 : u % Second = u
  OBVIOUS
<1>3. \A u \in Second .. 2 * Second - 1 : u \div Second = 1
  OBVIOUS
<1>4. \A u \in Nat : u \div Second \in Nat
  OBVIOUS
<1>5. \A u \in Nat : u - Second * (u \div Second) \in 0 .. Second - 1
  OBVIOUS
<1> QED
  BY <1>1, <1>2, <1>3, <1>4, <1>5

LEMMA Halves == Half \in Nat /\ Second = 2 * Half /\ Half < Second
BY DEF Half

(* The three shapes a timeout has: of less than a second, with a second    *)
(* too many in one field and one too few in the other, and the first one.  *)
LEMMA ShortTimeout ==
    ASSUME Carries = TRUE, NEW u \in 0 .. Half
    PROVE  Sound([sec |-> 0, usec |-> u])
<1> DEFINE tv == [sec |-> 0, usec |-> u]
<1>1. u \in 0 .. Second - 1 /\ u \in Nat
  BY Halves
<1>2. whole_seconds(u) = 0
  <2>1. u \div Second = 0
    BY <1>1, Division
  <2> QED
    BY <1>1, <2>1 DEF whole_seconds
<1>3. kernel_tv(tv) = [sec |-> 0, usec |-> u]
  BY <1>1, <1>2 DEF kernel_tv
<1>4. ~Refused(tv)
  BY <1>1, <1>3 DEF Refused
<1>5. Ticks(tv) = u
  BY <1>1 DEF Ticks
<1> QED
  BY <1>4, <1>5 DEF Sound

LEMMA CarriedTimeout ==
    ASSUME Carries = TRUE, NEW u \in Second .. Second + Half
    PROVE  Sound([sec |-> -1, usec |-> u])
<1> DEFINE tv == [sec |-> -1, usec |-> u]
<1>1. u \in Second .. 2 * Second - 1 /\ u \in Nat
  BY Halves
<1>2. whole_seconds(u) = 1
  <2>1. u \div Second = 1
    BY <1>1, Division
  <2> QED
    BY <1>1, <2>1 DEF whole_seconds
<1>3. kernel_tv(tv) = [sec |-> 0, usec |-> u - Second]
  BY <1>1, <1>2 DEF kernel_tv
<1>4. ~Refused(tv)
  BY <1>1, <1>3 DEF Refused
<1>5. Ticks(tv) = u - Second
  BY <1>1 DEF Ticks
<1>6. u - Second \in 0 .. Half
  BY Halves
<1> QED
  BY <1>4, <1>5, <1>6 DEF Sound

(* Only its first value, with a tv_usec nobody wrote, can be refused.      *)
LEMMA FirstTimeout ==
    ASSUME Carries = TRUE, NEW tv \in [sec : Int, usec : Int],
           First(tv), Refused(tv)
    PROVE  tv.sec = FirstSeconds
<1>1. SUFFICES ASSUME tv.sec \in Nat, tv.usec \in 0 .. Second - 1 PROVE FALSE
  BY DEF First
<1>2. tv.usec \div Second = 0 /\ tv.usec >= 0
  BY <1>1, Division
<1>3. whole_seconds(tv.usec) = 0
  BY <1>1, <1>2 DEF whole_seconds
<1>4. kernel_tv(tv).sec = tv.sec /\ kernel_tv(tv).usec = tv.usec
  BY <1>1, <1>3 DEF kernel_tv
<1> QED
  BY <1>1, <1>4 DEF Refused

(* The timeout computed when less than 500 ms have passed since the DATA:  *)
(* the fields are computed apart, yet together they are what is left.      *)
LEMMA NextTimeout ==
    ASSUME Carries = TRUE, LoopTypes, ClockInv, Elapsed <= Half
    PROVE  Sound(timeout_after(sent.secs, usec - sent.usec))
<1>1. /\ usec \in 0 .. Second - 1 /\ sent.usec \in 0 .. Second - 1
      /\ sent.secs \in 0 .. MaxSecs
  BY DEF LoopTypes
<1>2. CASE sent.secs = 0
  <2>1. Half - (usec - sent.usec) \in 0 .. Half
    BY <1>1, <1>2, Halves DEF ClockInv, Elapsed
  <2>2. timeout_after(sent.secs, usec - sent.usec)
            = [sec |-> 0, usec |-> Half - (usec - sent.usec)]
    BY <1>2 DEF timeout_after
  <2> QED
    BY <2>1, <2>2, ShortTimeout
<1>3. CASE sent.secs = 1
  <2>1. Half - (usec - sent.usec) \in Second .. Second + Half
    BY <1>1, <1>3, Halves DEF Elapsed
  <2>2. timeout_after(sent.secs, usec - sent.usec)
            = [sec |-> -1, usec |-> Half - (usec - sent.usec)]
    BY <1>3 DEF timeout_after
  <2> QED
    BY <2>1, <2>2, CarriedTimeout
<1>4. CASE sent.secs >= 2
  <2>1. Second * sent.secs >= Second * 2
    BY <1>1, <1>4
  <2>2. Elapsed > Half
    BY <1>1, <2>1, Halves DEF Elapsed
  <2> QED
    BY <1>1, <2>2, Halves DEF Elapsed
<1> QED
  BY <1>1, <1>2, <1>3, <1>4

-----------------------------------------------------------------------------
(* One lemma per action: each keeps the invariant, and is a step of a      *)
(* reader of lines or none to it.                                          *)
ReaderStep == [Reader!Next]_<<Buffered, line>>

LEMMA InitInv == LoopInit => LoopInv /\ Reader!Init
<1> SUFFICES ASSUME LoopInit PROVE LoopInv /\ Reader!Init
  OBVIOUS
<1>1. InputInv /\ Reader!Init
  BY InputInitInv, ReaderInit DEF LoopInit
<1>2. next_tv \in [sec : Int, usec : Int] /\ next_tv.sec = FirstSeconds
  <2>1. next_tv \in [sec : {FirstSeconds}, usec : Garbage]
    BY DEF LoopInit
  <2>2. {FirstSeconds} \subseteq Int /\ Garbage \subseteq Int
    BY GarbageAssumption, FirstAssumption
  <2> QED
    BY <2>1, <2>2
<1>3. LoopTypes
  <2>1. sent \in [done : BOOLEAN, secs : 0 .. MaxSecs, usec : 0 .. Second - 1]
    BY DEF LoopInit
  <2>2. inbox \in Seq(Packets) /\ c \in Packets
    BY DEF LoopInit, NoPacketYet, Packets
  <2>3. readfds \subseteq Watched \cup Strays
    BY DEF LoopInit
  <2> QED
    BY <1>2, <2>1, <2>2, <2>3 DEF LoopInit, LoopTypes
<1>4. ClockInv /\ AfterInv /\ ReadyInv
  BY DEF LoopInit, ClockInv, AfterInv, ReadyInv
<1>5. BeforeInv
  BY <1>2 DEF LoopInit, BeforeInv, First, NoPacketYet
<1> QED
  BY <1>1, <1>3, <1>4, <1>5 DEF LoopInv

(* select() refuses the first timeout at most, and reports nothing only    *)
(* when the time is over.                                                  *)
LEMMA SelectInv ==
    ASSUME Platform, LoopInv, select PROVE LoopInv' /\ ReaderStep
<1>1. /\ at = "select" /\ at' = "recv"
      /\ UNCHANGED <<input, clock, next_tv, inbox, c, nap>>
      /\ readfds' = IF Refused(next_tv) THEN readfds ELSE Ready
      /\ nfds' = IF Refused(next_tv) THEN -1 ELSE IF Ready # {} THEN 1 ELSE 0
      /\ Refused(next_tv) \/ Ready # {} \/ Ticks(next_tv) = 0
  BY DEF select
<1>2. InputInv' /\ UNCHANGED <<Buffered, line>>
  BY <1>1, ElsewhereStep DEF LoopInv
<1>3. Refused(next_tv) => ~sent.done /\ next_tv.sec = FirstSeconds
  <2>1. SUFFICES ASSUME Refused(next_tv)
                 PROVE  ~sent.done /\ next_tv.sec = FirstSeconds
    OBVIOUS
  <2>2. ~sent.done
    BY <1>1, <2>1 DEF LoopInv, AfterInv, Sound
  <2>3. next_tv \in [sec : Int, usec : Int] /\ First(next_tv)
    BY <2>2 DEF LoopInv, BeforeInv, LoopTypes
  <2> QED
    BY <2>1, <2>2, <2>3, FirstTimeout DEF Platform
<1>4. UNCHANGED <<Refused(next_tv), Ticks(next_tv), First(next_tv)>>
  BY <1>1 DEF Refused, Ticks, First
<1>5. Refused(next_tv) => FirstRefused'
  BY <1>1, <1>3, <1>4 DEF FirstRefused
<1>6. ~Refused(next_tv) =>
          /\ "sock" \in readfds' => inbox # <<>>
          /\ "stdin" \in readfds' => stdin # <<>> \/ eof
  BY <1>1, StraysAssumption DEF Ready
<1>7. LoopTypes'
  <2>1. readfds' \subseteq Watched \cup Strays
    BY <1>1 DEF LoopInv, LoopTypes, Ready, Watched
  <2> QED
    BY <1>1, <2>1 DEF LoopInv, LoopTypes, clock
<1>8. ClockInv'
  BY <1>1 DEF LoopInv, ClockInv, clock
<1>9. ReadyInv'
  BY <1>1, <1>5, <1>6 DEF ReadyInv, input
<1>10. BeforeInv'
  BY <1>1, <1>4 DEF LoopInv, BeforeInv, clock
<1>11. AfterInv'
  BY <1>1, <1>4 DEF LoopInv, AfterInv, Sound, clock
<1> QED
  BY <1>2, <1>7, <1>8, <1>9, <1>10, <1>11 DEF LoopInv, ReaderStep

(* What is left alone between select() and the timer.                      *)
LEMMA PassInv ==
    ASSUME LoopInv, UNCHANGED <<input, clock, next_tv, readfds, nfds, c, nap>>,
           at \in {"recv", "sleep"}, at' = after_socket, UNCHANGED inbox
    PROVE  LoopInv' /\ ReaderStep
<1>1. at' \in {"read", "timer"} /\ (at' = "read" => "stdin" \in readfds)
  BY DEF after_socket
<1>2. InputInv' /\ UNCHANGED <<Buffered, line>>
  BY <1>1, ElsewhereStep DEF LoopInv
<1>3. LoopTypes' /\ ClockInv'
  BY <1>1 DEF LoopInv, LoopTypes, ClockInv, clock
<1>4. UNCHANGED <<Refused(next_tv), Ticks(next_tv), First(next_tv), FirstRefused>>
  BY DEF Refused, Ticks, First, FirstRefused
<1>5. BeforeInv'
  BY <1>1, <1>4 DEF LoopInv, BeforeInv, clock
<1>6. AfterInv'
  BY <1>1, <1>4 DEF LoopInv, AfterInv, clock, Sound
<1>7. ReadyInv'
  BY <1>1, <1>4 DEF LoopInv, ReadyInv, input
<1> QED
  BY <1>2, <1>3, <1>5, <1>6, <1>7 DEF LoopInv, ReaderStep

LEMMA NoPacketInv ==
    ASSUME LoopInv, no_packet PROVE LoopInv' /\ ReaderStep
BY PassInv DEF no_packet

LEMMA SleepOverInv ==
    ASSUME LoopInv, sleep_over PROVE LoopInv' /\ ReaderStep
BY PassInv DEF sleep_over

(* A pass that sends DATA for the first time goes through the timer.       *)
LEMMA PacketInv ==
    ASSUME LoopInv, process_inbound_udp PROVE LoopInv' /\ ReaderStep
<1>1. /\ at = "recv" /\ "sock" \in readfds
      /\ inbox # <<>> /\ c' = Head(inbox) /\ inbox' = Tail(inbox)
      /\ UNCHANGED <<input, usec, next_tv, readfds, nfds>>
  BY DEF process_inbound_udp
<1>2. \/ /\ c' \in {"GET", "ACK"}
         /\ sent' = [done |-> TRUE, secs |-> 0, usec |-> usec]
      \/ c' # "GET" /\ UNCHANGED sent
  BY DEF process_inbound_udp
<1>3. \/ at' = after_socket /\ UNCHANGED nap
      \/ c' = "DATA" /\ at' = "sleep" /\ nap' = Second
  BY DEF process_inbound_udp
<1>4. /\ at' \in {"read", "timer", "sleep"}
      /\ at' = "read" => "stdin" \in readfds
      /\ at' = "sleep" => c' = "DATA"
  BY <1>3 DEF after_socket
<1>5. InputInv' /\ UNCHANGED <<Buffered, line>>
  BY <1>1, <1>4, ElsewhereStep DEF LoopInv
<1>6. /\ c' \in Packets /\ inbox' \in Seq(Packets) /\ c' = inbox[1] /\ Len(inbox) >= 1
      /\ \A i \in 1 .. Len(inbox') : inbox'[i] = inbox[i + 1] /\ i + 1 \in 1 .. Len(inbox)
  BY <1>1 DEF LoopInv, LoopTypes
<1>7. LoopTypes'
  <2>1. sent' \in [done : BOOLEAN, secs : 0 .. MaxSecs, usec : 0 .. Second - 1]
    <3>1. /\ usec \in 0 .. Second - 1
          /\ sent \in [done : BOOLEAN, secs : 0 .. MaxSecs, usec : 0 .. Second - 1]
      BY DEF LoopInv, LoopTypes
    <3>2. 0 \in 0 .. MaxSecs
      OBVIOUS
    <3>3. [done |-> TRUE, secs |-> 0, usec |-> usec]
              \in [done : BOOLEAN, secs : 0 .. MaxSecs, usec : 0 .. Second - 1]
      BY <3>1, <3>2
    <3> QED
      BY <1>2, <3>1, <3>3
  <2>2. nap' \in 0 .. Second
    BY <1>3 DEF LoopInv, LoopTypes
  <2> QED
    BY <1>1, <1>4, <1>6, <2>1, <2>2 DEF LoopInv, LoopTypes
<1>8. ClockInv'
  BY <1>1, <1>2 DEF LoopInv, LoopTypes, ClockInv
<1>9. UNCHANGED <<Refused(next_tv), Ticks(next_tv), First(next_tv), FirstRefused>>
  BY <1>1 DEF Refused, Ticks, First, FirstRefused
<1>10. BeforeInv'
  <2>1. SUFFICES ASSUME ~sent'.done
        PROVE  /\ \A i \in 1 .. Len(inbox') : inbox'[i] # "ACK"
               /\ c' \in {"WHOHAS", "IHAVE", "DATA"}
               /\ First(next_tv)
               /\ nfds = 1 \/ Ticks(next_tv) = 0 \/ Refused(next_tv)
    BY <1>1, <1>4, <1>9 DEF BeforeInv
  <2>2. c' # "GET" /\ UNCHANGED sent /\ ~sent.done
    BY <1>2, <2>1
  <2>3. /\ inbox[1] # "ACK" /\ First(next_tv)
        /\ nfds = 1 \/ Ticks(next_tv) = 0 \/ Refused(next_tv)
    BY <1>1, <1>6, <2>2 DEF LoopInv, BeforeInv
  <2>4. \A i \in 1 .. Len(inbox') : inbox'[i] # "ACK"
    BY <1>6, <2>2 DEF LoopInv, BeforeInv
  <2> QED
    BY <1>6, <2>2, <2>3, <2>4 DEF Packets
<1>11. AfterInv'
  <2>1. CASE c' \in {"GET", "ACK"}
    BY <1>4, <2>1 DEF AfterInv
  <2>2. CASE c' \notin {"GET", "ACK"}
    <3>1. UNCHANGED sent
      BY <1>2, <2>2
    <3> QED
      BY <1>1, <1>4, <1>9, <3>1 DEF LoopInv, AfterInv, Sound
  <2> QED
    BY <2>1, <2>2
<1>12. ReadyInv'
  BY <1>1, <1>4, <1>9 DEF LoopInv, ReadyInv, input
<1> QED
  BY <1>5, <1>7, <1>8, <1>10, <1>11, <1>12 DEF LoopInv, ReaderStep

LEMMA ReadStdinInv ==
    ASSUME LoopInv, read_stdin PROVE LoopInv' /\ ReaderStep
<1>1. /\ process_user_input
      /\ UNCHANGED <<clock, next_tv, inbox, readfds, nfds, c, nap>>
  BY DEF read_stdin
<1>2. InputInv' /\ ReaderStep
  BY <1>1, InputStep DEF LoopInv, ReaderStep
<1>3. at \in {"read", "lines"} /\ at' \in {"lines", "timer", "exited"}
  BY <1>1 DEF process_user_input, buffer_full, read_bytes, hand_line, lines_done
<1>4. UNCHANGED <<Refused(next_tv), Ticks(next_tv), First(next_tv)>>
  BY <1>1 DEF Refused, Ticks, First
<1>5. LoopTypes' /\ ClockInv' /\ ReadyInv'
  BY <1>1, <1>3 DEF LoopInv, LoopTypes, ClockInv, ReadyInv, clock
<1>6. BeforeInv'
  BY <1>1, <1>3, <1>4 DEF LoopInv, BeforeInv, clock
<1>7. AfterInv'
  BY <1>1, <1>3, <1>4 DEF LoopInv, AfterInv, clock, Sound
<1> QED
  BY <1>2, <1>5, <1>6, <1>7 DEF LoopInv

(* Back to select(): what every pass leaves behind.                        *)
LEMMA AgainInv ==
    ASSUME LoopInv, at = "timer", loop_again, UNCHANGED <<input, inbox>>,
           usec' \in 0 .. Second - 1,
           sent' \in [done : BOOLEAN, secs : 0 .. MaxSecs, usec : 0 .. Second - 1],
           next_tv' \in [sec : Int, usec : Int],
           ClockInv', sent'.done => Sound(next_tv'),
           ~sent'.done => UNCHANGED <<sent, next_tv>>
    PROVE  LoopInv' /\ ReaderStep
<1>1. /\ at' = "select" /\ readfds' = readfds \cup Watched
      /\ nfds' = 0 /\ c' = "WHOHAS" /\ UNCHANGED nap
  BY DEF loop_again, NoPacketYet
<1>2. InputInv' /\ UNCHANGED <<Buffered, line>>
  BY <1>1, ElsewhereStep DEF LoopInv
<1>3. LoopTypes'
  BY <1>1 DEF LoopInv, LoopTypes, Packets
<1>4. BeforeInv'
  BY <1>1 DEF LoopInv, BeforeInv, First
<1>5. AfterInv' /\ ReadyInv'
  BY <1>1 DEF AfterInv, ReadyInv, Sound, Refused, Ticks
<1> QED
  BY <1>2, <1>3, <1>4, <1>5 DEF LoopInv, ReaderStep

LEMMA ContinueInv ==
    ASSUME LoopInv, continue PROVE LoopInv' /\ ReaderStep
<1>1. /\ at = "timer" /\ loop_again /\ UNCHANGED <<input, usec, sent, next_tv, inbox>>
  BY DEF continue, clock
<1>2. /\ usec' \in 0 .. Second - 1
      /\ sent' \in [done : BOOLEAN, secs : 0 .. MaxSecs, usec : 0 .. Second - 1]
      /\ next_tv' \in [sec : Int, usec : Int]
  BY <1>1 DEF LoopInv, LoopTypes
<1>3. ClockInv'
  BY <1>1 DEF LoopInv, ClockInv
<1>4. c \in {"WHOHAS", "IHAVE", "DATA"}
  BY DEF continue, skips_timer
<1>5. sent'.done => Sound(next_tv')
  BY <1>1, <1>4 DEF LoopInv, AfterInv
<1> QED
  BY <1>1, <1>2, <1>3, <1>5, AgainInv

LEMMA WaitInv ==
    ASSUME Platform, LoopInv, wait_on PROVE LoopInv' /\ ReaderStep
<1>1. /\ at = "timer" /\ loop_again /\ UNCHANGED <<input, usec, sent, inbox>>
      /\ sent.done /\ Elapsed <= Half
      /\ next_tv' = timeout_after(sent.secs, usec - sent.usec)
  BY DEF wait_on, clock
<1>2. Sound(next_tv')
  BY <1>1, NextTimeout DEF LoopInv, Platform
<1>3. usec \in Int /\ sent.usec \in Int /\ sent.secs \in Int
  BY DEF LoopInv, LoopTypes
<1>4. next_tv' \in [sec : Int, usec : Int]
  BY <1>1, <1>3, Halves DEF timeout_after
<1>5. /\ usec' \in 0 .. Second - 1
      /\ sent' \in [done : BOOLEAN, secs : 0 .. MaxSecs, usec : 0 .. Second - 1]
  BY <1>1 DEF LoopInv, LoopTypes
<1>6. ClockInv'
  BY <1>1 DEF LoopInv, ClockInv
<1> QED
  BY <1>1, <1>2, <1>4, <1>5, <1>6, AgainInv

(* Before the first GET there is no file, and the timer is reached only    *)
(* because of the first timeout.                                           *)
LEMMA NoFileInv ==
    ASSUME LoopInv, retransmit, ~sent.done PROVE LoopInv' /\ ReaderStep
<1>1. /\ at = "timer" /\ at' = "crashed"
      /\ UNCHANGED <<input, clock, next_tv, inbox, readfds, nfds, c, nap>>
  BY DEF retransmit, no_file
<1>2. InputInv' /\ UNCHANGED <<Buffered, line>>
  BY <1>1, ElsewhereStep DEF LoopInv
<1>3. UNCHANGED <<Refused(next_tv), Ticks(next_tv), First(next_tv)>>
  BY <1>1 DEF Refused, Ticks, First
<1>4. LoopTypes' /\ ClockInv' /\ ReadyInv'
  BY <1>1 DEF LoopInv, LoopTypes, ClockInv, ReadyInv, clock
<1>5. nfds # 1
  BY DEF LoopInv, BeforeInv, retransmit, skips_timer
<1>6. BeforeInv' /\ AfterInv'
  BY <1>1, <1>3, <1>5 DEF LoopInv, BeforeInv, AfterInv, clock
<1> QED
  BY <1>2, <1>4, <1>6 DEF LoopInv, ReaderStep

(* From then on it leaves half a second.                                   *)
LEMMA SendAgainInv ==
    ASSUME Platform, LoopInv, retransmit, sent.done PROVE LoopInv' /\ ReaderStep
<1>1. /\ at = "timer" /\ UNCHANGED <<input, inbox>> /\ send_again
  BY DEF retransmit
<1>2. sent.done
  OBVIOUS
<1>3. PICK late \in {0} :
          LET now == (usec + late) % Second
          IN  /\ usec' = now
              /\ sent' = [sent EXCEPT !.secs = 0, !.usec = now]
              /\ next_tv' = timeout_after(-((usec + late) \div Second), usec - now)
              /\ loop_again
  BY <1>1 DEF send_again, Platform
<1>4. usec \in 0 .. Second - 1 /\ usec + late = usec
  BY <1>3 DEF LoopInv, LoopTypes
<1>5. usec % Second = usec /\ usec \div Second = 0
  BY <1>4, Division
<1>6. /\ usec' = usec /\ loop_again
      /\ sent' = [sent EXCEPT !.secs = 0, !.usec = usec]
      /\ next_tv' = timeout_after(-0, usec - usec)
  BY <1>3, <1>4, <1>5
<1>7. next_tv' = [sec |-> 0, usec |-> Half]
  BY <1>4, <1>6, Halves DEF timeout_after
<1>8. Sound(next_tv') /\ next_tv' \in [sec : Int, usec : Int]
  <2>1. Half \in 0 .. Half /\ Half \in Int
    BY Halves
  <2> QED
    BY <1>7, <2>1, ShortTimeout DEF Platform
<1>9. sent \in [done : BOOLEAN, secs : 0 .. MaxSecs, usec : 0 .. Second - 1]
  BY DEF LoopInv, LoopTypes
<1>10. /\ sent' \in [done : BOOLEAN, secs : 0 .. MaxSecs, usec : 0 .. Second - 1]
       /\ sent'.done /\ sent'.usec = usec
  <2>1. 0 \in 0 .. MaxSecs
    OBVIOUS
  <2> QED
    BY <1>2, <1>4, <1>6, <1>9, <2>1
<1>11. ClockInv'
  BY <1>4, <1>6, <1>10 DEF ClockInv
<1>12. usec' \in 0 .. Second - 1
  BY <1>4, <1>6
<1> QED
  BY <1>1, <1>6, <1>8, <1>10, <1>11, <1>12, AgainInv

LEMMA ArriveInv ==
    ASSUME LoopInv, arrive PROVE LoopInv' /\ ReaderStep
<1>1. /\ inbox = <<>>
      /\ UNCHANGED <<input, at, clock, next_tv, readfds, nfds, c, nap>>
  BY DEF arrive
<1>2. PICK m \in Packets : (m = "ACK" => sent.done) /\ inbox' = <<m>>
  BY DEF arrive
<1>3. InputInv' /\ UNCHANGED <<Buffered, line>>
  BY <1>1, StillStep DEF LoopInv
<1>4. /\ inbox' \in Seq(Packets) /\ inbox' # <<>>
      /\ \A i \in 1 .. Len(inbox') : inbox'[i] = m
  BY <1>2
<1>5. LoopTypes' /\ ClockInv'
  BY <1>1, <1>4 DEF LoopInv, LoopTypes, ClockInv, clock
<1>6. UNCHANGED <<Refused(next_tv), Ticks(next_tv), First(next_tv), FirstRefused>>
  BY <1>1 DEF Refused, Ticks, First, FirstRefused
<1>7. BeforeInv'
  BY <1>1, <1>2, <1>4, <1>6 DEF LoopInv, BeforeInv, clock
<1>8. AfterInv'
  BY <1>1, <1>6 DEF LoopInv, AfterInv, clock, Sound
<1>9. ReadyInv'
  BY <1>1, <1>4, <1>6 DEF LoopInv, ReadyInv, input
<1> QED
  BY <1>3, <1>5, <1>7, <1>8, <1>9 DEF LoopInv, ReaderStep

LEMMA UserLoopInv ==
    ASSUME Platform, LoopInv, user PROVE LoopInv' /\ ReaderStep
<1>1. /\ type_piece \/ close_stdin
      /\ UNCHANGED <<at, clock, next_tv, inbox, readfds, nfds, c, nap>>
  BY DEF user, type_piece, close_stdin
<1>2. InputInv' /\ UNCHANGED <<Buffered, line>>
  BY <1>1, UserStep DEF LoopInv, Platform
<1>3. LoopTypes' /\ ClockInv'
  BY <1>1 DEF LoopInv, LoopTypes, ClockInv, clock
<1>4. UNCHANGED <<Refused(next_tv), Ticks(next_tv), First(next_tv), FirstRefused>>
  BY <1>1 DEF Refused, Ticks, First, FirstRefused
<1>5. BeforeInv'
  BY <1>1, <1>4 DEF LoopInv, BeforeInv, clock
<1>6. AfterInv'
  BY <1>1, <1>4 DEF LoopInv, AfterInv, clock, Sound
<1>7. stdin' # <<>> \/ eof'
  BY <1>1, PiecesAssumption DEF type_piece, close_stdin
<1>8. ReadyInv'
  BY <1>1, <1>4, <1>7 DEF LoopInv, ReadyInv
<1> QED
  BY <1>2, <1>3, <1>5, <1>6, <1>8 DEF LoopInv, ReaderStep

(* Time carries over into the seconds.                                     *)
LEMMA TickClock ==
    ASSUME LoopTypes, ClockInv, tick
    PROVE  /\ usec' \in 0 .. Second - 1
           /\ sent' \in [done : BOOLEAN, secs : 0 .. MaxSecs, usec : 0 .. Second - 1]
           /\ sent'.done = sent.done
           /\ sent.done => ClockInv'
           /\ ~sent.done => UNCHANGED sent
<1> DEFINE s == IF sent.done /\ usec + 1 = Second /\ sent.secs < MaxSecs
                THEN sent.secs + 1 ELSE sent.secs
<1>1. usec' = (usec + 1) % Second /\ sent' = [sent EXCEPT !.secs = s]
  BY DEF tick
<1>2. /\ usec \in 0 .. Second - 1
      /\ sent \in [done : BOOLEAN, secs : 0 .. MaxSecs, usec : 0 .. Second - 1]
  BY DEF LoopTypes
<1>3. usec' = IF usec + 1 = Second THEN 0 ELSE usec + 1
  <2>1. CASE usec + 1 = Second
    <3>1. Second % Second = 0
      OBVIOUS
    <3> QED
      BY <1>1, <2>1, <3>1
  <2>2. CASE usec + 1 # Second
    <3>1. usec + 1 \in 0 .. Second - 1
      BY <1>2, <2>2
    <3> QED
      BY <1>1, <2>2, <3>1, Division
  <2> QED
    BY <2>1, <2>2
<1>4. usec' \in 0 .. Second - 1
  BY <1>2, <1>3
<1>5. s \in 0 .. MaxSecs
  BY <1>2
<1>6. ~sent.done => s = sent.secs
  OBVIOUS
<1>7. sent.done /\ s = 0 => sent.secs = 0 /\ usec + 1 # Second
  BY <1>2
<1> HIDE DEF s
<1>8. /\ sent' \in [done : BOOLEAN, secs : 0 .. MaxSecs, usec : 0 .. Second - 1]
      /\ sent'.done = sent.done /\ sent'.secs = s /\ sent'.usec = sent.usec
  BY <1>1, <1>2, <1>5
<1>9. ~sent.done => UNCHANGED sent
  BY <1>1, <1>2, <1>6
<1>10. sent.done => ClockInv'
  BY <1>2, <1>3, <1>7, <1>8 DEF ClockInv
<1> QED
  BY <1>4, <1>8, <1>9, <1>10

(* What is left of a timeout is one again, and of a sound one a sound one. *)
LEMMA TickTimeout ==
    ASSUME Carries = TRUE, LoopTypes, tick, next_tv' # next_tv
    PROVE  /\ at = "select"
           /\ next_tv' \in [sec : Int, usec : Int]
           /\ First(next_tv')
           /\ Sound(next_tv) => Sound(next_tv')
<1> DEFINE left == Ticks(next_tv) - 1
<1>1. /\ at = "select" /\ Ticks(next_tv) > 0
      /\ next_tv' = [sec |-> left \div Second, usec |-> left % Second]
  BY DEF tick
<1>2. left \in Nat
  <2>1. Second * next_tv.sec \in Int /\ next_tv.usec \in Int
    BY DEF LoopTypes
  <2> QED
    BY <1>1, <2>1 DEF Ticks
<1>3. Sound(next_tv) => left \in 0 .. Half /\ left \in 0 .. Second - 1
  BY <1>1, Halves DEF Sound
<1> HIDE DEF left
<1>4. left \div Second \in Nat /\ left % Second \in 0 .. Second - 1
  BY <1>2
<1>5. next_tv' \in [sec : Int, usec : Int] /\ First(next_tv')
  BY <1>1, <1>4 DEF First
<1>6. ASSUME Sound(next_tv) PROVE Sound(next_tv')
  <2>1. next_tv' = [sec |-> 0, usec |-> left]
    BY <1>1, <1>3, <1>6, Division
  <2>2. Sound([sec |-> 0, usec |-> left])
    BY <1>3, <1>6, ShortTimeout
  <2> QED
    BY <2>1, <2>2
<1> QED
  BY <1>1, <1>5, <1>6

LEMMA TickInv ==
    ASSUME Platform, LoopInv, tick PROVE LoopInv' /\ ReaderStep
<1>1. /\ UNCHANGED <<input, at, inbox, readfds, nfds, c>>
      /\ nap' = IF nap > 0 THEN nap - 1 ELSE 0
      /\ at # "crashed"
  BY DEF tick
<1>2. InputInv' /\ UNCHANGED <<Buffered, line>>
  BY <1>1, StillStep DEF LoopInv
<1>3. /\ usec' \in 0 .. Second - 1
      /\ sent' \in [done : BOOLEAN, secs : 0 .. MaxSecs, usec : 0 .. Second - 1]
      /\ sent'.done = sent.done
      /\ sent.done => ClockInv'
      /\ ~sent.done => UNCHANGED sent
  BY TickClock DEF LoopInv
<1>4. ASSUME next_tv' = next_tv
      PROVE  BeforeInv' /\ AfterInv' /\ ReadyInv' /\ next_tv' \in [sec : Int, usec : Int]
  <2>1. UNCHANGED <<Refused(next_tv), Ticks(next_tv), First(next_tv), FirstRefused>>
    BY <1>1, <1>4 DEF Refused, Ticks, First, FirstRefused
  <2>2. BeforeInv' /\ AfterInv'
    BY <1>1, <1>3, <2>1 DEF LoopInv, BeforeInv, AfterInv, Sound
  <2>3. ReadyInv'
    BY <1>1, <2>1 DEF LoopInv, ReadyInv, input
  <2> QED
    BY <1>4, <2>2, <2>3 DEF LoopInv, LoopTypes
<1>5. ASSUME next_tv' # next_tv
      PROVE  BeforeInv' /\ AfterInv' /\ ReadyInv' /\ next_tv' \in [sec : Int, usec : Int]
  <2>1. /\ at = "select"
        /\ next_tv' \in [sec : Int, usec : Int]
        /\ First(next_tv')
        /\ Sound(next_tv) => Sound(next_tv')
    BY <1>5, TickTimeout DEF LoopInv, Platform
  <2>2. BeforeInv'
    BY <1>1, <1>3, <2>1 DEF LoopInv, BeforeInv
  <2>3. AfterInv' /\ ReadyInv'
    BY <1>1, <1>3, <2>1 DEF LoopInv, AfterInv, ReadyInv
  <2> QED
    BY <2>1, <2>2, <2>3
<1>6. BeforeInv' /\ AfterInv' /\ ReadyInv' /\ next_tv' \in [sec : Int, usec : Int]
  BY <1>4, <1>5
<1>7. LoopTypes'
  BY <1>1, <1>3, <1>6 DEF LoopInv, LoopTypes
<1>8. ClockInv'
  <2>1. CASE sent.done
    BY <1>3, <2>1
  <2>2. CASE ~sent.done
    BY <1>3, <2>2 DEF LoopInv, LoopTypes, ClockInv
  <2> QED
    BY <2>1, <2>2
<1> QED
  BY <1>2, <1>6, <1>7, <1>8 DEF LoopInv, ReaderStep

LEMMA StutterInv ==
    ASSUME LoopInv, UNCHANGED vars PROVE LoopInv' /\ ReaderStep
<1>1. UNCHANGED <<input, at, clock, next_tv, inbox, readfds, nfds, c, nap>>
  BY DEF vars
<1>2. InputInv' /\ UNCHANGED <<Buffered, line>>
  BY <1>1, StillStep DEF LoopInv
<1>3. UNCHANGED <<Refused(next_tv), Ticks(next_tv), First(next_tv), FirstRefused>>
  BY <1>1 DEF Refused, Ticks, First, FirstRefused
<1>4. LoopTypes' /\ ClockInv'
  BY <1>1 DEF LoopInv, LoopTypes, ClockInv, clock
<1>5. BeforeInv' /\ AfterInv'
  BY <1>1, <1>3 DEF LoopInv, BeforeInv, AfterInv, clock, Sound
<1>6. ReadyInv'
  BY <1>1, <1>3 DEF LoopInv, ReadyInv, input
<1> QED
  BY <1>2, <1>4, <1>5, <1>6 DEF LoopInv, ReaderStep

LEMMA StepInv ==
    ASSUME Platform, LoopInv, [LoopNext]_vars PROVE LoopInv' /\ ReaderStep
BY SelectInv, NoPacketInv, PacketInv, SleepOverInv, ReadStdinInv, ContinueInv,
   WaitInv, NoFileInv, SendAgainInv, TickInv, ArriveInv, UserLoopInv, StutterInv
   DEF LoopNext, thread

(* What the invariant says of the checked properties.                      *)
LEMMA InvMeans ==
    ASSUME LoopInv
    PROVE  /\ LoopTypeOK /\ SleepsHalfASecond /\ ReceivesWhatIsThere
           /\ CrashMeansFirstTimeout /\ ExitMeansLongLine
<1>1. InputTypeOK /\ ExitMeansLongLine
  BY InvImplies DEF LoopInv
<1>2. LoopTypeOK
  BY <1>1 DEF LoopInv, LoopTypes, LoopTypeOK
<1>3. SleepsHalfASecond
  BY DEF LoopInv, AfterInv, Sound, SleepsHalfASecond
<1>4. ReceivesWhatIsThere
  BY DEF LoopInv, ReadyInv, ReceivesWhatIsThere
<1>5. CrashMeansFirstTimeout
  BY DEF LoopInv, BeforeInv, AfterInv, CrashMeansFirstTimeout
<1> QED
  BY <1>1, <1>2, <1>3, <1>4, <1>5

-----------------------------------------------------------------------------
(* The loop of peer_run, for every buffer, every user at a terminal and    *)
(* every resolution of the clock, whatever arrives when and whatever the   *)
(* frame held, on a platform that carries seconds in tv_usec and as long   *)
(* as the clock does not tick between the two times it is read in one      *)
(* retransmission: after the first DATA select() is never asked for more   *)
(* than what is left of the 500 ms, nor for a time it refuses; recvfrom()  *)
(* and read() are entered with nothing there only in the pass of a first   *)
(* timeout that was refused; the timer opens the file of an upload nobody  *)
(* started only when the first timeout is wholly over or was refused; and  *)
(* only a line that is too long makes the program exit.                    *)
THEOREM LoopSound ==
    ASSUME Platform
    PROVE  LoopSpec => /\ []LoopTypeOK /\ []SleepsHalfASecond
                       /\ []ReceivesWhatIsThere /\ []CrashMeansFirstTimeout
                       /\ []ExitMeansLongLine
<1>1. LoopInit => LoopInv
  BY InitInv
<1>2. LoopInv /\ [LoopNext]_vars => LoopInv'
  BY StepInv
<1>3. LoopInv => /\ LoopTypeOK /\ SleepsHalfASecond /\ ReceivesWhatIsThere
                 /\ CrashMeansFirstTimeout /\ ExitMeansLongLine
  BY InvMeans
<1> QED
  BY <1>1, <1>2, <1>3, PTL DEF LoopSpec

(* Inside the loop, between packets and timeouts, the lines a user types   *)
(* still come out once, whole and in order: what LineReader promises.      *)
THEOREM LoopReadsLines ==
    ASSUME Platform PROVE LoopSpec => ReadsLines
<1>1. LoopInit => LoopInv /\ Reader!Init
  BY InitInv
<1>2. LoopInv /\ [LoopNext]_vars => LoopInv' /\ [Reader!Next]_<<Buffered, line>>
  BY StepInv DEF ReaderStep
<1> QED
  BY <1>1, <1>2, PTL DEF LoopSpec, ReadsLines, Reader!Spec, Reader!State
=============================================================================
