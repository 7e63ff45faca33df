----------------------------- MODULE InputBuffer -----------------------------
(***************************************************************************)
(* The lines a user types: input_buffer.c, with the loop of                *)
(* test_input_buffer.c as the program around it.  The buffer is the memory *)
(* create_userbuf allocates, byte by byte, because what an operation       *)
(* leaves in it is what the next one searches.                             *)
(***************************************************************************)
EXTENDS Integers, Sequences

CONSTANTS
    Text,     \* the bytes of a line
    Newline,
    Nul,
    BufSize,  \* USERBUF_SIZE (8191)
    CurMod,   \* what an unsigned int wraps at (2^32)
    Pieces    \* what the stream may have ready for one read: a terminal, a
              \* line or the start of one; a pipe, whatever was written to it

Byte == Text \cup {Newline}

ASSUME ByteAssumption == Nul \notin Byte /\ Newline \notin Text
ASSUME BufSizeAssumption == BufSize \in Nat \ {0, 1} /\ CurMod \in Nat
                            /\ CurMod > 2 * BufSize
ASSUME PiecesAssumption == Pieces \subseteq Seq(Byte) \ {<<>>}

VARIABLES
    buf,    \* userbuf->buf
    cur,    \* userbuf->cur
    line,   \* the last line given to handle_line
    stdin,  \* what the descriptor has ready
    eof,    \* whether the stream was closed: a read then returns 0
    at      \* where the thread is: "read" is the start of process_user_input

input == <<buf, cur, line, stdin, eof>>

-----------------------------------------------------------------------------
(* create_userbuf                                                          *)
InputInit ==
    /\ buf = [i \in 0 .. BufSize |-> Nul]
    /\ cur = 0
    /\ line = <<>>
    /\ stdin = <<>>
    /\ eof = FALSE

(* The user, or the program at the other end of the pipe.                  *)
type_piece ==
    /\ stdin = <<>> /\ ~eof
    /\ stdin' \in Pieces
    /\ UNCHANGED <<buf, cur, line, eof, at>>

close_stdin ==
    /\ stdin = <<>> /\ ~eof
    /\ eof' = TRUE
    /\ UNCHANGED <<buf, cur, line, stdin, at>>

-----------------------------------------------------------------------------
(* Fault: the program gives up a byte too early.                           *)
TooLongEarly == cur >= BufSize - 2

TooLong == cur >= BufSize - 1

(* process_user_input.  A full buffer ends the program.                    *)
buffer_full ==
    /\ at = "read" /\ TooLong
    /\ at' = "exited"
    /\ UNCHANGED input

(* What is left for read() after the bytes already there.                  *)
room == BufSize - cur

(* read(): as many bytes as there are and fit; none at the end of file.    *)
taken == IF Len(stdin) <= room THEN Len(stdin) ELSE room

read_bytes ==
    /\ at = "read" /\ ~TooLong
    /\ stdin # <<>> \/ eof
    /\ buf' = [i \in 0 .. BufSize |->
                  IF i \in cur .. cur + taken - 1 THEN stdin[i - cur + 1]
                  ELSE buf[i]]
    /\ cur' = cur + taken
    /\ stdin' = SubSeq(stdin, taken + 1, Len(stdin))
    /\ at' = "lines"
    /\ UNCHANGED <<line, eof>>

(* strchr(): the first newline, if no end of string comes before it.       *)
IsNewlineAt(k) ==
    /\ buf[k] = Newline
    /\ \A j \in 0 .. k - 1 : buf[j] \notin {Newline, Nul}

(* The newline becomes an end of string, and memmove brings all that       *)
(* follows it to the front.  It moves BufSize - k bytes: the last k bytes  *)
(* of the buffer stay as they were.                                        *)
shifted(k) ==
    [i \in 0 .. BufSize |->
        IF i < BufSize - k THEN buf[i + k + 1]
        ELSE IF i = k THEN Nul
        ELSE buf[i]]

(* Fault: the newline is counted twice.                                    *)
line_and_two_ends(k) == k + 2

(* Fault: the newline is not counted.                                      *)
line_alone(k) == k

consumed(k) == k + 1

hand_line ==
    /\ at = "lines"
    /\ \E k \in 0 .. BufSize :
          /\ IsNewlineAt(k)
          /\ line' = [i \in 1 .. k |-> buf[i - 1]]
          /\ buf' = shifted(k)
          /\ cur' = (cur - consumed(k)) % CurMod
    /\ UNCHANGED <<stdin, eof, at>>

lines_done ==
    /\ at = "lines"
    /\ \A k \in 0 .. BufSize : ~IsNewlineAt(k)
    /\ at' = "timer"
    /\ UNCHANGED input

process_user_input == buffer_full \/ read_bytes \/ hand_line \/ lines_done

-----------------------------------------------------------------------------
(* test_input_buffer.c: nothing but process_user_input, for ever.          *)
again ==
    /\ at = "timer"
    /\ at' = "read"
    /\ UNCHANGED input

Init == InputInit /\ at = "read"
Next == type_piece \/ close_stdin \/ process_user_input \/ again
Spec == Init /\ [][Next]_<<input, at>>

-----------------------------------------------------------------------------
(* The count and the buffer stay what the code takes them for: the count   *)
(* never passes the buffer (nor wraps around below 0), and the last byte   *)
(* is the end of string strchr() relies on.                                *)
InputTypeOK ==
    /\ buf \in [0 .. BufSize -> Byte \cup {Nul}]
    /\ buf[BufSize] = Nul
    /\ cur \in 0 .. BufSize
    /\ line \in Seq(Text)
    /\ stdin \in Seq(Byte)
    /\ eof \in BOOLEAN

(* The bytes in the buffer that cur counts.                                *)
Buffered == [i \in 1 .. (IF cur <= BufSize THEN cur ELSE BufSize) |-> buf[i - 1]]

Reader == INSTANCE LineReader WITH due <- Buffered

(* A terminal: no read() returns anything behind a newline.                *)
ReadsEndWithLine ==
    \A p \in Pieces : \A i \in 1 .. Len(p) - 1 : p[i] # Newline

(* What handle_line is given are the lines of the stream: every byte read  *)
(* belongs to one line, none is left behind, cut or handed out twice.      *)
(* With more behind a newline in a buffer filled to its end this fails:    *)
(* the newlines that shifted leaves at the end are handed out again.       *)
ReadsLines == Reader!Spec

(* The program exits with "line too long" only when a line is.             *)
ExitMeansLongLine ==
    at = "exited" =>
        /\ Len(Buffered) >= BufSize - 1
        /\ \A i \in DOMAIN Buffered : Buffered[i] # Newline
=============================================================================
