------------------------------ MODULE EventLoop ------------------------------
(***************************************************************************)
(* The loop of peer_run (peer.c:246-297) with its clock: what select()     *)
(* waits for and for how long, what it leaves in the descriptor sets, when *)
(* the loop looks at the retransmission timer, and the next timeout it     *)
(* computes from two timevals field by field.  Packets are their types;    *)
(* stdin is read with InputBuffer.                                         *)
(***************************************************************************)
EXTENDS InputBuffer

CONSTANTS
    Second,     \* clock ticks in a second (1000000 us), an even number
    MaxSecs,    \* bound: seconds since the last DATA are counted up to this
    FirstSeconds, \* tv_sec of the first timeout (1000000, 11.6 days)
    Carries,    \* whether select() adds the whole seconds in tv_usec to
                \* tv_sec before it looks at the sign (Linux does; libraries
                \* that look first, as glibc from 2.34 on, do not)
    Straddles,  \* whether the clock may tick between the two gettimeofday
                \* calls of one pass
    Garbage,    \* what the unwritten tv_usec of the first timeout may hold
    Strays      \* what the unwritten descriptor set may hold besides: stdout
                \* stands for any file that is always ready (the socket has
                \* the lowest number free, so all below it are open)

ASSUME SecondAssumption == Second \in Nat \ {0} /\ Second % 2 = 0
ASSUME MaxSecsAssumption == MaxSecs \in Nat \ {0, 1}
ASSUME FlagsAssumption == Carries \in BOOLEAN /\ Straddles \in BOOLEAN
ASSUME FirstAssumption == FirstSeconds \in Nat \ {0, 1}
ASSUME GarbageAssumption == Garbage \subseteq Int
ASSUME StraysAssumption == Strays \subseteq {"stdout"}

VARIABLES
    usec,     \* the clock: ticks into the current second
    sent,     \* last_sent_time of upload entry 0: its tv_usec, and how many
              \* seconds tv_sec has advanced since; done: ever written
    next_tv,  \* the timeout; while select() sleeps, what is left of it
    inbox,    \* packets the socket has ready
    readfds,  \* the descriptors select() was given, then what it left
    nfds,     \* its return value
    c,        \* what process_inbound_udp returned
    nap       \* what is left of a sleep(1), in ticks

clock == <<usec, sent>>
vars == <<input, at, clock, next_tv, inbox, readfds, nfds, c, nap>>

Packets == {"WHOHAS", "IHAVE", "GET", "DATA", "ACK"}
NoPacketYet == "WHOHAS"  \* c is 0x00, which is also PACKET_TYPE_WHOHAS
Half == Second \div 2

-----------------------------------------------------------------------------
(* What select() makes of a timeout: the time in ticks, or an error.       *)
whole_seconds(u) == IF u < 0 THEN -((-u) \div Second) ELSE u \div Second

kernel_tv(tv) ==
    IF Carries
    THEN LET s == whole_seconds(tv.usec)
         IN  [sec |-> tv.sec + s, usec |-> tv.usec - Second * s]
    ELSE tv

Refused(tv) == kernel_tv(tv).sec < 0 \/ kernel_tv(tv).usec < 0
Ticks(tv) == Second * tv.sec + tv.usec

Watched == {"sock", "stdin"}

Ready ==
    (IF inbox # <<>> THEN {"sock"} ELSE {})
        \cup (IF stdin # <<>> \/ eof THEN {"stdin"} ELSE {})
        \cup (readfds \cap Strays)

-----------------------------------------------------------------------------
(* The first timeout is a million seconds and an unwritten tv_usec.  FD_SET *)
(* adds the two descriptors to a set that nobody cleared.                  *)
LoopInit ==
    /\ InputInit
    /\ at = "select"
    /\ usec = 0
    /\ sent = [done |-> FALSE, secs |-> 0, usec |-> 0]
    /\ next_tv \in [sec : {FirstSeconds}, usec : Garbage]
    /\ inbox = <<>>
    /\ readfds \in {Watched \cup s : s \in SUBSET Strays}
    /\ nfds = 0
    /\ c = NoPacketYet
    /\ nap = 0

(* select() returns: at once with an error, and then the sets are as they  *)
(* were, or with what is ready, or with nothing when the time is over.     *)
select ==
    /\ at = "select"
    /\ Refused(next_tv) \/ Ready # {} \/ Ticks(next_tv) = 0
    /\ readfds' = IF Refused(next_tv) THEN readfds ELSE Ready
    /\ nfds' = IF Refused(next_tv) THEN -1 ELSE IF Ready # {} THEN 1 ELSE 0
    /\ at' = "recv"
    /\ UNCHANGED <<input, clock, next_tv, inbox, c, nap>>

(* After the handlers: FD_ISSET(STDIN_FILENO).                             *)
after_socket == IF "stdin" \in readfds THEN "read" ELSE "timer"

no_packet ==
    /\ at = "recv" /\ "sock" \notin readfds
    /\ at' = after_socket
    /\ UNCHANGED <<input, clock, next_tv, inbox, readfds, nfds, c, nap>>

(* A GET and an ACK are answered with DATA, the ACK of the last block is   *)
(* not.  After the DATA that completes a chunk the thread sleeps for a     *)
(* second.  recvfrom() waits for a packet.                                 *)
process_inbound_udp ==
    /\ at = "recv" /\ "sock" \in readfds
    /\ inbox # <<>>
    /\ c' = Head(inbox)
    /\ inbox' = Tail(inbox)
    /\ \/ /\ c' \in {"GET", "ACK"}
          /\ sent' = [done |-> TRUE, secs |-> 0, usec |-> usec]
       \/ /\ c' # "GET"
          /\ UNCHANGED sent
    /\ \/ at' = after_socket /\ UNCHANGED nap
       \/ c' = "DATA" /\ at' = "sleep" /\ nap' = Second
    /\ UNCHANGED <<input, usec, next_tv, readfds, nfds>>

sleep_over ==
    /\ at = "sleep" /\ nap = 0
    /\ at' = after_socket
    /\ UNCHANGED <<input, clock, next_tv, inbox, readfds, nfds, c, nap>>

read_stdin ==
    process_user_input
        /\ UNCHANGED <<clock, next_tv, inbox, readfds, nfds, c, nap>>

-----------------------------------------------------------------------------
(* Back to the head of the loop, where nfds and c are new variables and    *)
(* FD_SET adds both descriptors to what select() left.                     *)
loop_again ==
    /\ at' = "select"
    /\ readfds' = readfds \cup Watched
    /\ nfds' = 0
    /\ c' = NoPacketYet
    /\ UNCHANGED nap

(* Fault: an IHAVE or a WHOHAS is not taken for one of the packets after   *)
(* which there is nothing to send again.                                   *)
skips_after_data == c = "DATA" /\ nfds > 0

(* Fault: the pass is over even when the time of select() was.             *)
skips_timeout == c \in {"WHOHAS", "IHAVE", "DATA"}

(* The pass is over before the timer when select() reported something and  *)
(* no packet, or one of these types, was handled.                          *)
skips_timer == c \in {"WHOHAS", "IHAVE", "DATA"} /\ nfds > 0

continue ==
    /\ at = "timer" /\ skips_timer
    /\ loop_again
    /\ UNCHANGED <<input, clock, next_tv, inbox>>

Elapsed == Second * sent.secs + usec - sent.usec

(* Fault: half a second is taken away once more.                           *)
half_already_over(secs, diff) == [sec |-> 1 - secs - 1, usec |-> -diff]

(* Fault: a second is not carried to the other field.                      *)
second_to_wait(secs, diff) == [sec |-> 1 - secs, usec |-> Half - diff]

timeout_after(secs, diff) == [sec |-> 1 - secs - 1, usec |-> Half - diff]

wait_on ==
    /\ at = "timer" /\ ~skips_timer
    /\ sent.done /\ Elapsed <= Half
    /\ next_tv' = timeout_after(sent.secs, usec - sent.usec)
    /\ loop_again
    /\ UNCHANGED <<input, clock, inbox>>

(* The block is sent again.  curr_tv was read before, last_sent_time is    *)
(* read after.                                                             *)
send_again ==
    \E late \in IF Straddles THEN {0, 1} ELSE {0} :
        LET now == (usec + late) % Second
        IN  /\ usec' = now
            /\ sent' = [sent EXCEPT !.secs = 0, !.usec = now]
            /\ next_tv' = timeout_after(-((usec + late) \div Second),
                                        usec - now)
            /\ loop_again

(* fopen() has no name to open, and fseek() gets a null pointer.           *)
no_file ==
    at' = "crashed" /\ UNCHANGED <<clock, next_tv, readfds, nfds, c, nap>>

(* More than 500 ms passed.  An entry never written was last sent to in    *)
(* 1970.                                                                   *)
retransmit ==
    /\ at = "timer" /\ ~skips_timer
    /\ ~(sent.done /\ Elapsed <= Half)
    /\ IF sent.done THEN send_again ELSE no_file
    /\ UNCHANGED <<input, inbox>>

-----------------------------------------------------------------------------
(* The other peers and the user.  Nobody acknowledges what was not sent.   *)
arrive ==
    /\ inbox = <<>>
    /\ \E m \in Packets :
          /\ m = "ACK" => sent.done
          /\ inbox' = <<m>>
    /\ UNCHANGED <<input, at, clock, next_tv, readfds, nfds, c, nap>>

user ==
    /\ type_piece \/ close_stdin
    /\ UNCHANGED <<clock, next_tv, inbox, readfds, nfds, c, nap>>

(* Time passes, and a waiting select() or sleep() has less to wait for.    *)
tick ==
    /\ at \notin {"exited", "crashed"}
    /\ usec' = (usec + 1) % Second
    /\ sent' = [sent EXCEPT !.secs =
          IF sent.done /\ usec + 1 = Second /\ @ < MaxSecs THEN @ + 1 ELSE @]
    /\ next_tv' = IF at = "select" /\ ~Refused(next_tv) /\ Ticks(next_tv) > 0
                  THEN LET left == Ticks(next_tv) - 1
                       IN  [sec |-> left \div Second, usec |-> left % Second]
                  ELSE next_tv
    /\ nap' = IF nap > 0 THEN nap - 1 ELSE 0
    /\ UNCHANGED <<input, at, inbox, readfds, nfds, c>>

thread ==
    \/ select \/ no_packet \/ process_inbound_udp \/ sleep_over
    \/ read_stdin \/ continue \/ wait_on \/ retransmit

LoopNext == thread \/ tick \/ arrive \/ user
LoopSpec == LoopInit /\ [][LoopNext]_vars

(* The thread goes on when it can, and time passes.                        *)
FairLoop == LoopSpec /\ WF_vars(thread) /\ WF_vars(tick)

-----------------------------------------------------------------------------
LoopTypeOK ==
    /\ InputTypeOK
    /\ at \in {"select", "recv", "sleep", "read", "lines", "timer",
               "exited", "crashed"}
    /\ usec \in 0 .. Second - 1
    /\ sent \in [done : BOOLEAN, secs : 0 .. MaxSecs, usec : 0 .. Second - 1]
    /\ next_tv \in [sec : Int, usec : Int]
    /\ inbox \in Seq(Packets)
    /\ readfds \subseteq Watched \cup Strays
    /\ nfds \in {-1, 0, 1}
    /\ c \in Packets
    /\ nap \in 0 .. Second

(* The pass of a select() that refused the first timeout, because nobody   *)
(* wrote its tv_usec: it blocks until a packet and a line have come.       *)
FirstRefused ==
    nfds = -1 /\ Refused(next_tv) /\ next_tv.sec = FirstSeconds

(* recvfrom() and read(), which have no timeout, are entered only when     *)
(* there is something to receive or to read; in the whole life of the peer *)
(* one pass may be different, that of a first timeout that was refused.    *)
ReceivesWhatIsThere ==
    /\ at = "recv" /\ "sock" \in readfds => inbox # <<>> \/ FirstRefused
    /\ at = "read" /\ cur < BufSize - 1 =>
          stdin # <<>> \/ eof \/ FirstRefused

(* Once DATA was sent, select() is never asked for more than the 500 ms    *)
(* after which it has to be sent again, nor for a time it refuses, though  *)
(* the two fields of the timeout are computed apart.                       *)
SleepsHalfASecond ==
    at = "select" /\ sent.done =>
        ~Refused(next_tv) /\ Ticks(next_tv) \in 0 .. Half

(* The timer sends for an upload nobody asked for, whose file it cannot    *)
(* open, in one case only: no GET came before the first timeout was over,  *)
(* all of it, or select() refused it.  WHOHAS, IHAVE, DATA and the user's  *)
(* lines, which come before the first GET, do not make it look.            *)
CrashMeansFirstTimeout ==
    at = "crashed" => ~sent.done /\ (Ticks(next_tv) = 0 \/ Refused(next_tv))

(* When the other peers and the user fall silent, because a DATA or its    *)
(* ACK was lost, the block is sent again, and again until they do not.     *)
(* With stdin at its end, or with a file in the set nobody cleared,        *)
(* select() reports it in every pass, c stays 0 and the timer is never     *)
(* looked at; and a refused first timeout blocks in read(): the property   *)
(* is about the other runs of the program.                                 *)
Silence ==
    /\ inbox = <<>> /\ stdin = <<>>
    /\ ~eof /\ readfds \cap Strays = {} /\ ~FirstRefused

JustSent == sent.secs = 0 /\ sent.usec = usec
Unheard == Silence /\ sent.done /\ ~JustSent /\ at # "exited"

BlockRepeated == ~<>[]Unheard
=============================================================================
