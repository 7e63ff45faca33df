# Verification of the file-transfer peer

TLA+ models of the peer in `src/starter_code/`, the TLC runs that check them on
small swarms and the TLAPS proofs that hold for every swarm. `PROJECT.json` maps
every definition to the lines it translates.

## 1. The system

A *peer* is one process with one thread. A user types `GET <request file>
<output file>`; the peer asks every other peer who has the chunks of the request
file (WHOHAS), is told (IHAVE), asks for one chunk at a time from a peer (GET) and
receives it as numbered blocks of 1024 bytes (DATA), each answered by an ACK, with a
window of one block. The same process serves the chunks it has to others. Peers
talk over UDP, through the simulator `hupsim_adv.pl`, which queues, drops and
repeats packets.

| part | source | state | operations |
|---|---|---|---|
| packet formats | `packet.h`, `utils.c` (`make_packet_header`), `chunk.c` (`binary2hex`) | none | building and reading the five packet types |
| uploader | `handler.c` (`deal_with_WHOHAS`, `_GET`, `_ACK`), timer of `peer.c:273-291` | `upload_to_peer_infos[0]` | answer a WHOHAS, start an upload, go on with it, retransmit |
| downloader | `peer.c` (`process_get`), `handler.c` (`deal_with_IHAVE`, `_DATA`), `utils.c` | `chunk_status`, `download_from_peer_infos`, `waiting_list_of_I_HAVE`, the output file | start a GET, process an IHAVE hash by hash, scan the waiting list, take or refuse a DATA, verify a chunk |
| event loop | `peer.c` (`peer_run`, `process_inbound_udp`, `handle_user_input`) | what the thread is doing, `next_tv` | select, scan, one packet, one line, timer |
| user input buffer | `input_buffer.c` | `userbuf`: a buffer and a count | read, split into lines, shift |
| network | `cp3/hupsim_adv.pl`, `spiffy.c` | a queue per hop | forward, drop, repeat |
| routing | `hupsim_adv.pl` (`createTable`) | routing table, computed once | none afterwards |
| start-up | `bt_parse.c` | `config` | none afterwards |
| hashing and make-chunks | `sha.c`, `chunk.c`, `make_chunks.c` | `SHA1Context`, the hashes of a file | fill and compress blocks, pad, hash a file chunk by chunk, print and read back hexadecimal digits |

How they interact. Nothing is shared between processes: peers meet in packets only.
Inside a process the two roles share the socket and the thread. What ties the
downloader's parts together is indices: `search_id_for_hash`, `find_free_*` and the
search of `deal_with_DATA` return -1 for "none", and their callers use the result as
an index without looking. The uploader allocates `max_conn` entries and uses entry 0
only. Loops that change state (over the hashes of an IHAVE, over the waiting list)
run to their end before the thread does anything else, while other peers and the
network go on.

What is hard, and what must hold. The full list, line by line, is `hazards` in
`PROJECT.json`.

* Stop-and-wait over a network that loses and repeats packets, where blocks are
  known by number only and a session by the address of the other peer only: a
  block of the previous chunk must not be taken for one of the next
  (`BlocksInPlace`, `EveryDownloadVerifies`, `KeepsPromise`), a stale ACK must not
  send the uploader backwards or past a lost block (`MaxAckGrows`,
  `SenderNotAhead`).
* Several providers and several chunks: no chunk and no provider in two sessions
  (`OneSessionPerChunk`, `OneSessionPerPeer`), nobody waits for blocks nobody sends
  (`UploadServesSession`), what is queued is looked at again (`QueueHasWaker`),
  the tables are large enough (`TablesSuffice`).
* A second GET command while sessions and waiting entries of the first refer to its lines
  (`GotIntact`, `QueueHasWaker`).
* Whatever goes wrong with sessions, blocks land at their own place
  (`SessionInStep`, `BlockAtItsPlace`) and a chunk reported GOT is that chunk
  (`GotIntact`).
* `recvfrom()` and `read()`, which have no timeout, are entered only when there is
  something to take (`ReceivesWhatIsThere`), and `select()` waits no longer than until
  the next retransmission (`SleepsHalfASecond`), although the timeout is computed field
  by field and a failed `select()` leaves every descriptor set; the timer is looked at
  when it matters (`BlockRepeated`), and for an upload nobody started only when the
  peer's first timeout is over (`CrashMeansFirstTimeout`).
* Lines come out of the buffer as they went in (`ReadsLines`), and the program gives
  up only on a line that is too long (`ExitMeansLongLine`).
* Hashes are those of the chunks, at every remainder of a length on a block
  (`NothingLost`, `PaddedRight`) and a file on a chunk (`SlotsSuffice`,
  `ListingIsFile`).
* In the end, the file arrives (`FileArrives`).

## 2. The modules

```
Wire  <-- Network  <-- Uploader   <--+
      <-- Thread   <-- Downloader <--+-- Swarm <-- MCSwarm (TLC)
                                           |  \<-- SwarmProofs <-- OfferProofs
                       Delivery <--INSTANCE+          <-- TransferProofs <-- SmallProofs
                                                      <-- PromiseProofs, RoomProofs (TLAPS)

LineReader <--INSTANCE-- InputBuffer <-- EventLoop <-- MCLoop (TLC)
                                              ^-- LoopProofs (TLAPS)

Sha1 <-- MakeChunks <-- MCChunks (TLC)
                    <-- ChunkProofs (TLAPS)
```

* **Wire**: the constants and the packets. A chunk is N blocks; block b of chunk c
  is `<<c, b>>`; a hash stands for its chunk. `ParsedCount` is the one
  conversion that is not the identity: the count byte of a WHOHAS or an IHAVE is
  printed in hex and read back with `atoi`. A packet of 1500 bytes holds
  `HashesPerPacket` = 74 hashes; files have no more (`PacketAssumption`).
* **Network**: the simulator `hupsim_adv.pl` and the entry to it in `spiffy.c`: one
  FIFO for each ordered pair of peers. `enQ` drops what does not fit. `Lose` and
  `Duplicate` touch only DATA and ACK, as the simulator does. In the simulator the
  queues belong to hops. Each is a FIFO, so a path is one; but a hop that paths share,
  or the second hop of a path, may be full although the path's own packets are few.
  `Shared` says that there are such hops, and then `CrowdOut` may drop any packet.
  Two peers with a link of their own have exactly the queue of the model.
* **Thread**: `task[p]`, what the thread of p is in the middle of. A loop
  that changes state is one step per iteration; a handler without such a loop is
  one step. `First` is the shape of every search in `utils.c`.
* **Uploader**: one action per handler, and `retransmit`.
* **Downloader**: tables indexed from -1. Entry -1 is the memory in front of the C
  array: for the download table that is the size word `malloc` keeps there
  (`HeapSlot`; on the 64-bit glibc the repository was built for it reads as
  `32 * max_conn + 17`, so 145 for the tests' `-m 4`), for the chunk statuses a word
  out of `HeapStatus`, chosen anew by each GET command (0, 1, 2 or `OtherStatus`, which
  stands for all the others), for the waiting list empty.
* **Swarm**: all peers and the network; the properties.
* **Delivery**: what a download promises, with no packets, sessions or tables: a
  line is absent, coming, block after block in order, and got exactly with its last
  block. `Promise` in Swarm is the refinement mapping, `KeepsPromise` the claim.
* **MCSwarm**: the swarms the runs use.
* **InputBuffer**: the memory of `userbuf` byte by byte, because what `memmove` leaves
  behind is what the next `strchr` searches. `process_user_input` is its `read` and one
  step per line; `again` is the loop of `test_input_buffer.c` around it.
* **LineReader**: what reading lines promises, with no buffer. `ReadsLines` in
  InputBuffer is the claim, `Buffered` the refinement mapping.
* **EventLoop**: the loop of `peer_run` with a clock, composed with InputBuffer. Its
  packets are only types: which handlers answer with DATA is all the timer depends
  on. What the frame of `peer_run` holds before anybody writes it is arbitrary: the
  `tv_usec` of the first timeout (`Garbage`) and the descriptor set, to which `FD_SET` only
  adds (`Strays`). A DATA may complete a chunk, and then the thread sleeps for a second
  (`nap`, `handler.c:168`). The clock runs from the start, so the first timeout too may be
  over before any packet came. Swarm has the tables and no time, EventLoop the time and no tables; the timer
  step of Swarm may happen whenever an iteration reaches it, which covers every
  moment EventLoop allows.
* **Sha1**: `shahash`, with one step for each pass of the loop of `SHA1Update` and for
  each of the two updates of `SHA1Final`. `SHA1Guts` is the sequence of the bytes it was
  given: its own arithmetic has no branches, and nothing here depends on its value.
* **MakeChunks**: the program around it, and the conversions between a hash and its
  digits that the peer uses on its `has_chunk` and request files.
* **MCLoop**, **MCChunks**: what is typed, and the files.
* **SwarmProofs**, **OfferProofs**, **TransferProofs**, **SmallProofs**,
  **PromiseProofs**, **RoomProofs**, **LoopProofs**, **ChunkProofs**: section 5.

In each module the definitions under a comment "Fault" are mistakes a programmer
could have made in the definition below them. Nothing uses them: the `mutants` of
`PROJECT.json` put each in place of that definition, and the named property then
fails.

### Abstractions

* A handler is atomic: the process has one thread, and nobody else sees its state.
  Packets it sends enter a path in that same step.
* A loop step by step and a handler at once make the same reads and writes in the
  same order; between two steps of a loop only other peers and the network move.
* Losing or repeating a packet happens at the head of its path, when the receiver
  could take it. Paths are FIFO, so where and when earlier a packet was lost
  cannot be told apart by anybody.
* In Swarm the timer may expire whenever an iteration reaches it: 500 ms is not
  compared with anything (in EventLoop it is). Retransmission is guarded by
  `MaxInFlight`, a bound of the model: the code repeats a block every 500 ms for as
  long as it likes.
* In Swarm the sleep after a chunk takes no step: a thread may be idle, or in the middle
  of a scan, for any time while others go on.
* A user's line may be handled in the iteration of a packet, so without another
  scan in between, or in an iteration without one (`MayEndIteration`).
* The chunk ids in a request file are its line numbers and all chunks are in the
  master file, as in all files of the repository.
* An output file is the blocks written so far (`Hole` where nothing was). A write
  with a negative offset goes to the start of the file: `fseek` fails and leaves
  the position there.
* EventLoop counts time in ticks, `Second` of them to a second. A pass of the loop takes
  no time of its own, but the clock may tick between any two of its steps. The timeout
  counts down while `select()` sleeps, as Linux does. All descriptors other than the two
  that are watched are either never ready or, like stdout, always. The socket holds one packet: more
  of them are later arrivals.
* Blocks of 4 bytes with a length of 2 stand for 64 and 8: what matters is that the
  length is shorter than a block, and the proofs hold for any such sizes.
* An ACK that reaches a peer before its first GET would open a file with an empty
  name and crash; no peer sends one, and the action has a guard instead.

## 3. The runs

| run | question | swarm | states |
|---|---|---|---|
| duo | Does stop-and-wait survive loss, repetition and the change of chunk? Does it keep Delivery's promise? | ann gets two chunks from bob, N = 3, one copy, loss | 1 433 |
| trade | Do sessions with several providers, and the two roles of a peer, keep out of each other's way? | ann gets c0 from bob or cat and c1 from cat, bob gets c2 from ann, N = 2, loss | 213 671 |
| three | What still holds when the scan mixes sessions up, a provider serves two and any packet may be dropped? | ann gets three chunks from bob and cat one, queues of one packet and shared hops, loss, tables just large enough | 398 508 |
| twice | What still holds when a second GET overtakes the first? | ann gets c0 and c1, then c1 and c0, from bob; one copy, loss | 24 980 |
| share_lossy | Does the file arrive over a lossy network? | two providers with a chunk each, fairness | 4 713 |
| loop | Does the loop wait only where and as long as it should, lose no line and no timer, and send only what was asked for? | all packet types, lines and starts of lines, end of file at any time, a buffer of 3 bytes, first timeouts and descriptor sets as found | 2 333 620 |
| make_chunks | Is the list that is printed that of the file? | every file length from 0 to 17, chunks of 8 bytes, blocks of 4 | 317 |
| duo_lossy, three_sessions, have_all, heap_block, stale_ihave | the findings of section 4 | | violation |

Every passing property has a mutant of the code that breaks it in that very run.

Bounds and why they are enough.

* `N` = 3 is the least with a first, a middle and a last block, so that a wrong
  middle block can be taken; N = 2 elsewhere, because the properties there are about
  sessions.
* `QueueMax` (21 in `duo`, elsewhere 10 or 6) is never reached except in `three`, where it
  is 1: a full queue drops a WHOHAS, an IHAVE or a GET too. Nobody repeats those, so
  there is no `FileArrives` to check there: the question is whether what is left is
  sound. It is also the run with `Shared` hops, and its downloads may stop for good
  (`CHECK_DEADLOCK FALSE`). In `duo` it is the least that `RoomForGets` of section 5 asks for.
* `three` has two requesters of one provider: the GET of the second takes upload entry 0
  from the first, whose ACKs are then answered with blocks of another chunk.
* The second request file of `twice` has the chunks of the first in the other order, so
  every line of a session or of a waiting entry of the first names another chunk in the
  second, and the waiting list is in use when the command comes. Files that have chunks
  of their own reach line -1 and finding 5.
* `MaxInFlight` bounds copies and retransmissions only: 6 lets two generations of
  a block and its ACK overlap with the next chunk's. Three peers run with 2 or 3.
* `Dups` = 1 is one more copy; a second one arrives as a retransmission does.
* `MaxConn` = 2 and `WaitMax` = 2 make the tables just large enough, so that an
  entry used once too often overruns them.
* `HeapSlot` reads as a block number no chunk has in the passing runs (max_conn of 16
  or more with the 512 blocks of a chunk) and as one a chunk has in `heap_block`: there it is
  N - 1, because the real word is odd and never the last block, 512. So a DATA without a
  session changes the file in `heap_block` only.

* `Second` = 4 ticks gives the 500 ms two ticks, so that a timer can be early, due and
  late within a second, and across its end; `MaxSecs` = 2 is past every comparison.
  `FirstSeconds` = 2 stands for the million seconds of the first timeout: longer than any
  that is computed, and short enough to be over within the run. `Garbage` has a value
  that is refused and one that is taken.
* `BufSize` = 3: a line of one byte fits with its newline, one of two does not, and a
  read can fill the buffer to its end. `CurMod` = 64 keeps the wrap of an `unsigned int`
  apart from any legal count.
* Files of 0 to 17 bytes: no chunk, a chunk of each length, exactly one and two, and two
  and a byte; chunks of 8 bytes are padded with and without another block.

The properties of `loop` hold under these conditions, which are what the code relies on.

* *The socket and stdin are all that is ever ready* (`BlockRepeated`). `readfds` is never
  cleared, so `select()` may watch other descriptors that the frame held by chance. One that
  is always ready, such as stdout, ends every `select()` at once; `c` stays 0 and
  `peer.c:267` skips the timer. The other properties of `loop` hold with it.
* *stdin is open* (`BlockRepeated`). At its end `select()` reports stdin in every pass, `c`
  stays 0, and `peer.c:267` skips the timer for ever: a peer started with its input
  closed repeats nothing. The other properties of `loop` hold at the end of file too.
* *stdin is a terminal* (`ReadsLines`, `ExitMeansLongLine`): a read never returns anything
  behind a newline (`ReadsEndWithLine`). When a pipe fills the buffer with several lines
  the newlines `memmove` leaves at its end (`input_buffer.c:56`) are handed out again as
  lines, and the count wraps below 0.
* *`select()` carries* (`Carries`): whole seconds in `tv_usec` are added to `tv_sec` before the
  signs are looked at. The system call of Linux does that. Across the end of a second
  `peer.c:292` computes -1 seconds and more than 1000000 microseconds; where that is
  refused the descriptor sets stay full and the peer hangs in `recvfrom`.
* *No second begins between the two `gettimeofday` of one retransmission* (`Straddles`,
  `peer.c:272` and `282`). If one does, the next timeout is one second and a negative rest,
  `select()` refuses it, the descriptor sets stay full, and the peer waits in `recvfrom`,
  without a timer, for a packet that nobody sends when the DATA was lost. With
  `Straddles = TRUE` in `Loop.cfg` TLC shows it: `SleepsHalfASecond` fails, and of the
  others `ReceivesWhatIsThere` and `BlockRepeated`.
* *The first timeout is not refused* (`BlockRepeated`). Its `tv_usec` is not written; a
  negative one is refused everywhere, and the first pass then waits in `recvfrom` for a
  packet and in `read` for a line. The safety properties name this pass
  (`FirstRefused`). It is also one of the two ways to the crash of
  `CrashMeansFirstTimeout`; the other is a peer that nobody sends a GET for 11.6 days, when
  the timer opens a file with an empty name.

### Fairness

`FileArrives` (`FairSpec`): weak fairness of the user's commands, of
the wake-up and of the steps inside handlers: the thread is the only one of its
process and goes on. Weak fairness of the timer: a select that times out while an
upload is unfinished retransmits. That is what EventLoop shows of the loop
(`SleepsHalfASecond`, `BlockRepeated`) when packets do not arrive so densely that the
`continue` of `peer.c:267` always skips the timer. Strong fairness of receiving, per path: the network loses
some packets of a path that is used again and again, but not all of them; this is
what a drop rate below one gives. Losing and repeating are never fair.

`BlockRepeated` (`FairLoop`): weak fairness of the thread and of the clock, none of the
packets and of the user; its premise is that those fall silent, which is when a lost
block needs the timer. The runs it is about are those in which stdin stays open, no stray
descriptor is ready and the first timeout was not refused (`Silence`). `Finishes`: the one thread of make-chunks runs.

## 4. Findings

Each is a run that TLC ends with a counterexample; `PROJECT.json` quotes the comment,
README or test it contradicts.

1. `handler.c:119`: a DATA that is not the one expected is answered with ACK 1 even
   when no block has arrived. A late DATA of the previous chunk makes the provider
   believe block 1 of the new one arrived; if that block is lost, it is never sent
   again and the download never ends (`duo_lossy`).
2. `utils.c:146` compares with waiting entry j where it means i: a second session
   with a peer that is still sending (`three_sessions`).
3. `utils.c:158`: a chunk asked for from the waiting list keeps status 0 and is asked
   for again (`have_all`).
4. `handler.c:116`: DATA without a session goes on with entry -1. When the word there reads
   as a block number, the last block, which the provider goes on repeating, is answered
   with the ACK for the block before that number, and the blocks sent in reply are
   written over a verified chunk (`heap_block`).
5. `handler.c:237`: a hash that is not in the current request file is looked up as line
   -1 and downloaded over the start of the file (`stale_ihave`). Two
   ways lead there: a late IHAVE that answers the previous command, and an entry that this
   command left on the waiting list.

A sixth is stated as a theorem instead of a run: from ten hashes on the count byte is
misread (`handler.c:217`, `CountMisread` below), although `handler.c:286` says this obtains
their number. A request file of ten to fifteen chunks is answered by nobody.

## 5. The theorems

Each holds for every set of peers and chunks, every N, table size, queue length and
bound of the model, with or without loss and copies, under the assumptions named in the
modules that declare the constants (positive sizes, request files no longer than
`MaxLines`, `NoPeer` not a peer), which TLC evaluates in every run. The theorems of
SwarmProofs need no more. Those after it have hypotheses, each of which is what a
finding of section 4 takes away:

| hypothesis | says | met in | without it |
|---|---|---|---|
| `OneGet` | a user gives one GET command | all runs but `twice`, `stale_ihave` | finding 5: answers to the first GET are read against the second file |
| `SlotUnmatched` | the word in front of the download table is no open session and no block number of a chunk: `max_conn` is 16 or more | all runs but `heap_block` | finding 4: with the 4 of the test scripts a GOT chunk is overwritten |
| `Plain` | `OneGet`, `SlotUnmatched`, a peer serves one other, N >= 2 | `duo`, `trade`, `share_lossy` | a second client's GET takes the one upload entry (`three`) |
| `Small` | moreover request files have at most two lines, `MaxConn` >= 2, and a `has_chunk` file lists a chunk once | the same | finding 2 (`three_sessions`) |
| `Apart` | a chunk that one peer lists behind another wanted one is not at a second peer | the same | finding 3 (`have_all`) |
| `Many` | `OneGet`, `Apart`, `SlotUnmatched` and a `has_chunk` file lists a chunk once (`Vary`); files of any length, providers with any number of customers | all runs but `twice`, `stale_ihave`, `have_all`, `heap_block` | findings 3, 4 and 5 |
| `Ample` | `max_conn` is at least the number of lines of a request file, and so is the waiting list's length plus one | those of them with files of one or two lines | a table that is full is used at -1 |
| `~Shared` | each two peers have a link of their own, of one hop | all runs but `three` | a GET or a WHOHAS is dropped behind other pairs' packets and nobody repeats it (`three`) |
| `Roomy` | `~Shared`, and a queue holds more than `2 * MaxInFlight + 8` packets | `duo` | a GET is dropped by a full queue (`three`) |
| `Platform` | `Carries`, not `Straddles`, and stdin is a terminal (section 3) | `loop` | a hang when a second begins in a retransmission; a refused timeout across the end of a second; old newlines read again |

### Any swarm (SwarmProofs)

* **TypeCorrect**: `Spec => []TypeOK`. `TypeOK` alone is not inductive. The GET that
  the scan sends is copied from the waiting entry it stands at, and an entry that is
  not in use has no hash and no peer. The inductive invariant is `IInv == TypeOK /\
  ScanAtEntry`, where `ScanAtEntry` says that a scan stands at an entry in use. It is
  kept because only the thread itself changes its waiting list, and each change
  comes with the move to the next entry in use. `OneThread` is that argument, once
  for all actions; there is one lemma per action. What TypeOK says that is not
  obvious: the ACK that `deal_with_ACK` stores is below N, so the timer and the
  handler send a block the chunk has; `ParsedCount` never exceeds the real count
  (`ParsedCountBound`), so the hashes read are hashes sent.
* **CountMisread**: from ten on the parsed count is too small, and 0 for ten to fifteen.
* **SessionsStayInStep**: `Spec => []SessionInStep`. Inductive given the types. The
  case to look at is `accept_DATA` with entry -1, which changes no session.
* **DataStaysHonest**: `Spec => []DataHonest`. Each DATA under way carries the
  block its number names: both handlers and the timer number blocks from 1 and seek
  from 0. It needs `IInv` for the range of what is acknowledged.
* **BlocksLandAtTheirPlace**: `Spec => BlockAtItsPlace`, an action property. It joins the
  previous two: a session accepts only the number it expects, the number is its
  position, and the DATA carries the block of that number. Opening a session
  changes no open one (`OpeningChangesNone`), even when the table is full and -1 is
  used. Of *which* chunk the block is, is not claimed here.

### One GET command for each user (OfferProofs)

* **OnlyOffersServed**: `Spec => []OfferInv`. Every hash in an IHAVE, every GET, DATA and
  ACK, every entry of the two tables and every upload is about a chunk that the one peer
  wants and the other has, and the line of an entry is the line of its chunk. So no
  search for a hash returns -1. `Fits` is one packet's share of it, `PeerFits` one
  peer's; what an IHAVE lists keeps the order of the `has_chunk` file, from which a
  waiting chunk is `Behind` another one.
* **WaitingHasWaker**: `Spec => []QueueHasWaker`. The invariant (`Awake`) follows the
  thread through an IHAVE and a scan: a chunk is put on the list only because a session
  is open, and a scan that leaves one there has seen an open session at the busy flag.

### One client for each provider (TransferProofs)

* **OrderKeepsChunks**: `Plain`, and `Spec /\ []Orderly`, where `Orderly` is
  `OneSessionPerPeer /\ TablesSuffice`: then `BlocksInPlace`, `GotIntact` and
  `EveryDownloadVerifies`. This is the argument that stop-and-wait needs, for chunks
  whose blocks have only a number. `InTurn(queue, T)` says which packets may stand behind
  each other in a path. With it, `Pair` says of a client, its provider and the two
  paths between them which of the following is the case: nothing is open and all
  that is under way is too late to matter (`Quiet`); the GET is on its way, with only old
  packets in front of it; or the provider serves the session (`Serving`), and then
  the numbers of its DATA and ACK in a path never go down, and the old DATA in front of
  them are block 2 or later, while the session still waits for block 1. Only with
  chunks of a single block could an old DATA be taken for the first of the next:
  hence N >= 2.
* **OrderKeepsPace**: on links that are not shared, and where no GET is dropped
  (`~Shared`, `[]GetsHaveRoom`), `UploadServesSession`,
  `SenderNotAhead` and `MaxAckGrows`. The same invariant, where moreover the GET of a
  session that is not served is under way (`Awaits`), and a provider whose transfer
  has ended has been told of block N - 1 at least (`Low`), so that the ACK 1 of finding 1
  can only reach it behind the next GET.

### Request files of two lines (SmallProofs, PromiseProofs)

* **OneSessionEach** and **TablesAreEnough** discharge `Orderly`: of two chunks of one
  provider the second waits at entry 0 of the list while the session of the first is at
  entry 0 of the download table, the only place where the busy flag of `utils.c:146` is
  right. `Tidy` says which shapes the two tables have, `Reading` how far the answers
  of the providers have been read, and `Once` that every provider is asked once, answers
  once and is heard once.
* **BlocksStayInPlace**, **GotStaysIntact**, **DownloadsVerify** then need no condition on the
  behaviour, for every N >= 2, any number of peers, and every loss, copy and delay of
  DATA and ACK. They are about swarms that satisfy `Small`, so about `max_conn` of 16 or
  more: with the `-m 4` of every test script `SlotUnmatched` is false, and finding 4 is a
  run in which `GotStaysIntact` fails. **UploadsServe** and **AcksGrow** keep `~Shared` and
  `[]GetsHaveRoom` (see RoomProofs).
* **OneSessionEachChunk** (`Apart`): the sessions of a peer are of different lines
  (`Sorted`). A session of a chunk with status 0 came from the waiting list. Its chunk is
  behind another of that provider, so no peer heard later has it.
* **DownloadKeepsPromise** (`Apart`): `Spec => KeepsPromise`, the refinement of
  Delivery. Initial states map to initial states; each action changes the stage of at
  most one line, and of it at most one block (`OneCell`). The invariant adds to the
  above that the file holds nothing beyond what the session of a line has stored
  (`Blank`), so that a line that begins begins at nothing, and a line that
  is GOT has its last block.

### Files of any length, providers with several customers (PromiseProofs)

Finding 2 mixes sessions with one provider up as soon as three chunks come from it, and
a second customer's GET takes the upload entry, so that a session is given blocks of
another chunk. What holds nevertheless, for every N and under every loss, copy and delay:

* **LinesStayApart**: `OneGet`, `Vary`, `Apart` and `SlotUnmatched` (`Many`) give `Spec /\ []TablesSuffice => []OneSessionPerChunk /\
  []GotIntact`. A line is GOT only when `check_hash` has compared the whole chunk; what
  could spoil it afterwards is a second session that writes to the line. The invariant,
  `ManyInv`, shows that there is none. `Spread` says that the sessions and
  the entries of the waiting list together are for different lines, that no session is
  for a line that is GOT, and that a session of a line with status 0 (finding 3) is for
  a chunk that was listed behind another of that provider. `Listens` carries this through
  the reading of an IHAVE: the hashes that are still to be read are of no line for which
  its sender was turned to before. `AskingInv`, shared with SmallProofs, is
  that every provider is asked once, answers once and lists a chunk once. Nothing is said
  about the order of packets, because nothing depends on it. `[]TablesSuffice` is a
  condition on the behaviour because an overrun table loses a session or an entry
  at -1. In `three`, whose download table is smaller than the file, TLC shows that it is
  met; there the theorem explains why `GotIntact` holds.
* **AmpleTablesSuffice**: the same four and `Ample` give `TablesSuffice`, so that the other two
  no longer need it as a condition on the behaviour. Without `Apart` finding 3 opens two
  sessions for a chunk, and without `SlotUnmatched` finding 4 overwrites a GOT chunk,
  however large the tables are. By the pigeonhole principle: if a table were full when a chunk is put
  there, sessions or entries and the new line would be more than there are lines, and
  two for one line (`TwoOnALine`). For the waiting list one less will do, because the
  session that makes a chunk wait has a line of its own (`EntryLeft`). The proof is by
  induction together with `ManyInv`: where the tables suffice before a step,
  `Spread` holds and they suffice after it.

### Room for every GET (RoomProofs)

* **RoomForGets**: `Small` and `Roomy` give `Spec => []GetsHaveRoom`, by counting what two peers
  have under way between them. `deal_with_DATA` answers a DATA that no session waits
  for with two ACKs (finding 4 is the same slip), and if each of them brought a DATA,
  packets would breed. They do not: such a DATA is the last block of its chunk, and nobody
  answers the ACK of a last block (`StrangerWeighs`). So a packet weighs 2 if its answer
  may have to be answered in turn (`Live`: a GET, a DATA, an ACK before the last) and 1
  otherwise, and answers never weigh more than what they answer (`AnswersWeigh`). What
  adds weight is the timer and the copies, which `MaxInFlight` bounds, and the steps of a
  request. `Due` is what a request may still add to a pair of peers, and each step takes
  off there what it adds to the paths (`BudgetMoves`): a WHOHAS brings one IHAVE, an IHAVE
  opens one session of a provider and leaves at most one chunk of it waiting
  (`Small`). `Budget` bounds the two together; it is inductive beside the invariants of
  SmallProofs and the fact that nobody sends to himself (`SelfEmpty`).
* **UploadsAlwaysServe** and **AcksAlwaysGrow**: with it `UploadServesSession`,
  `SenderNotAhead` and `MaxAckGrows` need no condition on the behaviour, in the same
  swarms.
* These three rest on two things the code does not give. Each two peers have a link of
  their own: a hop of the simulator that other paths use too, or a second hop, may
  be full whatever two peers send, and there nothing keeps a GET from being dropped.
  And `MaxInFlight`, a bound of the model, bounds what the timer adds, which the code
  repeats without any bound.
* What `Roomy` asks of a network: a block is repeated every 500 ms for which its ACK is
  missing, so `MaxInFlight` is the number of such periods in a round trip, and the
  copies. The 50 packets of a hop in `topo.map` are enough for 20 of them, for two peers
  at its ends; a hop of 10 or one that is shared is not covered, and there the conditional theorems (`UploadsServe`, `AcksGrow`) are what
  is known.

### Buffer, loop and chunks

* **LinesAsTyped**: `InputTypeOK`, `ExitMeansLongLine` and the refinement of LineReader, for
  every buffer size and text, under `ReadsEndWithLine`. The strengthening,
  `InputInv`, is about the whole buffer, old bytes included: the only newline in it is
  the one that was just read, as the last of the counted bytes.
* **LoopSound**: the safety invariants of `loop`, for every length of a second, every first
  timeout and descriptor set, and `Platform`. It says what the loop waits for and how
  long, with the exception of the first pass that is part of `ReceivesWhatIsThere` and
  `CrashMeansFirstTimeout`; that the thread also waits a second in `sleep` after a
  chunk is part of the model. `LoopInv` adds to the types that until a DATA is sent the
  timeout is what is left of the first (`BeforeInv`: every pass until then skips the timer
  or crashes), that from then on the timeout is sound or this very pass will compute it
  (`AfterInv`), and that what `select()` reported is still there (`ReadyInv`). The
  arithmetic of the two fields is in lemmas of its own.
  **LoopReadsLines**: the loop reads lines as the test program does.
* **ChunksTyped**: `ChunksTypeOK`. The lengths passed to the copies of `SHA1Update` and
  `SHA1Final` stay between 0 and a block: between two calls the buffer holds less than
  a block.
* **HashesWhatItReads**: `NothingLost` and `PaddedRight`, for every block and length field.
  `NothingLost` is nearly inductive: a pass of the loop moves bytes from the call to the
  buffer and keeps their order (`FillKeeps`). It lacks how much is left: padding ends
  where the length begins, and the length ends a block (`BlocksFit`).
* **PrintsTheFile**: `SlotsSuffice` and `ListingIsFile`, for every file and chunk size. The
  invariant says how far main is (`Behind`), from which the last chunk begins before
  the end of the file; `HexRoundTrip` is that digits are read back as they were printed.

### Only model-checked

* Liveness (`FileArrives`, `BlockRepeated`, `Finishes`): under fairness, out of the
  prover's reach, as ENABLED is.
* `GotIntact` with a second GET command (`twice`): a chunk is right there only because
  the sessions of the first command go on in the file of the second and `check_hash`
  compares what they leave. Without `OneGet` an answer may be read against the wrong
  file, and the argument of OfferProofs, on which `Spread` rests, has no start.
* `TablesSuffice` in `three`, where the download table is one entry smaller than the file:
  it holds because the scan asks for the last chunk after the first has come.

## 6. Not modelled

* Command-line and peer-list parsing (`bt_parse.c`): runs once; its results are constants.
* `SHA1Guts`: the compression of one block, straight-line arithmetic on 32-bit words. A
  hash is equality of contents everywhere else.
* Routing, latencies and bandwidth of the simulator (`createTable`, `topo.map`): they
  decide only when a packet arrives, and the model lets it arrive at any time.
* Debug output (`debug.c`); the demonstrations `client.c` and `server.c`; the old copies
  `peer_backup.c` and `spiffy_ok.c`, which nothing links; the checkpoint scripts.
* File descriptors, several of which are never closed (`handler.c:304`), and the bytes
  behind the digits of a line number in an unwritten buffer (`utils.c:48`): both depend
  on the system the peer was built for.

What remains open: `GotIntact` for all tables and files without `OneGet`, from what
`check_hash` has compared and from who may still write to a line that is GOT; and
`TablesSuffice` for the tables that are smaller than the file and still large enough.
