# A TLA+ model of the CopperTalk firmware

CopperTalk bridges a LocalTalk network to LToUDP (LocalTalk frames in UDP
multicast). A TashTalk chip does the LocalTalk signalling and talks to the
board over a 1 Mbit/s UART; the firmware, on Zephyr and one STM32F1, moves
packets between that UART and a UDP socket. These modules model the part of it
that moves packets. They are translated from `src/src/*.c`; line numbers in
`PROJECT.json` (`map`) say which lines each definition stands for.

## 1. The system

### Components

| Component | Source | State it keeps | Operations |
|---|---|---|---|
| Buffer pool | `buffer_pool.c` | a message queue of free buffer pointers; 50 static buffers | `init_buffer_pool`, `bp_fetch`, `bp_relinquish` |
| Queues and start-up | `main.c` | `UARTtoApps`, `AppsToUDP`, `UDPtoUART`, 20 pointers each | `main` |
| UART receive | `uart.c`, `tashtalk.c` | the byte queue `uart_msgq` (768), `rxstate` (packet in progress, escape), `handshake_count` | `serial_cb` (interrupt), `feed`, `do_something_sensible_with_packet`, `uart_check_for_tx_wedge` |
| UART transmit | `uart.c` | `node_table`, `node_table_packet` (what TashTalk was last told) | `uart_tx_runloop`, `uart_write_node_table`, `uart_init_tashtalk`, `tashtalk_tx_validate` |
| Apps | `apps.c` | none of its own | `apps_runloop`: NBP look-up (logged only), set-up request (reboots) |
| LToUDP socket | `ip.c`, `network.c` | `udp_sock`, `forward_for_nodes`, `network_ready`, the multicast address slot of the interface | `init_udp`, `udp_rx_runloop`, `udp_tx_runloop`, DHCP callback |
| Node freshness | `node_table.c` | per node: last seen (seconds), seen at all | `nt_touch`, `nt_fresh`, `nt_serialise` |
| Packet accessors | `packet_utils.c`, `pstrings.c` | none | length-guarded reads of LLAP, DDP, NBP and ATP fields |
| LEDs | `led.c` | per LED: level, event, thread | `turn_led_on/off`, `flash_led_once`, `led_runloop` |
| CRC | `crc.c`, `crc32.c` | none | frame check sequence |
| Wi-Fi, scan, storage, recovery, USB | `wifi.c`, `scan_manager.c`, `storage.c`, `recovery*.c`, `usb.c` | | left over from the ESP32 firmware: `src/src/CMakeLists.txt` does not build them |

### How they interact

    TashTalk -> [ISR] -uart_msgq-> uart_rx -UARTtoApps-> apps -AppsToUDP-> udp_tx -> LToUDP
    TashTalk <-------------------- uart_tx <------------UDPtoUART--------- udp_rx <- LToUDP

Every packet is in one buffer of the pool from end to end; the queues carry
pointers. The receiving ends (`uart_rx`, `udp_rx`) fetch buffers, the sending
ends (`udp_tx`, `uart_tx`) relinquish them, and each thread has early exits
that relinquish too. All threads share the pool without a lock of its own (the
kernel's message queue is the lock). `node_table` is written by `uart_tx` and
read by `uart_rx`, `forward_for_nodes` is written by `udp_tx` and read by
`udp_rx`, `udp_sock` is written by `udp_rx` and read by `udp_tx`; the UART to
TashTalk is written by `uart_tx`, and by `uart_rx` when it thinks that
TashTalk is stuck.

### What is hard here

* **Preemption.** Five threads with priorities 3 (`uart_tx`), 4 (`uart_rx`) and
  5 (the other three), preemptible, on one processor. `bp_relinquish` gives a
  buffer away before it zeroes it.
* **Back-pressure.** 50 buffers and 3 queues of 20; three threads wait for ever
  when the queue in front of them is full; `feed` goes round in circles when
  the pool is empty; interrupt and kernel drop what they cannot keep.
* **Exactly one owner** of each buffer on a dozen paths, with `bp_relinquish`
  failing silently if that is ever broken.
* **Time.** Nodes are fresh for an hour (for TashTalk's mask: half an hour),
  and for the whole first hour after boot.
* **A chip that keeps state.** TashTalk's command parser and node mask are out
  of the firmware's sight, and it is reset blindly.
* **A network that comes and goes**: the socket is opened, fails, and is opened
  again.
* **Reboots** in the middle of anything (a set-up request calls `sys_reboot`).

### What makes each component correct

* Pool: a buffer has one owner; none is lost; a free buffer is zeroed or about
  to be; `OH_NO_LED` is lit only when the pool really ran out.
* Pipeline: no packet is lost, doubled or reordered once accepted; threads hold
  a packet exactly where they should; nothing deadlocks; the pool is big
  enough; packets are not corrupted by late memsets; nothing goes back out to
  the side it came from.
* UART transmit: TashTalk parses the commands that were meant, in whatever order
  the two writers are scheduled; after a reset it knows the nodes.
* UART receive: the frames that `feed` builds are the frames that TashTalk sent
  unless the byte queue has overflowed, and it recovers after that.
* Node table: TashTalk's mask and the filter agree with who has been heard from.
* Socket: one socket at most, never leaked, opened again after a failure.

The list of hazards, each at its line with the properties that cover it, is in
`PROJECT.json` (`hazards`).

## 2. The modules

| Module | Models | State ↔ code |
|---|---|---|
| `BufferPool` | `buffer_pool.c` as actions for the modules whose threads call it | `pool` = `bp->queue`; `mem` = contents of the buffers; `pkt[t]` = the local packet pointer of thread `t`; `scrub[t]` = that pointer while `t` is between the `k_msgq_put` and the `memset` of `bp_relinquish`; `ohNoLed` = `OH_NO_LED` |
| `BufferPoolClient` | the discipline of threads that use the pool, with the most general threads: the abstract specification of buffer ownership | `transit` = buffers in queues between threads |
| `Pipeline` | the five run loops and three queues, any interleaving | one variable per queue and table; `pc[t]` = the blocking or overtakable point thread `t` is at |
| `PacketLink` | the abstract specification of one direction of the bridge | `link` = packets inside, in order |
| `PriorityPipeline` | `Pipeline` with the scheduling that the thread priorities give | same state |
| `BufferPoolClientProofs`, `PipelineProofs`, `UartLinkProofs`, `TashTalkRxProofs`, `UdpSocketProofs`, `LedProofs`, `CrcProofs`, `PacketsProofs` | theorems about the module of that name (`PipelineProofs`: also about `PriorityPipeline`, and that `Pipeline` implements `BufferPoolClient` and `PacketLink`; `UartLinkProofs`: `NodeTable`'s too; `PacketsProofs`: `PacketUtils`' too) | |
| `NodeTable` | `node_table.c`: the three functions as operators on a table, and the clock | `node_table` = `last_seen` and `seen_at_all`; `nodebits` = `node_table_packet`; `now` = whole seconds of uptime |
| `UartLink` (extends `NodeTable`) | `uart_tx`, the wedge reset in `uart_rx` and the start-up reset in `main` writing to the UART byte by byte, and TashTalk's command parser | `written[t]` = bytes that `t` has written of what it is writing; `tt`, `ttMask` = TashTalk's parser and the nodes it answers for |
| `TashTalkRx` | the bytes from TashTalk, `serial_cb`, `uart_msgq` and `feed` | `uart_msgq`; `in_escape`, `packet_in_progress` = `rxstate`; `pc` = whether `uart_rx` is in `k_msgq_get`, in `feed` or in the `k_msgq_put` of a frame; `frame`, `owed` = what TashTalk is sending; `lossy`, `prevLossy` and the records in the queue remember what was lost |
| `UdpSocket` | `network.c` and the socket of `ip.c`, a step per call into the network stack | `network_ready`, `udp_sock`; `sock` = the local variable of `init_udp`; `sockets`, `maddrs` = the network stack's descriptors and multicast slots |
| `Crc`, `PacketUtils`, with `Loops` | `crc.c`; `packet_utils.c` and `pstrings.c`; what a `for` loop computes | operators on packets as sequences of bytes |
| `Packets` (extends both) | one frame byte by byte through `feed`, `apps`, `udp_tx`, and `udp_rx` and `uart_tx` of another bridge | `packet`, `crc` = the packet buffer and `rxstate.crc`; `at` = where it is; `looked` = what `is_our_nbp_lkup` returned |
| `Led` | `led.c` | per LED: `gpio_state`, `pin`, `event`, and `pc` and `level` of its thread |
| `MC…` | instances for TLC | |

**Steps.** A step of a thread in `Pipeline` is what it does from one point where
it can block, or where overtaking it makes a difference, to the next.
`bp_relinquish` is two steps (`bp_relinquish`, then `bp_relinquish_memset`);
`k_msgq_put/get` are atomic because the kernel locks the queue. The `memset` is
one step, though a thread can be overtaken in the middle of it. It sets the
length to 0 before it gets to the bytes, so whoever goes on with the buffer
meanwhile writes from its beginning, and when the `memset` goes on the packet
keeps its new length with zeros from some byte on. In the model it loses the
length as well; in both it has lost what was in it, and that is what the
properties ask (`Nothing` in `PacketLink` stands for any such packet). `feed` takes a
run of bytes per step rather than a byte: what matters to the pool and the
queues is that a buffer is appended to over several steps, from the length that
it was left with.

**Packets.** What the pipeline's control tells apart in a packet is destination,
source, and one of five kinds (`Kinds` in `Pipeline`); a buffer is a sequence of
runs of bytes since its length was 0. So a buffer that was not zeroed shows as a
packet that begins with someone else's bytes.

**TashTalk.** It is outside this repository; `UartLink` models of it what the
firmware relies on: commands 0 (nothing), 1 (a frame follows) and 2 (a mask
follows), and that it takes a frame's length from the frame. In `UartLink` a
frame's second byte says how many bytes follow, in place of the LLAP length
field. TashTalk may miss a byte that is written without looking at CTS (`Miss`,
at most `MaxLost` times): the code's comment speaks of "buffer weirdness", and
`uart_tx` looks at CTS for the bytes of a frame only. What needs every byte to
arrive (`MaskTold`, `NodesAnswered`, `FramesIntact`) says so with `lost = 0`;
`ResetSynchronises` holds whatever was lost.

`TashTalkRx` has the other direction: a frame's bytes with 0 escaped, and one of
three ends. The interrupt handler may lose any byte for which `uart_msgq` has no
room. The properties speak of frames that nothing was lost from, and whose
predecessor ended as it should: that is what `sure` says of each byte. Bytes
that could be an end code and end codes are told apart by the escape only, so
`Data` has 253 in it.

**Bytes.** `Packets` is the one module in which packets are strings of bytes,
since its properties are about where fields are and how lengths are counted. Its
frames are written by the external side (`Encode`), from records that say what
the sender meant; the properties compare what the code reads with these records.
TashTalk can end a frame anywhere. The pool's zeroed buffer is `At`'s 0 past the end.
`IsFrame` says what is a frame (`FramesAssumption`: that all of `Frames` are):
fields have their widths, and no more than 600 bytes follow the first three.
LLAP types are all 256: control frames, short and long DDP headers, and types
that the code only forwards. So are the six bits above the length (a hop count,
if there is a long header), checksum, networks and sockets of a long header, and
the bitmap, TID and user bytes of ATP, which nobody looks at but which must
arrive. A frame can be NBP or ATP in name only (`raw`), with any bytes in place
of what its DDP type says: it must arrive like all others, and what `apps` makes
of it is left open, as there is nothing that its sender meant. C's `^` is `Xor`,
bit by bit by division, and a C loop is `Loop`, a function of the round.

**Calls of the network stack.** In `UdpSocket` `socket` and `bind` may fail at any
time, and `recv` once a socket is in use; `net_if_ipv4_maddr_add` fails exactly
when no multicast slot of the interface is free, which is the one reason that
the configuration gives it. `udp_tx` may run between any two steps of `udp_rx`, which covers
the stack's own threads waking either. Within `udp_tx` the test of `udp_sock`
and `sendto` are one step, since the two threads have the same priority and no
time slices.

**Tables.** In `Pipeline` a node table is the set of nodes that are fresh;
`Expire` takes a node out at any time after it got in, which covers every clock.
That a table is such a set is what `NodeTable`'s `FreshSetSpec` says (a second
in which several nodes expire is several `Expire` steps).

**Scheduling.** `Pipeline!Spec` lets any thread run at any step.
`PriorityPipeline` lets a thread run only when no thread of higher priority is
ready, and threads of equal priority switch only where they block: the
priorities are those of the `k_thread_create` calls, and `prj.conf` sets no
time slice (Zephyr's default is none). `recv`, `sendto`, `k_msgq_get` and a `k_msgq_put` with
`K_FOREVER` are the calls that can block. `uart_rx` waiting for a byte, and in
`k_msleep(10)`, may or may not go on: bytes and time come from outside.

**Reboot.** A set-up request makes `apps` restart the firmware in the middle of
whatever the others do; static storage comes back zeroed, and the pool is filled
anew in any order (buffers differ in nothing else).

## 3. The runs

| Run | Bounds | What it shows |
|---|---|---|
| `pool_client` | 3 buffers, 3 threads, 2 contents | `OneOwner`: ownership is exclusive and nothing is lost in any sequence of calls; `PooledIsScrubbed`: a free buffer is zeroed unless a memset is pending for it |
| `pipeline` | 3 buffers, queues of 2 | the five threads follow that discipline (`ClientSpec`, a refinement), hold packets exactly where they should, lose no buffer (`Accounted`) and never overflow the pool's queue (`NeverOverflows`), through reboots; each direction refines `PacketLink` (`LinkToUdpSpec`, `LinkToUartSpec`): in order, once each, only wiped by a late memset |
| `pipeline_live` | 2 buffers, queues of 1, two nodes that talk to each other | `PacketsMoveOn`: no packet stays in a queue for ever |
| `priority` | 6 buffers, queues of 1, packets of up to 2 runs | under the priorities: the pool never runs out (`NeverUnderflows`), one packet at a time on the way to the UART (`OneOnTheWayToUart`), only `udp_tx` can be late with its memset (`OnlyUdpTxLate`), packets from UDP are never wiped (`UdpPacketsIntact`, `PromptLinkToUartSpec`), nothing is echoed (`NoEcho`) |
| `uart_link` | 2 nodes, 2 mask bytes of 2 bits, 4 packets, 6 zeros, 2 bytes missed, cutoff and uptime of a few seconds | `OneWriter`: no two threads are in the middle of writing to the UART; unless a byte was missed, `FramesIntact`: TashTalk sends exactly the frames that were meant, `NodesAnswered`: it answers for a frame's sender before it gets the frame, and for every node that is fresh, except while a new mask is on its way, `MaskTold`: telling it of changes only is enough, through resets and reboots; whatever was missed, `ResetSynchronises`: after a reset TashTalk waits for a command. Of the table: `FreshSetSpec`: touches add, time and restarts remove, nothing else; `FreshWithinASecond`: the rule for the time after the start and the comparison for later fit together; `MaskListsFresh`: the mask has the right bits, whatever it had before |
| `tashtalk_rx` | byte queue of 2, packet buffer of 2 bytes, frames of up to 3, bytes 0 and 253 | `LossIsLocal`: after any losses, or a restart in the middle of a frame, the frame after the next is collected as it was sent; `ForwardedAsSent`: only complete frames go on |
| `udp_socket` | 2 descriptors, 3 multicast slots | `SocketsInHand`: no socket is leaked, and `udp_rx` never receives on a closed one; `SendsOnlyWhenReady`: `udp_tx` never sends through a socket that is open but not ready; `ComesUp`: a lease, whenever it comes, brings the socket up while there is a slot |
| `packets` | 333 frames with names of 2 and 3 bytes, cut off anywhere | `CrcDivides`: each step through the table is the division it stands for; `WholeFramesArrive`: the other bridge sends what this one received, byte for byte, except control frames, of which it sends none; `TruncatedNeverSent`; `TuplesAsSent`, `LookupsAsSent`, `SetupAsSent`: what `apps` makes of a frame is what the sender wrote, and nothing that did not arrive |
| `led` | 1 steady and 2 flashing LEDs | `LevelShown`: no ending flash leaves a LED at an old level; `FlashEnds`, `FlashSeen` |
| `reset_mask` | as `uart_link` | a violation, see Findings |
| `udp_reopen` | as `udp_socket`, with the 1 slot that `prj.conf` sets | a violation, see Findings |
| `zeroed_fetch` | as `priority`, 1 run per packet | a violation, see Findings |

**Why the bounds are enough.** Two or three buffers with queues of 1 or 2 make
every boundary happen: an empty pool, full queues in front of each of the three
threads that wait, a buffer that goes round while its memset is still pending.
Queues of 1 keep order trivially, so `pipeline`, which checks the two links, has
queues of 2. The
`priority` run has exactly the number of buffers that `EnoughBuffers` asks for
(`2 * QCap + 4`), one fewer would let the pool run out. Buffers are
interchangeable, and so are the threads of `BufferPoolClient`: those symmetries
are used for safety only, never in the liveness run.

In the UART runs masks have bytes that are commands when they are not data, one
packet is shorter than it claims, and the zeros are one more than the longest
frame that can be claimed, as the code's 1024 are more than the 603 bytes of an
LLAP frame. The clock runs past the special case for the time after the start.

In `tashtalk_rx` a queue of 2 loses bytes as soon as `uart_rx` pauses, wherever
it pauses; a frame of 3 with a buffer of 2 overflows, and so do frames that run
together. In `packets` the control frames to every node take the CRC through all
256 entries of the table. Some frames have all six bits set above the
length field, or no byte after it. None is so long that the length field needs
its own high bits (the loops over its bytes are too deep for TLC's stack): that
they are right is among what `WholeFrames` and `NoTruncatedFrames` prove. Two
requests are short of the last one or two bytes of the name, and their FCS has
these. `Magic` and `NbpType` are short, because the code compares them as
a whole; `MaxType` is longer than `NbpType`, as 32 is. Three slots in
`udp_socket` allow for two failures of `recv` and a third start.

**Fairness.** `FairSpec` of `Pipeline` has weak fairness for each thread's steps that depend
on nothing but the other threads, and none for bytes, datagrams, `init_udp`,
`recv` or the clock. It is what the scheduler gives when the UART and the
network do not keep the processor busy for ever: the higher priorities are
finite work per frame at 230.4 kbit/s. `FairSpec` of `Led` assumes the same of
the LED threads, which have the lowest priority of all. `FairSpec` of `UdpSocket`
has weak fairness for `main` and for `udp_rx`, except for `recv`, which may wait
for ever, and strong fairness for the success of `socket` and `bind`, since the
code tries again every second for as long as they fail; none for the lease, and
none for `net_if_ipv4_maddr_add`, whose outcome the model decides.

## 4. What is proved

Every theorem below is for all values of the constants that the module's
assumption allows: any number of buffers, threads, nodes and LEDs, any queue
length, frame and packet size, any traffic. `PROJECT.json` (`theorems`) lists
them with the property that a run checks for each. The proofs have one step per
action, and cite small facts drawn from the type invariant (`QueueTypes`,
`PktType`, `InvParts`, ...). Every inductive invariant was first checked by TLC
on the run's instance.

**`BufferPoolClientProofs`**, of `BufferPoolClient!Spec`:

* `BuffersHaveOneOwner`: `[]OneOwner`, which is inductive by itself. The
  difficult part is that a thread which relinquishes a buffer never finds the
  queue full: the queue is without repetitions and has not the thread's own
  buffer in it, so it is shorter than the number of buffers.
* `FreeIsScrubbed`: `[]PooledIsScrubbed`, with `OneOwner`: who writes to its own
  buffer writes to none that is free.

**`PipelineProofs`**, first part, of `Pipeline!Spec`:

* `TypeCorrect`: `[]TypeOK`; `PacketWhereItShould`: `[]HoldsWhereItShould`.
* `NoLeak`: `[]Accounted`. Free, queued and held buffers add up to all there
  are. It is not inductive as it stands: a thread that fetched while it held a
  packet, or relinquished without one, would break it. The inductive invariant
  is `Inv == TypeOK /\ HoldsWhereItShould /\ Accounted`.
* `NoOverflow`: `[]NeverOverflows`, from `NoLeak` and `BufferCount <= PoolCap`.

**`PipelineProofs`**, second part, of `Pipeline!Spec`:

* `PipelineFollowsDiscipline`: `Spec => ClientSpec`. The five run loops
  implement the abstract specification of buffer ownership: every step is one
  of a general client's or changes nothing that the pool can tell. The abstract
  `transit` is a set and there are three queues here, so that a `k_msgq_get`
  takes a buffer out of the set only if it is in the queues once: the invariant
  adds `QueuesApart` to `Inv` and `OneOwner`.
* `PipelineHasOneOwner` and `PipelineScrubs`: what the discipline promises, for
  the pipeline.
* `OrderedToUdp`: `Spec => LinkToUdpSpec` and `OrderedToUart`:
  `Spec => LinkToUartSpec`. Each direction implements `PacketLink`, for queues of
  any size: packets leave in the order in which they came, none lost or twice,
  and at most `2 * QCap + 3` and `QCap + 2` are inside. The proof is about the
  buffers on a way as one sequence, from the thread that takes packets out back
  to the one that puts them in (`UdpChain`, `UartChain`). A `k_msgq_put` or `get`
  leaves it as it is (`PutKeepsChain`, `GetKeepsChain`: concatenation is
  associative), so what is left to a step is to add at its end, to take from its
  front, or nothing (`ChainStep`, with one lemma per action). From buffers to
  packets it takes that no buffer is in a sequence twice, by the invariant
  above: otherwise one `memset` would wipe two packets, and `feed` could append
  to a packet that is on its way.

**`PipelineProofs`**, third part, of `PriorityPipeline!PrioritySpec`:

* `OnePacketToUart`: `[]OneOnTheWayToUart`. The reason is `uart_tx`'s priority:
  `udp_rx` does not run while `uart_tx` has something to do, so it can fetch
  only when nothing is on the way.
* `NoUnderflow`: `[]NeverUnderflows` for any pool of `2 * QCap + 4` buffers or
  more. `main.c`'s 50 buffers for queues of 20 are 6 more than that. The
  inductive invariant is `PriorityInv`: `Inv`, the two facts themselves and
  that no queue is longer than `QCap`. What is away from the pool then adds up
  to less than `2 * QCap + 4` whenever a thread without a packet asks for one.
* `OthersScrubInTime`: `[]OnlyUdpTxLate`, `UdpPacketsArrive`:
  `[]UdpPacketsIntact` and `NothingComesBack`: `[]NoEcho`, in one invariant
  (`ContentInv`), since each needs the others: who may still wipe which buffer
  (`Aliases`) decides what can be in it, and that `udp_tx`'s late `memset` never
  hits a packet from UDP needs that such a packet is not where `udp_tx`'s old
  one is: on the way from the UART, or free.
* `PromptToUartOrdered`: `PrioritySpec => PromptLinkToUartSpec`. With priorities
  the link to the UART has room for one packet, by `OnePacketToUart`, and wipes
  none: it would be empty afterwards, and no packet on that way is.
* `OnlyUdpTxCanWipe`: `PrioritySpec => OnlyUdpTxWipes`, the other direction. A
  packet on its way to UDP changes only by `feed`'s own `append`, before it is
  passed on, and by a `memset` of `udp_tx`; no other thread writes to it. No
  run has this property; the finding about `bp_relinquish` is the `memset` it
  allows.

**`TashTalkRxProofs`**, of `TashTalkRx!Spec`:

* `NothingOverflows`: `[]RxTypeOK`, `LossesAreLocal`: `[]LossIsLocal`,
  `ForwardsWhatWasSent`: `[]ForwardedAsSent`. The properties speak of the byte
  that `feed` has now, TashTalk is as far ahead as the queue is long. The
  inductive invariant `RxInv` relates the two by the course that `feed` will
  take with the bytes in the queue (`Course`): a sequence of its states that
  starts where it is now, goes on by `AfterFeed` from byte to byte, as it should
  at each byte that is `sure`, and ends with what TashTalk has sent (`AtEnd`:
  all of the frame if nothing was lost from it or before it; at least whether
  there is an escape, from the first byte of the frame after a loss). Sending a
  byte appends to the course, taking one from the queue drops its head.

**`UartLinkProofs`**, of `UartLink!Spec`:

* `LinkTypes`: `[]TypeOK`, `NeverTwoWriters`: `[]OneWriter`, `MaskIsTold`:
  `[]MaskTold`, `NodesAreAnswered`: `[]NodesAnswered`, `CutoffIsKept`:
  `[]FreshWithinASecond`, and the action properties `ResetsSynchronise`:
  `ResetSynchronises`, `FramesStayIntact`: `FramesIntact`, `MasksListFresh`:
  `MaskListsFresh` and `TableIsASet`: `FreshSetSpec`.
* `NodesAreAnswered` needs, beside `LinkInv` (below), that every fresh node is in
  `nodebits` at all times (`FreshListed`): only `uart_tx` adds to the table and
  makes a new mask each time, and the clock takes nodes out of the fresh ones
  but not out of the mask. The converse is false, as the TODO in `uart.c` says:
  nodes that are stale stay in the mask until there is a frame to send.
* The inductive invariant `LinkInv` says who may write (`Alone`: during a reset
  `uart_tx` sleeps and its queue is empty, so nothing of lower priority can wake
  it); what TashTalk has of what is being written, byte for byte, unless bytes
  were missed (`InStep`); that it answers for `nodebits` but while a mask is on
  its way (`Answers`); and how many zeros it can still take for data
  (`Pending`), which goes down with each zero of a reset (`ZerosDo`). A frame
  can claim less than `ZeroCount` bytes, so none are pending at the end.
* Under these are the bits of a mask. `Bit` and the loop in `Byte` are recursive
  functions, and that `Listed` reads from a mask what `nt_serialise` put into it
  (`MaskLists`) is an induction over the bits of a byte, for every width. It is
  done by the least counterexample: a set of natural numbers that is not empty
  has a least element (`LeastNumber`), and a function that is defined by
  recursion exists because the least `n` up to which there is none would have
  one (`Recursion`).

**`UdpSocketProofs`**, of `UdpSocket!Spec`:

* `SocketsAreInHand`: `[]SocketsInHand`, and `OnlyReadySends`:
  `[]SendsOnlyWhenReady`. That no socket is lost depends on where `udp_rx` is in
  its calls, which the inductive invariant `SocketInv` adds: how far `sock` is
  while it is being opened (`SockProgress`), and that `udp_sock` is set nowhere
  but in the receiving loop and open until it is closed (`UdpSockPlace`).

**`LedProofs`**, of `Led!Spec`:

* `RestShowsLevel`: `[]LevelShown`. A thread that wrote back a level it had read
  before somebody turned its LED would break that; the invariant says why none
  does: the LEDs that are turned never flash, since the one post that they get
  comes before their threads run and is forgotten (`SteadyIdle`, `NotStarted`).

**`CrcProofs`**, about the operators of `Crc`:

* `AppendDivides`: a step of `crc_state_append` through the table is the
  division of the register by the polynomial, for all 65536 registers and 256
  bytes. Nothing is enumerated but the table: `Xor` is what it is bit by bit
  (`XorBits`, `SameBits`), so it commutes, associates and cancels; with that a
  shift of the register is linear (`ShiftLinear`), a byte can be added to the
  register before its eight shifts (`DivideIsEight`), and these do nothing to
  the high byte but move it down (`EightOfHigh`). What is left is that the
  entry of each byte is what eight shifts make of it, which linearity reduces
  to the eight powers of two (`TableDoubles`).
* `Residue`: a register that takes in its own complement, low byte first, is
  61624 after it, whatever it was, which is what `crc_state_ok` looks for.
* `FcsIsGood`: so bytes of any number are good with the frame check sequence
  that dividing bit by bit gives. That needs what a loop computes, round by
  round and for any number of them (`LoopSteps`, `SameLoops`), by the least
  counterexample again.

**`PacketsProofs`**, of `Packets!Spec`, for any set of frames that meets
`FramesAssumption` and any names that meet `NamesAssumption`:

* `TableIsDivision`: `CrcDivides`, `PacketTypes`: `[]TypeOK`, `WholeFrames`:
  `[]WholeFramesArrive`, `NoTruncatedFrames`: `[]TruncatedNeverSent`,
  `TuplesRead`: `[]TuplesAsSent`, `LookupsRecognised`: `[]LookupsAsSent`,
  `RestartsAsAsked`: `[]SetupAsSent`. `WholeFrames` and `NoTruncatedFrames` are
  of every frame that `IsFrame` allows; the last three leave out frames
  that are NBP or ATP in name only.
* The inductive invariant `Inv` says of the packet, wherever it is, that it is
  made of the bytes that have come (`Arrived`): as they are, behind four bytes
  and without the last two, or with a frame check sequence of the bridge's own
  (`PacketInv`); that `rxstate.crc` is the register after these bytes
  (`FrameInv`); and that `apps` saw what there is (`AppsInv`). With that the
  properties are about sequences of bytes.
* That whole frames arrive is then `FcsIsGood` (the new frame check sequence is
  the old one) and what `tashtalk_tx_validate` asks of a frame (`WireValid`).
  That nothing else does is arithmetic: a length field that fits the frame does
  not fit a shorter one.
* What the accessors read rests on where the pieces of a frame are. The encoder
  is a loop that appends tuple to tuple (`TuplesBytes`), so each tuple begins
  where those before it end (`TuplesInFrame`); `nbp_tuple` is a loop that skips
  tuple after tuple, and is there too or past the end of all packets
  (`CursorInFrame`), from where it reads nothing (`PastIsPast`). A string is
  read if all of it has come (`ReadString`), so a tuple is (`ReadTuple`).
* The comparison of names is that of C strings: `pstrncpy` stops at the first 0
  (`CopyCompares`), and a name without a 0 is not found in zeroes past the end
  of a packet (`NameRead`).
* While this was proved, `SetupAsSent` turned out to be false for requests that
  no run had: see Findings.

**Assumptions.** Of the constants, each theorem assumes only what its module's
`ASSUME` says, which TLC evaluates in the run of that module: queues and buffers
have a size, there is room in the pool's queue for every buffer
(`PipelineAssumption`), descriptors are natural numbers, so that -1 is none
(`SocketAssumption`), `NULL` is neither a byte nor a packet (`RxAssumption`), a
cutoff is not 0 (`TableAssumption`), and of the link to TashTalk
(`LinkAssumption`): a node's number is a byte (256 nodes, 8 bits), 2 is a byte,
frames have at least two bytes, and the zeros of a reset are more than a byte
can count, as 1024 are. Of frames `IsFrame` asks that fields have their
widths, that the length field is right and that LLAP's 600 bytes are enough;
it says nothing about bytes that nobody meant as a frame, but frames may be
cut off wherever one likes; `NamesAssumption` that names
are C strings that fit their buffer. The theorems about `PrioritySpec` are of the
scheduling that the priorities give; `NoUnderflow` has the hypothesis
`EnoughBuffers`, which `main.c`'s sizes meet. The theorems of `UartLinkProofs`
that need every byte to arrive say so with `lost = 0`, as the properties do.

**Only model-checked:** liveness, which is out of the prover's reach
(`PacketsMoveOn`, `ComesUp`, `FlashEnds`, `FlashSeen`), and that `reset_mask`,
`udp_reopen` and `zeroed_fetch` are violated. Every other property of a run is
a theorem, too.

## 5. Findings

`buffer_pool.h` calls the pool thread-safe and says that `bp_fetch` returns a
zeroed-out buffer. Neither holds, because `bp_relinquish` returns the pointer to
the queue (line 79) before its `memset` (line 86). Under the priorities the
model still finds it: `udp_tx` (5) has put a buffer back and is overtaken by
`uart_rx` (4) before the `memset`; the pool is a FIFO, so `uart_rx` gets to that
buffer only after it has fetched all the others that were free, by passing
packets on until `apps`' queue is full and aborting frames (framing errors are
relinquished at once). Then

* `zeroed_fetch`: it fetches a buffer that still holds the old packet, and
  `append` goes on after it;
* or `udp_tx` resumes and wipes the frame that is being received (no run of its
  own, the same schedule one step on), or the end of it if it was overtaken in
  the middle of the `memset`.

`uart_rx` must receive for as long as it takes to go round the pool without
`udp_tx` getting the processor. It needs sustained traffic and is unlikely, but
nothing in the code excludes it. What still holds is in the `priority` run: only
`udp_tx` can be late, packets from UDP stay intact, and nothing is echoed.

Further findings:

* `reset_mask`: `uart_init_tashtalk` writes the node mask and then the zeros. If
  TashTalk is in the middle of a command, which is the case that the reset is
  for, it takes the mask for data. It ends up waiting for commands
  (`ResetSynchronises` holds) but with its old mask, which is wrong if the mask
  was what went missing, and is not told again until the firmware's changes.
* `udp_reopen`: `init_udp` adds the multicast address to the interface and
  nothing removes it. With the one slot of `prj.conf`, the first failed `recv` is
  the last: the retry loop opens a socket, fails at the address, closes it, once
  a second until the board is restarted.

Without a run of their own:

* `main` posts a flash to every LED before any LED thread has run (they have the
  lowest priority and `main` the highest), and each thread starts with a
  `k_event_wait` that resets its event. No LED flashes at the start. `LevelShown`
  depends on it: with that flash, `turn_led_on` could come between a LED thread's
  reading and setting the level (the mutant of that property).
* A node seen in second 0 is still fresh exactly `cutoff` seconds later, where
  `node_table.h` says less than `cutoff` (`FreshWithinASecond` allows for it).
* A frame with a bad CRC is forwarded, and the bridge at the other end gives it a
  good one: an error on one LocalTalk is noticed by no node on the other.
  `TruncatedNeverSent` holds because of the length field alone.
* `udp_rx` drops datagrams of 7 bytes or less, and an LLAP control frame is one
  of 7: ENQ and ACK never cross, in either direction, although `udp_tx` sends
  them and `tashtalk_tx_validate` has a rule for them (`WholeFramesArrive`: no
  control frame is sent at the other end, and every other frame is, however short).
* `recv`'s buffer has 607 bytes, so that the test for more than 609 is never true
  and longer datagrams are cut off; their length field then disagrees.
* What `net_ipv4_igmp_join` returns is only logged, and the loss of the lease is
  not noticed: `network_ready` never becomes false again.
* The length guards count the FCS as packet, so the last two bytes of a cut off
  frame can pass for fields; `handle_configuration_packet` compares past the
  length, and relies on buffers that are zeroed. A request that is short of the
  last one or two bytes of the name restarts the firmware if these are its FCS;
  nor is the length byte of the name looked at (`SetupAsSent` has both). A type name with a 0 in it
  matches `AirTalkAP` by what is in front of the 0 (`LookupsAsSent` has this).
* `ddp_destination_socket` tests for byte 7 and reads byte 5 of a short header;
  it makes no difference to any caller, which has tested the type at byte 7.

What was expected to be a finding and is not: the reset in `uart_rx` writes to
the UART without a lock against `uart_tx`, which has the higher priority. But
`uart_tx` is woken only by `udp_rx`, of lower priority than both, so it never
wakes up in the middle of a reset (`OneWriter`). Raising `udp_rx`'s priority
would break that.

## 6. Not modelled

These are left out:

* `wifi.c`, `scan_manager.c`, `storage.c`, `recovery.c`, `recovery_listener.c`,
  `usb.c`: ESP32 code that `src/src/CMakeLists.txt` does not build. It is written
  against an SDK that is not there; a model of it would be of another program.
* `send_fake_nbp_LkUpReply` and with it `crc32.c`: no caller that is compiled.
* board files and Kconfig, except for the values that the models take from them;
  logging; the LEDs as indicators (which event flashes which LED).
* `uart_tx`'s busy wait for CTS: whether it ends is TashTalk's business.
