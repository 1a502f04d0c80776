# Verification of gssquared

TLA+ models of the parts of the gssquared Apple II / IIgs emulator where threads, commands and
stale state meet, the TLC runs that check them on small instances, and TLAPS proofs about each of
them: the rings, execution control, the debug bridge, the serial controller, the Uthernet II and the modem. Paths below are relative to `src/src/` unless they say otherwise.

1. [The system](#1-the-system) — inventory of the components
2. [Modules](#2-modules) — what models what
3. [Runs](#3-runs) — what each one checks, its bounds and fairness
4. [Proofs](#4-proofs)
5. [Findings](#5-findings)
6. [What is not modelled](#6-what-is-not-modelled)
7. [Plan](#7-plan)

## 1. The system

gssquared runs one emulated machine on the **main thread**: `SDL_AppIterate` takes SDL events,
serves at most one debug-protocol request, and calls `run_one_frame` 60 times a second. Helper
threads exist only at the edges: one per Uthernet II card (network), one per serial back end, one
for Host FST, one for screenshots, and one for the debug protocol. They share rings, atomics or
mutex-guarded structures with the main thread. Everything that interleaves does so there; the rest
of the emulator is sequential, but long sequences of legal commands reach states nobody tested.

| Component | State | Operations | Interacts through | What is hard | What makes it correct |
|---|---|---|---|---|---|
| SPSC rings (`serial_devices/SerialDevice.hpp`, `devices/uthernet2/net_protocol.hpp`, `devices/hostfst/hostfst.cpp`) | slot array, `head`, `tail` | `send`/`try_send`, `get`, `space`, `get_count` | atomics with acquire/release | plain slots guarded only by indices; one slot is never used; a producer acts on an old `space()` | a bounded FIFO queue, no data race, a promise of space is kept |
| Uthernet II, chip (`w5100_chip.cpp`, `uthernet2.cpp`) | registers, generation, receive buffer and overflow per socket, snapshot | socket commands, frame tick, reset, snapshot and restore, stop | two rings and a shared credit with the worker | late events for a socket closed and reopened; full rings; restore under a running worker | the guest sees one uncorrupted stream per connection; status agrees with the host |
| Uthernet II, worker (`net_worker.cpp`) | descriptor, state, unsent bytes per socket | requests, `poll_sockets`, slirp frames, exit | host sockets | short sends, `recv` racing with the chip's credit, peers that close | no byte beyond the credit, close after data, `stop()` ends |
| Debug protocol server (`debugger/DebugProtocolServer.cpp`) | bridge (one request), event queue, subscription, client descriptor | accept, read, submit, wait, reply, events; execute, stop | mutexes, a condition variable, a socket | deadline against execution; disconnect against the next client; `stop()` against a waiting thread | executed at most once, never after a timeout was answered; a record reaches its own subscriber |
| Execution control (`gs2.cpp` `run_one_frame`, `debugger/BreakpointTable.cpp`, stepping in `debugger/debugwindow.cpp`, breakpoint commands of `debugger/Monitor.cpp`, run commands of the server) | mode, instructions left, breakpoint table and its count, suppression, step-over target | step, resume, pause, continue, set/clear/enable, frame loops | the main thread's loop | three drivers that do not know of each other; a redundant count gates every check | no due breakpoint is run past; continue makes progress; a stop holds |
| Serial devices (`serial_devices/`; the modem in `modem/ModemDevice.hpp`) | a thread, the call state, the socket, held-back `+`, telnet state, read buffer, reported lines | commands, dial, data in both directions, escape, DTR drop, stop, attach | two SPSC rings, a TCP connection | a full ring in either direction, reads that cut a telnet command, time against typed characters, `stop()` against a dial | the stream is intact both ways, DCD is reported, `stop()` returns |
| Serial controller (`devices/scc8530/Z85C30.hpp`) | registers, shift registers, FIFO, External/Status latch, pending and in-service sources, timer events per channel | register writes and reads, timer events, device messages, resets, change of device | the event timer, the rings of the device, the INT line | events against register writes that change what they were scheduled for; a latch behind which lines move; a redundant INT | a character completes once, no line change is lost, INT follows the sources |
| Host FST (`devices/hostfst/`) | one call in flight | trap, completion | ring, flag | completion after reset | each call answered once |
| Screenshot writer (`ui/ScreenshotWriter.cpp`) | bounded queue | enqueue, write, stop | mutex | stop with work queued | nothing accepted is dropped |
| Event timers (`util/EventTimer.cpp`) | heap of callbacks | schedule, cancel, process | callbacks | a callback that reschedules itself | order and no lost event |
| Interrupts, reset, events (`util/InterruptController.hpp`, ...) | line per device | assert, deassert, dispatch | calls | a line left asserted | the CPU's line is the OR of its sources |
| Clock (`NClock.hpp`) | 64-bit counters, speed | tick, speed shift | calls | remainders at a shift | counters never go back |
| CPU (`cpus/`), memory (`mmus/`), video, sound, disks, the 6551, ADB, clock cards, configuration, user interface | registers and tables | bus reads and writes | bus | volume rather than concurrency | see section 6 |

`PROJECT.json` lists every component with its status, and the hazards with the line where each
bites and the properties that would catch it.

## 2. Modules

| Module | Models | Source |
|---|---|---|
| `SpscRing` | every shared access of the lock-free ring | the three ring implementations |
| `BoundedFifo` | what the ring promises: a queue with atomic operations | — (abstract) |
| `U2Protocol` | the request and event rings of the card, the credit, generations; extended by the next two | `net_protocol.hpp`, `net_worker.hpp` |
| `W5100Chip` | the chip on the emulator thread | `w5100_chip.cpp`, `uthernet2.cpp` |
| `NetWorker` | the worker thread and the host's sockets | `net_worker.cpp` |
| `Uthernet2` | chip and worker together, fairness, properties | — (composition) |
| `DebugBridge` | protocol thread, main thread, bridge, event queue, clients | `DebugProtocolServer.cpp` |
| `ExecControl` | run loop, modes, breakpoint table, window, monitor, menu, protocol commands | `gs2.cpp`, `BreakpointTable.cpp`, `debugwindow.cpp`, `Monitor.cpp`, `computer.cpp`, `DebugProtocolServer.cpp` |
| `Modem` | the modem's thread, `SerialDevice::stop`, the port's side of the rings, the remote host | `ModemDevice.hpp`, `SerialDevice.cpp`, `Connections.cpp` |
| `Z85C30` | both channels of the serial controller, its interrupt block and its timer events | `Z85C30.hpp` |
| `SpscRing_proofs`, `ExecControl_proofs`, `DebugBridge_proofs`, `Z85C30_proofs`, `Uthernet2_proofs`, `Modem_proofs` | theorems about the module of that name | |
| `Uthernet2Stream_proofs` | theorems about what `Uthernet2` carries, on top of `Uthernet2_proofs` | |
| `FoldLemmas` | induction over numbers and sequences in the form the provers can use | |
| `MC*` | the constants of the runs | |

Definitions named `...Blind`, `...Silent`, `...Keeps` and the like, each directly before the
definition it imitates, are faulty variants; no specification uses them. They exist to show that a
property fails when the code has the corresponding bug.

**SpscRing.** `head` and `tail` are the ring's two indices, `slots` its array. `send` is three
steps (check against the other side's index, write the slot, publish the index), `get` likewise;
`space()` grants the producer a number of sends that it may use later. Acquire/release publication
is sequentially consistent for this access pattern, each variable having one writer.
`NoSlotRace` states the absence of the race that the plain slots would allow. The three sources
differ in names and in when they compute the next index; one module stands for them.

**U2Protocol, W5100Chip, NetWorker, Uthernet2.** The rings are sequences with the capacity of the
code's rings; that they may be so abstracted is what `SpscRing` proves. An operation of the chip is
one action up to the point where the worker can observe it and a further one after (`OPEN`, a
restore and `stop()` are split). The worker's `wpc` is its position in `run()`; reading the credit,
`::recv`, lowering the credit and posting the data are separate steps. The host (`peer`, `kin`,
`hostgot`) is external and returns whatever it may. Bytes are `<<generation, k>>`, so a byte of an
old connection is recognisable; `hostgot` is what the host received in the current generation. slirp delivers a frame from its own poll, or while it is
given the frame of a raw SEND; an IP frame may match the `Sn_PROTO` of any IPRAW socket or of none. `evtLost` and `reqLost` remember the generation that lost a message
to a full ring: the code ignores the refusal, and properties about completion say so.

**DebugBridge.** `tpc` and `mpc` are the positions of the protocol thread and of the main thread.
What a client sends is seen when it is read (`Sends`), and that it connects when it is accepted; both may have
happened any time before. A critical section is one action; `stop_`, `agent_subscription_`, `agent_disconnect_pending_` and
`client_fd_`, which are accessed outside the locks, have actions of their own. `TimedOut` is the
deadline of `submit_and_wait`, `WaitStopped` the wake-up by `stop()`. A frame the protocol thread refuses
by itself is `"bad"`, whichever check it fails, and one that announces too long a payload `"long"`: it is
answered and ends the connection. The event queue and its counters are handled as one `Backlog`: PAUSE
enqueues two events and CONTINUE or STEP_INTO one, each with a record for a subscriber whose filters
select it, and a record is dropped when it is too long or a cap is reached. Commands other than these,
QUIT and SUBSCRIBE succeed or fail and do nothing more.

**ExecControl.** `phase` is the place in one iteration: events, then a request, then a frame that is
paused, stepping, fast or checked. `enabledCount` is `enabled_count_` and is updated exactly where the
code updates it, beside the table of entries, so that it can be wrong. A program is given by
constants (`Flow`, `Op`, `Touch`). `standing`, `fresh` and `asked` only remember, for the properties.
An entry's address, mask, access and value filters are one address or access; `SET_REGS` matters
for the program counter only.

**Modem.** The device is one record `d`, so a handler that calls others is a composition of functions of
`d`; `pc` is the place in `device_loop` or in a dial, and a message, a round of reading and a slice of
`dial_wait` are one action each. Nothing is shared with the emulator thread but the rings, which are
bounded queues by `SpscRing`'s refinement. What the guest types is cut into a `+`, a byte 0xFF and whole
lines (one per kind of command); what the remote host sends is a script of bytes and telnet commands
whose bytes a read may cut anywhere. `quiet` is the time since the last character in the classes the code
tells apart. `socket.got` and `socket.typed` only remember, for the properties.

**Z85C30.** The chip is one record `s`; a register write is one action and runs `update_queues` first, as
the code does. `timers` is the set of events a channel has scheduled, `fromDevice` and `toDevice` its
rings. The register pointer is abstracted: the guest may reach any register with any access. Init is a chip
with a device attached at the start, once the guest's driver has programmed it. `seen` and `fresh` only remember what the guest
has been shown of the lines, for the properties.

## 3. Runs

Twelve runs; sizes are distinct states. All of them check for deadlock: every program modelled here
either goes on or is in an explicit `Stopped` state.

| Run | Shows | Bounds |
|---|---|---|
| `spsc_ring` | The ring implements `BoundedFifo` (`ImplementsFifo`), no slot race, space granted is honoured | depth 4: indices wrap, the ring fills and is empty with `head = tail` at each slot; two messages show a reordering |
| `u2_receive` | The received stream is intact, CLOSE_WAIT follows the data, the credit never exceeds the room, chip and host agree once settled; a datagram enters a buffer whole or not at all, and a reopened UDP socket holds no old one | 1 socket as TCP, UDP, IPRAW or MACRAW, 3 generations (a socket is closed and reopened while old events are in flight), rings of 2, a receive buffer of 4 in which a second datagram just does not fit, 2 bytes or datagrams from the peer and 1 raw frame (4.6 million states) |
| `u2_send` | Bytes leave in order across short sends; SEND_OK never early; CONNECT ends; `stop()` ends | 2 bytes per SEND, 4 per generation, rings of 2, every protocol, no listener, 1 raw frame (290 thousand states) |
| `u2_restore` | A restore under a running worker starts a new generation and agrees with the host | snapshot and restore, 4 generations |
| `u2_restore_window` | *violation*, section 5 | |
| `u2_late_failure` | *violation*, section 5 | |
| `debug_bridge` | A request is executed at most once and not after its timeout was answered; the bridge is never found busy; events follow the reply that caused them; QUIT is acknowledged; a subscription belongs to the client being served; every record of a subscription is sent, waiting or counted as dropped, and the kept ones come once and in sequence; `stop()` returns; an observer does not outlive its client | 2 clients one after the other, 3 requests, malformed and over-long ones among them, one machine event, 4 items in the queue of which 2 may be records: HELLO, SUBSCRIBE and PAUSE put two records into the queue, and the machine's own is a third, kept after a flush or dropped before it (880 thousand states) |
| `exec_control` | The count of enabled breakpoints is exact; no due breakpoint is run past; CONTINUE steps off; a stopped machine stays stopped | a call, a loop that may spin, a return and a BRK; 2 entries (temporary, or with an ignore count, or plain), EXEC and I/O; steps of 1 or 2 (3.8 million states) |
| `exec_resume` | *violation*, section 5 | the same |
| `modem` | What the guest reads is what the remote host sent, and the reverse, through telnet escaping, full rings and `+++`; DCD is reported in the end; `stop()` returns from any state of a call | rings of 1, a buffer of 1 before a read of up to 3 bytes (so reads cut telnet commands and the buffer overfills), 2 connections, 5 events: enough for dial and the whole script, with both forms of telnet command and an escaped 0xFF, or for dial, `+++` and another character (218 thousand states) |
| `scc` | A character is neither forgotten nor completed twice; no enabled line change is lost; the receiver is always polled; INT is what the sources call for | 3 accesses, resets or changes of device in any order with the timer and a device that sends characters, line changes and breaks; FIFO of 1, so that it overruns; channel B raises transmit interrupts below channel A (1.1 million states) |
| `scc_reset` | *violation*, section 5 | the same |

**Bounds.** A generation counter, a ring or a list of entries behaves the same past the point where it
has wrapped, filled or emptied once with a stale item around; each bound is the smallest that lets
this happen to every structure of the run. `MaxGen`, `MaxTx`, `MaxPeer`, `MaxFrames`, `MaxSaves`,
`MaxConn`, `MaxReq`, `MaxEvents`, `MaxIds`, `MaxAccess` bound what the environment does and never what the code
does in answer. A guest whose generations are used up stops opening sockets.

**Fairness.** `u2_send`: weak fairness of the worker (its loop waits at most 5 ms), of the frame tick
and of what the emulator has begun (60 frames a second; a handler runs to its end), of the join, and
strong fairness of the host resolving a connect attempt (the host's TCP gives up in the end, and the
worker looks at it in every round). The guest, the peer and slirp have none. `debug_bridge`: weak
fairness of the protocol thread (`poll` returns after 50 ms) and of the main loop (every frame, paused
or not). The deadline and the stop wake-up have none, so `StopReturns` shows that `stop()` does not
depend on a timeout. Clients have none, nor have the steps of the thread that wait for one (`Serve`). `modem`:
weak fairness of the device thread (its loop sleeps 10 ms and never blocks; a dial waits in slices
of 50 ms), of the port that takes messages while the emulator runs (the controller polls every character
time), and of `stop()`'s retry and join. The guest, the remote host, the network's answers and the clock have
none: `StopReturns` holds although a connect may never be answered, because a slice counts and takes the
messages.

**Conditions in the properties.** `StatusAgrees`, `TxStreamIntact` and `ConnectEnds` except a
generation that lost a message to a full ring: the code drops the message (`w5100_chip.cpp:789`) and
the guest must time out. `CreditFitsBuffer` says a connection never has too much credit; that it may
have too little after a race is a recorded hazard. `IntFollows` excepts the WR5 and WR9 writes, which do not
call `update_interrupts` (section 5); `ExtNotLost` holds from Reset Ext/Status or a WR15 write until a reset, and what happens after a
reset is a finding below. `TxIntact` says what a connection that is up has been sent; what was typed for one that has
gone is lost with it, and so is `tcp_buffer`. Result codes ("OK", "NO CARRIER") are dropped when the ring is full.

## 4. Proofs

TLC shows the properties on the instances above. The theorems hold for every value of the constants
that the named assumptions allow.

`SpscRing_proofs` (any depth of at least 2 and any messages)
- `TypeCorrect`, `NoRace`, `GrantsHonoured`: `Spec => []TypeOK`, `[]NoSlotRace`, `[]GrantHonoured`.
- `Refinement`: `Spec => ImplementsFifo`. The queue is the run of slots from `tail` to `head`
  (`Contents`); a send takes effect when it publishes `head`, a get when it publishes `tail`, every
  other step is a stutter.
- The invariant `RingInv` adds to the types what each side knows at each program counter (`PcInv`: the
  producer that has passed its check still has a free slot although it looked at an old `tail`),
  that the slots between the indices are filled (`SlotsFilled`) and that a grant is covered
  (`GrantHonoured`). The check alone is not inductive because the other side moves after it.

`ExecControl_proofs` (any program, any number of entries and steps)
- `NoBreakpointMissed`: `Spec => NeverMissed`.
- `StepsOff`: `Spec => PolicyA`.
- `CountExact`, `StaysStopped`, `TypeCorrect`: `Spec => []EnabledCountExact`, `[]StoppedStays`,
  `[]TypeOK`.
- The invariant `IInv` is `TypeOK`, `TableInv` and `FastInv`. `TableInv` says that ids are distinct and
  below `next_id_` and that the count is that of the enabled ids; distinctness is needed because an
  enable or a scan replaces an entry, and the count of a set of entries would not follow. `ScanTable`
  is the main lemma: a scan counts down the entries it passes, removes at most one temporary entry and
  changes the count by exactly that. `FastInv` says that a frame without checks has nothing enabled;
  it lasts because nothing can be enabled inside a frame. `DueHits` shows that a due entry makes the
  scan stop, by taking the least id among the due ones (well-founded `<`). `FreshInv` (after a
  CONTINUE that left a stop, the suppressed address is the current one until the machine moves) gives
  `PolicyA`.

`DebugBridge_proofs` (any number of connections, requests and events, any capacity of the event queue)
- `BridgeExecutesOnce`, `BridgeNeverBusy`: `Spec => []ExecutedOnce`, `[]NeverBusy`. `BridgeInv` says that a
  request is with the protocol thread from when it is read, is fresh until it is submitted, and that the bridge
  is taken exactly while the protocol thread waits, by the thread's own request (`WaitInv`). Without it nothing
  excludes a second submission of a request that was executed after its deadline.
- `RepliesPrecedeEvents`, `QuitIsAcknowledged`, `SubscriptionObserved`: `[]EventsFollowReply`, `[]QuitAcked`,
  `[]SubscribedMeansObserved`. `WireInv` adds what was sent to each client: an event that names a request
  comes from a PAUSE, CONTINUE or STEP_INTO that was executed and is not sent while the thread still has its reply to write
  (`SentInv`), a QUIT reaches the main thread only after its answer (`QuitInv`), a subscription belongs to the client
  being served and ends before that client does (`AgentInv`).
- `SubscriberStream`: `[]StreamComplete`. `SubInv` says that records name only a SUBSCRIBE that was executed, so
  that a new subscription starts with an empty account; `StreamInv` is the account itself (`Accounts`): records on the
  wire and in the queue, in order and without repetition, and the counters of retained and dropped ones, which together
  make up the number of the next record, also between the numbering of a record and its being queued.

`Z85C30_proofs` (any FIFO and ring sizes, any register values and messages, any number of accesses)
- `NoCharacterStranded`, `LineChangeNotLost`, `ReceiverNeverDeaf`, `ControllerType`: `Spec => []NoStuckChar`,
  `[]ExtNotLost`, `[]NeverDeaf`, `[]TypeOK`.
- `InterruptFollows`: `Spec => IntFollows`, the action property about the INT line.
- `ControllerInv` holds of each channel separately. It ties each shift register to its timer event in both directions,
  the stalled state included (`TxOk`, `RxOk`), and each latched line to what the guest was shown. The proof has a lemma
  for each function of a channel and for each function of the chip that calls it, in the order in which the code composes
  them; `update_queues`, which takes messages until the ring is empty, is an induction over the messages taken.

`Uthernet2_proofs` (any number of sockets, generations, saves and frames; rings and buffers of any size)
- `GenerationsInOrder`: `Spec => []GenerationOrder`. The invariant is `Types`
  and `GenOrder`; `GenOrder` adds to `GenerationOrder` that a snapshot is no newer than the chip (`SavedOld`)
  and that a restore under way has generations left for the sockets it has yet to do (`RestoreRoom`), because a
  restore raises a socket's generation twice when it listens, with the worker running in between.
- `CardType`, `CreditNeverOverruns`, `DatagramsStayWhole`: `Spec => []TypeOK`, `[]CreditFitsBuffer`, `[]DatagramsWhole`.
  `TypeOK` bounds the rings and each socket's received bytes, and the latter needs all of `CardInv`, which adds
  `HostState` (bytes are in the worker's hands only between `::recv` and the post, on an established connection),
  `ProtocolOk` (what can be in the rings and at the worker for the current generation, given what the guest
  opened the socket for; without it, stream bytes could arrive at a socket that has become a datagram socket and
  be counted nowhere), `Fits` (buffer, bytes on their way and credit fit the receive buffer; between the load of the
  credit and its lowering, what the worker may still take counts, because the credit is loaded before `::recv`
  and lowered after), `WholeCells` and `SavedFits` (a snapshot's buffers fit and are whole, since a restore brings them back).

`Uthernet2Stream_proofs` (the same constants; on top of `CardInv`)
- `RxInOrder`, `CloseWaitLast`, `TxInOrder`, `SendOkHonest`, `StatusesAgree`, `DatagramsStayFresh`:
  `Spec => []RxStreamIntact`, `[]CloseWaitAfterData`, `[]TxStreamIntact`, `[]SendOkAfterSent`, `[]StatusAgrees`,
  `[]DatagramsFresh`. With them every safety property that a passing run of the card checks is proved.
- Each of the six speaks of a socket's current generation, while a step may touch any socket, and a message of an old
  generation may be at the front of either ring. So a step is first summed up by what it does to one socket's current
  generation (`WorkerMove`, `ChipMove`: its oldest request is taken, one is added, an event is told or seen, nothing), one lemma per
  action, and the invariants are proved from these few cases.
- `OrderInv` is what all of them rest on. `Orderly` says in which order a generation's requests come (a CONNECT or a
  listen that waits is the last of them, a close the first), and that a generation the worker has yet to open has
  carried nothing (`Untouched`). `HostClear` says that bytes wait at the host only on an established connection. `RingClear` says that the event ring keeps its room from the worker's
  test for it to the post, so a data event is never lost.
- `StatusInv`: neither side's status follows from the other's, since both change on their own. What the guest will see
  once it has seen everything told is what the worker will have once it has done everything asked, or CLOSED.
- `TxInv`: the SENDs waiting in the ring go on where the bytes of the host and of `tx_pending` end. `SendInv`: the SEND_OKs
  counted plus those in the event ring are covered by whole SENDs the host has taken; the ring is counted by a function
  along it (`Tally`), as the provers have no induction over sequences.
- `RxInv`: receive buffer, event ring, the worker's hand and the host's queue are one run of numbered bytes that ends with the
  last the peer sent. `EofInv` adds that a guest that sees or is being told of the end has a worker past it, and that the event
  which tells of it is behind all data events. Neither property says anything of bytes that have yet to be moved, so neither is inductive.
- `UdpInv`: datagrams number upwards from the buffer through the ring to the last the host received, and what is of an
  earlier generation in the buffer is in the snapshot, whose own datagrams are in order (`SavedFresh`).
- A restore brings back the bytes of an earlier connection. `taken`, which counts what the guest has read, starts at minus their number, so `RxInOrder`
  and `CloseWaitLast` hold of the new connection also after a restore; the runs that check these properties have `MaxSaves = 0`.

`Modem_proofs` (any ring and buffer sizes, scripts, characters, connections and events)
- `ModemType`, `ModemRxIntact`, `ModemTxIntact`: `Spec => []TypeOK`, `[]RxIntact`, `[]TxIntact`.
- The main part of `IInv`, `Good`, is about the device record. The device is one record and a handler a composition of
  functions of it, so there is a lemma that each function keeps `Good`, and the lemma of an action composes them.
- Neither stream property is inductive. `RxIntact` speaks of what has been read and says nothing of the next byte: `RxGood`
  runs a telnet machine (`Hears`), from the state the device's own machine is in, over the bytes not yet read, and says
  that it ends with exactly what the remote host has sent, or with a prefix when the host has gone. A read of any number
  of bytes then moves a byte from one part to another, also in the middle of a negotiation. `TxIntact` subtracts
  `escapeCount` characters: `TxGood` adds that these are the last ones typed and all `+`, so that sending them when the
  escape is aborted, to the next connection too, restores what was typed.
- `QueueOk` says that the ring holds nothing of a later connection, and data of an earlier one is not counted for this one;
  `SocketOk` that a socket that is not connected has no bytes; `CallOk` ties the thread's place in a dial to the socket.
- The telnet loop, the drain into the ring and the reader at the other end go over sequences of any length: their lemmas
  are inductions with `FoldLemmas`.

`FoldLemmas` stands in for induction over data, whose library theorems take an operator as parameter: a set of numbers
that has a member has a least one (`Least`), a set closed under successor has them all (`CountUp`), and a sequence of
steps, each a function, has the values between them (`StepsExist`). What a fold or a recursive function computes is stated
as membership of such a set.

Assumptions, all of them evaluated by TLC: `DepthAssumption` (the ring has a free slot), `MessageAssumption`;
`ProgramAssumption`, `AsksAssumption`, `BoundAssumption` (types of the program and the bounds); of `DebugBridge`,
`SizeAssumption`, `KindsAssumption`, `CapAssumption` (bounds are numbers, commands are known ones, the queue holds a
record); of `Z85C30`, `SizeAssumption` (FIFO and rings hold something) and `AccessAssumption` (the guest writes values a
register has, the device sends messages that exist); of `Modem`, `SizeAssumption` (rings and reads of at least one
item, bounds that are numbers) and `AlphabetAssumption` (characters and items of the script are known ones: every byte and telnet command is one of them); `U2Assumption`, `ChipAssumption`, `WorkerAssumption` (at least one
socket and one generation, rings that hold a message, sends of at least a byte, bounds that are numbers). None
restricts what the code can meet; the guests that the actions exclude are named in section 6.

Only model-checked:
- every liveness property (`StopReturns` and `ObserverRemoved` of the bridge, `ConnectEnds` and `StopEnds` of
  the card, `StopReturns` and `DcdFollows` of the modem): fairness and ENABLED are outside the prover.

Every invariant and action property of a passing run is stated by a theorem.

## 5. Findings

- **Restored TCP sockets cannot receive** (`u2_restore_window`, `w5100_chip.cpp:1144`). A restore closes
  the host side, which zeroes the credit, and reopens an INIT or LISTEN socket without giving it credit
  again, so the worker never reads from the connection it makes.
- **A late failure of OPEN reaches the listener that replaced it** (`u2_late_failure`,
  `w5100_chip.cpp:646`). LISTEN puts a new host socket into the generation OPEN began.
  `Docs/UPSTREAM_SYNC.md:633` says such a status is discarded.
- **Resuming from the debugger window does not step off a breakpoint** (`exec_resume`,
  `debugwindow.cpp:1384`). Only the protocol's CONTINUE arms the suppression `Docs/DebugProtocol.md:1261`
  requires; Return, F10, closing the window and the menu's resume stop again at once. So does CONTINUE
  when a PAUSE came after the EXEC stop, because the PAUSE overwrites the stop reason.
- **A reset of the serial controller leaves a stale line state** (`scc_reset`, `Z85C30.hpp:894`, `:935`). The resets
  open the External/Status latch and keep `ext_last_bits`, which stands still while the latch is closed; a line that
  moved behind the latch and moves back after the reset compares equal, and the change is not latched.

Behaviour met while modelling that no run is about, each in the model:
- A second debug client is not rejected, as `Docs/DebugProtocol.md:151` says, but waits in the backlog and is
  served when the first has gone (`DebugProtocolServer.cpp:1351`).
- The modem, when a write fails while it sends out an aborted `+++`, hangs up and is then set to data mode without
  a socket (`ModemDevice.hpp:541`): commands are ignored until `+++` is typed or the device is attached again.
- `hangup` keeps `escape_count`: held-back `+` characters go to the next connection, and with three of them a `+` is
  swallowed there. A character that comes after the guard time, before the loop has tested it, is dropped. A DTR drop
  during a dial is taken from the ring and ignored.
- Of a telnet subnegotiation only `IAC SB` and `IAC SE` are skipped; what stands between reaches the guest as data
  (`ModemDevice.hpp:322`: "for now, just ignore").
- The fast and step loops never clear a breakpoint suppression: one armed by a CONTINUE that then ran without checks
  makes a breakpoint set later at that address miss its first visit (`NeverMissed` states the exception).
- The debug server's `stop()` takes the client descriptor and shuts it down; the protocol thread may close it in between
  and the number may be in use again (descriptor numbers are not modelled).
- The comment on `update_interrupts` says that INT is "Computed across both channels on every change"
  (`Z85C30.hpp:614`), but a WR9 write, which changes MIE (`:723`), and a WR5 write, which can start a waiting character
  (`:703`), do not call it. After a hardware reset and a break, a WR9 write that sets MIE leaves INT off with
  External/Status pending, and one that clears MIE leaves it on, until a later access or event recomputes it.
  `IntFollows` names these two writes as its only exceptions.
- The serial controller tells the device nothing when a reset drops DTR, RTS or a break, retries a refused line change
  only at the next WR5 write, and does not start a character waiting for CTS when WR3 clears the auto enables.

## 6. What is not modelled

- The CPU, memory maps, video, sound and disk encodings: sequential translations of published hardware,
  large, and covered by conformance suites and image comparison; a model would repeat the code.
- Host I/O: file systems, serial ports, slirp's stack, SDL. What the models need of them is an external
  action that may return any result.
- The clipboard, file, echo and host serial port back ends, the 6551 and the parallel card: the same life cycle
  and rings as the modem and the Z85C30, without their states.
- Inside the modelled parts: the text of modem commands and results, whether ATE has put the echo on (any character may be
  echoed or not); the values, formats and
  durations of serial characters, interrupt vectors, the SCC's snapshot; registers of the W5100 that only hold what the guest wrote, ARP and address
  formats; the payload of debug commands (memory, trace, device state), and which check refuses a malformed one; ranges, masks and value filters of
  breakpoints, `hit_count`, halts raised by instrumentation rails, machine reset; the work of a frame after
  its instructions. A guest that moves `Sn_RX_RD` outside the data it was given, or changes `RMSR` while a
  socket is open, is excluded.
- Weak memory: in the rings only a side's own index is loaded relaxed, and every location has one
  writer, so publication with release and acquire is what the interleavings of `SpscRing` show.
- Configuration, menus, drawing and text: no property distinguishes them.

## 7. Plan

Done: SPSC ring and its refinement, the Uthernet II, the debug bridge, execution control, the modem with
`SerialDevice::stop`, the Z85C30.

Left, in the order of what they would add:
1. `HostFst`: call, completion and reset; each call is answered once.
2. `EventTimer` with the 6522 timers: order of events, callbacks that reschedule or cancel others.
3. `Mount` and write-back: a dirty image is saved, refused or kept; no save is lost when one of several
   drives fails.
4. `ADB_Micro`: command and response queue between two sides that poll each other.
5. `MOS6551`, `ScreenshotWriter`, the agent control channel, language card pre-write, IWM modes, clock arithmetic.
6. `DebugBridge` and `ExecControl` composed: each stop is announced once (the BRK catch is not); `Modem` and
   `Z85C30` composed: a DTR drop of the guest ends the call.

Abstract specifications worth stating: a reliable byte stream that `Uthernet2` and `Modem` implement per connection;
an at-most-once remote call that `DebugBridge` implements.

Proofs to add: with the abstract byte stream, that `Uthernet2` and `Modem` implement it; the invariants are `RxInv` and `TxInv`,
`RxGood` and `TxGood`.
