----------------------------- MODULE W5100Chip -----------------------------
(***************************************************************************)
(* The W5100 chip of the Uthernet II card, on the emulator thread: the     *)
(* socket commands the guest writes to Sn_CR, the events it takes from the *)
(* worker once per video frame, reset, and the snapshot.  The registers    *)
(* that only hold what the guest wrote are left out; the receive buffer is *)
(* the sequence of what it holds, so RX_RSR is its length.                 *)
(*                                                                         *)
(* The guest is any program that gives Sn_RX_RD a value inside the data    *)
(* it was given and does not change RMSR while a socket is open.           *)
(***************************************************************************)
EXTENDS U2Protocol

CONSTANTS
    Commands,    \* the commands the guest of a run uses
    Protocol,    \* the values the guest writes to Sn_MR
    TxLen,       \* bytes in one SEND
    MaxTx,       \* bound on the bytes sent in one generation
    MaxSaves     \* bound on the snapshots taken and on the restores

ASSUME ChipAssumption == TxLen \in Nat \ {0} /\ MaxTx \in Nat /\ MaxSaves \in Nat

VARIABLES
    emu,         \* where the emulator thread is between two shared accesses
    sr,          \* Sn_SR
    gen,         \* SocketState::gen
    mr,          \* Sn_MR: protocol (and the MACRAW filter bit)
    ir,          \* Sn_IR, as the set of bits that are on
    rxbuf,       \* the guest's receive buffer
    rxpend,      \* rx_pending: bytes received that found no room
    saved,       \* the last snapshot: << >> or one record
    saves,       \* snapshots and restores so far
    txn,         \* ghost: bytes handed to SEND in this generation
    taken,       \* ghost: bytes the guest has read in this generation, less those a restore brought back
    sendoks      \* ghost: SEND_OK events applied in this generation

chipVars == <<emu, sr, gen, mr, ir, rxbuf, rxpend, saved, saves, txn, taken, sendoks>>
ghosts == <<txn, taken, sendoks>>

Connected == {"ESTABLISHED", "CLOSE_WAIT"}

(* A cell of a receive buffer is a byte or datagram <<generation, number>>,  *)
(* the header the chip puts before a datagram, or the body of a raw frame.   *)
HeaderCell == <<0, 0>>
RawCell == <<-1, 0>>

(* headerSize: bytes the chip writes before the payload, abstracted to one *)
(* cell for every protocol that has a header.                              *)
HeaderSize(i) == IF sr[i] \in {"UDP", "IPRAW", "MACRAW"} THEN 1 ELSE 0

RxRsr(i) == Len(rxbuf[i])

(* A test for room that forgets the header.                                *)
RoomForNoHeader(i, len) == RxSize # 0 /\ RxRsr(i) + len < RxSize

(* room_for: strictly less than the buffer, which is never filled.         *)
RoomFor(i, len) == RxSize # 0 /\ RxRsr(i) + len + HeaderSize(i) < RxSize

RxFree(i) ==
    LET used == RxRsr(i) + HeaderSize(i)
    IN  IF used + 1 >= RxSize THEN 0 ELSE RxSize - used - 1

MinOf(a, b) == IF a < b THEN a ELSE b

FirstN(s, n) == SubSeq(s, 1, n)
ButFirstN(s, n) == SubSeq(s, n + 1, Len(s))

Raise(i, bits) == ir' = [ir EXCEPT ![i] = @ \cup bits]

(* close_host: a new generation, a request that closes the host socket,    *)
(* and no credit.  g is the generation it starts.                          *)
CloseHost(i, g, how) ==
    /\ gen' = [gen EXCEPT ![i] = g]
    /\ Post(i, g, <<Request(how, i, g, << >>)>>)
    /\ credit' = [credit EXCEPT ![i] = 0]
    /\ rxpend' = [rxpend EXCEPT ![i] = << >>]

(* A command handler runs to its end on the emulator thread, except that   *)
(* OPEN closes the old host socket and later gives the new credit, with    *)
(* the worker running in between.                                          *)
Idle == emu = <<"idle", 0>>

GenLeft(i) == gen[i] < MaxGen

-----------------------------------------------------------------------------
(* Registers.                                                              *)

WriteMR(i, p) ==
    /\ Idle
    /\ mr' = [mr EXCEPT ![i] = p]
    /\ UNCHANGED <<emu, sr, gen, ir, rxbuf, rxpend, saved, saves, ghosts,
                   req, evt, credit, running, reqLost, evtLost>>

(* Sn_IR is write-1-to-clear: the guest writes back what it has read.      *)
WriteIR(i) ==
    /\ Idle
    /\ ir[i] # {}
    /\ ir' = [ir EXCEPT ![i] = {}]
    /\ UNCHANGED <<emu, sr, gen, mr, rxbuf, rxpend, saved, saves, ghosts,
                   req, evt, credit, running, reqLost, evtLost>>

-----------------------------------------------------------------------------
(* The commands of handle_command.  A command in a state that does not     *)
(* allow it changes nothing.                                               *)

OpenClose(i) ==
    /\ Idle
    /\ GenLeft(i)
    /\ CloseHost(i, gen[i] + 1, "CloseHost")
    /\ emu' = <<"open", i>>
    /\ UNCHANGED <<sr, mr, ir, rxbuf, saved, saves, ghosts, evt, running, evtLost>>

OpenStatus(i) ==
    CASE mr[i] = "TCP" -> "INIT"
      [] mr[i] = "UDP" -> "UDP"
      [] mr[i] = "IPRAW" -> "IPRAW"
      [] mr[i] \in {"MACRAW", "MACRAW_MF"} -> IF i = 0 THEN "MACRAW" ELSE "CLOSED"
      [] OTHER -> "CLOSED"

OpenRequests(i) ==
    CASE mr[i] = "TCP" -> <<Request("OpenTcp", i, gen[i], << >>)>>
      [] mr[i] = "UDP" -> <<Request("OpenUdp", i, gen[i], << >>)>>
      [] OTHER -> << >>

OpenCredit(i) == IF mr[i] = "TCP" /\ RxSize > 0 THEN RxSize - 1 ELSE 0

OpenFinish(i) ==
    /\ emu = <<"open", i>>
    /\ emu' = <<"idle", 0>>
    /\ Post(i, gen[i], OpenRequests(i))
    /\ sr' = [sr EXCEPT ![i] = OpenStatus(i)]
    /\ rxbuf' = [rxbuf EXCEPT ![i] = << >>]
    /\ credit' = [credit EXCEPT ![i] = OpenCredit(i)]
    /\ txn' = [txn EXCEPT ![i] = 0]
    /\ taken' = [taken EXCEPT ![i] = 0]
    /\ sendoks' = [sendoks EXCEPT ![i] = 0]
    /\ UNCHANGED <<gen, mr, ir, rxpend, saved, saves, evt, running, evtLost>>

(* listen_socket binds on this thread.  When the bind fails, or the ring   *)
(* does not take the bound socket, the guest sees it at once.              *)
ListenBound(i) ==
    /\ Len(req) < ReqCap
    /\ Post(i, gen[i], <<Request("AdoptListen", i, gen[i], << >>)>>)
    /\ sr' = [sr EXCEPT ![i] = "LISTEN"]
    /\ UNCHANGED <<gen, credit, rxpend, ir>>

ListenRefused(i) ==
    /\ GenLeft(i)
    /\ CloseHost(i, gen[i] + 1, "CloseHost")
    /\ sr' = [sr EXCEPT ![i] = "CLOSED"]
    /\ Raise(i, {"TIMEOUT"})

InitTcp(i) == Idle /\ sr[i] = "INIT" /\ mr[i] = "TCP"

Listen(i) ==
    /\ InitTcp(i)
    /\ ListenBound(i) \/ ListenRefused(i)
    /\ UNCHANGED <<emu, mr, rxbuf, saved, saves, ghosts, evt, running, evtLost>>

Connect(i) ==
    /\ InitTcp(i)
    /\ Post(i, gen[i], <<Request("Connect", i, gen[i], << >>)>>)
    /\ sr' = [sr EXCEPT ![i] = "SYNSENT"]
    /\ UNCHANGED <<emu, gen, mr, ir, rxbuf, rxpend, saved, saves, ghosts,
                   evt, credit, running, evtLost>>

Discon(i) ==
    /\ Idle
    /\ sr[i] \in Connected
    /\ GenLeft(i)
    /\ CloseHost(i, gen[i] + 1, "Close")
    /\ sr' = [sr EXCEPT ![i] = "CLOSED"]
    /\ Raise(i, {"DISCON"})
    /\ UNCHANGED <<emu, mr, rxbuf, saved, saves, ghosts, evt, running, evtLost>>

Close(i) ==
    /\ Idle
    /\ GenLeft(i)
    /\ CloseHost(i, gen[i] + 1, "Close")
    /\ sr' = [sr EXCEPT ![i] = "CLOSED"]
    /\ UNCHANGED <<emu, mr, ir, rxbuf, saved, saves, ghosts, evt, running, evtLost>>

SendMsg(i) ==
    CASE sr[i] \in Connected -> "SendTcp"
      [] sr[i] = "UDP" -> "SendUdp"
      [] sr[i] = "MACRAW" -> "MacRawTx"
      [] OTHER -> "IpRawTx"

(* send_data: TX_RD reaches TX_WR whether or not the ring takes the bytes. *)
Send(i) ==
    /\ Idle
    /\ sr[i] \in Connected \cup {"UDP", "MACRAW", "IPRAW"}
    /\ txn[i] + TxLen <= MaxTx
    /\ Post(i, gen[i],
            <<Request(SendMsg(i), i, gen[i], [k \in 1 .. TxLen |-> txn[i] + k])>>)
    /\ txn' = [txn EXCEPT ![i] = @ + TxLen]
    /\ UNCHANGED <<emu, sr, gen, mr, ir, rxbuf, rxpend, saved, saves, taken, sendoks,
                   evt, credit, running, evtLost>>

SendKeep(i) ==
    /\ Idle
    /\ sr[i] = "ESTABLISHED"
    /\ mr[i] = "TCP"
    /\ Raise(i, {"SEND_OK"})
    /\ UNCHANGED <<emu, sr, gen, mr, rxbuf, rxpend, saved, saves, ghosts,
                   req, evt, credit, running, reqLost, evtLost>>

(* flush_tcp_pending, on a buffer b and pending bytes p of socket i: what  *)
(* fits moves to the buffer.                                               *)
Flushed(i, b, p) ==
    LET used == Len(b) + HeaderSize(i)
        room == IF used + 1 >= RxSize THEN 0 ELSE RxSize - used - 1
        n == MinOf(room, Len(p))
    IN  [buf |-> b \o FirstN(p, n), pend |-> ButFirstN(p, n), moved |-> n]

(* A RECV that returns credit before it knows that data was read.          *)
RecvCreditTwice(i, k) ==
    /\ Idle
    /\ k \in 1 .. RxRsr(i)
    /\ LET f == Flushed(i, ButFirstN(rxbuf[i], k), rxpend[i])
       IN  /\ rxbuf' = [rxbuf EXCEPT ![i] = f.buf]
           /\ rxpend' = [rxpend EXCEPT ![i] = f.pend]
           /\ Raise(i, IF f.moved > 0 THEN {"RECV"} ELSE {})
    /\ credit' = [credit EXCEPT ![i] = @ + RxRsr(i)]
    /\ taken' = [taken EXCEPT ![i] = @ + k]
    /\ UNCHANGED <<emu, sr, gen, mr, saved, saves, txn, sendoks,
                   req, evt, running, reqLost, evtLost>>

(* RECV after the guest moved RX_RD over k cells.                          *)
Recv(i, k) ==
    /\ Idle
    /\ k \in 1 .. RxRsr(i)
    /\ LET f == Flushed(i, ButFirstN(rxbuf[i], k), rxpend[i])
       IN  /\ rxbuf' = [rxbuf EXCEPT ![i] = f.buf]
           /\ rxpend' = [rxpend EXCEPT ![i] = f.pend]
           /\ Raise(i, IF f.moved > 0 THEN {"RECV"} ELSE {})
    /\ credit' = [credit EXCEPT ![i] = @ + k]
    /\ taken' = [taken EXCEPT ![i] = @ + k]
    /\ UNCHANGED <<emu, sr, gen, mr, saved, saves, txn, sendoks,
                   req, evt, running, reqLost, evtLost>>

(* reset(): every socket starts a new generation and closes.               *)
Reset ==
    /\ Idle
    /\ \A i \in Sock : GenLeft(i)
    /\ gen' = [i \in Sock |-> gen[i] + 1]
    /\ req' = Offer(req,
                    [k \in 1 .. NSock |-> Request("CloseHost", k - 1, gen[k - 1] + 1, << >>)],
                    ReqCap)
    /\ reqLost' = [i \in Sock |-> IF Len(req) + i + 1 > ReqCap THEN gen[i] + 1 ELSE reqLost[i]]
    /\ credit' = [i \in Sock |-> 0]
    /\ sr' = [i \in Sock |-> "CLOSED"]
    /\ mr' = [i \in Sock |-> "CLOSED"]
    /\ ir' = [i \in Sock |-> {}]
    /\ rxbuf' = [i \in Sock |-> << >>]
    /\ rxpend' = [i \in Sock |-> << >>]
    /\ UNCHANGED <<emu, saved, saves, ghosts, evt, running, evtLost>>

-----------------------------------------------------------------------------
(* frame_tick: pending bytes first, then every event in the ring.          *)

TickBegin ==
    /\ Idle
    /\ LET f == [i \in Sock |-> Flushed(i, rxbuf[i], rxpend[i])]
       IN  /\ rxbuf' = [i \in Sock |-> f[i].buf]
           /\ rxpend' = [i \in Sock |-> f[i].pend]
           /\ ir' = [i \in Sock |-> IF f[i].moved > 0 THEN ir[i] \cup {"RECV"} ELSE ir[i]]
    /\ emu' = <<"tick", 0>>
    /\ UNCHANGED <<sr, gen, mr, saved, saves, ghosts, req, evt, credit, running, reqLost, evtLost>>

TickEnd ==
    /\ emu = <<"tick", 0>>
    /\ evt = << >>
    /\ emu' = <<"idle", 0>>
    /\ UNCHANGED <<sr, gen, mr, ir, rxbuf, rxpend, saved, saves, ghosts,
                   req, evt, credit, running, reqLost, evtLost>>

(* apply_event takes the oldest event e of the ring.                       *)
Applying(e) ==
    /\ emu = <<"tick", 0>>
    /\ evt # << >>
    /\ e = Head(evt)
    /\ evt' = Tail(evt)
    /\ UNCHANGED <<emu, gen, mr, saved, saves, txn, taken, req, running, reqLost, evtLost>>

(* The generation test forgotten.                                          *)
NeverStale(e) == FALSE

(* An event of a socket the guest has closed or reopened since.  A raw     *)
(* frame belongs to no generation.                                         *)
Stale(e) == e.evt # "MacRawRx" /\ e.gen # gen[e.sock]

ApplyStale(e) ==
    /\ Applying(e)
    /\ Stale(e)
    /\ UNCHANGED <<sr, ir, rxbuf, rxpend, credit, sendoks>>

StatusOf(cause) ==
    CASE cause = "Connected" -> "ESTABLISHED"
      [] cause = "RemoteClosed" -> "CLOSE_WAIT"
      [] OTHER -> "CLOSED"

IrOf(cause) ==
    CASE cause = "Connected" -> {"CON"}
      [] cause \in {"RemoteClosed", "Reset"} -> {"DISCON"}
      [] OTHER -> {"TIMEOUT"}

ApplyStatus(e) ==
    /\ Applying(e)
    /\ ~Stale(e)
    /\ e.evt = "Status"
    /\ sr' = [sr EXCEPT ![e.sock] = StatusOf(e.cause)]
    /\ Raise(e.sock, IrOf(e.cause))
    /\ IF e.cause \in {"Reset", "Failed"}
       THEN /\ credit' = [credit EXCEPT ![e.sock] = 0]
            /\ rxpend' = [rxpend EXCEPT ![e.sock] = << >>]
       ELSE UNCHANGED <<credit, rxpend>>
    /\ UNCHANGED <<rxbuf, sendoks>>

(* ingest_tcp: what was pending, then what fits of the new bytes, then the *)
(* rest waits.                                                             *)
ApplyRxTcp(e) ==
    /\ Applying(e)
    /\ ~Stale(e)
    /\ e.evt = "RxTcp"
    /\ LET i == e.sock
           f == Flushed(i, rxbuf[i], rxpend[i])
           g == Flushed(i, f.buf, e.data)
       IN  /\ rxbuf' = [rxbuf EXCEPT ![i] = g.buf]
           /\ rxpend' = [rxpend EXCEPT ![i] = f.pend \o g.pend]
           /\ Raise(i, IF g.buf # rxbuf[i] THEN {"RECV"} ELSE {})
    /\ UNCHANGED <<sr, credit, sendoks>>

(* A datagram needs room for its header too, or it is dropped.             *)
ApplyRxUdp(e) ==
    /\ Applying(e)
    /\ ~Stale(e)
    /\ e.evt = "RxUdp"
    /\ LET i == e.sock
       IN  IF RoomFor(i, Len(e.data))
           THEN /\ rxbuf' = [rxbuf EXCEPT ![i] = @ \o (<<HeaderCell>> \o e.data)]
                /\ Raise(i, {"RECV"})
           ELSE UNCHANGED <<rxbuf, ir>>
    /\ UNCHANGED <<sr, rxpend, credit, sendoks>>

(* ingest_macraw: an IP frame for this machine goes to the first IPRAW     *)
(* socket whose Sn_PROTO is the frame's, which may be any of them; without *)
(* one, or without room in it, to a MACRAW socket 0 unless its filter      *)
(* refuses.                                                                *)
IpRawTakes(i, e) == sr[i] = "IPRAW" /\ e.data[1] = "ip" /\ RoomFor(i, 1)

MacRawTakes(i, e) ==
    /\ i = 0
    /\ sr[i] = "MACRAW"
    /\ mr[i] = "MACRAW_MF" => e.data[1] # "foreign"
    /\ RoomFor(i, 1)

ApplyMacRaw(e) ==
    /\ Applying(e)
    /\ e.evt = "MacRawRx"
    /\ \/ \E i \in Sock :
             /\ IpRawTakes(i, e) \/ MacRawTakes(i, e)
             /\ rxbuf' = [rxbuf EXCEPT ![i] = @ \o <<HeaderCell, RawCell>>]
             /\ Raise(i, {"RECV"})
       \/ ~MacRawTakes(0, e) /\ UNCHANGED <<rxbuf, ir>>
    /\ UNCHANGED <<sr, rxpend, credit, sendoks>>

ApplySendDone(e) ==
    /\ Applying(e)
    /\ ~Stale(e)
    /\ e.evt = "SendDone"
    /\ IF e.cause = "Failed"
       THEN Raise(e.sock, {"TIMEOUT"}) /\ UNCHANGED sendoks
       ELSE /\ Raise(e.sock, {"SEND_OK"})
            /\ sendoks' = [sendoks EXCEPT ![e.sock] = @ + 1]
    /\ UNCHANGED <<sr, rxbuf, rxpend, credit>>

ApplyEvent ==
    \E e \in {evt[k] : k \in 1 .. MinOf(1, Len(evt))} :
        \/ ApplyStale(e)
        \/ ApplyStatus(e)
        \/ ApplyRxTcp(e)
        \/ ApplyRxUdp(e)
        \/ ApplyMacRaw(e)
        \/ ApplySendDone(e)

-----------------------------------------------------------------------------
(* The snapshot, and a restore that works through the sockets in order.    *)

Snapshot ==
    /\ Idle
    /\ saves < MaxSaves
    /\ saves' = saves + 1
    /\ saved' = <<[sr |-> sr, gen |-> gen, mr |-> mr, ir |-> ir,
                   rxbuf |-> rxbuf, rxpend |-> rxpend]>>
    /\ UNCHANGED <<emu, sr, gen, mr, ir, rxbuf, rxpend, ghosts,
                   req, evt, credit, running, reqLost, evtLost>>

(* The chip memory comes back at once: Sn_MR and Sn_IR live there.         *)
RestoreBegin ==
    /\ Idle
    /\ saved # << >>
    /\ saves < MaxSaves
    /\ \A i \in Sock :
          gen[i] + (IF saved[1].sr[i] = "LISTEN" THEN 2 ELSE 1) <= MaxGen
    /\ saves' = saves + 1
    /\ mr' = saved[1].mr
    /\ ir' = saved[1].ir
    /\ emu' = <<"restore", 0>>
    /\ UNCHANGED <<sr, gen, rxbuf, rxpend, saved, ghosts,
                   req, evt, credit, running, reqLost, evtLost>>

NextRestore(i) == IF i + 1 \in Sock THEN <<"restore", i + 1>> ELSE <<"idle", 0>>

MaxOf(a, b) == IF a > b THEN a ELSE b

(* A restore that takes its generation from the snapshot alone.            *)
RestoredGenSaved(i) == saved[1].gen[i] + 1

(* The generation close_host starts in a restore: never one used before.   *)
RestoredGen(i) == MaxOf(gen[i], saved[1].gen[i]) + 1

(* A connection cannot come back: CLOSED with DISCON.                      *)
RestoreLost(i) ==
    /\ saved[1].sr[i] \in Connected \cup {"SYNSENT"}
    /\ CloseHost(i, RestoredGen(i), "CloseHost")
    /\ sr' = [sr EXCEPT ![i] = "CLOSED"]
    /\ Raise(i, {"DISCON"})

(* A restore that only sets the registers.                                 *)
RestoreOpenNoRequest(i) ==
    /\ saved[1].sr[i] \in {"INIT", "UDP"}
    /\ CloseHost(i, RestoredGen(i), "CloseHost")
    /\ sr' = [sr EXCEPT ![i] = saved[1].sr[i]]
    /\ UNCHANGED ir

(* An INIT or UDP socket is opened again on the host.                      *)
RestoreOpen(i) ==
    /\ saved[1].sr[i] \in {"INIT", "UDP"}
    /\ gen' = [gen EXCEPT ![i] = RestoredGen(i)]
    /\ Post(i, RestoredGen(i),
            <<Request("CloseHost", i, RestoredGen(i), << >>),
              Request(IF saved[1].sr[i] = "INIT" THEN "OpenTcp" ELSE "OpenUdp",
                      i, RestoredGen(i), << >>)>>)
    /\ credit' = [credit EXCEPT ![i] = 0]
    /\ rxpend' = [rxpend EXCEPT ![i] = saved[1].rxpend[i]]
    /\ sr' = [sr EXCEPT ![i] = saved[1].sr[i]]
    /\ UNCHANGED ir

(* A listener is bound again, or CLOSED with TIMEOUT when it cannot be.    *)
RestoreListen(i) ==
    /\ saved[1].sr[i] = "LISTEN"
    /\ credit' = [credit EXCEPT ![i] = 0]
    /\ \/ /\ Len(req) + 2 <= ReqCap
          /\ gen' = [gen EXCEPT ![i] = RestoredGen(i)]
          /\ Post(i, RestoredGen(i),
                  <<Request("CloseHost", i, RestoredGen(i), << >>),
                    Request("AdoptListen", i, RestoredGen(i), << >>)>>)
          /\ sr' = [sr EXCEPT ![i] = "LISTEN"]
          /\ rxpend' = [rxpend EXCEPT ![i] = saved[1].rxpend[i]]
          /\ UNCHANGED ir
       \/ /\ gen' = [gen EXCEPT ![i] = RestoredGen(i) + 1]
          /\ Post(i, RestoredGen(i) + 1,
                  <<Request("CloseHost", i, RestoredGen(i), << >>),
                    Request("CloseHost", i, RestoredGen(i) + 1, << >>)>>)
          /\ sr' = [sr EXCEPT ![i] = "CLOSED"]
          /\ rxpend' = [rxpend EXCEPT ![i] = << >>]
          /\ Raise(i, {"TIMEOUT"})

RestoreOther(i) ==
    /\ saved[1].sr[i] \in {"CLOSED", "IPRAW", "MACRAW"}
    /\ gen' = [gen EXCEPT ![i] = RestoredGen(i)]
    /\ Post(i, RestoredGen(i), <<Request("CloseHost", i, RestoredGen(i), << >>)>>)
    /\ credit' = [credit EXCEPT ![i] = 0]
    /\ rxpend' = [rxpend EXCEPT ![i] = saved[1].rxpend[i]]
    /\ sr' = [sr EXCEPT ![i] = saved[1].sr[i]]
    /\ UNCHANGED ir

Restore(i) ==
    /\ emu = <<"restore", i>>
    /\ emu' = NextRestore(i)
    /\ RestoreLost(i) \/ RestoreOpen(i) \/ RestoreListen(i) \/ RestoreOther(i)
    /\ rxbuf' = [rxbuf EXCEPT ![i] = saved[1].rxbuf[i]]
    /\ txn' = [txn EXCEPT ![i] = 0]
    /\ taken' = [taken EXCEPT ![i] = -Len(saved[1].rxbuf[i])]
    /\ sendoks' = [sendoks EXCEPT ![i] = 0]
    /\ UNCHANGED <<mr, saved, saves, evt, running, evtLost>>

-----------------------------------------------------------------------------
(* A stop that relies on the Shutdown request alone.                       *)
StopShutdownOnly ==
    /\ Idle
    /\ req' = Offer(req, <<Request("Shutdown", 0, 0, << >>)>>, ReqCap)
    /\ emu' = <<"join", 0>>
    /\ UNCHANGED <<sr, gen, mr, ir, rxbuf, rxpend, saved, saves, ghosts,
                   evt, credit, running, reqLost, evtLost>>

(* stop(): running_ first, then a Shutdown the ring may refuse.            *)
Stop ==
    /\ Idle
    /\ running' = FALSE
    /\ req' = Offer(req, <<Request("Shutdown", 0, 0, << >>)>>, ReqCap)
    /\ emu' = <<"join", 0>>
    /\ UNCHANGED <<sr, gen, mr, ir, rxbuf, rxpend, saved, saves, ghosts,
                   evt, credit, reqLost, evtLost>>

(* start() has reset the chip before the worker runs.                      *)
ChipInit ==
    /\ emu = <<"idle", 0>>
    /\ sr = [i \in Sock |-> "CLOSED"]
    /\ gen = [i \in Sock |-> 1]
    /\ mr = [i \in Sock |-> "CLOSED"]
    /\ ir = [i \in Sock |-> {}]
    /\ rxbuf = [i \in Sock |-> << >>]
    /\ rxpend = [i \in Sock |-> << >>]
    /\ saved = << >>
    /\ saves = 0
    /\ txn = [i \in Sock |-> 0]
    /\ taken = [i \in Sock |-> 0]
    /\ sendoks = [i \in Sock |-> 0]
    /\ req = Offer(<< >>,
                   [k \in 1 .. NSock |-> Request("CloseHost", k - 1, 1, << >>)], ReqCap)
    /\ reqLost = [i \in Sock |-> IF i + 1 > ReqCap THEN 1 ELSE 0]
    /\ credit = [i \in Sock |-> 0]
    /\ running = TRUE

(* Whatever the guest does next, and the rest of a handler under way.      *)
Command(i) ==
    \/ \E p \in Protocol : WriteMR(i, p)
    \/ "IR" \in Commands /\ WriteIR(i)
    \/ "OPEN" \in Commands /\ OpenClose(i)
    \/ OpenFinish(i)
    \/ "LISTEN" \in Commands /\ Listen(i)
    \/ "CONNECT" \in Commands /\ Connect(i)
    \/ "DISCON" \in Commands /\ Discon(i)
    \/ "CLOSE" \in Commands /\ Close(i)
    \/ "SEND" \in Commands /\ Send(i)
    \/ "SEND_KEEP" \in Commands /\ SendKeep(i)
    \/ "RECV" \in Commands /\ \E k \in 1 .. RxSize : Recv(i, k)
    \/ Restore(i)

ChipNext ==
    \/ \E i \in Sock : Command(i)
    \/ "RESET" \in Commands /\ Reset
    \/ TickBegin
    \/ ApplyEvent
    \/ TickEnd
    \/ Snapshot
    \/ RestoreBegin
    \/ "STOP" \in Commands /\ Stop
=============================================================================
