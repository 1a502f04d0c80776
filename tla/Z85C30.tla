------------------------------- MODULE Z85C30 -------------------------------
(***************************************************************************)
(* The Z85C30 serial controller: two channels, each with a transmitter, a  *)
(* receiver and External/Status sources, one interrupt block, the events   *)
(* it schedules on the emulator's timer, and its ends of the rings of the  *)
(* attached devices.                                                       *)
(*                                                                         *)
(* The chip is a record s, so that a handler that calls another is the     *)
(* composition of two functions of s.  A character is present or absent,   *)
(* its value does not matter; the receive FIFO is a count.  Of the time a  *)
(* character takes only that it ends is kept: timers holds the events a    *)
(* channel has scheduled.  reg_select is left out: the guest may reach any *)
(* register with any access, and the write that selects one is a WR0 write *)
(* with no command.  Of a ring to a device its length is kept, and what    *)
(* the device was last told.                                               *)
(***************************************************************************)
EXTENDS Integers, Sequences, FiniteSetsExt

CONSTANTS
    FifoCap,    \* characters the receive FIFO holds
    InCap,      \* messages the SerialQueue from a device holds
    OutCap,     \* messages the SerialQueue to a device holds
    SetUp,      \* the registers as the guest's driver has set them up, by channel
    Wr1, Wr3, Wr5, Wr9, Wr11, Wr14, Wr15,   \* what the guest writes later, by channel
    Wr0,        \* the WR0 commands the guest gives, by channel
    Message,    \* what a device sends, by channel
    Port,       \* the channels devices are attached to
    MaxAccess   \* accesses of the guest, resets and changes of device

Channel == {"A", "B"}
Line == {"dcd", "cts", "brk"}
ExtSource == Line \cup {"zc"}
OnOff == {"on", "off"}
Route == {"rtxc", "trxc", "brg"}

(* The fields of the registers that are modelled.                          *)
Wr1Value == [extIe : BOOLEAN, txIe : BOOLEAN, rxMode : {"off", "first", "all", "special"}]
Wr3Value == [rxEnable : BOOLEAN, auto : BOOLEAN]
Wr5Value == [txEnable : BOOLEAN, ctl : OnOff, sendBreak : OnOff]
Wr9Value == [mie : BOOLEAN, softIntack : BOOLEAN, reset : {"none", "A", "B", "hardware"}]
Wr11Value == [txClock : Route, rxClock : Route]
Wr14Value == [brg : BOOLEAN, loopback : BOOLEAN]
Wr0Value == {"point", "ext_reset", "next_rx", "reset_tx_ip", "error_reset", "reset_ius"}
SetUpValue ==
    [wr1 : Wr1Value, wr3 : Wr3Value, wr5 : Wr5Value, wr11 : Wr11Value, wr14 : Wr14Value,
     wr15 : SUBSET ExtSource]
MessageValue == [type : {"DATA"}] \cup [type : {"STATUS"}, dcd : BOOLEAN, cts : BOOLEAN]
                \cup [type : {"BREAK"}, on : BOOLEAN]

ASSUME SizeAssumption == FifoCap \in Nat \ {0} /\ {InCap, OutCap} \subseteq Nat \ {0} /\ MaxAccess \in Nat
ASSUME AccessAssumption ==
    /\ \A c \in Channel :
          /\ Wr1[c] \subseteq Wr1Value /\ Wr3[c] \subseteq Wr3Value /\ Wr5[c] \subseteq Wr5Value
          /\ Wr11[c] \subseteq Wr11Value /\ Wr14[c] \subseteq Wr14Value
          /\ Wr15[c] \subseteq SUBSET ExtSource /\ Wr0[c] \subseteq Wr0Value
          /\ SetUp[c] \subseteq SetUpValue /\ Message[c] \subseteq MessageValue
    /\ Wr9 \subseteq Wr9Value
    /\ Port \subseteq Channel

VARIABLES
    s,          \* the chip: c, the channels; mie, softIntack, ip, ius and int, the INT line
    accesses    \* how many of the MaxAccess were made

vars == <<s, accesses>>

-----------------------------------------------------------------------------
(* The interrupt block.                                                    *)

Source(c, src) == (IF c = "A" THEN 3 ELSE 0) + (CASE src = "rx" -> 2 [] src = "tx" -> 1 [] src = "ext" -> 0)

Highest(bits) == IF bits = {} THEN -1 ELSE Max(bits)

RxPending(r) ==
    /\ r.rxMode # "off"
    /\ \/ r.overrun
       \/ r.fifo > 0 /\ (r.rxMode = "all" \/ (r.rxMode = "first" /\ r.rxFirstArmed))

(* recompute_ip                                                            *)
RecomputeIp(t) ==
    {Source(c, "rx") : c \in {k \in Channel : RxPending(t.c[k])}}
        \cup {Source(c, "tx") : c \in {k \in Channel : t.c[k].txIe /\ t.c[k].txIp}}
        \cup {Source(c, "ext") : c \in {k \in Channel : t.c[k].extIe /\ t.c[k].extIp}}

(* The INT line the sources of both channels call for.                     *)
IntDue(t) == t.mie /\ Highest(RecomputeIp(t)) > Highest(t.ius)

(* INT as the pending sources of channel A alone call for it.              *)
UpdateInterruptsA(t) ==
    [t EXCEPT !.ip = RecomputeIp(t), !.int = t.mie /\ Highest(RecomputeIp(t)) > 2 /\ IntDue(t)]

UpdateInterrupts(t) == [t EXCEPT !.ip = RecomputeIp(t), !.int = IntDue(t)]

-----------------------------------------------------------------------------
(* Clocks and characters, as functions of a channel.                       *)

Clocked(r, route) == route = "rtxc" \/ (route = "brg" /\ r.brg)

ScheduleTxComplete(r) ==
    IF Clocked(r, r.txClock) THEN [r EXCEPT !.txStalled = FALSE, !.timers = @ \cup {"tx"}]
    ELSE [r EXCEPT !.txStalled = TRUE]

ScheduleRxComplete(r) ==
    IF Clocked(r, r.rxClock) THEN [r EXCEPT !.rxStalled = FALSE, !.timers = @ \cup {"rx"}]
    ELSE [r EXCEPT !.rxStalled = TRUE]

ZcArm(r) == IF "zc" \in r.mask /\ r.brg THEN [r EXCEPT !.timers = @ \cup {"zc"}] ELSE r

RxPollArm(r) == IF r.attached THEN [r EXCEPT !.timers = @ \cup {"poll"}] ELSE r

(* A send to the device: dropped when the ring is full.                    *)
Room(r) == r.toDevice < OutCap
Sent(r) == IF r.attached /\ Room(r) THEN [r EXCEPT !.toDevice = @ + 1] ELSE r

(* The line parameters, told when they change.  Of the rate only where it  *)
(* comes from is kept, 9600 standing in for none; the format is left out.  *)
LineParams(r) == IF Clocked(r, r.txClock) THEN r.txClock ELSE "9600"

PushLineParams(r) ==
    IF r.attached /\ LineParams(r) # r.lineTold /\ Room(r)
    THEN [Sent(r) EXCEPT !.lineTold = LineParams(r)] ELSE r

(* DTR and RTS, and then the break, told when they change.                 *)
LinesOutUpdate(r, force) ==
    LET ctl == IF r.attached /\ (force \/ r.ctl # r.ctlTold) /\ Room(r)
               THEN [Sent(r) EXCEPT !.ctlTold = r.ctl] ELSE r
    IN  IF ctl.attached /\ (force \/ ctl.sendBreak # ctl.breakTold) /\ Room(ctl)
        THEN [Sent(ctl) EXCEPT !.breakTold = ctl.sendBreak] ELSE ctl

(* A clock that comes leaves the character that waits for it alone.        *)
UpdateTimingSourcesIdle(r) == ZcArm(PushLineParams(r))

UpdateTimingSources(r) ==
    LET p == PushLineParams(r)
        t == IF p.txBusy /\ p.txStalled THEN ScheduleTxComplete(p) ELSE p
    IN  ZcArm(IF t.rxBusy /\ t.rxStalled THEN ScheduleRxComplete(t) ELSE t)

(* Transmit buffer to shift register.  Auto enables make CTS the enable.   *)
TxLoadShift(r) ==
    IF r.auto /\ ~r.cts THEN r
    ELSE ScheduleTxComplete([r EXCEPT !.txFull = FALSE, !.txBusy = TRUE, !.txIp = @ \/ r.txIe])

TxLoadIfWaiting(r) == IF r.txFull /\ ~r.txBusy THEN TxLoadShift(r) ELSE r

(* A FIFO without a limit.                                                 *)
RxPushUnbounded(r) == [r EXCEPT !.fifo = @ + 1]

RxPush(r) ==
    IF r.fifo < FifoCap THEN [r EXCEPT !.fifo = @ + 1] ELSE [r EXCEPT !.overrun = TRUE]

ScheduleRxChar(r) ==
    IF ~r.rxEnable \/ (r.auto /\ ~r.dcd) THEN r
    ELSE ScheduleRxComplete([r EXCEPT !.rxBusy = TRUE])

-----------------------------------------------------------------------------
(* External/Status.                                                        *)

ExtLive(r) == {l \in Line : r[l]}

Moved(r, a, b) == ((a \ b) \cup (b \ a)) \cap r.mask # {}

Latched(r, live) == [r EXCEPT !.latched = TRUE, !.held = live, !.extIp = @ \/ r.extIe]

(* live is ExtLive(r), and the zero count while it lasts.                  *)
ExtUpdate(r, live) ==
    LET n == IF r.latched THEN r
             ELSE [(IF Moved(r, live, r.last) THEN Latched(r, live) ELSE r) EXCEPT !.last = live]
    IN  IF n.auto /\ n.cts THEN TxLoadIfWaiting(n) ELSE n

(* Reset Ext/Status opens the latch whatever the lines did behind it.      *)
ExtResetOpens(r) ==
    [r EXCEPT !.extIp = FALSE, !.latched = FALSE, !.last = ExtLive(r), !.fresh = TRUE,
              !.seen = IF r.latched THEN r.held ELSE ExtLive(r)]

(* Reset Ext/Status opens the latch, and closes it again if an enabled     *)
(* line moved meanwhile.  The guest has then seen what RR0 held.           *)
ExtReset(r) ==
    LET live == ExtLive(r)
        o == [r EXCEPT !.extIp = FALSE, !.latched = FALSE]
        n == IF r.latched /\ Moved(r, live, r.held) THEN Latched(o, live) ELSE o
    IN  [n EXCEPT !.last = live, !.seen = IF r.latched THEN r.held ELSE live, !.fresh = TRUE]

-----------------------------------------------------------------------------
(* The chip: functions of s.                                               *)

On(t, c, r) == [t EXCEPT !.c[c] = r]

(* What rx_try_start does with one message of the device.                  *)
Taken(t, c, m) ==
    LET r == t.c[c] IN
    CASE m.type = "DATA" -> On(t, c, ScheduleRxChar(r))
      [] m.type = "STATUS" ->
           LET l == [r EXCEPT !.dcd = m.dcd, !.cts = m.cts]
           IN  UpdateInterrupts(On(t, c, ExtUpdate(l, ExtLive(l))))
      [] m.type = "BREAK" ->
           LET e == IF r.brk /\ ~m.on /\ r.rxEnable THEN RxPush(r) ELSE r
               l == [e EXCEPT !.brk = m.on]
           IN  UpdateInterrupts(On(t, c, ExtUpdate(l, ExtLive(l))))

(* rx_try_start: the messages up to the first character, if idle.          *)
RxTryStart(t, c) ==
    LET r == t.c[c]
        q == r.fromDevice
        chars == {i \in DOMAIN q : q[i].type = "DATA"}
        n == IF chars = {} THEN Len(q) ELSE Min(chars)
        after[i \in 0 .. n] ==
            IF i = 0 THEN On(t, c, [r EXCEPT !.fromDevice = SubSeq(@, n + 1, Len(@))])
            ELSE Taken(after[i - 1], c, q[i])
    IN  IF ~r.attached \/ r.rxBusy \/ r.loopback THEN t ELSE after[n]

UpdateQueues(t) == RxTryStart(RxTryStart(t, "A"), "B")

(* Through WR8 or RR8 the data register is reached by two handlers, each   *)
(* of which calls update_queues.                                           *)
DataAccess(t, viaCmd) == IF viaCmd THEN UpdateQueues(UpdateQueues(t)) ELSE UpdateQueues(t)

Cancelled(r) == [r EXCEPT !.timers = @ \ {"tx", "rx", "zc"}]

(* hw_reset_channel and soft_reset_channel.  The auto enables stay as they *)
(* are; DTR, RTS and the break go off without a word to the device; and    *)
(* ext_last_bits keeps what it held.  A channel reset leaves MIE, and the  *)
(* baud rate generator running.  The guest starts afresh.                  *)
ResetChannel(t, c, hardware) ==
    LET r == t.c[c]
        cleared == [Cancelled(r) EXCEPT
            !.txIp = FALSE, !.extIp = FALSE, !.rxFirstArmed = TRUE,
            !.txBusy = FALSE, !.rxBusy = FALSE, !.txFull = FALSE, !.fifo = 0, !.overrun = FALSE,
            !.txStalled = FALSE, !.rxStalled = FALSE, !.latched = FALSE,
            !.extIe = FALSE, !.txIe = FALSE, !.rxMode = "off", !.rxEnable = FALSE,
            !.txEnable = FALSE, !.ctl = "off", !.sendBreak = "off",
            !.txClock = "trxc", !.rxClock = "rtxc", !.loopback = FALSE,
            !.brg = @ /\ ~hardware, !.mask = Line, !.seen = ExtLive(r), !.fresh = FALSE]
        u == [On(t, c, UpdateTimingSources(cleared)) EXCEPT
                 !.ius = @ \ {Source(c, x) : x \in {"rx", "tx", "ext"}},
                 !.mie = @ /\ ~hardware, !.softIntack = FALSE]
    IN  UpdateInterrupts(u)

HardwareReset(t) == ResetChannel(ResetChannel(t, "A", TRUE), "B", TRUE)

-----------------------------------------------------------------------------
(* The guest.  Every access starts with update_queues.                     *)

Access == accesses < MaxAccess /\ accesses' = accesses + 1

(* WR0: the commands, of which "point" is none.                            *)
WriteWr0(c) ==
    /\ Access
    /\ \E cmd \in Wr0[c] :
           LET u == UpdateQueues(s)
               r == u.c[c]
           IN  s' = UpdateInterrupts(
                   CASE cmd = "point" -> u
                     [] cmd = "ext_reset" -> On(u, c, ExtReset(r))
                     [] cmd = "next_rx" -> On(u, c, [r EXCEPT !.rxFirstArmed = TRUE])
                     [] cmd = "reset_tx_ip" -> On(u, c, [r EXCEPT !.txIp = FALSE])
                     [] cmd = "error_reset" -> On(u, c, [r EXCEPT !.overrun = FALSE])
                     [] cmd = "reset_ius" -> [u EXCEPT !.ius = @ \ {Highest(u.ius)}])

WriteWr1(c) ==
    /\ Access
    /\ \E v \in Wr1[c] :
           LET u == UpdateQueues(s)
           IN  s' = UpdateInterrupts(On(u, c,
                       [u.c[c] EXCEPT !.extIe = v.extIe, !.txIe = v.txIe, !.rxMode = v.rxMode,
                                      !.txIp = @ /\ v.txIe]))

WriteWr3(c) ==
    /\ Access
    /\ \E v \in Wr3[c] :
           LET u == UpdateQueues(s)
           IN  s' = On(u, c, PushLineParams([u.c[c] EXCEPT !.rxEnable = v.rxEnable, !.auto = v.auto]))

WriteWr5(c) ==
    /\ Access
    /\ \E v \in Wr5[c] :
           LET u == UpdateQueues(s)
               r == [u.c[c] EXCEPT !.txEnable = v.txEnable, !.ctl = v.ctl, !.sendBreak = v.sendBreak]
               l == LinesOutUpdate(PushLineParams(r), FALSE)
           IN  s' = On(u, c, IF l.txEnable THEN TxLoadIfWaiting(l) ELSE l)

(* WR9 is one register, written through either channel.                    *)
WriteWr9 ==
    /\ Access
    /\ \E v \in Wr9 :
           LET u == [UpdateQueues(s) EXCEPT !.mie = v.mie, !.softIntack = v.softIntack]
           IN  s' = CASE v.reset = "none" -> u
                      [] v.reset \in Channel -> ResetChannel(u, v.reset, FALSE)
                      [] v.reset = "hardware" -> HardwareReset(u)

(* WR11, WR14, and WR4, WR12 and WR13, whose values are left out.          *)
WriteWr11(c) ==
    /\ Access
    /\ \E v \in Wr11[c] :
           LET u == UpdateQueues(s)
           IN  s' = On(u, c, UpdateTimingSources(
                       [u.c[c] EXCEPT !.txClock = v.txClock, !.rxClock = v.rxClock]))

WriteWr14(c) ==
    /\ Access
    /\ \E v \in Wr14[c] :
           LET u == UpdateQueues(s)
           IN  s' = On(u, c, UpdateTimingSources(
                       [u.c[c] EXCEPT !.brg = v.brg, !.loopback = v.loopback]))

WriteTiming(c) ==
    /\ Access
    /\ LET u == UpdateQueues(s) IN s' = On(u, c, UpdateTimingSources(u.c[c]))

(* WR15: enabling a source is not a change of it.                          *)
WriteWr15(c) ==
    /\ Access
    /\ \E m \in Wr15[c] :
           LET u == UpdateQueues(s)
               live == ExtLive(u.c[c])
           IN  s' = On(u, c, ZcArm([u.c[c] EXCEPT !.mask = m, !.last = live, !.seen = live, !.fresh = TRUE]))

(* writeData; WR2, WR6, WR7 and WR10 only store.                           *)
WriteData(c) ==
    /\ Access
    /\ \E viaCmd \in BOOLEAN :
           LET u == DataAccess(s, viaCmd)
               r == [u.c[c] EXCEPT !.txIp = FALSE, !.txFull = TRUE]
           IN  s' = IF ~u.c[c].txEnable THEN u ELSE UpdateInterrupts(On(u, c, TxLoadIfWaiting(r)))

WriteOther == s' = UpdateQueues(s) /\ UNCHANGED accesses

(* RR2 with the software acknowledge puts the highest source in service.   *)
ReadCmd ==
    /\ Access
    /\ \E rr2 \in BOOLEAN :
           LET u == UpdateQueues(s)
               top == Highest(RecomputeIp(u))
           IN  s' = UpdateInterrupts(
                   IF rr2 /\ u.softIntack /\ top > Highest(u.ius) THEN [u EXCEPT !.ius = @ \cup {top}]
                   ELSE u)

ReadData(c) ==
    /\ Access
    /\ \E viaCmd \in BOOLEAN :
           LET u == DataAccess(s, viaCmd)
               r == u.c[c]
           IN  s' = UpdateInterrupts(
                   IF r.fifo = 0 THEN u
                   ELSE On(u, c, [r EXCEPT !.fifo = @ - 1, !.rxFirstArmed = @ /\ r.rxMode # "first"]))

(* The machine is reset.                                                   *)
Reset == Access /\ s' = HardwareReset(s)

Guest ==
    \/ \E c \in Channel :
          \/ WriteWr0(c) \/ WriteWr1(c) \/ WriteWr3(c) \/ WriteWr5(c)
          \/ WriteWr11(c) \/ WriteWr14(c) \/ WriteTiming(c) \/ WriteWr15(c)
          \/ WriteData(c) \/ ReadData(c)
    \/ WriteWr9 \/ WriteOther \/ ReadCmd \/ Reset

-----------------------------------------------------------------------------
(* The events of the timer.                                                *)

Due(c, timer) == timer \in s.c[c].timers /\ UNCHANGED accesses
Fired(c, timer) == [s.c[c] EXCEPT !.timers = @ \ {timer}]

(* tx_complete: to the device, or in local loopback to the receiver; then  *)
(* the character that waits.                                               *)
TxComplete(c) ==
    /\ Due(c, "tx")
    /\ LET r == [Fired(c, "tx") EXCEPT !.txBusy = FALSE]
           o == IF ~r.loopback THEN Sent(r) ELSE IF r.rxEnable THEN RxPush(r) ELSE r
       IN  s' = UpdateInterrupts(On(s, c, TxLoadIfWaiting(o)))

RxComplete(c) ==
    /\ Due(c, "rx")
    /\ LET r == [Fired(c, "rx") EXCEPT !.rxBusy = FALSE]
       IN  s' = RxTryStart(UpdateInterrupts(On(s, c, RxPush(r))), c)

(* A poll that is not armed again after it found the receiver busy.        *)
RxPollOnce(c) ==
    /\ Due(c, "poll")
    /\ LET u == RxTryStart(On(s, c, Fired(c, "poll")), c)
       IN  s' = IF u.c[c].rxBusy THEN u ELSE On(u, c, RxPollArm(u.c[c]))

RxPoll(c) ==
    /\ Due(c, "poll")
    /\ LET u == RxTryStart(On(s, c, Fired(c, "poll")), c)
       IN  s' = On(u, c, RxPollArm(u.c[c]))

(* zc_tick: the zero count lasts for this instant.                         *)
ZcTick(c) ==
    /\ Due(c, "zc")
    /\ LET r == Fired(c, "zc")
           n == ExtUpdate(r, ExtLive(r) \cup {"zc"})
           u == UpdateInterrupts(On(s, c, n))
       IN  s' = On(u, c, ZcArm([n EXCEPT !.last = IF n.latched THEN @ ELSE ExtLive(n)]))

Timer(c) == TxComplete(c) \/ RxComplete(c) \/ RxPoll(c) \/ ZcTick(c)

-----------------------------------------------------------------------------
(* The devices.                                                            *)

(* set_device_channel with a new device, whose rings are empty, or none.   *)
(* A new device has DCD and CTS asserted until it says otherwise.          *)
SetDevice(c) ==
    /\ Access
    /\ \E device \in BOOLEAN :
           LET r == [s.c[c] EXCEPT !.attached = device, !.lineTold = "none", !.toDevice = 0,
                                   !.fromDevice = << >>]
               t == LinesOutUpdate(PushLineParams(r), TRUE)
               l == [t EXCEPT !.dcd = TRUE, !.cts = TRUE, !.brk = FALSE]
               u == UpdateInterrupts(On(s, c, ExtUpdate(l, ExtLive(l))))
           IN  s' = On(u, c, RxPollArm(u.c[c]))

DeviceSend(c) ==
    /\ s.c[c].attached /\ Len(s.c[c].fromDevice) < InCap
    /\ \E m \in Message[c] : s' = [s EXCEPT !.c[c].fromDevice = Append(@, m)]
    /\ UNCHANGED accesses

DeviceGet(c) ==
    /\ s.c[c].attached /\ s.c[c].toDevice > 0
    /\ s' = [s EXCEPT !.c[c].toDevice = @ - 1]
    /\ UNCHANGED accesses

-----------------------------------------------------------------------------
(* The channel the constructor leaves.                                     *)
NewChannel ==
    [extIe |-> FALSE, txIe |-> FALSE, rxMode |-> "off", rxEnable |-> FALSE, auto |-> FALSE,
     txEnable |-> FALSE, ctl |-> "off", sendBreak |-> "off", txClock |-> "trxc",
     rxClock |-> "rtxc", brg |-> FALSE, loopback |-> FALSE, mask |-> Line,
     txFull |-> FALSE, txBusy |-> FALSE, rxBusy |-> FALSE, fifo |-> 0, overrun |-> FALSE,
     txIp |-> FALSE, extIp |-> FALSE, rxFirstArmed |-> TRUE,
     dcd |-> TRUE, cts |-> TRUE, brk |-> FALSE,
     latched |-> FALSE, held |-> {}, last |-> {"dcd", "cts"},
     txStalled |-> FALSE, rxStalled |-> FALSE, timers |-> {},
     attached |-> FALSE, fromDevice |-> << >>, toDevice |-> 0,
     ctlTold |-> "none", breakTold |-> "none", lineTold |-> "none",
     seen |-> {"dcd", "cts"}, fresh |-> TRUE]

(* The channel the guest's driver has set up; a device of c was attached   *)
(* at the start and has taken what it was told since.                      *)
ReadyChannel(c, v) ==
    LET r == ZcArm([NewChannel EXCEPT
                !.extIe = v.wr1.extIe, !.txIe = v.wr1.txIe, !.rxMode = v.wr1.rxMode,
                !.rxEnable = v.wr3.rxEnable, !.auto = v.wr3.auto, !.txEnable = v.wr5.txEnable,
                !.ctl = v.wr5.ctl, !.sendBreak = v.wr5.sendBreak, !.txClock = v.wr11.txClock,
                !.rxClock = v.wr11.rxClock, !.brg = v.wr14.brg, !.loopback = v.wr14.loopback,
                !.mask = v.wr15, !.attached = c \in Port])
        told == LinesOutUpdate(PushLineParams(r), TRUE)
    IN  RxPollArm([told EXCEPT !.toDevice = 0])

Init ==
    /\ accesses = 0
    /\ \E a \in SetUp["A"], b \in SetUp["B"] :
          s = [c |-> [c \in Channel |-> ReadyChannel(c, IF c = "A" THEN a ELSE b)], mie |-> TRUE,
               softIntack |-> TRUE, ip |-> {}, ius |-> {}, int |-> FALSE]

Next ==
    \/ Guest
    \/ \E c \in Channel : Timer(c) \/ DeviceSend(c) \/ DeviceGet(c)
    \/ \E c \in Port : SetDevice(c)

Spec == Init /\ [][Next]_vars

-----------------------------------------------------------------------------
(* Properties.                                                             *)

ChannelState ==
    [extIe : BOOLEAN, txIe : BOOLEAN, rxMode : {"off", "first", "all", "special"},
     rxEnable : BOOLEAN, auto : BOOLEAN, txEnable : BOOLEAN, ctl : OnOff, sendBreak : OnOff,
     txClock : Route, rxClock : Route, brg : BOOLEAN, loopback : BOOLEAN, mask : SUBSET ExtSource,
     txFull : BOOLEAN, txBusy : BOOLEAN, rxBusy : BOOLEAN, fifo : 0 .. FifoCap, overrun : BOOLEAN,
     txIp : BOOLEAN, extIp : BOOLEAN, rxFirstArmed : BOOLEAN,
     dcd : BOOLEAN, cts : BOOLEAN, brk : BOOLEAN,
     latched : BOOLEAN, held : SUBSET ExtSource, last : SUBSET ExtSource,
     txStalled : BOOLEAN, rxStalled : BOOLEAN, timers : SUBSET {"tx", "rx", "poll", "zc"},
     attached : BOOLEAN, fromDevice : Seq(MessageValue), toDevice : 0 .. OutCap,
     ctlTold : OnOff \cup {"none"}, breakTold : OnOff \cup {"none"},
     lineTold : Route \cup {"9600", "none"}, seen : SUBSET ExtSource, fresh : BOOLEAN]

(* The registers, latches, FIFO and events of both channels of Z85C30.     *)
TypeOK ==
    /\ DOMAIN s = {"c", "mie", "softIntack", "ip", "ius", "int"}
    /\ s.c \in [Channel -> ChannelState]
    /\ {s.mie, s.softIntack, s.int} \subseteq BOOLEAN
    /\ s.ip \subseteq 0 .. 5 /\ s.ius \subseteq 0 .. 5
    /\ \A c \in Channel : Len(s.c[c].fromDevice) <= InCap
    /\ accesses \in 0 .. MaxAccess

(* A character in a shift register has its completion event scheduled, or  *)
(* is stalled and its direction has no clock; an event is only there for a *)
(* character.  So a character is neither forgotten nor completed twice,    *)
(* whatever order WR11, WR14, a reset and the timer come in.               *)
NoStuckChar ==
    \A c \in Channel : LET r == s.c[c] IN
        /\ ("tx" \in r.timers) = (r.txBusy /\ ~r.txStalled)
        /\ ("rx" \in r.timers) = (r.rxBusy /\ ~r.rxStalled)
        /\ r.txStalled => r.txBusy /\ ~Clocked(r, r.txClock)
        /\ r.rxStalled => r.rxBusy /\ ~Clocked(r, r.rxClock)

(* No step but a WR5 or a WR9 write makes INT other than what the sources  *)
(* pending and in service of both channels call for.  Those two change a   *)
(* source, or MIE, without update_interrupts, and INT waits for a later    *)
(* access or event.                                                        *)
IntFollows ==
    [][s.int = IntDue(s) =>
          s'.int = IntDue(s') \/ WriteWr9 \/ \E c \in Channel : WriteWr5(c)]_vars

ExtUnseen(r) == (ExtLive(r) \cap r.mask) # (r.seen \cap r.mask)

(* An enabled External/Status line that is not as the guest last saw it    *)
(* has closed the latch, so that Reset Ext/Status will tell, also when it  *)
(* moved while the latch was closed; until a reset clears the latch.       *)
ExtNotLost == \A c \in Channel : s.c[c].fresh /\ ~s.c[c].latched => ~ExtUnseen(s.c[c])

(* The same after a reset: a change of an enabled line closes the latch.   *)
ExtNotLostAfterReset == \A c \in Channel : ~s.c[c].latched => ~ExtUnseen(s.c[c])

(* The receiver takes what a device sends without an access of the guest:  *)
(* while a device is attached the poll is scheduled, also when the device  *)
(* was changed, or the chip reset, before the last poll came.              *)
NeverDeaf == \A c \in Channel : s.c[c].attached => "poll" \in s.c[c].timers

=============================================================================
