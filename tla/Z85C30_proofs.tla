--------------------------- MODULE Z85C30_proofs ---------------------------
(***************************************************************************)
(* What the serial controller guarantees, for any FIFO and ring sizes, any *)
(* register values, messages and number of accesses.  The invariants are   *)
(* of a channel each, so the proof follows the model: a lemma per function *)
(* of a channel, a lemma per function of the chip, then the actions.       *)
(***************************************************************************)
EXTENDS Z85C30, SequenceTheorems, FiniteSetTheorems, FoldLemmas

-----------------------------------------------------------------------------
(* A channel: its fields, and what is true of them between two steps.      *)

Mode == {"off", "first", "all", "special"}
Timers == SUBSET {"tx", "rx", "poll", "zc"}

Field ==
    {"extIe", "txIe", "rxMode", "rxEnable", "auto", "txEnable", "ctl", "sendBreak", "txClock",
     "rxClock", "brg", "loopback", "mask", "txFull", "txBusy", "rxBusy", "fifo", "overrun", "txIp",
     "extIp", "rxFirstArmed", "dcd", "cts", "brk", "latched", "held", "last", "txStalled",
     "rxStalled", "timers", "attached", "fromDevice", "toDevice", "ctlTold", "breakTold",
     "lineTold", "seen", "fresh"}

IsRecord(r) == r = [k \in Field |-> r[k]]

RegisterFields(r) ==
    /\ r.extIe \in BOOLEAN /\ r.txIe \in BOOLEAN /\ r.rxMode \in Mode
    /\ r.rxEnable \in BOOLEAN /\ r.auto \in BOOLEAN
    /\ r.txEnable \in BOOLEAN /\ r.ctl \in OnOff /\ r.sendBreak \in OnOff
    /\ r.txClock \in Route /\ r.rxClock \in Route /\ r.brg \in BOOLEAN /\ r.loopback \in BOOLEAN
    /\ r.mask \in SUBSET ExtSource

CharFields(r) ==
    /\ r.txFull \in BOOLEAN /\ r.txBusy \in BOOLEAN /\ r.rxBusy \in BOOLEAN
    /\ r.txStalled \in BOOLEAN /\ r.rxStalled \in BOOLEAN /\ r.timers \in Timers
    /\ r.fifo \in 0 .. FifoCap /\ r.overrun \in BOOLEAN
    /\ r.txIp \in BOOLEAN /\ r.extIp \in BOOLEAN /\ r.rxFirstArmed \in BOOLEAN

ExtFields(r) ==
    /\ r.dcd \in BOOLEAN /\ r.cts \in BOOLEAN /\ r.brk \in BOOLEAN /\ r.latched \in BOOLEAN
    /\ r.held \in SUBSET ExtSource /\ r.last \in SUBSET ExtSource
    /\ r.seen \in SUBSET ExtSource /\ r.fresh \in BOOLEAN

DeviceFields(r) ==
    /\ r.attached \in BOOLEAN /\ r.toDevice \in 0 .. OutCap
    /\ r.fromDevice \in Seq(MessageValue) /\ Len(r.fromDevice) <= InCap
    /\ r.ctlTold \in OnOff \cup {"none"} /\ r.breakTold \in OnOff \cup {"none"}
    /\ r.lineTold \in Route \cup {"9600", "none"}

Typed(r) == RegisterFields(r) /\ CharFields(r) /\ ExtFields(r) /\ DeviceFields(r)

(* A channel as it is at any time, also inside a step.                     *)
IsChannel(r) == IsRecord(r) /\ Typed(r)

(* NoStuckChar, for a direction of a channel.                              *)
TxOk(r) ==
    /\ ("tx" \in r.timers) = (r.txBusy /\ ~r.txStalled)
    /\ r.txStalled => r.txBusy /\ ~Clocked(r, r.txClock)
RxOk(r) ==
    /\ ("rx" \in r.timers) = (r.rxBusy /\ ~r.rxStalled)
    /\ r.rxStalled => r.rxBusy /\ ~Clocked(r, r.rxClock)

(* With the latch open, ext_last_bits is what the guest saw.               *)
LastOk(r) ==
    r.fresh /\ ~r.latched => r.last \subseteq Line /\ r.last \cap r.mask = r.seen \cap r.mask
SeenOk(r) == r.fresh /\ ~r.latched => ~ExtUnseen(r)

PollOk(r) == r.attached => "poll" \in r.timers

(* A channel between two steps of a handler; with PollOk, between steps.   *)
Sound(r) == IsChannel(r) /\ TxOk(r) /\ RxOk(r) /\ LastOk(r) /\ SeenOk(r)

(* The fields recompute_ip reads.                                          *)
IpFields(r) ==
    <<r.rxMode, r.overrun, r.fifo, r.rxFirstArmed, r.txIe, r.txIp, r.extIe, r.extIp>>

(* A function of a channel keeps what was true of it.                      *)
Keeps(p, r) ==
    /\ TxOk(r) => TxOk(p)
    /\ RxOk(r) => RxOk(p)
    /\ LastOk(r) => LastOk(p)
    /\ SeenOk(r) => SeenOk(p)
    /\ PollOk(r) => PollOk(p)
    /\ p.rxBusy = r.rxBusy

(* A channel has its fields, and the types TypeOK gives them.              *)
LEMMA ChannelFields ==
    ASSUME NEW r, IsChannel(r)
    PROVE  DOMAIN r = Field /\ r \in ChannelState
<1>1. DOMAIN r = Field
  BY DEF IsChannel, IsRecord
<1>2. r \in ChannelState
  BY <1>1 DEF ChannelState, IsChannel, IsRecord, Typed, RegisterFields, CharFields, ExtFields,
              DeviceFields, Field, Mode, Timers
<1> QED
  BY <1>1, <1>2

(* One function of a channel after another.                                *)
LEMMA KeepsThrough ==
    ASSUME NEW p, NEW q, NEW r
    PROVE  Keeps(r, r) /\ (Keeps(p, q) /\ Keeps(q, r) => Keeps(p, r))
BY DEF Keeps

(* The fields TxOk, RxOk, LastOk, SeenOk and PollOk read.                  *)
SameCore(p, r) ==
    /\ p.timers = r.timers /\ p.txBusy = r.txBusy /\ p.txStalled = r.txStalled
    /\ p.rxBusy = r.rxBusy /\ p.rxStalled = r.rxStalled /\ p.txClock = r.txClock
    /\ p.rxClock = r.rxClock /\ p.brg = r.brg /\ p.attached = r.attached
    /\ p.fresh = r.fresh /\ p.latched = r.latched /\ p.last = r.last /\ p.mask = r.mask
    /\ p.seen = r.seen /\ p.dcd = r.dcd /\ p.cts = r.cts /\ p.brk = r.brk

(* A function that leaves them alone keeps what was true.                  *)
LEMMA CoreKeeps ==
    ASSUME NEW p, NEW r, SameCore(p, r)
    PROVE  Keeps(p, r)
<1>1. ExtLive(p) = ExtLive(r)
  BY DEF SameCore, ExtLive, Line
<1> QED
  BY <1>1 DEF SameCore, Keeps, TxOk, RxOk, LastOk, SeenOk, PollOk, Clocked, ExtUnseen

(* zc_arm and rx_poll_arm schedule an event of their own.                  *)
LEMMA ArmKeeps ==
    ASSUME NEW r, IsChannel(r)
    PROVE  /\ IsChannel(ZcArm(r)) /\ Keeps(ZcArm(r), r) /\ IpFields(ZcArm(r)) = IpFields(r)
           /\ IsChannel(RxPollArm(r)) /\ Keeps(RxPollArm(r), r)
           /\ IpFields(RxPollArm(r)) = IpFields(r) /\ PollOk(RxPollArm(r))
<1>1. DOMAIN r = Field
  BY ChannelFields
<1> DEFINE z == [r EXCEPT !.timers = @ \cup {"zc"}]
           q == [r EXCEPT !.timers = @ \cup {"poll"}]
<1>2. IsRecord(z) /\ IsRecord(q)
  BY DEF IsChannel, IsRecord
<1>3. Typed(z)
  BY <1>1 DEF IsChannel, Typed, RegisterFields, CharFields, ExtFields, DeviceFields, Field, Timers
<1>4. Typed(q)
  BY <1>1 DEF IsChannel, Typed, RegisterFields, CharFields, ExtFields, DeviceFields, Field, Timers
<1>5. Keeps(z, r) /\ IpFields(z) = IpFields(r)
  BY <1>1 DEF Keeps, TxOk, RxOk, LastOk, SeenOk, PollOk, Clocked, ExtUnseen, ExtLive, Line, Field,
              IpFields
<1>6. Keeps(q, r) /\ IpFields(q) = IpFields(r) /\ PollOk(q)
  BY <1>1 DEF Keeps, TxOk, RxOk, LastOk, SeenOk, PollOk, Clocked, ExtUnseen, ExtLive, Line, Field,
              IpFields
<1>7. Keeps(r, r) /\ (~r.attached => PollOk(r))
  BY DEF Keeps, PollOk
<1> HIDE DEF z, q
<1> QED
  BY <1>2, <1>3, <1>4, <1>5, <1>6, <1>7 DEF ZcArm, RxPollArm, z, q, IsChannel

(* A send to the device, and the line parameters and control lines it is   *)
(* told.                                                                   *)
LEMMA TellKeeps ==
    ASSUME NEW r, IsChannel(r), NEW force
    PROVE  LET Told(p) == IsChannel(p) /\ Keeps(p, r) /\ IpFields(p) = IpFields(r)
           IN  Told(Sent(r)) /\ Told(PushLineParams(r)) /\ Told(LinesOutUpdate(r, force))
<1> DEFINE Told(p, q) == IsChannel(p) /\ Keeps(p, q) /\ IpFields(p) = IpFields(q)
(* What is sent, and the note of what was told.                            *)
<1>1. ASSUME NEW q, IsChannel(q) PROVE Told(Sent(q), q)
  <2> DEFINE z == [q EXCEPT !.toDevice = @ + 1]
  <2>1. DOMAIN q = Field
    BY <1>1, ChannelFields
  <2>2. IsRecord(z)
    BY <1>1 DEF IsChannel, IsRecord
  <2>3. Room(q) => Typed(z)
    BY <1>1, <2>1, SizeAssumption DEF IsChannel, Typed, RegisterFields, CharFields, ExtFields,
       DeviceFields, Field, Room
  <2>4. Keeps(z, q) /\ IpFields(z) = IpFields(q)
    BY <2>1 DEF Keeps, TxOk, RxOk, LastOk, SeenOk, PollOk, Clocked, ExtUnseen, ExtLive, Line,
                Field, IpFields
  <2>5. Told(q, q)
    BY <1>1, KeepsThrough
  <2> HIDE DEF z
  <2> QED
    BY <2>2, <2>3, <2>4, <2>5 DEF Sent, z, IsChannel
<1>2. ASSUME NEW q, IsChannel(q), NEW v
      PROVE  /\ v \in Route \cup {"9600", "none"} => Told([q EXCEPT !.lineTold = v], q)
             /\ v \in OnOff \cup {"none"} => /\ Told([q EXCEPT !.ctlTold = v], q)
                                             /\ Told([q EXCEPT !.breakTold = v], q)
  <2> DEFINE x == [q EXCEPT !.lineTold = v]
             y == [q EXCEPT !.ctlTold = v]
             z == [q EXCEPT !.breakTold = v]
  <2>1. DOMAIN q = Field
    BY <1>2, ChannelFields
  <2>2. IsRecord(x) /\ IsRecord(y) /\ IsRecord(z)
    BY <1>2 DEF IsChannel, IsRecord
  <2>3. v \in Route \cup {"9600", "none"} => Typed(x)
    BY <1>2, <2>1 DEF IsChannel, Typed, RegisterFields, CharFields, ExtFields, DeviceFields, Field
  <2>4. v \in OnOff \cup {"none"} => Typed(y) /\ Typed(z)
    BY <1>2, <2>1 DEF IsChannel, Typed, RegisterFields, CharFields, ExtFields, DeviceFields, Field
  <2>5. Keeps(x, q) /\ Keeps(y, q) /\ Keeps(z, q)
    BY <2>1 DEF Keeps, TxOk, RxOk, LastOk, SeenOk, PollOk, Clocked, ExtUnseen, ExtLive, Line, Field
  <2>6. IpFields(x) = IpFields(q) /\ IpFields(y) = IpFields(q) /\ IpFields(z) = IpFields(q)
    BY <2>1 DEF Field, IpFields
  <2> HIDE DEF x, y, z
  <2> QED
    BY <2>2, <2>3, <2>4, <2>5, <2>6 DEF x, y, z, IsChannel
<1>3. \A p, q, o : Told(p, q) /\ Told(q, o) => Told(p, o)
  BY KeepsThrough
<1>4. \A q : IsChannel(q) => /\ Told(q, q) /\ LineParams(q) \in Route \cup {"9600", "none"}
                             /\ q.ctl \in OnOff \cup {"none"} /\ q.sendBreak \in OnOff \cup {"none"}
  BY KeepsThrough DEF LineParams, IsChannel, Typed, RegisterFields
<1> HIDE DEF Told
<1>5. \A q : IsChannel(q) => Told(Sent(q), q)
  BY <1>1
<1>6. \A q, v : IsChannel(q) =>
         /\ v \in Route \cup {"9600", "none"} => Told([q EXCEPT !.lineTold = v], q)
         /\ v \in OnOff \cup {"none"} => /\ Told([q EXCEPT !.ctlTold = v], q)
                                         /\ Told([q EXCEPT !.breakTold = v], q)
  BY <1>2
<1>7. \A p, q : Told(p, q) => IsChannel(p)
  BY DEF Told
<1>8. Told(Sent(r), r)
  BY <1>5
<1>9. Told(PushLineParams(r), r)
  <2>1. Told([Sent(r) EXCEPT !.lineTold = LineParams(r)], Sent(r))
    BY <1>4, <1>6, <1>7, <1>8
  <2> QED
    BY <1>3, <1>4, <1>8, <2>1 DEF PushLineParams
<1>10. Told(LinesOutUpdate(r, force), r)
  <2> DEFINE ctl == IF r.attached /\ (force \/ r.ctl # r.ctlTold) /\ Room(r)
                    THEN [Sent(r) EXCEPT !.ctlTold = r.ctl] ELSE r
  <2>1. Told([Sent(r) EXCEPT !.ctlTold = r.ctl], Sent(r))
    BY <1>4, <1>6, <1>7, <1>8
  <2>2. Told(ctl, r)
    BY <1>3, <1>4, <1>8, <2>1
  <2> HIDE DEF ctl
  <2>3. Told(Sent(ctl), ctl)
    BY <1>5, <1>7, <2>2
  <2>4. Told([Sent(ctl) EXCEPT !.breakTold = ctl.sendBreak], Sent(ctl))
    BY <1>4, <1>6, <1>7, <2>2, <2>3
  <2>5. Told([Sent(ctl) EXCEPT !.breakTold = ctl.sendBreak], r)
    BY <1>3, <2>2, <2>3, <2>4
  <2> QED
    BY <2>2, <2>5 DEF LinesOutUpdate, ctl
<1> QED
  BY <1>8, <1>9, <1>10 DEF Told

(* A character starts to leave: its completion is scheduled, or it stalls. *)
LEMMA ScheduleTxKeeps ==
    ASSUME NEW r, IsChannel(r), r.txBusy, "tx" \notin r.timers
    PROVE  LET p == ScheduleTxComplete(r)
           IN  /\ IsChannel(p) /\ TxOk(p) /\ Keeps(p, r) /\ IpFields(p) = IpFields(r)
               /\ p.rxStalled = r.rxStalled /\ p.txClock = r.txClock /\ p.rxClock = r.rxClock
               /\ p.brg = r.brg /\ ("rx" \in p.timers) = ("rx" \in r.timers)
<1>1. DOMAIN r = Field /\ r.txBusy \in BOOLEAN
  BY ChannelFields DEF IsChannel, Typed, CharFields
<1> DEFINE p == ScheduleTxComplete(r)
<1>2. IsRecord(p)
  BY DEF ScheduleTxComplete, IsChannel, IsRecord
<1>3. Typed(p)
  <2> DEFINE x == [r EXCEPT !.txStalled = FALSE, !.timers = @ \cup {"tx"}]
             y == [r EXCEPT !.txStalled = TRUE]
  <2>1. Typed(x)
    <3>1. RegisterFields(x) /\ DeviceFields(x)
      BY <1>1 DEF IsChannel, Typed, RegisterFields, DeviceFields, Field
    <3>2. CharFields(x) /\ ExtFields(x)
      BY <1>1 DEF IsChannel, Typed, CharFields, ExtFields, Field, Timers
    <3> QED
      BY <3>1, <3>2 DEF Typed
  <2>2. Typed(y)
    <3>1. RegisterFields(y) /\ DeviceFields(y)
      BY <1>1 DEF IsChannel, Typed, RegisterFields, DeviceFields, Field
    <3>2. CharFields(y) /\ ExtFields(y)
      BY <1>1 DEF IsChannel, Typed, CharFields, ExtFields, Field
    <3> QED
      BY <3>1, <3>2 DEF Typed
  <2>3. p = x \/ p = y
    BY DEF ScheduleTxComplete
  <2> HIDE DEF p, x, y
  <2> QED
    BY <2>1, <2>2, <2>3
<1>4. TxOk(p)
  BY <1>1 DEF ScheduleTxComplete, TxOk, Clocked, Field
<1>5. /\ p.rxBusy = r.rxBusy /\ p.rxStalled = r.rxStalled /\ p.txClock = r.txClock
      /\ p.rxClock = r.rxClock /\ p.brg = r.brg
      /\ ("rx" \in p.timers) = ("rx" \in r.timers)
      /\ ("poll" \in p.timers) = ("poll" \in r.timers)
      /\ p.attached = r.attached
  BY <1>1 DEF ScheduleTxComplete, Field
<1>6. /\ p.fresh = r.fresh /\ p.latched = r.latched /\ p.last = r.last /\ p.mask = r.mask
      /\ p.seen = r.seen /\ ExtLive(p) = ExtLive(r)
  BY <1>1 DEF ScheduleTxComplete, ExtLive, Line, Field
<1>7. IpFields(p) = IpFields(r)
  BY <1>1 DEF ScheduleTxComplete, IpFields, Field
<1> HIDE DEF p
<1>8. Keeps(p, r)
  BY <1>4, <1>5, <1>6 DEF Keeps, RxOk, LastOk, SeenOk, PollOk, Clocked, ExtUnseen
<1> QED
  BY <1>2, <1>3, <1>4, <1>5, <1>7, <1>8 DEF p, IsChannel

(* A character starts to arrive.                                           *)
LEMMA ScheduleRxKeeps ==
    ASSUME NEW r, IsChannel(r), r.rxBusy, "rx" \notin r.timers
    PROVE  LET p == ScheduleRxComplete(r)
           IN  /\ IsChannel(p) /\ RxOk(p) /\ Keeps(p, r) /\ IpFields(p) = IpFields(r)
               /\ p.rxBusy = r.rxBusy
<1>1. DOMAIN r = Field /\ r.rxBusy \in BOOLEAN
  BY ChannelFields DEF IsChannel, Typed, CharFields
<1> DEFINE p == ScheduleRxComplete(r)
<1>2. IsRecord(p)
  BY DEF ScheduleRxComplete, IsChannel, IsRecord
<1>3. Typed(p)
  <2> DEFINE x == [r EXCEPT !.rxStalled = FALSE, !.timers = @ \cup {"rx"}]
             y == [r EXCEPT !.rxStalled = TRUE]
  <2>1. Typed(x)
    <3>1. RegisterFields(x) /\ DeviceFields(x)
      BY <1>1 DEF IsChannel, Typed, RegisterFields, DeviceFields, Field
    <3>2. CharFields(x) /\ ExtFields(x)
      BY <1>1 DEF IsChannel, Typed, CharFields, ExtFields, Field, Timers
    <3> QED
      BY <3>1, <3>2 DEF Typed
  <2>2. Typed(y)
    <3>1. RegisterFields(y) /\ DeviceFields(y)
      BY <1>1 DEF IsChannel, Typed, RegisterFields, DeviceFields, Field
    <3>2. CharFields(y) /\ ExtFields(y)
      BY <1>1 DEF IsChannel, Typed, CharFields, ExtFields, Field
    <3> QED
      BY <3>1, <3>2 DEF Typed
  <2>3. p = x \/ p = y
    BY DEF ScheduleRxComplete
  <2> HIDE DEF p, x, y
  <2> QED
    BY <2>1, <2>2, <2>3
<1>4. RxOk(p) /\ p.rxBusy = r.rxBusy
  <2>1. CASE Clocked(r, r.rxClock)
    <3>1. p = [r EXCEPT !.rxStalled = FALSE, !.timers = @ \cup {"rx"}]
      BY <2>1 DEF ScheduleRxComplete
    <3>2. p.rxBusy = r.rxBusy /\ p.rxStalled = FALSE /\ "rx" \in p.timers
      <4> HIDE DEF p
      <4> QED
        BY <1>1, <3>1 DEF Field
    <3> QED
      BY <1>1, <3>2 DEF RxOk
  <2>2. CASE ~Clocked(r, r.rxClock)
    <3>1. p = [r EXCEPT !.rxStalled = TRUE]
      BY <2>2 DEF ScheduleRxComplete
    <3>2. /\ p.rxBusy = r.rxBusy /\ p.rxStalled = TRUE /\ p.timers = r.timers
          /\ p.rxClock = r.rxClock /\ p.brg = r.brg
      <4> HIDE DEF p
      <4> QED
        BY <1>1, <3>1 DEF Field
    <3> QED
      BY <1>1, <2>2, <3>2 DEF RxOk, Clocked
  <2> QED
    BY <2>1, <2>2
<1>5. /\ p.txBusy = r.txBusy /\ p.txStalled = r.txStalled /\ p.txClock = r.txClock
      /\ p.brg = r.brg
      /\ ("tx" \in p.timers) = ("tx" \in r.timers)
      /\ ("poll" \in p.timers) = ("poll" \in r.timers)
      /\ p.attached = r.attached
  BY <1>1 DEF ScheduleRxComplete, Field
<1>6. /\ p.fresh = r.fresh /\ p.latched = r.latched /\ p.last = r.last /\ p.mask = r.mask
      /\ p.seen = r.seen /\ ExtLive(p) = ExtLive(r)
  BY <1>1 DEF ScheduleRxComplete, ExtLive, Line, Field
<1>7. IpFields(p) = IpFields(r)
  BY <1>1 DEF ScheduleRxComplete, IpFields, Field
<1> HIDE DEF p
<1>8. Keeps(p, r)
  BY <1>4, <1>5, <1>6 DEF Keeps, TxOk, LastOk, SeenOk, PollOk, Clocked, ExtUnseen
<1> QED
  BY <1>2, <1>3, <1>4, <1>7, <1>8 DEF p, IsChannel

(* update_timing_sources: whatever became of the clocks, a character that  *)
(* waited for one goes on, or waits because there is none.                 *)
LEMMA TimingKeeps ==
    ASSUME NEW r, IsChannel(r),
           ("tx" \in r.timers) = (r.txBusy /\ ~r.txStalled), r.txStalled => r.txBusy,
           ("rx" \in r.timers) = (r.rxBusy /\ ~r.rxStalled), r.rxStalled => r.rxBusy
    PROVE  LET p == UpdateTimingSources(r)
           IN  /\ IsChannel(p) /\ TxOk(p) /\ RxOk(p) /\ IpFields(p) = IpFields(r)
               /\ LastOk(r) => LastOk(p)
               /\ SeenOk(r) => SeenOk(p)
               /\ PollOk(r) => PollOk(p)
<1> DEFINE Rest(p, q) == /\ IpFields(p) = IpFields(q)
                         /\ LastOk(q) => LastOk(p)
                         /\ SeenOk(q) => SeenOk(p)
                         /\ PollOk(q) => PollOk(p)
           TxFlow(q) == /\ ("tx" \in q.timers) = (q.txBusy /\ ~q.txStalled)
                        /\ q.txStalled => q.txBusy
           RxFlow(q) == /\ ("rx" \in q.timers) = (q.rxBusy /\ ~q.rxStalled)
                        /\ q.rxStalled => q.rxBusy
           p0 == PushLineParams(r)
           t0 == IF p0.txBusy /\ p0.txStalled THEN ScheduleTxComplete(p0) ELSE p0
           u0 == IF t0.rxBusy /\ t0.rxStalled THEN ScheduleRxComplete(t0) ELSE t0
<1>1. IsChannel(p0) /\ Rest(p0, r) /\ TxFlow(p0) /\ RxFlow(p0)
  <2>1. IsChannel(p0) /\ Rest(p0, r)
    BY TellKeeps DEF Keeps
  <2>2. /\ p0.timers = r.timers /\ p0.txBusy = r.txBusy /\ p0.txStalled = r.txStalled
        /\ p0.rxBusy = r.rxBusy /\ p0.rxStalled = r.rxStalled
    <3>1. DOMAIN r = Field
      BY ChannelFields
    <3> QED
      BY <3>1 DEF PushLineParams, Sent, Field
  <2> QED
    BY <2>1, <2>2
<1> HIDE DEF p0
<1>2. IsChannel(t0) /\ Rest(t0, p0) /\ TxOk(t0) /\ RxFlow(t0)
  <2>1. CASE p0.txBusy /\ p0.txStalled
    <3>1. "tx" \notin p0.timers
      BY <1>1, <2>1
    <3> QED
      BY <1>1, <2>1, <3>1, ScheduleTxKeeps DEF Keeps
  <2>2. CASE ~(p0.txBusy /\ p0.txStalled)
    BY <1>1, <2>2 DEF TxOk
  <2> QED
    BY <2>1, <2>2
<1> HIDE DEF t0
<1>3. IsChannel(u0) /\ Rest(u0, t0) /\ TxOk(u0) /\ RxOk(u0)
  <2>1. CASE t0.rxBusy /\ t0.rxStalled
    <3>1. "rx" \notin t0.timers
      BY <1>2, <2>1
    <3> QED
      BY <1>2, <2>1, <3>1, ScheduleRxKeeps DEF Keeps
  <2>2. CASE ~(t0.rxBusy /\ t0.rxStalled)
    BY <1>2, <2>2 DEF RxOk
  <2> QED
    BY <2>1, <2>2
<1> HIDE DEF u0
<1>4. IsChannel(ZcArm(u0)) /\ Rest(ZcArm(u0), u0) /\ TxOk(ZcArm(u0)) /\ RxOk(ZcArm(u0))
  BY <1>3, ArmKeeps DEF Keeps
<1>5. UpdateTimingSources(r) = ZcArm(u0)
  BY DEF UpdateTimingSources, p0, t0, u0
<1> QED
  BY <1>1, <1>2, <1>3, <1>4, <1>5

(* A character for an idle transmitter, if CTS does not hold it back.      *)
LEMMA TxLoadKeeps ==
    ASSUME NEW r, IsChannel(r), TxOk(r)
    PROVE  /\ ~r.txBusy => IsChannel(TxLoadShift(r)) /\ Keeps(TxLoadShift(r), r)
           /\ IsChannel(TxLoadIfWaiting(r)) /\ Keeps(TxLoadIfWaiting(r), r)
<1>1. ASSUME ~r.txBusy PROVE IsChannel(TxLoadShift(r)) /\ Keeps(TxLoadShift(r), r)
  <2> DEFINE z == [r EXCEPT !.txFull = FALSE, !.txBusy = TRUE, !.txIp = @ \/ r.txIe]
  <2>1. DOMAIN r = Field
    BY ChannelFields
  <2>2. IsRecord(z)
    BY DEF IsChannel, IsRecord
  <2>3. Typed(z)
    BY <2>1 DEF IsChannel, Typed, RegisterFields, CharFields, ExtFields, DeviceFields, Field
  <2>4. z.txBusy /\ "tx" \notin z.timers
    BY <1>1, <2>1 DEF TxOk, Field
  <2>5. /\ RxOk(r) => RxOk(z)
        /\ LastOk(r) => LastOk(z)
        /\ SeenOk(r) => SeenOk(z)
        /\ PollOk(r) => PollOk(z)
        /\ z.rxBusy = r.rxBusy
    BY <2>1 DEF RxOk, LastOk, SeenOk, PollOk, Clocked, ExtUnseen, ExtLive, Line, Field
  <2> HIDE DEF z
  <2>6. IsChannel(z)
    BY <2>2, <2>3 DEF IsChannel
  <2>7. /\ IsChannel(ScheduleTxComplete(z)) /\ TxOk(ScheduleTxComplete(z))
        /\ Keeps(ScheduleTxComplete(z), z)
    BY <2>4, <2>6, ScheduleTxKeeps
  <2>8. Keeps(ScheduleTxComplete(z), r)
    BY <2>5, <2>7 DEF Keeps
  <2> QED
    BY <2>7, <2>8, KeepsThrough DEF TxLoadShift, z
<1> QED
  BY <1>1, KeepsThrough DEF TxLoadIfWaiting

(* A character for the FIFO, or an overrun.                                *)
LEMMA RxPushKeeps ==
    ASSUME NEW r, IsChannel(r)
    PROVE  IsChannel(RxPush(r)) /\ Keeps(RxPush(r), r)
<1> DEFINE x == [r EXCEPT !.fifo = @ + 1]
           z == [r EXCEPT !.overrun = TRUE]
<1>1. DOMAIN r = Field /\ r.fifo \in 0 .. FifoCap
  BY ChannelFields DEF IsChannel, Typed, CharFields
<1>2. IsRecord(x) /\ IsRecord(z)
  BY DEF IsChannel, IsRecord
<1>3. r.fifo < FifoCap => Typed(x)
  <2>1. r.fifo < FifoCap => r.fifo + 1 \in 0 .. FifoCap
    BY <1>1, SizeAssumption
  <2> QED
    BY <1>1, <2>1 DEF IsChannel, Typed, RegisterFields, CharFields, ExtFields, DeviceFields, Field
<1>4. Typed(z)
  BY <1>1 DEF IsChannel, Typed, RegisterFields, CharFields, ExtFields, DeviceFields, Field
<1>5. Keeps(x, r)
  BY <1>1 DEF Keeps, TxOk, RxOk, LastOk, SeenOk, PollOk, Clocked, ExtUnseen, ExtLive, Line, Field
<1>6. Keeps(z, r)
  BY <1>1 DEF Keeps, TxOk, RxOk, LastOk, SeenOk, PollOk, Clocked, ExtUnseen, ExtLive, Line, Field
<1> HIDE DEF x, z
<1> QED
  BY <1>2, <1>3, <1>4, <1>5, <1>6 DEF RxPush, IsChannel, x, z

(* A character that arrives at an idle receiver.                           *)
LEMMA RxCharKeeps ==
    ASSUME NEW r, IsChannel(r), RxOk(r), ~r.rxBusy
    PROVE  LET p == ScheduleRxChar(r)
           IN  /\ IsChannel(p) /\ IpFields(p) = IpFields(r) /\ RxOk(p)
               /\ TxOk(r) => TxOk(p)
               /\ LastOk(r) => LastOk(p)
               /\ SeenOk(r) => SeenOk(p)
               /\ PollOk(r) => PollOk(p)
<1> DEFINE z == [r EXCEPT !.rxBusy = TRUE]
<1>1. DOMAIN r = Field
  BY ChannelFields
<1>2. IsRecord(z)
  BY DEF IsChannel, IsRecord
<1>3. Typed(z)
  BY <1>1 DEF IsChannel, Typed, RegisterFields, CharFields, ExtFields, DeviceFields, Field
<1>4. z.rxBusy /\ "rx" \notin z.timers
  BY <1>1 DEF RxOk, Field
<1>5. /\ TxOk(r) => TxOk(z)
      /\ LastOk(r) => LastOk(z)
      /\ SeenOk(r) => SeenOk(z)
      /\ PollOk(r) => PollOk(z)
      /\ IpFields(z) = IpFields(r)
  BY <1>1 DEF TxOk, LastOk, SeenOk, PollOk, Clocked, ExtUnseen, ExtLive, Line, Field, IpFields
<1> HIDE DEF z
<1>6. IsChannel(z)
  BY <1>2, <1>3 DEF IsChannel
<1>7. LET p == ScheduleRxComplete(z)
      IN  IsChannel(p) /\ RxOk(p) /\ Keeps(p, z) /\ IpFields(p) = IpFields(z)
  BY <1>4, <1>6, ScheduleRxKeeps
<1> QED
  BY <1>5, <1>7 DEF ScheduleRxChar, Keeps, z

(* ext_update: the latch closes for a line that is not as ext_last_bits    *)
(* has it, so that an open latch means the guest has seen the lines.       *)
LEMMA ExtUpdateKeeps ==
    ASSUME NEW r, IsChannel(r), TxOk(r), LastOk(r),
           NEW live, live \subseteq ExtSource, live \cap Line = ExtLive(r)
    PROVE  LET p == ExtUpdate(r, live)
           IN  /\ IsChannel(p) /\ TxOk(p) /\ SeenOk(p)
               /\ live = ExtLive(r) => LastOk(p)
               /\ RxOk(r) => RxOk(p)
               /\ PollOk(r) => PollOk(p)
               /\ p.rxBusy = r.rxBusy
<1> DEFINE Goal(p) == /\ IsChannel(p) /\ TxOk(p) /\ SeenOk(p)
                      /\ live = ExtLive(r) => LastOk(p)
                      /\ RxOk(r) => RxOk(p)
                      /\ PollOk(r) => PollOk(p)
                      /\ p.rxBusy = r.rxBusy
           x == Latched(r, live)
           y == [x EXCEPT !.last = live]
           z == [r EXCEPT !.last = live]
           n == IF r.latched THEN r
                ELSE [(IF Moved(r, live, r.last) THEN Latched(r, live) ELSE r) EXCEPT !.last = live]
<1>1. DOMAIN r = Field /\ r.latched \in BOOLEAN /\ r.extIp \in BOOLEAN /\ r.extIe \in BOOLEAN
  BY ChannelFields DEF IsChannel, Typed, CharFields, ExtFields, RegisterFields
<1>2. CASE r.latched
  <2>1. Goal(r)
    BY <1>2 DEF SeenOk
  <2> QED
    BY <2>1, <1>2, KeepsThrough, TxLoadKeeps DEF ExtUpdate, Keeps
<1>3. CASE ~r.latched /\ Moved(r, live, r.last)
  <2>1. IsRecord(x) /\ DOMAIN x = Field
    BY <1>1 DEF Latched, IsChannel, IsRecord
  <2>2. Typed(x)
    BY <1>1 DEF Latched, IsChannel, Typed, RegisterFields, CharFields, ExtFields, DeviceFields,
                Field
  <2>3. IsRecord(y)
    BY <2>1 DEF IsRecord
  <2>4. /\ y.latched = TRUE /\ y.timers = r.timers
        /\ y.txBusy = r.txBusy /\ y.txStalled = r.txStalled
        /\ y.rxBusy = r.rxBusy /\ y.rxStalled = r.rxStalled /\ y.txClock = r.txClock
        /\ y.rxClock = r.rxClock /\ y.brg = r.brg /\ y.attached = r.attached
    BY <1>1, <2>1 DEF Latched, Field
  <2> HIDE DEF x
  <2>5. Typed(y)
    BY <2>1, <2>2 DEF Typed, RegisterFields, CharFields, ExtFields, DeviceFields, Field
  <2> HIDE DEF y
  <2>6. Goal(y)
    BY <2>3, <2>4, <2>5 DEF IsChannel, TxOk, RxOk, SeenOk, LastOk, PollOk, Clocked
  <2>7. n = y
    BY <1>3 DEF x, y
  <2>8. Goal(IF y.auto /\ y.cts THEN TxLoadIfWaiting(y) ELSE y)
    BY <2>6, KeepsThrough, TxLoadKeeps DEF Keeps
  <2> QED
    BY <2>7, <2>8 DEF ExtUpdate
<1>4. CASE ~r.latched /\ ~Moved(r, live, r.last)
  <2>1. IsRecord(z)
    BY DEF IsChannel, IsRecord
  <2>2. Typed(z)
    BY <1>1 DEF IsChannel, Typed, RegisterFields, CharFields, ExtFields, DeviceFields, Field
  <2>3. TxOk(z) /\ (RxOk(r) => RxOk(z)) /\ (PollOk(r) => PollOk(z)) /\ z.rxBusy = r.rxBusy
    BY <1>1 DEF TxOk, RxOk, PollOk, Clocked, Field
  <2>4. /\ z.last = live /\ z.fresh = r.fresh /\ z.latched = r.latched /\ z.mask = r.mask
        /\ z.seen = r.seen /\ ExtLive(z) = ExtLive(r)
    BY <1>1 DEF ExtLive, Line, Field
  <2>5. live \cap r.mask = r.last \cap r.mask
    BY <1>4 DEF Moved
  <2>6. r.fresh => r.last \subseteq Line /\ r.last \cap r.mask = r.seen \cap r.mask
    BY <1>4 DEF LastOk
  <2> HIDE DEF z
  <2>7. SeenOk(z)
    BY <2>4, <2>5, <2>6 DEF SeenOk, ExtUnseen
  <2>8. live = ExtLive(r) => LastOk(z)
    <3>1. ExtLive(r) \subseteq Line
      BY DEF ExtLive
    <3> QED
      BY <2>4, <2>5, <2>6, <3>1 DEF LastOk
  <2>9. Goal(z)
    BY <2>1, <2>2, <2>3, <2>7, <2>8 DEF IsChannel
  <2>10. n = z
    BY <1>4 DEF z
  <2>11. Goal(IF z.auto /\ z.cts THEN TxLoadIfWaiting(z) ELSE z)
    BY <2>9, KeepsThrough, TxLoadKeeps DEF Keeps
  <2> QED
    BY <2>10, <2>11 DEF ExtUpdate
<1> QED
  BY <1>1, <1>2, <1>3, <1>4

(* Reset Ext/Status shows the guest the lines, or latches a new change.    *)
LEMMA ExtResetKeeps ==
    ASSUME NEW r, IsChannel(r), TxOk(r), RxOk(r)
    PROVE  LET p == ExtReset(r)
           IN  /\ IsChannel(p) /\ TxOk(p) /\ RxOk(p) /\ SeenOk(p) /\ LastOk(p)
               /\ PollOk(r) => PollOk(p)
<1> DEFINE live == ExtLive(r)
           o == [r EXCEPT !.extIp = FALSE, !.latched = FALSE]
           x == Latched(o, live)
           n == IF r.latched /\ Moved(r, live, r.held) THEN x ELSE o
           v == IF r.latched THEN r.held ELSE live
           p == [n EXCEPT !.last = live, !.seen = v, !.fresh = TRUE]
           Same(q) == /\ q.timers = r.timers /\ q.txBusy = r.txBusy /\ q.txStalled = r.txStalled
                      /\ q.rxBusy = r.rxBusy /\ q.rxStalled = r.rxStalled /\ q.txClock = r.txClock
                      /\ q.rxClock = r.rxClock /\ q.brg = r.brg /\ q.attached = r.attached
                      /\ q.mask = r.mask /\ q.dcd = r.dcd /\ q.cts = r.cts /\ q.brk = r.brk
<1>1. DOMAIN r = Field /\ r.latched \in BOOLEAN /\ r.extIe \in BOOLEAN /\ r.held \subseteq ExtSource
  BY ChannelFields DEF IsChannel, Typed, ExtFields, RegisterFields
<1>2. live \subseteq Line /\ live \subseteq ExtSource /\ v \subseteq ExtSource
  BY <1>1 DEF ExtLive, ExtSource
<1> HIDE DEF v, live
<1>3. IsRecord(o) /\ Typed(o) /\ DOMAIN o = Field /\ Same(o) /\ o.latched = FALSE
  <2>1. IsRecord(o) /\ DOMAIN o = Field
    BY <1>1 DEF IsChannel, IsRecord
  <2>2. Typed(o)
    BY <1>1 DEF IsChannel, Typed, RegisterFields, CharFields, ExtFields, DeviceFields, Field
  <2>3. Same(o) /\ o.latched = FALSE
    BY <1>1 DEF Field
  <2> QED
    BY <2>1, <2>2, <2>3
<1> HIDE DEF o
<1>4. IsRecord(x) /\ Typed(x) /\ DOMAIN x = Field /\ Same(x) /\ x.latched = TRUE
  <2>1. IsRecord(x) /\ DOMAIN x = Field
    BY <1>3 DEF Latched, IsRecord
  <2>2. Typed(x)
    BY <1>2, <1>3 DEF Latched, Typed, RegisterFields, CharFields, ExtFields, DeviceFields, Field
  <2>3. Same(x) /\ x.latched = TRUE
    BY <1>3 DEF Latched, Field
  <2> QED
    BY <2>1, <2>2, <2>3
<1> HIDE DEF x
<1>5. /\ IsRecord(n) /\ Typed(n) /\ DOMAIN n = Field /\ Same(n)
      /\ n.latched = (r.latched /\ Moved(r, live, r.held))
  BY <1>1, <1>3, <1>4 DEF Moved
<1> HIDE DEF n
<1>6. IsRecord(p)
  BY <1>5 DEF IsRecord
<1>7. Typed(p)
  <2>1. RegisterFields(p) /\ CharFields(p)
    BY <1>5 DEF Typed, RegisterFields, CharFields, Field
  <2>2. ExtFields(p)
    BY <1>2, <1>5 DEF Typed, ExtFields, Field
  <2>3. DeviceFields(p)
    BY <1>5 DEF Typed, DeviceFields, Field
  <2> QED
    BY <2>1, <2>2, <2>3 DEF Typed
<1>8. Same(p) /\ p.latched = n.latched /\ p.last = live /\ p.seen = v /\ p.fresh = TRUE
  BY <1>5 DEF Field
<1> HIDE DEF p
<1>9. ExtLive(p) = live
  BY <1>8 DEF live, ExtLive, Line
<1>10. ~p.latched => live \cap r.mask = v \cap r.mask
  BY <1>1, <1>5, <1>8 DEF v, Moved
<1>11. TxOk(p) /\ RxOk(p) /\ (PollOk(r) => PollOk(p))
  BY <1>8 DEF TxOk, RxOk, PollOk, Clocked
<1>12. SeenOk(p) /\ LastOk(p)
  BY <1>2, <1>8, <1>9, <1>10 DEF SeenOk, LastOk, ExtUnseen
<1>13. ExtReset(r) = p
  BY DEF ExtReset, p, n, x, o, v, live
<1> QED
  BY <1>6, <1>7, <1>11, <1>12, <1>13 DEF IsChannel

(* What the guest's writes and reads, and a device, change of a channel's  *)
(* fields directly: nothing of it can strand a character or lose a line.   *)
LEMMA FieldKeeps ==
    ASSUME NEW r, IsChannel(r)
    PROVE  LET Kept(p) == IsChannel(p) /\ Keeps(p, r)
           IN  /\ Kept([r EXCEPT !.rxFirstArmed = TRUE])
               /\ Kept([r EXCEPT !.txIp = FALSE])
               /\ Kept([r EXCEPT !.overrun = FALSE])
               /\ \A v \in Wr1Value :
                     Kept([r EXCEPT !.extIe = v.extIe, !.txIe = v.txIe, !.rxMode = v.rxMode,
                                    !.txIp = @ /\ v.txIe])
               /\ \A v \in Wr3Value :
                     LET p == [r EXCEPT !.rxEnable = v.rxEnable, !.auto = v.auto]
                     IN  Kept(p) /\ IpFields(p) = IpFields(r)
               /\ \A v \in Wr5Value :
                     Kept([r EXCEPT !.txEnable = v.txEnable, !.ctl = v.ctl,
                                    !.sendBreak = v.sendBreak])
               /\ Kept([r EXCEPT !.txIp = FALSE, !.txFull = TRUE])
               /\ r.fifo # 0 =>
                     Kept([r EXCEPT !.fifo = @ - 1, !.rxFirstArmed = @ /\ r.rxMode # "first"])
               /\ \A q \in Seq(MessageValue) : Len(q) <= InCap =>
                     /\ Kept([r EXCEPT !.fromDevice = q])
                     /\ IpFields([r EXCEPT !.fromDevice = q]) = IpFields(r)
               /\ \A k \in 0 .. OutCap :
                     /\ Kept([r EXCEPT !.toDevice = k])
                     /\ IpFields([r EXCEPT !.toDevice = k]) = IpFields(r)
<1> DEFINE Kept(p) == IsChannel(p) /\ Keeps(p, r)
<1>0. DOMAIN r = Field
  BY ChannelFields
<1>1. Kept([r EXCEPT !.rxFirstArmed = TRUE])
  <2> DEFINE z == [r EXCEPT !.rxFirstArmed = TRUE]
  <2>1. IsRecord(z)
    BY DEF IsChannel, IsRecord
  <2>2. Typed(z)
    BY <1>0 DEF IsChannel, Typed, RegisterFields, CharFields, ExtFields, DeviceFields, Field
  <2>3. SameCore(z, r)
    BY <1>0 DEF SameCore, Field
  <2> HIDE DEF z
  <2> QED
    BY <2>1, <2>2, <2>3, CoreKeeps DEF IsChannel, z
<1>2. Kept([r EXCEPT !.txIp = FALSE])
  <2> DEFINE z == [r EXCEPT !.txIp = FALSE]
  <2>1. IsRecord(z)
    BY DEF IsChannel, IsRecord
  <2>2. Typed(z)
    BY <1>0 DEF IsChannel, Typed, RegisterFields, CharFields, ExtFields, DeviceFields, Field
  <2>3. SameCore(z, r)
    BY <1>0 DEF SameCore, Field
  <2> HIDE DEF z
  <2> QED
    BY <2>1, <2>2, <2>3, CoreKeeps DEF IsChannel, z
<1>3. Kept([r EXCEPT !.overrun = FALSE])
  <2> DEFINE z == [r EXCEPT !.overrun = FALSE]
  <2>1. IsRecord(z)
    BY DEF IsChannel, IsRecord
  <2>2. Typed(z)
    BY <1>0 DEF IsChannel, Typed, RegisterFields, CharFields, ExtFields, DeviceFields, Field
  <2>3. SameCore(z, r)
    BY <1>0 DEF SameCore, Field
  <2> HIDE DEF z
  <2> QED
    BY <2>1, <2>2, <2>3, CoreKeeps DEF IsChannel, z
<1>4. ASSUME NEW v \in Wr1Value
      PROVE  Kept([r EXCEPT !.extIe = v.extIe, !.txIe = v.txIe, !.rxMode = v.rxMode,
                            !.txIp = @ /\ v.txIe])
  <2> DEFINE z == [r EXCEPT !.extIe = v.extIe, !.txIe = v.txIe, !.rxMode = v.rxMode,
                            !.txIp = @ /\ v.txIe]
  <2>1. IsRecord(z)
    BY DEF IsChannel, IsRecord
  <2>2. Typed(z)
    BY <1>0, <1>4 DEF IsChannel, Typed, RegisterFields, CharFields, ExtFields, DeviceFields,
       Field, Wr1Value, Mode
  <2>3. SameCore(z, r)
    BY <1>0 DEF SameCore, Field
  <2> HIDE DEF z
  <2> QED
    BY <2>1, <2>2, <2>3, CoreKeeps DEF IsChannel, z
<1>5. ASSUME NEW v \in Wr3Value
      PROVE  /\ Kept([r EXCEPT !.rxEnable = v.rxEnable, !.auto = v.auto])
             /\ IpFields([r EXCEPT !.rxEnable = v.rxEnable, !.auto = v.auto]) = IpFields(r)
  <2> DEFINE z == [r EXCEPT !.rxEnable = v.rxEnable, !.auto = v.auto]
  <2>1. IsRecord(z)
    BY DEF IsChannel, IsRecord
  <2>2. Typed(z)
    BY <1>0, <1>5 DEF IsChannel, Typed, RegisterFields, CharFields, ExtFields, DeviceFields,
       Field, Wr3Value
  <2>3. SameCore(z, r) /\ IpFields(z) = IpFields(r)
    BY <1>0 DEF SameCore, Field, IpFields
  <2> HIDE DEF z
  <2> QED
    BY <2>1, <2>2, <2>3, CoreKeeps DEF IsChannel, z
<1>6. ASSUME NEW v \in Wr5Value
      PROVE  Kept([r EXCEPT !.txEnable = v.txEnable, !.ctl = v.ctl, !.sendBreak = v.sendBreak])
  <2> DEFINE z == [r EXCEPT !.txEnable = v.txEnable, !.ctl = v.ctl, !.sendBreak = v.sendBreak]
  <2>1. IsRecord(z)
    BY DEF IsChannel, IsRecord
  <2>2. Typed(z)
    BY <1>0, <1>6 DEF IsChannel, Typed, RegisterFields, CharFields, ExtFields, DeviceFields,
       Field, Wr5Value
  <2>3. SameCore(z, r)
    BY <1>0 DEF SameCore, Field
  <2> HIDE DEF z
  <2> QED
    BY <2>1, <2>2, <2>3, CoreKeeps DEF IsChannel, z
<1>7. Kept([r EXCEPT !.txIp = FALSE, !.txFull = TRUE])
  <2> DEFINE z == [r EXCEPT !.txIp = FALSE, !.txFull = TRUE]
  <2>1. IsRecord(z)
    BY DEF IsChannel, IsRecord
  <2>2. Typed(z)
    BY <1>0 DEF IsChannel, Typed, RegisterFields, CharFields, ExtFields, DeviceFields, Field
  <2>3. SameCore(z, r)
    BY <1>0 DEF SameCore, Field
  <2> HIDE DEF z
  <2> QED
    BY <2>1, <2>2, <2>3, CoreKeeps DEF IsChannel, z
<1>8. ASSUME r.fifo # 0
      PROVE  Kept([r EXCEPT !.fifo = @ - 1, !.rxFirstArmed = @ /\ r.rxMode # "first"])
  <2> DEFINE z == [r EXCEPT !.fifo = @ - 1, !.rxFirstArmed = @ /\ r.rxMode # "first"]
  <2>1. IsRecord(z)
    BY DEF IsChannel, IsRecord
  <2>2. Typed(z)
    BY <1>0, <1>8, SizeAssumption DEF IsChannel, Typed, RegisterFields, CharFields, ExtFields,
       DeviceFields, Field
  <2>3. SameCore(z, r)
    BY <1>0 DEF SameCore, Field
  <2> HIDE DEF z
  <2> QED
    BY <2>1, <2>2, <2>3, CoreKeeps DEF IsChannel, z
<1>9. ASSUME NEW q \in Seq(MessageValue), Len(q) <= InCap
      PROVE  /\ Kept([r EXCEPT !.fromDevice = q])
             /\ IpFields([r EXCEPT !.fromDevice = q]) = IpFields(r)
  <2> DEFINE z == [r EXCEPT !.fromDevice = q]
  <2>1. IsRecord(z)
    BY DEF IsChannel, IsRecord
  <2>2. Typed(z)
    BY <1>0, <1>9 DEF IsChannel, Typed, RegisterFields, CharFields, ExtFields, DeviceFields, Field
  <2>3. SameCore(z, r) /\ IpFields(z) = IpFields(r)
    BY <1>0 DEF SameCore, Field, IpFields
  <2> HIDE DEF z
  <2> QED
    BY <2>1, <2>2, <2>3, CoreKeeps DEF IsChannel, z
<1>10. ASSUME NEW k \in 0 .. OutCap
      PROVE  /\ Kept([r EXCEPT !.toDevice = k])
             /\ IpFields([r EXCEPT !.toDevice = k]) = IpFields(r)
  <2> DEFINE z == [r EXCEPT !.toDevice = k]
  <2>1. IsRecord(z)
    BY DEF IsChannel, IsRecord
  <2>2. Typed(z)
    BY <1>0, <1>10 DEF IsChannel, Typed, RegisterFields, CharFields, ExtFields, DeviceFields, Field
  <2>3. SameCore(z, r) /\ IpFields(z) = IpFields(r)
    BY <1>0 DEF SameCore, Field, IpFields
  <2> HIDE DEF z
  <2> QED
    BY <2>1, <2>2, <2>3, CoreKeeps DEF IsChannel, z
<1> HIDE DEF Kept
<1> QED
  BY <1>1, <1>2, <1>3, <1>4, <1>5, <1>6, <1>7, <1>8, <1>9, <1>10 DEF Kept

(* The lines a device moves; the guest has yet to be told.                 *)
LEMMA LineKeeps ==
    ASSUME NEW r, IsChannel(r)
    PROVE  LET Moves(p) == /\ IsChannel(p)
                           /\ TxOk(r) => TxOk(p)
                           /\ RxOk(r) => RxOk(p)
                           /\ LastOk(r) => LastOk(p)
                           /\ PollOk(r) => PollOk(p)
                           /\ p.rxBusy = r.rxBusy
           IN  /\ \A d, e \in BOOLEAN : Moves([r EXCEPT !.dcd = d, !.cts = e])
               /\ \A b \in BOOLEAN : Moves([r EXCEPT !.brk = b])
               /\ \A d, e, b \in BOOLEAN : Moves([r EXCEPT !.dcd = d, !.cts = e, !.brk = b])
<1> DEFINE Moves(p) == /\ IsChannel(p)
                       /\ TxOk(r) => TxOk(p)
                       /\ RxOk(r) => RxOk(p)
                       /\ LastOk(r) => LastOk(p)
                       /\ PollOk(r) => PollOk(p)
                       /\ p.rxBusy = r.rxBusy
<1>1. DOMAIN r = Field
  BY ChannelFields
<1>2. ASSUME NEW d \in BOOLEAN, NEW e \in BOOLEAN PROVE Moves([r EXCEPT !.dcd = d, !.cts = e])
  <2> DEFINE z == [r EXCEPT !.dcd = d, !.cts = e]
  <2>1. IsRecord(z)
    BY DEF IsChannel, IsRecord
  <2>2. Typed(z)
    BY <1>1 DEF IsChannel, Typed, RegisterFields, CharFields, ExtFields, DeviceFields, Field
  <2>3. /\ TxOk(r) => TxOk(z)
        /\ RxOk(r) => RxOk(z)
        /\ LastOk(r) => LastOk(z)
        /\ PollOk(r) => PollOk(z)
        /\ z.rxBusy = r.rxBusy
    BY <1>1 DEF TxOk, RxOk, LastOk, PollOk, Clocked, Field
  <2> HIDE DEF z
  <2> QED
    BY <2>1, <2>2, <2>3 DEF IsChannel, z
<1>3. ASSUME NEW b \in BOOLEAN PROVE Moves([r EXCEPT !.brk = b])
  <2> DEFINE z == [r EXCEPT !.brk = b]
  <2>1. IsRecord(z)
    BY DEF IsChannel, IsRecord
  <2>2. Typed(z)
    BY <1>1 DEF IsChannel, Typed, RegisterFields, CharFields, ExtFields, DeviceFields, Field
  <2>3. /\ TxOk(r) => TxOk(z)
        /\ RxOk(r) => RxOk(z)
        /\ LastOk(r) => LastOk(z)
        /\ PollOk(r) => PollOk(z)
        /\ z.rxBusy = r.rxBusy
    BY <1>1 DEF TxOk, RxOk, LastOk, PollOk, Clocked, Field
  <2> HIDE DEF z
  <2> QED
    BY <2>1, <2>2, <2>3 DEF IsChannel, z
<1>4. ASSUME NEW d \in BOOLEAN, NEW e \in BOOLEAN, NEW b \in BOOLEAN
      PROVE  Moves([r EXCEPT !.dcd = d, !.cts = e, !.brk = b])
  <2> DEFINE z == [r EXCEPT !.dcd = d, !.cts = e, !.brk = b]
  <2>1. IsRecord(z)
    BY DEF IsChannel, IsRecord
  <2>2. Typed(z)
    BY <1>1 DEF IsChannel, Typed, RegisterFields, CharFields, ExtFields, DeviceFields, Field
  <2>3. /\ TxOk(r) => TxOk(z)
        /\ RxOk(r) => RxOk(z)
        /\ LastOk(r) => LastOk(z)
        /\ PollOk(r) => PollOk(z)
        /\ z.rxBusy = r.rxBusy
    BY <1>1 DEF TxOk, RxOk, LastOk, PollOk, Clocked, Field
  <2> HIDE DEF z
  <2> QED
    BY <2>1, <2>2, <2>3 DEF IsChannel, z
<1> HIDE DEF Moves
<1> QED
  BY <1>2, <1>3, <1>4 DEF Moves

(* An event that comes: the character it was for is over, the poll or the  *)
(* zero count is no longer scheduled.                                      *)
LEMMA FiredKeeps ==
    ASSUME NEW r, IsChannel(r), TxOk(r), RxOk(r), LastOk(r), SeenOk(r)
    PROVE  LET Fire(timer) == [r EXCEPT !.timers = @ \ {timer}]
               Quiet(p) == IsChannel(p) /\ LastOk(p) /\ SeenOk(p) /\ TxOk(p) /\ RxOk(p)
           IN  /\ Quiet(Fire("poll"))
               /\ Quiet(Fire("zc")) /\ (PollOk(r) => PollOk(Fire("zc")))
               /\ "tx" \in r.timers => LET p == [Fire("tx") EXCEPT !.txBusy = FALSE]
                                       IN  Quiet(p) /\ (PollOk(r) => PollOk(p))
               /\ "rx" \in r.timers => LET p == [Fire("rx") EXCEPT !.rxBusy = FALSE]
                                       IN  Quiet(p) /\ (PollOk(r) => PollOk(p)) /\ ~p.rxBusy
               /\ IpFields(Fire("poll")) = IpFields(r)
<1> DEFINE Quiet(p) == IsChannel(p) /\ LastOk(p) /\ SeenOk(p) /\ TxOk(p) /\ RxOk(p)
           F(timer) == [r EXCEPT !.timers = @ \ {timer}]
           x == [F("tx") EXCEPT !.txBusy = FALSE]
           y == [F("rx") EXCEPT !.rxBusy = FALSE]
<1>1. DOMAIN r = Field /\ r.timers \in Timers
  BY ChannelFields DEF IsChannel, Typed, CharFields
<1>2. ASSUME NEW timer
      PROVE  IsRecord(F(timer)) /\ Typed(F(timer)) /\ DOMAIN F(timer) = Field
  <2>1. IsRecord(F(timer)) /\ DOMAIN F(timer) = Field
    BY <1>1 DEF IsChannel, IsRecord
  <2>2. r.timers \ {timer} \in Timers
    BY <1>1 DEF Timers
  <2>3. Typed(F(timer))
    BY <1>1, <2>2 DEF IsChannel, Typed, RegisterFields, CharFields, ExtFields, DeviceFields, Field
  <2> QED
    BY <2>1, <2>3
<1>3. Quiet(F("poll"))
  <2>1. LastOk(F("poll")) /\ SeenOk(F("poll")) /\ TxOk(F("poll")) /\ RxOk(F("poll"))
    BY <1>1 DEF LastOk, SeenOk, TxOk, RxOk, Clocked, ExtUnseen, ExtLive, Line, Field
  <2> QED
    BY <1>2, <2>1 DEF IsChannel
<1>4. Quiet(F("zc")) /\ (PollOk(r) => PollOk(F("zc")))
  <2>1. LastOk(F("zc")) /\ SeenOk(F("zc")) /\ TxOk(F("zc")) /\ RxOk(F("zc"))
    BY <1>1 DEF LastOk, SeenOk, TxOk, RxOk, Clocked, ExtUnseen, ExtLive, Line, Field
  <2>2. PollOk(r) => PollOk(F("zc"))
    BY <1>1 DEF PollOk, Field
  <2> QED
    BY <1>2, <2>1, <2>2 DEF IsChannel
<1>5. ASSUME "tx" \in r.timers PROVE Quiet(x) /\ (PollOk(r) => PollOk(x))
  <2>1. /\ x.timers = r.timers \ {"tx"} /\ x.txBusy = FALSE /\ x.txStalled = r.txStalled
        /\ x.rxBusy = r.rxBusy /\ x.rxStalled = r.rxStalled /\ x.rxClock = r.rxClock
        /\ x.brg = r.brg /\ x.attached = r.attached
    BY <1>1 DEF Field
  <2>2. /\ x.fresh = r.fresh /\ x.latched = r.latched /\ x.last = r.last /\ x.mask = r.mask
        /\ x.seen = r.seen /\ ExtLive(x) = ExtLive(r)
    BY <1>1 DEF ExtLive, Line, Field
  <2> HIDE DEF F
  <2>3. IsRecord(x)
    BY <1>2 DEF IsRecord
  <2>4. Typed(x)
    BY <1>2 DEF Typed, RegisterFields, CharFields, ExtFields, DeviceFields, Field
  <2> HIDE DEF x
  <2>5. TxOk(x) /\ RxOk(x)
    BY <1>5, <2>1 DEF TxOk, RxOk, Clocked
  <2>6. LastOk(x) /\ SeenOk(x) /\ (PollOk(r) => PollOk(x))
    BY <2>1, <2>2 DEF LastOk, SeenOk, PollOk, ExtUnseen
  <2> QED
    BY <2>3, <2>4, <2>5, <2>6 DEF IsChannel
<1>6. ASSUME "rx" \in r.timers PROVE Quiet(y) /\ (PollOk(r) => PollOk(y)) /\ ~y.rxBusy
  <2>1. /\ y.timers = r.timers \ {"rx"} /\ y.rxBusy = FALSE /\ y.rxStalled = r.rxStalled
        /\ y.txBusy = r.txBusy /\ y.txStalled = r.txStalled /\ y.txClock = r.txClock
        /\ y.brg = r.brg /\ y.attached = r.attached
    BY <1>1 DEF Field
  <2>2. /\ y.fresh = r.fresh /\ y.latched = r.latched /\ y.last = r.last /\ y.mask = r.mask
        /\ y.seen = r.seen /\ ExtLive(y) = ExtLive(r)
    BY <1>1 DEF ExtLive, Line, Field
  <2> HIDE DEF F
  <2>3. IsRecord(y)
    BY <1>2 DEF IsRecord
  <2>4. Typed(y)
    BY <1>2 DEF Typed, RegisterFields, CharFields, ExtFields, DeviceFields, Field
  <2> HIDE DEF y
  <2>5. TxOk(y) /\ RxOk(y) /\ ~y.rxBusy
    BY <1>6, <2>1 DEF TxOk, RxOk, Clocked
  <2>6. LastOk(y) /\ SeenOk(y) /\ (PollOk(r) => PollOk(y))
    BY <2>1, <2>2 DEF LastOk, SeenOk, PollOk, ExtUnseen
  <2> QED
    BY <2>3, <2>4, <2>5, <2>6 DEF IsChannel
<1>7. IpFields(F("poll")) = IpFields(r)
  BY <1>1 DEF IpFields, Field
<1> HIDE DEF Quiet
<1> QED
  BY <1>3, <1>4, <1>5, <1>6, <1>7 DEF Quiet

(* WR11, WR14 and WR4, WR12 and WR13: the clocks change under a character. *)
LEMMA ClockWriteKeeps ==
    ASSUME NEW r, Sound(r), NEW p,
           \/ \E v \in Wr11Value : p = [r EXCEPT !.txClock = v.txClock, !.rxClock = v.rxClock]
           \/ \E v \in Wr14Value : p = [r EXCEPT !.brg = v.brg, !.loopback = v.loopback]
           \/ p = r
    PROVE  LET u == UpdateTimingSources(p)
           IN  Sound(u) /\ (PollOk(r) => PollOk(u)) /\ IpFields(u) = IpFields(r)
<1>1. DOMAIN r = Field /\ IsRecord(r) /\ Typed(r)
  BY ChannelFields DEF Sound, IsChannel
<1> DEFINE Flow(q) ==
             /\ ("tx" \in q.timers) = (q.txBusy /\ ~q.txStalled) /\ (q.txStalled => q.txBusy)
             /\ ("rx" \in q.timers) = (q.rxBusy /\ ~q.rxStalled) /\ (q.rxStalled => q.rxBusy)
           Goal(q) == /\ IsChannel(q) /\ Flow(q) /\ LastOk(q) /\ SeenOk(q)
                      /\ PollOk(r) => PollOk(q)
                      /\ IpFields(q) = IpFields(r)
<1>2. ASSUME NEW v \in Wr11Value
      PROVE  Goal([r EXCEPT !.txClock = v.txClock, !.rxClock = v.rxClock])
  <2> DEFINE z == [r EXCEPT !.txClock = v.txClock, !.rxClock = v.rxClock]
  <2>1. IsRecord(z)
    BY <1>1 DEF IsRecord
  <2>2. Typed(z)
    <3>1. v.txClock \in Route /\ v.rxClock \in Route
      BY DEF Wr11Value
    <3>2. RegisterFields(z) /\ DeviceFields(z)
      BY <1>1, <3>1 DEF Typed, RegisterFields, DeviceFields, Field
    <3>3. CharFields(z) /\ ExtFields(z)
      BY <1>1 DEF Typed, CharFields, ExtFields, Field
    <3> QED
      BY <3>2, <3>3 DEF Typed
  <2>3. Flow(z)
    BY <1>1 DEF Field, Sound, TxOk, RxOk
  <2>4. LastOk(z) /\ SeenOk(z) /\ (PollOk(r) => PollOk(z)) /\ IpFields(z) = IpFields(r)
    BY <1>1 DEF Sound, LastOk, SeenOk, PollOk, IpFields, ExtUnseen, ExtLive, Line, Field
  <2> QED
    BY <2>1, <2>2, <2>3, <2>4 DEF IsChannel
<1>3. ASSUME NEW v \in Wr14Value
      PROVE  Goal([r EXCEPT !.brg = v.brg, !.loopback = v.loopback])
  <2> DEFINE z == [r EXCEPT !.brg = v.brg, !.loopback = v.loopback]
  <2>1. IsRecord(z)
    BY <1>1 DEF IsRecord
  <2>2. Typed(z)
    <3>1. v.brg \in BOOLEAN /\ v.loopback \in BOOLEAN
      BY DEF Wr14Value
    <3>2. RegisterFields(z) /\ DeviceFields(z)
      BY <1>1, <3>1 DEF Typed, RegisterFields, DeviceFields, Field
    <3>3. CharFields(z) /\ ExtFields(z)
      BY <1>1 DEF Typed, CharFields, ExtFields, Field
    <3> QED
      BY <3>2, <3>3 DEF Typed
  <2>3. Flow(z)
    BY <1>1 DEF Field, Sound, TxOk, RxOk
  <2>4. LastOk(z) /\ SeenOk(z) /\ (PollOk(r) => PollOk(z)) /\ IpFields(z) = IpFields(r)
    BY <1>1 DEF Sound, LastOk, SeenOk, PollOk, IpFields, ExtUnseen, ExtLive, Line, Field
  <2> QED
    BY <2>1, <2>2, <2>3, <2>4 DEF IsChannel
<1>4. Goal(r)
  BY DEF Sound, TxOk, RxOk
<1> HIDE DEF Goal
<1>5. Goal(p)
  BY <1>2, <1>3, <1>4
<1> QED
  BY <1>5, TimingKeeps DEF Goal, Sound

(* WR15 takes the lines as they are for seen.                              *)
LEMMA MaskWriteKeeps ==
    ASSUME NEW r, Sound(r), NEW m \in SUBSET ExtSource
    PROVE  LET live == ExtLive(r)
               u == ZcArm([r EXCEPT !.mask = m, !.last = live, !.seen = live, !.fresh = TRUE])
           IN  Sound(u) /\ (PollOk(r) => PollOk(u)) /\ IpFields(u) = IpFields(r)
<1> DEFINE live == ExtLive(r)
           z == [r EXCEPT !.mask = m, !.last = live, !.seen = live, !.fresh = TRUE]
<1>1. DOMAIN r = Field /\ IsRecord(r) /\ Typed(r)
  BY ChannelFields DEF Sound, IsChannel
<1>2. live \subseteq Line /\ live \subseteq ExtSource
  BY DEF ExtLive, ExtSource
<1>3. z.last = live /\ z.seen = live /\ z.mask = m /\ ExtLive(z) = live
  BY <1>1 DEF ExtLive, Line, Field
<1> HIDE DEF live
<1>4. IsRecord(z)
  BY <1>1 DEF IsRecord
<1>5. Typed(z)
  BY <1>1, <1>2 DEF Typed, RegisterFields, CharFields, ExtFields, DeviceFields, Field
<1>6. TxOk(z) /\ RxOk(z) /\ (PollOk(r) => PollOk(z)) /\ IpFields(z) = IpFields(r)
  BY <1>1 DEF Sound, TxOk, RxOk, PollOk, Clocked, IpFields, Field
<1> HIDE DEF z
<1>7. LastOk(z) /\ SeenOk(z)
  BY <1>2, <1>3 DEF LastOk, SeenOk, ExtUnseen
<1>8. IsChannel(z)
  BY <1>4, <1>5 DEF IsChannel
<1> QED
  BY <1>6, <1>7, <1>8, ArmKeeps DEF Keeps, Sound, z, live

(* A channel as hw_reset_channel and soft_reset_channel leave its fields.  *)
ClearedChannel(r, hardware) ==
    [Cancelled(r) EXCEPT
        !.txIp = FALSE, !.extIp = FALSE, !.rxFirstArmed = TRUE,
        !.txBusy = FALSE, !.rxBusy = FALSE, !.txFull = FALSE,
        !.fifo = 0, !.overrun = FALSE,
        !.txStalled = FALSE, !.rxStalled = FALSE, !.latched = FALSE,
        !.extIe = FALSE, !.txIe = FALSE, !.rxMode = "off", !.rxEnable = FALSE,
        !.txEnable = FALSE, !.ctl = "off", !.sendBreak = "off",
        !.txClock = "trxc", !.rxClock = "rtxc", !.loopback = FALSE,
        !.brg = @ /\ ~hardware, !.mask = Line, !.seen = ExtLive(r), !.fresh = FALSE]

(* A channel that is reset has no character and no latch, and its poll.    *)
LEMMA ClearedKeeps ==
    ASSUME NEW r, IsChannel(r), NEW hardware \in BOOLEAN
    PROVE  LET p == UpdateTimingSources(ClearedChannel(r, hardware))
           IN  Sound(p) /\ (PollOk(r) => PollOk(p))
<1> DEFINE y == Cancelled(r)
           live == ExtLive(r)
           z == [y EXCEPT
                 !.txIp = FALSE, !.extIp = FALSE, !.rxFirstArmed = TRUE,
                 !.txBusy = FALSE, !.rxBusy = FALSE, !.txFull = FALSE,
                 !.fifo = 0, !.overrun = FALSE,
                 !.txStalled = FALSE, !.rxStalled = FALSE, !.latched = FALSE,
                 !.extIe = FALSE, !.txIe = FALSE, !.rxMode = "off", !.rxEnable = FALSE,
                 !.txEnable = FALSE, !.ctl = "off", !.sendBreak = "off",
                 !.txClock = "trxc", !.rxClock = "rtxc", !.loopback = FALSE,
                 !.brg = @ /\ ~hardware, !.mask = Line, !.seen = live, !.fresh = FALSE]
<1>1. DOMAIN r = Field /\ IsRecord(r) /\ Typed(r) /\ r.timers \in Timers
  BY ChannelFields DEF IsChannel, Typed, CharFields
<1>2. live \subseteq ExtSource /\ Line \subseteq ExtSource
  BY DEF ExtLive, ExtSource
<1>3. /\ IsRecord(y) /\ DOMAIN y = Field /\ Typed(y)
      /\ "tx" \notin y.timers /\ "rx" \notin y.timers
      /\ PollOk(r) => PollOk(y)
  <2>1. IsRecord(y) /\ DOMAIN y = Field
    BY <1>1 DEF Cancelled, IsRecord
  <2>2. r.timers \ {"tx", "rx", "zc"} \in Timers
    BY <1>1 DEF Timers
  <2>3. Typed(y)
    BY <1>1, <2>2 DEF Cancelled, Typed, RegisterFields, CharFields, ExtFields, DeviceFields, Field
  <2>4. "tx" \notin y.timers /\ "rx" \notin y.timers /\ (PollOk(r) => PollOk(y))
    BY <1>1 DEF Cancelled, PollOk, Field
  <2> QED
    BY <2>1, <2>3, <2>4
<1> HIDE DEF y, live
<1>4. IsRecord(z)
  <2> DEFINE a == [y EXCEPT
                 !.txIp = FALSE, !.extIp = FALSE, !.rxFirstArmed = TRUE,
                 !.txBusy = FALSE, !.rxBusy = FALSE, !.txFull = FALSE,
                 !.fifo = 0, !.overrun = FALSE]
             b == [a EXCEPT
                 !.txStalled = FALSE, !.rxStalled = FALSE, !.latched = FALSE,
                 !.extIe = FALSE, !.txIe = FALSE, !.rxMode = "off", !.rxEnable = FALSE]
             d == [b EXCEPT
                 !.txEnable = FALSE, !.ctl = "off", !.sendBreak = "off",
                 !.txClock = "trxc", !.rxClock = "rtxc", !.loopback = FALSE]
             w == [d EXCEPT !.brg = y.brg /\ ~hardware, !.mask = Line, !.seen = live,
                            !.fresh = FALSE]
  <2>1. IsRecord(a)
    BY <1>3 DEF IsRecord
  <2>2. z = w
    OBVIOUS
  <2> HIDE DEF a
  <2>3. IsRecord(b)
    BY <2>1 DEF IsRecord
  <2> HIDE DEF b
  <2>4. IsRecord(d)
    BY <2>3 DEF IsRecord
  <2> HIDE DEF d
  <2>5. IsRecord(w)
    BY <2>4 DEF IsRecord
  <2> HIDE DEF w, z
  <2> QED
    BY <2>2, <2>5
<1>5. /\ z.timers = y.timers /\ z.txBusy = FALSE /\ z.rxBusy = FALSE /\ z.txStalled = FALSE
      /\ z.rxStalled = FALSE /\ z.fresh = FALSE /\ z.attached = y.attached
  BY <1>3 DEF Field
<1>6. RegisterFields(z)
  BY <1>2, <1>3 DEF Typed, RegisterFields, Field, Mode, OnOff, Route
<1>7. CharFields(z)
  BY <1>3, SizeAssumption DEF Typed, CharFields, Field
<1>8. ExtFields(z) /\ DeviceFields(z)
  BY <1>2, <1>3 DEF Typed, ExtFields, DeviceFields, Field
<1> HIDE DEF z
<1>9. IsChannel(z)
  BY <1>4, <1>6, <1>7, <1>8 DEF IsChannel, Typed
<1>10. LastOk(z) /\ SeenOk(z) /\ (PollOk(y) => PollOk(z))
  BY <1>5 DEF LastOk, SeenOk, PollOk
<1>11. LET p == UpdateTimingSources(z)
       IN  Sound(p) /\ (PollOk(z) => PollOk(p))
  BY <1>3, <1>5, <1>9, <1>10, TimingKeeps DEF Sound
<1>12. Sound(UpdateTimingSources(z)) /\ (PollOk(r) => PollOk(UpdateTimingSources(z)))
  BY <1>3, <1>10, <1>11
<1>13. ClearedChannel(r, hardware) = z
  BY DEF ClearedChannel, z, y, live
<1> QED
  BY <1>12, <1>13

(* A device is attached, or taken away: the rings are empty, and what it   *)
(* is told first and the state of its lines leave the channel sound.       *)
LEMMA DeviceKeeps ==
    ASSUME NEW r, Sound(r), NEW device \in BOOLEAN
    PROVE  LET e == [r EXCEPT !.attached = device, !.lineTold = "none", !.toDevice = 0,
                              !.fromDevice = << >>]
               t == LinesOutUpdate(PushLineParams(e), TRUE)
               l == [t EXCEPT !.dcd = TRUE, !.cts = TRUE, !.brk = FALSE]
           IN  Sound(ExtUpdate(l, ExtLive(l)))
<1> DEFINE e == [r EXCEPT !.attached = device, !.lineTold = "none", !.toDevice = 0,
                          !.fromDevice = << >>]
           p == PushLineParams(e)
           t == LinesOutUpdate(p, TRUE)
           l == [t EXCEPT !.dcd = TRUE, !.cts = TRUE, !.brk = FALSE]
           Calm(q) == IsChannel(q) /\ TxOk(q) /\ RxOk(q) /\ LastOk(q)
<1>1. DOMAIN r = Field /\ IsRecord(r) /\ Typed(r)
  BY ChannelFields DEF Sound, IsChannel
<1>2. Calm(e)
  <2>1. IsRecord(e)
    BY <1>1 DEF IsRecord
  <2>2. << >> \in Seq(MessageValue) /\ Len(<< >>) <= InCap /\ 0 \in 0 .. OutCap
    BY SizeAssumption
  <2>3. Typed(e)
    BY <1>1, <2>2 DEF Typed, RegisterFields, CharFields, ExtFields, DeviceFields, Field
  <2>4. TxOk(e) /\ RxOk(e) /\ LastOk(e)
    BY <1>1 DEF Sound, TxOk, RxOk, LastOk, Clocked, Field
  <2> QED
    BY <2>1, <2>3, <2>4 DEF IsChannel
<1> HIDE DEF e
<1>3. Calm(p)
  BY <1>2, TellKeeps DEF Keeps
<1> HIDE DEF p
<1>4. Calm(t)
  BY <1>3, TellKeeps DEF Keeps
<1> HIDE DEF t
<1>5. Calm(l)
  BY <1>4, LineKeeps
<1> HIDE DEF l
<1>6. ExtLive(l) \subseteq ExtSource /\ ExtLive(l) \cap Line = ExtLive(l)
  BY DEF ExtLive, ExtSource
<1>7. Sound(ExtUpdate(l, ExtLive(l)))
  BY <1>5, <1>6, ExtUpdateKeeps DEF Sound
<1> QED
  BY <1>7 DEF l, t, p, e

(* The channel the guest's driver has set up.                              *)
LEMMA ReadySound ==
    ASSUME NEW c \in Channel, NEW v \in SetUpValue
    PROVE  Sound(ReadyChannel(c, v)) /\ PollOk(ReadyChannel(c, v))
<1> DEFINE z == [NewChannel EXCEPT
                !.extIe = v.wr1.extIe, !.txIe = v.wr1.txIe, !.rxMode = v.wr1.rxMode,
                !.rxEnable = v.wr3.rxEnable, !.auto = v.wr3.auto, !.txEnable = v.wr5.txEnable,
                !.ctl = v.wr5.ctl, !.sendBreak = v.wr5.sendBreak, !.txClock = v.wr11.txClock,
                !.rxClock = v.wr11.rxClock, !.brg = v.wr14.brg, !.loopback = v.wr14.loopback,
                !.mask = v.wr15, !.attached = c \in Port]
           r == ZcArm(z)
           p == PushLineParams(r)
           t == LinesOutUpdate(p, TRUE)
           k == [t EXCEPT !.toDevice = 0]
<1>1. DOMAIN NewChannel = Field /\ IsRecord(NewChannel)
  BY DEF NewChannel, Field, IsRecord
<1>2. v.wr1 \in Wr1Value /\ v.wr3 \in Wr3Value /\ v.wr5 \in Wr5Value /\ v.wr11 \in Wr11Value
      /\ v.wr14 \in Wr14Value /\ v.wr15 \in SUBSET ExtSource
  BY DEF SetUpValue
<1>3. Typed(NewChannel)
  BY SizeAssumption DEF NewChannel, Typed, RegisterFields, CharFields, ExtFields, DeviceFields,
     Mode, OnOff, Route, Line, ExtSource, Timers
<1>4. IsRecord(z)
  <2> DEFINE a == [NewChannel EXCEPT
                !.extIe = v.wr1.extIe, !.txIe = v.wr1.txIe, !.rxMode = v.wr1.rxMode,
                !.rxEnable = v.wr3.rxEnable, !.auto = v.wr3.auto, !.txEnable = v.wr5.txEnable,
                !.ctl = v.wr5.ctl]
             b == [a EXCEPT !.sendBreak = v.wr5.sendBreak, !.txClock = v.wr11.txClock,
                !.rxClock = v.wr11.rxClock, !.brg = v.wr14.brg, !.loopback = v.wr14.loopback,
                !.mask = v.wr15, !.attached = c \in Port]
  <2>1. z = b
    OBVIOUS
  <2>2. IsRecord(a)
    BY <1>1 DEF IsRecord
  <2> HIDE DEF a
  <2>3. IsRecord(b)
    BY <2>2 DEF IsRecord
  <2> HIDE DEF b, z
  <2> QED
    BY <2>1, <2>3
<1>5. RegisterFields(z)
  BY <1>1, <1>2 DEF RegisterFields, Field, Mode, Wr1Value, Wr3Value, Wr5Value, Wr11Value, Wr14Value
<1>6. CharFields(z) /\ ExtFields(z) /\ DeviceFields(z)
  BY <1>1, <1>3 DEF Typed, CharFields, ExtFields, DeviceFields, Field
<1>7. TxOk(z) /\ RxOk(z)
  BY <1>1 DEF TxOk, RxOk, NewChannel
<1>8. LastOk(z) /\ SeenOk(z)
  <2>1. z.last = {"dcd", "cts"} /\ z.seen = {"dcd", "cts"}
    BY <1>1 DEF NewChannel
  <2>2. z.dcd = TRUE /\ z.cts = TRUE /\ z.brk = FALSE
    BY <1>1 DEF NewChannel
  <2> HIDE DEF z
  <2>3. ExtLive(z) = {"dcd", "cts"}
    BY <2>2 DEF ExtLive, Line
  <2> QED
    BY <2>1, <2>3 DEF LastOk, SeenOk, ExtUnseen, Line
<1> HIDE DEF z
<1>9. Sound(z)
  BY <1>4, <1>5, <1>6, <1>7, <1>8 DEF Sound, IsChannel, Typed
<1>10. Sound(r)
  BY <1>9, ArmKeeps DEF Sound, Keeps
<1> HIDE DEF r
<1>11. Sound(p)
  BY <1>10, TellKeeps DEF Sound, Keeps
<1> HIDE DEF p
<1>12. Sound(t)
  BY <1>11, TellKeeps DEF Sound, Keeps
<1> HIDE DEF t
<1>13. Sound(k)
  <2>1. 0 \in 0 .. OutCap
    BY SizeAssumption
  <2> QED
    BY <1>12, <2>1, FieldKeeps DEF Sound, Keeps
<1> HIDE DEF k
<1>14. Sound(RxPollArm(k)) /\ PollOk(RxPollArm(k))
  BY <1>13, ArmKeeps DEF Sound, Keeps
<1> QED
  BY <1>14 DEF ReadyChannel, k, t, p, r, z

-----------------------------------------------------------------------------
(* The chip: the interrupt block, and a change of one channel.             *)

ChipField == {"c", "mie", "softIntack", "ip", "ius", "int"}

IsChip(t) ==
    /\ t = [k \in ChipField |-> t[k]]
    /\ t.c = [k \in Channel |-> t.c[k]]
    /\ t.mie \in BOOLEAN /\ t.softIntack \in BOOLEAN /\ t.int \in BOOLEAN
    /\ t.ip \subseteq 0 .. 5 /\ t.ius \subseteq 0 .. 5

ChipOk(t) == IsChip(t) /\ \A k \in Channel : Sound(t.c[k])

(* What a function of the chip does not undo: the polls that are scheduled *)
(* and an INT line that is as the sources call for.                        *)
Polls(u, t) == \A k \in Channel : PollOk(t.c[k]) => PollOk(u.c[k])
IntKept(u, t) == t.int = IntDue(t) => u.int = IntDue(u)

(* A source is one of the six, and so is the highest of them.              *)
LEMMA SourceRange ==
    /\ \A c \in Channel : {Source(c, "rx"), Source(c, "tx"), Source(c, "ext")} \subseteq 0 .. 5
    /\ \A t : RecomputeIp(t) \subseteq 0 .. 5
    /\ \A bits \in SUBSET (0 .. 5) : bits # {} => Highest(bits) \in bits
<1>1. \A c \in Channel : {Source(c, "rx"), Source(c, "tx"), Source(c, "ext")} \subseteq 0 .. 5
  BY DEF Source, Channel
<1>2. ASSUME NEW t PROVE RecomputeIp(t) \subseteq 0 .. 5
  <2> HIDE DEF Source
  <2> QED
    BY <1>1 DEF RecomputeIp
<1>3. ASSUME NEW bits \in SUBSET (0 .. 5), bits # {} PROVE Highest(bits) \in bits
  <2> DEFINE T == {5 - x : x \in bits}
  <2>1. T \subseteq Nat /\ T # {}
    <3>1. \A x \in bits : 5 - x \in Nat
      OBVIOUS
    <3>2. PICK x : x \in bits
      BY <1>3
    <3>3. 5 - x \in T
      BY <3>2
    <3> QED
      BY <3>1, <3>3
  <2>2. PICK k \in T : \A y \in T : ~(y < k)
    BY <2>1, Least
  <2>3. PICK x \in bits : k = 5 - x
    BY <2>2
  <2>4. \A y \in bits : x >= y
    <3> SUFFICES ASSUME NEW y \in bits PROVE x >= y
      OBVIOUS
    <3>1. 5 - y \in T
      OBVIOUS
    <3>2. ~(5 - y < 5 - x)
      BY <2>2, <2>3, <3>1
    <3>3. x \in 0 .. 5 /\ y \in 0 .. 5
      OBVIOUS
    <3> HIDE DEF T
    <3> QED
      BY <3>2, <3>3
  <2>5. Max(bits) \in bits
    BY <2>3, <2>4 DEF Max
  <2> QED
    BY <1>3, <2>5 DEF Highest
<1> QED
  BY <1>1, <1>2, <1>3

(* update_interrupts                                                       *)
LEMMA UpdateChip ==
    ASSUME NEW t, IsChip(t)
    PROVE  LET u == UpdateInterrupts(t)
           IN  /\ IsChip(u) /\ u.c = t.c /\ u.int = IntDue(u)
               /\ u.mie = t.mie /\ u.softIntack = t.softIntack /\ u.ius = t.ius
<1> DEFINE u == UpdateInterrupts(t)
           due == IntDue(t)
           ip == RecomputeIp(t)
<1>1. u = [t EXCEPT !.ip = ip, !.int = due]
  BY DEF UpdateInterrupts
<1>2. ip \subseteq 0 .. 5 /\ due \in BOOLEAN
  BY SourceRange DEF IntDue
<1> HIDE DEF u, ip, due
<1>3. DOMAIN t = ChipField
  BY DEF IsChip
<1>4. /\ u.c = t.c /\ u.mie = t.mie /\ u.softIntack = t.softIntack /\ u.ius = t.ius
      /\ u.ip = ip /\ u.int = due
  BY <1>1, <1>3 DEF ChipField
<1>5. u = [k \in ChipField |-> u[k]]
  BY <1>1, <1>3
<1>6. IsChip(u)
  BY <1>2, <1>4, <1>5 DEF IsChip
<1>7. IntDue(u) = due
  BY <1>4 DEF due, IntDue, RecomputeIp
<1> QED
  BY <1>4, <1>6, <1>7 DEF u

(* The sources pending are read from the channels.                         *)
LEMMA SameSources ==
    ASSUME NEW t, NEW u, \A k \in Channel : IpFields(u.c[k]) = IpFields(t.c[k])
    PROVE  RecomputeIp(u) = RecomputeIp(t)
<1>1. ASSUME NEW k \in Channel
      PROVE  /\ RxPending(u.c[k]) <=> RxPending(t.c[k])
             /\ (u.c[k].txIe /\ u.c[k].txIp) <=> (t.c[k].txIe /\ t.c[k].txIp)
             /\ (u.c[k].extIe /\ u.c[k].extIp) <=> (t.c[k].extIe /\ t.c[k].extIp)
  <2> DEFINE a == u.c[k]
             b == t.c[k]
  <2>1. IpFields(a) = IpFields(b)
    OBVIOUS
  <2> HIDE DEF a, b
  <2>2. /\ a.rxMode = b.rxMode /\ a.overrun = b.overrun /\ a.fifo = b.fifo
        /\ a.rxFirstArmed = b.rxFirstArmed /\ a.txIe = b.txIe /\ a.txIp = b.txIp
        /\ a.extIe = b.extIe /\ a.extIp = b.extIp
    BY <2>1 DEF IpFields
  <2>3. /\ RxPending(a) <=> RxPending(b)
        /\ (a.txIe /\ a.txIp) <=> (b.txIe /\ b.txIp)
        /\ (a.extIe /\ a.extIp) <=> (b.extIe /\ b.extIp)
    BY <2>2 DEF RxPending
  <2> QED
    BY <2>3 DEF a, b
<1>2. /\ {k \in Channel : RxPending(u.c[k])} = {k \in Channel : RxPending(t.c[k])}
      /\ {k \in Channel : u.c[k].txIe /\ u.c[k].txIp} = {k \in Channel : t.c[k].txIe /\ t.c[k].txIp}
      /\ {k \in Channel : u.c[k].extIe /\ u.c[k].extIp}
            = {k \in Channel : t.c[k].extIe /\ t.c[k].extIp}
  BY <1>1
<1> QED
  BY <1>2 DEF RecomputeIp

(* One channel of the chip changes.                                        *)
LEMMA OnFields ==
    ASSUME NEW t, IsChip(t), NEW c \in Channel, NEW r
    PROVE  LET u == On(t, c, r)
           IN  /\ IsChip(u) /\ u.c[c] = r
               /\ \A k \in Channel : k # c => u.c[k] = t.c[k]
               /\ u.int = t.int /\ u.mie = t.mie /\ u.softIntack = t.softIntack /\ u.ius = t.ius
               /\ IpFields(r) = IpFields(t.c[c]) => IntDue(u) = IntDue(t) /\ IntKept(u, t)
<1> DEFINE u == On(t, c, r)
<1>1. DOMAIN t = ChipField /\ t.c = [k \in Channel |-> t.c[k]]
  BY DEF IsChip
<1>2. /\ u.c = [t.c EXCEPT ![c] = r] /\ u.mie = t.mie /\ u.softIntack = t.softIntack
      /\ u.ius = t.ius /\ u.ip = t.ip /\ u.int = t.int
  BY <1>1 DEF On, ChipField
<1>3. u = [k \in ChipField |-> u[k]]
  BY <1>1 DEF On
<1> HIDE DEF u
<1>4. u.c[c] = r /\ \A k \in Channel : k # c => u.c[k] = t.c[k]
  BY <1>1, <1>2
<1>5. u.c = [k \in Channel |-> u.c[k]]
  BY <1>1, <1>2
<1>6. IsChip(u)
  BY <1>2, <1>3, <1>5 DEF IsChip
<1>7. ASSUME IpFields(r) = IpFields(t.c[c]) PROVE IntDue(u) = IntDue(t) /\ IntKept(u, t)
  <2>1. \A k \in Channel : IpFields(u.c[k]) = IpFields(t.c[k])
    BY <1>4, <1>7
  <2>2. RecomputeIp(u) = RecomputeIp(t)
    BY <2>1, SameSources
  <2>3. IntDue(u) = IntDue(t)
    BY <1>2, <2>2 DEF IntDue
  <2> QED
    BY <1>2, <2>3 DEF IntKept
<1> QED
  BY <1>2, <1>4, <1>6, <1>7 DEF u

(* One channel changes, and is sound.                                      *)
LEMMA OnChip ==
    ASSUME NEW t, ChipOk(t), NEW c \in Channel, NEW r, Sound(r)
    PROVE  LET u == On(t, c, r)
           IN  /\ ChipOk(u) /\ u.c[c] = r
               /\ \A k \in Channel : k # c => u.c[k] = t.c[k]
               /\ (PollOk(t.c[c]) => PollOk(r)) => Polls(u, t)
               /\ IpFields(r) = IpFields(t.c[c]) => IntKept(u, t)
<1> DEFINE u == On(t, c, r)
<1>1. /\ IsChip(u) /\ u.c[c] = r
      /\ \A k \in Channel : k # c => u.c[k] = t.c[k]
      /\ IpFields(r) = IpFields(t.c[c]) => IntKept(u, t)
  BY OnFields DEF ChipOk
<1> HIDE DEF u
<1>2. ChipOk(u) /\ ((PollOk(t.c[c]) => PollOk(r)) => Polls(u, t))
  BY <1>1 DEF ChipOk, Polls
<1> QED
  BY <1>1, <1>2 DEF u

(* A change of one channel, and update_interrupts.                         *)
LEMMA OnUpdated ==
    ASSUME NEW t, ChipOk(t), NEW c \in Channel, NEW r, Sound(r), PollOk(t.c[c]) => PollOk(r)
    PROVE  LET u == UpdateInterrupts(On(t, c, r))
           IN  /\ ChipOk(u) /\ u.c[c] = r /\ Polls(u, t) /\ u.int = IntDue(u) /\ IntKept(u, t)
               /\ \A k \in Channel : k # c => u.c[k] = t.c[k]
<1> DEFINE o == On(t, c, r)
           u == UpdateInterrupts(o)
<1>1. /\ ChipOk(o) /\ o.c[c] = r /\ Polls(o, t)
      /\ \A k \in Channel : k # c => o.c[k] = t.c[k]
  BY OnChip
<1> HIDE DEF o
<1>2. IsChip(u) /\ u.c = o.c /\ u.int = IntDue(u)
  BY <1>1, UpdateChip DEF ChipOk
<1> HIDE DEF u
<1>3. ChipOk(u) /\ u.c[c] = r /\ Polls(u, t) /\ u.int = IntDue(u) /\ IntKept(u, t)
  BY <1>1, <1>2 DEF ChipOk, Polls, IntKept
<1> QED
  BY <1>1, <1>2, <1>3 DEF u, o

(* update_interrupts alone.                                                *)
LEMMA UpdatedOk ==
    ASSUME NEW t, ChipOk(t)
    PROVE  LET u == UpdateInterrupts(t)
           IN  ChipOk(u) /\ Polls(u, t) /\ u.int = IntDue(u)
BY UpdateChip DEF ChipOk, Polls


(* One message of the device, for an idle receiver.                        *)
LEMMA TakenOk ==
    ASSUME NEW t, ChipOk(t), NEW c \in Channel, ~t.c[c].rxBusy, NEW m \in MessageValue
    PROVE  LET u == Taken(t, c, m)
           IN  /\ ChipOk(u) /\ Polls(u, t) /\ IntKept(u, t)
               /\ m.type # "DATA" => ~u.c[c].rxBusy
<1> DEFINE r == t.c[c]
           Goal(u) == /\ ChipOk(u) /\ Polls(u, t) /\ IntKept(u, t)
                      /\ m.type # "DATA" => ~u.c[c].rxBusy
           Calm(q) == /\ IsChannel(q) /\ TxOk(q) /\ RxOk(q) /\ LastOk(q) /\ ~q.rxBusy
                      /\ PollOk(r) => PollOk(q)
<1>1. Sound(r) /\ Calm(r)
  BY DEF ChipOk, Sound
<1>2. ASSUME NEW l, Calm(l)
      PROVE  Goal(UpdateInterrupts(On(t, c, ExtUpdate(l, ExtLive(l)))))
  <2> DEFINE p == ExtUpdate(l, ExtLive(l))
  <2>1. ExtLive(l) \subseteq ExtSource /\ ExtLive(l) \cap Line = ExtLive(l)
    BY DEF ExtLive, ExtSource
  <2>2. Sound(p) /\ ~p.rxBusy /\ (PollOk(r) => PollOk(p))
    BY <1>2, <2>1, ExtUpdateKeeps DEF Sound
  <2> HIDE DEF p
  <2> QED
    BY <2>2, OnUpdated DEF p
<1>3. m.type \in {"DATA", "STATUS", "BREAK"}
  BY DEF MessageValue
<1>4. CASE m.type = "DATA"
  <2> DEFINE p == ScheduleRxChar(r)
  <2>1. Sound(p) /\ IpFields(p) = IpFields(r) /\ (PollOk(r) => PollOk(p))
    BY <1>1, RxCharKeeps DEF Sound
  <2>2. Taken(t, c, m) = On(t, c, p)
    BY <1>4 DEF Taken
  <2> HIDE DEF p
  <2> QED
    BY <1>4, <2>1, <2>2, OnChip
<1>5. CASE m.type = "STATUS"
  <2> DEFINE l == [r EXCEPT !.dcd = m.dcd, !.cts = m.cts]
  <2>1. m.dcd \in BOOLEAN /\ m.cts \in BOOLEAN
    BY <1>5 DEF MessageValue
  <2>2. Calm(l)
    <3> DEFINE d == m.dcd
               e == m.cts
    <3>1. l = [r EXCEPT !.dcd = d, !.cts = e]
      OBVIOUS
    <3>2. d \in BOOLEAN /\ e \in BOOLEAN
      BY <2>1
    <3> HIDE DEF r, d, e, l
    <3> DEFINE w == [r EXCEPT !.dcd = d, !.cts = e]
    <3>3. /\ IsChannel(w)
          /\ TxOk(r) => TxOk(w)
          /\ RxOk(r) => RxOk(w)
          /\ LastOk(r) => LastOk(w)
          /\ PollOk(r) => PollOk(w)
          /\ w.rxBusy = r.rxBusy
      BY <1>1, <3>2, LineKeeps, Zenon
    <3> HIDE DEF w
    <3> QED
      BY <1>1, <3>1, <3>3 DEF w
  <2>3. Taken(t, c, m) = UpdateInterrupts(On(t, c, ExtUpdate(l, ExtLive(l))))
    BY <1>5 DEF Taken
  <2> HIDE DEF l, Calm
  <2> QED
    BY <1>2, <2>2, <2>3
<1>6. CASE m.type = "BREAK"
  <2> DEFINE e == IF r.brk /\ ~m.on /\ r.rxEnable THEN RxPush(r) ELSE r
             l == [e EXCEPT !.brk = m.on]
  <2>1. m.on \in BOOLEAN
    BY <1>6 DEF MessageValue
  <2>2. Calm(e)
    BY <1>1, RxPushKeeps DEF Keeps
  <2>3. Taken(t, c, m) = UpdateInterrupts(On(t, c, ExtUpdate(l, ExtLive(l))))
    BY <1>6 DEF Taken
  <2> HIDE DEF e
  <2>4. Calm(l)
    BY <2>1, <2>2, LineKeeps
  <2> HIDE DEF l, Calm
  <2> QED
    BY <1>2, <2>3, <2>4
<1> QED
  BY <1>3, <1>4, <1>5, <1>6

(* rx_try_start: the messages up to the first character.  The receiver is  *)
(* idle until that one, so no character is started while another arrives.  *)
LEMMA RxTryStartOk ==
    ASSUME NEW t, ChipOk(t), NEW c \in Channel
    PROVE  LET u == RxTryStart(t, c)
           IN  ChipOk(u) /\ Polls(u, t) /\ IntKept(u, t)
<1> DEFINE r == t.c[c]
           q == r.fromDevice
           chars == {i \in DOMAIN q : q[i].type = "DATA"}
           n == IF chars = {} THEN Len(q) ELSE Min(chars)
           rest == SubSeq(q, n + 1, Len(q))
           b == On(t, c, [r EXCEPT !.fromDevice = rest])
           After(f) == [i \in 0 .. n |-> IF i = 0 THEN b ELSE Taken(f[i - 1], c, q[i])]
           after == CHOOSE f : f = After(f)
           Good(u) == ChipOk(u) /\ Polls(u, t) /\ IntKept(u, t)
<1>1. CASE ~r.attached \/ r.rxBusy \/ r.loopback
  <2>1. RxTryStart(t, c) = t
    BY <1>1 DEF RxTryStart
  <2> QED
    BY <2>1 DEF Polls, IntKept
<1>2. CASE ~(~r.attached \/ r.rxBusy \/ r.loopback)
  <2>1. Sound(r) /\ q \in Seq(MessageValue) /\ Len(q) <= InCap /\ ~r.rxBusy
    BY <1>2 DEF ChipOk, Sound, IsChannel, Typed, DeviceFields
  <2>2. Len(q) \in Nat /\ DOMAIN q = 1 .. Len(q)
    BY <2>1, LenProperties
  <2>3. n \in 0 .. Len(q) /\ \A i \in 1 .. n : i < n => q[i].type # "DATA"
    <3>1. CASE chars = {}
      BY <2>2, <3>1
    <3>2. CASE chars # {}
      <4>1. chars \subseteq Nat
        BY <2>2
      <4>2. PICK x \in chars : \A y \in chars : ~(y < x)
        BY <3>2, <4>1, Least
      <4>3. \A y \in chars : x <= y
        BY <4>1, <4>2
      <4>4. Min(chars) \in chars /\ \A y \in chars : Min(chars) <= y
        BY <4>2, <4>3 DEF Min
      <4>5. n = Min(chars)
        BY <3>2
      <4>6. \A i \in 1 .. n : i < n => i \notin chars
        <5> HIDE DEF chars, n
        <5>1. n \in chars /\ n \in Nat /\ \A y \in chars : n <= y
          BY <4>1, <4>4, <4>5
        <5> QED
          BY <4>1, <5>1
      <4>7. n \in 1 .. Len(q)
        <5> HIDE DEF n
        <5> QED
          BY <2>2, <4>4, <4>5
      <4> HIDE DEF n
      <4> QED
        BY <2>2, <4>6, <4>7
    <3> QED
      BY <3>1, <3>2
  <2>4. RxTryStart(t, c) = after[n]
    BY <1>2 DEF RxTryStart
  <2>5. rest \in Seq(MessageValue) /\ Len(rest) <= InCap
    <3> HIDE DEF q, n
    <3>1. Len(q) \in Nat /\ n \in Nat /\ n <= Len(q)
      BY <2>2, <2>3
    <3>2. rest \in Seq(MessageValue)
      <4>1. \A i \in (n + 1) .. Len(q) : q[i] \in MessageValue
        BY <2>1, <3>1, ElementOfSeq
      <4> QED
        BY <3>1, <4>1, SubSeqProperties, <2>1
    <3>3. Len(rest) <= Len(q)
      BY <2>1, <3>1, SubSeqProperties
    <3> QED
      BY <2>1, <3>1, <3>2, <3>3, SizeAssumption, LenProperties
  <2>6. n \in Nat /\ \A i \in 1 .. n : q[i] \in MessageValue
    <3> HIDE DEF n, q
    <3>1. n \in Nat /\ \A i \in 1 .. n : i \in 1 .. Len(q)
      BY <2>2, <2>3
    <3> QED
      BY <2>1, <3>1, ElementOfSeq
  <2> HIDE DEF n, q, rest
  <2>7. ChipOk(b) /\ Polls(b, t) /\ IntKept(b, t) /\ ~b.c[c].rxBusy
    <3> DEFINE z == [r EXCEPT !.fromDevice = rest]
    <3>1. IsChannel(z) /\ Keeps(z, r) /\ IpFields(z) = IpFields(r)
      BY <2>1, <2>5, FieldKeeps DEF Sound
    <3>2. Sound(z) /\ (PollOk(r) => PollOk(z)) /\ ~z.rxBusy
      BY <2>1, <3>1 DEF Sound, Keeps
    <3>3. b = On(t, c, z)
      OBVIOUS
    <3> HIDE DEF z, b
    <3>4. /\ ChipOk(On(t, c, z)) /\ On(t, c, z).c[c] = z
          /\ Polls(On(t, c, z), t) /\ IntKept(On(t, c, z), t)
      BY <3>1, <3>2, OnChip
    <3> QED
      BY <3>2, <3>3, <3>4
  <2> HIDE DEF b
  <2>8. after = After(after)
    <3> DEFINE Upto(f, m) == /\ f = [i \in 0 .. m |-> f[i]] /\ f[0] = b
                             /\ \A i \in 1 .. m : f[i] = Taken(f[i - 1], c, q[i])
               S == {m \in 0 .. n : \E f : Upto(f, m)}
    <3>1. 0 \in S
      <4>1. Upto([i \in 0 .. 0 |-> b], 0)
        OBVIOUS
      <4> HIDE DEF Upto
      <4>2. \E f : Upto(f, 0)
        BY <4>1
      <4> QED
        BY <2>6, <4>2
    <3>2. ASSUME NEW m \in 1 .. n, m - 1 \in S PROVE m \in S
      <4>1. PICK f : Upto(f, m - 1)
        BY <3>2
      <4> DEFINE h == [i \in 0 .. m |-> IF i = m THEN Taken(f[m - 1], c, q[m]) ELSE f[i]]
      <4>2. m \in Nat /\ m >= 1
        BY <2>6
      <4>3. h[0] = b
        BY <4>1, <4>2
      <4>4. \A i \in 1 .. m : h[i] = Taken(h[i - 1], c, q[i])
        <5> SUFFICES ASSUME NEW i \in 1 .. m PROVE h[i] = Taken(h[i - 1], c, q[i])
          OBVIOUS
        <5>1. h[i - 1] = f[i - 1]
          BY <4>2
        <5>2. CASE i = m
          BY <4>2, <5>1, <5>2
        <5>3. CASE i # m
          <6>1. i \in 1 .. (m - 1) /\ h[i] = f[i]
            BY <4>2, <5>3
          <6> HIDE DEF h
          <6> QED
            BY <4>1, <5>1, <6>1
        <5> QED
          BY <5>2, <5>3
      <4>5. h = [i \in 0 .. m |-> h[i]]
        OBVIOUS
      <4> HIDE DEF h
      <4>6. Upto(h, m)
        BY <4>3, <4>4, <4>5
      <4> HIDE DEF Upto
      <4>7. \E k : Upto(k, m)
        BY <4>6
      <4> QED
        BY <2>6, <4>7
    <3> HIDE DEF S
    <3>3. 0 .. n \subseteq S
      BY <2>6, <3>1, <3>2, CountUp
    <3>4. n \in S
      BY <2>6, <3>3
    <3>5. PICK f : Upto(f, n)
      BY <3>4 DEF S
    <3>6. f = After(f)
      <4>1. \A i \in 0 .. n : f[i] = IF i = 0 THEN b ELSE Taken(f[i - 1], c, q[i])
        <5> SUFFICES ASSUME NEW i \in 0 .. n, i # 0 PROVE f[i] = Taken(f[i - 1], c, q[i])
          BY <3>5
        <5>1. i \in 1 .. n
          BY <2>6
        <5> QED
          BY <3>5, <5>1
      <4>2. After(f) = [i \in 0 .. n |-> f[i]]
        BY <4>1
      <4> HIDE DEF After
      <4> QED
        BY <3>5, <4>2
    <3> HIDE DEF After
    <3> QED
      BY <3>6
  <2> HIDE DEF after
  <2>9. /\ after[0] = b
        /\ \A i \in 1 .. n : after[i] = Taken(after[i - 1], c, q[i])
    <3>1. /\ After(after)[0] = b
          /\ \A i \in 1 .. n : After(after)[i] = Taken(after[i - 1], c, q[i])
      BY <2>6
    <3> HIDE DEF After
    <3> QED
      BY <2>8, <3>1
  <2>10. 0 .. n \subseteq {i \in 0 .. n : Good(after[i]) /\ (i < n => ~after[i].c[c].rxBusy)}
    <3> DEFINE S == {i \in 0 .. n : Good(after[i]) /\ (i < n => ~after[i].c[c].rxBusy)}
    <3>1. 0 \in S
      BY <2>6, <2>7, <2>9
    <3>2. ASSUME NEW i \in 1 .. n, i - 1 \in S PROVE i \in S
      <4>1. /\ i \in Nat /\ i - 1 \in 0 .. n /\ i - 1 < n
            /\ q[i] \in MessageValue /\ after[i] = Taken(after[i - 1], c, q[i])
        BY <2>6, <2>9
      <4>2. Good(after[i - 1]) /\ ~after[i - 1].c[c].rxBusy
        BY <3>2, <4>1
      <4>3. i < n => q[i].type # "DATA"
        BY <2>3
      <4> DEFINE v == after[i - 1]
                 u == after[i]
      <4>4. /\ ChipOk(u) /\ Polls(u, v) /\ IntKept(u, v)
            /\ q[i].type # "DATA" => ~u.c[c].rxBusy
        BY <4>1, <4>2, TakenOk
      <4> HIDE DEF u, v
      <4>5. Good(u)
        BY <4>2, <4>4 DEF v, Polls, IntKept
      <4> HIDE DEF Good
      <4>6. Good(after[i]) /\ (i < n => ~after[i].c[c].rxBusy)
        BY <4>3, <4>4, <4>5 DEF u
      <4> QED
        BY <4>1, <4>6
    <3> HIDE DEF S
    <3>3. 0 .. n \subseteq S
      BY <2>6, <3>1, <3>2, CountUp
    <3> QED
      BY <3>3 DEF S
  <2>11. Good(after[n])
    <3> HIDE DEF Good
    <3> QED
      BY <2>6, <2>10
  <2> QED
    BY <2>4, <2>11
<1> QED
  BY <1>1, <1>2

(* update_queues, and the accesses of the data register.                   *)
LEMMA QueuesOk ==
    ASSUME NEW t, ChipOk(t), NEW viaCmd \in BOOLEAN
    PROVE  LET Good(u) == ChipOk(u) /\ Polls(u, t) /\ IntKept(u, t)
           IN  Good(UpdateQueues(t)) /\ Good(DataAccess(t, viaCmd))
<1>1. ASSUME NEW v, ChipOk(v)
      PROVE  LET u == UpdateQueues(v) IN ChipOk(u) /\ Polls(u, v) /\ IntKept(u, v)
  <2> DEFINE a == RxTryStart(v, "A")
             u == RxTryStart(a, "B")
  <2>1. ChipOk(a) /\ Polls(a, v) /\ IntKept(a, v)
    BY <1>1, RxTryStartOk DEF Channel
  <2> HIDE DEF a
  <2>2. ChipOk(u) /\ Polls(u, a) /\ IntKept(u, a)
    BY <2>1, RxTryStartOk DEF Channel
  <2> HIDE DEF u
  <2>3. ChipOk(u) /\ Polls(u, v) /\ IntKept(u, v)
    BY <2>1, <2>2 DEF Polls, IntKept
  <2> QED
    BY <2>3 DEF UpdateQueues, u, a
<1> DEFINE a == UpdateQueues(t)
           u == UpdateQueues(a)
<1>2. ChipOk(a) /\ Polls(a, t) /\ IntKept(a, t)
  BY <1>1
<1> HIDE DEF a
<1>3. ChipOk(u) /\ Polls(u, a) /\ IntKept(u, a)
  BY <1>1, <1>2
<1> HIDE DEF u
<1>4. Polls(u, t) /\ IntKept(u, t)
  BY <1>2, <1>3 DEF Polls, IntKept
<1> QED
  BY <1>2, <1>3, <1>4 DEF DataAccess, u, a


-----------------------------------------------------------------------------
(* The actions.                                                            *)

(* What a handler makes of the chip.                                       *)
Handled(u, t) == ChipOk(u) /\ Polls(u, t) /\ IntKept(u, t)

(* One handler after another.                                              *)
LEMMA HandledThrough ==
    ASSUME NEW t, NEW u, NEW w, Handled(u, t), Handled(w, u)
    PROVE  Handled(w, t)
BY DEF Handled, Polls, IntKept

(* The interrupt block's own registers.                                    *)
LEMMA BlockOk ==
    ASSUME NEW t, ChipOk(t), NEW b, b \subseteq 0 .. 5, NEW m \in BOOLEAN, NEW w \in BOOLEAN
    PROVE  LET Block(p) == ChipOk(p) /\ p.c = t.c
           IN  /\ Block([t EXCEPT !.ius = b])
               /\ Block([t EXCEPT !.mie = m, !.softIntack = w])
               /\ Block([t EXCEPT !.ius = b, !.mie = m, !.softIntack = w])
<1> DEFINE x == [t EXCEPT !.ius = b]
           y == [t EXCEPT !.mie = m, !.softIntack = w]
           z == [t EXCEPT !.ius = b, !.mie = m, !.softIntack = w]
<1>1. DOMAIN t = ChipField /\ IsChip(t)
  BY DEF ChipOk, IsChip
<1>2. /\ x = [k \in ChipField |-> x[k]] /\ y = [k \in ChipField |-> y[k]]
      /\ z = [k \in ChipField |-> z[k]]
  BY <1>1
<1>3. x.c = t.c /\ y.c = t.c /\ z.c = t.c
  BY <1>1 DEF ChipField
<1>4. /\ x.ius \subseteq 0 .. 5 /\ x.ip = t.ip /\ x.mie = t.mie /\ x.softIntack = t.softIntack
      /\ x.int = t.int
  BY <1>1 DEF ChipField
<1>5. y.ius = t.ius /\ y.ip = t.ip /\ y.mie = m /\ y.softIntack = w /\ y.int = t.int
  BY <1>1 DEF ChipField
<1>6. z.ius \subseteq 0 .. 5 /\ z.ip = t.ip /\ z.mie = m /\ z.softIntack = w /\ z.int = t.int
  BY <1>1 DEF ChipField
<1> HIDE DEF x, y, z
<1>7. IsChip(x) /\ IsChip(y) /\ IsChip(z)
  BY <1>1, <1>2, <1>3, <1>4, <1>5, <1>6 DEF IsChip
<1> QED
  BY <1>3, <1>7 DEF ChipOk, x, y, z

(* hw_reset_channel and soft_reset_channel                                 *)
LEMMA ResetOk ==
    ASSUME NEW t, ChipOk(t), NEW c \in Channel, NEW hardware \in BOOLEAN
    PROVE  Handled(ResetChannel(t, c, hardware), t)
<1> DEFINE r == t.c[c]
           p == UpdateTimingSources(ClearedChannel(r, hardware))
           o == On(t, c, p)
           b == o.ius \ {Source(c, x) : x \in {"rx", "tx", "ext"}}
           m == o.mie /\ ~hardware
           u == [o EXCEPT !.ius = b, !.mie = m, !.softIntack = FALSE]
<1>1. Sound(p) /\ (PollOk(r) => PollOk(p))
  <2>1. IsChannel(r)
    BY DEF ChipOk, Sound
  <2> HIDE DEF r
  <2> QED
    BY <2>1, ClearedKeeps
<1>2. ResetChannel(t, c, hardware) = UpdateInterrupts(u)
  BY DEF ResetChannel, ClearedChannel
<1> HIDE DEF p
<1>3. ChipOk(o) /\ Polls(o, t)
  BY <1>1, OnChip
<1> HIDE DEF o
<1>4. b \subseteq 0 .. 5 /\ m \in BOOLEAN
  BY <1>3 DEF ChipOk, IsChip
<1> HIDE DEF b, m
<1>5. ChipOk(u) /\ u.c = o.c
  BY <1>3, <1>4, BlockOk
<1> HIDE DEF u
<1>6. Handled(UpdateInterrupts(u), u) /\ UpdateInterrupts(u).int = IntDue(UpdateInterrupts(u))
  BY <1>5, UpdatedOk DEF Handled, IntKept
<1> QED
  BY <1>2, <1>3, <1>5, <1>6 DEF Handled, Polls, IntKept

(* hardware reset: both channels                                           *)
LEMMA HardwareResetOk ==
    ASSUME NEW t, ChipOk(t)
    PROVE  Handled(HardwareReset(t), t)
<1> DEFINE a == ResetChannel(t, "A", TRUE)
<1>1. Handled(a, t)
  BY ResetOk DEF Channel
<1> HIDE DEF a
<1>2. Handled(ResetChannel(a, "B", TRUE), a)
  BY <1>1, ResetOk DEF Channel, Handled
<1>3. Handled(ResetChannel(a, "B", TRUE), t)
  BY <1>1, <1>2, HandledThrough
<1> QED
  BY <1>3 DEF HardwareReset, a

(* The writes of WR0 and WR1, and the reads: each ends in                  *)
(* update_interrupts.                                                      *)
LEMMA CommandOk ==
    ASSUME ChipOk(s), NEW c \in Channel,
           WriteWr0(c) \/ WriteWr1(c) \/ WriteData(c) \/ ReadData(c) \/ ReadCmd
    PROVE  Handled(s', s)
<1>1. \A viaCmd \in BOOLEAN : Handled(DataAccess(s, viaCmd), s)
  BY QueuesOk DEF Handled
<1>2. Handled(UpdateQueues(s), s)
  BY QueuesOk DEF Handled
<1>3. ASSUME NEW u, Handled(u, s), NEW p, Sound(p), PollOk(u.c[c]) => PollOk(p)
      PROVE  Handled(UpdateInterrupts(On(u, c, p)), s)
  <2>1. Handled(UpdateInterrupts(On(u, c, p)), u)
    BY <1>3, OnUpdated DEF Handled
  <2> QED
    BY <1>3, <2>1, HandledThrough
<1>4. ASSUME NEW u, Handled(u, s), NEW w, ChipOk(w), w.c = u.c
      PROVE  Handled(UpdateInterrupts(w), s)
  <2>1. LET v == UpdateInterrupts(w) IN ChipOk(v) /\ Polls(v, w) /\ v.int = IntDue(v)
    BY <1>4, UpdatedOk
  <2> QED
    BY <1>4, <2>1 DEF Handled, Polls, IntKept
<1>5. CASE WriteWr0(c)
  <2> DEFINE u == UpdateQueues(s)
             r == u.c[c]
  <2>1. PICK cmd \in Wr0[c] :
           s' = UpdateInterrupts(
                   CASE cmd = "point" -> u
                     [] cmd = "ext_reset" -> On(u, c, ExtReset(r))
                     [] cmd = "next_rx" -> On(u, c, [r EXCEPT !.rxFirstArmed = TRUE])
                     [] cmd = "reset_tx_ip" -> On(u, c, [r EXCEPT !.txIp = FALSE])
                     [] cmd = "error_reset" -> On(u, c, [r EXCEPT !.overrun = FALSE])
                     [] cmd = "reset_ius" -> [u EXCEPT !.ius = @ \ {Highest(u.ius)}])
    BY <1>5 DEF WriteWr0
  <2>2. cmd \in Wr0Value
    BY AccessAssumption
  <2>3. Handled(u, s) /\ ChipOk(u)
    BY <1>2 DEF Handled
  <2> HIDE DEF u
  <2>4. Sound(r) /\ IsChannel(r)
    BY <2>3 DEF ChipOk, Sound
  <2> HIDE DEF r
  <2>5. /\ Sound(ExtReset(r)) /\ (PollOk(r) => PollOk(ExtReset(r)))
    BY <2>4, ExtResetKeeps DEF Sound
  <2>6. LET Kept(p) == Sound(p) /\ (PollOk(r) => PollOk(p))
        IN  /\ Kept([r EXCEPT !.rxFirstArmed = TRUE]) /\ Kept([r EXCEPT !.txIp = FALSE])
            /\ Kept([r EXCEPT !.overrun = FALSE])
    BY <2>4, FieldKeeps DEF Sound, Keeps
  <2>7. u.ius \ {Highest(u.ius)} \subseteq 0 .. 5
    BY <2>3 DEF ChipOk, IsChip
  <2>8. LET w == [u EXCEPT !.ius = @ \ {Highest(u.ius)}] IN ChipOk(w) /\ w.c = u.c
    BY <2>3, <2>7, BlockOk
  <2>9. CASE cmd = "point"
    <3>1. s' = UpdateInterrupts(u)
      BY <2>1, <2>9
    <3> QED
      BY <1>4, <2>3, <3>1
  <2>10. CASE cmd = "ext_reset"
    <3>1. s' = UpdateInterrupts(On(u, c, ExtReset(r)))
      BY <2>1, <2>10
    <3> QED
      BY <1>3, <2>3, <2>5, <3>1 DEF r
  <2>11. CASE cmd = "next_rx"
    <3>1. s' = UpdateInterrupts(On(u, c, [r EXCEPT !.rxFirstArmed = TRUE]))
      BY <2>1, <2>11
    <3> QED
      BY <1>3, <2>3, <2>6, <3>1 DEF r
  <2>12. CASE cmd = "reset_tx_ip"
    <3>1. s' = UpdateInterrupts(On(u, c, [r EXCEPT !.txIp = FALSE]))
      BY <2>1, <2>12
    <3> QED
      BY <1>3, <2>3, <2>6, <3>1 DEF r
  <2>13. CASE cmd = "error_reset"
    <3>1. s' = UpdateInterrupts(On(u, c, [r EXCEPT !.overrun = FALSE]))
      BY <2>1, <2>13
    <3> QED
      BY <1>3, <2>3, <2>6, <3>1 DEF r
  <2>14. CASE cmd = "reset_ius"
    <3>1. s' = UpdateInterrupts([u EXCEPT !.ius = @ \ {Highest(u.ius)}])
      BY <2>1, <2>14
    <3> QED
      BY <1>4, <2>3, <2>8, <3>1
  <2> QED
    BY <2>2, <2>9, <2>10, <2>11, <2>12, <2>13, <2>14 DEF Wr0Value
<1>6. CASE WriteWr1(c)
  <2> DEFINE u == UpdateQueues(s)
             r == u.c[c]
  <2>1. PICK v \in Wr1[c] :
           s' = UpdateInterrupts(On(u, c,
                   [r EXCEPT !.extIe = v.extIe, !.txIe = v.txIe, !.rxMode = v.rxMode,
                             !.txIp = @ /\ v.txIe]))
    BY <1>6 DEF WriteWr1
  <2> DEFINE z == [r EXCEPT !.extIe = v.extIe, !.txIe = v.txIe, !.rxMode = v.rxMode,
                            !.txIp = @ /\ v.txIe]
  <2>2. v \in Wr1Value
    BY AccessAssumption
  <2>3. Handled(u, s) /\ ChipOk(u)
    BY <1>2 DEF Handled
  <2> HIDE DEF u
  <2>4. Sound(r) /\ IsChannel(r)
    BY <2>3 DEF ChipOk, Sound
  <2> HIDE DEF r
  <2>5. IsChannel(z) /\ Keeps(z, r)
    BY <2>2, <2>4, FieldKeeps
  <2>6. s' = UpdateInterrupts(On(u, c, z))
    BY <2>1
  <2> HIDE DEF z
  <2>7. Sound(z) /\ (PollOk(r) => PollOk(z))
    BY <2>4, <2>5 DEF Sound, Keeps
  <2> QED
    BY <1>3, <2>3, <2>6, <2>7 DEF r
<1>7. CASE WriteData(c)
  <2>1. PICK viaCmd \in BOOLEAN :
           LET u == DataAccess(s, viaCmd)
               r == [u.c[c] EXCEPT !.txIp = FALSE, !.txFull = TRUE]
           IN  s' = IF ~u.c[c].txEnable THEN u ELSE UpdateInterrupts(On(u, c, TxLoadIfWaiting(r)))
    BY <1>7 DEF WriteData
  <2> DEFINE u == DataAccess(s, viaCmd)
             r == u.c[c]
             z == [r EXCEPT !.txIp = FALSE, !.txFull = TRUE]
             p == TxLoadIfWaiting(z)
  <2>2. Handled(u, s) /\ ChipOk(u)
    BY <1>1 DEF Handled
  <2>3. s' = IF ~r.txEnable THEN u ELSE UpdateInterrupts(On(u, c, p))
    BY <2>1
  <2> HIDE DEF u
  <2>4. Sound(r) /\ IsChannel(r)
    BY <2>2 DEF ChipOk, Sound
  <2> HIDE DEF r
  <2>5. IsChannel(z) /\ Keeps(z, r)
    BY <2>4, FieldKeeps
  <2> HIDE DEF z
  <2>6. Sound(z) /\ (PollOk(r) => PollOk(z))
    BY <2>4, <2>5 DEF Sound, Keeps
  <2>7. Sound(p) /\ (PollOk(z) => PollOk(p))
    BY <2>6, TxLoadKeeps DEF Sound, Keeps
  <2> HIDE DEF p
  <2>8. Handled(UpdateInterrupts(On(u, c, p)), s)
    BY <1>3, <2>2, <2>6, <2>7 DEF r
  <2> QED
    BY <2>2, <2>3, <2>8
<1>8. CASE ReadData(c)
  <2>1. PICK viaCmd \in BOOLEAN :
           LET u == DataAccess(s, viaCmd)
               r == u.c[c]
           IN  s' = UpdateInterrupts(
                   IF r.fifo = 0 THEN u
                   ELSE On(u, c, [r EXCEPT !.fifo = @ - 1,
                                           !.rxFirstArmed = @ /\ r.rxMode # "first"]))
    BY <1>8 DEF ReadData
  <2> DEFINE u == DataAccess(s, viaCmd)
             r == u.c[c]
             z == [r EXCEPT !.fifo = @ - 1, !.rxFirstArmed = @ /\ r.rxMode # "first"]
  <2>2. Handled(u, s) /\ ChipOk(u)
    BY <1>1 DEF Handled
  <2>3. s' = UpdateInterrupts(IF r.fifo = 0 THEN u ELSE On(u, c, z))
    BY <2>1
  <2> HIDE DEF u
  <2>4. Sound(r) /\ IsChannel(r)
    BY <2>2 DEF ChipOk, Sound
  <2> HIDE DEF r
  <2>5. CASE r.fifo = 0
    BY <1>4, <2>2, <2>3, <2>5
  <2>6. CASE r.fifo # 0
    <3>1. IsChannel(z) /\ Keeps(z, r)
      BY <2>4, <2>6, FieldKeeps
    <3>2. s' = UpdateInterrupts(On(u, c, z))
      BY <2>3, <2>6
    <3> HIDE DEF z
    <3>3. Sound(z) /\ (PollOk(r) => PollOk(z))
      BY <2>4, <3>1 DEF Sound, Keeps
    <3> QED
      BY <1>3, <2>2, <3>2, <3>3 DEF r
  <2> QED
    BY <2>5, <2>6
<1>9. CASE ReadCmd
  <2> DEFINE u == UpdateQueues(s)
             top == Highest(RecomputeIp(u))
             w == [u EXCEPT !.ius = @ \cup {top}]
  <2>1. \/ s' = UpdateInterrupts(u)
        \/ s' = UpdateInterrupts(w) /\ top > Highest(u.ius)
    BY <1>9 DEF ReadCmd
  <2>2. Handled(u, s) /\ ChipOk(u)
    BY <1>2 DEF Handled
  <2> HIDE DEF u
  <2>3. CASE s' = UpdateInterrupts(u)
    BY <1>4, <2>2, <2>3
  <2>4. CASE s' = UpdateInterrupts(w) /\ top > Highest(u.ius)
    <3>1. u.ius \subseteq 0 .. 5
      BY <2>2 DEF ChipOk, IsChip
    <3>2. top \in 0 .. 5
      <4>1. RecomputeIp(u) \subseteq 0 .. 5
        BY SourceRange
      <4>2. Highest(u.ius) = -1 \/ Highest(u.ius) \in 0 .. 5
        BY <3>1, SourceRange DEF Highest
      <4>3. RecomputeIp(u) # {}
        BY <2>4, <4>2 DEF Highest
      <4> QED
        BY <4>1, <4>3, SourceRange
    <3>3. u.ius \cup {top} \subseteq 0 .. 5
      BY <3>1, <3>2
    <3>4. ChipOk(w) /\ w.c = u.c
      BY <2>2, <3>3, BlockOk
    <3> QED
      BY <1>4, <2>2, <2>4, <3>4
  <2> QED
    BY <2>1, <2>3, <2>4
<1> QED
  BY <1>5, <1>6, <1>7, <1>8, <1>9


(* The other writes.  WR5 and WR9 may leave INT behind.                    *)
LEMMA WriteOk ==
    ASSUME ChipOk(s), NEW c \in Channel
    PROVE  /\ WriteWr3(c) \/ WriteWr11(c) \/ WriteWr14(c) \/ WriteTiming(c) \/ WriteWr15(c)
                 => Handled(s', s)
           /\ WriteWr5(c) \/ WriteWr9 => ChipOk(s') /\ Polls(s', s)
           /\ WriteOther \/ Reset => Handled(s', s)
<1> DEFINE u == UpdateQueues(s)
           r == u.c[c]
<1>1. Handled(u, s) /\ ChipOk(u)
  BY QueuesOk DEF Handled
<1>2. Sound(r) /\ IsChannel(r)
  BY <1>1 DEF ChipOk, Sound
<1>3. ASSUME NEW p, Sound(p), PollOk(r) => PollOk(p)
      PROVE  /\ ChipOk(On(u, c, p)) /\ Polls(On(u, c, p), s)
             /\ IpFields(p) = IpFields(r) => Handled(On(u, c, p), s)
  <2> HIDE DEF u
  <2>1. /\ ChipOk(On(u, c, p)) /\ Polls(On(u, c, p), u)
        /\ IpFields(p) = IpFields(r) => IntKept(On(u, c, p), u)
    BY <1>1, <1>3, OnChip
  <2>2. IpFields(p) = IpFields(r) => Handled(On(u, c, p), s)
    BY <1>1, <2>1, HandledThrough DEF Handled
  <2> QED
    BY <1>1, <2>1, <2>2 DEF Handled, Polls
<1>4. ASSUME WriteWr3(c) PROVE Handled(s', s)
  <2>1. PICK v \in Wr3[c] :
           s' = On(u, c, PushLineParams([r EXCEPT !.rxEnable = v.rxEnable, !.auto = v.auto]))
    BY <1>4 DEF WriteWr3
  <2> DEFINE z == [r EXCEPT !.rxEnable = v.rxEnable, !.auto = v.auto]
             p == PushLineParams(z)
  <2>2. v \in Wr3Value
    BY AccessAssumption
  <2>3. s' = On(u, c, p)
    BY <2>1
  <2>4. IsChannel(z) /\ Keeps(z, r) /\ IpFields(z) = IpFields(r)
    <3> HIDE DEF r
    <3> QED
      BY <1>2, <2>2, FieldKeeps
  <2> HIDE DEF z, u, r
  <2>5. IsChannel(p) /\ Keeps(p, z) /\ IpFields(p) = IpFields(z)
    BY <2>4, TellKeeps
  <2> HIDE DEF p
  <2>6. Sound(p) /\ (PollOk(r) => PollOk(p)) /\ IpFields(p) = IpFields(r)
    BY <1>2, <2>4, <2>5 DEF Sound, Keeps
  <2> QED
    BY <1>3, <2>3, <2>6
<1>5. ASSUME NEW q,
             \/ \E v \in Wr11Value : q = [r EXCEPT !.txClock = v.txClock, !.rxClock = v.rxClock]
             \/ \E v \in Wr14Value : q = [r EXCEPT !.brg = v.brg, !.loopback = v.loopback]
             \/ q = r,
             s' = On(u, c, UpdateTimingSources(q))
      PROVE  Handled(s', s)
  <2> DEFINE p == UpdateTimingSources(q)
  <2>1. Sound(p) /\ (PollOk(r) => PollOk(p)) /\ IpFields(p) = IpFields(r)
    <3> HIDE DEF r
    <3> QED
      BY <1>2, <1>5, ClockWriteKeeps
  <2>2. s' = On(u, c, p)
    BY <1>5
  <2> HIDE DEF p, u, r
  <2> QED
    BY <1>3, <2>1, <2>2
<1>6. ASSUME WriteWr11(c) PROVE Handled(s', s)
  <2>1. PICK v \in Wr11[c] :
           s' = On(u, c, UpdateTimingSources(
                            [r EXCEPT !.txClock = v.txClock, !.rxClock = v.rxClock]))
    BY <1>6 DEF WriteWr11
  <2>2. v \in Wr11Value
    BY AccessAssumption
  <2> HIDE DEF u, r
  <2> QED
    BY <1>5, <2>1, <2>2
<1>7. ASSUME WriteWr14(c) PROVE Handled(s', s)
  <2>1. PICK v \in Wr14[c] :
           s' = On(u, c, UpdateTimingSources([r EXCEPT !.brg = v.brg, !.loopback = v.loopback]))
    BY <1>7 DEF WriteWr14
  <2>2. v \in Wr14Value
    BY AccessAssumption
  <2> HIDE DEF u, r
  <2> QED
    BY <1>5, <2>1, <2>2
<1>8. ASSUME WriteTiming(c) PROVE Handled(s', s)
  <2>1. s' = On(u, c, UpdateTimingSources(r))
    BY <1>8 DEF WriteTiming
  <2> HIDE DEF u, r
  <2> QED
    BY <1>5, <2>1
<1>9. ASSUME WriteWr15(c) PROVE Handled(s', s)
  <2>1. PICK m \in Wr15[c] :
           LET live == ExtLive(r)
           IN  s' = On(u, c, ZcArm([r EXCEPT !.mask = m, !.last = live, !.seen = live,
                                             !.fresh = TRUE]))
    BY <1>9 DEF WriteWr15
  <2> DEFINE live == ExtLive(r)
             p == ZcArm([r EXCEPT !.mask = m, !.last = live, !.seen = live, !.fresh = TRUE])
  <2>2. m \in SUBSET ExtSource
    BY AccessAssumption
  <2>3. s' = On(u, c, p)
    BY <2>1
  <2>4. Sound(p) /\ (PollOk(r) => PollOk(p)) /\ IpFields(p) = IpFields(r)
    <3> HIDE DEF r
    <3> QED
      BY <1>2, <2>2, MaskWriteKeeps
  <2> HIDE DEF p, u, r
  <2> QED
    BY <1>3, <2>3, <2>4
<1>10. ASSUME WriteWr5(c) PROVE ChipOk(s') /\ Polls(s', s)
  <2>1. PICK v \in Wr5[c] :
           LET q == [r EXCEPT !.txEnable = v.txEnable, !.ctl = v.ctl, !.sendBreak = v.sendBreak]
               l == LinesOutUpdate(PushLineParams(q), FALSE)
           IN  s' = On(u, c, IF l.txEnable THEN TxLoadIfWaiting(l) ELSE l)
    BY <1>10 DEF WriteWr5
  <2> DEFINE q == [r EXCEPT !.txEnable = v.txEnable, !.ctl = v.ctl, !.sendBreak = v.sendBreak]
             k == PushLineParams(q)
             l == LinesOutUpdate(k, FALSE)
             p == IF l.txEnable THEN TxLoadIfWaiting(l) ELSE l
  <2>2. v \in Wr5Value
    BY AccessAssumption
  <2>3. s' = On(u, c, p)
    BY <2>1
  <2>4. IsChannel(q) /\ Keeps(q, r)
    <3> HIDE DEF r
    <3> QED
      BY <1>2, <2>2, FieldKeeps
  <2> HIDE DEF q, u, r
  <2>5. IsChannel(k) /\ Keeps(k, q)
    BY <2>4, TellKeeps
  <2> HIDE DEF k
  <2>6. IsChannel(l) /\ Keeps(l, k)
    BY <2>5, TellKeeps
  <2> HIDE DEF l
  <2>7. Sound(l) /\ (PollOk(r) => PollOk(l))
    BY <1>2, <2>4, <2>5, <2>6 DEF Sound, Keeps
  <2>8. Sound(p) /\ (PollOk(r) => PollOk(p))
    BY <2>7, TxLoadKeeps DEF Sound, Keeps
  <2> HIDE DEF p
  <2> QED
    BY <1>3, <2>3, <2>8
<1>11. ASSUME WriteWr9 PROVE ChipOk(s') /\ Polls(s', s)
  <2>1. PICK v \in Wr9 :
           LET w == [u EXCEPT !.mie = v.mie, !.softIntack = v.softIntack]
           IN  s' = CASE v.reset = "none" -> w
                      [] v.reset \in Channel -> ResetChannel(w, v.reset, FALSE)
                      [] v.reset = "hardware" -> HardwareReset(w)
    BY <1>11 DEF WriteWr9
  <2> DEFINE w == [u EXCEPT !.mie = v.mie, !.softIntack = v.softIntack]
  <2>2. v.mie \in BOOLEAN /\ v.softIntack \in BOOLEAN /\ v.reset \in {"none", "A", "B", "hardware"}
    BY AccessAssumption DEF Wr9Value
  <2>3. s' = CASE v.reset = "none" -> w
               [] v.reset \in Channel -> ResetChannel(w, v.reset, FALSE)
               [] v.reset = "hardware" -> HardwareReset(w)
    BY <2>1
  <2> HIDE DEF u
  <2>4. ChipOk(w) /\ w.c = u.c
    BY <1>1, <2>2, BlockOk
  <2> HIDE DEF w
  <2>5. Polls(w, s)
    BY <1>1, <2>4 DEF Handled, Polls
  <2>6. CASE v.reset = "none"
    <3>1. s' = w
      BY <2>3, <2>6 DEF Channel
    <3> QED
      BY <2>4, <2>5, <3>1
  <2>7. CASE v.reset \in Channel
    <3>1. s' = ResetChannel(w, v.reset, FALSE)
      BY <2>3, <2>7 DEF Channel
    <3>2. Handled(s', w)
      BY <2>4, <2>7, <3>1, ResetOk
    <3> QED
      BY <2>5, <3>2 DEF Handled, Polls
  <2>8. CASE v.reset = "hardware"
    <3>1. s' = HardwareReset(w)
      BY <2>3, <2>8 DEF Channel
    <3>2. Handled(s', w)
      BY <2>4, <3>1, HardwareResetOk
    <3> QED
      BY <2>5, <3>2 DEF Handled, Polls
  <2> QED
    BY <2>2, <2>6, <2>7, <2>8 DEF Channel
<1>12. ASSUME WriteOther PROVE Handled(s', s)
  BY <1>1, <1>12 DEF WriteOther
<1>13. ASSUME Reset PROVE Handled(s', s)
  BY <1>13, HardwareResetOk DEF Reset
<1> QED
  BY <1>4, <1>6, <1>7, <1>8, <1>9, <1>10, <1>11, <1>12, <1>13

(* The events of the timer.                                                *)
LEMMA TimerOk ==
    ASSUME ChipOk(s), NEW c \in Channel, Timer(c)
    PROVE  Handled(s', s)
<1> DEFINE r == s.c[c]
<1>1. Sound(r) /\ IsChannel(r)
  BY DEF ChipOk, Sound
<1>2. CASE TxComplete(c)
  <2> DEFINE q == [Fired(c, "tx") EXCEPT !.txBusy = FALSE]
             o == IF ~q.loopback THEN Sent(q) ELSE IF q.rxEnable THEN RxPush(q) ELSE q
             p == TxLoadIfWaiting(o)
  <2>1. "tx" \in r.timers /\ s' = UpdateInterrupts(On(s, c, p))
    BY <1>2 DEF TxComplete, Due
  <2>2. Sound(q) /\ (PollOk(r) => PollOk(q))
    <3>1. q = [[r EXCEPT !.timers = @ \ {"tx"}] EXCEPT !.txBusy = FALSE]
      BY DEF Fired
    <3> HIDE DEF r, q
    <3> QED
      BY <1>1, <2>1, <3>1, FiredKeeps DEF Sound
  <2> HIDE DEF q
  <2>3. Sound(o) /\ (PollOk(q) => PollOk(o))
    BY <2>2, TellKeeps, RxPushKeeps DEF Sound, Keeps
  <2> HIDE DEF o
  <2>4. Sound(p) /\ (PollOk(o) => PollOk(p))
    BY <2>3, TxLoadKeeps DEF Sound, Keeps
  <2> HIDE DEF p
  <2>5. PollOk(s.c[c]) => PollOk(p)
    BY <2>2, <2>3, <2>4
  <2> QED
    BY <2>1, <2>4, <2>5, OnUpdated DEF Handled
<1>3. CASE RxComplete(c)
  <2> DEFINE q == [Fired(c, "rx") EXCEPT !.rxBusy = FALSE]
             p == RxPush(q)
             w == UpdateInterrupts(On(s, c, p))
  <2>1. "rx" \in r.timers /\ s' = RxTryStart(w, c)
    BY <1>3 DEF RxComplete, Due
  <2>2. Sound(q) /\ (PollOk(r) => PollOk(q))
    <3>1. q = [[r EXCEPT !.timers = @ \ {"rx"}] EXCEPT !.rxBusy = FALSE]
      BY DEF Fired
    <3> HIDE DEF r, q
    <3> QED
      BY <1>1, <2>1, <3>1, FiredKeeps DEF Sound
  <2> HIDE DEF q
  <2>3. Sound(p) /\ (PollOk(q) => PollOk(p))
    BY <2>2, RxPushKeeps DEF Sound, Keeps
  <2> HIDE DEF p
  <2>4. Handled(w, s)
    BY <2>2, <2>3, OnUpdated DEF Handled
  <2> HIDE DEF w
  <2>5. Handled(RxTryStart(w, c), w)
    BY <2>4, RxTryStartOk DEF Handled
  <2> QED
    BY <2>1, <2>4, <2>5, HandledThrough
<1>4. CASE RxPoll(c)
  <2> DEFINE q == Fired(c, "poll")
             o == On(s, c, q)
             u == RxTryStart(o, c)
             p == RxPollArm(u.c[c])
  <2>1. s' = On(u, c, p)
    BY <1>4 DEF RxPoll
  <2>2. Sound(q) /\ IpFields(q) = IpFields(r)
    <3>1. q = [r EXCEPT !.timers = @ \ {"poll"}]
      BY DEF Fired
    <3> HIDE DEF r, q
    <3> QED
      BY <1>1, <3>1, FiredKeeps DEF Sound
  <2> HIDE DEF q
  <2>3. /\ ChipOk(o) /\ IntKept(o, s)
        /\ \A k \in Channel : k # c => o.c[k] = s.c[k]
    BY <2>2, OnChip
  <2> HIDE DEF o
  <2>4. ChipOk(u) /\ Polls(u, o) /\ IntKept(u, o)
    BY <2>3, RxTryStartOk
  <2> HIDE DEF u
  <2>5. Sound(u.c[c]) /\ IsChannel(u.c[c])
    BY <2>4 DEF ChipOk, Sound
  <2>6. Sound(p) /\ PollOk(p) /\ IpFields(p) = IpFields(u.c[c])
    BY <2>5, ArmKeeps DEF Sound, Keeps
  <2> HIDE DEF p
  <2>7. /\ ChipOk(s') /\ IntKept(s', u) /\ s'.c[c] = p
        /\ \A k \in Channel : k # c => s'.c[k] = u.c[k]
    BY <2>1, <2>4, <2>6, OnChip
  <2>8. Polls(s', s)
    BY <2>3, <2>4, <2>6, <2>7 DEF Polls
  <2>9. IntKept(s', s)
    BY <2>3, <2>4, <2>7 DEF IntKept
  <2> QED
    BY <2>7, <2>8, <2>9 DEF Handled
<1>5. CASE ZcTick(c)
  <2> DEFINE q == Fired(c, "zc")
             live == ExtLive(q) \cup {"zc"}
             n == ExtUpdate(q, live)
             u == UpdateInterrupts(On(s, c, n))
             z == [n EXCEPT !.last = IF n.latched THEN @ ELSE ExtLive(n)]
  <2>1. s' = On(u, c, ZcArm(z))
    BY <1>5 DEF ZcTick
  <2>2. Sound(q) /\ (PollOk(r) => PollOk(q))
    <3>1. q = [r EXCEPT !.timers = @ \ {"zc"}]
      BY DEF Fired
    <3> HIDE DEF r, q
    <3> QED
      BY <1>1, <3>1, FiredKeeps DEF Sound
  <2> HIDE DEF q
  <2>3. live \subseteq ExtSource /\ live \cap Line = ExtLive(q)
    BY DEF ExtLive, ExtSource, Line
  <2> HIDE DEF live
  <2>4. IsChannel(n) /\ TxOk(n) /\ RxOk(n) /\ SeenOk(n) /\ (PollOk(q) => PollOk(n))
    BY <2>2, <2>3, ExtUpdateKeeps DEF Sound
  <2> HIDE DEF n
  <2>5. /\ Sound(z) /\ (PollOk(n) => PollOk(z)) /\ IpFields(z) = IpFields(n)
    <3>1. DOMAIN n = Field /\ IsRecord(n) /\ Typed(n) /\ n.last \subseteq ExtSource
      BY <2>4, ChannelFields DEF IsChannel, Typed, ExtFields
    <3> DEFINE v == IF n.latched THEN n.last ELSE ExtLive(n)
    <3>2. v \subseteq ExtSource /\ (~n.latched => v = ExtLive(n)) /\ ExtLive(n) \subseteq Line
      BY <3>1 DEF ExtLive, ExtSource
    <3>3. z = [n EXCEPT !.last = v]
      OBVIOUS
    <3> HIDE DEF v, z
    <3>4. IsRecord(z)
      BY <3>1, <3>3 DEF IsRecord
    <3>5. Typed(z)
      BY <3>1, <3>2, <3>3 DEF Typed, RegisterFields, CharFields, ExtFields, DeviceFields, Field
    <3>6. TxOk(z) /\ RxOk(z) /\ SeenOk(z) /\ (PollOk(n) => PollOk(z)) /\ IpFields(z) = IpFields(n)
      BY <2>4, <3>1, <3>3 DEF TxOk, RxOk, SeenOk, PollOk, Clocked, ExtUnseen, ExtLive, Line, Field,
                              IpFields
    <3>7. /\ z.last = v /\ z.latched = n.latched /\ z.fresh = n.fresh
          /\ z.mask = n.mask /\ z.seen = n.seen
      BY <3>1, <3>3 DEF Field
    <3>8. LastOk(z)
      BY <2>4, <3>2, <3>7 DEF LastOk, SeenOk, ExtUnseen
    <3> QED
      BY <3>4, <3>5, <3>6, <3>8 DEF Sound, IsChannel
  <2> HIDE DEF z
  <2> DEFINE o == On(s, c, n)
             p == ZcArm(z)
  <2>6. Sound(p) /\ (PollOk(z) => PollOk(p)) /\ IpFields(p) = IpFields(n)
    BY <2>5, ArmKeeps DEF Sound, Keeps
  <2> HIDE DEF p
  <2>7. IsChip(o) /\ o.c[c] = n /\ \A k \in Channel : k # c => o.c[k] = s.c[k]
    BY OnFields DEF ChipOk
  <2>8. IsChip(u) /\ u.c = o.c /\ u.int = IntDue(u)
    <3> HIDE DEF o
    <3> QED
      BY <2>7, UpdateChip DEF o
  <2> HIDE DEF o, u
  <2>9. /\ IsChip(s') /\ s'.c[c] = p /\ IntKept(s', u)
        /\ \A k \in Channel : k # c => s'.c[k] = u.c[k]
    <3>1. s' = On(u, c, p) /\ u.c[c] = n
      BY <2>1, <2>7, <2>8 DEF p
    <3> DEFINE w == On(u, c, p)
    <3>2. /\ IsChip(w) /\ w.c[c] = p
          /\ \A k \in Channel : k # c => w.c[k] = u.c[k]
          /\ IpFields(p) = IpFields(u.c[c]) => IntKept(w, u)
      BY <2>8, OnFields
    <3>3. s' = w
      BY <3>1
    <3> HIDE DEF w
    <3> QED
      BY <2>6, <3>1, <3>2, <3>3
  <2>10. ChipOk(s')
    BY <2>6, <2>7, <2>8, <2>9 DEF ChipOk
  <2>11. Polls(s', s)
    BY <2>2, <2>4, <2>5, <2>6, <2>7, <2>8, <2>9 DEF Polls
  <2>12. IntKept(s', s)
    BY <2>8, <2>9 DEF IntKept
  <2> QED
    BY <2>10, <2>11, <2>12 DEF Handled
<1> QED
  BY <1>2, <1>3, <1>4, <1>5 DEF Timer


(* A device is attached or taken away, sends, and takes what it was sent.  *)
LEMMA DeviceOk ==
    ASSUME ChipOk(s), NEW c \in Channel, SetDevice(c) \/ DeviceSend(c) \/ DeviceGet(c)
    PROVE  Handled(s', s)
<1> DEFINE r == s.c[c]
<1>1. Sound(r) /\ IsChannel(r)
  BY DEF ChipOk, Sound
<1>2. CASE SetDevice(c)
  <2>1. PICK device \in BOOLEAN :
           LET e == [r EXCEPT !.attached = device, !.lineTold = "none", !.toDevice = 0,
                              !.fromDevice = << >>]
               t == LinesOutUpdate(PushLineParams(e), TRUE)
               l == [t EXCEPT !.dcd = TRUE, !.cts = TRUE, !.brk = FALSE]
               u == UpdateInterrupts(On(s, c, ExtUpdate(l, ExtLive(l))))
           IN  s' = On(u, c, RxPollArm(u.c[c]))
    BY <1>2 DEF SetDevice
  <2> DEFINE e == [r EXCEPT !.attached = device, !.lineTold = "none", !.toDevice = 0,
                            !.fromDevice = << >>]
             t == LinesOutUpdate(PushLineParams(e), TRUE)
             l == [t EXCEPT !.dcd = TRUE, !.cts = TRUE, !.brk = FALSE]
             n == ExtUpdate(l, ExtLive(l))
             o == On(s, c, n)
             u == UpdateInterrupts(o)
             p == RxPollArm(u.c[c])
  <2>2. s' = On(u, c, p)
    BY <2>1
  <2>3. Sound(n)
    <3> HIDE DEF r
    <3> QED
      BY <1>1, DeviceKeeps
  <2> HIDE DEF n
  <2>4. ChipOk(o) /\ \A k \in Channel : k # c => o.c[k] = s.c[k]
    BY <2>3, OnChip
  <2> HIDE DEF o
  <2>5. IsChip(u) /\ u.c = o.c /\ u.int = IntDue(u)
    BY <2>4, UpdateChip DEF ChipOk
  <2> HIDE DEF u
  <2>6. ChipOk(u) /\ Sound(u.c[c]) /\ IsChannel(u.c[c])
    BY <2>4, <2>5 DEF ChipOk, Sound
  <2>7. Sound(p) /\ PollOk(p) /\ IpFields(p) = IpFields(u.c[c])
    BY <2>6, ArmKeeps DEF Sound, Keeps
  <2> HIDE DEF p
  <2>8. /\ ChipOk(s') /\ s'.c[c] = p /\ IntKept(s', u)
        /\ \A k \in Channel : k # c => s'.c[k] = u.c[k]
    BY <2>2, <2>6, <2>7, OnChip
  <2>9. Polls(s', s) /\ IntKept(s', s)
    BY <2>4, <2>5, <2>7, <2>8 DEF Polls, IntKept
  <2> QED
    BY <2>8, <2>9 DEF Handled
<1>3. ASSUME NEW p, IsChannel(p), Keeps(p, r), IpFields(p) = IpFields(r), s' = On(s, c, p)
      PROVE  Handled(s', s)
  <2>1. Sound(p) /\ (PollOk(r) => PollOk(p))
    BY <1>1, <1>3 DEF Sound, Keeps
  <2> QED
    BY <1>3, <2>1, OnChip DEF Handled
<1>4. CASE DeviceSend(c)
  <2>1. PICK m \in Message[c] : s' = [s EXCEPT !.c[c].fromDevice = Append(@, m)]
    BY <1>4 DEF DeviceSend
  <2> DEFINE q == Append(r.fromDevice, m)
             p == [r EXCEPT !.fromDevice = q]
  <2>2. m \in MessageValue /\ r.fromDevice \in Seq(MessageValue) /\ Len(r.fromDevice) < InCap
    BY <1>1, <1>4, AccessAssumption DEF DeviceSend, IsChannel, Typed, DeviceFields
  <2>3. q \in Seq(MessageValue) /\ Len(q) <= InCap
    <3>1. q \in Seq(MessageValue) /\ Len(q) = Len(r.fromDevice) + 1 /\ Len(r.fromDevice) \in Nat
      BY <2>2, AppendProperties, LenProperties
    <3> QED
      BY <2>2, <3>1, SizeAssumption
  <2>4. s' = On(s, c, p)
    BY <2>1 DEF On
  <2> HIDE DEF q, r
  <2>5. IsChannel(p) /\ Keeps(p, r) /\ IpFields(p) = IpFields(r)
    BY <1>1, <2>3, FieldKeeps
  <2> HIDE DEF p
  <2> QED
    BY <1>3, <2>4, <2>5
<1>5. CASE DeviceGet(c)
  <2>1. s' = [s EXCEPT !.c[c].toDevice = @ - 1] /\ r.toDevice > 0
    BY <1>5 DEF DeviceGet
  <2> DEFINE k == r.toDevice - 1
             p == [r EXCEPT !.toDevice = k]
  <2>2. k \in 0 .. OutCap
    BY <1>1, <2>1, SizeAssumption DEF IsChannel, Typed, DeviceFields
  <2>3. s' = On(s, c, p)
    BY <2>1 DEF On
  <2> HIDE DEF k, r
  <2>4. IsChannel(p) /\ Keeps(p, r) /\ IpFields(p) = IpFields(r)
    BY <1>1, <2>2, FieldKeeps
  <2> HIDE DEF p
  <2> QED
    BY <1>3, <2>3, <2>4
<1> QED
  BY <1>2, <1>4, <1>5

(* Every step of the guest, the timer and the devices.                     *)
LEMMA StepOk ==
    ASSUME ChipOk(s), Next
    PROVE  /\ ChipOk(s') /\ Polls(s', s)
           /\ IntKept(s', s) \/ WriteWr9 \/ \E c \in Channel : WriteWr5(c)
<1>1. CASE Guest
  <2>1. ASSUME NEW c \in Channel,
               \/ WriteWr0(c) \/ WriteWr1(c) \/ WriteWr3(c) \/ WriteWr5(c)
               \/ WriteWr11(c) \/ WriteWr14(c) \/ WriteTiming(c) \/ WriteWr15(c)
               \/ WriteData(c) \/ ReadData(c)
        PROVE  ChipOk(s') /\ Polls(s', s) /\ (IntKept(s', s) \/ WriteWr5(c))
    BY <2>1, CommandOk, WriteOk DEF Handled
  <2>2. CASE WriteWr9 \/ WriteOther \/ ReadCmd \/ Reset
    BY <2>2, CommandOk, WriteOk DEF Handled, Channel
  <2> QED
    BY <1>1, <2>1, <2>2 DEF Guest
<1>2. ASSUME NEW c \in Channel, Timer(c) \/ DeviceSend(c) \/ DeviceGet(c)
      PROVE  Handled(s', s)
  BY <1>2, TimerOk, DeviceOk
<1>3. ASSUME NEW c \in Port, SetDevice(c) PROVE Handled(s', s)
  BY <1>3, DeviceOk, AccessAssumption
<1> QED
  BY <1>1, <1>2, <1>3 DEF Next, Handled

-----------------------------------------------------------------------------
(* The inductive invariant: every channel is sound, its poll included, and *)
(* the guest keeps to its accesses.                                        *)

ControllerInv ==
    /\ ChipOk(s)
    /\ \A c \in Channel : PollOk(s.c[c])
    /\ accesses \in 0 .. MaxAccess

(* The chip as the driver has set it up.                                   *)
LEMMA ControllerInit == Init => ControllerInv
<1> SUFFICES ASSUME Init PROVE ControllerInv
  OBVIOUS
<1>1. PICK a \in SetUp["A"], b \in SetUp["B"] :
         s = [c |-> [c \in Channel |-> ReadyChannel(c, IF c = "A" THEN a ELSE b)], mie |-> TRUE,
              softIntack |-> TRUE, ip |-> {}, ius |-> {}, int |-> FALSE]
  BY DEF Init
<1>2. a \in SetUpValue /\ b \in SetUpValue
  BY AccessAssumption DEF Channel
<1>3. ASSUME NEW c \in Channel PROVE Sound(s.c[c]) /\ PollOk(s.c[c])
  <2>1. s.c[c] = ReadyChannel(c, IF c = "A" THEN a ELSE b)
    BY <1>1
  <2> QED
    BY <1>2, <2>1, ReadySound
<1>4. IsChip(s)
  BY <1>1 DEF IsChip, ChipField
<1>5. accesses \in 0 .. MaxAccess
  BY SizeAssumption DEF Init
<1> QED
  BY <1>3, <1>4, <1>5 DEF ControllerInv, ChipOk

(* Every step keeps it.                                                    *)
LEMMA ControllerStep == ControllerInv /\ [Next]_vars => ControllerInv'
<1> SUFFICES ASSUME ControllerInv, [Next]_vars PROVE ControllerInv'
  OBVIOUS
<1>1. CASE UNCHANGED vars
  BY <1>1 DEF vars, ControllerInv
<1>2. CASE Next
  <2>1. ChipOk(s') /\ Polls(s', s)
    BY <1>2, StepOk DEF ControllerInv
  <2>2. \A c \in Channel : PollOk(s'.c[c])
    BY <2>1 DEF ControllerInv, Polls
  <2>3. accesses' = accesses \/ Access
    BY <1>2 DEF Next, Guest, Timer, TxComplete, RxComplete, RxPoll, ZcTick, Due, DeviceSend,
                DeviceGet, SetDevice, WriteWr0, WriteWr1, WriteWr3, WriteWr5, WriteWr9, WriteWr11,
                WriteWr14, WriteTiming, WriteWr15, WriteData, WriteOther, ReadCmd, ReadData, Reset
  <2>4. accesses' \in 0 .. MaxAccess
    BY <2>3, SizeAssumption DEF ControllerInv, Access
  <2> QED
    BY <2>1, <2>2, <2>4 DEF ControllerInv
<1> QED
  BY <1>1, <1>2

(* What the invariant says of the properties.                              *)
LEMMA ControllerImplies ==
    ControllerInv => TypeOK /\ NoStuckChar /\ ExtNotLost /\ NeverDeaf
<1> SUFFICES ASSUME ControllerInv PROVE TypeOK /\ NoStuckChar /\ ExtNotLost /\ NeverDeaf
  OBVIOUS
<1>1. \A c \in Channel : Sound(s.c[c]) /\ IsChannel(s.c[c]) /\ PollOk(s.c[c])
  BY DEF ControllerInv, ChipOk, Sound
<1>2. TypeOK
  <2>1. DOMAIN s = {"c", "mie", "softIntack", "ip", "ius", "int"}
    BY DEF ControllerInv, ChipOk, IsChip, ChipField
  <2>2. s.c \in [Channel -> ChannelState]
    <3>1. s.c = [k \in Channel |-> s.c[k]]
      BY DEF ControllerInv, ChipOk, IsChip
    <3>2. \A k \in Channel : s.c[k] \in ChannelState
      BY <1>1, ChannelFields
    <3> QED
      BY <3>1, <3>2
  <2>3. \A c \in Channel : Len(s.c[c].fromDevice) <= InCap
    BY <1>1 DEF IsChannel, Typed, DeviceFields
  <2>4. /\ {s.mie, s.softIntack, s.int} \subseteq BOOLEAN
        /\ s.ip \subseteq 0 .. 5 /\ s.ius \subseteq 0 .. 5
        /\ accesses \in 0 .. MaxAccess
    BY DEF ControllerInv, ChipOk, IsChip
  <2> QED
    BY <2>1, <2>2, <2>3, <2>4 DEF TypeOK
<1>3. NoStuckChar
  BY <1>1 DEF NoStuckChar, Sound, TxOk, RxOk
<1>4. ExtNotLost
  BY <1>1 DEF ExtNotLost, Sound, SeenOk
<1>5. NeverDeaf
  BY <1>1 DEF NeverDeaf, PollOk
<1> QED
  BY <1>2, <1>3, <1>4, <1>5

(* ControllerInv holds at all times.                                       *)
LEMMA ControllerInvariant == Spec => []ControllerInv
<1> QED
  BY ControllerInit, ControllerStep, PTL DEF Spec

(* The registers, the FIFO, the rings and the interrupt block of Z85C30    *)
(* stay within their types and limits.                                     *)
THEOREM ControllerType == Spec => []TypeOK
<1> QED
  BY ControllerInvariant, ControllerImplies, PTL

(* A character in a shift register has its completion event, or no clock:  *)
(* schedule_tx_complete, update_timing_sources and the resets never strand *)
(* or repeat one.                                                          *)
THEOREM NoCharacterStranded == Spec => []NoStuckChar
<1> QED
  BY ControllerInvariant, ControllerImplies, PTL

(* ext_update and Reset Ext/Status: a change of an enabled line is seen by *)
(* the guest or held in the latch.                                         *)
THEOREM LineChangeNotLost == Spec => []ExtNotLost
<1> QED
  BY ControllerInvariant, ControllerImplies, PTL

(* rx_poll is scheduled whenever a device is attached.                     *)
THEOREM ReceiverNeverDeaf == Spec => []NeverDeaf
<1> QED
  BY ControllerInvariant, ControllerImplies, PTL

(* No step but a write of WR5 or WR9 takes INT away from what the pending  *)
(* and in-service sources call for.                                        *)
THEOREM InterruptFollows == Spec => IntFollows
<1>1. ControllerInv /\ [Next]_vars =>
         [s.int = IntDue(s) =>
             s'.int = IntDue(s') \/ WriteWr9 \/ \E c \in Channel : WriteWr5(c)]_vars
  BY StepOk DEF ControllerInv, IntKept
<1> QED
  BY <1>1, ControllerInvariant, PTL DEF Spec, IntFollows
=============================================================================
