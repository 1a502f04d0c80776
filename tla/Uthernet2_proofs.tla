------------------------- MODULE Uthernet2_proofs --------------------------
(***************************************************************************)
(* Theorems about the Uthernet II card, for any number of sockets, rings   *)
(* and buffers of any size and any sequence of commands.                   *)
(*                                                                         *)
(* CardInv is the inductive invariant.  Its parts:                         *)
(*   Types       the types of all variables, the messages in the rings     *)
(*               included, and the sizes of the rings;                     *)
(*   GenOrder    GenerationOrder, a snapshot is no newer than the chip,    *)
(*               and a restore under way has generations left for the      *)
(*               sockets it has yet to do;                                 *)
(*   HostState   what the worker's descriptor, status and program counter  *)
(*               say of each other: bytes are in its hands only between    *)
(*               ::recv and the post, on an established connection;        *)
(*   ProtocolOk  per socket, what can be in the rings and in the worker's  *)
(*               hands for the current generation, given what the guest    *)
(*               opened the socket for;                                    *)
(*   Fits        per socket, buffer, bytes on their way and credit fit the *)
(*               receive buffer, also between the load of the credit and   *)
(*               ::recv, so rx_pending stays empty;                        *)
(*   WholeCells  headers are followed by their payload;                    *)
(*   SavedFits   a snapshot's buffers fit and are whole.                   *)
(* GenerationOrder is not inductive without the types of the messages and  *)
(* the room left for a restore; CreditFitsBuffer is not without            *)
(* ProtocolOk: bytes for a socket that has meanwhile become a datagram     *)
(* socket would not be accounted for.                                      *)
(***************************************************************************)
EXTENDS Uthernet2, FoldLemmas, SequenceTheorems

Message == DefinesGen \cup RawTx \cup {"Connect", "SendTcp", "SendUdp", "Shutdown"}
Requested == [msg : Message, sock : Sock, gen : Nat, data : Seq(Nat)]

Cell == Int \X Int
Byte == Nat \X (Nat \ {0})
Cause == {"None", "Connected", "RemoteClosed", "Reset", "Failed"}
Happened ==
    [evt : {"RxTcp"}, sock : Sock, gen : Nat, cause : Cause, data : Seq(Byte)]
    \cup [evt : {"RxUdp"}, sock : Sock, gen : Nat, cause : Cause, data : Seq(Byte) \ {<< >>}]
    \cup [evt : {"Status", "SendDone"}, sock : Sock, gen : Nat, cause : Cause, data : {<< >>}]
    \cup [evt : {"MacRawRx"}, sock : Sock, gen : Nat, cause : Cause, data : Seq(Frame)]

Bits == {"CON", "DISCON", "RECV", "TIMEOUT", "SEND_OK"}
Mode == Protocol \cup {"CLOSED"}
Snap ==
    [sr : [Sock -> Status], gen : [Sock -> 1 .. MaxGen], mr : [Sock -> Mode],
     ir : [Sock -> SUBSET Bits], rxbuf : [Sock -> Seq(Cell)], rxpend : [Sock -> Seq(Cell)]]

Saved == {<< >>} \cup {<<s>> : s \in Snap}

Place ==
    ({"idle", "tick", "join", "stopped"} \X {0}) \cup ({"open", "restore"} \X Sock)

ChipTypes ==
    /\ emu \in Place
    /\ sr \in [Sock -> Status]
    /\ gen \in [Sock -> 1 .. MaxGen]
    /\ mr \in [Sock -> Mode]
    /\ ir \in [Sock -> SUBSET Bits]
    /\ rxbuf \in [Sock -> Seq(Cell)]
    /\ rxpend \in [Sock -> Seq(Cell)]
    /\ saved \in Saved
    /\ saves \in Nat
    /\ txn \in [Sock -> Nat] /\ taken \in [Sock -> Int] /\ sendoks \in [Sock -> Nat]

RingTypes ==
    /\ req \in Seq(Requested) /\ Len(req) <= ReqCap
    /\ evt \in Seq(Happened) /\ Len(evt) <= EvtCap
    /\ credit \in [Sock -> Int]
    /\ running \in BOOLEAN
    /\ reqLost \in [Sock -> Nat] /\ evtLost \in [Sock -> Nat]

WorkerTypes ==
    /\ wpc \in {"top", "drain", "poll", "flush", "recv", "take", "post", "slirp", "done"}
    /\ wi \in Sock
    /\ wgen \in [Sock -> 0 .. MaxGen]
    /\ wfd \in [Sock -> {"none", "tcp", "listen", "udp"}]
    /\ wst \in [Sock -> Status]
    /\ txp \in [Sock -> Seq(Nat)]
    /\ wcred \in Int /\ wgot \in Seq(Byte) /\ wshort \in BOOLEAN
    /\ peer \in [Sock -> {"none", "up", "fin", "rst"}]
    /\ kin \in [Sock -> Seq(Byte)]
    /\ psent \in [Sock -> Nat]
    /\ hostgot \in [Sock -> Seq(Nat)]
    /\ frames \in Nat

Types == ChipTypes /\ RingTypes /\ WorkerTypes

(* A snapshot is no newer than the chip, and a restore has generations     *)
(* left.                                                                   *)
SavedOld == saved # << >> => \A i \in Sock : saved[1].gen[i] <= gen[i]

RestoreRoom ==
    emu[1] = "restore" =>
        /\ saved # << >>
        /\ \A i \in Sock : emu[2] <= i =>
              gen[i] + (IF saved[1].sr[i] = "LISTEN" THEN 2 ELSE 1) <= MaxGen

GenOrder == GenerationOrder /\ SavedOld /\ RestoreRoom

(* What the worker's variables say of each other.                          *)
HostState ==
    /\ \A i \in Sock : /\ (wfd[i] = "none") = (wst[i] = "CLOSED")
                       /\ (wfd[i] = "udp") = (wst[i] = "UDP")
    /\ wpc \in {"take", "post"} => wst[wi] = "ESTABLISHED"
    /\ wpc # "post" => wgot = << >>

Opening(i) == emu = <<"open", i>>

(* Requests and events of socket i's current generation.  A raw frame      *)
(* carries the worker's generation but belongs to none.                    *)
Current(i) == {k \in 1 .. Len(req) : req[k].sock = i /\ req[k].gen = gen[i]}
Told(i) ==
    {k \in 1 .. Len(evt) : evt[k].sock = i /\ evt[k].gen = gen[i] /\ evt[k].evt # "MacRawRx"}
AtWork(i) == wgen[i] = gen[i]

(* What the current generation of a socket may have asked of the worker,   *)
(* what the worker's status of it may be and what the worker may have told,*)
(* by what the guest opened it for.                                        *)
Closes == {"Close", "CloseHost", "Shutdown"}
Headed == {"UDP", "IPRAW", "MACRAW"}

Phase(i) ==
    CASE Opening(i) -> "opening"
      [] ~Opening(i) /\ sr[i] \in Headed -> "datagram"
      [] OTHER -> "stream"

MayAsk(p) ==
    CASE p = "opening" -> Closes
      [] p = "datagram" -> Closes \cup {"OpenUdp", "SendUdp"} \cup RawTx
      [] OTHER -> Message \ {"OpenUdp"}

MayBe(p) ==
    CASE p = "opening" -> {"CLOSED"}
      [] p = "datagram" -> {"CLOSED", "UDP"}
      [] OTHER -> Status \ {"UDP"}

MayTell(p) ==
    CASE p = "opening" -> {"SendDone"}
      [] p = "datagram" -> {"RxUdp", "Status", "SendDone"}
      [] OTHER -> {"RxTcp", "Status", "SendDone"}

Asked(i) ==
    /\ \A k \in Current(i) : req[k].msg \in MayAsk(Phase(i))
    /\ \A k, l \in Current(i) : req[k].msg = "OpenUdp" /\ req[l].msg = "OpenUdp" => k = l

Heard(i) == \A k \in Told(i) : evt[k].evt \in MayTell(Phase(i))

Working(i) == AtWork(i) => wst[i] \in MayBe(Phase(i))

(* A datagram socket goes from asking to be opened, to open and receiving  *)
(* or to failed, and a failure is all it is told then.                     *)
Live(i) == (AtWork(i) /\ wst[i] = "UDP") \/ \E k \in Told(i) : evt[k].evt = "RxUdp"
Asking(i) == \E k \in Current(i) : req[k].msg = "OpenUdp"
Failing(i) == \E k \in Told(i) : evt[k].evt = "Status"

Once(i) ==
    Phase(i) = "datagram" =>
        /\ ~(Asking(i) /\ Live(i))
        /\ ~(Asking(i) /\ Failing(i))
        /\ ~(Live(i) /\ Failing(i))
        /\ \A k \in Told(i) : evt[k].evt = "Status" => evt[k].cause = "Failed"

ProtocolOk(i) == Asked(i) /\ Heard(i) /\ Working(i) /\ Once(i)

Room == MaxOf(RxSize - 1, 0)

Fits(i) ==
    /\ rxpend[i] = << >>
    /\ Len(rxbuf[i]) <= Room
    /\ sr[i] \notin Headed =>
          Len(rxbuf[i]) + Len(OnTheWay(i)) + MaxOf(credit[i], 0) <= Room
    /\ wpc = "take" /\ wi = i /\ AtWork(i) =>
          Len(rxbuf[i]) + Len(InRing(i)) + wcred <= Room

WholeCells(b) ==
    \A k \in 1 .. Len(b) : b[k] = HeaderCell => k < Len(b) /\ b[k + 1] # HeaderCell

SavedFits ==
    saved # << >> =>
        \A i \in Sock :
            /\ saved[1].rxpend[i] = << >>
            /\ Len(saved[1].rxbuf[i]) <= Room
            /\ WholeCells(saved[1].rxbuf[i])

CardInv ==
    /\ Types /\ GenOrder /\ HostState
    /\ \A i \in Sock : ProtocolOk(i) /\ Fits(i) /\ WholeCells(rxbuf[i])
    /\ SavedFits

-----------------------------------------------------------------------------
(* Sequences.                                                              *)

LEMMA SizeFacts ==
    /\ NSock \in Nat /\ NSock > 0 /\ Sock \subseteq Nat /\ 0 \in Sock
    /\ ReqCap \in Nat /\ ReqCap > 0 /\ EvtCap \in Nat /\ EvtCap > 0
    /\ RxSize \in Nat /\ MaxGen \in Nat /\ MaxGen > 0
    /\ Room \in Nat
BY U2Assumption DEF Sock, Room, MaxOf

(* What a bounded ring holds after an offer: what it held, then a part of  *)
(* what was offered.                                                       *)
LEMMA OfferFacts ==
    ASSUME NEW S, NEW q \in Seq(S), NEW ms \in Seq(S), NEW cap \in Nat, Len(q) <= cap
    PROVE  /\ Offer(q, ms, cap) \in Seq(S)
           /\ Len(Offer(q, ms, cap)) \in Len(q) .. cap
           /\ Len(Offer(q, ms, cap)) <= Len(q) + Len(ms)
           /\ Len(q) + Len(ms) <= cap => Len(Offer(q, ms, cap)) = Len(q) + Len(ms)
           /\ \A k \in 1 .. Len(q) : Offer(q, ms, cap)[k] = q[k]
           /\ \A k \in 1 .. Len(Offer(q, ms, cap)) : k > Len(q) =>
                 k - Len(q) \in 1 .. Len(ms) /\ Offer(q, ms, cap)[k] = ms[k - Len(q)]
<1> DEFINE all == q \o ms
<1>1. Len(q) \in Nat /\ Len(ms) \in Nat
  BY LenProperties
<1>2. all \in Seq(S) /\ Len(all) = Len(q) + Len(ms)
      /\ \A k \in 1 .. Len(all) : all[k] = IF k <= Len(q) THEN q[k] ELSE ms[k - Len(q)]
  BY <1>1, ConcatProperties
<1>3. CASE Len(all) <= cap
  <2>1. Offer(q, ms, cap) = all
    BY <1>3 DEF Offer
  <2> HIDE DEF all
  <2> QED
    BY <1>1, <1>2, <1>3, <2>1
<1>4. CASE ~(Len(all) <= cap)
  <2>1. Offer(q, ms, cap) = SubSeq(all, 1, cap)
    BY <1>4 DEF Offer
  <2> HIDE DEF all
  <2>2. cap \in 1 - 1 .. Len(all) /\ 1 \in 1 .. Len(all) + 1
    BY <1>1, <1>2, <1>4
  <2>3. /\ SubSeq(all, 1, cap) \in Seq(S)
        /\ Len(SubSeq(all, 1, cap)) = cap - 1 + 1
        /\ \A k \in 1 .. cap - 1 + 1 : SubSeq(all, 1, cap)[k] = all[1 + k - 1]
    BY <1>2, <2>2, SubSeqProperties
  <2> QED
    BY <1>1, <1>2, <1>4, <2>1, <2>3
<1> QED
  BY <1>3, <1>4

(* The ring q after one message more was offered to it.                    *)
OneMore(new, S, q, e, cap) ==
    /\ new \in Seq(S) /\ Len(q) \in Nat /\ Len(new) \in Len(q) .. cap /\ Len(new) <= Len(q) + 1
    /\ Len(q) < cap => Len(new) = Len(q) + 1
    /\ \A k \in 1 .. Len(q) : new[k] = q[k]
    /\ \A k \in 1 .. Len(new) : k > Len(q) => k = Len(q) + 1 /\ new[k] = e

LEMMA OfferOne ==
    ASSUME NEW S, NEW q \in Seq(S), NEW e \in S, NEW cap \in Nat, Len(q) <= cap
    PROVE  OneMore(Offer(q, <<e>>, cap), S, q, e, cap)
<1>1. ASSUME NEW ms \in Seq(S), Len(ms) = 1, ms[1] = e
      PROVE  OneMore(Offer(q, ms, cap), S, q, e, cap)
  <2> DEFINE new == Offer(q, ms, cap)
  <2>1. new \in Seq(S) /\ Len(new) \in Len(q) .. cap /\ Len(new) <= Len(q) + Len(ms)
    BY OfferFacts
  <2>2. Len(q) + Len(ms) <= cap => Len(new) = Len(q) + Len(ms)
    BY OfferFacts
  <2>3. \A k \in 1 .. Len(q) : new[k] = q[k]
    BY OfferFacts
  <2>4. \A k \in 1 .. Len(new) : k > Len(q) =>
            k - Len(q) \in 1 .. Len(ms) /\ new[k] = ms[k - Len(q)]
    BY OfferFacts
  <2>5. Len(q) \in Nat
    BY LenProperties
  <2> HIDE DEF new
  <2>6. Len(new) <= Len(q) + 1 /\ (Len(q) < cap => Len(new) = Len(q) + 1)
    BY <1>1, <2>1, <2>2, <2>5
  <2>7. \A k \in 1 .. Len(new) : k > Len(q) => k = Len(q) + 1 /\ new[k] = e
    BY <1>1, <2>1, <2>4, <2>5
  <2> QED
    BY <2>1, <2>3, <2>5, <2>6, <2>7 DEF new, OneMore
<1>2. <<e>> \in Seq(S) /\ Len(<<e>>) = 1 /\ <<e>>[1] = e
  OBVIOUS
<1> QED
  BY <1>1, <1>2, Zenon

LEMMA TailFacts ==
    ASSUME NEW S, NEW q \in Seq(S), q # << >>
    PROVE  /\ Head(q) \in S /\ Head(q) = q[1] /\ Tail(q) \in Seq(S)
           /\ Len(q) \in Nat \ {0} /\ Len(Tail(q)) = Len(q) - 1
           /\ \A k \in 1 .. Len(Tail(q)) : Tail(q)[k] = q[k + 1]
BY HeadTailProperties, LenProperties, EmptySeq, ElementOfSeq

-----------------------------------------------------------------------------
(* The bytes that events carry.                                            *)

LEMMA CarriedType ==
    ASSUME NEW e \in Happened, NEW i, NEW g
    PROVE  Carried(e, i, g) \in Seq(Byte)
<1>1. << >> \in Seq(Byte)
  BY EmptySeq
<1> QED
  BY <1>1 DEF Carried, Happened

(* f[n] is what the first n events of q carry.                             *)
CarriedBy(f, q, i, g) ==
    /\ f \in [0 .. Len(q) -> Seq(Byte)]
    /\ f[0] = << >>
    /\ \A n \in 1 .. Len(q) : f[n] = f[n - 1] \o Carried(q[n], i, g)
    /\ AllCarried(q, i, g) = f[Len(q)]

(* The bytes that a sequence of events carries are put together one event  *)
(* at a time.                                                              *)
LEMMA CarriedSteps ==
    ASSUME NEW q \in Seq(Happened), NEW i, NEW g
    PROVE  \E f : CarriedBy(f, q, i, g)
<1> DEFINE n == Len(q)
           T == Seq(Byte)
           C(k) == Carried(q[k], i, g)
           step == [k \in 1 .. n |-> [b \in T |-> b \o C(k)]]
           After(f) == [k \in 0 .. n |-> IF k = 0 THEN << >> ELSE f[k - 1] \o C(k)]
           up == CHOOSE f : f = After(f)
<1>1. n \in Nat /\ \A k \in 1 .. n : q[k] \in Happened
  BY LenProperties, ElementOfSeq
<1>2. \A k \in 1 .. n : C(k) \in T
  BY <1>1, CarriedType
<1>10. AllCarried(q, i, g) = up[n]
  BY DEF AllCarried
<1> HIDE DEF C
<1>3. << >> \in T /\ \A b \in T, c \in T : b \o c \in T
  BY EmptySeq, ConcatProperties
<1>0. n = Len(q)
  OBVIOUS
<1> HIDE DEF n, T
<1>4. step \in [1 .. n -> [T -> T]]
  BY <1>2, <1>3
<1>5. PICK f \in [0 .. n -> T] : f[0] = << >> /\ \A k \in 1 .. n : f[k] = step[k][f[k - 1]]
  <2>1. n \in Nat /\ << >> \in T
    BY <1>1, <1>3
  <2> HIDE DEF step
  <2> QED
    BY <2>1, <1>4, StepsExist
<1>6. f = After(f)
  <2>1. \A k \in 1 .. n : f[k] = After(f)[k]
    <3> SUFFICES ASSUME NEW k \in 1 .. n PROVE f[k] = After(f)[k]
      OBVIOUS
    <3>1. f[k - 1] \in T
      BY <1>1
    <3>2. f[k] = step[k][f[k - 1]]
      BY <1>5
    <3> QED
      BY <1>1, <3>1, <3>2
  <2>2. f[0] = After(f)[0]
    BY <1>1, <1>5
  <2>3. f = [k \in 0 .. n |-> f[k]] /\ After(f) = [k \in 0 .. n |-> After(f)[k]]
    OBVIOUS
  <2> HIDE DEF After
  <2>4. \A k \in 0 .. n : f[k] = After(f)[k]
    BY <1>1, <2>1, <2>2
  <2> QED
    BY <2>3, <2>4
<1>7. up = After(up)
  <2> HIDE DEF After
  <2> QED
    BY <1>6
<1> HIDE DEF up
<1>8. up[0] = << >> /\ \A k \in 1 .. n : up[k] = up[k - 1] \o C(k)
  <2>1. After(up)[0] = << >>
    BY <1>1
  <2>2. ASSUME NEW k \in 1 .. n PROVE After(up)[k] = up[k - 1] \o C(k)
    <3>1. k \in 0 .. n /\ k # 0
      BY <1>1
    <3> QED
      BY <3>1
  <2> HIDE DEF After
  <2> QED
    BY <1>7, <2>1, <2>2, Zenon
<1> DEFINE S == {k \in 0 .. n : up[k] \in T}
<1>9. 0 \in S
  BY <1>1, <1>3, <1>8
<1>11. ASSUME NEW k \in 1 .. n, k - 1 \in S PROVE k \in S
  <2>1. up[k - 1] \in T
    BY <1>11
  <2>2. up[k - 1] \o C(k) \in T
    BY <1>2, <1>3, <2>1, Zenon
  <2>3. up[k] \in T
    BY <1>8, <2>2, Zenon
  <2> QED
    BY <1>1, <2>3
<1>12. 0 .. n \subseteq S
  <2> HIDE DEF S
  <2> QED
    BY <1>1, <1>9, <1>11, CountUp
<1>13. up \in [0 .. n -> T]
  <2>1. up = [k \in 0 .. n |-> up[k]]
    <3>1. After(up) = [k \in 0 .. n |-> After(up)[k]]
      OBVIOUS
    <3> HIDE DEF After
    <3> QED
      BY <1>7, <3>1, Zenon
  <2> QED
    BY <1>12, <2>1
<1> QED
  <2>1. \A k \in 1 .. n : up[k] = up[k - 1] \o Carried(q[k], i, g)
    BY <1>8, Zenon DEF C
  <2>2. T = Seq(Byte)
    BY DEF T
  <2> QED
    BY <1>0, <1>8, <1>10, <1>13, <2>1, <2>2, Zenon DEF CarriedBy

(* Two ways through the same bytes.                                        *)
LEMMA CarriedUnique ==
    ASSUME NEW n \in Nat, NEW e, NEW f, e[0] = f[0],
           \A k \in 1 .. n : e[k - 1] = f[k - 1] => e[k] = f[k]
    PROVE  e[n] = f[n]
<1> DEFINE S == {k \in 0 .. n : e[k] = f[k]}
<1>1. 0 \in S /\ \A k \in 1 .. n : k - 1 \in S => k \in S
  OBVIOUS
<1> HIDE DEF S
<1>2. 0 .. n \subseteq S
  BY <1>1, CountUp
<1>3. n \in S
  BY <1>2
<1> QED
  BY <1>3 DEF S

(* One event more.                                                         *)
Grown(q, r, i, g) == AllCarried(r, i, g) = AllCarried(q, i, g) \o Carried(r[Len(r)], i, g)

LEMMA CarriedAppend ==
    ASSUME NEW q \in Seq(Happened), NEW r \in Seq(Happened), NEW i, NEW g,
           Len(r) = Len(q) + 1, \A k \in 1 .. Len(q) : r[k] = q[k]
    PROVE  Grown(q, r, i, g)
<1> DEFINE C(e) == Carried(e, i, g)
           n == Len(q)
<1>1. n \in Nat
  BY LenProperties
<1>2. PICK f : CarriedBy(f, q, i, g)
  BY CarriedSteps
<1>3. PICK h : CarriedBy(h, r, i, g)
  BY CarriedSteps
<1>9. /\ f[0] = << >> /\ h[0] = << >>
      /\ AllCarried(q, i, g) = f[n] /\ AllCarried(r, i, g) = h[Len(r)]
  BY <1>2, <1>3 DEF CarriedBy
<1>10. \A k \in 1 .. n : f[k] = f[k - 1] \o C(q[k])
  BY <1>2, Zenon DEF CarriedBy
<1>11. \A k \in 1 .. Len(r) : h[k] = h[k - 1] \o C(r[k])
  BY <1>3, Zenon DEF CarriedBy
<1>4. Len(r) = n + 1 /\ \A k \in 1 .. n : r[k] = q[k]
  OBVIOUS
<1> HIDE DEF n, C
<1>5. \A k \in 1 .. n : h[k] = h[k - 1] \o C(q[k])
  <2>1. \A k \in 1 .. n : k \in 1 .. Len(r)
    BY <1>1, <1>4
  <2> QED
    BY <1>4, <1>11, <2>1, Zenon
<1>6. \A k \in 1 .. n : f[k - 1] = h[k - 1] => f[k] = h[k]
  BY <1>5, <1>10, Zenon
<1>7. f[n] = h[n]
  BY <1>1, <1>6, <1>9, CarriedUnique
<1>8. h[n + 1] = h[n] \o C(r[n + 1])
  <2>1. n + 1 \in 1 .. Len(r) /\ (n + 1) - 1 = n
    BY <1>1, <1>4
  <2>2. h[n + 1] = h[(n + 1) - 1] \o C(r[n + 1])
    BY <1>11, <2>1, Zenon
  <2> QED
    BY <2>1, <2>2, Zenon
<1>12. C(r[n + 1]) = Carried(r[Len(r)], i, g)
  BY <1>4 DEF C
<1> QED
  BY <1>4, <1>7, <1>8, <1>9, <1>12, Zenon DEF Grown

(* The oldest event's bytes come first.                                    *)
LEMMA CarriedTail ==
    ASSUME NEW q \in Seq(Happened), q # << >>, NEW i, NEW g
    PROVE  AllCarried(q, i, g) = Carried(q[1], i, g) \o AllCarried(Tail(q), i, g)
<1> DEFINE C(e) == Carried(e, i, g)
           t == Tail(q)
           n == Len(t)
<1>1. n \in Nat /\ Len(q) = n + 1 /\ t \in Seq(Happened) /\ \A k \in 1 .. n : t[k] = q[k + 1]
  BY TailFacts
<1>2. PICK f : CarriedBy(f, q, i, g)
  BY CarriedSteps
<1> HIDE DEF t
<1>3. PICK h : CarriedBy(h, t, i, g)
  BY <1>1, CarriedSteps
<1>4. \A k \in 1 .. Len(q) : C(q[k]) \in Seq(Byte)
  BY CarriedType, ElementOfSeq
<1>9. /\ f[0] = << >> /\ h[0] = << >>
      /\ AllCarried(q, i, g) = f[Len(q)] /\ AllCarried(t, i, g) = h[n]
  BY <1>2, <1>3 DEF CarriedBy
<1>10. \A k \in 1 .. Len(q) : f[k] = f[k - 1] \o C(q[k])
  BY <1>2, Zenon DEF CarriedBy
<1>11. \A k \in 1 .. n : h[k] = h[k - 1] \o C(t[k])
  BY <1>3, Zenon DEF CarriedBy
<1>12. \A k \in 0 .. n : h[k] \in Seq(Byte)
  BY <1>3 DEF CarriedBy
<1>13. \A x, y, z \in Seq(Byte) : (x \o y) \o z = x \o (y \o z)
  BY ConcatAssociative
<1> HIDE DEF C, n
<1> DEFINE a == [k \in 0 .. n |-> f[k + 1]]
           b == [k \in 0 .. n |-> C(q[1]) \o h[k]]
<1>5. a[0] = b[0]
  <2>1. f[1] = f[0] \o C(q[1])
    <3>1. 1 \in 1 .. Len(q) /\ 1 - 1 = 0
      BY <1>1
    <3>2. f[1] = f[1 - 1] \o C(q[1])
      BY <1>10, <3>1, Zenon
    <3> QED
      BY <3>1, <3>2, Zenon
  <2>2. C(q[1]) \in Seq(Byte)
    BY <1>1, <1>4
  <2>3. << >> \o C(q[1]) = C(q[1]) /\ C(q[1]) \o << >> = C(q[1])
    BY <2>2, ConcatEmptySeq
  <2>4. 0 \in 0 .. n /\ 0 + 1 = 1
    BY <1>1
  <2>5. a[0] = f[1] /\ b[0] = C(q[1]) \o h[0]
    BY <2>4
  <2> HIDE DEF a, b
  <2> QED
    BY <1>9, <2>1, <2>3, <2>5, Zenon
<1>6. ASSUME NEW k \in 1 .. n, a[k - 1] = b[k - 1] PROVE a[k] = b[k]
  <2>1. k + 1 \in 1 .. Len(q) /\ (k + 1) - 1 = k /\ k \in 0 .. n /\ k - 1 \in 0 .. n
        /\ (k - 1) + 1 = k
    BY <1>1
  <2>2. a[k] = f[k] \o C(q[k + 1])
    <3>1. f[k + 1] = f[(k + 1) - 1] \o C(q[k + 1])
      BY <1>10, <2>1, Zenon
    <3>2. a[k] = f[k + 1]
      BY <2>1
    <3> HIDE DEF a, b
    <3> QED
      BY <2>1, <3>1, <3>2, Zenon
  <2>3. f[k] = C(q[1]) \o h[k - 1]
    <3>1. a[k - 1] = f[(k - 1) + 1] /\ b[k - 1] = C(q[1]) \o h[k - 1]
      BY <2>1
    <3> HIDE DEF a, b
    <3> QED
      BY <1>6, <2>1, <3>1, Zenon
  <2>4. h[k] = h[k - 1] \o C(q[k + 1])
    BY <1>1, <1>11, Zenon DEF n
  <2>5. C(q[1]) \in Seq(Byte) /\ h[k - 1] \in Seq(Byte) /\ C(q[k + 1]) \in Seq(Byte)
    BY <1>1, <1>4, <1>12, <2>1
  <2>6. (C(q[1]) \o h[k - 1]) \o C(q[k + 1]) = C(q[1]) \o (h[k - 1] \o C(q[k + 1]))
    BY <1>13, <2>5, Zenon
  <2>7. b[k] = C(q[1]) \o h[k]
    BY <2>1
  <2> HIDE DEF a, b
  <2> QED
    BY <2>2, <2>3, <2>4, <2>6, <2>7, Zenon
<1>7. a[n] = f[n + 1] /\ b[n] = C(q[1]) \o h[n]
  <2>1. n \in 0 .. n
    BY <1>1
  <2> QED
    BY <2>1
<1>8. a[n] = b[n]
  <2> HIDE DEF a, b
  <2> QED
    BY <1>1, <1>5, <1>6, CarriedUnique
<1>14. AllCarried(q, i, g) = f[n + 1]
  BY <1>1, <1>9 DEF n
<1> HIDE DEF a, b
<1>15. AllCarried(q, i, g) = C(q[1]) \o AllCarried(t, i, g)
  BY <1>7, <1>8, <1>9, <1>14, Zenon
<1> QED
  BY <1>15 DEF C, t

(* Nothing from events that carry nothing.                                 *)
LEMMA CarriedNone ==
    ASSUME NEW q \in Seq(Happened), NEW i, NEW g,
           \A k \in 1 .. Len(q) : q[k].evt = "RxTcp" /\ q[k].sock = i => q[k].gen # g
    PROVE  AllCarried(q, i, g) = << >>
<1> DEFINE n == Len(q)
<1>1. n \in Nat
  BY LenProperties
<1>2. PICK f : CarriedBy(f, q, i, g)
  BY CarriedSteps
<1>8. f[0] = << >> /\ AllCarried(q, i, g) = f[n]
  BY <1>2 DEF CarriedBy
<1>9. \A k \in 1 .. n : f[k] = f[k - 1] \o Carried(q[k], i, g)
  BY <1>2, Zenon DEF CarriedBy
<1>3. \A k \in 1 .. n : Carried(q[k], i, g) = << >>
  BY DEF Carried
<1>4. << >> \in Seq(Byte) /\ << >> \o << >> = << >>
  BY EmptySeq, ConcatEmptySeq
<1> DEFINE z == [k \in 0 .. n |-> << >>]
<1>5. \A k \in 1 .. n : f[k - 1] = z[k - 1] => f[k] = z[k]
  <2> SUFFICES ASSUME NEW k \in 1 .. n, f[k - 1] = << >> PROVE f[k] = << >>
    BY <1>1
  <2>1. f[k] = f[k - 1] \o Carried(q[k], i, g)
    BY <1>9, Zenon
  <2> QED
    BY <1>3, <1>4, <2>1, Zenon
<1>6. f[0] = z[0] /\ z[n] = << >>
  BY <1>1, <1>8
<1>7. f[n] = z[n]
  <2> HIDE DEF z, n
  <2> QED
    BY <1>1, <1>5, <1>6, CarriedUnique
<1> QED
  BY <1>6, <1>7, <1>8

-----------------------------------------------------------------------------
(* The rings and the receive buffer.                                       *)

(* What post does to the request ring.                                     *)
LEMMA PostFacts ==
    ASSUME RingTypes, NEW i \in Sock, NEW g \in Nat, NEW rs \in Seq(Requested), Post(i, g, rs)
    PROVE  /\ req' \in Seq(Requested) /\ Len(req') \in Len(req) .. ReqCap
           /\ Len(req) \in Nat /\ Len(req') <= Len(req) + Len(rs)
           /\ Len(req) + Len(rs) <= ReqCap => Len(req') = Len(req) + Len(rs)
           /\ \A k \in 1 .. Len(req) : req'[k] = req[k]
           /\ \A k \in 1 .. Len(req') : k > Len(req) =>
                 k - Len(req) \in 1 .. Len(rs) /\ req'[k] = rs[k - Len(req)]
           /\ reqLost' \in [Sock -> Nat]
<1>1. req \in Seq(Requested) /\ Len(req) <= ReqCap /\ ReqCap \in Nat /\ Len(req) \in Nat
  BY SizeFacts, LenProperties DEF RingTypes
<1>2. req' = Offer(req, rs, ReqCap)
  BY DEF Post
<1>3. reqLost' \in [Sock -> Nat]
  BY DEF Post, RingTypes
<1> QED
  BY <1>1, <1>2, <1>3, OfferFacts

LEMMA PostOne ==
    ASSUME RingTypes, NEW i \in Sock, NEW g \in Nat, NEW r \in Requested, Post(i, g, <<r>>)
    PROVE  OneMore(req', Requested, req, r, ReqCap) /\ reqLost' \in [Sock -> Nat]
<1>1. req \in Seq(Requested) /\ Len(req) <= ReqCap /\ ReqCap \in Nat
  BY SizeFacts DEF RingTypes
<1>2. req' = Offer(req, <<r>>, ReqCap)
  BY DEF Post
<1>3. reqLost' \in [Sock -> Nat]
  BY DEF Post, RingTypes
<1> QED
  BY <1>1, <1>2, <1>3, OfferOne

(* What post_event does to the event ring.                                 *)
LEMMA PostEventOne ==
    ASSUME RingTypes, NEW e \in Happened, PostEvent(e)
    PROVE  OneMore(evt', Happened, evt, e, EvtCap) /\ evtLost' \in [Sock -> Nat]
<1>1. evt \in Seq(Happened) /\ Len(evt) <= EvtCap /\ EvtCap \in Nat
  BY SizeFacts DEF RingTypes
<1>2. evt' = Offer(evt, <<e>>, EvtCap)
  BY DEF PostEvent
<1>3. evtLost' \in [Sock -> Nat]
  BY DEF PostEvent, RingTypes, Happened
<1> QED
  BY <1>1, <1>2, <1>3, OfferOne

LEMMA ByteCells == Seq(Byte) \subseteq Seq(Cell) /\ << >> \in Seq(Cell) /\ HeaderCell \in Cell
                   /\ RawCell \in Cell /\ \A b \in Byte : b # HeaderCell
<1>1. Byte \subseteq Cell
  BY DEF Byte, Cell
<1>2. Seq(Byte) \subseteq Seq(Cell)
  BY <1>1
<1>3. \A b \in Byte : b # HeaderCell
  BY DEF Byte, HeaderCell
<1> QED
  BY <1>2, <1>3, EmptySeq DEF HeaderCell, RawCell, Cell

(* flush_tcp_pending: what fits moves.                                     *)
LEMMA FlushedFacts ==
    ASSUME NEW i \in Sock, NEW b \in Seq(Cell), NEW p \in Seq(Cell)
    PROVE  LET f == Flushed(i, b, p) IN
           /\ f.buf \in Seq(Cell) /\ f.pend \in Seq(Cell) /\ f.moved \in Nat
           /\ p = << >> => f.buf = b /\ f.pend = << >> /\ f.moved = 0
           /\ Len(b) + Len(p) + HeaderSize(i) <= Room => f.buf = b \o p /\ f.pend = << >>
<1> DEFINE used == Len(b) + HeaderSize(i)
           room == IF used + 1 >= RxSize THEN 0 ELSE RxSize - used - 1
           n == MinOf(room, Len(p))
<1>1. Flushed(i, b, p) = [buf |-> b \o FirstN(p, n), pend |-> ButFirstN(p, n), moved |-> n]
  BY DEF Flushed
<1>2. Len(b) \in Nat /\ Len(p) \in Nat /\ HeaderSize(i) \in {0, 1} /\ RxSize \in Nat
  BY SizeFacts, LenProperties DEF HeaderSize
<1>3. n \in 0 .. Len(p)
  BY <1>2 DEF MinOf
<1>4. Len(b) + Len(p) + HeaderSize(i) <= Room => n = Len(p)
  BY <1>2 DEF MinOf, MaxOf, Room
<1> HIDE DEF n
<1>5. FirstN(p, n) \in Seq(Cell) /\ ButFirstN(p, n) \in Seq(Cell)
  BY <1>2, <1>3, SubSeqProperties DEF FirstN, ButFirstN
<1>6. n = Len(p) => FirstN(p, n) = p /\ ButFirstN(p, n) = << >>
  <2> SUFFICES ASSUME n = Len(p) PROVE FirstN(p, n) = p /\ ButFirstN(p, n) = << >>
    OBVIOUS
  <2>1. SubSeq(p, 1, Len(p)) = p
    BY SubSeqFull
  <2>2. SubSeq(p, Len(p) + 1, Len(p)) = << >>
    BY <1>2, SubSeqEmpty
  <2> QED
    BY <2>1, <2>2 DEF FirstN, ButFirstN
<1>7. b \o FirstN(p, n) \in Seq(Cell) /\ b \o << >> = b
  BY <1>5, ConcatProperties, ConcatEmptySeq
<1>8. p = << >> => n = 0 /\ n = Len(p)
  BY <1>2, <1>3, EmptySeq
<1> HIDE DEF used, room
<1> DEFINE f == Flushed(i, b, p)
<1>9. f.buf = b \o FirstN(p, n) /\ f.pend = ButFirstN(p, n) /\ f.moved = n
  BY <1>1
<1> HIDE DEF f
<1>10. f.buf \in Seq(Cell) /\ f.pend \in Seq(Cell) /\ f.moved \in Nat
  BY <1>3, <1>5, <1>7, <1>9
<1>11. p = << >> => f.buf = b /\ f.pend = << >> /\ f.moved = 0
  BY <1>6, <1>7, <1>8, <1>9
<1>12. Len(b) + Len(p) + HeaderSize(i) <= Room => f.buf = b \o p /\ f.pend = << >>
  BY <1>4, <1>6, <1>9, Zenon
<1> QED
  BY <1>10, <1>11, <1>12 DEF f

-----------------------------------------------------------------------------
(* Types.                                                                  *)

LEMMA RequestType ==
    ASSUME NEW m \in Message, NEW i \in Sock, NEW g \in Nat, NEW b \in Seq(Nat)
    PROVE  Request(m, i, g, b) \in Requested /\ << >> \in Seq(Nat)
           /\ <<Request(m, i, g, b)>> \in Seq(Requested)
<1>1. Request(m, i, g, b) \in Requested
  BY DEF Request, Requested
<1> QED
  BY <1>1, EmptySeq

LEMMA EventType ==
    ASSUME NEW i \in Sock, NEW g \in Nat, NEW c \in Cause
    PROVE  /\ Event("Status", i, g, c, << >>) \in Happened
           /\ Event("SendDone", i, g, c, << >>) \in Happened
           /\ \A b \in Seq(Byte) : /\ Event("RxTcp", i, g, c, b) \in Happened
                                   /\ b # << >> => Event("RxUdp", i, g, c, b) \in Happened
           /\ \A f \in Frame : Event("MacRawRx", i, g, c, <<f>>) \in Happened
BY DEF Event, Happened

LEMMA CloseHostTypes ==
    ASSUME Types, NEW i \in Sock, NEW g \in 1 .. MaxGen, NEW how \in {"Close", "CloseHost"},
           CloseHost(i, g, how)
    PROVE  /\ gen' \in [Sock -> 1 .. MaxGen] /\ gen' = [gen EXCEPT ![i] = g]
           /\ OneMore(req', Requested, req, Request(how, i, g, << >>), ReqCap)
           /\ req' \in Seq(Requested) /\ Len(req') <= ReqCap
           /\ reqLost' \in [Sock -> Nat]
           /\ credit' \in [Sock -> Int] /\ credit' = [credit EXCEPT ![i] = 0]
           /\ rxpend' \in [Sock -> Seq(Cell)] /\ rxpend' = [rxpend EXCEPT ![i] = << >>]
<1> DEFINE r == Request(how, i, g, << >>)
<1>1. r \in Requested /\ g \in Nat /\ RingTypes /\ ChipTypes
  BY EmptySeq DEF Request, Requested, Message, DefinesGen, Types
<1>2. Post(i, g, <<r>>)
  BY <1>1 DEF CloseHost
<1>3. gen' \in [Sock -> 1 .. MaxGen] /\ gen' = [gen EXCEPT ![i] = g]
  BY <1>1 DEF CloseHost, ChipTypes
<1>4. credit' \in [Sock -> Int] /\ credit' = [credit EXCEPT ![i] = 0]
  BY <1>1 DEF CloseHost, RingTypes
<1>5. rxpend' \in [Sock -> Seq(Cell)] /\ rxpend' = [rxpend EXCEPT ![i] = << >>]
  BY <1>1, EmptySeq DEF CloseHost, ChipTypes
<1> HIDE DEF r
<1>6. OneMore(req', Requested, req, r, ReqCap) /\ reqLost' \in [Sock -> Nat]
  BY <1>1, <1>2, PostOne
<1>7. req' \in Seq(Requested) /\ Len(req') <= ReqCap
  BY <1>6, SizeFacts DEF OneMore
<1> QED
  BY <1>3, <1>4, <1>5, <1>6, <1>7 DEF r

LEMMA OpenCloseTypes ==
    ASSUME Types, NEW i \in Sock, OpenClose(i)
    PROVE  (ChipTypes /\ RingTypes)'
<1>1. gen[i] + 1 \in 1 .. MaxGen /\ CloseHost(i, gen[i] + 1, "CloseHost")
  BY SizeFacts DEF OpenClose, GenLeft, Types, ChipTypes
<1>2. emu' \in Place
  BY DEF OpenClose, Place
<1>3. /\ gen' \in [Sock -> 1 .. MaxGen] /\ req' \in Seq(Requested) /\ Len(req') <= ReqCap
      /\ reqLost' \in [Sock -> Nat] /\ credit' \in [Sock -> Int] /\ rxpend' \in [Sock -> Seq(Cell)]
  BY <1>1, CloseHostTypes
<1>4. UNCHANGED <<sr, mr, ir, rxbuf, saved, saves, txn, taken, sendoks, evt, running, evtLost>>
  BY DEF OpenClose, ghosts
<1> QED
  BY <1>2, <1>3, <1>4 DEF Types, ChipTypes, RingTypes

LEMMA OpenFinishTypes ==
    ASSUME Types, NEW i \in Sock, OpenFinish(i)
    PROVE  (ChipTypes /\ RingTypes)'
<1>1. gen[i] \in Nat /\ RingTypes
  BY DEF Types, ChipTypes
<1>2. OpenStatus(i) \in Status
  BY DEF OpenStatus, Status
<1>3. OpenCredit(i) \in Int
  BY SizeFacts DEF OpenCredit
<1>4. req' \in Seq(Requested) /\ Len(req') <= ReqCap /\ reqLost' \in [Sock -> Nat]
  <2>1. ASSUME NEW m \in {"OpenTcp", "OpenUdp"}
        PROVE  <<Request(m, i, gen[i], << >>)>> \in Seq(Requested)
    BY <1>1, RequestType, EmptySeq DEF Message, DefinesGen
  <2>2. << >> \in Seq(Requested)
    BY EmptySeq
  <2>3. OpenRequests(i) \in Seq(Requested)
    BY <2>1, <2>2 DEF OpenRequests
  <2>4. Post(i, gen[i], OpenRequests(i))
    BY DEF OpenFinish
  <2> QED
    BY <1>1, <2>3, <2>4, PostFacts, SizeFacts
<1>5. emu' \in Place
  BY DEF OpenFinish, Place
<1>6. /\ sr' \in [Sock -> Status] /\ rxbuf' \in [Sock -> Seq(Cell)] /\ credit' \in [Sock -> Int]
      /\ txn' \in [Sock -> Nat] /\ taken' \in [Sock -> Int] /\ sendoks' \in [Sock -> Nat]
  BY <1>2, <1>3, EmptySeq DEF OpenFinish, Types, ChipTypes, RingTypes
<1>7. UNCHANGED <<gen, mr, ir, rxpend, saved, saves, evt, running, evtLost>>
  BY DEF OpenFinish
<1> QED
  BY <1>4, <1>5, <1>6, <1>7 DEF Types, ChipTypes, RingTypes

LEMMA ListenTypes ==
    ASSUME Types, NEW i \in Sock, Listen(i)
    PROVE  (ChipTypes /\ RingTypes)'
<1> USE DEF Status, Bits
<1>1. UNCHANGED <<emu, mr, rxbuf, saved, saves, txn, taken, sendoks, evt, running, evtLost>>
  BY DEF Listen, ghosts
<1>2. CASE ListenBound(i)
  <2> DEFINE r == Request("AdoptListen", i, gen[i], << >>)
  <2>1. gen[i] \in Nat /\ RingTypes /\ r \in Requested
    <3>1. gen[i] \in Nat /\ RingTypes
      BY DEF Types, ChipTypes
    <3>2. "AdoptListen" \in Message /\ << >> \in Seq(Nat)
      BY EmptySeq DEF Message, DefinesGen
    <3> QED
      BY <3>1, <3>2, RequestType
  <2>2. Post(i, gen[i], <<r>>)
    BY <1>2 DEF ListenBound
  <2> HIDE DEF r
  <2>3. req' \in Seq(Requested) /\ Len(req') <= ReqCap /\ reqLost' \in [Sock -> Nat]
    BY <2>1, <2>2, PostOne, SizeFacts DEF OneMore
  <2>4. sr' \in [Sock -> Status] /\ UNCHANGED <<gen, credit, rxpend, ir>>
    BY <1>2 DEF ListenBound, Types, ChipTypes
  <2> QED
    BY <1>1, <2>3, <2>4 DEF Types, ChipTypes, RingTypes
<1>3. CASE ListenRefused(i)
  <2>1. gen[i] + 1 \in 1 .. MaxGen /\ CloseHost(i, gen[i] + 1, "CloseHost")
    BY <1>3, SizeFacts DEF ListenRefused, GenLeft, Types, ChipTypes
  <2>2. sr' \in [Sock -> Status] /\ ir' \in [Sock -> SUBSET Bits]
    BY <1>3 DEF ListenRefused, Raise, Types, ChipTypes
  <2>3. /\ gen' \in [Sock -> 1 .. MaxGen] /\ req' \in Seq(Requested) /\ Len(req') <= ReqCap
        /\ reqLost' \in [Sock -> Nat] /\ credit' \in [Sock -> Int] /\ rxpend' \in [Sock -> Seq(Cell)]
    BY <2>1, CloseHostTypes
  <2> QED
    BY <1>1, <2>2, <2>3 DEF Types, ChipTypes, RingTypes
<1> QED
  BY <1>2, <1>3 DEF Listen

LEMMA ConnectTypes ==
    ASSUME Types, NEW i \in Sock, Connect(i)
    PROVE  (ChipTypes /\ RingTypes)'
<1> DEFINE r == Request("Connect", i, gen[i], << >>)
<1>1. gen[i] \in Nat /\ RingTypes /\ r \in Requested
  <2>1. gen[i] \in Nat /\ RingTypes
    BY DEF Types, ChipTypes
  <2>2. "Connect" \in Message /\ << >> \in Seq(Nat)
    BY EmptySeq DEF Message
  <2> QED
    BY <2>1, <2>2, RequestType
<1>2. Post(i, gen[i], <<r>>)
  BY DEF Connect
<1> HIDE DEF r
<1>3. req' \in Seq(Requested) /\ Len(req') <= ReqCap /\ reqLost' \in [Sock -> Nat]
  BY <1>1, <1>2, PostOne, SizeFacts DEF OneMore
<1>4. sr' \in [Sock -> Status]
  BY DEF Connect, Types, ChipTypes, Status
<1>5. UNCHANGED <<emu, gen, mr, ir, rxbuf, rxpend, saved, saves, txn, taken, sendoks,
                  evt, credit, running, evtLost>>
  BY DEF Connect, ghosts
<1> QED
  BY <1>3, <1>4, <1>5 DEF Types, ChipTypes, RingTypes

LEMMA EndTypes ==
    ASSUME Types, NEW i \in Sock, Discon(i) \/ Close(i)
    PROVE  (ChipTypes /\ RingTypes)'
<1>1. gen[i] + 1 \in 1 .. MaxGen /\ CloseHost(i, gen[i] + 1, "Close")
  BY SizeFacts DEF Discon, Close, GenLeft, Types, ChipTypes
<1>2. sr' \in [Sock -> Status] /\ ir' \in [Sock -> SUBSET Bits]
  <2>1. sr \in [Sock -> Status] /\ ir \in [Sock -> SUBSET Bits]
    BY DEF Types, ChipTypes
  <2>2. sr' = [sr EXCEPT ![i] = "CLOSED"] /\ (ir' = ir \/ ir' = [ir EXCEPT ![i] = @ \cup {"DISCON"}])
    BY DEF Discon, Close, Raise
  <2> QED
    BY <2>1, <2>2 DEF Bits, Status
<1>3. /\ gen' \in [Sock -> 1 .. MaxGen] /\ req' \in Seq(Requested) /\ Len(req') <= ReqCap
      /\ reqLost' \in [Sock -> Nat] /\ credit' \in [Sock -> Int] /\ rxpend' \in [Sock -> Seq(Cell)]
  BY <1>1, CloseHostTypes
<1>4. UNCHANGED <<emu, mr, rxbuf, saved, saves, txn, taken, sendoks, evt, running, evtLost>>
  BY DEF Discon, Close, ghosts
<1> QED
  BY <1>2, <1>3, <1>4 DEF Types, ChipTypes, RingTypes

LEMMA SendTypes ==
    ASSUME Types, NEW i \in Sock, Send(i)
    PROVE  (ChipTypes /\ RingTypes)'
<1> DEFINE b == [k \in 1 .. TxLen |-> txn[i] + k]
           r == Request(SendMsg(i), i, gen[i], b)
<1>1. TxLen \in Nat /\ txn[i] \in Nat /\ gen[i] \in Nat /\ RingTypes
  BY ChipAssumption DEF Types, ChipTypes
<1>2. b \in Seq(Nat)
  BY <1>1
<1> HIDE DEF b
<1>3. r \in Requested
  <2>1. SendMsg(i) \in Message
    BY DEF SendMsg, Message, RawTx
  <2> QED
    BY <1>1, <1>2, <2>1, RequestType
<1>4. Post(i, gen[i], <<r>>)
  BY DEF Send, b
<1> HIDE DEF r
<1>5. req' \in Seq(Requested) /\ Len(req') <= ReqCap /\ reqLost' \in [Sock -> Nat]
  BY <1>1, <1>3, <1>4, PostOne, SizeFacts DEF OneMore
<1>6. txn' \in [Sock -> Nat]
  BY <1>1 DEF Send, Types, ChipTypes
<1>7. UNCHANGED <<emu, sr, gen, mr, ir, rxbuf, rxpend, saved, saves, taken, sendoks,
                  evt, credit, running, evtLost>>
  BY DEF Send
<1> QED
  BY <1>5, <1>6, <1>7 DEF Types, ChipTypes, RingTypes

LEMMA RecvTypes ==
    ASSUME Types, NEW i \in Sock, NEW k \in 1 .. RxSize, Recv(i, k)
    PROVE  (ChipTypes /\ RingTypes)'
<1> DEFINE b == ButFirstN(rxbuf[i], k)
           f == Flushed(i, b, rxpend[i])
<1>1. rxbuf[i] \in Seq(Cell) /\ rxpend[i] \in Seq(Cell) /\ k \in Nat /\ Len(rxbuf[i]) \in Nat
  BY SizeFacts, LenProperties DEF Types, ChipTypes
<1>2. b \in Seq(Cell)
  BY <1>1, SubSeqProperties DEF ButFirstN
<1>4. /\ rxbuf' = [rxbuf EXCEPT ![i] = f.buf] /\ rxpend' = [rxpend EXCEPT ![i] = f.pend]
      /\ Raise(i, IF f.moved > 0 THEN {"RECV"} ELSE {})
  BY DEF Recv
<1> HIDE DEF b
<1>3. f.buf \in Seq(Cell) /\ f.pend \in Seq(Cell)
  BY <1>1, <1>2, FlushedFacts
<1> HIDE DEF f
<1>5. ir' \in [Sock -> SUBSET Bits]
  BY <1>4 DEF Types, ChipTypes, Raise, Bits
<1>6. rxbuf' \in [Sock -> Seq(Cell)] /\ rxpend' \in [Sock -> Seq(Cell)]
  BY <1>3, <1>4 DEF Types, ChipTypes
<1>7. credit' \in [Sock -> Int] /\ taken' \in [Sock -> Int]
  BY <1>1 DEF Recv, Types, ChipTypes, RingTypes
<1>8. UNCHANGED <<emu, sr, gen, mr, saved, saves, txn, sendoks, req, evt, running, reqLost, evtLost>>
  BY DEF Recv
<1> QED
  BY <1>5, <1>6, <1>7, <1>8 DEF Types, ChipTypes, RingTypes

LEMMA RegisterTypes ==
    ASSUME Types, NEW i \in Sock,
           (\E p \in Protocol : WriteMR(i, p)) \/ WriteIR(i) \/ SendKeep(i)
    PROVE  (ChipTypes /\ RingTypes)'
<1>1. mr \in [Sock -> Mode] /\ ir \in [Sock -> SUBSET Bits]
  BY DEF Types, ChipTypes
<1>2. UNCHANGED <<emu, sr, gen, rxbuf, rxpend, saved, saves, txn, taken, sendoks,
                  req, evt, credit, running, reqLost, evtLost>>
  BY DEF WriteMR, WriteIR, SendKeep, ghosts
<1>3. mr' \in [Sock -> Mode]
  BY <1>1 DEF WriteMR, WriteIR, SendKeep, Mode
<1>4. ir' \in [Sock -> SUBSET Bits]
  <2>1. \/ ir' = ir \/ ir' = [ir EXCEPT ![i] = {}]
        \/ ir' = [ir EXCEPT ![i] = @ \cup {"SEND_OK"}]
    BY DEF WriteMR, WriteIR, SendKeep, Raise
  <2> QED
    BY <1>1, <2>1 DEF Bits
<1> QED
  BY <1>2, <1>3, <1>4 DEF Types, ChipTypes, RingTypes

(* The closes that reset() and start() post.                               *)
LEMMA ResetRequests ==
    ASSUME NEW g \in [Sock -> Nat]
    PROVE  LET rs == [k \in 1 .. NSock |-> Request("CloseHost", k - 1, g[k - 1], << >>)]
           IN  rs \in Seq(Requested) /\ Len(rs) = NSock
               /\ \A k \in 1 .. NSock : rs[k].sock = k - 1 /\ rs[k].gen = g[k - 1]
                                        /\ rs[k].msg = "CloseHost"
<1>1. NSock \in Nat
  BY SizeFacts
<1>2. ASSUME NEW k \in 1 .. NSock PROVE Request("CloseHost", k - 1, g[k - 1], << >>) \in Requested
  <2>1. k - 1 \in Sock
    BY <1>1 DEF Sock
  <2>2. g[k - 1] \in Nat /\ "CloseHost" \in Message /\ << >> \in Seq(Nat)
    BY <2>1, EmptySeq DEF Message, DefinesGen
  <2> QED
    BY <2>1, <2>2, RequestType
<1> DEFINE R(k) == Request("CloseHost", k - 1, g[k - 1], << >>)
           rs == [k \in 1 .. NSock |-> R(k)]
<1>3. \A k \in 1 .. NSock : R(k).sock = k - 1 /\ R(k).gen = g[k - 1] /\ R(k).msg = "CloseHost"
  BY DEF Request
<1>4. \A k \in 1 .. NSock : R(k) \in Requested
  BY <1>2
<1> HIDE DEF R
<1>5. rs \in Seq(Requested) /\ Len(rs) = NSock
  BY <1>1, <1>4
<1>6. \A k \in 1 .. NSock : rs[k] = R(k)
  OBVIOUS
<1> HIDE DEF rs
<1>7. \A k \in 1 .. NSock : rs[k].sock = k - 1 /\ rs[k].gen = g[k - 1] /\ rs[k].msg = "CloseHost"
  BY <1>3, <1>6
<1> QED
  BY <1>5, <1>7, Zenon DEF rs, R

LEMMA ResetTypes ==
    ASSUME Types, Reset
    PROVE  (ChipTypes /\ RingTypes)'
<1> DEFINE g == [i \in Sock |-> gen[i] + 1]
           rs == [k \in 1 .. NSock |-> Request("CloseHost", k - 1, g[k - 1], << >>)]
<1>1. gen \in [Sock -> 1 .. MaxGen] /\ \A i \in Sock : gen[i] < MaxGen
  BY DEF Reset, GenLeft, Types, ChipTypes
<1>2. g \in [Sock -> 1 .. MaxGen] /\ g \in [Sock -> Nat]
  BY <1>1, SizeFacts
<1>3. rs = [k \in 1 .. NSock |-> Request("CloseHost", k - 1, gen[k - 1] + 1, << >>)]
  <2>1. \A k \in 1 .. NSock : k - 1 \in Sock
    BY SizeFacts DEF Sock
  <2> QED
    BY <2>1
<1>4. rs \in Seq(Requested)
  <2> HIDE DEF g
  <2> QED
    BY <1>2, ResetRequests
<1> HIDE DEF rs
<1>5. req' = Offer(req, rs, ReqCap)
  BY <1>3 DEF Reset
<1>6. req' \in Seq(Requested) /\ Len(req') <= ReqCap
  <2>1. req \in Seq(Requested) /\ Len(req) <= ReqCap /\ ReqCap \in Nat /\ Len(req) \in Nat
    BY SizeFacts, LenProperties DEF Types, RingTypes
  <2>2. Offer(req, rs, ReqCap) \in Seq(Requested) /\ Len(Offer(req, rs, ReqCap)) \in Len(req) .. ReqCap
    BY <1>4, <2>1, OfferFacts
  <2> QED
    BY <1>5, <2>1, <2>2
<1>7. reqLost' \in [Sock -> Nat]
  BY <1>1 DEF Reset, Types, RingTypes
<1>8. gen' = g /\ UNCHANGED <<emu, saved, saves, txn, taken, sendoks, evt, running, evtLost>>
  BY DEF Reset, ghosts
<1>9. /\ sr' \in [Sock -> Status] /\ mr' \in [Sock -> Mode] /\ ir' \in [Sock -> SUBSET Bits]
      /\ rxbuf' \in [Sock -> Seq(Cell)] /\ rxpend' \in [Sock -> Seq(Cell)] /\ credit' \in [Sock -> Int]
  BY EmptySeq DEF Reset, Status, Mode, Bits
<1> HIDE DEF g
<1> QED
  BY <1>2, <1>6, <1>7, <1>8, <1>9 DEF Types, ChipTypes, RingTypes

LEMMA TickTypes ==
    ASSUME Types, TickBegin \/ TickEnd
    PROVE  (ChipTypes /\ RingTypes)'
<1>1. UNCHANGED <<sr, gen, mr, saved, saves, txn, taken, sendoks, req, evt, credit, running,
                  reqLost, evtLost>> /\ emu' \in Place
  BY DEF TickBegin, TickEnd, ghosts, Place
<1>2. CASE TickEnd
  <2>1. UNCHANGED <<ir, rxbuf, rxpend>>
    BY <1>2 DEF TickEnd
  <2> QED
    BY <1>1, <2>1 DEF Types, ChipTypes, RingTypes
<1>3. CASE TickBegin
  <2> DEFINE F(i) == Flushed(i, rxbuf[i], rxpend[i])
  <2>1. ASSUME NEW i \in Sock PROVE F(i).buf \in Seq(Cell) /\ F(i).pend \in Seq(Cell)
    BY FlushedFacts DEF Types, ChipTypes
  <2>2. LET f == [i \in Sock |-> F(i)]
        IN  /\ rxbuf' = [i \in Sock |-> f[i].buf]
            /\ rxpend' = [i \in Sock |-> f[i].pend]
            /\ ir' = [i \in Sock |-> IF f[i].moved > 0 THEN ir[i] \cup {"RECV"} ELSE ir[i]]
    BY <1>3 DEF TickBegin
  <2> HIDE DEF F
  <2>3. rxbuf' \in [Sock -> Seq(Cell)] /\ rxpend' \in [Sock -> Seq(Cell)]
    BY <2>1, <2>2
  <2>4. ir' \in [Sock -> SUBSET Bits]
    BY <2>2 DEF Types, ChipTypes, Bits
  <2> QED
    BY <1>1, <2>3, <2>4 DEF Types, ChipTypes, RingTypes
<1> QED
  BY <1>2, <1>3

(* The event that apply_event takes.                                       *)
Oldest(e) == e \in Happened /\ e.sock \in Sock /\ e.gen \in Nat /\ evt # << >> /\ e = evt[1]

LEMMA AppliedEvent ==
    ASSUME RingTypes, NEW e, Applying(e)
    PROVE  /\ Oldest(e)
           /\ evt' = Tail(evt) /\ evt' \in Seq(Happened) /\ Len(evt') <= EvtCap
           /\ Len(evt') = Len(evt) - 1 /\ Len(evt) \in Nat \ {0}
           /\ \A k \in 1 .. Len(evt') : evt'[k] = evt[k + 1]
           /\ UNCHANGED <<emu, gen, mr, saved, saves, txn, taken, req, running, reqLost, evtLost>>
<1>1. evt \in Seq(Happened) /\ evt # << >> /\ evt' = Tail(evt) /\ e = Head(evt) /\ Len(evt) <= EvtCap
  BY DEF RingTypes, Applying
<1>2. /\ e \in Happened /\ e = evt[1] /\ evt' \in Seq(Happened) /\ Len(evt) \in Nat \ {0}
      /\ Len(evt') = Len(evt) - 1 /\ \A k \in 1 .. Len(evt') : evt'[k] = evt[k + 1]
  BY <1>1, TailFacts
<1>3. e.sock \in Sock /\ e.gen \in Nat
  BY <1>2 DEF Happened
<1>4. Len(evt') <= EvtCap
  BY <1>1, <1>2, SizeFacts
<1>5. UNCHANGED <<emu, gen, mr, saved, saves, txn, taken, req, running, reqLost, evtLost>>
  BY DEF Applying
<1> QED
  BY <1>1, <1>2, <1>3, <1>4, <1>5 DEF Oldest

LEMMA EventData ==
    ASSUME NEW e \in Happened
    PROVE  /\ e.evt \in {"RxTcp", "RxUdp"} => e.data \in Seq(Byte)
           /\ e.evt = "RxUdp" => e.data # << >>
           /\ e.evt \in {"RxTcp", "RxUdp", "Status", "SendDone", "MacRawRx"}
           /\ e.cause \in Cause /\ e.sock \in Sock /\ e.gen \in Nat
BY DEF Happened

LEMMA RaiseTypes ==
    ASSUME ir \in [Sock -> SUBSET Bits], NEW i \in Sock, NEW bits \in SUBSET Bits, Raise(i, bits)
    PROVE  ir' \in [Sock -> SUBSET Bits]
BY DEF Raise

LEMMA ApplyTypes ==
    ASSUME Types, ApplyEvent
    PROVE  (ChipTypes /\ RingTypes)'
<1> USE DEF Bits, Status
<1>0. PICK e : \/ ApplyStale(e) \/ ApplyStatus(e) \/ ApplyRxTcp(e)
               \/ ApplyRxUdp(e) \/ ApplyMacRaw(e) \/ ApplySendDone(e)
  BY DEF ApplyEvent
<1>1. Applying(e) /\ RingTypes
  BY <1>0 DEF Types, ApplyStale, ApplyStatus, ApplyRxTcp, ApplyRxUdp, ApplyMacRaw, ApplySendDone
<1>2. /\ Oldest(e) /\ evt' \in Seq(Happened) /\ Len(evt') <= EvtCap
      /\ UNCHANGED <<emu, gen, mr, saved, saves, txn, taken, req, running, reqLost, evtLost>>
  BY <1>1, AppliedEvent
<1> DEFINE i == e.sock
<1>3. i \in Sock /\ e \in Happened
  BY <1>2 DEF Oldest
<1>4. /\ sr \in [Sock -> Status] /\ ir \in [Sock -> SUBSET Bits] /\ rxbuf \in [Sock -> Seq(Cell)]
      /\ rxpend \in [Sock -> Seq(Cell)] /\ credit \in [Sock -> Int] /\ sendoks \in [Sock -> Nat]
  BY DEF Types, ChipTypes, RingTypes
<1> HIDE DEF i
<1> DEFINE Rest == /\ sr' \in [Sock -> Status] /\ ir' \in [Sock -> SUBSET Bits]
                   /\ rxbuf' \in [Sock -> Seq(Cell)] /\ rxpend' \in [Sock -> Seq(Cell)]
                   /\ credit' \in [Sock -> Int] /\ sendoks' \in [Sock -> Nat]
<1> SUFFICES Rest
  BY <1>2 DEF Types, ChipTypes, RingTypes
<1>5. CASE ApplyStale(e)
  BY <1>4, <1>5 DEF ApplyStale
<1>6. CASE ApplyStatus(e)
  <2>1. StatusOf(e.cause) \in Status
    BY DEF StatusOf
  <2>2. IrOf(e.cause) \subseteq Bits
    BY DEF IrOf
  <2>3. sr' = [sr EXCEPT ![i] = StatusOf(e.cause)] /\ ir' = [ir EXCEPT ![i] = @ \cup IrOf(e.cause)]
        /\ UNCHANGED <<rxbuf, sendoks>>
    BY <1>6 DEF ApplyStatus, Raise, i
  <2>4. /\ credit' = credit \/ credit' = [credit EXCEPT ![i] = 0]
        /\ rxpend' = rxpend \/ rxpend' = [rxpend EXCEPT ![i] = << >>]
    BY <1>6 DEF ApplyStatus, i
  <2>7. credit' \in [Sock -> Int]
    BY <1>3, <1>4, <2>4
  <2>8. << >> \in Seq(Cell)
    BY EmptySeq
  <2>5. credit' \in [Sock -> Int] /\ rxpend' \in [Sock -> Seq(Cell)]
    BY <1>3, <1>4, <2>4, <2>7, <2>8
  <2>6. sr' \in [Sock -> Status] /\ ir' \in [Sock -> SUBSET Bits]
    BY <1>3, <1>4, <2>1, <2>2, <2>3
  <2> QED
    BY <1>4, <2>3, <2>5, <2>6
<1>7. CASE ApplyRxTcp(e)
  <2> DEFINE f == Flushed(i, rxbuf[i], rxpend[i])
             g == Flushed(i, f.buf, e.data)
  <2>0. /\ rxbuf' = [rxbuf EXCEPT ![i] = g.buf] /\ rxpend' = [rxpend EXCEPT ![i] = f.pend \o g.pend]
        /\ Raise(i, IF g.buf # rxbuf[i] THEN {"RECV"} ELSE {}) /\ UNCHANGED <<sr, credit, sendoks>>
    BY <1>7 DEF ApplyRxTcp, i
  <2>1. f.buf \in Seq(Cell) /\ f.pend \in Seq(Cell)
    BY <1>3, <1>4, FlushedFacts
  <2> HIDE DEF f
  <2>2. e.data \in Seq(Cell)
    BY <1>3, <1>7, EventData, ByteCells DEF ApplyRxTcp
  <2>3. g.buf \in Seq(Cell) /\ g.pend \in Seq(Cell)
    BY <1>3, <2>1, <2>2, FlushedFacts
  <2> HIDE DEF g
  <2>4. f.pend \o g.pend \in Seq(Cell)
    BY <2>1, <2>3, ConcatProperties
  <2>5. rxbuf' \in [Sock -> Seq(Cell)] /\ rxpend' \in [Sock -> Seq(Cell)]
    BY <1>3, <1>4, <2>0, <2>3, <2>4
  <2>6. ir' \in [Sock -> SUBSET Bits]
    BY <1>3, <1>4, <2>0, RaiseTypes
  <2> QED
    BY <1>4, <2>0, <2>5, <2>6
<1>8. CASE ApplyRxUdp(e)
  <2> DEFINE b == rxbuf[i] \o (<<HeaderCell>> \o e.data)
  <2>0. /\ UNCHANGED <<sr, rxpend, credit, sendoks>>
        /\ rxbuf' = rxbuf \/ rxbuf' = [rxbuf EXCEPT ![i] = b]
        /\ ir' = ir \/ Raise(i, {"RECV"})
    BY <1>8 DEF ApplyRxUdp, i
  <2>1. e.data \in Seq(Cell)
    BY <1>3, <1>8, EventData, ByteCells DEF ApplyRxUdp
  <2>2. <<HeaderCell>> \in Seq(Cell)
    BY ByteCells
  <2>3. b \in Seq(Cell)
    BY <1>3, <1>4, <2>1, <2>2, ConcatProperties
  <2> HIDE DEF b
  <2>5. rxbuf' \in [Sock -> Seq(Cell)]
    BY <1>3, <1>4, <2>0, <2>3
  <2>6. ir' \in [Sock -> SUBSET Bits]
    BY <1>3, <1>4, <2>0, RaiseTypes
  <2> QED
    BY <1>4, <2>0, <2>5, <2>6
<1>9. CASE ApplyMacRaw(e)
  <2>0. PICK j \in Sock : /\ rxbuf' = rxbuf \/ rxbuf' = [rxbuf EXCEPT ![j] = @ \o <<HeaderCell, RawCell>>]
                          /\ ir' = ir \/ Raise(j, {"RECV"})
    BY <1>9, SizeFacts DEF ApplyMacRaw
  <2>1. UNCHANGED <<sr, rxpend, credit, sendoks>>
    BY <1>9 DEF ApplyMacRaw
  <2> DEFINE b == rxbuf[j] \o <<HeaderCell, RawCell>>
  <2>2. <<HeaderCell, RawCell>> \in Seq(Cell)
    BY ByteCells
  <2>3. b \in Seq(Cell)
    BY <1>4, <2>2, ConcatProperties
  <2>4. rxbuf' = rxbuf \/ rxbuf' = [rxbuf EXCEPT ![j] = b]
    BY <2>0
  <2> HIDE DEF b
  <2>5. rxbuf' \in [Sock -> Seq(Cell)]
    BY <1>4, <2>3, <2>4
  <2>6. ir' \in [Sock -> SUBSET Bits]
    BY <1>4, <2>0, RaiseTypes
  <2> QED
    BY <1>4, <2>1, <2>5, <2>6
<1>10. CASE ApplySendDone(e)
  <2>0. /\ UNCHANGED <<sr, rxbuf, rxpend, credit>>
        /\ \/ UNCHANGED sendoks \/ sendoks' = [sendoks EXCEPT ![i] = @ + 1]
        /\ \/ Raise(i, {"TIMEOUT"}) \/ Raise(i, {"SEND_OK"})
    BY <1>10 DEF ApplySendDone, i
  <2>1. sendoks' \in [Sock -> Nat]
    BY <1>3, <1>4, <2>0
  <2>2. ir' \in [Sock -> SUBSET Bits]
    BY <1>3, <1>4, <2>0, RaiseTypes
  <2> QED
    BY <1>4, <2>0, <2>1, <2>2
<1> QED
  BY <1>0, <1>5, <1>6, <1>7, <1>8, <1>9, <1>10

LEMMA SavedType ==
    ASSUME ChipTypes, saved # << >>
    PROVE  saved[1] \in Snap
<1>1. PICK s \in Snap : saved = <<s>>
  BY DEF ChipTypes, Saved
<1> QED
  BY <1>1

LEMMA SnapshotTypes ==
    ASSUME Types, Snapshot \/ RestoreBegin
    PROVE  (ChipTypes /\ RingTypes)'
<1>1. CASE Snapshot
  <2> DEFINE s == [sr |-> sr, gen |-> gen, mr |-> mr, ir |-> ir, rxbuf |-> rxbuf, rxpend |-> rxpend]
  <2>1. s \in Snap
    BY DEF Types, ChipTypes, Snap
  <2>2. saved' = <<s>> /\ saves' = saves + 1
    BY <1>1 DEF Snapshot
  <2>3. UNCHANGED <<emu, sr, gen, mr, ir, rxbuf, rxpend, txn, taken, sendoks,
                    req, evt, credit, running, reqLost, evtLost>>
    BY <1>1 DEF Snapshot, ghosts
  <2> HIDE DEF s
  <2>4. saved' \in Saved /\ saves' \in Nat
    BY <2>1, <2>2 DEF Saved, Types, ChipTypes
  <2> QED
    BY <2>3, <2>4 DEF Types, ChipTypes, RingTypes
<1>2. CASE RestoreBegin
  <2>1. saved[1] \in Snap
    BY <1>2, SavedType DEF RestoreBegin, Types
  <2>2. mr' \in [Sock -> Mode] /\ ir' \in [Sock -> SUBSET Bits]
    BY <1>2, <2>1 DEF RestoreBegin, Snap
  <2>3. saves' \in Nat /\ emu' \in Place
    BY <1>2, SizeFacts DEF RestoreBegin, Types, ChipTypes, Place
  <2>4. UNCHANGED <<sr, gen, rxbuf, rxpend, saved, txn, taken, sendoks,
                    req, evt, credit, running, reqLost, evtLost>>
    BY <1>2 DEF RestoreBegin, ghosts
  <2> QED
    BY <2>2, <2>3, <2>4 DEF Types, ChipTypes, RingTypes
<1> QED
  BY <1>1, <1>2

LEMMA StopTypes ==
    ASSUME Types, Stop \/ StopJoin
    PROVE  (ChipTypes /\ RingTypes)'
<1>0. emu' \in Place
  BY DEF Stop, StopJoin, Place
<1>1. running' \in BOOLEAN
  BY Zenon DEF Stop, StopJoin, Types, RingTypes
<1>2. req' \in Seq(Requested) /\ Len(req') <= ReqCap
  <2>1. req \in Seq(Requested) /\ Len(req) <= ReqCap /\ ReqCap \in Nat
    BY SizeFacts DEF Types, RingTypes
  <2> DEFINE r == Request("Shutdown", 0, 0, << >>)
  <2>2. r \in Requested
    <3>1. "Shutdown" \in Message /\ 0 \in Sock /\ 0 \in Nat /\ << >> \in Seq(Nat)
      BY SizeFacts, EmptySeq DEF Message
    <3> QED
      BY <3>1, RequestType
  <2>3. req' = req \/ req' = Offer(req, <<r>>, ReqCap)
    BY DEF Stop, StopJoin
  <2> HIDE DEF r
  <2>4. OneMore(Offer(req, <<r>>, ReqCap), Requested, req, r, ReqCap)
    BY <2>1, <2>2, OfferOne
  <2> QED
    BY <2>1, <2>3, <2>4 DEF OneMore
<1>3. UNCHANGED <<sr, gen, mr, ir, rxbuf, rxpend, saved, saves, txn, taken, sendoks,
                  evt, credit, reqLost, evtLost>>
  BY DEF Stop, StopJoin, ghosts
<1> QED
  BY <1>0, <1>1, <1>2, <1>3 DEF Types, ChipTypes, RingTypes

-----------------------------------------------------------------------------
(* A new generation of socket i: close_host, and what a restore posts      *)
(* after it.                                                               *)
Renewal(i, g, rs) ==
    /\ g \in gen[i] + 1 .. MaxGen /\ gen' = [gen EXCEPT ![i] = g]
    /\ rs \in Seq(Requested) /\ Post(i, g, rs)
    /\ credit' = [credit EXCEPT ![i] = 0]
    /\ Len(rs) \in 1 .. 2
    /\ rs[1].sock = i /\ rs[1].gen = gen[i] + 1 /\ rs[1].msg \in {"Close", "CloseHost"}
    /\ Len(rs) = 1 => g = gen[i] + 1
    /\ Len(rs) = 2 =>
          /\ rs[2].sock = i /\ rs[2].gen = g
          /\ \/ g = gen[i] + 2 /\ rs[2].msg = "CloseHost"
             \/ g = gen[i] + 1 /\ rs[2].msg \in {"OpenTcp", "OpenUdp", "AdoptListen"}

LEMMA CloseHostRenewal ==
    ASSUME Types, NEW i \in Sock, GenLeft(i), NEW how \in {"Close", "CloseHost"},
           CloseHost(i, gen[i] + 1, how)
    PROVE  Renewal(i, gen[i] + 1, <<Request(how, i, gen[i] + 1, << >>)>>)
<1> DEFINE g == gen[i] + 1
           r == Request(how, i, g, << >>)
           rs == <<r>>
<1>1. gen[i] \in Nat /\ g \in Nat /\ g \in gen[i] + 1 .. MaxGen
  BY SizeFacts DEF Types, ChipTypes, GenLeft
<1>2. r \in Requested
  <2>1. how \in Message /\ << >> \in Seq(Nat)
    BY EmptySeq DEF Message, DefinesGen
  <2> QED
    BY <1>1, <2>1, RequestType
<1>3. r.sock = i /\ r.gen = g /\ r.msg = how
  BY DEF Request
<1>4. gen' = [gen EXCEPT ![i] = g] /\ Post(i, g, <<r>>) /\ credit' = [credit EXCEPT ![i] = 0]
  BY DEF CloseHost
<1> HIDE DEF r
<1>5. rs \in Seq(Requested) /\ Len(rs) = 1 /\ rs[1] = r
  BY <1>2
<1> HIDE DEF rs
<1>6. /\ Len(rs) \in 1 .. 2 /\ rs[1].sock = i /\ rs[1].gen = gen[i] + 1
      /\ rs[1].msg \in {"Close", "CloseHost"} /\ ~(Len(rs) = 2)
  BY <1>3, <1>5
<1>7. Post(i, g, rs)
  BY <1>4 DEF rs
<1>8. Renewal(i, g, rs)
  <2> HIDE DEF g
  <2>1. g = gen[i] + 1
    BY DEF g
  <2> QED
    BY <1>1, <1>4, <1>5, <1>6, <1>7, <2>1 DEF Renewal
<1> QED
  BY <1>8 DEF rs, r

LEMMA RestoreGen ==
    ASSUME Types, GenOrder, NEW i \in Sock, emu = <<"restore", i>>
    PROVE  /\ saved # << >> /\ saved[1] \in Snap /\ RestoredGen(i) = gen[i] + 1
           /\ gen[i] \in Nat /\ gen[i] + 1 <= MaxGen /\ MaxGen \in Nat
           /\ saved[1].sr[i] = "LISTEN" => gen[i] + 2 <= MaxGen
<1>1. saved # << >> /\ emu[1] = "restore" /\ emu[2] = i
  BY DEF GenOrder, RestoreRoom
<1>2. saved[1] \in Snap
  BY <1>1, SavedType DEF Types
<1>3. saved[1].gen[i] \in Nat /\ gen[i] \in Nat /\ saved[1].gen[i] <= gen[i]
  BY <1>1, <1>2 DEF GenOrder, SavedOld, Snap, Types, ChipTypes
<1>4. RestoredGen(i) = gen[i] + 1
  BY <1>3 DEF RestoredGen, MaxOf
<1>5. gen[i] + (IF saved[1].sr[i] = "LISTEN" THEN 2 ELSE 1) <= MaxGen
  <2>1. i <= i
    BY SizeFacts
  <2> QED
    BY <1>1, <2>1 DEF GenOrder, RestoreRoom
<1> QED
  BY <1>1, <1>2, <1>3, <1>4, <1>5, SizeFacts

(* The state a restored socket is in, by the requests of its restore.      *)
RestoredAs(i, g, rs) ==
    /\ Renewal(i, g, rs)
    /\ \/ Len(rs) = 1 /\ sr' = [sr EXCEPT ![i] = "CLOSED"]
       \/ Len(rs) = 1 /\ sr' = [sr EXCEPT ![i] = saved[1].sr[i]]
          /\ saved[1].sr[i] \in {"CLOSED", "IPRAW", "MACRAW"}
       \/ Len(rs) = 2 /\ g = gen[i] + 2 /\ sr' = [sr EXCEPT ![i] = "CLOSED"]
       \/ Len(rs) = 2 /\ rs[2].msg = "OpenTcp" /\ sr' = [sr EXCEPT ![i] = "INIT"]
       \/ Len(rs) = 2 /\ rs[2].msg = "OpenUdp" /\ sr' = [sr EXCEPT ![i] = "UDP"]
       \/ Len(rs) = 2 /\ rs[2].msg = "AdoptListen" /\ sr' = [sr EXCEPT ![i] = "LISTEN"]
    /\ \E bits \in SUBSET Bits : ir' = [ir EXCEPT ![i] = @ \cup bits]
    /\ \/ rxpend' = [rxpend EXCEPT ![i] = << >>]
       \/ rxpend' = [rxpend EXCEPT ![i] = saved[1].rxpend[i]]

LEMMA GenNat ==
    ASSUME Types, NEW i \in Sock
    PROVE  gen[i] \in Nat /\ gen[i] \in 1 .. MaxGen
<1>1. gen \in [Sock -> 1 .. MaxGen]
  BY DEF Types, ChipTypes
<1> QED
  BY <1>1, SizeFacts

LEMMA PairRenewal ==
    ASSUME Types, NEW i \in Sock, NEW g \in gen[i] + 1 .. MaxGen,
           NEW m \in {"CloseHost", "OpenTcp", "OpenUdp", "AdoptListen"},
           IF m = "CloseHost" THEN g = gen[i] + 2 ELSE g = gen[i] + 1,
           gen' = [gen EXCEPT ![i] = g], credit' = [credit EXCEPT ![i] = 0],
           Post(i, g, <<Request("CloseHost", i, gen[i] + 1, << >>), Request(m, i, g, << >>)>>)
    PROVE  \E rs : Renewal(i, g, rs) /\ Len(rs) = 2 /\ rs[2].msg = m
<1> DEFINE a == Request("CloseHost", i, gen[i] + 1, << >>)
           b == Request(m, i, g, << >>)
           rs == <<a, b>>
<1>1. gen[i] \in Nat /\ g \in Nat /\ gen[i] + 1 \in Nat
  BY SizeFacts, GenNat
<1>2. a \in Requested /\ b \in Requested
  <2>1. "CloseHost" \in Message /\ m \in Message /\ << >> \in Seq(Nat)
    BY EmptySeq DEF Message, DefinesGen
  <2> QED
    BY <1>1, <2>1, RequestType
<1>3. a.sock = i /\ a.gen = gen[i] + 1 /\ a.msg = "CloseHost" /\ b.sock = i /\ b.gen = g /\ b.msg = m
  BY DEF Request
<1>4. Post(i, g, <<a, b>>)
  OBVIOUS
<1> HIDE DEF a, b
<1>5. rs \in Seq(Requested) /\ Len(rs) = 2 /\ rs[1] = a /\ rs[2] = b
  BY <1>2
<1>6. Post(i, g, rs)
  BY <1>4
<1> HIDE DEF rs
<1>7. Renewal(i, g, rs)
  BY <1>1, <1>3, <1>5, <1>6 DEF Renewal
<1> QED
  BY <1>3, <1>5, <1>7

LEMMA RestoreRenews ==
    ASSUME Types, GenOrder, NEW i \in Sock, Restore(i)
    PROVE  \E g, rs : RestoredAs(i, g, rs)
<1>1. /\ saved[1] \in Snap /\ RestoredGen(i) = gen[i] + 1
      /\ gen[i] \in Nat /\ gen[i] + 1 <= MaxGen /\ MaxGen \in Nat
      /\ saved[1].sr[i] = "LISTEN" => gen[i] + 2 <= MaxGen
  BY RestoreGen DEF Restore
<1>2. gen[i] + 1 \in gen[i] + 1 .. MaxGen /\ GenLeft(i)
  BY <1>1 DEF GenLeft
<1>3. ir \in [Sock -> SUBSET Bits]
  BY DEF Types, ChipTypes
<1>4. ir' = ir => \E bits \in SUBSET Bits : ir' = [ir EXCEPT ![i] = @ \cup bits]
  <2>1. ir = [ir EXCEPT ![i] = @ \cup {}]
    BY <1>3
  <2> QED
    BY <2>1
<1>5. CASE RestoreLost(i)
  <2> DEFINE r == Request("CloseHost", i, gen[i] + 1, << >>)
  <2>1. CloseHost(i, gen[i] + 1, "CloseHost") /\ sr' = [sr EXCEPT ![i] = "CLOSED"] /\ Raise(i, {"DISCON"})
    BY <1>1, <1>5 DEF RestoreLost
  <2>2. Renewal(i, gen[i] + 1, <<r>>)
    BY <1>2, <2>1, CloseHostRenewal
  <2>3. rxpend' = [rxpend EXCEPT ![i] = << >>]
    BY <2>1 DEF CloseHost
  <2> HIDE DEF r
  <2>4. Len(<<r>>) = 1
    OBVIOUS
  <2>5. \E bits \in SUBSET Bits : ir' = [ir EXCEPT ![i] = @ \cup bits]
    <3>1. {"DISCON"} \in SUBSET Bits
      BY DEF Bits
    <3> QED
      BY <2>1, <3>1 DEF Raise
  <2>6. RestoredAs(i, gen[i] + 1, <<r>>)
    BY <2>1, <2>2, <2>3, <2>4, <2>5, Zenon DEF RestoredAs
  <2> QED
    BY <2>6
<1>6. CASE RestoreOpen(i)
  <2> DEFINE m == IF saved[1].sr[i] = "INIT" THEN "OpenTcp" ELSE "OpenUdp"
             g == gen[i] + 1
  <2>1. /\ gen' = [gen EXCEPT ![i] = g] /\ credit' = [credit EXCEPT ![i] = 0]
        /\ Post(i, g, <<Request("CloseHost", i, g, << >>), Request(m, i, g, << >>)>>)
        /\ rxpend' = [rxpend EXCEPT ![i] = saved[1].rxpend[i]]
        /\ sr' = [sr EXCEPT ![i] = saved[1].sr[i]] /\ ir' = ir
    BY <1>1, <1>6 DEF RestoreOpen
  <2>2. \/ m = "OpenTcp" /\ saved[1].sr[i] = "INIT"
        \/ m = "OpenUdp" /\ saved[1].sr[i] = "UDP"
    BY <1>6 DEF RestoreOpen
  <2> HIDE DEF m
  <2>3. m \in {"CloseHost", "OpenTcp", "OpenUdp", "AdoptListen"} /\ m # "CloseHost"
    BY <2>2
  <2>4. PICK rs : Renewal(i, g, rs) /\ Len(rs) = 2 /\ rs[2].msg = m
    BY <1>2, <2>1, <2>3, PairRenewal
  <2>5. RestoredAs(i, g, rs)
    BY <1>4, <2>1, <2>2, <2>4, Zenon DEF RestoredAs
  <2> QED
    BY <2>5
<1>7. CASE RestoreListen(i)
  <2> DEFINE g == gen[i] + 1
             h == gen[i] + 2
  <2>0. RestoredGen(i) + 1 = h /\ h \in gen[i] + 1 .. MaxGen
    BY <1>1, <1>7 DEF RestoreListen
  <2>1. CASE /\ gen' = [gen EXCEPT ![i] = g] /\ credit' = [credit EXCEPT ![i] = 0]
             /\ Post(i, g, <<Request("CloseHost", i, g, << >>), Request("AdoptListen", i, g, << >>)>>)
             /\ rxpend' = [rxpend EXCEPT ![i] = saved[1].rxpend[i]]
             /\ sr' = [sr EXCEPT ![i] = "LISTEN"] /\ ir' = ir
    <3>1. "AdoptListen" \in {"CloseHost", "OpenTcp", "OpenUdp", "AdoptListen"} /\ "AdoptListen" # "CloseHost"
      OBVIOUS
    <3>2. PICK rs : Renewal(i, g, rs) /\ Len(rs) = 2 /\ rs[2].msg = "AdoptListen"
      BY <1>2, <2>1, <3>1, PairRenewal
    <3>3. RestoredAs(i, g, rs)
      BY <1>4, <2>1, <3>2, Zenon DEF RestoredAs
    <3> QED
      BY <3>3
  <2>2. CASE /\ gen' = [gen EXCEPT ![i] = h] /\ credit' = [credit EXCEPT ![i] = 0]
             /\ Post(i, h, <<Request("CloseHost", i, g, << >>), Request("CloseHost", i, h, << >>)>>)
             /\ rxpend' = [rxpend EXCEPT ![i] = << >>]
             /\ sr' = [sr EXCEPT ![i] = "CLOSED"] /\ Raise(i, {"TIMEOUT"})
    <3>1. PICK rs : Renewal(i, h, rs) /\ Len(rs) = 2 /\ rs[2].msg = "CloseHost"
      BY <2>0, <2>2, PairRenewal
    <3>2. \E bits \in SUBSET Bits : ir' = [ir EXCEPT ![i] = @ \cup bits]
      <4>1. {"TIMEOUT"} \in SUBSET Bits
        BY DEF Bits
      <4> QED
        BY <2>2, <4>1 DEF Raise
    <3>3. RestoredAs(i, h, rs)
      BY <2>2, <3>1, <3>2, Zenon DEF RestoredAs
    <3> QED
      BY <3>3
  <2> QED
    BY <1>1, <1>7, <2>0, <2>1, <2>2 DEF RestoreListen
<1>8. CASE RestoreOther(i)
  <2> DEFINE g == gen[i] + 1
             r == Request("CloseHost", i, g, << >>)
  <2>1. /\ gen' = [gen EXCEPT ![i] = g] /\ credit' = [credit EXCEPT ![i] = 0] /\ Post(i, g, <<r>>)
        /\ rxpend' = [rxpend EXCEPT ![i] = saved[1].rxpend[i]]
        /\ sr' = [sr EXCEPT ![i] = saved[1].sr[i]] /\ ir' = ir
        /\ saved[1].sr[i] \in {"CLOSED", "IPRAW", "MACRAW"}
    BY <1>1, <1>8 DEF RestoreOther
  <2>2. r \in Requested
    <3>1. "CloseHost" \in Message /\ g \in Nat /\ << >> \in Seq(Nat)
      BY <1>1, EmptySeq DEF Message, DefinesGen
    <3> QED
      BY <3>1, RequestType
  <2>3. r.sock = i /\ r.gen = g /\ r.msg = "CloseHost"
    BY DEF Request
  <2> HIDE DEF r
  <2> DEFINE rs == <<r>>
  <2>4. rs \in Seq(Requested) /\ Len(rs) = 1 /\ rs[1] = r
    BY <2>2
  <2>5. Post(i, g, rs)
    BY <2>1
  <2> HIDE DEF rs
  <2>6. Renewal(i, g, rs)
    BY <1>1, <1>2, <2>1, <2>3, <2>4, <2>5 DEF Renewal
  <2>7. RestoredAs(i, g, rs)
    BY <1>4, <2>1, <2>4, <2>6, Zenon DEF RestoredAs
  <2> QED
    BY <2>7
<1> QED
  BY <1>5, <1>6, <1>7, <1>8 DEF Restore

LEMMA RenewalTypes ==
    ASSUME Types, NEW i \in Sock, NEW g, NEW rs, Renewal(i, g, rs)
    PROVE  /\ gen' \in [Sock -> 1 .. MaxGen] /\ credit' \in [Sock -> Int]
           /\ req' \in Seq(Requested) /\ Len(req') <= ReqCap /\ reqLost' \in [Sock -> Nat]
<1>1. gen \in [Sock -> 1 .. MaxGen] /\ credit \in [Sock -> Int] /\ RingTypes /\ gen[i] \in Nat
  BY DEF Types, ChipTypes, RingTypes
<1>2. g \in 1 .. MaxGen /\ g \in Nat
  BY <1>1, SizeFacts DEF Renewal
<1>3. rs \in Seq(Requested) /\ Post(i, g, rs)
  BY DEF Renewal
<1>4. req' \in Seq(Requested) /\ Len(req') \in Len(req) .. ReqCap /\ Len(req) \in Nat
      /\ reqLost' \in [Sock -> Nat]
  BY <1>1, <1>2, <1>3, PostFacts
<1>5. gen' \in [Sock -> 1 .. MaxGen] /\ credit' \in [Sock -> Int]
  BY <1>1, <1>2 DEF Renewal
<1> QED
  BY <1>4, <1>5, SizeFacts

LEMMA RestoreTypes ==
    ASSUME Types, GenOrder, NEW i \in Sock, Restore(i)
    PROVE  (ChipTypes /\ RingTypes)'
<1>1. PICK g, rs : RestoredAs(i, g, rs)
  BY RestoreRenews
<1>2. Renewal(i, g, rs)
  BY <1>1 DEF RestoredAs
<1>3. /\ gen' \in [Sock -> 1 .. MaxGen] /\ credit' \in [Sock -> Int]
      /\ req' \in Seq(Requested) /\ Len(req') <= ReqCap /\ reqLost' \in [Sock -> Nat]
  BY <1>2, RenewalTypes
<1>4. saved[1] \in Snap
  BY RestoreGen DEF Restore
<1>5. sr' \in [Sock -> Status]
  <2>1. PICK s \in Status : sr' = [sr EXCEPT ![i] = s]
    BY <1>1, <1>4 DEF RestoredAs, Snap, Status
  <2> QED
    BY <2>1 DEF Types, ChipTypes
<1>6. ir' \in [Sock -> SUBSET Bits]
  BY <1>1 DEF RestoredAs, Types, ChipTypes
<1>7. rxpend' \in [Sock -> Seq(Cell)] /\ rxbuf' \in [Sock -> Seq(Cell)]
  <2>1. saved[1].rxpend[i] \in Seq(Cell) /\ saved[1].rxbuf[i] \in Seq(Cell) /\ << >> \in Seq(Cell)
    BY <1>4, EmptySeq DEF Snap
  <2>2. rxbuf' = [rxbuf EXCEPT ![i] = saved[1].rxbuf[i]]
    BY DEF Restore
  <2>3. PICK p \in Seq(Cell) : rxpend' = [rxpend EXCEPT ![i] = p]
    BY <1>1, <2>1 DEF RestoredAs
  <2> QED
    BY <2>1, <2>2, <2>3 DEF Types, ChipTypes
<1>8. emu' \in Place
  BY DEF Restore, NextRestore, Place
<1>9. txn' \in [Sock -> Nat] /\ taken' \in [Sock -> Int] /\ sendoks' \in [Sock -> Nat]
  BY DEF Restore, Types, ChipTypes
<1>10. UNCHANGED <<mr, saved, saves, evt, running, evtLost>>
  BY DEF Restore
<1> QED
  BY <1>3, <1>5, <1>6, <1>7, <1>8, <1>9, <1>10 DEF Types, ChipTypes, RingTypes

-----------------------------------------------------------------------------
(* The worker.                                                             *)

Descriptor == {"none", "tcp", "listen", "udp"}
HostTypes ==
    /\ wfd \in [Sock -> Descriptor] /\ wst \in [Sock -> Status] /\ txp \in [Sock -> Seq(Nat)]
    /\ peer \in [Sock -> {"none", "up", "fin", "rst"}] /\ kin \in [Sock -> Seq(Byte)]
    /\ psent \in [Sock -> Nat]

EventRingTypes == evt \in Seq(Happened) /\ Len(evt) <= EvtCap /\ evtLost \in [Sock -> Nat]

LEMMA WorkerParts ==
    ASSUME Types
    PROVE  /\ HostTypes /\ EventRingTypes /\ wgen \in [Sock -> 0 .. MaxGen]
           /\ hostgot \in [Sock -> Seq(Nat)] /\ \A i \in Sock : wgen[i] \in Nat /\ gen[i] \in Nat
<1>1. HostTypes /\ EventRingTypes /\ wgen \in [Sock -> 0 .. MaxGen] /\ hostgot \in [Sock -> Seq(Nat)]
  BY DEF Types, WorkerTypes, RingTypes, HostTypes, EventRingTypes, Descriptor
<1>2. \A i \in Sock : wgen[i] \in Nat /\ gen[i] \in Nat
  BY <1>1, SizeFacts, GenNat
<1> QED
  BY <1>1, <1>2

LEMMA NewStateTypes ==
    ASSUME Types, NEW i \in Sock, NEW fd \in Descriptor, NEW st \in Status, NewState(i, fd, st)
    PROVE  HostTypes'
<1>1. HostTypes
  BY DEF Types, WorkerTypes, HostTypes, Descriptor
<1>2. << >> \in Seq(Nat) /\ << >> \in Seq(Byte)
  BY EmptySeq
<1>3. wfd' \in [Sock -> Descriptor] /\ wst' \in [Sock -> Status] /\ psent' \in [Sock -> Nat]
  BY <1>1 DEF NewState, HostTypes
<1>4. txp' \in [Sock -> Seq(Nat)] /\ kin' \in [Sock -> Seq(Byte)]
  BY <1>1, <1>2 DEF NewState, HostTypes
<1>5. peer' \in [Sock -> {"none", "up", "fin", "rst"}]
  BY <1>1 DEF NewState, HostTypes
<1> QED
  BY <1>3, <1>4, <1>5 DEF HostTypes

(* CloseState keeps the types.                                             *)
LEMMA CloseStateTypes ==
    ASSUME Types, NEW i \in Sock, CloseState(i)
    PROVE  HostTypes'
<1>1. "none" \in Descriptor /\ "CLOSED" \in Status
  BY DEF Descriptor, Status
<1> QED
  BY <1>1, NewStateTypes DEF CloseState

LEMMA StatusEventType ==
    ASSUME Types, NEW i \in Sock, NEW g \in Nat, NEW c \in Cause
    PROVE  StatusEvent(i, g, c) \in Happened
BY EventType DEF StatusEvent

LEMMA PostEventTypes ==
    ASSUME Types, NEW e \in Happened, PostEvent(e)
    PROVE  EventRingTypes'
<1>1. OneMore(evt', Happened, evt, e, EvtCap) /\ evtLost' \in [Sock -> Nat]
  BY PostEventOne DEF Types
<1> QED
  BY <1>1, SizeFacts DEF OneMore, EventRingTypes

LEMMA NoEventTypes ==
    ASSUME Types, NoEvent
    PROVE  EventRingTypes'
BY DEF NoEvent, Types, RingTypes, EventRingTypes

(* The request that handle_request takes.                                  *)
LEMMA TakenRequest ==
    ASSUME Types, req # << >>, req' = Tail(req)
    PROVE  /\ Head(req) \in Requested /\ Head(req) = req[1] /\ Head(req).sock \in Sock
           /\ Head(req).gen \in Nat /\ Head(req).data \in Seq(Nat)
           /\ req' \in Seq(Requested) /\ Len(req') <= ReqCap /\ Len(req) \in Nat \ {0}
           /\ Len(req') = Len(req) - 1 /\ \A k \in 1 .. Len(req') : req'[k] = req[k + 1]
<1>1. req \in Seq(Requested) /\ Len(req) <= ReqCap
  BY DEF Types, RingTypes
<1>2. /\ Head(req) \in Requested /\ Head(req) = req[1] /\ req' \in Seq(Requested)
      /\ Len(req) \in Nat \ {0} /\ Len(req') = Len(req) - 1
      /\ \A k \in 1 .. Len(req') : req'[k] = req[k + 1]
  BY <1>1, TailFacts
<1>3. Head(req).sock \in Sock /\ Head(req).gen \in Nat /\ Head(req).data \in Seq(Nat)
  BY <1>2 DEF Requested
<1> QED
  BY <1>1, <1>2, <1>3, SizeFacts

LEMMA WorkerLoopTypes ==
    ASSUME Types, Wake \/ ExitNotRunning \/ ExitShutdown \/ Drained
    PROVE  (WorkerTypes /\ RingTypes)'
<1>1. req' \in Seq(Requested) /\ Len(req') <= ReqCap
  BY TakenRequest DEF Wake, ExitNotRunning, ExitShutdown, Drained, Finish, Types, RingTypes
<1>2. UNCHANGED <<wgen, wcred, wgot, wshort, psent, hostgot, frames,
                  evt, credit, running, reqLost, evtLost>>
  BY DEF Wake, ExitNotRunning, ExitShutdown, Drained, Finish, sockVars, recvVars, hostVars
<1>3. wpc' \in {"top", "drain", "poll", "flush", "recv", "take", "post", "slirp", "done"}
      /\ wi' \in Sock
  BY SizeFacts DEF Wake, ExitNotRunning, ExitShutdown, Drained, Finish, Types, WorkerTypes
<1>4. \/ UNCHANGED <<wfd, wst, txp, peer, kin>>
      \/ Finish
  BY DEF Wake, ExitNotRunning, ExitShutdown, Drained, sockVars, hostVars
<1>5. << >> \in Seq(Nat) /\ << >> \in Seq(Byte)
  BY EmptySeq
<1>6. /\ wfd' \in [Sock -> {"none", "tcp", "listen", "udp"}] /\ wst' \in [Sock -> Status]
      /\ txp' \in [Sock -> Seq(Nat)] /\ kin' \in [Sock -> Seq(Byte)]
      /\ peer' \in [Sock -> {"none", "up", "fin", "rst"}]
  <2>1. CASE UNCHANGED <<wfd, wst, txp, peer, kin>>
    BY <2>1 DEF Types, WorkerTypes
  <2>2. CASE Finish
    BY <1>5, <2>2 DEF Finish, Status
  <2> QED
    BY <1>4, <2>1, <2>2
<1> QED
  BY <1>1, <1>2, <1>3, <1>6 DEF Types, WorkerTypes, RingTypes

(* The oldest request r is of socket i, and no newer than the chip.        *)
OldestRequest(r, i) ==
    /\ r = req[1] /\ r = Head(req) /\ r \in Requested /\ i = r.sock /\ i \in Sock
    /\ r.gen \in Nat /\ r.data \in Seq(Nat) /\ Len(req) \in Nat \ {0}
    /\ r.gen \in wgen[i] .. gen[i] /\ r.gen \in 0 .. MaxGen

LEMMA TakingFacts ==
    ASSUME Types, GenOrder, NEW msgs, "Shutdown" \notin msgs, Taking(msgs)
    PROVE  /\ OldestRequest(Head(req), Head(req).sock) /\ Head(req).msg \in msgs
           /\ req # << >> /\ req' = Tail(req)
           /\ req' \in Seq(Requested) /\ Len(req') <= ReqCap
           /\ UNCHANGED <<wpc, wi, wcred, wgot, wshort, frames, credit, running, reqLost>>
<1>1. req # << >> /\ req' = Tail(req) /\ Head(req).msg \in msgs
  BY DEF Taking
<1>2. /\ Head(req) \in Requested /\ Head(req) = req[1] /\ Head(req).sock \in Sock
      /\ Head(req).gen \in Nat /\ Head(req).data \in Seq(Nat)
      /\ req' \in Seq(Requested) /\ Len(req') <= ReqCap /\ Len(req) \in Nat \ {0}
  BY <1>1, TakenRequest
<1> DEFINE r == Head(req)
           i == r.sock
<1>3. r.msg # "Shutdown" /\ 1 \in 1 .. Len(req) /\ r = req[1] /\ i \in Sock
  BY <1>1, <1>2
<1> HIDE DEF r
<1>4. r.gen \in wgen[i] .. gen[i]
  BY <1>3 DEF GenOrder, GenerationOrder
<1>5. r.gen \in 0 .. MaxGen
  <2>1. gen[i] \in 1 .. MaxGen /\ wgen[i] \in 0 .. MaxGen /\ MaxGen \in Nat
    BY <1>3, SizeFacts DEF Types, ChipTypes, WorkerTypes
  <2> QED
    BY <1>4, <2>1
<1>6. UNCHANGED <<wpc, wi, wcred, wgot, wshort, frames, credit, running, reqLost>>
  BY DEF Taking, recvVars
<1> QED
  BY <1>1, <1>2, <1>4, <1>5, <1>6 DEF OldestRequest, r

LEMMA FlushTcpTxTypes ==
    ASSUME Types, NEW i \in Sock, NEW b \in Seq(Nat), FlushTcpTx(i, b)
    PROVE  HostTypes' /\ EventRingTypes' /\ hostgot' \in [Sock -> Seq(Nat)]
<1>1. HostTypes /\ hostgot \in [Sock -> Seq(Nat)] /\ wgen[i] \in Nat /\ Len(b) \in Nat
  BY WorkerParts, LenProperties
<1>2. "None" \in Cause /\ "Reset" \in Cause /\ << >> \in Seq(Nat)
  BY EmptySeq DEF Cause
<1>3. CASE /\ hostgot' = [hostgot EXCEPT ![i] = @ \o b]
           /\ txp' = [txp EXCEPT ![i] = << >>]
           /\ PostEvent(Event("SendDone", i, wgen[i], "None", << >>))
           /\ UNCHANGED <<wfd, wst, peer, kin, psent>>
  <2>1. Event("SendDone", i, wgen[i], "None", << >>) \in Happened
    BY <1>1, <1>2, EventType
  <2>2. EventRingTypes'
    BY <1>3, <2>1, PostEventTypes
  <2>3. hostgot[i] \o b \in Seq(Nat)
    BY <1>1, ConcatProperties
  <2>4. hostgot' \in [Sock -> Seq(Nat)]
    BY <1>1, <1>3, <2>3
  <2>5. HostTypes'
    BY <1>1, <1>2, <1>3 DEF HostTypes
  <2> QED
    BY <2>2, <2>4, <2>5
<1>4. ASSUME NEW n \in 0 .. (Len(b) - 1),
             hostgot' = [hostgot EXCEPT ![i] = @ \o SubSeq(b, 1, n)],
             txp' = [txp EXCEPT ![i] = SubSeq(b, n + 1, Len(b))],
             NoEvent, UNCHANGED <<wfd, wst, peer, kin, psent>>
      PROVE  HostTypes' /\ EventRingTypes' /\ hostgot' \in [Sock -> Seq(Nat)]
  <2>1. SubSeq(b, 1, n) \in Seq(Nat) /\ SubSeq(b, n + 1, Len(b)) \in Seq(Nat)
    BY <1>1, SubSeqProperties
  <2>2. hostgot[i] \o SubSeq(b, 1, n) \in Seq(Nat)
    BY <1>1, <2>1, ConcatProperties
  <2>3. hostgot' \in [Sock -> Seq(Nat)]
    BY <1>1, <1>4, <2>2
  <2>4. HostTypes'
    BY <1>1, <1>4, <2>1 DEF HostTypes
  <2> QED
    BY <1>4, <2>3, <2>4, NoEventTypes
<1>5. CASE /\ CloseState(i)
           /\ PostEvent(StatusEvent(i, wgen[i], "Reset"))
           /\ UNCHANGED hostgot
  BY <1>1, <1>2, <1>5, CloseStateTypes, StatusEventType, PostEventTypes
<1> QED
  BY <1>3, <1>4, <1>5 DEF FlushTcpTx

LEMMA HandleTypes ==
    ASSUME Types, GenOrder, Requests
    PROVE  (WorkerTypes /\ RingTypes)'
<1> DEFINE r == Head(req)
           i == r.sock
           Msgs == {"Connect", "SendTcp", "SendUdp", "OpenTcp", "OpenUdp", "AdoptListen",
                    "Close", "CloseHost"} \cup RawTx
           Rest == HostTypes' /\ EventRingTypes' /\ wgen' \in [Sock -> 0 .. MaxGen]
                   /\ hostgot' \in [Sock -> Seq(Nat)]
<1>1. Taking(Msgs)
  BY DEF Requests, HandleLeftover, HandleOpen, HandleAdoptListen, HandleClose, HandleConnect,
         HandleSendTcp, HandleSendDatagram, Taking, RawTx
<1>2. "Shutdown" \notin Msgs
  BY DEF RawTx
<1> HIDE DEF Msgs
<1>3. /\ OldestRequest(r, i) /\ req' \in Seq(Requested) /\ Len(req') <= ReqCap
      /\ UNCHANGED <<wpc, wi, wcred, wgot, wshort, frames, credit, running, reqLost>>
  BY <1>1, <1>2, TakingFacts
<1> SUFFICES Rest
  BY <1>3 DEF Types, WorkerTypes, RingTypes, HostTypes, EventRingTypes, Descriptor
<1>4. i \in Sock /\ r.gen \in 0 .. MaxGen /\ r.gen \in Nat /\ r.data \in Seq(Nat)
  BY <1>3 DEF OldestRequest
<1>5. /\ HostTypes /\ EventRingTypes /\ wgen \in [Sock -> 0 .. MaxGen]
      /\ hostgot \in [Sock -> Seq(Nat)] /\ wgen[i] \in Nat
  BY <1>4, WorkerParts
<1>6. << >> \in Seq(Nat) /\ "None" \in Cause /\ "Failed" \in Cause /\ "Connected" \in Cause
  BY EmptySeq DEF Cause
<1>7. {"INIT", "UDP", "LISTEN", "CLOSED", "ESTABLISHED", "SYNSENT"} \subseteq Status
  BY DEF Status
<1> HIDE DEF r, i
<1>8. CASE HandleLeftover
  BY <1>5, <1>8, NoEventTypes DEF HandleLeftover, sockVars, HostTypes
<1>9. CASE HandleOpen
  <2>1. wgen' = [wgen EXCEPT ![i] = r.gen] /\ hostgot' = [hostgot EXCEPT ![i] = << >>]
    BY <1>9 DEF HandleOpen, r, i
  <2>2. wgen' \in [Sock -> 0 .. MaxGen] /\ hostgot' \in [Sock -> Seq(Nat)]
    BY <1>4, <1>5, <1>6, <2>1
  <2>3. \/ NewState(i, "tcp", "INIT") /\ NoEvent
        \/ NewState(i, "udp", "UDP") /\ NoEvent
        \/ CloseState(i) /\ PostEvent(StatusEvent(i, r.gen, "Failed"))
    BY <1>9 DEF HandleOpen, r, i
  <2>4. HostTypes'
    BY <1>4, <1>7, <2>3, NewStateTypes, CloseStateTypes DEF Descriptor
  <2>5. EventRingTypes'
    BY <1>4, <1>6, <2>3, NoEventTypes, StatusEventType, PostEventTypes
  <2> QED
    BY <2>2, <2>4, <2>5
<1>10. CASE HandleAdoptListen \/ HandleClose
  <2>1. wgen' = [wgen EXCEPT ![i] = r.gen] /\ hostgot' = [hostgot EXCEPT ![i] = << >>] /\ NoEvent
    BY <1>10 DEF HandleAdoptListen, HandleClose, r, i
  <2>2. wgen' \in [Sock -> 0 .. MaxGen] /\ hostgot' \in [Sock -> Seq(Nat)]
    BY <1>4, <1>5, <1>6, <2>1
  <2>3. NewState(i, "listen", "LISTEN") \/ CloseState(i)
    BY <1>10 DEF HandleAdoptListen, HandleClose, r, i
  <2>4. HostTypes'
    BY <1>4, <1>7, <2>3, NewStateTypes, CloseStateTypes DEF Descriptor
  <2> QED
    BY <2>1, <2>2, <2>4, NoEventTypes
<1>11. CASE HandleConnect
  <2>1. wgen' = wgen /\ hostgot' = hostgot
    BY <1>11 DEF HandleConnect
  <2>2. \/ NoEvent /\ UNCHANGED <<wfd, wst, txp, peer, kin, psent>>
        \/ /\ wst' = [wst EXCEPT ![i] = "ESTABLISHED"]
           /\ peer' = [peer EXCEPT ![i] = "up"]
           /\ PostEvent(StatusEvent(i, wgen[i], "Connected"))
           /\ UNCHANGED <<wfd, txp, kin, psent>>
        \/ /\ wst' = [wst EXCEPT ![i] = "SYNSENT"]
           /\ NoEvent
           /\ UNCHANGED <<wfd, txp, peer, kin, psent>>
        \/ CloseState(i) /\ PostEvent(StatusEvent(i, wgen[i], "Failed"))
    BY <1>11 DEF HandleConnect, r, i
  <2>3. EventRingTypes'
    BY <1>4, <1>5, <1>6, <2>2, NoEventTypes, StatusEventType, PostEventTypes
  <2>4. CASE CloseState(i)
    BY <1>4, <1>5, <2>1, <2>3, <2>4, CloseStateTypes
  <2>5. CASE UNCHANGED <<wfd, txp, kin, psent>> /\ (peer' = peer \/ peer' = [peer EXCEPT ![i] = "up"])
             /\ \/ wst' = wst
                \/ wst' = [wst EXCEPT ![i] = "ESTABLISHED"]
                \/ wst' = [wst EXCEPT ![i] = "SYNSENT"]
    <3>1. wst' \in [Sock -> Status]
      BY <1>5, <1>7, <2>5 DEF HostTypes
    <3>2. peer' \in [Sock -> {"none", "up", "fin", "rst"}]
      BY <1>5, <2>5 DEF HostTypes
    <3> QED
      BY <1>5, <2>1, <2>3, <2>5, <3>1, <3>2 DEF HostTypes
  <2> QED
    BY <2>2, <2>4, <2>5
<1>12. CASE HandleSendTcp
  <2>1. wgen' = wgen
    BY <1>12 DEF HandleSendTcp
  <2>2. \/ FlushTcpTx(i, txp[i] \o r.data)
        \/ NoEvent /\ UNCHANGED <<wfd, wst, txp, peer, kin, psent, hostgot>>
    BY <1>12 DEF HandleSendTcp, r, i
  <2>3. CASE FlushTcpTx(i, txp[i] \o r.data)
    <3>1. txp[i] \o r.data \in Seq(Nat)
      BY <1>4, <1>5, ConcatProperties DEF HostTypes
    <3> QED
      BY <1>4, <1>5, <2>1, <2>3, <3>1, FlushTcpTxTypes
  <2>4. CASE NoEvent /\ UNCHANGED <<wfd, wst, txp, peer, kin, psent, hostgot>>
    BY <1>5, <2>1, <2>4, NoEventTypes DEF HostTypes
  <2> QED
    BY <2>2, <2>3, <2>4
<1>13. CASE HandleSendDatagram
  <2>1. UNCHANGED <<wgen, wfd, wst, txp, peer, kin, psent, hostgot>>
    BY <1>13 DEF HandleSendDatagram, sockVars
  <2>2. NoEvent \/ \E cause \in {"None", "Failed"} :
                       PostEvent(Event("SendDone", i, r.gen, cause, << >>))
    BY <1>13 DEF HandleSendDatagram, r, i
  <2>3. EventRingTypes'
    BY <1>4, <1>6, <2>2, NoEventTypes, EventType, PostEventTypes
  <2> QED
    BY <1>5, <2>1, <2>3 DEF HostTypes
<1> QED
  BY <1>8, <1>9, <1>10, <1>11, <1>12, <1>13 DEF Requests

Counter == {"top", "drain", "poll", "flush", "recv", "take", "post", "slirp", "done"}
RecvTypesOk == wcred \in Int /\ wgot \in Seq(Byte) /\ wshort \in BOOLEAN

LEMMA NextSockTypes ==
    ASSUME Types, NextSock
    PROVE  wpc' \in Counter /\ wi' \in Sock
BY DEF NextSock, Counter, Types, WorkerTypes

LEMMA PollTypes ==
    ASSUME Types, Poll
    PROVE  (WorkerTypes /\ RingTypes)'
<1> DEFINE i == wi
           Rest == /\ wpc' \in Counter /\ wi' \in Sock /\ HostTypes' /\ EventRingTypes'
                   /\ hostgot' \in [Sock -> Seq(Nat)] /\ credit' \in [Sock -> Int]
                   /\ RecvTypesOk' /\ frames' \in Nat
<1>1. UNCHANGED <<wgen, req, running, reqLost>>
  BY DEF Poll, Polling, PollInvalid, PollConnecting, PollConnectDone, PollListening, PollOpen,
         PollFlush, PollNoFlush, PollNoRecv, PollLoadCredit, PollTake, PollPost, PollEof,
         PollRecvError, PollUdp, Slirp, sockVars
<1> SUFFICES Rest
  BY <1>1 DEF Types, WorkerTypes, RingTypes, HostTypes, EventRingTypes, Descriptor, Counter, RecvTypesOk
<1>2. /\ i \in Sock /\ wpc \in Counter /\ credit \in [Sock -> Int] /\ RecvTypesOk /\ frames \in Nat
  BY DEF Types, WorkerTypes, RingTypes, Counter, RecvTypesOk
<1>3. HostTypes /\ EventRingTypes /\ hostgot \in [Sock -> Seq(Nat)] /\ wgen[i] \in Nat /\ wgen[0] \in Nat
  BY <1>2, WorkerParts, SizeFacts
<1>4. /\ "None" \in Cause /\ "Failed" \in Cause /\ "Connected" \in Cause /\ "Reset" \in Cause
      /\ "RemoteClosed" \in Cause /\ "ESTABLISHED" \in Status /\ "CLOSE_WAIT" \in Status
      /\ "flush" \in Counter /\ "recv" \in Counter /\ "take" \in Counter /\ "post" \in Counter
      /\ "top" \in Counter
  BY DEF Cause, Status, Counter
<1>5. << >> \in Seq(Byte)
  BY EmptySeq
<1> HIDE DEF i
<1>6. CASE PollInvalid \/ PollConnecting \/ PollNoRecv
  <2>1. NextSock /\ NoEvent /\ UNCHANGED <<wfd, wst, txp, wcred, wgot, wshort, peer, kin, psent,
                                           credit, hostgot, frames>>
    BY <1>6 DEF PollInvalid, PollConnecting, PollNoRecv, Polling, recvVars
  <2> QED
    BY <1>2, <1>3, <2>1, NoEventTypes, NextSockTypes DEF HostTypes, RecvTypesOk
<1>7. CASE PollOpen \/ PollNoFlush
  <2>1. /\ wpc' \in Counter /\ wi' = wi /\ NoEvent
        /\ UNCHANGED <<wfd, wst, txp, wcred, wgot, wshort, peer, kin, psent, credit, hostgot, frames>>
    BY <1>4, <1>7 DEF PollOpen, PollNoFlush, Polling, recvVars
  <2> QED
    BY <1>2, <1>3, <2>1, NoEventTypes DEF HostTypes, RecvTypesOk, i
<1>8. CASE PollConnectDone
  <2>1. NextSock /\ UNCHANGED <<wcred, wgot, wshort, credit, hostgot, frames>>
    BY <1>8 DEF PollConnectDone, Polling, recvVars
  <2>2. \/ /\ wst' = [wst EXCEPT ![i] = "ESTABLISHED"]
           /\ peer' = [peer EXCEPT ![i] = "up"]
           /\ PostEvent(StatusEvent(i, wgen[i], "Connected"))
           /\ UNCHANGED <<wfd, txp, kin, psent>>
        \/ CloseState(i) /\ PostEvent(StatusEvent(i, wgen[i], "Failed"))
    BY <1>8 DEF PollConnectDone, i
  <2>3. EventRingTypes'
    BY <1>2, <1>3, <1>4, <2>2, StatusEventType, PostEventTypes
  <2>4. HostTypes'
    <3>1. CASE CloseState(i)
      BY <1>2, <3>1, CloseStateTypes
    <3>2. CASE /\ wst' = [wst EXCEPT ![i] = "ESTABLISHED"] /\ peer' = [peer EXCEPT ![i] = "up"]
               /\ UNCHANGED <<wfd, txp, kin, psent>>
      BY <1>2, <1>3, <1>4, <3>2 DEF HostTypes
    <3> QED
      BY <2>2, <3>1, <3>2
  <2> QED
    BY <1>2, <1>3, <2>1, <2>3, <2>4, NextSockTypes DEF RecvTypesOk
<1>9. CASE PollListening
  <2>1. wpc' = "flush" /\ UNCHANGED <<wi, txp, wcred, wgot, wshort, kin, psent, credit, hostgot, frames>>
    BY <1>9 DEF PollListening, Polling, recvVars
  <2>2. \/ NoEvent /\ UNCHANGED <<wfd, wst, peer>>
        \/ /\ wfd' = [wfd EXCEPT ![i] = "tcp"]
           /\ wst' = [wst EXCEPT ![i] = "ESTABLISHED"]
           /\ peer' = [peer EXCEPT ![i] = "up"]
           /\ PostEvent(StatusEvent(i, wgen[i], "Connected"))
    BY <1>9 DEF PollListening, i
  <2>3. EventRingTypes'
    BY <1>2, <1>3, <1>4, <2>2, NoEventTypes, StatusEventType, PostEventTypes
  <2>4. HostTypes'
    <3>3. /\ wfd' = wfd \/ wfd' = [wfd EXCEPT ![i] = "tcp"]
          /\ wst' = wst \/ wst' = [wst EXCEPT ![i] = "ESTABLISHED"]
      BY <2>2
    <3>1. wfd' \in [Sock -> Descriptor] /\ wst' \in [Sock -> Status]
      <4>1. wfd' \in [Sock -> Descriptor]
        BY <1>2, <1>3, <3>3 DEF HostTypes, Descriptor
      <4>2. wst' \in [Sock -> Status]
        BY <1>2, <1>3, <1>4, <3>3 DEF HostTypes
      <4> QED
        BY <4>1, <4>2
    <3>2. peer' \in [Sock -> {"none", "up", "fin", "rst"}]
      BY <1>2, <1>3, <2>2 DEF HostTypes
    <3> QED
      BY <1>3, <2>1, <3>1, <3>2 DEF HostTypes
  <2> QED
    BY <1>2, <1>3, <1>4, <2>1, <2>3, <2>4 DEF RecvTypesOk, i
<1>10. CASE PollFlush
  <2>1. FlushTcpTx(i, txp[i]) /\ UNCHANGED <<wcred, wgot, wshort, frames, credit>>
    BY <1>10 DEF PollFlush, recvVars, i
  <2>2. wpc' \in Counter /\ wi' \in Sock
    BY <1>2, <1>4, <1>10, NextSockTypes DEF PollFlush, i
  <2>3. HostTypes' /\ EventRingTypes' /\ hostgot' \in [Sock -> Seq(Nat)]
    BY <1>2, <1>3, <2>1, FlushTcpTxTypes DEF HostTypes
  <2> QED
    BY <1>2, <2>1, <2>2, <2>3 DEF RecvTypesOk
<1>11. CASE PollLoadCredit
  <2>1. /\ wcred' = credit[i] /\ wpc' = "take" /\ NoEvent
        /\ UNCHANGED <<wi, wfd, wst, txp, wgot, wshort, peer, kin, psent, credit, hostgot, frames>>
    BY <1>11 DEF PollLoadCredit, Polling, i
  <2> QED
    BY <1>2, <1>3, <1>4, <2>1, NoEventTypes DEF HostTypes, RecvTypesOk, i
<1>12. CASE PollTake
  <2>1. PICK n \in 1 .. Len(kin[i]) :
          /\ wgot' = SubSeq(kin[i], 1, n)
          /\ kin' = [kin EXCEPT ![i] = SubSeq(@, n + 1, Len(@))]
          /\ wshort' = (credit[i] < n)
          /\ credit' = [credit EXCEPT ![i] = @ - n]
    BY <1>12 DEF PollTake, i
  <2>2. wpc' = "post" /\ NoEvent /\ UNCHANGED <<wi, wfd, wst, txp, wcred, peer, psent, hostgot, frames>>
    BY <1>12 DEF PollTake, Polling
  <2>3. kin[i] \in Seq(Byte) /\ Len(kin[i]) \in Nat /\ n \in Nat
    BY <1>2, <1>3, LenProperties DEF HostTypes
  <2>4. SubSeq(kin[i], 1, n) \in Seq(Byte) /\ SubSeq(kin[i], n + 1, Len(kin[i])) \in Seq(Byte)
    BY <2>3, SubSeqProperties
  <2>5. HostTypes'
    BY <1>2, <1>3, <2>1, <2>2, <2>4 DEF HostTypes
  <2>6. credit' \in [Sock -> Int] /\ wcred' \in Int /\ wgot' \in Seq(Byte)
    BY <1>2, <2>1, <2>2, <2>3, <2>4 DEF RecvTypesOk
  <2>7. wshort' \in BOOLEAN
    BY <2>1
  <2> QED
    BY <1>2, <1>3, <1>4, <2>2, <2>5, <2>6, <2>7, NoEventTypes DEF RecvTypesOk, i
<1>13. CASE PollPost
  <2>1. /\ PostEvent(Event("RxTcp", i, wgen[i], "None", wgot)) /\ NextSock
        /\ wgot' = << >> /\ wshort' = FALSE /\ wcred' = 0
        /\ UNCHANGED <<wfd, wst, txp, peer, kin, psent, hostgot, frames>>
    BY <1>13 DEF PollPost, Polling, i
  <2>2. credit' = credit \/ credit' = [credit EXCEPT ![i] = 0]
    BY <1>13 DEF PollPost, i
  <2>3. Event("RxTcp", i, wgen[i], "None", wgot) \in Happened
    BY <1>2, <1>3, <1>4, EventType DEF RecvTypesOk
  <2>4. EventRingTypes'
    BY <2>1, <2>3, PostEventTypes
  <2>5. credit' \in [Sock -> Int]
    BY <1>2, <2>2
  <2>7. wshort' \in BOOLEAN
    BY <2>1
  <2>6. RecvTypesOk'
    BY <1>5, <2>1, <2>7 DEF RecvTypesOk
  <2> QED
    BY <1>2, <1>3, <2>1, <2>4, <2>5, <2>6, NextSockTypes DEF HostTypes
<1>14. CASE PollEof
  <2>1. /\ wst' = [wst EXCEPT ![i] = "CLOSE_WAIT"] /\ PostEvent(StatusEvent(i, wgen[i], "RemoteClosed"))
        /\ wcred' = 0 /\ NextSock
        /\ UNCHANGED <<wfd, txp, wgot, wshort, peer, kin, psent, credit, hostgot, frames>>
    BY <1>14 DEF PollEof, Polling, i
  <2>2. EventRingTypes'
    BY <1>2, <1>3, <1>4, <2>1, StatusEventType, PostEventTypes
  <2>3. HostTypes'
    BY <1>2, <1>3, <1>4, <2>1 DEF HostTypes
  <2> QED
    BY <1>2, <1>3, <2>1, <2>2, <2>3, NextSockTypes DEF RecvTypesOk
<1>15. CASE PollRecvError
  <2>1. wcred' = 0 /\ NextSock /\ UNCHANGED <<wgot, wshort, credit, hostgot, frames>>
    BY <1>15 DEF PollRecvError, Polling
  <2>2. \/ CloseState(i) /\ PostEvent(StatusEvent(i, wgen[i], "Reset"))
        \/ NoEvent /\ UNCHANGED <<wfd, wst, txp, peer, kin, psent>>
    BY <1>15 DEF PollRecvError, i
  <2>3. EventRingTypes'
    BY <1>2, <1>3, <1>4, <2>2, NoEventTypes, StatusEventType, PostEventTypes
  <2>4. HostTypes'
    <3>1. CASE CloseState(i)
      BY <1>2, <3>1, CloseStateTypes
    <3>2. CASE UNCHANGED <<wfd, wst, txp, peer, kin, psent>>
      BY <1>3, <3>2 DEF HostTypes
    <3> QED
      BY <2>2, <3>1, <3>2
  <2> QED
    BY <1>2, <1>3, <2>1, <2>3, <2>4, NextSockTypes DEF RecvTypesOk
<1>16. CASE PollUdp
  <2>1. NextSock /\ UNCHANGED <<wfd, wst, txp, wcred, wgot, wshort, peer, kin, credit, hostgot, frames>>
    BY <1>16 DEF PollUdp, Polling, recvVars
  <2> DEFINE b == <<wgen[i], psent[i] + 1>>
             d == <<b>>
  <2>2. \/ psent' = [psent EXCEPT ![i] = @ + 1] /\ PostEvent(Event("RxUdp", i, wgen[i], "None", d))
        \/ NoEvent /\ psent' = psent
    BY <1>16 DEF PollUdp, i
  <2>3. b \in Byte
    BY <1>2, <1>3 DEF Byte, HostTypes
  <2> HIDE DEF b
  <2>4. d \in Seq(Byte) /\ d # << >>
    BY <2>3
  <2> HIDE DEF d
  <2>5. EventRingTypes'
    BY <1>2, <1>3, <1>4, <2>2, <2>4, EventType, NoEventTypes, PostEventTypes
  <2>7. psent' = psent \/ psent' = [psent EXCEPT ![i] = @ + 1]
    BY <2>2
  <2>6. psent' \in [Sock -> Nat]
    BY <1>2, <1>3, <2>7 DEF HostTypes
  <2> QED
    BY <1>2, <1>3, <2>1, <2>5, <2>6, NextSockTypes DEF HostTypes, RecvTypesOk
<1>17. CASE Slirp
  <2>1. wpc' \in {wpc, "top"} /\ UNCHANGED <<wi, wfd, wst, txp, wcred, wgot, wshort, peer, kin, psent, hostgot, credit>>
    BY <1>17 DEF Slirp, sockVars, recvVars
  <2>2. NoEvent \/ \E f \in Frame : PostEvent(Event("MacRawRx", 0, wgen[0], "None", <<f>>))
    BY <1>17 DEF Slirp, SlirpDelivers
  <2>3. frames' = frames \/ frames' = frames + 1
    BY <1>17 DEF Slirp, SlirpDelivers
  <2>4. EventRingTypes'
    <3>1. \A f \in Frame : Event("MacRawRx", 0, wgen[0], "None", <<f>>) \in Happened
      BY <1>3, <1>4, EventType, SizeFacts
    <3> QED
      BY <2>2, <3>1, NoEventTypes, PostEventTypes
  <2> QED
    BY <1>2, <1>3, <1>4, <2>1, <2>3, <2>4 DEF HostTypes, RecvTypesOk, i
<1> QED
  BY <1>6, <1>7, <1>8, <1>9, <1>10, <1>11, <1>12, <1>13, <1>14, <1>15, <1>16, <1>17 DEF Poll

LEMMA PeerTypes ==
    ASSUME Types, PeerNext
    PROVE  (WorkerTypes /\ RingTypes)'
<1>0. PICK i \in Sock : PeerSend(i) \/ PeerEnds(i)
  BY DEF PeerNext
<1>1. HostTypes /\ wgen[i] \in Nat
  BY WorkerParts
<1>2. UNCHANGED <<evt, evtLost, workVars, hostgot, frames, req, credit, running, reqLost>>
  BY <1>0 DEF PeerSend, PeerEnds, PeerOnly, NoEvent
<1> DEFINE b == <<wgen[i], psent[i] + 1>>
<1>3. \/ peer' = peer /\ psent' = [psent EXCEPT ![i] = @ + 1] /\ kin' = [kin EXCEPT ![i] = Append(@, b)]
      \/ /\ UNCHANGED <<kin, psent>>
         /\ \E end \in {"fin", "rst"} : peer' = [peer EXCEPT ![i] = end]
  BY <1>0 DEF PeerSend, PeerEnds
<1>4. b \in Byte
  BY <1>1 DEF HostTypes, Byte
<1> HIDE DEF b
<1>5. Append(kin[i], b) \in Seq(Byte)
  BY <1>1, <1>4, AppendProperties DEF HostTypes
<1>9. kin' = kin \/ kin' = [kin EXCEPT ![i] = Append(@, b)]
  BY <1>3
<1>11. psent' = psent \/ psent' = [psent EXCEPT ![i] = @ + 1]
  BY <1>3
<1>10. kin' \in [Sock -> Seq(Byte)]
  BY <1>1, <1>5, <1>9 DEF HostTypes
<1>12. psent \in [Sock -> Nat]
  BY <1>1 DEF HostTypes
<1>6. psent' \in [Sock -> Nat]
  BY <1>11, <1>12
<1>7. peer' \in [Sock -> {"none", "up", "fin", "rst"}]
  BY <1>1, <1>3 DEF HostTypes
<1>8. UNCHANGED <<evt, evtLost, wpc, wi, wgen, wfd, wst, txp, wcred, wgot, wshort,
                  hostgot, frames, req, credit, running, reqLost>>
  BY <1>2 DEF workVars
<1> QED
  BY <1>6, <1>7, <1>8, <1>10 DEF Types, WorkerTypes, RingTypes

-----------------------------------------------------------------------------
(* Generations.                                                            *)

(* The requests of a socket in the order of their generations.             *)
InOrder(q, i, low, high) ==
    \A k \in 1 .. Len(q) :
        q[k].sock = i /\ q[k].msg # "Shutdown" =>
            /\ q[k].gen \in low .. high
            /\ \A l \in 1 .. k : q[l].sock = i /\ q[l].msg # "Shutdown" => q[l].gen <= q[k].gen

NoneAhead(q, i, high) == \A k \in 1 .. Len(q) : q[k].sock = i => q[k].gen <= high

LEMMA OrderParts ==
    GenerationOrder <=> \A i \in Sock : /\ wgen[i] <= gen[i]
                                        /\ InOrder(req, i, wgen[i], gen[i])
                                        /\ NoneAhead(evt, i, gen[i])
BY DEF GenerationOrder, InOrder, NoneAhead

LEMMA OrderPartsPrime ==
    GenerationOrder' <=> \A i \in Sock : /\ wgen'[i] <= gen'[i]
                                         /\ InOrder(req', i, wgen'[i], gen'[i])
                                         /\ NoneAhead(evt', i, gen'[i])
BY DEF GenerationOrder, InOrder, NoneAhead

(* Requests added at the end, none older than the newest there was.        *)
LEMMA OrderAfterPost ==
    ASSUME NEW q \in Seq(Requested), NEW r \in Seq(Requested), NEW i,
           NEW low \in Nat, NEW mid \in Nat, NEW high \in Nat, low <= mid, mid <= high,
           InOrder(q, i, low, mid), Len(q) <= Len(r), \A k \in 1 .. Len(q) : r[k] = q[k],
           \A k \in 1 .. Len(r) : k > Len(q) /\ r[k].sock = i /\ r[k].msg # "Shutdown" =>
              /\ r[k].gen \in mid .. high
              /\ \A l \in 1 .. k : l > Len(q) /\ r[l].sock = i => r[l].gen <= r[k].gen
    PROVE  InOrder(r, i, low, high)
<1>1. Len(q) \in Nat /\ Len(r) \in Nat
  BY LenProperties
<1>2. \A k \in 1 .. Len(r) : r[k].gen \in Nat
  <2>1. \A k \in 1 .. Len(r) : r[k] \in Requested
    BY ElementOfSeq
  <2> QED
    BY <2>1 DEF Requested
<1> SUFFICES ASSUME NEW k \in 1 .. Len(r), r[k].sock = i, r[k].msg # "Shutdown"
             PROVE  /\ r[k].gen \in low .. high
                    /\ \A l \in 1 .. k : r[l].sock = i /\ r[l].msg # "Shutdown" => r[l].gen <= r[k].gen
  BY DEF InOrder
<1>3. CASE k <= Len(q)
  <2>1. k \in 1 .. Len(q) /\ r[k] = q[k]
    BY <1>1, <1>3
  <2>2. /\ q[k].gen \in low .. mid
        /\ \A l \in 1 .. k : q[l].sock = i /\ q[l].msg # "Shutdown" => q[l].gen <= q[k].gen
    BY <2>1 DEF InOrder
  <2>3. \A l \in 1 .. k : r[l] = q[l]
    BY <1>1, <1>3
  <2>4. r[k].gen \in low .. high
    BY <2>1, <2>2
  <2> QED
    BY <2>1, <2>2, <2>3, <2>4
<1>4. CASE k > Len(q)
  <2>1. r[k].gen \in mid .. high
    BY <1>4
  <2>2. ASSUME NEW l \in 1 .. k, r[l].sock = i, r[l].msg # "Shutdown" PROVE r[l].gen <= r[k].gen
    <3>1. CASE l > Len(q)
      BY <1>4, <2>2, <3>1
    <3>2. CASE l <= Len(q)
      <4>1. l \in 1 .. Len(q) /\ r[l] = q[l]
        BY <1>1, <3>2
      <4>2. q[l].gen \in low .. mid
        BY <2>2, <4>1 DEF InOrder
      <4> QED
        BY <2>1, <4>1, <4>2
    <3> QED
      BY <1>1, <3>1, <3>2
  <2>3. r[k].gen \in low .. high
    BY <2>1
  <2> QED
    BY <2>2, <2>3
<1>5. k <= Len(q) \/ k > Len(q)
  BY <1>1
<1> QED
  BY <1>3, <1>4, <1>5, Zenon

(* The oldest request taken.                                               *)
LEMMA OrderAfterTake ==
    ASSUME NEW q \in Seq(Requested), q # << >>, NEW i, NEW low, NEW high \in Nat,
           InOrder(q, i, low, high), NEW new,
           new = low \/ (new = q[1].gen /\ q[1].sock = i /\ q[1].msg # "Shutdown")
    PROVE  InOrder(Tail(q), i, new, high)
<1> DEFINE t == Tail(q)
<1>1. Len(q) \in Nat \ {0} /\ Len(t) = Len(q) - 1 /\ \A k \in 1 .. Len(t) : t[k] = q[k + 1]
  BY TailFacts
<1>2. \A k \in 1 .. Len(q) : q[k].gen \in Nat
  <2>1. \A k \in 1 .. Len(q) : q[k] \in Requested
    BY ElementOfSeq
  <2> QED
    BY <2>1 DEF Requested
<1> HIDE DEF t
<1> SUFFICES ASSUME NEW k \in 1 .. Len(t), t[k].sock = i, t[k].msg # "Shutdown"
             PROVE  /\ t[k].gen \in new .. high
                    /\ \A l \in 1 .. k : t[l].sock = i /\ t[l].msg # "Shutdown" => t[l].gen <= t[k].gen
  BY DEF InOrder, t
<1>3. k + 1 \in 1 .. Len(q) /\ t[k] = q[k + 1] /\ 1 \in 1 .. k + 1 /\ 1 \in 1 .. Len(q)
  BY <1>1
<1>4. /\ q[k + 1].gen \in low .. high
      /\ \A l \in 1 .. k + 1 : q[l].sock = i /\ q[l].msg # "Shutdown" => q[l].gen <= q[k + 1].gen
  BY <1>3 DEF InOrder
<1>5. t[k].gen \in new .. high
  BY <1>2, <1>3, <1>4
<1>6. ASSUME NEW l \in 1 .. k, t[l].sock = i, t[l].msg # "Shutdown" PROVE t[l].gen <= t[k].gen
  <2>1. l + 1 \in 1 .. k + 1 /\ t[l] = q[l + 1]
    BY <1>1
  <2> QED
    BY <1>3, <1>4, <1>6, <2>1
<1> QED
  BY <1>5, <1>6

LEMMA RenewedRequests ==
    ASSUME Types, NEW i \in Sock, NEW g, NEW rs, Renewal(i, g, rs)
    PROVE  /\ req \in Seq(Requested) /\ req' \in Seq(Requested)
           /\ Len(req) \in Nat /\ Len(req') \in Nat /\ Len(req) <= Len(req')
           /\ \A k \in 1 .. Len(req) : req'[k] = req[k]
           /\ \A k \in 1 .. Len(req') : k > Len(req) =>
                 k - Len(req) \in 1 .. Len(rs) /\ req'[k] = rs[k - Len(req)]
           /\ Len(req') <= Len(req) + Len(rs)
           /\ gen[i] \in Nat /\ g \in Nat /\ g > gen[i]
           /\ gen'[i] = g /\ \A j \in Sock \ {i} : gen'[j] = gen[j]
<1>1. RingTypes /\ gen \in [Sock -> 1 .. MaxGen] /\ gen[i] \in Nat /\ req \in Seq(Requested)
  BY DEF Types, ChipTypes, RingTypes
<1>2. g \in Nat /\ g > gen[i]
  BY <1>1, SizeFacts DEF Renewal
<1>3. rs \in Seq(Requested) /\ Post(i, g, rs)
  BY DEF Renewal
<1>4. /\ req' \in Seq(Requested) /\ Len(req') \in Len(req) .. ReqCap /\ Len(req) \in Nat
      /\ Len(req') <= Len(req) + Len(rs)
      /\ \A k \in 1 .. Len(req) : req'[k] = req[k]
      /\ \A k \in 1 .. Len(req') : k > Len(req) =>
            k - Len(req) \in 1 .. Len(rs) /\ req'[k] = rs[k - Len(req)]
  BY <1>1, <1>2, <1>3, PostFacts
<1>5. gen'[i] = g /\ \A j \in Sock \ {i} : gen'[j] = gen[j]
  BY <1>1 DEF Renewal
<1> QED
  BY <1>1, <1>2, <1>4, <1>5, SizeFacts

LEMMA RenewalOrder ==
    ASSUME Types, GenerationOrder, NEW i \in Sock, NEW g, NEW rs, Renewal(i, g, rs),
           evt' = evt, wgen' = wgen
    PROVE  GenerationOrder' /\ \A j \in Sock : gen[j] <= gen'[j]
<1>1. /\ req \in Seq(Requested) /\ req' \in Seq(Requested)
      /\ Len(req) \in Nat /\ Len(req') \in Nat /\ Len(req) <= Len(req')
      /\ \A k \in 1 .. Len(req) : req'[k] = req[k]
  BY RenewedRequests
<1>2. \A k \in 1 .. Len(req') : k > Len(req) =>
            k - Len(req) \in 1 .. Len(rs) /\ req'[k] = rs[k - Len(req)]
  BY RenewedRequests
<1>3. gen[i] \in Nat /\ g \in Nat /\ g > gen[i] /\ gen'[i] = g /\ \A j \in Sock \ {i} : gen'[j] = gen[j]
  BY RenewedRequests
<1>4. \A j \in Sock : gen[j] \in Nat /\ wgen[j] \in Nat
  BY WorkerParts
<1>5. \A j \in Sock : gen'[j] \in Nat /\ gen[j] <= gen'[j]
  BY <1>3, <1>4
<1>6. /\ \A k \in 1 .. Len(rs) : rs[k].sock = i /\ rs[k].gen \in gen[i] .. g
      /\ \A k, l \in 1 .. Len(rs) : l <= k => rs[l].gen <= rs[k].gen
  <2>1. Len(rs) = 1 \/ Len(rs) = 2
    BY DEF Renewal
  <2>2. rs[1].sock = i /\ rs[1].gen = gen[i] + 1
    BY DEF Renewal
  <2>3. CASE Len(rs) = 1
    BY <1>3, <2>2, <2>3
  <2>4. CASE Len(rs) = 2
    <3>1. rs[2].sock = i /\ rs[2].gen = g
      BY <2>4 DEF Renewal
    <3> QED
      BY <1>3, <2>2, <2>4, <3>1
  <2> QED
    BY <2>1, <2>3, <2>4
<1>7. ASSUME NEW j \in Sock
      PROVE  wgen'[j] <= gen'[j] /\ InOrder(req', j, wgen'[j], gen'[j]) /\ NoneAhead(evt', j, gen'[j])
  <2>1. wgen[j] <= gen[j] /\ InOrder(req, j, wgen[j], gen[j]) /\ NoneAhead(evt, j, gen[j])
    BY OrderParts
  <2>2. wgen'[j] <= gen'[j]
    BY <1>4, <1>5, <2>1
  <2>3. NoneAhead(evt', j, gen'[j])
    <3>1. \A k \in 1 .. Len(evt) : evt[k].gen \in Nat
      <4>1. \A k \in 1 .. Len(evt) : evt[k] \in Happened
        BY ElementOfSeq DEF Types, RingTypes
      <4> QED
        BY <4>1, EventData
    <3> QED
      BY <1>4, <1>5, <2>1, <3>1 DEF NoneAhead
  <2>4. ASSUME NEW k \in 1 .. Len(req'), k > Len(req), req'[k].sock = j, req'[k].msg # "Shutdown"
        PROVE  /\ req'[k].gen \in gen[j] .. gen'[j]
               /\ \A l \in 1 .. k : l > Len(req) /\ req'[l].sock = j => req'[l].gen <= req'[k].gen
    <3>1. k - Len(req) \in 1 .. Len(rs) /\ req'[k] = rs[k - Len(req)]
      BY <1>2, <2>4
    <3>2. req'[k].sock = i /\ req'[k].gen \in gen[i] .. g
      BY <1>6, <3>1
    <3>3. ASSUME NEW l \in 1 .. k, l > Len(req) PROVE req'[l].gen <= req'[k].gen
      <4>1. l \in 1 .. Len(req')
        BY <1>1
      <4>2. l - Len(req) \in 1 .. Len(rs) /\ req'[l] = rs[l - Len(req)]
        BY <1>2, <3>3, <4>1
      <4>3. l - Len(req) <= k - Len(req)
        BY <1>1
      <4> QED
        BY <1>6, <3>1, <4>2, <4>3
    <3> QED
      BY <1>3, <2>4, <3>2, <3>3
  <2>5. InOrder(req', j, wgen[j], gen'[j])
    BY <1>1, <1>4, <1>5, <2>1, <2>4, OrderAfterPost
  <2> QED
    BY <2>2, <2>3, <2>5
<1> QED
  BY <1>5, <1>7, OrderPartsPrime

(* One request more, of the current generation.                            *)
LEMMA PostOrder ==
    ASSUME Types, GenerationOrder, NEW r \in Requested, r.msg # "Shutdown" => r.gen = gen[r.sock],
           OneMore(req', Requested, req, r, ReqCap), evt' = evt, wgen' = wgen, gen' = gen
    PROVE  GenerationOrder'
<1>1. req \in Seq(Requested) /\ \A j \in Sock : gen[j] \in Nat /\ wgen[j] \in Nat
  BY WorkerParts DEF Types, RingTypes
<1>2. /\ req' \in Seq(Requested) /\ Len(req) \in Nat /\ Len(req') \in Nat
      /\ Len(req) <= Len(req') /\ Len(req') <= Len(req) + 1
      /\ \A k \in 1 .. Len(req) : req'[k] = req[k]
  BY SizeFacts DEF OneMore
<1>3. \A k \in 1 .. Len(req') : k > Len(req) => k = Len(req) + 1 /\ req'[k] = r
  BY DEF OneMore
<1>4. r.gen \in Nat
  BY DEF Requested
<1>5. ASSUME NEW j \in Sock
      PROVE  wgen'[j] <= gen'[j] /\ InOrder(req', j, wgen'[j], gen'[j]) /\ NoneAhead(evt', j, gen'[j])
  <2>1. wgen[j] <= gen[j] /\ InOrder(req, j, wgen[j], gen[j]) /\ NoneAhead(evt, j, gen[j])
    BY OrderParts
  <2>2. ASSUME NEW k \in 1 .. Len(req'), k > Len(req), req'[k].sock = j, req'[k].msg # "Shutdown"
        PROVE  /\ req'[k].gen \in gen[j] .. gen[j]
               /\ \A l \in 1 .. k : l > Len(req) /\ req'[l].sock = j => req'[l].gen <= req'[k].gen
    <3>1. k = Len(req) + 1 /\ req'[k] = r
      BY <1>3, <2>2
    <3>2. \A l \in 1 .. k : l > Len(req) => l = k
      BY <1>2, <3>1
    <3>3. r.gen = gen[j]
      BY <2>2, <3>1
    <3> QED
      BY <1>1, <1>4, <3>1, <3>2, <3>3
  <2>3. InOrder(req', j, wgen[j], gen[j])
    BY <1>1, <1>2, <2>1, <2>2, OrderAfterPost
  <2> QED
    BY <2>1, <2>3
<1> QED
  BY <1>5, OrderPartsPrime

LEMMA ResetOrder ==
    ASSUME Types, GenerationOrder, Reset, wgen' = wgen
    PROVE  GenerationOrder' /\ \A j \in Sock : gen[j] <= gen'[j]
<1> DEFINE g == [i \in Sock |-> gen[i] + 1]
           rs == [k \in 1 .. NSock |-> Request("CloseHost", k - 1, g[k - 1], << >>)]
<1>1. \A j \in Sock : gen[j] \in Nat /\ wgen[j] \in Nat
  BY WorkerParts
<1>2. rs = [k \in 1 .. NSock |-> Request("CloseHost", k - 1, gen[k - 1] + 1, << >>)]
  <2>1. \A k \in 1 .. NSock : k - 1 \in Sock
    BY SizeFacts DEF Sock
  <2> QED
    BY <2>1
<1>3. g \in [Sock -> Nat]
  BY <1>1
<1>4. gen' = g /\ evt' = evt
  BY DEF Reset
<1>5. \A j \in Sock : gen'[j] = gen[j] + 1
  BY <1>4
<1> HIDE DEF g
<1>6. /\ rs \in Seq(Requested) /\ Len(rs) = NSock
      /\ \A k \in 1 .. NSock : rs[k].sock = k - 1 /\ rs[k].gen = g[k - 1] /\ rs[k].msg = "CloseHost"
  BY <1>3, ResetRequests
<1> HIDE DEF rs
<1>7. req \in Seq(Requested) /\ Len(req) <= ReqCap /\ ReqCap \in Nat /\ Len(req) \in Nat
  BY SizeFacts, LenProperties DEF Types, RingTypes
<1>8. req' = Offer(req, rs, ReqCap)
  BY <1>2 DEF Reset
<1>9. /\ req' \in Seq(Requested) /\ Len(req') \in Len(req) .. ReqCap
      /\ \A k \in 1 .. Len(req) : req'[k] = req[k]
      /\ \A k \in 1 .. Len(req') : k > Len(req) =>
            k - Len(req) \in 1 .. Len(rs) /\ req'[k] = rs[k - Len(req)]
  BY <1>6, <1>7, <1>8, OfferFacts
<1>10. ASSUME NEW j \in Sock
       PROVE  wgen'[j] <= gen'[j] /\ InOrder(req', j, wgen'[j], gen'[j]) /\ NoneAhead(evt', j, gen'[j])
  <2>1. wgen[j] <= gen[j] /\ InOrder(req, j, wgen[j], gen[j]) /\ NoneAhead(evt, j, gen[j])
    BY OrderParts
  <2>2. wgen'[j] <= gen'[j] /\ gen[j] <= gen'[j] /\ gen'[j] \in Nat
    BY <1>1, <1>5, <2>1
  <2>3. NoneAhead(evt', j, gen'[j])
    <3>1. \A k \in 1 .. Len(evt) : evt[k].gen \in Nat
      <4>1. \A k \in 1 .. Len(evt) : evt[k] \in Happened
        BY ElementOfSeq DEF Types, RingTypes
      <4> QED
        BY <4>1, EventData
    <3> QED
      BY <1>1, <1>4, <2>1, <2>2, <3>1 DEF NoneAhead
  <2>4. ASSUME NEW k \in 1 .. Len(req'), k > Len(req), req'[k].sock = j, req'[k].msg # "Shutdown"
        PROVE  /\ req'[k].gen \in gen[j] .. gen'[j]
               /\ \A l \in 1 .. k : l > Len(req) /\ req'[l].sock = j => req'[l].gen <= req'[k].gen
    <3>1. k - Len(req) \in 1 .. NSock /\ req'[k] = rs[k - Len(req)]
      BY <1>6, <1>9, <2>4
    <3>2. req'[k].sock = k - Len(req) - 1 /\ req'[k].gen = g[k - Len(req) - 1]
      BY <1>6, <3>1
    <3>3. req'[k].gen = gen'[j]
      BY <1>4, <2>4, <3>2
    <3>4. ASSUME NEW l \in 1 .. k, l > Len(req), req'[l].sock = j PROVE req'[l].gen <= req'[k].gen
      <4>1. l \in 1 .. Len(req')
        BY <1>7, <1>9
      <4>2. l - Len(req) \in 1 .. NSock /\ req'[l] = rs[l - Len(req)]
        BY <1>6, <1>9, <3>4, <4>1
      <4>3. req'[l].sock = l - Len(req) - 1 /\ req'[l].gen = g[l - Len(req) - 1]
        BY <1>6, <4>2
      <4>4. l - Len(req) = k - Len(req)
        BY <1>7, <2>4, <3>1, <3>2, <3>4, <4>2, <4>3
      <4> QED
        BY <1>1, <1>5, <3>1, <3>3, <4>2, <4>4
    <3> QED
      BY <1>1, <2>2, <3>3, <3>4
  <2>6. Len(req) <= Len(req') /\ req' \in Seq(Requested) /\ \A k \in 1 .. Len(req) : req'[k] = req[k]
    BY <1>7, <1>9
  <2>5. InOrder(req', j, wgen[j], gen'[j])
    BY <1>1, <1>7, <2>1, <2>2, <2>4, <2>6, OrderAfterPost
  <2> QED
    BY <2>2, <2>3, <2>5
<1>11. \A j \in Sock : gen[j] <= gen'[j]
  BY <1>1, <1>5
<1> QED
  BY <1>10, <1>11, OrderPartsPrime

(* An event is of a generation the chip knows.                             *)
LEMMA EventOrder ==
    ASSUME Types, GenerationOrder, NEW e \in Happened, e.gen <= gen[e.sock], PostEvent(e)
    PROVE  \A j \in Sock : NoneAhead(evt', j, gen[j])
<1>1. OneMore(evt', Happened, evt, e, EvtCap)
  BY PostEventOne DEF Types
<1>2. Len(evt) \in Nat /\ Len(evt') \in Nat
  BY <1>1, SizeFacts DEF OneMore
<1> SUFFICES ASSUME NEW j \in Sock, NEW k \in 1 .. Len(evt'), evt'[k].sock = j
             PROVE  evt'[k].gen <= gen[j]
  BY DEF NoneAhead
<1>3. NoneAhead(evt, j, gen[j])
  BY OrderParts
<1>4. CASE k <= Len(evt)
  <2>1. k \in 1 .. Len(evt) /\ evt'[k] = evt[k]
    BY <1>1, <1>2, <1>4 DEF OneMore
  <2> QED
    BY <1>3, <2>1 DEF NoneAhead
<1>5. CASE k > Len(evt)
  <2>1. evt'[k] = e
    BY <1>1, <1>5 DEF OneMore
  <2> QED
    BY <2>1
<1> QED
  BY <1>2, <1>4, <1>5

(* What a step of the worker posts.                                        *)
LEMMA WorkerEvents ==
    ASSUME Types, GenOrder, WorkerNext \/ PeerNext
    PROVE  \/ NoEvent
           \/ \E e \in Happened : /\ e.gen <= gen[e.sock] /\ PostEvent(e)
                                  /\ e.evt = "RxTcp" => PollPost
<1> DEFINE Told1 == \/ NoEvent
                    \/ \E e \in Happened : /\ e.gen <= gen[e.sock] /\ PostEvent(e)
                                           /\ e.evt = "RxTcp" => PollPost
<1>1. \A i \in Sock : wgen[i] <= gen[i] /\ wgen[i] \in Nat
  BY WorkerParts, OrderParts DEF GenOrder
<1>2. wi \in Sock /\ 0 \in Sock
  BY SizeFacts DEF Types, WorkerTypes
<1>3. {"None", "Connected", "RemoteClosed", "Reset", "Failed"} = Cause
  BY DEF Cause
<1>4. ASSUME NEW i \in Sock, NEW g \in Nat, g <= gen[i], NEW c \in Cause,
             \/ PostEvent(StatusEvent(i, g, c)) \/ PostEvent(Event("SendDone", i, g, c, << >>))
      PROVE  Told1
  <2>1. ASSUME NEW x \in {"Status", "SendDone"}, PostEvent(Event(x, i, g, c, << >>)) PROVE Told1
    <3> DEFINE e == Event(x, i, g, c, << >>)
    <3>1. e \in Happened
      BY EventType
    <3>2. e.sock = i /\ e.gen = g /\ e.evt # "RxTcp"
      BY DEF Event
    <3>3. PostEvent(e)
      BY <2>1
    <3> HIDE DEF e
    <3> QED
      BY <1>4, <3>1, <3>2, <3>3
  <2> QED
    BY <1>4, <2>1 DEF StatusEvent
<1>5. CASE Wake \/ ExitNotRunning \/ ExitShutdown \/ Drained
  BY <1>5 DEF Wake, ExitNotRunning, ExitShutdown, Drained, Finish, NoEvent
<1>6. CASE PeerNext
  BY <1>6 DEF PeerNext, PeerSend, PeerEnds, PeerOnly
<1>7. CASE Requests
  <2> DEFINE r == Head(req)
             i == r.sock
             Msgs == {"Connect", "SendTcp", "SendUdp", "OpenTcp", "OpenUdp", "AdoptListen",
                      "Close", "CloseHost"} \cup RawTx
  <2>1. Taking(Msgs)
    BY <1>7 DEF Requests, HandleLeftover, HandleOpen, HandleAdoptListen, HandleClose, HandleConnect,
           HandleSendTcp, HandleSendDatagram, Taking, RawTx
  <2>2. "Shutdown" \notin Msgs
    BY DEF RawTx
  <2> HIDE DEF Msgs
  <2>3. OldestRequest(r, i)
    BY <2>1, <2>2, TakingFacts
  <2>4. i \in Sock /\ r.gen \in Nat /\ r.gen <= gen[i] /\ wgen[i] \in Nat /\ wgen[i] <= gen[i]
    <3>1. i \in Sock /\ r.gen \in Nat /\ r.gen \in wgen[i] .. gen[i]
      BY <2>3 DEF OldestRequest
    <3> QED
      BY <1>1, <3>1
  <2> HIDE DEF r, i
  <2>5. CASE HandleLeftover \/ HandleAdoptListen \/ HandleClose
    BY <2>5 DEF HandleLeftover, HandleAdoptListen, HandleClose
  <2>6. CASE HandleOpen
    <3>1. NoEvent \/ PostEvent(StatusEvent(i, r.gen, "Failed"))
      BY <2>6 DEF HandleOpen, r, i
    <3> QED
      BY <1>3, <1>4, <2>4, <3>1
  <2>7. CASE HandleConnect
    <3>1. NoEvent \/ PostEvent(StatusEvent(i, wgen[i], "Failed"))
          \/ PostEvent(StatusEvent(i, wgen[i], "Connected"))
      BY <2>7 DEF HandleConnect, r, i
    <3> QED
      BY <1>3, <1>4, <2>4, <3>1
  <2>8. CASE HandleSendTcp
    <3>1. NoEvent \/ PostEvent(StatusEvent(i, wgen[i], "Reset"))
          \/ PostEvent(Event("SendDone", i, wgen[i], "None", << >>))
      BY <2>8 DEF HandleSendTcp, FlushTcpTx, r, i
    <3> QED
      BY <1>3, <1>4, <2>4, <3>1
  <2>9. CASE HandleSendDatagram
    <3>1. NoEvent \/ \E c \in {"None", "Failed"} : PostEvent(Event("SendDone", i, r.gen, c, << >>))
      BY <2>9 DEF HandleSendDatagram, r, i
    <3> QED
      BY <1>3, <1>4, <2>4, <3>1
  <2> QED
    BY <1>7, <2>5, <2>6, <2>7, <2>8, <2>9 DEF Requests
<1>8. CASE Poll
  <2>1. CASE PollInvalid \/ PollConnecting \/ PollOpen \/ PollNoFlush \/ PollNoRecv
             \/ PollLoadCredit \/ PollTake
    BY <2>1 DEF PollInvalid, PollConnecting, PollOpen, PollNoFlush, PollNoRecv, PollLoadCredit, PollTake
  <2>2. CASE PollConnectDone \/ PollListening \/ PollFlush \/ PollEof \/ PollRecvError
    <3>1. NoEvent \/ (\E c \in {"Connected", "Failed", "Reset", "RemoteClosed"} :
                         PostEvent(StatusEvent(wi, wgen[wi], c)))
          \/ PostEvent(Event("SendDone", wi, wgen[wi], "None", << >>))
      BY <2>2 DEF PollConnectDone, PollListening, PollFlush, FlushTcpTx, PollEof, PollRecvError
    <3> QED
      BY <1>1, <1>2, <1>3, <1>4, <3>1
  <2>3. CASE PollPost
    <3> DEFINE e == Event("RxTcp", wi, wgen[wi], "None", wgot)
    <3>1. e \in Happened
      BY <1>1, <1>2, <1>3, EventType DEF Types, WorkerTypes
    <3>2. e.sock = wi /\ e.gen = wgen[wi]
      BY DEF Event
    <3>3. PostEvent(e)
      BY <2>3 DEF PollPost
    <3> HIDE DEF e
    <3> QED
      BY <1>1, <1>2, <2>3, <3>1, <3>2, <3>3
  <2>4. CASE PollUdp
    <3> DEFINE b == <<wgen[wi], psent[wi] + 1>>
               d == <<b>>
               e == Event("RxUdp", wi, wgen[wi], "None", d)
    <3>1. b \in Byte
      BY <1>1, <1>2 DEF Byte, Types, WorkerTypes
    <3>4. NoEvent \/ PostEvent(e)
      BY <2>4 DEF PollUdp
    <3> HIDE DEF b
    <3>5. d \in Seq(Byte) /\ d # << >>
      BY <3>1
    <3> HIDE DEF d
    <3>6. e \in Happened
      BY <1>1, <1>2, <1>3, <3>5, EventType
    <3>2. e.sock = wi /\ e.gen = wgen[wi] /\ e.evt # "RxTcp"
      BY DEF Event
    <3> HIDE DEF e
    <3> QED
      BY <1>1, <1>2, <3>2, <3>4, <3>6
  <2>5. CASE Slirp
    <3> DEFINE E(f) == Event("MacRawRx", 0, wgen[0], "None", <<f>>)
    <3>1. NoEvent \/ \E f \in Frame : PostEvent(E(f))
      BY <2>5 DEF Slirp, SlirpDelivers
    <3>2. \A f \in Frame : E(f) \in Happened
      BY <1>1, <1>2, <1>3, EventType
    <3>3. \A f \in Frame : E(f).sock = 0 /\ E(f).gen = wgen[0] /\ E(f).evt # "RxTcp"
      BY DEF Event
    <3> HIDE DEF E
    <3> QED
      BY <1>1, <1>2, <3>1, <3>2, <3>3
  <2> QED
    BY <1>8, <2>1, <2>2, <2>3, <2>4, <2>5 DEF Poll
<1> QED
  BY <1>5, <1>6, <1>7, <1>8 DEF WorkerNext

(* What a step of the worker takes, and its generations.                   *)
LEMMA WorkerRequests ==
    ASSUME WorkerNext \/ PeerNext
    PROVE  \/ req' = req /\ wgen' = wgen
           \/ req # << >> /\ req' = Tail(req) /\ wgen' = wgen
           \/ /\ req # << >> /\ req' = Tail(req) /\ Head(req).msg \in DefinesGen
              /\ wgen' = [wgen EXCEPT ![Head(req).sock] = Head(req).gen]
<1>1. CASE Wake \/ ExitNotRunning \/ Drained
  BY <1>1 DEF Wake, ExitNotRunning, Drained, Finish, sockVars
<1>2. CASE ExitShutdown
  BY <1>2 DEF ExitShutdown, Finish
<1>3. CASE PeerNext
  BY <1>3 DEF PeerNext, PeerSend, PeerEnds, PeerOnly, workVars
<1>4. CASE HandleLeftover \/ HandleConnect \/ HandleSendTcp \/ HandleSendDatagram
  BY <1>4 DEF HandleLeftover, HandleConnect, HandleSendTcp, HandleSendDatagram, Taking, sockVars
<1>5. CASE HandleOpen \/ HandleAdoptListen \/ HandleClose
  BY <1>5 DEF HandleOpen, HandleAdoptListen, HandleClose, Taking, DefinesGen
<1>6. CASE Poll
  BY <1>6 DEF Poll, Polling, PollInvalid, PollConnecting, PollConnectDone, PollListening, PollOpen,
         PollFlush, PollNoFlush, PollNoRecv, PollLoadCredit, PollTake, PollPost, PollEof,
         PollRecvError, PollUdp, Slirp, sockVars
<1> QED
  BY <1>1, <1>2, <1>3, <1>4, <1>5, <1>6 DEF WorkerNext, Requests

LEMMA WorkerOrder ==
    ASSUME Types, GenOrder, WorkerNext \/ PeerNext, gen' = gen
    PROVE  GenerationOrder'
<1>1. req \in Seq(Requested) /\ \A j \in Sock : gen[j] \in Nat /\ wgen[j] \in Nat
  BY WorkerParts DEF Types, RingTypes
<1>2. wgen \in [Sock -> 0 .. MaxGen]
  BY WorkerParts
<1>3. \A j \in Sock : wgen[j] <= gen[j] /\ InOrder(req, j, wgen[j], gen[j]) /\ NoneAhead(evt, j, gen[j])
  BY OrderParts DEF GenOrder
<1>4. \A j \in Sock : NoneAhead(evt', j, gen[j])
  <2>1. CASE NoEvent
    BY <1>3, <2>1 DEF NoEvent
  <2>2. CASE \E e \in Happened : e.gen <= gen[e.sock] /\ PostEvent(e)
    BY <2>2, EventOrder DEF GenOrder
  <2>3. NoEvent \/ \E e \in Happened : e.gen <= gen[e.sock] /\ PostEvent(e)
    BY WorkerEvents, Zenon
  <2> QED
    BY <2>1, <2>2, <2>3, Zenon
<1>5. ASSUME NEW j \in Sock PROVE wgen'[j] <= gen[j] /\ InOrder(req', j, wgen'[j], gen[j])
  <2>1. CASE req' = req /\ wgen' = wgen
    BY <1>3, <2>1
  <2>2. CASE req # << >> /\ req' = Tail(req) /\ wgen' = wgen
    BY <1>1, <1>3, <2>2, OrderAfterTake
  <2>3. CASE /\ req # << >> /\ req' = Tail(req) /\ Head(req).msg \in DefinesGen
             /\ wgen' = [wgen EXCEPT ![Head(req).sock] = Head(req).gen]
    <3> DEFINE i == Head(req).sock
    <3>1. Head(req) = req[1] /\ i \in Sock /\ Head(req).gen \in Nat /\ Len(req) \in Nat \ {0}
      BY <2>3, TakenRequest
    <3>2. req[1].msg # "Shutdown"
      BY <2>3, <3>1 DEF DefinesGen
    <3>3. CASE j = i
      <4>1. wgen'[j] = req[1].gen /\ req[1].sock = j
        BY <1>2, <2>3, <3>1, <3>3
      <4>2. InOrder(Tail(req), j, wgen'[j], gen[j])
        BY <1>1, <1>3, <2>3, <3>2, <4>1, OrderAfterTake
      <4>3. req[1].gen <= gen[j]
        <5>1. 1 \in 1 .. Len(req)
          BY <3>1
        <5>2. req[1].gen \in wgen[j] .. gen[j]
          BY <1>3, <3>2, <4>1, <5>1 DEF InOrder
        <5> QED
          BY <1>1, <3>1, <5>2
      <4> QED
        BY <2>3, <4>1, <4>2, <4>3
    <3>4. CASE j # i
      <4>1. wgen'[j] = wgen[j]
        BY <1>2, <2>3, <3>4
      <4>2. InOrder(Tail(req), j, wgen'[j], gen[j])
        BY <1>1, <1>3, <2>3, <4>1, OrderAfterTake
      <4> QED
        BY <1>3, <2>3, <4>1, <4>2
    <3> QED
      BY <3>3, <3>4
  <2> QED
    BY <2>1, <2>2, <2>3, WorkerRequests
<1> QED
  BY <1>4, <1>5, OrderPartsPrime

LEMMA OfferNone ==
    ASSUME NEW S, NEW q \in Seq(S), NEW cap \in Nat, Len(q) <= cap
    PROVE  Offer(q, << >>, cap) = q
BY ConcatEmptySeq DEF Offer

(* A step that changes neither a ring nor a generation, or takes an event. *)
LEMMA SameOrder ==
    ASSUME Types, GenerationOrder, UNCHANGED <<gen, wgen, req>>,
           evt' = evt \/ (evt # << >> /\ evt' = Tail(evt))
    PROVE  GenerationOrder'
<1>1. evt \in Seq(Happened)
  BY DEF Types, RingTypes
<1>2. \A j \in Sock : wgen[j] <= gen[j] /\ InOrder(req, j, wgen[j], gen[j]) /\ NoneAhead(evt, j, gen[j])
  BY OrderParts
<1>3. \A j \in Sock : NoneAhead(evt', j, gen[j])
  <2>1. CASE evt' = evt
    BY <1>2, <2>1
  <2>2. CASE evt # << >> /\ evt' = Tail(evt)
    <3>1. Len(evt) \in Nat \ {0} /\ Len(evt') = Len(evt) - 1 /\ \A k \in 1 .. Len(evt') : evt'[k] = evt[k + 1]
      BY <1>1, <2>2, TailFacts
    <3>2. \A k \in 1 .. Len(evt') : k + 1 \in 1 .. Len(evt)
      BY <3>1
    <3> QED
      BY <1>2, <3>1, <3>2 DEF NoneAhead
  <2> QED
    BY <2>1, <2>2
<1> QED
  BY <1>2, <1>3, OrderPartsPrime

LEMMA SavedStays ==
    ASSUME Types, SavedOld, saved' = saved, \A j \in Sock : gen'[j] \in Nat /\ gen[j] <= gen'[j]
    PROVE  SavedOld'
<1> SUFFICES ASSUME saved # << >>, NEW j \in Sock PROVE saved[1].gen[j] <= gen'[j]
  BY DEF SavedOld
<1>1. saved[1].gen[j] \in Nat /\ gen[j] \in Nat
  <2>1. saved[1] \in Snap
    BY SavedType DEF Types
  <2> QED
    BY <2>1, SizeFacts, WorkerParts DEF Snap
<1> QED
  BY <1>1 DEF SavedOld

LEMMA CommandOrder ==
    ASSUME Types, GenOrder, NEW i \in Sock, Command(i), wgen' = wgen
    PROVE  GenOrder'
<1> DEFINE Grows == GenerationOrder' /\ \A j \in Sock : gen[j] <= gen'[j]
<1>0. GenerationOrder /\ SavedOld /\ RestoreRoom /\ RingTypes
  BY DEF GenOrder, Types
<1>1. \A j \in Sock : gen[j] \in Nat
  BY WorkerParts
<1>2. ASSUME Idle \/ Opening(i), saved' = saved, emu'[1] # "restore", Grows,
             \A j \in Sock : gen'[j] \in Nat
      PROVE  GenOrder'
  BY <1>0, <1>2, SavedStays DEF GenOrder, RestoreRoom
<1>3. CASE (\E p \in Protocol : WriteMR(i, p)) \/ WriteIR(i) \/ SendKeep(i) \/ (\E k \in 1 .. RxSize : Recv(i, k))
  <2>1. UNCHANGED <<emu, gen, req, evt, saved>> /\ Idle
    BY <1>3 DEF WriteMR, WriteIR, SendKeep, Recv
  <2>2. GenerationOrder'
    BY <1>0, <2>1, SameOrder
  <2>3. emu'[1] # "restore"
    BY <2>1 DEF Idle
  <2> QED
    BY <1>1, <1>2, <2>1, <2>2, <2>3
<1>4. CASE OpenClose(i) \/ Discon(i) \/ Close(i) \/ (Listen(i) /\ ListenRefused(i))
  <2>1. /\ GenLeft(i) /\ evt' = evt /\ saved' = saved /\ Idle
        /\ \E how \in {"Close", "CloseHost"} : CloseHost(i, gen[i] + 1, how)
    BY <1>4 DEF OpenClose, Discon, Close, Listen, ListenRefused, InitTcp
  <2>2. PICK rs : Renewal(i, gen[i] + 1, rs)
    BY <2>1, CloseHostRenewal
  <2>3. Grows
    BY <1>0, <2>1, <2>2, RenewalOrder
  <2>4. emu'[1] # "restore"
    BY <1>4 DEF OpenClose, Discon, Close, Listen, InitTcp, Idle
  <2>5. \A j \in Sock : gen'[j] \in Nat
    BY <1>1, <2>2, RenewedRequests
  <2> QED
    BY <1>2, <2>1, <2>3, <2>4, <2>5
<1>5. ASSUME NEW m \in Message, m # "Shutdown", NEW b \in Seq(Nat),
             Post(i, gen[i], <<Request(m, i, gen[i], b)>>), gen' = gen, evt' = evt
      PROVE  GenerationOrder'
  <2> DEFINE r == Request(m, i, gen[i], b)
  <2>1. r \in Requested
    BY <1>1, RequestType
  <2>2. r.gen = gen[r.sock]
    BY DEF Request
  <2>3. Post(i, gen[i], <<r>>)
    BY <1>5
  <2> HIDE DEF r
  <2>4. OneMore(req', Requested, req, r, ReqCap)
    BY <1>0, <1>1, <2>1, <2>3, PostOne
  <2> QED
    BY <1>0, <1>5, <2>1, <2>2, <2>4, PostOrder
<1>6. "OpenTcp" \in Message /\ "OpenUdp" \in Message /\ "AdoptListen" \in Message /\ "Connect" \in Message
      /\ << >> \in Seq(Nat)
  BY EmptySeq DEF Message, DefinesGen
<1>7. CASE OpenFinish(i)
  <2>1. gen' = gen /\ evt' = evt /\ saved' = saved /\ emu'[1] # "restore" /\ Opening(i)
        /\ Post(i, gen[i], OpenRequests(i))
    BY <1>7 DEF OpenFinish, Opening
  <2>2. CASE OpenRequests(i) = << >>
    <3>1. req' = Offer(req, << >>, ReqCap)
      BY <2>1, <2>2 DEF Post
    <3>2. req' = req
      BY <1>0, <3>1, OfferNone, SizeFacts DEF RingTypes
    <3>3. GenerationOrder'
      BY <1>0, <2>1, <3>2, SameOrder
    <3> QED
      BY <1>1, <1>2, <2>1, <3>3
  <2>3. CASE \E m \in {"OpenTcp", "OpenUdp"} : OpenRequests(i) = <<Request(m, i, gen[i], << >>)>>
    <3>1. GenerationOrder'
      BY <1>5, <1>6, <2>1, <2>3
    <3> QED
      BY <1>1, <1>2, <2>1, <3>1
  <2> QED
    BY <2>2, <2>3 DEF OpenRequests
<1>8. CASE (Listen(i) /\ ListenBound(i)) \/ Connect(i)
  <2>1. /\ gen' = gen /\ evt' = evt /\ saved' = saved /\ emu' = emu /\ Idle
        /\ \E m \in {"AdoptListen", "Connect"} : Post(i, gen[i], <<Request(m, i, gen[i], << >>)>>)
    BY <1>8 DEF Listen, ListenBound, Connect, InitTcp
  <2>2. GenerationOrder'
    BY <1>5, <1>6, <2>1
  <2>3. emu'[1] # "restore"
    BY <2>1 DEF Idle
  <2> QED
    BY <1>1, <1>2, <2>1, <2>2, <2>3
<1>9. CASE Send(i)
  <2> DEFINE b == [k \in 1 .. TxLen |-> txn[i] + k]
  <2>1. /\ gen' = gen /\ evt' = evt /\ saved' = saved /\ emu' = emu /\ Idle
        /\ Post(i, gen[i], <<Request(SendMsg(i), i, gen[i], b)>>)
    BY <1>9 DEF Send
  <2>2. b \in Seq(Nat)
    BY ChipAssumption DEF Types, ChipTypes
  <2> HIDE DEF b
  <2>3. SendMsg(i) \in Message /\ SendMsg(i) # "Shutdown"
    BY DEF SendMsg, Message, RawTx
  <2>4. GenerationOrder'
    BY <1>5, <2>1, <2>2, <2>3
  <2>5. emu'[1] # "restore"
    BY <2>1 DEF Idle
  <2> QED
    BY <1>1, <1>2, <2>1, <2>4, <2>5
<1>10. CASE Restore(i)
  <2>1. PICK g, rs : RestoredAs(i, g, rs)
    BY <1>10, RestoreRenews
  <2>2. Renewal(i, g, rs) /\ evt' = evt /\ saved' = saved /\ emu = <<"restore", i>> /\ emu' = NextRestore(i)
    BY <1>10, <2>1 DEF RestoredAs, Restore
  <2>3. Grows
    BY <1>0, <2>2, RenewalOrder
  <2>4. \A j \in Sock \ {i} : gen'[j] = gen[j]
    BY <2>2, RenewedRequests
  <2>5. \A j \in Sock : gen'[j] \in Nat
    BY <1>1, <2>2, RenewedRequests
  <2>6. SavedOld'
    BY <1>0, <2>2, <2>3, <2>5, SavedStays
  <2>7. RestoreRoom'
    <3> SUFFICES ASSUME emu'[1] = "restore"
                 PROVE  /\ saved # << >>
                        /\ \A j \in Sock : emu'[2] <= j =>
                              gen'[j] + (IF saved[1].sr[j] = "LISTEN" THEN 2 ELSE 1) <= MaxGen
      BY <2>2 DEF RestoreRoom
    <3>1. emu[1] = "restore" /\ emu[2] = i /\ emu'[2] = i + 1
      BY <2>2 DEF NextRestore
    <3>2. \A j \in Sock : i + 1 <= j => i <= j /\ j # i
      BY SizeFacts
    <3> QED
      BY <1>0, <2>4, <3>1, <3>2 DEF RestoreRoom
  <2> QED
    BY <2>3, <2>6, <2>7 DEF GenOrder
<1> QED
  BY <1>3, <1>4, <1>7, <1>8, <1>9, <1>10 DEF Command, Listen

LEMMA ChipOrder ==
    ASSUME Types, GenOrder, ChipNext \/ StopJoin, wgen' = wgen
    PROVE  GenOrder'
<1>0. GenerationOrder /\ SavedOld /\ RestoreRoom /\ RingTypes
  BY DEF GenOrder, Types
<1>1. \A j \in Sock : gen[j] \in Nat
  BY WorkerParts
<1>2. CASE \E i \in Sock : Command(i)
  BY <1>2, CommandOrder
<1>3. CASE Reset
  <2>1. GenerationOrder' /\ \A j \in Sock : gen[j] <= gen'[j]
    BY <1>0, <1>3, ResetOrder
  <2>2. saved' = saved /\ emu'[1] # "restore" /\ gen' = [i \in Sock |-> gen[i] + 1]
    BY <1>3 DEF Reset, Idle
  <2>3. \A j \in Sock : gen'[j] \in Nat
    BY <1>1, <2>2
  <2> QED
    BY <1>0, <2>1, <2>2, <2>3, SavedStays DEF GenOrder, RestoreRoom
<1>4. CASE TickBegin \/ TickEnd \/ ApplyEvent \/ StopJoin
  <2>1. UNCHANGED <<gen, req, saved>> /\ (evt' = evt \/ (evt # << >> /\ evt' = Tail(evt)))
    BY <1>4 DEF TickBegin, TickEnd, ApplyEvent, StopJoin, Applying, ApplyStale, ApplyStatus,
                ApplyRxTcp, ApplyRxUdp, ApplyMacRaw, ApplySendDone
  <2>2. emu'[1] # "restore"
    <3>1. emu' \in {<<"tick", 0>>, <<"idle", 0>>, <<"stopped", 0>>}
      BY <1>4 DEF TickBegin, TickEnd, ApplyEvent, StopJoin, Applying, ApplyStale, ApplyStatus,
                  ApplyRxTcp, ApplyRxUdp, ApplyMacRaw, ApplySendDone
    <3> QED
      BY <3>1
  <2>3. GenerationOrder'
    BY <1>0, <2>1, SameOrder
  <2>4. \A j \in Sock : gen'[j] \in Nat /\ gen[j] <= gen'[j]
    BY <1>1, <2>1
  <2> QED
    BY <1>0, <2>1, <2>2, <2>3, <2>4, SavedStays DEF GenOrder, RestoreRoom
<1>5. CASE Snapshot
  <2>1. UNCHANGED <<gen, req, evt, emu>> /\ emu[1] # "restore"
    BY <1>5 DEF Snapshot, Idle
  <2>2. saved'[1].gen = gen
    BY <1>5 DEF Snapshot
  <2>3. GenerationOrder'
    BY <1>0, <2>1, SameOrder
  <2>4. SavedOld'
    BY <1>1, <2>1, <2>2 DEF SavedOld
  <2> QED
    BY <2>1, <2>3, <2>4 DEF GenOrder, RestoreRoom
<1>6. CASE RestoreBegin
  <2>1. UNCHANGED <<gen, req, evt, saved>>
    BY <1>6 DEF RestoreBegin
  <2>2. GenerationOrder'
    BY <1>0, <2>1, SameOrder
  <2>3. SavedOld'
    BY <1>0, <2>1 DEF SavedOld
  <2>4. RestoreRoom'
    BY <1>6, <2>1 DEF RestoreRoom, RestoreBegin
  <2> QED
    BY <2>2, <2>3, <2>4 DEF GenOrder
<1>7. CASE Stop
  <2> DEFINE r == Request("Shutdown", 0, 0, << >>)
  <2>1. UNCHANGED <<gen, evt, saved>> /\ emu'[1] # "restore" /\ req' = Offer(req, <<r>>, ReqCap)
    BY <1>7 DEF Stop
  <2>2. r \in Requested
    <3>1. "Shutdown" \in Message /\ 0 \in Sock /\ 0 \in Nat /\ << >> \in Seq(Nat)
      BY SizeFacts, EmptySeq DEF Message
    <3> QED
      BY <3>1, RequestType
  <2>3. r.msg = "Shutdown"
    BY DEF Request
  <2> HIDE DEF r
  <2>4. OneMore(req', Requested, req, r, ReqCap)
    BY <1>0, <2>1, <2>2, OfferOne, SizeFacts DEF RingTypes
  <2>5. GenerationOrder'
    BY <1>0, <2>1, <2>2, <2>3, <2>4, PostOrder
  <2>6. \A j \in Sock : gen'[j] \in Nat /\ gen[j] <= gen'[j]
    BY <1>1, <2>1
  <2> QED
    BY <1>0, <2>1, <2>5, <2>6, SavedStays DEF GenOrder, RestoreRoom
<1> QED
  BY <1>2, <1>3, <1>4, <1>5, <1>6, <1>7 DEF ChipNext

(* The requests of the reset that start() makes.                           *)
LEMMA InitRequests ==
    ASSUME Init
    PROVE  /\ req \in Seq(Requested) /\ Len(req) \in 0 .. ReqCap
           /\ \A k \in 1 .. Len(req) : req[k].gen = 1 /\ req[k].msg = "CloseHost" /\ req[k].sock = k - 1
<1>1. << >> \in Seq(Requested) /\ Len(<< >>) = 0
  BY EmptySeq
<1> DEFINE one == [i \in Sock |-> 1]
           rs == [k \in 1 .. NSock |-> Request("CloseHost", k - 1, one[k - 1], << >>)]
<1>2. rs = [k \in 1 .. NSock |-> Request("CloseHost", k - 1, 1, << >>)]
  <2>1. \A k \in 1 .. NSock : k - 1 \in Sock
    BY SizeFacts DEF Sock
  <2> QED
    BY <2>1
<1>3. one \in [Sock -> Nat] /\ gen = one /\ \A j \in Sock : one[j] = 1
  BY DEF Init, ChipInit, NetInit
<1> HIDE DEF one
<1>4. /\ rs \in Seq(Requested) /\ Len(rs) = NSock
      /\ \A k \in 1 .. NSock : rs[k].sock = k - 1 /\ rs[k].gen = one[k - 1] /\ rs[k].msg = "CloseHost"
  BY <1>3, ResetRequests
<1> HIDE DEF rs
<1>5. req = Offer(<< >>, rs, ReqCap)
  BY <1>2 DEF Init, ChipInit, NetInit
<1>6. req \in Seq(Requested) /\ Len(req) \in 0 .. ReqCap
      /\ \A k \in 1 .. Len(req) : k \in 1 .. Len(rs) /\ req[k] = rs[k]
  <2>1. rs \in Seq(Requested) /\ ReqCap \in Nat
    BY <1>4, SizeFacts
  <2>2. ASSUME NEW q \in Seq(Requested), Len(q) <= ReqCap, req = Offer(q, rs, ReqCap)
        PROVE  /\ req \in Seq(Requested) /\ Len(req) \in Len(q) .. ReqCap
               /\ \A k \in 1 .. Len(req) : k > Len(q) =>
                     k - Len(q) \in 1 .. Len(rs) /\ req[k] = rs[k - Len(q)]
    BY <2>1, <2>2, OfferFacts
  <2>3. ASSUME NEW q \in Seq(Requested), Len(q) = 0, req = Offer(q, rs, ReqCap)
        PROVE  req \in Seq(Requested) /\ Len(req) \in 0 .. ReqCap
               /\ \A k \in 1 .. Len(req) : k \in 1 .. Len(rs) /\ req[k] = rs[k]
    <3>1. Len(q) <= ReqCap
      BY <2>1, <2>3
    <3>2. /\ req \in Seq(Requested) /\ Len(req) \in Len(q) .. ReqCap
          /\ \A k \in 1 .. Len(req) : k > Len(q) =>
                k - Len(q) \in 1 .. Len(rs) /\ req[k] = rs[k - Len(q)]
      BY <2>2, <2>3, <3>1, Zenon
    <3>3. \A k \in 1 .. Len(req) : k > Len(q) /\ k - Len(q) = k
      BY <2>3
    <3> QED
      BY <2>3, <3>2, <3>3
  <2> QED
    BY <1>1, <1>5, <2>3
<1>7. ASSUME NEW k \in 1 .. Len(req) PROVE req[k].gen = 1 /\ req[k].msg = "CloseHost" /\ req[k].sock = k - 1
  <2>1. k \in 1 .. NSock /\ req[k] = rs[k]
    BY <1>4, <1>6
  <2>2. k - 1 \in Sock
    BY <2>1, SizeFacts DEF Sock
  <2> QED
    BY <1>3, <1>4, <2>1, <2>2
<1> QED
  BY <1>6, <1>7

LEMMA InitOrder == Init => Types /\ GenOrder
<1> SUFFICES ASSUME Init PROVE Types /\ GenOrder
  OBVIOUS
<1>1. << >> \in Seq(Cell) /\ << >> \in Seq(Nat) /\ << >> \in Seq(Byte) /\ << >> \in Seq(Happened)
      /\ Len(<< >>) = 0 /\ << >> \in Seq(Requested)
  BY EmptySeq
<1>6. req \in Seq(Requested) /\ Len(req) \in 0 .. ReqCap
  BY InitRequests
<1>7. \A k \in 1 .. Len(req) : req[k].gen = 1
  BY InitRequests
<1>8. ChipTypes
  <2>1. emu \in Place /\ saved \in Saved /\ saves \in Nat
    BY DEF Place, Saved, Init, ChipInit
  <2>2. sr \in [Sock -> Status] /\ mr \in [Sock -> Mode] /\ ir \in [Sock -> SUBSET Bits]
    BY DEF Status, Mode, Bits, Init, ChipInit
  <2>3. gen \in [Sock -> 1 .. MaxGen]
    BY SizeFacts DEF Init, ChipInit
  <2>4. rxbuf \in [Sock -> Seq(Cell)] /\ rxpend \in [Sock -> Seq(Cell)]
    BY <1>1 DEF Init, ChipInit
  <2>5. txn \in [Sock -> Nat] /\ taken \in [Sock -> Int] /\ sendoks \in [Sock -> Nat]
    BY DEF Init, ChipInit
  <2> QED
    BY <2>1, <2>2, <2>3, <2>4, <2>5 DEF ChipTypes
<1>9. RingTypes
  <2>1. reqLost \in [Sock -> Nat] /\ evtLost \in [Sock -> Nat] /\ credit \in [Sock -> Int]
    BY DEF Init, ChipInit, NetInit
  <2>2. Len(req) <= ReqCap /\ Len(evt) <= EvtCap /\ evt \in Seq(Happened)
    <3>1. evt = << >>
      BY DEF Init, NetInit
    <3> QED
      BY <1>1, <1>6, <3>1, SizeFacts
  <2>3. running \in BOOLEAN
    BY Zenon DEF Init, ChipInit, NetInit
  <2> QED
    BY <1>6, <2>1, <2>2, <2>3 DEF RingTypes
<1>10. WorkerTypes
  <2>1. wi \in Sock /\ wgen \in [Sock -> 0 .. MaxGen] /\ frames \in Nat /\ wcred \in Int
        /\ psent \in [Sock -> Nat]
    BY SizeFacts DEF Init, NetInit
  <2>2. txp \in [Sock -> Seq(Nat)] /\ kin \in [Sock -> Seq(Byte)] /\ hostgot \in [Sock -> Seq(Nat)]
        /\ wgot \in Seq(Byte)
    BY <1>1 DEF Init, NetInit
  <2>3. wshort \in BOOLEAN
    BY Zenon DEF Init, ChipInit, NetInit
  <2>4. wst \in [Sock -> Status] /\ wfd \in [Sock -> {"none", "tcp", "listen", "udp"}]
        /\ peer \in [Sock -> {"none", "up", "fin", "rst"}] /\ wpc = "top"
    BY DEF Status, Init, NetInit
  <2> QED
    BY <2>1, <2>2, <2>3, <2>4 DEF WorkerTypes
<1>11. GenerationOrder
  <2>1. \A i \in Sock : wgen[i] = 0 /\ gen[i] = 1
    BY DEF Init, ChipInit, NetInit
  <2>2. Len(evt) = 0
    BY <1>1 DEF Init, NetInit
  <2>3. Len(req) \in Nat
    BY <1>6, LenProperties
  <2> QED
    BY <1>7, <2>1, <2>2, <2>3 DEF GenerationOrder
<1>12. SavedOld /\ RestoreRoom
  BY DEF SavedOld, RestoreRoom, Init, ChipInit
<1> QED
  BY <1>8, <1>9, <1>10, <1>11, <1>12 DEF Types, GenOrder

LEMMA ChipStepTypes ==
    ASSUME Types, GenOrder, ChipNext \/ StopJoin
    PROVE  (ChipTypes /\ RingTypes)'
<1>1. ASSUME NEW i \in Sock, Command(i) PROVE (ChipTypes /\ RingTypes)'
  BY <1>1, RegisterTypes, OpenCloseTypes, OpenFinishTypes, ListenTypes, ConnectTypes, EndTypes,
     SendTypes, RecvTypes, RestoreTypes DEF Command
<1> QED
  BY <1>1, ResetTypes, TickTypes, ApplyTypes, SnapshotTypes, StopTypes DEF ChipNext

LEMMA OrderStep == Types /\ GenOrder /\ [Next]_vars => Types' /\ GenOrder'
<1> SUFFICES ASSUME Types, GenOrder, [Next]_vars PROVE Types' /\ GenOrder'
  OBVIOUS
<1>1. CASE (ChipNext \/ StopJoin) /\ UNCHANGED <<workVars, hostVars>>
  <2>1. wgen' = wgen
    BY <1>1 DEF workVars
  <2>2. WorkerTypes'
    BY <1>1 DEF workVars, hostVars, Types, WorkerTypes
  <2> QED
    BY <1>1, <2>1, <2>2, ChipStepTypes, ChipOrder DEF Types
<1>2. CASE (WorkerNext \/ PeerNext) /\ UNCHANGED chipVars
  <2>1. UNCHANGED <<emu, sr, gen, mr, ir, rxbuf, rxpend, saved, saves, txn, taken, sendoks>>
    BY <1>2 DEF chipVars
  <2>2. ChipTypes'
    BY <2>1 DEF Types, ChipTypes
  <2>3. (WorkerTypes /\ RingTypes)'
    BY <1>2, WorkerLoopTypes, HandleTypes, PollTypes, PeerTypes DEF WorkerNext
  <2>4. GenerationOrder'
    BY <1>2, <2>1, WorkerOrder
  <2>5. SavedOld' /\ RestoreRoom'
    BY <2>1 DEF GenOrder, SavedOld, RestoreRoom
  <2> QED
    BY <2>2, <2>3, <2>4, <2>5 DEF Types, GenOrder
<1>3. CASE UNCHANGED vars
  <2>1. UNCHANGED <<emu, sr, gen, mr, ir, rxbuf, rxpend, saved, saves, txn, taken, sendoks,
                    req, evt, credit, running, reqLost, evtLost>>
    BY <1>3 DEF vars, chipVars
  <2>2. UNCHANGED <<wpc, wi, wgen, wfd, wst, txp, wcred, wgot, wshort,
                    peer, kin, psent, hostgot, frames>>
    BY <1>3 DEF vars, workVars, hostVars
  <2>3. Types'
    BY <2>1, <2>2 DEF Types, ChipTypes, RingTypes, WorkerTypes
  <2>4. GenerationOrder'
    BY <2>1, <2>2, SameOrder DEF GenOrder
  <2>5. SavedOld' /\ RestoreRoom'
    BY <2>1 DEF GenOrder, SavedOld, RestoreRoom
  <2> QED
    BY <2>3, <2>4, <2>5 DEF GenOrder
<1> QED
  BY <1>1, <1>2, <1>3 DEF Next, Emulator, Worker, Peer, Stopped, StopJoin

-----------------------------------------------------------------------------
(* The worker and everything in the two rings are never ahead of the       *)
(* chip's generation of a socket, and the requests of a socket are in the  *)
(* order of their generations: the generation tests of apply_event and     *)
(* handle_request compare like with like.                                  *)
THEOREM GenerationsInOrder == Spec => []GenerationOrder
<1>1. GenOrder => GenerationOrder
  BY DEF GenOrder
<1>2. Init => Types /\ GenOrder
  BY InitOrder
<1>3. Types /\ GenOrder /\ [Next]_vars => Types' /\ GenOrder'
  BY OrderStep
<1> QED
  BY <1>1, <1>2, <1>3, PTL DEF Spec

-----------------------------------------------------------------------------
(* What the rings hold for a socket.                                       *)

(* Socket j's requests and events stay, move up when the oldest is taken,  *)
(* or are joined by one request that its phase allows.                     *)
Same(j, a, b) ==
    /\ gen'[j] = gen[j] /\ wgen'[j] = wgen[j] /\ wst'[j] = wst[j]
    /\ \/ Phase(j)' = Phase(j)
       \/ Phase(j) = "opening"
       \/ Phase(j) = "datagram" /\ Failing(j) /\ Phase(j)' = "stream"
    /\ \A k \in Current(j)' :
          \/ k + a \in Current(j) /\ req'[k] = req[k + a]
          \/ /\ k = Len(req) + 1 /\ req'[k].msg \in MayAsk(Phase(j)')
             /\ req'[k].msg = "OpenUdp" => Phase(j) = "opening"
    /\ \A k \in Told(j)' : k + b \in Told(j) /\ evt'[k] = evt[k + b]

LEMMA PhaseCases ==
    /\ \A j : Phase(j) \in {"opening", "datagram", "stream"}
    /\ \A j : Phase(j) = "opening" <=> Opening(j)
    /\ \A j : Phase(j) = "datagram" <=> ~Opening(j) /\ sr[j] \in Headed
    /\ MayAsk("opening") = Closes /\ MayBe("opening") = {"CLOSED"} /\ MayTell("opening") = {"SendDone"}
    /\ MayAsk("datagram") = Closes \cup {"OpenUdp", "SendUdp"} \cup RawTx
    /\ MayBe("datagram") = {"CLOSED", "UDP"} /\ MayTell("datagram") = {"RxUdp", "Status", "SendDone"}
    /\ MayAsk("stream") = Message \ {"OpenUdp"} /\ MayBe("stream") = Status \ {"UDP"}
    /\ MayTell("stream") = {"RxTcp", "Status", "SendDone"}
BY DEF Phase, MayAsk, MayBe, MayTell

(* What any phase allows that OPEN under way allows.                       *)
LEMMA OpeningAllows ==
    ASSUME NEW p \in {"opening", "datagram", "stream"}
    PROVE  MayAsk("opening") \subseteq MayAsk(p) /\ MayBe("opening") \subseteq MayBe(p)
           /\ MayTell("opening") \subseteq MayTell(p)
BY DEF MayAsk, MayBe, MayTell, Closes, Message, DefinesGen, Status

LEMMA SameProtocol ==
    ASSUME Types, NEW j \in Sock, ProtocolOk(j), NEW a \in {0, 1}, NEW b \in {0, 1}, Same(j, a, b)
    PROVE  ProtocolOk(j)'
<1> DEFINE p == Phase(j)
           q == Phase(j)'
           cur == Current(j)
           told == Told(j)
<1>1. p \in {"opening", "datagram", "stream"} /\ q \in {"opening", "datagram", "stream"}
  BY DEF Phase
<1>2. Asked(j) /\ Heard(j) /\ Working(j) /\ Once(j)
  BY DEF ProtocolOk
<1>3. q = p \/ p = "opening" \/ (p = "datagram" /\ Failing(j) /\ q = "stream")
  BY DEF Same
<1>4. wgen'[j] = wgen[j] /\ wst'[j] = wst[j] /\ gen'[j] = gen[j] /\ wst[j] \in Status
  BY DEF Same, Types, WorkerTypes
<1>5. \A k \in Current(j)' :
         \/ k + a \in cur /\ req'[k] = req[k + a]
         \/ k = Len(req) + 1 /\ req'[k].msg \in MayAsk(q) /\ (req'[k].msg = "OpenUdp" => p = "opening")
  BY DEF Same
<1>6. \A k \in Told(j)' : k + b \in told /\ evt'[k] = evt[k + b]
  BY DEF Same
<1>7. cur \subseteq Nat /\ Current(j)' \subseteq Nat
  BY DEF Current
<1>8. \A k \in cur : req[k].msg \in MayAsk(p) /\ req[k].msg \in Message
  <2>1. \A k \in cur : req[k] \in Requested
    BY ElementOfSeq DEF Current, Types, RingTypes
  <2> QED
    BY <1>2, <2>1 DEF Asked, Requested
<1>9. \A k \in told : evt[k].evt \in MayTell(p)
  BY <1>2 DEF Heard
<1>10. AtWork(j)' <=> AtWork(j)
  BY <1>4 DEF AtWork
<1> HIDE DEF p, q, cur, told
<1>11. p = "datagram" /\ q = "stream" =>
          /\ \A k \in cur : req[k].msg # "OpenUdp"
          /\ \A k \in told : evt[k].evt # "RxUdp"
          /\ AtWork(j) => wst[j] # "UDP"
  BY <1>1, <1>2, <1>3 DEF Once, Asking, Live, Failing, p, q, cur, told
<1>12. Asked(j)'
  <2>1. \A k \in cur : req[k].msg \in MayAsk(q)
    <3>1. CASE p = "datagram" /\ q = "stream"
      BY <1>8, <1>11, <3>1, PhaseCases
    <3>2. CASE q = p \/ p = "opening"
      BY <1>1, <1>8, <3>2, OpeningAllows
    <3> QED
      BY <1>3, <3>1, <3>2
  <2>2. \A k, l \in cur : req[k].msg = "OpenUdp" /\ req[l].msg = "OpenUdp" => k = l
    BY <1>2 DEF Asked, cur
  <2>3. p = "opening" => \A k \in cur : req[k].msg # "OpenUdp"
    BY <1>8, PhaseCases DEF Closes
  <2>4. \A k \in Current(j)' : req'[k].msg \in MayAsk(q)
    BY <1>5, <2>1
  <2>5. ASSUME NEW k \in Current(j)', NEW l \in Current(j)', req'[k].msg = "OpenUdp", req'[l].msg = "OpenUdp"
        PROVE  k = l
    <3>1. CASE p = "opening"
      BY <1>5, <2>3, <2>5, <3>1
    <3>2. CASE p # "opening"
      <4>1. k + a \in cur /\ l + a \in cur /\ req[k + a].msg = "OpenUdp" /\ req[l + a].msg = "OpenUdp"
        BY <1>5, <2>5, <3>2
      <4>2. k + a = l + a
        BY <2>2, <4>1
      <4> QED
        BY <1>7, <4>2
    <3> QED
      BY <3>1, <3>2
  <2> QED
    BY <2>4, <2>5 DEF Asked, q
<1>13. Heard(j)'
  <2>1. \A k \in told : evt[k].evt \in MayTell(q)
    <3>1. CASE p = "datagram" /\ q = "stream"
      BY <1>9, <1>11, <3>1, PhaseCases
    <3>2. CASE q = p \/ p = "opening"
      BY <1>1, <1>9, <3>2, OpeningAllows
    <3> QED
      BY <1>3, <3>1, <3>2
  <2>2. \A k \in Told(j)' : evt'[k].evt \in MayTell(q)
    BY <1>6, <2>1
  <2> QED
    BY <2>2 DEF Heard, q
<1>14. Working(j)'
  <2>1. AtWork(j) => wst[j] \in MayBe(p)
    BY <1>2 DEF Working, p
  <2>2. AtWork(j) => wst[j] \in MayBe(q)
    <3>1. CASE p = "datagram" /\ q = "stream"
      BY <1>4, <1>11, <3>1, PhaseCases
    <3>2. CASE q = p \/ p = "opening"
      BY <1>1, <2>1, <3>2, OpeningAllows
    <3> QED
      BY <1>3, <3>1, <3>2
  <2> QED
    BY <1>4, <1>10, <2>2 DEF Working, q
<1>15. Once(j)'
  <2> SUFFICES ASSUME q = "datagram"
               PROVE  /\ ~(Asking(j)' /\ Live(j)') /\ ~(Asking(j)' /\ Failing(j)')
                      /\ ~(Live(j)' /\ Failing(j)')
                      /\ \A k \in Told(j)' : evt'[k].evt = "Status" => evt'[k].cause = "Failed"
    BY DEF Once, q
  <2>1. CASE p = "opening"
    <3>1. \A k \in told : evt[k].evt = "SendDone"
      BY <1>9, <2>1, PhaseCases
    <3>2. \A k \in Told(j)' : evt'[k].evt = "SendDone"
      BY <1>6, <3>1
    <3>3. AtWork(j) => wst[j] = "CLOSED"
      BY <1>2, <2>1, PhaseCases DEF Working, p
    <3> QED
      BY <1>4, <1>10, <3>2, <3>3 DEF Live, Failing
  <2>2. CASE p = "datagram"
    <3>1. /\ ~(Asking(j) /\ Live(j)) /\ ~(Asking(j) /\ Failing(j)) /\ ~(Live(j) /\ Failing(j))
          /\ \A k \in told : evt[k].evt = "Status" => evt[k].cause = "Failed"
      BY <1>2, <2>2 DEF Once, p, told
    <3>2. Asking(j)' => Asking(j)
      BY <1>5, <2>2 DEF Asking, cur
    <3>3. Live(j)' => Live(j)
      BY <1>4, <1>6, <1>10 DEF Live, told
    <3>4. Failing(j)' => Failing(j)
      BY <1>6 DEF Failing, told
    <3> QED
      BY <1>6, <3>1, <3>2, <3>3, <3>4
  <2> QED
    BY <1>1, <1>3, <2>1, <2>2
<1> QED
  BY <1>12, <1>13, <1>14, <1>15 DEF ProtocolOk

(* What a step of the worker adds to the event ring for socket j, by what  *)
(* happened and why.  An answer to a SEND is always welcome.               *)
News(j, new) ==
    \A k \in 1 .. Len(evt') :
        \/ k \in 1 .. Len(evt) /\ evt'[k] = evt[k]
        \/ evt'[k].sock # j
        \/ evt'[k].evt \in {"MacRawRx", "SendDone"}
        \/ evt'[k].gen = wgen'[j] /\ evt'[k].cause \in Cause /\ <<evt'[k].evt, evt'[k].cause>> \in new

(* The status that a request which starts a generation leads to.           *)
Opened(m) ==
    CASE m = "OpenTcp" -> "INIT"
      [] m = "OpenUdp" -> "UDP"
      [] m = "AdoptListen" -> "LISTEN"
      [] OTHER -> "CLOSED"

(* What a step of the worker does to socket j: next to nothing, the life   *)
(* of a connection, the arrival of a datagram, or the start of a           *)
(* generation.                                                             *)
Keeps(j) == wgen'[j] = wgen[j] /\ wst'[j] \in {wst[j], "CLOSED"} /\ News(j, {})
Streams(j) ==
    /\ wgen'[j] = wgen[j]
    /\ wst[j] \notin {"CLOSED", "UDP"} /\ wst'[j] # "UDP"
    /\ News(j, {"Status", "RxTcp"} \X Cause)
Receives(j) == wgen'[j] = wgen[j] /\ wst[j] = "UDP" /\ wst'[j] = "UDP" /\ News(j, {"RxUdp"} \X Cause)
Defines(j) ==
    /\ req # << >> /\ req' = Tail(req)
    /\ req[1].sock = j /\ req[1].msg \in DefinesGen /\ wgen'[j] = req[1].gen
    /\ \/ wst'[j] = Opened(req[1].msg) /\ News(j, {})
       \/ /\ req[1].msg \in {"OpenTcp", "OpenUdp"} /\ wst'[j] = "CLOSED"
          /\ News(j, {<<"Status", "Failed">>})

(* What the worker tells of the current generation.                        *)
ToldNews(j, new) ==
    \A k \in Told(j)' :
        \/ k \in Told(j) /\ evt'[k] = evt[k]
        \/ evt'[k].evt = "SendDone"
        \/ AtWork(j)' /\ <<evt'[k].evt, evt'[k].cause>> \in new

LEMMA NewsTold ==
    ASSUME NEW j, NEW new, News(j, new), gen'[j] = gen[j]
    PROVE  ToldNews(j, new)
BY DEF News, Told, AtWork, ToldNews

(* The requests that are left when the worker took the oldest or none.     *)
LEMMA TakenCurrent ==
    ASSUME Types, NEW j \in Sock, gen'[j] = gen[j], req' = req \/ (req # << >> /\ req' = Tail(req))
    PROVE  \E a \in {0, 1} : /\ \A k \in Current(j)' : k + a \in Current(j) /\ req'[k] = req[k + a]
                             /\ req # << >> /\ req' = Tail(req) => a = 1
<1>1. req \in Seq(Requested) /\ Len(req) \in Nat
  BY LenProperties DEF Types, RingTypes
<1>2. CASE req # << >> /\ req' = Tail(req)
  <2>1. Len(req') = Len(req) - 1 /\ \A k \in 1 .. Len(req') : req'[k] = req[k + 1]
    BY <1>2, TakenRequest
  <2>2. \A k \in Current(j)' : k + 1 \in Current(j) /\ req'[k] = req[k + 1]
    BY <1>1, <2>1 DEF Current
  <2> QED
    BY <1>2, <2>2
<1>3. CASE ~(req # << >> /\ req' = Tail(req))
  <2>1. \A k \in Current(j)' : k + 0 \in Current(j) /\ req'[k] = req[k + 0]
    BY <1>1, <1>3 DEF Current
  <2> QED
    BY <1>3, <2>1
<1> QED
  BY <1>2, <1>3

LEMMA EffectProtocol ==
    ASSUME Types, NEW j \in Sock, ProtocolOk(j), UNCHANGED <<gen, emu, sr>>,
           req' = req \/ (req # << >> /\ req' = Tail(req)),
           Types', Keeps(j) \/ Streams(j) \/ Receives(j) \/ Defines(j)
    PROVE  ProtocolOk(j)'
<1> DEFINE p == Phase(j)
           cur == Current(j)
           told == Told(j)
<1>1. p \in {"opening", "datagram", "stream"} /\ Phase(j)' = p
  BY DEF Phase, Opening
<1>2. Asked(j) /\ Heard(j) /\ Working(j) /\ Once(j)
  BY DEF ProtocolOk
<1>3. wst'[j] \in Status /\ wst[j] \in Status /\ gen'[j] = gen[j]
  BY DEF Types, WorkerTypes
<1>4. PICK a \in {0, 1} : /\ \A k \in Current(j)' : k + a \in cur /\ req'[k] = req[k + a]
                          /\ req # << >> /\ req' = Tail(req) => a = 1
  BY <1>3, TakenCurrent
<1>5. cur \subseteq Nat /\ Current(j)' \subseteq Nat \ {0}
  BY DEF Current
<1>6. \A k \in cur : req[k].msg \in MayAsk(p)
  BY <1>2 DEF Asked
<1>7. \A k \in told : evt[k].evt \in MayTell(p)
  BY <1>2 DEF Heard
<1>8. \A k, l \in cur : req[k].msg = "OpenUdp" /\ req[l].msg = "OpenUdp" => k = l
  BY <1>2 DEF Asked
<1>9. AtWork(j) => wst[j] \in MayBe(p)
  BY <1>2 DEF Working
<1>10. p = "datagram" =>
          /\ ~(Asking(j) /\ Live(j)) /\ ~(Asking(j) /\ Failing(j)) /\ ~(Live(j) /\ Failing(j))
          /\ \A k \in told : evt[k].evt = "Status" => evt[k].cause = "Failed"
  BY <1>2 DEF Once
<1> HIDE DEF p, cur, told
<1>11. Asked(j)'
  <2>1. \A k, l \in Current(j)' : req'[k].msg = "OpenUdp" /\ req'[l].msg = "OpenUdp" => k = l
    <3> SUFFICES ASSUME NEW k \in Current(j)', NEW l \in Current(j)', req'[k].msg = "OpenUdp", req'[l].msg = "OpenUdp"
                 PROVE  k = l
      OBVIOUS
    <3>1. k + a = l + a
      BY <1>4, <1>8
    <3> QED
      BY <1>5, <3>1
  <2> QED
    BY <1>1, <1>4, <1>6, <2>1 DEF Asked
<1>12. Asking(j)' => Asking(j)
  BY <1>4 DEF Asking, cur
<1>13. SUFFICES /\ \A k \in Told(j)' : evt'[k].evt \in MayTell(p)
                /\ AtWork(j)' => wst'[j] \in MayBe(p)
                /\ p = "datagram" =>
                      /\ ~(Asking(j)' /\ Live(j)') /\ ~(Asking(j)' /\ Failing(j)') /\ ~(Live(j)' /\ Failing(j)')
                      /\ \A k \in Told(j)' : evt'[k].evt = "Status" => evt'[k].cause = "Failed"
  BY <1>1, <1>11 DEF ProtocolOk, Heard, Working, Once
<1>14. "SendDone" \in MayTell(p) /\ "CLOSED" \in MayBe(p)
  BY <1>1, PhaseCases DEF Status
<1>15. ASSUME News(j, {}), wst'[j] = "CLOSED" \/ (wst'[j] = wst[j] /\ wgen'[j] = wgen[j])
       PROVE  /\ \A k \in Told(j)' : evt'[k].evt \in MayTell(p)
              /\ AtWork(j)' => wst'[j] \in MayBe(p)
              /\ Live(j)' => Live(j)
              /\ Failing(j)' => Failing(j)
              /\ p = "datagram" => \A k \in Told(j)' : evt'[k].evt = "Status" => evt'[k].cause = "Failed"
  <2>0. ToldNews(j, {})
    BY <1>3, <1>15, NewsTold
  <2>1. \A k \in Told(j)' : (k \in told /\ evt'[k] = evt[k]) \/ evt'[k].evt = "SendDone"
    BY <2>0 DEF ToldNews, told
  <2>2. AtWork(j)' => wst'[j] = "CLOSED" \/ (AtWork(j) /\ wst'[j] = wst[j])
    BY <1>3, <1>15 DEF AtWork
  <2>3. Live(j)' => Live(j)
    BY <2>1, <2>2 DEF Live, told
  <2>4. Failing(j)' => Failing(j)
    BY <2>1 DEF Failing, told
  <2> QED
    BY <1>7, <1>9, <1>10, <1>14, <2>1, <2>2, <2>3, <2>4
<1>16. CASE Keeps(j)
  BY <1>10, <1>12, <1>15, <1>16 DEF Keeps
<1>17. CASE Streams(j)
  <2>0. ToldNews(j, {"Status", "RxTcp"} \X Cause)
    BY <1>3, <1>17, NewsTold DEF Streams
  <2>1. \A k \in Told(j)' : \/ k \in told /\ evt'[k] = evt[k]
                            \/ evt'[k].evt = "SendDone"
                            \/ AtWork(j)' /\ evt'[k].evt \in {"Status", "RxTcp"}
    BY <2>0 DEF ToldNews, told
  <2>2. AtWork(j)' = AtWork(j)
    BY <1>3, <1>17 DEF Streams, AtWork
  <2>3. CASE AtWork(j)
    <3>1. p = "stream"
      BY <1>1, <1>9, <1>17, <2>3, PhaseCases DEF Streams
    <3> QED
      BY <1>3, <1>7, <1>17, <2>1, <3>1, PhaseCases DEF Streams
  <2>4. CASE ~AtWork(j)
    <3>1. \A k \in Told(j)' : (k \in told /\ evt'[k] = evt[k]) \/ evt'[k].evt = "SendDone"
      BY <2>1, <2>2, <2>4
    <3>2. Live(j)' => Live(j)
      BY <2>2, <2>4, <3>1 DEF Live, told
    <3>3. Failing(j)' => Failing(j)
      BY <3>1 DEF Failing, told
    <3> QED
      BY <1>7, <1>10, <1>12, <1>14, <2>2, <2>4, <3>1, <3>2, <3>3
  <2> QED
    BY <2>3, <2>4
<1>18. CASE Receives(j)
  <2>0. ToldNews(j, {"RxUdp"} \X Cause)
    BY <1>3, <1>18, NewsTold DEF Receives
  <2>1. \A k \in Told(j)' : \/ k \in told /\ evt'[k] = evt[k]
                            \/ evt'[k].evt = "SendDone"
                            \/ AtWork(j)' /\ evt'[k].evt = "RxUdp"
    BY <2>0 DEF ToldNews, told
  <2>2. AtWork(j)' = AtWork(j) /\ wst'[j] = wst[j] /\ wst[j] = "UDP"
    BY <1>3, <1>18 DEF Receives, AtWork
  <2>3. AtWork(j) => p = "datagram" /\ Live(j)
    BY <1>1, <1>9, <2>2, PhaseCases DEF Live
  <2>4. Live(j)' => Live(j)
    BY <2>1, <2>2, <2>3 DEF Live, told
  <2>5. Failing(j)' => Failing(j)
    BY <2>1 DEF Failing, told
  <2>6. \A k \in Told(j)' : evt'[k].evt \in MayTell(p)
    BY <1>7, <1>14, <2>1, <2>2, <2>3, PhaseCases
  <2>7. p = "datagram" => \A k \in Told(j)' : evt'[k].evt = "Status" => evt'[k].cause = "Failed"
    BY <1>10, <2>1
  <2> QED
    BY <1>9, <1>10, <1>12, <2>2, <2>4, <2>5, <2>6, <2>7
<1>19. CASE Defines(j)
  <2> DEFINE m == req[1].msg
  <2>1. req # << >> /\ req' = Tail(req) /\ a = 1 /\ wgen'[j] = req[1].gen /\ m \in DefinesGen
    BY <1>4, <1>19 DEF Defines
  <2>2. AtWork(j)' => 1 \in cur
    <3>1. Len(req) \in Nat \ {0}
      BY <2>1, TakenRequest
    <3>2. req[1].sock = j /\ (AtWork(j)' => req[1].gen = gen[j]) /\ 1 \in 1 .. Len(req)
      BY <1>3, <1>19, <2>1, <3>1 DEF Defines, AtWork
    <3> QED
      BY <3>2 DEF Current, cur
  <2>3. \A k \in Current(j)' : k + a # 1
    BY <1>5, <2>1
  <2>4. AtWork(j)' /\ m = "OpenUdp" => ~Asking(j)' /\ Asking(j)
    BY <1>4, <1>8, <2>2, <2>3 DEF Asking, cur
  <2> HIDE DEF m
  <2>5. CASE wst'[j] = Opened(m) /\ News(j, {}) /\ Opened(m) # "CLOSED"
    <3>0. ToldNews(j, {})
      BY <1>3, <2>5, NewsTold
    <3>1. \A k \in Told(j)' : (k \in told /\ evt'[k] = evt[k]) \/ evt'[k].evt = "SendDone"
      BY <3>0 DEF ToldNews, told
    <3>2. Failing(j)' => Failing(j)
      BY <3>1 DEF Failing, told
    <3>3. ~AtWork(j)' => (Live(j)' => Live(j))
      BY <3>1 DEF Live, told
    <3>4. AtWork(j)' => m \in MayAsk(p)
      BY <1>6, <2>2 DEF m
    <3>5. AtWork(j)' => wst'[j] \in MayBe(p)
      <4>1. p = "opening" => ~AtWork(j)'
        BY <2>5, <3>4, PhaseCases DEF Opened, Closes
      <4>2. p = "datagram" /\ AtWork(j)' => m = "OpenUdp"
        BY <2>1, <2>5, <3>4, PhaseCases DEF Opened, Closes, RawTx, DefinesGen, m
      <4>3. p = "stream" /\ AtWork(j)' => wst'[j] # "UDP"
        BY <2>5, <3>4, PhaseCases DEF Opened
      <4> QED
        BY <1>1, <1>3, <2>5, <4>1, <4>2, <4>3, PhaseCases DEF Opened
    <3>6. p = "datagram" /\ AtWork(j)' => ~Asking(j)' /\ Asking(j)
      <4>1. p = "datagram" /\ AtWork(j)' => m = "OpenUdp"
        BY <2>1, <2>5, <3>4, PhaseCases DEF Opened, Closes, RawTx, DefinesGen, m
      <4> QED
        BY <2>4, <4>1
    <3> QED
      BY <1>7, <1>10, <1>12, <1>14, <3>1, <3>2, <3>3, <3>5, <3>6
  <2>6. CASE wst'[j] = "CLOSED" /\ News(j, {})
    BY <1>10, <1>12, <1>15, <2>6
  <2>7. CASE m \in {"OpenTcp", "OpenUdp"} /\ wst'[j] = "CLOSED" /\ News(j, {<<"Status", "Failed">>})
    <3>0. ToldNews(j, {<<"Status", "Failed">>})
      BY <1>3, <2>7, NewsTold
    <3>1. \A k \in Told(j)' : \/ k \in told /\ evt'[k] = evt[k]
                              \/ evt'[k].evt = "SendDone"
                              \/ AtWork(j)' /\ evt'[k].evt = "Status" /\ evt'[k].cause = "Failed"
      BY <3>0 DEF ToldNews, told
    <3>2. Live(j)' => Live(j)
      BY <2>7, <3>1 DEF Live, told
    <3>3. ~AtWork(j)' => (Failing(j)' => Failing(j))
      BY <3>1 DEF Failing, told
    <3>4. AtWork(j)' => m \in MayAsk(p)
      BY <1>6, <2>2 DEF m
    <3>5. AtWork(j)' => p # "opening" /\ (p = "datagram" => m = "OpenUdp")
      BY <2>7, <3>4, PhaseCases DEF Closes, RawTx
    <3>6. \A k \in Told(j)' : evt'[k].evt \in MayTell(p)
      BY <1>1, <1>7, <1>14, <3>1, <3>5, PhaseCases
    <3> QED
      BY <1>10, <1>12, <1>14, <2>4, <2>7, <3>1, <3>2, <3>3, <3>5, <3>6
  <2> QED
    BY <1>19, <2>5, <2>6, <2>7 DEF Defines, m
<1> QED
  BY <1>16, <1>17, <1>18, <1>19

(* One event, if any, about socket i in generation g.                      *)
Says(i, g, what) ==
    NoEvent \/ \E e \in Happened : e.sock = i /\ e.gen = g /\ e.evt \in what /\ PostEvent(e)

LEMMA SaysStatus ==
    ASSUME NEW i \in Sock, NEW g \in Nat, NEW c \in Cause,
           \/ PostEvent(StatusEvent(i, g, c)) \/ PostEvent(Event("SendDone", i, g, c, << >>)) \/ NoEvent
    PROVE  Says(i, g, {"Status", "SendDone"})
<1>1. ASSUME NEW x \in {"Status", "SendDone"}, PostEvent(Event(x, i, g, c, << >>))
      PROVE  Says(i, g, {"Status", "SendDone"})
  <2> DEFINE e == Event(x, i, g, c, << >>)
  <2>1. e \in Happened
    BY EventType
  <2>2. e.sock = i /\ e.gen = g /\ e.evt = x /\ PostEvent(e)
    BY <1>1 DEF Event
  <2> HIDE DEF e
  <2> QED
    BY <2>1, <2>2 DEF Says
<1> QED
  BY <1>1 DEF StatusEvent, Says

LEMMA NewsOne ==
    ASSUME RingTypes, NEW j, NEW new, NEW e \in Happened, PostEvent(e),
           \/ e.sock # j
           \/ e.evt \in {"MacRawRx", "SendDone"}
           \/ e.gen = wgen'[j] /\ <<e.evt, e.cause>> \in new
    PROVE  News(j, new)
<1>1. OneMore(evt', Happened, evt, e, EvtCap) /\ e.cause \in Cause
  BY PostEventOne, EventData
<1> SUFFICES ASSUME NEW k \in 1 .. Len(evt')
             PROVE  \/ k \in 1 .. Len(evt) /\ evt'[k] = evt[k]
                    \/ evt'[k].sock # j
                    \/ evt'[k].evt \in {"MacRawRx", "SendDone"}
                    \/ evt'[k].gen = wgen'[j] /\ evt'[k].cause \in Cause /\ <<evt'[k].evt, evt'[k].cause>> \in new
  BY DEF News
<1>2. Len(evt) \in Nat /\ (k > Len(evt) => evt'[k] = e) /\ (k \in 1 .. Len(evt) => evt'[k] = evt[k])
  BY <1>1 DEF OneMore
<1>3. CASE k > Len(evt)
  BY <1>1, <1>2, <1>3
<1>4. CASE k <= Len(evt)
  BY <1>2, <1>4
<1> QED
  BY <1>2, <1>3, <1>4

LEMMA NewsNone ==
    ASSUME RingTypes, NEW j, NEW new, NoEvent
    PROVE  News(j, new)
BY DEF News, NoEvent

(* News of socket i alone.                                                 *)
LEMMA SaysNews ==
    ASSUME RingTypes, NEW i, NEW g, NEW what, Says(i, g, what), NEW j
    PROVE  /\ i # j => News(j, {})
           /\ g = wgen'[i] => News(i, what \X Cause)
           /\ what \subseteq {"MacRawRx", "SendDone"} => News(j, {})
<1>1. CASE NoEvent
  BY <1>1, NewsNone
<1>2. ASSUME NEW e \in Happened, e.sock = i, e.gen = g, e.evt \in what, PostEvent(e)
      PROVE  /\ i # j => News(j, {})
             /\ g = wgen'[i] => News(i, what \X Cause)
             /\ what \subseteq {"MacRawRx", "SendDone"} => News(j, {})
  <2>1. <<e.evt, e.cause>> \in what \X Cause
    BY <1>2, EventData
  <2> QED
    BY <1>2, <2>1, NewsOne
<1> QED
  BY <1>1, <1>2 DEF Says

(* The life of socket i's connection.                                      *)
LEMMA StreamEffect ==
    ASSUME Types, NEW i \in Sock, wgen' = wgen, wst[i] \notin {"CLOSED", "UDP"}, NEW st, st # "UDP",
           wst' = wst \/ wst' = [wst EXCEPT ![i] = st],
           NEW what, what \subseteq {"Status", "SendDone", "RxTcp"}, Says(i, wgen[i], what),
           NEW j \in Sock
    PROVE  Keeps(j) \/ Streams(j)
<1>1. RingTypes /\ wst \in [Sock -> Status]
  BY DEF Types, WorkerTypes
<1>2. CASE j # i
  <2>1. News(j, {})
    BY <1>1, <1>2, SaysNews
  <2>2. wst'[j] = wst[j]
    BY <1>1, <1>2
  <2> QED
    BY <2>1, <2>2 DEF Keeps
<1>3. CASE j = i
  <2>1. News(i, what \X Cause)
    BY <1>1, SaysNews
  <2>2. News(j, {"Status", "RxTcp"} \X Cause)
    BY <1>3, <2>1 DEF News
  <2>3. wst'[j] # "UDP"
    BY <1>1, <1>3
  <2> QED
    BY <1>3, <2>2, <2>3 DEF Streams
<1> QED
  BY <1>2, <1>3

LEMMA WorkerEffect ==
    ASSUME Types, GenOrder, HostState, WorkerNext \/ PeerNext, NEW j \in Sock
    PROVE  Keeps(j) \/ Streams(j) \/ Receives(j) \/ Defines(j)
<1> DEFINE Some == Keeps(j) \/ Streams(j) \/ Receives(j) \/ Defines(j)
<1>0. RingTypes /\ wst \in [Sock -> Status] /\ wgen \in [Sock -> 0 .. MaxGen] /\ wi \in Sock
  BY DEF Types, WorkerTypes
<1>1. \A i \in Sock : wgen[i] \in Nat
  BY WorkerParts
<1>2. ASSUME NoEvent, wgen' = wgen, wst' = wst \/ wst' = [i \in Sock |-> "CLOSED"] PROVE Some
  BY <1>0, <1>2, NewsNone DEF Keeps
<1>3. {"None", "Connected", "RemoteClosed", "Reset", "Failed"} = Cause
  BY DEF Cause
<1>4. \A i \in Sock : wfd[i] \in {"tcp", "listen"} => wst[i] \notin {"CLOSED", "UDP"}
  BY DEF HostState
<1>5. ASSUME NEW i \in Sock, wgen' = wgen, wst[i] \notin {"CLOSED", "UDP"}, NEW st, st # "UDP",
             wst' = wst \/ wst' = [wst EXCEPT ![i] = st], NEW c \in Cause,
             \/ PostEvent(StatusEvent(i, wgen[i], c)) \/ PostEvent(Event("SendDone", i, wgen[i], c, << >>))
             \/ NoEvent
      PROVE  Some
  <2>1. Says(i, wgen[i], {"Status", "SendDone"})
    BY <1>1, <1>5, SaysStatus
  <2> QED
    BY <1>5, <2>1, StreamEffect
<1>6. ASSUME NEW i \in Sock, NEW b, FlushTcpTx(i, b), wfd[i] \in {"tcp", "listen"}, wgen' = wgen
      PROVE  Some
  <2>1. \/ wst' = wst /\ (NoEvent \/ PostEvent(Event("SendDone", i, wgen[i], "None", << >>)))
        \/ wst' = [wst EXCEPT ![i] = "CLOSED"] /\ PostEvent(StatusEvent(i, wgen[i], "Reset"))
    BY <1>6 DEF FlushTcpTx, CloseState, NewState
  <2> QED
    BY <1>3, <1>4, <1>5, <1>6, <2>1
<1>7. CASE Wake \/ ExitNotRunning \/ ExitShutdown \/ Drained \/ PeerNext
  BY <1>2, <1>7 DEF Wake, ExitNotRunning, ExitShutdown, Drained, Finish, NoEvent, sockVars, workVars,
         PeerNext, PeerSend, PeerEnds, PeerOnly
<1>8. CASE Requests
  <2> DEFINE r == Head(req)
             i == r.sock
             Msgs == {"Connect", "SendTcp", "SendUdp", "OpenTcp", "OpenUdp", "AdoptListen",
                      "Close", "CloseHost"} \cup RawTx
  <2>1. Taking(Msgs)
    BY <1>8 DEF Requests, HandleLeftover, HandleOpen, HandleAdoptListen, HandleClose, HandleConnect,
           HandleSendTcp, HandleSendDatagram, Taking, RawTx
  <2>2. "Shutdown" \notin Msgs
    BY DEF RawTx
  <2> HIDE DEF Msgs
  <2>3. OldestRequest(r, i) /\ req # << >> /\ req' = Tail(req)
    BY <2>1, <2>2, TakingFacts
  <2>4. i \in Sock /\ r.gen \in Nat /\ r = req[1] /\ i = req[1].sock
    BY <2>3 DEF OldestRequest
  <2> HIDE DEF r, i
  <2>5. CASE HandleLeftover
    BY <1>2, <2>5 DEF HandleLeftover, sockVars
  <2>6. CASE HandleOpen \/ HandleAdoptListen \/ HandleClose
    <3>1. r.msg \in DefinesGen /\ wgen' = [wgen EXCEPT ![i] = r.gen]
      BY <2>6 DEF HandleOpen, HandleAdoptListen, HandleClose, DefinesGen, Taking, r, i
    <3>2. \/ wst' = [wst EXCEPT ![i] = Opened(r.msg)] /\ NoEvent
          \/ /\ r.msg \in {"OpenTcp", "OpenUdp"} /\ wst' = [wst EXCEPT ![i] = "CLOSED"]
             /\ PostEvent(StatusEvent(i, r.gen, "Failed"))
      BY <2>6 DEF HandleOpen, HandleAdoptListen, HandleClose, Taking, CloseState, NewState, Opened, r, i
    <3> DEFINE e == StatusEvent(i, r.gen, "Failed")
    <3>3. e \in Happened
      BY <1>3, <2>4, StatusEventType
    <3>4. e.sock = i /\ e.gen = r.gen /\ e.evt = "Status" /\ e.cause = "Failed"
      BY DEF StatusEvent, Event
    <3> HIDE DEF e
    <3>5. CASE j # i
      <4>1. wgen'[j] = wgen[j] /\ wst'[j] = wst[j]
        BY <1>0, <2>4, <3>1, <3>2, <3>5
      <4>2. News(j, {})
        BY <1>0, <3>2, <3>3, <3>4, <3>5, NewsNone, NewsOne DEF e
      <4> QED
        BY <4>1, <4>2 DEF Keeps
    <3>6. CASE j = i
      <4>1. wgen'[j] = r.gen
        BY <1>0, <2>4, <3>1, <3>6
      <4>2. CASE wst' = [wst EXCEPT ![i] = Opened(r.msg)] /\ NoEvent
        <5>1. News(j, {}) /\ wst'[j] = Opened(r.msg)
          BY <1>0, <2>4, <3>6, <4>2, NewsNone
        <5> QED
          BY <2>3, <2>4, <3>1, <3>6, <4>1, <5>1 DEF Defines
      <4>3. CASE /\ r.msg \in {"OpenTcp", "OpenUdp"} /\ wst' = [wst EXCEPT ![i] = "CLOSED"]
                 /\ PostEvent(e)
        <5>1. wst'[j] = "CLOSED"
          BY <1>0, <2>4, <3>6, <4>3
        <5>2. News(j, {<<"Status", "Failed">>})
          BY <1>0, <3>3, <3>4, <4>1, <4>3, NewsOne
        <5> QED
          BY <2>3, <2>4, <3>1, <3>6, <4>1, <4>3, <5>1, <5>2 DEF Defines
      <4> QED
        BY <3>2, <4>2, <4>3 DEF e
    <3> QED
      BY <3>5, <3>6
  <2>7. CASE HandleConnect
    <3>1. wgen' = wgen
      BY <2>7 DEF HandleConnect
    <3>2. \/ NoEvent /\ wst' = wst
          \/ /\ wfd[i] \in {"tcp", "listen"}
             /\ \/ /\ wst' = [wst EXCEPT ![i] = "ESTABLISHED"]
                   /\ PostEvent(StatusEvent(i, wgen[i], "Connected"))
                \/ wst' = [wst EXCEPT ![i] = "SYNSENT"] /\ NoEvent
                \/ /\ wst' = [wst EXCEPT ![i] = "CLOSED"]
                   /\ PostEvent(StatusEvent(i, wgen[i], "Failed"))
      BY <2>7 DEF HandleConnect, CloseState, NewState, r, i
    <3> QED
      BY <1>2, <1>3, <1>4, <1>5, <2>4, <3>1, <3>2
  <2>8. CASE HandleSendTcp
    <3>1. \/ wfd[i] \in {"tcp", "listen"} /\ FlushTcpTx(i, txp[i] \o r.data)
          \/ NoEvent /\ wst' = wst
      BY <2>8 DEF HandleSendTcp, r, i
    <3>2. wgen' = wgen
      BY <2>8 DEF HandleSendTcp
    <3> QED
      BY <1>2, <1>6, <2>4, <3>1, <3>2
  <2>9. CASE HandleSendDatagram
    <3>1. NoEvent \/ \E c \in {"None", "Failed"} : PostEvent(Event("SendDone", i, r.gen, c, << >>))
      BY <2>9 DEF HandleSendDatagram, r, i
    <3>2. wgen' = wgen /\ wst' = wst
      BY <2>9 DEF HandleSendDatagram, sockVars
    <3>3. ASSUME NEW c \in {"None", "Failed"}, PostEvent(Event("SendDone", i, r.gen, c, << >>))
          PROVE  News(j, {})
      <4> DEFINE e == Event("SendDone", i, r.gen, c, << >>)
      <4>1. e \in Happened
        BY <1>3, <2>4, EventType
      <4>2. e.evt = "SendDone" /\ PostEvent(e)
        BY <3>3 DEF Event
      <4> HIDE DEF e
      <4> QED
        BY <1>0, <4>1, <4>2, NewsOne
    <3>4. News(j, {})
      BY <1>0, <3>1, <3>3, NewsNone
    <3> QED
      BY <3>2, <3>4 DEF Keeps
  <2> QED
    BY <1>8, <2>5, <2>6, <2>7, <2>8, <2>9 DEF Requests
<1>9. CASE Poll
  <2>0. wgen' = wgen
    BY <1>9 DEF Poll, Polling, PollInvalid, PollConnecting, PollConnectDone, PollListening, PollOpen,
         PollFlush, PollNoFlush, PollNoRecv, PollLoadCredit, PollTake, PollPost, PollEof,
         PollRecvError, PollUdp, Slirp, sockVars
  <2>1. CASE PollInvalid \/ PollConnecting \/ PollOpen \/ PollNoFlush \/ PollNoRecv
             \/ PollLoadCredit \/ PollTake
    BY <1>2, <2>0, <2>1 DEF PollInvalid, PollConnecting, PollOpen, PollNoFlush, PollNoRecv,
       PollLoadCredit, PollTake
  <2>2. CASE PollConnectDone \/ PollListening \/ PollEof \/ PollRecvError
    <3>1. wst[wi] \notin {"CLOSED", "UDP"}
      BY <2>2 DEF PollConnectDone, PollListening, PollEof, PollRecvError, Polling, HostState
    <3>2. \E st \in {"ESTABLISHED", "CLOSED", "CLOSE_WAIT"} : wst' = wst \/ wst' = [wst EXCEPT ![wi] = st]
      BY <2>2 DEF PollConnectDone, PollListening, PollEof, PollRecvError, CloseState, NewState
    <3>3. \E c \in {"Connected", "Failed", "Reset", "RemoteClosed"} :
             NoEvent \/ PostEvent(StatusEvent(wi, wgen[wi], c))
      BY <2>2 DEF PollConnectDone, PollListening, PollEof, PollRecvError
    <3> QED
      BY <1>0, <1>3, <1>5, <2>0, <3>1, <3>2, <3>3
  <2>3. CASE PollFlush
    <3>1. FlushTcpTx(wi, txp[wi]) /\ wfd[wi] = "tcp"
      BY <2>3 DEF PollFlush
    <3> QED
      BY <1>0, <1>6, <2>0, <3>1
  <2>4. CASE PollPost
    <3> DEFINE e == Event("RxTcp", wi, wgen[wi], "None", wgot)
    <3>1. e \in Happened
      BY <1>0, <1>1, <1>3, EventType DEF Types, WorkerTypes
    <3>2. e.sock = wi /\ e.gen = wgen[wi] /\ e.evt = "RxTcp"
      BY DEF Event
    <3>3. PostEvent(e)
      BY <2>4 DEF PollPost
    <3> HIDE DEF e
    <3>4. Says(wi, wgen[wi], {"RxTcp"})
      BY <3>1, <3>2, <3>3 DEF Says
    <3>5. wst' = wst /\ wst[wi] \notin {"CLOSED", "UDP"}
      BY <2>4 DEF PollPost, Polling, HostState
    <3> QED
      BY <1>0, <2>0, <3>4, <3>5, StreamEffect
  <2>5. CASE PollUdp
    <3> DEFINE b == <<wgen[wi], psent[wi] + 1>>
               d == <<b>>
               e == Event("RxUdp", wi, wgen[wi], "None", d)
    <3>1. b \in Byte
      BY <1>0, <1>1 DEF Byte, Types, WorkerTypes
    <3>2. (NoEvent \/ PostEvent(e)) /\ wst' = wst /\ wst[wi] = "UDP"
      BY <2>5 DEF PollUdp
    <3> HIDE DEF b
    <3>3. d \in Seq(Byte) /\ d # << >>
      BY <3>1
    <3> HIDE DEF d
    <3>4. e \in Happened
      BY <1>0, <1>1, <1>3, <3>3, EventType
    <3>5. e.sock = wi /\ e.gen = wgen[wi] /\ e.evt = "RxUdp"
      BY DEF Event
    <3> HIDE DEF e
    <3>6. Says(wi, wgen[wi], {"RxUdp"})
      BY <3>2, <3>4, <3>5 DEF Says
    <3>7. j # wi => News(j, {})
      BY <1>0, <3>6, SaysNews
    <3>8. News(wi, {"RxUdp"} \X Cause)
      BY <1>0, <2>0, <3>6, SaysNews
    <3> QED
      BY <2>0, <3>2, <3>7, <3>8 DEF Keeps, Receives
  <2>6. CASE Slirp
    <3> DEFINE E(f) == Event("MacRawRx", 0, wgen[0], "None", <<f>>)
    <3>1. (NoEvent \/ \E f \in Frame : PostEvent(E(f))) /\ wst' = wst
      BY <2>6 DEF Slirp, SlirpDelivers, sockVars
    <3>2. \A f \in Frame : E(f) \in Happened /\ E(f).evt = "MacRawRx"
      <4>1. \A f \in Frame : E(f) \in Happened
        BY <1>1, <1>3, EventType, SizeFacts
      <4> QED
        BY <4>1 DEF Event
    <3> HIDE DEF E
    <3>3. News(j, {})
      BY <1>0, <3>1, <3>2, NewsNone, NewsOne
    <3> QED
      BY <2>0, <3>1, <3>3 DEF Keeps
  <2> QED
    BY <1>9, <2>1, <2>2, <2>3, <2>4, <2>5, <2>6 DEF Poll
<1> QED
  BY <1>7, <1>8, <1>9 DEF WorkerNext

-----------------------------------------------------------------------------
(* The worker's own variables.                                             *)

Matches(fd, st) == (fd = "none") = (st = "CLOSED") /\ (fd = "udp") = (st = "UDP")

LEMMA HostStateStep ==
    ASSUME Types, GenOrder, HostState, WorkerNext \/ PeerNext
    PROVE  HostState'
<1> DEFINE AllMatch == \A i \in Sock : Matches(wfd'[i], wst'[i])
<1>0. wi \in Sock /\ wfd \in [Sock -> {"none", "tcp", "listen", "udp"}] /\ wst \in [Sock -> Status]
  BY DEF Types, WorkerTypes
<1>1. /\ \A i \in Sock : Matches(wfd[i], wst[i])
      /\ wpc \in {"take", "post"} => wst[wi] = "ESTABLISHED"
      /\ wpc # "post" => wgot = << >>
  BY DEF HostState, Matches
<1>2. ASSUME NEW i \in Sock, NEW fd, NEW st, Matches(fd, st),
             wfd' = [wfd EXCEPT ![i] = fd], wst' = [wst EXCEPT ![i] = st]
      PROVE  AllMatch
  BY <1>0, <1>1, <1>2
<1>3. ASSUME NEW i \in Sock, NEW st, st \notin {"CLOSED", "UDP"}, wfd[i] \notin {"none", "udp"},
             wfd' = wfd, wst' = [wst EXCEPT ![i] = st]
      PROVE  AllMatch
  BY <1>0, <1>1, <1>3 DEF Matches
<1>4. wfd' = wfd /\ wst' = wst => AllMatch
  BY <1>1
<1>5. /\ Matches("none", "CLOSED") /\ Matches("tcp", "INIT") /\ Matches("udp", "UDP")
      /\ Matches("listen", "LISTEN") /\ Matches("tcp", "ESTABLISHED")
  BY DEF Matches
<1>6. ASSUME AllMatch, wpc' \in {"take", "post"} => wst'[wi'] = "ESTABLISHED", wpc' # "post" => wgot' = << >>
      PROVE  HostState'
  BY <1>6 DEF HostState, Matches
<1>7. ASSUME NEW i \in Sock, NEW b, FlushTcpTx(i, b) PROVE AllMatch
  BY <1>2, <1>4, <1>5, <1>7 DEF FlushTcpTx, CloseState, NewState
<1>8. CASE Wake \/ Drained \/ PeerNext
  <2>1. wfd' = wfd /\ wst' = wst /\ wgot' = wgot
    BY <1>8 DEF Wake, Drained, sockVars, recvVars, PeerNext, PeerSend, PeerEnds, PeerOnly, workVars
  <2>2. (wpc' = wpc /\ wi' = wi) \/ (wpc' \in {"drain", "poll"} /\ wpc # "post")
    BY <1>8 DEF Wake, Drained, PeerNext, PeerSend, PeerEnds, PeerOnly, workVars
  <2> QED
    BY <1>1, <1>4, <1>6, <2>1, <2>2
<1>9. CASE ExitNotRunning \/ ExitShutdown
  <2>1. /\ wpc' = "done" /\ wpc # "post" /\ wgot' = wgot
        /\ wfd' = [i \in Sock |-> "none"] /\ wst' = [i \in Sock |-> "CLOSED"]
    BY <1>9 DEF ExitNotRunning, ExitShutdown, Finish, recvVars
  <2> QED
    BY <1>1, <1>5, <1>6, <2>1
<1>10. CASE Requests
  <2> DEFINE r == Head(req)
             i == r.sock
             Msgs == {"Connect", "SendTcp", "SendUdp", "OpenTcp", "OpenUdp", "AdoptListen",
                      "Close", "CloseHost"} \cup RawTx
  <2>1. Taking(Msgs)
    BY <1>10 DEF Requests, HandleLeftover, HandleOpen, HandleAdoptListen, HandleClose, HandleConnect,
           HandleSendTcp, HandleSendDatagram, Taking, RawTx
  <2>2. "Shutdown" \notin Msgs
    BY DEF RawTx
  <2>3. wpc = "drain" /\ wpc' = wpc /\ wgot' = wgot
    BY <2>1 DEF Taking, recvVars
  <2> SUFFICES AllMatch
    BY <1>1, <1>6, <2>3
  <2> HIDE DEF Msgs
  <2>4. i \in Sock
    BY <2>1, <2>2, TakingFacts DEF OldestRequest
  <2> HIDE DEF r, i
  <2>5. CASE HandleLeftover \/ HandleSendDatagram
    BY <1>4, <2>5 DEF HandleLeftover, HandleSendDatagram, sockVars
  <2>6. CASE HandleOpen \/ HandleAdoptListen \/ HandleClose
    <3>1. \/ NewState(i, "tcp", "INIT") \/ NewState(i, "udp", "UDP")
          \/ NewState(i, "listen", "LISTEN") \/ NewState(i, "none", "CLOSED")
      BY <2>6 DEF HandleOpen, HandleAdoptListen, HandleClose, CloseState, r, i
    <3> QED
      BY <1>2, <1>5, <2>4, <3>1 DEF NewState
  <2>7. CASE HandleConnect
    <3>1. \/ wfd' = wfd /\ wst' = wst
          \/ /\ wfd[i] \in {"tcp", "listen"} /\ wfd' = wfd
             /\ wst' = [wst EXCEPT ![i] = "ESTABLISHED"] \/ wst' = [wst EXCEPT ![i] = "SYNSENT"]
          \/ NewState(i, "none", "CLOSED")
      BY <2>7 DEF HandleConnect, CloseState, r, i
    <3> QED
      BY <1>2, <1>3, <1>4, <1>5, <2>4, <3>1 DEF NewState
  <2>8. CASE HandleSendTcp
    <3>1. FlushTcpTx(i, txp[i] \o r.data) \/ (wfd' = wfd /\ wst' = wst)
      BY <2>8 DEF HandleSendTcp, r, i
    <3> QED
      BY <1>4, <1>7, <2>4, <3>1
  <2> QED
    BY <1>10, <2>5, <2>6, <2>7, <2>8 DEF Requests
<1>11. CASE Poll
  <2>1. CASE PollInvalid \/ PollConnecting \/ PollOpen \/ PollNoFlush \/ PollNoRecv \/ PollUdp \/ Slirp
    <3>1. wfd' = wfd /\ wst' = wst /\ wgot' = wgot /\ wpc # "post" /\ wpc' \notin {"take", "post"}
      BY <2>1 DEF PollInvalid, PollConnecting, PollOpen, PollNoFlush, PollNoRecv, PollUdp, Slirp,
         Polling, NextSock, recvVars, sockVars
    <3> QED
      BY <1>1, <1>4, <1>6, <3>1
  <2>2. CASE PollConnectDone
    <3>1. \/ wfd[wi] # "none" /\ wst[wi] = "SYNSENT" /\ wfd' = wfd /\ wst' = [wst EXCEPT ![wi] = "ESTABLISHED"]
          \/ NewState(wi, "none", "CLOSED")
      BY <2>2 DEF PollConnectDone, CloseState
    <3>2. wfd[wi] # "none" /\ wst[wi] = "SYNSENT" => wfd[wi] \notin {"none", "udp"}
      BY <1>0, <1>1 DEF Matches
    <3>3. AllMatch
      BY <1>0, <1>2, <1>3, <1>5, <3>1, <3>2 DEF NewState
    <3>4. wgot' = wgot /\ wpc # "post" /\ wpc' \notin {"take", "post"}
      BY <2>2 DEF PollConnectDone, Polling, NextSock, recvVars
    <3> QED
      BY <1>1, <1>6, <3>3, <3>4
  <2>3. CASE PollListening
    <3>1. \/ wfd' = wfd /\ wst' = wst
          \/ wfd' = [wfd EXCEPT ![wi] = "tcp"] /\ wst' = [wst EXCEPT ![wi] = "ESTABLISHED"]
      BY <2>3 DEF PollListening
    <3>2. AllMatch
      BY <1>0, <1>2, <1>4, <1>5, <3>1
    <3>3. wgot' = wgot /\ wpc # "post" /\ wpc' \notin {"take", "post"}
      BY <2>3 DEF PollListening, Polling, recvVars
    <3> QED
      BY <1>1, <1>6, <3>2, <3>3
  <2>4. CASE PollFlush
    <3>1. FlushTcpTx(wi, txp[wi])
      BY <2>4 DEF PollFlush
    <3>2. wgot' = wgot /\ wpc # "post" /\ wpc' \notin {"take", "post"}
      BY <2>4 DEF PollFlush, NextSock, recvVars
    <3> QED
      BY <1>0, <1>1, <1>6, <1>7, <3>1, <3>2
  <2>5. CASE PollLoadCredit
    <3>1. /\ wfd' = wfd /\ wst' = wst /\ wgot' = wgot /\ wi' = wi /\ wpc = "recv" /\ wpc' = "take"
          /\ wst[wi] = "ESTABLISHED"
      BY <2>5 DEF PollLoadCredit, Polling, TcpReadable
    <3> QED
      BY <1>1, <1>4, <1>6, <3>1
  <2>6. CASE PollTake
    <3>1. wfd' = wfd /\ wst' = wst /\ wi' = wi /\ wpc = "take" /\ wpc' = "post"
      BY <2>6 DEF PollTake, Polling
    <3> QED
      BY <1>1, <1>4, <1>6, <3>1
  <2>7. CASE PollPost
    <3>1. wfd' = wfd /\ wst' = wst /\ wgot' = << >> /\ wpc' \notin {"take", "post"}
      BY <2>7 DEF PollPost, NextSock
    <3> QED
      BY <1>4, <1>6, <3>1
  <2>8. CASE PollEof
    <3>1. wfd' = wfd /\ wst' = [wst EXCEPT ![wi] = "CLOSE_WAIT"] /\ wst[wi] = "ESTABLISHED"
      BY <1>1, <2>8 DEF PollEof, Polling
    <3>2. wfd[wi] \notin {"none", "udp"}
      BY <1>0, <1>1, <3>1 DEF Matches
    <3>3. AllMatch
      BY <1>0, <1>3, <3>1, <3>2
    <3>4. wgot' = wgot /\ wpc # "post" /\ wpc' \notin {"take", "post"}
      BY <2>8 DEF PollEof, Polling, NextSock
    <3> QED
      BY <1>1, <1>6, <3>3, <3>4
  <2>9. CASE PollRecvError
    <3>1. NewState(wi, "none", "CLOSED") \/ (wfd' = wfd /\ wst' = wst)
      BY <2>9 DEF PollRecvError, CloseState
    <3>2. AllMatch
      BY <1>0, <1>2, <1>4, <1>5, <3>1 DEF NewState
    <3>3. wgot' = wgot /\ wpc # "post" /\ wpc' \notin {"take", "post"}
      BY <2>9 DEF PollRecvError, Polling, NextSock
    <3> QED
      BY <1>1, <1>6, <3>2, <3>3
  <2> QED
    BY <1>11, <2>1, <2>2, <2>3, <2>4, <2>5, <2>6, <2>7, <2>8, <2>9 DEF Poll
<1> QED
  BY <1>8, <1>9, <1>10, <1>11 DEF WorkerNext

-----------------------------------------------------------------------------
(* The chip's side of the protocol.                                        *)

(* Nothing new in the request ring for socket j's current generation.      *)
NothingAsked(j) ==
    \A k \in 1 .. Len(req') :
        \/ k \in 1 .. Len(req) /\ req'[k] = req[k]
        \/ ~(req'[k].sock = j /\ req'[k].gen = gen'[j])

LEMMA OthersProtocol ==
    ASSUME Types, NEW j \in Sock, ProtocolOk(j), gen'[j] = gen[j], wgen' = wgen, wst' = wst,
           Phase(j)' = Phase(j), evt' = evt, NothingAsked(j)
    PROVE  ProtocolOk(j)'
<1>1. \A k \in Current(j)' : k + 0 \in Current(j) /\ req'[k] = req[k + 0]
  BY DEF NothingAsked, Current
<1>2. \A k \in Told(j)' : k + 0 \in Told(j) /\ evt'[k] = evt[k + 0]
  <2>1. Told(j)' = Told(j) /\ Told(j) \subseteq Nat
    BY DEF Told
  <2> QED
    BY <2>1
<1>3. Same(j, 0, 0)
  BY <1>1, <1>2 DEF Same
<1> QED
  BY <1>3, SameProtocol

(* A generation just begun.                                                *)
LEMMA FreshProtocol ==
    ASSUME Types, GenerationOrder, NEW j \in Sock, gen'[j] \in Nat, gen'[j] > gen[j], wgen' = wgen,
           evt' = evt,
           \A k \in 1 .. Len(req') :
               \/ k \in 1 .. Len(req) /\ req'[k] = req[k]
               \/ req'[k].sock = j /\ req'[k].gen = gen'[j] =>
                     /\ req'[k].msg \in MayAsk(Phase(j)')
                     /\ req'[k].msg = "OpenUdp" => k = Len(req) + 2
    PROVE  ProtocolOk(j)'
<1>1. /\ wgen[j] <= gen[j] /\ InOrder(req, j, wgen[j], gen[j]) /\ NoneAhead(evt, j, gen[j])
      /\ gen[j] \in Nat /\ wgen[j] \in Nat
  BY OrderParts, WorkerParts
<1>2. ~AtWork(j)'
  BY <1>1 DEF AtWork
<1>3. Told(j)' = {}
  BY <1>1 DEF Told, NoneAhead
<1>4. \A k \in Current(j)' : k \in 1 .. Len(req) /\ req'[k] = req[k] => req'[k].msg = "Shutdown"
  BY <1>1 DEF Current, InOrder
<1>5. Phase(j)' \in {"opening", "datagram", "stream"}
  BY DEF Phase
<1>6. "Shutdown" \in MayAsk(Phase(j)')
  BY <1>5, PhaseCases, OpeningAllows DEF Closes
<1>7. \A k \in Current(j)' : req'[k].msg \in MayAsk(Phase(j)') /\ (req'[k].msg = "OpenUdp" => k = Len(req) + 2)
  BY <1>4, <1>6 DEF Current
<1> QED
  BY <1>2, <1>3, <1>7 DEF ProtocolOk, Asked, Heard, Working, Once, Live, Failing

(* A close, with or without a new start, of socket i.                      *)
LEMMA RenewalProtocol ==
    ASSUME Types, GenerationOrder, NEW i \in Sock, NEW g, NEW rs, Renewal(i, g, rs),
           wgen' = wgen, wst' = wst, evt' = evt,
           Len(rs) = 2 => rs[2].msg \in MayAsk(Phase(i)'),
           NEW j \in Sock, ProtocolOk(j), j # i => Phase(j)' = Phase(j)
    PROVE  ProtocolOk(j)'
<1>1. /\ Len(req) \in Nat /\ Len(req') \in Nat
      /\ \A k \in 1 .. Len(req) : req'[k] = req[k]
      /\ \A k \in 1 .. Len(req') : k > Len(req) =>
            k - Len(req) \in 1 .. Len(rs) /\ req'[k] = rs[k - Len(req)]
      /\ gen[i] \in Nat /\ g \in Nat /\ g > gen[i]
      /\ gen'[i] = g /\ \A l \in Sock \ {i} : gen'[l] = gen[l]
  BY RenewedRequests
<1>2. Len(rs) \in 1 .. 2 /\ rs[1].sock = i /\ rs[1].msg \in {"Close", "CloseHost"}
      /\ (Len(rs) = 2 => rs[2].sock = i)
  BY DEF Renewal
<1>3. ASSUME NEW k \in 1 .. Len(req'), ~(k \in 1 .. Len(req) /\ req'[k] = req[k])
      PROVE  /\ req'[k].sock = i
             /\ \/ k = Len(req) + 1 /\ req'[k].msg \in {"Close", "CloseHost"}
                \/ k = Len(req) + 2 /\ req'[k].msg \in MayAsk(Phase(i)')
  <2>1. k > Len(req)
    BY <1>1, <1>3
  <2>2. k - Len(req) \in 1 .. Len(rs) /\ req'[k] = rs[k - Len(req)]
    BY <1>1, <2>1
  <2>3. k - Len(req) = 1 \/ (k - Len(req) = 2 /\ Len(rs) = 2)
    <3> DEFINE n == k - Len(req)
               m == Len(rs)
    <3>1. n \in 1 .. m /\ m \in 1 .. 2
      BY <1>2, <2>2
    <3> HIDE DEF n, m
    <3>2. n = 1 \/ (n = 2 /\ m = 2)
      BY <3>1
    <3> QED
      BY <3>2 DEF n, m
  <2>4. CASE k - Len(req) = 1
    BY <1>1, <1>2, <2>2, <2>4
  <2>5. CASE k - Len(req) = 2 /\ Len(rs) = 2
    BY <1>1, <1>2, <2>2, <2>5
  <2> QED
    BY <2>3, <2>4, <2>5
<1>4. CASE j # i
  <2>1. NothingAsked(j)
    BY <1>3, <1>4 DEF NothingAsked
  <2> QED
    BY <1>1, <1>4, <2>1, OthersProtocol
<1>5. CASE j = i
  <2>1. Phase(i)' \in {"opening", "datagram", "stream"}
    BY DEF Phase
  <2>2. {"Close", "CloseHost"} \subseteq MayAsk(Phase(i)')
    BY <2>1, PhaseCases, OpeningAllows DEF Closes
  <2>3. \A k \in 1 .. Len(req') :
           \/ k \in 1 .. Len(req) /\ req'[k] = req[k]
           \/ req'[k].sock = i /\ req'[k].gen = gen'[i] =>
                 /\ req'[k].msg \in MayAsk(Phase(i)')
                 /\ req'[k].msg = "OpenUdp" => k = Len(req) + 2
    BY <1>3, <2>2
  <2> QED
    BY <1>1, <1>5, <2>3, FreshProtocol
<1> QED
  BY <1>4, <1>5

(* A request of socket i's current generation.                             *)
LEMMA PostProtocol ==
    ASSUME Types, NEW i \in Sock, NEW r \in Requested, OneMore(req', Requested, req, r, ReqCap),
           r.sock = i, r.msg \in MayAsk(Phase(i)'), r.msg = "OpenUdp" => Phase(i) = "opening",
           gen' = gen, wgen' = wgen, wst' = wst, evt' = evt,
           Phase(i)' = Phase(i) \/ Phase(i) = "opening",
           NEW j \in Sock, ProtocolOk(j), j # i => Phase(j)' = Phase(j)
    PROVE  ProtocolOk(j)'
<1>1. /\ Len(req) \in Nat
      /\ \A k \in 1 .. Len(req) : req'[k] = req[k]
      /\ \A k \in 1 .. Len(req') : k > Len(req) => k = Len(req) + 1 /\ req'[k] = r
  BY DEF OneMore
<1>2. CASE j # i
  <2>1. NothingAsked(j)
    BY <1>1, <1>2 DEF NothingAsked
  <2> QED
    BY <1>2, <2>1, OthersProtocol
<1>3. CASE j = i
  <2>1. \A k \in Current(j)' :
           \/ k + 0 \in Current(j) /\ req'[k] = req[k + 0]
           \/ /\ k = Len(req) + 1 /\ req'[k].msg \in MayAsk(Phase(j)')
              /\ req'[k].msg = "OpenUdp" => Phase(j) = "opening"
    <3> SUFFICES ASSUME NEW k \in Current(j)'
                 PROVE  \/ k + 0 \in Current(j) /\ req'[k] = req[k + 0]
                        \/ /\ k = Len(req) + 1 /\ req'[k].msg \in MayAsk(Phase(j)')
                           /\ req'[k].msg = "OpenUdp" => Phase(j) = "opening"
      OBVIOUS
    <3>1. k \in 1 .. Len(req') /\ req'[k].sock = j /\ req'[k].gen = gen[j]
      BY DEF Current
    <3>2. CASE k > Len(req)
      BY <1>1, <1>3, <3>1, <3>2
    <3>3. CASE ~(k > Len(req))
      <4>1. k \in 1 .. Len(req) /\ req'[k] = req[k] /\ k + 0 = k
        BY <1>1, <3>1, <3>3
      <4> QED
        BY <3>1, <4>1 DEF Current
    <3> QED
      BY <3>2, <3>3
  <2>2. \A k \in Told(j)' : k + 0 \in Told(j) /\ evt'[k] = evt[k + 0]
    <3>1. Told(j)' = Told(j) /\ Told(j) \subseteq Nat
      BY DEF Told
    <3> QED
      BY <3>1
  <2>3. Same(j, 0, 0)
    BY <1>3, <2>1, <2>2 DEF Same
  <2> QED
    BY <2>3, SameProtocol
<1> QED
  BY <1>2, <1>3

(* The phase of a socket that a step leaves alone.                         *)
LEMMA SamePhase ==
    ASSUME NEW j, sr'[j] = sr[j], Opening(j)' <=> Opening(j)
    PROVE  Phase(j)' = Phase(j)
<1>1. CASE Opening(j)
  BY <1>1 DEF Phase
<1>2. CASE ~Opening(j)
  BY <1>2 DEF Phase
<1> QED
  BY <1>1, <1>2

LEMMA CommandProtocol ==
    ASSUME Types, GenOrder, NEW i \in Sock, Command(i), wgen' = wgen, wst' = wst,
           NEW j \in Sock, ProtocolOk(j)
    PROVE  ProtocolOk(j)'
<1>0. GenerationOrder /\ RingTypes /\ sr \in [Sock -> Status]
  BY DEF GenOrder, Types, ChipTypes
<1>1. gen[i] \in Nat
  BY WorkerParts
<1>2. CASE (\E p \in Protocol : WriteMR(i, p)) \/ WriteIR(i) \/ SendKeep(i) \/ (\E k \in 1 .. RxSize : Recv(i, k))
  <2>1. UNCHANGED <<emu, sr, gen, req, evt>>
    BY <1>2 DEF WriteMR, WriteIR, SendKeep, Recv
  <2>2. NothingAsked(j)
    BY <2>1 DEF NothingAsked
  <2>3. Phase(j)' = Phase(j)
    BY <2>1, SamePhase DEF Opening
  <2> QED
    BY <2>1, <2>2, <2>3, OthersProtocol
<1>3. CASE OpenClose(i) \/ Discon(i) \/ Close(i) \/ (Listen(i) /\ ListenRefused(i))
  <2>1. /\ GenLeft(i) /\ evt' = evt /\ Idle /\ emu' \in {emu, <<"open", i>>}
        /\ \E how \in {"Close", "CloseHost"} : CloseHost(i, gen[i] + 1, how)
    BY <1>3 DEF OpenClose, Discon, Close, Listen, ListenRefused, InitTcp
  <2>2. sr' = sr \/ sr' = [sr EXCEPT ![i] = "CLOSED"]
    BY <1>3 DEF OpenClose, Discon, Close, Listen, ListenRefused
  <2>3. PICK how \in {"Close", "CloseHost"} : CloseHost(i, gen[i] + 1, how)
    BY <2>1
  <2> DEFINE r == Request(how, i, gen[i] + 1, << >>)
             rs == <<r>>
  <2>4. Renewal(i, gen[i] + 1, rs)
    BY <2>1, <2>3, CloseHostRenewal
  <2> HIDE DEF r
  <2>5. Len(rs) = 1
    OBVIOUS
  <2>6. j # i => Phase(j)' = Phase(j)
    <3>1. j # i => sr'[j] = sr[j] /\ ~Opening(j) /\ ~Opening(j)'
      BY <1>0, <2>1, <2>2 DEF Opening, Idle
    <3> QED
      BY <3>1, SamePhase
  <2> HIDE DEF rs
  <2> QED
    BY <1>0, <2>1, <2>4, <2>5, <2>6, RenewalProtocol
<1>4. ASSUME NEW m \in Message, NEW b \in Seq(Nat), Post(i, gen[i], <<Request(m, i, gen[i], b)>>),
             gen' = gen, evt' = evt, m \in MayAsk(Phase(i)'), m = "OpenUdp" => Phase(i) = "opening",
             Phase(i)' = Phase(i) \/ Phase(i) = "opening", j # i => Phase(j)' = Phase(j)
      PROVE  ProtocolOk(j)'
  <2> DEFINE r == Request(m, i, gen[i], b)
  <2>1. r \in Requested
    BY <1>1, RequestType
  <2>2. r.sock = i /\ r.msg = m
    BY DEF Request
  <2>3. Post(i, gen[i], <<r>>)
    BY <1>4
  <2> HIDE DEF r
  <2>4. OneMore(req', Requested, req, r, ReqCap)
    BY <1>0, <1>1, <2>1, <2>3, PostOne
  <2> QED
    BY <1>4, <2>1, <2>2, <2>4, PostProtocol
<1>5. "OpenTcp" \in Message /\ "OpenUdp" \in Message /\ "AdoptListen" \in Message /\ "Connect" \in Message
      /\ << >> \in Seq(Nat)
  BY EmptySeq DEF Message, DefinesGen
<1>6. CASE OpenFinish(i)
  <2>1. /\ gen' = gen /\ evt' = evt /\ Opening(i) /\ Post(i, gen[i], OpenRequests(i))
        /\ emu = <<"open", i>> /\ emu' = <<"idle", 0>> /\ sr' = [sr EXCEPT ![i] = OpenStatus(i)]
    BY <1>6 DEF OpenFinish, Opening
  <2>2. Phase(i) = "opening" /\ ~Opening(i)' /\ sr'[i] = OpenStatus(i)
    BY <1>0, <2>1, PhaseCases DEF Opening
  <2>3. j # i => Phase(j)' = Phase(j)
    <3>1. j # i => sr'[j] = sr[j] /\ ~Opening(j) /\ ~Opening(j)'
      BY <1>0, <2>1 DEF Opening
    <3> QED
      BY <3>1, SamePhase
  <2>4. CASE mr[i] = "TCP"
    <3>1. Phase(i)' = "stream" /\ OpenRequests(i) = <<Request("OpenTcp", i, gen[i], << >>)>>
      BY <2>2, <2>4 DEF Phase, OpenStatus, OpenRequests, Headed
    <3>2. "OpenTcp" \in MayAsk(Phase(i)')
      BY <1>5, <3>1, PhaseCases
    <3> QED
      BY <1>4, <1>5, <2>1, <2>2, <2>3, <3>1, <3>2
  <2>5. CASE mr[i] = "UDP"
    <3>1. Phase(i)' = "datagram" /\ OpenRequests(i) = <<Request("OpenUdp", i, gen[i], << >>)>>
      BY <2>2, <2>5 DEF Phase, OpenStatus, OpenRequests, Headed
    <3>2. "OpenUdp" \in MayAsk(Phase(i)')
      BY <1>5, <3>1, PhaseCases
    <3> QED
      BY <1>4, <1>5, <2>1, <2>2, <2>3, <3>1, <3>2
  <2>6. CASE mr[i] \notin {"TCP", "UDP"}
    <3>1. req' = Offer(req, << >>, ReqCap)
      BY <2>1, <2>6 DEF Post, OpenRequests
    <3>2. req' = req
      BY <1>0, <3>1, OfferNone, SizeFacts DEF RingTypes
    <3>3. \A k \in Current(j)' : k + 0 \in Current(j) /\ req'[k] = req[k + 0]
      <4>1. Current(j)' = Current(j) /\ Current(j) \subseteq Nat
        BY <2>1, <3>2 DEF Current
      <4> QED
        BY <3>2, <4>1
    <3>4. \A k \in Told(j)' : k + 0 \in Told(j) /\ evt'[k] = evt[k + 0]
      <4>1. Told(j)' = Told(j) /\ Told(j) \subseteq Nat
        BY <2>1 DEF Told
      <4> QED
        BY <2>1, <4>1
    <3>5. Same(j, 0, 0)
      BY <2>1, <2>2, <2>3, <3>3, <3>4 DEF Same
    <3> QED
      BY <3>5, SameProtocol
  <2> QED
    BY <2>4, <2>5, <2>6
<1>7. CASE (Listen(i) /\ ListenBound(i)) \/ Connect(i)
  <2>1. /\ gen' = gen /\ evt' = evt /\ emu' = emu /\ Idle /\ sr[i] = "INIT"
        /\ \E m \in {"AdoptListen", "Connect"} : Post(i, gen[i], <<Request(m, i, gen[i], << >>)>>)
        /\ sr' = [sr EXCEPT ![i] = "LISTEN"] \/ sr' = [sr EXCEPT ![i] = "SYNSENT"]
    BY <1>7 DEF Listen, ListenBound, Connect, InitTcp
  <2>2. Phase(i) = "stream" /\ Phase(i)' = "stream" /\ (j # i => Phase(j)' = Phase(j))
    <3>1. ~Opening(i) /\ ~Opening(i)' /\ Opening(j)' = Opening(j) /\ sr'[i] \in {"LISTEN", "SYNSENT"}
          /\ (j # i => sr'[j] = sr[j])
      BY <1>0, <2>1 DEF Opening, Idle
    <3> QED
      BY <2>1, <3>1, SamePhase DEF Phase, Headed
  <2>3. {"AdoptListen", "Connect"} \subseteq MayAsk("stream")
    BY <1>5, PhaseCases
  <2> QED
    BY <1>4, <1>5, <2>1, <2>2, <2>3
<1>8. CASE Send(i)
  <2> DEFINE b == [k \in 1 .. TxLen |-> txn[i] + k]
  <2>1. /\ gen' = gen /\ evt' = evt /\ emu' = emu /\ Idle /\ sr' = sr
        /\ Post(i, gen[i], <<Request(SendMsg(i), i, gen[i], b)>>)
        /\ sr[i] \in Connected \cup {"UDP", "MACRAW", "IPRAW"}
    BY <1>8 DEF Send
  <2>2. b \in Seq(Nat)
    BY ChipAssumption DEF Types, ChipTypes
  <2> HIDE DEF b
  <2>3. Phase(i)' = Phase(i) /\ Phase(j)' = Phase(j)
    BY <2>1, SamePhase DEF Opening
  <2>4. ~Opening(i)
    BY <2>1 DEF Opening, Idle
  <2>5. SendMsg(i) \in Message /\ SendMsg(i) # "OpenUdp" /\ SendMsg(i) \in MayAsk(Phase(i))
    <3>1. CASE sr[i] \in Connected
      <4>1. Phase(i) = "stream" /\ SendMsg(i) = "SendTcp"
        BY <2>4, <3>1 DEF Phase, Headed, Connected, SendMsg
      <4> QED
        BY <4>1, PhaseCases DEF Message
    <3>2. CASE sr[i] \in {"UDP", "MACRAW", "IPRAW"}
      <4>1. Phase(i) = "datagram" /\ SendMsg(i) \in {"SendUdp"} \cup RawTx
        BY <2>4, <3>2 DEF Phase, Headed, Connected, SendMsg, RawTx
      <4> QED
        BY <4>1, PhaseCases DEF Message, RawTx
    <3> QED
      BY <2>1, <3>1, <3>2
  <2> QED
    BY <1>4, <2>1, <2>2, <2>3, <2>5
<1>9. CASE Restore(i)
  <2>1. PICK g, rs : RestoredAs(i, g, rs)
    BY <1>9, RestoreRenews
  <2>2. Renewal(i, g, rs) /\ evt' = evt /\ emu = <<"restore", i>> /\ emu' = NextRestore(i)
    BY <1>9, <2>1 DEF RestoredAs, Restore
  <2>3. ~Opening(i)' /\ ~Opening(j)' /\ ~Opening(j)
    BY <2>2 DEF Opening, NextRestore
  <2>4. \A l \in Sock : l # i => sr'[l] = sr[l]
    BY <1>0, <2>1 DEF RestoredAs
  <2>5. j # i => Phase(j)' = Phase(j)
    BY <2>3, <2>4, SamePhase
  <2>6. Len(rs) = 2 => \/ rs[2].msg = "CloseHost"
                       \/ rs[2].msg = "OpenTcp" /\ sr'[i] = "INIT"
                       \/ rs[2].msg = "OpenUdp" /\ sr'[i] = "UDP"
                       \/ rs[2].msg = "AdoptListen" /\ sr'[i] = "LISTEN"
    <3> SUFFICES ASSUME Len(rs) = 2
                 PROVE  \/ rs[2].msg = "CloseHost"
                        \/ rs[2].msg = "OpenTcp" /\ sr'[i] = "INIT"
                        \/ rs[2].msg = "OpenUdp" /\ sr'[i] = "UDP"
                        \/ rs[2].msg = "AdoptListen" /\ sr'[i] = "LISTEN"
      OBVIOUS
    <3>1. g = gen[i] + 2 => rs[2].msg = "CloseHost"
      BY <1>1, <2>2 DEF Renewal
    <3>2. \/ g = gen[i] + 2
          \/ rs[2].msg = "OpenTcp" /\ sr' = [sr EXCEPT ![i] = "INIT"]
          \/ rs[2].msg = "OpenUdp" /\ sr' = [sr EXCEPT ![i] = "UDP"]
          \/ rs[2].msg = "AdoptListen" /\ sr' = [sr EXCEPT ![i] = "LISTEN"]
      BY <2>1 DEF RestoredAs
    <3> QED
      BY <1>0, <3>1, <3>2
  <2>7. Len(rs) = 2 => rs[2].msg \in MayAsk(Phase(i)')
    <3>1. Phase(i)' \in {"datagram", "stream"} /\ (Phase(i)' = "datagram" <=> sr'[i] \in Headed)
      BY <2>3 DEF Phase
    <3>2. "CloseHost" \in MayAsk(Phase(i)')
      BY <3>1, PhaseCases, OpeningAllows DEF Closes
    <3> QED
      BY <1>5, <2>6, <3>1, <3>2, PhaseCases DEF Headed
  <2> QED
    BY <1>0, <2>2, <2>5, <2>7, RenewalProtocol
<1> QED
  BY <1>2, <1>3, <1>6, <1>7, <1>8, <1>9 DEF Command, Listen

LEMMA ChipProtocol ==
    ASSUME Types, GenOrder, ChipNext \/ StopJoin, wgen' = wgen, wst' = wst,
           NEW j \in Sock, ProtocolOk(j)
    PROVE  ProtocolOk(j)'
<1>0. GenerationOrder /\ RingTypes /\ sr \in [Sock -> Status]
  BY DEF GenOrder, Types, ChipTypes
<1>1. CASE \E i \in Sock : Command(i)
  BY <1>1, CommandProtocol
<1>2. CASE Reset
  <2> DEFINE g == [i \in Sock |-> gen[i] + 1]
             rs == [k \in 1 .. NSock |-> Request("CloseHost", k - 1, g[k - 1], << >>)]
  <2>1. \A i \in Sock : gen[i] \in Nat
    BY WorkerParts
  <2>2. rs = [k \in 1 .. NSock |-> Request("CloseHost", k - 1, gen[k - 1] + 1, << >>)]
    <3>1. \A k \in 1 .. NSock : k - 1 \in Sock
      BY SizeFacts DEF Sock
    <3> QED
      BY <3>1
  <2>3. g \in [Sock -> Nat]
    BY <2>1
  <2>4. evt' = evt /\ gen'[j] = gen[j] + 1 /\ gen'[j] \in Nat /\ gen'[j] > gen[j]
    BY <1>2, <2>1 DEF Reset
  <2> HIDE DEF g
  <2>5. rs \in Seq(Requested) /\ Len(rs) = NSock /\ \A k \in 1 .. NSock : rs[k].msg = "CloseHost"
    BY <2>3, ResetRequests
  <2> HIDE DEF rs
  <2>6. req \in Seq(Requested) /\ Len(req) <= ReqCap /\ ReqCap \in Nat /\ Len(req) \in Nat
    BY <1>0, SizeFacts, LenProperties DEF RingTypes
  <2>7. req' = Offer(req, rs, ReqCap)
    BY <1>2, <2>2 DEF Reset
  <2>8. /\ Len(req') \in Len(req) .. ReqCap
        /\ \A k \in 1 .. Len(req) : req'[k] = req[k]
        /\ \A k \in 1 .. Len(req') : k > Len(req) =>
              k - Len(req) \in 1 .. Len(rs) /\ req'[k] = rs[k - Len(req)]
    <3>1. rs \in Seq(Requested)
      BY <2>5
    <3> DEFINE o == Offer(req, rs, ReqCap)
    <3>2. /\ Len(o) \in Len(req) .. ReqCap
          /\ \A k \in 1 .. Len(req) : o[k] = req[k]
          /\ \A k \in 1 .. Len(o) : k > Len(req) =>
                k - Len(req) \in 1 .. Len(rs) /\ o[k] = rs[k - Len(req)]
      BY <3>1, <2>6, OfferFacts
    <3> HIDE DEF o
    <3>3. req' = o
      BY <2>7 DEF o
    <3> QED
      BY <3>2, <3>3
  <2>9. "CloseHost" \in MayAsk(Phase(j)')
    <3>1. Phase(j)' \in {"opening", "datagram", "stream"}
      BY DEF Phase
    <3> QED
      BY <3>1, PhaseCases, OpeningAllows DEF Closes
  <2>10. ASSUME NEW k \in 1 .. Len(req')
         PROVE  \/ k \in 1 .. Len(req) /\ req'[k] = req[k]
                \/ req'[k].msg = "CloseHost"
    <3>1. CASE k > Len(req)
      BY <2>5, <2>8, <3>1
    <3>2. CASE ~(k > Len(req))
      BY <2>6, <2>8, <3>2
    <3> QED
      BY <3>1, <3>2
  <2> QED
    BY <1>0, <2>4, <2>9, <2>10, FreshProtocol
<1>3. CASE TickBegin \/ TickEnd \/ Snapshot \/ RestoreBegin \/ StopJoin
  <2>1. UNCHANGED <<gen, sr, req, evt>> /\ ~Opening(j) /\ ~Opening(j)'
    BY <1>3 DEF TickBegin, TickEnd, Snapshot, RestoreBegin, StopJoin, Opening, Idle
  <2>2. NothingAsked(j)
    BY <2>1 DEF NothingAsked
  <2>3. Phase(j)' = Phase(j)
    BY <2>1, SamePhase
  <2> QED
    BY <2>1, <2>2, <2>3, OthersProtocol
<1>4. CASE Stop
  <2> DEFINE r == Request("Shutdown", 0, 0, << >>)
  <2>1. UNCHANGED <<gen, sr, evt>> /\ ~Opening(j) /\ ~Opening(j)' /\ req' = Offer(req, <<r>>, ReqCap)
    BY <1>4 DEF Stop, Opening, Idle
  <2>2. r \in Requested
    <3>1. "Shutdown" \in Message /\ 0 \in Sock /\ 0 \in Nat /\ << >> \in Seq(Nat)
      BY SizeFacts, EmptySeq DEF Message
    <3> QED
      BY <3>1, RequestType
  <2>3. r.gen = 0 /\ gen[j] # 0
    BY DEF Request, Types, ChipTypes
  <2> HIDE DEF r
  <2>4. OneMore(req', Requested, req, r, ReqCap)
    BY <1>0, <2>1, <2>2, OfferOne, SizeFacts DEF RingTypes
  <2>5. NothingAsked(j)
    BY <2>1, <2>3, <2>4 DEF NothingAsked, OneMore
  <2>6. Phase(j)' = Phase(j)
    BY <2>1, SamePhase
  <2> QED
    BY <2>1, <2>5, <2>6, OthersProtocol
<1>5. CASE ApplyEvent
  <2>1. PICK e : \/ ApplyStale(e) \/ ApplyStatus(e) \/ ApplyRxTcp(e)
                 \/ ApplyRxUdp(e) \/ ApplyMacRaw(e) \/ ApplySendDone(e)
    BY <1>5 DEF ApplyEvent
  <2>2. Applying(e)
    BY <2>1 DEF ApplyStale, ApplyStatus, ApplyRxTcp, ApplyRxUdp, ApplyMacRaw, ApplySendDone
  <2>3. /\ Oldest(e) /\ Len(evt') = Len(evt) - 1 /\ Len(evt) \in Nat \ {0}
        /\ \A k \in 1 .. Len(evt') : evt'[k] = evt[k + 1]
        /\ UNCHANGED <<emu, gen, req>>
    BY <1>0, <2>2, AppliedEvent
  <2>4. ~Opening(j) /\ ~Opening(j)'
    BY <2>2, <2>3 DEF Applying, Opening
  <2>5. \A k \in Told(j)' : k + 1 \in Told(j) /\ evt'[k] = evt[k + 1]
    BY <2>3 DEF Told
  <2>6. \A k \in Current(j)' : k + 0 \in Current(j) /\ req'[k] = req[k + 0]
    <3>1. Current(j)' = Current(j) /\ Current(j) \subseteq Nat
      BY <2>3 DEF Current
    <3> QED
      BY <2>3, <3>1
  <2>7. \/ Phase(j)' = Phase(j)
        \/ Phase(j) = "datagram" /\ Failing(j) /\ Phase(j)' = "stream"
    <3>1. CASE ApplyStatus(e) /\ j = e.sock
      <4>1. sr'[j] = StatusOf(e.cause) /\ e.evt = "Status" /\ e.gen = gen[j]
        BY <1>0, <3>1 DEF ApplyStatus, Stale
      <4>2. Phase(j)' = "stream"
        BY <2>4, <4>1 DEF Phase, StatusOf, Headed
      <4>3. 1 \in Told(j) /\ evt[1] = e
        BY <2>3, <3>1, <4>1 DEF Told, Oldest
      <4>4. Failing(j)
        BY <4>1, <4>3 DEF Failing
      <4> QED
        BY <2>4, <4>2, <4>4, PhaseCases
    <3>2. CASE ~(ApplyStatus(e) /\ j = e.sock)
      <4>1. sr'[j] = sr[j]
        BY <1>0, <2>1, <2>3, <3>2 DEF ApplyStale, ApplyStatus, ApplyRxTcp, ApplyRxUdp, ApplyMacRaw,
           ApplySendDone, Oldest
      <4> QED
        BY <2>4, <4>1, SamePhase
    <3> QED
      BY <3>1, <3>2
  <2>8. Same(j, 0, 1)
    BY <2>3, <2>5, <2>6, <2>7 DEF Same
  <2> QED
    BY <2>8, SameProtocol
<1> QED
  BY <1>1, <1>2, <1>3, <1>4, <1>5 DEF ChipNext

-----------------------------------------------------------------------------
(* The receive buffer and what is on its way to it.                        *)

WayOk(j) ==
    /\ InRing(j) \in Seq(Byte) /\ InHand(j) \in Seq(Byte)
    /\ Len(InRing(j)) \in Nat /\ Len(InHand(j)) \in Nat
    /\ Len(OnTheWay(j)) = Len(InRing(j)) + Len(InHand(j))

LEMMA WayLength == Types => \A j \in Sock : WayOk(j)
<1> SUFFICES ASSUME Types, NEW j \in Sock PROVE WayOk(j)
  OBVIOUS
<1>1. InRing(j) \in Seq(Byte)
  <2>1. evt \in Seq(Happened) /\ Len(evt) \in 0 .. Len(evt)
    BY LenProperties DEF Types, RingTypes
  <2>2. PICK f : CarriedBy(f, evt, j, gen[j])
    BY <2>1, CarriedSteps
  <2> QED
    BY <2>1, <2>2 DEF CarriedBy, InRing
<1>2. InHand(j) \in Seq(Byte)
  BY EmptySeq DEF InHand, Types, WorkerTypes
<1>3. Len(InRing(j) \o InHand(j)) = Len(InRing(j)) + Len(InHand(j))
  BY <1>1, <1>2, ConcatProperties
<1> QED
  BY <1>1, <1>2, <1>3, LenProperties DEF OnTheWay, WayOk

LEMMA WayLengthNext == (Types => \A j \in Sock : WayOk(j))'
BY WayLength, PTL

(* An event that joins the ring adds at most what it carries.              *)
LEMMA RingMore ==
    ASSUME Types, Types', NEW j \in Sock, gen'[j] = gen[j], NEW e \in Happened, PostEvent(e)
    PROVE  Len(InRing(j)') <= Len(InRing(j)) + Len(Carried(e, j, gen[j]))
<1>1. evt \in Seq(Happened) /\ evt' \in Seq(Happened) /\ Len(evt) \in Nat
  BY LenProperties DEF Types, RingTypes
<1>2. OneMore(evt', Happened, evt, e, EvtCap)
  BY PostEventOne DEF Types
<1>3. Carried(e, j, gen[j]) \in Seq(Byte) /\ Len(Carried(e, j, gen[j])) \in Nat
  BY CarriedType, LenProperties
<1>4. InRing(j) \in Seq(Byte) /\ Len(InRing(j)) \in Nat
  BY WayLength DEF WayOk
<1>5. CASE Len(evt') = Len(evt) + 1
  <2>1. evt'[Len(evt')] = e /\ \A k \in 1 .. Len(evt) : evt'[k] = evt[k]
    BY <1>1, <1>2, <1>5 DEF OneMore
  <2>2. AllCarried(evt', j, gen[j]) = AllCarried(evt, j, gen[j]) \o Carried(e, j, gen[j])
    <3>1. ASSUME NEW r \in Seq(Happened), r = evt'
          PROVE  AllCarried(r, j, gen[j]) = AllCarried(evt, j, gen[j]) \o Carried(e, j, gen[j])
      <4>1. /\ Len(r) = Len(evt) + 1 /\ r[Len(r)] = e
            /\ \A k \in 1 .. Len(evt) : r[k] = evt[k]
        BY <1>5, <2>1, <3>1
      <4>2. Grown(evt, r, j, gen[j])
        BY <1>1, <4>1, CarriedAppend
      <4> QED
        BY <4>1, <4>2, Zenon DEF Grown
    <3> QED
      BY <1>1, <3>1
  <2>3. InRing(j)' = InRing(j) \o Carried(e, j, gen[j])
    BY <2>2, Zenon DEF InRing
  <2> QED
    BY <1>3, <1>4, <2>3, ConcatProperties
<1>6. CASE Len(evt') # Len(evt) + 1
  <2>1. Len(evt') = Len(evt) /\ \A k \in 1 .. Len(evt) : evt'[k] = evt[k]
    BY <1>1, <1>2, <1>6 DEF OneMore
  <2>2. evt' = evt
    BY <1>1, <2>1, SeqEqual
  <2>3. InRing(j)' = InRing(j)
    BY <2>2 DEF InRing
  <2> QED
    BY <1>3, <1>4, <2>3
<1> QED
  BY <1>5, <1>6

(* The oldest event takes with it what it carries.                         *)
LEMMA RingLess ==
    ASSUME Types, Types', NEW j \in Sock, gen'[j] = gen[j], evt # << >>, evt' = Tail(evt)
    PROVE  Len(InRing(j)) = Len(Carried(evt[1], j, gen[j])) + Len(InRing(j)')
<1>1. evt \in Seq(Happened) /\ evt[1] \in Happened
  BY TailFacts DEF Types, RingTypes
<1>2. Carried(evt[1], j, gen[j]) \in Seq(Byte)
  BY <1>1, CarriedType
<1>3. InRing(j)' \in Seq(Byte)
  BY WayLengthNext DEF WayOk
<1>4. InRing(j) = Carried(evt[1], j, gen[j]) \o InRing(j)'
  BY <1>1, CarriedTail, Zenon DEF InRing
<1> QED
  BY <1>2, <1>3, <1>4, ConcatProperties

(* Outside a stream nothing is on its way and no ::recv is under way.      *)
LEMMA NoStream ==
    ASSUME Types, HostState, NEW j \in Sock, ProtocolOk(j), Phase(j) # "stream"
    PROVE  /\ InRing(j) = << >> /\ InHand(j) = << >> /\ Len(OnTheWay(j)) = 0
           /\ ~(wpc = "take" /\ wi = j /\ AtWork(j))
<1>1. Phase(j) \in {"opening", "datagram"}
  BY PhaseCases
<1>2. InRing(j) = << >>
  <2>1. \A k \in Told(j) : evt[k].evt # "RxTcp"
    BY <1>1, PhaseCases DEF ProtocolOk, Heard
  <2>2. \A k \in 1 .. Len(evt) : evt[k].evt = "RxTcp" /\ evt[k].sock = j => evt[k].gen # gen[j]
    BY <2>1 DEF Told
  <2> QED
    BY <2>2, CarriedNone DEF InRing, Types, RingTypes
<1>3. AtWork(j) => wst[j] # "ESTABLISHED"
  BY <1>1, PhaseCases DEF ProtocolOk, Working
<1>4. InHand(j) = << >>
  BY <1>3 DEF InHand, HostState, AtWork
<1>5. Len(OnTheWay(j)) = 0
  <2>1. Len(<< >>) = 0
    BY EmptySeq
  <2> QED
    BY <1>2, <1>4, <2>1, WayLength DEF WayOk
<1> QED
  BY <1>2, <1>3, <1>4, <1>5 DEF HostState

(* Only the three steps of a ::recv touch the credit or leave the worker   *)
(* between two of them.                                                    *)
LEMMA WorkerQuiet ==
    ASSUME WorkerNext, ~PollLoadCredit, ~PollTake, ~PollPost
    PROVE  credit' = credit /\ wpc' \notin {"take", "post"}
<1>1. CASE Wake \/ ExitNotRunning \/ ExitShutdown \/ Drained
  BY <1>1 DEF Wake, ExitNotRunning, ExitShutdown, Drained, Finish
<1>2. CASE Requests
  BY <1>2 DEF Requests, HandleLeftover, HandleOpen, HandleAdoptListen, HandleClose, HandleConnect,
     HandleSendTcp, HandleSendDatagram, Taking
<1>3. CASE PollInvalid \/ PollConnecting \/ PollConnectDone \/ PollListening \/ PollOpen \/ PollFlush
  BY <1>3 DEF PollInvalid, PollConnecting, PollConnectDone, PollListening, PollOpen, PollFlush, NextSock
<1>4. CASE PollNoFlush \/ PollNoRecv \/ PollEof \/ PollRecvError \/ PollUdp \/ Slirp
  BY <1>4 DEF PollNoFlush, PollNoRecv, PollEof, PollRecvError, PollUdp, Slirp, NextSock
<1> QED
  BY <1>1, <1>2, <1>3, <1>4 DEF WorkerNext, Poll

(* Fits in numbers, where the guest's buffer does not change.              *)
LEMMA FitsWhen ==
    ASSUME Types, Types', NEW j \in Sock, Fits(j), UNCHANGED <<sr, rxbuf, rxpend>>,
           sr[j] \notin Headed =>
              Len(rxbuf[j]) + (Len(InRing(j)') + Len(InHand(j)')) + MaxOf(credit'[j], 0) <= Room,
           wpc' = "take" /\ wi' = j /\ AtWork(j)' => Len(rxbuf[j]) + Len(InRing(j)') + wcred' <= Room
    PROVE  Fits(j)'
<1>1. Len(OnTheWay(j)') = Len(InRing(j)') + Len(InHand(j)')
  BY WayLengthNext DEF WayOk
<1>2. rxpend'[j] = << >> /\ Len(rxbuf'[j]) <= Room
  BY DEF Fits
<1>3. sr'[j] \notin Headed => Len(rxbuf'[j]) + Len(OnTheWay(j)') + MaxOf(credit'[j], 0) <= Room
  BY <1>1
<1>4. wpc' = "take" /\ wi' = j /\ AtWork(j)' => Len(rxbuf'[j]) + Len(InRing(j)') + wcred' <= Room
  OBVIOUS
<1> QED
  BY <1>2, <1>3, <1>4 DEF Fits

LEMMA WorkerFits ==
    ASSUME Types, Types', GenOrder, HostState, HostState', WorkerNext \/ PeerNext,
           UNCHANGED <<emu, sr, gen, rxbuf, rxpend>>, NEW j \in Sock, ProtocolOk(j), Fits(j)
    PROVE  Fits(j)'
<1> DEFINE b == Len(rxbuf[j])
           ring == Len(InRing(j))
           hand == Len(InHand(j))
           ring1 == Len(InRing(j)')
           hand1 == Len(InHand(j)')
           c == credit[j]
           c1 == credit'[j]
<1>1. /\ b \in Nat /\ ring \in Nat /\ hand \in Nat /\ ring1 \in Nat /\ hand1 \in Nat
      /\ c \in Int /\ c1 \in Int /\ Room \in Nat /\ wcred \in Int
  BY WayLength, WayLengthNext, SizeFacts, LenProperties DEF WayOk, Types, ChipTypes, RingTypes, WorkerTypes
<1>2. sr[j] \notin Headed => b + (ring + hand) + MaxOf(c, 0) <= Room
  BY WayLength DEF WayOk, Fits
<1>3. wpc = "take" /\ wi = j /\ AtWork(j) => b + ring + wcred <= Room
  BY DEF Fits
<1>4. Len(<< >>) = 0 /\ gen'[j] = gen[j]
  BY EmptySeq
<1>5. SUFFICES /\ sr[j] \notin Headed => b + (ring1 + hand1) + MaxOf(c1, 0) <= Room
               /\ wpc' = "take" /\ wi' = j /\ AtWork(j)' => b + ring1 + wcred' <= Room
  BY FitsWhen
<1>6. CASE PeerNext
  <2>1. UNCHANGED <<evt, credit, wpc, wi, wgen, wcred, wgot>>
    BY <1>6 DEF PeerNext, PeerSend, PeerEnds, PeerOnly, workVars, NoEvent
  <2>2. ring1 = ring /\ hand1 = hand /\ c1 = c /\ (AtWork(j)' <=> AtWork(j))
    BY <2>1 DEF InRing, InHand, AtWork
  <2> HIDE DEF b, ring, hand, ring1, hand1, c, c1
  <2> QED
    BY <1>2, <1>3, <2>1, <2>2
<1>7. CASE WorkerNext /\ ~PollLoadCredit /\ ~PollTake /\ ~PollPost
  <2>1. credit' = credit /\ wpc' \notin {"take", "post"}
    BY <1>7, WorkerQuiet
  <2>2. hand1 = 0
    <3>1. wgot' = << >>
      BY <2>1 DEF HostState
    <3> QED
      BY <1>4, <3>1 DEF InHand
  <2>3. ring1 <= ring
    <3>1. CASE NoEvent
      <4>1. InRing(j)' = InRing(j)
        BY <3>1 DEF NoEvent, InRing
      <4> QED
        BY <1>1, <4>1
    <3>2. CASE \E e \in Happened : e.evt # "RxTcp" /\ PostEvent(e)
      <4>1. PICK e \in Happened : e.evt # "RxTcp" /\ PostEvent(e)
        BY <3>2
      <4>2. Len(Carried(e, j, gen[j])) = 0
        BY <1>4, <4>1 DEF Carried
      <4>3. ring1 <= ring + Len(Carried(e, j, gen[j]))
        BY <1>4, <4>1, RingMore
      <4> HIDE DEF ring, ring1
      <4> QED
        BY <1>1, <4>2, <4>3
    <3> QED
      BY <1>7, <3>1, <3>2, WorkerEvents
  <2> HIDE DEF b, ring, hand, ring1, hand1
  <2> QED
    BY <1>1, <1>2, <2>1, <2>2, <2>3 DEF MaxOf
<1>8. CASE PollLoadCredit
  <2>1. /\ evt' = evt /\ credit' = credit /\ wi' = wi /\ wcred' = credit[wi] /\ wgot' = wgot
        /\ wgen' = wgen /\ wpc = "recv" /\ wst[wi] = "ESTABLISHED" /\ credit[wi] > 0
    BY <1>8 DEF PollLoadCredit, Polling, NoEvent, TcpReadable
  <2>2. ring1 = ring /\ hand1 = hand /\ c1 = c
    BY <2>1 DEF InRing, InHand
  <2>3. wi' = j /\ AtWork(j)' => sr[j] \notin Headed /\ wcred' = c /\ c > 0
    <3> SUFFICES ASSUME wi' = j, AtWork(j)' PROVE sr[j] \notin Headed /\ wcred' = c /\ c > 0
      OBVIOUS
    <3>1. wst[j] = "ESTABLISHED" /\ AtWork(j)
      BY <2>1 DEF AtWork
    <3>2. Phase(j) = "stream"
      BY <3>1, PhaseCases DEF ProtocolOk, Working
    <3>3. sr[j] \notin Headed
      BY <3>2, PhaseCases
    <3> QED
      BY <2>1, <3>3
  <2> HIDE DEF b, ring, hand, ring1, hand1, c, c1
  <2>4. wi' = j /\ AtWork(j)' => b + ring1 + wcred' <= Room
    <3> SUFFICES ASSUME sr[j] \notin Headed, wcred' = c, c > 0 PROVE b + ring1 + wcred' <= Room
      BY <2>3
    <3> QED
      BY <1>1, <1>2, <2>2 DEF MaxOf
  <2> QED
    BY <1>2, <2>2, <2>4
<1>9. CASE PollTake
  <2>1. /\ evt' = evt /\ wi' = wi /\ wgen' = wgen /\ wpc = "take" /\ wpc' = "post"
        /\ \E n \in 1 .. Len(kin[wi]) : /\ n <= wcred /\ wgot' = SubSeq(kin[wi], 1, n)
                                        /\ credit' = [credit EXCEPT ![wi] = @ - n]
    BY <1>9 DEF PollTake, Polling, NoEvent
  <2>2. PICK n \in 1 .. Len(kin[wi]) : /\ n <= wcred /\ wgot' = SubSeq(kin[wi], 1, n)
                                       /\ credit' = [credit EXCEPT ![wi] = @ - n]
    BY <2>1
  <2>3. wi \in Sock /\ kin[wi] \in Seq(Byte) /\ Len(kin[wi]) \in Nat /\ credit \in [Sock -> Int]
    BY LenProperties DEF Types, WorkerTypes, RingTypes
  <2>4. ring1 = ring
    BY <2>1 DEF InRing
  <2>5. n \in Nat /\ n > 0
    BY <2>3
  <2>6. CASE wi = j /\ AtWork(j)
    <3>1. Len(SubSeq(kin[wi], 1, n)) = n
      BY <2>3, SubSeqProperties
    <3>2. hand1 = n
      BY <2>1, <2>2, <2>6, <3>1 DEF InHand, AtWork
    <3>3. c1 = c - n
      BY <2>2, <2>3, <2>6
    <3>4. hand = 0
      BY <1>4, <2>1 DEF InHand, HostState
    <3> HIDE DEF b, ring, hand, ring1, hand1, c, c1
    <3>5. b + ring + n <= Room
      BY <1>1, <1>3, <2>1, <2>2, <2>5, <2>6
    <3> QED
      BY <1>1, <1>2, <2>1, <2>4, <2>5, <3>2, <3>3, <3>4, <3>5 DEF MaxOf
  <2>7. CASE ~(wi = j /\ AtWork(j))
    <3>1. hand1 = 0
      BY <1>4, <2>1, <2>7 DEF InHand, AtWork
    <3>2. c1 = c \/ c1 = c - n
      BY <2>2, <2>3
    <3> HIDE DEF b, ring, hand, ring1, hand1, c, c1
    <3> QED
      BY <1>1, <1>2, <2>1, <2>4, <2>5, <3>1, <3>2 DEF MaxOf
  <2> QED
    BY <2>6, <2>7
<1>10. CASE PollPost
  <2> DEFINE e == Event("RxTcp", wi, wgen[wi], "None", wgot)
  <2>1. /\ PostEvent(e) /\ wgot' = << >> /\ wgen' = wgen /\ wpc' # "take"
        /\ credit' = credit \/ credit' = [credit EXCEPT ![wi] = 0]
    BY <1>10 DEF PollPost, Polling, NextSock
  <2>2. wi \in Sock /\ wgot \in Seq(Byte) /\ credit \in [Sock -> Int] /\ wgen[wi] \in Nat
    BY WorkerParts DEF Types, WorkerTypes, RingTypes
  <2>3. e \in Happened
    BY <2>2, EventType DEF Cause
  <2>4. Carried(e, j, gen[j]) = InHand(j)
    BY DEF Carried, InHand, Event
  <2> HIDE DEF e
  <2>5. ring1 <= ring + hand
    BY <1>4, <2>1, <2>3, <2>4, RingMore
  <2>6. hand1 = 0
    BY <1>4, <2>1 DEF InHand
  <2>7. c1 = c \/ c1 = 0
    BY <2>1, <2>2
  <2> HIDE DEF b, ring, hand, ring1, hand1, c, c1
  <2> QED
    BY <1>1, <1>2, <2>1, <2>5, <2>6, <2>7 DEF MaxOf
<1> QED
  BY <1>6, <1>7, <1>8, <1>9, <1>10

-----------------------------------------------------------------------------
(* Headers and payloads.                                                   *)

LEMMA WholeBytes ==
    /\ WholeCells(<< >>) /\ WholeCells(<<HeaderCell, RawCell>>)
    /\ \A d \in Seq(Byte) : WholeCells(d)
<1>1. \A d \in Seq(Byte) : WholeCells(d)
  BY ByteCells, ElementOfSeq DEF WholeCells
<1>2. WholeCells(<<HeaderCell, RawCell>>)
  BY DEF WholeCells, HeaderCell, RawCell
<1> QED
  BY <1>1, <1>2, EmptySeq

LEMMA WholeConcat ==
    ASSUME NEW b \in Seq(Cell), NEW d \in Seq(Cell), WholeCells(b), WholeCells(d)
    PROVE  b \o d \in Seq(Cell) /\ Len(b \o d) = Len(b) + Len(d) /\ WholeCells(b \o d)
<1> DEFINE s == b \o d
<1>1. Len(b) \in Nat /\ Len(d) \in Nat
  BY LenProperties
<1>2. s \in Seq(Cell) /\ Len(s) = Len(b) + Len(d)
      /\ \A k \in 1 .. Len(s) : s[k] = IF k <= Len(b) THEN b[k] ELSE d[k - Len(b)]
  BY <1>1, ConcatProperties
<1> HIDE DEF s
<1>3. ASSUME NEW k \in 1 .. Len(s), s[k] = HeaderCell
      PROVE  k < Len(s) /\ s[k + 1] # HeaderCell
  <2>1. CASE k <= Len(b)
    <3>1. k \in 1 .. Len(b) /\ b[k] = HeaderCell
      BY <1>1, <1>2, <1>3, <2>1
    <3>2. k < Len(b) /\ b[k + 1] # HeaderCell
      BY <3>1 DEF WholeCells
    <3>3. k + 1 \in 1 .. Len(s) /\ k + 1 <= Len(b)
      BY <1>1, <1>2, <3>2
    <3> QED
      BY <1>1, <1>2, <3>2, <3>3
  <2>2. CASE ~(k <= Len(b))
    <3> DEFINE m == k - Len(b)
    <3>1. m \in 1 .. Len(d) /\ d[m] = HeaderCell
      BY <1>1, <1>2, <1>3, <2>2
    <3>2. m < Len(d) /\ d[m + 1] # HeaderCell
      BY <3>1 DEF WholeCells
    <3>3. k + 1 \in 1 .. Len(s) /\ ~(k + 1 <= Len(b)) /\ (k + 1) - Len(b) = m + 1 /\ k < Len(s)
      BY <1>1, <1>2, <2>2, <3>1, <3>2
    <3>4. s[k + 1] = d[(k + 1) - Len(b)]
      BY <1>2, <3>3
    <3> QED
      BY <3>2, <3>3, <3>4
  <2> QED
    BY <2>1, <2>2
<1>4. WholeCells(s)
  BY <1>3 DEF WholeCells
<1> QED
  BY <1>2, <1>4 DEF s

LEMMA WholeDatagram ==
    ASSUME NEW d \in Seq(Byte), d # << >>
    PROVE  LET s == <<HeaderCell>> \o d IN s \in Seq(Cell) /\ Len(s) = Len(d) + 1 /\ WholeCells(s)
<1> DEFINE s == <<HeaderCell>> \o d
           h == <<HeaderCell>>
<1>1. h \in Seq(Cell) /\ Len(h) = 1 /\ h[1] = HeaderCell /\ d \in Seq(Cell)
  BY ByteCells
<1>2. Len(d) \in Nat \ {0}
  BY LenProperties, EmptySeq
<1> HIDE DEF h
<1>3. h \o d \in Seq(Cell) /\ Len(h \o d) = Len(h) + Len(d)
      /\ \A k \in 1 .. Len(h \o d) : (h \o d)[k] = IF k <= Len(h) THEN h[k] ELSE d[k - Len(h)]
  BY <1>1, <1>2, ConcatProperties
<1>4. s = h \o d
  BY DEF h
<1> HIDE DEF s
<1>5. s \in Seq(Cell) /\ Len(s) = Len(d) + 1 /\ \A k \in 1 .. Len(s) : k > 1 => s[k] = d[k - 1]
  BY <1>1, <1>2, <1>3, <1>4
<1>6. \A k \in 1 .. Len(d) : d[k] # HeaderCell
  BY ByteCells, ElementOfSeq
<1>7. ASSUME NEW k \in 1 .. Len(s), k > 1 PROVE s[k] # HeaderCell
  <2>1. k - 1 \in 1 .. Len(d) /\ s[k] = d[k - 1]
    BY <1>2, <1>5, <1>7
  <2> QED
    BY <1>6, <2>1
<1>8. WholeCells(s)
  <2> SUFFICES ASSUME NEW k \in 1 .. Len(s), s[k] = HeaderCell
               PROVE  k < Len(s) /\ s[k + 1] # HeaderCell
    BY DEF WholeCells
  <2>1. k = 1
    BY <1>2, <1>5, <1>7
  <2>2. 2 \in 1 .. Len(s)
    BY <1>2, <1>5
  <2> QED
    BY <1>7, <2>1, <2>2
<1> QED
  BY <1>5, <1>8 DEF s

LEMMA WholeRest ==
    ASSUME NEW b \in Seq(Cell), WholeCells(b), NEW k \in 1 .. Len(b)
    PROVE  /\ ButFirstN(b, k) \in Seq(Cell) /\ Len(ButFirstN(b, k)) = Len(b) - k
           /\ WholeCells(ButFirstN(b, k))
<1> DEFINE s == ButFirstN(b, k)
<1>1. Len(b) \in Nat /\ k \in Nat /\ k + 1 \in 1 .. Len(b) + 1 /\ Len(b) \in (k + 1) - 1 .. Len(b)
  BY LenProperties
<1>2. /\ SubSeq(b, k + 1, Len(b)) \in Seq(Cell)
      /\ Len(SubSeq(b, k + 1, Len(b))) = Len(b) - (k + 1) + 1
      /\ \A m \in 1 .. Len(b) - (k + 1) + 1 : SubSeq(b, k + 1, Len(b))[m] = b[(k + 1) + m - 1]
  BY <1>1, SubSeqProperties
<1>3. s = SubSeq(b, k + 1, Len(b))
  BY DEF ButFirstN
<1> HIDE DEF s
<1>4. s \in Seq(Cell) /\ Len(s) = Len(b) - k /\ \A m \in 1 .. Len(s) : s[m] = b[k + m]
  <2>1. \A m \in 1 .. Len(b) - k : (k + 1) + m - 1 = k + m
    BY <1>1
  <2> QED
    BY <1>1, <1>2, <1>3, <2>1
<1>5. ASSUME NEW m \in 1 .. Len(s), s[m] = HeaderCell PROVE m < Len(s) /\ s[m + 1] # HeaderCell
  <2>1. k + m \in 1 .. Len(b) /\ b[k + m] = HeaderCell
    BY <1>1, <1>4, <1>5
  <2>2. k + m < Len(b) /\ b[(k + m) + 1] # HeaderCell
    BY <2>1 DEF WholeCells
  <2>3. m < Len(s) /\ m + 1 \in 1 .. Len(s) /\ k + (m + 1) = (k + m) + 1
    BY <1>1, <1>4, <2>2
  <2> QED
    BY <1>4, <2>2, <2>3
<1> QED
  BY <1>4, <1>5 DEF s, WholeCells

-----------------------------------------------------------------------------
(* The chip's side of the receive buffer.                                  *)

Holds(j) == Fits(j) /\ WholeCells(rxbuf[j])

Receiver == <<wpc, wi, wgen, wcred, wgot>>

(* Fits in numbers, where the worker does nothing.                         *)
LEMMA FitsChip ==
    ASSUME Types, Types', NEW j \in Sock, UNCHANGED Receiver, gen'[j] = gen[j],
           rxpend'[j] = << >>, Len(rxbuf'[j]) <= Room,
           sr'[j] \notin Headed =>
              Len(rxbuf'[j]) + (Len(InRing(j)') + Len(InHand(j))) + MaxOf(credit'[j], 0) <= Room,
           wpc = "take" /\ wi = j /\ AtWork(j) => Len(rxbuf'[j]) + Len(InRing(j)') + wcred <= Room
    PROVE  Fits(j)'
<1>1. InHand(j)' = InHand(j) /\ (AtWork(j)' <=> AtWork(j)) /\ wpc' = wpc /\ wi' = wi /\ wcred' = wcred
  BY DEF Receiver, InHand, AtWork
<1>2. Len(OnTheWay(j)') = Len(InRing(j)') + Len(InHand(j))
  BY <1>1, WayLengthNext DEF WayOk
<1>3. sr'[j] \notin Headed => Len(rxbuf'[j]) + Len(OnTheWay(j)') + MaxOf(credit'[j], 0) <= Room
  BY <1>2
<1>4. wpc' = "take" /\ wi' = j /\ AtWork(j)' => Len(rxbuf'[j]) + Len(InRing(j)') + wcred' <= Room
  BY <1>1
<1> QED
  BY <1>3, <1>4 DEF Fits

LEMMA HoldsSame ==
    ASSUME Types, Types', NEW j \in Sock, Holds(j), UNCHANGED Receiver, gen'[j] = gen[j], evt' = evt,
           credit'[j] = credit[j], rxbuf'[j] = rxbuf[j], rxpend'[j] = rxpend[j],
           sr'[j] \notin Headed => sr[j] \notin Headed
    PROVE  Holds(j)'
<1>1. Fits(j) /\ WholeCells(rxbuf[j])
  BY DEF Holds
<1>2. InRing(j)' = InRing(j)
  BY DEF InRing
<1>3. Len(OnTheWay(j)) = Len(InRing(j)) + Len(InHand(j))
  BY WayLength DEF WayOk
<1>4. sr'[j] \notin Headed =>
         Len(rxbuf'[j]) + (Len(InRing(j)') + Len(InHand(j))) + MaxOf(credit'[j], 0) <= Room
  BY <1>1, <1>2, <1>3 DEF Fits
<1>5. wpc = "take" /\ wi = j /\ AtWork(j) => Len(rxbuf'[j]) + Len(InRing(j)') + wcred <= Room
  BY <1>1, <1>2 DEF Fits
<1>6. rxpend'[j] = << >> /\ Len(rxbuf'[j]) <= Room
  BY <1>1 DEF Fits
<1>7. Fits(j)'
  BY <1>4, <1>5, <1>6, FitsChip
<1> QED
  BY <1>1, <1>7 DEF Holds

(* Nothing of a new generation is on its way yet.                          *)
LEMMA HoldsFresh ==
    ASSUME Types, Types', GenerationOrder, NEW j \in Sock, UNCHANGED Receiver, gen'[j] > gen[j],
           evt' = evt, credit'[j] = 0, rxpend'[j] = << >>, Len(rxbuf'[j]) <= Room, WholeCells(rxbuf'[j])
    PROVE  Holds(j)'
<1>1. gen[j] \in Nat /\ gen'[j] \in Nat /\ wgen[j] \in Nat /\ wgen[j] <= gen[j] /\ wgen' = wgen
  <2>1. gen[j] \in Nat /\ wgen[j] \in Nat
    BY WorkerParts
  <2>2. gen'[j] \in Nat
    <3>1. gen' \in [Sock -> 1 .. MaxGen]
      BY DEF Types, ChipTypes
    <3> QED
      BY <3>1, SizeFacts
  <2>3. wgen[j] <= gen[j]
    BY OrderParts
  <2> QED
    BY <2>1, <2>2, <2>3 DEF Receiver
<1>2. ~AtWork(j)' /\ InHand(j)' = << >>
  BY <1>1 DEF AtWork, InHand
<1>3. InRing(j)' = << >>
  <2>1. evt \in Seq(Happened)
    BY DEF Types, RingTypes
  <2>2. \A k \in 1 .. Len(evt) : evt[k].sock = j => evt[k].gen <= gen[j]
    BY DEF GenerationOrder
  <2>3. \A k \in 1 .. Len(evt) : evt[k].evt = "RxTcp" /\ evt[k].sock = j => evt[k].gen # gen'[j]
    BY <1>1, <2>2
  <2>4. AllCarried(evt, j, gen'[j]) = << >>
    BY <2>1, <2>3, CarriedNone
  <2> QED
    BY <2>4 DEF InRing
<1>4. Len(OnTheWay(j)') = 0 /\ MaxOf(0, 0) = 0
  <2>1. Len(<< >>) = 0
    BY EmptySeq
  <2> QED
    BY <1>2, <1>3, <2>1, WayLengthNext DEF WayOk, MaxOf
<1>5. Len(rxbuf'[j]) \in Nat
  BY LenProperties DEF Types, ChipTypes
<1>6. Len(rxbuf'[j]) + Len(OnTheWay(j)') + MaxOf(credit'[j], 0) <= Room
  BY <1>4, <1>5
<1> QED
  BY <1>2, <1>6 DEF Holds, Fits

(* OPEN's second half: nothing of the generation is on its way.            *)
LEMMA OpenHolds ==
    ASSUME Types, Types', HostState, NEW j \in Sock, ProtocolOk(j), Fits(j), OpenFinish(j),
           UNCHANGED Receiver
    PROVE  Holds(j)'
<1>1. /\ emu = <<"open", j>> /\ evt' = evt /\ gen' = gen /\ rxpend' = rxpend
      /\ rxbuf'[j] = << >> /\ credit'[j] = OpenCredit(j)
  BY DEF OpenFinish, Types, ChipTypes, RingTypes
<1>2. Phase(j) # "stream"
  BY <1>1, PhaseCases DEF Opening
<1>3. InRing(j)' = << >> /\ InHand(j) = << >> /\ ~(wpc = "take" /\ wi = j /\ AtWork(j))
  BY <1>1, <1>2, NoStream DEF InRing
<1>4. Len(<< >>) = 0
  BY EmptySeq
<1>5. MaxOf(OpenCredit(j), 0) <= Room /\ MaxOf(OpenCredit(j), 0) \in Nat /\ 0 <= Room
  BY SizeFacts DEF OpenCredit, MaxOf, Room
<1>6. Len(rxbuf'[j]) + (Len(InRing(j)') + Len(InHand(j))) + MaxOf(credit'[j], 0) <= Room
  BY <1>1, <1>3, <1>4, <1>5
<1>7. rxpend'[j] = << >> /\ Len(rxbuf'[j]) <= Room /\ gen'[j] = gen[j]
  BY <1>1, <1>4, <1>5 DEF Fits
<1>8. Fits(j)'
  BY <1>3, <1>6, <1>7, FitsChip
<1> QED
  BY <1>1, <1>8, WholeBytes DEF Holds

(* RECV gives back as credit what the guest has read.                      *)
LEMMA RecvHolds ==
    ASSUME Types, Types', NEW j \in Sock, Holds(j), NEW k, Recv(j, k), UNCHANGED Receiver
    PROVE  Holds(j)'
<1>1. Fits(j) /\ WholeCells(rxbuf[j]) /\ rxpend[j] = << >>
  BY DEF Holds, Fits
<1>2. /\ rxbuf[j] \in Seq(Cell) /\ k \in 1 .. Len(rxbuf[j]) /\ credit \in [Sock -> Int]
      /\ evt' = evt /\ gen' = gen /\ sr' = sr
  BY DEF Recv, RxRsr, Types, ChipTypes, RingTypes
<1> DEFINE b == ButFirstN(rxbuf[j], k)
           f == Flushed(j, b, rxpend[j])
<1>3. b \in Seq(Cell) /\ Len(b) = Len(rxbuf[j]) - k /\ WholeCells(b)
  BY <1>1, <1>2, WholeRest
<1>4. rxbuf'[j] = f.buf /\ rxpend'[j] = f.pend /\ credit'[j] = credit[j] + k
  BY <1>2 DEF Recv, Types, ChipTypes
<1> HIDE DEF b
<1>5. f.buf = b /\ f.pend = << >>
  <2>1. rxpend[j] \in Seq(Cell)
    BY DEF Types, ChipTypes
  <2> QED
    BY <1>1, <1>3, <2>1, FlushedFacts
<1> HIDE DEF f
<1>6. rxbuf'[j] = b /\ rxpend'[j] = << >>
  BY <1>4, <1>5
<1>7. InRing(j)' = InRing(j)
  BY <1>2 DEF InRing
<1>8. /\ Len(OnTheWay(j)) = Len(InRing(j)) + Len(InHand(j))
      /\ Len(InRing(j)) \in Nat /\ Len(InHand(j)) \in Nat
  BY WayLength DEF WayOk
<1>13. Len(rxbuf[j]) \in Nat /\ k \in Nat /\ credit[j] \in Int /\ Room \in Nat /\ wcred \in Int
  <2>1. Len(rxbuf[j]) \in Nat
    BY <1>2, LenProperties
  <2> QED
    BY <1>2, <2>1, SizeFacts DEF Types, WorkerTypes
<1>9. sr'[j] \notin Headed =>
         Len(rxbuf'[j]) + (Len(InRing(j)') + Len(InHand(j))) + MaxOf(credit'[j], 0) <= Room
  <2> DEFINE n == Len(rxbuf[j])
             n1 == Len(rxbuf'[j])
             way == Len(InRing(j)) + Len(InHand(j))
             way1 == Len(InRing(j)') + Len(InHand(j))
             c == credit[j]
             c1 == credit'[j]
  <2>1. sr[j] \notin Headed => n + way + MaxOf(c, 0) <= Room
    BY <1>1, <1>8 DEF Fits
  <2>2. n1 = n - k /\ way1 = way /\ c1 = c + k
    BY <1>3, <1>4, <1>6, <1>7
  <2>3. n \in Nat /\ way \in Nat /\ c \in Int
    BY <1>8, <1>13
  <2> HIDE DEF n, n1, way, way1, c, c1
  <2>4. k \in Nat /\ Room \in Nat
    BY <1>13
  <2>5. n + way + MaxOf(c, 0) <= Room => n1 + way1 + MaxOf(c1, 0) <= Room
    BY <2>2, <2>3, <2>4 DEF MaxOf
  <2> QED
    BY <1>2, <2>1, <2>5 DEF n1, way1, c1
<1>10. wpc = "take" /\ wi = j /\ AtWork(j) => Len(rxbuf'[j]) + Len(InRing(j)') + wcred <= Room
  <2>1. wpc = "take" /\ wi = j /\ AtWork(j) => Len(rxbuf[j]) + Len(InRing(j)) + wcred <= Room
    BY <1>1 DEF Fits
  <2>2. Len(rxbuf'[j]) = Len(rxbuf[j]) - k
    BY <1>3, <1>6
  <2> QED
    BY <1>7, <1>8, <1>13, <2>1, <2>2
<1>11. Len(rxbuf'[j]) <= Room
  BY <1>1, <1>3, <1>6, <1>13 DEF Fits
<1>12. Fits(j)'
  BY <1>2, <1>6, <1>9, <1>10, <1>11, FitsChip
<1> QED
  BY <1>3, <1>6, <1>12 DEF Holds

(* An event that leaves socket j's buffer alone: the room it may fill only *)
(* grows.                                                                  *)
LEMMA HoldsLess ==
    ASSUME Types, Types', NEW j \in Sock, Holds(j), UNCHANGED Receiver, gen'[j] = gen[j],
           evt # << >>, evt' = Tail(evt), rxbuf'[j] = rxbuf[j], rxpend'[j] = << >>,
           credit'[j] \in {credit[j], 0}, sr'[j] \notin Headed => sr[j] \notin Headed
    PROVE  Holds(j)'
<1> DEFINE b == Len(rxbuf[j])
           ring == Len(InRing(j))
           ring1 == Len(InRing(j)')
           hand == Len(InHand(j))
           c == credit[j]
           c1 == credit'[j]
<1>1. Fits(j) /\ WholeCells(rxbuf[j])
  BY DEF Holds
<1>2. /\ b \in Nat /\ ring \in Nat /\ ring1 \in Nat /\ hand \in Nat
      /\ c \in Int /\ c1 \in Int /\ Room \in Nat /\ wcred \in Int
  BY WayLength, WayLengthNext, SizeFacts, LenProperties DEF WayOk, Types, ChipTypes, RingTypes, WorkerTypes
<1>3. ring1 <= ring
  <2>1. ring = Len(Carried(evt[1], j, gen[j])) + ring1
    BY RingLess
  <2>2. Len(Carried(evt[1], j, gen[j])) \in Nat
    <3>1. evt[1] \in Happened
      BY TailFacts DEF Types, RingTypes
    <3> QED
      BY <3>1, CarriedType, LenProperties
  <2> HIDE DEF ring, ring1
  <2> QED
    BY <1>2, <2>1, <2>2
<1>4. sr[j] \notin Headed => b + (ring + hand) + MaxOf(c, 0) <= Room
  BY <1>1, WayLength DEF WayOk, Fits
<1>5. wpc = "take" /\ wi = j /\ AtWork(j) => b + ring + wcred <= Room
  BY <1>1 DEF Fits
<1>6. Len(rxbuf'[j]) = b /\ Len(rxbuf'[j]) <= Room
  BY <1>1 DEF Fits
<1>7. c1 \in {c, 0}
  OBVIOUS
<1>8. Fits(j)'
  <2> SUFFICES /\ sr'[j] \notin Headed => b + (ring1 + hand) + MaxOf(c1, 0) <= Room
               /\ wpc = "take" /\ wi = j /\ AtWork(j) => b + ring1 + wcred <= Room
    BY <1>6, FitsChip
  <2> HIDE DEF b, ring, ring1, hand, c, c1
  <2>1. b + (ring + hand) + MaxOf(c, 0) <= Room => b + (ring1 + hand) + MaxOf(c1, 0) <= Room
    BY <1>2, <1>3, <1>7 DEF MaxOf
  <2>2. b + ring + wcred <= Room => b + ring1 + wcred <= Room
    BY <1>2, <1>3
  <2> QED
    BY <1>4, <1>5, <2>1, <2>2
<1> QED
  BY <1>1, <1>8 DEF Holds

(* A datagram or a frame for a socket that has a header for it.            *)
LEMMA HoldsDatagram ==
    ASSUME Types, Types', HostState, NEW j \in Sock, ProtocolOk(j), Holds(j), UNCHANGED Receiver,
           gen'[j] = gen[j], evt # << >>, evt' = Tail(evt), sr' = sr, rxpend' = rxpend,
           Phase(j) = "datagram", NEW d \in Seq(Cell), WholeCells(d), Len(rxbuf[j]) + Len(d) <= Room,
           rxbuf'[j] = rxbuf[j] \o d
    PROVE  Holds(j)'
<1>1. Fits(j) /\ WholeCells(rxbuf[j]) /\ rxbuf[j] \in Seq(Cell) /\ rxpend'[j] = << >>
  BY DEF Holds, Fits, Types, ChipTypes
<1>2. Len(rxbuf'[j]) = Len(rxbuf[j]) + Len(d) /\ WholeCells(rxbuf'[j])
  BY <1>1, WholeConcat
<1>3. sr'[j] \in Headed
  BY PhaseCases
<1>4. ~(wpc = "take" /\ wi = j /\ AtWork(j))
  BY NoStream
<1>5. Fits(j)'
  BY <1>1, <1>2, <1>3, <1>4, FitsChip
<1> QED
  BY <1>2, <1>5 DEF Holds

(* A status.  Only a failed datagram socket leaves the datagram phase.     *)
LEMMA StatusHolds ==
    ASSUME Types, Types', HostState, NEW e, ApplyStatus(e), UNCHANGED Receiver,
           NEW j \in Sock, ProtocolOk(j), Holds(j)
    PROVE  Holds(j)'
<1>1. /\ Oldest(e) /\ evt # << >> /\ evt' = Tail(evt) /\ gen' = gen /\ emu = <<"tick", 0>>
      /\ rxbuf' = rxbuf /\ e.evt = "Status" /\ e.gen = gen[e.sock]
  BY AppliedEvent DEF ApplyStatus, Applying, Stale, Types
<1>2. /\ sr \in [Sock -> Status] /\ credit \in [Sock -> Int] /\ rxpend \in [Sock -> Seq(Cell)]
  BY DEF Types, ChipTypes, RingTypes
<1>3. rxpend'[j] = << >> /\ credit'[j] \in {credit[j], 0}
  BY <1>2 DEF ApplyStatus, Holds, Fits
<1>4. CASE e.sock = j /\ sr[j] \in Headed
  <2>1. Phase(j) = "datagram"
    BY <1>1, <1>4, PhaseCases DEF Opening
  <2>2. 1 \in Told(j) /\ evt[1] = e
    BY <1>1, <1>4 DEF Told, Oldest
  <2>3. e.cause = "Failed"
    BY <1>1, <2>1, <2>2 DEF ProtocolOk, Once
  <2>4. credit'[j] = 0
    BY <1>2, <1>4, <2>3 DEF ApplyStatus
  <2>5. InRing(j) = << >> /\ InHand(j) = << >> /\ ~(wpc = "take" /\ wi = j /\ AtWork(j))
    BY <2>1, NoStream
  <2>6. Len(InRing(j)') = 0
    <3>1. Len(InRing(j)) = Len(Carried(evt[1], j, gen[j])) + Len(InRing(j)')
      BY <1>1, RingLess
    <3>2. Len(Carried(evt[1], j, gen[j])) = 0
      BY <1>1, <2>2, EmptySeq DEF Carried
    <3>3. Len(InRing(j)') \in Nat
      BY WayLengthNext DEF WayOk
    <3> QED
      BY <2>5, <3>1, <3>2, <3>3, EmptySeq
  <2>7. Len(InHand(j)) = 0 /\ MaxOf(0, 0) = 0
    BY <2>5, EmptySeq DEF MaxOf
  <2>8. Len(rxbuf'[j]) \in Nat /\ Len(rxbuf'[j]) <= Room /\ gen'[j] = gen[j]
    BY <1>1, LenProperties DEF Holds, Fits, Types, ChipTypes
  <2>9. Len(rxbuf'[j]) + (Len(InRing(j)') + Len(InHand(j))) + MaxOf(credit'[j], 0) <= Room
    BY <2>4, <2>6, <2>7, <2>8
  <2>10. Fits(j)'
    BY <1>3, <2>5, <2>8, <2>9, FitsChip
  <2> QED
    BY <1>1, <2>10 DEF Holds
<1>5. CASE ~(e.sock = j /\ sr[j] \in Headed)
  <2>1. sr'[j] \notin Headed => sr[j] \notin Headed
    <3>1. e.sock # j => sr'[j] = sr[j]
      BY <1>2 DEF ApplyStatus
    <3> QED
      BY <1>5, <3>1
  <2> QED
    BY <1>1, <1>3, <2>1, HoldsLess
<1> QED
  BY <1>4, <1>5

AllMoves(f, b, p) == f.buf = b \o p /\ f.pend = << >>

LEMMA FlushedAll ==
    ASSUME NEW i \in Sock, NEW b \in Seq(Cell), NEW p \in Seq(Cell),
           Len(b) + Len(p) + HeaderSize(i) <= Room
    PROVE  AllMoves(Flushed(i, b, p), b, p)
BY FlushedFacts DEF AllMoves

(* Received bytes move from the ring to the buffer, which has room.        *)
LEMMA RxTcpHolds ==
    ASSUME Types, Types', HostState, NEW e, ApplyRxTcp(e), UNCHANGED Receiver, e.sock \in Sock,
           ProtocolOk(e.sock), Holds(e.sock)
    PROVE  Holds(e.sock)'
<1> DEFINE j == e.sock
           b == Len(rxbuf[j])
           ring == Len(InRing(j))
           ring1 == Len(InRing(j)')
           hand == Len(InHand(j))
           d == Len(e.data)
<1>1. /\ Oldest(e) /\ evt # << >> /\ evt' = Tail(evt) /\ gen' = gen /\ emu = <<"tick", 0>>
      /\ sr' = sr /\ credit' = credit /\ e.evt = "RxTcp" /\ e.gen = gen[j]
  BY AppliedEvent DEF ApplyRxTcp, Applying, Stale, Types
<1>2. /\ rxbuf \in [Sock -> Seq(Cell)] /\ rxpend \in [Sock -> Seq(Cell)] /\ e \in Happened
      /\ Fits(j) /\ WholeCells(rxbuf[j]) /\ rxpend[j] = << >>
  BY <1>1 DEF Types, ChipTypes, Oldest, Holds, Fits
<1>3. Phase(j) = "stream"
  <2>1. 1 \in Told(j) /\ evt[1] = e
    BY <1>1 DEF Told, Oldest
  <2> QED
    BY <1>1, <2>1, PhaseCases DEF ProtocolOk, Heard
<1>4. sr[j] \notin Headed /\ HeaderSize(j) = 0
  BY <1>1, <1>3, PhaseCases DEF Opening, HeaderSize, Headed
<1>5. e.data \in Seq(Byte) /\ e.data \in Seq(Cell) /\ WholeCells(e.data)
  BY <1>1, <1>2, EventData, ByteCells, WholeBytes
<1>6. /\ b \in Nat /\ ring \in Nat /\ ring1 \in Nat /\ hand \in Nat /\ d \in Nat
      /\ credit[j] \in Int /\ Room \in Nat /\ wcred \in Int
  BY <1>5, WayLength, WayLengthNext, SizeFacts, LenProperties
     DEF WayOk, Types, ChipTypes, RingTypes, WorkerTypes
<1>7. ring = d + ring1
  <2>1. ring = Len(Carried(evt[1], j, gen[j])) + ring1
    BY <1>1, RingLess
  <2>2. Carried(evt[1], j, gen[j]) = e.data
    BY <1>1 DEF Carried, Oldest
  <2> QED
    BY <2>1, <2>2
<1>8. b + (ring + hand) + MaxOf(credit[j], 0) <= Room
  BY <1>2, <1>4, WayLength DEF WayOk, Fits
<1>9. MaxOf(credit[j], 0) \in Nat
  BY <1>6 DEF MaxOf
<1>10. b + d <= Room
  <2> HIDE DEF b, ring, ring1, hand, d, j
  <2> QED
    BY <1>6, <1>7, <1>8, <1>9
<1>11. rxbuf'[j] = rxbuf[j] \o e.data /\ rxpend'[j] = << >>
  <2> DEFINE f == Flushed(j, rxbuf[j], rxpend[j])
             g == Flushed(j, f.buf, e.data)
  <2>1. rxbuf'[j] = g.buf /\ rxpend'[j] = f.pend \o g.pend
    BY <1>2 DEF ApplyRxTcp
  <2>2. f.buf = rxbuf[j] /\ f.pend = << >>
    BY <1>2, FlushedFacts
  <2> HIDE DEF f
  <2>3. b + d + HeaderSize(j) <= Room
    <3> HIDE DEF b, d, j
    <3> QED
      BY <1>4, <1>6, <1>10
  <2>4. AllMoves(Flushed(j, rxbuf[j], e.data), rxbuf[j], e.data)
    BY <1>2, <1>5, <2>3, FlushedAll
  <2>5. g.buf = rxbuf[j] \o e.data /\ g.pend = << >>
    BY <2>2, <2>4, Zenon DEF AllMoves
  <2> HIDE DEF g
  <2>6. << >> \o << >> = << >>
    BY ConcatEmptySeq, EmptySeq
  <2> QED
    BY <2>1, <2>2, <2>5, <2>6, Zenon
<1>12. Len(rxbuf'[j]) = b + d /\ WholeCells(rxbuf'[j])
  BY <1>2, <1>5, <1>11, WholeConcat
<1>13. Fits(j)'
  <2>1. gen'[j] = gen[j] /\ credit'[j] = credit[j]
    BY <1>1
  <2>2. (b + d) + (ring1 + hand) + MaxOf(credit[j], 0) <= Room
    <3> HIDE DEF b, ring, ring1, hand, d, j
    <3> QED
      BY <1>6, <1>7, <1>8, <1>9
  <2>3. wpc = "take" /\ wi = j /\ AtWork(j) => (b + d) + ring1 + wcred <= Room
    <3>1. wpc = "take" /\ wi = j /\ AtWork(j) => b + ring + wcred <= Room
      BY <1>2 DEF Fits
    <3> HIDE DEF b, ring, ring1, hand, d
    <3> QED
      BY <1>6, <1>7, <3>1
  <2> QED
    BY <1>10, <1>11, <1>12, <2>1, <2>2, <2>3, FitsChip
<1> QED
  BY <1>12, <1>13 DEF Holds

LEMMA ApplyHolds ==
    ASSUME Types, Types', HostState, NEW e,
           \/ ApplyStale(e) \/ ApplyStatus(e) \/ ApplyRxTcp(e)
           \/ ApplyRxUdp(e) \/ ApplyMacRaw(e) \/ ApplySendDone(e),
           UNCHANGED Receiver, NEW j \in Sock, ProtocolOk(j), Holds(j)
    PROVE  Holds(j)'
<1>1. Applying(e)
  BY DEF ApplyStale, ApplyStatus, ApplyRxTcp, ApplyRxUdp, ApplyMacRaw, ApplySendDone
<1>2. Oldest(e) /\ evt # << >> /\ evt' = Tail(evt) /\ gen' = gen /\ emu = <<"tick", 0>>
  BY <1>1, AppliedEvent DEF Applying, Types
<1>3. /\ rxbuf \in [Sock -> Seq(Cell)] /\ rxpend \in [Sock -> Seq(Cell)] /\ rxpend[j] = << >>
      /\ e.sock \in Sock /\ e \in Happened
  BY <1>2 DEF Types, ChipTypes, Oldest, Holds, Fits
<1>4. ASSUME rxbuf'[j] = rxbuf[j], rxpend'[j] = rxpend[j], credit' = credit, sr' = sr
      PROVE  Holds(j)'
  BY <1>2, <1>3, <1>4, HoldsLess
<1>5. Len(rxbuf[j]) \in Nat /\ RxSize \in Nat
  BY <1>3, LenProperties, SizeFacts
<1>6. ASSUME NEW d \in Seq(Cell), WholeCells(d), NEW n \in Nat, Len(d) = n + 1, RoomFor(j, n),
             Phase(j) = "datagram", rxbuf'[j] = rxbuf[j] \o d, rxpend' = rxpend, sr' = sr
      PROVE  Holds(j)'
  <2>1. HeaderSize(j) = 1
    BY <1>6, PhaseCases DEF HeaderSize, Headed
  <2>2. Len(rxbuf[j]) + n + 1 < RxSize
    BY <1>6, <2>1 DEF RoomFor, RxRsr
  <2>3. Len(rxbuf[j]) + Len(d) <= Room
    <3> DEFINE b == Len(rxbuf[j])
               m == Len(d)
    <3>1. m = n + 1 /\ b \in Nat /\ b + n + 1 < RxSize
      BY <1>5, <1>6, <2>2
    <3> HIDE DEF b, m
    <3>2. b + m <= Room
      BY <1>5, <3>1 DEF Room, MaxOf
    <3> QED
      BY <3>2 DEF b, m
  <2> QED
    BY <1>2, <1>6, <2>3, HoldsDatagram
<1>7. CASE ApplyStale(e) \/ ApplySendDone(e)
  BY <1>4, <1>7 DEF ApplyStale, ApplySendDone
<1>8. CASE ApplyStatus(e)
  BY <1>8, StatusHolds
<1>9. CASE ApplyRxTcp(e)
  <2>1. CASE e.sock = j
    BY <1>9, <2>1, RxTcpHolds
  <2>2. CASE e.sock # j
    <3>1. rxbuf'[j] = rxbuf[j] /\ rxpend'[j] = rxpend[j] /\ credit' = credit /\ sr' = sr
      BY <1>3, <1>9, <2>2 DEF ApplyRxTcp
    <3> QED
      BY <1>4, <3>1
  <2> QED
    BY <2>1, <2>2
<1>10. CASE ApplyRxUdp(e)
  <2>1. sr' = sr /\ rxpend' = rxpend /\ credit' = credit /\ e.evt = "RxUdp" /\ ~Stale(e)
    BY <1>10 DEF ApplyRxUdp
  <2>2. CASE e.sock = j /\ RoomFor(j, Len(e.data))
    <3> DEFINE d == <<HeaderCell>> \o e.data
    <3>1. rxbuf'[j] = rxbuf[j] \o d
      BY <1>3, <1>10, <2>2 DEF ApplyRxUdp
    <3>2. e.data \in Seq(Byte) /\ e.data # << >> /\ Len(e.data) \in Nat
      BY <1>3, <2>1, EventData, LenProperties
    <3>3. d \in Seq(Cell) /\ Len(d) = Len(e.data) + 1 /\ WholeCells(d)
      BY <3>2, WholeDatagram
    <3>4. 1 \in Told(j) /\ evt[1] = e
      <4>1. e.gen = gen[j]
        BY <2>1, <2>2 DEF Stale
      <4> QED
        BY <1>1, <1>2, <2>1, <2>2, <4>1, AppliedEvent DEF Told, Oldest, Types
    <3>5. Phase(j) = "datagram"
      BY <2>1, <3>4, PhaseCases DEF ProtocolOk, Heard
    <3> HIDE DEF d
    <3> QED
      BY <1>6, <2>1, <2>2, <3>1, <3>2, <3>3, <3>5
  <2>3. CASE ~(e.sock = j /\ RoomFor(j, Len(e.data)))
    <3>1. rxbuf'[j] = rxbuf[j]
      BY <1>3, <1>10, <2>3 DEF ApplyRxUdp
    <3> QED
      BY <1>4, <2>1, <3>1
  <2> QED
    BY <2>2, <2>3
<1>11. CASE ApplyMacRaw(e)
  <2> DEFINE d == <<HeaderCell, RawCell>>
             Takes(i) == IpRawTakes(i, e) \/ MacRawTakes(i, e)
  <2>1. sr' = sr /\ rxpend' = rxpend /\ credit' = credit
    BY <1>11 DEF ApplyMacRaw
  <2>4. \/ rxbuf' = rxbuf
        \/ \E i \in Sock : Takes(i) /\ rxbuf' = [rxbuf EXCEPT ![i] = @ \o d]
    BY <1>11 DEF ApplyMacRaw
  <2>2. CASE Takes(j) /\ rxbuf' = [rxbuf EXCEPT ![j] = @ \o d]
    <3>1. rxbuf'[j] = rxbuf[j] \o d
      BY <1>3, <2>2
    <3>2. RoomFor(j, 1) /\ sr[j] \in {"IPRAW", "MACRAW"}
      BY <2>2 DEF IpRawTakes, MacRawTakes
    <3>3. Phase(j) = "datagram"
      BY <1>2, <3>2, PhaseCases DEF Opening, Headed
    <3>4. d \in Seq(Cell) /\ Len(d) = 1 + 1 /\ WholeCells(d)
      <4>1. WholeCells(d)
        BY WholeBytes
      <4>2. HeaderCell \in Cell /\ RawCell \in Cell
        BY ByteCells
      <4> QED
        BY <4>1, <4>2
    <3> HIDE DEF d, Takes
    <3> QED
      BY <1>6, <2>1, <3>1, <3>2, <3>3, <3>4
  <2>3. CASE ~(Takes(j) /\ rxbuf' = [rxbuf EXCEPT ![j] = @ \o d])
    <3> HIDE DEF d, Takes
    <3>1. rxbuf'[j] = rxbuf[j]
      BY <1>3, <2>3, <2>4
    <3> QED
      BY <1>4, <2>1, <3>1
  <2> QED
    BY <2>2, <2>3
<1> QED
  BY <1>7, <1>8, <1>9, <1>10, <1>11

LEMMA CommandHolds ==
    ASSUME Types, Types', GenOrder, HostState, SavedFits, NEW i \in Sock, Command(i), UNCHANGED Receiver,
           NEW j \in Sock, ProtocolOk(j), Holds(j)
    PROVE  Holds(j)'
<1>0. /\ GenerationOrder /\ sr \in [Sock -> Status] /\ credit \in [Sock -> Int]
      /\ rxbuf \in [Sock -> Seq(Cell)] /\ rxpend \in [Sock -> Seq(Cell)] /\ gen \in [Sock -> 1 .. MaxGen]
  BY DEF GenOrder, Types, ChipTypes, RingTypes
<1>1. Len(rxbuf[j]) <= Room /\ WholeCells(rxbuf[j]) /\ rxpend[j] = << >>
  BY DEF Holds, Fits
<1>2. CASE (\E p \in Protocol : WriteMR(i, p)) \/ WriteIR(i) \/ SendKeep(i) \/ Send(i)
  <2>1. UNCHANGED <<sr, gen, evt, credit, rxbuf, rxpend>>
    BY <1>2 DEF WriteMR, WriteIR, SendKeep, Send
  <2> QED
    BY <2>1, HoldsSame
<1>3. CASE (Listen(i) /\ ListenBound(i)) \/ Connect(i)
  <2>1. /\ UNCHANGED <<gen, evt, credit, rxbuf, rxpend>> /\ sr[i] = "INIT"
        /\ sr' = [sr EXCEPT ![i] = "LISTEN"] \/ sr' = [sr EXCEPT ![i] = "SYNSENT"]
    BY <1>3 DEF Listen, ListenBound, Connect, InitTcp
  <2>2. sr'[j] \notin Headed => sr[j] \notin Headed
    BY <1>0, <2>1 DEF Headed
  <2> QED
    BY <2>1, <2>2, HoldsSame
<1>4. ASSUME NEW g, NEW rs, Renewal(i, g, rs), evt' = evt,
             \A l \in Sock \ {i} : rxbuf'[l] = rxbuf[l] /\ rxpend'[l] = rxpend[l] /\ sr'[l] = sr[l],
             rxpend'[i] = << >>, Len(rxbuf'[i]) <= Room, WholeCells(rxbuf'[i])
      PROVE  Holds(j)'
  <2>1. g > gen[i] /\ gen' = [gen EXCEPT ![i] = g] /\ credit' = [credit EXCEPT ![i] = 0]
    BY <1>4, RenewedRequests DEF Renewal
  <2>2. CASE j = i
    <3>1. gen'[j] > gen[j] /\ credit'[j] = 0
      BY <1>0, <2>1, <2>2
    <3> QED
      BY <1>0, <1>4, <2>2, <3>1, HoldsFresh
  <2>3. CASE j # i
    <3>1. gen'[j] = gen[j] /\ credit'[j] = credit[j]
      BY <1>0, <2>1, <2>3
    <3> QED
      BY <1>4, <2>3, <3>1, HoldsSame
  <2> QED
    BY <2>2, <2>3
<1>5. CASE OpenClose(i) \/ Discon(i) \/ Close(i) \/ (Listen(i) /\ ListenRefused(i))
  <2>1. /\ GenLeft(i) /\ evt' = evt /\ rxbuf' = rxbuf /\ rxpend' = [rxpend EXCEPT ![i] = << >>]
        /\ \E how \in {"Close", "CloseHost"} : CloseHost(i, gen[i] + 1, how)
    BY <1>5 DEF OpenClose, Discon, Close, Listen, ListenRefused, CloseHost
  <2>2. sr' = sr \/ sr' = [sr EXCEPT ![i] = "CLOSED"]
    BY <1>5 DEF OpenClose, Discon, Close, Listen, ListenRefused
  <2>3. \E g, rs : Renewal(i, g, rs)
    BY <2>1, CloseHostRenewal
  <2>4. /\ \A l \in Sock \ {i} : rxbuf'[l] = rxbuf[l] /\ rxpend'[l] = rxpend[l] /\ sr'[l] = sr[l]
        /\ rxpend'[i] = << >>
    BY <1>0, <2>1, <2>2
  <2>5. CASE j = i
    BY <1>1, <1>4, <2>1, <2>3, <2>4, <2>5
  <2>6. CASE j # i
    <3>1. /\ credit' = [credit EXCEPT ![i] = 0] /\ gen' = [gen EXCEPT ![i] = gen[i] + 1]
      BY <2>1 DEF CloseHost
    <3>2. credit'[j] = credit[j] /\ gen'[j] = gen[j]
      BY <1>0, <2>6, <3>1
    <3> QED
      BY <2>1, <2>4, <2>6, <3>2, HoldsSame
  <2> QED
    BY <2>5, <2>6
<1>6. CASE OpenFinish(i)
  <2>1. CASE j = i
    BY <1>6, <2>1, OpenHolds DEF Holds
  <2>2. CASE j # i
    <3>1. /\ UNCHANGED <<gen, evt, rxpend>> /\ sr'[j] = sr[j] /\ rxbuf'[j] = rxbuf[j]
          /\ credit'[j] = credit[j]
      BY <1>0, <1>6, <2>2 DEF OpenFinish
    <3> QED
      BY <3>1, HoldsSame
  <2> QED
    BY <2>1, <2>2
<1>7. CASE \E k \in 1 .. RxSize : Recv(i, k)
  <2>1. PICK k \in 1 .. RxSize : Recv(i, k)
    BY <1>7
  <2>2. CASE j = i
    BY <2>1, <2>2, RecvHolds
  <2>3. CASE j # i
    <3>1. /\ UNCHANGED <<gen, evt, sr>> /\ rxbuf'[j] = rxbuf[j] /\ rxpend'[j] = rxpend[j]
          /\ credit'[j] = credit[j]
      BY <1>0, <2>1, <2>3 DEF Recv
    <3> QED
      BY <3>1, HoldsSame
  <2> QED
    BY <2>2, <2>3
<1>8. CASE Restore(i)
  <2>1. PICK g, rs : RestoredAs(i, g, rs)
    BY <1>8, RestoreRenews
  <2>2. Renewal(i, g, rs) /\ \A l \in Sock \ {i} : sr'[l] = sr[l]
    BY <1>0, <2>1 DEF RestoredAs
  <2>3. saved # << >> /\ evt' = evt /\ rxbuf' = [rxbuf EXCEPT ![i] = saved[1].rxbuf[i]]
    BY <1>8, RestoreGen DEF Restore
  <2>4. \/ rxpend' = [rxpend EXCEPT ![i] = saved[1].rxpend[i]]
        \/ rxpend' = [rxpend EXCEPT ![i] = << >>]
    BY <1>8 DEF Restore, RestoreLost, RestoreOpen, RestoreListen, RestoreOther, CloseHost
  <2>5. saved[1].rxpend[i] = << >> /\ Len(saved[1].rxbuf[i]) <= Room /\ WholeCells(saved[1].rxbuf[i])
    BY <2>3 DEF SavedFits
  <2>6. rxpend' = [rxpend EXCEPT ![i] = << >>]
    BY <2>4, <2>5
  <2>7. /\ \A l \in Sock \ {i} : rxbuf'[l] = rxbuf[l] /\ rxpend'[l] = rxpend[l]
        /\ rxpend'[i] = << >> /\ rxbuf'[i] = saved[1].rxbuf[i]
    BY <1>0, <2>3, <2>6
  <2> QED
    BY <1>4, <2>2, <2>3, <2>5, <2>7
<1> QED
  BY <1>2, <1>3, <1>5, <1>6, <1>7, <1>8 DEF Command, Listen

LEMMA ChipHolds ==
    ASSUME Types, Types', GenOrder, HostState, SavedFits, ChipNext \/ StopJoin, UNCHANGED Receiver,
           NEW j \in Sock, ProtocolOk(j), Holds(j)
    PROVE  Holds(j)'
<1>1. CASE \E i \in Sock : Command(i)
  BY <1>1, CommandHolds
<1>2. CASE Reset
  <2>1. gen[j] \in Nat
    BY WorkerParts
  <2>2. gen'[j] > gen[j] /\ evt' = evt /\ credit'[j] = 0 /\ rxpend'[j] = << >> /\ rxbuf'[j] = << >>
    BY <1>2, <2>1 DEF Reset
  <2>3. Len(rxbuf'[j]) <= Room /\ WholeCells(rxbuf'[j])
    BY <2>2, WholeBytes, EmptySeq, SizeFacts
  <2> QED
    BY <2>2, <2>3, HoldsFresh DEF GenOrder
<1>3. CASE TickBegin
  <2>1. rxbuf[j] \in Seq(Cell) /\ rxpend[j] \in Seq(Cell) /\ rxpend[j] = << >>
    BY DEF Types, ChipTypes, Holds, Fits
  <2> DEFINE f == Flushed(j, rxbuf[j], rxpend[j])
  <2>2. rxbuf'[j] = f.buf /\ rxpend'[j] = f.pend /\ UNCHANGED <<gen, evt, sr, credit>>
    BY <1>3 DEF TickBegin
  <2>3. f.buf = rxbuf[j] /\ f.pend = << >>
    BY <2>1, FlushedFacts
  <2> HIDE DEF f
  <2> QED
    BY <2>1, <2>2, <2>3, HoldsSame
<1>4. CASE TickEnd \/ Snapshot \/ RestoreBegin \/ Stop \/ StopJoin
  <2>1. UNCHANGED <<gen, sr, evt, credit, rxbuf, rxpend>>
    BY <1>4 DEF TickEnd, Snapshot, RestoreBegin, Stop, StopJoin
  <2> QED
    BY <2>1, HoldsSame
<1>5. CASE ApplyEvent
  <2>1. PICK e : \/ ApplyStale(e) \/ ApplyStatus(e) \/ ApplyRxTcp(e)
                 \/ ApplyRxUdp(e) \/ ApplyMacRaw(e) \/ ApplySendDone(e)
    BY <1>5 DEF ApplyEvent
  <2> QED
    BY <2>1, ApplyHolds
<1> QED
  BY <1>1, <1>2, <1>3, <1>4, <1>5 DEF ChipNext

LEMMA ChipSaved ==
    ASSUME SavedFits, ChipNext \/ StopJoin, \A i \in Sock : Holds(i)
    PROVE  SavedFits'
<1>1. CASE Snapshot
  <2>1. saved'[1].rxbuf = rxbuf /\ saved'[1].rxpend = rxpend
    BY <1>1 DEF Snapshot
  <2>2. \A i \in Sock : rxpend[i] = << >> /\ Len(rxbuf[i]) <= Room /\ WholeCells(rxbuf[i])
    BY DEF Holds, Fits
  <2> QED
    BY <2>1, <2>2 DEF SavedFits
<1>2. CASE saved' = saved
  BY <1>2 DEF SavedFits
<1>3. CASE \E i \in Sock : Command(i)
  <2>1. PICK i \in Sock : Command(i)
    BY <1>3
  <2>2. saved' = saved
    BY <2>1 DEF Command, WriteMR, WriteIR, OpenClose, OpenFinish, Listen, Connect, Discon, Close, Send,
       SendKeep, Recv, Restore
  <2> QED
    BY <1>2, <2>2
<1>4. CASE ApplyEvent
  <2>1. saved' = saved
    BY <1>4 DEF ApplyEvent, ApplyStale, ApplyStatus, ApplyRxTcp, ApplyRxUdp, ApplyMacRaw, ApplySendDone,
       Applying
  <2> QED
    BY <1>2, <2>1
<1>5. CASE Reset \/ TickBegin \/ TickEnd \/ RestoreBegin \/ Stop \/ StopJoin
  <2>1. saved' = saved
    BY <1>5 DEF Reset, TickBegin, TickEnd, RestoreBegin, Stop, StopJoin
  <2> QED
    BY <1>2, <2>1
<1> QED
  BY <1>1, <1>3, <1>4, <1>5 DEF ChipNext

-----------------------------------------------------------------------------
(* The inductive invariant.                                                *)

LEMMA InvStart == Init => CardInv
<1> SUFFICES ASSUME Init PROVE CardInv
  OBVIOUS
<1>1. Types /\ GenOrder
  BY InitOrder
<1>2. /\ evt = << >> /\ wpc = "top" /\ wgot = << >> /\ saved = << >> /\ emu = <<"idle", 0>>
      /\ sr = [i \in Sock |-> "CLOSED"] /\ gen = [i \in Sock |-> 1] /\ wgen = [i \in Sock |-> 0]
      /\ wfd = [i \in Sock |-> "none"] /\ wst = [i \in Sock |-> "CLOSED"]
      /\ rxbuf = [i \in Sock |-> << >>] /\ rxpend = [i \in Sock |-> << >>] /\ credit = [i \in Sock |-> 0]
  BY DEF Init, ChipInit, NetInit
<1>3. Len(<< >>) = 0
  BY EmptySeq
<1>4. HostState
  BY <1>2 DEF HostState
<1>5. SavedFits
  BY <1>2 DEF SavedFits
<1>6. ASSUME NEW i \in Sock PROVE ProtocolOk(i)
  <2>1. ~AtWork(i) /\ Told(i) = {} /\ Phase(i) = "stream"
    BY <1>2, <1>3 DEF AtWork, Told, Phase, Opening, Headed
  <2>2. \A k \in Current(i) : req[k].msg = "CloseHost"
    BY InitRequests DEF Current
  <2>3. "CloseHost" \in MayAsk("stream")
    BY PhaseCases DEF Message, DefinesGen
  <2> QED
    BY <2>1, <2>2, <2>3 DEF ProtocolOk, Asked, Heard, Working, Once
<1>7. ASSUME NEW i \in Sock PROVE Fits(i) /\ WholeCells(rxbuf[i])
  <2>1. InRing(i) = << >>
    <3>1. evt \in Seq(Happened) /\ Len(evt) = 0
      BY <1>1, <1>2, <1>3 DEF Types, RingTypes
    <3>2. \A k \in 1 .. Len(evt) : evt[k].evt = "RxTcp" /\ evt[k].sock = i => evt[k].gen # gen[i]
      BY <3>1
    <3>3. AllCarried(evt, i, gen[i]) = << >>
      BY <3>1, <3>2, CarriedNone
    <3> QED
      BY <3>3 DEF InRing
  <2>2. InHand(i) = << >>
    BY <1>2 DEF InHand
  <2>3. Len(OnTheWay(i)) = 0
    BY <1>1, <1>3, <2>1, <2>2, WayLength DEF WayOk
  <2>4. rxbuf[i] = << >> /\ rxpend[i] = << >> /\ credit[i] = 0 /\ Room \in Nat
    BY <1>2, SizeFacts
  <2>5. Len(rxbuf[i]) + Len(OnTheWay(i)) + MaxOf(credit[i], 0) <= Room /\ Len(rxbuf[i]) <= Room
    BY <1>3, <2>3, <2>4 DEF MaxOf
  <2> QED
    BY <1>2, <2>4, <2>5, WholeBytes DEF Fits
<1> QED
  BY <1>1, <1>4, <1>5, <1>6, <1>7 DEF CardInv

LEMMA InvStep == CardInv /\ [Next]_vars => CardInv'
<1> SUFFICES ASSUME CardInv, [Next]_vars PROVE CardInv'
  OBVIOUS
<1>1. /\ Types /\ GenOrder /\ HostState /\ SavedFits /\ \A i \in Sock : ProtocolOk(i) /\ Holds(i)
  BY DEF CardInv, Holds
<1>2. Types' /\ GenOrder'
  BY <1>1, OrderStep
<1>3. SUFFICES HostState' /\ SavedFits' /\ \A i \in Sock : ProtocolOk(i)' /\ Holds(i)'
  BY <1>2 DEF CardInv, Holds
<1>4. CASE (ChipNext \/ StopJoin) /\ UNCHANGED <<workVars, hostVars>>
  <2>1. UNCHANGED <<wpc, wi, wgen, wfd, wst, wcred, wgot>>
    BY <1>4 DEF workVars
  <2>2. UNCHANGED Receiver /\ wgen' = wgen /\ wst' = wst
    BY <2>1 DEF Receiver
  <2>3. HostState'
    BY <1>1, <2>1 DEF HostState
  <2>4. SavedFits'
    BY <1>1, <1>4, ChipSaved
  <2>5. ASSUME NEW i \in Sock PROVE ProtocolOk(i)' /\ Holds(i)'
    <3>1. ProtocolOk(i)'
      BY <1>1, <1>4, <2>2, ChipProtocol
    <3>2. Holds(i)'
      BY <1>1, <1>2, <1>4, <2>2, ChipHolds
    <3> QED
      BY <3>1, <3>2
  <2> QED
    BY <2>3, <2>4, <2>5
<1>5. CASE (WorkerNext \/ PeerNext) /\ UNCHANGED chipVars
  <2>1. UNCHANGED <<emu, sr, gen, rxbuf, rxpend, saved>>
    BY <1>5 DEF chipVars
  <2>2. HostState'
    BY <1>1, <1>5, HostStateStep
  <2>3. SavedFits'
    BY <1>1, <2>1 DEF SavedFits
  <2>4. ASSUME NEW i \in Sock PROVE ProtocolOk(i)' /\ Holds(i)'
    <3>1. req' = req \/ (req # << >> /\ req' = Tail(req))
      BY <1>5, WorkerRequests
    <3>2. Keeps(i) \/ Streams(i) \/ Receives(i) \/ Defines(i)
      BY <1>1, <1>5, WorkerEffect
    <3>3. ProtocolOk(i)'
      BY <1>1, <1>2, <2>1, <3>1, <3>2, EffectProtocol
    <3>4. Fits(i)'
      BY <1>1, <1>2, <1>5, <2>1, <2>2, WorkerFits DEF Holds
    <3> QED
      BY <1>1, <2>1, <3>3, <3>4 DEF Holds
  <2> QED
    BY <2>2, <2>3, <2>4
<1>6. CASE UNCHANGED vars
  <2>1. UNCHANGED <<emu, sr, gen, rxbuf, rxpend, saved, req, evt, credit>>
    BY <1>6 DEF vars, chipVars
  <2>2. UNCHANGED <<wpc, wi, wgen, wfd, wst, wcred, wgot>>
    BY <1>6 DEF vars, workVars
  <2>3. HostState' /\ SavedFits'
    BY <1>1, <2>1, <2>2 DEF HostState, SavedFits
  <2>4. ASSUME NEW i \in Sock PROVE ProtocolOk(i)' /\ Holds(i)'
    <3>1. Holds(i)'
      BY <1>1, <1>2, <2>1, <2>2, HoldsSame DEF Receiver
    <3>2. Phase(i)' = Phase(i) /\ NothingAsked(i)
      BY <2>1, SamePhase DEF Opening, NothingAsked
    <3>3. ProtocolOk(i)'
      BY <1>1, <2>1, <2>2, <3>2, OthersProtocol
    <3> QED
      BY <3>1, <3>3
  <2> QED
    BY <2>3, <2>4
<1> QED
  BY <1>4, <1>5, <1>6 DEF Next, Emulator, Worker, Peer, Stopped, StopJoin

-----------------------------------------------------------------------------
(* The types of all of the card's state hold, whatever commands, events    *)
(* and host results come in whatever order: no ring exceeds its capacity,  *)
(* no socket's received bytes its buffer, and a restore never takes a      *)
(* socket past its last generation.                                        *)
THEOREM CardType == Spec => []TypeOK
<1>1. CardInv => TypeOK
  <2> SUFFICES ASSUME CardInv
               PROVE  TypeOK
    OBVIOUS
  <2>1. Types
    BY DEF CardInv
  <2>2. ASSUME NEW i \in Sock PROVE Len(rxbuf[i]) + Len(rxpend[i]) <= RxSize
    <3>1. rxpend[i] = << >> /\ Len(rxbuf[i]) <= Room /\ Len(rxbuf[i]) \in Nat
      BY <2>1, LenProperties DEF CardInv, Fits, Types, ChipTypes
    <3>2. Len(rxpend[i]) = 0
      BY <3>1
    <3> QED
      BY <3>1, <3>2, SizeFacts DEF Room, MaxOf
  <2> QED
    BY <2>1, <2>2 DEF Types, ChipTypes, RingTypes, WorkerTypes, TypeOK, Bits
<1>2. Init => CardInv
  BY InvStart
<1>3. CardInv /\ [Next]_vars => CardInv'
  BY InvStep
<1> QED
  BY <1>1, <1>2, <1>3, PTL DEF Spec

(* The worker never has the right to more bytes than the guest's buffer    *)
(* has room for: what OPEN granted and RECV gave back, less what ::recv    *)
(* took, and what is on its way, fit the buffer, whatever CLOSE, OPEN,     *)
(* reset or restore runs between the worker's load of the credit, its      *)
(* ::recv and its post; so ingest_tcp never has to keep bytes back in      *)
(* rx_pending.                                                             *)
THEOREM CreditNeverOverruns == Spec => []CreditFitsBuffer
<1>1. CardInv => CreditFitsBuffer
  <2> SUFFICES ASSUME CardInv, NEW i \in Sock, TcpOpen(i)
               PROVE  /\ rxpend[i] = << >>
                      /\ Len(rxbuf[i]) + Len(OnTheWay(i)) + MaxOf(credit[i], 0) <= MaxOf(RxSize - 1, 0)
    BY DEF CreditFitsBuffer
  <2>1. Fits(i) /\ sr[i] \notin Headed
    BY DEF CardInv, TcpOpen, Headed, Connected
  <2> QED
    BY <2>1 DEF Fits, Room
<1>2. Init => CardInv
  BY InvStart
<1>3. CardInv /\ [Next]_vars => CardInv'
  BY InvStep
<1> QED
  BY <1>1, <1>2, <1>3, PTL DEF Spec

(* A datagram is in the guest's buffer whole or not at all, and the buffer *)
(* is never filled: room_for's test, made before the header and the        *)
(* payload are written, is enough for every mix of datagrams, raw frames,  *)
(* TCP data, partial reads and restored buffers.                           *)
THEOREM DatagramsStayWhole == Spec => []DatagramsWhole
<1>1. CardInv => DatagramsWhole
  BY DEF CardInv, DatagramsWhole, Fits, WholeCells, Room
<1>2. Init => CardInv
  BY InvStart
<1>3. CardInv /\ [Next]_vars => CardInv'
  BY InvStep
<1> QED
  BY <1>1, <1>2, <1>3, PTL DEF Spec
=============================================================================
