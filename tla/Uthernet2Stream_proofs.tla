---------------------- MODULE Uthernet2Stream_proofs -----------------------
(***************************************************************************)
(* Theorems about what the Uthernet II card carries between the guest and  *)
(* its peers: bytes in both directions, datagrams, and the status of a     *)
(* socket.                                                                 *)
(*                                                                         *)
(* A step is first summed up by what it does to one socket's current       *)
(* generation (WorkerMove, ChipMove), with CardInv of Uthernet2_proofs;    *)
(* the invariants are then proved from these summaries alone.              *)
(*                                                                         *)
(*   OrderInv   a generation's requests and answers come in order, and a   *)
(*              generation the worker has yet to open has carried nothing; *)
(*   StatusInv  what the guest will see once it has seen everything told   *)
(*              is what the worker will have once it has done everything   *)
(*              asked, or CLOSED                          StatusAgrees     *)
(*   TxInv      the SENDs in the ring go on where the host's bytes end     *)
(*                                                        TxStreamIntact   *)
(*   SendInv    SEND_OKs counted and told are covered by whole SENDs the   *)
(*              host has had                              SendOkAfterSent  *)
(*   RxInv      buffer, event ring, the worker's hand and the host hold    *)
(*              one run of the peer's bytes               RxStreamIntact   *)
(*   EofInv     the end of the stream is told behind its last bytes        *)
(*                                                     CloseWaitAfterData  *)
(*   UdpInv     datagrams number upwards from the buffer through the ring  *)
(*              to the last the host received             DatagramsFresh   *)
(***************************************************************************)
EXTENDS Uthernet2_proofs

(* What socket j's current generation has asked and not had yet, and what  *)
(* it has been told and not seen yet.                                      *)
Wants(j) == {req[k].msg : k \in Current(j)}
Hears(j) == {<<evt[k].evt, evt[k].cause>> : k \in Told(j)}

Openers == {"OpenTcp", "AdoptListen", "Connect"}
Lasts == {"AdoptListen", "Connect"}
Ends == {"Close", "CloseHost"}
Datagrams == {"OpenUdp", "SendUdp"} \cup RawTx
GoodNews == {<<"Status", "Connected">>, <<"Status", "RemoteClosed">>}
HostStream == {"tcp", "listen"}
Unconnected == {"INIT", "SYNSENT", "LISTEN"}

(* The current generation is that of a TCP socket, on the chip, in a ring  *)
(* or on the host.                                                         *)
IsStream(j) ==
    /\ ~Opening(j)
    /\ \/ sr[j] \in Unconnected \cup Connected
       \/ Wants(j) \cap Openers # {}
       \/ Hears(j) \cap GoodNews # {}
       \/ AtWork(j) /\ wfd[j] \in HostStream

(* The worker has yet to come to it, or to its last opening request.       *)
Young(j) == ~AtWork(j) \/ sr[j] = "INIT" \/ Wants(j) \cap Openers # {}

HostEmpty(j) == hostgot[j] = << >> /\ txp[j] = << >>

Untouched(j) ==
    /\ "SendTcp" \notin Wants(j)
    /\ Hears(j) \subseteq {<<"Status", "Failed">>}
    /\ sr[j] \notin Connected
    /\ txn[j] = 0 /\ sendoks[j] = 0 /\ taken[j] + Len(rxbuf[j]) = 0
    /\ AtWork(j) => wst[j] \in {"CLOSED", "INIT"} /\ HostEmpty(j)

InTurn(j) ==
    \A k, l \in Current(j) :
        /\ req[k].msg \in Lasts => l <= k
        /\ req[k].msg \in Ends => k <= l

(* The order in which a generation's requests and answers come.            *)
Orderly(j) ==
    /\ IsStream(j) => Wants(j) \cap Datagrams = {}
    /\ Opening(j) => Hears(j) = {} /\ (AtWork(j) => HostEmpty(j))
    /\ IsStream(j) /\ Young(j) => Untouched(j)
    /\ sr[j] = "INIT" /\ ~Opening(j) => Wants(j) \cap Lasts = {}
    /\ InTurn(j)
    /\ Wants(j) \cap Ends # {} => ~AtWork(j)
    /\ sr[j] \in {"MACRAW", "IPRAW"} /\ ~Opening(j) =>
          "OpenUdp" \notin Wants(j) /\ (AtWork(j) => wst[j] = "CLOSED")
    /\ \A k \in Current(j) : req[k].msg = "SendTcp" => Len(req[k].data) = TxLen

(* From the test for room in the event ring to the post, the ring has      *)
(* room; and a Shutdown belongs to no generation.                          *)
RingClear ==
    /\ wpc \in {"take", "post"} => Len(evt) < EvtCap
    /\ \A k \in 1 .. Len(req) : req[k].msg = "Shutdown" => req[k].gen = 0

(* Bytes wait at the host, and a peer can send, only on an established     *)
(* connection.                                                             *)
HostClear(j) == AtWork(j) /\ wst[j] # "ESTABLISHED" => kin[j] = << >> /\ peer[j] # "up"

(* SEND_OKs told in generation g of socket i: f counts them along q.       *)
SentOk(e, i, g) == e.sock = i /\ e.gen = g /\ e.evt = "SendDone" /\ e.cause # "Failed"
Once01(b) == IF b THEN 1 ELSE 0

Tallied(f, q, i, g, a, x) ==
    /\ f \in [0 .. Len(q) -> Nat]
    /\ f[0] = a /\ f[Len(q)] = x
    /\ \A k \in 1 .. Len(q) : f[k] = f[k - 1] + Once01(SentOk(q[k], i, g))
    /\ \A k, l \in 0 .. Len(q) : k <= l => f[k] <= f[l]

Tally(q, i, g, a, x) == \E f : Tallied(f, q, i, g, a, x)

-----------------------------------------------------------------------------
(* What a step does to the requests of socket j's current generation:      *)
(* nothing, the oldest is taken, or one is added.                          *)
KeepsAsked(j) ==
    \E a \in {0, 1} :
        /\ \A k \in Current(j)' : k + a \in Current(j) /\ req'[k] = req[k + a]
        /\ \A k \in Current(j) : k - a \in Current(j)'

TakesAsked(j) ==
    /\ 1 \in Current(j)
    /\ \A k \in Current(j)' : k + 1 \in Current(j) /\ req'[k] = req[k + 1]
    /\ \A k \in Current(j) : k # 1 => k - 1 \in Current(j)'

AddsAsked(j, r) ==
    \E n \in Current(j)' :
        /\ req'[n] = r
        /\ \A k \in Current(j)' : k = n \/ (k \in Current(j) /\ req'[k] = req[k])
        /\ \A k \in Current(j) : k \in Current(j)' /\ k < n

(* And to what that generation has been told.                              *)
KeepsTold(j) ==
    \E a \in {0, 1} :
        /\ \A k \in Told(j)' : k + a \in Told(j) /\ evt'[k] = evt[k + a]
        /\ \A k \in Told(j) : k - a \in Told(j)'

TakesTold(j) ==
    /\ 1 \in Told(j)
    /\ \A k \in Told(j)' : k + 1 \in Told(j) /\ evt'[k] = evt[k + 1]
    /\ \A k \in Told(j) : k # 1 => k - 1 \in Told(j)'

AddsTold(j, e) ==
    \E n \in Told(j)' :
        /\ evt'[n] = e
        /\ \A k \in Told(j)' : k = n \/ (k \in Told(j) /\ evt'[k] = evt[k])
        /\ \A k \in Told(j) : k \in Told(j)' /\ k < n

Quiet(j) ==
    /\ KeepsTold(j)
    /\ InRing(j)' = InRing(j)
    /\ \A a, x \in Nat : Tally(evt, j, gen[j], a, x) => Tally(evt', j, gen[j], a, x)

Applies(j, e) ==
    /\ e = evt[1] /\ TakesTold(j)
    /\ InRing(j) = Carried(e, j, gen[j]) \o InRing(j)'
    /\ \A a, x \in Nat : Tally(evt, j, gen[j], a, x) => Tally(evt', j, gen[j], a + Once01(SentOk(e, j, gen[j])), x)

Tells(j, e) ==
    /\ AddsTold(j, e)
    /\ InRing(j)' = InRing(j) \o Carried(e, j, gen[j])
    /\ \A a, x \in Nat : Tally(evt, j, gen[j], a, x) => Tally(evt', j, gen[j], a, x + Once01(SentOk(e, j, gen[j])))

-----------------------------------------------------------------------------
(* The rings.                                                              *)

LEMMA RingFacts ==
    ASSUME Types, NEW j \in Sock
    PROVE  /\ req \in Seq(Requested) /\ evt \in Seq(Happened) /\ Len(req) \in Nat /\ Len(evt) \in Nat
           /\ Len(evt) <= EvtCap /\ Len(req) <= ReqCap /\ EvtCap \in Nat /\ ReqCap \in Nat
           /\ Current(j) \subseteq 1 .. Len(req) /\ Told(j) \subseteq 1 .. Len(evt)
           /\ Current(j) \subseteq Nat \ {0} /\ Told(j) \subseteq Nat \ {0}
           /\ gen[j] \in Nat \ {0} /\ wgen[j] \in Nat
           /\ \A k \in 1 .. Len(req) : req[k] \in Requested
           /\ \A k \in 1 .. Len(evt) : evt[k] \in Happened
<1>1. req \in Seq(Requested) /\ evt \in Seq(Happened) /\ Len(evt) <= EvtCap /\ Len(req) <= ReqCap
  BY DEF Types, RingTypes
<1>2. Len(req) \in Nat /\ Len(evt) \in Nat
  BY <1>1, LenProperties
<1>3. Current(j) \subseteq 1 .. Len(req) /\ Told(j) \subseteq 1 .. Len(evt)
  BY DEF Current, Told
<1>7. gen[j] \in 1 .. MaxGen /\ wgen[j] \in 0 .. MaxGen
  BY DEF Types, ChipTypes, WorkerTypes
<1>4. gen[j] \in Nat \ {0} /\ wgen[j] \in Nat
  BY <1>7, SizeFacts
<1>5. /\ \A k \in 1 .. Len(req) : req[k] \in Requested
      /\ \A k \in 1 .. Len(evt) : evt[k] \in Happened
  BY <1>1, ElementOfSeq
<1>6. Current(j) \subseteq Nat \ {0} /\ Told(j) \subseteq Nat \ {0}
  BY <1>2, <1>3
<1> QED
  BY <1>1, <1>2, <1>3, <1>4, <1>5, <1>6, SizeFacts

LEMMA RingFactsNext ==
    ASSUME Types', NEW j \in Sock
    PROVE  /\ req' \in Seq(Requested) /\ evt' \in Seq(Happened) /\ Len(req') \in Nat /\ Len(evt') \in Nat
           /\ Len(evt') <= EvtCap /\ Len(req') <= ReqCap
           /\ Current(j)' \subseteq 1 .. Len(req') /\ Told(j)' \subseteq 1 .. Len(evt')
           /\ Current(j)' \subseteq Nat \ {0} /\ Told(j)' \subseteq Nat \ {0}
           /\ gen'[j] \in Nat \ {0} /\ wgen'[j] \in Nat
           /\ \A k \in 1 .. Len(req') : req'[k] \in Requested
           /\ \A k \in 1 .. Len(evt') : evt'[k] \in Happened
<1>1. req' \in Seq(Requested) /\ evt' \in Seq(Happened) /\ Len(evt') <= EvtCap /\ Len(req') <= ReqCap
  BY DEF Types, RingTypes
<1>2. Len(req') \in Nat /\ Len(evt') \in Nat
  BY <1>1, LenProperties
<1>3. Current(j)' \subseteq 1 .. Len(req') /\ Told(j)' \subseteq 1 .. Len(evt')
  BY DEF Current, Told
<1>7. gen'[j] \in 1 .. MaxGen /\ wgen'[j] \in 0 .. MaxGen
  BY DEF Types, ChipTypes, WorkerTypes
<1>4. gen'[j] \in Nat \ {0} /\ wgen'[j] \in Nat
  BY <1>7, SizeFacts
<1>5. /\ \A k \in 1 .. Len(req') : req'[k] \in Requested
      /\ \A k \in 1 .. Len(evt') : evt'[k] \in Happened
  BY <1>1, ElementOfSeq
<1>6. Current(j)' \subseteq Nat \ {0} /\ Told(j)' \subseteq Nat \ {0}
  BY <1>2, <1>3
<1> QED
  BY <1>1, <1>2, <1>3, <1>4, <1>5, <1>6

(* The request ring as it was.                                             *)
LEMMA AskedSame ==
    ASSUME Types, NEW j \in Sock, gen'[j] = gen[j], req' = req
    PROVE  KeepsAsked(j)
<1>1. Current(j)' = Current(j) /\ Current(j) \subseteq Nat
  BY RingFacts DEF Current
<1>2. \A k \in Current(j) : k + 0 = k /\ k - 0 = k
  BY <1>1
<1> QED
  BY <1>1, <1>2 DEF KeepsAsked

(* The oldest request taken.                                               *)
LEMMA AskedTail ==
    ASSUME Types, NEW j \in Sock, gen'[j] = gen[j], req # << >>, req' = Tail(req)
    PROVE  IF req[1].sock = j /\ req[1].gen = gen[j] THEN TakesAsked(j) ELSE KeepsAsked(j)
<1>1. /\ Len(req) \in Nat \ {0} /\ Len(req') = Len(req) - 1
      /\ \A k \in 1 .. Len(req') : req'[k] = req[k + 1]
  BY TakenRequest
<1>2. \A k \in Current(j)' : k + 1 \in Current(j) /\ req'[k] = req[k + 1]
  BY <1>1 DEF Current
<1>3. \A k \in Current(j) : k # 1 => k - 1 \in Current(j)'
  <2> SUFFICES ASSUME NEW k \in Current(j), k # 1 PROVE k - 1 \in Current(j)'
    OBVIOUS
  <2>1. k \in 1 .. Len(req) /\ req[k].sock = j /\ req[k].gen = gen[j]
    BY DEF Current
  <2>2. k - 1 \in 1 .. Len(req') /\ (k - 1) + 1 = k
    BY <1>1, <2>1
  <2>3. req'[k - 1] = req[k]
    BY <1>1, <2>2
  <2> QED
    BY <2>1, <2>2, <2>3 DEF Current
<1>4. 1 \in Current(j) <=> req[1].sock = j /\ req[1].gen = gen[j]
  BY <1>1 DEF Current
<1> QED
  BY <1>2, <1>3, <1>4 DEF TakesAsked, KeepsAsked

(* Requests that are none of this generation's added.                      *)
LEMMA AskedOthers ==
    ASSUME Types, NEW j \in Sock, gen'[j] = gen[j], Len(req') \in Nat, Len(req') >= Len(req),
           \A k \in 1 .. Len(req) : req'[k] = req[k],
           \A k \in 1 .. Len(req') : k > Len(req) => ~(req'[k].sock = j /\ req'[k].gen = gen[j])
    PROVE  KeepsAsked(j)
<1>1. Len(req) \in Nat /\ Current(j) \subseteq Nat
  BY RingFacts
<1>2. Current(j)' = Current(j) /\ \A k \in Current(j) : req'[k] = req[k]
  BY <1>1 DEF Current
<1>3. \A k \in Current(j) : k + 0 = k /\ k - 0 = k
  BY <1>1
<1> QED
  BY <1>2, <1>3 DEF KeepsAsked

(* One request of this generation offered to the ring.                     *)
LEMMA AskedMore ==
    ASSUME Types, NEW j \in Sock, gen'[j] = gen[j], NEW r \in Requested,
           r.sock = j, r.gen = gen[j], Post(j, gen[j], <<r>>)
    PROVE  \/ AddsAsked(j, r) /\ reqLost' = reqLost
           \/ KeepsAsked(j) /\ reqLost'[j] = gen[j]
<1>1. OneMore(req', Requested, req, r, ReqCap) /\ ReqCap \in Nat /\ Len(req) \in Nat /\ Len(req) <= ReqCap
  BY PostOne, RingFacts, SizeFacts DEF Types
<1>2. CASE Len(req) = ReqCap
  <2>1. Len(req) + Len(<<r>>) > ReqCap
    BY <1>1, <1>2
  <2>2. reqLost' = [reqLost EXCEPT ![j] = gen[j]] /\ reqLost \in [Sock -> Nat]
    BY <2>1 DEF Post, Types, RingTypes
  <2>3. KeepsAsked(j)
    <3>1. Len(req') = Len(req) /\ \A k \in 1 .. Len(req) : req'[k] = req[k]
      BY <1>1, <1>2 DEF OneMore
    <3> QED
      BY <1>1, <3>1, AskedOthers
  <2> QED
    BY <2>2, <2>3
<1>3. CASE Len(req) < ReqCap
  <2> DEFINE n == Len(req) + 1
  <2>1. ~(Len(req) + Len(<<r>>) > ReqCap)
    BY <1>1, <1>3
  <2>2. reqLost' = reqLost
    BY <2>1 DEF Post
  <2>3. Len(req') = n /\ (\A k \in 1 .. Len(req) : req'[k] = req[k]) /\ req'[n] = r
    BY <1>1, <1>3 DEF OneMore
  <2>4. \A k \in Current(j)' : k = n \/ (k \in Current(j) /\ req'[k] = req[k])
    BY <1>1, <2>3 DEF Current
  <2>5. \A k \in Current(j) : k \in Current(j)' /\ k < n
    BY <1>1, <2>3 DEF Current
  <2>6. n \in Current(j)'
    BY <1>1, <2>3 DEF Current
  <2> QED
    BY <2>2, <2>3, <2>4, <2>5, <2>6 DEF AddsAsked
<1> QED
  BY <1>1, <1>2, <1>3

(* The count of SEND_OKs along the event ring.                             *)
LEMMA TallyMore ==
    ASSUME NEW q \in Seq(Happened), NEW r \in Seq(Happened), Len(r) = Len(q) + 1,
           \A k \in 1 .. Len(q) : r[k] = q[k], NEW f, NEW i, NEW g, NEW a \in Nat, NEW x \in Nat,
           Tallied(f, q, i, g, a, x)
    PROVE  \E h : Tallied(h, r, i, g, a, x + Once01(SentOk(r[Len(r)], i, g)))
<1> DEFINE n == Len(q)
           d == Once01(SentOk(r[Len(r)], i, g))
           h == [k \in 0 .. n + 1 |-> IF k <= n THEN f[k] ELSE x + d]
<1>1. n \in Nat /\ Len(r) = n + 1
  BY LenProperties
<1>2. /\ f \in [0 .. n -> Nat] /\ f[0] = a /\ f[n] = x
      /\ \A k \in 1 .. n : f[k] = f[k - 1] + Once01(SentOk(q[k], i, g))
      /\ \A k, l \in 0 .. n : k <= l => f[k] <= f[l]
  BY DEF Tallied
<1>3. d \in Nat
  BY DEF Once01
<1>4. \A k \in 1 .. n : Once01(SentOk(q[k], i, g)) = Once01(SentOk(r[k], i, g))
  OBVIOUS
<1>5. Once01(SentOk(r[n + 1], i, g)) = d
  BY <1>1
<1> HIDE DEF n, d
<1>6. h \in [0 .. n + 1 -> Nat]
  BY <1>1, <1>2, <1>3
<1>7. h[0] = a /\ h[n + 1] = x + d
  BY <1>1, <1>2
<1>8. ASSUME NEW k \in 1 .. n + 1
      PROVE  h[k] = h[k - 1] + Once01(SentOk(r[k], i, g))
  <2>1. CASE k \in 1 .. n
    <3>1. h[k] = f[k] /\ h[k - 1] = f[k - 1]
      BY <1>1, <2>1
    <3>2. f[k] = f[k - 1] + Once01(SentOk(r[k], i, g))
      BY <1>2, <1>4, <2>1
    <3> QED
      BY <3>1, <3>2
  <2>2. CASE k = n + 1
    <3>1. h[k] = x + d /\ h[k - 1] = f[n]
      BY <1>1, <2>2
    <3> QED
      BY <1>2, <1>5, <2>2, <3>1
  <2> QED
    BY <1>1, <2>1, <2>2
<1>10. ASSUME NEW k \in 0 .. n + 1, NEW l \in 0 .. n + 1, k <= l PROVE h[k] <= h[l]
  <2>1. CASE l <= n
    <3>1. k \in 0 .. n /\ l \in 0 .. n
      BY <1>1, <1>10, <2>1
    <3> QED
      BY <1>1, <1>2, <1>10, <3>1
  <2>2. CASE k <= n /\ l = n + 1
    <3>0. k \in 0 .. n /\ n \in 0 .. n
      BY <1>1, <2>2
    <3>1. k \in 0 .. n /\ n \in 0 .. n /\ f[k] \in Nat
      BY <1>2, <3>0
    <3>2. f[k] <= x /\ h[k] = f[k] /\ h[l] = x + d
      BY <1>1, <1>2, <2>2, <3>1
    <3> QED
      BY <1>3, <3>1, <3>2
  <2>3. CASE k = n + 1 /\ l = n + 1
    BY <1>3, <1>7, <2>3
  <2> QED
    BY <1>1, <1>10, <2>1, <2>2, <2>3
<1> HIDE DEF h
<1>9. Tallied(h, r, i, g, a, x + d)
  BY <1>1, <1>6, <1>7, <1>8, <1>10 DEF Tallied
<1> QED
  BY <1>9 DEF d

LEMMA TallyTail ==
    ASSUME NEW q \in Seq(Happened), q # << >>, NEW f, NEW i, NEW g, NEW a \in Nat, NEW x \in Nat,
           Tallied(f, q, i, g, a, x)
    PROVE  \E h : Tallied(h, Tail(q), i, g, a + Once01(SentOk(q[1], i, g)), x)
<1> DEFINE n == Len(q)
           r == Tail(q)
           h == [k \in 0 .. n - 1 |-> f[k + 1]]
<1>1. n \in Nat \ {0} /\ Len(r) = n - 1 /\ \A k \in 1 .. n - 1 : r[k] = q[k + 1]
  BY TailFacts
<1>2. /\ f \in [0 .. n -> Nat] /\ f[0] = a /\ f[n] = x
      /\ \A k \in 1 .. n : f[k] = f[k - 1] + Once01(SentOk(q[k], i, g))
      /\ \A k, l \in 0 .. n : k <= l => f[k] <= f[l]
  BY DEF Tallied
<1> HIDE DEF n, r
<1>3. h \in [0 .. n - 1 -> Nat]
  BY <1>1, <1>2
<1>4. f[1] = a + Once01(SentOk(q[1], i, g))
  <2>1. 1 \in 1 .. n /\ 1 - 1 = 0
    BY <1>1
  <2> QED
    BY <1>2, <2>1
<1>5. h[0] = f[1] /\ h[n - 1] = x
  BY <1>1, <1>2
<1>6. ASSUME NEW k \in 1 .. n - 1
      PROVE  h[k] = h[k - 1] + Once01(SentOk(r[k], i, g))
  <2>1. h[k] = f[k + 1] /\ h[k - 1] = f[k]
    BY <1>1
  <2>2. k + 1 \in 1 .. n /\ (k + 1) - 1 = k
    BY <1>1
  <2>3. f[k + 1] = f[k] + Once01(SentOk(q[k + 1], i, g))
    BY <1>2, <2>2
  <2> QED
    BY <1>1, <2>1, <2>3
<1>8. ASSUME NEW k \in 0 .. n - 1, NEW l \in 0 .. n - 1, k <= l PROVE h[k] <= h[l]
  <2>1. k + 1 \in 0 .. n /\ l + 1 \in 0 .. n /\ k + 1 <= l + 1
    BY <1>1, <1>8
  <2> QED
    BY <1>2, <2>1
<1> HIDE DEF h
<1>7. Tallied(h, r, i, g, a + Once01(SentOk(q[1], i, g)), x)
  BY <1>1, <1>3, <1>4, <1>5, <1>6, <1>8 DEF Tallied
<1> QED
  BY <1>7 DEF r

LEMMA TallyNone ==
    ASSUME NEW q \in Seq(Happened), NEW i, NEW g, NEW a \in Nat,
           \A k \in 1 .. Len(q) : ~SentOk(q[k], i, g)
    PROVE  \E f : Tallied(f, q, i, g, a, a)
<1> DEFINE f == [k \in 0 .. Len(q) |-> a]
<1>1. Len(q) \in Nat
  BY LenProperties
<1>2. f \in [0 .. Len(q) -> Nat] /\ f[0] = a /\ f[Len(q)] = a
  BY <1>1
<1>3. \A k \in 1 .. Len(q) : f[k] = f[k - 1] + Once01(SentOk(q[k], i, g))
  BY <1>1 DEF Once01
<1>5. \A k, l \in 0 .. Len(q) : f[k] <= f[l]
  BY <1>1
<1> HIDE DEF f
<1>4. Tallied(f, q, i, g, a, a)
  BY <1>2, <1>3, <1>5 DEF Tallied
<1> QED
  BY <1>4

(* The event ring as it was.                                               *)
LEMMA ToldSame ==
    ASSUME Types, NEW j \in Sock, gen'[j] = gen[j], evt' = evt
    PROVE  Quiet(j)
<1>1. Told(j)' = Told(j) /\ Told(j) \subseteq Nat
  BY RingFacts DEF Told
<1>2. \A k \in Told(j) : k + 0 = k /\ k - 0 = k
  BY <1>1
<1>3. KeepsTold(j)
  BY <1>1, <1>2 DEF KeepsTold
<1>4. InRing(j)' = InRing(j)
  BY DEF InRing
<1>5. \A a, x \in Nat : Tally(evt, j, gen[j], a, x) => Tally(evt', j, gen[j], a, x)
  BY DEF Tally
<1> QED
  BY <1>3, <1>4, <1>5 DEF Quiet

IsTold(e, j) == e.sock = j /\ e.gen = gen[j] /\ e.evt # "MacRawRx"

(* The oldest event taken.                                                 *)
LEMMA ToldTail ==
    ASSUME Types, NEW j \in Sock, gen'[j] = gen[j], evt # << >>, evt' = Tail(evt)
    PROVE  IF IsTold(evt[1], j) THEN Applies(j, evt[1]) ELSE Quiet(j)
<1>0. evt \in Seq(Happened) /\ Len(evt) \in Nat
  BY RingFacts
<1>1. /\ Len(evt) \in Nat \ {0} /\ Len(evt') = Len(evt) - 1
      /\ \A k \in 1 .. Len(evt') : evt'[k] = evt[k + 1]
      /\ evt' \in Seq(Happened) /\ evt[1] \in Happened
  BY <1>0, TailFacts
<1>2. \A k \in Told(j)' : k + 1 \in Told(j) /\ evt'[k] = evt[k + 1]
  BY <1>1 DEF Told
<1>3. \A k \in Told(j) : k # 1 => k - 1 \in Told(j)'
  <2> SUFFICES ASSUME NEW k \in Told(j), k # 1 PROVE k - 1 \in Told(j)'
    OBVIOUS
  <2>1. k \in 1 .. Len(evt) /\ IsTold(evt[k], j)
    BY DEF Told, IsTold
  <2>2. k - 1 \in 1 .. Len(evt') /\ (k - 1) + 1 = k
    BY <1>1, <2>1
  <2>3. evt'[k - 1] = evt[k]
    BY <1>1, <2>2
  <2> QED
    BY <2>1, <2>2, <2>3 DEF Told, IsTold
<1>4. 1 \in Told(j) <=> IsTold(evt[1], j)
  BY <1>1 DEF Told, IsTold
<1>5. InRing(j) = Carried(evt[1], j, gen[j]) \o InRing(j)'
  <2>1. AllCarried(evt, j, gen[j]) = Carried(evt[1], j, gen[j]) \o AllCarried(Tail(evt), j, gen[j])
    BY <1>0, CarriedTail
  <2> QED
    BY <2>1 DEF InRing
<1>6. ASSUME NEW a \in Nat, NEW x \in Nat, Tally(evt, j, gen[j], a, x)
      PROVE  Tally(evt', j, gen[j], a + Once01(SentOk(evt[1], j, gen[j])), x)
  <2>1. PICK f : Tallied(f, evt, j, gen[j], a, x)
    BY <1>6 DEF Tally
  <2>2. \E h : Tallied(h, Tail(evt), j, gen[j], a + Once01(SentOk(evt[1], j, gen[j])), x)
    BY <1>0, <2>1, TallyTail
  <2> QED
    BY <2>2 DEF Tally
<1>7. CASE IsTold(evt[1], j)
  BY <1>2, <1>3, <1>4, <1>5, <1>6, <1>7 DEF Applies, TakesTold
<1>8. CASE ~IsTold(evt[1], j)
  <2>1. KeepsTold(j)
    BY <1>2, <1>3, <1>4, <1>8 DEF KeepsTold
  <2>2. ~(evt[1].evt = "RxTcp" /\ evt[1].sock = j /\ evt[1].gen = gen[j])
        /\ ~SentOk(evt[1], j, gen[j])
    BY <1>8 DEF IsTold, SentOk
  <2>3. Carried(evt[1], j, gen[j]) = << >> /\ Once01(SentOk(evt[1], j, gen[j])) = 0
    BY <2>2 DEF Carried, Once01
  <2>4. InRing(j)' \in Seq(Byte)
    <3>1. AllCarried(evt', j, gen[j]) \in Seq(Byte)
      <4>1. PICK f : CarriedBy(f, evt', j, gen[j])
        BY <1>1, CarriedSteps
      <4>2. Len(evt') \in 0 .. Len(evt')
        BY <1>1
      <4> QED
        BY <4>1, <4>2 DEF CarriedBy
    <3> QED
      BY <3>1 DEF InRing
  <2>5. InRing(j)' = InRing(j)
    BY <1>5, <2>3, <2>4, ConcatEmptySeq
  <2>6. \A a, x \in Nat : Tally(evt, j, gen[j], a, x) => Tally(evt', j, gen[j], a, x)
    <3> TAKE a, x \in Nat
    <3>1. a + 0 = a
      OBVIOUS
    <3> QED
      BY <1>6, <2>3, <3>1
  <2> QED
    BY <1>8, <2>1, <2>5, <2>6 DEF Quiet
<1> QED
  BY <1>7, <1>8

LEMMA OneMoreNone ==
    ASSUME NEW S, NEW q \in Seq(S), NEW p, NEW e, NEW cap \in Nat, OneMore(p, S, q, e, cap), Len(q) = cap
    PROVE  p = q
<1>1. p \in Seq(S) /\ Len(q) \in Nat /\ Len(p) = Len(q) /\ \A k \in 1 .. Len(q) : p[k] = q[k]
  BY DEF OneMore
<1> QED
  BY <1>1, SeqEqual

(* An event posted.                                                        *)
LEMMA ToldMore ==
    ASSUME Types, NEW j \in Sock, gen'[j] = gen[j], NEW e \in Happened, PostEvent(e)
    PROVE  /\ IsTold(e, j) => \/ Tells(j, e) /\ evtLost' = evtLost
                              \/ Quiet(j) /\ evtLost'[j] = gen[j] /\ Len(evt) = EvtCap
           /\ ~IsTold(e, j) => Quiet(j)
<1>0. evt \in Seq(Happened) /\ Len(evt) \in Nat /\ Len(evt) <= EvtCap /\ EvtCap \in Nat
  BY RingFacts
<1>1. OneMore(evt', Happened, evt, e, EvtCap)
  BY PostEventOne DEF Types
<1>2. CASE Len(evt) = EvtCap
  <2>1. evt' = evt
    BY <1>0, <1>1, <1>2, OneMoreNone
  <2>2. Quiet(j)
    BY <2>1, ToldSame
  <2>3. e.sock = j /\ e.gen = gen[j] => evtLost'[j] = gen[j]
    BY <1>2 DEF PostEvent, Types, RingTypes
  <2> QED
    BY <1>2, <2>2, <2>3 DEF IsTold
<1>3. CASE Len(evt) < EvtCap
  <2> DEFINE n == Len(evt) + 1
  <2>1. Len(evt') = n /\ (\A k \in 1 .. Len(evt) : evt'[k] = evt[k]) /\ evt'[n] = e /\ evt' \in Seq(Happened)
    BY <1>0, <1>1, <1>3 DEF OneMore
  <2>2. evtLost' = evtLost
    BY <1>0, <1>3 DEF PostEvent
  <2>3. InRing(j)' = InRing(j) \o Carried(e, j, gen[j])
    <3>1. Grown(evt, evt', j, gen[j])
      BY <1>0, <2>1, CarriedAppend
    <3> QED
      BY <2>1, <3>1 DEF Grown, InRing
  <2>4. ASSUME NEW a \in Nat, NEW x \in Nat, Tally(evt, j, gen[j], a, x)
        PROVE  Tally(evt', j, gen[j], a, x + Once01(SentOk(e, j, gen[j])))
    <3>1. PICK f : Tallied(f, evt, j, gen[j], a, x)
      BY <2>4 DEF Tally
    <3>2. \E h : Tallied(h, evt', j, gen[j], a, x + Once01(SentOk(evt'[Len(evt')], j, gen[j])))
      BY <1>0, <2>1, <3>1, TallyMore
    <3> QED
      BY <2>1, <3>2 DEF Tally
  <2>5. \A k \in Told(j)' : k = n \/ (k \in Told(j) /\ evt'[k] = evt[k])
    BY <1>0, <2>1 DEF Told
  <2>6. \A k \in Told(j) : k \in Told(j)' /\ k < n /\ k + 0 = k /\ k - 0 = k
    BY <1>0, <2>1 DEF Told
  <2>7. n \in Told(j)' <=> IsTold(e, j)
    BY <1>0, <2>1 DEF Told, IsTold
  <2>8. CASE IsTold(e, j)
    <3>1. AddsTold(j, e)
      BY <2>1, <2>5, <2>6, <2>7, <2>8 DEF AddsTold
    <3> QED
      BY <2>2, <2>3, <2>4, <2>8, <3>1 DEF Tells
  <2>9. CASE ~IsTold(e, j)
    <3>1. KeepsTold(j)
      BY <2>5, <2>6, <2>7, <2>9 DEF KeepsTold
    <3>2. ~(e.evt = "RxTcp" /\ e.sock = j /\ e.gen = gen[j]) /\ ~SentOk(e, j, gen[j])
      BY <2>9 DEF IsTold, SentOk
    <3>3. Carried(e, j, gen[j]) = << >> /\ Once01(SentOk(e, j, gen[j])) = 0
      BY <3>2 DEF Carried, Once01
    <3>4. InRing(j) \in Seq(Byte)
      BY WayLength DEF WayOk
    <3>5. InRing(j)' = InRing(j)
      BY <2>3, <3>3, <3>4, ConcatEmptySeq
    <3>6. \A a, x \in Nat : Tally(evt, j, gen[j], a, x) => Tally(evt', j, gen[j], a, x)
      <4> TAKE a, x \in Nat
      <4>1. x + 0 = x
        OBVIOUS
      <4> QED
        BY <2>4, <3>3, <4>1
    <3> QED
      BY <2>9, <3>1, <3>5, <3>6 DEF Quiet
  <2> QED
    BY <2>8, <2>9
<1> QED
  BY <1>0, <1>2, <1>3

-----------------------------------------------------------------------------
(* What a step of the worker or of a peer does to socket j's current       *)
(* generation.                                                             *)

HostSame(j) ==
    /\ wfd'[j] = wfd[j] /\ wst'[j] = wst[j] /\ txp'[j] = txp[j] /\ peer'[j] = peer[j]
    /\ kin'[j] = kin[j] /\ psent'[j] = psent[j] /\ hostgot'[j] = hostgot[j]

(* The worker goes on with the generation, whose news is none.             *)
Silent(j) == Quiet(j) /\ evtLost'[j] = evtLost[j]

(* An event goes into the ring or, when that is full, is lost.             *)
Reports(j, e) ==
    \/ Tells(j, e) /\ evtLost'[j] = evtLost[j]
    \/ Quiet(j) /\ evtLost'[j] = gen[j]

HandSame(j) == InHand(j)' = InHand(j)
HandEmpty(j) == InHand(j) = << >> /\ InHand(j)' = << >>

(* It is left alone, or the worker is still busy with an older generation. *)
Aside(j) ==
    /\ KeepsAsked(j) /\ Quiet(j) /\ (AtWork(j)' <=> AtWork(j))
    /\ AtWork(j) => HostSame(j) /\ HandSame(j) /\ evtLost'[j] = evtLost[j]

(* A request that comes too early or too late.                             *)
Ignored(j) ==
    /\ TakesAsked(j) /\ Silent(j) /\ (AtWork(j)' <=> AtWork(j)) /\ HostSame(j) /\ HandEmpty(j)
    /\ req[1].msg \in {"Connect", "SendTcp", "SendUdp"}
    /\ AtWork(j) /\ req[1].msg # "SendUdp" => wfd[j] \notin HostStream

(* A datagram or a raw frame sent or not.                                  *)
Answered(j) ==
    /\ TakesAsked(j) /\ (AtWork(j)' <=> AtWork(j)) /\ HostSame(j) /\ HandEmpty(j)
    /\ req[1].msg \in {"SendUdp"} \cup RawTx
    /\ \E c \in Cause : Reports(j, Event("SendDone", j, gen[j], c, << >>))

(* A request that starts the generation.                                   *)
Begun(j) ==
    /\ TakesAsked(j) /\ AtWork(j)' /\ HandEmpty(j)
    /\ req[1].msg \in DefinesGen
    /\ txp'[j] = << >> /\ kin'[j] = << >> /\ psent'[j] = 0 /\ hostgot'[j] = << >>
    /\ \/ /\ wst'[j] = Opened(req[1].msg) /\ Silent(j)
          /\ wfd'[j] \in HostStream <=> req[1].msg \in {"OpenTcp", "AdoptListen"}
       \/ /\ req[1].msg \in {"OpenTcp", "OpenUdp"}
          /\ wst'[j] = "CLOSED" /\ wfd'[j] = "none"
          /\ Reports(j, StatusEvent(j, gen[j], "Failed"))

BytesSame(j) == txp'[j] = txp[j] /\ kin'[j] = kin[j] /\ psent'[j] = psent[j] /\ hostgot'[j] = hostgot[j]
Goes(j) == AtWork(j) /\ AtWork(j)'

(* The connection is up.                                                   *)
Rises(j) ==
    /\ Goes(j) /\ BytesSame(j) /\ HandEmpty(j)
    /\ wst'[j] = "ESTABLISHED" /\ wfd'[j] \in HostStream
    /\ Reports(j, StatusEvent(j, gen[j], "Connected"))
    /\ \/ TakesAsked(j) /\ req[1].msg = "Connect" /\ wfd[j] \in HostStream
       \/ KeepsAsked(j) /\ wst[j] \in {"SYNSENT", "LISTEN"}

(* ::connect goes on in the background.                                    *)
Dials(j) ==
    /\ Goes(j) /\ BytesSame(j) /\ HandEmpty(j) /\ Silent(j)
    /\ TakesAsked(j) /\ req[1].msg = "Connect"
    /\ wst'[j] = "SYNSENT" /\ wfd[j] \in HostStream /\ wfd'[j] = wfd[j]

(* The connection is gone.                                                 *)
Dies(j) ==
    /\ Goes(j) /\ HandEmpty(j)
    /\ wst[j] \notin {"CLOSED", "UDP"} /\ wst'[j] = "CLOSED" /\ wfd'[j] = "none"
    /\ txp'[j] = << >> /\ kin'[j] = << >> /\ psent'[j] = 0 /\ hostgot'[j] = hostgot[j]
    /\ \E c \in {"Failed", "Reset"} : Reports(j, StatusEvent(j, gen[j], c))
    /\ \/ KeepsAsked(j) /\ (wst[j] # "INIT" \/ txp[j] # << >>)
       \/ TakesAsked(j) /\ req[1].msg \in {"Connect", "SendTcp"} /\ wfd[j] \in HostStream

(* ::send takes the first n of the bytes b, which are pending or new.      *)
Pushes(j) ==
    /\ Goes(j) /\ HandEmpty(j) /\ wfd[j] \in HostStream
    /\ wfd'[j] = wfd[j] /\ wst'[j] = wst[j] /\ kin'[j] = kin[j] /\ psent'[j] = psent[j]
    /\ \E b \in Seq(Nat) : \E n \in 0 .. Len(b) :
          /\ \/ KeepsAsked(j) /\ b = txp[j] /\ b # << >>
             \/ TakesAsked(j) /\ req[1].msg = "SendTcp" /\ b = txp[j] \o req[1].data
          /\ hostgot'[j] = hostgot[j] \o SubSeq(b, 1, n)
          /\ txp'[j] = SubSeq(b, n + 1, Len(b))
          /\ IF n = Len(b) THEN Reports(j, Event("SendDone", j, gen[j], "None", << >>)) ELSE Silent(j)

(* The three steps of a ::recv that returns bytes, and the end of them.    *)
Gets(j) ==
    /\ Goes(j) /\ KeepsAsked(j) /\ Silent(j)
    /\ wfd'[j] = wfd[j] /\ wst'[j] = wst[j] /\ txp'[j] = txp[j] /\ psent'[j] = psent[j]
    /\ hostgot'[j] = hostgot[j]
    /\ InHand(j) = << >> /\ kin[j] = InHand(j)' \o kin'[j]

Passes(j) ==
    /\ Goes(j) /\ KeepsAsked(j) /\ HostSame(j) /\ wst[j] = "ESTABLISHED"
    /\ InHand(j)' = << >>
    /\ Reports(j, Event("RxTcp", j, gen[j], "None", InHand(j)))
    /\ Len(evt) < EvtCap => Tells(j, Event("RxTcp", j, gen[j], "None", InHand(j)))

Eofs(j) ==
    /\ Goes(j) /\ KeepsAsked(j) /\ BytesSame(j) /\ HandEmpty(j) /\ wfd'[j] = wfd[j]
    /\ wst[j] = "ESTABLISHED" /\ wst'[j] = "CLOSE_WAIT" /\ kin[j] = << >>
    /\ Reports(j, StatusEvent(j, gen[j], "RemoteClosed"))

(* A datagram.                                                             *)
Catches(j) ==
    /\ Goes(j) /\ KeepsAsked(j) /\ HandEmpty(j) /\ wst[j] = "UDP"
    /\ wfd'[j] = wfd[j] /\ wst'[j] = wst[j] /\ txp'[j] = txp[j] /\ kin'[j] = kin[j]
    /\ hostgot'[j] = hostgot[j] /\ psent'[j] = psent[j] + 1
    /\ Reports(j, Event("RxUdp", j, gen[j], "None", <<<<gen[j], psent[j] + 1>>>>))

(* The peer.                                                               *)
PeerWrites(j) ==
    /\ Goes(j) /\ KeepsAsked(j) /\ Silent(j) /\ HandSame(j) /\ peer[j] = "up"
    /\ wfd'[j] = wfd[j] /\ wst'[j] = wst[j] /\ txp'[j] = txp[j] /\ hostgot'[j] = hostgot[j]
    /\ psent'[j] = psent[j] + 1 /\ kin'[j] = Append(kin[j], <<gen[j], psent[j] + 1>>)

PeerLeaves(j) ==
    /\ Goes(j) /\ KeepsAsked(j) /\ Silent(j) /\ HandSame(j) /\ BytesSame(j)
    /\ wfd'[j] = wfd[j] /\ wst'[j] = wst[j]

(* The thread ends.                                                        *)
Finishes(j) ==
    /\ KeepsAsked(j) /\ Silent(j) /\ (AtWork(j)' <=> AtWork(j)) /\ HandEmpty(j)
    /\ wpc' = "done" /\ wfd'[j] = "none" /\ wst'[j] = "CLOSED"
    /\ txp'[j] = << >> /\ kin'[j] = << >> /\ psent'[j] = psent[j] /\ hostgot'[j] = hostgot[j]

-----------------------------------------------------------------------------
(* Every step of the worker and of the peers is one of these.              *)

(* No event.                                                               *)
LEMMA SilentNone ==
    ASSUME Types, NEW j \in Sock, gen'[j] = gen[j], NoEvent
    PROVE  Silent(j)
BY ToldSame DEF Silent, NoEvent

(* An event about socket i in generation g.                                *)
LEMMA EventFor ==
    ASSUME Types, NEW j \in Sock, gen'[j] = gen[j], NEW e \in Happened, PostEvent(e), e.evt # "MacRawRx"
    PROVE  /\ e.sock # j => Silent(j)
           /\ e.gen # gen[j] => Quiet(j)
           /\ e.sock = j /\ e.gen = gen[j] => Reports(j, e)
<1>1. evtLost' = evtLost \/ evtLost' = [evtLost EXCEPT ![e.sock] = e.gen]
  BY DEF PostEvent
<1>2. evtLost \in [Sock -> Nat] /\ e.sock \in Sock
  BY EventData DEF Types, RingTypes
<1>3. e.sock # j => evtLost'[j] = evtLost[j]
  BY <1>1, <1>2
<1>4. IsTold(e, j) <=> e.sock = j /\ e.gen = gen[j]
  BY DEF IsTold
<1>5. /\ IsTold(e, j) => \/ Tells(j, e) /\ evtLost' = evtLost
                         \/ Quiet(j) /\ evtLost'[j] = gen[j] /\ Len(evt) = EvtCap
      /\ ~IsTold(e, j) => Quiet(j)
  BY ToldMore
<1> HIDE DEF Quiet, Tells
<1> QED
  BY <1>3, <1>4, <1>5 DEF Silent, Reports

(* The fields of the events that the worker posts.                         *)
LEMMA EventFields ==
    ASSUME Types, NEW i \in Sock, NEW g \in Nat, NEW c \in Cause
    PROVE  /\ StatusEvent(i, g, c) \in Happened /\ StatusEvent(i, g, c).sock = i
           /\ StatusEvent(i, g, c).gen = g /\ StatusEvent(i, g, c).evt = "Status"
           /\ Event("SendDone", i, g, c, << >>) \in Happened
           /\ Event("SendDone", i, g, c, << >>).sock = i
           /\ Event("SendDone", i, g, c, << >>).gen = g
           /\ Event("SendDone", i, g, c, << >>).evt = "SendDone"
<1>1. Event("Status", i, g, c, << >>) \in Happened /\ Event("SendDone", i, g, c, << >>) \in Happened
  BY EventType
<1> QED
  BY <1>1 DEF StatusEvent, Event

(* A status or an answer about socket i in generation g.                   *)
Posted(i, g, c) == PostEvent(StatusEvent(i, g, c)) \/ PostEvent(Event("SendDone", i, g, c, << >>))

LEMMA PostedFor ==
    ASSUME Types, NEW j \in Sock, gen'[j] = gen[j], NEW i \in Sock, NEW g \in Nat, NEW c \in Cause,
           Posted(i, g, c)
    PROVE  /\ i # j => Silent(j)
           /\ g # gen[j] => Quiet(j)
<1>1. CASE PostEvent(StatusEvent(i, g, c))
  BY <1>1, EventFields, EventFor
<1>2. CASE PostEvent(Event("SendDone", i, g, c, << >>))
  <2>1. Event("SendDone", i, g, c, << >>).evt # "MacRawRx"
    BY EventFields
  <2> QED
    BY <1>2, <2>1, EventFields, EventFor
<1> QED
  BY <1>1, <1>2 DEF Posted

LEMMA StatusFor ==
    ASSUME Types, NEW j \in Sock, gen'[j] = gen[j], NEW c \in Cause, PostEvent(StatusEvent(j, gen[j], c))
    PROVE  Reports(j, StatusEvent(j, gen[j], c))
<1>1. gen[j] \in Nat
  BY RingFacts
<1>2. StatusEvent(j, gen[j], c).evt # "MacRawRx"
  BY <1>1, EventFields
<1> QED
  BY <1>1, <1>2, EventFields, EventFor

LEMMA AnswerFor ==
    ASSUME Types, NEW j \in Sock, gen'[j] = gen[j], NEW c \in Cause,
           PostEvent(Event("SendDone", j, gen[j], c, << >>))
    PROVE  Reports(j, Event("SendDone", j, gen[j], c, << >>))
<1>1. gen[j] \in Nat
  BY RingFacts
<1>2. Event("SendDone", j, gen[j], c, << >>).evt # "MacRawRx"
  BY <1>1, EventFields
<1> QED
  BY <1>1, <1>2, EventFields, EventFor

(* While the worker handles requests it has no bytes in its hands.         *)
LEMMA NoHands ==
    ASSUME HostState, HostState', wpc # "post", wpc' # "post", NEW j
    PROVE  HandEmpty(j) /\ HandSame(j)
BY DEF HostState, HandEmpty, HandSame, InHand

LEMMA AsideWhen ==
    ASSUME NEW j, gen'[j] = gen[j], wgen'[j] = wgen[j], KeepsAsked(j), HostSame(j), HandSame(j), Silent(j)
    PROVE  Aside(j)
BY DEF Aside, AtWork, Silent

LEMMA AsideStale ==
    ASSUME NEW j, KeepsAsked(j), Quiet(j), ~AtWork(j), ~AtWork(j)'
    PROVE  Aside(j)
BY DEF Aside

(* What NewState says, by socket.                                          *)
LEMMA NewStateAt ==
    ASSUME Types, NEW i \in Sock, NEW fd, NEW st, NewState(i, fd, st), NEW j \in Sock
    PROVE  /\ j = i => /\ wfd'[j] = fd /\ wst'[j] = st /\ txp'[j] = << >> /\ peer'[j] = "none"
                       /\ kin'[j] = << >> /\ psent'[j] = 0
           /\ j # i => /\ wfd'[j] = wfd[j] /\ wst'[j] = wst[j] /\ txp'[j] = txp[j]
                       /\ peer'[j] = peer[j] /\ kin'[j] = kin[j] /\ psent'[j] = psent[j]
BY DEF NewState, Types, WorkerTypes

Taken(i, r) == r = req[1] /\ i = r.sock /\ OldestRequest(r, i) /\ req # << >> /\ req' = Tail(req)

LEMMA TakingMoves ==
    ASSUME CardInv, HostState', NEW msgs, "Shutdown" \notin msgs, Taking(msgs), gen' = gen, NEW j \in Sock
    PROVE  /\ Taken(req[1].sock, req[1]) /\ req[1].msg \in msgs /\ Head(req) = req[1]
           /\ HandEmpty(j) /\ HandSame(j)
           /\ IF req[1].sock = j /\ req[1].gen = gen[j] THEN TakesAsked(j) ELSE KeepsAsked(j)
           /\ UNCHANGED <<wpc, wi, reqLost>>
<1>1. Types /\ GenOrder /\ HostState
  BY DEF CardInv
<1>2. OldestRequest(Head(req), Head(req).sock) /\ Head(req).msg \in msgs /\ req # << >> /\ req' = Tail(req)
      /\ UNCHANGED <<wpc, wi, reqLost>>
  BY <1>1, TakingFacts
<1>3. Head(req) = req[1]
  BY <1>2 DEF OldestRequest
<1>4. wpc = "drain"
  BY DEF Taking
<1>5. HandEmpty(j) /\ HandSame(j)
  BY <1>1, <1>2, <1>4, NoHands
<1>6. IF req[1].sock = j /\ req[1].gen = gen[j] THEN TakesAsked(j) ELSE KeepsAsked(j)
  BY <1>1, <1>2, AskedTail
<1> QED
  BY <1>2, <1>3, <1>5, <1>6 DEF Taken

(* A request that starts a generation.                                     *)
LEMMA DefineMoves ==
    ASSUME CardInv, gen' = gen, NEW r, NEW i \in Sock, Taken(i, r), r.msg \in DefinesGen,
           wgen' = [wgen EXCEPT ![i] = r.gen], hostgot' = [hostgot EXCEPT ![i] = << >>],
           NEW fd, NEW st, NewState(i, fd, st),
           \/ NoEvent /\ st = Opened(r.msg) /\ (fd \in HostStream <=> r.msg \in {"OpenTcp", "AdoptListen"})
           \/ /\ PostEvent(StatusEvent(i, r.gen, "Failed"))
              /\ r.msg \in {"OpenTcp", "OpenUdp"} /\ fd = "none" /\ st = "CLOSED",
           NEW j \in Sock, HandEmpty(j), HandSame(j),
           IF r.sock = j /\ r.gen = gen[j] THEN TakesAsked(j) ELSE KeepsAsked(j)
    PROVE  Aside(j) \/ Begun(j)
<1>1. Types /\ r.gen \in Nat /\ r.gen \in wgen[i] .. gen[i] /\ i = r.sock /\ r = req[1]
  BY DEF CardInv, Taken, OldestRequest
<1>2. wgen \in [Sock -> 0 .. MaxGen] /\ hostgot \in [Sock -> Seq(Nat)]
  BY <1>1 DEF Types, WorkerTypes
<1>3. gen[j] \in Nat /\ wgen[j] \in Nat /\ gen'[j] = gen[j] /\ "Failed" \in Cause
  BY <1>1, RingFacts DEF Cause
<1>4. /\ j = i => /\ wfd'[j] = fd /\ wst'[j] = st /\ txp'[j] = << >> /\ peer'[j] = "none"
                  /\ kin'[j] = << >> /\ psent'[j] = 0
      /\ j # i => /\ wfd'[j] = wfd[j] /\ wst'[j] = wst[j] /\ txp'[j] = txp[j]
                  /\ peer'[j] = peer[j] /\ kin'[j] = kin[j] /\ psent'[j] = psent[j]
  BY <1>1, NewStateAt
<1>5. (i # j => Silent(j)) /\ (r.gen # gen[j] => Quiet(j))
  <2>1. CASE NoEvent
    BY <1>1, <1>3, <2>1, SilentNone DEF Silent
  <2>2. CASE PostEvent(StatusEvent(i, r.gen, "Failed"))
    <3>1. Posted(i, r.gen, "Failed")
      BY <2>2 DEF Posted
    <3> QED
      BY <1>1, <1>3, <3>1, PostedFor
  <2> QED
    BY <2>1, <2>2
<1>6. CASE j # i
  <2>1. HostSame(j) /\ wgen'[j] = wgen[j]
    BY <1>2, <1>4, <1>6 DEF HostSame
  <2>2. KeepsAsked(j)
    BY <1>1, <1>6
  <2> QED
    BY <1>3, <1>5, <1>6, <2>1, <2>2, AsideWhen
<1>7. CASE j = i /\ r.gen # gen[j]
  <2>1. wgen[j] # gen[j] /\ wgen'[j] # gen[j]
    BY <1>1, <1>2, <1>3, <1>7
  <2>2. ~AtWork(j) /\ ~AtWork(j)'
    BY <1>3, <2>1 DEF AtWork
  <2>3. KeepsAsked(j)
    BY <1>7
  <2> QED
    BY <1>5, <1>7, <2>2, <2>3, AsideStale
<1>8. CASE j = i /\ r.gen = gen[j]
  <2>1. TakesAsked(j) /\ AtWork(j)' /\ hostgot'[j] = << >>
    BY <1>1, <1>2, <1>3, <1>8 DEF AtWork
  <2>2. NoEvent => Silent(j)
    BY <1>1, <1>3, SilentNone
  <2>3. PostEvent(StatusEvent(i, r.gen, "Failed")) => Reports(j, StatusEvent(j, gen[j], "Failed"))
    BY <1>1, <1>3, <1>8, StatusFor
  <2> HIDE DEF Silent, NoEvent
  <2> QED
    BY <1>1, <1>4, <1>8, <2>1, <2>2, <2>3 DEF Begun
<1> QED
  BY <1>6, <1>7, <1>8

(* flush_tcp_tx on socket i.                                               *)
LEMMA FlushOthers ==
    ASSUME CardInv, gen' = gen, wgen' = wgen, NEW i \in Sock, NEW b \in Seq(Nat), FlushTcpTx(i, b), NEW j \in Sock
    PROVE  /\ i # j => HostSame(j) /\ Silent(j)
           /\ wgen[i] # gen[j] => Quiet(j)
<1>1. Types /\ gen'[j] = gen[j] /\ wgen[i] \in Nat /\ "None" \in Cause /\ "Reset" \in Cause
  BY RingFacts DEF CardInv, Cause
<1>2. hostgot \in [Sock -> Seq(Nat)] /\ txp \in [Sock -> Seq(Nat)]
  BY <1>1 DEF Types, WorkerTypes
<1>3. \/ NoEvent \/ Posted(i, wgen[i], "None") \/ Posted(i, wgen[i], "Reset")
  BY DEF FlushTcpTx, Posted
<1>4. (i # j => Silent(j)) /\ (wgen[i] # gen[j] => Quiet(j))
  BY <1>1, <1>3, SilentNone, PostedFor DEF Silent
<1>5. ASSUME i # j PROVE HostSame(j)
  <2>1. CASE UNCHANGED <<wfd, wst, peer, kin, psent>> /\ hostgot'[j] = hostgot[j] /\ txp'[j] = txp[j]
    BY <2>1 DEF HostSame
  <2>2. CASE CloseState(i) /\ UNCHANGED hostgot
    <3>1. NewState(i, "none", "CLOSED")
      BY <2>2 DEF CloseState
    <3> QED
      BY <1>1, <1>5, <2>2, <3>1, NewStateAt DEF HostSame
  <2>3. ASSUME NEW d, hostgot' = [hostgot EXCEPT ![i] = d] PROVE hostgot'[j] = hostgot[j]
    BY <1>2, <1>5, <2>3
  <2>4. ASSUME NEW d, txp' = [txp EXCEPT ![i] = d] PROVE txp'[j] = txp[j]
    BY <1>2, <1>5, <2>4
  <2> QED
    BY <2>1, <2>2, <2>3, <2>4 DEF FlushTcpTx
<1> QED
  BY <1>4, <1>5

LEMMA FlushMoves ==
    ASSUME CardInv, gen' = gen, wgen' = wgen, NEW j \in Sock, AtWork(j), NEW b \in Seq(Nat), FlushTcpTx(j, b),
           wfd[j] \in HostStream, HandEmpty(j),
           \/ KeepsAsked(j) /\ b = txp[j] /\ b # << >>
           \/ TakesAsked(j) /\ req[1].msg = "SendTcp" /\ b = txp[j] \o req[1].data
    PROVE  Pushes(j) \/ Dies(j)
<1>1. Types /\ gen'[j] = gen[j] /\ wgen[j] = gen[j] /\ "None" \in Cause /\ "Reset" \in Cause /\ Goes(j)
  BY DEF CardInv, Cause, AtWork, Goes
<1>2. hostgot \in [Sock -> Seq(Nat)] /\ txp \in [Sock -> Seq(Nat)]
  BY <1>1 DEF Types, WorkerTypes
<1>3. Len(b) \in Nat /\ SubSeq(b, 1, Len(b)) = b /\ SubSeq(b, Len(b) + 1, Len(b)) = << >>
  <2>1. Len(b) \in Nat
    BY LenProperties
  <2>2. SubSeq(b, 1, Len(b)) = b
    BY SubSeqFull
  <2>3. SubSeq(b, Len(b) + 1, Len(b)) = << >>
    BY <2>1, SubSeqEmpty
  <2> QED
    BY <2>1, <2>2, <2>3
<1>8. Len(b) \in Nat
  BY LenProperties
<1>4. NoEvent => Silent(j)
  BY <1>1, SilentNone
<1>5. CASE /\ hostgot' = [hostgot EXCEPT ![j] = @ \o b]
           /\ txp' = [txp EXCEPT ![j] = << >>]
           /\ PostEvent(Event("SendDone", j, wgen[j], "None", << >>))
           /\ UNCHANGED <<wfd, wst, peer, kin, psent>>
  <2>1. hostgot'[j] = hostgot[j] \o SubSeq(b, 1, Len(b)) /\ txp'[j] = SubSeq(b, Len(b) + 1, Len(b))
    BY <1>2, <1>3, <1>5
  <2>2. Reports(j, Event("SendDone", j, gen[j], "None", << >>))
    BY <1>1, <1>5, AnswerFor
  <2>3. Len(b) \in 0 .. Len(b)
    BY <1>8
  <2> HIDE DEF Reports, Silent, KeepsAsked, TakesAsked
  <2> QED
    BY <1>1, <1>5, <2>1, <2>2, <2>3 DEF Pushes
<1>6. ASSUME NEW n \in 0 .. (Len(b) - 1),
             hostgot' = [hostgot EXCEPT ![j] = @ \o SubSeq(b, 1, n)],
             txp' = [txp EXCEPT ![j] = SubSeq(b, n + 1, Len(b))],
             NoEvent, UNCHANGED <<wfd, wst, peer, kin, psent>>
      PROVE  Pushes(j)
  <2>1. hostgot'[j] = hostgot[j] \o SubSeq(b, 1, n) /\ txp'[j] = SubSeq(b, n + 1, Len(b))
    BY <1>2, <1>6
  <2>2. n \in 0 .. Len(b) /\ n # Len(b)
    BY <1>8
  <2> HIDE DEF Reports, Silent, KeepsAsked, TakesAsked, NoEvent
  <2> QED
    BY <1>1, <1>4, <1>6, <2>1, <2>2 DEF Pushes
<1>7. CASE CloseState(j) /\ PostEvent(StatusEvent(j, wgen[j], "Reset")) /\ UNCHANGED hostgot
  <2>1. NewState(j, "none", "CLOSED")
    BY <1>7 DEF CloseState
  <2>2. /\ wfd'[j] = "none" /\ wst'[j] = "CLOSED" /\ txp'[j] = << >>
        /\ kin'[j] = << >> /\ psent'[j] = 0
    BY <1>1, <2>1, NewStateAt
  <2>3. Reports(j, StatusEvent(j, gen[j], "Reset"))
    BY <1>1, <1>7, StatusFor
  <2>4. wst[j] \notin {"CLOSED", "UDP"}
    BY DEF CardInv, HostState, HostStream
  <2> HIDE DEF Reports, KeepsAsked, TakesAsked
  <2> QED
    BY <1>1, <1>7, <2>2, <2>3, <2>4 DEF Dies
<1> QED
  BY <1>5, <1>6, <1>7 DEF FlushTcpTx

(* handle_request.                                                         *)
RequestMove(j) ==
    Aside(j) \/ Ignored(j) \/ Answered(j) \/ Begun(j) \/ Rises(j) \/ Dials(j) \/ Dies(j) \/ Pushes(j)

LEMMA LeftoverMoves ==
    ASSUME CardInv, HostState', HandleLeftover, gen' = gen, NEW j \in Sock
    PROVE  RequestMove(j)
<1>1. Taking({"Connect", "SendTcp", "SendUdp"})
  BY DEF HandleLeftover
<1>2. /\ Taken(req[1].sock, req[1]) /\ req[1].msg \in {"Connect", "SendTcp", "SendUdp"} /\ Head(req) = req[1]
      /\ HandEmpty(j) /\ HandSame(j)
      /\ IF req[1].sock = j /\ req[1].gen = gen[j] THEN TakesAsked(j) ELSE KeepsAsked(j)
  BY <1>1, TakingMoves
<1>3. HostSame(j) /\ wgen'[j] = wgen[j] /\ gen'[j] = gen[j] /\ NoEvent
  BY DEF HandleLeftover, sockVars, HostSame
<1>4. Silent(j)
  BY <1>3, SilentNone DEF CardInv
<1>5. req[1].gen # wgen[req[1].sock]
  BY <1>2 DEF HandleLeftover, Leftover
<1>6. CASE req[1].sock = j /\ req[1].gen = gen[j]
  <2>1. ~AtWork(j) /\ ~AtWork(j)'
    BY <1>3, <1>5, <1>6 DEF AtWork
  <2> HIDE DEF TakesAsked, KeepsAsked, Silent
  <2> QED
    BY <1>2, <1>3, <1>4, <1>6, <2>1 DEF RequestMove, Ignored
<1>7. CASE ~(req[1].sock = j /\ req[1].gen = gen[j])
  BY <1>2, <1>3, <1>4, <1>7, AsideWhen DEF RequestMove
<1> QED
  BY <1>6, <1>7

LEMMA DefinesMoves ==
    ASSUME CardInv, HostState', HandleOpen \/ HandleAdoptListen \/ HandleClose, gen' = gen, NEW j \in Sock
    PROVE  RequestMove(j)
<1> DEFINE r == req[1]
           i == r.sock
<1>1. CASE HandleOpen
  <2>1. Taking({"OpenTcp", "OpenUdp"})
    BY <1>1 DEF HandleOpen
  <2>2. /\ Taken(i, r) /\ r.msg \in {"OpenTcp", "OpenUdp"} /\ Head(req) = r
        /\ HandEmpty(j) /\ HandSame(j)
        /\ IF r.sock = j /\ r.gen = gen[j] THEN TakesAsked(j) ELSE KeepsAsked(j)
    BY <2>1, TakingMoves
  <2>3. i \in Sock /\ r.msg \in DefinesGen
    BY <2>2 DEF Taken, OldestRequest, DefinesGen
  <2>4. wgen' = [wgen EXCEPT ![i] = r.gen] /\ hostgot' = [hostgot EXCEPT ![i] = << >>]
    BY <1>1, <2>2 DEF HandleOpen
  <2>5. \E fd, st : /\ NewState(i, fd, st)
           /\ \/ NoEvent /\ st = Opened(r.msg) /\ (fd \in HostStream <=> r.msg \in {"OpenTcp", "AdoptListen"})
              \/ /\ PostEvent(StatusEvent(i, r.gen, "Failed"))
                 /\ r.msg \in {"OpenTcp", "OpenUdp"} /\ fd = "none" /\ st = "CLOSED"
    <3>1. CASE NewState(i, "tcp", "INIT") /\ NoEvent /\ r.msg = "OpenTcp"
      BY <3>1 DEF Opened, HostStream
    <3>2. CASE NewState(i, "udp", "UDP") /\ NoEvent /\ r.msg = "OpenUdp"
      BY <3>2 DEF Opened, HostStream
    <3>3. CASE CloseState(i) /\ PostEvent(StatusEvent(i, r.gen, "Failed"))
      BY <2>2, <3>3 DEF CloseState
    <3> QED
      BY <1>1, <2>2, <3>1, <3>2, <3>3 DEF HandleOpen
  <2>6. Aside(j) \/ Begun(j)
    BY <2>2, <2>3, <2>4, <2>5, DefineMoves
  <2> QED
    BY <2>6 DEF RequestMove
<1>2. CASE HandleAdoptListen
  <2>1. Taking({"AdoptListen"})
    BY <1>2 DEF HandleAdoptListen
  <2>2. /\ Taken(i, r) /\ r.msg \in {"AdoptListen"} /\ Head(req) = r
        /\ HandEmpty(j) /\ HandSame(j)
        /\ IF r.sock = j /\ r.gen = gen[j] THEN TakesAsked(j) ELSE KeepsAsked(j)
    BY <2>1, TakingMoves
  <2>3. i \in Sock /\ r.msg \in DefinesGen
    BY <2>2 DEF Taken, OldestRequest, DefinesGen
  <2>4. /\ wgen' = [wgen EXCEPT ![i] = r.gen] /\ hostgot' = [hostgot EXCEPT ![i] = << >>]
        /\ NewState(i, "listen", "LISTEN") /\ NoEvent
    BY <1>2, <2>2 DEF HandleAdoptListen
  <2>5. "LISTEN" = Opened(r.msg) /\ ("listen" \in HostStream <=> r.msg \in {"OpenTcp", "AdoptListen"})
    BY <2>2 DEF Opened, HostStream
  <2>6. Aside(j) \/ Begun(j)
    BY <2>2, <2>3, <2>4, <2>5, DefineMoves
  <2> QED
    BY <2>6 DEF RequestMove
<1>3. CASE HandleClose
  <2>1. Taking({"Close", "CloseHost"})
    BY <1>3 DEF HandleClose
  <2>2. /\ Taken(i, r) /\ r.msg \in {"Close", "CloseHost"} /\ Head(req) = r
        /\ HandEmpty(j) /\ HandSame(j)
        /\ IF r.sock = j /\ r.gen = gen[j] THEN TakesAsked(j) ELSE KeepsAsked(j)
    BY <2>1, TakingMoves
  <2>3. i \in Sock /\ r.msg \in DefinesGen
    BY <2>2 DEF Taken, OldestRequest, DefinesGen
  <2>4. /\ wgen' = [wgen EXCEPT ![i] = r.gen] /\ hostgot' = [hostgot EXCEPT ![i] = << >>]
        /\ NewState(i, "none", "CLOSED") /\ NoEvent
    BY <1>3, <2>2 DEF HandleClose, CloseState
  <2>5. "CLOSED" = Opened(r.msg) /\ ("none" \in HostStream <=> r.msg \in {"OpenTcp", "AdoptListen"})
    BY <2>2 DEF Opened, HostStream
  <2>6. Aside(j) \/ Begun(j)
    BY <2>2, <2>3, <2>4, <2>5, DefineMoves
  <2> QED
    BY <2>6 DEF RequestMove
<1> QED
  BY <1>1, <1>2, <1>3

(* What is done for socket i in a generation the chip has left.            *)
LEMMA LateMoves ==
    ASSUME CardInv, gen' = gen, wgen' = wgen, NEW j \in Sock, KeepsAsked(j), wgen[j] # gen[j], Quiet(j)
    PROVE  Aside(j)
BY AsideStale DEF AtWork

LEMMA ConnectMoves ==
    ASSUME CardInv, HostState', HandleConnect, gen' = gen, NEW j \in Sock
    PROVE  RequestMove(j)
<1> DEFINE r == req[1]
           i == r.sock
<1>1. Taking({"Connect"})
  BY DEF HandleConnect
<1>2. /\ Taken(i, r) /\ r.msg = "Connect" /\ Head(req) = r
      /\ HandEmpty(j) /\ HandSame(j)
      /\ IF r.sock = j /\ r.gen = gen[j] THEN TakesAsked(j) ELSE KeepsAsked(j)
  BY <1>1, TakingMoves
<1>3. Types /\ i \in Sock /\ wgen' = wgen /\ hostgot' = hostgot /\ gen'[j] = gen[j] /\ wgen[i] \in Nat
  BY <1>2, RingFacts DEF CardInv, Taken, OldestRequest, HandleConnect
<1>4. r.gen = wgen[i]
  BY <1>2 DEF HandleConnect, Leftover, DefinesGen, RawTx
<1>5. wst \in [Sock -> Status] /\ peer \in [Sock -> {"none", "up", "fin", "rst"}]
  BY <1>3 DEF Types, WorkerTypes
<1>6. /\ "Connected" \in Cause /\ "Failed" \in Cause
  BY DEF Cause
<1>7. CASE wfd[i] \notin HostStream /\ NoEvent /\ UNCHANGED <<wfd, wst, txp, peer, kin, psent>>
  <2>1. HostSame(j) /\ wgen'[j] = wgen[j] /\ (AtWork(j)' <=> AtWork(j))
    BY <1>3, <1>7 DEF HostSame, AtWork
  <2>2. Silent(j)
    BY <1>3, <1>7, SilentNone
  <2>3. CASE i = j /\ r.gen = gen[j]
    <3> HIDE DEF TakesAsked, KeepsAsked, Silent
    <3> QED
      BY <1>2, <1>7, <2>1, <2>2, <2>3 DEF RequestMove, Ignored
  <2>4. CASE ~(i = j /\ r.gen = gen[j])
    BY <1>2, <1>3, <2>1, <2>2, <2>4, AsideWhen DEF RequestMove
  <2> QED
    BY <2>3, <2>4
<1>8. CASE /\ wfd[i] \in HostStream
           /\ wst' = [wst EXCEPT ![i] = "ESTABLISHED"]
           /\ peer' = [peer EXCEPT ![i] = "up"]
           /\ PostEvent(StatusEvent(i, wgen[i], "Connected"))
           /\ UNCHANGED <<wfd, txp, kin, psent>>
  <2>1. Posted(i, wgen[i], "Connected")
    BY <1>8 DEF Posted
  <2>2. (i # j => Silent(j)) /\ (wgen[i] # gen[j] => Quiet(j))
    BY <1>3, <1>6, <2>1, PostedFor
  <2>3. CASE i # j
    <3>1. HostSame(j)
      BY <1>3, <1>5, <1>8, <2>3 DEF HostSame
    <3> QED
      BY <1>2, <1>3, <2>2, <2>3, <3>1, AsideWhen DEF RequestMove
  <2>4. CASE i = j /\ r.gen # gen[j]
    <3>1. KeepsAsked(j) /\ wgen[j] # gen[j] /\ Quiet(j)
      BY <1>2, <1>4, <2>2, <2>4
    <3> QED
      BY <1>3, <3>1, LateMoves DEF RequestMove
  <2>5. CASE i = j /\ r.gen = gen[j]
    <3>1. TakesAsked(j) /\ Goes(j)
      BY <1>2, <1>3, <1>4, <2>5 DEF Goes, AtWork
    <3>2. Reports(j, StatusEvent(j, gen[j], "Connected"))
      BY <1>3, <1>4, <1>6, <1>8, <2>5, StatusFor
    <3>3. wst'[j] = "ESTABLISHED" /\ wfd'[j] \in HostStream /\ BytesSame(j) /\ wfd[j] \in HostStream
      BY <1>3, <1>5, <1>8, <2>5 DEF BytesSame
    <3> HIDE DEF TakesAsked, KeepsAsked, Reports
    <3> QED
      BY <1>2, <3>1, <3>2, <3>3 DEF RequestMove, Rises
  <2> QED
    BY <2>3, <2>4, <2>5
<1>9. CASE /\ wfd[i] \in HostStream
           /\ wst' = [wst EXCEPT ![i] = "SYNSENT"]
           /\ NoEvent
           /\ UNCHANGED <<wfd, txp, peer, kin, psent>>
  <2>2. Silent(j)
    BY <1>3, <1>9, SilentNone
  <2>3. CASE i # j
    <3>1. HostSame(j)
      BY <1>3, <1>5, <1>9, <2>3 DEF HostSame
    <3> QED
      BY <1>2, <1>3, <2>2, <2>3, <3>1, AsideWhen DEF RequestMove
  <2>4. CASE i = j /\ r.gen # gen[j]
    <3>1. KeepsAsked(j) /\ wgen[j] # gen[j] /\ Quiet(j)
      BY <1>2, <1>4, <2>2, <2>4 DEF Silent
    <3> QED
      BY <1>3, <3>1, LateMoves DEF RequestMove
  <2>5. CASE i = j /\ r.gen = gen[j]
    <3>1. TakesAsked(j) /\ Goes(j)
      BY <1>2, <1>3, <1>4, <2>5 DEF Goes, AtWork
    <3>3. wst'[j] = "SYNSENT" /\ wfd'[j] = wfd[j] /\ BytesSame(j) /\ wfd[j] \in HostStream
      BY <1>3, <1>5, <1>9, <2>5 DEF BytesSame
    <3> HIDE DEF TakesAsked, KeepsAsked, Silent
    <3> QED
      BY <1>2, <2>2, <3>1, <3>3 DEF RequestMove, Dials
  <2> QED
    BY <2>3, <2>4, <2>5
<1>10. CASE wfd[i] \in HostStream /\ CloseState(i) /\ PostEvent(StatusEvent(i, wgen[i], "Failed"))
  <2>1. Posted(i, wgen[i], "Failed") /\ NewState(i, "none", "CLOSED")
    BY <1>10 DEF Posted, CloseState
  <2>2. (i # j => Silent(j)) /\ (wgen[i] # gen[j] => Quiet(j))
    BY <1>3, <1>6, <2>1, PostedFor
  <2>3. CASE i # j
    <3>1. HostSame(j)
      BY <1>3, <2>1, <2>3, NewStateAt DEF HostSame
    <3> QED
      BY <1>2, <1>3, <2>2, <2>3, <3>1, AsideWhen DEF RequestMove
  <2>4. CASE i = j /\ r.gen # gen[j]
    <3>1. KeepsAsked(j) /\ wgen[j] # gen[j] /\ Quiet(j)
      BY <1>2, <1>4, <2>2, <2>4
    <3> QED
      BY <1>3, <3>1, LateMoves DEF RequestMove
  <2>5. CASE i = j /\ r.gen = gen[j]
    <3>1. TakesAsked(j) /\ Goes(j)
      BY <1>2, <1>3, <1>4, <2>5 DEF Goes, AtWork
    <3>2. Reports(j, StatusEvent(j, gen[j], "Failed"))
      BY <1>3, <1>4, <1>6, <1>10, <2>5, StatusFor
    <3>3. /\ wfd'[j] = "none" /\ wst'[j] = "CLOSED" /\ txp'[j] = << >>
          /\ kin'[j] = << >> /\ psent'[j] = 0 /\ hostgot'[j] = hostgot[j]
      BY <1>3, <2>1, <2>5, NewStateAt
    <3>4. wst[j] \notin {"CLOSED", "UDP"} /\ wfd[j] \in HostStream
      BY <1>10, <2>5 DEF CardInv, HostState, HostStream
    <3> HIDE DEF TakesAsked, KeepsAsked, Reports
    <3> QED
      BY <1>2, <3>1, <3>2, <3>3, <3>4 DEF RequestMove, Dies
  <2> QED
    BY <2>3, <2>4, <2>5
<1> QED
  BY <1>2, <1>7, <1>8, <1>9, <1>10 DEF HandleConnect, HostStream

LEMMA SendTcpMoves ==
    ASSUME CardInv, HostState', HandleSendTcp, gen' = gen, NEW j \in Sock
    PROVE  RequestMove(j)
<1> DEFINE r == req[1]
           i == r.sock
<1>1. Taking({"SendTcp"})
  BY DEF HandleSendTcp
<1>2. /\ Taken(i, r) /\ r.msg = "SendTcp" /\ Head(req) = r
      /\ HandEmpty(j) /\ HandSame(j)
      /\ IF r.sock = j /\ r.gen = gen[j] THEN TakesAsked(j) ELSE KeepsAsked(j)
  BY <1>1, TakingMoves
<1>3. Types /\ i \in Sock /\ wgen' = wgen /\ gen'[j] = gen[j] /\ wgen[i] \in Nat /\ r.data \in Seq(Nat)
  BY <1>2, RingFacts DEF CardInv, Taken, OldestRequest, HandleSendTcp
<1>4. r.gen = wgen[i]
  BY <1>2 DEF HandleSendTcp, Leftover, DefinesGen, RawTx
<1>5. txp[i] \in Seq(Nat)
  BY <1>3 DEF Types, WorkerTypes
<1>7. CASE wfd[i] \notin HostStream /\ NoEvent /\ UNCHANGED <<wfd, wst, txp, peer, kin, psent, hostgot>>
  <2>1. HostSame(j) /\ wgen'[j] = wgen[j] /\ (AtWork(j)' <=> AtWork(j))
    BY <1>3, <1>7 DEF HostSame, AtWork
  <2>2. Silent(j)
    BY <1>3, <1>7, SilentNone
  <2>3. CASE i = j /\ r.gen = gen[j]
    <3> HIDE DEF TakesAsked, KeepsAsked, Silent
    <3> QED
      BY <1>2, <1>7, <2>1, <2>2, <2>3 DEF RequestMove, Ignored
  <2>4. CASE ~(i = j /\ r.gen = gen[j])
    BY <1>2, <1>3, <2>1, <2>2, <2>4, AsideWhen DEF RequestMove
  <2> QED
    BY <2>3, <2>4
<1>8. CASE wfd[i] \in HostStream /\ FlushTcpTx(i, txp[i] \o r.data)
  <2> DEFINE b == txp[i] \o r.data
  <2>1. b \in Seq(Nat)
    BY <1>3, <1>5, ConcatProperties
  <2>2. (i # j => HostSame(j) /\ Silent(j)) /\ (wgen[i] # gen[j] => Quiet(j))
    BY <1>3, <1>8, <2>1, FlushOthers
  <2>3. CASE i # j
    BY <1>2, <1>3, <2>2, <2>3, AsideWhen DEF RequestMove
  <2>4. CASE i = j /\ r.gen # gen[j]
    <3>1. KeepsAsked(j) /\ wgen[j] # gen[j] /\ Quiet(j)
      BY <1>2, <1>4, <2>2, <2>4
    <3> QED
      BY <1>3, <3>1, LateMoves DEF RequestMove
  <2>5. CASE i = j /\ r.gen = gen[j]
    <3>1. TakesAsked(j) /\ AtWork(j)
      BY <1>2, <1>3, <1>4, <2>5 DEF AtWork
    <3>2. FlushTcpTx(j, b) /\ wfd[j] \in HostStream /\ b = txp[j] \o req[1].data
      BY <1>8, <2>5
    <3> HIDE DEF b
    <3>3. Pushes(j) \/ Dies(j)
      BY <1>2, <1>3, <2>1, <3>1, <3>2, FlushMoves
    <3> QED
      BY <3>3 DEF RequestMove
  <2> QED
    BY <2>3, <2>4, <2>5
<1> QED
  BY <1>2, <1>7, <1>8 DEF HandleSendTcp, HostStream

LEMMA SendDatagramMoves ==
    ASSUME CardInv, HostState', HandleSendDatagram, gen' = gen, NEW j \in Sock
    PROVE  RequestMove(j)
<1> DEFINE r == req[1]
           i == r.sock
<1>1. Taking({"SendUdp"} \cup RawTx) /\ "Shutdown" \notin {"SendUdp"} \cup RawTx
  BY DEF HandleSendDatagram, RawTx
<1>2. /\ Taken(i, r) /\ r.msg \in {"SendUdp"} \cup RawTx /\ Head(req) = r
      /\ HandEmpty(j) /\ HandSame(j)
      /\ IF r.sock = j /\ r.gen = gen[j] THEN TakesAsked(j) ELSE KeepsAsked(j)
  BY <1>1, TakingMoves
<1>3. /\ Types /\ i \in Sock /\ wgen' = wgen /\ gen'[j] = gen[j] /\ r.gen \in Nat
      /\ r.gen \in wgen[i] .. gen[i] /\ gen[i] \in Nat /\ wgen[i] \in Nat
  BY <1>2, RingFacts DEF CardInv, Taken, OldestRequest, HandleSendDatagram, sockVars
<1>4. HostSame(j) /\ wgen'[j] = wgen[j] /\ (AtWork(j)' <=> AtWork(j))
  BY <1>3 DEF HandleSendDatagram, sockVars, HostSame, AtWork
<1>5. CASE r.msg = "SendUdp" /\ wfd[i] = "none" /\ NoEvent
  <2>2. Silent(j)
    BY <1>3, <1>5, SilentNone
  <2>3. CASE i = j /\ r.gen = gen[j]
    <3> HIDE DEF TakesAsked, KeepsAsked, Silent
    <3> QED
      BY <1>2, <1>4, <1>5, <2>2, <2>3 DEF RequestMove, Ignored
  <2>4. CASE ~(i = j /\ r.gen = gen[j])
    BY <1>2, <1>3, <1>4, <2>2, <2>4, AsideWhen DEF RequestMove
  <2> QED
    BY <2>3, <2>4
<1>6. ASSUME NEW c \in {"None", "Failed"}, PostEvent(Event("SendDone", i, r.gen, c, << >>))
      PROVE  RequestMove(j)
  <2>1. c \in Cause /\ Posted(i, r.gen, c)
    BY <1>6 DEF Posted, Cause
  <2>2. (i # j => Silent(j)) /\ (r.gen # gen[j] => Quiet(j))
    BY <1>3, <2>1, PostedFor
  <2>3. CASE i # j
    BY <1>2, <1>3, <1>4, <2>2, <2>3, AsideWhen DEF RequestMove
  <2>4. CASE i = j /\ r.gen # gen[j]
    <3>1. KeepsAsked(j) /\ wgen[j] # gen[j] /\ Quiet(j)
      BY <1>2, <1>3, <2>2, <2>4
    <3> QED
      BY <1>3, <3>1, LateMoves DEF RequestMove
  <2>5. CASE i = j /\ r.gen = gen[j]
    <3>1. Reports(j, Event("SendDone", j, gen[j], c, << >>))
      BY <1>3, <1>6, <2>1, <2>5, AnswerFor
    <3> HIDE DEF TakesAsked, KeepsAsked, Reports
    <3> QED
      BY <1>2, <1>4, <2>1, <2>5, <3>1 DEF RequestMove, Answered
  <2> QED
    BY <2>3, <2>4, <2>5
<1> QED
  BY <1>2, <1>5, <1>6 DEF HandleSendDatagram

LEMMA RequestMoves ==
    ASSUME CardInv, HostState', Requests, gen' = gen, NEW j \in Sock
    PROVE  RequestMove(j)
BY LeftoverMoves, DefinesMoves, ConnectMoves, SendTcpMoves, SendDatagramMoves DEF Requests

(* poll_sockets and slirp.                                                 *)
PollMove(j) ==
    Aside(j) \/ Rises(j) \/ Dies(j) \/ Pushes(j) \/ Gets(j) \/ Passes(j) \/ Eofs(j) \/ Catches(j)

LEMMA PollPlace ==
    ASSUME NextSock
    PROVE  wpc' \in {"poll", "slirp"}
BY DEF NextSock

LEMMA IdlePollMoves ==
    ASSUME CardInv, HostState', gen' = gen, NEW j \in Sock,
           PollInvalid \/ PollConnecting \/ PollOpen \/ PollNoFlush \/ PollNoRecv \/ PollLoadCredit
    PROVE  PollMove(j)
<1>1. wpc # "post" /\ wpc' # "post"
  BY PollPlace DEF PollInvalid, PollConnecting, PollOpen, PollNoFlush, PollNoRecv, PollLoadCredit, Polling
<1>2. HostSame(j) /\ wgen'[j] = wgen[j] /\ NoEvent /\ req' = req /\ gen'[j] = gen[j]
  BY DEF PollInvalid, PollConnecting, PollOpen, PollNoFlush, PollNoRecv, PollLoadCredit, Polling, HostSame
<1>3. Types /\ HandSame(j)
  BY <1>1, NoHands DEF CardInv
<1>4. Silent(j) /\ KeepsAsked(j)
  BY <1>2, <1>3, SilentNone, AskedSame
<1> QED
  BY <1>2, <1>3, <1>4, AsideWhen DEF PollMove

(* A step that ends in a status or an answer for socket i, the rest of     *)
(* which is about socket i alone.                                          *)
LEMMA PostedOthers ==
    ASSUME CardInv, gen' = gen, wgen' = wgen, NEW i \in Sock, NEW c \in Cause, Posted(i, wgen[i], c),
           NEW j \in Sock, KeepsAsked(j), HandSame(j), i # j => HostSame(j), ~(i = j /\ AtWork(j))
    PROVE  Aside(j)
<1>1. Types /\ gen'[j] = gen[j] /\ wgen[i] \in Nat
  BY RingFacts DEF CardInv
<1>2. (i # j => Silent(j)) /\ (wgen[i] # gen[j] => Quiet(j))
  BY <1>1, PostedFor
<1>3. CASE i # j
  BY <1>1, <1>2, <1>3, AsideWhen
<1>4. CASE i = j
  <2>1. wgen[j] # gen[j] /\ Quiet(j)
    BY <1>2, <1>4 DEF AtWork
  <2> QED
    BY <2>1, LateMoves
<1> QED
  BY <1>3, <1>4

LEMMA PollConnectMoves ==
    ASSUME CardInv, HostState', gen' = gen, NEW j \in Sock, PollConnectDone
    PROVE  PollMove(j)
<1>1. PICK i \in Sock : i = wi
  BY DEF CardInv, Types, WorkerTypes
<1>2. wpc # "post" /\ wpc' # "post"
  BY PollPlace DEF PollConnectDone, Polling
<1>3. wgen' = wgen /\ hostgot' = hostgot /\ req' = req /\ gen'[j] = gen[j] /\ wfd[i] # "none" /\ wst[i] = "SYNSENT"
  BY <1>1 DEF PollConnectDone, Polling
<1>4. Types /\ HandSame(j) /\ HandEmpty(j)
  BY <1>2, NoHands DEF CardInv
<1>5. KeepsAsked(j) /\ wfd[i] \in HostStream
  <2>1. wfd[i] \in {"none", "tcp", "listen", "udp"} /\ (wfd[i] = "udp") = (wst[i] = "UDP")
    BY DEF CardInv, Types, WorkerTypes, HostState
  <2> QED
    BY <1>3, <1>4, <2>1, AskedSame DEF HostStream
<1>6. wst \in [Sock -> Status] /\ peer \in [Sock -> {"none", "up", "fin", "rst"}]
  BY <1>4 DEF Types, WorkerTypes
<1>7. "Connected" \in Cause /\ "Failed" \in Cause
  BY DEF Cause
<1>8. CASE /\ wst' = [wst EXCEPT ![i] = "ESTABLISHED"]
           /\ peer' = [peer EXCEPT ![i] = "up"]
           /\ PostEvent(StatusEvent(i, wgen[i], "Connected"))
           /\ UNCHANGED <<wfd, txp, kin, psent>>
  <2>1. Posted(i, wgen[i], "Connected") /\ (i # j => HostSame(j))
    BY <1>3, <1>6, <1>8 DEF Posted, HostSame
  <2>2. CASE i = j /\ AtWork(j)
    <3>1. Reports(j, StatusEvent(j, gen[j], "Connected"))
      BY <1>3, <1>4, <1>7, <1>8, <2>2, StatusFor DEF AtWork
    <3>2. wst'[j] = "ESTABLISHED" /\ wfd'[j] \in HostStream /\ BytesSame(j) /\ wst[j] = "SYNSENT" /\ Goes(j)
      BY <1>3, <1>5, <1>6, <1>8, <2>2 DEF BytesSame, Goes, AtWork
    <3> HIDE DEF KeepsAsked, Reports
    <3> QED
      BY <1>4, <1>5, <3>1, <3>2 DEF PollMove, Rises
  <2> QED
    BY <1>3, <1>4, <1>5, <1>7, <2>1, <2>2, PostedOthers DEF PollMove
<1>9. CASE CloseState(i) /\ PostEvent(StatusEvent(i, wgen[i], "Failed"))
  <2>0. NewState(i, "none", "CLOSED")
    BY <1>9 DEF CloseState
  <2>1. Posted(i, wgen[i], "Failed") /\ (i # j => HostSame(j))
    BY <1>3, <1>4, <1>9, <2>0, NewStateAt DEF Posted, HostSame
  <2>2. CASE i = j /\ AtWork(j)
    <3>1. Reports(j, StatusEvent(j, gen[j], "Failed"))
      BY <1>3, <1>4, <1>7, <1>9, <2>2, StatusFor DEF AtWork
    <3>2. /\ wfd'[j] = "none" /\ wst'[j] = "CLOSED" /\ txp'[j] = << >>
          /\ kin'[j] = << >> /\ psent'[j] = 0
      BY <1>4, <2>0, <2>2, NewStateAt
    <3>3. wst[j] \notin {"CLOSED", "UDP", "INIT"} /\ Goes(j)
      BY <1>3, <2>2 DEF Goes, AtWork
    <3> HIDE DEF KeepsAsked, Reports
    <3> QED
      BY <1>3, <1>4, <1>5, <3>1, <3>2, <3>3 DEF PollMove, Dies
  <2> QED
    BY <1>3, <1>4, <1>5, <1>7, <2>1, <2>2, PostedOthers DEF PollMove
<1> QED
  BY <1>1, <1>8, <1>9 DEF PollConnectDone

LEMMA PollListenMoves ==
    ASSUME CardInv, HostState', gen' = gen, NEW j \in Sock, PollListening
    PROVE  PollMove(j)
<1>1. PICK i \in Sock : i = wi
  BY DEF CardInv, Types, WorkerTypes
<1>2. wpc # "post" /\ wpc' # "post"
  BY DEF PollListening, Polling
<1>3. /\ wgen' = wgen /\ hostgot' = hostgot /\ req' = req /\ gen'[j] = gen[j] /\ wst[i] = "LISTEN"
      /\ UNCHANGED <<txp, kin, psent>>
  BY <1>1 DEF PollListening, Polling
<1>4. Types /\ HandSame(j) /\ HandEmpty(j)
  BY <1>2, NoHands DEF CardInv
<1>5. KeepsAsked(j)
  BY <1>3, <1>4, AskedSame
<1>6. /\ wst \in [Sock -> Status] /\ peer \in [Sock -> {"none", "up", "fin", "rst"}]
      /\ wfd \in [Sock -> {"none", "tcp", "listen", "udp"}] /\ "Connected" \in Cause
  BY <1>4 DEF Types, WorkerTypes, Cause
<1>7. CASE NoEvent /\ UNCHANGED <<wfd, wst, peer>>
  <2>1. HostSame(j) /\ Silent(j)
    BY <1>3, <1>4, <1>7, SilentNone DEF HostSame
  <2> QED
    BY <1>3, <1>4, <1>5, <2>1, AsideWhen DEF PollMove
<1>8. CASE /\ wfd' = [wfd EXCEPT ![i] = "tcp"]
           /\ wst' = [wst EXCEPT ![i] = "ESTABLISHED"]
           /\ peer' = [peer EXCEPT ![i] = "up"]
           /\ PostEvent(StatusEvent(i, wgen[i], "Connected"))
  <2>1. Posted(i, wgen[i], "Connected") /\ (i # j => HostSame(j))
    BY <1>3, <1>6, <1>8 DEF Posted, HostSame
  <2>2. CASE i = j /\ AtWork(j)
    <3>1. Reports(j, StatusEvent(j, gen[j], "Connected"))
      BY <1>3, <1>4, <1>6, <1>8, <2>2, StatusFor DEF AtWork
    <3>2. wst'[j] = "ESTABLISHED" /\ wfd'[j] \in HostStream /\ BytesSame(j) /\ wst[j] = "LISTEN" /\ Goes(j)
      BY <1>3, <1>6, <1>8, <2>2 DEF BytesSame, Goes, AtWork, HostStream
    <3> HIDE DEF KeepsAsked, Reports
    <3> QED
      BY <1>4, <1>5, <3>1, <3>2 DEF PollMove, Rises
  <2> QED
    BY <1>3, <1>4, <1>5, <1>6, <2>1, <2>2, PostedOthers DEF PollMove
<1> QED
  BY <1>1, <1>7, <1>8 DEF PollListening

LEMMA PollFlushMoves ==
    ASSUME CardInv, HostState', gen' = gen, NEW j \in Sock, PollFlush
    PROVE  PollMove(j)
<1>1. PICK i \in Sock : i = wi
  BY DEF CardInv, Types, WorkerTypes
<1>2. wpc # "post" /\ wpc' # "post"
  BY PollPlace DEF PollFlush
<1>3. /\ wgen' = wgen /\ req' = req /\ gen'[j] = gen[j] /\ wfd[i] \in HostStream /\ txp[i] # << >>
      /\ FlushTcpTx(i, txp[i])
  BY <1>1 DEF PollFlush, HostStream
<1>4. Types /\ HandSame(j) /\ HandEmpty(j)
  BY <1>2, NoHands DEF CardInv
<1>5. KeepsAsked(j) /\ txp[i] \in Seq(Nat)
  BY <1>3, <1>4, AskedSame DEF Types, WorkerTypes
<1>6. (i # j => HostSame(j) /\ Silent(j)) /\ (wgen[i] # gen[j] => Quiet(j))
  BY <1>3, <1>5, FlushOthers
<1>7. CASE i # j
  BY <1>3, <1>4, <1>5, <1>6, <1>7, AsideWhen DEF PollMove
<1>8. CASE i = j /\ ~AtWork(j)
  <2>1. wgen[j] # gen[j] /\ Quiet(j)
    BY <1>6, <1>8 DEF AtWork
  <2> QED
    BY <1>3, <1>5, <2>1, LateMoves DEF PollMove
<1>9. CASE i = j /\ AtWork(j)
  <2>1. Pushes(j) \/ Dies(j)
    BY <1>3, <1>4, <1>5, <1>9, FlushMoves
  <2> QED
    BY <2>1 DEF PollMove
<1> QED
  BY <1>7, <1>8, <1>9

LEMMA PollTakeMoves ==
    ASSUME CardInv, HostState', gen' = gen, NEW j \in Sock, PollTake
    PROVE  PollMove(j)
<1>1. PICK i \in Sock : i = wi
  BY DEF CardInv, Types, WorkerTypes
<1>2. /\ wpc = "take" /\ wi' = wi /\ wgen' = wgen /\ req' = req /\ gen'[j] = gen[j] /\ hostgot' = hostgot
      /\ NoEvent /\ UNCHANGED <<wfd, wst, txp, peer, psent>>
  BY DEF PollTake, Polling
<1>3. PICK n \in 1 .. Len(kin[i]) :
          wgot' = SubSeq(kin[i], 1, n) /\ kin' = [kin EXCEPT ![i] = SubSeq(@, n + 1, Len(@))]
  BY <1>1 DEF PollTake
<1>4. Types /\ kin \in [Sock -> Seq(Byte)] /\ wgot = << >>
  BY <1>2 DEF CardInv, Types, WorkerTypes, HostState
<1>5. KeepsAsked(j) /\ Silent(j)
  BY <1>2, <1>4, AskedSame, SilentNone
<1>6. CASE i # j
  <2>1. HostSame(j) /\ HandSame(j)
    BY <1>1, <1>2, <1>3, <1>4, <1>6 DEF HostSame, HandSame, InHand
  <2> QED
    BY <1>2, <1>5, <2>1, AsideWhen DEF PollMove
<1>7. CASE i = j /\ ~AtWork(j)
  <2>1. wgen[j] # gen[j] /\ Quiet(j)
    BY <1>5, <1>7 DEF AtWork, Silent
  <2> QED
    BY <1>2, <1>5, <2>1, LateMoves DEF PollMove
<1>8. CASE i = j /\ AtWork(j)
  <2>1. InHand(j) = << >> /\ InHand(j)' = SubSeq(kin[j], 1, n)
    BY <1>1, <1>2, <1>3, <1>4, <1>8 DEF InHand, AtWork
  <2>2. kin'[j] = SubSeq(kin[j], n + 1, Len(kin[j])) /\ kin[j] \in Seq(Byte)
    BY <1>3, <1>4, <1>8
  <2>3. Len(kin[j]) \in Nat
    BY <2>2, LenProperties
  <2>4. /\ 1 \in 1 .. Len(kin[j]) + 1 /\ n \in 1 - 1 .. Len(kin[j])
        /\ Len(kin[j]) \in n .. Len(kin[j])
    BY <1>8, <2>3
  <2>5. SubSeq(kin[j], 1, n) \o SubSeq(kin[j], n + 1, Len(kin[j])) = SubSeq(kin[j], 1, Len(kin[j]))
    BY <2>2, <2>4, ConcatAdjacentSubSeq
  <2>6. SubSeq(kin[j], 1, Len(kin[j])) = kin[j]
    BY <2>2, SubSeqFull
  <2>7. kin[j] = InHand(j)' \o kin'[j]
    BY <2>1, <2>2, <2>5, <2>6, Zenon
  <2>8. Goes(j)
    BY <1>2, <1>8 DEF Goes, AtWork
  <2> HIDE DEF KeepsAsked, Silent
  <2> QED
    BY <1>2, <1>5, <2>1, <2>7, <2>8 DEF PollMove, Gets
<1> QED
  BY <1>6, <1>7, <1>8

LEMMA PollPostMoves ==
    ASSUME CardInv, HostState', gen' = gen, NEW j \in Sock, PollPost
    PROVE  PollMove(j)
<1>1. PICK i \in Sock : i = wi
  BY DEF CardInv, Types, WorkerTypes
<1> DEFINE e == Event("RxTcp", i, wgen[i], "None", wgot)
<1>2. /\ wpc = "post" /\ wgen' = wgen /\ req' = req /\ gen'[j] = gen[j] /\ hostgot' = hostgot
      /\ PostEvent(e) /\ wgot' = << >> /\ UNCHANGED <<wfd, wst, txp, peer, kin, psent>>
  BY <1>1 DEF PollPost, Polling
<1>3. Types /\ wgot \in Seq(Byte) /\ wst[i] = "ESTABLISHED" /\ wgen[i] \in Nat /\ "None" \in Cause
  BY <1>1, <1>2, RingFacts DEF CardInv, Types, WorkerTypes, HostState, Cause
<1>4. e \in Happened
  BY <1>3, EventType
<1>5. e.sock = i /\ e.gen = wgen[i] /\ e.evt = "RxTcp" /\ e.evt # "MacRawRx"
  BY DEF Event
<1>6. KeepsAsked(j) /\ HostSame(j) /\ InHand(j)' = << >>
  BY <1>2, <1>3, AskedSame DEF HostSame, InHand
<1> HIDE DEF e
<1>7. /\ e.sock # j => Silent(j)
      /\ e.gen # gen[j] => Quiet(j)
      /\ e.sock = j /\ e.gen = gen[j] => Reports(j, e)
  BY <1>2, <1>3, <1>4, <1>5, EventFor
<1>8. CASE i # j
  <2>1. HandSame(j)
    BY <1>1, <1>6, <1>8 DEF HandSame, InHand
  <2> QED
    BY <1>2, <1>5, <1>6, <1>7, <1>8, <2>1, AsideWhen DEF PollMove
<1>9. CASE i = j /\ ~AtWork(j)
  <2>1. wgen[j] # gen[j] /\ Quiet(j)
    BY <1>5, <1>7, <1>9 DEF AtWork
  <2> QED
    BY <1>2, <1>6, <2>1, LateMoves DEF PollMove
<1>10. CASE i = j /\ AtWork(j)
  <2>1. InHand(j) = wgot /\ Goes(j) /\ wgen[i] = gen[j]
    BY <1>1, <1>2, <1>10 DEF InHand, AtWork, Goes
  <2>2. e = Event("RxTcp", j, gen[j], "None", InHand(j))
    BY <1>10, <2>1 DEF e
  <2>3. Reports(j, e)
    BY <1>5, <1>7, <1>10, <2>1
  <2>4. ASSUME Len(evt) < EvtCap PROVE Tells(j, e)
    <3>1. IsTold(e, j) /\ Len(evt) # EvtCap
      BY <1>3, <1>5, <1>10, <2>1, <2>4, RingFacts DEF IsTold
    <3> QED
      BY <1>2, <1>3, <1>4, <3>1, ToldMore
  <2> HIDE DEF KeepsAsked, Reports, Tells
  <2> QED
    BY <1>3, <1>6, <1>10, <2>1, <2>2, <2>3, <2>4 DEF PollMove, Passes
<1> QED
  BY <1>8, <1>9, <1>10

LEMMA PollEofMoves ==
    ASSUME CardInv, HostState', gen' = gen, NEW j \in Sock, PollEof
    PROVE  PollMove(j)
<1>1. PICK i \in Sock : i = wi
  BY DEF CardInv, Types, WorkerTypes
<1>2. wpc = "take" /\ wpc' # "post"
  BY PollPlace DEF PollEof, Polling
<1>3. /\ wgen' = wgen /\ hostgot' = hostgot /\ req' = req /\ gen'[j] = gen[j] /\ kin[i] = << >>
      /\ wst' = [wst EXCEPT ![i] = "CLOSE_WAIT"] /\ PostEvent(StatusEvent(i, wgen[i], "RemoteClosed"))
      /\ UNCHANGED <<wfd, txp, peer, kin, psent>>
  BY <1>1 DEF PollEof, Polling
<1>4. Types /\ HandSame(j) /\ HandEmpty(j)
  BY <1>2, NoHands DEF CardInv
<1>5. KeepsAsked(j) /\ wst[i] = "ESTABLISHED"
  BY <1>1, <1>2, <1>3, <1>4, AskedSame DEF CardInv, HostState
<1>6. wst \in [Sock -> Status] /\ "RemoteClosed" \in Cause
  BY <1>4 DEF Types, WorkerTypes, Cause
<1>7. Posted(i, wgen[i], "RemoteClosed") /\ (i # j => HostSame(j))
  BY <1>3, <1>6 DEF Posted, HostSame
<1>8. CASE i = j /\ AtWork(j)
  <2>1. Reports(j, StatusEvent(j, gen[j], "RemoteClosed"))
    BY <1>3, <1>4, <1>6, <1>8, StatusFor DEF AtWork
  <2>2. /\ wst'[j] = "CLOSE_WAIT" /\ wfd'[j] = wfd[j] /\ BytesSame(j) /\ wst[j] = "ESTABLISHED" /\ Goes(j)
        /\ kin[j] = << >>
    BY <1>3, <1>5, <1>6, <1>8 DEF BytesSame, Goes, AtWork
  <2> HIDE DEF KeepsAsked, Reports
  <2> QED
    BY <1>4, <1>5, <2>1, <2>2 DEF PollMove, Eofs
<1> QED
  BY <1>3, <1>4, <1>5, <1>6, <1>7, <1>8, PostedOthers DEF PollMove

LEMMA PollErrorMoves ==
    ASSUME CardInv, HostState', gen' = gen, NEW j \in Sock, PollRecvError
    PROVE  PollMove(j)
<1>1. PICK i \in Sock : i = wi
  BY DEF CardInv, Types, WorkerTypes
<1>2. wpc = "take" /\ wpc' # "post"
  BY PollPlace DEF PollRecvError, Polling
<1>3. wgen' = wgen /\ hostgot' = hostgot /\ req' = req /\ gen'[j] = gen[j]
  BY <1>1 DEF PollRecvError, Polling
<1>4. Types /\ HandSame(j) /\ HandEmpty(j)
  BY <1>2, NoHands DEF CardInv
<1>5. KeepsAsked(j) /\ wst[i] = "ESTABLISHED" /\ "Reset" \in Cause
  BY <1>1, <1>2, <1>3, <1>4, AskedSame DEF CardInv, HostState, Cause
<1>6. CASE NoEvent /\ UNCHANGED <<wfd, wst, txp, peer, kin, psent>>
  <2>1. HostSame(j) /\ Silent(j)
    BY <1>3, <1>4, <1>6, SilentNone DEF HostSame
  <2> QED
    BY <1>3, <1>4, <1>5, <2>1, AsideWhen DEF PollMove
<1>7. CASE CloseState(i) /\ PostEvent(StatusEvent(i, wgen[i], "Reset"))
  <2>0. NewState(i, "none", "CLOSED")
    BY <1>7 DEF CloseState
  <2>1. Posted(i, wgen[i], "Reset") /\ (i # j => HostSame(j))
    BY <1>3, <1>4, <1>7, <2>0, NewStateAt DEF Posted, HostSame
  <2>2. CASE i = j /\ AtWork(j)
    <3>1. Reports(j, StatusEvent(j, gen[j], "Reset"))
      BY <1>3, <1>4, <1>5, <1>7, <2>2, StatusFor DEF AtWork
    <3>2. /\ wfd'[j] = "none" /\ wst'[j] = "CLOSED" /\ txp'[j] = << >>
          /\ kin'[j] = << >> /\ psent'[j] = 0
      BY <1>4, <2>0, <2>2, NewStateAt
    <3>3. wst[j] \notin {"CLOSED", "UDP", "INIT"} /\ Goes(j)
      BY <1>3, <1>5, <2>2 DEF Goes, AtWork
    <3> HIDE DEF KeepsAsked, Reports
    <3> QED
      BY <1>3, <1>4, <1>5, <3>1, <3>2, <3>3 DEF PollMove, Dies
  <2> QED
    BY <1>3, <1>4, <1>5, <2>1, <2>2, PostedOthers DEF PollMove
<1> QED
  BY <1>1, <1>6, <1>7 DEF PollRecvError

LEMMA PollUdpMoves ==
    ASSUME CardInv, HostState', gen' = gen, NEW j \in Sock, PollUdp
    PROVE  PollMove(j)
<1>1. PICK i \in Sock : i = wi
  BY DEF CardInv, Types, WorkerTypes
<1>2. wpc # "post" /\ wpc' # "post"
  BY PollPlace DEF PollUdp, Polling
<1>3. /\ wgen' = wgen /\ hostgot' = hostgot /\ req' = req /\ gen'[j] = gen[j] /\ wst[i] = "UDP"
      /\ UNCHANGED <<wfd, wst, txp, peer, kin>>
  BY <1>1 DEF PollUdp, Polling
<1>4. Types /\ HandSame(j) /\ HandEmpty(j)
  BY <1>2, NoHands DEF CardInv
<1>5. KeepsAsked(j) /\ psent \in [Sock -> Nat] /\ wgen[i] \in Nat /\ "None" \in Cause
  BY <1>3, <1>4, AskedSame, RingFacts DEF Types, WorkerTypes, Cause
<1>6. CASE NoEvent /\ UNCHANGED psent
  <2>1. HostSame(j) /\ Silent(j)
    BY <1>3, <1>4, <1>6, SilentNone DEF HostSame
  <2> QED
    BY <1>3, <1>4, <1>5, <2>1, AsideWhen DEF PollMove
<1> DEFINE b == <<<<wgen[i], psent[i] + 1>>>>
           e == Event("RxUdp", i, wgen[i], "None", b)
<1>7. CASE psent' = [psent EXCEPT ![i] = @ + 1] /\ PostEvent(e)
  <2>1. b \in Seq(Byte) /\ b # << >>
    BY <1>5 DEF Byte
  <2>2. e.sock = i /\ e.gen = wgen[i] /\ e.evt # "MacRawRx"
    BY DEF Event
  <2> HIDE DEF b
  <2>3. e \in Happened
    BY <1>5, <2>1, EventType
  <2> HIDE DEF e
  <2>4. /\ e.sock # j => Silent(j)
        /\ e.gen # gen[j] => Quiet(j)
        /\ e.sock = j /\ e.gen = gen[j] => Reports(j, e)
    BY <1>3, <1>4, <1>7, <2>2, <2>3, EventFor
  <2>5. CASE i # j
    <3>1. HostSame(j)
      BY <1>3, <1>5, <1>7, <2>5 DEF HostSame
    <3> QED
      BY <1>3, <1>4, <1>5, <2>2, <2>4, <2>5, <3>1, AsideWhen DEF PollMove
  <2>6. CASE i = j /\ ~AtWork(j)
    <3>1. wgen[j] # gen[j] /\ Quiet(j)
      BY <2>2, <2>4, <2>6 DEF AtWork
    <3> QED
      BY <1>3, <1>5, <3>1, LateMoves DEF PollMove
  <2>7. CASE i = j /\ AtWork(j)
    <3>1. Goes(j) /\ wgen[i] = gen[j] /\ psent'[j] = psent[j] + 1 /\ wst[j] = "UDP"
      BY <1>3, <1>5, <1>7, <2>7 DEF AtWork, Goes
    <3>2. e = Event("RxUdp", j, gen[j], "None", <<<<gen[j], psent[j] + 1>>>>)
      BY <2>7, <3>1 DEF e, b
    <3>3. Reports(j, e)
      BY <2>2, <2>4, <2>7, <3>1
    <3> HIDE DEF KeepsAsked, Reports
    <3> QED
      BY <1>3, <1>4, <1>5, <3>1, <3>2, <3>3 DEF PollMove, Catches
  <2> QED
    BY <2>5, <2>6, <2>7
<1> QED
  BY <1>1, <1>6, <1>7 DEF PollUdp

LEMMA SlirpMoves ==
    ASSUME CardInv, HostState', gen' = gen, NEW j \in Sock, Slirp
    PROVE  PollMove(j)
<1>1. wpc # "post" /\ wpc' # "post"
  BY DEF Slirp
<1>2. HostSame(j) /\ wgen'[j] = wgen[j] /\ req' = req /\ gen'[j] = gen[j]
  BY DEF Slirp, sockVars, HostSame
<1>3. Types /\ HandSame(j)
  BY <1>1, NoHands DEF CardInv
<1>4. KeepsAsked(j)
  BY <1>2, <1>3, AskedSame
<1>5. Silent(j)
  <2>1. CASE NoEvent
    BY <1>2, <1>3, <2>1, SilentNone
  <2>2. ASSUME CanSend, NEW f \in Frame, PostEvent(Event("MacRawRx", 0, wgen[0], "None", <<f>>))
        PROVE  Silent(j)
    <3> DEFINE e == Event("MacRawRx", 0, wgen[0], "None", <<f>>)
    <3>1. 0 \in Sock /\ wgen[0] \in Nat /\ "None" \in Cause
      BY <1>3, SizeFacts, RingFacts DEF Cause
    <3>2. e \in Happened
      BY <3>1, EventType
    <3>3. e.evt = "MacRawRx"
      BY DEF Event
    <3> HIDE DEF e
    <3>4. ~IsTold(e, j)
      BY <3>3 DEF IsTold
    <3>5. Quiet(j)
      BY <1>2, <1>3, <2>2, <3>2, <3>4, ToldMore DEF e
    <3>6. Len(evt) # EvtCap
      BY <1>3, <2>2, RingFacts DEF CanSend
    <3>7. evtLost' = evtLost
      BY <2>2, <3>6 DEF PostEvent
    <3> QED
      BY <3>5, <3>7 DEF Silent
  <2> QED
    BY <2>1, <2>2 DEF Slirp, SlirpDelivers
<1> QED
  BY <1>2, <1>3, <1>4, <1>5, AsideWhen DEF PollMove

LEMMA PollMoves ==
    ASSUME CardInv, HostState', Poll, gen' = gen, NEW j \in Sock
    PROVE  PollMove(j)
BY IdlePollMoves, PollConnectMoves, PollListenMoves, PollFlushMoves, PollTakeMoves, PollPostMoves,
   PollEofMoves, PollErrorMoves, PollUdpMoves, SlirpMoves DEF Poll

(* The loop of run(), and its end.                                         *)
LEMMA LoopMoves ==
    ASSUME CardInv, HostState', RingClear, gen' = gen, NEW j \in Sock,
           Wake \/ Drained \/ ExitNotRunning \/ ExitShutdown
    PROVE  Aside(j) \/ Finishes(j)
<1>1. wpc # "post" /\ wpc' # "post" /\ NoEvent /\ wgen'[j] = wgen[j] /\ gen'[j] = gen[j]
  BY DEF Wake, Drained, ExitNotRunning, ExitShutdown, Finish, sockVars, NoEvent
<1>2. Types /\ HandSame(j) /\ HandEmpty(j)
  BY <1>1, NoHands DEF CardInv
<1>3. Silent(j)
  BY <1>1, <1>2, SilentNone
<1>4. CASE Wake \/ Drained
  <2>1. HostSame(j) /\ req' = req
    BY <1>4 DEF Wake, Drained, sockVars, hostVars, HostSame
  <2>2. KeepsAsked(j)
    BY <1>1, <1>2, <2>1, AskedSame
  <2> QED
    BY <1>1, <1>2, <1>3, <2>1, <2>2, AsideWhen
<1>5. CASE ExitNotRunning \/ ExitShutdown
  <2>1. /\ wpc' = "done" /\ wfd'[j] = "none" /\ wst'[j] = "CLOSED"
        /\ txp'[j] = << >> /\ kin'[j] = << >> /\ psent'[j] = psent[j] /\ hostgot'[j] = hostgot[j]
    BY <1>5 DEF ExitNotRunning, ExitShutdown, Finish
  <2>2. KeepsAsked(j)
    <3>1. CASE req' = req
      BY <1>1, <1>2, <3>1, AskedSame
    <3>2. CASE req # << >> /\ Head(req).msg = "Shutdown" /\ req' = Tail(req)
      <4>1. Len(req) \in Nat \ {0} /\ Head(req) = req[1]
        BY <1>2, <3>2, TakenRequest
      <4>2. req[1].gen = 0
        BY <3>2, <4>1 DEF RingClear
      <4>3. gen[j] # 0
        BY <1>2, RingFacts
      <4> HIDE DEF KeepsAsked, TakesAsked
      <4> QED
        BY <1>1, <1>2, <3>2, <4>2, <4>3, AskedTail
    <3> QED
      BY <1>5, <3>1, <3>2 DEF ExitNotRunning, ExitShutdown
  <2>3. AtWork(j)' <=> AtWork(j)
    BY <1>1 DEF AtWork
  <2> HIDE DEF KeepsAsked, Silent
  <2> QED
    BY <1>2, <1>3, <2>1, <2>2, <2>3 DEF Finishes
<1> QED
  BY <1>4, <1>5

(* The peer of socket i.                                                   *)
LEMMA PeerMoves ==
    ASSUME CardInv, PeerNext, gen' = gen, NEW j \in Sock
    PROVE  Aside(j) \/ PeerWrites(j) \/ PeerLeaves(j)
<1>1. PICK i \in Sock : PeerSend(i) \/ PeerEnds(i)
  BY DEF PeerNext
<1>2. /\ NoEvent /\ wgen'[j] = wgen[j] /\ gen'[j] = gen[j] /\ req' = req /\ wi' = wi /\ wgot' = wgot
      /\ wfd'[j] = wfd[j] /\ wst'[j] = wst[j] /\ txp'[j] = txp[j] /\ hostgot'[j] = hostgot[j]
  BY <1>1 DEF PeerSend, PeerEnds, PeerOnly, workVars
<1>3. Types /\ HandSame(j)
  BY <1>2 DEF CardInv, HandSame, InHand
<1>4. Silent(j) /\ KeepsAsked(j)
  BY <1>2, <1>3, SilentNone, AskedSame
<1>5. psent \in [Sock -> Nat] /\ kin \in [Sock -> Seq(Byte)] /\ peer \in [Sock -> {"none", "up", "fin", "rst"}]
  BY <1>3 DEF Types, WorkerTypes
<1>6. AtWork(j)' <=> AtWork(j)
  BY <1>2 DEF AtWork
<1> HIDE DEF KeepsAsked, Silent
<1>7. CASE j # i
  <2>1. HostSame(j)
    BY <1>1, <1>2, <1>5, <1>7 DEF PeerSend, PeerEnds, HostSame
  <2> QED
    BY <1>2, <1>3, <1>4, <2>1, AsideWhen
<1>8. CASE j = i /\ ~AtWork(j)
  BY <1>4, <1>6, <1>8, AsideStale DEF Silent
<1>9. CASE j = i /\ AtWork(j)
  <2>1. CASE PeerSend(i)
    <3>1. /\ peer[j] = "up" /\ psent'[j] = psent[j] + 1
          /\ kin'[j] = Append(kin[j], <<gen[j], psent[j] + 1>>)
      BY <1>5, <1>9, <2>1 DEF PeerSend, AtWork
    <3> QED
      BY <1>2, <1>3, <1>4, <1>6, <1>9, <3>1 DEF PeerWrites, Goes
  <2>2. CASE PeerEnds(i)
    <3>1. kin'[j] = kin[j] /\ psent'[j] = psent[j]
      BY <1>5, <2>2 DEF PeerEnds
    <3> QED
      BY <1>2, <1>3, <1>4, <1>6, <1>9, <3>1 DEF PeerLeaves, Goes, BytesSame
  <2> QED
    BY <1>1, <2>1, <2>2
<1> QED
  BY <1>7, <1>8, <1>9

WorkerMove(j) == RequestMove(j) \/ PollMove(j) \/ PeerWrites(j) \/ PeerLeaves(j) \/ Finishes(j)

LEMMA WorkerMoves ==
    ASSUME CardInv, HostState', RingClear, WorkerNext \/ PeerNext, gen' = gen, NEW j \in Sock
    PROVE  WorkerMove(j)
<1>1. CASE Requests \/ Poll
  BY <1>1, RequestMoves, PollMoves DEF WorkerMove
<1>2. CASE Wake \/ Drained \/ ExitNotRunning \/ ExitShutdown
  BY <1>2, LoopMoves DEF WorkerMove, PollMove
<1>3. CASE PeerNext
  BY <1>3, PeerMoves DEF WorkerMove, PollMove
<1> QED
  BY <1>1, <1>2, <1>3 DEF WorkerNext

-----------------------------------------------------------------------------
(* What a step of the chip does to socket j.                               *)

(* A request goes into the ring or, when that is full, is lost.            *)
Offers(j, r) ==
    \/ AddsAsked(j, r) /\ reqLost'[j] = reqLost[j]
    \/ KeepsAsked(j) /\ reqLost'[j] = gen[j]

NoRequest(j) == KeepsAsked(j) /\ reqLost'[j] = reqLost[j]
GhostsSame(j) == txn'[j] = txn[j] /\ taken'[j] = taken[j] /\ sendoks'[j] = sendoks[j]

(* The generation goes on, and the guest has not begun or ended an OPEN.   *)
GoesOn(j) == gen'[j] = gen[j] /\ (Opening(j)' <=> Opening(j))

Rest(j) ==
    /\ GoesOn(j) /\ NoRequest(j) /\ Quiet(j)
    /\ sr'[j] = sr[j] /\ rxbuf'[j] = rxbuf[j] /\ GhostsSame(j)

(* A new generation, of which the worker has heard nothing.                *)
Anew(j) == gen'[j] > gen[j] /\ ~AtWork(j)' /\ Told(j)' = {}

(* It is closed, or about to be opened.                                    *)
Ended(j) ==
    /\ Anew(j)
    /\ Opening(j)' \/ sr'[j] \in {"CLOSED", "IPRAW", "MACRAW"}
    /\ \A k, l \in Current(j)' : k = l /\ req'[k].msg \in Ends

(* A restore opens it again.                                               *)
Reborn(j) ==
    /\ Anew(j) /\ ~Opening(j)' /\ saved # << >>
    /\ txn'[j] = 0 /\ sendoks'[j] = 0 /\ taken'[j] + Len(rxbuf'[j]) = 0 /\ rxbuf'[j] = saved[1].rxbuf[j]
    /\ \E m \in {"OpenTcp", "OpenUdp", "AdoptListen"} :
          /\ sr'[j] = Opened(m) /\ saved[1].sr[j] = Opened(m)
          /\ \A k, l \in Current(j)' :
                \/ req'[k].msg \in Ends /\ k <= l
                \/ req'[k].msg = m /\ l <= k
          /\ reqLost'[j] # gen'[j] => \E k \in Current(j)' : req'[k].msg = m

(* OPEN ends.                                                              *)
Opens(j) ==
    /\ gen'[j] = gen[j] /\ Opening(j) /\ ~Opening(j)' /\ Quiet(j)
    /\ rxbuf'[j] = << >> /\ txn'[j] = 0 /\ taken'[j] = 0 /\ sendoks'[j] = 0
    /\ \/ sr'[j] = "INIT" /\ Offers(j, Request("OpenTcp", j, gen[j], << >>))
       \/ sr'[j] = "UDP" /\ Offers(j, Request("OpenUdp", j, gen[j], << >>))
       \/ sr'[j] \in {"CLOSED", "IPRAW", "MACRAW"} /\ NoRequest(j)

(* LISTEN and CONNECT.                                                     *)
Asks(j) ==
    /\ GoesOn(j) /\ ~Opening(j) /\ Quiet(j) /\ sr[j] = "INIT" /\ rxbuf'[j] = rxbuf[j] /\ GhostsSame(j)
    /\ \/ sr'[j] = "LISTEN" /\ AddsAsked(j, Request("AdoptListen", j, gen[j], << >>))
          /\ reqLost'[j] = reqLost[j]
       \/ sr'[j] = "SYNSENT" /\ Offers(j, Request("Connect", j, gen[j], << >>))

(* SEND.                                                                   *)
Puts(j) ==
    /\ GoesOn(j) /\ ~Opening(j) /\ Quiet(j) /\ sr[j] \in Connected \cup {"UDP", "MACRAW", "IPRAW"}
    /\ sr'[j] = sr[j] /\ rxbuf'[j] = rxbuf[j]
    /\ txn'[j] = txn[j] + TxLen /\ taken'[j] = taken[j] /\ sendoks'[j] = sendoks[j]
    /\ Offers(j, Request(SendMsg(j), j, gen[j], [k \in 1 .. TxLen |-> txn[j] + k]))

(* RECV.                                                                   *)
Reads(j) ==
    /\ GoesOn(j) /\ NoRequest(j) /\ Quiet(j)
    /\ sr'[j] = sr[j] /\ txn'[j] = txn[j] /\ sendoks'[j] = sendoks[j]
    /\ \E k \in 1 .. Len(rxbuf[j]) :
          rxbuf'[j] = ButFirstN(rxbuf[j], k) /\ taken'[j] = taken[j] + k

(* A raw frame comes in.                                                   *)
Frames(j) ==
    /\ GoesOn(j) /\ NoRequest(j) /\ Quiet(j)
    /\ sr[j] \in {"IPRAW", "MACRAW"} /\ sr'[j] = sr[j] /\ GhostsSame(j)

(* The guest is told.                                                      *)
Sees(j, e) ==
    /\ GoesOn(j) /\ ~Opening(j) /\ NoRequest(j) /\ Applies(j, e)
    /\ txn'[j] = txn[j] /\ taken'[j] = taken[j]
    /\ e.evt # "Status" => sr'[j] = sr[j]
    /\ e.evt \in {"Status", "SendDone"} => rxbuf'[j] = rxbuf[j]
    /\ e.evt # "SendDone" => sendoks'[j] = sendoks[j]

Learns(j) ==
    \E e \in Happened :
        /\ Sees(j, e)
        /\ \/ e.evt = "Status" /\ sr'[j] = StatusOf(e.cause)
           \/ e.evt = "RxTcp" /\ rxbuf'[j] = rxbuf[j] \o e.data
           \/ e.evt = "RxUdp" /\ rxbuf'[j] \in {rxbuf[j], rxbuf[j] \o (<<HeaderCell>> \o e.data)}
           \/ e.evt = "SendDone" /\ sendoks'[j] = sendoks[j] + Once01(e.cause # "Failed")

ChipMove(j) ==
    Rest(j) \/ Ended(j) \/ Reborn(j) \/ Opens(j) \/ Asks(j) \/ Puts(j) \/ Reads(j) \/ Frames(j) \/ Learns(j)

-----------------------------------------------------------------------------
(* Every step of the chip is one of these.                                 *)

LEMMA AnewWhen ==
    ASSUME CardInv, RingClear, NEW j \in Sock, gen'[j] \in Nat, gen'[j] > gen[j], wgen' = wgen, evt' = evt
    PROVE  /\ Anew(j)
           /\ \A k \in Current(j)' : k \in 1 .. Len(req) => req'[k] # req[k]
<1>1. Types /\ GenerationOrder
  BY DEF CardInv, GenOrder
<1>2. /\ wgen[j] <= gen[j] /\ InOrder(req, j, wgen[j], gen[j]) /\ NoneAhead(evt, j, gen[j])
      /\ gen[j] \in Nat /\ wgen[j] \in Nat
  BY <1>1, OrderParts, WorkerParts
<1>3. ~AtWork(j)'
  BY <1>2 DEF AtWork
<1>4. Told(j)' = {}
  BY <1>2 DEF Told, NoneAhead
<1>5. ASSUME NEW k \in Current(j)', k \in 1 .. Len(req), req'[k] = req[k] PROVE FALSE
  <2>1. req[k].sock = j /\ req[k].gen = gen'[j]
    BY <1>5 DEF Current
  <2>2. req[k].msg # "Shutdown"
    BY <1>2, <1>5, <2>1 DEF RingClear
  <2>3. req[k].gen \in wgen[j] .. gen[j]
    BY <1>2, <1>5, <2>1, <2>2 DEF InOrder
  <2> QED
    BY <1>2, <2>1, <2>3
<1> QED
  BY <1>3, <1>4, <1>5 DEF Anew

(* Another socket's step.                                                  *)
LEMMA OthersRest ==
    ASSUME Types, NEW i \in Sock, NEW j \in Sock, i # j, gen'[j] = gen[j], ~Opening(j), ~Opening(j)',
           NEW g \in Nat, NEW rs \in Seq(Requested), Post(i, g, rs), \A k \in 1 .. Len(rs) : rs[k].sock = i,
           evt' = evt, sr'[j] = sr[j], rxbuf'[j] = rxbuf[j], GhostsSame(j)
    PROVE  Rest(j)
<1>1. /\ Len(req') \in Nat /\ Len(req) \in Nat /\ Len(req) <= Len(req')
      /\ \A k \in 1 .. Len(req) : req'[k] = req[k]
      /\ \A k \in 1 .. Len(req') : k > Len(req) => k - Len(req) \in 1 .. Len(rs) /\ req'[k] = rs[k - Len(req)]
  BY PostFacts, SizeFacts DEF Types
<1>2. KeepsAsked(j)
  <2>1. \A k \in 1 .. Len(req') : k > Len(req) => ~(req'[k].sock = j /\ req'[k].gen = gen[j])
    BY <1>1
  <2> QED
    BY <1>1, <2>1, AskedOthers
<1>3. reqLost'[j] = reqLost[j]
  BY DEF Post, Types, RingTypes
<1>4. Quiet(j)
  BY ToldSame
<1> HIDE DEF KeepsAsked, Quiet
<1> QED
  BY <1>2, <1>3, <1>4 DEF Rest, NoRequest, GoesOn

(* A step that touches neither ring.                                       *)
LEMMA RestWhen ==
    ASSUME Types, NEW j \in Sock, gen'[j] = gen[j], Opening(j)' <=> Opening(j), req' = req, evt' = evt,
           reqLost'[j] = reqLost[j], sr'[j] = sr[j], rxbuf'[j] = rxbuf[j], GhostsSame(j)
    PROVE  Rest(j)
<1>1. KeepsAsked(j) /\ Quiet(j)
  BY AskedSame, ToldSame
<1> HIDE DEF KeepsAsked, Quiet
<1> QED
  BY <1>1 DEF Rest, NoRequest, GoesOn

(* A socket's new generation.                                              *)
LEMMA RenewalMoves ==
    ASSUME CardInv, RingClear, NEW i \in Sock, NEW g, NEW rs, Renewal(i, g, rs), wgen' = wgen, evt' = evt
    PROVE  /\ Anew(i)
           /\ \A k \in Current(i)' :
                 \/ rs[1].gen = g /\ k = Len(req) + 1 /\ req'[k].msg \in Ends
                 \/ Len(rs) = 2 /\ k = Len(req) + 2 /\ req'[k].msg = rs[2].msg
           /\ Len(rs) = 2 /\ reqLost'[i] # gen'[i] =>
                 Len(req) + 2 \in Current(i)' /\ req'[Len(req) + 2].msg = rs[2].msg
<1>1. Types /\ RingTypes
  BY DEF CardInv, Types
<1>2. /\ Len(req) \in Nat /\ Len(req') \in Nat /\ Len(req) <= Len(req')
      /\ \A k \in 1 .. Len(req) : req'[k] = req[k]
      /\ \A k \in 1 .. Len(req') : k > Len(req) =>
                 k - Len(req) \in 1 .. Len(rs) /\ req'[k] = rs[k - Len(req)]
      /\ gen[i] \in Nat /\ g \in Nat /\ g > gen[i] /\ gen'[i] = g
  BY <1>1, RenewedRequests
<1>3. Anew(i) /\ \A k \in Current(i)' : k \in 1 .. Len(req) => req'[k] # req[k]
  BY <1>2, AnewWhen
<1>4. /\ Len(rs) \in 1 .. 2 /\ rs[1].sock = i /\ rs[1].msg \in Ends
      /\ Len(rs) = 2 => rs[2].sock = i /\ rs[2].gen = g
      /\ rs \in Seq(Requested) /\ Post(i, g, rs)
  BY DEF Renewal, Ends
<1>5. ASSUME NEW k \in Current(i)'
      PROVE  \/ rs[1].gen = g /\ k = Len(req) + 1 /\ req'[k].msg \in Ends
             \/ Len(rs) = 2 /\ k = Len(req) + 2 /\ req'[k].msg = rs[2].msg
  <2>1. k \in 1 .. Len(req') /\ req'[k].gen = g
    BY <1>2 DEF Current
  <2>2. k > Len(req)
    BY <1>2, <1>3, <2>1
  <2>3. k - Len(req) \in 1 .. Len(rs) /\ req'[k] = rs[k - Len(req)]
    BY <1>2, <2>1, <2>2
  <2>4. k - Len(req) = 1 \/ (k - Len(req) = 2 /\ Len(rs) = 2)
    <3> DEFINE n == k - Len(req)
               m == Len(rs)
    <3>1. n \in 1 .. m /\ m \in 1 .. 2
      BY <1>4, <2>3
    <3> HIDE DEF n, m
    <3>2. n = 1 \/ (n = 2 /\ m = 2)
      BY <3>1
    <3> QED
      BY <3>2 DEF n, m
  <2>5. CASE k - Len(req) = 1
    BY <1>2, <1>4, <2>1, <2>3, <2>5
  <2>6. CASE k - Len(req) = 2 /\ Len(rs) = 2
    BY <1>2, <1>4, <2>1, <2>3, <2>6
  <2> QED
    BY <2>4, <2>5, <2>6
<1>6. ASSUME Len(rs) = 2, reqLost'[i] # gen'[i]
      PROVE  Len(req) + 2 \in Current(i)' /\ req'[Len(req) + 2].msg = rs[2].msg
  <2>1. ~(Len(req) + Len(rs) > ReqCap)
    <3>1. reqLost \in [Sock -> Nat]
      BY <1>1 DEF RingTypes
    <3> QED
      BY <1>2, <1>4, <1>6, <3>1 DEF Post
  <2>2. Len(req') = Len(req) + 2
    BY <1>1, <1>2, <1>4, <1>6, <2>1, PostFacts, SizeFacts
  <2>3. Len(req) + 2 \in 1 .. Len(req') /\ Len(req) + 2 > Len(req) /\ (Len(req) + 2) - Len(req) = 2
    BY <1>2, <2>2
  <2>4. req'[Len(req) + 2] = rs[2]
    BY <1>2, <2>3
  <2> QED
    BY <1>2, <1>4, <1>6, <2>3, <2>4 DEF Current
<1> QED
  BY <1>3, <1>5, <1>6

(* close_host by a command.                                                *)
LEMMA EndMoves ==
    ASSUME CardInv, RingClear, NEW i \in Sock, NEW j \in Sock, wgen' = wgen,
           OpenClose(i) \/ Discon(i) \/ Close(i) \/ (Listen(i) /\ ListenRefused(i))
    PROVE  ChipMove(j)
<1>0. Types /\ sr \in [Sock -> Status] /\ gen[i] \in Nat /\ gen \in [Sock -> 1 .. MaxGen]
  BY WorkerParts DEF CardInv, Types, ChipTypes
<1>1. /\ GenLeft(i) /\ evt' = evt /\ Idle
      /\ \E how \in {"Close", "CloseHost"} : CloseHost(i, gen[i] + 1, how)
      /\ rxbuf' = rxbuf /\ UNCHANGED ghosts
  BY DEF OpenClose, Discon, Close, Listen, ListenRefused, InitTcp
<1>2. \/ sr' = sr /\ emu' = <<"open", i>>
      \/ sr' = [sr EXCEPT ![i] = "CLOSED"] /\ emu' = emu
  BY DEF OpenClose, Discon, Close, Listen, ListenRefused
<1>3. PICK how \in {"Close", "CloseHost"} : CloseHost(i, gen[i] + 1, how)
  BY <1>1
<1> DEFINE g == gen[i] + 1
           r == Request(how, i, g, << >>)
           rs == <<r>>
<1>4. Renewal(i, g, rs)
  BY <1>0, <1>1, <1>3, CloseHostRenewal
<1>5. CASE j # i
  <2>1. gen'[j] = gen[j] /\ sr'[j] = sr[j] /\ rxbuf'[j] = rxbuf[j] /\ GhostsSame(j)
    BY <1>0, <1>1, <1>2, <1>3, <1>5 DEF CloseHost, ghosts, GhostsSame
  <2>2. ~Opening(j) /\ ~Opening(j)'
    BY <1>1, <1>2, <1>5 DEF Opening, Idle
  <2>3. rs \in Seq(Requested) /\ Post(i, g, rs) /\ g \in Nat /\ rs[1].sock = i
    BY <1>0, <1>4 DEF Renewal
  <2>4. \A k \in 1 .. Len(rs) : rs[k].sock = i
    BY <2>3
  <2> HIDE DEF rs, r, g
  <2>5. Rest(j)
    BY <1>0, <1>1, <1>5, <2>1, <2>2, <2>3, <2>4, OthersRest
  <2> QED
    BY <2>5 DEF ChipMove
<1>6. CASE j = i
  <2> HIDE DEF r
  <2>1. Len(rs) = 1
    OBVIOUS
  <2> HIDE DEF rs, g
  <2>2. Anew(i) /\ \A k \in Current(i)' : k = Len(req) + 1 /\ req'[k].msg \in Ends
    BY <1>1, <1>4, <2>1, RenewalMoves
  <2>3. Opening(i)' \/ sr'[i] = "CLOSED"
    BY <1>0, <1>2 DEF Opening
  <2>4. Ended(i)
    BY <2>2, <2>3 DEF Ended
  <2> QED
    BY <1>6, <2>4 DEF ChipMove
<1> QED
  BY <1>5, <1>6

(* A restore of one socket.                                                *)
LEMMA RestoreMoves ==
    ASSUME CardInv, RingClear, NEW i \in Sock, NEW j \in Sock, wgen' = wgen, Restore(i)
    PROVE  ChipMove(j)
<1>0. /\ Types /\ GenOrder /\ sr \in [Sock -> Status] /\ gen[i] \in Nat /\ gen \in [Sock -> 1 .. MaxGen]
      /\ rxbuf \in [Sock -> Seq(Cell)] /\ txn \in [Sock -> Nat] /\ taken \in [Sock -> Int] /\ sendoks \in [Sock -> Nat]
  BY WorkerParts DEF CardInv, Types, ChipTypes
<1>1. PICK g, rs : RestoredAs(i, g, rs)
  BY <1>0, RestoreRenews
<1>2. Renewal(i, g, rs) /\ evt' = evt
  BY <1>1 DEF RestoredAs, Restore
<1>3. /\ emu = <<"restore", i>> /\ emu'[1] # "open"
      /\ rxbuf' = [rxbuf EXCEPT ![i] = saved[1].rxbuf[i]]
      /\ txn' = [txn EXCEPT ![i] = 0] /\ sendoks' = [sendoks EXCEPT ![i] = 0]
      /\ taken' = [taken EXCEPT ![i] = -Len(saved[1].rxbuf[i])]
  BY DEF Restore, NextRestore
<1>4. \A l : ~Opening(l) /\ ~Opening(l)'
  <2>1. emu[1] = "restore"
    BY <1>3
  <2> QED
    BY <1>3, <2>1 DEF Opening
<1>5. saved # << >> /\ saved[1] \in Snap
  BY <1>0, <1>3, RestoreGen
<1>6. CASE j # i
  <2>1. rs \in Seq(Requested) /\ Post(i, g, rs) /\ g \in Nat /\ gen'[j] = gen[j]
    BY <1>0, <1>2, <1>6, RenewedRequests DEF Renewal
  <2>2. \A k \in 1 .. Len(rs) : rs[k].sock = i
    <3>1. Len(rs) = 1 \/ Len(rs) = 2
      BY <1>2 DEF Renewal
    <3> QED
      BY <1>2, <3>1 DEF Renewal
  <2>3. sr'[j] = sr[j] /\ rxbuf'[j] = rxbuf[j] /\ GhostsSame(j)
    BY <1>0, <1>1, <1>3, <1>6 DEF RestoredAs, GhostsSame
  <2>4. Rest(j)
    BY <1>0, <1>2, <1>4, <1>6, <2>1, <2>2, <2>3, OthersRest
  <2> QED
    BY <2>4 DEF ChipMove
<1>7. CASE j = i
  <2>1. /\ Anew(i)
        /\ \A k \in Current(i)' :
              \/ rs[1].gen = g /\ k = Len(req) + 1 /\ req'[k].msg \in Ends
              \/ Len(rs) = 2 /\ k = Len(req) + 2 /\ req'[k].msg = rs[2].msg
        /\ Len(rs) = 2 /\ reqLost'[i] # gen'[i] =>
              Len(req) + 2 \in Current(i)' /\ req'[Len(req) + 2].msg = rs[2].msg
    BY <1>2, RenewalMoves
  <2>2. Len(req) \in Nat
    BY <1>0, RingFacts
  <2>3. CASE Len(rs) = 1
    <3>1. sr'[i] \in {"CLOSED", "IPRAW", "MACRAW"}
      BY <1>0, <1>1, <2>3 DEF RestoredAs
    <3>2. Ended(i)
      BY <2>1, <2>3, <3>1 DEF Ended
    <3> QED
      BY <1>7, <3>2 DEF ChipMove
  <2>4. CASE Len(rs) = 2 /\ g = gen[i] + 2
    <3>1. rs[1].gen # g /\ rs[2].msg = "CloseHost"
      BY <1>0, <1>2, <2>4 DEF Renewal
    <3>2. sr'[i] = "CLOSED"
      BY <1>0, <1>1, <2>4, <3>1 DEF RestoredAs
    <3>3. Ended(i)
      BY <2>1, <3>1, <3>2 DEF Ended, Ends
    <3> QED
      BY <1>7, <3>3 DEF ChipMove
  <2>5. CASE Len(rs) = 2 /\ g # gen[i] + 2
    <3> DEFINE m == rs[2].msg
    <3>1. m \in {"OpenTcp", "OpenUdp", "AdoptListen"} /\ rs[1].msg \in Ends
      BY <1>2, <2>5 DEF Renewal, Ends
    <3>2. sr'[i] = Opened(m)
      BY <1>0, <1>1, <2>5, <3>1 DEF RestoredAs, Opened
    <3>3. /\ txn'[i] = 0 /\ sendoks'[i] = 0 /\ rxbuf'[i] = saved[1].rxbuf[i]
          /\ taken'[i] = -Len(saved[1].rxbuf[i])
      BY <1>0, <1>3
    <3>4. taken'[i] + Len(rxbuf'[i]) = 0
      <4>1. saved[1].rxbuf[i] \in Seq(Cell)
        BY <1>5 DEF Snap
      <4>2. Len(saved[1].rxbuf[i]) \in Nat
        BY <4>1, LenProperties
      <4> QED
        BY <3>3, <4>2
    <3>7. saved[1].sr[i] = Opened(m)
      <4>1. sr' = [sr EXCEPT ![i] = saved[1].sr[i]] \/ sr' = [sr EXCEPT ![i] = "CLOSED"]
            \/ (sr' = [sr EXCEPT ![i] = "LISTEN"] /\ saved[1].sr[i] = "LISTEN")
        BY DEF Restore, RestoreLost, RestoreOpen, RestoreListen, RestoreOther
      <4> QED
        BY <1>0, <3>1, <3>2, <4>1 DEF Opened
    <3> HIDE DEF m
    <3>5. \A k, l \in Current(i)' :
             (req'[k].msg \in Ends /\ k <= l) \/ (req'[k].msg = m /\ l <= k)
      BY <2>1, <2>2 DEF m
    <3>6. reqLost'[i] # gen'[i] => \E k \in Current(i)' : req'[k].msg = m
      BY <2>1, <2>5 DEF m
    <3>8. Reborn(i)
      BY <1>4, <1>5, <2>1, <3>1, <3>2, <3>3, <3>4, <3>5, <3>6, <3>7 DEF Reborn
    <3> QED
      BY <1>7, <3>8 DEF ChipMove
  <2> QED
    BY <1>0, <1>1, <1>2, <2>3, <2>4, <2>5 DEF Renewal
<1> QED
  BY <1>6, <1>7

(* OPEN ends.                                                              *)
LEMMA OpenFinishMoves ==
    ASSUME CardInv, NEW i \in Sock, NEW j \in Sock, OpenFinish(i)
    PROVE  ChipMove(j)
<1>0. /\ Types /\ sr \in [Sock -> Status] /\ gen[i] \in Nat
      /\ rxbuf \in [Sock -> Seq(Cell)] /\ txn \in [Sock -> Nat] /\ taken \in [Sock -> Int] /\ sendoks \in [Sock -> Nat]
  BY WorkerParts DEF CardInv, Types, ChipTypes
<1>1. /\ emu = <<"open", i>> /\ emu' = <<"idle", 0>> /\ gen' = gen /\ evt' = evt
      /\ Post(i, gen[i], OpenRequests(i)) /\ sr' = [sr EXCEPT ![i] = OpenStatus(i)]
      /\ rxbuf' = [rxbuf EXCEPT ![i] = << >>] /\ txn' = [txn EXCEPT ![i] = 0]
      /\ taken' = [taken EXCEPT ![i] = 0] /\ sendoks' = [sendoks EXCEPT ![i] = 0]
  BY DEF OpenFinish
<1>2. "OpenTcp" \in Message /\ "OpenUdp" \in Message /\ << >> \in Seq(Nat)
  BY EmptySeq DEF Message, DefinesGen
<1> DEFINE a == Request("OpenTcp", i, gen[i], << >>)
           b == Request("OpenUdp", i, gen[i], << >>)
<1>3. a \in Requested /\ b \in Requested
  BY <1>0, <1>2, RequestType
<1>4. a.sock = i /\ a.gen = gen[i] /\ b.sock = i /\ b.gen = gen[i]
  BY DEF Request
<1>5. OpenRequests(i) \in {<<a>>, <<b>>, << >>}
  BY DEF OpenRequests
<1>6. CASE j # i
  <2>1. /\ sr'[j] = sr[j] /\ rxbuf'[j] = rxbuf[j] /\ GhostsSame(j) /\ gen'[j] = gen[j]
        /\ ~Opening(j) /\ ~Opening(j)'
    BY <1>0, <1>1, <1>6 DEF GhostsSame, Opening
  <2> HIDE DEF a, b
  <2>2. OpenRequests(i) \in Seq(Requested) /\ \A k \in 1 .. Len(OpenRequests(i)) : OpenRequests(i)[k].sock = i
    <3>1. CASE OpenRequests(i) = <<a>>
      BY <1>3, <1>4, <3>1
    <3>2. CASE OpenRequests(i) = <<b>>
      BY <1>3, <1>4, <3>2
    <3>3. CASE OpenRequests(i) = << >>
      BY <3>3, EmptySeq
    <3> QED
      BY <1>5, <3>1, <3>2, <3>3
  <2>3. Rest(j)
    BY <1>0, <1>1, <1>6, <2>1, <2>2, OthersRest
  <2> QED
    BY <2>3 DEF ChipMove
<1>7. CASE j = i
  <2>1. Opening(j) /\ ~Opening(j)' /\ gen'[j] = gen[j]
    BY <1>1, <1>7 DEF Opening
  <2>2. rxbuf'[j] = << >> /\ txn'[j] = 0 /\ taken'[j] = 0 /\ sendoks'[j] = 0 /\ sr'[j] = OpenStatus(j)
    BY <1>0, <1>1, <1>7
  <2>3. Quiet(j)
    BY <1>0, <1>1, ToldSame
  <2>4. CASE mr[j] = "TCP"
    <3>1. OpenRequests(j) = <<a>> /\ sr'[j] = "INIT"
      BY <1>7, <2>2, <2>4 DEF OpenRequests, OpenStatus
    <3> HIDE DEF a
    <3>2. (AddsAsked(j, a) /\ reqLost' = reqLost) \/ (KeepsAsked(j) /\ reqLost'[j] = gen[j])
      BY <1>0, <1>1, <1>3, <1>4, <1>7, <3>1, AskedMore
    <3> HIDE DEF AddsAsked, KeepsAsked, Quiet
    <3>3. Offers(j, a)
      BY <3>2 DEF Offers
    <3> QED
      BY <1>7, <2>1, <2>2, <2>3, <3>1, <3>3 DEF ChipMove, Opens, a
  <2>5. CASE mr[j] = "UDP"
    <3>1. OpenRequests(j) = <<b>> /\ sr'[j] = "UDP"
      BY <1>7, <2>2, <2>5 DEF OpenRequests, OpenStatus
    <3> HIDE DEF b
    <3>2. (AddsAsked(j, b) /\ reqLost' = reqLost) \/ (KeepsAsked(j) /\ reqLost'[j] = gen[j])
      BY <1>0, <1>1, <1>3, <1>4, <1>7, <3>1, AskedMore
    <3> HIDE DEF AddsAsked, KeepsAsked, Quiet
    <3>3. Offers(j, b)
      BY <3>2 DEF Offers
    <3> QED
      BY <1>7, <2>1, <2>2, <2>3, <3>1, <3>3 DEF ChipMove, Opens, b
  <2>6. CASE mr[j] \notin {"TCP", "UDP"}
    <3>1. OpenRequests(i) = << >> /\ sr'[j] \in {"CLOSED", "IPRAW", "MACRAW"}
      BY <1>7, <2>2, <2>6 DEF OpenRequests, OpenStatus
    <3>2. req \in Seq(Requested) /\ Len(req) <= ReqCap /\ ReqCap \in Nat /\ Len(req) \in Nat
      BY <1>0, RingFacts
    <3>3. req' = req /\ reqLost' = reqLost
      <4>1. ~(Len(req) + Len(<< >>) > ReqCap)
        BY <3>2, EmptySeq
      <4> QED
        BY <1>1, <3>1, <3>2, <4>1, OfferNone DEF Post
    <3>4. KeepsAsked(j)
      BY <1>0, <2>1, <3>3, AskedSame
    <3> HIDE DEF KeepsAsked, Quiet
    <3> QED
      BY <2>1, <2>2, <2>3, <3>1, <3>3, <3>4 DEF ChipMove, Opens, NoRequest
  <2> QED
    BY <2>4, <2>5, <2>6
<1> QED
  BY <1>6, <1>7

(* A request of socket i's current generation.                             *)
LEMMA AskMoves ==
    ASSUME CardInv, NEW i \in Sock, NEW j \in Sock, (Listen(i) /\ ListenBound(i)) \/ Connect(i) \/ Send(i)
    PROVE  ChipMove(j)
<1>0. /\ Types /\ sr \in [Sock -> Status] /\ gen[i] \in Nat /\ txn \in [Sock -> Nat] /\ txn[i] \in Nat
      /\ TxLen \in Nat
  BY WorkerParts, ChipAssumption DEF CardInv, Types, ChipTypes
<1>1. /\ Idle /\ emu' = emu /\ gen' = gen /\ evt' = evt /\ rxbuf' = rxbuf /\ taken' = taken /\ sendoks' = sendoks
  BY DEF Listen, ListenBound, Connect, Send, InitTcp, ghosts
<1>2. \A l : ~Opening(l) /\ ~Opening(l)'
  BY <1>1 DEF Idle, Opening
<1> DEFINE a == Request("AdoptListen", i, gen[i], << >>)
           c == Request("Connect", i, gen[i], << >>)
           b == [k \in 1 .. TxLen |-> txn[i] + k]
           d == Request(SendMsg(i), i, gen[i], b)
<1>3. a \in Requested /\ c \in Requested /\ d \in Requested
  <2>1. "AdoptListen" \in Message /\ "Connect" \in Message /\ SendMsg(i) \in Message /\ << >> \in Seq(Nat)
    BY EmptySeq DEF Message, DefinesGen, SendMsg, RawTx
  <2>2. b \in Seq(Nat)
    <3>1. \A k \in 1 .. TxLen : txn[i] + k \in Nat
      BY <1>0
    <3> QED
      BY <1>0, <3>1, IsASeq
  <2> QED
    BY <1>0, <2>1, <2>2, RequestType
<1>4. /\ a.sock = i /\ a.gen = gen[i] /\ c.sock = i /\ c.gen = gen[i] /\ d.sock = i /\ d.gen = gen[i]
  BY DEF Request
<1> HIDE DEF a, c
<1>5. \/ /\ Post(i, gen[i], <<a>>) /\ Len(req) < ReqCap /\ sr[i] = "INIT"
         /\ sr' = [sr EXCEPT ![i] = "LISTEN"] /\ txn' = txn
      \/ Post(i, gen[i], <<c>>) /\ sr[i] = "INIT" /\ sr' = [sr EXCEPT ![i] = "SYNSENT"] /\ txn' = txn
      \/ /\ Post(i, gen[i], <<d>>) /\ sr' = sr /\ txn' = [txn EXCEPT ![i] = @ + TxLen]
         /\ sr[i] \in Connected \cup {"UDP", "MACRAW", "IPRAW"}
  BY DEF Listen, ListenBound, Connect, Send, InitTcp, ghosts, a, c
<1> HIDE DEF d
<1>6. CASE j # i
  <2>1. PICK r \in Requested : r.sock = i /\ Post(i, gen[i], <<r>>)
    BY <1>3, <1>4, <1>5
  <2>2. sr'[j] = sr[j] /\ rxbuf'[j] = rxbuf[j] /\ GhostsSame(j) /\ gen'[j] = gen[j]
    BY <1>0, <1>1, <1>5, <1>6 DEF GhostsSame
  <2> DEFINE rs == <<r>>
  <2>3. rs \in Seq(Requested) /\ Post(i, gen[i], rs) /\ \A k \in 1 .. Len(rs) : rs[k].sock = i
    BY <2>1
  <2> HIDE DEF rs
  <2>4. Rest(j)
    BY <1>0, <1>1, <1>2, <1>6, <2>2, <2>3, OthersRest
  <2> QED
    BY <2>4 DEF ChipMove
<1>7. CASE j = i
  <2>1. GoesOn(j) /\ ~Opening(j)
    BY <1>1, <1>2 DEF GoesOn
  <2>2. Quiet(j)
    BY <1>0, <1>1, ToldSame
  <2>3. \A r \in Requested : r.sock = j /\ r.gen = gen[j] /\ Post(j, gen[j], <<r>>) =>
           (AddsAsked(j, r) /\ reqLost' = reqLost) \/ (KeepsAsked(j) /\ reqLost'[j] = gen[j])
    BY <1>0, <1>1, AskedMore
  <2>4. CASE /\ Post(i, gen[i], <<a>>) /\ Len(req) < ReqCap /\ sr[i] = "INIT"
             /\ sr' = [sr EXCEPT ![i] = "LISTEN"] /\ txn' = txn
    <3>1. AddsAsked(j, a) /\ reqLost'[j] = reqLost[j]
      <4>1. Len(req) \in Nat /\ ReqCap \in Nat
        BY <1>0, RingFacts
      <4>2. ~(Len(req) + Len(<<a>>) > ReqCap)
        BY <2>4, <4>1
      <4>3. reqLost' = reqLost
        BY <2>4, <4>2 DEF Post
      <4>4. OneMore(req', Requested, req, a, ReqCap)
        BY <1>0, <1>3, <2>4, PostOne DEF Types
      <4> DEFINE n == Len(req) + 1
      <4>5. Len(req') = n /\ (\A k \in 1 .. Len(req) : req'[k] = req[k]) /\ req'[n] = a
        BY <2>4, <4>1, <4>4 DEF OneMore
      <4>6. /\ \A k \in Current(j)' : k = n \/ (k \in Current(j) /\ req'[k] = req[k])
            /\ \A k \in Current(j) : k \in Current(j)' /\ k < n
            /\ n \in Current(j)'
        BY <1>1, <1>4, <1>7, <4>1, <4>5 DEF Current
      <4> QED
        BY <4>3, <4>5, <4>6 DEF AddsAsked
    <3>2. sr'[j] = "LISTEN" /\ rxbuf'[j] = rxbuf[j] /\ GhostsSame(j)
      BY <1>0, <1>1, <1>7, <2>4 DEF GhostsSame
    <3> HIDE DEF AddsAsked, Quiet
    <3> QED
      BY <1>7, <2>1, <2>2, <2>4, <3>1, <3>2 DEF ChipMove, Asks, a
  <2>5. CASE Post(i, gen[i], <<c>>) /\ sr[i] = "INIT" /\ sr' = [sr EXCEPT ![i] = "SYNSENT"] /\ txn' = txn
    <3> HIDE DEF AddsAsked, KeepsAsked, Quiet
    <3>1. Offers(j, c)
      BY <1>3, <1>4, <1>7, <2>3, <2>5 DEF Offers
    <3>2. sr'[j] = "SYNSENT" /\ rxbuf'[j] = rxbuf[j] /\ GhostsSame(j)
      BY <1>0, <1>1, <1>7, <2>5 DEF GhostsSame
    <3> QED
      BY <1>7, <2>1, <2>2, <2>5, <3>1, <3>2 DEF ChipMove, Asks, c
  <2>6. CASE /\ Post(i, gen[i], <<d>>) /\ sr' = sr /\ txn' = [txn EXCEPT ![i] = @ + TxLen]
             /\ sr[i] \in Connected \cup {"UDP", "MACRAW", "IPRAW"}
    <3> HIDE DEF AddsAsked, KeepsAsked, Quiet
    <3>1. Offers(j, d)
      BY <1>3, <1>4, <1>7, <2>3, <2>6 DEF Offers
    <3>2. /\ sr'[j] = sr[j] /\ rxbuf'[j] = rxbuf[j] /\ txn'[j] = txn[j] + TxLen /\ taken'[j] = taken[j]
          /\ sendoks'[j] = sendoks[j]
      BY <1>0, <1>1, <1>7, <2>6
    <3> QED
      BY <1>7, <2>1, <2>2, <2>6, <3>1, <3>2 DEF ChipMove, Puts, d
  <2> QED
    BY <1>5, <2>4, <2>5, <2>6
<1> QED
  BY <1>6, <1>7

(* RECV: nothing is pending, so the buffer loses what was read.            *)
LEMMA RecvMoves ==
    ASSUME CardInv, NEW i \in Sock, NEW j \in Sock, NEW k, Recv(i, k)
    PROVE  ChipMove(j)
<1>0. Types /\ rxbuf \in [Sock -> Seq(Cell)] /\ taken \in [Sock -> Int] /\ Fits(i)
  BY DEF CardInv, Types, ChipTypes
<1>1. /\ k \in 1 .. Len(rxbuf[i]) /\ taken' = [taken EXCEPT ![i] = @ + k]
      /\ UNCHANGED <<emu, sr, gen, txn, sendoks, req, evt, reqLost>>
  BY DEF Recv, RxRsr
<1> DEFINE b == ButFirstN(rxbuf[i], k)
           f == Flushed(i, b, rxpend[i])
<1>2. rxbuf' = [rxbuf EXCEPT ![i] = f.buf] /\ rxpend[i] = << >>
  BY <1>0 DEF Recv, Fits
<1>3. f.buf = b
  <2>1. b \in Seq(Cell) /\ << >> \in Seq(Cell)
    BY <1>0, <1>1, WholeRest, ByteCells DEF CardInv
  <2> HIDE DEF b
  <2> QED
    BY <1>2, <2>1, FlushedFacts
<1> HIDE DEF f
<1>4. KeepsAsked(j) /\ Quiet(j)
  BY <1>0, <1>1, AskedSame, ToldSame
<1> HIDE DEF KeepsAsked, Quiet
<1>5. GoesOn(j) /\ NoRequest(j) /\ sr'[j] = sr[j] /\ txn'[j] = txn[j] /\ sendoks'[j] = sendoks[j]
  BY <1>1, <1>4 DEF GoesOn, NoRequest, Opening
<1>6. CASE j # i
  <2>1. rxbuf'[j] = rxbuf[j] /\ taken'[j] = taken[j]
    BY <1>0, <1>1, <1>2, <1>6
  <2> QED
    BY <1>4, <1>5, <2>1 DEF ChipMove, Rest, GhostsSame
<1>7. CASE j = i
  <2>1. rxbuf'[j] = ButFirstN(rxbuf[j], k) /\ taken'[j] = taken[j] + k /\ k \in 1 .. Len(rxbuf[j])
    BY <1>0, <1>1, <1>2, <1>3, <1>7
  <2> QED
    BY <1>4, <1>5, <2>1 DEF ChipMove, Reads
<1> QED
  BY <1>6, <1>7

(* Received bytes find room in the buffer, since the worker had credit.    *)
LEMMA RxTcpMoves ==
    ASSUME CardInv, NEW e, ApplyRxTcp(e), e \in Happened, evt # << >>, e = evt[1], e.gen = gen[e.sock],
           evt' = Tail(evt), gen' = gen
    PROVE  rxbuf'[e.sock] = rxbuf[e.sock] \o e.data
<1> DEFINE j == e.sock
           b == Len(rxbuf[j])
           ring == Len(InRing(j))
           ring1 == Len(InRing(j)')
           hand == Len(InHand(j))
           d == Len(e.data)
<1>1. /\ j \in Sock /\ Types /\ emu = <<"tick", 0>> /\ e.evt = "RxTcp" /\ ProtocolOk(j) /\ Fits(j)
  BY EventData DEF CardInv, ApplyRxTcp, Applying
<1>2. rxbuf \in [Sock -> Seq(Cell)] /\ rxpend[j] = << >>
  BY <1>1 DEF Types, ChipTypes, Fits
<1>3. Phase(j) = "stream"
  <2>1. 1 \in Told(j) /\ evt[1] = e
    <3>1. Len(evt) \in Nat \ {0}
      BY <1>1, RingFacts, EmptySeq
    <3> QED
      BY <1>1, <3>1 DEF Told
  <2> QED
    BY <1>1, <2>1, PhaseCases DEF ProtocolOk, Heard
<1>4. sr[j] \notin Headed /\ HeaderSize(j) = 0
  BY <1>1, <1>3, PhaseCases DEF Opening, HeaderSize, Headed
<1>5. e.data \in Seq(Byte) /\ e.data \in Seq(Cell)
  BY <1>1, EventData, ByteCells
<1>6. ring = d + ring1 /\ ring1 \in Nat
  <2>1. InRing(j) = Carried(evt[1], j, gen[j]) \o InRing(j)'
    <3>1. evt \in Seq(Happened)
      BY <1>1, RingFacts
    <3>2. AllCarried(evt, j, gen[j]) = Carried(evt[1], j, gen[j]) \o AllCarried(Tail(evt), j, gen[j])
      BY <3>1, CarriedTail
    <3> QED
      BY <3>2 DEF InRing
  <2>2. Carried(evt[1], j, gen[j]) = e.data
    BY <1>1 DEF Carried
  <2>3. InRing(j)' \in Seq(Byte)
    <3>1. evt' \in Seq(Happened)
      BY <1>1, RingFacts, TailFacts
    <3>2. PICK f : CarriedBy(f, evt', j, gen[j])
      BY <3>1, CarriedSteps
    <3>3. Len(evt') \in 0 .. Len(evt')
      BY <3>1, LenProperties
    <3> QED
      BY <3>2, <3>3 DEF CarriedBy, InRing
  <2> QED
    BY <1>5, <2>1, <2>2, <2>3, ConcatProperties, LenProperties
<1>7. /\ b \in Nat /\ hand \in Nat /\ d \in Nat /\ MaxOf(credit[j], 0) \in Nat /\ Room \in Nat
  <2>1. credit[j] \in Int /\ hand \in Nat /\ Room \in Nat
    BY <1>1, WayLength, SizeFacts DEF WayOk, Types, RingTypes
  <2>2. b \in Nat /\ d \in Nat
    BY <1>1, <1>2, <1>5, LenProperties
  <2> QED
    BY <2>1, <2>2 DEF MaxOf
<1>8. b + (ring + hand) + MaxOf(credit[j], 0) <= Room
  BY <1>1, <1>4, WayLength DEF WayOk, Fits
<1>9. b + d + HeaderSize(j) <= Room
  <2> HIDE DEF b, ring, ring1, hand, d, j
  <2> QED
    BY <1>4, <1>6, <1>7, <1>8
<1> DEFINE f == Flushed(j, rxbuf[j], rxpend[j])
           g == Flushed(j, f.buf, e.data)
<1>10. rxbuf'[j] = g.buf
  BY <1>1, <1>2 DEF ApplyRxTcp
<1>11. f.buf = rxbuf[j]
  <2>1. rxbuf[j] \in Seq(Cell) /\ rxpend[j] \in Seq(Cell)
    BY <1>1, <1>2, ByteCells
  <2> QED
    BY <1>1, <1>2, <2>1, FlushedFacts
<1> HIDE DEF f
<1>12. AllMoves(Flushed(j, rxbuf[j], e.data), rxbuf[j], e.data)
  BY <1>1, <1>2, <1>5, <1>9, FlushedAll
<1>13. g.buf = rxbuf[j] \o e.data
  BY <1>11, <1>12, Zenon DEF AllMoves
<1> HIDE DEF g
<1> QED
  BY <1>10, <1>13, Zenon

(* apply_event.                                                            *)
LEMMA ApplyMoves ==
    ASSUME CardInv, NEW j \in Sock, ApplyEvent
    PROVE  ChipMove(j)
<1>0. /\ Types /\ RingTypes /\ sr \in [Sock -> Status] /\ rxbuf \in [Sock -> Seq(Cell)]
      /\ sendoks \in [Sock -> Nat] /\ HostState
  BY DEF CardInv, Types, ChipTypes
<1>1. PICK e : \/ ApplyStale(e) \/ ApplyStatus(e) \/ ApplyRxTcp(e)
               \/ ApplyRxUdp(e) \/ ApplyMacRaw(e) \/ ApplySendDone(e)
  BY DEF ApplyEvent
<1>2. Applying(e) /\ emu = <<"tick", 0>>
  BY <1>1 DEF ApplyStale, ApplyStatus, ApplyRxTcp, ApplyRxUdp, ApplyMacRaw, ApplySendDone, Applying
<1>3. /\ Oldest(e) /\ evt' = Tail(evt) /\ UNCHANGED <<emu, gen, txn, taken, req, reqLost>>
  BY <1>0, <1>2, AppliedEvent
<1>4. e \in Happened /\ e.sock \in Sock /\ evt # << >> /\ e = evt[1]
  BY <1>3 DEF Oldest
<1>5. IF IsTold(e, j) THEN Applies(j, e) ELSE Quiet(j)
  BY <1>0, <1>3, <1>4, ToldTail
<1>6. KeepsAsked(j)
  BY <1>0, <1>3, AskedSame
<1> HIDE DEF KeepsAsked, Quiet, Applies
<1>7. GoesOn(j) /\ ~Opening(j) /\ NoRequest(j) /\ txn'[j] = txn[j] /\ taken'[j] = taken[j]
  BY <1>2, <1>3, <1>6 DEF GoesOn, Opening, NoRequest
<1>8. CASE ApplyStale(e) \/ (e.sock # j /\ ~ApplyMacRaw(e))
  <2>1. ~IsTold(e, j)
    BY <1>8 DEF IsTold, ApplyStale, Stale
  <2>2. sr'[j] = sr[j] /\ rxbuf'[j] = rxbuf[j] /\ sendoks'[j] = sendoks[j]
    BY <1>0, <1>1, <1>4, <1>8 DEF ApplyStale, ApplyStatus, ApplyRxTcp, ApplyRxUdp, ApplySendDone
  <2> QED
    BY <1>5, <1>7, <2>1, <2>2 DEF ChipMove, Rest, GhostsSame
<1>9. CASE ApplyMacRaw(e)
  <2>1. ~IsTold(e, j) /\ sr' = sr /\ sendoks' = sendoks
    BY <1>9 DEF IsTold, ApplyMacRaw
  <2>2. CASE rxbuf'[j] = rxbuf[j]
    BY <1>5, <1>7, <2>1, <2>2 DEF ChipMove, Rest, GhostsSame
  <2>3. CASE rxbuf'[j] # rxbuf[j]
    <3>1. PICK i \in Sock : /\ IpRawTakes(i, e) \/ MacRawTakes(i, e)
                            /\ rxbuf' = [rxbuf EXCEPT ![i] = @ \o <<HeaderCell, RawCell>>]
      BY <1>9, <2>3 DEF ApplyMacRaw
    <3>3. sr[i] \in {"IPRAW", "MACRAW"}
      BY <3>1 DEF IpRawTakes, MacRawTakes
    <3>2. rxbuf' = [rxbuf EXCEPT ![i] = @ \o <<HeaderCell, RawCell>>]
      BY <3>1
    <3>4. j = i
      BY <1>0, <2>3, <3>2
    <3> QED
      BY <1>5, <1>7, <2>1, <3>3, <3>4 DEF ChipMove, Frames, GhostsSame
  <2> QED
    BY <2>2, <2>3
<1>10. ASSUME e.sock = j, ~ApplyStale(e), ~ApplyMacRaw(e)
       PROVE  ChipMove(j)
  <2>1. e.gen = gen[j] /\ e.evt \in {"Status", "RxTcp", "RxUdp", "SendDone"} /\ IsTold(e, j)
    BY <1>1, <1>10 DEF ApplyStatus, ApplyRxTcp, ApplyRxUdp, ApplySendDone, Stale, IsTold
  <2>2. Applies(j, e)
    BY <1>5, <2>1
  <2>3. CASE ApplyStatus(e)
    <3>1. /\ e.evt = "Status" /\ sr'[j] = StatusOf(e.cause) /\ rxbuf'[j] = rxbuf[j] /\ sendoks'[j] = sendoks[j]
      BY <1>0, <1>10, <2>3 DEF ApplyStatus
    <3>2. Sees(j, e)
      BY <1>7, <2>2, <3>1 DEF Sees
    <3> QED
      BY <1>4, <3>1, <3>2 DEF ChipMove, Learns
  <2>4. CASE ApplyRxTcp(e)
    <3>1. /\ e.evt = "RxTcp" /\ sr'[j] = sr[j] /\ sendoks'[j] = sendoks[j]
      BY <2>4 DEF ApplyRxTcp
    <3>2. rxbuf'[j] = rxbuf[j] \o e.data
      BY <1>3, <1>4, <1>10, <2>1, <2>4, RxTcpMoves
    <3>3. Sees(j, e)
      BY <1>7, <2>2, <3>1 DEF Sees
    <3> QED
      BY <1>4, <3>1, <3>2, <3>3 DEF ChipMove, Learns
  <2>5. CASE ApplyRxUdp(e)
    <3>1. /\ e.evt = "RxUdp" /\ sr'[j] = sr[j] /\ sendoks'[j] = sendoks[j]
          /\ rxbuf'[j] \in {rxbuf[j], rxbuf[j] \o (<<HeaderCell>> \o e.data)}
      BY <1>0, <1>10, <2>5 DEF ApplyRxUdp
    <3>2. Sees(j, e)
      BY <1>7, <2>2, <3>1 DEF Sees
    <3> QED
      BY <1>4, <3>1, <3>2 DEF ChipMove, Learns
  <2>6. CASE ApplySendDone(e)
    <3>1. /\ e.evt = "SendDone" /\ sr'[j] = sr[j] /\ rxbuf'[j] = rxbuf[j]
          /\ sendoks'[j] = sendoks[j] + Once01(e.cause # "Failed")
      BY <1>0, <1>10, <2>6 DEF ApplySendDone, Once01
    <3>2. Sees(j, e)
      BY <1>7, <2>2, <3>1 DEF Sees
    <3> QED
      BY <1>4, <3>1, <3>2 DEF ChipMove, Learns
  <2> QED
    BY <1>1, <1>10, <2>3, <2>4, <2>5, <2>6
<1> QED
  BY <1>8, <1>9, <1>10

(* reset().                                                                *)
LEMMA ResetMoves ==
    ASSUME CardInv, RingClear, NEW j \in Sock, Reset, wgen' = wgen
    PROVE  ChipMove(j)
<1> DEFINE g == [i \in Sock |-> gen[i] + 1]
           rs == [k \in 1 .. NSock |-> Request("CloseHost", k - 1, g[k - 1], << >>)]
<1>0. Types /\ gen \in [Sock -> 1 .. MaxGen]
  BY DEF CardInv, Types, ChipTypes
<1>1. g \in [Sock -> Nat]
  BY <1>0, SizeFacts
<1>2. rs = [k \in 1 .. NSock |-> Request("CloseHost", k - 1, gen[k - 1] + 1, << >>)]
  <2>1. \A k \in 1 .. NSock : k - 1 \in Sock
    BY SizeFacts DEF Sock
  <2> QED
    BY <2>1
<1>3. rs \in Seq(Requested) /\ Len(rs) = NSock
      /\ \A k \in 1 .. NSock : rs[k].sock = k - 1 /\ rs[k].msg = "CloseHost"
  <2> HIDE DEF g
  <2> QED
    BY <1>1, ResetRequests
<1> HIDE DEF rs
<1>4. req' = Offer(req, rs, ReqCap) /\ evt' = evt /\ sr'[j] = "CLOSED" /\ gen'[j] = gen[j] + 1
  BY <1>2 DEF Reset
<1>5. gen'[j] \in Nat /\ gen'[j] > gen[j]
  BY <1>0, <1>4, SizeFacts
<1>6. Anew(j) /\ \A k \in Current(j)' : k \in 1 .. Len(req) => req'[k] # req[k]
  BY <1>4, <1>5, AnewWhen
<1>7. /\ Len(req) \in Nat /\ Len(req') \in Nat
      /\ \A k \in 1 .. Len(req) : req'[k] = req[k]
      /\ \A k \in 1 .. Len(req') : k > Len(req) => k - Len(req) \in 1 .. Len(rs) /\ req'[k] = rs[k - Len(req)]
  <2>1. req \in Seq(Requested) /\ Len(req) <= ReqCap /\ ReqCap \in Nat /\ Len(req) \in Nat
    BY <1>0, RingFacts
  <2> QED
    BY <1>3, <1>4, <2>1, OfferFacts
<1>8. \A k \in Current(j)' : k = Len(req) + j + 1 /\ req'[k].msg \in Ends
  <2> SUFFICES ASSUME NEW k \in Current(j)' PROVE k = Len(req) + j + 1 /\ req'[k].msg \in Ends
    OBVIOUS
  <2>1. k \in 1 .. Len(req') /\ req'[k].sock = j
    BY DEF Current
  <2>2. k > Len(req)
    BY <1>6, <1>7, <2>1
  <2>3. k - Len(req) \in 1 .. NSock /\ req'[k] = rs[k - Len(req)]
    BY <1>3, <1>7, <2>1, <2>2
  <2>4. j = (k - Len(req)) - 1 /\ req'[k].msg = "CloseHost"
    BY <1>3, <2>1, <2>3
  <2> QED
    BY <1>7, <2>1, <2>4 DEF Ends
<1>9. Ended(j)
  BY <1>4, <1>6, <1>8 DEF Ended
<1> QED
  BY <1>9 DEF ChipMove

(* Steps of the emulator thread that touch no socket.                      *)
LEMMA QuietMoves ==
    ASSUME CardInv, NEW j \in Sock,
           TickBegin \/ TickEnd \/ Snapshot \/ RestoreBegin \/ Stop \/ StopJoin
    PROVE  ChipMove(j)
<1>0. Types /\ rxbuf[j] \in Seq(Cell) /\ rxpend[j] = << >> /\ gen[j] \in Nat \ {0}
  BY RingFacts DEF CardInv, Types, ChipTypes, Fits
<1>1. UNCHANGED <<gen, sr, evt, reqLost, txn, taken, sendoks>>
  BY DEF TickBegin, TickEnd, Snapshot, RestoreBegin, Stop, StopJoin, ghosts
<1>2. ~Opening(j) /\ ~Opening(j)'
  <2>1. emu[1] # "open" /\ emu'[1] # "open"
    BY DEF TickBegin, TickEnd, Snapshot, RestoreBegin, Stop, StopJoin, Idle
  <2> QED
    BY <2>1 DEF Opening
<1>3. rxbuf'[j] = rxbuf[j]
  <2>1. CASE TickBegin
    <3> DEFINE f == Flushed(j, rxbuf[j], rxpend[j])
    <3>1. rxbuf'[j] = f.buf
      BY <2>1 DEF TickBegin
    <3>2. f.buf = rxbuf[j]
      <4>1. rxpend[j] \in Seq(Cell)
        BY <1>0, ByteCells
      <4> QED
        BY <1>0, <4>1, FlushedFacts
    <3> QED
      BY <3>1, <3>2
  <2>2. CASE ~TickBegin
    BY <2>2 DEF TickEnd, Snapshot, RestoreBegin, Stop, StopJoin
  <2> QED
    BY <2>1, <2>2
<1>4. KeepsAsked(j)
  <2>1. CASE Stop
    <3> DEFINE r == Request("Shutdown", 0, 0, << >>)
    <3>1. r \in Requested /\ r.gen = 0
      BY RequestType, EmptySeq, SizeFacts DEF Message, Request
    <3>2. req' = Offer(req, <<r>>, ReqCap)
      BY <2>1 DEF Stop
    <3> HIDE DEF r
    <3>3. req \in Seq(Requested) /\ Len(req) <= ReqCap /\ ReqCap \in Nat /\ Len(req) \in Nat
      BY <1>0, RingFacts
    <3>4. OneMore(req', Requested, req, r, ReqCap)
      BY <3>1, <3>2, <3>3, OfferOne
    <3>5. /\ Len(req') \in Nat /\ Len(req') >= Len(req) /\ \A k \in 1 .. Len(req) : req'[k] = req[k]
          /\ \A k \in 1 .. Len(req') : k > Len(req) => req'[k].gen # gen[j]
      BY <1>0, <3>1, <3>3, <3>4 DEF OneMore
    <3> QED
      BY <1>0, <1>1, <3>5, AskedOthers
  <2>2. CASE ~Stop
    <3>1. req' = req
      BY <2>2 DEF TickBegin, TickEnd, Snapshot, RestoreBegin, StopJoin
    <3> QED
      BY <1>0, <1>1, <3>1, AskedSame
  <2> QED
    BY <2>1, <2>2
<1>5. Quiet(j)
  BY <1>0, <1>1, ToldSame
<1> HIDE DEF KeepsAsked, Quiet
<1> QED
  BY <1>1, <1>2, <1>3, <1>4, <1>5 DEF ChipMove, Rest, GoesOn, NoRequest, GhostsSame

(* The registers that hold what the guest wrote.                           *)
LEMMA RegisterMoves ==
    ASSUME CardInv, NEW i \in Sock, NEW j \in Sock,
           (\E p \in Protocol : WriteMR(i, p)) \/ WriteIR(i) \/ SendKeep(i)
    PROVE  ChipMove(j)
<1>1. UNCHANGED <<emu, gen, sr, req, evt, reqLost, rxbuf, txn, taken, sendoks>>
  BY DEF WriteMR, WriteIR, SendKeep, ghosts
<1>2. Types
  BY DEF CardInv
<1>3. Rest(j)
  BY <1>1, <1>2, RestWhen DEF GhostsSame, Opening
<1> QED
  BY <1>3 DEF ChipMove

LEMMA ChipMoves ==
    ASSUME CardInv, RingClear, NEW j \in Sock, ChipNext \/ StopJoin, wgen' = wgen
    PROVE  ChipMove(j)
<1>1. CASE \E i \in Sock : Command(i)
  <2>1. PICK i \in Sock : Command(i)
    BY <1>1
  <2>2. \/ (\E p \in Protocol : WriteMR(i, p)) \/ WriteIR(i) \/ SendKeep(i)
        \/ OpenClose(i) \/ Discon(i) \/ Close(i) \/ (Listen(i) /\ ListenRefused(i))
        \/ (Listen(i) /\ ListenBound(i)) \/ Connect(i) \/ Send(i)
        \/ OpenFinish(i) \/ (\E k : Recv(i, k)) \/ Restore(i)
    BY <2>1 DEF Command, Listen
  <2> QED
    BY <2>2, RegisterMoves, EndMoves, AskMoves, OpenFinishMoves, RecvMoves, RestoreMoves
<1>2. CASE Reset
  BY <1>2, ResetMoves
<1>3. CASE TickBegin \/ TickEnd \/ Snapshot \/ RestoreBegin \/ Stop \/ StopJoin
  BY <1>3, QuietMoves
<1>4. CASE ApplyEvent
  BY <1>4, ApplyMoves
<1> QED
  BY <1>1, <1>2, <1>3, <1>4 DEF ChipNext

-----------------------------------------------------------------------------
(* RingClear is an invariant.                                              *)

(* Requests that the ring had, or that are no Shutdown but stop()'s.       *)
OldOrClear ==
    \A k \in 1 .. Len(req') :
        \/ k \in 1 .. Len(req) /\ req'[k] = req[k]
        \/ req'[k].msg = "Shutdown" => req'[k].gen = 0

LEMMA PostClear ==
    ASSUME Types, NEW rs \in Seq(Requested), req' = Offer(req, rs, ReqCap),
           \A k \in 1 .. Len(rs) : rs[k].msg = "Shutdown" => rs[k].gen = 0
    PROVE  OldOrClear
<1>1. req \in Seq(Requested) /\ Len(req) <= ReqCap /\ ReqCap \in Nat /\ Len(req) \in Nat
  BY SizeFacts, LenProperties DEF Types, RingTypes
<1>2. /\ Len(req') \in Nat
      /\ \A k \in 1 .. Len(req) : req'[k] = req[k]
      /\ \A k \in 1 .. Len(req') : k > Len(req) => k - Len(req) \in 1 .. Len(rs) /\ req'[k] = rs[k - Len(req)]
  <2> DEFINE new == Offer(req, rs, ReqCap)
  <2>1. new \in Seq(Requested)
    BY <1>1, OfferFacts
  <2>2. \A k \in 1 .. Len(req) : new[k] = req[k]
    BY <1>1, OfferFacts
  <2>3. \A k \in 1 .. Len(new) : k > Len(req) => k - Len(req) \in 1 .. Len(rs) /\ new[k] = rs[k - Len(req)]
    BY <1>1, OfferFacts
  <2>4. req' = new
    OBVIOUS
  <2> HIDE DEF new
  <2>5. Len(new) \in Nat
    BY <2>1, LenProperties
  <2> QED
    BY <2>2, <2>3, <2>4, <2>5, Zenon
<1> SUFFICES ASSUME NEW k \in 1 .. Len(req')
             PROVE  \/ k \in 1 .. Len(req) /\ req'[k] = req[k]
                    \/ req'[k].msg = "Shutdown" => req'[k].gen = 0
  BY DEF OldOrClear
<1>3. CASE k <= Len(req)
  BY <1>1, <1>2, <1>3
<1>4. CASE k > Len(req)
  BY <1>2, <1>4
<1> QED
  BY <1>1, <1>2, <1>3, <1>4

LEMMA OneClear ==
    ASSUME Types, NEW i \in Sock, NEW g \in Nat, NEW m \in Message, m # "Shutdown", NEW b \in Seq(Nat),
           Post(i, g, <<Request(m, i, g, b)>>)
    PROVE  OldOrClear
<1> DEFINE r == Request(m, i, g, b)
           rs == <<r>>
<1>1. r \in Requested /\ r.msg = m
  BY RequestType DEF Request
<1> HIDE DEF r
<1>2. rs \in Seq(Requested) /\ \A k \in 1 .. Len(rs) : rs[k].msg # "Shutdown"
  BY <1>1
<1>3. req' = Offer(req, rs, ReqCap)
  BY DEF Post, r
<1> HIDE DEF rs
<1> QED
  BY <1>2, <1>3, PostClear

LEMMA RenewalClear ==
    ASSUME Types, NEW i, NEW g, NEW rs, Renewal(i, g, rs)
    PROVE  OldOrClear
<1>1. rs \in Seq(Requested) /\ req' = Offer(req, rs, ReqCap) /\ (Len(rs) = 1 \/ Len(rs) = 2)
  BY DEF Renewal, Post
<1>2. \A k \in 1 .. Len(rs) : rs[k].msg # "Shutdown"
  BY <1>1 DEF Renewal
<1> QED
  BY <1>1, <1>2, PostClear

LEMMA CommandClear ==
    ASSUME Types, GenOrder, NEW i \in Sock, Command(i)
    PROVE  OldOrClear
<1>1. gen[i] \in Nat /\ txn[i] \in Nat /\ TxLen \in Nat
  BY WorkerParts, ChipAssumption DEF Types, ChipTypes
<1>2. req' = req => OldOrClear
  BY DEF OldOrClear
<1>3. CASE (\E p \in Protocol : WriteMR(i, p)) \/ WriteIR(i) \/ SendKeep(i) \/ (\E k \in 1 .. RxSize : Recv(i, k))
  BY <1>2, <1>3 DEF WriteMR, WriteIR, SendKeep, Recv
<1>4. CASE OpenClose(i) \/ Discon(i) \/ Close(i) \/ (Listen(i) /\ ListenRefused(i))
  <2>1. GenLeft(i) /\ \E how \in {"Close", "CloseHost"} : CloseHost(i, gen[i] + 1, how)
    BY <1>4 DEF OpenClose, Discon, Close, Listen, ListenRefused, InitTcp
  <2>2. PICK rs : Renewal(i, gen[i] + 1, rs)
    BY <2>1, CloseHostRenewal
  <2> QED
    BY <2>2, RenewalClear
<1>5. "OpenTcp" \in Message /\ "OpenUdp" \in Message /\ "AdoptListen" \in Message /\ "Connect" \in Message
      /\ << >> \in Seq(Nat)
  BY EmptySeq DEF Message, DefinesGen
<1>6. CASE OpenFinish(i)
  <2>1. Post(i, gen[i], OpenRequests(i))
    BY <1>6 DEF OpenFinish
  <2>2. CASE OpenRequests(i) = << >>
    <3>1. req' = Offer(req, << >>, ReqCap) /\ << >> \in Seq(Requested) /\ Len(<< >>) = 0
      BY <2>1, <2>2, EmptySeq DEF Post
    <3>2. req' = req
      <4>1. req \in Seq(Requested) /\ Len(req) <= ReqCap
        BY DEF Types, RingTypes
      <4> QED
        BY <3>1, <4>1, OfferNone, SizeFacts
    <3> QED
      BY <1>2, <3>2
  <2>3. CASE \E m \in {"OpenTcp", "OpenUdp"} : OpenRequests(i) = <<Request(m, i, gen[i], << >>)>>
    BY <1>1, <1>5, <2>1, <2>3, OneClear
  <2> QED
    BY <2>2, <2>3 DEF OpenRequests
<1>7. CASE (Listen(i) /\ ListenBound(i)) \/ Connect(i)
  <2>1. \E m \in {"AdoptListen", "Connect"} : Post(i, gen[i], <<Request(m, i, gen[i], << >>)>>)
    BY <1>7 DEF Listen, ListenBound, Connect, InitTcp
  <2> QED
    BY <1>1, <1>5, <2>1, OneClear
<1>8. CASE Send(i)
  <2> DEFINE b == [k \in 1 .. TxLen |-> txn[i] + k]
  <2>1. Post(i, gen[i], <<Request(SendMsg(i), i, gen[i], b)>>)
    BY <1>8 DEF Send
  <2>2. b \in Seq(Nat)
    <3>1. \A k \in 1 .. TxLen : txn[i] + k \in Nat
      BY <1>1
    <3> QED
      BY <1>1, <3>1, IsASeq
  <2> HIDE DEF b
  <2>3. SendMsg(i) \in Message /\ SendMsg(i) # "Shutdown"
    BY DEF SendMsg, Message, RawTx
  <2> QED
    BY <1>1, <2>1, <2>2, <2>3, OneClear
<1>9. CASE Restore(i)
  <2>1. PICK g, rs : RestoredAs(i, g, rs)
    BY <1>9, RestoreRenews
  <2> QED
    BY <2>1, RenewalClear DEF RestoredAs
<1> QED
  BY <1>3, <1>4, <1>6, <1>7, <1>8, <1>9 DEF Command, Listen

LEMMA ChipClear ==
    ASSUME CardInv, RingClear, ChipNext \/ StopJoin, wpc' = wpc
    PROVE  RingClear'
<1>0. Types /\ GenOrder /\ Len(evt) \in Nat /\ EvtCap \in Nat /\ gen \in [Sock -> 1 .. MaxGen]
  BY LenProperties, SizeFacts DEF CardInv, Types, RingTypes, ChipTypes
<1>1. OldOrClear
  <2>1. req' = req => OldOrClear
    BY DEF OldOrClear
  <2>2. CASE \E i \in Sock : Command(i)
    BY <1>0, <2>2, CommandClear
  <2>3. CASE Reset
    <3> DEFINE g == [i \in Sock |-> gen[i] + 1]
               rs == [k \in 1 .. NSock |-> Request("CloseHost", k - 1, g[k - 1], << >>)]
    <3>1. g \in [Sock -> Nat]
      BY <1>0, SizeFacts
    <3>2. rs = [k \in 1 .. NSock |-> Request("CloseHost", k - 1, gen[k - 1] + 1, << >>)]
      <4>1. \A k \in 1 .. NSock : k - 1 \in Sock
        BY SizeFacts DEF Sock
      <4> QED
        BY <4>1
    <3>3. rs \in Seq(Requested) /\ \A k \in 1 .. Len(rs) : rs[k].msg = "CloseHost"
      <4> HIDE DEF g
      <4> QED
        BY <3>1, ResetRequests
    <3> HIDE DEF rs
    <3>4. req' = Offer(req, rs, ReqCap)
      BY <2>3, <3>2 DEF Reset
    <3> QED
      BY <1>0, <3>3, <3>4, PostClear
  <2>4. CASE TickBegin \/ TickEnd \/ Snapshot \/ RestoreBegin \/ StopJoin \/ ApplyEvent
    BY <2>1, <2>4 DEF TickBegin, TickEnd, Snapshot, RestoreBegin, StopJoin, ApplyEvent, Applying, ApplyStale,
       ApplyStatus, ApplyRxTcp, ApplyRxUdp, ApplyMacRaw, ApplySendDone
  <2>5. CASE Stop
    <3> DEFINE r == Request("Shutdown", 0, 0, << >>)
               rs == <<r>>
    <3>1. r \in Requested /\ r.gen = 0
      BY RequestType, EmptySeq, SizeFacts DEF Message, Request
    <3>2. req' = Offer(req, rs, ReqCap)
      BY <2>5 DEF Stop
    <3> HIDE DEF r
    <3>3. rs \in Seq(Requested) /\ \A k \in 1 .. Len(rs) : rs[k].gen = 0
      BY <3>1
    <3> HIDE DEF rs
    <3> QED
      BY <1>0, <3>2, <3>3, PostClear
  <2> QED
    BY <2>2, <2>3, <2>4, <2>5 DEF ChipNext
<1>2. evt' = evt \/ (evt # << >> /\ evt' = Tail(evt))
  <2>1. CASE \E i \in Sock : Command(i)
    BY <2>1 DEF Command, WriteMR, WriteIR, OpenClose, OpenFinish, Listen, Connect, Discon, Close, Send,
       SendKeep, Recv, Restore
  <2>2. CASE ~\E i \in Sock : Command(i)
    BY <2>2 DEF ChipNext, Reset, TickBegin, TickEnd, Snapshot, RestoreBegin, StopJoin, Stop, ApplyEvent, Applying,
       ApplyStale, ApplyStatus, ApplyRxTcp, ApplyRxUdp, ApplyMacRaw, ApplySendDone
  <2> QED
    BY <2>1, <2>2
<1>3. Len(evt') <= Len(evt) /\ Len(evt') \in Nat
  BY <1>0, <1>2, TailFacts DEF Types, RingTypes
<1> QED
  BY <1>0, <1>1, <1>3 DEF RingClear, OldOrClear

LEMMA WorkerClear ==
    ASSUME CardInv, RingClear, WorkerNext \/ PeerNext
    PROVE  RingClear'
<1>1. req' = req \/ (req # << >> /\ req' = Tail(req))
  BY WorkerRequests
<1>2. \A k \in 1 .. Len(req') : req'[k].msg = "Shutdown" => req'[k].gen = 0
  <2>1. CASE req' = req
    BY <2>1 DEF RingClear
  <2>2. CASE req # << >> /\ req' = Tail(req)
    <3>1. /\ Len(req) \in Nat /\ Len(req') = Len(req) - 1
          /\ \A k \in 1 .. Len(req') : req'[k] = req[k + 1]
      BY <2>2, TakenRequest DEF CardInv
    <3> QED
      BY <3>1 DEF RingClear
  <2> QED
    BY <1>1, <2>1, <2>2
<1>3. wpc' \in {"take", "post"} => Len(evt') < EvtCap
  <2>1. CASE WorkerNext /\ ~PollLoadCredit /\ ~PollTake /\ ~PollPost
    BY <2>1, WorkerQuiet
  <2>2. CASE PollLoadCredit
    BY <2>2 DEF PollLoadCredit, CanSend, NoEvent
  <2>3. CASE PollTake
    BY <2>3 DEF PollTake, Polling, NoEvent, RingClear
  <2>4. CASE PollPost
    BY <2>4 DEF PollPost, NextSock
  <2>5. CASE PeerNext
    BY <2>5 DEF PeerNext, PeerSend, PeerEnds, PeerOnly, workVars, NoEvent, RingClear
  <2> QED
    BY <2>1, <2>2, <2>3, <2>4, <2>5
<1> QED
  BY <1>2, <1>3 DEF RingClear

-----------------------------------------------------------------------------
(* What a step does to what a generation wants and hears.                  *)

WholeSends(j) == \A k \in Current(j) : req[k].msg = "SendTcp" => Len(req[k].data) = TxLen

LEMMA WantsKept ==
    ASSUME Types, NEW j \in Sock, KeepsAsked(j)
    PROVE  Wants(j)' = Wants(j) /\ (InTurn(j) => InTurn(j)') /\ (WholeSends(j) => WholeSends(j)')
<1>1. PICK a \in {0, 1} : /\ \A k \in Current(j)' : k + a \in Current(j) /\ req'[k] = req[k + a]
                          /\ \A k \in Current(j) : k - a \in Current(j)'
  BY DEF KeepsAsked
<1>2. Current(j) \subseteq Nat /\ a \in Nat
  BY RingFacts
<1>3. \A k \in Current(j)' : k \in Int
  BY DEF Current
<1>4. \A k \in Current(j) : req'[k - a] = req[k]
  <2> TAKE k \in Current(j)
  <2>1. k - a \in Current(j)' /\ (k - a) + a = k
    BY <1>1, <1>2
  <2> QED
    BY <1>1, <2>1
<1>5. Wants(j)' = Wants(j)
  BY <1>1, <1>4 DEF Wants
<1>6. InTurn(j) => InTurn(j)'
  BY <1>1, <1>2, <1>3 DEF InTurn
<1> QED
  BY <1>1, <1>5, <1>6 DEF WholeSends

LEMMA WantsTaken ==
    ASSUME Types, NEW j \in Sock, TakesAsked(j), InTurn(j)
    PROVE  /\ req[1].msg \in Wants(j) /\ Wants(j)' \subseteq Wants(j) /\ Wants(j) \subseteq Wants(j)' \cup {req[1].msg}
           /\ Wants(j)' \cap Ends = {} /\ (req[1].msg \in Lasts => Wants(j)' = {})
           /\ InTurn(j)' /\ (WholeSends(j) => WholeSends(j)')
<1>1. /\ 1 \in Current(j)
      /\ \A k \in Current(j)' : k + 1 \in Current(j) /\ req'[k] = req[k + 1]
      /\ \A k \in Current(j) : k # 1 => k - 1 \in Current(j)'
  BY DEF TakesAsked
<1>2. Current(j) \subseteq Nat \ {0}
  BY RingFacts
<1>3. \A k \in Current(j)' : k \in Nat \ {0}
  <2> TAKE k \in Current(j)'
  <2>1. k \in Int /\ k >= 1
    BY DEF Current
  <2> QED
    BY <2>1
<1>4. \A k \in Current(j) : k # 1 => req'[k - 1] = req[k]
  <2> TAKE k \in Current(j)
  <2> HAVE k # 1
  <2>1. k - 1 \in Current(j)' /\ (k - 1) + 1 = k
    BY <1>1, <1>2
  <2> QED
    BY <1>1, <2>1
<1>5. req[1].msg \in Wants(j) /\ Wants(j)' \subseteq Wants(j) /\ Wants(j) \subseteq Wants(j)' \cup {req[1].msg}
  BY <1>1, <1>4 DEF Wants
<1>6. \A k \in Current(j)' : req'[k].msg \notin Ends
  <2> TAKE k \in Current(j)'
  <2>1. k + 1 \in Current(j) /\ ~(k + 1 <= 1) /\ req'[k] = req[k + 1]
    BY <1>1, <1>3
  <2> QED
    BY <1>1, <2>1 DEF InTurn
<1>7. req[1].msg \in Lasts => Current(j)' = {}
  <2>1. \A k \in Current(j)' : k + 1 \in Current(j) /\ ~(k + 1 <= 1)
    BY <1>1, <1>3
  <2> QED
    BY <1>1, <2>1 DEF InTurn
<1>8. InTurn(j)'
  BY <1>1, <1>3, <1>6 DEF InTurn
<1> QED
  BY <1>1, <1>5, <1>6, <1>7, <1>8 DEF WholeSends, Wants

LEMMA WantsAdded ==
    ASSUME Types, NEW j \in Sock, NEW r, AddsAsked(j, r)
    PROVE  /\ Wants(j)' = Wants(j) \cup {r.msg}
           /\ InTurn(j) /\ Wants(j) \cap Lasts = {} /\ r.msg \notin Ends => InTurn(j)'
           /\ WholeSends(j) /\ (r.msg = "SendTcp" => Len(r.data) = TxLen) => WholeSends(j)'
<1>1. PICK n \in Current(j)' :
        /\ req'[n] = r
        /\ \A k \in Current(j)' : k = n \/ (k \in Current(j) /\ req'[k] = req[k])
        /\ \A k \in Current(j) : k \in Current(j)' /\ k < n
  BY DEF AddsAsked
<1>2. Current(j) \subseteq Nat /\ n \in Int
  BY RingFacts DEF Current
<1>3. \A k \in Current(j) : req'[k] = req[k]
  BY <1>1, <1>2
<1>4. Wants(j)' = Wants(j) \cup {r.msg}
  BY <1>1, <1>3 DEF Wants
<1>5. InTurn(j) /\ Wants(j) \cap Lasts = {} /\ r.msg \notin Ends => InTurn(j)'
  <2> SUFFICES ASSUME InTurn(j), Wants(j) \cap Lasts = {}, r.msg \notin Ends, NEW k \in Current(j)', NEW l \in Current(j)'
               PROVE  (req'[k].msg \in Lasts => l <= k) /\ (req'[k].msg \in Ends => k <= l)
    BY DEF InTurn
  <2>1. CASE k = n
    BY <1>1, <1>2, <2>1
  <2>2. CASE k # n
    <3>1. k \in Current(j) /\ req'[k] = req[k] /\ k < n
      BY <1>1, <2>2
    <3>2. req[k].msg \notin Lasts
      BY <3>1 DEF Wants
    <3>3. req[k].msg \in Ends => k <= l
      BY <1>1, <1>2, <3>1 DEF InTurn
    <3> QED
      BY <3>1, <3>2, <3>3
  <2> QED
    BY <2>1, <2>2
<1> QED
  BY <1>1, <1>4, <1>5 DEF WholeSends

News1(e) == <<e.evt, e.cause>>

LEMMA HearsKept ==
    ASSUME Types, NEW j \in Sock, Quiet(j)
    PROVE  Hears(j)' = Hears(j)
<1>1. PICK a \in {0, 1} : /\ \A k \in Told(j)' : k + a \in Told(j) /\ evt'[k] = evt[k + a]
                          /\ \A k \in Told(j) : k - a \in Told(j)'
  BY DEF Quiet, KeepsTold
<1>2. Told(j) \subseteq Nat /\ a \in Nat
  BY RingFacts
<1>4. \A k \in Told(j) : evt'[k - a] = evt[k]
  <2> TAKE k \in Told(j)
  <2>1. k - a \in Told(j)' /\ (k - a) + a = k
    BY <1>1, <1>2
  <2> QED
    BY <1>1, <2>1
<1> QED
  BY <1>1, <1>4 DEF Hears

LEMMA HearsTaken ==
    ASSUME Types, NEW j \in Sock, NEW e, Applies(j, e)
    PROVE  News1(e) \in Hears(j) /\ Hears(j)' \subseteq Hears(j) /\ Hears(j) \subseteq Hears(j)' \cup {News1(e)}
<1>1. /\ 1 \in Told(j) /\ e = evt[1]
      /\ \A k \in Told(j)' : k + 1 \in Told(j) /\ evt'[k] = evt[k + 1]
      /\ \A k \in Told(j) : k # 1 => k - 1 \in Told(j)'
  BY DEF Applies, TakesTold
<1>2. Told(j) \subseteq Nat \ {0}
  BY RingFacts
<1>4. \A k \in Told(j) : k # 1 => evt'[k - 1] = evt[k]
  <2> TAKE k \in Told(j)
  <2> HAVE k # 1
  <2>1. k - 1 \in Told(j)' /\ (k - 1) + 1 = k
    BY <1>1, <1>2
  <2> QED
    BY <1>1, <2>1
<1> QED
  BY <1>1, <1>4 DEF Hears, News1

LEMMA HearsAdded ==
    ASSUME Types, NEW j \in Sock, NEW e, Reports(j, e)
    PROVE  Hears(j)' = Hears(j) \/ Hears(j)' = Hears(j) \cup {News1(e)}
<1>1. CASE Quiet(j)
  BY <1>1, HearsKept
<1>2. CASE Tells(j, e)
  <2>1. PICK n \in Told(j)' :
          /\ evt'[n] = e
          /\ \A k \in Told(j)' : k = n \/ (k \in Told(j) /\ evt'[k] = evt[k])
          /\ \A k \in Told(j) : k \in Told(j)' /\ k < n
    BY <1>2 DEF Tells, AddsTold
  <2>2. \A k \in Told(j) : k \in Int /\ n \in Int
    BY DEF Told
  <2>3. \A k \in Told(j) : evt'[k] = evt[k]
    BY <2>1, <2>2
  <2> QED
    BY <2>1, <2>3 DEF Hears, News1
<1> QED
  BY <1>1, <1>2 DEF Reports

(* A request may or may not have found room.                               *)
LEMMA WantsOffered ==
    ASSUME Types, NEW j \in Sock, NEW r, Offers(j, r), InTurn(j), Wants(j) \cap Lasts = {}, r.msg \notin Ends,
           r.msg = "SendTcp" => Len(r.data) = TxLen, WholeSends(j)
    PROVE  /\ Wants(j) \subseteq Wants(j)' /\ Wants(j)' \subseteq Wants(j) \cup {r.msg}
           /\ InTurn(j)' /\ WholeSends(j)'
BY WantsKept, WantsAdded DEF Offers

-----------------------------------------------------------------------------
(* Orderly is an invariant.                                                *)

(* What the protocol between chip and worker says of a generation.         *)
HostOk(j) ==
    /\ sr[j] \in Status /\ wst[j] \in Status /\ Wants(j) \subseteq Message
    /\ wfd[j] \in HostStream <=> wst[j] \notin {"CLOSED", "UDP"}
    /\ wfd[j] \in {"none", "udp", "tcp", "listen"}

PhaseOk(j) ==
    /\ Opening(j) => Wants(j) \subseteq Closes /\ (AtWork(j) => wst[j] = "CLOSED")
    /\ ~Opening(j) /\ sr[j] \in Headed =>
          /\ Wants(j) \subseteq Closes \cup {"OpenUdp", "SendUdp"} \cup RawTx
          /\ AtWork(j) => wst[j] \in {"CLOSED", "UDP"}
          /\ ~IsStream(j)

LEMMA PhaseSays ==
    ASSUME CardInv, NEW j \in Sock
    PROVE  HostOk(j) /\ PhaseOk(j)
<1>1. /\ Types /\ HostState /\ ProtocolOk(j) /\ Asked(j) /\ Heard(j) /\ Working(j) /\ Once(j)
  BY DEF CardInv, ProtocolOk
<1>2. sr[j] \in Status /\ wst[j] \in Status /\ wfd[j] \in {"none", "udp", "tcp", "listen"}
  BY <1>1 DEF Types, ChipTypes, WorkerTypes
<1>3. wfd[j] \in HostStream <=> wst[j] \notin {"CLOSED", "UDP"}
  BY <1>1, <1>2 DEF HostState, HostStream
<1>4. Wants(j) \subseteq Message
  <2>1. \A k \in Current(j) : req[k] \in Requested
    BY <1>1, RingFacts
  <2> QED
    BY <2>1 DEF Wants, Requested
<1>5. Opening(j) => Wants(j) \subseteq Closes /\ (AtWork(j) => wst[j] = "CLOSED")
  BY <1>1, PhaseCases DEF Asked, Working, Wants
<1>6. ASSUME ~Opening(j), sr[j] \in Headed
      PROVE  /\ Wants(j) \subseteq Closes \cup {"OpenUdp", "SendUdp"} \cup RawTx
             /\ AtWork(j) => wst[j] \in {"CLOSED", "UDP"}
             /\ ~IsStream(j)
  <2>1. Phase(j) = "datagram"
    BY <1>6, PhaseCases
  <2>2. Wants(j) \subseteq Closes \cup {"OpenUdp", "SendUdp"} \cup RawTx /\ (AtWork(j) => wst[j] \in {"CLOSED", "UDP"})
    BY <1>1, <2>1, PhaseCases DEF Asked, Working, Wants
  <2>3. Wants(j) \cap Openers = {}
    BY <2>2 DEF Closes, RawTx, Openers
  <2>4. Hears(j) \cap GoodNews = {}
    <3>1. \A k \in Told(j) : evt[k].evt = "Status" => evt[k].cause = "Failed"
      BY <1>1, <2>1 DEF Once
    <3> QED
      BY <3>1 DEF Hears, GoodNews
  <2>5. sr[j] \notin Unconnected \cup Connected
    BY <1>6 DEF Unconnected, Connected, Headed
  <2> QED
    BY <1>3, <2>2, <2>3, <2>4, <2>5 DEF IsStream
<1> QED
  BY <1>2, <1>3, <1>4, <1>5, <1>6 DEF HostOk, PhaseOk

(* The host's side of socket j is as it was.                               *)
HostStill(j) ==
    wgen'[j] = wgen[j] /\ wst'[j] = wst[j] /\ wfd'[j] = wfd[j] /\ hostgot'[j] = hostgot[j] /\ txp'[j] = txp[j]

(* An end of a generation, or its rebirth.                                 *)
LEMMA OrderlyAnew ==
    ASSUME NEW j \in Sock, Ended(j) \/ Reborn(j)
    PROVE  Orderly(j)'
<1>1. ~AtWork(j)' /\ Told(j)' = {} /\ Hears(j)' = {}
  BY DEF Ended, Reborn, Anew, Hears
<1>2. CASE Ended(j)
  <2>1. Wants(j)' \subseteq Ends /\ InTurn(j)' /\ WholeSends(j)'
    <3>1. \A k \in Current(j)' : k <= k
      BY DEF Current
    <3>2. \A k, l \in Current(j)' : k = l /\ req'[k].msg \in Ends
      BY <1>2 DEF Ended
    <3> QED
      BY <3>1, <3>2 DEF Wants, InTurn, WholeSends, Lasts, Ends
  <2>2. ~IsStream(j)'
    BY <1>1, <1>2, <2>1 DEF Ended, IsStream, Ends, Openers, Unconnected, Connected
  <2> QED
    BY <1>1, <1>2, <2>1, <2>2 DEF Orderly, Ended, Ends, Lasts, WholeSends
<1>3. CASE Reborn(j)
  <2>1. PICK m \in {"OpenTcp", "OpenUdp", "AdoptListen"} :
          /\ sr'[j] = Opened(m)
          /\ \A k, l \in Current(j)' :
                \/ req'[k].msg \in Ends /\ k <= l
                \/ req'[k].msg = m /\ l <= k
    BY <1>3 DEF Reborn
  <2>2. Wants(j)' \subseteq Ends \cup {m} /\ InTurn(j)' /\ WholeSends(j)'
    BY <2>1 DEF Wants, InTurn, WholeSends, Lasts, Ends
  <2>3. txn'[j] = 0 /\ sendoks'[j] = 0 /\ taken'[j] + Len(rxbuf'[j]) = 0 /\ ~Opening(j)'
    BY <1>3 DEF Reborn
  <2>4. m = "OpenUdp" => ~IsStream(j)'
    BY <1>1, <2>1, <2>2 DEF IsStream, Ends, Openers, Unconnected, Connected, Opened
  <2>5. Untouched(j)'
    BY <1>1, <2>1, <2>2, <2>3 DEF Untouched, Opened, Ends, Connected
  <2> QED
    BY <1>1, <2>1, <2>2, <2>3, <2>4, <2>5 DEF Orderly, Opened, Ends, Lasts, Datagrams, RawTx, WholeSends
<1> QED
  BY <1>2, <1>3

(* Nothing but the registers and the counts may change.                    *)
LEMMA OrderlyStill ==
    ASSUME Types, NEW j \in Sock, Orderly(j), HostStill(j), GoesOn(j), NoRequest(j), Quiet(j),
           sr'[j] = sr[j], IsStream(j) => txn'[j] = txn[j] /\ sendoks'[j] = sendoks[j] /\
                                          taken'[j] + Len(rxbuf'[j]) = taken[j] + Len(rxbuf[j])
    PROVE  Orderly(j)'
<1>1. /\ Wants(j)' = Wants(j) /\ Hears(j)' = Hears(j) /\ InTurn(j)' /\ WholeSends(j)'
  BY WantsKept, HearsKept DEF NoRequest, Orderly, WholeSends
<1>2. (Opening(j)' <=> Opening(j)) /\ (AtWork(j)' <=> AtWork(j)) /\ (HostEmpty(j)' <=> HostEmpty(j))
  BY DEF GoesOn, HostStill, AtWork, HostEmpty
<1>3. IsStream(j)' <=> IsStream(j)
  BY <1>1, <1>2 DEF IsStream, HostStill
<1>4. Young(j)' <=> Young(j)
  BY <1>1, <1>2 DEF Young
<1>5. IsStream(j) /\ Untouched(j) => Untouched(j)'
  BY <1>1, <1>2 DEF Untouched, HostStill
<1> QED
  BY <1>1, <1>2, <1>3, <1>4, <1>5 DEF Orderly, HostStill, WholeSends

(* OPEN ends.                                                              *)
LEMMA OrderlyOpens ==
    ASSUME CardInv, NEW j \in Sock, Orderly(j), HostStill(j), Opens(j)
    PROVE  Orderly(j)'
<1>0. Types /\ HostOk(j) /\ PhaseOk(j)
  BY PhaseSays DEF CardInv
<1>1. /\ Opening(j) /\ ~Opening(j)' /\ Hears(j)' = {} /\ (AtWork(j)' <=> AtWork(j)) /\ Wants(j) \subseteq Closes
      /\ AtWork(j) => wst'[j] = "CLOSED" /\ wfd'[j] \notin HostStream /\ HostEmpty(j)'
  BY <1>0, HearsKept DEF Opens, Orderly, HostStill, AtWork, HostOk, PhaseOk, HostEmpty
<1>2. /\ InTurn(j) /\ WholeSends(j) /\ Wants(j) \cap Lasts = {} /\ (Wants(j) \cap Ends # {} => ~AtWork(j))
  BY <1>1 DEF Orderly, WholeSends, Closes, Lasts
<1>3. txn'[j] = 0 /\ sendoks'[j] = 0 /\ taken'[j] + Len(rxbuf'[j]) = 0
  BY EmptySeq DEF Opens
<1>4. ASSUME NEW m \in {"OpenTcp", "OpenUdp"}, Offers(j, Request(m, j, gen[j], << >>))
      PROVE  /\ Wants(j)' \subseteq Wants(j) \cup {m} /\ InTurn(j)' /\ WholeSends(j)'
  <2> DEFINE r == Request(m, j, gen[j], << >>)
  <2>1. r.msg = m
    BY DEF Request
  <2> HIDE DEF r
  <2>2. Offers(j, r)
    BY <1>4 DEF r
  <2> QED
    BY <1>0, <1>2, <2>1, <2>2, WantsOffered DEF Ends
<1>5. NoRequest(j) => Wants(j)' = Wants(j) /\ InTurn(j)' /\ WholeSends(j)'
  BY <1>0, <1>2, WantsKept DEF NoRequest
<1>6. PICK m \in {"OpenTcp", "OpenUdp", "none"} :
        /\ Wants(j)' \subseteq Wants(j) \cup {m} /\ InTurn(j)' /\ WholeSends(j)'
        /\ m = "OpenTcp" => sr'[j] = "INIT"
        /\ m = "OpenUdp" => sr'[j] = "UDP"
        /\ m = "none" => sr'[j] \in {"CLOSED", "IPRAW", "MACRAW"}
  BY <1>4, <1>5 DEF Opens
<1>7. m # "OpenTcp" => ~IsStream(j)'
  BY <1>1, <1>6 DEF IsStream, Closes, Openers, Unconnected, Connected
<1>8. Untouched(j)'
  BY <1>1, <1>3, <1>6 DEF Untouched, Closes, Connected
<1> QED
  BY <1>1, <1>2, <1>6, <1>7, <1>8 DEF Orderly, Closes, Ends, Lasts, Datagrams, RawTx, WholeSends

(* LISTEN, CONNECT and SEND.                                               *)
LEMMA OrderlyAsks ==
    ASSUME CardInv, NEW j \in Sock, Orderly(j), HostStill(j), Asks(j)
    PROVE  Orderly(j)'
<1>0. Types /\ HostOk(j) /\ PhaseOk(j)
  BY PhaseSays DEF CardInv
<1>1. /\ ~Opening(j) /\ ~Opening(j)' /\ Hears(j)' = Hears(j) /\ (AtWork(j)' <=> AtWork(j)) /\ sr[j] = "INIT"
      /\ txn'[j] = txn[j] /\ sendoks'[j] = sendoks[j] /\ taken'[j] = taken[j] /\ rxbuf'[j] = rxbuf[j]
      /\ (HostEmpty(j)' <=> HostEmpty(j)) /\ sr'[j] \in {"LISTEN", "SYNSENT"}
  BY <1>0, HearsKept DEF Asks, GoesOn, GhostsSame, HostStill, AtWork, HostEmpty
<1>2. IsStream(j) /\ Young(j)
  BY <1>1 DEF IsStream, Young, Unconnected
<1>3. Untouched(j) /\ Wants(j) \cap Datagrams = {} /\ Wants(j) \cap Lasts = {} /\ InTurn(j) /\ WholeSends(j)
      /\ (Wants(j) \cap Ends # {} => ~AtWork(j))
  BY <1>1, <1>2 DEF Orderly, WholeSends
<1>4. ASSUME NEW m \in Lasts, Offers(j, Request(m, j, gen[j], << >>))
      PROVE  /\ Wants(j)' \subseteq Wants(j) \cup {m} /\ InTurn(j)' /\ WholeSends(j)'
  <2> DEFINE r == Request(m, j, gen[j], << >>)
  <2>1. r.msg = m
    BY DEF Request
  <2> HIDE DEF r
  <2>2. Offers(j, r)
    BY <1>4 DEF r
  <2> QED
    BY <1>0, <1>3, <2>1, <2>2, WantsOffered DEF Ends, Lasts
<1>5. PICK m \in Lasts : Wants(j)' \subseteq Wants(j) \cup {m} /\ InTurn(j)' /\ WholeSends(j)'
  <2>1. \E m \in Lasts : Offers(j, Request(m, j, gen[j], << >>))
    BY DEF Asks, Offers, Lasts
  <2> QED
    BY <1>4, <2>1
<1>6. Untouched(j)'
  BY <1>1, <1>3, <1>5 DEF Untouched, Lasts, Connected, HostStill
<1> QED
  BY <1>1, <1>3, <1>5, <1>6 DEF Orderly, Lasts, Ends, Datagrams, RawTx, WholeSends

LEMMA OrderlyPuts ==
    ASSUME CardInv, NEW j \in Sock, Orderly(j), HostStill(j), Puts(j)
    PROVE  Orderly(j)'
<1>0. Types /\ HostOk(j) /\ PhaseOk(j) /\ TxLen \in Nat /\ txn[j] \in Nat
  BY PhaseSays, ChipAssumption DEF CardInv, Types, ChipTypes
<1>1. /\ ~Opening(j) /\ ~Opening(j)' /\ Hears(j)' = Hears(j) /\ (AtWork(j)' <=> AtWork(j)) /\ sr'[j] = sr[j]
      /\ sr[j] \in Connected \cup {"UDP", "MACRAW", "IPRAW"} /\ (HostEmpty(j)' <=> HostEmpty(j))
  BY <1>0, HearsKept DEF Puts, GoesOn, HostStill, AtWork, HostEmpty
<1>2. sr[j] \in Connected => SendMsg(j) = "SendTcp" /\ IsStream(j) /\ ~Young(j)
  <2> HAVE sr[j] \in Connected
  <2>1. IsStream(j)
    BY <1>1 DEF IsStream
  <2>2. ~Untouched(j)
    BY DEF Untouched
  <2>3. ~Young(j)
    BY <2>1, <2>2 DEF Orderly
  <2>4. SendMsg(j) = "SendTcp"
    BY DEF SendMsg, Connected
  <2> QED
    BY <2>1, <2>3, <2>4
<1>3. sr[j] \notin Connected => SendMsg(j) \in {"SendUdp"} \cup RawTx /\ ~IsStream(j)
  BY <1>0, <1>1 DEF SendMsg, RawTx, PhaseOk, Headed
<1>4. Wants(j) \cap Lasts = {} /\ InTurn(j) /\ WholeSends(j) /\ (Wants(j) \cap Ends # {} => ~AtWork(j))
  <2>1. Wants(j) \cap Lasts # {} => IsStream(j) /\ Young(j)
    BY <1>1 DEF IsStream, Young, Lasts, Openers
  <2> QED
    BY <1>2, <1>3, <2>1 DEF Orderly, WholeSends
<1>5. /\ Wants(j)' \subseteq Wants(j) \cup {SendMsg(j)} /\ InTurn(j)' /\ WholeSends(j)'
  <2> DEFINE b == [k \in 1 .. TxLen |-> txn[j] + k]
             r == Request(SendMsg(j), j, gen[j], b)
  <2>1. r.msg = SendMsg(j) /\ r.data = b /\ Offers(j, r)
    BY DEF Request, Puts
  <2>2. Len(b) = TxLen
    BY <1>0
  <2> HIDE DEF r, b
  <2>3. r.msg \notin Ends
    BY <1>2, <1>3, <2>1 DEF Ends, RawTx
  <2> QED
    BY <1>0, <1>4, <2>1, <2>2, <2>3, WantsOffered
<1>6. SendMsg(j) \notin Openers \cup Ends \cup {"OpenUdp"}
  BY <1>2, <1>3 DEF Openers, Ends, RawTx
<1>7. IsStream(j)' => IsStream(j)
  BY <1>1, <1>5, <1>6 DEF IsStream, HostStill
<1>8. Young(j)' => Young(j)
  BY <1>1, <1>5, <1>6 DEF Young
<1>9. IsStream(j)' => Wants(j)' \cap Datagrams = {}
  BY <1>2, <1>3, <1>5, <1>7 DEF Orderly, Datagrams, RawTx
<1> QED
  BY <1>1, <1>2, <1>3, <1>4, <1>5, <1>6, <1>7, <1>8, <1>9 DEF Orderly, WholeSends, HostStill, Connected

(* The guest is told.                                                      *)
LEMMA OrderlyLearns ==
    ASSUME CardInv, NEW j \in Sock, Orderly(j), HostStill(j), Learns(j)
    PROVE  Orderly(j)'
<1>0. Types /\ HostOk(j) /\ PhaseOk(j)
  BY PhaseSays DEF CardInv
<1>1. PICK e \in Happened : Sees(j, e) /\ (e.evt = "Status" => sr'[j] = StatusOf(e.cause))
                            /\ e.evt \in {"Status", "RxTcp", "RxUdp", "SendDone"}
  BY DEF Learns
<1>2. /\ Wants(j)' = Wants(j) /\ InTurn(j)' /\ WholeSends(j)'
      /\ News1(e) \in Hears(j) /\ Hears(j)' \subseteq Hears(j)
  BY <1>0, <1>1, WantsKept, HearsTaken DEF Sees, NoRequest, Orderly, WholeSends
<1>3. /\ ~Opening(j) /\ ~Opening(j)' /\ (AtWork(j)' <=> AtWork(j)) /\ (HostEmpty(j)' <=> HostEmpty(j))
      /\ e.evt # "Status" => sr'[j] = sr[j]
  BY <1>1 DEF Sees, GoesOn, HostStill, AtWork, HostEmpty
<1>4. e.evt = "Status" => sr'[j] \in Connected \cup {"CLOSED"} /\ (sr'[j] \in Connected => News1(e) \in GoodNews)
  BY <1>1 DEF StatusOf, Connected, News1, GoodNews
<1>5. IsStream(j)' => IsStream(j)
  BY <1>2, <1>3, <1>4 DEF IsStream, HostStill, Unconnected, Connected
<1>6. Young(j)' => Young(j)
  BY <1>2, <1>3, <1>4 DEF Young, Connected
<1>7. IsStream(j) /\ Young(j) => Untouched(j)'
  <2> SUFFICES ASSUME IsStream(j), Young(j) PROVE Untouched(j)'
    OBVIOUS
  <2>1. Untouched(j)
    BY DEF Orderly
  <2>2. News1(e) = <<"Status", "Failed">>
    BY <1>2, <2>1 DEF Untouched
  <2>3. e.evt = "Status" /\ e.cause = "Failed" /\ sr'[j] = "CLOSED"
    BY <1>1, <2>2 DEF News1, StatusOf
  <2>4. rxbuf'[j] = rxbuf[j] /\ sendoks'[j] = sendoks[j] /\ txn'[j] = txn[j] /\ taken'[j] = taken[j]
    BY <1>1, <2>3 DEF Sees
  <2> QED
    BY <1>2, <1>3, <2>1, <2>3, <2>4 DEF Untouched, HostStill, Connected
<1> QED
  BY <1>2, <1>3, <1>4, <1>5, <1>6, <1>7 DEF Orderly, WholeSends, HostStill, Connected

LEMMA OrderlyChip ==
    ASSUME CardInv, NEW j \in Sock, Orderly(j), HostStill(j), ChipMove(j)
    PROVE  Orderly(j)'
<1>0. Types /\ HostOk(j) /\ PhaseOk(j)
  BY PhaseSays DEF CardInv
<1>1. CASE Rest(j)
  <2>1. taken'[j] + Len(rxbuf'[j]) = taken[j] + Len(rxbuf[j])
    BY <1>1 DEF Rest, GhostsSame
  <2> HIDE DEF Quiet
  <2> QED
    BY <1>0, <1>1, <2>1, OrderlyStill DEF Rest, GhostsSame
<1>2. CASE Reads(j)
  <2>1. taken'[j] + Len(rxbuf'[j]) = taken[j] + Len(rxbuf[j])
    <3>1. PICK k \in 1 .. Len(rxbuf[j]) : rxbuf'[j] = ButFirstN(rxbuf[j], k) /\ taken'[j] = taken[j] + k
      BY <1>2 DEF Reads
    <3>2. rxbuf[j] \in Seq(Cell) /\ taken[j] \in Int /\ Len(rxbuf[j]) \in Nat
      BY <1>0, LenProperties DEF Types, ChipTypes
    <3>3. Len(rxbuf'[j]) = Len(rxbuf[j]) - k
      BY <3>1, <3>2, SubSeqProperties DEF ButFirstN
    <3> QED
      BY <3>1, <3>2, <3>3
  <2> HIDE DEF Quiet
  <2> QED
    BY <1>0, <1>2, <2>1, OrderlyStill DEF Reads
<1>3. CASE Frames(j)
  <2>1. ~Opening(j) => ~IsStream(j)
    BY <1>0, <1>3 DEF Frames, PhaseOk, Headed
  <2>2. ~IsStream(j)
    BY <2>1 DEF IsStream
  <2> HIDE DEF Quiet
  <2> QED
    BY <1>0, <1>3, <2>2, OrderlyStill DEF Frames
<1> QED
  BY <1>1, <1>2, <1>3, OrderlyAnew, OrderlyOpens, OrderlyAsks, OrderlyPuts, OrderlyLearns DEF ChipMove

(* The worker's step: the chip's side of socket j is as it was.            *)
ChipStill(j) ==
    /\ gen'[j] = gen[j] /\ sr'[j] = sr[j] /\ rxbuf'[j] = rxbuf[j] /\ GhostsSame(j)
    /\ (Opening(j)' <=> Opening(j)) /\ reqLost'[j] = reqLost[j]

(* A step in which socket j stays what it is, takes no opening request and *)
(* hears nothing good.                                                     *)
LEMMA OrderlyWorkerStill ==
    ASSUME CardInv, NEW j \in Sock, Orderly(j), ChipStill(j), Wants(j)' \subseteq Wants(j), InTurn(j)', WholeSends(j)',
           AtWork(j)' <=> AtWork(j),
           AtWork(j) => /\ wfd'[j] \in HostStream => wfd[j] \in HostStream
                        /\ wst'[j] = "CLOSED" \/ wst'[j] = wst[j] \/ (wst[j] \notin {"CLOSED", "UDP"} /\ wst'[j] # "UDP"),
           Hears(j)' \cap GoodNews \subseteq Hears(j),
           Opening(j) => Hears(j)' = {} /\ (AtWork(j) /\ HostEmpty(j) => HostEmpty(j)'),
           IsStream(j) /\ Untouched(j) /\ Young(j) => Untouched(j)' \/ ~Young(j)'
    PROVE  Orderly(j)'
<1>0. Types /\ HostOk(j) /\ PhaseOk(j)
  BY PhaseSays DEF CardInv
<1>1. IsStream(j)' => IsStream(j)
  BY DEF IsStream, ChipStill
<1>2. Young(j)' => Young(j)
  BY DEF Young, ChipStill
<1> QED
  BY <1>0, <1>1, <1>2 DEF Orderly, ChipStill, WholeSends, PhaseOk, Headed

(* A step that asks for and answers nothing new, and leaves the host's     *)
(* bytes out as they were.                                                 *)
LEMMA OrderlyHostSame ==
    ASSUME CardInv, NEW j \in Sock, Orderly(j), ChipStill(j), Wants(j)' \subseteq Wants(j), InTurn(j)', WholeSends(j)',
           AtWork(j)' <=> AtWork(j), Hears(j)' = Hears(j),
           AtWork(j) => wfd'[j] = wfd[j] /\ wst'[j] = wst[j] /\ hostgot'[j] = hostgot[j] /\ txp'[j] = txp[j]
    PROVE  Orderly(j)'
<1>1. Opening(j) => Hears(j)' = {} /\ (AtWork(j) /\ HostEmpty(j) => HostEmpty(j)')
  BY DEF Orderly, HostEmpty
<1>2. Untouched(j) => Untouched(j)'
  BY DEF Untouched, HostEmpty, ChipStill, GhostsSame
<1> QED
  BY <1>1, <1>2, OrderlyWorkerStill

LEMMA OrderlyAside ==
    ASSUME CardInv, NEW j \in Sock, Orderly(j), ChipStill(j),
           Aside(j) \/ Gets(j) \/ PeerWrites(j) \/ PeerLeaves(j) \/ Ignored(j)
    PROVE  Orderly(j)'
<1>0. Types /\ InTurn(j) /\ WholeSends(j)
  BY DEF CardInv, Orderly, WholeSends
<1>1. Wants(j)' \subseteq Wants(j) /\ InTurn(j)' /\ WholeSends(j)'
  <2>1. KeepsAsked(j) \/ TakesAsked(j)
    BY DEF Aside, Gets, PeerWrites, PeerLeaves, Ignored
  <2> QED
    BY <1>0, <2>1, WantsKept, WantsTaken
<1>2. Hears(j)' = Hears(j)
  <2>1. Quiet(j)
    BY DEF Aside, Gets, PeerWrites, PeerLeaves, Ignored, Silent
  <2> QED
    BY <1>0, <2>1, HearsKept
<1>3. /\ AtWork(j)' <=> AtWork(j)
      /\ AtWork(j) => wfd'[j] = wfd[j] /\ wst'[j] = wst[j] /\ hostgot'[j] = hostgot[j] /\ txp'[j] = txp[j]
  BY DEF Aside, Gets, PeerWrites, PeerLeaves, Ignored, HostSame, Goes, BytesSame
<1> QED
  BY <1>1, <1>2, <1>3, OrderlyHostSame

(* An event and nothing else new: it is no good news, or it comes on a     *)
(* connection that is up.                                                  *)
LEMMA OrderlyTold ==
    ASSUME CardInv, NEW j \in Sock, Orderly(j), ChipStill(j), AtWork(j), AtWork(j)', ~Opening(j),
           Wants(j)' \subseteq Wants(j), InTurn(j)', WholeSends(j)',
           NEW n, Hears(j)' \subseteq Hears(j) \cup {n}, n \in GoodNews => IsStream(j),
           wfd'[j] = wfd[j] \/ wfd'[j] \notin HostStream \/ IsStream(j),
           wst'[j] = "CLOSED" \/ wst'[j] = wst[j] \/ (wst[j] \notin {"CLOSED", "UDP"} /\ wst'[j] # "UDP"),
           IsStream(j) /\ Untouched(j) /\ Young(j) => Untouched(j)' \/ ~Young(j)'
    PROVE  Orderly(j)'
<1>0. Types /\ HostOk(j) /\ PhaseOk(j)
  BY PhaseSays DEF CardInv
<1>1. IsStream(j)' => IsStream(j)
  BY DEF IsStream, ChipStill
<1>2. Young(j)' => Young(j)
  BY DEF Young, ChipStill
<1> QED
  BY <1>0, <1>1, <1>2 DEF Orderly, ChipStill, WholeSends, PhaseOk, Headed

(* Datagrams.                                                              *)
LEMMA OrderlyDatagram ==
    ASSUME CardInv, NEW j \in Sock, Orderly(j), ChipStill(j), Answered(j) \/ Catches(j)
    PROVE  Orderly(j)'
<1>0. Types /\ InTurn(j) /\ WholeSends(j) /\ HostOk(j) /\ PhaseOk(j) /\ gen[j] \in Nat
  BY PhaseSays, RingFacts DEF CardInv, Orderly, WholeSends
<1>1. CASE Answered(j)
  <2>1. PICK c \in Cause : Reports(j, Event("SendDone", j, gen[j], c, << >>))
    BY <1>1 DEF Answered
  <2>2. /\ req[1].msg \in Wants(j) /\ Wants(j)' \subseteq Wants(j) /\ InTurn(j)' /\ WholeSends(j)'
        /\ req[1].msg \in {"SendUdp"} \cup RawTx
    <3>1. TakesAsked(j) /\ req[1].msg \in {"SendUdp"} \cup RawTx
      BY <1>1 DEF Answered
    <3> QED
      BY <1>0, <3>1, WantsTaken
  <2>3. Hears(j)' \subseteq Hears(j) \cup {<<"SendDone", c>>}
    <3> DEFINE e == Event("SendDone", j, gen[j], c, << >>)
    <3>1. News1(e) = <<"SendDone", c>>
      BY DEF News1, Event
    <3> HIDE DEF e
    <3>2. Reports(j, e)
      BY <2>1 DEF e
    <3> QED
      BY <1>0, <3>1, <3>2, HearsAdded
  <2>4. ~IsStream(j) /\ ~Opening(j)
    BY <1>0, <2>2 DEF Orderly, Datagrams, PhaseOk, Closes, RawTx
  <2>5. <<"SendDone", c>> \notin GoodNews
    BY DEF GoodNews
  <2>6. (AtWork(j)' <=> AtWork(j)) /\ HostSame(j)
    BY <1>1 DEF Answered
  <2>7. Hears(j)' \cap GoodNews \subseteq Hears(j)
    BY <2>3, <2>5
  <2> QED
    BY <2>2, <2>4, <2>6, <2>7, OrderlyWorkerStill DEF HostSame
<1>2. CASE Catches(j)
  <2> DEFINE e == Event("RxUdp", j, gen[j], "None", <<<<gen[j], psent[j] + 1>>>>)
  <2>1. Reports(j, e) /\ KeepsAsked(j) /\ Goes(j) /\ wst[j] = "UDP" /\ wfd'[j] = wfd[j] /\ wst'[j] = wst[j]
        /\ hostgot'[j] = hostgot[j] /\ txp'[j] = txp[j]
    BY <1>2 DEF Catches
  <2>2. News1(e) = <<"RxUdp", "None">>
    BY DEF News1, Event
  <2> HIDE DEF e
  <2>3. Hears(j)' \subseteq Hears(j) \cup {<<"RxUdp", "None">>}
    BY <1>0, <2>1, <2>2, HearsAdded
  <2>4. Wants(j)' = Wants(j) /\ InTurn(j)' /\ WholeSends(j)'
    BY <1>0, <2>1, WantsKept
  <2>5. AtWork(j) /\ AtWork(j)' /\ ~Opening(j)
    BY <1>0, <2>1 DEF Goes, PhaseOk
  <2>6. ~Untouched(j)
    BY <2>1, <2>5 DEF Untouched
  <2> QED
    BY <2>1, <2>3, <2>4, <2>5, <2>6, OrderlyTold DEF GoodNews
<1> QED
  BY <1>1, <1>2

(* A generation begins at the worker.                                      *)
LEMMA OrderlyBegun ==
    ASSUME CardInv, NEW j \in Sock, Orderly(j), ChipStill(j), Begun(j)
    PROVE  Orderly(j)'
<1> DEFINE m == req[1].msg
<1>0. Types /\ InTurn(j) /\ WholeSends(j) /\ HostOk(j) /\ PhaseOk(j) /\ gen[j] \in Nat
  BY PhaseSays, RingFacts DEF CardInv, Orderly, WholeSends
<1>1. /\ m \in Wants(j) /\ Wants(j)' \subseteq Wants(j) /\ Wants(j)' \cap Ends = {}
      /\ (m \in Lasts => Wants(j)' = {}) /\ InTurn(j)' /\ WholeSends(j)'
  <2>1. TakesAsked(j)
    BY DEF Begun
  <2> QED
    BY <1>0, <2>1, WantsTaken
<1>2. AtWork(j)' /\ HostEmpty(j)' /\ m \in DefinesGen
  BY DEF Begun, HostEmpty
<1>3. \/ /\ Hears(j)' = Hears(j) /\ wst'[j] = Opened(m)
         /\ wfd'[j] \in HostStream <=> m \in {"OpenTcp", "AdoptListen"}
      \/ /\ Hears(j)' \subseteq Hears(j) \cup {<<"Status", "Failed">>} /\ m \in {"OpenTcp", "OpenUdp"}
         /\ wst'[j] = "CLOSED" /\ wfd'[j] \notin HostStream
  <2>1. Silent(j) => Hears(j)' = Hears(j)
    BY <1>0, HearsKept DEF Silent
  <2>2. Reports(j, StatusEvent(j, gen[j], "Failed")) => Hears(j)' \subseteq Hears(j) \cup {<<"Status", "Failed">>}
    <3> DEFINE e == StatusEvent(j, gen[j], "Failed")
    <3>1. News1(e) = <<"Status", "Failed">>
      BY DEF News1, StatusEvent, Event
    <3> HIDE DEF e
    <3>2. Reports(j, e) => Hears(j)' \subseteq Hears(j) \cup {<<"Status", "Failed">>}
      BY <1>0, <3>1, HearsAdded
    <3> QED
      BY <3>2 DEF e
  <2> HIDE DEF Silent, Reports
  <2> QED
    BY <2>1, <2>2 DEF Begun, HostStream
<1> HIDE DEF m
<1>4. IsStream(j)' => IsStream(j)
  BY <1>1, <1>2, <1>3 DEF IsStream, ChipStill, Openers, GoodNews
<1>5. Young(j)' => Young(j)
  BY <1>1, <1>2 DEF Young, ChipStill
<1>6. Opening(j) => Hears(j)' = {}
  BY <1>0, <1>1, <1>3 DEF Orderly, PhaseOk, Closes
<1>7. ASSUME IsStream(j), Young(j)' PROVE Untouched(j)'
  <2>1. Untouched(j) /\ m # "OpenUdp"
    BY <1>1, <1>5, <1>7 DEF Orderly, Datagrams
  <2>2. m # "AdoptListen"
    <3> SUFFICES ASSUME m = "AdoptListen" PROVE FALSE
      OBVIOUS
    <3>1. Wants(j)' = {} /\ ~Opening(j)
      BY <1>1, <1>7 DEF Lasts, IsStream
    <3>2. sr[j] = "INIT"
      BY <1>2, <1>7, <3>1 DEF Young, ChipStill
    <3> QED
      BY <1>1, <3>1, <3>2 DEF Orderly, Lasts
  <2>3. wst'[j] \in {"CLOSED", "INIT"}
    BY <1>2, <1>3, <2>1, <2>2 DEF DefinesGen, Opened
  <2> QED
    BY <1>1, <1>2, <1>3, <2>1, <2>3 DEF Untouched, ChipStill, GhostsSame
<1>8. sr[j] \in {"MACRAW", "IPRAW"} /\ ~Opening(j) => wst'[j] = "CLOSED"
  <2> HAVE sr[j] \in {"MACRAW", "IPRAW"} /\ ~Opening(j)
  <2>1. m \notin {"OpenUdp", "OpenTcp", "AdoptListen"}
    BY <1>0, <1>1 DEF Orderly, PhaseOk, Headed, Closes, RawTx
  <2> QED
    BY <1>2, <1>3, <2>1 DEF Opened
<1> QED
  BY <1>1, <1>2, <1>4, <1>5, <1>6, <1>7, <1>8 DEF Orderly, ChipStill, WholeSends

(* A connection comes up, is tried, or goes down.                          *)
LEMMA OrderlyUp ==
    ASSUME CardInv, NEW j \in Sock, Orderly(j), ChipStill(j), Rises(j) \/ Dials(j)
    PROVE  Orderly(j)'
<1>0. Types /\ InTurn(j) /\ WholeSends(j) /\ HostOk(j) /\ PhaseOk(j) /\ gen[j] \in Nat
  BY PhaseSays, RingFacts DEF CardInv, Orderly, WholeSends
<1>1. /\ Goes(j) /\ wst'[j] \in {"ESTABLISHED", "SYNSENT"}
      /\ \/ TakesAsked(j) /\ req[1].msg = "Connect" /\ wfd[j] \in HostStream
         \/ KeepsAsked(j) /\ wst[j] \in {"SYNSENT", "LISTEN"}
  BY DEF Rises, Dials
<1>2. Hears(j)' \subseteq Hears(j) \cup {<<"Status", "Connected">>}
  <2> DEFINE e == StatusEvent(j, gen[j], "Connected")
  <2>1. News1(e) = <<"Status", "Connected">>
    BY DEF News1, StatusEvent, Event
  <2>2. Quiet(j) \/ Reports(j, e)
    BY DEF Rises, Dials, Silent
  <2> HIDE DEF e
  <2> QED
    BY <1>0, <2>1, <2>2, HearsAdded, HearsKept
<1>3. AtWork(j) /\ AtWork(j)' /\ wst[j] \notin {"CLOSED", "UDP"} /\ wfd[j] \in HostStream
  BY <1>0, <1>1 DEF Goes, HostOk
<1>4. ~Opening(j) /\ IsStream(j)
  BY <1>0, <1>3 DEF PhaseOk, IsStream
<1>5. Wants(j)' \subseteq Wants(j) /\ InTurn(j)' /\ WholeSends(j)'
  BY <1>0, <1>1, WantsKept, WantsTaken
<1>6. Untouched(j) => ~Young(j)'
  <2> HAVE Untouched(j)
  <2>1. TakesAsked(j) /\ req[1].msg = "Connect"
    BY <1>1, <1>3 DEF Untouched
  <2>2. "Connect" \in Wants(j) /\ Wants(j)' = {}
    BY <1>0, <2>1, WantsTaken DEF Lasts
  <2>3. sr[j] # "INIT"
    BY <1>4, <2>2 DEF Orderly, Lasts
  <2> QED
    BY <1>3, <2>2, <2>3 DEF Young, ChipStill
<1> QED
  BY <1>1, <1>2, <1>3, <1>4, <1>5, <1>6, OrderlyTold

LEMMA OrderlyDown ==
    ASSUME CardInv, NEW j \in Sock, Orderly(j), ChipStill(j), Dies(j)
    PROVE  Orderly(j)'
<1>0. Types /\ InTurn(j) /\ WholeSends(j) /\ HostOk(j) /\ PhaseOk(j) /\ gen[j] \in Nat
  BY PhaseSays, RingFacts DEF CardInv, Orderly, WholeSends
<1>1. /\ Goes(j) /\ wst'[j] = "CLOSED" /\ wfd'[j] \notin HostStream /\ wst[j] \notin {"CLOSED", "UDP"}
      /\ \/ KeepsAsked(j) /\ (wst[j] # "INIT" \/ txp[j] # << >>)
         \/ TakesAsked(j) /\ req[1].msg \in {"Connect", "SendTcp"}
  BY DEF Dies, HostStream
<1>2. PICK c \in {"Failed", "Reset"} : Hears(j)' \subseteq Hears(j) \cup {<<"Status", c>>}
  <2>1. PICK c \in {"Failed", "Reset"} : Reports(j, StatusEvent(j, gen[j], c))
    BY DEF Dies
  <2> DEFINE e == StatusEvent(j, gen[j], c)
  <2>2. News1(e) = <<"Status", c>>
    BY DEF News1, StatusEvent, Event
  <2>3. Reports(j, e)
    BY <2>1
  <2> HIDE DEF e
  <2>4. Hears(j)' \subseteq Hears(j) \cup {<<"Status", c>>}
    BY <1>0, <2>2, <2>3, HearsAdded
  <2> QED
    BY <2>4
<1>3. AtWork(j) /\ AtWork(j)' /\ ~Opening(j)
  BY <1>0, <1>1 DEF Goes, PhaseOk
<1>4. IsStream(j)
  BY <1>0, <1>1, <1>3 DEF IsStream, HostOk
<1>5. Wants(j)' \subseteq Wants(j) /\ InTurn(j)' /\ WholeSends(j)'
  BY <1>0, <1>1, WantsKept, WantsTaken
<1>6. Untouched(j) => ~Young(j)'
  <2> HAVE Untouched(j)
  <2>1. TakesAsked(j) /\ req[1].msg \in {"Connect", "SendTcp"}
    BY <1>1, <1>3 DEF Untouched, HostEmpty
  <2>2. req[1].msg \in Wants(j)
    BY <1>0, <2>1, WantsTaken
  <2>3. req[1].msg = "Connect"
    BY <2>1, <2>2 DEF Untouched
  <2>4. Wants(j)' = {}
    BY <1>0, <2>1, <2>3, WantsTaken DEF Lasts
  <2>5. sr[j] # "INIT"
    BY <1>3, <2>2, <2>3 DEF Orderly, Lasts
  <2> QED
    BY <1>3, <2>4, <2>5 DEF Young, ChipStill
<1> QED
  BY <1>1, <1>2, <1>3, <1>4, <1>5, <1>6, OrderlyTold

(* Bytes either way, and the end of the peer's.                            *)
LEMMA OrderlyBytes ==
    ASSUME CardInv, NEW j \in Sock, Orderly(j), ChipStill(j), Pushes(j) \/ Passes(j) \/ Eofs(j)
    PROVE  Orderly(j)'
<1>0. Types /\ InTurn(j) /\ WholeSends(j) /\ HostOk(j) /\ PhaseOk(j) /\ gen[j] \in Nat
  BY PhaseSays, RingFacts DEF CardInv, Orderly, WholeSends
<1>1. /\ Goes(j) /\ wst[j] \notin {"CLOSED", "UDP"} /\ wfd'[j] = wfd[j]
      /\ wst'[j] = wst[j] \/ wst'[j] = "CLOSE_WAIT"
      /\ \/ KeepsAsked(j) /\ (wst[j] = "ESTABLISHED" \/ txp[j] # << >>)
         \/ TakesAsked(j) /\ req[1].msg = "SendTcp"
  <2>1. CASE Pushes(j)
    <3>1. (KeepsAsked(j) /\ txp[j] # << >>) \/ (TakesAsked(j) /\ req[1].msg = "SendTcp")
      <4>1. PICK b \in Seq(Nat) :
              \/ KeepsAsked(j) /\ b = txp[j] /\ b # << >>
              \/ TakesAsked(j) /\ req[1].msg = "SendTcp" /\ b = txp[j] \o req[1].data
        BY <2>1, Zenon DEF Pushes
      <4> HIDE DEF KeepsAsked, TakesAsked
      <4> QED
        BY <4>1, Zenon
    <3> QED
      BY <1>0, <2>1, <3>1 DEF Pushes, HostOk
  <2>2. CASE Passes(j) \/ Eofs(j)
    BY <1>0, <2>2 DEF Passes, Eofs, HostOk, HostSame
  <2> QED
    BY <2>1, <2>2
<1>2. \E n : Hears(j)' \subseteq Hears(j) \cup {n}
  <2>1. ASSUME NEW e, Reports(j, e) PROVE \E n : Hears(j)' \subseteq Hears(j) \cup {n}
    <3>1. Hears(j)' \subseteq Hears(j) \cup {News1(e)}
      BY <1>0, <2>1, HearsAdded
    <3> QED
      BY <3>1
  <2>2. Quiet(j) => \E n : Hears(j)' \subseteq Hears(j) \cup {n}
    <3>1. Quiet(j) => Hears(j)' \subseteq Hears(j) \cup {"x"}
      BY <1>0, HearsKept
    <3> QED
      BY <3>1
  <2>3. Quiet(j) \/ \E e : Reports(j, e)
    <3>1. Pushes(j) => Quiet(j) \/ \E e : Reports(j, e)
      BY DEF Pushes, Silent
    <3>2. Passes(j) => \E e : Reports(j, e)
      BY DEF Passes
    <3>3. Eofs(j) => \E e : Reports(j, e)
      BY DEF Eofs
    <3> QED
      BY <3>1, <3>2, <3>3
  <2> HIDE DEF Quiet, Reports
  <2> QED
    BY <2>1, <2>2, <2>3
<1>3. AtWork(j) /\ AtWork(j)' /\ ~Opening(j)
  BY <1>0, <1>1 DEF Goes, PhaseOk
<1>4. IsStream(j)
  BY <1>0, <1>1, <1>3 DEF IsStream, HostOk
<1>5. Wants(j)' \subseteq Wants(j) /\ InTurn(j)' /\ WholeSends(j)'
  BY <1>0, <1>1, WantsKept, WantsTaken
<1>6. ~Untouched(j)
  <2> SUFFICES ASSUME Untouched(j) PROVE FALSE
    OBVIOUS
  <2>1. TakesAsked(j) /\ req[1].msg = "SendTcp"
    BY <1>1, <1>3 DEF Untouched, HostEmpty
  <2>2. "SendTcp" \in Wants(j)
    BY <1>0, <2>1, WantsTaken
  <2> QED
    BY <2>2 DEF Untouched
<1>7. PICK n : Hears(j)' \subseteq Hears(j) \cup {n}
  BY <1>2
<1> QED
  BY <1>1, <1>7, <1>3, <1>4, <1>5, <1>6, OrderlyTold

(* The thread ends.                                                        *)
LEMMA OrderlyFinish ==
    ASSUME CardInv, NEW j \in Sock, Orderly(j), ChipStill(j), Finishes(j)
    PROVE  Orderly(j)'
<1>0. Types /\ InTurn(j) /\ WholeSends(j)
  BY DEF CardInv, Orderly, WholeSends
<1>1. /\ KeepsAsked(j) /\ Quiet(j) /\ (AtWork(j)' <=> AtWork(j)) /\ wst'[j] = "CLOSED" /\ wfd'[j] \notin HostStream
      /\ hostgot'[j] = hostgot[j] /\ txp'[j] = << >>
  BY DEF Finishes, Silent, HostStream
<1>2. Wants(j)' = Wants(j) /\ InTurn(j)' /\ WholeSends(j)' /\ Hears(j)' = Hears(j)
  BY <1>0, <1>1, WantsKept, HearsKept
<1>3. Opening(j) => Hears(j)' = {} /\ (AtWork(j) /\ HostEmpty(j) => HostEmpty(j)')
  BY <1>1, <1>2 DEF Orderly, HostEmpty
<1>4. Untouched(j) => Untouched(j)'
  BY <1>1, <1>2 DEF Untouched, HostEmpty, ChipStill, GhostsSame
<1> QED
  BY <1>1, <1>2, <1>3, <1>4, OrderlyWorkerStill

LEMMA OrderlyWorker ==
    ASSUME CardInv, NEW j \in Sock, Orderly(j), ChipStill(j), WorkerMove(j)
    PROVE  Orderly(j)'
BY OrderlyAside, OrderlyDatagram, OrderlyBegun, OrderlyUp, OrderlyDown, OrderlyBytes, OrderlyFinish
   DEF WorkerMove, RequestMove, PollMove

-----------------------------------------------------------------------------
(* The steps of the specification.                                         *)

LEMMA ChipFrame ==
    ASSUME ChipNext \/ StopJoin
    PROVE  evtLost' = evtLost
<1>1. ASSUME NEW i \in Sock, Command(i) PROVE evtLost' = evtLost
  <2>1. CASE \/ \E p \in Protocol : WriteMR(i, p)
             \/ WriteIR(i) \/ OpenClose(i) \/ OpenFinish(i) \/ Listen(i) \/ Connect(i) \/ Discon(i) \/ Close(i)
             \/ Send(i) \/ SendKeep(i) \/ \E k \in 1 .. RxSize : Recv(i, k)
    BY <2>1 DEF WriteMR, WriteIR, OpenClose, OpenFinish, Listen, Connect, Discon, Close, Send, SendKeep, Recv
  <2>2. CASE Restore(i)
    BY <2>2 DEF Restore
  <2> QED
    BY <1>1, <2>1, <2>2 DEF Command
<1>2. CASE Reset \/ TickBegin \/ ApplyEvent \/ TickEnd
  BY <1>2 DEF Reset, TickBegin, ApplyEvent, TickEnd, ApplyStale, ApplyStatus, ApplyRxTcp, ApplyRxUdp,
     ApplyMacRaw, ApplySendDone, Applying
<1>3. CASE Snapshot \/ RestoreBegin \/ Stop \/ StopJoin
  BY <1>3 DEF Snapshot, RestoreBegin, Stop, StopJoin
<1> QED
  BY <1>1, <1>2, <1>3 DEF ChipNext

LEMMA WorkerFrame ==
    ASSUME WorkerNext \/ PeerNext
    PROVE  reqLost' = reqLost /\ (wpc' # "done" => wpc # "done")
<1>1. CASE Wake \/ ExitNotRunning \/ ExitShutdown \/ Drained \/ PeerNext
  BY <1>1 DEF Wake, ExitNotRunning, ExitShutdown, Drained, Finish, PeerNext, PeerSend, PeerEnds, PeerOnly, workVars
<1>2. CASE Requests
  BY <1>2 DEF Requests, HandleLeftover, HandleOpen, HandleAdoptListen, HandleClose, HandleConnect,
     HandleSendTcp, HandleSendDatagram, Taking
<1>3. CASE PollInvalid \/ PollConnecting \/ PollConnectDone \/ PollListening \/ PollOpen \/ PollFlush
  BY <1>3 DEF PollInvalid, PollConnecting, PollConnectDone, PollListening, PollOpen, PollFlush, Polling
<1>4. CASE PollNoFlush \/ PollNoRecv \/ PollLoadCredit \/ PollTake \/ PollPost
  BY <1>4 DEF PollNoFlush, PollNoRecv, PollLoadCredit, PollTake, PollPost, Polling
<1>5. CASE PollEof \/ PollRecvError \/ PollUdp \/ Slirp
  BY <1>5 DEF PollEof, PollRecvError, PollUdp, Slirp, Polling
<1> QED
  BY <1>1, <1>2, <1>3, <1>4, <1>5 DEF WorkerNext, Poll

(* A step of the chip leaves the host as it is, and the other way round.   *)
ChipStep(j) ==
    /\ ChipMove(j) /\ HostStill(j) /\ kin'[j] = kin[j] /\ psent'[j] = psent[j] /\ peer'[j] = peer[j]
    /\ wpc' = wpc /\ wi' = wi /\ wgot' = wgot /\ evtLost' = evtLost

WorkerStep(j) ==
    /\ WorkerNext \/ PeerNext
    /\ WorkerMove(j) /\ ChipStill(j) /\ (wpc' # "done" => wpc # "done") /\ saved' = saved

LEMMA Steps ==
    ASSUME CardInv, RingClear, [Next]_vars, NEW j \in Sock
    PROVE  ChipStep(j) \/ WorkerStep(j)
<1>0. Types /\ HostState'
  BY InvStep DEF CardInv
<1>1. CASE (ChipNext \/ StopJoin) /\ UNCHANGED <<workVars, hostVars>>
  <2>1. ChipMove(j)
    BY <1>1, ChipMoves DEF workVars
  <2>2. evtLost' = evtLost
    BY <1>1, ChipFrame
  <2> HIDE DEF ChipMove
  <2> QED
    BY <1>1, <2>1, <2>2 DEF ChipStep, HostStill, workVars, hostVars
<1>2. CASE (WorkerNext \/ PeerNext) /\ UNCHANGED chipVars
  <2>1. UNCHANGED <<emu, sr, gen, rxbuf, rxpend, saved, txn, taken, sendoks>>
    BY <1>2 DEF chipVars, ghosts
  <2>2. WorkerMove(j)
    BY <1>0, <1>2, <2>1, WorkerMoves
  <2>3. reqLost' = reqLost /\ (wpc' # "done" => wpc # "done")
    BY <1>2, WorkerFrame
  <2> HIDE DEF WorkerMove
  <2> QED
    BY <1>2, <2>1, <2>2, <2>3 DEF WorkerStep, ChipStill, GhostsSame, Opening
<1>3. CASE UNCHANGED vars
  <2>1. UNCHANGED <<emu, sr, gen, rxbuf, rxpend, saved, txn, taken, sendoks, req, evt, reqLost, evtLost>>
    BY <1>3 DEF vars, chipVars, ghosts
  <2>2. UNCHANGED <<wpc, wi, wgen, wfd, wst, txp, wgot, peer, kin, psent, hostgot>>
    BY <1>3 DEF vars, workVars, hostVars
  <2>3. KeepsAsked(j) /\ Quiet(j)
    BY <1>0, <2>1, AskedSame, ToldSame
  <2> HIDE DEF KeepsAsked, Quiet
  <2>4. Rest(j)
    BY <2>1, <2>3 DEF Rest, GoesOn, NoRequest, GhostsSame, Opening
  <2> QED
    BY <2>1, <2>2, <2>4 DEF ChipStep, ChipMove, HostStill
<1> QED
  BY <1>1, <1>2, <1>3 DEF Next, Emulator, Worker, Peer, Stopped, StopJoin

(* Only a connection that is up has a peer that is, or one that a Connect  *)
(* is about to try again.                                                  *)
StaysUp(j) == peer[j] = "up" /\ wgen'[j] = wgen[j] /\ wst'[j] = wst[j]
Redials(j) ==
    peer[j] = "up" /\ 1 \in 1 .. Len(req) /\ req[1].sock = j /\ req[1].gen = wgen[j] /\ req[1].msg = "Connect"

LEMMA PeerUp ==
    ASSUME Types, HostState, WorkerNext \/ PeerNext, NEW j \in Sock, peer'[j] = "up"
    PROVE  wst'[j] = "ESTABLISHED" \/ StaysUp(j) \/ (Redials(j) /\ wgen'[j] = wgen[j])
<1>0. /\ wgen \in [Sock -> 0 .. MaxGen] /\ wst \in [Sock -> Status] /\ peer \in [Sock -> {"none", "up", "fin", "rst"}]
      /\ wi \in Sock
  BY DEF Types, WorkerTypes
<1>1. ASSUME peer'[j] = peer[j], wgen'[j] = wgen[j], wst'[j] = wst[j] PROVE StaysUp(j)
  BY <1>1 DEF StaysUp
<1>2. ASSUME NEW i \in Sock, NEW fd, NEW st, NewState(i, fd, st), wgen' = wgen \/ \E g : wgen' = [wgen EXCEPT ![i] = g]
      PROVE  StaysUp(j)
  <2>1. j # i
    BY <1>0, <1>2 DEF NewState
  <2> QED
    BY <1>0, <1>1, <1>2, <2>1 DEF NewState
<1>3. ASSUME NEW i \in Sock, NEW b, FlushTcpTx(i, b), wgen' = wgen PROVE StaysUp(j)
  <2>1. CASE UNCHANGED <<wfd, wst, peer, kin, psent>>
    BY <1>1, <1>3, <2>1
  <2>2. CASE CloseState(i)
    BY <1>2, <1>3, <2>2 DEF CloseState
  <2> QED
    BY <1>3, <2>1, <2>2 DEF FlushTcpTx
<1>4. req # << >> => Head(req) = req[1] /\ req[1] \in Requested /\ 1 \in 1 .. Len(req) /\ req[1].sock \in Sock
  <2> HAVE req # << >>
  <2>1. Head(req) = req[1] /\ Len(req) \in Nat \ {0}
    BY TakenRequest
  <2>2. 1 \in 1 .. Len(req)
    BY <2>1
  <2>3. req[1] \in Requested
    BY <2>2, RingFacts
  <2> QED
    BY <2>1, <2>2, <2>3 DEF Requested
<1>5. CASE Wake \/ Drained \/ HandleLeftover \/ HandleSendDatagram \/ Slirp
  BY <1>1, <1>5 DEF Wake, Drained, HandleLeftover, HandleSendDatagram, Slirp, sockVars, hostVars
<1>6. CASE ExitNotRunning \/ ExitShutdown
  BY <1>6 DEF ExitNotRunning, ExitShutdown, Finish
<1>7. CASE HandleOpen
  BY <1>2, <1>4, <1>7 DEF HandleOpen, Taking, CloseState
<1>8. CASE HandleAdoptListen \/ HandleClose
  BY <1>2, <1>4, <1>8 DEF HandleAdoptListen, HandleClose, Taking, CloseState
<1>9. CASE HandleConnect
  <2> DEFINE i == req[1].sock
  <2>1. i \in Sock /\ Head(req) = req[1] /\ req[1].msg = "Connect" /\ req[1].gen = wgen[i] /\ wgen' = wgen /\ 1 \in 1 .. Len(req)
    BY <1>4, <1>9 DEF HandleConnect, Taking, Leftover, DefinesGen, RawTx
  <2>2. CASE UNCHANGED <<wfd, wst, txp, peer, kin, psent>>
    BY <1>1, <2>1, <2>2
  <2>3. CASE wst' = [wst EXCEPT ![i] = "ESTABLISHED"] /\ peer' = [peer EXCEPT ![i] = "up"]
    BY <1>0, <1>1, <2>1, <2>3
  <2>4. CASE wst' = [wst EXCEPT ![i] = "SYNSENT"] /\ UNCHANGED <<wfd, txp, peer, kin, psent>>
    <3>1. CASE j = i
      BY <2>1, <2>4, <3>1 DEF Redials
    <3>2. CASE j # i
      BY <1>0, <1>1, <2>1, <2>4, <3>2
    <3> QED
      BY <3>1, <3>2
  <2>5. CASE CloseState(i)
    BY <1>2, <2>1, <2>5 DEF CloseState
  <2> QED
    BY <1>9, <2>1, <2>2, <2>3, <2>4, <2>5 DEF HandleConnect
<1>10. CASE HandleSendTcp
  <2>1. req[1].sock \in Sock /\ Head(req) = req[1] /\ wgen' = wgen
    BY <1>4, <1>10 DEF HandleSendTcp, Taking
  <2>2. UNCHANGED <<wst, peer>> \/ FlushTcpTx(req[1].sock, txp[req[1].sock] \o req[1].data)
    BY <1>10, <2>1 DEF HandleSendTcp
  <2> QED
    BY <1>1, <1>3, <2>1, <2>2
<1>11. CASE PollInvalid \/ PollConnecting \/ PollOpen \/ PollNoFlush \/ PollNoRecv \/ PollLoadCredit \/ PollTake
           \/ PollPost \/ PollUdp
  BY <1>1, <1>11 DEF PollInvalid, PollConnecting, PollOpen, PollNoFlush, PollNoRecv, PollLoadCredit, PollTake,
     PollPost, PollUdp, Polling
<1>12. CASE PollConnectDone
  <2>1. CASE CloseState(wi)
    BY <1>0, <1>2, <1>12, <2>1 DEF PollConnectDone, Polling, CloseState
  <2>2. CASE wst' = [wst EXCEPT ![wi] = "ESTABLISHED"] /\ peer' = [peer EXCEPT ![wi] = "up"]
    BY <1>0, <1>1, <1>12, <2>2 DEF PollConnectDone, Polling
  <2> QED
    BY <1>12, <2>1, <2>2 DEF PollConnectDone
<1>13. CASE PollListening
  BY <1>0, <1>1, <1>13 DEF PollListening, Polling
<1>14. CASE PollFlush
  BY <1>0, <1>3, <1>14 DEF PollFlush
<1>15. CASE PollEof
  BY <1>0, <1>1, <1>15 DEF PollEof, Polling
<1>16. CASE PollRecvError
  <2>1. CASE CloseState(wi)
    BY <1>0, <1>2, <1>16, <2>1 DEF PollRecvError, Polling, CloseState
  <2>2. CASE UNCHANGED <<wfd, wst, txp, peer, kin, psent>>
    BY <1>1, <1>16, <2>2 DEF PollRecvError, Polling
  <2> QED
    BY <1>16, <2>1, <2>2 DEF PollRecvError
<1>17. CASE PeerNext
  <2>1. PICK i \in Sock : PeerSend(i) \/ PeerEnds(i)
    BY <1>17 DEF PeerNext
  <2>2. wgen' = wgen /\ wst' = wst /\ (peer' = peer \/ \E end \in {"fin", "rst"} : peer' = [peer EXCEPT ![i] = end])
    BY <2>1 DEF PeerSend, PeerEnds, PeerOnly, workVars
  <2> QED
    BY <1>0, <1>1, <2>2
<1> QED
  BY <1>5, <1>6, <1>7, <1>8, <1>9, <1>10, <1>11, <1>12, <1>13, <1>14, <1>15, <1>16, <1>17
     DEF WorkerNext, Requests, Poll

(* HostClear is an invariant.                                              *)
LEMMA DialsFirst ==
    ASSUME CardInv, NEW j \in Sock, Orderly(j), AtWork(j), "Connect" \in Wants(j)
    PROVE  wst[j] \in {"CLOSED", "INIT"} /\ IsStream(j) /\ Untouched(j)
<1>1. HostOk(j) /\ PhaseOk(j)
  BY PhaseSays
<1>2. ~Opening(j)
  BY <1>1 DEF PhaseOk, Closes
<1>3. IsStream(j) /\ Young(j)
  BY <1>2 DEF IsStream, Young, Openers
<1>4. Untouched(j)
  BY <1>3 DEF Orderly
<1> QED
  BY <1>3, <1>4 DEF Untouched

LEMMA ClearStep ==
    ASSUME CardInv, RingClear, [Next]_vars, NEW j \in Sock, Orderly(j), HostClear(j)
    PROVE  HostClear(j)'
<1>0. Types /\ HostState /\ HostOk(j) /\ InTurn(j) /\ kin[j] \in Seq(Byte)
  BY PhaseSays DEF CardInv, Orderly, Types, WorkerTypes
<1>1. CASE ChipStep(j)
  <2>1. AtWork(j)' => AtWork(j)
    BY <1>1 DEF ChipStep, ChipMove, Anew, Ended, Reborn, Rest, Opens, Asks, Puts, Reads, Frames, Learns, Sees, GoesOn,
       AtWork, HostStill
  <2> QED
    BY <1>1, <2>1 DEF ChipStep, HostStill, HostClear
<1>2. CASE WorkerStep(j)
  <2> SUFFICES ASSUME AtWork(j)', wst'[j] # "ESTABLISHED" PROVE kin'[j] = << >> /\ peer'[j] # "up"
    BY DEF HostClear
  <2>1. gen'[j] = gen[j]
    BY <1>2 DEF WorkerStep, ChipStill
  <2>2. peer'[j] # "up"
    <3> SUFFICES ASSUME peer'[j] = "up" PROVE FALSE
      OBVIOUS
    <3>1. StaysUp(j) \/ (Redials(j) /\ wgen'[j] = wgen[j])
      BY <1>0, <1>2, PeerUp DEF WorkerStep
    <3>2. AtWork(j) /\ peer[j] = "up"
      BY <2>1, <3>1 DEF StaysUp, Redials, AtWork
    <3>3. wst[j] = "ESTABLISHED"
      BY <3>2 DEF HostClear
    <3>4. CASE StaysUp(j)
      BY <3>3, <3>4 DEF StaysUp
    <3>5. CASE Redials(j)
      <4>1. 1 \in Current(j) /\ req[1].msg = "Connect"
        BY <3>2, <3>5 DEF Redials, Current, AtWork
      <4>2. "Connect" \in Wants(j)
        BY <4>1 DEF Wants
      <4> QED
        BY <3>2, <3>3, <4>2, DialsFirst
    <3> QED
      BY <3>1, <3>4, <3>5
  <2>3. kin'[j] = << >>
    <3>0. WorkerMove(j)
      BY <1>2 DEF WorkerStep
    <3> HIDE DEF WorkerMove
    <3>1. CASE Aside(j) \/ Ignored(j) \/ Answered(j) \/ Pushes(j) \/ Passes(j) \/ Catches(j) \/ PeerLeaves(j)
      BY <3>1 DEF HostClear, Aside, Ignored, Answered, Pushes, Passes, Catches, PeerLeaves, HostSame, BytesSame, Goes
    <3>2. CASE Begun(j) \/ Rises(j) \/ Dies(j) \/ Eofs(j) \/ Finishes(j)
      BY <3>2 DEF Begun, Rises, Dies, Eofs, Finishes, BytesSame
    <3>3. CASE Dials(j)
      <4>1. AtWork(j) /\ kin'[j] = kin[j] /\ TakesAsked(j) /\ req[1].msg = "Connect"
        BY <3>3 DEF Dials, Goes, BytesSame
      <4>2. "Connect" \in Wants(j)
        BY <1>0, <4>1, WantsTaken
      <4>3. wst[j] # "ESTABLISHED"
        BY <4>1, <4>2, DialsFirst
      <4> QED
        BY <4>1, <4>3 DEF HostClear
    <3>4. CASE Gets(j)
      <4>1. kin[j] = << >> /\ kin[j] = InHand(j)' \o kin'[j]
        BY <3>4 DEF Gets, Goes, HostClear
      <4>2. InHand(j)' \in Seq(Byte) /\ kin'[j] \in Seq(Byte)
        <5>1. Types'
          BY InvStep DEF CardInv
        <5>2. wgot' \in Seq(Byte) /\ << >> \in Seq(Byte)
          BY <5>1 DEF Types, WorkerTypes
        <5> QED
          BY <5>1, <5>2 DEF InHand, Types, WorkerTypes
      <4> QED
        BY <4>1, <4>2
    <3>5. CASE PeerWrites(j)
      BY <3>5 DEF PeerWrites, Goes, HostClear
    <3> QED
      BY <3>0, <3>1, <3>2, <3>3, <3>4, <3>5 DEF WorkerMove, RequestMove, PollMove
  <2> QED
    BY <2>2, <2>3
<1> QED
  BY <1>1, <1>2, Steps

(* The rings and the host in order: what the other invariants rest on.     *)
OrderInv == CardInv /\ RingClear /\ \A j \in Sock : Orderly(j) /\ HostClear(j)

LEMMA StartFacts ==
    ASSUME Init, NEW j \in Sock
    PROVE  /\ ~AtWork(j) /\ ~Opening(j) /\ Told(j) = {} /\ sr[j] = "CLOSED" /\ rxbuf[j] = << >> /\ saved = << >>
           /\ Wants(j) \subseteq Ends /\ Hears(j) = {} /\ InHand(j) = << >> /\ evt = << >>
           /\ txn[j] = 0 /\ sendoks[j] = 0 /\ taken[j] = 0 /\ wpc = "top" /\ ~IsStream(j)
<1>1. /\ evt = << >> /\ wpc = "top" /\ wgot = << >> /\ saved = << >> /\ emu = <<"idle", 0>>
      /\ sr = [i \in Sock |-> "CLOSED"] /\ gen = [i \in Sock |-> 1] /\ wgen = [i \in Sock |-> 0]
      /\ rxbuf = [i \in Sock |-> << >>] /\ txn = [i \in Sock |-> 0] /\ taken = [i \in Sock |-> 0]
      /\ sendoks = [i \in Sock |-> 0]
  BY DEF Init, ChipInit, NetInit
<1>2. ~AtWork(j) /\ ~Opening(j) /\ Told(j) = {} /\ InHand(j) = << >>
  BY <1>1, EmptySeq DEF AtWork, Opening, Told, InHand
<1>3. Wants(j) \subseteq Ends
  BY InitRequests DEF Wants, Current, Ends
<1>4. Hears(j) = {}
  BY <1>2 DEF Hears
<1>5. ~IsStream(j)
  BY <1>1, <1>2, <1>3, <1>4 DEF IsStream, Unconnected, Connected, Openers, Ends
<1> QED
  BY <1>1, <1>2, <1>3, <1>4, <1>5

LEMMA OrderStart == Init => OrderInv
<1> SUFFICES ASSUME Init PROVE OrderInv
  OBVIOUS
<1>1. CardInv
  BY InvStart
<1>2. RingClear
  <2>1. 0 \in Sock
    BY SizeFacts
  <2>2. wpc = "top"
    BY <2>1, StartFacts
  <2> QED
    BY <2>2, InitRequests DEF RingClear
<1>3. ASSUME NEW j \in Sock PROVE Orderly(j) /\ HostClear(j)
  <2>1. \A k \in Current(j) : k = j + 1 /\ req[k].msg = "CloseHost"
    <3> TAKE k \in Current(j)
    <3>1. k \in 1 .. Len(req) /\ req[k].sock = j /\ Len(req) \in Nat
      BY InitRequests DEF Current
    <3>2. k - 1 = j /\ req[k].msg = "CloseHost"
      BY <3>1, InitRequests
    <3> QED
      BY <3>1, <3>2
  <2>2. InTurn(j) /\ WholeSends(j)
    <3>1. j + 1 <= j + 1
      BY SizeFacts
    <3> QED
      BY <2>1, <3>1 DEF InTurn, WholeSends, Lasts, Ends
  <2> QED
    BY <2>2, StartFacts DEF Orderly, HostClear, WholeSends
<1> QED
  BY <1>1, <1>2, <1>3 DEF OrderInv

LEMMA OrderStay == OrderInv /\ [Next]_vars => OrderInv'
<1> SUFFICES ASSUME OrderInv, [Next]_vars PROVE OrderInv'
  OBVIOUS
<1>1. CardInv /\ RingClear /\ CardInv'
  BY InvStep DEF OrderInv
<1>2. RingClear'
  <2>1. CASE (ChipNext \/ StopJoin) /\ UNCHANGED <<workVars, hostVars>>
    BY <1>1, <2>1, ChipClear DEF workVars
  <2>2. CASE WorkerNext \/ PeerNext
    BY <1>1, <2>2, WorkerClear
  <2>3. CASE UNCHANGED vars
    BY <1>1, <2>3 DEF RingClear, vars, workVars
  <2> QED
    BY <2>1, <2>2, <2>3 DEF Next, Emulator, Worker, Peer, Stopped, StopJoin
<1>3. ASSUME NEW j \in Sock PROVE Orderly(j)' /\ HostClear(j)'
  <2>1. Orderly(j) /\ HostClear(j)
    BY DEF OrderInv
  <2>2. ChipStep(j) \/ WorkerStep(j)
    BY <1>1, Steps
  <2>3. Orderly(j)'
    BY <1>1, <2>1, <2>2, OrderlyChip, OrderlyWorker DEF ChipStep, WorkerStep
  <2> QED
    BY <1>1, <2>1, <2>3, ClearStep
<1> QED
  BY <1>1, <1>2, <1>3 DEF OrderInv

-----------------------------------------------------------------------------
(* The status of a socket: what the guest will see once it has been told   *)
(* everything that is under way is what the host will have once it has     *)
(* done everything that was asked, or CLOSED.                              *)

Plain(s) == IF s \in {"MACRAW", "IPRAW"} THEN "CLOSED" ELSE s

Statuses(j) == {k \in Told(j) : evt[k].evt = "Status"}

Finally(j) ==
    {st \in Status :
        \/ Statuses(j) = {} /\ st = Plain(sr[j])
        \/ \E k \in Statuses(j) : (\A l \in Statuses(j) : l <= k) /\ st = StatusOf(evt[k].cause)}

Base(j) ==
    IF "AdoptListen" \in Wants(j) THEN {"LISTEN"}
    ELSE IF "OpenTcp" \in Wants(j) THEN {"INIT"}
    ELSE IF "OpenUdp" \in Wants(j) THEN {"UDP"}
    ELSE IF Wants(j) \cap Ends # {} THEN {"CLOSED"}
    ELSE IF AtWork(j) THEN {wst[j]} ELSE Status

Dialled(s) == IF s = "CLOSED" THEN s ELSE "SYNSENT"

Bound(j) == {"CLOSED"} \cup (IF "Connect" \in Wants(j) THEN {Dialled(s) : s \in Base(j)} ELSE Base(j))

(* Nothing was lost to a full ring.                                        *)
Heeded(j) ==
    ~Opening(j) /\ reqLost[j] # gen[j] /\ ~(AtWork(j) /\ evtLost[j] = gen[j]) /\ wpc # "done"

StatusOk(j) == Heeded(j) => Finally(j) \subseteq Bound(j)

LEMMA FinallyKept ==
    ASSUME Types, NEW j \in Sock, Quiet(j), sr'[j] = sr[j]
    PROVE  Finally(j)' = Finally(j)
<1>1. PICK a \in {0, 1} : /\ \A k \in Told(j)' : k + a \in Told(j) /\ evt'[k] = evt[k + a]
                          /\ \A k \in Told(j) : k - a \in Told(j)'
  BY DEF Quiet, KeepsTold
<1>2. Told(j) \subseteq Nat /\ a \in Nat /\ \A k \in Told(j)' : k \in Int
  BY RingFacts DEF Told
<1>3. \A k \in Told(j) : k - a \in Told(j)' /\ (k - a) + a = k /\ evt'[k - a] = evt[k]
  <2> TAKE k \in Told(j)
  <2>1. k - a \in Told(j)' /\ (k - a) + a = k
    BY <1>1, <1>2
  <2> QED
    BY <1>1, <2>1
<1>4. \A k \in Statuses(j)' : k + a \in Statuses(j) /\ evt'[k] = evt[k + a]
  BY <1>1 DEF Statuses
<1>5. \A k \in Statuses(j) : k - a \in Statuses(j)' /\ evt'[k - a] = evt[k]
  BY <1>3 DEF Statuses
<1>6. \A k \in Statuses(j) : k \in Nat
  BY <1>2 DEF Statuses
<1>7. \A k \in Statuses(j)' : k \in Int
  BY <1>2 DEF Statuses
<1>8. ASSUME NEW k \in Statuses(j)', \A l \in Statuses(j)' : l <= k
      PROVE  \A l \in Statuses(j) : l <= k + a
  <2> TAKE l \in Statuses(j)
  <2>1. l - a <= k
    BY <1>5, <1>8
  <2> QED
    BY <1>2, <1>6, <1>7, <2>1
<1>9. ASSUME NEW k \in Statuses(j), \A l \in Statuses(j) : l <= k
      PROVE  \A l \in Statuses(j)' : l <= k - a
  <2> TAKE l \in Statuses(j)'
  <2>1. l + a <= k
    BY <1>4, <1>9
  <2> QED
    BY <1>2, <1>6, <1>7, <2>1
<1>10. Statuses(j)' = {} <=> Statuses(j) = {}
  BY <1>4, <1>5
<1>11. ASSUME NEW st, st \in Finally(j)' PROVE st \in Finally(j)
  <2>1. st \in Status /\ \/ Statuses(j)' = {} /\ st = Plain(sr'[j])
                         \/ \E k \in Statuses(j)' : (\A l \in Statuses(j)' : l <= k) /\ st = StatusOf(evt'[k].cause)
    BY <1>11 DEF Finally
  <2>2. CASE Statuses(j)' = {} /\ st = Plain(sr'[j])
    BY <1>10, <2>1, <2>2 DEF Finally
  <2>3. ASSUME NEW k \in Statuses(j)', \A l \in Statuses(j)' : l <= k, st = StatusOf(evt'[k].cause)
        PROVE  st \in Finally(j)
    <3>1. k + a \in Statuses(j) /\ st = StatusOf(evt[k + a].cause) /\ \A l \in Statuses(j) : l <= k + a
      BY <1>4, <1>8, <2>3
    <3> QED
      BY <2>1, <3>1 DEF Finally
  <2> QED
    BY <2>1, <2>2, <2>3
<1>12. ASSUME NEW st, st \in Finally(j) PROVE st \in Finally(j)'
  <2>1. st \in Status /\ \/ Statuses(j) = {} /\ st = Plain(sr[j])
                         \/ \E k \in Statuses(j) : (\A l \in Statuses(j) : l <= k) /\ st = StatusOf(evt[k].cause)
    BY <1>12 DEF Finally
  <2>2. CASE Statuses(j) = {} /\ st = Plain(sr[j])
    BY <1>10, <2>1, <2>2 DEF Finally
  <2>3. ASSUME NEW k \in Statuses(j), \A l \in Statuses(j) : l <= k, st = StatusOf(evt[k].cause)
        PROVE  st \in Finally(j)'
    <3>1. k - a \in Statuses(j)' /\ st = StatusOf(evt'[k - a].cause) /\ \A l \in Statuses(j)' : l <= k - a
      BY <1>5, <1>9, <2>3
    <3> QED
      BY <2>1, <3>1 DEF Finally
  <2> QED
    BY <2>1, <2>2, <2>3
<1> QED
  BY <1>11, <1>12

(* A new status is the last one.                                           *)
LEMMA FinallyTold ==
    ASSUME Types, NEW j \in Sock, NEW e, Tells(j, e), sr'[j] = sr[j]
    PROVE  /\ e.evt = "Status" => Finally(j)' \subseteq {StatusOf(e.cause)}
           /\ e.evt # "Status" => Finally(j)' = Finally(j)
<1>1. PICK n \in Told(j)' :
        /\ evt'[n] = e
        /\ \A k \in Told(j)' : k = n \/ (k \in Told(j) /\ evt'[k] = evt[k])
        /\ \A k \in Told(j) : k \in Told(j)' /\ k < n
  BY DEF Tells, AddsTold
<1>2. Told(j) \subseteq Nat /\ n \in Int
  BY RingFacts DEF Told
<1>3. \A k \in Told(j) : k \in Told(j)' /\ k < n /\ evt'[k] = evt[k]
  BY <1>1, <1>2
<1>4. CASE e.evt # "Status"
  <2>1. Statuses(j)' = Statuses(j) /\ \A k \in Statuses(j) : evt'[k] = evt[k]
    BY <1>1, <1>3, <1>4 DEF Statuses
  <2> QED
    BY <1>4, <2>1 DEF Finally
<1>5. CASE e.evt = "Status"
  <2>1. n \in Statuses(j)'
    BY <1>1, <1>5 DEF Statuses
  <2>2. \A k \in Statuses(j)' : k # n => ~(n <= k)
    BY <1>1, <1>2 DEF Statuses
  <2>3. \A k \in Statuses(j)' : (\A l \in Statuses(j)' : l <= k) => k = n
    BY <2>1, <2>2
  <2> QED
    BY <1>1, <1>5, <2>1, <2>3 DEF Finally
<1> QED
  BY <1>4, <1>5

(* The guest is told the oldest.                                           *)
LEMMA FinallyTaken ==
    ASSUME Types, NEW j \in Sock, NEW e, Applies(j, e),
           IF e.evt = "Status" THEN sr'[j] = StatusOf(e.cause) ELSE sr'[j] = sr[j]
    PROVE  Finally(j)' \subseteq Finally(j)
<1>1. /\ 1 \in Told(j) /\ e = evt[1]
      /\ \A k \in Told(j)' : k + 1 \in Told(j) /\ evt'[k] = evt[k + 1]
      /\ \A k \in Told(j) : k # 1 => k - 1 \in Told(j)'
  BY DEF Applies, TakesTold
<1>2. Told(j) \subseteq Nat \ {0} /\ \A k \in Told(j)' : k \in Int /\ k >= 1
  BY RingFacts DEF Told
<1>3. \A k \in Statuses(j)' : k + 1 \in Statuses(j) /\ evt'[k] = evt[k + 1] /\ k \in Int /\ k >= 1
  BY <1>1, <1>2 DEF Statuses
<1>4. \A k \in Statuses(j) : k \in Nat \ {0} /\ (k # 1 => k - 1 \in Statuses(j)')
  <2> TAKE k \in Statuses(j)
  <2>1. k \in Told(j) /\ evt[k].evt = "Status" /\ k \in Nat \ {0}
    BY <1>2 DEF Statuses
  <2>2. k # 1 => k - 1 \in Told(j)' /\ (k - 1) + 1 = k
    BY <1>1, <2>1
  <2>3. k # 1 => evt'[k - 1] = evt[k]
    BY <1>1, <2>2
  <2> QED
    BY <2>1, <2>2, <2>3 DEF Statuses
<1> SUFFICES ASSUME NEW st, st \in Finally(j)' PROVE st \in Finally(j)
  OBVIOUS
<1>5. st \in Status /\ \/ Statuses(j)' = {} /\ st = Plain(sr'[j])
                       \/ \E k \in Statuses(j)' : (\A l \in Statuses(j)' : l <= k) /\ st = StatusOf(evt'[k].cause)
  BY DEF Finally
<1>6. CASE Statuses(j)' = {} /\ st = Plain(sr'[j])
  <2>1. \A k \in Statuses(j) : k = 1
    BY <1>4, <1>6
  <2>2. CASE e.evt = "Status"
    <3>1. 1 \in Statuses(j)
      BY <1>1, <2>2 DEF Statuses
    <3>2. st = StatusOf(evt[1].cause)
      BY <1>1, <1>6, <2>2 DEF Plain, StatusOf
    <3>3. \A l \in Statuses(j) : l <= 1
      BY <2>1
    <3> QED
      BY <1>5, <3>1, <3>2, <3>3 DEF Finally
  <2>3. CASE e.evt # "Status"
    <3>1. Statuses(j) = {}
      BY <1>1, <2>1, <2>3 DEF Statuses
    <3> QED
      BY <1>5, <1>6, <2>3, <3>1 DEF Finally
  <2> QED
    BY <2>2, <2>3
<1>7. ASSUME NEW k \in Statuses(j)', \A l \in Statuses(j)' : l <= k, st = StatusOf(evt'[k].cause)
      PROVE  st \in Finally(j)
  <2>1. k + 1 \in Statuses(j) /\ st = StatusOf(evt[k + 1].cause)
    BY <1>3, <1>7
  <2>2. ASSUME NEW l \in Statuses(j) PROVE l <= k + 1
    <3>1. l # 1 => l - 1 <= k
      BY <1>4, <1>7
    <3> QED
      BY <1>3, <1>4, <3>1
  <2> QED
    BY <1>5, <2>1, <2>2 DEF Finally
<1> QED
  BY <1>5, <1>6, <1>7

(* Nothing told, or nothing but failures.                                  *)
LEMMA FinallyNone ==
    ASSUME NEW j \in Sock, Statuses(j) = {}
    PROVE  Finally(j) \subseteq {Plain(sr[j])}
BY DEF Finally

LEMMA FinallyFailed ==
    ASSUME NEW j \in Sock, Hears(j) \subseteq {<<"Status", "Failed">>}
    PROVE  IF Statuses(j) = {} THEN Finally(j) \subseteq {Plain(sr[j])} ELSE Finally(j) \subseteq {"CLOSED"}
<1>1. \A k \in Statuses(j) : evt[k].cause = "Failed"
  <2> TAKE k \in Statuses(j)
  <2>1. <<evt[k].evt, evt[k].cause>> \in Hears(j)
    BY DEF Statuses, Hears
  <2>2. <<evt[k].evt, evt[k].cause>> = <<"Status", "Failed">>
    BY <2>1
  <2> QED
    BY <2>2
<1>2. \A k \in Statuses(j) : StatusOf(evt[k].cause) = "CLOSED"
  BY <1>1 DEF StatusOf
<1> QED
  BY <1>2 DEF Finally

LEMMA BoundSame ==
    ASSUME NEW j \in Sock, AtWork(j)' <=> AtWork(j), AtWork(j) => wst'[j] = wst[j],
           \A x \in Openers \cup Ends \cup {"OpenUdp"} : x \in Wants(j)' <=> x \in Wants(j)
    PROVE  Bound(j)' = Bound(j)
<1>1. Wants(j)' \cap Ends = Wants(j) \cap Ends
  OBVIOUS
<1>2. /\ "AdoptListen" \in Wants(j)' <=> "AdoptListen" \in Wants(j)
      /\ "OpenTcp" \in Wants(j)' <=> "OpenTcp" \in Wants(j)
      /\ "OpenUdp" \in Wants(j)' <=> "OpenUdp" \in Wants(j)
      /\ "Connect" \in Wants(j)' <=> "Connect" \in Wants(j)
  BY DEF Openers
<1>3. Base(j)' = Base(j)
  BY <1>1, <1>2 DEF Base
<1> QED
  BY <1>2, <1>3 DEF Bound

(* The chip.                                                               *)
LEMMA StatusChipGoesOn ==
    ASSUME Types, NEW j \in Sock, StatusOk(j), GoesOn(j), HostStill(j), wpc' = wpc, evtLost' = evtLost,
           reqLost'[j] = reqLost[j], Finally(j)' \subseteq Finally(j),
           \A x \in Openers \cup Ends \cup {"OpenUdp"} : x \in Wants(j)' <=> x \in Wants(j)
    PROVE  StatusOk(j)'
<1>1. Heeded(j)' => Heeded(j)
  BY DEF Heeded, GoesOn, HostStill, AtWork
<1>2. Bound(j)' = Bound(j)
  BY BoundSame DEF GoesOn, HostStill, AtWork
<1> QED
  BY <1>1, <1>2 DEF StatusOk

LEMMA StatusAnew ==
    ASSUME NEW j \in Sock, Ended(j) \/ Reborn(j)
    PROVE  StatusOk(j)'
<1>1. Statuses(j)' = {}
  BY DEF Ended, Reborn, Anew, Statuses
<1>2. Finally(j)' \subseteq {Plain(sr'[j])}
  BY <1>1 DEF Finally
<1>3. CASE Ended(j)
  <2>1. Heeded(j)' => Plain(sr'[j]) = "CLOSED"
    BY <1>3 DEF Ended, Heeded, Plain
  <2> QED
    BY <1>2, <2>1 DEF StatusOk, Bound
<1>4. CASE Reborn(j)
  <2>1. PICK m \in {"OpenTcp", "OpenUdp", "AdoptListen"} :
          /\ sr'[j] = Opened(m)
          /\ \A k, l \in Current(j)' :
                \/ req'[k].msg \in Ends /\ k <= l
                \/ req'[k].msg = m /\ l <= k
          /\ reqLost'[j] # gen'[j] => \E k \in Current(j)' : req'[k].msg = m
    BY <1>4 DEF Reborn
  <2>2. Wants(j)' \subseteq Ends \cup {m}
    BY <2>1 DEF Wants
  <2>3. Heeded(j)' => m \in Wants(j)'
    BY <2>1 DEF Wants, Heeded
  <2>4. m \in Wants(j)' => Opened(m) \in Bound(j)' /\ Plain(Opened(m)) = Opened(m)
    BY <2>2 DEF Bound, Base, Opened, Ends, Plain
  <2> QED
    BY <1>2, <2>1, <2>3, <2>4 DEF StatusOk
<1> QED
  BY <1>3, <1>4

LEMMA StatusOpens ==
    ASSUME CardInv, NEW j \in Sock, Orderly(j), Opens(j)
    PROVE  StatusOk(j)'
<1>0. Types /\ HostOk(j) /\ PhaseOk(j)
  BY PhaseSays DEF CardInv
<1>1. Hears(j)' = {} /\ Wants(j) \subseteq Closes /\ gen'[j] = gen[j]
  BY <1>0, HearsKept DEF Opens, Orderly, PhaseOk
<1>2. Statuses(j)' = {}
  BY <1>1 DEF Hears, Statuses
<1>3. Finally(j)' \subseteq {Plain(sr'[j])}
  BY <1>2 DEF Finally
<1>4. ASSUME NEW m \in {"OpenTcp", "OpenUdp"}, Offers(j, Request(m, j, gen[j], << >>)), reqLost'[j] # gen[j]
      PROVE  Wants(j)' = Wants(j) \cup {m}
  <2> DEFINE r == Request(m, j, gen[j], << >>)
  <2>1. r.msg = m
    BY DEF Request
  <2>2. AddsAsked(j, r)
    BY <1>4 DEF Offers
  <2> HIDE DEF r
  <2> QED
    BY <1>0, <2>1, <2>2, WantsAdded
<1>5. CASE sr'[j] = "INIT" /\ Offers(j, Request("OpenTcp", j, gen[j], << >>))
  <2>1. Heeded(j)' => Wants(j)' = Wants(j) \cup {"OpenTcp"}
    BY <1>1, <1>4, <1>5 DEF Heeded
  <2>2. Wants(j)' = Wants(j) \cup {"OpenTcp"} => Bound(j)' = {"CLOSED", "INIT"}
    BY <1>1 DEF Bound, Base, Closes
  <2> QED
    BY <1>3, <1>5, <2>1, <2>2 DEF StatusOk, Plain
<1>6. CASE sr'[j] = "UDP" /\ Offers(j, Request("OpenUdp", j, gen[j], << >>))
  <2>1. Heeded(j)' => Wants(j)' = Wants(j) \cup {"OpenUdp"}
    BY <1>1, <1>4, <1>6 DEF Heeded
  <2>2. Wants(j)' = Wants(j) \cup {"OpenUdp"} => Bound(j)' = {"CLOSED", "UDP"}
    BY <1>1 DEF Bound, Base, Closes
  <2> QED
    BY <1>3, <1>6, <2>1, <2>2 DEF StatusOk, Plain
<1>7. CASE sr'[j] \in {"CLOSED", "IPRAW", "MACRAW"}
  BY <1>3, <1>7 DEF StatusOk, Plain, Bound
<1> QED
  BY <1>5, <1>6, <1>7 DEF Opens

LEMMA StatusAsks ==
    ASSUME CardInv, NEW j \in Sock, Orderly(j), StatusOk(j), HostStill(j), wpc' = wpc, evtLost' = evtLost, Asks(j)
    PROVE  StatusOk(j)'
<1>0. Types /\ HostOk(j) /\ PhaseOk(j)
  BY PhaseSays DEF CardInv
<1>1. /\ ~Opening(j) /\ ~Opening(j)' /\ Hears(j)' = Hears(j) /\ (AtWork(j)' <=> AtWork(j)) /\ sr[j] = "INIT"
      /\ gen'[j] = gen[j] /\ wst'[j] = wst[j]
  BY <1>0, HearsKept DEF Asks, GoesOn, HostStill, AtWork
<1>2. Hears(j) \subseteq {<<"Status", "Failed">>} /\ Wants(j) \cap Lasts = {}
  <2>1. IsStream(j) /\ Young(j)
    BY <1>1 DEF IsStream, Young, Unconnected
  <2> QED
    BY <1>1, <2>1 DEF Orderly, Untouched
<1>3. Statuses(j) = {} <=> Statuses(j)' = {}
  <2>1. Statuses(j) = {} <=> Hears(j) = {}
    <3>1. \A k \in Told(j) : <<evt[k].evt, evt[k].cause>> = <<"Status", "Failed">>
      BY <1>2 DEF Hears
    <3>2. \A k \in Told(j) : evt[k].evt = "Status"
      BY <3>1
    <3> QED
      BY <3>2 DEF Hears, Statuses
  <2>2. Statuses(j)' = {} <=> Hears(j)' = {}
    <3>1. \A k \in Told(j)' : <<evt'[k].evt, evt'[k].cause>> = <<"Status", "Failed">>
      BY <1>1, <1>2 DEF Hears
    <3>2. \A k \in Told(j)' : evt'[k].evt = "Status"
      BY <3>1
    <3> QED
      BY <3>2 DEF Hears, Statuses
  <2> QED
    BY <1>1, <2>1, <2>2
<1>4. IF Statuses(j) = {} THEN Finally(j)' \subseteq {sr'[j]} ELSE Finally(j)' \subseteq {"CLOSED"}
  <2>1. \A k \in Statuses(j)' : StatusOf(evt'[k].cause) = "CLOSED"
    <3> TAKE k \in Statuses(j)'
    <3>1. <<evt'[k].evt, evt'[k].cause>> \in Hears(j)'
      BY DEF Statuses, Hears
    <3>2. <<evt'[k].evt, evt'[k].cause>> = <<"Status", "Failed">>
      BY <1>1, <1>2, <3>1
    <3>3. evt'[k].cause = "Failed"
      BY <3>2
    <3> QED
      BY <3>3 DEF StatusOf
  <2>2. Plain(sr'[j]) = sr'[j]
    BY DEF Asks, Plain
  <2> QED
    BY <1>3, <2>1, <2>2 DEF Finally
<1>5. ASSUME NEW m \in Lasts, AddsAsked(j, Request(m, j, gen[j], << >>))
      PROVE  Wants(j)' = Wants(j) \cup {m}
  <2> DEFINE r == Request(m, j, gen[j], << >>)
  <2>1. r.msg = m
    BY DEF Request
  <2>2. AddsAsked(j, r)
    BY <1>5
  <2> HIDE DEF r
  <2> QED
    BY <1>0, <2>1, <2>2, WantsAdded
<1>6. CASE sr'[j] = "LISTEN" /\ AddsAsked(j, Request("AdoptListen", j, gen[j], << >>))
  <2>1. Wants(j)' = Wants(j) \cup {"AdoptListen"}
    BY <1>5, <1>6 DEF Lasts
  <2>2. Bound(j)' = {"CLOSED", "LISTEN"}
    BY <1>2, <2>1 DEF Bound, Base, Lasts
  <2> QED
    BY <1>4, <1>6, <2>2 DEF StatusOk
<1>7. CASE sr'[j] = "SYNSENT" /\ Offers(j, Request("Connect", j, gen[j], << >>))
  <2> SUFFICES ASSUME Heeded(j)' PROVE Finally(j)' \subseteq Bound(j)'
    BY DEF StatusOk
  <2>1. AddsAsked(j, Request("Connect", j, gen[j], << >>)) /\ reqLost'[j] = reqLost[j]
    BY <1>1, <1>7 DEF Heeded, Offers
  <2>2. Wants(j)' = Wants(j) \cup {"Connect"}
    BY <1>5, <2>1 DEF Lasts
  <2>3. Finally(j) \subseteq Bound(j)
    BY <1>1, <2>1 DEF Heeded, StatusOk
  <2>4. Statuses(j) = {} => "INIT" \in Finally(j)
    BY <1>0, <1>1 DEF Finally, Plain, HostOk
  <2>5. "INIT" \in Bound(j) => "INIT" \in Base(j)
    BY <1>2 DEF Bound, Lasts
  <2>6. Base(j)' = Base(j)
    <3>1. Wants(j)' \cap Ends = Wants(j) \cap Ends
      BY <2>2 DEF Ends
    <3> QED
      BY <1>1, <2>2, <3>1 DEF Base
  <2>7. "INIT" \in Base(j) => "SYNSENT" \in Bound(j)'
    <3> HAVE "INIT" \in Base(j)
    <3>1. Dialled("INIT") = "SYNSENT"
      BY DEF Dialled
    <3>2. Dialled("INIT") \in {Dialled(s) : s \in Base(j)}
      OBVIOUS
    <3> QED
      BY <2>2, <2>6, <3>1, <3>2 DEF Bound
  <2>8. "CLOSED" \in Bound(j)'
    BY DEF Bound
  <2> QED
    BY <1>4, <1>7, <2>3, <2>4, <2>5, <2>7, <2>8
<1> QED
  BY <1>6, <1>7 DEF Asks

LEMMA StatusChip ==
    ASSUME CardInv, NEW j \in Sock, Orderly(j), StatusOk(j), ChipStep(j)
    PROVE  StatusOk(j)'
<1>0. Types /\ HostStill(j) /\ ChipMove(j) /\ wpc' = wpc /\ evtLost' = evtLost
  BY DEF CardInv, ChipStep
<1> HIDE DEF ChipMove
<1>1. CASE Rest(j) \/ Reads(j) \/ Frames(j)
  <2>1. GoesOn(j) /\ KeepsAsked(j) /\ reqLost'[j] = reqLost[j] /\ Quiet(j) /\ sr'[j] = sr[j]
    BY <1>1 DEF Rest, Reads, Frames, NoRequest
  <2>2. Wants(j)' = Wants(j) /\ Finally(j)' = Finally(j)
    BY <1>0, <2>1, WantsKept, FinallyKept
  <2> HIDE DEF KeepsAsked, Quiet
  <2> QED
    BY <1>0, <2>1, <2>2, StatusChipGoesOn
<1>2. CASE Puts(j)
  <2>1. GoesOn(j) /\ Quiet(j) /\ sr'[j] = sr[j] /\ Offers(j, Request(SendMsg(j), j, gen[j], [k \in 1 .. TxLen |-> txn[j] + k]))
    BY <1>2 DEF Puts
  <2>2. Finally(j)' = Finally(j)
    BY <1>0, <2>1, FinallyKept
  <2>3. CASE reqLost'[j] = gen[j]
    BY <2>1, <2>3 DEF StatusOk, Heeded, GoesOn
  <2>4. CASE AddsAsked(j, Request(SendMsg(j), j, gen[j], [k \in 1 .. TxLen |-> txn[j] + k])) /\ reqLost'[j] = reqLost[j]
    <3> DEFINE r == Request(SendMsg(j), j, gen[j], [k \in 1 .. TxLen |-> txn[j] + k])
    <3>1. r.msg \in {"SendTcp", "SendUdp"} \cup RawTx /\ AddsAsked(j, r)
      BY <2>4 DEF Request, SendMsg, RawTx
    <3> HIDE DEF r
    <3>2. Wants(j)' = Wants(j) \cup {r.msg}
      BY <1>0, <3>1, WantsAdded
    <3>3. r.msg \notin Openers \cup Ends \cup {"OpenUdp"}
      BY <3>1 DEF RawTx, Openers, Ends
    <3>4. \A x \in Openers \cup Ends \cup {"OpenUdp"} : x \in Wants(j)' <=> x \in Wants(j)
      BY <3>2, <3>3
    <3> HIDE DEF Quiet
    <3> QED
      BY <1>0, <2>1, <2>2, <2>4, <3>4, StatusChipGoesOn
  <2> QED
    BY <2>1, <2>3, <2>4 DEF Offers
<1>3. CASE Learns(j)
  <2>1. PICK e \in Happened : /\ Sees(j, e) /\ (e.evt = "Status" => sr'[j] = StatusOf(e.cause))
    BY <1>3 DEF Learns
  <2>2. /\ GoesOn(j) /\ KeepsAsked(j) /\ reqLost'[j] = reqLost[j] /\ Applies(j, e)
        /\ IF e.evt = "Status" THEN sr'[j] = StatusOf(e.cause) ELSE sr'[j] = sr[j]
    BY <2>1 DEF Sees, NoRequest
  <2>3. Wants(j)' = Wants(j) /\ Finally(j)' \subseteq Finally(j)
    BY <1>0, <2>2, WantsKept, FinallyTaken
  <2> HIDE DEF KeepsAsked, Applies
  <2> QED
    BY <1>0, <2>2, <2>3, StatusChipGoesOn
<1> QED
  BY <1>0, <1>1, <1>2, <1>3, StatusAnew, StatusOpens, StatusAsks DEF ChipMove

(* The worker.                                                             *)
LEMMA HeededWorker ==
    ASSUME NEW j \in Sock, WorkerStep(j), AtWork(j) => AtWork(j)',
           AtWork(j) => evtLost'[j] = evtLost[j] \/ evtLost'[j] = gen[j], Heeded(j)'
    PROVE  Heeded(j) /\ (AtWork(j)' => evtLost'[j] # gen[j])
BY DEF Heeded, WorkerStep, ChipStill

(* The status it has told last.                                            *)
LEMMA FinallyReports ==
    ASSUME Types, NEW j \in Sock, NEW e, Reports(j, e), sr'[j] = sr[j]
    PROVE  /\ evtLost'[j] = evtLost[j] \/ evtLost'[j] = gen[j]
           /\ e.evt = "Status" => Finally(j)' \subseteq {StatusOf(e.cause)} \/ evtLost'[j] = gen[j]
           /\ e.evt # "Status" => Finally(j)' = Finally(j)
<1>1. CASE Tells(j, e) /\ evtLost'[j] = evtLost[j]
  BY <1>1, FinallyTold
<1>2. CASE Quiet(j) /\ evtLost'[j] = gen[j]
  BY <1>2, FinallyKept
<1> QED
  BY <1>1, <1>2 DEF Reports

(* No status goes either way.                                              *)
LEMMA StatusStill ==
    ASSUME Types, NEW j \in Sock, StatusOk(j), WorkerStep(j), AtWork(j)' <=> AtWork(j), AtWork(j) => wst'[j] = wst[j],
           AtWork(j) => evtLost'[j] = evtLost[j] \/ evtLost'[j] = gen[j], Finally(j)' = Finally(j),
           \A x \in Openers \cup Ends \cup {"OpenUdp"} : x \in Wants(j)' <=> x \in Wants(j)
    PROVE  StatusOk(j)'
<1>1. Heeded(j)' => Heeded(j)
  BY HeededWorker
<1>2. Bound(j)' = Bound(j)
  BY BoundSame
<1> QED
  BY <1>1, <1>2 DEF StatusOk

(* A request that bears on no status taken.                                *)
LEMMA WantsBut ==
    ASSUME Types, NEW j \in Sock, InTurn(j), TakesAsked(j), req[1].msg \notin Openers \cup Ends \cup {"OpenUdp"}
    PROVE  \A x \in Openers \cup Ends \cup {"OpenUdp"} : x \in Wants(j)' <=> x \in Wants(j)
<1>1. Wants(j)' \subseteq Wants(j) /\ Wants(j) \subseteq Wants(j)' \cup {req[1].msg}
  BY WantsTaken
<1> QED
  BY <1>1

LEMMA StatusQuietMoves ==
    ASSUME OrderInv, NEW j \in Sock, StatusOk(j), WorkerStep(j),
           \/ Aside(j) \/ Gets(j) \/ PeerWrites(j) \/ PeerLeaves(j) \/ Answered(j) \/ Pushes(j) \/ Passes(j) \/ Catches(j)
           \/ Ignored(j) /\ req[1].msg # "Connect"
    PROVE  StatusOk(j)'
<1>0. Types /\ InTurn(j) /\ gen[j] \in Nat /\ sr'[j] = sr[j]
  BY RingFacts DEF OrderInv, CardInv, Orderly, WorkerStep, ChipStill
<1>1. (AtWork(j)' <=> AtWork(j)) /\ (AtWork(j) => wst'[j] = wst[j])
  BY DEF Aside, Gets, PeerWrites, PeerLeaves, Answered, Pushes, Passes, Catches, Ignored, HostSame, Goes
<1>2. \A x \in Openers \cup Ends \cup {"OpenUdp"} : x \in Wants(j)' <=> x \in Wants(j)
  <2>1. \/ KeepsAsked(j)
        \/ TakesAsked(j) /\ req[1].msg \in {"SendTcp", "SendUdp"} \cup RawTx
    <3>1. CASE Pushes(j)
      <4>1. PICK b \in Seq(Nat) :
              \/ KeepsAsked(j) /\ b = txp[j] /\ b # << >>
              \/ TakesAsked(j) /\ req[1].msg = "SendTcp" /\ b = txp[j] \o req[1].data
        BY <3>1, Zenon DEF Pushes
      <4> QED
        BY <4>1
    <3>2. CASE Answered(j) \/ (Ignored(j) /\ req[1].msg # "Connect")
      BY <3>2 DEF Answered, Ignored
    <3>3. CASE Aside(j) \/ Gets(j) \/ PeerWrites(j) \/ PeerLeaves(j) \/ Passes(j) \/ Catches(j)
      BY <3>3 DEF Aside, Gets, PeerWrites, PeerLeaves, Passes, Catches
    <3> QED
      BY <3>1, <3>2, <3>3
  <2>2. KeepsAsked(j) => Wants(j)' = Wants(j)
    BY <1>0, WantsKept
  <2>3. req[1].msg \in {"SendTcp", "SendUdp"} \cup RawTx => req[1].msg \notin Openers \cup Ends \cup {"OpenUdp"}
    BY DEF RawTx, Openers, Ends
  <2> QED
    BY <1>0, <2>1, <2>2, <2>3, WantsBut
<1>3. Finally(j)' = Finally(j) /\ (AtWork(j) => evtLost'[j] = evtLost[j] \/ evtLost'[j] = gen[j])
  <2>1. ASSUME NEW e, Reports(j, e), e.evt # "Status"
        PROVE  Finally(j)' = Finally(j) /\ (evtLost'[j] = evtLost[j] \/ evtLost'[j] = gen[j])
    BY <1>0, <2>1, FinallyReports
  <2>2. ASSUME Quiet(j) PROVE Finally(j)' = Finally(j)
    BY <1>0, <2>2, FinallyKept
  <2>3. CASE Aside(j) \/ Gets(j) \/ PeerWrites(j) \/ PeerLeaves(j) \/ Ignored(j)
    <3>1. Quiet(j) /\ (AtWork(j) => evtLost'[j] = evtLost[j])
      BY <2>3 DEF Aside, Gets, PeerWrites, PeerLeaves, Ignored, Silent
    <3> QED
      BY <2>2, <3>1
  <2>4. CASE Answered(j)
    <3>1. PICK c \in Cause : Reports(j, Event("SendDone", j, gen[j], c, << >>))
      BY <2>4 DEF Answered
    <3>2. Event("SendDone", j, gen[j], c, << >>).evt # "Status"
      BY DEF Event
    <3> QED
      BY <2>1, <3>1, <3>2
  <2>5. CASE Pushes(j)
    <3>1. Reports(j, Event("SendDone", j, gen[j], "None", << >>)) \/ (Quiet(j) /\ evtLost'[j] = evtLost[j])
      BY <2>5 DEF Pushes, Silent
    <3>2. Event("SendDone", j, gen[j], "None", << >>).evt # "Status"
      BY DEF Event
    <3> QED
      BY <2>1, <2>2, <3>1, <3>2
  <2>6. CASE Passes(j)
    <3>1. Reports(j, Event("RxTcp", j, gen[j], "None", InHand(j)))
      BY <2>6 DEF Passes
    <3>2. Event("RxTcp", j, gen[j], "None", InHand(j)).evt # "Status"
      BY DEF Event
    <3> QED
      BY <2>1, <3>1, <3>2
  <2>7. CASE Catches(j)
    <3>1. Reports(j, Event("RxUdp", j, gen[j], "None", <<<<gen[j], psent[j] + 1>>>>))
      BY <2>7 DEF Catches
    <3>2. Event("RxUdp", j, gen[j], "None", <<<<gen[j], psent[j] + 1>>>>).evt # "Status"
      BY DEF Event
    <3> QED
      BY <2>1, <3>1, <3>2
  <2> QED
    BY <2>3, <2>4, <2>5, <2>6, <2>7
<1> QED
  BY <1>0, <1>1, <1>2, <1>3, StatusStill

(* A Connect that finds no connection to try, or begins one.               *)
LEMMA StatusDials ==
    ASSUME OrderInv, NEW j \in Sock, StatusOk(j), WorkerStep(j), Dials(j) \/ (Ignored(j) /\ req[1].msg = "Connect")
    PROVE  StatusOk(j)'
<1>0. Types /\ InTurn(j) /\ HostOk(j) /\ sr'[j] = sr[j] /\ sr[j] \in Status /\ CardInv /\ Orderly(j)
  BY PhaseSays DEF OrderInv, CardInv, Orderly, WorkerStep, ChipStill, HostOk
<1>1. /\ TakesAsked(j) /\ req[1].msg = "Connect" /\ Quiet(j) /\ evtLost'[j] = evtLost[j] /\ (AtWork(j)' <=> AtWork(j))
      /\ AtWork(j) => (wst[j] \in {"CLOSED", "UDP"} /\ wst'[j] = wst[j]) \/ wst'[j] = "SYNSENT"
  BY <1>0 DEF Dials, Ignored, Silent, Goes, HostSame, HostOk
<1>2. Wants(j)' = {} /\ Wants(j) = {"Connect"} /\ Finally(j)' = Finally(j)
  BY <1>0, <1>1, WantsTaken, FinallyKept DEF Lasts
<1>3. Heeded(j)' => Heeded(j)
  BY <1>1, HeededWorker
<1>4. ~AtWork(j) => Bound(j)' = {"CLOSED"} \cup Status
  BY <1>1, <1>2 DEF Bound, Base
<1>5. AtWork(j) => Bound(j) \subseteq Bound(j)'
  <2> HAVE AtWork(j)
  <2>1. wst[j] \in {"CLOSED", "INIT"}
    BY <1>0, <1>2, DialsFirst
  <2>2. Bound(j)' = {"CLOSED", wst'[j]}
    BY <1>1, <1>2 DEF Bound, Base
  <2>3. Base(j) = {wst[j]}
    BY <1>2 DEF Base, Ends
  <2>4. Bound(j) = {"CLOSED", Dialled(wst[j])}
    BY <1>2, <2>3 DEF Bound
  <2> QED
    BY <1>1, <2>1, <2>2, <2>4 DEF Dialled
<1>6. Finally(j) \subseteq Status
  BY DEF Finally
<1> QED
  BY <1>2, <1>3, <1>4, <1>5, <1>6 DEF StatusOk

(* A status told: it is the worker's.                                      *)
LEMMA StatusReported ==
    ASSUME OrderInv, NEW j \in Sock, StatusOk(j), WorkerStep(j), AtWork(j)', NEW c \in Cause,
           Reports(j, StatusEvent(j, gen[j], c)), StatusOf(c) \in Bound(j)'
    PROVE  StatusOk(j)'
<1> DEFINE e == StatusEvent(j, gen[j], c)
<1>0. Types /\ sr'[j] = sr[j] /\ gen'[j] = gen[j]
  BY DEF OrderInv, CardInv, WorkerStep, ChipStill
<1>1. e.evt = "Status" /\ e.cause = c /\ Reports(j, e)
  BY DEF StatusEvent, Event
<1> HIDE DEF e
<1>2. Finally(j)' \subseteq {StatusOf(c)} \/ evtLost'[j] = gen[j]
  BY <1>0, <1>1, FinallyReports
<1>3. Heeded(j)' => evtLost'[j] # gen[j]
  BY <1>0 DEF Heeded
<1> QED
  BY <1>2, <1>3 DEF StatusOk

LEMMA StatusEnds ==
    ASSUME OrderInv, NEW j \in Sock, StatusOk(j), WorkerStep(j), Dies(j)
    PROVE  StatusOk(j)'
<1>1. PICK c \in {"Failed", "Reset"} : Reports(j, StatusEvent(j, gen[j], c))
  BY DEF Dies
<1>2. StatusOf(c) = "CLOSED" /\ c \in Cause
  BY DEF StatusOf, Cause
<1>3. StatusOf(c) \in Bound(j)' /\ AtWork(j)'
  BY <1>2 DEF Bound, Dies, Goes
<1> QED
  BY <1>1, <1>2, <1>3, StatusReported

LEMMA StatusRises ==
    ASSUME OrderInv, NEW j \in Sock, StatusOk(j), WorkerStep(j), Rises(j) \/ Eofs(j)
    PROVE  StatusOk(j)'
<1>0. Types /\ InTurn(j) /\ HostOk(j) /\ PhaseOk(j) /\ CardInv /\ Orderly(j)
  BY PhaseSays DEF OrderInv, CardInv, Orderly
<1>1. /\ AtWork(j) /\ AtWork(j)'
      /\ \/ TakesAsked(j) /\ req[1].msg = "Connect"
         \/ KeepsAsked(j) /\ wst[j] \in {"SYNSENT", "LISTEN", "ESTABLISHED"}
  BY DEF Rises, Eofs, Goes
<1>2. Wants(j)' \cap (Openers \cup Ends \cup {"OpenUdp"}) = {}
  <2>1. CASE TakesAsked(j) /\ req[1].msg = "Connect"
    BY <1>0, <2>1, WantsTaken DEF Lasts
  <2>2. CASE KeepsAsked(j) /\ wst[j] \in {"SYNSENT", "LISTEN", "ESTABLISHED"}
    <3>1. Wants(j)' = Wants(j)
      BY <1>0, <2>2, WantsKept
    <3>2. IsStream(j) /\ ~Untouched(j)
      BY <1>0, <1>1, <2>2 DEF HostOk, PhaseOk, IsStream, Untouched
    <3>3. ~Young(j)
      BY <1>0, <3>2 DEF Orderly
    <3>4. Wants(j) \cap Openers = {}
      BY <3>3 DEF Young
    <3>5. Wants(j) \cap Ends = {} /\ "OpenUdp" \notin Wants(j)
      BY <1>0, <1>1, <3>2 DEF Orderly, Datagrams
    <3> QED
      BY <3>1, <3>4, <3>5
  <2> QED
    BY <1>1, <2>1, <2>2
<1>3. Bound(j)' = {"CLOSED", wst'[j]}
  BY <1>1, <1>2 DEF Bound, Base, Openers
<1>4. PICK c \in {"Connected", "RemoteClosed"} : Reports(j, StatusEvent(j, gen[j], c)) /\ StatusOf(c) = wst'[j]
  BY DEF Rises, Eofs, StatusOf
<1>5. c \in Cause
  BY DEF Cause
<1> QED
  BY <1>1, <1>3, <1>4, <1>5, StatusReported

LEMMA StatusBegun ==
    ASSUME OrderInv, NEW j \in Sock, StatusOk(j), WorkerStep(j), Begun(j)
    PROVE  StatusOk(j)'
<1>0. Types /\ InTurn(j) /\ HostOk(j) /\ PhaseOk(j) /\ CardInv /\ Orderly(j) /\ sr'[j] = sr[j]
  BY PhaseSays DEF OrderInv, CardInv, Orderly, WorkerStep, ChipStill
<1> DEFINE m == req[1].msg
<1>1. /\ m \in Wants(j) /\ Wants(j)' \subseteq Wants(j) /\ Wants(j) \subseteq Wants(j)' \cup {m}
      /\ Wants(j)' \cap Ends = {} /\ (m \in Lasts => Wants(j)' = {})
  <2>1. TakesAsked(j)
    BY DEF Begun
  <2> QED
    BY <1>0, <2>1, WantsTaken
<1>2. AtWork(j)' /\ m \in DefinesGen
  BY DEF Begun
<1>3. CASE Reports(j, StatusEvent(j, gen[j], "Failed"))
  <2>1. StatusOf("Failed") = "CLOSED" /\ "Failed" \in Cause
    BY DEF StatusOf, Cause
  <2>2. StatusOf("Failed") \in Bound(j)'
    BY <2>1 DEF Bound
  <2> QED
    BY <1>2, <1>3, <2>1, <2>2, StatusReported
<1>4. CASE wst'[j] = Opened(m) /\ Silent(j)
  <2>1. Finally(j)' = Finally(j) /\ evtLost'[j] = evtLost[j]
    BY <1>0, <1>4, FinallyKept DEF Silent
  <2> HIDE DEF m
  <2> SUFFICES ASSUME Heeded(j)' PROVE Finally(j)' \subseteq Bound(j)'
    BY DEF StatusOk
  <2>2. Heeded(j)
    BY <1>2, <2>1, HeededWorker
  <2>3. ~Opening(j)
    BY <2>2 DEF Heeded
  <2>4. Base(j) \subseteq Base(j)' /\ ("Connect" \in Wants(j)' <=> "Connect" \in Wants(j))
    <3>1. CASE m = "AdoptListen"
      <4>1. Wants(j) = {m} /\ Wants(j)' = {}
        BY <1>1, <3>1 DEF Lasts
      <4> QED
        BY <1>2, <1>4, <3>1, <4>1 DEF Base, Opened
    <3>2. CASE m = "OpenTcp"
      <4>1. "OpenUdp" \notin Wants(j)
        <5>1. IsStream(j)
          BY <1>1, <2>3, <3>2 DEF IsStream, Openers
        <5> QED
          BY <1>0, <5>1 DEF Orderly, Datagrams
      <4>2. wst'[j] = "INIT"
        BY <1>4, <3>2 DEF Opened
      <4>3. \A x : x # "OpenTcp" => (x \in Wants(j)' <=> x \in Wants(j))
        BY <1>1, <3>2
      <4> QED
        BY <1>1, <1>2, <3>2, <4>1, <4>2, <4>3 DEF Base
    <3>3. CASE m = "OpenUdp"
      <4>1. Wants(j) \cap Openers = {}
        <5>1. ~IsStream(j)
          BY <1>0, <1>1, <3>3 DEF Orderly, Datagrams
        <5> QED
          BY <2>3, <5>1 DEF IsStream
      <4>2. wst'[j] = "UDP"
        BY <1>4, <3>3 DEF Opened
      <4> QED
        BY <1>1, <1>2, <3>3, <4>1, <4>2 DEF Base, Openers
    <3>4. CASE m \in Ends
      <4>1. wst'[j] = "CLOSED"
        BY <1>4, <3>4 DEF Opened, Ends
      <4>2. \A x : x \notin Ends => (x \in Wants(j)' <=> x \in Wants(j))
        BY <1>1, <3>4
      <4>3. Wants(j) \cap Ends # {}
        BY <1>1, <3>4
      <4> QED
        BY <1>1, <1>2, <4>1, <4>2, <4>3 DEF Base, Ends
    <3> QED
      BY <1>2, <3>1, <3>2, <3>3, <3>4 DEF DefinesGen, Ends
  <2>5. Bound(j) \subseteq Bound(j)'
    BY <2>4 DEF Bound
  <2> QED
    BY <2>1, <2>2, <2>5 DEF StatusOk
<1> QED
  BY <1>3, <1>4 DEF Begun

LEMMA StatusWorker ==
    ASSUME OrderInv, NEW j \in Sock, StatusOk(j), WorkerStep(j)
    PROVE  StatusOk(j)'
<1>1. WorkerMove(j)
  BY DEF WorkerStep
<1> HIDE DEF WorkerMove
<1>2. CASE Finishes(j)
  BY <1>2 DEF Finishes, StatusOk, Heeded
<1> QED
  BY <1>1, <1>2, StatusQuietMoves, StatusDials, StatusEnds, StatusRises, StatusBegun DEF WorkerMove, RequestMove, PollMove

StatusInv == OrderInv /\ \A j \in Sock : StatusOk(j)

LEMMA StatusStart == Init => StatusInv
<1> SUFFICES ASSUME Init, NEW j \in Sock PROVE StatusOk(j)
  BY OrderStart DEF StatusInv
<1>1. Statuses(j) = {} /\ Plain(sr[j]) = "CLOSED"
  BY StartFacts DEF Statuses, Plain
<1> QED
  BY <1>1 DEF StatusOk, Finally, Bound

LEMMA StatusStay == StatusInv /\ [Next]_vars => StatusInv'
<1> SUFFICES ASSUME StatusInv, [Next]_vars PROVE StatusInv'
  OBVIOUS
<1>1. OrderInv /\ OrderInv' /\ CardInv /\ RingClear
  BY OrderStay DEF StatusInv, OrderInv
<1>2. ASSUME NEW j \in Sock PROVE StatusOk(j)'
  <2>1. StatusOk(j) /\ Orderly(j) /\ (ChipStep(j) \/ WorkerStep(j))
    BY <1>1, Steps DEF StatusInv, OrderInv
  <2> QED
    BY <1>1, <2>1, StatusChip, StatusWorker
<1> QED
  BY <1>1, <1>2 DEF StatusInv

(* Once everything asked has been done and everything told has been seen,  *)
(* a socket the guest does not see CLOSED has the same state on the host:  *)
(* however OPEN, CONNECT, LISTEN, a failure, a reset or the peer's close   *)
(* crossed on their way between set_status on the one side and apply_event *)
(* on the other, provided no ring was full.                                *)
THEOREM StatusesAgree == Spec => []StatusAgrees
<1>1. StatusInv => StatusAgrees
  <2> SUFFICES ASSUME StatusInv, NEW i \in Sock, Settled(i), sr[i] # "CLOSED"
               PROVE  wst[i] = IF sr[i] \in {"MACRAW", "IPRAW"} THEN "CLOSED" ELSE sr[i]
    BY DEF StatusAgrees
  <2>1. CardInv /\ Types /\ Orderly(i) /\ StatusOk(i) /\ HostOk(i)
    BY PhaseSays DEF StatusInv, OrderInv, CardInv
  <2>2. AtWork(i) /\ ~Opening(i) /\ Heeded(i)
    BY DEF Settled, AtWork, Heeded, Opening, Reopening
  <2>3. Statuses(i) = {} /\ Wants(i) = {}
    BY DEF Settled, Statuses, Told, Wants, Current
  <2>4. Plain(sr[i]) \in Status
    BY <2>1 DEF HostOk, Plain, Status
  <2>5. Plain(sr[i]) \in Finally(i)
    BY <2>3, <2>4 DEF Finally
  <2>6. Bound(i) = {"CLOSED", wst[i]}
    BY <2>2, <2>3 DEF Bound, Base
  <2>7. Plain(sr[i]) \in {"CLOSED", wst[i]}
    BY <2>1, <2>2, <2>5, <2>6 DEF StatusOk
  <2>8. CASE sr[i] \in {"MACRAW", "IPRAW"}
    BY <2>1, <2>2, <2>8 DEF Orderly
  <2>9. CASE sr[i] \notin {"MACRAW", "IPRAW"}
    BY <2>7, <2>9 DEF Plain
  <2> QED
    BY <2>8, <2>9
<1> QED
  BY <1>1, StatusStart, StatusStay, PTL DEF Spec

-----------------------------------------------------------------------------
(* Bytes to the host: the SENDs that wait in the ring follow one another,  *)
(* from byte s + 1, the next one the worker expects, to byte t, the last   *)
(* one the guest sent.                                                     *)

Sends(j) == {k \in Current(j) : req[k].msg = "SendTcp"}
Numbered(n) == [m \in 1 .. TxLen |-> n + m]
Start(r) == r.data[1] - 1

Queued(j, s, t) ==
    /\ \A k \in Sends(j) :
          /\ Start(req[k]) \in Nat /\ req[k].data = Numbered(Start(req[k])) /\ Start(req[k]) < t
          /\ \/ Start(req[k]) = s
             \/ \E l \in Sends(j) : l < k /\ Start(req[k]) = Start(req[l]) + TxLen
    /\ \A k, l \in Sends(j) : k < l => Start(req[k]) < Start(req[l])
    /\ t = s \/ \E l \in Sends(j) : t = Start(req[l]) + TxLen

LEMMA NumberedFacts ==
    ASSUME NEW n \in Nat
    PROVE  /\ Numbered(n) \in Seq(Nat) /\ Len(Numbered(n)) = TxLen /\ Numbered(n)[1] = n + 1 /\ Numbered(n)[1] - 1 = n
           /\ TxLen \in Nat \ {0} /\ \A m \in 1 .. TxLen : Numbered(n)[m] = n + m
<1>1. TxLen \in Nat \ {0}
  BY ChipAssumption
<1> QED
  BY <1>1 DEF Numbered

LEMMA QueuedNone ==
    ASSUME NEW j \in Sock, "SendTcp" \notin Wants(j), NEW s
    PROVE  Queued(j, s, s)
BY DEF Wants, Sends, Queued

(* The requests moved, none of these SENDs among those taken or added.     *)
SameSends(j) ==
    \E a \in {0, 1} :
        /\ \A k \in Sends(j)' : k + a \in Sends(j) /\ req'[k] = req[k + a]
        /\ \A k \in Sends(j) : k - a \in Sends(j)'

LEMMA SendsKept ==
    ASSUME Types, NEW j \in Sock,
           \/ KeepsAsked(j)
           \/ TakesAsked(j) /\ req[1].msg # "SendTcp"
           \/ \E r : AddsAsked(j, r) /\ r.msg # "SendTcp"
    PROVE  SameSends(j)
<1>0. Current(j) \subseteq Nat \ {0} /\ \A k \in Current(j)' : k \in Int
  BY RingFacts DEF Current
<1>1. CASE KeepsAsked(j)
  <2>1. PICK a \in {0, 1} : /\ \A k \in Current(j)' : k + a \in Current(j) /\ req'[k] = req[k + a]
                            /\ \A k \in Current(j) : k - a \in Current(j)'
    BY <1>1 DEF KeepsAsked
  <2>2. \A k \in Current(j) : req'[k - a] = req[k]
    <3> TAKE k \in Current(j)
    <3>1. k - a \in Current(j)' /\ (k - a) + a = k
      BY <1>0, <2>1
    <3> QED
      BY <2>1, <3>1
  <2>3. /\ \A k \in Sends(j)' : k + a \in Sends(j) /\ req'[k] = req[k + a]
        /\ \A k \in Sends(j) : k - a \in Sends(j)'
    BY <2>1, <2>2 DEF Sends
  <2> QED
    BY <2>3 DEF SameSends
<1>2. CASE TakesAsked(j) /\ req[1].msg # "SendTcp"
  <2>1. /\ \A k \in Current(j)' : k + 1 \in Current(j) /\ req'[k] = req[k + 1]
        /\ \A k \in Current(j) : k # 1 => k - 1 \in Current(j)'
    BY <1>2 DEF TakesAsked
  <2>2. \A k \in Sends(j) : k - 1 \in Sends(j)'
    <3> TAKE k \in Sends(j)
    <3>1. k \in Current(j) /\ req[k].msg = "SendTcp" /\ k # 1
      BY <1>2 DEF Sends
    <3>2. k - 1 \in Current(j)' /\ (k - 1) + 1 = k
      BY <1>0, <2>1, <3>1
    <3>3. req'[k - 1] = req[k]
      BY <2>1, <3>2
    <3> QED
      BY <3>1, <3>2, <3>3 DEF Sends
  <2>3. \A k \in Sends(j)' : k + 1 \in Sends(j) /\ req'[k] = req[k + 1]
    BY <2>1 DEF Sends
  <2> QED
    BY <2>2, <2>3 DEF SameSends
<1>3. ASSUME NEW r, AddsAsked(j, r), r.msg # "SendTcp" PROVE SameSends(j)
  <2>1. PICK n \in Current(j)' :
          /\ req'[n] = r
          /\ \A k \in Current(j)' : k = n \/ (k \in Current(j) /\ req'[k] = req[k])
          /\ \A k \in Current(j) : k \in Current(j)' /\ k < n
    BY <1>3 DEF AddsAsked
  <2>2. \A k \in Current(j) : req'[k] = req[k]
    BY <1>0, <2>1
  <2>3. Sends(j)' = Sends(j) /\ \A k \in Sends(j) : req'[k] = req[k] /\ k \in Nat
    BY <1>0, <1>3, <2>1, <2>2 DEF Sends
  <2>4. \A k \in Sends(j) : k + 0 = k /\ k - 0 = k
    BY <2>3
  <2> QED
    BY <2>3, <2>4 DEF SameSends
<1> QED
  BY <1>1, <1>2, <1>3

LEMMA QueuedKept ==
    ASSUME Types, NEW j \in Sock, SameSends(j), NEW s \in Nat, NEW t \in Nat, Queued(j, s, t)
    PROVE  Queued(j, s, t)'
<1>1. PICK a \in {0, 1} : /\ \A k \in Sends(j)' : k + a \in Sends(j) /\ req'[k] = req[k + a]
                          /\ \A k \in Sends(j) : k - a \in Sends(j)'
  BY DEF SameSends
<1>2. (\A k \in Sends(j) : k \in Nat) /\ (\A k \in Sends(j)' : k \in Int) /\ a \in Nat
  BY RingFacts DEF Sends, Current
<1>3. \A k \in Sends(j) : k - a \in Sends(j)' /\ req'[k - a] = req[k]
  <2> TAKE k \in Sends(j)
  <2>1. k - a \in Sends(j)' /\ (k - a) + a = k
    BY <1>1, <1>2
  <2> QED
    BY <1>1, <2>1
<1>4. ASSUME NEW k \in Sends(j)'
      PROVE  /\ Start(req'[k]) \in Nat /\ req'[k].data = Numbered(Start(req'[k])) /\ Start(req'[k]) < t
             /\ \/ Start(req'[k]) = s
                \/ \E l \in Sends(j)' : l < k /\ Start(req'[k]) = Start(req'[l]) + TxLen
  <2>1. k + a \in Sends(j) /\ req'[k] = req[k + a]
    BY <1>1
  <2>2. /\ Start(req'[k]) \in Nat /\ req'[k].data = Numbered(Start(req'[k])) /\ Start(req'[k]) < t
        /\ \/ Start(req'[k]) = s
           \/ \E l \in Sends(j) : l < k + a /\ Start(req'[k]) = Start(req[l]) + TxLen
    BY <2>1 DEF Queued
  <2>3. ASSUME NEW l \in Sends(j), l < k + a, Start(req'[k]) = Start(req[l]) + TxLen
        PROVE  \E n \in Sends(j)' : n < k /\ Start(req'[k]) = Start(req'[n]) + TxLen
    <3>1. l - a \in Sends(j)' /\ req'[l - a] = req[l] /\ l - a < k
      BY <1>2, <1>3, <2>3
    <3> QED
      BY <2>3, <3>1
  <2> QED
    BY <2>2, <2>3
<1>5. ASSUME NEW k \in Sends(j)', NEW l \in Sends(j)', k < l PROVE Start(req'[k]) < Start(req'[l])
  <2>1. k + a \in Sends(j) /\ l + a \in Sends(j) /\ k + a < l + a /\ req'[k] = req[k + a] /\ req'[l] = req[l + a]
    BY <1>1, <1>2, <1>5
  <2> QED
    BY <2>1 DEF Queued
<1>6. t = s \/ \E l \in Sends(j)' : t = Start(req'[l]) + TxLen
  <2>1. ASSUME NEW l \in Sends(j), t = Start(req[l]) + TxLen PROVE \E n \in Sends(j)' : t = Start(req'[n]) + TxLen
    BY <1>3, <2>1
  <2> QED
    BY <2>1 DEF Queued
<1> QED
  BY <1>4, <1>5, <1>6 DEF Queued

(* The worker takes the next SEND.                                         *)
LEMMA QueuedTaken ==
    ASSUME Types, NEW j \in Sock, TakesAsked(j), req[1].msg = "SendTcp", NEW s \in Nat, NEW t \in Nat, Queued(j, s, t),
           NEW u \in Nat, u = s + TxLen
    PROVE  req[1].data = Numbered(s) /\ Queued(j, u, t)'
<1>1. /\ 1 \in Current(j)
      /\ \A k \in Current(j)' : k + 1 \in Current(j) /\ req'[k] = req[k + 1]
      /\ \A k \in Current(j) : k # 1 => k - 1 \in Current(j)'
  BY DEF TakesAsked
<1>2. (\A k \in Sends(j) : k \in Nat \ {0}) /\ (\A k \in Sends(j)' : k \in Int /\ k >= 1) /\ TxLen \in Nat \ {0}
  BY RingFacts, ChipAssumption DEF Sends, Current
<1>3. 1 \in Sends(j)
  BY <1>1 DEF Sends
<1>4. Start(req[1]) = s /\ req[1].data = Numbered(s)
  <2>1. \A l \in Sends(j) : ~(l < 1)
    BY <1>2
  <2> QED
    BY <1>3, <2>1 DEF Queued
<1>5. \A k \in Sends(j)' : k + 1 \in Sends(j) /\ req'[k] = req[k + 1]
  BY <1>1 DEF Sends
<1>6. \A k \in Sends(j) : k # 1 => k - 1 \in Sends(j)' /\ req'[k - 1] = req[k]
  <2> TAKE k \in Sends(j)
  <2> HAVE k # 1
  <2>1. k \in Current(j) /\ req[k].msg = "SendTcp"
    BY DEF Sends
  <2>2. k - 1 \in Current(j)' /\ (k - 1) + 1 = k
    BY <1>1, <1>2, <2>1
  <2>3. req'[k - 1] = req[k]
    BY <1>1, <2>2
  <2> QED
    BY <2>1, <2>2, <2>3 DEF Sends
<1>7. ASSUME NEW k \in Sends(j)'
      PROVE  /\ Start(req'[k]) \in Nat /\ req'[k].data = Numbered(Start(req'[k])) /\ Start(req'[k]) < t
             /\ \/ Start(req'[k]) = u
                \/ \E l \in Sends(j)' : l < k /\ Start(req'[k]) = Start(req'[l]) + TxLen
  <2>1. k + 1 \in Sends(j) /\ req'[k] = req[k + 1] /\ 1 < k + 1
    BY <1>2, <1>5
  <2>2. /\ Start(req'[k]) \in Nat /\ req'[k].data = Numbered(Start(req'[k])) /\ Start(req'[k]) < t
        /\ \/ Start(req'[k]) = s
           \/ \E l \in Sends(j) : l < k + 1 /\ Start(req'[k]) = Start(req[l]) + TxLen
        /\ Start(req[1]) < Start(req'[k])
    BY <1>3, <2>1 DEF Queued
  <2>3. Start(req'[k]) # s
    BY <1>4, <2>2
  <2>4. ASSUME NEW l \in Sends(j), l < k + 1, Start(req'[k]) = Start(req[l]) + TxLen, l # 1
        PROVE  \E n \in Sends(j)' : n < k /\ Start(req'[k]) = Start(req'[n]) + TxLen
    <3>1. l - 1 \in Sends(j)' /\ req'[l - 1] = req[l] /\ l - 1 < k
      BY <1>2, <1>6, <2>4
    <3> QED
      BY <2>4, <3>1
  <2> QED
    BY <1>4, <2>2, <2>3, <2>4
<1>8. ASSUME NEW k \in Sends(j)', NEW l \in Sends(j)', k < l PROVE Start(req'[k]) < Start(req'[l])
  <2>1. k + 1 \in Sends(j) /\ l + 1 \in Sends(j) /\ k + 1 < l + 1 /\ req'[k] = req[k + 1] /\ req'[l] = req[l + 1]
    BY <1>2, <1>5, <1>8
  <2> QED
    BY <2>1 DEF Queued
<1>9. t = u \/ \E l \in Sends(j)' : t = Start(req'[l]) + TxLen
  <2>1. t # s
    BY <1>3, <1>4 DEF Queued
  <2>2. PICK l \in Sends(j) : t = Start(req[l]) + TxLen
    BY <2>1 DEF Queued
  <2> QED
    BY <1>4, <1>6, <2>2
<1> QED
  BY <1>4, <1>7, <1>8, <1>9 DEF Queued

(* The guest adds one.                                                     *)
LEMMA QueuedMore ==
    ASSUME Types, NEW j \in Sock, NEW s \in Nat, NEW t \in Nat, Queued(j, s, t), NEW u \in Nat, u = t + TxLen,
           NEW r, AddsAsked(j, r), r.msg = "SendTcp", r.data = Numbered(t)
    PROVE  Queued(j, s, u)'
<1>1. PICK n \in Current(j)' :
        /\ req'[n] = r
        /\ \A k \in Current(j)' : k = n \/ (k \in Current(j) /\ req'[k] = req[k])
        /\ \A k \in Current(j) : k \in Current(j)' /\ k < n
  BY DEF AddsAsked
<1>2. Current(j) \subseteq Nat \ {0} /\ n \in Int /\ TxLen \in Nat \ {0}
  BY RingFacts, ChipAssumption DEF Current
<1>3. \A k \in Current(j) : req'[k] = req[k] /\ k < n /\ k # n
  BY <1>1, <1>2
<1>4. n \in Sends(j)' /\ Start(req'[n]) = t /\ req'[n].data = Numbered(t)
  BY <1>1, NumberedFacts DEF Sends, Start
<1>5. \A k \in Sends(j) : k \in Sends(j)' /\ req'[k] = req[k] /\ k < n /\ k \in Nat
  BY <1>1, <1>2, <1>3 DEF Sends
<1>6. \A k \in Sends(j)' : k = n \/ (k \in Sends(j) /\ req'[k] = req[k])
  BY <1>1 DEF Sends
<1>7. ASSUME NEW k \in Sends(j)'
      PROVE  /\ Start(req'[k]) \in Nat /\ req'[k].data = Numbered(Start(req'[k])) /\ Start(req'[k]) < u
             /\ \/ Start(req'[k]) = s
                \/ \E l \in Sends(j)' : l < k /\ Start(req'[k]) = Start(req'[l]) + TxLen
  <2>1. CASE k = n
    <3>1. t < u
      BY <1>2
    <3>2. t = s \/ \E l \in Sends(j) : t = Start(req[l]) + TxLen
      BY DEF Queued
    <3> QED
      BY <1>4, <1>5, <2>1, <3>1, <3>2
  <2>2. CASE k \in Sends(j) /\ req'[k] = req[k]
    <3>1. /\ Start(req[k]) \in Nat /\ req[k].data = Numbered(Start(req[k])) /\ Start(req[k]) < t
          /\ \/ Start(req[k]) = s
             \/ \E l \in Sends(j) : l < k /\ Start(req[k]) = Start(req[l]) + TxLen
      BY <2>2 DEF Queued
    <3>2. Start(req[k]) < u
      BY <1>2, <3>1
    <3> QED
      BY <1>5, <2>2, <3>1, <3>2
  <2> QED
    BY <1>6, <2>1, <2>2
<1>8. ASSUME NEW k \in Sends(j)', NEW l \in Sends(j)', k < l PROVE Start(req'[k]) < Start(req'[l])
  <2>1. k # n
    BY <1>2, <1>5, <1>6, <1>8
  <2>2. k \in Sends(j) /\ req'[k] = req[k]
    BY <1>6, <2>1
  <2>3. CASE l = n
    BY <1>4, <2>2, <2>3 DEF Queued
  <2>4. CASE l \in Sends(j) /\ req'[l] = req[l]
    BY <1>8, <2>2, <2>4 DEF Queued
  <2> QED
    BY <1>6, <2>3, <2>4
<1>9. \E l \in Sends(j)' : u = Start(req'[l]) + TxLen
  BY <1>4
<1> QED
  BY <1>7, <1>8, <1>9 DEF Queued

(* The host has had the bytes h, the bytes p are next.                     *)
Counted(h, p) ==
    /\ \A k \in 1 .. Len(h) : h[k] = k
    /\ \A k \in 1 .. Len(p) : p[k] = Len(h) + k

LEMMA CountedPush ==
    ASSUME NEW h \in Seq(Nat), NEW b \in Seq(Nat), NEW n \in 0 .. Len(b)
    PROVE  /\ h \o SubSeq(b, 1, n) \in Seq(Nat) /\ SubSeq(b, n + 1, Len(b)) \in Seq(Nat)
           /\ Len(h \o SubSeq(b, 1, n)) = Len(h) + n /\ Len(SubSeq(b, n + 1, Len(b))) = Len(b) - n
           /\ Counted(h, b) => Counted(h \o SubSeq(b, 1, n), SubSeq(b, n + 1, Len(b)))
<1> DEFINE c == SubSeq(b, 1, n)
           d == SubSeq(b, n + 1, Len(b))
           g == h \o c
<1>1. Len(h) \in Nat /\ Len(b) \in Nat /\ n \in Nat /\ n <= Len(b)
  BY LenProperties
<1>2. c \in Seq(Nat) /\ Len(c) = n /\ \A k \in 1 .. n : c[k] = b[k]
  <2>1. 1 \in 1 .. Len(b) + 1 /\ n \in 1 - 1 .. Len(b)
    BY <1>1
  <2>2. c \in Seq(Nat) /\ Len(c) = n - 1 + 1 /\ \A k \in 1 .. n - 1 + 1 : c[k] = b[1 + k - 1]
    BY <2>1, SubSeqProperties
  <2>3. \A k \in 1 .. n : 1 + k - 1 = k
    OBVIOUS
  <2>4. n - 1 + 1 = n
    BY <1>1
  <2> QED
    BY <2>2, <2>3, <2>4
<1>3. d \in Seq(Nat) /\ Len(d) = Len(b) - n /\ \A k \in 1 .. Len(b) - n : d[k] = b[n + k]
  <2>1. n + 1 \in 1 .. Len(b) + 1 /\ Len(b) \in (n + 1) - 1 .. Len(b)
    BY <1>1
  <2>2. d \in Seq(Nat) /\ Len(d) = Len(b) - (n + 1) + 1 /\ \A k \in 1 .. Len(b) - (n + 1) + 1 : d[k] = b[(n + 1) + k - 1]
    BY <2>1, SubSeqProperties
  <2>3. Len(b) - (n + 1) + 1 = Len(b) - n /\ \A k \in 1 .. Len(b) - n : (n + 1) + k - 1 = n + k
    BY <1>1
  <2> QED
    BY <2>2, <2>3
<1>4. g \in Seq(Nat) /\ Len(g) = Len(h) + n
      /\ \A k \in 1 .. Len(h) + n : g[k] = IF k <= Len(h) THEN h[k] ELSE c[k - Len(h)]
  <2> HIDE DEF c
  <2> QED
    BY <1>2, ConcatProperties
<1> HIDE DEF c, d, g
<1>5. Counted(h, b) => Counted(g, d)
  <2> HAVE Counted(h, b)
  <2>1. ASSUME NEW k \in 1 .. Len(g) PROVE g[k] = k
    <3>1. CASE k <= Len(h)
      BY <1>1, <1>4, <3>1 DEF Counted
    <3>2. CASE ~(k <= Len(h))
      <4>1. k - Len(h) \in 1 .. n /\ k - Len(h) \in 1 .. Len(b) /\ Len(h) + (k - Len(h)) = k
        BY <1>1, <1>4, <3>2
      <4>2. g[k] = b[k - Len(h)]
        BY <1>2, <1>4, <3>2, <4>1
      <4> QED
        BY <4>1, <4>2 DEF Counted
    <3> QED
      BY <3>1, <3>2
  <2>2. ASSUME NEW k \in 1 .. Len(d) PROVE d[k] = Len(g) + k
    <3>1. n + k \in 1 .. Len(b) /\ Len(h) + (n + k) = Len(g) + k
      BY <1>1, <1>3, <1>4
    <3> QED
      BY <1>3, <3>1 DEF Counted
  <2> QED
    BY <2>1, <2>2 DEF Counted
<1> QED
  BY <1>3, <1>4, <1>5 DEF g, d, c

LEMMA CountedMore ==
    ASSUME NEW h \in Seq(Nat), NEW p \in Seq(Nat), NEW d \in Seq(Nat)
    PROVE  /\ p \o d \in Seq(Nat) /\ Len(p \o d) = Len(p) + Len(d)
           /\ Counted(h, p) /\ d = Numbered(Len(h) + Len(p)) => Counted(h, p \o d)
<1>1. Len(h) \in Nat /\ Len(p) \in Nat /\ Len(d) \in Nat
  BY LenProperties
<1>2. p \o d \in Seq(Nat) /\ Len(p \o d) = Len(p) + Len(d)
      /\ \A k \in 1 .. Len(p) + Len(d) : (p \o d)[k] = IF k <= Len(p) THEN p[k] ELSE d[k - Len(p)]
  BY ConcatProperties
<1>3. ASSUME Counted(h, p), d = Numbered(Len(h) + Len(p)), NEW k \in 1 .. Len(p \o d) PROVE (p \o d)[k] = Len(h) + k
  <2>1. CASE k <= Len(p)
    BY <1>1, <1>2, <1>3, <2>1 DEF Counted
  <2>2. CASE ~(k <= Len(p))
    <3>1. k - Len(p) \in 1 .. Len(d)
      BY <1>1, <1>2, <2>2
    <3>2. PICK n \in Nat : n = Len(h) + Len(p)
      BY <1>1
    <3>3. Len(d) = TxLen /\ \A m \in 1 .. TxLen : d[m] = n + m
      BY <1>3, <3>2, NumberedFacts
    <3>4. d[k - Len(p)] = n + (k - Len(p))
      BY <3>1, <3>3
    <3>5. n + (k - Len(p)) = Len(h) + k
      BY <1>1, <3>2
    <3> QED
      BY <1>1, <1>2, <2>2, <3>4, <3>5
  <2> QED
    BY <2>1, <2>2
<1> QED
  BY <1>2, <1>3 DEF Counted

Sent(j) == Len(hostgot[j]) + Len(txp[j])

Tx(j) ==
    AtWork(j) /\ reqLost[j] # gen[j] =>
        /\ Counted(hostgot[j], txp[j])
        /\ wfd[j] \in HostStream => Queued(j, Sent(j), txn[j])

LEMMA TxTypes ==
    ASSUME Types, NEW j \in Sock
    PROVE  /\ hostgot[j] \in Seq(Nat) /\ txp[j] \in Seq(Nat) /\ txn[j] \in Nat /\ Sent(j) \in Nat
           /\ Len(hostgot[j]) \in Nat /\ Len(txp[j]) \in Nat
<1>1. hostgot[j] \in Seq(Nat) /\ txp[j] \in Seq(Nat) /\ txn[j] \in Nat
  BY DEF Types, WorkerTypes, ChipTypes
<1>2. Len(hostgot[j]) \in Nat /\ Len(txp[j]) \in Nat
  BY <1>1, LenProperties
<1>3. \A a, b \in Nat : a + b \in Nat
  OBVIOUS
<1>4. Sent(j) \in Nat
  BY <1>2, <1>3, Zenon DEF Sent
<1> QED
  BY <1>1, <1>2, <1>4

(* The bytes stay where they are.                                          *)
LEMMA TxStill ==
    ASSUME Types, NEW j \in Sock, Tx(j), gen'[j] = gen[j], AtWork(j)' => AtWork(j), reqLost'[j] # gen[j] => reqLost[j] # gen[j],
           AtWork(j) => hostgot'[j] = hostgot[j] /\ txp'[j] = txp[j] /\ (wfd'[j] \in HostStream => wfd[j] \in HostStream),
           wfd[j] \in HostStream /\ AtWork(j) /\ reqLost'[j] # gen[j] => txn'[j] = txn[j] /\ SameSends(j)
    PROVE  Tx(j)'
<1> SUFFICES ASSUME AtWork(j)', reqLost'[j] # gen[j]
             PROVE  Counted(hostgot'[j], txp'[j]) /\ (wfd'[j] \in HostStream => Queued(j, Sent(j), txn[j])')
  BY DEF Tx
<1>1. Counted(hostgot[j], txp[j]) /\ (wfd[j] \in HostStream => Queued(j, Sent(j), txn[j]))
  BY DEF Tx
<1>2. ASSUME wfd'[j] \in HostStream PROVE Queued(j, Sent(j), txn[j])'
  <2>1. wfd[j] \in HostStream /\ SameSends(j)
    BY <1>2
  <2>2. PICK s \in Nat, t \in Nat : s = Sent(j) /\ t = txn[j]
    BY TxTypes
  <2>3. Queued(j, s, t)'
    BY <1>1, <2>1, <2>2, QueuedKept
  <2>4. s = Sent(j)' /\ t = txn'[j]
    BY <1>2, <2>1, <2>2 DEF Sent
  <2> QED
    BY <2>3, <2>4 DEF Queued
<1> QED
  BY <1>1, <1>2

(* The chip.                                                               *)
LEMMA TxChip ==
    ASSUME CardInv, NEW j \in Sock, Orderly(j), Tx(j), ChipStep(j)
    PROVE  Tx(j)'
<1>0. Types /\ HostStill(j) /\ ChipMove(j) /\ HostOk(j) /\ PhaseOk(j)
  BY PhaseSays DEF CardInv, ChipStep
<1> HIDE DEF ChipMove
<1>1. CASE Ended(j) \/ Reborn(j)
  BY <1>1 DEF Ended, Reborn, Anew, Tx
<1>2. ASSUME gen'[j] = gen[j], reqLost'[j] # gen[j] => reqLost[j] # gen[j],
             wfd[j] \in HostStream /\ AtWork(j) /\ reqLost'[j] # gen[j] => txn'[j] = txn[j] /\ SameSends(j)
      PROVE  Tx(j)'
  BY <1>0, <1>2, TxStill DEF HostStill, AtWork
<1>3. CASE Rest(j) \/ Reads(j) \/ Frames(j) \/ Learns(j)
  <2>1. gen'[j] = gen[j] /\ KeepsAsked(j) /\ reqLost'[j] = reqLost[j] /\ txn'[j] = txn[j]
    BY <1>3 DEF Rest, Reads, Frames, Learns, Sees, GoesOn, NoRequest, GhostsSame
  <2> HIDE DEF KeepsAsked
  <2>2. SameSends(j)
    BY <1>0, <2>1, SendsKept
  <2> QED
    BY <1>2, <2>1, <2>2
<1>4. CASE Opens(j)
  <2>1. gen'[j] = gen[j] /\ (reqLost'[j] = reqLost[j] \/ reqLost'[j] = gen[j]) /\ Opening(j)
    BY <1>4 DEF Opens, Offers, NoRequest
  <2>2. ~(wfd[j] \in HostStream /\ AtWork(j))
    BY <1>0, <2>1 DEF PhaseOk, HostOk
  <2> QED
    BY <1>2, <2>1, <2>2
<1>5. CASE Asks(j)
  <2>1. gen'[j] = gen[j] /\ (reqLost'[j] = reqLost[j] \/ reqLost'[j] = gen[j]) /\ txn'[j] = txn[j]
    BY <1>5 DEF Asks, Offers, NoRequest, GoesOn, GhostsSame
  <2>2. reqLost'[j] # gen[j] => \E m \in Lasts : AddsAsked(j, Request(m, j, gen[j], << >>))
    BY <1>5 DEF Asks, Offers, Lasts
  <2>3. \A m \in Lasts : Request(m, j, gen[j], << >>).msg # "SendTcp"
    BY DEF Request, Lasts
  <2>4. reqLost'[j] # gen[j] => \E r : AddsAsked(j, r) /\ r.msg # "SendTcp"
    BY <2>2, <2>3
  <2>5. reqLost'[j] # gen[j] => SameSends(j)
    BY <1>0, <2>4, SendsKept
  <2> QED
    BY <1>2, <2>1, <2>5
<1>6. CASE Puts(j)
  <2> DEFINE r == Request(SendMsg(j), j, gen[j], [k \in 1 .. TxLen |-> txn[j] + k])
  <2>1. /\ gen'[j] = gen[j] /\ (reqLost'[j] = reqLost[j] \/ reqLost'[j] = gen[j]) /\ txn'[j] = txn[j] + TxLen
        /\ sr[j] \in Connected \cup {"UDP", "MACRAW", "IPRAW"} /\ ~Opening(j)
    BY <1>6 DEF Puts, Offers, GoesOn
  <2>2. reqLost'[j] # gen[j] => AddsAsked(j, r) /\ reqLost[j] # gen[j]
    BY <1>6, <2>1 DEF Puts, Offers
  <2>3. CASE sr[j] \notin Connected
    <3>1. ~(wfd[j] \in HostStream /\ AtWork(j))
      BY <1>0, <2>1, <2>3 DEF PhaseOk, HostOk, Headed
    <3> QED
      BY <1>2, <2>1, <3>1
  <2>4. CASE sr[j] \in Connected
    <3>1. r.msg = "SendTcp" /\ r.data = Numbered(txn[j])
      BY <2>4 DEF Request, SendMsg, Connected, Numbered
    <3> HIDE DEF r
    <3> SUFFICES ASSUME AtWork(j)', reqLost'[j] # gen[j]
                 PROVE  Counted(hostgot'[j], txp'[j]) /\ (wfd'[j] \in HostStream => Queued(j, Sent(j), txn[j])')
      BY <2>1 DEF Tx
    <3>2. AtWork(j) /\ AddsAsked(j, r) /\ reqLost[j] # gen[j]
      BY <1>0, <2>1, <2>2 DEF AtWork, HostStill
    <3>3. Counted(hostgot[j], txp[j]) /\ (wfd[j] \in HostStream => Queued(j, Sent(j), txn[j]))
      BY <3>2 DEF Tx
    <3>4. ASSUME wfd'[j] \in HostStream PROVE Queued(j, Sent(j), txn[j])'
      <4>1. PICK s \in Nat, t \in Nat : s = Sent(j) /\ t = txn[j]
        BY <1>0, TxTypes
      <4>2. PICK u \in Nat : u = t + TxLen
        BY ChipAssumption
      <4>3. Queued(j, s, t)
        BY <1>0, <3>3, <3>4, <4>1 DEF HostStill
      <4>4. Queued(j, s, u)'
        BY <1>0, <3>1, <3>2, <4>1, <4>2, <4>3, QueuedMore
      <4>5. s = Sent(j)' /\ u = txn'[j]
        BY <1>0, <2>1, <4>1, <4>2 DEF Sent, HostStill
      <4> QED
        BY <4>4, <4>5 DEF Queued
    <3> QED
      BY <1>0, <3>3, <3>4 DEF HostStill
  <2> QED
    BY <2>3, <2>4
<1> QED
  BY <1>0, <1>1, <1>3, <1>4, <1>5, <1>6 DEF ChipMove

(* The worker, when it neither begins a generation nor has bytes to send.  *)
LEMMA TxAside ==
    ASSUME OrderInv, NEW j \in Sock, Tx(j), WorkerStep(j),
           \/ Aside(j) \/ Ignored(j) \/ Answered(j) \/ Gets(j) \/ Passes(j) \/ Eofs(j) \/ Catches(j)
           \/ PeerWrites(j) \/ PeerLeaves(j) \/ Rises(j) \/ Dials(j)
    PROVE  Tx(j)'
<1>0. Types /\ HostOk(j) /\ ChipStill(j)
  BY PhaseSays DEF OrderInv, CardInv, WorkerStep
<1>1. gen'[j] = gen[j] /\ reqLost'[j] = reqLost[j] /\ txn'[j] = txn[j]
  BY <1>0 DEF ChipStill, GhostsSame
<1>2. /\ AtWork(j)' => AtWork(j)
      /\ AtWork(j) => hostgot'[j] = hostgot[j] /\ txp'[j] = txp[j] /\ (wfd'[j] \in HostStream => wfd[j] \in HostStream)
  BY <1>0 DEF Aside, Ignored, Answered, Gets, Passes, Eofs, Catches, PeerWrites, PeerLeaves, Rises, Dials, HostSame, BytesSame,
     Goes, HostOk
<1>3. wfd[j] \in HostStream /\ AtWork(j) => KeepsAsked(j) \/ (TakesAsked(j) /\ req[1].msg # "SendTcp")
  <2>1. CASE Ignored(j) \/ Answered(j)
    BY <2>1 DEF Ignored, Answered, RawTx
  <2>2. CASE Rises(j) \/ Dials(j)
    BY <2>2 DEF Rises, Dials
  <2>3. CASE Aside(j) \/ Gets(j) \/ Passes(j) \/ Eofs(j) \/ Catches(j) \/ PeerWrites(j) \/ PeerLeaves(j)
    BY <2>3 DEF Aside, Gets, Passes, Eofs, Catches, PeerWrites, PeerLeaves
  <2> QED
    BY <2>1, <2>2, <2>3
<1>4. wfd[j] \in HostStream /\ AtWork(j) => SameSends(j)
  BY <1>0, <1>3, SendsKept
<1> QED
  BY <1>0, <1>1, <1>2, <1>4, TxStill

LEMMA TxBegun ==
    ASSUME OrderInv, NEW j \in Sock, WorkerStep(j), Begun(j)
    PROVE  Tx(j)'
<1>0. Types /\ HostOk(j) /\ PhaseOk(j) /\ ChipStill(j) /\ Orderly(j)
  BY PhaseSays DEF OrderInv, CardInv, WorkerStep
<1>1. hostgot'[j] = << >> /\ txp'[j] = << >> /\ TakesAsked(j)
  BY DEF Begun
<1>2. Counted(hostgot'[j], txp'[j])
  BY <1>1, EmptySeq DEF Counted
<1>3. ASSUME wfd'[j] \in HostStream PROVE Queued(j, Sent(j), txn[j])'
  <2>1. req[1].msg \in {"OpenTcp", "AdoptListen"}
    BY <1>3 DEF Begun, HostStream
  <2>2. InTurn(j)
    BY <1>0 DEF Orderly
  <2>3. req[1].msg \in Wants(j) /\ Wants(j)' \subseteq Wants(j)
    BY <1>0, <1>1, <2>2, WantsTaken
  <2>4. ~Opening(j)
    BY <1>0, <2>1, <2>3 DEF PhaseOk, Closes
  <2>5. IsStream(j) /\ Young(j)
    BY <2>1, <2>3, <2>4 DEF IsStream, Young, Openers
  <2>6. Untouched(j)
    BY <1>0, <2>5 DEF Orderly
  <2>7. "SendTcp" \notin Wants(j)' /\ txn'[j] = 0
    BY <1>0, <2>3, <2>6 DEF Untouched, ChipStill, GhostsSame
  <2>8. Sent(j)' = 0
    BY <1>1, EmptySeq DEF Sent
  <2>9. Queued(j, 0, 0)'
    BY <2>7 DEF Wants, Sends, Queued
  <2> QED
    BY <2>7, <2>8, <2>9 DEF Queued
<1> QED
  BY <1>2, <1>3 DEF Tx

(* What is pending dies with the connection.                               *)
LEMMA TxDies ==
    ASSUME NEW j \in Sock, Tx(j), WorkerStep(j), Dies(j) \/ Finishes(j)
    PROVE  Tx(j)'
<1>1. /\ gen'[j] = gen[j] /\ reqLost'[j] = reqLost[j] /\ (AtWork(j)' => AtWork(j))
      /\ hostgot'[j] = hostgot[j] /\ txp'[j] = << >> /\ wfd'[j] = "none"
  BY DEF Dies, Finishes, Goes, WorkerStep, ChipStill
<1>2. Counted(hostgot[j], txp[j]) => Counted(hostgot'[j], txp'[j])
  BY <1>1, EmptySeq DEF Counted
<1> QED
  BY <1>1, <1>2 DEF Tx, HostStream

(* ::send.                                                                 *)
LEMMA TxPushes ==
    ASSUME OrderInv, NEW j \in Sock, Tx(j), WorkerStep(j), Pushes(j)
    PROVE  Tx(j)'
<1>0. Types /\ ChipStill(j) /\ hostgot[j] \in Seq(Nat) /\ txp[j] \in Seq(Nat) /\ txn[j] \in Nat
      /\ Len(hostgot[j]) \in Nat /\ Len(txp[j]) \in Nat
  BY TxTypes DEF OrderInv, CardInv, WorkerStep
<1> SUFFICES ASSUME AtWork(j)', reqLost'[j] # gen'[j]
             PROVE  Counted(hostgot'[j], txp'[j]) /\ (wfd'[j] \in HostStream => Queued(j, Sent(j), txn[j])')
  BY DEF Tx
<1>1. AtWork(j) /\ reqLost[j] # gen[j] /\ wfd[j] \in HostStream /\ txn'[j] = txn[j]
  BY <1>0 DEF ChipStill, GhostsSame, Pushes, Goes
<1>2. Counted(hostgot[j], txp[j]) /\ Queued(j, Sent(j), txn[j])
  BY <1>1 DEF Tx
<1>3. PICK b \in Seq(Nat) :
        \E n \in 0 .. Len(b) :
            /\ \/ KeepsAsked(j) /\ b = txp[j]
               \/ TakesAsked(j) /\ req[1].msg = "SendTcp" /\ b = txp[j] \o req[1].data
            /\ hostgot'[j] = hostgot[j] \o SubSeq(b, 1, n)
            /\ txp'[j] = SubSeq(b, n + 1, Len(b))
  BY Zenon DEF Pushes
<1>10. PICK n \in 0 .. Len(b) :
        /\ \/ KeepsAsked(j) /\ b = txp[j]
           \/ TakesAsked(j) /\ req[1].msg = "SendTcp" /\ b = txp[j] \o req[1].data
        /\ hostgot'[j] = hostgot[j] \o SubSeq(b, 1, n)
        /\ txp'[j] = SubSeq(b, n + 1, Len(b))
  BY <1>3, Zenon
<1>4. Len(b) \in Nat /\ n \in Nat
  BY LenProperties
<1>5. /\ Len(hostgot'[j]) = Len(hostgot[j]) + n /\ Len(txp'[j]) = Len(b) - n
      /\ Counted(hostgot[j], b) => Counted(hostgot'[j], txp'[j])
  BY <1>0, <1>10, CountedPush
<1>6. Sent(j)' = Len(hostgot[j]) + Len(b)
  BY <1>0, <1>4, <1>5 DEF Sent
<1>7. PICK s \in Nat, t \in Nat : s = Sent(j) /\ t = txn[j] /\ s = Len(hostgot[j]) + Len(txp[j])
  BY <1>0, TxTypes DEF Sent
<1>8. CASE KeepsAsked(j) /\ b = txp[j]
  <2>1. SameSends(j)
    BY <1>0, <1>8, SendsKept
  <2>2. Queued(j, s, t)'
    BY <1>0, <1>2, <1>7, <2>1, QueuedKept
  <2>3. s = Sent(j)' /\ t = txn'[j]
    BY <1>1, <1>6, <1>7, <1>8
  <2>4. Queued(j, Sent(j), txn[j])'
    BY <2>2, <2>3 DEF Queued
  <2> QED
    BY <1>2, <1>5, <1>8, <2>4
<1>9. CASE TakesAsked(j) /\ req[1].msg = "SendTcp" /\ b = txp[j] \o req[1].data
  <2>1. PICK u \in Nat : u = s + TxLen
    BY ChipAssumption
  <2>2. req[1].data = Numbered(s) /\ Queued(j, u, t)'
    BY <1>0, <1>2, <1>7, <1>9, <2>1, QueuedTaken
  <2>3. req[1].data \in Seq(Nat) /\ Len(req[1].data) = TxLen
    BY <2>2, NumberedFacts
  <2>4. Len(b) = Len(txp[j]) + TxLen /\ Counted(hostgot[j], b)
    BY <1>0, <1>2, <1>7, <1>9, <2>2, <2>3, CountedMore
  <2>5. u = Sent(j)' /\ t = txn'[j]
    <3>1. TxLen \in Nat
      BY ChipAssumption
    <3>2. PICK c \in Nat, d \in Nat : c = Len(hostgot[j]) /\ d = Len(txp[j])
      BY <1>0
    <3>3. u = c + (d + TxLen)
      <4>1. s = c + d
        BY <1>7, <3>2
      <4> QED
        BY <2>1, <3>1, <4>1
    <3>4. Len(b) = d + TxLen
      BY <2>4, <3>2
    <3> QED
      BY <1>1, <1>6, <1>7, <3>2, <3>3, <3>4
  <2>6. Queued(j, Sent(j), txn[j])'
    BY <2>2, <2>5 DEF Queued
  <2> QED
    BY <1>5, <2>4, <2>6
<1> QED
  BY <1>10, <1>8, <1>9

TxInv == OrderInv /\ \A j \in Sock : Tx(j)

LEMMA TxStay == TxInv /\ [Next]_vars => TxInv'
<1> SUFFICES ASSUME TxInv, [Next]_vars PROVE TxInv'
  OBVIOUS
<1>1. OrderInv /\ OrderInv' /\ CardInv /\ RingClear
  BY OrderStay DEF TxInv, OrderInv
<1>2. ASSUME NEW j \in Sock PROVE Tx(j)'
  <2>1. Tx(j) /\ Orderly(j) /\ (ChipStep(j) \/ WorkerStep(j))
    BY <1>1, Steps DEF TxInv, OrderInv
  <2>2. CASE ChipStep(j)
    BY <1>1, <2>1, <2>2, TxChip
  <2>3. CASE WorkerStep(j)
    <3>1. WorkerMove(j)
      BY <2>3 DEF WorkerStep
    <3> HIDE DEF WorkerMove
    <3> QED
      BY <1>1, <2>1, <2>3, <3>1, TxAside, TxBegun, TxDies, TxPushes DEF WorkerMove, RequestMove, PollMove
  <2> QED
    BY <2>1, <2>2, <2>3
<1> QED
  BY <1>1, <1>2 DEF TxInv

LEMMA TxSafe == TxInv => TxStreamIntact
<1> SUFFICES ASSUME TxInv, NEW j \in Sock, wgen[j] = gen[j], reqLost[j] # gen[j]
             PROVE  hostgot[j] \o txp[j] = [k \in 1 .. (Len(hostgot[j]) + Len(txp[j])) |-> k]
  BY DEF TxStreamIntact
<1> DEFINE h == hostgot[j]
           p == txp[j]
<1>1. h \in Seq(Nat) /\ p \in Seq(Nat) /\ Len(h) \in Nat /\ Len(p) \in Nat
  BY TxTypes DEF TxInv, OrderInv, CardInv
<1>2. Counted(h, p)
  BY DEF TxInv, Tx, AtWork
<1> HIDE DEF h, p
<1>3. h \o p \in Seq(Nat) /\ Len(h \o p) = Len(h) + Len(p)
      /\ \A k \in 1 .. Len(h) + Len(p) : (h \o p)[k] = IF k <= Len(h) THEN h[k] ELSE p[k - Len(h)]
  BY <1>1, ConcatProperties
<1>4. ASSUME NEW k \in 1 .. Len(h) + Len(p) PROVE (h \o p)[k] = k
  <2>1. CASE k <= Len(h)
    BY <1>1, <1>2, <1>3, <2>1 DEF Counted
  <2>2. CASE ~(k <= Len(h))
    <3>1. k - Len(h) \in 1 .. Len(p) /\ Len(h) + (k - Len(h)) = k
      BY <1>1, <2>2
    <3> QED
      BY <1>2, <1>3, <2>2, <3>1 DEF Counted
  <2> QED
    BY <2>1, <2>2
<1>5. h \o p = [k \in 1 .. Len(h \o p) |-> (h \o p)[k]]
  BY <1>3, LenProperties
<1>6. h \o p = [k \in 1 .. Len(h) + Len(p) |-> k]
  BY <1>1, <1>3, <1>4, <1>5
<1> QED
  BY <1>6 DEF h, p

(* The bytes the host has of a connection, and those the worker holds for  *)
(* it, are the guest's SENDs from the first byte on, none missing, doubled *)
(* or out of order, unless the request ring refused one: the ring keeps    *)
(* the SENDs in order and flush_tcp_tx keeps what ::send left.             *)
THEOREM TxInOrder == Spec => []TxStreamIntact
<1>1. Init => TxInv
  BY OrderStart, StartFacts DEF TxInv, Tx
<1> QED
  BY <1>1, TxStay, TxSafe, PTL DEF Spec

-----------------------------------------------------------------------------
(* No step but the end of an OPEN, and a restore, makes a socket a stream. *)

LEMMA StreamChip ==
    ASSUME CardInv, NEW j \in Sock, Orderly(j), ChipStep(j), IsStream(j)'
    PROVE  Opens(j) \/ Ended(j) \/ Reborn(j) \/ (IsStream(j) /\ gen'[j] = gen[j])
<1>0. Types /\ ChipMove(j) /\ HostStill(j)
  BY DEF CardInv, ChipStep
<1> HIDE DEF ChipMove
<1>1. ASSUME GoesOn(j), Wants(j)' \cap Openers \subseteq Wants(j), Hears(j)' \subseteq Hears(j),
             sr'[j] \in Unconnected \cup Connected => IsStream(j) \/ (sr[j] \in Unconnected \cup Connected)
      PROVE  IsStream(j) /\ gen'[j] = gen[j]
  BY <1>0, <1>1 DEF IsStream, GoesOn, HostStill, AtWork
<1>2. CASE Rest(j) \/ Reads(j) \/ Frames(j)
  <2>1. GoesOn(j) /\ KeepsAsked(j) /\ Quiet(j) /\ sr'[j] = sr[j]
    BY <1>2 DEF Rest, Reads, Frames, NoRequest
  <2>2. Wants(j)' = Wants(j) /\ Hears(j)' = Hears(j)
    BY <1>0, <2>1, WantsKept, HearsKept
  <2> QED
    BY <1>1, <2>1, <2>2
<1>3. CASE Asks(j)
  BY <1>3 DEF Asks, GoesOn, IsStream, Unconnected
<1>4. CASE Puts(j)
  <2> DEFINE r == Request(SendMsg(j), j, gen[j], [k \in 1 .. TxLen |-> txn[j] + k])
  <2>1. GoesOn(j) /\ Offers(j, r) /\ Quiet(j) /\ sr'[j] = sr[j]
    BY <1>4 DEF Puts
  <2>2. r.msg \notin Openers
    BY DEF Request, SendMsg, Openers
  <2> HIDE DEF r
  <2>3. Wants(j)' = Wants(j) \/ Wants(j)' = Wants(j) \cup {r.msg}
    BY <1>0, <2>1, WantsKept, WantsAdded DEF Offers
  <2>4. Hears(j)' = Hears(j)
    BY <1>0, <2>1, HearsKept
  <2> QED
    BY <1>1, <2>1, <2>2, <2>3, <2>4
<1>5. CASE Learns(j)
  <2>1. PICK e \in Happened : Sees(j, e) /\ (e.evt = "Status" => sr'[j] = StatusOf(e.cause)) /\ e.cause \in Cause
    BY <1>5 DEF Learns, Happened
  <2>2. GoesOn(j) /\ KeepsAsked(j) /\ Applies(j, e) /\ (e.evt # "Status" => sr'[j] = sr[j]) /\ ~Opening(j)
    BY <2>1 DEF Sees, NoRequest
  <2>3. Wants(j)' = Wants(j) /\ Hears(j)' \subseteq Hears(j) /\ News1(e) \in Hears(j)
    BY <1>0, <2>2, WantsKept, HearsTaken
  <2>4. e.evt = "Status" /\ sr'[j] \in Unconnected \cup Connected => News1(e) \in GoodNews
    <3> HAVE e.evt = "Status" /\ sr'[j] \in Unconnected \cup Connected
    <3>1. e.cause \in {"Connected", "RemoteClosed"}
      BY <2>1 DEF StatusOf, Unconnected, Connected, Cause
    <3>2. News1(e) = <<"Status", e.cause>>
      BY DEF News1
    <3> QED
      BY <3>1, <3>2 DEF GoodNews
  <2>5. sr'[j] \in Unconnected \cup Connected => IsStream(j) \/ (sr[j] \in Unconnected \cup Connected)
    BY <2>2, <2>3, <2>4 DEF IsStream
  <2> QED
    BY <1>1, <2>2, <2>3, <2>5
<1> QED
  BY <1>0, <1>2, <1>3, <1>4, <1>5 DEF ChipMove

LEMMA StreamWorker ==
    ASSUME OrderInv, NEW j \in Sock, WorkerStep(j), IsStream(j)'
    PROVE  IsStream(j) /\ gen'[j] = gen[j]
<1>0. Types /\ ChipStill(j) /\ WorkerMove(j) /\ HostOk(j) /\ PhaseOk(j) /\ InTurn(j)
  BY PhaseSays DEF OrderInv, CardInv, WorkerStep, Orderly
<1> HIDE DEF WorkerMove
<1>1. ~Opening(j) /\ gen'[j] = gen[j] /\ sr'[j] = sr[j]
  BY <1>0 DEF IsStream, ChipStill
<1>2. KeepsAsked(j) => Wants(j)' = Wants(j)
  BY <1>0, WantsKept
<1>3. TakesAsked(j) => req[1].msg \in Wants(j) /\ Wants(j)' \subseteq Wants(j)
  BY <1>0, WantsTaken
<1>4. ASSUME KeepsAsked(j) \/ TakesAsked(j), Hears(j)' \cap GoodNews \subseteq Hears(j),
             AtWork(j)' /\ wfd'[j] \in HostStream => AtWork(j) /\ wfd[j] \in HostStream
      PROVE  IsStream(j)
  BY <1>1, <1>2, <1>3, <1>4 DEF IsStream
<1>5. ASSUME NEW e, Reports(j, e), News1(e) \notin GoodNews PROVE Hears(j)' \cap GoodNews \subseteq Hears(j)
  BY <1>0, <1>5, HearsAdded
<1>6. Quiet(j) => Hears(j)' = Hears(j)
  BY <1>0, HearsKept
<1>7. \A m \in {"SendDone", "RxTcp", "RxUdp"} : \A c, d : News1(Event(m, j, gen[j], c, d)) \notin GoodNews
  BY DEF News1, Event, GoodNews
<1>8. \A c \in {"Failed", "Reset"} : News1(StatusEvent(j, gen[j], c)) \notin GoodNews
  BY DEF News1, StatusEvent, Event, GoodNews
<1>9. CASE Aside(j) \/ Ignored(j) \/ Dials(j) \/ Gets(j) \/ PeerWrites(j) \/ PeerLeaves(j) \/ Finishes(j)
  <2>1. Quiet(j) /\ (KeepsAsked(j) \/ TakesAsked(j))
    BY <1>9 DEF Aside, Ignored, Dials, Gets, PeerWrites, PeerLeaves, Finishes, Silent
  <2>2. AtWork(j)' /\ wfd'[j] \in HostStream => AtWork(j) /\ wfd[j] \in HostStream
    BY <1>9 DEF Aside, Ignored, Dials, Gets, PeerWrites, PeerLeaves, Finishes, HostSame, Goes, HostStream
  <2> QED
    BY <1>1, <1>4, <1>6, <2>1, <2>2
<1>10. CASE Answered(j)
  <2>1. PICK c \in Cause : Reports(j, Event("SendDone", j, gen[j], c, << >>))
    BY <1>10 DEF Answered
  <2>2. TakesAsked(j) /\ (AtWork(j)' <=> AtWork(j)) /\ wfd'[j] = wfd[j]
    BY <1>10 DEF Answered, HostSame
  <2> QED
    BY <1>1, <1>4, <1>5, <1>7, <2>1, <2>2
<1>11. CASE Begun(j)
  <2>1. TakesAsked(j) /\ (wfd'[j] \in HostStream => req[1].msg \in Openers)
    BY <1>11 DEF Begun, Openers, HostStream
  <2>2. Hears(j)' \cap GoodNews \subseteq Hears(j)
    BY <1>5, <1>6, <1>8, <1>11 DEF Begun, Silent
  <2> QED
    BY <1>1, <1>3, <1>4, <2>1, <2>2 DEF IsStream
<1>12. CASE Rises(j) \/ Eofs(j)
  <2>1. /\ AtWork(j)
        /\ \/ TakesAsked(j) /\ req[1].msg = "Connect"
           \/ wst[j] \in {"SYNSENT", "LISTEN", "ESTABLISHED"}
    BY <1>12 DEF Rises, Eofs, Goes
  <2> QED
    BY <1>0, <1>1, <1>3, <2>1 DEF IsStream, HostOk, Openers
<1>13. CASE Dies(j) \/ Pushes(j)
  <2>1. AtWork(j) /\ wfd[j] \in HostStream
    BY <1>0, <1>13 DEF Dies, Pushes, Goes, HostOk
  <2> QED
    BY <1>1, <2>1 DEF IsStream
<1>14. CASE Passes(j)
  BY <1>0, <1>1, <1>14 DEF Passes, Goes, HostOk, IsStream
<1>15. CASE Catches(j)
  <2>1. Reports(j, Event("RxUdp", j, gen[j], "None", <<<<gen[j], psent[j] + 1>>>>)) /\ KeepsAsked(j) /\ wfd'[j] = wfd[j] /\ AtWork(j)
    BY <1>15 DEF Catches, Goes
  <2> QED
    BY <1>1, <1>4, <1>5, <1>7, <2>1
<1> QED
  BY <1>0, <1>1, <1>9, <1>10, <1>11, <1>12, <1>13, <1>14, <1>15 DEF WorkerMove, RequestMove, PollMove

-----------------------------------------------------------------------------
(* SEND_OKs: x of them have been told, seen or not, and as many SENDs      *)
(* have gone out whole; while bytes are pending, one more has been begun.  *)

Whole(n) == n * TxLen

SendOk(j) ==
    IsStream(j) /\ AtWork(j) =>
        \E x \in Nat :
            /\ Tally(evt, j, gen[j], sendoks[j], x)
            /\ Whole(x) <= Len(hostgot[j])
            /\ txp[j] # << >> => Whole(x) + TxLen <= Len(hostgot[j]) + Len(txp[j])

LEMMA WholeFacts ==
    ASSUME NEW x \in Nat
    PROVE  Whole(x) \in Nat /\ Whole(x + 1) = Whole(x) + TxLen /\ Whole(0) = 0 /\ TxLen \in Nat \ {0}
           /\ \A a \in Nat : a <= x => Whole(a) <= Whole(x)
<1>1. TxLen \in Nat \ {0}
  BY ChipAssumption
<1>2. Whole(x) \in Nat /\ Whole(x + 1) = Whole(x) + TxLen /\ Whole(0) = 0
  BY <1>1 DEF Whole
<1>3. ASSUME NEW a \in Nat, a <= x PROVE Whole(a) <= Whole(x)
  <2>1. PICK d \in Nat : x = a + d
    <3>1. x - a \in Nat /\ x = a + (x - a)
      BY <1>3
    <3> QED
      BY <3>1
  <2>2. (a + d) * TxLen = a * TxLen + d * TxLen /\ d * TxLen \in Nat /\ a * TxLen \in Nat
    BY <1>1
  <2> QED
    BY <2>1, <2>2 DEF Whole
<1> QED
  BY <1>1, <1>2, <1>3

(* Nothing told, nothing counted.                                          *)
LEMMA TallyZero ==
    ASSUME Types, NEW j \in Sock, \A m \in Hears(j) : m[1] # "SendDone"
    PROVE  Tally(evt, j, gen[j], 0, 0)
<1>1. evt \in Seq(Happened)
  BY RingFacts
<1>2. ASSUME NEW k \in 1 .. Len(evt), SentOk(evt[k], j, gen[j]) PROVE FALSE
  <2>1. k \in Told(j) /\ evt[k].evt = "SendDone"
    BY <1>2 DEF SentOk, Told
  <2>2. <<evt[k].evt, evt[k].cause>> \in Hears(j)
    BY <2>1 DEF Hears
  <2>3. <<evt[k].evt, evt[k].cause>>[1] = "SendDone"
    BY <2>1
  <2> QED
    BY <2>2, <2>3
<1> QED
  BY <1>1, <1>2, TallyNone DEF Tally

LEMMA SendOkTypes ==
    ASSUME Types, NEW j \in Sock
    PROVE  sendoks[j] \in Nat /\ hostgot[j] \in Seq(Nat) /\ txp[j] \in Seq(Nat) /\ Len(hostgot[j]) \in Nat /\ Len(txp[j]) \in Nat
BY TxTypes DEF Types, ChipTypes

(* The count of a generation that goes on.                                 *)
CountKept(j) ==
    \A x \in Nat : Tally(evt, j, gen[j], sendoks[j], x) => Tally(evt', j, gen[j], sendoks'[j], x)

LEMMA SendOkStill ==
    ASSUME NEW j \in Sock, SendOk(j), gen'[j] = gen[j], AtWork(j)' => AtWork(j), IsStream(j)' => IsStream(j),
           AtWork(j) /\ IsStream(j) =>
               CountKept(j) /\ hostgot'[j] = hostgot[j] /\ (txp'[j] = txp[j] \/ txp'[j] = << >>)
    PROVE  SendOk(j)'
<1> SUFFICES ASSUME AtWork(j), IsStream(j)
             PROVE  \E x \in Nat :
                        /\ Tally(evt', j, gen[j], sendoks'[j], x)
                        /\ Whole(x) <= Len(hostgot'[j])
                        /\ txp'[j] # << >> => Whole(x) + TxLen <= Len(hostgot'[j]) + Len(txp'[j])
  BY DEF SendOk
<1>1. PICK x \in Nat :
            /\ Tally(evt, j, gen[j], sendoks[j], x)
            /\ Whole(x) <= Len(hostgot[j])
            /\ txp[j] # << >> => Whole(x) + TxLen <= Len(hostgot[j]) + Len(txp[j])
  BY DEF SendOk
<1>2. Tally(evt', j, gen[j], sendoks'[j], x)
  BY <1>1 DEF CountKept
<1> QED
  BY <1>1, <1>2

(* Nothing has gone out.                                                   *)
LEMMA SendOkNew ==
    ASSUME NEW j \in Sock, hostgot'[j] = << >>, txp'[j] = << >>, Tally(evt', j, gen'[j], sendoks'[j], 0)
    PROVE  SendOk(j)'
<1>1. Whole(0) = 0 /\ Len(hostgot'[j]) = 0
  BY WholeFacts, EmptySeq
<1> QED
  BY <1>1 DEF SendOk

LEMMA SendOkChip ==
    ASSUME CardInv, NEW j \in Sock, Orderly(j), SendOk(j), ChipStep(j)
    PROVE  SendOk(j)'
<1>0. Types /\ ChipMove(j) /\ HostStill(j) /\ sendoks[j] \in Nat
  BY SendOkTypes DEF CardInv, ChipStep
<1> HIDE DEF ChipMove
<1>1. CASE Ended(j) \/ Reborn(j)
  BY <1>1 DEF Ended, Reborn, Anew, SendOk
<1>2. CASE Opens(j)
  <2>1. Opening(j) /\ Quiet(j) /\ sendoks'[j] = 0 /\ gen'[j] = gen[j]
    BY <1>2 DEF Opens
  <2>2. Hears(j) = {} /\ (AtWork(j) => HostEmpty(j))
    BY <2>1 DEF Orderly
  <2>3. Tally(evt, j, gen[j], 0, 0)
    BY <1>0, <2>2, TallyZero
  <2>4. Tally(evt', j, gen'[j], sendoks'[j], 0)
    BY <2>1, <2>3 DEF Quiet
  <2>5. AtWork(j)' => hostgot'[j] = << >> /\ txp'[j] = << >>
    BY <1>0, <2>1, <2>2 DEF AtWork, HostStill, HostEmpty
  <2> QED
    BY <2>4, <2>5, SendOkNew DEF SendOk
<1>3. ASSUME ~(Ended(j) \/ Reborn(j)), ~Opens(j), gen'[j] = gen[j], CountKept(j)
      PROVE  SendOk(j)'
  <2>1. IsStream(j)' => IsStream(j)
    BY <1>3, StreamChip
  <2> QED
    BY <1>0, <1>3, <2>1, SendOkStill DEF HostStill, AtWork
<1>4. Quiet(j) /\ sendoks'[j] = sendoks[j] => CountKept(j)
  BY <1>0 DEF Quiet, CountKept
<1>5. CASE Rest(j) \/ Reads(j) \/ Frames(j) \/ Asks(j) \/ Puts(j)
  <2>1. gen'[j] = gen[j] /\ Quiet(j) /\ sendoks'[j] = sendoks[j]
    BY <1>5 DEF Rest, Reads, Frames, Asks, Puts, GoesOn, GhostsSame
  <2> QED
    BY <1>1, <1>2, <1>3, <1>4, <2>1
<1>6. CASE Learns(j)
  <2>1. PICK e \in Happened :
          /\ Sees(j, e)
          /\ e.evt = "SendDone" => sendoks'[j] = sendoks[j] + Once01(e.cause # "Failed")
    BY <1>6 DEF Learns
  <2>2. gen'[j] = gen[j] /\ Applies(j, e) /\ (e.evt # "SendDone" => sendoks'[j] = sendoks[j])
    BY <2>1 DEF Sees, GoesOn
  <2>3. e.sock = j /\ e.gen = gen[j]
    BY <2>2 DEF Applies, TakesTold, Told
  <2>4. sendoks'[j] = sendoks[j] + Once01(SentOk(e, j, gen[j]))
    <3>1. CASE e.evt = "SendDone"
      BY <2>1, <2>3, <3>1 DEF SentOk
    <3>2. CASE e.evt # "SendDone"
      BY <1>0, <2>2, <3>2 DEF SentOk, Once01
    <3> QED
      BY <3>1, <3>2
  <2>5. CountKept(j)
    <3> SUFFICES ASSUME NEW x \in Nat, Tally(evt, j, gen[j], sendoks[j], x)
                 PROVE  Tally(evt', j, gen[j], sendoks'[j], x)
      BY DEF CountKept
    <3>1. Tally(evt', j, gen[j], sendoks[j] + Once01(SentOk(e, j, gen[j])), x)
      BY <1>0, <2>2 DEF Applies
    <3> QED
      BY <2>4, <3>1
  <2> QED
    BY <1>1, <1>2, <1>3, <2>2, <2>5
<1> QED
  BY <1>0, <1>1, <1>2, <1>5, <1>6 DEF ChipMove

(* News that is no SEND_OK.                                                *)
LEMMA CountReports ==
    ASSUME Types, NEW j \in Sock, NEW e, Reports(j, e), ~SentOk(e, j, gen[j]), sendoks'[j] = sendoks[j]
    PROVE  CountKept(j)
<1>0. sendoks[j] \in Nat
  BY SendOkTypes
<1>1. CASE Quiet(j)
  BY <1>0, <1>1 DEF Quiet, CountKept
<1>2. CASE Tells(j, e)
  <2>1. ASSUME NEW x \in Nat, Tally(evt, j, gen[j], sendoks[j], x) PROVE Tally(evt', j, gen[j], sendoks[j], x)
    <3>1. Tally(evt', j, gen[j], sendoks[j], x + Once01(SentOk(e, j, gen[j])))
      BY <1>0, <1>2, <2>1 DEF Tells
    <3>2. x + Once01(SentOk(e, j, gen[j])) = x
      BY DEF Once01
    <3> QED
      BY <3>1, <3>2
  <2> QED
    BY <2>1 DEF CountKept
<1> QED
  BY <1>1, <1>2 DEF Reports

LEMMA SendOkAside ==
    ASSUME OrderInv, NEW j \in Sock, SendOk(j), WorkerStep(j),
           \/ Aside(j) \/ Ignored(j) \/ Answered(j) \/ Gets(j) \/ Passes(j) \/ Eofs(j) \/ Catches(j)
           \/ PeerWrites(j) \/ PeerLeaves(j) \/ Rises(j) \/ Dials(j) \/ Dies(j) \/ Finishes(j)
    PROVE  SendOk(j)'
<1>0. Types /\ gen'[j] = gen[j] /\ sendoks'[j] = sendoks[j] /\ sendoks[j] \in Nat /\ Orderly(j) /\ InTurn(j)
  BY SendOkTypes DEF OrderInv, CardInv, WorkerStep, ChipStill, GhostsSame, Orderly
<1>1. (AtWork(j)' => AtWork(j)) /\ (AtWork(j) => hostgot'[j] = hostgot[j] /\ (txp'[j] = txp[j] \/ txp'[j] = << >>))
  BY DEF Aside, Ignored, Answered, Gets, Passes, Eofs, Catches, PeerWrites, PeerLeaves, Rises, Dials, Dies, Finishes,
     HostSame, BytesSame, Goes
<1>2. IsStream(j)' => IsStream(j)
  BY StreamWorker
<1>3. Quiet(j) => CountKept(j)
  BY <1>0 DEF Quiet, CountKept
<1>4. \A m \in {"RxTcp", "RxUdp"} : \A c, d : ~SentOk(Event(m, j, gen[j], c, d), j, gen[j])
  BY DEF SentOk, Event
<1>5. \A c : ~SentOk(StatusEvent(j, gen[j], c), j, gen[j])
  BY DEF SentOk, StatusEvent, Event
<1>6. ASSUME AtWork(j), IsStream(j) PROVE CountKept(j)
  <2>1. CASE Aside(j) \/ Ignored(j) \/ Gets(j) \/ PeerWrites(j) \/ PeerLeaves(j) \/ Dials(j) \/ Finishes(j)
    <3>1. Quiet(j)
      BY <2>1 DEF Aside, Ignored, Gets, PeerWrites, PeerLeaves, Dials, Finishes, Silent
    <3> QED
      BY <1>3, <3>1
  <2>2. CASE Answered(j)
    <3>1. req[1].msg \in Wants(j) /\ req[1].msg \in Datagrams
      BY <1>0, <2>2, WantsTaken DEF Answered, Datagrams
    <3> QED
      BY <1>0, <1>6, <3>1 DEF Orderly
  <2>3. CASE Passes(j)
    <3>1. Reports(j, Event("RxTcp", j, gen[j], "None", InHand(j)))
      BY <2>3 DEF Passes
    <3> QED
      BY <1>0, <1>4, <3>1, CountReports
  <2>4. CASE Catches(j)
    <3>1. Reports(j, Event("RxUdp", j, gen[j], "None", <<<<gen[j], psent[j] + 1>>>>))
      BY <2>4 DEF Catches
    <3> QED
      BY <1>0, <1>4, <3>1, CountReports
  <2>5. CASE Eofs(j) \/ Rises(j) \/ Dies(j)
    <3>1. PICK c : Reports(j, StatusEvent(j, gen[j], c))
      BY <2>5 DEF Eofs, Rises, Dies
    <3> QED
      BY <1>0, <1>5, <3>1, CountReports
  <2> QED
    BY <2>1, <2>2, <2>3, <2>4, <2>5
<1> QED
  BY <1>0, <1>1, <1>2, <1>6, SendOkStill

LEMMA SendOkBegun ==
    ASSUME OrderInv, NEW j \in Sock, WorkerStep(j), Begun(j)
    PROVE  SendOk(j)'
<1> SUFFICES ASSUME IsStream(j)' PROVE SendOk(j)'
  BY DEF SendOk
<1>0. Types /\ gen'[j] = gen[j] /\ sendoks'[j] = sendoks[j] /\ Orderly(j) /\ InTurn(j) /\ IsStream(j)
  BY StreamWorker DEF OrderInv, CardInv, WorkerStep, ChipStill, GhostsSame, Orderly
<1>1. TakesAsked(j) /\ req[1].msg \in DefinesGen /\ hostgot'[j] = << >> /\ txp'[j] = << >>
  BY DEF Begun
<1>2. req[1].msg \in Wants(j)
  BY <1>0, <1>1, WantsTaken
<1>3. Young(j)
  <2>1. req[1].msg # "OpenUdp"
    BY <1>0, <1>2 DEF Orderly, Datagrams
  <2>2. req[1].msg \in Openers \/ req[1].msg \in Ends
    BY <1>1, <2>1 DEF DefinesGen, Openers, Ends
  <2> QED
    BY <1>0, <1>2, <2>2 DEF Orderly, Young
<1>4. Untouched(j)
  BY <1>0, <1>3 DEF Orderly
<1>5. \A m \in Hears(j) : m[1] # "SendDone"
  BY <1>4 DEF Untouched
<1>6. Tally(evt, j, gen[j], 0, 0) /\ sendoks[j] = 0
  BY <1>0, <1>4, <1>5, TallyZero DEF Untouched
<1>7. CountKept(j)
  <2>1. CASE Quiet(j)
    BY <1>0, <1>6, <2>1 DEF Quiet, CountKept
  <2>2. CASE Reports(j, StatusEvent(j, gen[j], "Failed"))
    <3>1. ~SentOk(StatusEvent(j, gen[j], "Failed"), j, gen[j])
      BY DEF SentOk, StatusEvent, Event
    <3> QED
      BY <1>0, <2>2, <3>1, CountReports
  <2> QED
    BY <2>1, <2>2 DEF Begun, Silent
<1>8. Tally(evt', j, gen'[j], sendoks'[j], 0)
  BY <1>0, <1>6, <1>7 DEF CountKept
<1> QED
  BY <1>1, <1>8, SendOkNew

(* ::send: a SEND_OK is told when nothing is left pending.                 *)
LEMMA SendOkPushes ==
    ASSUME OrderInv, NEW j \in Sock, SendOk(j), WorkerStep(j), Pushes(j)
    PROVE  SendOk(j)'
<1> SUFFICES ASSUME IsStream(j)' PROVE SendOk(j)'
  BY DEF SendOk
<1>0. /\ Types /\ gen'[j] = gen[j] /\ sendoks'[j] = sendoks[j] /\ sendoks[j] \in Nat /\ Orderly(j) /\ IsStream(j)
      /\ hostgot[j] \in Seq(Nat) /\ txp[j] \in Seq(Nat) /\ Len(hostgot[j]) \in Nat /\ Len(txp[j]) \in Nat /\ AtWork(j)
  BY StreamWorker, SendOkTypes DEF OrderInv, CardInv, WorkerStep, ChipStill, GhostsSame, Pushes, Goes
<1>1. PICK x \in Nat :
            /\ Tally(evt, j, gen[j], sendoks[j], x)
            /\ Whole(x) <= Len(hostgot[j])
            /\ txp[j] # << >> => Whole(x) + TxLen <= Len(hostgot[j]) + Len(txp[j])
  BY <1>0 DEF SendOk
<1>2. PICK b \in Seq(Nat) :
        \E n \in 0 .. Len(b) :
            /\ \/ KeepsAsked(j) /\ b = txp[j] /\ b # << >>
               \/ TakesAsked(j) /\ req[1].msg = "SendTcp" /\ b = txp[j] \o req[1].data
            /\ hostgot'[j] = hostgot[j] \o SubSeq(b, 1, n)
            /\ txp'[j] = SubSeq(b, n + 1, Len(b))
            /\ IF n = Len(b) THEN Reports(j, Event("SendDone", j, gen[j], "None", << >>)) ELSE Silent(j)
  BY Zenon DEF Pushes
<1>3. PICK n \in 0 .. Len(b) :
        /\ \/ KeepsAsked(j) /\ b = txp[j] /\ b # << >>
           \/ TakesAsked(j) /\ req[1].msg = "SendTcp" /\ b = txp[j] \o req[1].data
        /\ hostgot'[j] = hostgot[j] \o SubSeq(b, 1, n)
        /\ txp'[j] = SubSeq(b, n + 1, Len(b))
        /\ IF n = Len(b) THEN Reports(j, Event("SendDone", j, gen[j], "None", << >>)) ELSE Silent(j)
  BY <1>2, Zenon
<1>4. Len(b) \in Nat /\ n \in Nat /\ n <= Len(b)
  BY LenProperties
<1>5. Len(hostgot'[j]) = Len(hostgot[j]) + n /\ Len(txp'[j]) = Len(b) - n
  <2>1. hostgot'[j] = hostgot[j] \o SubSeq(b, 1, n) /\ txp'[j] = SubSeq(b, n + 1, Len(b)) /\ hostgot[j] \in Seq(Nat)
    BY <1>0, <1>3
  <2>2. PICK h \in Seq(Nat) : h = hostgot[j]
    BY <2>1
  <2>3. Len(h \o SubSeq(b, 1, n)) = Len(h) + n /\ Len(SubSeq(b, n + 1, Len(b))) = Len(b) - n
    BY CountedPush
  <2> QED
    BY <2>1, <2>2, <2>3
<1>6. Whole(x) \in Nat /\ Whole(x + 1) = Whole(x) + TxLen /\ TxLen \in Nat \ {0}
  BY WholeFacts
<1>7. Whole(x) + TxLen <= Len(hostgot[j]) + Len(b)
  <2>1. CASE KeepsAsked(j) /\ b = txp[j] /\ b # << >>
    BY <1>1, <2>1
  <2>2. CASE TakesAsked(j) /\ req[1].msg = "SendTcp" /\ b = txp[j] \o req[1].data
    <3>1. 1 \in Current(j)
      BY <2>2 DEF TakesAsked
    <3>2. Len(req[1].data) = TxLen /\ req[1].data \in Seq(Nat)
      BY <1>0, <2>2, <3>1, RingFacts DEF Orderly, Requested
    <3>3. Len(b) = Len(txp[j]) + TxLen
      BY <1>0, <2>2, <3>2, ConcatProperties
    <3>4. PICK h \in Nat, p \in Nat : h = Len(hostgot[j]) /\ p = Len(txp[j])
      BY <1>0
    <3>5. Whole(x) + TxLen <= h + (p + TxLen)
      <4>1. Whole(x) <= h
        BY <1>1, <3>4
      <4> QED
        BY <1>6, <4>1
    <3> QED
      BY <3>3, <3>4, <3>5
  <2> QED
    BY <1>3, <2>1, <2>2
<1>8. PICK h \in Nat, l \in Nat : h = Len(hostgot[j]) /\ l = Len(b)
  BY <1>0, <1>4
<1>9. Len(hostgot'[j]) = h + n /\ Len(txp'[j]) = l - n /\ Whole(x) <= h /\ Whole(x) + TxLen <= h + l
  BY <1>1, <1>5, <1>7, <1>8
<1>10. Whole(x) <= h + n /\ (h + n) + (l - n) = h + l /\ n <= l
  BY <1>4, <1>6, <1>8, <1>9
<1>11. CASE Tally(evt', j, gen[j], sendoks[j], x)
  BY <1>0, <1>9, <1>10, <1>11 DEF SendOk
<1>12. CASE n = Len(b) /\ Tally(evt', j, gen[j], sendoks[j], x + 1)
  <2>1. Len(txp'[j]) = 0
    BY <1>8, <1>9, <1>12
  <2>2. txp'[j] = << >>
    <3>1. txp'[j] \in Seq(Nat)
      BY <1>0, <1>3, CountedPush
    <3> QED
      BY <2>1, <3>1, EmptySeq
  <2>3. Whole(x + 1) <= Len(hostgot'[j]) /\ x + 1 \in Nat
    BY <1>6, <1>8, <1>9, <1>12
  <2> QED
    BY <1>0, <1>12, <2>2, <2>3 DEF SendOk
<1>13. Quiet(j) => Tally(evt', j, gen[j], sendoks[j], x)
  BY <1>0, <1>1 DEF Quiet
<1>14. Tells(j, Event("SendDone", j, gen[j], "None", << >>)) => Tally(evt', j, gen[j], sendoks[j], x + 1)
  <2> DEFINE e == Event("SendDone", j, gen[j], "None", << >>)
  <2> HAVE Tells(j, e)
  <2>1. Once01(SentOk(e, j, gen[j])) = 1
    BY DEF Once01, SentOk, Event
  <2> HIDE DEF e
  <2>2. Tally(evt', j, gen[j], sendoks[j], x + Once01(SentOk(e, j, gen[j])))
    BY <1>0, <1>1 DEF Tells
  <2> QED
    BY <2>1, <2>2
<1> HIDE DEF Quiet, Tells
<1> QED
  BY <1>3, <1>11, <1>12, <1>13, <1>14 DEF Reports, Silent

SendInv == OrderInv /\ \A j \in Sock : SendOk(j)

LEMMA SendStay == SendInv /\ [Next]_vars => SendInv'
<1> SUFFICES ASSUME SendInv, [Next]_vars PROVE SendInv'
  OBVIOUS
<1>1. OrderInv /\ OrderInv' /\ CardInv /\ RingClear
  BY OrderStay DEF SendInv, OrderInv
<1>2. ASSUME NEW j \in Sock PROVE SendOk(j)'
  <2>1. SendOk(j) /\ Orderly(j) /\ (ChipStep(j) \/ WorkerStep(j))
    BY <1>1, Steps DEF SendInv, OrderInv
  <2>2. CASE ChipStep(j)
    BY <1>1, <2>1, <2>2, SendOkChip
  <2>3. CASE WorkerStep(j)
    <3>1. WorkerMove(j)
      BY <2>3 DEF WorkerStep
    <3> HIDE DEF WorkerMove
    <3> QED
      BY <1>1, <2>1, <2>3, <3>1, SendOkAside, SendOkBegun, SendOkPushes DEF WorkerMove, RequestMove, PollMove
  <2> QED
    BY <2>1, <2>2, <2>3
<1> QED
  BY <1>1, <1>2 DEF SendInv

LEMMA SendSafe == SendInv => SendOkAfterSent
<1> SUFFICES ASSUME SendInv, NEW j \in Sock, sr[j] \in Connected, ~Reopening(j), wgen[j] = gen[j]
             PROVE  sendoks[j] * TxLen <= Len(hostgot[j])
  BY DEF SendOkAfterSent
<1>1. Types /\ sendoks[j] \in Nat /\ Len(evt) \in Nat /\ Len(hostgot[j]) \in Nat
  BY SendOkTypes, RingFacts DEF SendInv, OrderInv, CardInv
<1>2. IsStream(j) /\ AtWork(j)
  BY DEF IsStream, AtWork, Opening, Reopening
<1>3. PICK x \in Nat : Tally(evt, j, gen[j], sendoks[j], x) /\ Whole(x) <= Len(hostgot[j])
  BY <1>2 DEF SendInv, SendOk
<1>4. sendoks[j] <= x
  <2>1. PICK f : Tallied(f, evt, j, gen[j], sendoks[j], x)
    BY <1>3 DEF Tally
  <2>2. 0 \in 0 .. Len(evt) /\ Len(evt) \in 0 .. Len(evt) /\ 0 <= Len(evt)
    BY <1>1
  <2> QED
    BY <2>1, <2>2 DEF Tallied
<1>5. Whole(sendoks[j]) <= Whole(x) /\ Whole(sendoks[j]) \in Nat /\ Whole(x) \in Nat
  BY <1>1, <1>4, WholeFacts
<1> QED
  BY <1>1, <1>3, <1>5 DEF Whole

(* A connected guest never counts more SEND_OKs than whole SENDs the host  *)
(* has had of this connection: flush_tcp_tx tells SendDone when nothing is *)
(* left pending, and apply_event drops what an earlier connection sent.    *)
THEOREM SendOkHonest == Spec => []SendOkAfterSent
<1>1. Init => SendInv
  BY OrderStart, StartFacts DEF SendInv, SendOk
<1> QED
  BY <1>1, SendStay, SendSafe, PTL DEF Spec

-----------------------------------------------------------------------------
(* Bytes from the peer: they number on from t, those that came back with a *)
(* restore apart, and go from the host through the worker's hand and the   *)
(* event ring into the guest's buffer.                                     *)

Runs(s, g, t) == \A k \in 1 .. Len(s) : t + k > 0 => s[k] = <<g, t + k>>

RxOk(g, t, buf, ring, hand, in) ==
    /\ Runs(buf, g, t)
    /\ Runs(ring, g, t + Len(buf))
    /\ Runs(hand, g, t + Len(buf) + Len(ring))
    /\ Runs(in, g, t + Len(buf) + Len(ring) + Len(hand))

RxEnd(t, buf, ring, hand, in) == t + Len(buf) + Len(ring) + Len(hand) + Len(in)

LEMMA RunsConcat ==
    ASSUME NEW a \in Seq(Cell), NEW b \in Seq(Cell), NEW g, NEW t \in Int
    PROVE  /\ a \o b \in Seq(Cell) /\ Len(a \o b) = Len(a) + Len(b) /\ Len(a) \in Nat /\ Len(b) \in Nat
           /\ Runs(a \o b, g, t) <=> Runs(a, g, t) /\ Runs(b, g, t + Len(a))
<1> DEFINE c == a \o b
<1>1. Len(a) \in Nat /\ Len(b) \in Nat
  BY LenProperties
<1>2. c \in Seq(Cell) /\ Len(c) = Len(a) + Len(b)
      /\ \A k \in 1 .. Len(a) + Len(b) : c[k] = IF k <= Len(a) THEN a[k] ELSE b[k - Len(a)]
  BY ConcatProperties
<1> HIDE DEF c
<1>3. ASSUME Runs(c, g, t) PROVE Runs(a, g, t)
  <2> SUFFICES ASSUME NEW k \in 1 .. Len(a), t + k > 0 PROVE a[k] = <<g, t + k>>
    BY DEF Runs
  <2>1. k \in 1 .. Len(c) /\ c[k] = a[k]
    BY <1>1, <1>2
  <2> QED
    BY <1>3, <2>1 DEF Runs
<1>4. ASSUME Runs(c, g, t) PROVE Runs(b, g, t + Len(a))
  <2> SUFFICES ASSUME NEW k \in 1 .. Len(b), t + Len(a) + k > 0 PROVE b[k] = <<g, t + Len(a) + k>>
    BY DEF Runs
  <2>1. k + Len(a) \in 1 .. Len(c) /\ c[k + Len(a)] = b[k] /\ t + (k + Len(a)) = t + Len(a) + k
    <3>1. k + Len(a) \in 1 .. Len(a) + Len(b) /\ ~(k + Len(a) <= Len(a)) /\ (k + Len(a)) - Len(a) = k
      BY <1>1
    <3> QED
      BY <1>1, <1>2, <3>1
  <2> QED
    BY <1>4, <2>1 DEF Runs
<1>5. ASSUME Runs(a, g, t), Runs(b, g, t + Len(a)), NEW k \in 1 .. Len(c), t + k > 0 PROVE c[k] = <<g, t + k>>
  <2>1. CASE k <= Len(a)
    BY <1>1, <1>2, <1>5, <2>1 DEF Runs
  <2>2. CASE ~(k <= Len(a))
    <3>1. k - Len(a) \in 1 .. Len(b) /\ t + Len(a) + (k - Len(a)) = t + k
      BY <1>1, <1>2, <2>2
    <3>2. c[k] = b[k - Len(a)]
      BY <1>1, <1>2, <2>2
    <3> QED
      BY <1>5, <3>1, <3>2 DEF Runs
  <2> QED
    BY <2>1, <2>2
<1>6. Runs(c, g, t) <=> Runs(a, g, t) /\ Runs(b, g, t + Len(a))
  BY <1>3, <1>4, <1>5 DEF Runs
<1> QED
  BY <1>1, <1>2, <1>6 DEF c

(* ::recv takes bytes from the host.                                       *)
LEMMA RxTakes ==
    ASSUME NEW g, NEW t \in Int, NEW buf \in Seq(Cell), NEW ring \in Seq(Cell), NEW hand \in Seq(Cell), NEW in \in Seq(Cell),
           RxOk(g, t, buf, ring, << >>, hand \o in)
    PROVE  /\ RxOk(g, t, buf, ring, hand, in)
           /\ RxEnd(t, buf, ring, hand, in) = RxEnd(t, buf, ring, << >>, hand \o in)
<1>1. Len(buf) \in Nat /\ Len(ring) \in Nat /\ Len(hand) \in Nat /\ Len(in) \in Nat /\ Len(<< >>) = 0
  BY LenProperties, EmptySeq
<1>2. PICK u \in Int : u = t + Len(buf) + Len(ring)
  BY <1>1
<1>3. Runs(hand \o in, g, u + Len(<< >>)) /\ u + Len(<< >>) = u
  BY <1>1, <1>2 DEF RxOk
<1>4. Runs(hand, g, u) /\ Runs(in, g, u + Len(hand)) /\ Len(hand \o in) = Len(hand) + Len(in)
  BY <1>3, RunsConcat
<1>5. RxEnd(t, buf, ring, hand, in) = RxEnd(t, buf, ring, << >>, hand \o in)
  BY <1>1, <1>4 DEF RxEnd
<1> QED
  BY <1>2, <1>4, <1>5 DEF RxOk

(* The worker posts them.                                                  *)
LEMMA RxPosts ==
    ASSUME NEW g, NEW t \in Int, NEW buf \in Seq(Cell), NEW ring \in Seq(Cell), NEW hand \in Seq(Cell), NEW in \in Seq(Cell),
           RxOk(g, t, buf, ring, hand, in)
    PROVE  /\ RxOk(g, t, buf, ring \o hand, << >>, in)
           /\ RxEnd(t, buf, ring \o hand, << >>, in) = RxEnd(t, buf, ring, hand, in)
<1>1. Len(buf) \in Nat /\ Len(ring) \in Nat /\ Len(hand) \in Nat /\ Len(in) \in Nat /\ Len(<< >>) = 0
  BY LenProperties, EmptySeq
<1>2. PICK u \in Int : u = t + Len(buf)
  BY <1>1
<1>3. Runs(ring, g, u) /\ Runs(hand, g, u + Len(ring)) /\ Runs(in, g, u + Len(ring) + Len(hand))
  BY <1>2 DEF RxOk
<1>4. Runs(ring \o hand, g, u) /\ Len(ring \o hand) = Len(ring) + Len(hand)
  BY <1>3, RunsConcat
<1>5. u + Len(ring \o hand) + Len(<< >>) = u + Len(ring) + Len(hand)
  BY <1>1, <1>4
<1>6. Runs(<< >>, g, u + Len(ring \o hand))
  BY <1>1 DEF Runs
<1>7. RxEnd(t, buf, ring \o hand, << >>, in) = RxEnd(t, buf, ring, hand, in)
  BY <1>1, <1>4 DEF RxEnd
<1>8. Runs(in, g, u + Len(ring \o hand) + Len(<< >>))
  BY <1>3, <1>5
<1> QED
  BY <1>2, <1>4, <1>6, <1>7, <1>8 DEF RxOk

(* apply_event puts them in the buffer.                                    *)
LEMMA RxApplies ==
    ASSUME NEW g, NEW t \in Int, NEW buf \in Seq(Cell), NEW d \in Seq(Cell), NEW ring \in Seq(Cell), NEW hand \in Seq(Cell),
           NEW in \in Seq(Cell), RxOk(g, t, buf, d \o ring, hand, in)
    PROVE  /\ RxOk(g, t, buf \o d, ring, hand, in)
           /\ RxEnd(t, buf \o d, ring, hand, in) = RxEnd(t, buf, d \o ring, hand, in)
<1>1. Len(buf) \in Nat /\ Len(ring) \in Nat /\ Len(hand) \in Nat /\ Len(in) \in Nat /\ Len(d) \in Nat
  BY LenProperties
<1>2. PICK u \in Int : u = t + Len(buf)
  BY <1>1
<1>3. Runs(buf, g, t) /\ Runs(d \o ring, g, u) /\ Runs(hand, g, u + Len(d \o ring)) /\ Runs(in, g, u + Len(d \o ring) + Len(hand))
  BY <1>2 DEF RxOk
<1>4. Runs(d, g, u) /\ Runs(ring, g, u + Len(d)) /\ Len(d \o ring) = Len(d) + Len(ring)
  BY <1>3, RunsConcat
<1>5. Runs(buf \o d, g, t) /\ Len(buf \o d) = Len(buf) + Len(d)
  BY <1>2, <1>3, <1>4, RunsConcat
<1>6. t + Len(buf \o d) = u + Len(d) /\ u + Len(d \o ring) = u + Len(d) + Len(ring)
  BY <1>1, <1>2, <1>4, <1>5
<1>7. RxEnd(t, buf \o d, ring, hand, in) = RxEnd(t, buf, d \o ring, hand, in)
  BY <1>1, <1>4, <1>5 DEF RxEnd
<1> QED
  BY <1>3, <1>4, <1>5, <1>6, <1>7 DEF RxOk

(* The guest reads.                                                        *)
WithoutFirst(b, buf, n) ==
    /\ n \in 1 .. Len(buf) /\ b \in Seq(Cell) /\ Len(b) = Len(buf) - n
    /\ \A k \in 1 .. Len(b) : b[k] = buf[n + k]

LEMMA RxReads ==
    ASSUME NEW g, NEW t \in Int, NEW buf \in Seq(Cell), NEW ring \in Seq(Cell), NEW hand \in Seq(Cell), NEW in \in Seq(Cell),
           RxOk(g, t, buf, ring, hand, in), NEW n, NEW b, WithoutFirst(b, buf, n), NEW u, u = t + n
    PROVE  /\ RxOk(g, u, b, ring, hand, in)
           /\ RxEnd(u, b, ring, hand, in) = RxEnd(t, buf, ring, hand, in)
<1>0. n \in 1 .. Len(buf) /\ b \in Seq(Cell) /\ Len(b) = Len(buf) - n /\ \A k \in 1 .. Len(b) : b[k] = buf[n + k]
  BY DEF WithoutFirst
<1>1. Len(buf) \in Nat /\ Len(ring) \in Nat /\ Len(hand) \in Nat /\ Len(in) \in Nat /\ n \in Nat /\ u \in Int
  BY <1>0, LenProperties
<1>2. u + Len(b) = t + Len(buf)
  BY <1>0, <1>1
<1>3. Runs(b, g, u)
  <2> SUFFICES ASSUME NEW k \in 1 .. Len(b), u + k > 0 PROVE b[k] = <<g, u + k>>
    BY DEF Runs
  <2>1. n + k \in 1 .. Len(buf) /\ t + (n + k) = u + k
    BY <1>0, <1>1
  <2>2. buf[n + k] = <<g, t + (n + k)>>
    BY <2>1 DEF RxOk, Runs
  <2> QED
    BY <1>0, <2>1, <2>2
<1> QED
  BY <1>2, <1>3 DEF RxOk, RxEnd

(* The peer writes.                                                        *)
LEMMA RxGrows ==
    ASSUME NEW g \in Nat, NEW t \in Int, NEW buf \in Seq(Cell), NEW ring \in Seq(Cell), NEW hand \in Seq(Cell), NEW in \in Seq(Cell),
           RxOk(g, t, buf, ring, hand, in), NEW p \in Nat, RxEnd(t, buf, ring, hand, in) = p
    PROVE  /\ RxOk(g, t, buf, ring, hand, Append(in, <<g, p + 1>>))
           /\ RxEnd(t, buf, ring, hand, Append(in, <<g, p + 1>>)) = p + 1
<1>1. Len(buf) \in Nat /\ Len(ring) \in Nat /\ Len(hand) \in Nat /\ Len(in) \in Nat /\ <<g, p + 1>> \in Cell
  BY LenProperties DEF Cell
<1> DEFINE more == Append(in, <<g, p + 1>>)
<1>2. Len(more) = Len(in) + 1 /\ (\A k \in 1 .. Len(in) : more[k] = in[k]) /\ more[Len(in) + 1] = <<g, p + 1>>
  BY <1>1, AppendProperties
<1> HIDE DEF more
<1>3. PICK u \in Int : u = t + Len(buf) + Len(ring) + Len(hand)
  BY <1>1
<1>4. Runs(in, g, u) /\ p = u + Len(in)
  BY <1>3 DEF RxOk, RxEnd
<1>5. Runs(more, g, u)
  <2> SUFFICES ASSUME NEW k \in 1 .. Len(more), u + k > 0 PROVE more[k] = <<g, u + k>>
    BY DEF Runs
  <2>1. CASE k \in 1 .. Len(in)
    BY <1>2, <1>4, <2>1 DEF Runs
  <2>2. CASE k = Len(in) + 1
    <3>1. u + k = p + 1
      BY <1>1, <1>4, <2>2
    <3> QED
      BY <1>2, <2>2, <3>1
  <2> QED
    BY <1>1, <1>2, <2>1, <2>2
<1>6. RxEnd(t, buf, ring, hand, more) = p + 1
  BY <1>1, <1>2, <1>3, <1>4 DEF RxEnd
<1> QED
  BY <1>3, <1>5, <1>6 DEF RxOk, more

(* The connection goes.                                                    *)
LEMMA RxDrops ==
    ASSUME NEW g, NEW t, NEW buf, NEW ring, NEW hand, NEW in, RxOk(g, t, buf, ring, hand, in)
    PROVE  RxOk(g, t, buf, ring, hand, << >>)
BY EmptySeq DEF RxOk, Runs

(* Nothing has come.                                                       *)
LEMMA RxNone ==
    ASSUME NEW g, NEW t \in Int, NEW buf \in Seq(Cell), t + Len(buf) = 0
    PROVE  RxOk(g, t, buf, << >>, << >>, << >>) /\ RxEnd(t, buf, << >>, << >>, << >>) = 0
<1>1. Len(buf) \in Nat /\ Len(<< >>) = 0
  BY LenProperties, EmptySeq
<1>2. \A k \in 1 .. Len(buf) : ~(t + k > 0)
  BY <1>1
<1> QED
  BY <1>1, <1>2 DEF RxOk, RxEnd, Runs

(* The bytes at the host that are of this generation.                      *)
Waiting(j) == IF AtWork(j) THEN kin[j] ELSE << >>

Rx(j) ==
    IsStream(j) =>
        /\ RxOk(gen[j], taken[j], rxbuf[j], InRing(j), InHand(j), Waiting(j))
        /\ AtWork(j) /\ wfd[j] \in HostStream =>
              RxEnd(taken[j], rxbuf[j], InRing(j), InHand(j), Waiting(j)) = psent[j]

LEMMA RxTypes ==
    ASSUME Types, NEW j \in Sock
    PROVE  /\ gen[j] \in Nat /\ taken[j] \in Int /\ rxbuf[j] \in Seq(Cell) /\ psent[j] \in Nat /\ kin[j] \in Seq(Byte)
           /\ InRing(j) \in Seq(Cell) /\ InHand(j) \in Seq(Cell) /\ Waiting(j) \in Seq(Cell) /\ kin[j] \in Seq(Cell)
           /\ InRing(j) \in Seq(Byte) /\ InHand(j) \in Seq(Byte)
<1>1. gen[j] \in Nat /\ taken[j] \in Int /\ rxbuf[j] \in Seq(Cell) /\ psent[j] \in Nat /\ kin[j] \in Seq(Byte)
  BY RingFacts DEF Types, ChipTypes, WorkerTypes
<1>2. InRing(j) \in Seq(Byte) /\ InHand(j) \in Seq(Byte)
  BY WayLength DEF WayOk
<1> QED
  BY <1>1, <1>2, ByteCells DEF Waiting

(* A stream is told no datagrams, and has no UDP socket on the host.       *)
LEMMA StreamFacts ==
    ASSUME CardInv, NEW j \in Sock, IsStream(j)
    PROVE  /\ \A k \in Told(j) : evt[k].evt \in {"RxTcp", "Status", "SendDone"}
           /\ AtWork(j) => wst[j] # "UDP"
           /\ AtWork(j) => (wfd[j] \in HostStream <=> wst[j] # "CLOSED")
           /\ sr[j] \notin Headed /\ ~Opening(j)
<1>1. ProtocolOk(j) /\ HostOk(j) /\ PhaseOk(j)
  BY PhaseSays DEF CardInv
<1>2. ~Opening(j) /\ sr[j] \notin Headed
  BY <1>1 DEF IsStream, PhaseOk
<1>3. Phase(j) = "stream"
  BY <1>2, PhaseCases
<1>4. \A k \in Told(j) : evt[k].evt \in {"RxTcp", "Status", "SendDone"}
  BY <1>1, <1>3, PhaseCases DEF ProtocolOk, Heard
<1>5. AtWork(j) => wst[j] # "UDP"
  BY <1>1, <1>3, PhaseCases DEF ProtocolOk, Working
<1> QED
  BY <1>1, <1>2, <1>4, <1>5 DEF HostOk

(* Nothing in the ring.                                                    *)
LEMMA RingNone ==
    ASSUME Types, NEW j \in Sock, \A k \in Told(j) : evt[k].evt # "RxTcp"
    PROVE  InRing(j) = << >>
<1>1. \A k \in 1 .. Len(evt) : evt[k].evt = "RxTcp" /\ evt[k].sock = j => evt[k].gen # gen[j]
  BY DEF Told
<1>2. evt \in Seq(Happened)
  BY RingFacts
<1> QED
  BY <1>1, <1>2, CarriedNone DEF InRing

LEMMA RingNoneNext ==
    ASSUME Types', NEW j \in Sock, Told(j)' = {}
    PROVE  InRing(j)' = << >>
<1>1. \A k \in 1 .. Len(evt') : evt'[k].evt = "RxTcp" /\ evt'[k].sock = j => evt'[k].gen # gen'[j]
  BY DEF Told
<1>2. evt' \in Seq(Happened)
  BY RingFactsNext
<1> QED
  BY <1>1, <1>2, CarriedNone DEF InRing

(* Only an established connection has bytes in the worker's hand, and only *)
(* while there is room for them in the event ring.                         *)
LEMMA HandFacts ==
    ASSUME CardInv, RingClear, NEW j \in Sock, InHand(j) # << >>
    PROVE  AtWork(j) /\ wst[j] = "ESTABLISHED" /\ Len(evt) < EvtCap
<1>1. HostState
  BY DEF CardInv
<1>2. wi = j /\ AtWork(j) /\ wgot # << >>
  BY DEF InHand, AtWork
<1>3. wpc = "post"
  BY <1>1, <1>2 DEF HostState
<1> QED
  BY <1>1, <1>2, <1>3 DEF HostState, RingClear

(* Nothing of it has changed.                                              *)
LEMMA RxStill ==
    ASSUME NEW j \in Sock, Rx(j), gen'[j] = gen[j], IsStream(j)' => IsStream(j),
           taken'[j] = taken[j], rxbuf'[j] = rxbuf[j], InRing(j)' = InRing(j), InHand(j)' = InHand(j), Waiting(j)' = Waiting(j),
           AtWork(j)' /\ wfd'[j] \in HostStream /\ IsStream(j)' => AtWork(j) /\ wfd[j] \in HostStream /\ psent'[j] = psent[j]
    PROVE  Rx(j)'
BY DEF Rx

LEMMA RxChip ==
    ASSUME OrderInv, OrderInv', NEW j \in Sock, Rx(j), ChipStep(j)
    PROVE  Rx(j)'
<1>0. /\ CardInv /\ Types /\ Types' /\ ChipMove(j) /\ HostStill(j) /\ kin'[j] = kin[j] /\ psent'[j] = psent[j] /\ RingClear
      /\ Orderly(j) /\ HostClear(j) /\ wi' = wi /\ wgot' = wgot
  BY DEF OrderInv, CardInv, ChipStep
<1> HIDE DEF ChipMove
<1> SUFFICES ASSUME IsStream(j)' PROVE Rx(j)'
  BY DEF Rx
<1>1. gen'[j] = gen[j] => /\ AtWork(j)' <=> AtWork(j)
                          /\ InHand(j)' = InHand(j) /\ Waiting(j)' = Waiting(j) /\ wfd'[j] = wfd[j]
  BY <1>0 DEF AtWork, InHand, Waiting, HostStill
<1>2. CASE Ended(j)
  <2>1. ~AtWork(j)' /\ Hears(j)' = {} /\ Wants(j)' \subseteq Ends
    BY <1>2 DEF Ended, Anew, Hears, Wants
  <2> QED
    BY <1>2, <2>1 DEF Ended, IsStream, Unconnected, Connected, Openers, Ends
<1>3. CASE Reborn(j)
  <2>1. ~AtWork(j)' /\ Told(j)' = {} /\ taken'[j] + Len(rxbuf'[j]) = 0
    BY <1>3 DEF Reborn, Anew
  <2>2. InRing(j)' = << >> /\ InHand(j)' = << >> /\ Waiting(j)' = << >>
    BY <1>0, <2>1, RingNoneNext DEF InHand, Waiting, AtWork
  <2>3. taken'[j] \in Int /\ rxbuf'[j] \in Seq(Cell)
    BY <1>0 DEF Types, ChipTypes
  <2>4. RxOk(gen'[j], taken'[j], rxbuf'[j], << >>, << >>, << >>)
    BY <2>1, <2>3, RxNone
  <2> QED
    BY <2>1, <2>2, <2>4 DEF Rx
<1>4. CASE Opens(j)
  <2>1. gen'[j] = gen[j] /\ Opening(j) /\ Quiet(j) /\ rxbuf'[j] = << >> /\ taken'[j] = 0
    BY <1>4 DEF Opens
  <2>2. Hears(j) = {} /\ PhaseOk(j) /\ HostOk(j)
    BY <1>0, <2>1, PhaseSays DEF Orderly
  <2>3. Told(j) = {}
    BY <2>2 DEF Hears
  <2>4. InRing(j)' = << >>
    BY <1>0, <2>1, <2>3, RingNone DEF Quiet
  <2>5. AtWork(j) => wst[j] = "CLOSED"
    BY <2>1, <2>2 DEF PhaseOk
  <2>6. InHand(j)' = << >> /\ Waiting(j)' = << >>
    BY <1>0, <1>1, <2>1, <2>5, HandFacts DEF HostClear, Waiting
  <2>7. ~(AtWork(j)' /\ wfd'[j] \in HostStream)
    BY <1>1, <2>1, <2>2, <2>5 DEF HostOk
  <2>8. taken'[j] \in Int /\ rxbuf'[j] \in Seq(Cell) /\ taken'[j] + Len(rxbuf'[j]) = 0
    BY <1>0, <2>1, EmptySeq DEF Types, ChipTypes
  <2>9. RxOk(gen'[j], taken'[j], rxbuf'[j], << >>, << >>, << >>)
    BY <2>8, RxNone
  <2> QED
    BY <2>4, <2>6, <2>7, <2>9 DEF Rx
<1>5. ASSUME ~Ended(j), ~Reborn(j), ~Opens(j) PROVE IsStream(j) /\ gen'[j] = gen[j]
  BY <1>0, <1>5, StreamChip
<1>6. CASE Rest(j) \/ Asks(j) \/ Puts(j)
  <2>1. gen'[j] = gen[j] /\ Quiet(j) /\ rxbuf'[j] = rxbuf[j] /\ taken'[j] = taken[j]
    BY <1>6 DEF Rest, Asks, Puts, GoesOn, GhostsSame
  <2>2. InRing(j)' = InRing(j)
    BY <2>1 DEF Quiet
  <2> QED
    BY <1>0, <1>1, <1>2, <1>3, <1>4, <1>5, <2>1, <2>2, RxStill
<1>7. CASE Frames(j)
  <2>1. sr[j] \in Headed
    BY <1>7 DEF Frames, Headed
  <2> QED
    BY <1>0, <1>2, <1>3, <1>4, <1>5, <2>1, StreamFacts
<1>8. CASE Reads(j) /\ IsStream(j)
  <2>1. gen'[j] = gen[j] /\ Quiet(j)
    BY <1>8 DEF Reads, GoesOn
  <2>2. InRing(j)' = InRing(j)
    BY <2>1 DEF Quiet
  <2>3. PICK n \in 1 .. Len(rxbuf[j]) : rxbuf'[j] = ButFirstN(rxbuf[j], n) /\ taken'[j] = taken[j] + n
    BY <1>8 DEF Reads
  <2>4. PICK buf \in Seq(Cell) : buf = rxbuf[j]
    BY <1>0, RxTypes
  <2>5. n \in 1 .. Len(buf) /\ rxbuf'[j] = ButFirstN(buf, n)
    BY <2>3, <2>4
  <2>6. /\ ButFirstN(buf, n) \in Seq(Cell) /\ Len(ButFirstN(buf, n)) = Len(buf) - n
        /\ \A k \in 1 .. Len(ButFirstN(buf, n)) : ButFirstN(buf, n)[k] = buf[n + k]
    <3>1. Len(buf) \in Nat /\ n \in Nat /\ n <= Len(buf)
      BY <2>5, LenProperties
    <3>2. n + 1 \in 1 .. Len(buf) + 1 /\ Len(buf) \in (n + 1) - 1 .. Len(buf)
      BY <3>1
    <3>3. ButFirstN(buf, n) = SubSeq(buf, n + 1, Len(buf))
      BY DEF ButFirstN
    <3>4. /\ ButFirstN(buf, n) \in Seq(Cell) /\ Len(ButFirstN(buf, n)) = Len(buf) - (n + 1) + 1
          /\ \A k \in 1 .. Len(buf) - (n + 1) + 1 : ButFirstN(buf, n)[k] = buf[(n + 1) + k - 1]
      BY <3>2, <3>3, SubSeqProperties
    <3>5. Len(buf) - (n + 1) + 1 = Len(buf) - n /\ \A k \in 1 .. Len(buf) - n : (n + 1) + k - 1 = n + k
      BY <3>1
    <3> QED
      BY <3>4, <3>5
  <2>7. RxOk(gen[j], taken[j], buf, InRing(j), InHand(j), Waiting(j))
    BY <1>8, <2>4 DEF Rx
  <2>8. /\ RxOk(gen[j], taken[j] + n, ButFirstN(buf, n), InRing(j), InHand(j), Waiting(j))
        /\ RxEnd(taken[j] + n, ButFirstN(buf, n), InRing(j), InHand(j), Waiting(j))
              = RxEnd(taken[j], buf, InRing(j), InHand(j), Waiting(j))
    <3>1. PICK b \in Seq(Cell) : b = ButFirstN(buf, n)
      BY <2>6
    <3>2. WithoutFirst(b, buf, n)
      BY <2>5, <2>6, <3>1 DEF WithoutFirst
    <3>3. taken[j] \in Int /\ InRing(j) \in Seq(Cell) /\ InHand(j) \in Seq(Cell) /\ Waiting(j) \in Seq(Cell)
      BY <1>0, RxTypes
    <3>4. PICK t \in Int, ring \in Seq(Cell), hand \in Seq(Cell), in \in Seq(Cell) :
            t = taken[j] /\ ring = InRing(j) /\ hand = InHand(j) /\ in = Waiting(j)
      BY <3>3
    <3>5. RxOk(gen[j], t, buf, ring, hand, in)
      BY <2>7, <3>4
    <3>6. PICK u \in Int : u = t + n
      BY <3>4, <2>3
    <3>7. RxOk(gen[j], u, b, ring, hand, in)
      BY <3>2, <3>5, <3>6, RxReads
    <3>8. RxEnd(u, b, ring, hand, in) = RxEnd(t, buf, ring, hand, in)
      <4>1. Len(b) \in Nat /\ Len(buf) \in Nat /\ n \in Nat /\ Len(b) = Len(buf) - n
        BY <2>3, <2>4, <3>2, LenProperties DEF WithoutFirst
      <4>2. u + Len(b) = t + Len(buf)
        BY <3>6, <4>1
      <4> QED
        BY <4>2 DEF RxEnd
    <3> QED
      BY <3>1, <3>4, <3>6, <3>7, <3>8
  <2> QED
    BY <1>0, <1>1, <1>8, <2>1, <2>2, <2>3, <2>4, <2>5, <2>8 DEF Rx
<1>9. CASE Learns(j) /\ IsStream(j)
  <2>1. PICK e \in Happened :
          /\ Sees(j, e)
          /\ e.evt = "RxTcp" => rxbuf'[j] = rxbuf[j] \o e.data
    BY <1>9 DEF Learns
  <2>2. gen'[j] = gen[j] /\ Applies(j, e) /\ taken'[j] = taken[j] /\ (e.evt \in {"Status", "SendDone"} => rxbuf'[j] = rxbuf[j])
    BY <2>1 DEF Sees, GoesOn
  <2>3. 1 \in Told(j) /\ e = evt[1]
    BY <2>2 DEF Applies, TakesTold
  <2>4. e.sock = j /\ e.gen = gen[j] /\ e.evt \in {"RxTcp", "Status", "SendDone"}
    BY <1>0, <1>9, <2>3, StreamFacts DEF Told
  <2> DEFINE d == Carried(e, j, gen[j])
  <2>5. InRing(j) = d \o InRing(j)'
    BY <2>2 DEF Applies
  <2>6. d \in Seq(Cell) /\ InRing(j)' \in Seq(Cell)
    BY <1>0, CarriedType, WayLengthNext, ByteCells DEF WayOk
  <2>7. rxbuf'[j] = rxbuf[j] \o d
    <3>1. CASE e.evt = "RxTcp"
      BY <2>1, <2>4, <3>1 DEF Carried
    <3>2. CASE e.evt # "RxTcp"
      <4>1. rxbuf'[j] = rxbuf[j] /\ d = << >> /\ rxbuf[j] \in Seq(Cell)
        BY <1>0, <2>2, <2>4, <3>2, RxTypes DEF Carried
      <4> QED
        BY <4>1, ConcatEmptySeq
    <3> QED
      BY <3>1, <3>2
  <2> HIDE DEF d
  <2>8. RxOk(gen[j], taken[j], rxbuf[j], d \o InRing(j)', InHand(j), Waiting(j))
    BY <1>9, <2>5 DEF Rx
  <2>9. /\ RxOk(gen[j], taken[j], rxbuf[j] \o d, InRing(j)', InHand(j), Waiting(j))
        /\ RxEnd(taken[j], rxbuf[j] \o d, InRing(j)', InHand(j), Waiting(j))
              = RxEnd(taken[j], rxbuf[j], d \o InRing(j)', InHand(j), Waiting(j))
    BY <1>0, <2>6, <2>8, RxTypes, RxApplies
  <2> QED
    BY <1>0, <1>1, <1>9, <2>2, <2>5, <2>7, <2>9 DEF Rx
<1> QED
  BY <1>0, <1>2, <1>3, <1>4, <1>5, <1>6, <1>7, <1>8, <1>9 DEF ChipMove

(* News that carries no bytes leaves those in the ring as they are.        *)
LEMMA RingReported ==
    ASSUME Types, NEW j \in Sock, NEW e, Reports(j, e), e.evt # "RxTcp"
    PROVE  InRing(j)' = InRing(j)
<1>1. Carried(e, j, gen[j]) = << >> /\ InRing(j) \in Seq(Cell)
  BY RxTypes DEF Carried
<1>2. InRing(j)' = InRing(j) \/ InRing(j)' = InRing(j) \o << >>
  BY <1>1 DEF Reports, Tells, Quiet
<1> QED
  BY <1>1, <1>2, ConcatEmptySeq

(* The worker, when it has no bytes from the peer to do with.              *)
LEMMA RxAside ==
    ASSUME OrderInv, NEW j \in Sock, Rx(j), WorkerStep(j),
           \/ Aside(j) \/ Ignored(j) \/ Answered(j) \/ Eofs(j) \/ PeerLeaves(j) \/ Rises(j) \/ Dials(j) \/ Pushes(j)
    PROVE  Rx(j)'
<1>0. Types /\ HostOk(j) /\ ChipStill(j)
  BY PhaseSays DEF OrderInv, CardInv, WorkerStep
<1>1. gen'[j] = gen[j] /\ taken'[j] = taken[j] /\ rxbuf'[j] = rxbuf[j]
  BY <1>0 DEF ChipStill, GhostsSame
<1>2. IsStream(j)' => IsStream(j)
  BY StreamWorker
<1>3. \A c, d : /\ StatusEvent(j, gen[j], c).evt # "RxTcp"
                /\ Event("SendDone", j, gen[j], c, d).evt # "RxTcp"
  BY DEF StatusEvent, Event
<1> DEFINE Alike == /\ AtWork(j)' <=> AtWork(j)
                    /\ AtWork(j) => /\ kin'[j] = kin[j] /\ psent'[j] = psent[j] /\ InHand(j)' = InHand(j)
                                    /\ wfd'[j] \in HostStream => wfd[j] \in HostStream
<1>4. ASSUME Alike, InRing(j)' = InRing(j) PROVE Rx(j)'
  <2>1. InHand(j)' = InHand(j) /\ Waiting(j)' = Waiting(j)
    BY <1>1, <1>4 DEF InHand, Waiting, AtWork
  <2> QED
    BY <1>1, <1>2, <1>4, <2>1, RxStill
<1>5. CASE Aside(j) \/ Ignored(j) \/ PeerLeaves(j) \/ Dials(j)
  <2>1. Alike
    BY <1>5 DEF Aside, Ignored, PeerLeaves, Dials, HostSame, HandSame, HandEmpty, BytesSame, Goes
  <2>2. Quiet(j)
    BY <1>5 DEF Aside, Ignored, PeerLeaves, Dials, Silent
  <2> QED
    BY <1>4, <2>1, <2>2 DEF Quiet
<1>6. CASE Answered(j)
  <2>1. Alike
    BY <1>6 DEF Answered, HostSame, HandEmpty
  <2>2. \E c : Reports(j, Event("SendDone", j, gen[j], c, << >>))
    BY <1>6 DEF Answered
  <2> QED
    BY <1>0, <1>3, <1>4, <2>1, <2>2, RingReported
<1>7. CASE Rises(j) \/ Eofs(j)
  <2>1. Alike
    BY <1>0, <1>7 DEF Rises, Eofs, HandEmpty, BytesSame, Goes, HostOk
  <2>2. \E c : Reports(j, StatusEvent(j, gen[j], c))
    BY <1>7 DEF Rises, Eofs
  <2> QED
    BY <1>0, <1>3, <1>4, <2>1, <2>2, RingReported
<1>8. CASE Pushes(j)
  <2>1. Alike
    BY <1>8 DEF Pushes, HandEmpty, Goes
  <2>2. Silent(j) \/ Reports(j, Event("SendDone", j, gen[j], "None", << >>))
    BY <1>8, Zenon DEF Pushes
  <2> QED
    BY <1>0, <1>3, <1>4, <2>1, <2>2, RingReported DEF Silent, Quiet
<1> QED
  BY <1>5, <1>6, <1>7, <1>8

LEMMA RxBegun ==
    ASSUME OrderInv, OrderInv', NEW j \in Sock, WorkerStep(j), Begun(j)
    PROVE  Rx(j)'
<1>0. Types /\ Types' /\ ChipStill(j) /\ Orderly(j) /\ CardInv
  BY DEF OrderInv, CardInv, WorkerStep
<1> SUFFICES ASSUME IsStream(j)' PROVE Rx(j)'
  BY DEF Rx
<1>1. IsStream(j)
  BY StreamWorker
<1>2. /\ kin'[j] = << >> /\ psent'[j] = 0 /\ InHand(j)' = << >> /\ TakesAsked(j) /\ req[1].msg \in DefinesGen
      /\ gen'[j] = gen[j] /\ taken'[j] = taken[j] /\ rxbuf'[j] = rxbuf[j]
  BY <1>0 DEF Begun, HandEmpty, ChipStill, GhostsSame
<1>3. Young(j)
  <2>1. req[1].msg \in Wants(j)
    BY <1>0, <1>2, WantsTaken DEF Orderly
  <2>2. req[1].msg \in Openers \/ req[1].msg \in Ends \/ req[1].msg \in Datagrams
    BY <1>2 DEF DefinesGen, Openers, Ends, Datagrams
  <2>3. req[1].msg \notin Datagrams
    BY <1>0, <1>1, <2>1 DEF Orderly
  <2> QED
    BY <1>0, <2>1, <2>2, <2>3 DEF Orderly, Young
<1>4. Untouched(j)
  BY <1>0, <1>1, <1>3 DEF Orderly
<1>5. InRing(j)' = << >>
  <2>1. \A k \in Told(j) : evt[k].evt # "RxTcp"
    <3> SUFFICES ASSUME NEW k \in Told(j) PROVE evt[k].evt # "RxTcp"
      OBVIOUS
    <3>1. <<evt[k].evt, evt[k].cause>> \in Hears(j)
      BY Zenon DEF Hears
    <3>2. <<evt[k].evt, evt[k].cause>> = <<"Status", "Failed">>
      BY <1>4, <3>1 DEF Untouched
    <3> QED
      BY <3>2
  <2>2. InRing(j) = << >>
    BY <1>0, <2>1, RingNone
  <2>3. Silent(j) \/ Reports(j, StatusEvent(j, gen[j], "Failed"))
    BY DEF Begun
  <2>4. StatusEvent(j, gen[j], "Failed").evt # "RxTcp"
    BY DEF StatusEvent, Event
  <2> QED
    BY <1>0, <2>2, <2>3, <2>4, RingReported DEF Silent, Quiet
<1>6. taken'[j] \in Int /\ rxbuf'[j] \in Seq(Cell) /\ taken'[j] + Len(rxbuf'[j]) = 0
  BY <1>0, <1>2, <1>4 DEF Types, ChipTypes, Untouched
<1>7. /\ RxOk(gen'[j], taken'[j], rxbuf'[j], << >>, << >>, << >>)
      /\ RxEnd(taken'[j], rxbuf'[j], << >>, << >>, << >>) = 0
  BY <1>6, RxNone
<1> QED
  BY <1>2, <1>5, <1>7 DEF Rx, Waiting

(* The bytes go with the connection.                                       *)
LEMMA RxDies ==
    ASSUME OrderInv, NEW j \in Sock, Rx(j), WorkerStep(j), Dies(j) \/ Finishes(j)
    PROVE  Rx(j)'
<1>0. Types /\ ChipStill(j)
  BY DEF OrderInv, CardInv, WorkerStep
<1> SUFFICES ASSUME IsStream(j)' PROVE Rx(j)'
  BY DEF Rx
<1>1. IsStream(j)
  BY StreamWorker
<1>2. /\ kin'[j] = << >> /\ InHand(j)' = << >> /\ InHand(j) = << >> /\ wfd'[j] = "none"
      /\ gen'[j] = gen[j] /\ taken'[j] = taken[j] /\ rxbuf'[j] = rxbuf[j]
  BY <1>0 DEF Dies, Finishes, HandEmpty, ChipStill, GhostsSame
<1>3. InRing(j)' = InRing(j)
  <2>1. \A c : StatusEvent(j, gen[j], c).evt # "RxTcp"
    BY DEF StatusEvent, Event
  <2>2. Silent(j) \/ \E c : Reports(j, StatusEvent(j, gen[j], c))
    BY DEF Dies, Finishes
  <2> QED
    BY <1>0, <2>1, <2>2, RingReported DEF Silent, Quiet
<1>4. RxOk(gen[j], taken[j], rxbuf[j], InRing(j), InHand(j), Waiting(j))
  BY <1>1 DEF Rx
<1>5. RxOk(gen[j], taken[j], rxbuf[j], InRing(j), InHand(j), << >>)
  BY <1>4, RxDrops
<1>6. Waiting(j)' = << >>
  BY <1>2 DEF Waiting
<1> QED
  BY <1>2, <1>3, <1>5, <1>6 DEF Rx, HostStream

(* ::recv returns bytes, which the worker posts.                           *)
LEMMA RxGets ==
    ASSUME OrderInv, OrderInv', NEW j \in Sock, Rx(j), WorkerStep(j), Gets(j)
    PROVE  Rx(j)'
<1>0. Types /\ Types' /\ ChipStill(j)
  BY DEF OrderInv, CardInv, WorkerStep
<1> SUFFICES ASSUME IsStream(j)' PROVE Rx(j)'
  BY DEF Rx
<1>1. IsStream(j)
  BY StreamWorker
<1>2. /\ InHand(j) = << >> /\ kin[j] = InHand(j)' \o kin'[j] /\ Goes(j) /\ wfd'[j] = wfd[j] /\ psent'[j] = psent[j] /\ Silent(j)
      /\ gen'[j] = gen[j] /\ taken'[j] = taken[j] /\ rxbuf'[j] = rxbuf[j]
  BY <1>0 DEF Gets, ChipStill, GhostsSame
<1>3. InRing(j)' = InRing(j) /\ Waiting(j) = kin[j] /\ Waiting(j)' = kin'[j]
  BY <1>2 DEF Silent, Quiet, Waiting, Goes
<1>4. PICK t \in Int, buf \in Seq(Cell), ring \in Seq(Cell) : t = taken[j] /\ buf = rxbuf[j] /\ ring = InRing(j)
  BY <1>0, RxTypes
<1>5. InHand(j)' \in Seq(Cell) /\ kin'[j] \in Seq(Cell)
  BY <1>0, WayLengthNext, ByteCells DEF WayOk, Types, WorkerTypes
<1>6. PICK hand \in Seq(Cell), in \in Seq(Cell) : hand = InHand(j)' /\ in = kin'[j]
  BY <1>5
<1>7. PICK g : g = gen[j]
  OBVIOUS
<1>8. /\ RxOk(g, t, buf, ring, << >>, hand \o in)
      /\ wfd[j] \in HostStream => RxEnd(t, buf, ring, << >>, hand \o in) = psent[j]
  BY <1>1, <1>2, <1>3, <1>4, <1>6, <1>7 DEF Rx, Goes
<1>9. RxOk(g, t, buf, ring, hand, in) /\ RxEnd(t, buf, ring, hand, in) = RxEnd(t, buf, ring, << >>, hand \o in)
  BY <1>8, RxTakes
<1> QED
  BY <1>2, <1>3, <1>4, <1>6, <1>7, <1>8, <1>9 DEF Rx

LEMMA RxPasses ==
    ASSUME OrderInv, NEW j \in Sock, Rx(j), WorkerStep(j), Passes(j)
    PROVE  Rx(j)'
<1>0. Types /\ ChipStill(j) /\ CardInv /\ RingClear
  BY DEF OrderInv, CardInv, WorkerStep
<1> SUFFICES ASSUME IsStream(j)' PROVE Rx(j)'
  BY DEF Rx
<1>1. IsStream(j)
  BY StreamWorker
<1> DEFINE e == Event("RxTcp", j, gen[j], "None", InHand(j))
<1>2. /\ InHand(j)' = << >> /\ Goes(j) /\ wfd'[j] = wfd[j] /\ psent'[j] = psent[j] /\ kin'[j] = kin[j]
      /\ gen'[j] = gen[j] /\ taken'[j] = taken[j] /\ rxbuf'[j] = rxbuf[j]
  BY <1>0 DEF Passes, HostSame, ChipStill, GhostsSame
<1>3. Carried(e, j, gen[j]) = InHand(j)
  BY DEF Carried, Event
<1>4. Reports(j, e) /\ (Len(evt) < EvtCap => Tells(j, e))
  BY DEF Passes
<1> HIDE DEF e
<1>5. InRing(j) \in Seq(Cell) /\ InHand(j) \in Seq(Cell)
  BY <1>0, RxTypes
<1>6. InRing(j)' = InRing(j) \o InHand(j)
  <2>1. CASE InHand(j) # << >>
    BY <1>0, <1>3, <1>4, <2>1, HandFacts DEF Tells
  <2>2. CASE InHand(j) = << >>
    <3>1. InRing(j)' = InRing(j) \/ InRing(j)' = InRing(j) \o InHand(j)
      BY <1>3, <1>4 DEF Reports, Tells, Quiet
    <3> QED
      BY <1>5, <2>2, <3>1, ConcatEmptySeq
  <2> QED
    BY <2>1, <2>2
<1>7. Waiting(j)' = Waiting(j)
  BY <1>2 DEF Waiting, Goes
<1>8. PICK t \in Int, buf \in Seq(Cell), ring \in Seq(Cell), hand \in Seq(Cell), in \in Seq(Cell) :
        t = taken[j] /\ buf = rxbuf[j] /\ ring = InRing(j) /\ hand = InHand(j) /\ in = Waiting(j)
  BY <1>0, RxTypes
<1>9. PICK g : g = gen[j]
  OBVIOUS
<1>10. RxOk(g, t, buf, ring, hand, in) /\ (wfd[j] \in HostStream => RxEnd(t, buf, ring, hand, in) = psent[j])
  BY <1>1, <1>2, <1>8, <1>9 DEF Rx, Goes
<1>11. RxOk(g, t, buf, ring \o hand, << >>, in) /\ RxEnd(t, buf, ring \o hand, << >>, in) = RxEnd(t, buf, ring, hand, in)
  <2>1. RxOk(g, t, buf, ring, hand, in)
    BY <1>10
  <2>2. RxOk(g, t, buf, ring \o hand, << >>, in)
    BY <2>1, RxPosts
  <2>3. RxEnd(t, buf, ring \o hand, << >>, in) = RxEnd(t, buf, ring, hand, in)
    <3>1. Len(buf) \in Nat /\ Len(ring) \in Nat /\ Len(hand) \in Nat /\ Len(in) \in Nat /\ Len(<< >>) = 0
      BY LenProperties, EmptySeq
    <3>2. Len(ring \o hand) = Len(ring) + Len(hand)
      BY ConcatProperties
    <3> QED
      BY <3>1, <3>2 DEF RxEnd
  <2> QED
    BY <2>2, <2>3
<1> QED
  BY <1>2, <1>6, <1>7, <1>8, <1>9, <1>10, <1>11 DEF Rx

LEMMA RxPeerWrites ==
    ASSUME OrderInv, NEW j \in Sock, Rx(j), WorkerStep(j), PeerWrites(j)
    PROVE  Rx(j)'
<1>0. Types /\ ChipStill(j) /\ CardInv /\ HostClear(j)
  BY DEF OrderInv, CardInv, WorkerStep
<1> SUFFICES ASSUME IsStream(j)' PROVE Rx(j)'
  BY DEF Rx
<1>1. IsStream(j)
  BY StreamWorker
<1>2. /\ HandSame(j) /\ Goes(j) /\ psent'[j] = psent[j] + 1 /\ kin'[j] = Append(kin[j], <<gen[j], psent[j] + 1>>)
      /\ gen'[j] = gen[j] /\ taken'[j] = taken[j] /\ rxbuf'[j] = rxbuf[j] /\ Silent(j) /\ peer[j] = "up"
  BY <1>0 DEF PeerWrites, ChipStill, GhostsSame
<1>3. wst[j] = "ESTABLISHED"
  BY <1>0, <1>2 DEF HostClear, Goes
<1>4. wfd[j] \in HostStream
  BY <1>0, <1>1, <1>2, <1>3, StreamFacts DEF Goes
<1>5. InRing(j)' = InRing(j) /\ InHand(j)' = InHand(j) /\ Waiting(j) = kin[j] /\ Waiting(j)' = kin'[j]
  BY <1>2 DEF Silent, Quiet, HandSame, Waiting, Goes
<1>6. PICK t \in Int, buf \in Seq(Cell), ring \in Seq(Cell), hand \in Seq(Cell), in \in Seq(Cell) :
        t = taken[j] /\ buf = rxbuf[j] /\ ring = InRing(j) /\ hand = InHand(j) /\ in = kin[j]
  BY <1>0, RxTypes
<1>7. PICK g \in Nat, p \in Nat : g = gen[j] /\ p = psent[j]
  BY <1>0, RxTypes
<1>8. RxOk(g, t, buf, ring, hand, in) /\ RxEnd(t, buf, ring, hand, in) = p
  BY <1>1, <1>2, <1>4, <1>5, <1>6, <1>7 DEF Rx, Goes
<1>9. RxOk(g, t, buf, ring, hand, Append(in, <<g, p + 1>>)) /\ RxEnd(t, buf, ring, hand, Append(in, <<g, p + 1>>)) = p + 1
  BY <1>8, RxGrows
<1>10. kin'[j] = Append(in, <<g, p + 1>>) /\ psent'[j] = p + 1
  BY <1>2, <1>6, <1>7
<1> QED
  BY <1>2, <1>5, <1>6, <1>7, <1>9, <1>10 DEF Rx

LEMMA RxWorker ==
    ASSUME OrderInv, OrderInv', NEW j \in Sock, Rx(j), WorkerStep(j)
    PROVE  Rx(j)'
<1>1. WorkerMove(j) /\ CardInv
  BY DEF WorkerStep, OrderInv
<1> HIDE DEF WorkerMove
<1>2. CASE Catches(j)
  <2>1. IsStream(j) => wst[j] # "UDP"
    BY <1>1, <1>2, StreamFacts DEF Catches, Goes
  <2>2. IsStream(j)' => IsStream(j)
    BY StreamWorker
  <2> QED
    BY <1>2, <2>1, <2>2 DEF Catches, Rx
<1> QED
  BY <1>1, <1>2, RxAside, RxBegun, RxDies, RxGets, RxPasses, RxPeerWrites DEF WorkerMove, RequestMove, PollMove

RxInv == OrderInv /\ \A j \in Sock : Rx(j)

LEMMA RxStart == Init => RxInv
<1> SUFFICES ASSUME Init, NEW j \in Sock PROVE Rx(j)
  BY OrderStart DEF RxInv
<1> QED
  BY StartFacts DEF Rx

LEMMA RxStay == RxInv /\ [Next]_vars => RxInv'
<1> SUFFICES ASSUME RxInv, [Next]_vars PROVE RxInv'
  OBVIOUS
<1>1. OrderInv /\ OrderInv' /\ CardInv /\ RingClear
  BY OrderStay DEF RxInv, OrderInv
<1>2. ASSUME NEW j \in Sock PROVE Rx(j)'
  <2>1. Rx(j) /\ (ChipStep(j) \/ WorkerStep(j))
    BY <1>1, Steps DEF RxInv
  <2> QED
    BY <1>1, <2>1, RxChip, RxWorker
<1> QED
  BY <1>1, <1>2 DEF RxInv

(* The four pieces as one sequence.                                        *)
LEMMA RxWhole ==
    ASSUME NEW g, NEW t \in Int, NEW buf \in Seq(Cell), NEW ring \in Seq(Cell), NEW hand \in Seq(Cell), NEW in \in Seq(Cell),
           RxOk(g, t, buf, ring, hand, in)
    PROVE  Runs((buf \o (ring \o hand)) \o in, g, t)
<1>1. Len(buf) \in Nat /\ Len(ring) \in Nat /\ Len(hand) \in Nat /\ Len(in) \in Nat
  BY LenProperties
<1>2. PICK way \in Seq(Cell) : way = ring \o hand /\ Len(way) = Len(ring) + Len(hand)
  BY RunsConcat
<1>3. PICK u \in Int : u = t + Len(buf)
  BY <1>1
<1>4. Runs(buf, g, t) /\ Runs(ring, g, u) /\ Runs(hand, g, u + Len(ring)) /\ Runs(in, g, u + Len(ring) + Len(hand))
  BY <1>3 DEF RxOk
<1>5. Runs(way, g, u)
  BY <1>2, <1>4, RunsConcat
<1>6. PICK most \in Seq(Cell) : most = buf \o way /\ Len(most) = Len(buf) + Len(way) /\ Runs(most, g, t)
  BY <1>3, <1>4, <1>5, RunsConcat
<1>7. t + Len(most) = u + Len(ring) + Len(hand)
  BY <1>1, <1>2, <1>3, <1>6
<1>8. Runs(in, g, t + Len(most))
  BY <1>4, <1>7
<1>9. Runs(most \o in, g, t)
  BY <1>6, <1>8, RunsConcat
<1> QED
  BY <1>2, <1>6, <1>9

LEMMA RxSafe == RxInv => RxStreamIntact
<1> SUFFICES ASSUME RxInv, NEW i \in Sock, sr[i] \in Connected, ~Reopening(i)
             PROVE  LET s == rxbuf[i] \o rxpend[i] \o OnTheWay(i) \o (IF wgen[i] = gen[i] THEN kin[i] ELSE << >>)
                    IN  \A k \in 1 .. Len(s) : taken[i] + k > 0 => s[k] = <<gen[i], taken[i] + k>>
  BY DEF RxStreamIntact
<1> DEFINE s == rxbuf[i] \o rxpend[i] \o OnTheWay(i) \o (IF wgen[i] = gen[i] THEN kin[i] ELSE << >>)
<1>1. Types /\ Fits(i) /\ sr[i] \notin Headed /\ Rx(i)
  BY DEF RxInv, OrderInv, CardInv, Headed, Connected
<1>2. IsStream(i)
  BY DEF IsStream, Opening, Reopening
<1>3. rxpend[i] = << >>
  BY <1>1 DEF Fits, Reopening
<1>4. /\ gen[i] \in Nat /\ taken[i] \in Int /\ rxbuf[i] \in Seq(Cell)
      /\ InRing(i) \in Seq(Cell) /\ InHand(i) \in Seq(Cell) /\ Waiting(i) \in Seq(Cell)
  BY <1>1, RxTypes
<1>5. rxbuf[i] \o rxpend[i] = rxbuf[i]
  BY <1>3, <1>4, ConcatEmptySeq
<1>6. s = (rxbuf[i] \o (InRing(i) \o InHand(i))) \o Waiting(i)
  BY <1>5 DEF OnTheWay, Waiting, AtWork
<1>7. RxOk(gen[i], taken[i], rxbuf[i], InRing(i), InHand(i), Waiting(i))
  BY <1>1, <1>2 DEF Rx
<1>8. Runs((rxbuf[i] \o (InRing(i) \o InHand(i))) \o Waiting(i), gen[i], taken[i])
  BY <1>4, <1>7, RxWhole
<1> HIDE DEF s
<1>9. Runs(s, gen[i], taken[i])
  BY <1>6, <1>8
<1> QED
  BY <1>9 DEF Runs, s

(* What the guest of a connected socket can read, now and later, is what   *)
(* the peer sent, in order, nothing lost, repeated or left over from an    *)
(* earlier connection: for every interleaving of ::recv, the event ring,   *)
(* apply_event's generation test, RECV, CLOSE and OPEN, with restores.     *)
THEOREM RxInOrder == Spec => []RxStreamIntact
BY RxStart, RxStay, RxSafe, PTL DEF Spec

-----------------------------------------------------------------------------
(* The end of the stream comes behind its bytes.                           *)

ToldEof(j) == {k \in Told(j) : evt[k].evt = "Status" /\ evt[k].cause = "RemoteClosed"}

Past(j) == sr[j] = "CLOSE_WAIT" \/ ToldEof(j) # {}

HostPast(j) == AtWork(j) /\ wst[j] \in {"CLOSE_WAIT", "CLOSED"}

Eof(j) ==
    IsStream(j) =>
        /\ Past(j) => HostPast(j)
        /\ sr[j] = "CLOSE_WAIT" => \A l \in Told(j) : evt[l].evt # "RxTcp"
        /\ \A k \in ToldEof(j), l \in Told(j) : evt[l].evt = "RxTcp" => l < k

(* Nothing is told.                                                        *)
LEMMA EofShift ==
    ASSUME Types, Types', NEW j \in Sock, Eof(j), IsStream(j), NEW a \in {0, 1},
           \A k \in Told(j)' : k + a \in Told(j) /\ evt'[k] = evt[k + a],
           Past(j) /\ HostPast(j) => HostPast(j)',
           sr'[j] = "CLOSE_WAIT" => \/ sr[j] = "CLOSE_WAIT"
                                    \/ ToldEof(j) # {} /\ \A l \in Told(j)' : evt'[l].evt # "RxTcp"
    PROVE  Eof(j)'
<1>1. \A k \in ToldEof(j)' : k + a \in ToldEof(j)
  BY DEF ToldEof
<1>2. Past(j)' => Past(j)
  BY <1>1 DEF Past
<1>3. Past(j)' => HostPast(j)'
  BY <1>2 DEF Eof
<1>4. sr'[j] = "CLOSE_WAIT" => \A l \in Told(j)' : evt'[l].evt # "RxTcp"
  BY DEF Eof
<1>5. ASSUME NEW k \in ToldEof(j)', NEW l \in Told(j)', evt'[l].evt = "RxTcp" PROVE l < k
  <2>1. k + a \in ToldEof(j) /\ l + a \in Told(j) /\ evt[l + a].evt = "RxTcp"
    BY <1>1, <1>5
  <2>2. l + a < k + a
    BY <2>1 DEF Eof
  <2>3. k \in Nat /\ l \in Nat
    BY RingFactsNext DEF ToldEof, Told
  <2> QED
    BY <2>2, <2>3
<1> QED
  BY <1>3, <1>4, <1>5 DEF Eof

(* Something else than the end is told, bytes only before the end.         *)
LEMMA EofAdds ==
    ASSUME Types, NEW j \in Sock, Eof(j), IsStream(j), NEW e, AddsTold(j, e), sr'[j] = sr[j],
           e.evt = "RxTcp" => ~Past(j), ~(e.evt = "Status" /\ e.cause = "RemoteClosed"),
           Past(j) /\ HostPast(j) => HostPast(j)'
    PROVE  Eof(j)'
<1>0. PICK n \in Told(j)' :
        /\ evt'[n] = e
        /\ \A k \in Told(j)' : k = n \/ (k \in Told(j) /\ evt'[k] = evt[k])
        /\ \A k \in Told(j) : k \in Told(j)' /\ k < n
  BY DEF AddsTold
<1>1. \A k \in ToldEof(j)' : k \in ToldEof(j)
  BY <1>0 DEF ToldEof
<1>2. Past(j)' => Past(j)
  BY <1>1 DEF Past
<1>3. Past(j)' => HostPast(j)'
  BY <1>2 DEF Eof
<1>4. ASSUME sr'[j] = "CLOSE_WAIT", NEW l \in Told(j)' PROVE evt'[l].evt # "RxTcp"
  BY <1>0, <1>4 DEF Eof, Past
<1>5. ASSUME NEW k \in ToldEof(j)', NEW l \in Told(j)', evt'[l].evt = "RxTcp" PROVE l < k
  <2>1. k \in ToldEof(j) /\ Past(j)
    BY <1>1 DEF Past
  <2>2. l \in Told(j) /\ evt[l].evt = "RxTcp"
    BY <1>0, <1>5, <2>1
  <2> QED
    BY <2>1, <2>2 DEF Eof
<1> QED
  BY <1>3, <1>4, <1>5 DEF Eof

(* The end is told.                                                        *)
LEMMA EofEnds ==
    ASSUME NEW j \in Sock, Eof(j), IsStream(j), NEW e, AddsTold(j, e), sr'[j] = sr[j], ~Past(j),
           e.evt = "Status", HostPast(j)'
    PROVE  Eof(j)'
<1>0. PICK n \in Told(j)' :
        /\ evt'[n] = e
        /\ \A k \in Told(j)' : k = n \/ (k \in Told(j) /\ evt'[k] = evt[k])
        /\ \A k \in Told(j) : k \in Told(j)' /\ k < n
  BY DEF AddsTold
<1>1. sr'[j] # "CLOSE_WAIT" /\ ToldEof(j) = {}
  BY DEF Past
<1>2. \A k \in ToldEof(j)' : k = n
  BY <1>0, <1>1 DEF ToldEof
<1>3. ASSUME NEW k \in ToldEof(j)', NEW l \in Told(j)', evt'[l].evt = "RxTcp" PROVE l < k
  <2>1. l # n
    BY <1>0, <1>3
  <2> QED
    BY <1>0, <1>2, <2>1
<1> QED
  BY <1>1, <1>3 DEF Eof

LEMMA EofChip ==
    ASSUME OrderInv, OrderInv', NEW j \in Sock, Eof(j), ChipStep(j)
    PROVE  Eof(j)'
<1>0. /\ CardInv /\ Types /\ Types' /\ ChipMove(j) /\ HostStill(j) /\ Orderly(j)
  BY DEF OrderInv, CardInv, ChipStep
<1> HIDE DEF ChipMove
<1> SUFFICES ASSUME IsStream(j)' PROVE Eof(j)'
  BY DEF Eof
<1>1. gen'[j] = gen[j] => (HostPast(j) => HostPast(j)')
  BY <1>0 DEF HostPast, AtWork, HostStill
<1>2. ASSUME Told(j)' = {}, sr'[j] # "CLOSE_WAIT" PROVE Eof(j)'
  BY <1>2 DEF Eof, Past, ToldEof
<1>3. CASE Ended(j) \/ Reborn(j)
  <2>1. Told(j)' = {} /\ ~Opening(j)'
    BY <1>3 DEF Ended, Reborn, Anew, IsStream
  <2>2. sr'[j] # "CLOSE_WAIT"
    BY <1>3, <2>1 DEF Ended, Reborn, Opened
  <2> QED
    BY <1>2, <2>1, <2>2
<1>4. CASE Opens(j)
  <2>1. Opening(j) /\ KeepsTold(j) /\ sr'[j] # "CLOSE_WAIT"
    BY <1>4 DEF Opens, Quiet
  <2>2. Told(j) = {}
    BY <1>0, <2>1 DEF Orderly, Hears
  <2>3. Told(j)' = {}
    BY <2>1, <2>2 DEF KeepsTold
  <2> QED
    BY <1>2, <2>1, <2>3
<1>5. ASSUME ~Ended(j), ~Reborn(j), ~Opens(j) PROVE IsStream(j) /\ gen'[j] = gen[j]
  BY <1>0, <1>5, StreamChip
<1>6. CASE (Rest(j) \/ Asks(j) \/ Puts(j) \/ Reads(j) \/ Frames(j)) /\ IsStream(j)
  <2>1. gen'[j] = gen[j] /\ KeepsTold(j) /\ (sr'[j] = sr[j] \/ sr'[j] # "CLOSE_WAIT")
    BY <1>6 DEF Rest, Asks, Puts, Reads, Frames, GoesOn, Quiet
  <2>2. PICK a \in {0, 1} : \A k \in Told(j)' : k + a \in Told(j) /\ evt'[k] = evt[k + a]
    BY <2>1 DEF KeepsTold
  <2>3. Past(j) /\ HostPast(j) => HostPast(j)'
    BY <1>1, <2>1
  <2> QED
    BY <1>0, <1>6, <2>1, <2>2, <2>3, EofShift
<1>7. CASE Learns(j) /\ IsStream(j)
  <2>1. PICK e \in Happened : Sees(j, e) /\ (e.evt = "Status" => sr'[j] = StatusOf(e.cause))
    BY <1>7 DEF Learns
  <2>2. gen'[j] = gen[j] /\ (e.evt # "Status" => sr'[j] = sr[j]) /\ Applies(j, e)
    BY <2>1 DEF Sees, GoesOn
  <2>3. e = evt[1] /\ 1 \in Told(j) /\ \A k \in Told(j)' : k + 1 \in Told(j) /\ evt'[k] = evt[k + 1]
    BY <2>2 DEF Applies, TakesTold
  <2>4. Past(j) /\ HostPast(j) => HostPast(j)'
    BY <1>1, <2>2
  <2>5. ASSUME sr'[j] = "CLOSE_WAIT", sr[j] # "CLOSE_WAIT"
        PROVE  ToldEof(j) # {} /\ \A l \in Told(j)' : evt'[l].evt # "RxTcp"
    <3>1. e.evt = "Status" /\ e.cause = "RemoteClosed"
      BY <2>1, <2>2, <2>5 DEF StatusOf, Happened, Cause
    <3>2. 1 \in ToldEof(j)
      BY <2>3, <3>1 DEF ToldEof
    <3>3. ASSUME NEW l \in Told(j)', evt'[l].evt = "RxTcp" PROVE FALSE
      <4>1. l + 1 \in Told(j) /\ evt[l + 1].evt = "RxTcp" /\ l \in Nat /\ l >= 1
        BY <1>0, <2>3, <3>3, RingFactsNext DEF Told
      <4>2. l + 1 < 1
        BY <1>7, <3>2, <4>1 DEF Eof
      <4> QED
        BY <4>1, <4>2
    <3> QED
      BY <3>2, <3>3
  <2> QED
    BY <1>0, <1>7, <2>3, <2>4, <2>5, EofShift
<1> QED
  BY <1>0, <1>3, <1>4, <1>5, <1>6, <1>7 DEF ChipMove

(* News other than the end.                                                *)
LEMMA EofReports ==
    ASSUME Types, Types', NEW j \in Sock, Eof(j), IsStream(j), NEW e, Reports(j, e), sr'[j] = sr[j],
           e.evt = "RxTcp" => ~Past(j), ~(e.evt = "Status" /\ e.cause = "RemoteClosed"),
           Past(j) /\ HostPast(j) => HostPast(j)'
    PROVE  Eof(j)'
<1>1. CASE Tells(j, e)
  BY <1>1, EofAdds DEF Tells
<1>2. CASE Quiet(j)
  <2>1. PICK a \in {0, 1} : \A k \in Told(j)' : k + a \in Told(j) /\ evt'[k] = evt[k + a]
    BY <1>2 DEF Quiet, KeepsTold
  <2> QED
    BY <2>1, EofShift
<1> QED
  BY <1>1, <1>2 DEF Reports

(* A generation that has yet to be opened has not ended.                   *)
LEMMA NotPast ==
    ASSUME OrderInv, NEW j \in Sock, IsStream(j), TakesAsked(j), req[1].msg \in Openers
    PROVE  ~Past(j)
<1>1. Types /\ Orderly(j)
  BY DEF OrderInv, CardInv
<1>2. req[1].msg \in Wants(j)
  BY <1>1, WantsTaken DEF Orderly
<1>3. Untouched(j)
  BY <1>1, <1>2 DEF Orderly, Young
<1>4. \A k \in ToldEof(j) : <<"Status", "RemoteClosed">> \in Hears(j)
  BY DEF ToldEof, Hears
<1>5. <<"Status", "RemoteClosed">> # <<"Status", "Failed">>
  OBVIOUS
<1> QED
  BY <1>3, <1>4, <1>5 DEF Untouched, Past, Connected

LEMMA EofWorker ==
    ASSUME OrderInv, OrderInv', NEW j \in Sock, Eof(j), WorkerStep(j)
    PROVE  Eof(j)'
<1>0. /\ CardInv /\ Types /\ Types' /\ WorkerMove(j) /\ ChipStill(j) /\ Orderly(j) /\ HostOk(j)
  BY PhaseSays DEF OrderInv, CardInv, WorkerStep
<1> HIDE DEF WorkerMove
<1> SUFFICES ASSUME IsStream(j)' PROVE Eof(j)'
  BY DEF Eof
<1>1. IsStream(j) /\ gen'[j] = gen[j] /\ sr'[j] = sr[j]
  BY <1>0, StreamWorker DEF ChipStill
<1>2. Past(j) => HostPast(j)
  BY <1>1 DEF Eof
<1>3. ASSUME Quiet(j), Past(j) /\ HostPast(j) => HostPast(j)' PROVE Eof(j)'
  <2>1. PICK a \in {0, 1} : \A k \in Told(j)' : k + a \in Told(j) /\ evt'[k] = evt[k + a]
    BY <1>3 DEF Quiet, KeepsTold
  <2> QED
    BY <1>0, <1>1, <1>3, <2>1, EofShift
<1>4. /\ \A c : StatusEvent(j, gen[j], c).evt = "Status" /\ StatusEvent(j, gen[j], c).cause = c
      /\ \A m, c, d : Event(m, j, gen[j], c, d).evt = m
  BY DEF StatusEvent, Event
<1>5. CASE Aside(j) \/ Ignored(j) \/ Gets(j) \/ PeerWrites(j) \/ PeerLeaves(j) \/ Finishes(j)
  <2>1. Quiet(j)
    BY <1>5 DEF Aside, Ignored, Gets, PeerWrites, PeerLeaves, Finishes, Silent
  <2>2. HostPast(j) => HostPast(j)'
    BY <1>5 DEF Aside, Ignored, Gets, PeerWrites, PeerLeaves, Finishes, HostPast, HostSame, Goes
  <2> QED
    BY <1>3, <2>1, <2>2
<1>6. CASE Dials(j)
  <2>1. Quiet(j) /\ ~Past(j)
    BY <1>1, <1>6, NotPast DEF Dials, Silent, Openers
  <2> QED
    BY <1>3, <2>1
<1>7. CASE Answered(j)
  <2>1. PICK c \in Cause : Reports(j, Event("SendDone", j, gen[j], c, << >>))
    BY <1>7 DEF Answered
  <2>2. HostPast(j) => HostPast(j)'
    BY <1>7 DEF Answered, HostPast, HostSame
  <2> QED
    BY <1>0, <1>1, <1>4, <2>1, <2>2, EofReports
<1>8. CASE Begun(j)
  <2>1. req[1].msg \in DefinesGen /\ TakesAsked(j)
    BY <1>8 DEF Begun
  <2>2. ~Past(j)
    <3>1. req[1].msg \in Wants(j)
      BY <1>0, <2>1, WantsTaken DEF Orderly
    <3>2. req[1].msg \notin Datagrams
      BY <1>0, <1>1, <3>1 DEF Orderly
    <3>3. CASE req[1].msg \in Ends
      BY <1>0, <1>2, <3>1, <3>3 DEF Orderly, HostPast
    <3>4. CASE req[1].msg \in Openers
      BY <1>1, <2>1, <3>4, NotPast
    <3> QED
      BY <2>1, <3>2, <3>3, <3>4 DEF DefinesGen, Openers, Ends, Datagrams
  <2>3. Silent(j) \/ Reports(j, StatusEvent(j, gen[j], "Failed"))
    BY <1>8 DEF Begun
  <2> QED
    BY <1>0, <1>1, <1>3, <1>4, <2>2, <2>3, EofReports DEF Silent
<1>9. CASE Rises(j)
  <2>1. ~Past(j)
    <3>1. CASE TakesAsked(j) /\ req[1].msg = "Connect"
      BY <1>1, <3>1, NotPast DEF Openers
    <3>2. CASE wst[j] \in {"SYNSENT", "LISTEN"}
      BY <1>2, <3>2 DEF HostPast
    <3> QED
      BY <1>9, <3>1, <3>2 DEF Rises
  <2>2. Reports(j, StatusEvent(j, gen[j], "Connected"))
    BY <1>9 DEF Rises
  <2> QED
    BY <1>0, <1>1, <1>4, <2>1, <2>2, EofReports
<1>10. CASE Dies(j)
  <2>1. PICK c \in {"Failed", "Reset"} : Reports(j, StatusEvent(j, gen[j], c))
    BY <1>10 DEF Dies
  <2>2. HostPast(j)'
    BY <1>10 DEF Dies, HostPast, Goes
  <2> QED
    BY <1>0, <1>1, <1>4, <2>1, <2>2, EofReports
<1>11. CASE Pushes(j)
  <2>1. Silent(j) \/ Reports(j, Event("SendDone", j, gen[j], "None", << >>))
    BY <1>11, Zenon DEF Pushes
  <2>2. HostPast(j) => HostPast(j)'
    BY <1>11 DEF Pushes, HostPast, Goes
  <2> QED
    BY <1>0, <1>1, <1>3, <1>4, <2>1, <2>2, EofReports DEF Silent
<1>12. CASE Passes(j)
  <2>1. Reports(j, Event("RxTcp", j, gen[j], "None", InHand(j))) /\ wst[j] = "ESTABLISHED"
    BY <1>12 DEF Passes
  <2>2. ~Past(j)
    BY <1>2, <2>1 DEF HostPast
  <2> QED
    BY <1>0, <1>1, <1>4, <2>1, <2>2, EofReports
<1>13. CASE Eofs(j)
  <2> DEFINE e == StatusEvent(j, gen[j], "RemoteClosed")
  <2>1. Reports(j, e) /\ wst[j] = "ESTABLISHED" /\ HostPast(j)' /\ e.evt = "Status"
    BY <1>4, <1>13 DEF Eofs, HostPast, Goes
  <2> HIDE DEF e
  <2>2. ~Past(j)
    BY <1>2, <2>1 DEF HostPast
  <2>3. CASE Tells(j, e)
    BY <1>1, <2>1, <2>2, <2>3, EofEnds DEF Tells
  <2> QED
    BY <1>3, <2>1, <2>2, <2>3 DEF Reports
<1>14. CASE Catches(j)
  BY <1>0, <1>1, <1>14, StreamFacts DEF Catches, Goes
<1> QED
  BY <1>0, <1>5, <1>6, <1>7, <1>8, <1>9, <1>10, <1>11, <1>12, <1>13, <1>14 DEF WorkerMove, RequestMove, PollMove

EofInv == RxInv /\ \A j \in Sock : Eof(j)

LEMMA EofStart == Init => EofInv
<1> SUFFICES ASSUME Init, NEW j \in Sock PROVE Eof(j)
  BY RxStart DEF EofInv
<1> QED
  BY StartFacts DEF Eof

LEMMA EofStay == EofInv /\ [Next]_vars => EofInv'
<1> SUFFICES ASSUME EofInv, [Next]_vars PROVE EofInv'
  OBVIOUS
<1>1. RxInv' /\ OrderInv /\ OrderInv' /\ CardInv /\ RingClear
  BY RxStay DEF EofInv, RxInv, OrderInv
<1>2. ASSUME NEW j \in Sock PROVE Eof(j)'
  <2>1. Eof(j) /\ (ChipStep(j) \/ WorkerStep(j))
    BY <1>1, Steps DEF EofInv
  <2> QED
    BY <1>1, <2>1, EofChip, EofWorker
<1> QED
  BY <1>1, <1>2 DEF EofInv

LEMMA EofSafe == EofInv => CloseWaitAfterData
<1> SUFFICES ASSUME EofInv, NEW i \in Sock, sr[i] = "CLOSE_WAIT", ~Reopening(i), wgen[i] = gen[i], wst[i] = "CLOSE_WAIT"
             PROVE  taken[i] + Len(rxbuf[i]) + Len(rxpend[i]) = psent[i]
  BY DEF CloseWaitAfterData
<1>1. /\ CardInv /\ Types /\ RingClear /\ Fits(i) /\ Rx(i) /\ Eof(i) /\ HostClear(i) /\ HostOk(i)
  BY PhaseSays DEF EofInv, RxInv, OrderInv, CardInv
<1>2. IsStream(i) /\ AtWork(i)
  BY DEF IsStream, Opening, Reopening, AtWork, Connected
<1>3. InRing(i) = << >>
  BY <1>1, <1>2, RingNone DEF Eof
<1>4. InHand(i) = << >>
  BY <1>1, HandFacts
<1>5. Waiting(i) = << >>
  BY <1>1, <1>2 DEF HostClear, Waiting
<1>6. wfd[i] \in HostStream
  BY <1>1 DEF HostOk
<1>7. RxEnd(taken[i], rxbuf[i], << >>, << >>, << >>) = psent[i]
  BY <1>1, <1>2, <1>3, <1>4, <1>5, <1>6 DEF Rx
<1>8. rxpend[i] = << >> /\ Len(<< >>) = 0
  BY <1>1, EmptySeq DEF Fits
<1>9. taken[i] \in Int /\ Len(rxbuf[i]) \in Nat
  BY <1>1, RxTypes, LenProperties
<1> QED
  BY <1>7, <1>8, <1>9 DEF RxEnd

(* A guest that sees CLOSE_WAIT has every byte the peer sent before it     *)
(* closed: set_status posts RemoteClosed to the ring the bytes went        *)
(* through, after ::recv has returned the last of them.                    *)
THEOREM CloseWaitLast == Spec => []CloseWaitAfterData
BY EofStart, EofStay, EofSafe, PTL DEF Spec

-----------------------------------------------------------------------------
(* Datagrams: those of this generation are numbered upwards, from the      *)
(* guest's buffer through the ring to the last the host received; older    *)
(* ones came back with a snapshot.                                         *)

Payload(b) == {k \in 1 .. Len(b) : b[k] # HeaderCell}

Less(c, d) == c[1] < d[1] \/ (c[1] = d[1] /\ c[2] < d[2])

Ordered(b) == \A k, l \in Payload(b) : k < l => Less(b[k], b[l])

InSaved(j, c) == saved # << >> /\ \E n \in 1 .. Len(saved[1].rxbuf[j]) : c = saved[1].rxbuf[j][n]

UdpTold(j) == {k \in Told(j) : evt[k].evt = "RxUdp"}

Number(e) == e.data[1][2]

TakesDatagrams(j) == AtWork(j) /\ "OpenUdp" \notin Wants(j)

IsUdp(j) == sr[j] = "UDP" /\ ~Opening(j)

Caught(j) ==
    \A k \in UdpTold(j) :
        /\ evt[k].data = <<<<gen[j], Number(evt[k])>>>> /\ Number(evt[k]) \in Nat \ {0}
        /\ TakesDatagrams(j) /\ Number(evt[k]) <= psent[j]
        /\ \A l \in UdpTold(j) : k < l => Number(evt[k]) < Number(evt[l])

Held(j, c) ==
    /\ c \in Cell
    /\ \/ c[1] < gen[j] /\ InSaved(j, c)
       \/ /\ c[1] = gen[j] /\ TakesDatagrams(j) /\ c[2] <= psent[j]
          /\ \A l \in UdpTold(j) : c[2] < Number(evt[l])

Udp(j) ==
    IsUdp(j) =>
        /\ Ordered(rxbuf[j])
        /\ \A k \in Payload(rxbuf[j]) : Held(j, rxbuf[j][k])
        /\ Caught(j)

SavedFresh ==
    saved # << >> =>
        \A i \in Sock :
            saved[1].sr[i] = "UDP" =>
                /\ Ordered(saved[1].rxbuf[i])
                /\ \A k \in Payload(saved[1].rxbuf[i]) : saved[1].rxbuf[i][k][1] <= saved[1].gen[i]

(* Only a snapshot changes what is saved.                                  *)
LEMMA SavedStep ==
    ASSUME [Next]_vars
    PROVE  saved' = saved \/ Snapshot
<1>1. ASSUME NEW i \in Sock, Command(i) PROVE saved' = saved
  <2>1. CASE \/ \E p \in Protocol : WriteMR(i, p)
             \/ WriteIR(i) \/ OpenClose(i) \/ OpenFinish(i) \/ Listen(i) \/ Connect(i) \/ Discon(i) \/ Close(i)
             \/ Send(i) \/ SendKeep(i) \/ \E k \in 1 .. RxSize : Recv(i, k)
    BY <2>1 DEF WriteMR, WriteIR, OpenClose, OpenFinish, Listen, Connect, Discon, Close, Send, SendKeep, Recv
  <2>2. CASE Restore(i)
    BY <2>2 DEF Restore
  <2> QED
    BY <1>1, <2>1, <2>2 DEF Command
<1>2. CASE Reset \/ TickBegin \/ ApplyEvent \/ TickEnd
  BY <1>2 DEF Reset, TickBegin, ApplyEvent, TickEnd, ApplyStale, ApplyStatus, ApplyRxTcp, ApplyRxUdp,
     ApplyMacRaw, ApplySendDone, Applying
<1>3. CASE RestoreBegin \/ Stop \/ StopJoin
  BY <1>3 DEF RestoreBegin, Stop, StopJoin
<1>4. CASE UNCHANGED chipVars \/ UNCHANGED vars
  BY <1>4 DEF vars, chipVars
<1> QED
  BY <1>1, <1>2, <1>3, <1>4 DEF Next, Emulator, Worker, Peer, Stopped, StopJoin, ChipNext

(* What a snapshot holds.                                                  *)
LEMMA SnapshotSaves ==
    ASSUME Snapshot
    PROVE  /\ saved' # << >> /\ saved'[1].sr = sr /\ saved'[1].gen = gen /\ saved'[1].rxbuf = rxbuf
           /\ gen' = gen /\ rxbuf' = rxbuf /\ sr' = sr
BY DEF Snapshot

(* The first n cells go.                                                   *)
Rests(c, b, n) ==
    /\ n \in 0 .. Len(b) /\ c \in Seq(Cell) /\ Len(c) = Len(b) - n
    /\ \A k \in 1 .. Len(c) : c[k] = b[n + k]

LEMMA OrderedRest ==
    ASSUME NEW b \in Seq(Cell), NEW c, NEW n, Rests(c, b, n)
    PROVE  /\ \A k \in Payload(c) : n + k \in Payload(b) /\ c[k] = b[n + k]
           /\ Ordered(b) => Ordered(c)
<1>0. Len(b) \in Nat /\ n \in Nat /\ n <= Len(b) /\ Len(c) = Len(b) - n /\ \A k \in 1 .. Len(c) : c[k] = b[n + k]
  BY LenProperties DEF Rests
<1>1. ASSUME NEW k \in Payload(c) PROVE n + k \in Payload(b) /\ c[k] = b[n + k]
  <2>1. k \in 1 .. Len(c) /\ c[k] # HeaderCell
    BY DEF Payload
  <2>2. n + k \in 1 .. Len(b) /\ c[k] = b[n + k]
    BY <1>0, <2>1
  <2> QED
    BY <2>1, <2>2 DEF Payload
<1>2. ASSUME Ordered(b), NEW k \in Payload(c), NEW l \in Payload(c), k < l PROVE Less(c[k], c[l])
  <2>1. n + k \in Payload(b) /\ n + l \in Payload(b) /\ c[k] = b[n + k] /\ c[l] = b[n + l]
    BY <1>1
  <2>2. n + k < n + l
    BY <1>0, <1>2 DEF Payload
  <2> QED
    BY <1>2, <2>1, <2>2 DEF Ordered
<1> QED
  BY <1>1, <1>2 DEF Ordered

(* A datagram with its header is added.                                    *)
LEMMA OrderedMore ==
    ASSUME NEW b \in Seq(Cell), NEW x \in Cell, Ordered(b), \A k \in Payload(b) : Less(b[k], x)
    PROVE  LET c == b \o <<HeaderCell, x>>
           IN  /\ Ordered(c)
               /\ \A k \in Payload(c) : (k \in Payload(b) /\ c[k] = b[k]) \/ c[k] = x
<1> DEFINE h == <<HeaderCell, x>>
           c == b \o h
<1>1. HeaderCell \in Cell /\ Len(b) \in Nat
  BY ByteCells, LenProperties
<1>2. h \in Seq(Cell) /\ Len(h) = 2 /\ h[1] = HeaderCell /\ h[2] = x
  BY <1>1
<1> HIDE DEF h
<1>3. Len(c) = Len(b) + 2 /\ \A k \in 1 .. Len(b) + 2 : c[k] = IF k <= Len(b) THEN b[k] ELSE h[k - Len(b)]
  <2>1. Len(c) = Len(b) + Len(h) /\ \A k \in 1 .. Len(b) + Len(h) : c[k] = IF k <= Len(b) THEN b[k] ELSE h[k - Len(b)]
    BY <1>2, ConcatProperties
  <2> QED
    BY <1>2, <2>1
<1> HIDE DEF c
<1>4. ASSUME NEW k \in Payload(c) PROVE (k \in Payload(b) /\ c[k] = b[k]) \/ (k = Len(b) + 2 /\ c[k] = x)
  <2>1. k \in 1 .. Len(b) + 2 /\ c[k] # HeaderCell
    BY <1>3 DEF Payload
  <2>2. CASE k <= Len(b)
    BY <1>1, <1>3, <2>1, <2>2 DEF Payload
  <2>3. CASE k = Len(b) + 1
    <3>1. k - Len(b) = 1 /\ ~(k <= Len(b))
      BY <1>1, <2>3
    <3> QED
      BY <1>2, <1>3, <2>1, <3>1
  <2>4. CASE k = Len(b) + 2
    <3>1. k - Len(b) = 2 /\ ~(k <= Len(b))
      BY <1>1, <2>4
    <3> QED
      BY <1>2, <1>3, <2>1, <2>4, <3>1
  <2> QED
    BY <1>1, <2>1, <2>2, <2>3, <2>4
<1>5. ASSUME NEW k \in Payload(c), NEW l \in Payload(c), k < l PROVE Less(c[k], c[l])
  <2>1. k \in Payload(b) /\ c[k] = b[k]
    <3>1. ~(k = Len(b) + 2)
      BY <1>1, <1>3, <1>5 DEF Payload
    <3> QED
      BY <1>4, <3>1
  <2>2. CASE l \in Payload(b) /\ c[l] = b[l]
    BY <1>5, <2>1, <2>2 DEF Ordered
  <2>3. CASE c[l] = x
    BY <2>1, <2>3
  <2> QED
    BY <1>4, <2>2, <2>3
<1> QED
  BY <1>4, <1>5 DEF Ordered, c, h

SavedKept(j) ==
    \A c \in Cell : InSaved(j, c) /\ (\E k \in 1 .. Len(rxbuf[j]) : c = rxbuf[j][k]) => InSaved(j, c)'

(* What has been told is as it was, the oldest apart.                      *)
LEMMA CaughtShift ==
    ASSUME Types, Types', NEW j \in Sock, Caught(j), NEW a \in {0, 1}, gen'[j] = gen[j],
           \A k \in Told(j)' : k + a \in Told(j) /\ evt'[k] = evt[k + a],
           TakesDatagrams(j) => TakesDatagrams(j)' /\ psent[j] <= psent'[j]
    PROVE  /\ Caught(j)'
           /\ \A c \in Cell : c \in {rxbuf[j][k] : k \in 1 .. Len(rxbuf[j])} /\ Held(j, c) /\ SavedKept(j) => Held(j, c)'
<1>1. \A k \in UdpTold(j)' : k + a \in UdpTold(j) /\ evt'[k] = evt[k + a]
  BY DEF UdpTold
<1>2. psent[j] \in Nat /\ psent'[j] \in Nat
  BY DEF Types, WorkerTypes
<1>3. ASSUME NEW k \in UdpTold(j)'
      PROVE  /\ evt'[k].data = <<<<gen'[j], Number(evt'[k])>>>> /\ Number(evt'[k]) \in Nat \ {0}
             /\ TakesDatagrams(j)' /\ Number(evt'[k]) <= psent'[j]
             /\ \A l \in UdpTold(j)' : k < l => Number(evt'[k]) < Number(evt'[l])
  <2>1. k + a \in UdpTold(j) /\ evt'[k] = evt[k + a]
    BY <1>1
  <2>2. /\ evt[k + a].data = <<<<gen[j], Number(evt[k + a])>>>> /\ Number(evt[k + a]) \in Nat \ {0}
        /\ TakesDatagrams(j) /\ Number(evt[k + a]) <= psent[j]
    BY <2>1 DEF Caught
  <2>3. ASSUME NEW l \in UdpTold(j)', k < l PROVE Number(evt'[k]) < Number(evt'[l])
    <3>1. l + a \in UdpTold(j) /\ evt'[l] = evt[l + a]
      BY <1>1
    <3>2. k + a < l + a
      BY <2>3, RingFactsNext DEF UdpTold
    <3> QED
      BY <2>1, <3>1, <3>2 DEF Caught
  <2>4. Number(evt'[k]) <= psent'[j]
    BY <1>2, <2>1, <2>2
  <2> QED
    BY <2>1, <2>2, <2>3, <2>4
<1>4. Caught(j)'
  BY <1>3 DEF Caught
<1>5. ASSUME NEW c \in Cell, c \in {rxbuf[j][k] : k \in 1 .. Len(rxbuf[j])}, Held(j, c), SavedKept(j) PROVE Held(j, c)'
  <2>1. CASE c[1] < gen[j] /\ InSaved(j, c)
    <3>1. InSaved(j, c)'
      BY <1>5, <2>1 DEF SavedKept
    <3> QED
      BY <2>1, <3>1 DEF Held
  <2>2. CASE c[1] = gen[j] /\ TakesDatagrams(j) /\ c[2] <= psent[j] /\ \A l \in UdpTold(j) : c[2] < Number(evt[l])
    <3>1. c[2] \in Int
      BY DEF Cell
    <3>2. c[2] <= psent'[j]
      BY <1>2, <2>2, <3>1
    <3>3. \A l \in UdpTold(j)' : c[2] < Number(evt'[l])
      BY <1>1, <2>2
    <3> QED
      BY <2>2, <3>2, <3>3 DEF Held
  <2> QED
    BY <1>5, <2>1, <2>2 DEF Held
<1> QED
  BY <1>4, <1>5

(* And the guest's buffer, the cells it has read apart.                    *)
LEMMA UdpShift ==
    ASSUME Types, Types', NEW j \in Sock, Udp(j), IsUdp(j), NEW a \in {0, 1}, gen'[j] = gen[j],
           \A k \in Told(j)' : k + a \in Told(j) /\ evt'[k] = evt[k + a],
           TakesDatagrams(j) => TakesDatagrams(j)' /\ psent[j] <= psent'[j],
           NEW n, Rests(rxbuf'[j], rxbuf[j], n), SavedKept(j)
    PROVE  Udp(j)'
<1>1. Ordered(rxbuf[j]) /\ (\A k \in Payload(rxbuf[j]) : Held(j, rxbuf[j][k])) /\ Caught(j)
  BY DEF Udp
<1>2. rxbuf[j] \in Seq(Cell)
  BY RxTypes
<1>3. (\A k \in Payload(rxbuf'[j]) : n + k \in Payload(rxbuf[j]) /\ rxbuf'[j][k] = rxbuf[j][n + k]) /\ Ordered(rxbuf'[j])
  BY <1>1, <1>2, OrderedRest
<1>4. Caught(j)' /\ \A c \in Cell : c \in {rxbuf[j][k] : k \in 1 .. Len(rxbuf[j])} /\ Held(j, c) => Held(j, c)'
  BY <1>1, CaughtShift
<1>5. ASSUME NEW k \in Payload(rxbuf'[j]) PROVE Held(j, rxbuf[j][k])'
  <2>1. n + k \in Payload(rxbuf[j]) /\ rxbuf'[j][k] = rxbuf[j][n + k]
    BY <1>3
  <2>2. Held(j, rxbuf[j][n + k]) /\ n + k \in 1 .. Len(rxbuf[j])
    BY <1>1, <2>1 DEF Payload
  <2>3. PICK c \in Cell : c = rxbuf[j][n + k]
    BY <2>2 DEF Held
  <2>4. Held(j, c)'
    BY <1>4, <2>2, <2>3
  <2>5. c = rxbuf'[j][k]
    BY <2>1, <2>3
  <2> QED
    BY <2>4, <2>5 DEF Held, InSaved
<1> QED
  BY <1>3, <1>4, <1>5 DEF Udp

LEMMA RestsAll ==
    ASSUME NEW b \in Seq(Cell)
    PROVE  Rests(b, b, 0)
<1>1. Len(b) \in Nat
  BY LenProperties
<1>2. \A k \in 1 .. Len(b) : b[k] = b[0 + k]
  BY <1>1
<1> QED
  BY <1>1, <1>2 DEF Rests

(* The guest gets the oldest datagram.                                     *)
LEMMA UdpApplied ==
    ASSUME Types, Types', NEW j \in Sock, Udp(j), IsUdp(j), gen'[j] = gen[j], NEW e, e = evt[1], e.evt = "RxUdp", TakesTold(j),
           TakesDatagrams(j) => TakesDatagrams(j)' /\ psent[j] <= psent'[j],
           rxbuf'[j] = rxbuf[j] \o (<<HeaderCell>> \o e.data), SavedKept(j)
    PROVE  Udp(j)'
<1>1. Ordered(rxbuf[j]) /\ (\A k \in Payload(rxbuf[j]) : Held(j, rxbuf[j][k])) /\ Caught(j)
  BY DEF Udp
<1>2. rxbuf[j] \in Seq(Cell) /\ gen[j] \in Nat
  BY RxTypes
<1>3. 1 \in UdpTold(j) /\ \A k \in Told(j)' : k + 1 \in Told(j) /\ evt'[k] = evt[k + 1]
  BY DEF TakesTold, UdpTold
<1>4. PICK p \in Nat \ {0} : p = Number(e)
  BY <1>1, <1>3 DEF Caught
<1>5. PICK x \in Cell : x = <<gen[j], p>>
  <2>1. gen[j] \in Int /\ p \in Int
    BY <1>2
  <2>2. <<gen[j], p>> \in Cell
    BY <2>1 DEF Cell
  <2> QED
    BY <2>2
<1>6. /\ e.data = <<x>> /\ TakesDatagrams(j) /\ x[1] = gen[j] /\ x[2] = p /\ p <= psent[j]
      /\ \A l \in UdpTold(j) : 1 < l => p < Number(evt[l])
  BY <1>1, <1>3, <1>4, <1>5 DEF Caught
<1>7. rxbuf'[j] = rxbuf[j] \o <<HeaderCell, x>>
  <2>1. <<HeaderCell>> \o <<x>> = <<HeaderCell, x>>
    <3>1. PICK h \in Cell : h = HeaderCell
      BY ByteCells
    <3>7. <<h>> \in Seq(Cell) /\ <<x>> \in Seq(Cell) /\ <<h, x>> \in Seq(Cell)
      OBVIOUS
    <3>2. PICK s \in Seq(Cell), t \in Seq(Cell), u \in Seq(Cell) : s = <<h>> /\ t = <<x>> /\ u = <<h, x>>
      BY <3>7, Zenon
    <3>3. Len(s) = 1 /\ Len(t) = 1 /\ Len(u) = 2 /\ s[1] = h /\ t[1] = x /\ u[1] = h /\ u[2] = x
      BY <3>2
    <3>4. /\ s \o t \in Seq(Cell) /\ Len(s \o t) = 1 + 1
          /\ \A i \in 1 .. 1 + 1 : (s \o t)[i] = IF i <= 1 THEN s[i] ELSE t[i - 1]
      <4>1. /\ s \o t \in Seq(Cell) /\ Len(s \o t) = Len(s) + Len(t)
            /\ \A i \in 1 .. Len(s) + Len(t) : (s \o t)[i] = IF i <= Len(s) THEN s[i] ELSE t[i - Len(s)]
        BY ConcatProperties
      <4> QED
        BY <3>3, <4>1
    <3>5. \A i \in 1 .. Len(s \o t) : (s \o t)[i] = u[i]
      BY <3>3, <3>4
    <3>6. s \o t = u
      BY <3>3, <3>4, <3>5, SeqEqual
    <3> QED
      BY <3>1, <3>2, <3>6
  <2> QED
    BY <1>6, <2>1
<1>8. ASSUME NEW k \in Payload(rxbuf[j]) PROVE Less(rxbuf[j][k], x)
  <2>1. Held(j, rxbuf[j][k])
    BY <1>1
  <2> QED
    BY <1>3, <1>4, <1>6, <2>1 DEF Held, Less
<1>9. /\ Ordered(rxbuf'[j])
      /\ \A k \in Payload(rxbuf'[j]) : (k \in Payload(rxbuf[j]) /\ rxbuf'[j][k] = rxbuf[j][k]) \/ rxbuf'[j][k] = x
  BY <1>1, <1>2, <1>7, <1>8, OrderedMore
<1>10. Caught(j)' /\ \A c \in Cell : c \in {rxbuf[j][k] : k \in 1 .. Len(rxbuf[j])} /\ Held(j, c) => Held(j, c)'
  BY <1>1, <1>3, CaughtShift
<1>11. Held(j, x)'
  <2>1. ASSUME NEW l \in UdpTold(j)' PROVE p < Number(evt'[l])
    <3>1. l + 1 \in UdpTold(j) /\ evt'[l] = evt[l + 1]
      BY <1>3 DEF UdpTold
    <3>2. 1 < l + 1
      BY RingFactsNext DEF UdpTold
    <3> QED
      BY <1>6, <3>1, <3>2
  <2>2. psent[j] \in Nat /\ psent'[j] \in Nat
    BY DEF Types, WorkerTypes
  <2>3. p <= psent'[j]
    BY <1>4, <1>6, <2>2
  <2> QED
    BY <1>6, <2>1, <2>3 DEF Held
<1>12. ASSUME NEW k \in Payload(rxbuf'[j]) PROVE Held(j, rxbuf[j][k])'
  <2>1. CASE k \in Payload(rxbuf[j]) /\ rxbuf'[j][k] = rxbuf[j][k]
    <3>1. Held(j, rxbuf[j][k]) /\ k \in 1 .. Len(rxbuf[j])
      BY <1>1, <2>1 DEF Payload
    <3>2. PICK c \in Cell : c = rxbuf[j][k]
      BY <3>1 DEF Held
    <3>3. Held(j, c)'
      BY <1>10, <3>1, <3>2
    <3>4. c = rxbuf'[j][k]
      BY <2>1, <3>2
    <3> QED
      BY <3>3, <3>4 DEF Held, InSaved
  <2>2. CASE rxbuf'[j][k] = x
    BY <1>11, <2>2 DEF Held, InSaved
  <2> QED
    BY <1>9, <2>1, <2>2
<1> QED
  BY <1>9, <1>10, <1>12 DEF Udp

(* Something is told, a datagram only after those before it.               *)
LEMMA UdpAdds ==
    ASSUME Types, Types', NEW j \in Sock, Udp(j), IsUdp(j), gen'[j] = gen[j], NEW e, AddsTold(j, e),
           TakesDatagrams(j) => TakesDatagrams(j)' /\ psent[j] <= psent'[j],
           e.evt = "RxUdp" => e.data = <<<<gen[j], psent[j] + 1>>>> /\ psent'[j] = psent[j] + 1 /\ TakesDatagrams(j),
           rxbuf'[j] = rxbuf[j], SavedKept(j)
    PROVE  Udp(j)'
<1>0. PICK n \in Told(j)' :
        /\ evt'[n] = e
        /\ \A k \in Told(j)' : k = n \/ (k \in Told(j) /\ evt'[k] = evt[k])
        /\ \A k \in Told(j) : k \in Told(j)' /\ k < n
  BY DEF AddsTold
<1>1. Ordered(rxbuf[j]) /\ (\A k \in Payload(rxbuf[j]) : Held(j, rxbuf[j][k])) /\ Caught(j)
  BY DEF Udp
<1>2. psent[j] \in Nat /\ psent'[j] \in Nat /\ Told(j) \subseteq Nat /\ Told(j)' \subseteq Nat
  BY RingFacts, RingFactsNext DEF Types, WorkerTypes
<1>3. \A k \in UdpTold(j)' : (k \in UdpTold(j) /\ evt'[k] = evt[k]) \/ (k = n /\ e.evt = "RxUdp" /\ evt'[k] = e)
  BY <1>0 DEF UdpTold
<1>4. e.evt = "RxUdp" => /\ Number(e) = psent[j] + 1 /\ e.data = <<<<gen'[j], Number(e)>>>>
                         /\ TakesDatagrams(j)' /\ psent'[j] = psent[j] + 1
  BY DEF Number
<1>5. ASSUME NEW k \in UdpTold(j)'
      PROVE  /\ evt'[k].data = <<<<gen'[j], Number(evt'[k])>>>> /\ Number(evt'[k]) \in Nat \ {0}
             /\ TakesDatagrams(j)' /\ Number(evt'[k]) <= psent'[j]
             /\ \A l \in UdpTold(j)' : k < l => Number(evt'[k]) < Number(evt'[l])
  <2>1. CASE k \in UdpTold(j) /\ evt'[k] = evt[k]
    <3>1. /\ evt[k].data = <<<<gen[j], Number(evt[k])>>>> /\ Number(evt[k]) \in Nat \ {0}
          /\ TakesDatagrams(j) /\ Number(evt[k]) <= psent[j]
          /\ \A l \in UdpTold(j) : k < l => Number(evt[k]) < Number(evt[l])
      BY <1>1, <2>1 DEF Caught
    <3>2. Number(evt'[k]) <= psent'[j]
      BY <1>2, <2>1, <3>1
    <3>3. ASSUME NEW l \in UdpTold(j)', k < l PROVE Number(evt'[k]) < Number(evt'[l])
      <4>1. CASE l \in UdpTold(j) /\ evt'[l] = evt[l]
        BY <2>1, <3>1, <3>3, <4>1
      <4>2. CASE l = n /\ e.evt = "RxUdp" /\ evt'[l] = e
        BY <1>2, <1>4, <2>1, <3>1, <4>2
      <4> QED
        BY <1>3, <4>1, <4>2
    <3> QED
      BY <2>1, <3>1, <3>2, <3>3
  <2>2. CASE k = n /\ e.evt = "RxUdp" /\ evt'[k] = e
    <3>1. \A l \in UdpTold(j)' : ~(k < l)
      <4> TAKE l \in UdpTold(j)'
      <4>1. l \in Nat /\ n \in Nat /\ (l = n \/ l < n)
        BY <1>0, <1>2 DEF UdpTold
      <4> QED
        BY <2>2, <4>1
    <3>2. Number(e) \in Nat \ {0} /\ Number(e) <= psent'[j]
      BY <1>2, <1>4, <2>2
    <3> QED
      BY <1>4, <2>2, <3>1, <3>2
  <2> QED
    BY <1>3, <2>1, <2>2
<1>6. Caught(j)'
  BY <1>5 DEF Caught
<1>7. ASSUME NEW k \in Payload(rxbuf'[j]) PROVE Held(j, rxbuf[j][k])'
  <2>1. k \in Payload(rxbuf[j]) /\ rxbuf'[j][k] = rxbuf[j][k] /\ k \in 1 .. Len(rxbuf[j])
    BY DEF Payload
  <2>2. Held(j, rxbuf[j][k])
    BY <1>1, <2>1
  <2>3. PICK c \in Cell : c = rxbuf[j][k]
    BY <2>2 DEF Held
  <2>4. CASE c[1] < gen[j] /\ InSaved(j, c)
    <3>1. InSaved(j, c)'
      BY <2>1, <2>3, <2>4 DEF SavedKept
    <3>2. Held(j, c)'
      BY <2>4, <3>1 DEF Held
    <3> QED
      BY <2>1, <2>3, <3>2 DEF Held, InSaved
  <2>5. CASE c[1] = gen[j] /\ TakesDatagrams(j) /\ c[2] <= psent[j] /\ \A l \in UdpTold(j) : c[2] < Number(evt[l])
    <3>1. c[2] \in Int
      BY DEF Cell
    <3>2. c[2] <= psent'[j]
      BY <1>2, <2>5, <3>1
    <3>3. ASSUME NEW l \in UdpTold(j)' PROVE c[2] < Number(evt'[l])
      <4>1. CASE l = n /\ e.evt = "RxUdp" /\ evt'[l] = e
        BY <1>2, <1>4, <2>5, <3>1, <4>1
      <4> QED
        BY <1>3, <2>5, <4>1
    <3>4. Held(j, c)'
      BY <2>5, <3>2, <3>3 DEF Held
    <3> QED
      BY <2>1, <2>3, <3>4 DEF Held, InSaved
  <2> QED
    BY <2>2, <2>3, <2>4, <2>5 DEF Held
<1> QED
  BY <1>1, <1>6, <1>7 DEF Udp

LEMMA KeptSaved ==
    ASSUME NEW j \in Sock, saved' = saved \/ Snapshot
    PROVE  SavedKept(j)
<1>1. CASE saved' = saved
  BY <1>1 DEF SavedKept, InSaved
<1>2. CASE Snapshot
  <2>1. saved' # << >> /\ saved'[1].rxbuf = rxbuf
    BY <1>2, SnapshotSaves
  <2> QED
    BY <2>1 DEF SavedKept, InSaved
<1> QED
  BY <1>1, <1>2

(* Nothing has come.                                                       *)
LEMMA UdpNone ==
    ASSUME NEW j \in Sock, Told(j)' = {}, rxbuf'[j] = << >>
    PROVE  Udp(j)'
<1>1. Payload(rxbuf'[j]) = {}
  BY EmptySeq DEF Payload
<1>2. UdpTold(j)' = {}
  BY DEF UdpTold
<1> QED
  BY <1>1, <1>2 DEF Udp, Ordered, Caught

(* A snapshot comes back.                                                  *)
LEMMA UdpReborn ==
    ASSUME OrderInv, OrderInv', SavedFresh, NEW j \in Sock, Reborn(j), saved' = saved
    PROVE  Udp(j)'
<1> SUFFICES ASSUME IsUdp(j)' PROVE Udp(j)'
  BY DEF Udp
<1>1. Types /\ Types' /\ SavedOld
  BY DEF OrderInv, CardInv, GenOrder
<1>2. saved # << >> /\ rxbuf'[j] = saved[1].rxbuf[j] /\ Told(j)' = {} /\ gen'[j] > gen[j]
  BY DEF Reborn, Anew
<1>3. saved[1].sr[j] = "UDP"
  BY DEF Reborn, IsUdp
<1>4. Ordered(saved[1].rxbuf[j]) /\ \A k \in Payload(saved[1].rxbuf[j]) : saved[1].rxbuf[j][k][1] <= saved[1].gen[j]
  BY <1>2, <1>3 DEF SavedFresh
<1>5. UdpTold(j)' = {}
  BY <1>2 DEF UdpTold
<1>6. saved[1] \in Snap
  BY <1>1, <1>2, SavedType DEF Types
<1>7. saved[1].gen[j] <= gen[j] /\ saved[1].gen[j] \in Nat /\ gen[j] \in Nat /\ gen'[j] \in Nat /\ saved[1].rxbuf[j] \in Seq(Cell)
  <2>1. saved[1].gen[j] \in 1 .. MaxGen /\ saved[1].rxbuf[j] \in Seq(Cell)
    BY <1>6 DEF Snap
  <2>2. saved[1].gen[j] \in Nat
    BY <2>1, SizeFacts
  <2>3. gen[j] \in Nat /\ gen'[j] \in Nat
    BY <1>1, RxTypes, RingFactsNext
  <2> QED
    BY <1>1, <1>2, <2>1, <2>2, <2>3 DEF SavedOld
<1>8. ASSUME NEW k \in Payload(rxbuf'[j]) PROVE Held(j, rxbuf[j][k])'
  <2>1. k \in 1 .. Len(saved[1].rxbuf[j]) /\ k \in Payload(saved[1].rxbuf[j])
    BY <1>2 DEF Payload
  <2>2. PICK c \in Cell : c = saved[1].rxbuf[j][k]
    BY <1>7, <2>1, ElementOfSeq
  <2>3. c[1] \in Int /\ c[1] <= saved[1].gen[j]
    BY <1>4, <2>1, <2>2 DEF Cell
  <2>4. c[1] < gen'[j]
    BY <1>2, <1>7, <2>3
  <2>5. InSaved(j, c)'
    BY <1>2, <2>1, <2>2 DEF InSaved
  <2>6. Held(j, c)' /\ rxbuf'[j][k] = c
    BY <1>2, <2>2, <2>4, <2>5 DEF Held
  <2> QED
    BY <2>6 DEF Held, InSaved
<1> QED
  BY <1>2, <1>4, <1>5, <1>8 DEF Udp, Caught

(* A datagram socket's events.                                             *)
LEMMA UdpFacts ==
    ASSUME CardInv, NEW j \in Sock, IsUdp(j)
    PROVE  /\ \A k \in Told(j) : evt[k].evt \in {"RxUdp", "Status", "SendDone"}
           /\ Wants(j) \subseteq Closes \cup {"OpenUdp", "SendUdp"} \cup RawTx
           /\ AtWork(j) => wst[j] \in {"CLOSED", "UDP"} /\ wfd[j] \notin HostStream
           /\ AtWork(j) /\ wst[j] = "UDP" => TakesDatagrams(j)
<1>1. ProtocolOk(j) /\ HostOk(j) /\ PhaseOk(j)
  BY PhaseSays DEF CardInv
<1>2. Phase(j) = "datagram" /\ ~Opening(j) /\ sr[j] \in Headed
  BY PhaseCases DEF IsUdp, Headed
<1>3. \A k \in Told(j) : evt[k].evt \in {"RxUdp", "Status", "SendDone"}
  BY <1>1, <1>2, PhaseCases DEF ProtocolOk, Heard
<1>4. AtWork(j) /\ wst[j] = "UDP" => TakesDatagrams(j)
  BY <1>1, <1>2 DEF ProtocolOk, Once, Live, Asking, TakesDatagrams, Wants
<1> QED
  BY <1>1, <1>2, <1>3, <1>4 DEF PhaseOk, HostOk

LEMMA UdpChip ==
    ASSUME OrderInv, OrderInv', SavedFresh, NEW j \in Sock, Udp(j), ChipStep(j), saved' = saved \/ Snapshot
    PROVE  Udp(j)'
<1>0. /\ CardInv /\ Types /\ Types' /\ ChipMove(j) /\ HostStill(j) /\ psent'[j] = psent[j] /\ Orderly(j)
      /\ SavedKept(j) /\ psent[j] \in Nat
  BY KeptSaved, RxTypes DEF OrderInv, CardInv, ChipStep
<1> HIDE DEF ChipMove
<1> SUFFICES ASSUME IsUdp(j)' PROVE Udp(j)'
  BY DEF Udp
<1>1. sr'[j] = "UDP" /\ ~Opening(j)'
  BY DEF IsUdp
<1>2. ASSUME gen'[j] = gen[j], "OpenUdp" \in Wants(j)' => "OpenUdp" \in Wants(j)
      PROVE  TakesDatagrams(j) => TakesDatagrams(j)' /\ psent[j] <= psent'[j]
  BY <1>0, <1>2 DEF TakesDatagrams, AtWork, HostStill
<1>3. CASE Ended(j) \/ Asks(j) \/ Frames(j)
  BY <1>1, <1>3 DEF Ended, Asks, Frames
<1>4. CASE Reborn(j)
  <2>1. saved' = saved
    BY <1>0, <1>4, SnapshotSaves, RingFacts DEF Reborn, Anew
  <2> QED
    BY <1>4, <2>1, UdpReborn
<1>5. CASE Opens(j)
  <2>1. Opening(j) /\ KeepsTold(j) /\ rxbuf'[j] = << >>
    BY <1>5 DEF Opens, Quiet
  <2>2. Told(j) = {}
    BY <1>0, <2>1 DEF Orderly, Hears
  <2>3. Told(j)' = {}
    BY <2>1, <2>2 DEF KeepsTold
  <2> QED
    BY <2>1, <2>3, UdpNone
<1>6. CASE Rest(j) \/ Puts(j) \/ Reads(j)
  <2>1. gen'[j] = gen[j] /\ KeepsTold(j) /\ sr[j] = "UDP" /\ IsUdp(j)
    BY <1>1, <1>6 DEF Rest, Puts, Reads, GoesOn, Quiet, IsUdp
  <2>2. PICK a \in {0, 1} : \A k \in Told(j)' : k + a \in Told(j) /\ evt'[k] = evt[k + a]
    BY <2>1 DEF KeepsTold
  <2>3. "OpenUdp" \in Wants(j)' => "OpenUdp" \in Wants(j)
    <3>1. CASE Rest(j) \/ Reads(j)
      BY <1>0, <3>1, WantsKept DEF Rest, Reads, NoRequest
    <3>2. CASE Puts(j)
      <4> DEFINE r == Request(SendMsg(j), j, gen[j], [k \in 1 .. TxLen |-> txn[j] + k])
      <4>1. Offers(j, r) /\ r.msg = "SendUdp"
        BY <2>1, <3>2 DEF Puts, Request, SendMsg, Connected
      <4> HIDE DEF r
      <4>2. Wants(j) \cap Lasts = {} /\ InTurn(j) /\ WholeSends(j)
        BY <1>0, <2>1, UdpFacts DEF Orderly, WholeSends, Lasts, Closes, RawTx
      <4> QED
        BY <1>0, <4>1, <4>2, WantsOffered DEF Ends
    <3> QED
      BY <1>6, <3>1, <3>2
  <2>4. \E n : Rests(rxbuf'[j], rxbuf[j], n)
    <3>1. rxbuf[j] \in Seq(Cell)
      BY <1>0, RxTypes
    <3>2. CASE rxbuf'[j] = rxbuf[j]
      BY <3>1, <3>2, RestsAll
    <3>3. CASE Reads(j)
      <4>1. PICK n \in 1 .. Len(rxbuf[j]) : rxbuf'[j] = ButFirstN(rxbuf[j], n)
        BY <3>3 DEF Reads
      <4>2. PICK b \in Seq(Cell) : b = rxbuf[j]
        BY <3>1
      <4>3. Rests(ButFirstN(b, n), b, n)
        <5>1. Len(b) \in Nat /\ n \in Nat /\ n <= Len(b)
          BY <4>1, <4>2, LenProperties
        <5>2. n + 1 \in 1 .. Len(b) + 1 /\ Len(b) \in (n + 1) - 1 .. Len(b)
          BY <5>1
        <5>3. ButFirstN(b, n) = SubSeq(b, n + 1, Len(b))
          BY DEF ButFirstN
        <5>4. /\ ButFirstN(b, n) \in Seq(Cell) /\ Len(ButFirstN(b, n)) = Len(b) - (n + 1) + 1
              /\ \A k \in 1 .. Len(b) - (n + 1) + 1 : ButFirstN(b, n)[k] = b[(n + 1) + k - 1]
          BY <5>2, <5>3, SubSeqProperties
        <5>5. Len(b) - (n + 1) + 1 = Len(b) - n /\ n \in 0 .. Len(b) /\ \A k \in 1 .. Len(b) - n : (n + 1) + k - 1 = n + k
          BY <5>1
        <5> QED
          BY <5>4, <5>5 DEF Rests
      <4> QED
        BY <4>1, <4>2, <4>3
    <3> QED
      BY <1>6, <3>2, <3>3 DEF Rest, Puts
  <2>5. TakesDatagrams(j) => TakesDatagrams(j)' /\ psent[j] <= psent'[j]
    BY <1>2, <2>1, <2>3
  <2> QED
    BY <1>0, <2>1, <2>2, <2>4, <2>5, UdpShift
<1>7. CASE Learns(j)
  <2>1. PICK e \in Happened :
          /\ Sees(j, e)
          /\ \/ e.evt = "Status" /\ sr'[j] = StatusOf(e.cause)
             \/ e.evt # "Status" /\ (e.evt = "RxUdp" => rxbuf'[j] \in {rxbuf[j], rxbuf[j] \o (<<HeaderCell>> \o e.data)})
    BY <1>7 DEF Learns
  <2>2. gen'[j] = gen[j] /\ KeepsAsked(j) /\ Applies(j, e) /\ ~Opening(j)
    BY <2>1 DEF Sees, GoesOn, NoRequest
  <2>3. e.evt # "Status"
    BY <1>1, <2>1 DEF StatusOf
  <2>4. sr[j] = "UDP" /\ IsUdp(j)
    BY <1>1, <2>1, <2>2, <2>3 DEF Sees, IsUdp
  <2>5. TakesTold(j) /\ e = evt[1] /\ 1 \in Told(j) /\ \A k \in Told(j)' : k + 1 \in Told(j) /\ evt'[k] = evt[k + 1]
    BY <2>2 DEF Applies, TakesTold
  <2>6. e.evt \in {"RxUdp", "SendDone"}
    BY <1>0, <2>3, <2>4, <2>5, UdpFacts
  <2>7. TakesDatagrams(j) => TakesDatagrams(j)' /\ psent[j] <= psent'[j]
    BY <1>0, <1>2, <2>2, WantsKept
  <2>8. CASE rxbuf'[j] = rxbuf[j]
    <3>1. rxbuf[j] \in Seq(Cell)
      BY <1>0, RxTypes
    <3>2. Rests(rxbuf'[j], rxbuf[j], 0)
      BY <2>8, <3>1, RestsAll
    <3> QED
      BY <1>0, <2>2, <2>4, <2>5, <2>7, <3>2, UdpShift
  <2>9. CASE e.evt = "RxUdp" /\ rxbuf'[j] = rxbuf[j] \o (<<HeaderCell>> \o e.data)
    BY <1>0, <2>2, <2>4, <2>5, <2>7, <2>9, UdpApplied
  <2> QED
    BY <2>1, <2>3, <2>6, <2>8, <2>9 DEF Sees
<1> QED
  BY <1>0, <1>3, <1>4, <1>5, <1>6, <1>7 DEF ChipMove

(* News.                                                                   *)
LEMMA UdpReports ==
    ASSUME Types, Types', NEW j \in Sock, Udp(j), IsUdp(j), gen'[j] = gen[j], NEW e, Reports(j, e),
           TakesDatagrams(j) => TakesDatagrams(j)' /\ psent[j] <= psent'[j],
           e.evt = "RxUdp" => e.data = <<<<gen[j], psent[j] + 1>>>> /\ psent'[j] = psent[j] + 1 /\ TakesDatagrams(j),
           rxbuf'[j] = rxbuf[j], SavedKept(j)
    PROVE  Udp(j)'
<1>1. CASE Tells(j, e)
  BY <1>1, UdpAdds DEF Tells
<1>2. CASE Quiet(j)
  <2>1. PICK a \in {0, 1} : \A k \in Told(j)' : k + a \in Told(j) /\ evt'[k] = evt[k + a]
    BY <1>2 DEF Quiet, KeepsTold
  <2>2. Rests(rxbuf'[j], rxbuf[j], 0)
    BY RxTypes, RestsAll
  <2> QED
    BY <2>1, <2>2, UdpShift
<1> QED
  BY <1>1, <1>2 DEF Reports

LEMMA UdpWorker ==
    ASSUME OrderInv, OrderInv', NEW j \in Sock, Udp(j), WorkerStep(j)
    PROVE  Udp(j)'
<1>0. /\ CardInv /\ Types /\ Types' /\ WorkerMove(j) /\ ChipStill(j) /\ Orderly(j) /\ HostOk(j) /\ psent[j] \in Nat
      /\ saved' = saved
  BY PhaseSays, RxTypes DEF OrderInv, CardInv, WorkerStep
<1> HIDE DEF WorkerMove
<1> SUFFICES ASSUME IsUdp(j)' PROVE Udp(j)'
  BY DEF Udp
<1>1. /\ IsUdp(j) /\ gen'[j] = gen[j] /\ rxbuf'[j] = rxbuf[j] /\ SavedKept(j)
  BY <1>0, KeptSaved DEF ChipStill, IsUdp
<1>2. /\ Wants(j) \subseteq Closes \cup {"OpenUdp", "SendUdp"} \cup RawTx
      /\ AtWork(j) => wst[j] \in {"CLOSED", "UDP"} /\ wfd[j] \notin HostStream
      /\ AtWork(j) /\ wst[j] = "UDP" => TakesDatagrams(j)
  BY <1>0, <1>1, UdpFacts
<1>3. ASSUME KeepsAsked(j) \/ TakesAsked(j), AtWork(j) => AtWork(j)' /\ psent[j] <= psent'[j]
      PROVE  TakesDatagrams(j) => TakesDatagrams(j)' /\ psent[j] <= psent'[j]
  <2>1. Wants(j)' \subseteq Wants(j)
    BY <1>0, <1>3, WantsKept, WantsTaken DEF Orderly
  <2> QED
    BY <1>3, <2>1 DEF TakesDatagrams
<1>4. ASSUME Quiet(j), TakesDatagrams(j) => TakesDatagrams(j)' /\ psent[j] <= psent'[j] PROVE Udp(j)'
  <2>1. PICK a \in {0, 1} : \A k \in Told(j)' : k + a \in Told(j) /\ evt'[k] = evt[k + a]
    BY <1>4 DEF Quiet, KeepsTold
  <2>2. Rests(rxbuf'[j], rxbuf[j], 0)
    BY <1>0, <1>1, RxTypes, RestsAll
  <2> QED
    BY <1>0, <1>1, <1>4, <2>1, <2>2, UdpShift
<1>5. /\ \A c : StatusEvent(j, gen[j], c).evt = "Status"
      /\ \A m, c, d : Event(m, j, gen[j], c, d).evt = m /\ Event(m, j, gen[j], c, d).data = d
  BY DEF StatusEvent, Event
<1>6. CASE Aside(j) \/ Ignored(j) \/ Gets(j) \/ PeerWrites(j) \/ PeerLeaves(j) \/ Finishes(j)
  <2>1. Quiet(j) /\ (KeepsAsked(j) \/ TakesAsked(j))
    BY <1>6 DEF Aside, Ignored, Gets, PeerWrites, PeerLeaves, Finishes, Silent
  <2>2. AtWork(j) => AtWork(j)' /\ (psent'[j] = psent[j] \/ psent'[j] = psent[j] + 1)
    BY <1>6 DEF Aside, Ignored, Gets, PeerWrites, PeerLeaves, Finishes, HostSame, BytesSame, Goes
  <2>3. AtWork(j) => AtWork(j)' /\ psent[j] <= psent'[j]
    BY <1>0, <2>2
  <2> QED
    BY <1>3, <1>4, <2>1, <2>3
<1>7. CASE Answered(j)
  <2>1. PICK c \in Cause : Reports(j, Event("SendDone", j, gen[j], c, << >>))
    BY <1>7 DEF Answered
  <2>2. TakesAsked(j) /\ (AtWork(j) => AtWork(j)' /\ psent[j] <= psent'[j])
    BY <1>0, <1>7 DEF Answered, HostSame
  <2>3. TakesDatagrams(j) => TakesDatagrams(j)' /\ psent[j] <= psent'[j]
    BY <1>3, <2>2
  <2>4. Event("SendDone", j, gen[j], c, << >>).evt # "RxUdp"
    BY <1>5
  <2> QED
    BY <1>0, <1>1, <2>1, <2>3, <2>4, UdpReports
<1>8. CASE Begun(j)
  <2>1. req[1].msg \in DefinesGen /\ TakesAsked(j)
    BY <1>8 DEF Begun
  <2>2. req[1].msg \in Wants(j)
    BY <1>0, <2>1, WantsTaken DEF Orderly
  <2>3. req[1].msg \in Ends \cup {"OpenUdp"}
    BY <1>2, <2>1, <2>2 DEF DefinesGen, Ends, Closes, RawTx
  <2>4. ~TakesDatagrams(j)
    BY <1>0, <2>2, <2>3 DEF Orderly, TakesDatagrams
  <2>5. Silent(j) \/ Reports(j, StatusEvent(j, gen[j], "Failed"))
    BY <1>8 DEF Begun
  <2>6. StatusEvent(j, gen[j], "Failed").evt # "RxUdp"
    BY <1>5
  <2> QED
    BY <1>0, <1>1, <1>4, <2>4, <2>5, <2>6, UdpReports DEF Silent
<1>9. ~Rises(j) /\ ~Dials(j) /\ ~Dies(j) /\ ~Pushes(j) /\ ~Passes(j) /\ ~Eofs(j)
  BY <1>2 DEF Rises, Dials, Dies, Pushes, Passes, Eofs, Goes
<1>10. CASE Catches(j)
  <2> DEFINE e == Event("RxUdp", j, gen[j], "None", <<<<gen[j], psent[j] + 1>>>>)
  <2>1. Reports(j, e) /\ KeepsAsked(j) /\ Goes(j) /\ psent'[j] = psent[j] + 1 /\ wst[j] = "UDP"
    BY <1>10 DEF Catches
  <2>2. e.data = <<<<gen[j], psent[j] + 1>>>>
    BY <1>5
  <2> HIDE DEF e
  <2>3. TakesDatagrams(j) /\ psent[j] <= psent'[j]
    BY <1>0, <1>2, <2>1 DEF Goes
  <2>4. TakesDatagrams(j) => TakesDatagrams(j)' /\ psent[j] <= psent'[j]
    BY <1>3, <2>1, <2>3 DEF Goes
  <2> QED
    BY <1>0, <1>1, <2>1, <2>2, <2>3, <2>4, UdpReports
<1> QED
  BY <1>0, <1>6, <1>7, <1>8, <1>9, <1>10 DEF WorkerMove, RequestMove, PollMove

UdpInv == OrderInv /\ SavedFresh /\ \A j \in Sock : Udp(j)

LEMMA UdpStart == Init => UdpInv
<1> SUFFICES ASSUME Init PROVE UdpInv
  OBVIOUS
<1>1. 0 \in Sock
  BY SizeFacts
<1>2. saved = << >>
  BY <1>1, StartFacts
<1>3. ASSUME NEW j \in Sock PROVE Udp(j)
  BY StartFacts DEF Udp, IsUdp
<1> QED
  BY <1>2, <1>3, OrderStart DEF UdpInv, SavedFresh

LEMMA UdpStay == UdpInv /\ [Next]_vars => UdpInv'
<1> SUFFICES ASSUME UdpInv, [Next]_vars PROVE UdpInv'
  OBVIOUS
<1>1. OrderInv /\ OrderInv' /\ CardInv /\ RingClear /\ SavedFresh /\ (saved' = saved \/ Snapshot)
  BY OrderStay, SavedStep DEF UdpInv, OrderInv
<1>2. ASSUME NEW j \in Sock PROVE Udp(j)'
  <2>1. Udp(j) /\ (ChipStep(j) \/ WorkerStep(j))
    BY <1>1, Steps DEF UdpInv
  <2> QED
    BY <1>1, <2>1, UdpChip, UdpWorker
<1>3. SavedFresh'
  <2>1. CASE saved' = saved
    BY <1>1, <2>1 DEF SavedFresh
  <2>2. CASE Snapshot
    <3>1. saved' # << >> /\ saved'[1].sr = sr /\ saved'[1].gen = gen /\ saved'[1].rxbuf = rxbuf
      BY <2>2, SnapshotSaves
    <3>2. ASSUME NEW i \in Sock, sr[i] = "UDP"
          PROVE  Ordered(rxbuf[i]) /\ \A k \in Payload(rxbuf[i]) : rxbuf[i][k][1] <= gen[i]
      <4>1. ~Opening(i)
        BY <2>2 DEF Snapshot, Idle, Opening
      <4>2. Ordered(rxbuf[i]) /\ \A k \in Payload(rxbuf[i]) : Held(i, rxbuf[i][k])
        BY <3>2, <4>1 DEF UdpInv, Udp, IsUdp
      <4>3. gen[i] \in Nat
        BY <1>1, RxTypes DEF CardInv
      <4>4. \A c : Held(i, c) => c[1] <= gen[i]
        BY <4>3 DEF Held, Cell
      <4> QED
        BY <4>2, <4>4
    <3> QED
      BY <3>1, <3>2 DEF SavedFresh, Ordered, Payload
  <2> QED
    BY <1>1, <2>1, <2>2
<1> QED
  BY <1>1, <1>2, <1>3 DEF UdpInv

LEMMA UdpSafe == UdpInv => DatagramsFresh
<1> SUFFICES ASSUME UdpInv, NEW i \in Sock, sr[i] = "UDP", ~Reopening(i),
                    NEW k \in {n \in 1 .. Len(rxbuf[i]) : rxbuf[i][n] # HeaderCell},
                    NEW l \in {n \in 1 .. Len(rxbuf[i]) : rxbuf[i][n] # HeaderCell}
             PROVE  /\ \/ rxbuf[i][k][1] = gen[i]
                       \/ saved # << >> /\ \E n \in 1 .. Len(saved[1].rxbuf[i]) : rxbuf[i][k] = saved[1].rxbuf[i][n]
                    /\ k < l => \/ rxbuf[i][k][1] < rxbuf[i][l][1]
                                \/ rxbuf[i][k][1] = rxbuf[i][l][1] /\ rxbuf[i][k][2] < rxbuf[i][l][2]
  BY DEF DatagramsFresh
<1>1. IsUdp(i) /\ Udp(i)
  BY DEF UdpInv, IsUdp, Opening, Reopening
<1>2. k \in Payload(rxbuf[i]) /\ l \in Payload(rxbuf[i])
  BY DEF Payload
<1>3. Held(i, rxbuf[i][k]) /\ (k < l => Less(rxbuf[i][k], rxbuf[i][l]))
  BY <1>1, <1>2 DEF Udp, Ordered
<1> QED
  BY <1>3 DEF Held, InSaved, Less

(* A UDP socket's buffer holds datagrams received for this opening of it,  *)
(* or ones that came back with a snapshot, each at most once and in the    *)
(* order they came: apply_event's generation test keeps out those of the   *)
(* socket the guest had before, and OPEN and restore_state leave no others *)
(* in the buffer.                                                          *)
THEOREM DatagramsStayFresh == Spec => []DatagramsFresh
BY UdpStart, UdpStay, UdpSafe, PTL DEF Spec
=============================================================================
