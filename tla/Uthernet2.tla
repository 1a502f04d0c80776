----------------------------- MODULE Uthernet2 -----------------------------
(***************************************************************************)
(* The Uthernet II card: the W5100 chip on the emulator thread and the     *)
(* network worker, running concurrently.                                   *)
(***************************************************************************)
EXTENDS W5100Chip, NetWorker

vars == <<chipVars, workVars, hostVars, req, evt, credit, running, reqLost, evtLost>>

Init == ChipInit /\ NetInit

(* SDL_WaitThread returns when the worker has ended.                       *)
StopJoin ==
    /\ emu = <<"join", 0>>
    /\ wpc = "done"
    /\ emu' = <<"stopped", 0>>
    /\ UNCHANGED <<sr, gen, mr, ir, rxbuf, rxpend, saved, saves, ghosts,
                   workVars, hostVars, req, evt, credit, running, reqLost, evtLost>>

Stopped == emu = <<"stopped", 0>> /\ UNCHANGED vars

Emulator == ChipNext /\ UNCHANGED <<workVars, hostVars>>
Worker == WorkerNext /\ UNCHANGED chipVars
Peer == PeerNext /\ UNCHANGED chipVars

Next == Emulator \/ Worker \/ Peer \/ StopJoin \/ Stopped

Spec == Init /\ [][Next]_vars

(* The worker's loop waits at most 5 ms; a frame ends 60 times a second    *)
(* and its handler runs to its end; a stop in progress goes on; the host   *)
(* ends a connection attempt one way or the other.                         *)
EmulatorGoesOn ==
    /\ \/ TickBegin
       \/ ApplyEvent
       \/ TickEnd
       \/ \E i \in Sock : OpenFinish(i) \/ Restore(i)
    /\ UNCHANGED <<workVars, hostVars>>

HostAnswers == PollConnectDone /\ UNCHANGED chipVars

FairSpec ==
    /\ Spec
    /\ WF_vars(Worker)
    /\ WF_vars(EmulatorGoesOn)
    /\ WF_vars(StopJoin)
    /\ SF_vars(HostAnswers)

-----------------------------------------------------------------------------
Status == {"CLOSED", "INIT", "SYNSENT", "LISTEN", "ESTABLISHED", "CLOSE_WAIT",
           "UDP", "MACRAW", "IPRAW"}

(* The type invariant of the state that properties relate.                 *)
TypeOK ==
    /\ sr \in [Sock -> Status]
    /\ gen \in [Sock -> 1 .. MaxGen]
    /\ ir \in [Sock -> SUBSET {"CON", "DISCON", "RECV", "TIMEOUT", "SEND_OK"}]
    /\ credit \in [Sock -> Int]
    /\ Len(req) <= ReqCap
    /\ Len(evt) <= EvtCap
    /\ \A i \in Sock : Len(rxbuf[i]) + Len(rxpend[i]) <= RxSize
    /\ wgen \in [Sock -> 0 .. MaxGen]
    /\ wst \in [Sock -> Status]
    /\ wfd \in [Sock -> {"none", "tcp", "listen", "udp"}]

(* The received bytes for socket i in generation g that event e carries,   *)
(* and the ones that a sequence of events carries.                         *)
Carried(e, i, g) == IF e.evt = "RxTcp" /\ e.sock = i /\ e.gen = g THEN e.data ELSE << >>

AllCarried(q, i, g) ==
    LET upTo[n \in 0 .. Len(q)] == IF n = 0 THEN << >> ELSE upTo[n - 1] \o Carried(q[n], i, g)
    IN  upTo[Len(q)]

(* The received bytes of socket i's current connection that are on their   *)
(* way to the chip: in the event ring, then in the worker's hands.         *)
InRing(i) == AllCarried(evt, i, gen[i])

InHand(i) == IF wi = i /\ wgen[i] = gen[i] THEN wgot ELSE << >>

OnTheWay(i) == InRing(i) \o InHand(i)

(* OPEN or a restore of socket i is under way; no guest code runs.         *)
Reopening(i) == emu \in {<<"open", i>>, <<"restore", i>>}

TcpOpen(i) == ~Reopening(i) /\ sr[i] \in {"INIT", "SYNSENT", "LISTEN"} \cup Connected

(* What the guest of a connected socket can read, now and later, is what   *)
(* the peer sent, in order, with nothing lost, repeated or left over from  *)
(* an earlier connection but the bytes a restore brought back, which come  *)
(* first: apply_event's generation test, the two rings, the credit and     *)
(* flush_tcp_pending together carry one TCP stream.                        *)
RxStreamIntact ==
    \A i \in Sock :
        sr[i] \in Connected /\ ~Reopening(i) =>
            LET s == rxbuf[i] \o rxpend[i] \o OnTheWay(i)
                     \o (IF wgen[i] = gen[i] THEN kin[i] ELSE << >>)
            IN  \A k \in 1 .. Len(s) : taken[i] + k > 0 => s[k] = <<gen[i], taken[i] + k>>

(* When the guest sees CLOSE_WAIT, every byte the peer sent before it      *)
(* closed is in the guest's buffer or has been read: the status travels    *)
(* behind the data.                                                        *)
CloseWaitAfterData ==
    \A i \in Sock :
        sr[i] = "CLOSE_WAIT" /\ ~Reopening(i) /\ wgen[i] = gen[i] /\ wst[i] = "CLOSE_WAIT" =>
            taken[i] + Len(rxbuf[i]) + Len(rxpend[i]) = psent[i]

(* The worker never has the right to more bytes than the guest's buffer    *)
(* has room for, whatever is on its way, across closes, reopens and        *)
(* resets that race with a ::recv; so rx_pending is never needed.          *)
CreditFitsBuffer ==
    \A i \in Sock :
        TcpOpen(i) =>
            /\ rxpend[i] = << >>
            /\ Len(rxbuf[i]) + Len(OnTheWay(i)) + MaxOf(credit[i], 0)
                  <= MaxOf(RxSize - 1, 0)

(* A TCP socket that is open, opened again by a restore included, can      *)
(* receive: unless its buffer is full of data the guest has yet to read,   *)
(* or more is on its way, the worker has credit for it.                    *)
OpenHasWindow ==
    \A i \in Sock :
        TcpOpen(i) /\ Idle /\ RxSize > 1 =>
            Len(rxbuf[i]) + Len(OnTheWay(i)) + credit[i] > 0

(* No request of socket i waits and no status of its generation is on its  *)
(* way, none was lost to a full ring, and no command is half done.         *)
Settled(i) ==
    /\ wgen[i] = gen[i]
    /\ reqLost[i] # gen[i]
    /\ evtLost[i] # gen[i]
    /\ ~Reopening(i)
    /\ wpc # "done"
    /\ \A k \in 1 .. Len(req) : req[k].sock # i
    /\ \A k \in 1 .. Len(evt) :
          ~(evt[k].sock = i /\ evt[k].evt = "Status" /\ evt[k].gen = gen[i])

(* Once settled, a socket the guest does not see CLOSED is in the same     *)
(* state on the host, although either side may change its own at any time. *)
StatusAgrees ==
    \A i \in Sock :
        Settled(i) /\ sr[i] # "CLOSED" =>
            wst[i] = IF sr[i] \in {"MACRAW", "IPRAW"} THEN "CLOSED" ELSE sr[i]

(* A late "connected" or "closed" never lands on a socket the guest has    *)
(* since replaced: what the guest saw CLOSED stays closed until it is      *)
(* opened again in a new generation.                                       *)
ClosedStaysClosed ==
    [][\A i \in Sock : sr[i] = "CLOSED" /\ gen'[i] = gen[i] /\ ~Reopening(i)
                        => sr'[i] = "CLOSED"]_vars

(* A generation only ever grows, the worker and everything in the rings    *)
(* are never ahead of the chip, and requests of a socket are in the order  *)
(* of their generations.                                                   *)
GenerationOrder ==
    \A i \in Sock :
        /\ wgen[i] <= gen[i]
        /\ \A k \in 1 .. Len(req) :
              req[k].sock = i /\ req[k].msg # "Shutdown" =>
                 /\ req[k].gen \in wgen[i] .. gen[i]
                 /\ \A l \in 1 .. k :
                       req[l].sock = i /\ req[l].msg # "Shutdown" => req[l].gen <= req[k].gen
        /\ \A k \in 1 .. Len(evt) : evt[k].sock = i => evt[k].gen <= gen[i]

(* Bytes reach the host in the order of the SENDs with none missing,       *)
(* short ::send or not, unless the request ring refused one.               *)
TxStreamIntact ==
    \A i \in Sock :
        wgen[i] = gen[i] /\ reqLost[i] # gen[i] =>
            hostgot[i] \o txp[i] = [k \in 1 .. (Len(hostgot[i]) + Len(txp[i])) |-> k]

(* The guest never counts more SEND_OKs than whole SENDs the host took.    *)
SendOkAfterSent ==
    \A i \in Sock :
        sr[i] \in Connected /\ ~Reopening(i) /\ wgen[i] = gen[i] => sendoks[i] * TxLen <= Len(hostgot[i])

(* A datagram is in the buffer whole or not at all, and the buffer is      *)
(* never filled: a header is always followed by its payload, whichever     *)
(* mix of datagrams and raw frames arrives and whenever room runs out.     *)
DatagramsWhole ==
    \A i \in Sock :
        /\ Len(rxbuf[i]) <= MaxOf(RxSize - 1, 0)
        /\ \A k \in 1 .. Len(rxbuf[i]) :
              rxbuf[i][k] = HeaderCell => k < Len(rxbuf[i]) /\ rxbuf[i][k + 1] # HeaderCell

(* A UDP socket holds datagrams of its own generation, or ones that came  *)
(* back with a snapshot, never one that was received for the socket the    *)
(* guest had before, and each at most once, in order.                      *)
DatagramsFresh ==
    \A i \in Sock :
        sr[i] = "UDP" /\ ~Reopening(i) =>
            \A k, l \in {n \in 1 .. Len(rxbuf[i]) : rxbuf[i][n] # HeaderCell} :
                /\ \/ rxbuf[i][k][1] = gen[i]
                   \/ saved # << >> /\ \E n \in 1 .. Len(saved[1].rxbuf[i]) :
                                         rxbuf[i][k] = saved[1].rxbuf[i][n]
                /\ k < l => \/ rxbuf[i][k][1] < rxbuf[i][l][1]
                            \/ rxbuf[i][k][1] = rxbuf[i][l][1] /\ rxbuf[i][k][2] < rxbuf[i][l][2]

(* CONNECT ends: the guest does not poll SYNSENT for ever, unless a        *)
(* request or the answer was lost to a full ring.                          *)
ConnectEnds ==
    \A i \in Sock : \A g \in 1 .. MaxGen :
        (sr[i] = "SYNSENT" /\ gen[i] = g)
            ~> (sr[i] # "SYNSENT" \/ gen[i] # g \/ reqLost[i] = g \/ evtLost[i] = g
                \/ emu[1] \in {"join", "stopped"})

(* stop() returns, even when the ring refuses the Shutdown request, and    *)
(* the worker has closed its sockets by then.                              *)
StopEnds == emu[1] = "join" ~> (emu[1] = "stopped" /\ \A i \in Sock : wfd[i] = "none")
=============================================================================
