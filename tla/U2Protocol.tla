----------------------------- MODULE U2Protocol ----------------------------
(***************************************************************************)
(* What the two halves of the Uthernet II card share (net_protocol.hpp):   *)
(* the request ring from the W5100 chip to the network worker, the event   *)
(* ring back, and the receive credit of every socket.  The rings are       *)
(* SpscRing queues, so by SpscRing!ImplementsFifo each is an atomic        *)
(* bounded FIFO, and that is how they appear here.                         *)
(***************************************************************************)
EXTENDS Integers, Sequences

CONSTANTS
    NSock,     \* U2_NUM_SOCKETS
    ReqCap,    \* kRequestRingDepth - 1
    EvtCap,    \* kEventRingDepth - 1
    RxSize,    \* receiveSize of every socket, from RMSR
    MaxGen     \* bound on the socket generations of a behaviour

ASSUME U2Assumption ==
    /\ NSock \in Nat \ {0}
    /\ ReqCap \in Nat \ {0}
    /\ EvtCap \in Nat \ {0}
    /\ RxSize \in Nat
    /\ MaxGen \in Nat \ {0}

Sock == 0 .. (NSock - 1)

VARIABLES
    req,       \* requests_, oldest first
    evt,       \* events_, oldest first
    credit,    \* rx_credit_: bytes the worker may still take from the host
    running,   \* running_
    reqLost,   \* last generation of a socket that lost a request to a full ring
    evtLost    \* last generation of a socket that lost an event to a full ring

(* NetRequest: data is the payload, one number per byte.                   *)
Request(m, i, g, d) == [msg |-> m, sock |-> i, gen |-> g, data |-> d]

(* NetEvent: evt and cause say what happened, data is the payload.         *)
Event(e, i, g, c, d) ==
    [evt |-> e, sock |-> i, gen |-> g, cause |-> c, data |-> d]

(* A ring that overwrites instead of refusing.                             *)
OfferUnbounded(q, ms, cap) == q \o ms

(* A bounded ring after sending the messages ms in order: what does not    *)
(* fit is refused.                                                         *)
Offer(q, ms, cap) ==
    LET all == q \o ms
    IN  IF Len(all) <= cap THEN all ELSE SubSeq(all, 1, cap)

(* NetWorker::post, for the requests rs of socket i in one generation g.   *)
Post(i, g, rs) ==
    /\ req' = Offer(req, rs, ReqCap)
    /\ reqLost' = IF Len(req) + Len(rs) > ReqCap
                  THEN [reqLost EXCEPT ![i] = g]
                  ELSE reqLost

(* NetWorker::post_event.                                                  *)
PostEvent(e) ==
    /\ evt' = Offer(evt, <<e>>, EvtCap)
    /\ evtLost' = IF Len(evt) = EvtCap
                  THEN [evtLost EXCEPT ![e.sock] = e.gen]
                  ELSE evtLost

(* events_.can_send().                                                     *)
CanSend == Len(evt) < EvtCap
=============================================================================
