----------------------------- MODULE SpscRing ------------------------------
(***************************************************************************)
(* The lock-free ring shared by an emulator thread and a helper thread.    *)
(* The repository has three copies of the same algorithm: SerialQueue      *)
(* (serial devices), u2::SpscRing (Uthernet II) and the SpscRing of        *)
(* hostfst.  head is written only by the producer, tail only by the        *)
(* consumer, and one slot always stays free.                               *)
(*                                                                         *)
(* One action per access to a location the two threads share, so that TLC  *)
(* and the proofs see every interleaving of a send and a get.  A side      *)
(* loads the other's index with acquire and stores its own with release,   *)
(* so these accesses take effect in program order; its own index, which    *)
(* nobody else writes, it may load relaxed.                                *)
(***************************************************************************)
EXTENDS Integers, Sequences

CONSTANTS
    Depth,     \* number of slots: 128, 256, 8 ... in the code
    Message,   \* what the producer sends
    NoMessage  \* the content of a slot that was never written or moved from

ASSUME DepthAssumption == Depth \in Nat /\ Depth >= 2
ASSUME MessageAssumption == NoMessage \notin Message

VARIABLES
    slots,     \* the array
    head,      \* index of the next slot to write
    tail,      \* index of the next slot to read
    ppc,       \* where the producer is in send
    pmsg,      \* the argument of the send in progress
    granted,   \* messages the producer still knows to fit, from space()/can_send()
    sendRes,   \* result of the last send
    cpc,       \* where the consumer is in get
    cmsg,      \* the message get has copied out
    getRes     \* result of the last get

prodVars == <<ppc, pmsg, granted, sendRes>>
consVars == <<cpc, cmsg, getRes>>
vars == <<slots, head, tail, prodVars, consVars>>

Index == 0 .. (Depth - 1)

(* x & (Depth - 1), for an x that is less than twice Depth.                *)
Wrap(x) == IF x >= Depth THEN x - Depth ELSE x

Succ(i) == Wrap(i + 1)

(* get_count: (head - tail) & mask, in unsigned arithmetic.                *)
Count == Wrap(Depth + head - tail)

Init ==
    /\ slots = [i \in Index |-> NoMessage]
    /\ head = 0
    /\ tail = 0
    /\ ppc = "idle"
    /\ pmsg = NoMessage
    /\ granted = 0
    /\ sendRes = "none"
    /\ cpc = "idle"
    /\ cmsg = NoMessage
    /\ getRes = << >>

-----------------------------------------------------------------------------
(* The producer.                                                           *)

IsFull == Succ(head) = tail

SendFull ==
    /\ ppc = "idle"
    /\ IsFull
    /\ sendRes' = "full"
    /\ UNCHANGED <<slots, head, tail, ppc, pmsg, granted, consVars>>

SendCheck(m) ==
    /\ ppc = "idle"
    /\ ~IsFull
    /\ ppc' = "write"
    /\ pmsg' = m
    /\ UNCHANGED <<slots, head, tail, granted, sendRes, consVars>>

(* A send that publishes the slot before it is written.                    *)
SendWritePublishFirst ==
    /\ ppc = "write"
    /\ ppc' = "publish"
    /\ UNCHANGED <<slots, head, tail, pmsg, granted, sendRes, consVars>>

SendWrite ==
    /\ ppc = "write"
    /\ slots' = [slots EXCEPT ![head] = pmsg]
    /\ ppc' = "publish"
    /\ UNCHANGED <<head, tail, pmsg, granted, sendRes, consVars>>

SendPublish ==
    /\ ppc = "publish"
    /\ head' = Succ(head)
    /\ ppc' = "idle"
    /\ granted' = IF granted = 0 THEN 0 ELSE granted - 1
    /\ sendRes' = "ok"
    /\ UNCHANGED <<slots, tail, pmsg, consVars>>

(* A count that takes the ring's depth for its capacity.                   *)
SpaceDepth == Depth - Count

(* space(): how many more sends fit.  can_send() is space() > 0.           *)
Space == (Depth - 1) - Count

AskSpace ==
    /\ ppc = "idle"
    /\ granted' = Space
    /\ UNCHANGED <<slots, head, tail, ppc, pmsg, sendRes, consVars>>

-----------------------------------------------------------------------------
(* The consumer.                                                           *)

IsEmpty == tail = head

GetEmpty ==
    /\ cpc = "idle"
    /\ IsEmpty
    /\ getRes' = << >>
    /\ UNCHANGED <<slots, head, tail, prodVars, cpc, cmsg>>

(* A get that reads the slot before it has looked at head.                 *)
GetCheckUnguarded ==
    /\ cpc = "idle"
    /\ cpc' = "read"
    /\ UNCHANGED <<slots, head, tail, prodVars, cmsg, getRes>>

GetCheck ==
    /\ cpc = "idle"
    /\ ~IsEmpty
    /\ cpc' = "read"
    /\ UNCHANGED <<slots, head, tail, prodVars, cmsg, getRes>>

(* Copied (SerialQueue, hostfst) or moved from (u2::SpscRing): the slot is *)
(* left as it was or empty.                                                *)
GetRead ==
    /\ cpc = "read"
    /\ cmsg' = slots[tail]
    /\ \E left \in {slots[tail], NoMessage} :
          slots' = [slots EXCEPT ![tail] = left]
    /\ cpc' = "publish"
    /\ UNCHANGED <<head, tail, prodVars, getRes>>

GetPublish ==
    /\ cpc = "publish"
    /\ tail' = Succ(tail)
    /\ getRes' = <<cmsg>>
    /\ cpc' = "idle"
    /\ UNCHANGED <<slots, head, prodVars, cmsg>>

Producer ==
    \/ SendFull
    \/ \E m \in Message : SendCheck(m)
    \/ SendWrite
    \/ SendPublish
    \/ AskSpace

Consumer ==
    \/ GetEmpty
    \/ GetCheck
    \/ GetRead
    \/ GetPublish

Next == Producer \/ Consumer

Spec == Init /\ [][Next]_vars

-----------------------------------------------------------------------------
(* The type invariant of the ring and of the two threads' local state.     *)
TypeOK ==
    /\ slots \in [Index -> Message \cup {NoMessage}]
    /\ head \in Index
    /\ tail \in Index
    /\ ppc \in {"idle", "write", "publish"}
    /\ pmsg \in Message \cup {NoMessage}
    /\ granted \in 0 .. (Depth - 1)
    /\ sendRes \in {"none", "ok", "full"}
    /\ cpc \in {"idle", "read", "publish"}
    /\ cmsg \in Message \cup {NoMessage}
    /\ getRes \in {<< >>} \cup {<<m>> : m \in Message}

(* The producer never writes the slot the consumer is reading: the slot    *)
(* array is not atomic, so this is what makes `queue[h] = msg` against     *)
(* `msg = queue[t]` no data race.                                          *)
NoSlotRace == ppc = "write" /\ cpc = "read" => head # tail

(* What space() or can_send() promised stays true until it is used: the    *)
(* producer that was told n messages fit is not refused one of them,       *)
(* whatever the consumer does in between.                                  *)
GrantHonoured == granted + Count <= Depth - 1

-----------------------------------------------------------------------------
(* The queue the ring implements.  A message belongs to it from the store  *)
(* to head until the store to tail; while a get has copied the oldest one  *)
(* out, its value is the consumer's copy.                                  *)

Slot(i) == Wrap(tail + i)

Content(i) == IF i = 0 /\ cpc = "publish" THEN cmsg ELSE slots[Slot(i)]

Contents == [i \in 1 .. Count |-> Content(i - 1)]

Fifo == INSTANCE BoundedFifo WITH
            Capacity <- Depth - 1, q <- Contents

(* Every behaviour of the ring is one of a bounded FIFO queue whose        *)
(* operations are atomic: no message is lost, duplicated, reordered or     *)
(* torn, a send fails only while Depth - 1 messages are waiting, and a get *)
(* returns nothing only while none is.                                     *)
ImplementsFifo == Fifo!Spec
=============================================================================
