-------------------------- MODULE SpscRing_proofs --------------------------
(* Proofs about SpscRing, for every Depth >= 2 and every set of messages.  *)
EXTENDS SpscRing, SequenceTheorems, TLAPS

(***************************************************************************)
(* TypeOK and NoSlotRace are not inductive: that get returns a message and *)
(* never the content of an unwritten slot rests on which slots are filled  *)
(* and on what the two program counters say about the indices.             *)
(***************************************************************************)

(* Every slot from tail up to head holds a message, except that the one    *)
(* being received may have been moved from.                                *)
SlotsFilled ==
    \A i \in Index :
        i < Count /\ ~(i = 0 /\ cpc = "publish") => slots[Slot(i)] \in Message

(* What each program counter implies about the ring.                       *)
PcInv ==
    /\ ppc \in {"write", "publish"} => Succ(head) # tail /\ pmsg \in Message
    /\ ppc = "publish" => slots[head] = pmsg
    /\ cpc \in {"read", "publish"} => head # tail
    /\ cpc = "publish" => cmsg \in Message

RingInv == TypeOK /\ PcInv /\ SlotsFilled /\ GrantHonoured

LEMMA InitRingInv == Init => RingInv
  BY DepthAssumption, MessageAssumption
     DEF Init, RingInv, TypeOK, PcInv, SlotsFilled, GrantHonoured, Index, Count, Wrap, Slot

(* A step preserves RingInv.                                               *)
LEMMA NextRingInv == RingInv /\ [Next]_vars => RingInv'
<1> SUFFICES ASSUME RingInv, [Next]_vars PROVE RingInv'
  OBVIOUS
<1> USE DepthAssumption, MessageAssumption
<1> USE DEF RingInv, Index, Wrap, Succ, Count, Slot, IsFull, IsEmpty, Space, prodVars, consVars
<1>1. CASE SendFull
  BY <1>1 DEF SendFull, TypeOK, PcInv, SlotsFilled, GrantHonoured
<1>2. ASSUME NEW m \in Message, SendCheck(m) PROVE RingInv'
  BY <1>2 DEF SendCheck, TypeOK, PcInv, SlotsFilled, GrantHonoured
<1>3. CASE SendWrite
  <2>1. TypeOK'
    BY <1>3 DEF SendWrite, TypeOK, PcInv
  <2>2. PcInv'
    BY <1>3 DEF SendWrite, TypeOK, PcInv
  <2>3. SlotsFilled'
    <3> SUFFICES ASSUME NEW i \in Index, i < Count, ~(i = 0 /\ cpc = "publish")
                 PROVE  slots'[Slot(i)] \in Message
      BY <1>3 DEF SendWrite, SlotsFilled
    <3>1. Slot(i) \in Index /\ Slot(i) # head
      BY DEF TypeOK
    <3> QED BY <1>3, <3>1 DEF SendWrite, TypeOK, PcInv, SlotsFilled
  <2>4. GrantHonoured'
    BY <1>3 DEF SendWrite, TypeOK, GrantHonoured
  <2> QED BY <2>1, <2>2, <2>3, <2>4
<1>4. CASE SendPublish
  <2>1. TypeOK'
    BY <1>4 DEF SendPublish, TypeOK, PcInv
  <2>2. PcInv'
    BY <1>4 DEF SendPublish, TypeOK, PcInv
  <2>3. SlotsFilled'
    <3> SUFFICES ASSUME NEW i \in Index, i < Count', ~(i = 0 /\ cpc = "publish")
                 PROVE  slots[Slot(i)] \in Message
      BY <1>4 DEF SendPublish, SlotsFilled
    <3>1. i < Count \/ Slot(i) = head
      BY <1>4 DEF SendPublish, TypeOK, PcInv
    <3> QED BY <1>4, <3>1 DEF SendPublish, TypeOK, PcInv, SlotsFilled
  <2>4. GrantHonoured'
    BY <1>4 DEF SendPublish, TypeOK, PcInv, GrantHonoured
  <2> QED BY <2>1, <2>2, <2>3, <2>4
<1>5. CASE AskSpace
  BY <1>5 DEF AskSpace, TypeOK, PcInv, SlotsFilled, GrantHonoured
<1>6. CASE GetEmpty
  BY <1>6 DEF GetEmpty, TypeOK, PcInv, SlotsFilled, GrantHonoured
<1>7. CASE GetCheck
  BY <1>7 DEF GetCheck, TypeOK, PcInv, SlotsFilled, GrantHonoured
<1>8. CASE GetRead
  <2>1. TypeOK'
    BY <1>8 DEF GetRead, TypeOK, PcInv
  <2>2. PcInv'
    BY <1>8 DEF GetRead, TypeOK, PcInv, SlotsFilled
  <2>3. SlotsFilled'
    BY <1>8 DEF GetRead, TypeOK, PcInv, SlotsFilled
  <2>4. GrantHonoured'
    BY <1>8 DEF GetRead, TypeOK, GrantHonoured
  <2> QED BY <2>1, <2>2, <2>3, <2>4
<1>9. CASE GetPublish
  <2>1. TypeOK'
    BY <1>9 DEF GetPublish, TypeOK, PcInv
  <2>2. PcInv'
    BY <1>9 DEF GetPublish, TypeOK, PcInv
  <2>3. SlotsFilled'
    <3> SUFFICES ASSUME NEW i \in Index, i < Count'
                 PROVE  slots[Slot(i)'] \in Message
      BY <1>9 DEF GetPublish, SlotsFilled
    <3>1. i + 1 \in Index /\ i + 1 < Count /\ Slot(i)' = Slot(i + 1)
      BY <1>9 DEF GetPublish, TypeOK, PcInv
    <3>2. slots[Slot(i + 1)] \in Message
      <4> HIDE DEF Slot, Count
      <4> QED BY <3>1 DEF SlotsFilled
    <3> QED BY <3>1, <3>2
  <2>4. GrantHonoured'
    BY <1>9 DEF GetPublish, TypeOK, PcInv, GrantHonoured
  <2> QED BY <2>1, <2>2, <2>3, <2>4
<1>10. CASE UNCHANGED vars
  BY <1>10 DEF vars, TypeOK, PcInv, SlotsFilled, GrantHonoured
<1> QED
  BY <1>1, <1>2, <1>3, <1>4, <1>5, <1>6, <1>7, <1>8, <1>9, <1>10
     DEF Next, Producer, Consumer

(* RingInv holds in every reachable state.                                 *)
THEOREM RingInvariant == Spec => []RingInv
  BY InitRingInv, NextRingInv, PTL DEF Spec

(* Every reachable state is well typed; in particular a get never returns  *)
(* an unwritten or moved-from slot.                                        *)
THEOREM TypeCorrect == Spec => []TypeOK
  BY RingInvariant, PTL DEF RingInv

(* The producer never writes the slot a get is reading, at any depth: the  *)
(* slot array needs no lock.                                               *)
THEOREM NoRace == Spec => []NoSlotRace
<1>1. RingInv => NoSlotRace
  BY DEF RingInv, PcInv, NoSlotRace
<1> QED BY <1>1, RingInvariant, PTL

(* What space() promised stays true whatever the consumer does.            *)
THEOREM GrantsHonoured == Spec => []GrantHonoured
  BY RingInvariant, PTL DEF RingInv

-----------------------------------------------------------------------------
(***************************************************************************)
(* The ring implements BoundedFifo.                                        *)
(***************************************************************************)

(* The abstract queue is a sequence of messages, Count long.               *)
LEMMA ContentsFacts ==
  ASSUME RingInv
  PROVE  /\ Count \in 0 .. (Depth - 1)
         /\ Contents \in Seq(Message)
         /\ Len(Contents) = Count
         /\ \A i \in 1 .. Count : Contents[i] = Content(i - 1)
<1> USE DepthAssumption, MessageAssumption
<1>1. Count \in 0 .. (Depth - 1)
  BY DEF RingInv, TypeOK, Index, Count, Wrap
<1>2. ASSUME NEW i \in 1 .. Count PROVE Content(i - 1) \in Message
  <2>1. i - 1 \in Index /\ i - 1 < Count
    BY <1>1 DEF Index
  <2>2. CASE i - 1 = 0 /\ cpc = "publish"
    BY <2>2 DEF RingInv, PcInv, Content
  <2>3. CASE ~(i - 1 = 0 /\ cpc = "publish")
    BY <2>1, <2>3 DEF RingInv, SlotsFilled, Content
  <2> QED BY <2>2, <2>3
<1>3. Contents \in Seq(Message) /\ Len(Contents) = Count
  BY <1>1, <1>2 DEF Contents
<1> QED BY <1>1, <1>3 DEF Contents

(* A step of the ring that changes neither the indices nor the value of a  *)
(* waiting message changes nothing in the abstract queue.                  *)
LEMMA SameContents ==
  ASSUME RingInv, Count' = Count, \A i \in 0 .. (Count - 1) : Content(i)' = Content(i)
  PROVE  Contents' = Contents
<1>1. Count \in Nat
  BY ContentsFacts
<1>2. Contents' = [i \in 1 .. Count |-> Content(i - 1)']
  BY DEF Contents
<1>3. \A i \in 1 .. Count : Content(i - 1)' = Content(i - 1)
  BY <1>1
<1> QED BY <1>2, <1>3 DEF Contents

(* Every step of the ring is a step of the queue or a stutter: a send      *)
(* takes effect when it publishes head, a get when it publishes tail.      *)
LEMMA NextRefines ==
  ASSUME RingInv, RingInv', [Next]_vars
  PROVE  [Fifo!Next]_(Fifo!fifoVars)
<1> USE DepthAssumption, MessageAssumption
<1> DEFINE Same == Contents' = Contents /\ sendRes' = sendRes /\ getRes' = getRes
<1>s. Same => [Fifo!Next]_(Fifo!fifoVars)
  BY DEF Fifo!fifoVars
<1>t. /\ head \in Index /\ tail \in Index
      /\ Count \in 0 .. (Depth - 1)
      /\ Contents \in Seq(Message)
      /\ Len(Contents) = Count
      /\ \A i \in 1 .. Count : Contents[i] = Content(i - 1)
  BY ContentsFacts DEF RingInv, TypeOK
<1>1. CASE SendFull
  <2>1. Contents' = Contents
    BY <1>1 DEF SendFull, Contents, Content, Slot, Count, consVars
  <2>2. Len(Contents) = Depth - 1
    BY <1>1, <1>t DEF SendFull, IsFull, Count, Succ, Wrap, Index
  <2> QED BY <1>1, <2>1, <2>2 DEF SendFull, Fifo!Next, Fifo!Refuse, consVars
<1>2. ASSUME NEW m \in Message, SendCheck(m) PROVE Same
  BY <1>2 DEF SendCheck, Contents, Content, Slot, Count, consVars
<1>3. CASE SendWrite
  <2>1. Count' = Count
    BY <1>3 DEF SendWrite, Count
  <2>2. ASSUME NEW i \in 0 .. (Count - 1) PROVE Content(i)' = Content(i)
    <3>1. Slot(i) # head /\ Slot(i)' = Slot(i)
      BY <1>3, <1>t DEF SendWrite, Slot, Count, Wrap, Index
    <3>2. slots'[Slot(i)] = slots[Slot(i)]
      BY <1>3, <3>1 DEF SendWrite, RingInv, TypeOK
    <3> QED BY <1>3, <3>1, <3>2 DEF SendWrite, Content, consVars
  <2> QED BY <1>3, <1>s, <2>1, <2>2, SameContents DEF SendWrite, consVars
<1>4. CASE SendPublish
  <2>1. Count' = Count + 1 /\ Count < Depth - 1
    BY <1>4, <1>t DEF SendPublish, RingInv, PcInv, Count, Succ, Wrap, Index
  <2>2. ASSUME NEW i \in 0 .. (Count - 1) PROVE Content(i)' = Content(i)
    BY <1>4 DEF SendPublish, Content, Slot, consVars
  <2> PICK n \in Nat : n = Count
    BY <1>t
  <2>3. Content(n)' = pmsg
    <3>1. Slot(n) = head
      BY <1>t DEF Slot, Count, Wrap, Index
    <3>2. ~(n = 0 /\ cpc = "publish")
      BY <1>t DEF RingInv, PcInv, Count, Wrap, Index
    <3>3. Content(n)' = slots[Slot(n)]
      BY <1>4, <3>2 DEF SendPublish, Content, Slot, consVars
    <3> QED BY <1>4, <3>1, <3>3 DEF SendPublish, RingInv, PcInv
  <2>4. Contents' = Append(Contents, pmsg)
    <3>1. Contents' = [i \in 1 .. (n + 1) |-> Content(i - 1)']
      BY <2>1 DEF Contents
    <3>2. \A i \in 1 .. n : Content(i - 1)' = Contents[i]
      BY <2>2, <1>t
    <3>3. pmsg \in Message
      BY <1>4 DEF SendPublish, RingInv, PcInv
    <3>4. Contents' \in Seq(Message) /\ Len(Contents') = n + 1
      <4>1. ASSUME NEW i \in 1 .. (n + 1) PROVE Content(i - 1)' \in Message
        <5>1. CASE i \in 1 .. n
          <6>1. Contents[i] \in Message
            BY <5>1, <1>t
          <6> QED BY <5>1, <6>1, <3>2
        <5>2. CASE i = n + 1
          BY <5>2, <3>3, <2>3
        <5> QED BY <5>1, <5>2
      <4> QED BY <3>1, <4>1
    <3>5. \A i \in 1 .. (n + 1) : Contents'[i] = Append(Contents, pmsg)[i]
      BY <3>1, <3>2, <3>3, <2>3, <1>t, AppendProperties
    <3> QED BY <3>3, <3>4, <3>5, <1>t, AppendProperties, SeqEqual
  <2>5. pmsg \in Message
    BY <1>4 DEF SendPublish, RingInv, PcInv
  <2> QED BY <1>4, <1>t, <2>1, <2>4, <2>5 DEF SendPublish, Fifo!Next, Fifo!Put, consVars
<1>5. CASE AskSpace
  <2>1. Same
    BY <1>5 DEF AskSpace, Contents, Content, Slot, Count, consVars
  <2> QED BY <2>1, <1>s
<1>6. CASE GetEmpty
  <2>1. Contents' = Contents
    BY <1>6 DEF GetEmpty, Contents, Content, Slot, Count, prodVars
  <2>2. Len(Contents) = 0
    BY <1>6, <1>t DEF GetEmpty, IsEmpty, Count, Wrap, Index
  <2>3. Contents = << >>
    BY <1>t, <2>2
  <2> QED BY <1>6, <2>1, <2>3 DEF GetEmpty, Fifo!Next, Fifo!Nothing, prodVars
<1>7. CASE GetCheck
  <2>1. Count' = Count
    BY <1>7 DEF GetCheck, Count
  <2>2. ASSUME NEW i \in 0 .. (Count - 1) PROVE Content(i)' = Content(i)
    BY <1>7 DEF GetCheck, Content, Slot
  <2> QED BY <1>7, <1>s, <2>1, <2>2, SameContents DEF GetCheck, prodVars
<1>8. CASE GetRead
  <2>1. Count' = Count
    BY <1>8 DEF GetRead, Count
  <2>2. ASSUME NEW i \in 0 .. (Count - 1) PROVE Content(i)' = Content(i)
    <3>1. CASE i = 0
      <4>1. Slot(0) = tail
        BY <1>t DEF Slot, Wrap, Index
      <4> QED BY <1>8, <3>1, <4>1 DEF GetRead, Content
    <3>2. CASE i # 0
      <4>0. i \in 1 .. (Depth - 1) /\ tail \in 0 .. (Depth - 1) /\ Depth \in Nat
        BY <1>t, <3>2 DEF Index
      <4>1. Slot(i) # tail /\ Slot(i)' = Slot(i)
        <5>1. Slot(i) # tail
          BY <4>0 DEF Slot, Wrap
        <5>2. Slot(i)' = Slot(i)
          BY <1>8 DEF GetRead, Slot
        <5> QED BY <5>1, <5>2
      <4>2. slots'[Slot(i)] = slots[Slot(i)]
        BY <1>8, <4>1 DEF GetRead, RingInv, TypeOK
      <4> QED BY <3>2, <4>1, <4>2 DEF Content
    <3> QED BY <3>1, <3>2
  <2> QED BY <1>8, <1>s, <2>1, <2>2, SameContents DEF GetRead, prodVars
<1>9. CASE GetPublish
  <2>1. Count' = Count - 1 /\ Count > 0
    BY <1>9, <1>t DEF GetPublish, RingInv, PcInv, Count, Succ, Wrap, Index
  <2>2. ASSUME NEW i \in 0 .. (Count - 2) PROVE Content(i)' = Content(i + 1)
    <3>1. Slot(i)' = Slot(i + 1)
      BY <1>9, <1>t DEF GetPublish, Slot, Count, Succ, Wrap, Index
    <3>2. i + 1 # 0
      BY <1>t
    <3> QED BY <1>9, <3>1, <3>2 DEF GetPublish, Content
  <2>3. Head(Contents) = cmsg
    BY <1>9, <1>t, <2>1 DEF GetPublish, Content
  <2>4. Contents' = Tail(Contents)
    <3>1. Contents' = [i \in 1 .. (Count - 1) |-> Content(i - 1)']
      BY <2>1 DEF Contents
    <3>2. \A i \in 1 .. (Count - 1) : Content(i - 1)' = Content(i)
      BY <2>2, <1>t
    <3>3. Tail(Contents) = [i \in 1 .. (Count - 1) |-> Contents[i + 1]]
      BY <1>t, <2>1, Contents # << >>, HeadTailProperties, LenProperties
    <3>4. \A i \in 1 .. (Count - 1) : Contents[i + 1] = Content(i)
      BY <1>t
    <3> QED BY <3>1, <3>2, <3>3, <3>4
  <2>5. Contents # << >>
    BY <1>t, <2>1
  <2> QED BY <1>9, <2>3, <2>4, <2>5 DEF GetPublish, Fifo!Next, Fifo!Take, prodVars
<1>10. CASE UNCHANGED vars
  <2>1. Same
    BY <1>10 DEF vars, prodVars, consVars, Contents, Content, Slot, Count
  <2> QED BY <2>1, <1>s
<1> QED
  BY <1>s, <1>1, <1>2, <1>3, <1>4, <1>5, <1>6, <1>7, <1>8, <1>9, <1>10
     DEF Next, Producer, Consumer

(* Every behaviour of the ring is a behaviour of a bounded FIFO queue of   *)
(* Depth - 1 messages with atomic operations.                              *)
THEOREM Refinement == Spec => ImplementsFifo
<1>1. Init => Fifo!Init
  BY DepthAssumption DEF Init, Fifo!Init, Contents, Count, Wrap
<1> QED
  BY <1>1, NextRefines, RingInvariant, PTL DEF Spec, ImplementsFifo, Fifo!Spec
=============================================================================
