---------------------------- MODULE BoundedFifo ----------------------------
(***************************************************************************)
(* What every single-producer / single-consumer queue of the emulator      *)
(* promises to the two threads that share it: a bounded first-in first-out *)
(* queue whose operations are atomic, which refuses a message only while   *)
(* it is full and reports "nothing there" only while it is empty.          *)
(***************************************************************************)
EXTENDS Integers, Sequences

CONSTANTS
    Message,   \* what a producer may send
    Capacity   \* how many messages the queue holds

VARIABLES
    q,         \* the messages accepted and not yet received, oldest first
    sendRes,   \* what the last send returned: "none" before the first one
    getRes     \* what the last get returned: << >> or one message

fifoVars == <<q, sendRes, getRes>>

Init ==
    /\ q = << >>
    /\ sendRes = "none"
    /\ getRes = << >>

(* A send that is accepted.                                                *)
Put(m) ==
    /\ Len(q) < Capacity
    /\ q' = Append(q, m)
    /\ sendRes' = "ok"
    /\ UNCHANGED getRes

(* A send that is refused, because the queue is full at that instant.      *)
Refuse ==
    /\ Len(q) = Capacity
    /\ sendRes' = "full"
    /\ UNCHANGED <<q, getRes>>

(* A get that returns the oldest message.                                  *)
Take ==
    /\ q # << >>
    /\ q' = Tail(q)
    /\ getRes' = <<Head(q)>>
    /\ UNCHANGED sendRes

(* A get that returns nothing, because the queue is empty at that instant. *)
Nothing ==
    /\ q = << >>
    /\ getRes' = << >>
    /\ UNCHANGED <<q, sendRes>>

Next ==
    \/ \E m \in Message : Put(m)
    \/ Refuse
    \/ Take
    \/ Nothing

Spec == Init /\ [][Next]_fifoVars
=============================================================================
