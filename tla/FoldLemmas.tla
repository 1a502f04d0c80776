----------------------------- MODULE FoldLemmas -----------------------------
(***************************************************************************)
(* Induction over the steps of a bounded loop, for the definitions of the  *)
(* models that go through a queue item by item.  Sets take the place of    *)
(* predicates: what the loop keeps true of its state is a set T of states, *)
(* and the steps for which it holds are a set S of numbers.                *)
(***************************************************************************)
EXTENDS Integers, WellFoundedInduction, TLAPS

(* Every nonempty set of naturals has a least element.                     *)

LEMMA Least ==
    ASSUME NEW T, T \subseteq Nat, T # {}
    PROVE  \E x \in T : \A y \in T : ~(y < x)
<1>1. \E x \in T : \A y \in T : ~(<<y, x>> \in OpToRel(<, Nat))
  BY NatLessThanWellFounded, WFMin
<1>2. PICK x \in T : \A y \in T : ~(<<y, x>> \in OpToRel(<, Nat))
  BY <1>1
<1>3. \A y \in T : ~(y < x)
  BY <1>2 DEF OpToRel
<1> QED
  BY <1>3

(* Induction from 0 to n: a loop over n items gets through all of them.    *)
LEMMA CountUp ==
    ASSUME NEW n \in Nat, NEW S, 0 \in S, \A i \in 1 .. n : i - 1 \in S => i \in S
    PROVE  0 .. n \subseteq S
<1> SUFFICES ASSUME ~(0 .. n \subseteq S) PROVE FALSE
  OBVIOUS
<1> DEFINE T == {i \in 0 .. n : i \notin S}
<1>1. T \subseteq Nat /\ T # {}
  OBVIOUS
<1>2. PICK x \in T : \A y \in T : ~(y < x)
  BY <1>1, Least
<1>3. x \in 1 .. n
  OBVIOUS
<1>4. x - 1 \in S
  BY <1>2, <1>3
<1> QED
  BY <1>3, <1>4

(* The states of a loop of n steps, each a function g[i] of the state the  *)
(* one before left, exist and stay in T when every step does.              *)
LEMMA StepsExist ==
    ASSUME NEW T, NEW b \in T, NEW n \in Nat, NEW g \in [1 .. n -> [T -> T]]
    PROVE  \E f \in [0 .. n -> T] : f[0] = b /\ \A i \in 1 .. n : f[i] = g[i][f[i - 1]]
<1> DEFINE Upto(f, m) == f \in [0 .. m -> T] /\ f[0] = b /\ \A i \in 1 .. m : f[i] = g[i][f[i - 1]]
           S == {m \in 0 .. n : \E f : Upto(f, m)}
<1>1. 0 \in S
  <2>1. Upto([i \in 0 .. 0 |-> b], 0)
    OBVIOUS
  <2> HIDE DEF Upto
  <2>2. \E f : Upto(f, 0)
    BY <2>1
  <2> QED
    BY <2>2
<1>2. ASSUME NEW m \in 1 .. n, m - 1 \in S PROVE m \in S
  <2>1. PICK f : Upto(f, m - 1)
    BY <1>2
  <2> DEFINE h == [i \in 0 .. m |-> IF i = m THEN g[m][f[m - 1]] ELSE f[i]]
  <2>2. f[m - 1] \in T /\ g[m] \in [T -> T]
    BY <2>1
  <2>3. h \in [0 .. m -> T]
    BY <2>1, <2>2
  <2>4. h[0] = b
    BY <2>1
  <2>5. \A i \in 1 .. m : h[i] = g[i][h[i - 1]]
    <3> SUFFICES ASSUME NEW i \in 1 .. m PROVE h[i] = g[i][h[i - 1]]
      OBVIOUS
    <3>1. CASE i = m
      BY <3>1
    <3>2. CASE i # m
      BY <3>2, <2>1
    <3> QED
      BY <3>1, <3>2
  <2>6. Upto(h, m)
    BY <2>3, <2>4, <2>5
  <2> HIDE DEF Upto, h
  <2>7. \E k : Upto(k, m)
    BY <2>6
  <2> QED
    BY <2>7
<1> HIDE DEF S
<1>3. 0 .. n \subseteq S
  BY <1>1, <1>2, CountUp
<1>4. n \in S
  BY <1>3
<1> QED
  BY <1>4 DEF S
=============================================================================
