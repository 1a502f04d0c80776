---------------------------- MODULE Modem_proofs ----------------------------
(***************************************************************************)
(* Theorems about the modem, for rings, buffers and scripts of any size    *)
(* and any number of connections and events.                               *)
(*                                                                         *)
(* IInv is the inductive invariant.  Good, its main part, is about the     *)
(* device record and is kept by each function of the device on its own,    *)
(* so the lemma of an action composes those of the functions it calls.     *)
(* The parts of Good:                                                      *)
(*   QueueOk   what is in the ring to the port: its bound, and items of    *)
(*             no later connection than the current one;                   *)
(*   SocketOk  a socket that is not connected has no bytes and leaves no   *)
(*             read buffer behind;                                         *)
(*   RxGood    what the guest has, what waits in the ring and in the       *)
(*             buffer, and what is still to come from the host make up the *)
(*             host's script.  The bytes to come are heard by the telnet   *)
(*             machine (Hears) from the state the device's machine is in,  *)
(*             also in the middle of a negotiation: without that state     *)
(*             RxIntact says nothing about the next byte read;             *)
(*   TxGood    what the host has been sent is what was typed, less the     *)
(*             last escapeCount characters, which are all '+': TxIntact    *)
(*             alone does not say that those held back can still be sent.  *)
(* CallOk ties the thread's program counter to the socket, since a dial    *)
(* spans several steps; HostOk and PortOk bound the rest of the state.     *)
(***************************************************************************)
EXTENDS Modem, FoldLemmas, SequenceTheorems

-----------------------------------------------------------------------------
(* Sequences.                                                              *)

LEMMA HeadTail ==
    ASSUME NEW S, NEW q \in Seq(S), q # << >>
    PROVE  /\ Head(q) \in S /\ Head(q) = q[1] /\ Tail(q) \in Seq(S)
           /\ Len(q) \in Nat \ {0} /\ Len(Tail(q)) = Len(q) - 1
           /\ \A k \in 1 .. Len(Tail(q)) : Tail(q)[k] = q[k + 1]
BY HeadTailProperties, LenProperties, EmptySeq, ElementOfSeq

(* Facts about \o and Append, named so that they can be instantiated.      *)
Associates(S) == \A x, y, z \in Seq(S) : (x \o y) \o z = x \o (y \o z)
AppendsThrough(S) ==
    \A x, y \in Seq(S), b \in S : x \o y \in Seq(S) /\ Append(x \o y, b) = x \o Append(y, b)

LEMMA Assoc ==
    ASSUME NEW S
    PROVE  Associates(S)
BY ConcatAssociative DEF Associates

LEMMA AppendConcat ==
    ASSUME NEW S
    PROVE  AppendsThrough(S)
<1> SUFFICES ASSUME NEW x \in Seq(S), NEW y \in Seq(S), NEW b \in S
             PROVE  x \o y \in Seq(S) /\ Append(x \o y, b) = x \o Append(y, b)
  BY Zenon DEF AppendsThrough
<1>1. x \o y \in Seq(S)
  BY ConcatProperties
<1> DEFINE z == <<b>>
<1>2. z \in Seq(S)
  OBVIOUS
<1>3. Append(y, b) = y \o z /\ Append(x \o y, b) = (x \o y) \o z
  BY <1>1, AppendIsConcat, Zenon
<1> HIDE DEF z
<1>5. Associates(S)
  BY Assoc
<1>4. (x \o y) \o z = x \o (y \o z)
  BY <1>2, <1>5, Zenon DEF Associates
<1> QED
  BY <1>1, <1>3, <1>4, Zenon

(* Two loops that start the same and make the same steps end the same.     *)
LEMMA SameEnd ==
    ASSUME NEW n \in Nat, NEW e, NEW f, e[0] = f[0],
           \A k \in 1 .. n : e[k - 1] = f[k - 1] => e[k] = f[k]
    PROVE  e[n] = f[n]
<1> DEFINE S == {k \in 0 .. n : e[k] = f[k]}
<1>1. 0 \in S /\ \A k \in 1 .. n : k - 1 \in S => k \in S
  OBVIOUS
<1> HIDE DEF S
<1>2. 0 .. n \subseteq S
  BY <1>1, CountUp
<1>3. n \in S
  BY <1>2
<1> QED
  BY <1>3 DEF S

(* f[n] is the first n sequences of ss, joined.                            *)
JoinedBy(f, ss, S) ==
    /\ f \in [0 .. Len(ss) -> Seq(S)]
    /\ f[0] = << >>
    /\ \A n \in 1 .. Len(ss) : f[n] = f[n - 1] \o ss[n]
    /\ Joined(ss) = f[Len(ss)]

ConcatClosed(T) == \A x, y \in T : x \o y \in T

ConcatRun(f, T, n, e, c) ==
    f \in [0 .. n -> T] /\ f[0] = e /\ \A k \in 1 .. n : f[k] = f[k - 1] \o c[k]

LEMMA ConcatSteps ==
    ASSUME NEW T, NEW n \in Nat, NEW c \in [1 .. n -> T], NEW e \in T, ConcatClosed(T)
    PROVE  \E f : ConcatRun(f, T, n, e, c)
<1> DEFINE step == [k \in 1 .. n |-> [b \in T |-> b \o c[k]]]
<1>1. step \in [1 .. n -> [T -> T]]
  BY DEF ConcatClosed
<1>2. \A k \in 1 .. n : \A b \in T : step[k][b] = b \o c[k]
  OBVIOUS
<1> HIDE DEF step
<1>3. PICK f \in [0 .. n -> T] : f[0] = e /\ \A k \in 1 .. n : f[k] = step[k][f[k - 1]]
  BY <1>1, StepsExist
<1>4. ASSUME NEW k \in 1 .. n PROVE f[k] = f[k - 1] \o c[k]
  <2>1. k - 1 \in 0 .. n
    OBVIOUS
  <2>2. f[k - 1] \in T
    BY <2>1
  <2> QED
    BY <1>2, <1>3, <2>2, Zenon
<1> QED
  BY <1>3, <1>4, Zenon DEF ConcatRun

LEMMA JoinedSteps ==
    ASSUME NEW S, NEW ss \in Seq(Seq(S))
    PROVE  \E f : JoinedBy(f, ss, S)
<1> DEFINE n == Len(ss)
           T == Seq(S)
           After(f) == [k \in 0 .. n |-> IF k = 0 THEN << >> ELSE f[k - 1] \o ss[k]]
           up == CHOOSE f : f = After(f)
<1>1. n \in Nat
  BY LenProperties
<1>2. \A k \in 1 .. n : ss[k] \in T
  BY ElementOfSeq
<1>10. Joined(ss) = up[n]
  BY DEF Joined
<1>3. << >> \in T /\ \A b \in T, c \in T : b \o c \in T
  BY EmptySeq, ConcatProperties
<1>0. n = Len(ss)
  OBVIOUS
<1> HIDE DEF n, T
<1>5. PICK f \in [0 .. n -> T] : f[0] = << >> /\ \A k \in 1 .. n : f[k] = f[k - 1] \o ss[k]
  <2> DEFINE c == [k \in 1 .. n |-> ss[k]]
             e == << >>
  <2>0. ConcatClosed(T)
    BY <1>3 DEF ConcatClosed
  <2>1. c \in [1 .. n -> T] /\ e \in T
    BY <1>2, <1>3
  <2>2. \A k \in 1 .. n : c[k] = ss[k]
    OBVIOUS
  <2> HIDE DEF c, e
  <2>3. PICK f : ConcatRun(f, T, n, e, c)
    BY <1>1, <2>0, <2>1, ConcatSteps
  <2> QED
    BY <2>2, <2>3, Zenon DEF e, ConcatRun
<1>6. f = After(f)
  <2>1. \A k \in 1 .. n : f[k] = After(f)[k]
    <3> SUFFICES ASSUME NEW k \in 1 .. n PROVE f[k] = After(f)[k]
      OBVIOUS
    <3>1. f[k] = f[k - 1] \o ss[k]
      BY <1>5
    <3>2. k \in 0 .. n /\ k # 0
      BY <1>1
    <3>3. After(f)[k] = f[k - 1] \o ss[k]
      BY <3>2
    <3> HIDE DEF After
    <3> QED
      BY <3>1, <3>3, Zenon
  <2>2. f[0] = After(f)[0]
    BY <1>1, <1>5
  <2>3. f = [k \in 0 .. n |-> f[k]] /\ After(f) = [k \in 0 .. n |-> After(f)[k]]
    OBVIOUS
  <2> HIDE DEF After
  <2>4. \A k \in 0 .. n : f[k] = After(f)[k]
    BY <1>1, <2>1, <2>2
  <2> QED
    BY <2>3, <2>4
<1>7. up = After(up)
  <2> HIDE DEF After
  <2> QED
    BY <1>6
<1> HIDE DEF up
<1>8. up[0] = << >> /\ \A k \in 1 .. n : up[k] = up[k - 1] \o ss[k]
  <2>1. After(up)[0] = << >>
    BY <1>1
  <2>2. ASSUME NEW k \in 1 .. n PROVE After(up)[k] = up[k - 1] \o ss[k]
    <3>1. k \in 0 .. n /\ k # 0
      BY <1>1
    <3> QED
      BY <3>1
  <2> HIDE DEF After
  <2> QED
    BY <1>7, <2>1, <2>2, Zenon
<1> DEFINE R == {k \in 0 .. n : up[k] \in T}
<1>9. 0 \in R
  BY <1>1, <1>3, <1>8
<1>11. ASSUME NEW k \in 1 .. n, k - 1 \in R PROVE k \in R
  <2>1. up[k - 1] \in T
    BY <1>11
  <2>2. up[k - 1] \o ss[k] \in T
    BY <1>2, <1>3, <2>1, Zenon
  <2>3. up[k] \in T
    BY <1>8, <2>2, Zenon
  <2> QED
    BY <1>1, <2>3
<1>12. 0 .. n \subseteq R
  <2> HIDE DEF R
  <2> QED
    BY <1>1, <1>9, <1>11, CountUp
<1>13. up \in [0 .. n -> T]
  <2>1. up = [k \in 0 .. n |-> up[k]]
    <3>1. After(up) = [k \in 0 .. n |-> After(up)[k]]
      OBVIOUS
    <3> HIDE DEF After
    <3> QED
      BY <1>7, <3>1, Zenon
  <2> QED
    BY <1>12, <2>1
<1> QED
  <2>1. T = Seq(S)
    BY DEF T
  <2> QED
    BY <1>0, <1>8, <1>10, <1>13, <2>1, Zenon DEF JoinedBy

LEMMA JoinedType ==
    ASSUME NEW S, NEW ss \in Seq(Seq(S))
    PROVE  Joined(ss) \in Seq(S)
<1>1. PICK f : JoinedBy(f, ss, S)
  BY JoinedSteps
<1>2. Len(ss) \in 0 .. Len(ss)
  BY LenProperties
<1> QED
  BY <1>1, <1>2 DEF JoinedBy

(* One sequence more.                                                      *)
LEMMA JoinedAppend ==
    ASSUME NEW S, NEW q \in Seq(Seq(S)), NEW r \in Seq(Seq(S)),
           Len(r) = Len(q) + 1, \A k \in 1 .. Len(q) : r[k] = q[k]
    PROVE  Joined(r) = Joined(q) \o r[Len(r)]
<1> DEFINE n == Len(q)
<1>1. n \in Nat
  BY LenProperties
<1>2. PICK f : JoinedBy(f, q, S)
  BY JoinedSteps
<1>3. PICK h : JoinedBy(h, r, S)
  BY JoinedSteps
<1>9. f[0] = << >> /\ h[0] = << >> /\ Joined(q) = f[n] /\ Joined(r) = h[Len(r)]
  BY <1>2, <1>3 DEF JoinedBy
<1>10. \A k \in 1 .. n : f[k] = f[k - 1] \o q[k]
  BY <1>2, Zenon DEF JoinedBy
<1>11. \A k \in 1 .. Len(r) : h[k] = h[k - 1] \o r[k]
  BY <1>3, Zenon DEF JoinedBy
<1>4. Len(r) = n + 1 /\ \A k \in 1 .. n : r[k] = q[k]
  OBVIOUS
<1> HIDE DEF n
<1>5. \A k \in 1 .. n : h[k] = h[k - 1] \o q[k]
  <2>1. \A k \in 1 .. n : k \in 1 .. Len(r)
    BY <1>1, <1>4
  <2> QED
    BY <1>4, <1>11, <2>1, Zenon
<1>6. \A k \in 1 .. n : f[k - 1] = h[k - 1] => f[k] = h[k]
  BY <1>5, <1>10, Zenon
<1>7. f[n] = h[n]
  BY <1>1, <1>6, <1>9, SameEnd, SMTT(30)
<1>8. h[n + 1] = h[n] \o r[n + 1]
  <2>1. n + 1 \in 1 .. Len(r) /\ (n + 1) - 1 = n
    BY <1>1, <1>4
  <2>2. h[n + 1] = h[(n + 1) - 1] \o r[n + 1]
    BY <1>11, <2>1, Zenon
  <2> QED
    BY <2>1, <2>2, Zenon
<1> QED
  BY <1>4, <1>7, <1>8, <1>9, Zenon

(* The first sequence comes first.                                         *)
LEMMA JoinedTail ==
    ASSUME NEW S, NEW q \in Seq(Seq(S)), q # << >>
    PROVE  Joined(q) = q[1] \o Joined(Tail(q))
<1> DEFINE t == Tail(q)
           n == Len(t)
<1>1. n \in Nat /\ Len(q) = n + 1 /\ t \in Seq(Seq(S)) /\ \A k \in 1 .. n : t[k] = q[k + 1]
  BY HeadTail
<1>2. PICK f : JoinedBy(f, q, S)
  BY JoinedSteps
<1> HIDE DEF t
<1>3. PICK h : JoinedBy(h, t, S)
  BY <1>1, JoinedSteps
<1>4. \A k \in 1 .. Len(q) : q[k] \in Seq(S)
  BY ElementOfSeq
<1>9. /\ f[0] = << >> /\ h[0] = << >>
      /\ Joined(q) = f[Len(q)] /\ Joined(t) = h[n]
  BY <1>2, <1>3 DEF JoinedBy
<1>10. \A k \in 1 .. Len(q) : f[k] = f[k - 1] \o q[k]
  BY <1>2, Zenon DEF JoinedBy
<1>11. \A k \in 1 .. n : h[k] = h[k - 1] \o t[k]
  BY <1>3, Zenon DEF JoinedBy
<1>12. \A k \in 0 .. n : h[k] \in Seq(S)
  BY <1>3 DEF JoinedBy
<1>13. \A x, y, z \in Seq(S) : (x \o y) \o z = x \o (y \o z)
  BY ConcatAssociative, SMTT(30)
<1> HIDE DEF n
<1> DEFINE a == [k \in 0 .. n |-> f[k + 1]]
           b == [k \in 0 .. n |-> q[1] \o h[k]]
<1>5. a[0] = b[0]
  <2>1. f[1] = f[0] \o q[1]
    <3>1. 1 \in 1 .. Len(q) /\ 1 - 1 = 0
      BY <1>1
    <3>2. f[1] = f[1 - 1] \o q[1]
      BY <1>10, <3>1, Zenon
    <3> QED
      BY <3>1, <3>2, Zenon
  <2>2. q[1] \in Seq(S)
    BY <1>1, <1>4
  <2>3. << >> \o q[1] = q[1] /\ q[1] \o << >> = q[1]
    BY <2>2, ConcatEmptySeq
  <2>4. 0 \in 0 .. n /\ 0 + 1 = 1
    BY <1>1
  <2>5. a[0] = f[1] /\ b[0] = q[1] \o h[0]
    BY <2>4
  <2> HIDE DEF a, b
  <2> QED
    BY <1>9, <2>1, <2>3, <2>5, Zenon
<1>6. ASSUME NEW k \in 1 .. n, a[k - 1] = b[k - 1] PROVE a[k] = b[k]
  <2>1. k + 1 \in 1 .. Len(q) /\ (k + 1) - 1 = k /\ k \in 0 .. n /\ k - 1 \in 0 .. n
        /\ (k - 1) + 1 = k
    BY <1>1
  <2>2. a[k] = f[k] \o q[k + 1]
    <3>1. f[k + 1] = f[(k + 1) - 1] \o q[k + 1]
      BY <1>10, <2>1, Zenon
    <3>2. a[k] = f[k + 1]
      BY <2>1
    <3> HIDE DEF a, b
    <3> QED
      BY <2>1, <3>1, <3>2, Zenon
  <2>3. f[k] = q[1] \o h[k - 1]
    <3>1. a[k - 1] = f[(k - 1) + 1] /\ b[k - 1] = q[1] \o h[k - 1]
      BY <2>1
    <3> HIDE DEF a, b
    <3> QED
      BY <1>6, <2>1, <3>1, Zenon
  <2>4. h[k] = h[k - 1] \o q[k + 1]
    BY <1>1, <1>11, Zenon DEF n
  <2>5. q[1] \in Seq(S) /\ h[k - 1] \in Seq(S) /\ q[k + 1] \in Seq(S)
    BY <1>1, <1>4, <1>12, <2>1
  <2>6. (q[1] \o h[k - 1]) \o q[k + 1] = q[1] \o (h[k - 1] \o q[k + 1])
    BY <1>13, <2>5, Zenon
  <2>7. b[k] = q[1] \o h[k]
    BY <2>1
  <2> HIDE DEF a, b
  <2> QED
    BY <2>2, <2>3, <2>4, <2>6, <2>7, Zenon
<1>7. a[n] = f[n + 1] /\ b[n] = q[1] \o h[n]
  <2>1. n \in 0 .. n
    BY <1>1
  <2> QED
    BY <2>1
<1>8. a[n] = b[n]
  <2> HIDE DEF a, b
  <2> QED
    BY <1>1, <1>5, <1>6, SameEnd
<1>14. Joined(q) = f[n + 1]
  BY <1>1, <1>9 DEF n
<1> HIDE DEF a, b
<1>15. Joined(q) = q[1] \o Joined(t)
  BY <1>7, <1>8, <1>9, <1>14, Zenon
<1> QED
  BY <1>15 DEF t

(* Nothing from empty sequences.                                           *)
LEMMA JoinedNone ==
    ASSUME NEW S, NEW q \in Seq(Seq(S)), \A k \in 1 .. Len(q) : q[k] = << >>
    PROVE  Joined(q) = << >>
<1> DEFINE n == Len(q)
<1>1. n \in Nat
  BY LenProperties
<1>2. PICK f : JoinedBy(f, q, S)
  BY JoinedSteps
<1>8. f[0] = << >> /\ Joined(q) = f[n]
  BY <1>2 DEF JoinedBy
<1>9. \A k \in 1 .. n : f[k] = f[k - 1] \o q[k]
  BY <1>2, Zenon DEF JoinedBy
<1>3. \A k \in 1 .. n : q[k] = << >>
  OBVIOUS
<1>4. << >> \in Seq(S) /\ << >> \o << >> = << >>
  BY EmptySeq, ConcatEmptySeq
<1> DEFINE z == [k \in 0 .. n |-> << >>]
<1>5. \A k \in 1 .. n : f[k - 1] = z[k - 1] => f[k] = z[k]
  <2> SUFFICES ASSUME NEW k \in 1 .. n, f[k - 1] = << >> PROVE f[k] = << >>
    BY <1>1
  <2>1. f[k] = f[k - 1] \o q[k]
    BY <1>9, Zenon
  <2> QED
    BY <1>3, <1>4, <2>1, Zenon
<1>6. f[0] = z[0] /\ z[n] = << >>
  BY <1>1, <1>8
<1>7. f[n] = z[n]
  <2> HIDE DEF z, n
  <2> QED
    BY <1>1, <1>5, <1>6, SameEnd
<1> QED
  BY <1>6, <1>7, <1>8

-----------------------------------------------------------------------------
(* What the remote host reads of what was written to it.                   *)

OutByte == AllChars \cup {"iac", "do", "will", "opt"}
Reading == [at : {"data", "iac", "opt"}, out : Seq(OutByte)]
Start == [at |-> "data", out |-> << >>]

LEMMA StartType == Start \in Reading
BY EmptySeq DEF Start, Reading

LEMMA PeerReadsType ==
    ASSUME NEW p \in Reading, NEW b \in OutByte
    PROVE  PeerReads(p, b) \in Reading
<1> DEFINE x == Append(p.out, b)
           y == Append(p.out, "ff")
<1>1. x \in Seq(OutByte) /\ y \in Seq(OutByte)
  BY AppendProperties DEF Reading, OutByte, AllChars
<1>2. PeerReads(p, b) = CASE p.at = "data" -> IF b = "iac" THEN [p EXCEPT !.at = "iac"]
                                              ELSE [p EXCEPT !.out = x]
                          [] p.at = "iac" -> IF b = "iac" THEN [at |-> "data", out |-> y]
                                             ELSE [p EXCEPT !.at = "opt"]
                          [] p.at = "opt" -> [p EXCEPT !.at = "data"]
  BY DEF PeerReads, Reading
<1> HIDE DEF x, y
<1> QED
  BY <1>1, <1>2 DEF Reading

(* f[n] is where the reader is after n bytes of s.                         *)
ReadBy(f, s) ==
    /\ f \in [0 .. Len(s) -> Reading]
    /\ f[0] = Start
    /\ \A n \in 1 .. Len(s) : f[n] = PeerReads(f[n - 1], s[n])
    /\ Read(s) = f[Len(s)]

LEMMA ReadSteps ==
    ASSUME NEW s \in Seq(OutByte)
    PROVE  \E f : ReadBy(f, s)
<1> DEFINE n == Len(s)
           T == Reading
           B(k) == s[k]
           step == [k \in 1 .. n |-> [p \in T |-> PeerReads(p, B(k))]]
           After(f) == [k \in 0 .. n |-> IF k = 0 THEN Start ELSE PeerReads(f[k - 1], B(k))]
           up == CHOOSE f : f = After(f)
<1>1. n \in Nat
  BY LenProperties
<1>2. \A k \in 1 .. n : B(k) \in OutByte
  BY ElementOfSeq
<1>10. Read(s) = up[n]
  BY DEF Read, Start
<1>3. Start \in T /\ \A p \in T, b \in OutByte : PeerReads(p, b) \in T
  BY StartType, PeerReadsType
<1>0. n = Len(s)
  OBVIOUS
<1> HIDE DEF n, T, B
<1>4. step \in [1 .. n -> [T -> T]]
  BY <1>2, <1>3
<1>14. \A k \in 1 .. n : \A p \in T : step[k][p] = PeerReads(p, B(k))
  OBVIOUS
<1>5. PICK f \in [0 .. n -> T] : f[0] = Start /\ \A k \in 1 .. n : f[k] = step[k][f[k - 1]]
  <2>1. n \in Nat /\ Start \in T
    BY <1>1, <1>3
  <2> HIDE DEF step
  <2> QED
    BY <2>1, <1>4, StepsExist
<1>6. f = After(f)
  <2>1. \A k \in 1 .. n : f[k] = After(f)[k]
    <3> SUFFICES ASSUME NEW k \in 1 .. n PROVE f[k] = After(f)[k]
      OBVIOUS
    <3>1. f[k - 1] \in T /\ k \in 0 .. n /\ k # 0
      BY <1>1
    <3>2. f[k] = PeerReads(f[k - 1], B(k))
      <4> HIDE DEF step
      <4> QED
        BY <1>5, <1>14, <3>1, Zenon
    <3> QED
      BY <3>1, <3>2
  <2>2. f[0] = After(f)[0]
    BY <1>1, <1>5
  <2>3. f = [k \in 0 .. n |-> f[k]] /\ After(f) = [k \in 0 .. n |-> After(f)[k]]
    OBVIOUS
  <2> HIDE DEF After
  <2>4. \A k \in 0 .. n : f[k] = After(f)[k]
    BY <1>1, <2>1, <2>2
  <2> QED
    BY <2>3, <2>4
<1>7. up = After(up)
  <2> HIDE DEF After
  <2> QED
    BY <1>6
<1> HIDE DEF up
<1>8. up[0] = Start /\ \A k \in 1 .. n : up[k] = PeerReads(up[k - 1], B(k))
  <2>1. After(up)[0] = Start
    BY <1>1
  <2>2. ASSUME NEW k \in 1 .. n PROVE After(up)[k] = PeerReads(up[k - 1], B(k))
    <3>1. k \in 0 .. n /\ k # 0
      BY <1>1
    <3> QED
      BY <3>1
  <2> HIDE DEF After
  <2> QED
    BY <1>7, <2>1, <2>2, Zenon
<1> DEFINE R == {k \in 0 .. n : up[k] \in T}
<1>9. 0 \in R
  BY <1>1, <1>3, <1>8
<1>11. ASSUME NEW k \in 1 .. n, k - 1 \in R PROVE k \in R
  <2>1. up[k - 1] \in T
    BY <1>11
  <2>2. PeerReads(up[k - 1], B(k)) \in T
    BY <1>2, <1>3, <2>1, Zenon
  <2>3. up[k] \in T
    BY <1>8, <2>2, Zenon
  <2> QED
    BY <1>1, <2>3
<1>12. 0 .. n \subseteq R
  <2> HIDE DEF R
  <2> QED
    BY <1>1, <1>9, <1>11, CountUp
<1>13. up \in [0 .. n -> T]
  <2>1. up = [k \in 0 .. n |-> up[k]]
    <3>1. After(up) = [k \in 0 .. n |-> After(up)[k]]
      OBVIOUS
    <3> HIDE DEF After
    <3> QED
      BY <1>7, <3>1, Zenon
  <2> QED
    BY <1>12, <2>1
<1> QED
  <2>1. \A k \in 1 .. n : up[k] = PeerReads(up[k - 1], s[k])
    BY <1>8, Zenon DEF B
  <2>2. T = Reading
    BY DEF T
  <2> QED
    BY <1>0, <1>8, <1>10, <1>13, <2>1, <2>2, Zenon DEF ReadBy

LEMMA ReadType ==
    ASSUME NEW s \in Seq(OutByte)
    PROVE  Read(s) \in Reading
<1>1. PICK f : ReadBy(f, s)
  BY ReadSteps
<1>2. Len(s) \in 0 .. Len(s)
  BY LenProperties
<1> QED
  BY <1>1, <1>2 DEF ReadBy

LEMMA ReadNothing == Read(<< >>) = Start
<1>1. << >> \in Seq(OutByte) /\ Len(<< >>) = 0
  BY EmptySeq
<1> DEFINE e == << >>
<1>2. e \in Seq(OutByte) /\ Len(e) = 0
  BY <1>1
<1> HIDE DEF e
<1>3. PICK f : ReadBy(f, e)
  BY <1>2, ReadSteps
<1>4. Read(e) = Start
  BY <1>2, <1>3 DEF ReadBy
<1> QED
  BY <1>4 DEF e

(* A byte more.                                                            *)
LEMMA ReadAppend ==
    ASSUME NEW q \in Seq(OutByte), NEW b \in OutByte
    PROVE  Read(Append(q, b)) = PeerReads(Read(q), b)
<1> DEFINE n == Len(q)
           r == Append(q, b)
<1>1. n \in Nat
  BY LenProperties
<1>4. r \in Seq(OutByte) /\ Len(r) = n + 1 /\ r[n + 1] = b /\ \A k \in 1 .. n : r[k] = q[k]
  BY AppendProperties
<1> HIDE DEF r
<1>2. PICK f : ReadBy(f, q)
  BY ReadSteps
<1>3. PICK h : ReadBy(h, r)
  BY <1>4, ReadSteps
<1>9. f[0] = h[0] /\ Read(q) = f[n] /\ Read(r) = h[Len(r)]
  BY <1>2, <1>3 DEF ReadBy
<1>10. \A k \in 1 .. n : f[k] = PeerReads(f[k - 1], q[k])
  BY <1>2, Zenon DEF ReadBy
<1>11. \A k \in 1 .. Len(r) : h[k] = PeerReads(h[k - 1], r[k])
  BY <1>3, Zenon DEF ReadBy
<1> HIDE DEF n
<1>5. \A k \in 1 .. n : h[k] = PeerReads(h[k - 1], q[k])
  <2>1. \A k \in 1 .. n : k \in 1 .. Len(r)
    BY <1>1, <1>4
  <2> QED
    BY <1>4, <1>11, <2>1, Zenon
<1>6. \A k \in 1 .. n : f[k - 1] = h[k - 1] => f[k] = h[k]
  BY <1>5, <1>10, Zenon
<1>7. f[n] = h[n]
  BY <1>1, <1>6, <1>9, SameEnd
<1>8. h[n + 1] = PeerReads(h[n], b)
  <2>1. n + 1 \in 1 .. Len(r) /\ (n + 1) - 1 = n
    BY <1>1, <1>4
  <2>2. h[n + 1] = PeerReads(h[(n + 1) - 1], r[n + 1])
    BY <1>11, <2>1, Zenon
  <2> QED
    BY <1>4, <2>1, <2>2, Zenon
<1>12. Read(r) = PeerReads(Read(q), b)
  BY <1>4, <1>7, <1>8, <1>9, Zenon
<1> QED
  BY <1>12 DEF r

AtData(x) == [at |-> "data", out |-> x]

(* A character, escaped or not, is read as that character.                 *)
LEMMA ReadChar ==
    ASSUME NEW s \in Seq(OutByte), NEW x \in Seq(AllChars), Read(s) = AtData(x), NEW b \in AllChars
    PROVE  s \o Escaped(b) \in Seq(OutByte) /\ Read(s \o Escaped(b)) = AtData(Append(x, b))
<1>1. b \in OutByte /\ "iac" \in OutByte /\ b # "iac"
  BY DEF OutByte, AllChars, Lines
<1>2. CASE b # "ff"
  <2>1. s \o Escaped(b) = Append(s, b)
    BY <1>1, <1>2 DEF Escaped
  <2>2. Append(s, b) \in Seq(OutByte)
    BY <1>1, AppendProperties
  <2>3. Read(Append(s, b)) = PeerReads(AtData(x), b)
    BY <1>1, ReadAppend
  <2>4. PeerReads(AtData(x), b) = AtData(Append(x, b))
    <3> DEFINE y == Append(x, b)
    <3>1. PeerReads(AtData(x), b) = [AtData(x) EXCEPT !.out = y]
      BY <1>1 DEF PeerReads, AtData
    <3> HIDE DEF y
    <3>2. PeerReads(AtData(x), b) = AtData(y)
      BY <3>1 DEF AtData
    <3> QED
      BY <3>2 DEF y
  <2> QED
    BY <2>1, <2>2, <2>3, <2>4
<1>3. CASE b = "ff"
  <2> DEFINE t == Append(s, "iac")
             y == Append(x, "ff")
  <2>1. s \o Escaped(b) = Append(t, "iac")
    BY <1>1, <1>3 DEF Escaped
  <2>2. t \in Seq(OutByte) /\ Append(t, "iac") \in Seq(OutByte)
    BY <1>1, AppendProperties
  <2>3. Read(t) = PeerReads(AtData(x), "iac")
    BY <1>1, ReadAppend
  <2>4. PeerReads(AtData(x), "iac") = [at |-> "iac", out |-> x]
    BY DEF PeerReads, AtData
  <2>5. PeerReads([at |-> "iac", out |-> x], "iac") = AtData(y)
    BY DEF PeerReads, AtData
  <2> HIDE DEF t, y
  <2>6. Read(Append(t, "iac")) = PeerReads(Read(t), "iac")
    BY <1>1, <2>2, ReadAppend
  <2> QED
    BY <1>3, <2>1, <2>2, <2>3, <2>4, <2>5, <2>6 DEF y
<1> QED
  BY <1>2, <1>3

(* An answer to a telnet option is not read as data.                       *)
LEMMA ReadAnswer ==
    ASSUME NEW s \in Seq(OutByte), NEW x \in Seq(AllChars), NEW c \in {"do", "will"}
    PROVE  /\ s \o <<"iac", c, "opt">> \in Seq(OutByte)
           /\ Read(s) = AtData(x) => Read(s \o <<"iac", c, "opt">>) = AtData(x)
<1> DEFINE t == Append(s, "iac")
           u == Append(t, c)
           v == Append(u, "opt")
<1>1. {"iac", c, "opt"} \subseteq OutByte
  BY DEF OutByte
<1>2. t \in Seq(OutByte)
  BY <1>1, AppendProperties
<1>3. s \o <<"iac", c, "opt">> = v
  BY <1>1
<1> HIDE DEF t
<1>4. u \in Seq(OutByte)
  BY <1>1, <1>2, AppendProperties
<1> HIDE DEF u
<1>5. v \in Seq(OutByte)
  BY <1>1, <1>4, AppendProperties
<1>6. Read(v) = PeerReads(Read(u), "opt")
  BY <1>1, <1>4, ReadAppend
<1>7. Read(u) = PeerReads(Read(t), c)
  BY <1>1, <1>2, ReadAppend DEF u
<1>8. Read(t) = PeerReads(Read(s), "iac")
  BY <1>1, ReadAppend DEF t
<1> HIDE DEF v
<1>9. /\ PeerReads(AtData(x), "iac") = [at |-> "iac", out |-> x]
      /\ PeerReads([at |-> "iac", out |-> x], c) = [at |-> "opt", out |-> x]
      /\ PeerReads([at |-> "opt", out |-> x], "opt") = AtData(x)
  BY DEF PeerReads, AtData
<1> QED
  BY <1>3, <1>5, <1>6, <1>7, <1>8, <1>9

(* What send_tcp_data writes is read as what it was given.                 *)
Wire(bytes) == Joined([i \in 1 .. Len(bytes) |-> Escaped(bytes[i])])

LEMMA WireType ==
    ASSUME NEW bytes \in Seq(AllChars)
    PROVE  /\ Wire(bytes) \in Seq(OutByte)
           /\ [i \in 1 .. Len(bytes) |-> Escaped(bytes[i])] \in Seq(Seq(OutByte))
<1>1. Len(bytes) \in Nat /\ \A i \in 1 .. Len(bytes) : bytes[i] \in AllChars
  BY LenProperties, ElementOfSeq
<1>2. \A b \in AllChars : Escaped(b) \in Seq(OutByte)
  <2>1. \A b \in OutByte : <<b>> \in Seq(OutByte) /\ <<"iac", "iac">> \in Seq(OutByte)
    BY DEF OutByte
  <2> QED
    BY <2>1 DEF Escaped, OutByte
<1> DEFINE F == [i \in 1 .. Len(bytes) |-> Escaped(bytes[i])]
           T == Seq(OutByte)
<1>3. \A i \in 1 .. Len(bytes) : Escaped(bytes[i]) \in T
  BY <1>1, <1>2, Zenon
<1> HIDE DEF T
<1>4. F \in Seq(T)
  BY <1>1, <1>3
<1>5. Joined(F) \in Seq(OutByte)
  <2> HIDE DEF F
  <2> QED
    BY <1>4, JoinedType DEF T
<1> QED
  BY <1>4, <1>5 DEF T, Wire

LEMMA ReadWritten ==
    ASSUME NEW s \in Seq(OutByte), NEW x \in Seq(AllChars), Read(s) = AtData(x),
           NEW bytes \in Seq(AllChars)
    PROVE  Read(s \o Wire(bytes)) = AtData(x \o bytes)
<1> DEFINE n == Len(bytes)
           F == [i \in 1 .. n |-> Escaped(bytes[i])]
           Good(w, k) == s \o w \in Seq(OutByte) /\ Read(s \o w) = AtData(x \o SubSeq(bytes, 1, k))
<1>1. n \in Nat /\ \A i \in 1 .. n : bytes[i] \in AllChars
  BY LenProperties, ElementOfSeq
<1>2. F \in Seq(Seq(OutByte)) /\ Len(F) = n /\ \A i \in 1 .. n : F[i] = Escaped(bytes[i])
  BY <1>1, WireType
<1>3. Wire(bytes) = Joined(F)
  BY DEF Wire
<1> HIDE DEF F
<1>4. PICK f : JoinedBy(f, F, OutByte)
  BY <1>2, JoinedSteps
<1>5. f[0] = << >> /\ Joined(F) = f[n] /\ \A k \in 0 .. n : f[k] \in Seq(OutByte)
  BY <1>2, <1>4 DEF JoinedBy
<1>6. \A k \in 1 .. n : f[k] = f[k - 1] \o Escaped(bytes[k])
  BY <1>2, <1>4, Zenon DEF JoinedBy
<1>7. Good(f[0], 0)
  <2>1. s \o << >> = s
    BY ConcatEmptySeq
  <2>2. SubSeq(bytes, 1, 0) = << >> /\ x \o << >> = x
    BY ConcatEmptySeq
  <2> QED
    BY <1>5, <2>1, <2>2
<1>8. ASSUME NEW k \in 1 .. n, Good(f[k - 1], k - 1) PROVE Good(f[k], k)
  <2> DEFINE y == x \o SubSeq(bytes, 1, k - 1)
             w == s \o f[k - 1]
             b == bytes[k]
  <2>1. b \in AllChars /\ k - 1 \in 0 .. n
    BY <1>1
  <2>2. y \in Seq(AllChars) /\ Append(y, b) = x \o SubSeq(bytes, 1, k)
    <3> DEFINE p == SubSeq(bytes, 1, k - 1)
    <3>1. p \in Seq(AllChars) /\ SubSeq(bytes, 1, k) = Append(p, b)
      <4>1. \A i \in 1 .. (k - 1) : bytes[i] \in AllChars
        BY <1>1
      <4>2. p \in Seq(AllChars)
        BY <1>1, <2>1
      <4>3. SubSeq(bytes, 1, k) = Append(p, b)
        BY <1>1, <2>1
      <4> QED
        BY <4>2, <4>3
    <3> HIDE DEF p, b
    <3>3. AppendsThrough(AllChars)
      BY AppendConcat
    <3>2. x \o p \in Seq(AllChars) /\ Append(x \o p, b) = x \o Append(p, b)
      BY <2>1, <3>1, <3>3, Zenon DEF AppendsThrough
    <3> QED
      BY <3>1, <3>2 DEF p
  <2>3. w \in Seq(OutByte) /\ Read(w) = AtData(y)
    BY <1>8
  <2>4. s \o f[k] = w \o Escaped(b)
    <3>1. Escaped(b) \in Seq(OutByte) /\ f[k - 1] \in Seq(OutByte)
      <4>1. b \in OutByte /\ "iac" \in OutByte
        BY <2>1 DEF OutByte
      <4>2. \A c \in OutByte : <<c>> \in Seq(OutByte) /\ <<"iac", "iac">> \in Seq(OutByte)
        BY DEF OutByte
      <4> HIDE DEF b
      <4> QED
        BY <1>5, <2>1, <4>1, <4>2 DEF Escaped
    <3>2. s \o (f[k - 1] \o Escaped(b)) = (s \o f[k - 1]) \o Escaped(b)
      <4> DEFINE g == f[k - 1]
                 c == Escaped(b)
      <4>1. g \in Seq(OutByte) /\ c \in Seq(OutByte)
        BY <3>1
      <4> HIDE DEF g, c
      <4>2. s \o (g \o c) = (s \o g) \o c
        <5>1. Associates(OutByte)
          BY Assoc
        <5> QED
          BY <4>1, <5>1, Zenon DEF Associates
      <4> QED
        BY <4>2 DEF g, c
    <3> QED
      BY <1>6, <3>2, Zenon
  <2> HIDE DEF w, y, b
  <2>5. w \o Escaped(b) \in Seq(OutByte) /\ Read(w \o Escaped(b)) = AtData(Append(y, b))
    BY <2>1, <2>2, <2>3, ReadChar
  <2> QED
    BY <2>2, <2>4, <2>5, Zenon DEF Good
<1> DEFINE R == {k \in 0 .. n : Good(f[k], k)}
<1> HIDE DEF Good
<1>9. 0 \in R
  BY <1>1, <1>7
<1>10. ASSUME NEW k \in 1 .. n, k - 1 \in R PROVE k \in R
  <2>1. Good(f[k - 1], k - 1) /\ k \in 0 .. n
    BY <1>1, <1>10
  <2> QED
    BY <1>8, <2>1
<1>11. n \in R
  <2> HIDE DEF R
  <2>1. 0 .. n \subseteq R
    BY <1>1, <1>9, <1>10, CountUp
  <2> QED
    BY <1>1, <2>1
<1>12. Good(f[n], n)
  BY <1>11
<1>13. SubSeq(bytes, 1, n) = bytes
  BY <1>1
<1> QED
  BY <1>3, <1>5, <1>12, <1>13, Zenon DEF Good

-----------------------------------------------------------------------------
(* What is true of the device, given the number of the connection.         *)

DataChar == {"a", "ff"}
InByte == {"a", "iac", "will", "wont", "do", "opt", "other"}

QueueOk(q, c) ==
    /\ Len(q) <= RingCap
    /\ \A k \in 1 .. Len(q) : /\ q[k].conn <= c
                              /\ q[k].conn # 0 => q[k].type = "DATA" /\ q[k].b \in DataChar

(* What an item of the ring adds to what the guest gets of connection c.   *)
Adds(m, c) == IF m.conn = c THEN <<m.b>> ELSE << >>
Waiting(q, c) == Joined([i \in 1 .. Len(q) |-> Adds(q[i], c)])

(* The telnet machine as it should be: out is the data so far.             *)
Heard == [at : {"DATA", "IAC", "NEGOTIATE", "bad"}, out : Seq(DataChar)]
Hears(p, b) ==
    CASE p.at = "DATA" /\ b = "iac" -> [at |-> "IAC", out |-> p.out]
      [] p.at = "DATA" /\ b = "a" -> [at |-> "DATA", out |-> Append(p.out, "a")]
      [] p.at = "IAC" /\ b = "iac" -> [at |-> "DATA", out |-> Append(p.out, "ff")]
      [] p.at = "IAC" /\ b \in {"will", "wont", "do"} -> [at |-> "NEGOTIATE", out |-> p.out]
      [] p.at = "IAC" /\ b = "other" -> [at |-> "DATA", out |-> p.out]
      [] p.at = "NEGOTIATE" /\ b = "opt" -> [at |-> "DATA", out |-> p.out]
      [] OTHER -> [at |-> "bad", out |-> p.out]

(* h[n] is where the machine is after the first n of the bytes in.         *)
Hearing(h, in) ==
    /\ h \in [0 .. Len(in) -> Heard]
    /\ \A n \in 1 .. Len(in) : h[n] = Hears(h[n - 1], in[n])

Starts(x, y) == Len(x) <= Len(y) /\ \A k \in 1 .. Len(x) : x[k] = y[k]

(* Where it is when all has been read that was sent.                       *)
Ends(p, alive, n) ==
    /\ p.at # "bad"
    /\ Starts(p.out, Sent(n))
    /\ alive => p = [at |-> "DATA", out |-> Sent(n)]

HeardFrom(h, s, telnet, x) ==
    /\ Hearing(h, s.in)
    /\ h[0] = [at |-> telnet, out |-> x]
    /\ Ends(h[Len(s.in)], s.alive, s.sent)

RxGood(s, telnet, x) == s.st = "up" => \E h : HeardFrom(h, s, telnet, x)

(* The last n characters typed are the '+' characters held back.           *)
TxGood(s, n) ==
    s.st = "up" =>
        /\ n <= Len(s.typed)
        /\ \A k \in 1 .. Len(s.typed) : k > Len(s.typed) - n => s.typed[k] = "plus"
        /\ Read(s.out) = AtData(SubSeq(s.typed, 1, Len(s.typed) - n))

Seen(s, q, buffer, c) == (s.got \o Waiting(q, c)) \o buffer

(* A socket that is not connected has nothing.                             *)
SocketOk(s, buffer, c) ==
    IF s.st = "up" THEN c # 0
    ELSE s = [NoSocket EXCEPT !.st = s.st] /\ buffer = << >>

Good(e, c) ==
    /\ e \in Device
    /\ Len(e.buffer) < BufCap + ReadMax
    /\ e.state = "ESCAPE" => e.escapeCount = 3
    /\ QueueOk(e.qDev, c)
    /\ SocketOk(e.socket, e.buffer, c)
    /\ RxGood(e.socket, e.telnet, Seen(e.socket, e.qDev, e.buffer, c))
    /\ TxGood(e.socket, e.escapeCount)

(* What Good speaks of.                                                    *)
LEMMA CoreGood ==
    ASSUME NEW c, NEW e, Good(e, c), NEW f \in Device,
           f.socket = e.socket, f.telnet = e.telnet, f.buffer = e.buffer, f.qDev = e.qDev,
           f.escapeCount = e.escapeCount, f.state \in {e.state, "COMMAND", "ONLINE"}
    PROVE  Good(f, c)
BY DEF Good

LEMMA Sizes ==
    /\ RingCap \in Nat /\ RingCap > 0 /\ BufCap \in Nat /\ BufCap > 0 /\ ReadMax \in Nat
    /\ Slices \in Nat /\ MaxEvents \in Nat /\ MaxConn \in Nat
BY SizeAssumption

LEMMA NoSocketType == NoSocket \in Socket
<1>1. \A S : << >> \in Seq(S)
  BY EmptySeq
<1>2. Len(Script) \in Nat
  BY AlphabetAssumption, LenProperties
<1> QED
  BY <1>1, <1>2 DEF NoSocket, Socket

(* The fields of a device.                                                 *)
LEMMA DeviceFields ==
    ASSUME NEW e \in Device
    PROVE  /\ e.socket \in Socket /\ e.qDev \in Seq(Item) /\ e.buffer \in Seq(DataChar)
           /\ e.escapeCount \in 0 .. 3 /\ e.telnet \in {"DATA", "IAC", "NEGOTIATE"}
           /\ e.socket.in \in Seq(InByte) /\ e.socket.out \in Seq(OutByte)
           /\ e.socket.got \in Seq(DataChar) /\ e.socket.typed \in Seq(AllChars)
           /\ e.socket.sent \in 0 .. Len(Script) /\ e.socket.alive \in BOOLEAN
           /\ e.socket.st \in {"none", "dialing", "up"}
<1>1. /\ e.socket \in Socket /\ e.qDev \in Seq(Item) /\ e.buffer \in Seq(DataChar)
      /\ e.escapeCount \in 0 .. 3 /\ e.telnet \in {"DATA", "IAC", "NEGOTIATE"}
  BY DEF Device, DataChar
<1>2. \A s \in Socket : /\ s.in \in Seq(InByte) /\ s.out \in Seq(OutByte)
                        /\ s.got \in Seq(DataChar) /\ s.typed \in Seq(AllChars)
                        /\ s.sent \in 0 .. Len(Script) /\ s.alive \in BOOLEAN
                        /\ s.st \in {"none", "dialing", "up"}
  BY DEF Socket, InByte, OutByte, DataChar
<1> QED
  BY <1>1, <1>2

LEMMA HangupGood ==
    ASSUME NEW c, NEW e \in Device, QueueOk(e.qDev, c)
    PROVE  /\ Good(Hangup(e), c)
           /\ Hangup(e).socket.st = "none" /\ Hangup(e).state = "COMMAND"
<1> DEFINE f == Hangup(e)
           z == << >>
<1>1. e \in Device /\ QueueOk(e.qDev, c)
  OBVIOUS
<1>2. f = [e EXCEPT !.socket = NoSocket, !.state = "COMMAND", !.telnet = "DATA", !.buffer = z]
  BY DEF Hangup
<1>3. z \in Seq({"a", "ff"}) /\ Len(z) = 0
  BY EmptySeq
<1> HIDE DEF z, f
<1>4. f \in Device /\ f.socket = NoSocket /\ f.state = "COMMAND" /\ f.buffer = z /\ f.qDev = e.qDev
  BY <1>1, <1>2, <1>3, NoSocketType DEF Device
<1>5. NoSocket.st = "none" /\ NoSocket = [NoSocket EXCEPT !.st = NoSocket.st]
  BY DEF NoSocket
<1>6. Len(f.buffer) < BufCap + ReadMax
  BY <1>3, <1>4, Sizes
<1>7. SocketOk(f.socket, f.buffer, c)
  BY <1>4, <1>5 DEF SocketOk, z
<1> QED
  BY <1>1, <1>4, <1>5, <1>6, <1>7 DEF Good, RxGood, TxGood, f

(* The ring changes, and what it holds of the connection does not.         *)
LEMMA QueueGood ==
    ASSUME NEW c, NEW e, Good(e, c), NEW q \in Seq(Item), QueueOk(q, c),
           e.socket.st = "up" => Waiting(q, c) = Waiting(e.qDev, c)
    PROVE  Good([e EXCEPT !.qDev = q], c)
<1> DEFINE f == [e EXCEPT !.qDev = q]
<1>1. e \in Device
  BY DEF Good
<1>2. /\ f \in Device /\ f.socket = e.socket /\ f.state = e.state /\ f.buffer = e.buffer
      /\ f.telnet = e.telnet /\ f.escapeCount = e.escapeCount /\ f.qDev = q
  BY <1>1 DEF Device
<1> HIDE DEF f
<1>3. RxGood(f.socket, f.telnet, Seen(f.socket, f.qDev, f.buffer, c))
  <2>1. CASE e.socket.st = "up"
    BY <1>2, <2>1 DEF Good, Seen
  <2>2. CASE e.socket.st # "up"
    BY <1>2, <2>2 DEF RxGood
  <2> QED
    BY <2>1, <2>2
<1>4. Good(f, c)
  BY <1>2, <1>3 DEF Good
<1> QED
  BY <1>4 DEF f

(* What the ring holds of a connection, with one item more or less.        *)
LEMMA AddsType ==
    ASSUME NEW c \in Nat \ {0}, NEW q \in Seq(Item), QueueOk(q, c)
    PROVE  /\ [i \in 1 .. Len(q) |-> Adds(q[i], c)] \in Seq(Seq(DataChar))
           /\ Len([i \in 1 .. Len(q) |-> Adds(q[i], c)]) = Len(q)
           /\ Waiting(q, c) \in Seq(DataChar)
           /\ \A i \in 1 .. Len(q) : Adds(q[i], c) \in Seq(DataChar)
<1> DEFINE F == [i \in 1 .. Len(q) |-> Adds(q[i], c)]
           T == Seq(DataChar)
<1>1. Len(q) \in Nat
  BY LenProperties
<1>2. ASSUME NEW i \in 1 .. Len(q) PROVE Adds(q[i], c) \in T
  <2>1. << >> \in T /\ \A b \in DataChar : <<b>> \in T
    BY EmptySeq
  <2>2. q[i].conn = c => q[i].b \in DataChar
    BY DEF QueueOk
  <2> HIDE DEF T
  <2> QED
    BY <2>1, <2>2 DEF Adds
<1>3. \A i \in 1 .. Len(q) : Adds(q[i], c) \in T
  BY <1>2
<1> HIDE DEF T
<1>4. F \in Seq(T) /\ Len(F) = Len(q)
  BY <1>1, <1>3
<1>5. Joined(F) \in Seq(DataChar)
  <2> HIDE DEF F
  <2> QED
    BY <1>4, JoinedType DEF T
<1> QED
  BY <1>3, <1>4, <1>5 DEF T, Waiting

LEMMA WaitingAppend ==
    ASSUME NEW c \in Nat \ {0}, NEW q \in Seq(Item), NEW m \in Item,
           QueueOk(Append(q, m), c), QueueOk(q, c)
    PROVE  Waiting(Append(q, m), c) = Waiting(q, c) \o Adds(m, c)
<1> DEFINE r == Append(q, m)
           F == [i \in 1 .. Len(q) |-> Adds(q[i], c)]
           G == [i \in 1 .. Len(r) |-> Adds(r[i], c)]
<1>1. r \in Seq(Item) /\ Len(r) = Len(q) + 1 /\ r[Len(q) + 1] = m /\ \A i \in 1 .. Len(q) : r[i] = q[i]
  BY AppendProperties
<1>2. Len(q) \in Nat /\ QueueOk(r, c)
  BY LenProperties
<1> HIDE DEF r
<1>3. F \in Seq(Seq(DataChar)) /\ Len(F) = Len(q)
  BY AddsType
<1>4. G \in Seq(Seq(DataChar)) /\ Len(G) = Len(r)
  BY <1>1, <1>2, AddsType
<1>5. \A k \in 1 .. Len(q) : G[k] = F[k]
  BY <1>1, <1>2
<1>6. G[Len(r)] = Adds(m, c)
  BY <1>1, <1>2
<1>7. Waiting(q, c) = Joined(F) /\ Waiting(r, c) = Joined(G)
  BY DEF Waiting
<1> HIDE DEF F, G
<1>8. Joined(G) = Joined(F) \o G[Len(G)]
  BY <1>1, <1>3, <1>4, <1>5, JoinedAppend
<1>9. Waiting(r, c) = Waiting(q, c) \o Adds(m, c)
  BY <1>4, <1>6, <1>7, <1>8, Zenon
<1> QED
  BY <1>9 DEF r

LEMMA WaitingTail ==
    ASSUME NEW c \in Nat \ {0}, NEW q \in Seq(Item), q # << >>, QueueOk(q, c)
    PROVE  QueueOk(Tail(q), c) /\ Waiting(q, c) = Adds(Head(q), c) \o Waiting(Tail(q), c)
<1> DEFINE r == Tail(q)
           F == [i \in 1 .. Len(q) |-> Adds(q[i], c)]
           G == [i \in 1 .. Len(r) |-> Adds(r[i], c)]
<1>1. /\ r \in Seq(Item) /\ Len(q) = Len(r) + 1 /\ Len(r) \in Nat
      /\ Head(q) = q[1] /\ \A i \in 1 .. Len(r) : r[i] = q[i + 1]
  BY HeadTail
<1> HIDE DEF r
<1>2. QueueOk(r, c)
  BY <1>1, Sizes DEF QueueOk
<1>3. F \in Seq(Seq(DataChar)) /\ Len(F) = Len(q)
  BY AddsType
<1>4. G \in Seq(Seq(DataChar)) /\ Len(G) = Len(r)
  BY <1>1, <1>2, AddsType
<1>5. \A k \in 1 .. Len(r) : G[k] = F[k + 1]
  BY <1>1
<1>6. F[1] = Adds(Head(q), c)
  BY <1>1
<1>7. Waiting(q, c) = Joined(F) /\ Waiting(r, c) = Joined(G)
  BY DEF Waiting
<1> HIDE DEF F, G
<1>10. F # << >>
  BY <1>1, <1>3
<1>8. Tail(F) = G
  <2>1. Tail(F) \in Seq(Seq(DataChar)) /\ Len(Tail(F)) = Len(F) - 1 /\ \A k \in 1 .. Len(Tail(F)) : Tail(F)[k] = F[k + 1]
    BY <1>3, <1>10, HeadTail
  <2> DEFINE t == Tail(F)
             T == Seq(DataChar)
  <2>2. t \in Seq(T) /\ G \in Seq(T) /\ Len(t) = Len(G) /\ \A k \in 1 .. Len(t) : t[k] = G[k]
    BY <1>1, <1>3, <1>4, <1>5, <2>1, SMTT(30)
  <2> HIDE DEF t, T
  <2>3. t = G
    BY <2>2, SeqEqual
  <2> QED
    BY <2>3 DEF t
<1>9. Joined(F) = F[1] \o Joined(Tail(F))
  BY <1>3, <1>10, JoinedTail
<1> QED
  BY <1>2, <1>6, <1>7, <1>8, <1>9, Zenon DEF r

LEMMA SendQueue ==
    ASSUME NEW c \in Nat, NEW q \in Seq(Item), QueueOk(q, c), NEW m \in Item, m.conn = 0,
           Len(q) < RingCap
    PROVE  Append(q, m) \in Seq(Item) /\ QueueOk(Append(q, m), c)
<1> DEFINE r == Append(q, m)
<1>1. Len(q) \in Nat /\ RingCap \in Nat
  BY LenProperties, Sizes
<1>2. /\ r \in Seq(Item) /\ Len(r) = Len(q) + 1 /\ r[Len(q) + 1] = m
      /\ \A i \in 1 .. Len(q) : r[i] = q[i]
  BY AppendProperties
<1> HIDE DEF r
<1>3. Len(r) <= RingCap
  BY <1>1, <1>2
<1>4. ASSUME NEW k \in 1 .. Len(r)
      PROVE  r[k].conn <= c /\ (r[k].conn # 0 => r[k].type = "DATA" /\ r[k].b \in DataChar)
  <2>1. CASE k = Len(q) + 1
    BY <1>2, <2>1
  <2>2. CASE k \in 1 .. Len(q)
    BY <1>2, <2>2 DEF QueueOk
  <2> QED
    BY <1>1, <1>2, <2>1, <2>2
<1>5. QueueOk(r, c)
  BY <1>3, <1>4 DEF QueueOk
<1> QED
  BY <1>2, <1>5 DEF r

(* A result code or a status report, if the ring has room for it.          *)
LEMMA SendGood ==
    ASSUME NEW c \in Nat, NEW e, Good(e, c), NEW m \in Item, m.conn = 0
    PROVE  /\ Good(Send(e, m), c)
           /\ \E q \in Seq(Item) : Send(e, m) = [e EXCEPT !.qDev = q]
<1>1. e \in Device /\ e.qDev \in Seq(Item) /\ QueueOk(e.qDev, c) /\ SocketOk(e.socket, e.buffer, c)
  BY DeviceFields DEF Good
<1> DEFINE q == Append(e.qDev, m)
<1>2. q \in Seq(Item)
  BY <1>1, AppendProperties
<1>3. Len(e.qDev) \in Nat
  BY <1>1, LenProperties
<1>4. CASE QueueFull(e)
  <2>1. Send(e, m) = e
    BY <1>4 DEF Send
  <2>2. e = [e EXCEPT !.qDev = e.qDev]
    BY <1>1 DEF Device
  <2> QED
    BY <1>1, <2>1, <2>2
<1>5. CASE ~QueueFull(e)
  <2>1. Send(e, m) = [e EXCEPT !.qDev = q]
    BY <1>5 DEF Send
  <2>2. QueueOk(q, c)
    <3>1. Len(e.qDev) < RingCap
      BY <1>3, <1>5, Sizes DEF QueueFull
    <3> QED
      BY <1>1, <3>1, SendQueue
  <2>3. ASSUME e.socket.st = "up" PROVE Waiting(q, c) = Waiting(e.qDev, c)
    <3>1. c \in Nat \ {0}
      BY <1>1, <2>3 DEF SocketOk
    <3>2. Adds(m, c) = << >>
      BY <3>1 DEF Adds
    <3>3. Waiting(q, c) = Waiting(e.qDev, c) \o Adds(m, c)
      BY <1>1, <2>2, <3>1, WaitingAppend
    <3>4. Waiting(e.qDev, c) \in Seq(DataChar)
      BY <1>1, <3>1, AddsType
    <3>5. Waiting(e.qDev, c) \o << >> = Waiting(e.qDev, c)
      BY <3>4, ConcatEmptySeq
    <3> HIDE DEF q
    <3> QED
      BY <3>2, <3>3, <3>5
  <2> HIDE DEF q
  <2>4. Good([e EXCEPT !.qDev = q], c)
    BY <1>2, <2>2, <2>3, QueueGood
  <2> QED
    BY <1>2, <2>1, <2>4
<1> QED
  BY <1>4, <1>5

(* What sending leaves alone.                                              *)
Keeps(e, f) ==
    /\ f.socket = e.socket /\ f.state = e.state /\ f.buffer = e.buffer /\ f.telnet = e.telnet
    /\ f.escapeCount = e.escapeCount

LEMMA KeepsQueue ==
    ASSUME NEW e \in Device, NEW q \in Seq(Item)
    PROVE  /\ [e EXCEPT !.qDev = q] \in Device
           /\ Keeps(e, [e EXCEPT !.qDev = q])
           /\ [e EXCEPT !.qDev = q].qDev = q
           /\ [e EXCEPT !.qDev = q].shutdownPending = e.shutdownPending
BY DEF Device, Keeps

LEMMA ResponseGood ==
    ASSUME NEW c \in Nat, NEW e, Good(e, c)
    PROVE  Good(SendResponse(e), c) /\ Keeps(e, SendResponse(e))
<1>1. Result \in Item /\ Result.conn = 0
  BY Sizes DEF Result, Item
<1>2. e \in Device
  BY DEF Good
<1>3. PICK q \in Seq(Item) : SendResponse(e) = [e EXCEPT !.qDev = q]
  BY <1>1, SendGood DEF SendResponse
<1>4. Good(SendResponse(e), c)
  BY <1>1, SendGood DEF SendResponse
<1> QED
  BY <1>2, <1>3, <1>4, KeepsQueue

LEMMA EchoGood ==
    ASSUME NEW c \in Nat, NEW e, Good(e, c)
    PROVE  \A on : Good(Echo(e, on), c) /\ Keeps(e, Echo(e, on))
<1>1. Good(SendResponse(e), c) /\ Keeps(e, SendResponse(e))
  BY ResponseGood
<1>2. Keeps(e, e)
  BY DEF Keeps
<1> QED
  BY <1>1, <1>2 DEF Echo, SendResponse

LEMMA ReportGood ==
    ASSUME NEW c \in Nat, NEW e, Good(e, c)
    PROVE  Good(ReportLines(e), c) /\ Keeps(e, ReportLines(e))
<1>1. Status(Carrier) \in Item /\ Status(Carrier).conn = 0 /\ Carrier \in {"unknown", "up", "down"}
  BY DEF Status, Carrier, Item
<1>2. e \in Device
  BY DEF Good
<1>3. PICK q \in Seq(Item) : Send(e, Status(Carrier)) = [e EXCEPT !.qDev = q]
  BY <1>1, SendGood
<1> DEFINE g == Send(e, Status(Carrier))
           f == [g EXCEPT !.lastDcd = Carrier]
<1>4. Good(g, c) /\ g \in Device
  BY <1>1, SendGood DEF Good
<1>5. Keeps(e, g)
  BY <1>2, <1>3, KeepsQueue
<1> HIDE DEF g
<1>6. f \in Device /\ Keeps(g, f) /\ f.qDev = g.qDev
  BY <1>1, <1>4 DEF Device, Keeps
<1> HIDE DEF f
<1>7. Good(f, c)
  BY <1>4, <1>6, CoreGood DEF Keeps
<1>8. Keeps(e, f) /\ Keeps(e, e)
  BY <1>5, <1>6 DEF Keeps
<1> QED
  BY <1>7, <1>8 DEF ReportLines, f, g

(* The socket goes, in the middle of a dial.                               *)
LEMMA DropGood ==
    ASSUME NEW c \in Nat, NEW e, Good(e, c), e.socket.st # "up"
    PROVE  Good([e EXCEPT !.socket = NoSocket], c)
<1> DEFINE f == [e EXCEPT !.socket = NoSocket]
<1>1. /\ e \in Device /\ QueueOk(e.qDev, c) /\ e.buffer = << >> /\ Len(e.buffer) < BufCap + ReadMax
      /\ e.state = "ESCAPE" => e.escapeCount = 3
  BY DEF Good, SocketOk
<1>2. /\ f \in Device /\ f.socket = NoSocket /\ f.buffer = e.buffer /\ f.qDev = e.qDev
      /\ f.state = e.state /\ f.escapeCount = e.escapeCount
  BY <1>1, NoSocketType DEF Device
<1> HIDE DEF f
<1>5. NoSocket.st = "none" /\ NoSocket = [NoSocket EXCEPT !.st = NoSocket.st]
  BY DEF NoSocket
<1>6. SocketOk(f.socket, f.buffer, c) /\ \A x : RxGood(f.socket, f.telnet, x)
  BY <1>1, <1>2, <1>5 DEF SocketOk, RxGood
<1>7. TxGood(f.socket, f.escapeCount)
  BY <1>2, <1>5 DEF TxGood
<1>8. Good(f, c)
  BY <1>1, <1>2, <1>6, <1>7 DEF Good
<1> QED
  BY <1>8 DEF f

(* The answer to a telnet option.                                          *)
LEMMA AnswerGood ==
    ASSUME NEW e \in Device, NEW a \in {"do", "will"}
    PROVE  LET f == SendTelnetResponse(e, a) IN
           /\ f \in Device
           /\ f.socket = [e.socket EXCEPT !.out = f.socket.out]
           /\ f.state = e.state /\ f.telnet = e.telnet /\ f.buffer = e.buffer /\ f.qDev = e.qDev
           /\ f.escapeCount = e.escapeCount /\ f.command = e.command
           /\ TxGood(e.socket, e.escapeCount) => TxGood(f.socket, e.escapeCount)
<1> DEFINE o == e.socket.out \o <<"iac", a, "opt">>
           f == SendTelnetResponse(e, a)
           s == e.socket
           x == SubSeq(s.typed, 1, Len(s.typed) - e.escapeCount)
<1>1. /\ s \in Socket /\ s.out \in Seq(OutByte) /\ s.typed \in Seq(AllChars)
      /\ e.escapeCount \in 0 .. 3 /\ Len(s.typed) \in Nat
  BY DeviceFields, LenProperties
<1>2. o \in Seq(OutByte)
  <2>1. << >> \in Seq(AllChars)
    BY EmptySeq
  <2> HIDE DEF o, x
  <2> QED
    BY <1>1, <2>1, ReadAnswer DEF o
<1>3. f = [e EXCEPT !.socket = [s EXCEPT !.out = o]]
  BY DEF SendTelnetResponse, Device
<1>4. ASSUME s.st = "up", TxGood(s, e.escapeCount) PROVE Read(o) = AtData(x)
  <2>1. Read(s.out) = AtData(x) /\ e.escapeCount <= Len(s.typed)
    BY <1>4 DEF TxGood
  <2>2. x \in Seq(AllChars)
    BY <1>1, <2>1
  <2> HIDE DEF o, x, s
  <2> QED
    BY <1>1, <2>1, <2>2, ReadAnswer DEF o, s
<1>7. ASSUME TxGood(s, e.escapeCount) PROVE TxGood([s EXCEPT !.out = o], e.escapeCount)
  <2> DEFINE t == [s EXCEPT !.out = o]
  <2>1. t.st = s.st /\ t.typed = s.typed /\ t.out = o
    BY <1>1 DEF Socket
  <2> HIDE DEF t, o, s
  <2>2. TxGood(t, e.escapeCount)
    BY <1>4, <1>7, <2>1 DEF TxGood
  <2> QED
    BY <2>2 DEF t
<1> HIDE DEF o, f
<1>5. [s EXCEPT !.out = o] \in Socket
  BY <1>1, <1>2 DEF Socket, OutByte
<1>6. /\ f \in Device /\ f.socket = [s EXCEPT !.out = o] /\ f.socket.out = o
      /\ f.state = e.state /\ f.telnet = e.telnet /\ f.buffer = e.buffer /\ f.qDev = e.qDev
      /\ f.escapeCount = e.escapeCount /\ f.command = e.command
  BY <1>1, <1>3, <1>5 DEF Device, Socket
<1> QED
  BY <1>6, <1>7 DEF f

(* The next n bytes of the connection, put into the ring.                  *)
Batch(c, x, n) == [i \in 1 .. n |-> Data(c, x[i])]

LEMMA BatchQueue ==
    ASSUME NEW c \in 1 .. MaxConn, NEW q \in Seq(Item), QueueOk(q, c), NEW x \in Seq(DataChar),
           NEW n \in 0 .. Len(x), Len(q) + n <= RingCap
    PROVE  /\ q \o Batch(c, x, n) \in Seq(Item)
           /\ QueueOk(q \o Batch(c, x, n), c)
           /\ Len(q \o Batch(c, x, n)) = Len(q) + n
<1>1. Len(q) \in Nat /\ Len(x) \in Nat /\ \A i \in 1 .. Len(x) : x[i] \in DataChar
  BY LenProperties, ElementOfSeq
<1> DEFINE t == Batch(c, x, n)
<1>2. ASSUME NEW i \in 1 .. n
      PROVE  /\ Data(c, x[i]) \in Item /\ Data(c, x[i]).conn = c
             /\ Data(c, x[i]).type = "DATA" /\ Data(c, x[i]).b \in DataChar
  <2>1. x[i] \in DataChar
    BY <1>1
  <2> QED
    BY <2>1, Sizes DEF Data, Item, DataChar
<1>3. t \in Seq(Item) /\ Len(t) = n /\ \A i \in 1 .. n : t[i] = Data(c, x[i])
  BY <1>1, <1>2 DEF Batch
<1> HIDE DEF t
<1>4. /\ q \o t \in Seq(Item) /\ Len(q \o t) = Len(q) + n
      /\ \A i \in 1 .. Len(q) + n : (q \o t)[i] = IF i <= Len(q) THEN q[i] ELSE t[i - Len(q)]
  BY <1>3, ConcatProperties
<1> DEFINE r == q \o t
<1>7. r = q \o t
  OBVIOUS
<1> HIDE DEF r
<1>5. ASSUME NEW k \in 1 .. Len(q) + n
      PROVE  r[k].conn <= c /\ (r[k].conn # 0 => r[k].type = "DATA" /\ r[k].b \in DataChar)
  <2>1. CASE k <= Len(q)
    <3>1. r[k] = q[k] /\ k \in 1 .. Len(q)
      BY <1>1, <1>4, <1>7, <2>1
    <3> QED
      BY <3>1 DEF QueueOk
  <2>2. CASE k > Len(q)
    <3>1. k - Len(q) \in 1 .. n
      BY <1>1, <2>2
    <3>2. r[k] = Data(c, x[k - Len(q)])
      BY <1>1, <1>3, <1>4, <1>7, <2>2, <3>1
    <3> QED
      BY <1>2, <3>1, <3>2
  <2> QED
    BY <1>1, <2>1, <2>2
<1>6. QueueOk(r, c)
  BY <1>4, <1>5, <1>7 DEF QueueOk
<1> QED
  BY <1>4, <1>6, <1>7 DEF t

LEMMA BatchWaits ==
    ASSUME NEW c \in 1 .. MaxConn, NEW q \in Seq(Item), QueueOk(q, c), NEW x \in Seq(DataChar),
           NEW n \in 0 .. Len(x), Len(q) + n <= RingCap
    PROVE  Waiting(q \o Batch(c, x, n), c) = Waiting(q, c) \o SubSeq(x, 1, n)
<1> DEFINE R(k) == q \o Batch(c, x, k)
           P(k) == Waiting(R(k), c) = Waiting(q, c) \o SubSeq(x, 1, k)
           S == {k \in 0 .. n : P(k)}
<1>1. /\ Len(q) \in Nat /\ Len(x) \in Nat /\ \A i \in 1 .. Len(x) : x[i] \in DataChar
      /\ c \in Nat \ {0} /\ RingCap \in Nat /\ n \in Nat
  BY LenProperties, ElementOfSeq, Sizes
<1>2. Waiting(q, c) \in Seq(DataChar)
  BY <1>1, AddsType
<1>3. P(0)
  <2>1. Batch(c, x, 0) = << >> /\ SubSeq(x, 1, 0) = << >>
    BY DEF Batch
  <2>2. q \o << >> = q /\ Waiting(q, c) \o << >> = Waiting(q, c)
    BY <1>2, ConcatEmptySeq
  <2> QED
    BY <2>1, <2>2, Zenon
<1>4. ASSUME NEW k \in 1 .. n, P(k - 1) PROVE P(k)
  <2> DEFINE m == Data(c, x[k])
             w == Waiting(q, c)
             p == SubSeq(x, 1, k - 1)
             t == Batch(c, x, k - 1)
  <2>1. x[k] \in DataChar /\ k - 1 \in 0 .. Len(x) /\ k \in 0 .. Len(x) /\ k \in 1 .. Len(x)
        /\ Len(q) + k <= RingCap /\ Len(q) + (k - 1) <= RingCap
    BY <1>1
  <2>2. m \in Item /\ m.conn = c /\ m.b = x[k]
    BY <2>1, Sizes DEF Data, Item, DataChar
  <2>3. R(k - 1) \in Seq(Item) /\ QueueOk(R(k - 1), c) /\ R(k) \in Seq(Item) /\ QueueOk(R(k), c)
    BY <2>1, BatchQueue
  <2>4. t \in Seq(Item) /\ Batch(c, x, k) = Append(t, m)
    <3>1. ASSUME NEW i \in 1 .. Len(x) PROVE Data(c, x[i]) \in Item
      <4>1. x[i] \in DataChar
        BY <1>1
      <4> QED
        BY <4>1, Sizes DEF Data, Item, DataChar
    <3>2. t \in Seq(Item) /\ Len(t) = k - 1 /\ \A i \in 1 .. k - 1 : t[i] = Data(c, x[i])
      BY <2>1, <3>1 DEF Batch
    <3>3. Batch(c, x, k) \in Seq(Item) /\ Len(Batch(c, x, k)) = k
          /\ \A i \in 1 .. k : Batch(c, x, k)[i] = Data(c, x[i])
      BY <2>1, <3>1 DEF Batch
    <3> HIDE DEF t, m
    <3>4. Append(t, m) \in Seq(Item) /\ Len(Append(t, m)) = k /\ Append(t, m)[k] = m
          /\ \A i \in 1 .. k - 1 : Append(t, m)[i] = t[i]
      BY <2>1, <2>2, <3>2, AppendProperties
    <3>5. \A i \in 1 .. k : Batch(c, x, k)[i] = Append(t, m)[i]
      BY <2>1, <3>2, <3>3, <3>4 DEF m
    <3> DEFINE u == Batch(c, x, k)
               v == Append(t, m)
    <3>6. u \in Seq(Item) /\ v \in Seq(Item) /\ Len(u) = Len(v) /\ \A i \in 1 .. Len(u) : u[i] = v[i]
      BY <3>3, <3>4, <3>5
    <3> HIDE DEF u, v
    <3>7. u = v
      BY <3>6, SeqEqual
    <3> QED
      BY <3>2, <3>7 DEF u, v
  <2>5. SubSeq(x, 1, k) = Append(p, x[k]) /\ p \in Seq(DataChar)
    BY <1>1, <2>1
  <2> HIDE DEF m, t
  <2>6. R(k) = Append(R(k - 1), m)
    <3>1. AppendsThrough(Item)
      BY AppendConcat
    <3>2. Append(q \o t, m) = q \o Append(t, m)
      BY <2>2, <2>4, <3>1, Zenon DEF AppendsThrough
    <3> QED
      BY <2>4, <3>2, Zenon DEF t
  <2> HIDE DEF R
  <2>7. Waiting(R(k), c) = Waiting(R(k - 1), c) \o Adds(m, c)
    <3> DEFINE r == R(k - 1)
    <3>1. r \in Seq(Item) /\ QueueOk(r, c) /\ QueueOk(Append(r, m), c)
      BY <2>3, <2>6
    <3> HIDE DEF r
    <3>2. Waiting(Append(r, m), c) = Waiting(r, c) \o Adds(m, c)
      BY <1>1, <2>2, <3>1, WaitingAppend
    <3> QED
      BY <2>6, <3>2 DEF r
  <2> DEFINE z == <<x[k]>>
  <2>8. Adds(m, c) = z /\ z \in Seq(DataChar)
    BY <2>1, <2>2 DEF Adds
  <2>10. Append(p, x[k]) = p \o z
    BY <2>5, <2>1, AppendIsConcat
  <2>11. w \in Seq(DataChar)
    BY <1>2
  <2> HIDE DEF z, w, p
  <2>12. Associates(DataChar)
    BY Assoc
  <2>9. (w \o p) \o z = w \o (p \o z)
    BY <2>5, <2>8, <2>11, <2>12, Zenon DEF Associates
  <2> QED
    BY <1>4, <2>5, <2>7, <2>8, <2>9, <2>10, Zenon DEF w, p
<1> HIDE DEF P
<1>5. 0 \in S
  BY <1>1, <1>3
<1>6. ASSUME NEW k \in 1 .. n, k - 1 \in S PROVE k \in S
  <2>1. P(k - 1) /\ k \in 0 .. n
    BY <1>1, <1>6
  <2> QED
    BY <1>4, <2>1
<1>7. n \in S
  <2> HIDE DEF S
  <2>1. 0 .. n \subseteq S
    BY <1>1, <1>5, <1>6, CountUp
  <2> QED
    BY <1>1, <2>1
<1>8. P(n)
  BY <1>7
<1> QED
  BY <1>8 DEF P

(* Draining moves data from the buffer to the ring, in order.              *)
LEMMA DrainGood ==
    ASSUME conn \in 1 .. MaxConn, NEW e, Good(e, conn), e.socket.st = "up"
    PROVE  /\ Good(Drain(e), conn)
           /\ Drain(e).socket = e.socket /\ Drain(e).state = e.state
           /\ Len(Drain(e).buffer) <= Len(e.buffer)
<1> DEFINE c == conn
           x == e.buffer
           room == RingCap - Len(e.qDev)
           n == IF room < Len(x) THEN room ELSE Len(x)
           q == e.qDev \o Batch(c, x, n)
           y == SubSeq(x, n + 1, Len(x))
           f == Drain(e)
           s == e.socket
           g == s.got
           w == Waiting(e.qDev, c)
           p == SubSeq(x, 1, n)
<1>1. /\ e \in Device /\ e.qDev \in Seq(Item) /\ x \in Seq(DataChar) /\ QueueOk(e.qDev, c)
      /\ Len(x) < BufCap + ReadMax /\ g \in Seq(DataChar) /\ c \in 1 .. MaxConn
  BY DeviceFields DEF Good
<1>2. /\ Len(e.qDev) \in Nat /\ Len(x) \in Nat /\ Len(e.qDev) <= RingCap /\ RingCap \in Nat
      /\ BufCap \in Nat /\ ReadMax \in Nat
  BY <1>1, LenProperties, Sizes DEF QueueOk
<1>3. n \in 0 .. Len(x) /\ Len(e.qDev) + n <= RingCap
  <2> DEFINE a == Len(x)
             b == Len(e.qDev)
  <2>1. a \in Nat /\ b \in Nat /\ b <= RingCap /\ RingCap \in Nat
    BY <1>2
  <2>2. n = IF RingCap - b < a THEN RingCap - b ELSE a
    OBVIOUS
  <2> HIDE DEF a, b, n
  <2>3. n \in 0 .. a /\ b + n <= RingCap
    BY <2>1, <2>2
  <2> QED
    BY <2>3 DEF a, b
<1>4. f = [e EXCEPT !.qDev = q, !.buffer = y]
  BY DEF Drain, Batch
<1> HIDE DEF n, room
<1>5. q \in Seq(Item) /\ QueueOk(q, c) /\ Waiting(q, c) = w \o p
  BY <1>1, <1>3, BatchQueue, BatchWaits
<1>6. y \in Seq(DataChar) /\ Len(y) = Len(x) - n /\ p \in Seq(DataChar) /\ p \o y = x
  <2>1. \A i \in 1 .. Len(x) : x[i] \in DataChar
    BY <1>1, ElementOfSeq
  <2>2. /\ p \in Seq(DataChar) /\ Len(p) = n /\ \A i \in 1 .. n : p[i] = x[i]
        /\ y \in Seq(DataChar) /\ Len(y) = Len(x) - n /\ \A i \in 1 .. Len(x) - n : y[i] = x[n + i]
    BY <1>2, <1>3, <2>1
  <2> HIDE DEF p, y
  <2>3. /\ p \o y \in Seq(DataChar) /\ Len(p \o y) = Len(x)
        /\ \A i \in 1 .. Len(x) : (p \o y)[i] = IF i <= n THEN p[i] ELSE y[i - n]
    BY <1>2, <1>3, <2>2, ConcatProperties
  <2>4. ASSUME NEW i \in 1 .. Len(x) PROVE (p \o y)[i] = x[i]
    <3>1. CASE i <= n
      BY <1>2, <1>3, <2>2, <2>3, <3>1
    <3>2. CASE i > n
      <4>1. i - n \in 1 .. Len(x) - n /\ n + (i - n) = i
        BY <1>2, <1>3, <3>2
      <4>2. (p \o y)[i] = y[i - n]
        BY <1>2, <1>3, <2>3, <3>2
      <4>3. y[i - n] = x[n + (i - n)]
        BY <2>2, <4>1
      <4> QED
        BY <4>1, <4>2, <4>3
    <3>3. i <= n \/ i > n
      <4>1. i \in Int /\ n \in Int
        BY <1>2, <1>3
      <4> QED
        BY <4>1
    <3> QED
      BY <3>1, <3>2, <3>3, Zenon
  <2> DEFINE u == p \o y
  <2>5. u \in Seq(DataChar) /\ Len(u) = Len(x) /\ \A i \in 1 .. Len(u) : u[i] = x[i]
    BY <2>3, <2>4
  <2> HIDE DEF u
  <2>6. u = x
    BY <1>1, <2>5, SeqEqual
  <2> QED
    BY <2>2, <2>6 DEF u
<1>7. (g \o (w \o p)) \o y = (g \o w) \o x
  <2>1. c \in Nat \ {0}
    BY Sizes
  <2>2. w \in Seq(DataChar)
    BY <1>1, <2>1, AddsType
  <2>3. Associates(DataChar)
    BY Assoc
  <2> HIDE DEF w, p, y, g, x
  <2>4. g \o w \in Seq(DataChar)
    BY <1>1, <2>2, ConcatProperties
  <2>5. g \o (w \o p) = (g \o w) \o p
    BY <1>1, <1>6, <2>2, <2>3, ZenonT(30) DEF Associates
  <2>6. ((g \o w) \o p) \o y = (g \o w) \o (p \o y)
    BY <1>6, <2>3, <2>4, Zenon DEF Associates
  <2> QED
    BY <1>6, <2>5, <2>6, Zenon
<1> HIDE DEF q, y, f, c
<1>8. /\ f \in Device /\ f.qDev = q /\ f.buffer = y /\ f.socket = e.socket /\ f.state = e.state
      /\ f.telnet = e.telnet /\ f.escapeCount = e.escapeCount
  BY <1>1, <1>4, <1>5, <1>6 DEF Device, DataChar
<1>9. Seen(f.socket, f.qDev, f.buffer, c) = Seen(e.socket, e.qDev, e.buffer, c)
  <2>1. Seen(f.socket, f.qDev, f.buffer, c) = (g \o (w \o p)) \o y
    BY <1>5, <1>8, Zenon DEF Seen
  <2>2. Seen(e.socket, e.qDev, e.buffer, c) = (g \o w) \o x
    BY Zenon DEF Seen
  <2> QED
    BY <1>7, <2>1, <2>2, Zenon
<1>10. Len(f.buffer) <= Len(e.buffer) /\ Len(f.buffer) < BufCap + ReadMax
  BY <1>1, <1>2, <1>3, <1>6, <1>8
<1>11. Good(e, c)
  BY DEF c
<1>12. SocketOk(f.socket, f.buffer, c)
  BY <1>8, <1>11 DEF SocketOk, Good
<1>13. Good(f, c)
  BY <1>5, <1>8, <1>9, <1>10, <1>11, <1>12 DEF Good
<1> QED
  BY <1>8, <1>10, <1>13 DEF f, c

(* After k bytes of a read: g is the device, p where the machine should    *)
(* be, e the device before the read.                                       *)
Midway(g, e, c, p, k) ==
    /\ g \in Device
    /\ g.socket = [e.socket EXCEPT !.out = g.socket.out]
    /\ g.state = e.state /\ g.qDev = e.qDev /\ g.escapeCount = e.escapeCount
    /\ g.telnet = p.at
    /\ p.out = (e.socket.got \o Waiting(e.qDev, c)) \o g.buffer
    /\ Len(g.buffer) <= Len(e.buffer) + k
    /\ TxGood(g.socket, e.escapeCount)

LEMMA OneMore == \A i, j, l, m \in Nat : i <= j + 1 /\ j <= l + m => i <= l + (m + 1)
OBVIOUS

LEMMA MidwayMoves ==
    ASSUME NEW c, NEW e \in Device, NEW k \in Nat, NEW p, NEW g, Midway(g, e, c, p, k),
           NEW h \in Device, h.socket = g.socket, h.state = g.state, h.qDev = g.qDev,
           h.escapeCount = g.escapeCount, NEW q, h.telnet = q.at,
           q.out = (e.socket.got \o Waiting(e.qDev, c)) \o h.buffer,
           Len(h.buffer) <= Len(g.buffer) + 1
    PROVE  Midway(h, e, c, q, k + 1)
<1>1. Len(h.buffer) \in Nat /\ Len(g.buffer) \in Nat /\ Len(e.buffer) \in Nat
  <2>1. g \in Device
    BY DEF Midway
  <2>2. h.buffer \in Seq(DataChar) /\ g.buffer \in Seq(DataChar) /\ e.buffer \in Seq(DataChar)
    BY <2>1, DeviceFields
  <2> QED
    BY <2>2, LenProperties
<1>2. Len(g.buffer) <= Len(e.buffer) + k
  BY DEF Midway
<1>3. Len(h.buffer) <= Len(e.buffer) + (k + 1)
  BY <1>1, <1>2, OneMore, Zenon
<1> QED
  BY <1>3 DEF Midway

LEMMA TelnetStep ==
    ASSUME NEW c \in 1 .. MaxConn, NEW e \in Device, QueueOk(e.qDev, c), NEW p \in Heard, NEW k \in Nat,
           NEW g, Midway(g, e, c, p, k), NEW b \in InByte, Hears(p, b).at # "bad"
    PROVE  Midway(ProcessTelnetByte(g, b), e, c, Hears(p, b), k + 1)
<1> DEFINE x == e.socket.got \o Waiting(e.qDev, c)
           f == ProcessTelnetByte(g, b)
           r == Hears(p, b)
<1>1. /\ g \in Device /\ g.telnet = p.at /\ p.out = x \o g.buffer
      /\ g.buffer \in Seq(DataChar) /\ Len(g.buffer) \in Nat /\ Len(e.buffer) \in Nat
      /\ Len(g.buffer) <= Len(e.buffer) + k
  <2>1. g \in Device
    BY DEF Midway
  <2>2. g.buffer \in Seq(DataChar) /\ e.buffer \in Seq(DataChar)
    BY <2>1, DeviceFields
  <2> QED
    BY <2>1, <2>2, LenProperties DEF Midway
<1>2. x \in Seq(DataChar)
  <2>1. c \in Nat \ {0}
    BY Sizes
  <2>2. e.socket.got \in Seq(DataChar) /\ e.qDev \in Seq(Item)
    BY DeviceFields
  <2>3. Waiting(e.qDev, c) \in Seq(DataChar)
    BY <2>1, <2>2, AddsType
  <2> QED
    BY <2>2, <2>3, ConcatProperties
<1>3. ASSUME NEW y \in DataChar
      PROVE  /\ Append(p.out, y) = x \o Append(g.buffer, y)
             /\ Append(g.buffer, y) \in Seq(DataChar)
             /\ Len(Append(g.buffer, y)) = Len(g.buffer) + 1
  <2>1. AppendsThrough(DataChar)
    BY AppendConcat
  <2> DEFINE v == g.buffer
  <2>2. v \in Seq(DataChar) /\ p.out = x \o v
    BY <1>1
  <2> HIDE DEF v, x
  <2>3. Append(x \o v, y) = x \o Append(v, y)
    BY <1>2, <2>1, <2>2, Zenon DEF AppendsThrough
  <2>4. Append(v, y) \in Seq(DataChar) /\ Len(Append(v, y)) = Len(v) + 1
    BY <2>2, AppendProperties
  <2> QED
    BY <2>2, <2>3, <2>4 DEF v
<1> DEFINE ba == Append(g.buffer, "a")
           bf == Append(g.buffer, "ff")
           oa == Append(p.out, "a")
           of == Append(p.out, "ff")
<1>5. /\ oa = x \o ba /\ ba \in Seq(DataChar) /\ Len(ba) = Len(g.buffer) + 1
      /\ of = x \o bf /\ bf \in Seq(DataChar) /\ Len(bf) = Len(g.buffer) + 1
  BY <1>3 DEF DataChar
<1>6. CASE p.at = "DATA" /\ b = "iac"
  <2>1. f = [g EXCEPT !.telnet = "IAC"] /\ r = [at |-> "IAC", out |-> p.out]
    BY <1>1, <1>6 DEF ProcessTelnetByte, Hears
  <2> HIDE DEF f, r, x
  <2>2. /\ f \in Device /\ f.socket = g.socket /\ f.state = g.state /\ f.qDev = g.qDev
        /\ f.escapeCount = g.escapeCount /\ f.telnet = r.at /\ f.buffer = g.buffer /\ r.out = p.out
    BY <1>1, <2>1 DEF Device
  <2>3. Midway(f, e, c, r, k + 1)
    <3>1. Len(f.buffer) <= Len(g.buffer) + 1 /\ r.out = x \o f.buffer
      BY <1>1, <2>2
    <3> QED
      BY <2>2, <3>1, MidwayMoves DEF x
  <2> QED
    BY <2>3 DEF f, r
<1>7. CASE p.at = "DATA" /\ b = "a"
  <2>1. f = [g EXCEPT !.buffer = ba] /\ r = [at |-> "DATA", out |-> oa]
    BY <1>1, <1>7 DEF ProcessTelnetByte, Hears
  <2> HIDE DEF f, r, x, ba, oa
  <2>2. /\ f \in Device /\ f.socket = g.socket /\ f.state = g.state /\ f.qDev = g.qDev
        /\ f.escapeCount = g.escapeCount /\ f.telnet = r.at /\ f.buffer = ba /\ r.out = oa
    BY <1>1, <1>5, <1>7, <2>1 DEF Device, DataChar
  <2>3. Midway(f, e, c, r, k + 1)
    <3>1. Len(f.buffer) <= Len(g.buffer) + 1 /\ r.out = x \o f.buffer
      BY <1>1, <1>5, <2>2
    <3> QED
      BY <2>2, <3>1, MidwayMoves DEF x
  <2> QED
    BY <2>3 DEF f, r
<1>8. CASE p.at = "IAC" /\ b = "iac"
  <2>1. f = [g EXCEPT !.buffer = bf, !.telnet = "DATA"] /\ r = [at |-> "DATA", out |-> of]
    BY <1>1, <1>8 DEF ProcessTelnetByte, Hears
  <2> HIDE DEF f, r, x, bf, of
  <2>2. /\ f \in Device /\ f.socket = g.socket /\ f.state = g.state /\ f.qDev = g.qDev
        /\ f.escapeCount = g.escapeCount /\ f.telnet = r.at /\ f.buffer = bf /\ r.out = of
    BY <1>1, <1>5, <1>8, <2>1 DEF Device, DataChar
  <2>3. Midway(f, e, c, r, k + 1)
    <3>1. Len(f.buffer) <= Len(g.buffer) + 1 /\ r.out = x \o f.buffer
      BY <1>1, <1>5, <2>2
    <3> QED
      BY <2>2, <3>1, MidwayMoves DEF x
  <2> QED
    BY <2>3 DEF f, r
<1>9. CASE p.at = "IAC" /\ b \in {"will", "wont", "do"}
  <2>1. f = [g EXCEPT !.telnet = "NEGOTIATE", !.command = b]
    BY <1>1, <1>9 DEF ProcessTelnetByte
  <2>4. r = [at |-> "NEGOTIATE", out |-> p.out]
    BY <1>1, <1>9 DEF Hears
  <2> HIDE DEF f, r, x
  <2>2. /\ f \in Device /\ f.socket = g.socket /\ f.state = g.state /\ f.qDev = g.qDev
        /\ f.escapeCount = g.escapeCount /\ f.telnet = r.at /\ f.buffer = g.buffer /\ r.out = p.out
    BY <1>1, <1>9, <2>1, <2>4 DEF Device
  <2>3. Midway(f, e, c, r, k + 1)
    <3>1. Len(f.buffer) <= Len(g.buffer) + 1 /\ r.out = x \o f.buffer
      BY <1>1, <2>2
    <3> QED
      BY <2>2, <3>1, MidwayMoves DEF x
  <2> QED
    BY <2>3 DEF f, r
<1>11. CASE p.at = "IAC" /\ b = "other"
  <2>1. f = [g EXCEPT !.telnet = "DATA"] /\ r = [at |-> "DATA", out |-> p.out]
    BY <1>1, <1>11 DEF ProcessTelnetByte, Hears
  <2> HIDE DEF f, r, x
  <2>2. /\ f \in Device /\ f.socket = g.socket /\ f.state = g.state /\ f.qDev = g.qDev
        /\ f.escapeCount = g.escapeCount /\ f.telnet = r.at /\ f.buffer = g.buffer /\ r.out = p.out
    BY <1>1, <2>1 DEF Device
  <2>3. Midway(f, e, c, r, k + 1)
    <3>1. Len(f.buffer) <= Len(g.buffer) + 1 /\ r.out = x \o f.buffer
      BY <1>1, <2>2
    <3> QED
      BY <2>2, <3>1, MidwayMoves DEF x
  <2> QED
    BY <2>3 DEF f, r
<1>10. CASE p.at = "NEGOTIATE" /\ b = "opt"
  <2> DEFINE a == CASE g.command = "will" -> SendTelnetResponse(g, "do")
                    [] g.command = "do" -> SendTelnetResponse(g, "will")
                    [] OTHER -> g
  <2>1. f = [a EXCEPT !.telnet = "DATA"] /\ r = [at |-> "DATA", out |-> p.out]
    BY <1>1, <1>10 DEF ProcessTelnetByte, Hears
  <2>2. TxGood(g.socket, g.escapeCount)
    BY DEF Midway
  <2>3. /\ a \in Device /\ a.socket = [g.socket EXCEPT !.out = a.socket.out]
        /\ a.state = g.state /\ a.qDev = g.qDev /\ a.escapeCount = g.escapeCount
        /\ a.buffer = g.buffer /\ TxGood(a.socket, g.escapeCount)
    <3>1. CASE g.command = "will"
      <4>1. a = SendTelnetResponse(g, "do")
        BY <3>1
      <4> HIDE DEF a
      <4> QED
        BY <1>1, <2>2, <4>1, AnswerGood
    <3>2. CASE g.command = "do"
      <4>1. a = SendTelnetResponse(g, "will")
        BY <3>2
      <4> HIDE DEF a
      <4> QED
        BY <1>1, <2>2, <4>1, AnswerGood
    <3>3. CASE g.command \notin {"will", "do"}
      <4>1. a = g
        BY <3>3
      <4> HIDE DEF a
      <4>2. g.socket = [g.socket EXCEPT !.out = g.socket.out]
        BY <1>1 DEF Device, Socket
      <4> QED
        BY <1>1, <2>2, <4>1, <4>2
    <3> QED
      BY <3>1, <3>2, <3>3
  <2> HIDE DEF f, r, x, a
  <2>4. /\ f \in Device /\ f.socket = a.socket /\ f.state = g.state /\ f.qDev = g.qDev
        /\ f.escapeCount = g.escapeCount /\ f.telnet = r.at /\ f.buffer = g.buffer /\ r.out = p.out
    BY <2>1, <2>3 DEF Device
  <2>5. f.socket = [e.socket EXCEPT !.out = f.socket.out]
    <3>1. /\ e.socket \in Socket /\ g.socket = [e.socket EXCEPT !.out = g.socket.out]
          /\ a.socket = [g.socket EXCEPT !.out = a.socket.out]
      BY <2>3, DeviceFields DEF Midway
    <3> QED
      BY <2>4, <3>1 DEF Socket
  <2>6. Len(f.buffer) <= Len(e.buffer) + (k + 1)
    <3>1. Len(f.buffer) = Len(g.buffer) /\ Len(g.buffer) <= Len(g.buffer) + 1
      BY <1>1, <2>4
    <3> QED
      BY <1>1, <3>1, OneMore, Zenon
  <2>7. Midway(f, e, c, r, k + 1)
    BY <1>1, <2>3, <2>4, <2>5, <2>6 DEF Midway, x
  <2> QED
    BY <2>7 DEF f, r
<1> QED
  <2>1. \/ r.at = "bad"
        \/ p.at = "DATA" /\ b = "iac"
        \/ p.at = "DATA" /\ b = "a"
        \/ p.at = "IAC" /\ b = "iac"
        \/ p.at = "IAC" /\ b \in {"will", "wont", "do"}
        \/ p.at = "IAC" /\ b = "other"
        \/ p.at = "NEGOTIATE" /\ b = "opt"
    <3> HIDE DEF r, oa, of, f, x
    <3> SUFFICES ASSUME ~(p.at = "DATA" /\ b = "iac"), ~(p.at = "DATA" /\ b = "a"),
                        ~(p.at = "IAC" /\ b = "iac"), ~(p.at = "IAC" /\ b \in {"will", "wont", "do"}),
                        ~(p.at = "IAC" /\ b = "other"), ~(p.at = "NEGOTIATE" /\ b = "opt")
                 PROVE  r.at = "bad"
      OBVIOUS
    <3>1. r = CASE p.at = "DATA" /\ b = "iac" -> [at |-> "IAC", out |-> p.out]
                [] p.at = "DATA" /\ b = "a" -> [at |-> "DATA", out |-> oa]
                [] p.at = "IAC" /\ b = "iac" -> [at |-> "DATA", out |-> of]
                [] p.at = "IAC" /\ b \in {"will", "wont", "do"} -> [at |-> "NEGOTIATE", out |-> p.out]
                [] p.at = "IAC" /\ b = "other" -> [at |-> "DATA", out |-> p.out]
                [] p.at = "NEGOTIATE" /\ b = "opt" -> [at |-> "DATA", out |-> p.out]
                [] OTHER -> [at |-> "bad", out |-> p.out]
      BY DEF Hears, r, oa, of
    <3>2. r = [at |-> "bad", out |-> p.out]
      BY <3>1
    <3> QED
      BY <3>2
  <2> QED
    BY <1>6, <1>7, <1>8, <1>9, <1>10, <1>11, <2>1

-----------------------------------------------------------------------------
(* The machine over all the bytes of a read.                               *)

LEMMA StartsTransitive ==
    ASSUME NEW S, NEW x \in Seq(S), NEW y \in Seq(S), NEW z \in Seq(S), Starts(x, y), Starts(y, z)
    PROVE  Starts(x, z)
<1>1. Len(x) \in Nat /\ Len(y) \in Nat /\ Len(z) \in Nat
  BY LenProperties
<1>2. Len(x) <= Len(y) /\ Len(y) <= Len(z)
  BY DEF Starts
<1>3. ASSUME NEW k \in 1 .. Len(x) PROVE x[k] = z[k]
  <2>1. k \in 1 .. Len(y)
    BY <1>1, <1>2
  <2> QED
    BY <2>1 DEF Starts
<1>4. Len(x) <= Len(z)
  BY <1>1, <1>2
<1> QED
  BY <1>3, <1>4 DEF Starts

(* A byte never takes data back, and "bad" is for good.                    *)
LEMMA HearsMore ==
    ASSUME NEW p \in Heard, NEW b \in InByte
    PROVE  /\ Hears(p, b) \in Heard
           /\ Starts(p.out, Hears(p, b).out)
           /\ p.at = "bad" => Hears(p, b).at = "bad"
<1> DEFINE oa == Append(p.out, "a")
           of == Append(p.out, "ff")
           r == Hears(p, b)
<1>1. r = CASE p.at = "DATA" /\ b = "iac" -> [at |-> "IAC", out |-> p.out]
            [] p.at = "DATA" /\ b = "a" -> [at |-> "DATA", out |-> oa]
            [] p.at = "IAC" /\ b = "iac" -> [at |-> "DATA", out |-> of]
            [] p.at = "IAC" /\ b \in {"will", "wont", "do"} -> [at |-> "NEGOTIATE", out |-> p.out]
            [] p.at = "IAC" /\ b = "other" -> [at |-> "DATA", out |-> p.out]
            [] p.at = "NEGOTIATE" /\ b = "opt" -> [at |-> "DATA", out |-> p.out]
            [] OTHER -> [at |-> "bad", out |-> p.out]
  BY DEF Hears
<1>2. p.out \in Seq(DataChar) /\ Len(p.out) \in Nat
  BY LenProperties DEF Heard
<1>3. oa \in Seq(DataChar) /\ of \in Seq(DataChar)
  BY <1>2, AppendProperties DEF DataChar
<1>4. Starts(p.out, p.out) /\ Starts(p.out, oa) /\ Starts(p.out, of)
  <2>1. Len(p.out) <= Len(p.out) /\ Len(p.out) <= Len(oa) /\ Len(p.out) <= Len(of)
    BY <1>2, AppendProperties
  <2>2. \A k \in 1 .. Len(p.out) : oa[k] = p.out[k] /\ of[k] = p.out[k]
    BY <1>2, AppendProperties
  <2> HIDE DEF oa, of
  <2> QED
    BY <2>1, <2>2 DEF Starts
<1> HIDE DEF oa, of, r
<1>5. r.at \in {"DATA", "IAC", "NEGOTIATE", "bad"} /\ r.out \in {p.out, oa, of}
      /\ r = [at |-> r.at, out |-> r.out]
  BY <1>1
<1>6. r \in Heard
  BY <1>2, <1>3, <1>5 DEF Heard
<1>7. p.at = "bad" => r.at = "bad"
  BY <1>1
<1>8. Starts(p.out, r.out)
  BY <1>4, <1>5
<1> QED
  BY <1>6, <1>7, <1>8 DEF r

LEMMA HearingEnds ==
    ASSUME NEW in \in Seq(InByte), NEW h, Hearing(h, in), NEW n \in 0 .. Len(in), h[Len(in)].at # "bad"
    PROVE  h[n].at # "bad" /\ Starts(h[n].out, h[Len(in)].out)
<1> DEFINE L == Len(in)
           P(j) == h[j].at # "bad" /\ Starts(h[j].out, h[L].out)
           S == {j \in 0 .. L : P(L - j)}
<1>1. L \in Nat /\ \A i \in 1 .. L : in[i] \in InByte
  BY LenProperties, ElementOfSeq
<1>2. /\ \A i \in 0 .. L : h[i] \in Heard /\ h[i].out \in Seq(DataChar)
      /\ \A i \in 1 .. L : h[i] = Hears(h[i - 1], in[i])
  BY DEF Hearing, Heard
<1>3. P(L)
  <2>1. L \in 0 .. L
    BY <1>1
  <2>2. Len(h[L].out) \in Nat
    BY <1>2, <2>1, LenProperties
  <2> QED
    BY <2>2 DEF Starts
<1> HIDE DEF L
<1>4. ASSUME NEW i \in 1 .. L, P(i) PROVE P(i - 1)
  <2>1. i - 1 \in 0 .. L /\ i \in 0 .. L /\ L \in 0 .. L
    BY <1>1
  <2> DEFINE p == h[i - 1]
             b == in[i]
             r == h[i]
  <2>2. p \in Heard /\ b \in InByte /\ r = Hears(p, b) /\ r \in Heard
    BY <1>1, <1>2, <2>1
  <2>5. p.out \in Seq(DataChar) /\ r.out \in Seq(DataChar) /\ h[L].out \in Seq(DataChar)
    BY <1>2, <2>1
  <2> HIDE DEF p, b
  <2>3. Starts(p.out, r.out) /\ (p.at = "bad" => r.at = "bad")
    BY <2>2, HearsMore
  <2>4. r.at # "bad" /\ Starts(r.out, h[L].out)
    BY <1>4
  <2> HIDE DEF r
  <2>6. Starts(p.out, h[L].out)
    BY <2>3, <2>4, <2>5, StartsTransitive
  <2> QED
    BY <2>3, <2>4, <2>6 DEF p
<1> HIDE DEF P
<1>5. 0 \in S
  BY <1>1, <1>3
<1>6. ASSUME NEW j \in 1 .. L, j - 1 \in S PROVE j \in S
  <2>1. P(L - (j - 1)) /\ j \in 0 .. L
    BY <1>1, <1>6
  <2>2. L - (j - 1) \in 1 .. L /\ (L - (j - 1)) - 1 = L - j
    BY <1>1
  <2>3. P((L - (j - 1)) - 1)
    BY <1>4, <2>1, <2>2
  <2> QED
    BY <2>1, <2>2, <2>3
<1>7. L - n \in S
  <2> HIDE DEF S
  <2>1. 0 .. L \subseteq S
    BY <1>1, <1>5, <1>6, CountUp
  <2> QED
    BY <1>1, <2>1 DEF L
<1>8. P(L - (L - n))
  BY <1>7
<1>9. L - (L - n) = n
  BY <1>1 DEF L
<1> QED
  BY <1>8, <1>9 DEF P, L

StepRun(f, T, b, n, g) ==
    f \in [0 .. n -> T] /\ f[0] = b /\ \A i \in 1 .. n : f[i] = g[i][f[i - 1]]

LEMMA StepsRun ==
    ASSUME NEW T, NEW b \in T, NEW n \in Nat, NEW g \in [1 .. n -> [T -> T]]
    PROVE  \E f : StepRun(f, T, b, n, g)
BY StepsExist DEF StepRun

LEMMA TelnetFold ==
    ASSUME NEW c \in 1 .. MaxConn, NEW e, Good(e, c), NEW in \in Seq(InByte), NEW h, Hearing(h, in),
           NEW n \in 0 .. Len(in), h[Len(in)].at # "bad",
           h[0] = [at |-> e.telnet, out |-> Seen(e.socket, e.qDev, e.buffer, c)]
    PROVE  Midway(ProcessTelnet(e, SubSeq(in, 1, n)), e, c, h[n], n)
<1> DEFINE bytes == SubSeq(in, 1, n)
           T == Device
           B(k) == in[k]
           P(g, b) == ProcessTelnetByte(g, b)
           step == [k \in 1 .. n |-> [g \in T |-> IF P(g, B(k)) \in T THEN P(g, B(k)) ELSE g]]
           After(f) == [k \in 0 .. n |-> IF k = 0 THEN e ELSE P(f[k - 1], B(k))]
           up == CHOOSE f : f = After(f)
           M(g, k) == Midway(g, e, c, h[k], k)
<1>1. Len(in) \in Nat /\ n \in Nat /\ \A i \in 1 .. Len(in) : in[i] \in InByte
  BY LenProperties, ElementOfSeq
<1>2. Len(bytes) = n /\ \A k \in 1 .. n : bytes[k] = in[k]
  BY <1>1
<1>3. ProcessTelnet(e, bytes) = up[n]
  <2> HIDE DEF bytes
  <2>2. ProcessTelnet(e, bytes)
          = (CHOOSE f : f = [k \in 0 .. n |-> IF k = 0 THEN e ELSE P(f[k - 1], bytes[k])])[n]
    BY <1>2 DEF ProcessTelnet
  <2>3. \A f : [k \in 0 .. n |-> IF k = 0 THEN e ELSE P(f[k - 1], bytes[k])] = After(f)
    BY <1>1, <1>2
  <2> QED
    BY <2>2, <2>3
<1>4. e \in T /\ M(e, 0)
  <2>1. e \in Device /\ e.socket \in Socket /\ Len(e.buffer) \in Nat
    BY DeviceFields, LenProperties DEF Good
  <2>2. e.socket = [e.socket EXCEPT !.out = e.socket.out]
    BY <2>1 DEF Socket
  <2>3. Len(e.buffer) <= Len(e.buffer) + 0 /\ TxGood(e.socket, e.escapeCount)
    BY <2>1 DEF Good
  <2>4. h[0].at = e.telnet /\ h[0].out = (e.socket.got \o Waiting(e.qDev, c)) \o e.buffer
    <3>1. h[0].at = e.telnet /\ h[0].out = Seen(e.socket, e.qDev, e.buffer, c)
      OBVIOUS
    <3> QED
      BY <3>1, Zenon DEF Seen
  <2> QED
    BY <2>1, <2>2, <2>3, <2>4 DEF Midway
<1>5. ASSUME NEW k \in 1 .. n, NEW g, M(g, k - 1) PROVE M(P(g, B(k)), k) /\ P(g, B(k)) \in T
  <2>1. k - 1 \in 0 .. Len(in) /\ k \in 0 .. Len(in) /\ k \in 1 .. Len(in) /\ k - 1 \in Nat
        /\ (k - 1) + 1 = k
    BY <1>1
  <2> DEFINE p == h[k - 1]
             b == in[k]
  <2>2. p \in Heard /\ b \in InByte /\ h[k] = Hears(p, b)
    BY <1>1, <2>1 DEF Hearing
  <2>3. h[k].at # "bad"
    BY <2>1, HearingEnds
  <2>4. e \in Device /\ QueueOk(e.qDev, c) /\ Midway(g, e, c, p, k - 1)
    BY <1>5 DEF Good
  <2> HIDE DEF p, b
  <2>5. Midway(ProcessTelnetByte(g, b), e, c, Hears(p, b), (k - 1) + 1)
    BY <2>1, <2>2, <2>3, <2>4, TelnetStep
  <2>6. Midway(ProcessTelnetByte(g, b), e, c, h[k], k)
    BY <2>1, <2>2, <2>5
  <2> QED
    BY <2>6 DEF Midway, b
<1> HIDE DEF P, B, T, bytes
<1>6. step \in [1 .. n -> [T -> T]]
  BY Zenon
<1>7. \A k \in 1 .. n : \A g \in T : P(g, B(k)) \in T => step[k][g] = P(g, B(k))
  OBVIOUS
<1> HIDE DEF step, M, After, up
<1>20. PICK f : StepRun(f, T, e, n, step)
  BY <1>1, <1>4, <1>6, StepsRun
<1>8. f \in [0 .. n -> T] /\ f[0] = e /\ \A k \in 1 .. n : f[k] = step[k][f[k - 1]]
  BY <1>20 DEF StepRun
<1> DEFINE S == {k \in 0 .. n : M(f[k], k)}
<1>9. 0 \in S
  BY <1>1, <1>4, <1>8
<1>10. ASSUME NEW k \in 1 .. n, M(f[k - 1], k - 1) PROVE f[k] = P(f[k - 1], B(k)) /\ M(f[k], k)
  <2>1. f[k - 1] \in T
    BY <1>1, <1>8
  <2>2. M(P(f[k - 1], B(k)), k) /\ P(f[k - 1], B(k)) \in T
    BY <1>5, <1>10
  <2>3. f[k] = P(f[k - 1], B(k))
    BY <1>7, <1>8, <2>1, <2>2, Zenon
  <2> QED
    BY <2>2, <2>3
<1>11. ASSUME NEW k \in 1 .. n, k - 1 \in S PROVE k \in S
  <2>1. k \in 0 .. n /\ M(f[k - 1], k - 1)
    BY <1>1, <1>11
  <2> QED
    BY <1>10, <2>1
<1>12. 0 .. n \subseteq S
  <2> HIDE DEF S
  <2> QED
    BY <1>1, <1>9, <1>11, CountUp
<1>13. \A k \in 1 .. n : f[k] = P(f[k - 1], B(k))
  <2> SUFFICES ASSUME NEW k \in 1 .. n PROVE f[k] = P(f[k - 1], B(k))
    OBVIOUS
  <2>1. k - 1 \in S
    BY <1>1, <1>12
  <2> QED
    BY <1>10, <2>1
<1>14. f = After(f)
  <2>1. \A k \in 0 .. n : f[k] = After(f)[k]
    BY <1>1, <1>8, <1>13 DEF After
  <2>2. f = [k \in 0 .. n |-> f[k]] /\ After(f) = [k \in 0 .. n |-> After(f)[k]]
    BY <1>8 DEF After
  <2> QED
    BY <2>1, <2>2
<1>15. up = After(up)
  BY <1>14 DEF up
<1>16. up[0] = e /\ \A k \in 1 .. n : up[k] = P(up[k - 1], B(k))
  <2>1. After(up)[0] = e
    BY <1>1 DEF After
  <2>2. ASSUME NEW k \in 1 .. n PROVE After(up)[k] = P(up[k - 1], B(k))
    <3>1. k \in 0 .. n /\ k # 0
      BY <1>1
    <3> QED
      BY <3>1 DEF After
  <2> QED
    BY <1>15, <2>1, <2>2, Zenon
<1>17. up[n] = f[n]
  <2>1. up[0] = f[0] /\ \A k \in 1 .. n : up[k - 1] = f[k - 1] => up[k] = f[k]
    BY <1>8, <1>13, <1>16
  <2> HIDE DEF S
  <2> QED
    BY <1>1, <2>1, SameEnd
<1>18. M(f[n], n)
  <2>1. n \in S
    BY <1>1, <1>12
  <2> QED
    BY <2>1
<1> QED
  BY <1>3, <1>17, <1>18 DEF M, bytes

(* What was read is no longer in the socket.                               *)
LEMMA CutHearing ==
    ASSUME NEW in \in Seq(InByte), NEW h, Hearing(h, in), NEW n \in 0 .. Len(in)
    PROVE  LET rest == SubSeq(in, n + 1, Len(in))
               t == [j \in 0 .. Len(rest) |-> h[j + n]]
           IN  /\ rest \in Seq(InByte) /\ Hearing(t, rest)
               /\ t[0] = h[n] /\ t[Len(rest)] = h[Len(in)]
<1> DEFINE L == Len(in)
           rest == SubSeq(in, n + 1, L)
           t == [j \in 0 .. Len(rest) |-> h[j + n]]
<1>1. L \in Nat /\ n \in Nat /\ n <= L /\ \A i \in 1 .. L : in[i] \in InByte
  BY LenProperties, ElementOfSeq
<1>2. rest \in Seq(InByte) /\ Len(rest) = L - n /\ \A i \in 1 .. L - n : rest[i] = in[n + i]
  BY <1>1
<1>3. h \in [0 .. L -> Heard] /\ \A i \in 1 .. L : h[i] = Hears(h[i - 1], in[i])
  BY DEF Hearing
<1>4. t \in [0 .. L - n -> Heard]
  <2>1. \A j \in 0 .. L - n : h[j + n] \in Heard
    BY <1>1, <1>3
  <2> QED
    BY <1>2, <2>1
<1>5. \A j \in 0 .. L - n : t[j] = h[j + n]
  BY <1>2
<1> HIDE DEF rest, t, L
<1>6. ASSUME NEW j \in 1 .. L - n PROVE t[j] = Hears(t[j - 1], rest[j])
  <2>1. j + n \in 1 .. L /\ (j + n) - 1 = (j - 1) + n /\ j \in 0 .. L - n /\ j - 1 \in 0 .. L - n
        /\ n + j = j + n
    BY <1>1
  <2>2. h[j + n] = Hears(h[(j + n) - 1], in[j + n])
    BY <1>3, <2>1, Zenon
  <2>3. t[j] = h[j + n] /\ t[j - 1] = h[(j - 1) + n] /\ rest[j] = in[n + j]
    BY <1>2, <1>5, <2>1, Zenon
  <2> QED
    BY <2>1, <2>2, <2>3, Zenon
<1>7. Hearing(t, rest)
  BY <1>2, <1>4, <1>6 DEF Hearing
<1>8. t[0] = h[n] /\ t[L - n] = h[L]
  <2>1. 0 \in 0 .. L - n /\ L - n \in 0 .. L - n /\ 0 + n = n /\ (L - n) + n = L
    BY <1>1
  <2> QED
    BY <1>5, <2>1, Zenon
<1> QED
  BY <1>2, <1>7, <1>8 DEF t, rest, L

LEMMA CutGood ==
    ASSUME NEW c \in 1 .. MaxConn, NEW e, Good(e, c), e.socket.st = "up", Len(e.buffer) < BufCap,
           NEW n \in 0 .. ReadMax, n <= Len(e.socket.in)
    PROVE  LET g == ProcessTelnet(e, SubSeq(e.socket.in, 1, n)) IN
           /\ g \in Device /\ g.socket.in = e.socket.in
           /\ g.socket.st = "up" /\ g.state = e.state
           /\ Good([g EXCEPT !.socket.in = SubSeq(@, n + 1, Len(@))], c)
<1> DEFINE in == e.socket.in
           g == ProcessTelnet(e, SubSeq(in, 1, n))
           rest == SubSeq(in, n + 1, Len(in))
           f == [g EXCEPT !.socket.in = SubSeq(@, n + 1, Len(@))]
           x == e.socket.got \o Waiting(e.qDev, c)
<1>1. /\ e \in Device /\ e.socket \in Socket /\ in \in Seq(InByte) /\ QueueOk(e.qDev, c)
      /\ SocketOk(e.socket, e.buffer, c) /\ Len(e.buffer) \in Nat /\ Len(in) \in Nat
      /\ e.state = "ESCAPE" => e.escapeCount = 3
  BY DeviceFields, LenProperties DEF Good
<1>2. PICK h : HeardFrom(h, e.socket, e.telnet, Seen(e.socket, e.qDev, e.buffer, c))
  BY DEF Good, RxGood
<1>3. /\ Hearing(h, in) /\ h[0] = [at |-> e.telnet, out |-> Seen(e.socket, e.qDev, e.buffer, c)]
      /\ Ends(h[Len(in)], e.socket.alive, e.socket.sent)
  BY <1>2 DEF HeardFrom
<1>4. n \in 0 .. Len(in) /\ n \in Nat
  BY <1>1, Sizes
<1>5. h[Len(in)].at # "bad"
  BY <1>3 DEF Ends
<1> HIDE DEF in
<1>6. Midway(g, e, c, h[n], n)
  BY <1>1, <1>3, <1>4, <1>5, TelnetFold
<1> HIDE DEF g
<1>7. /\ g \in Device /\ g.socket = [e.socket EXCEPT !.out = g.socket.out] /\ g.state = e.state
      /\ g.qDev = e.qDev /\ g.escapeCount = e.escapeCount /\ g.telnet = h[n].at
      /\ h[n].out = x \o g.buffer /\ Len(g.buffer) <= Len(e.buffer) + n
      /\ TxGood(g.socket, e.escapeCount)
  BY <1>6 DEF Midway
<1>8. /\ g.socket.in = in /\ g.socket.st = "up" /\ g.socket.alive = e.socket.alive
      /\ g.socket.sent = e.socket.sent /\ g.socket.got = e.socket.got /\ g.socket \in Socket
      /\ g.buffer \in Seq(DataChar) /\ Len(g.buffer) \in Nat
  <2>1. g.socket \in Socket /\ g.buffer \in Seq(DataChar)
    BY <1>7, DeviceFields
  <2> QED
    BY <1>1, <1>7, <2>1, LenProperties DEF Socket, in
<1> DEFINE t == [j \in 0 .. Len(rest) |-> h[j + n]]
<1>9. /\ rest \in Seq(InByte) /\ Hearing(t, rest)
      /\ t[0] = h[n] /\ t[Len(rest)] = h[Len(in)]
  BY <1>1, <1>3, <1>4, CutHearing
<1>10. f = [g EXCEPT !.socket = [g.socket EXCEPT !.in = rest]]
  BY <1>7, <1>8 DEF Device
<1> HIDE DEF t, rest, f, x
<1>11. /\ f \in Device /\ f.socket.in = rest /\ f.socket.st = "up" /\ f.socket.alive = e.socket.alive
       /\ f.socket.sent = e.socket.sent /\ f.socket.got = e.socket.got /\ f.state = e.state
       /\ f.qDev = e.qDev /\ f.escapeCount = e.escapeCount /\ f.telnet = h[n].at
       /\ f.buffer = g.buffer /\ f.socket.typed = g.socket.typed /\ f.socket.out = g.socket.out
  <2> DEFINE s == [g.socket EXCEPT !.in = rest]
  <2>1. /\ s \in Socket /\ s.in = rest /\ s.st = "up" /\ s.alive = e.socket.alive
        /\ s.sent = e.socket.sent /\ s.got = e.socket.got
        /\ s.typed = g.socket.typed /\ s.out = g.socket.out
    BY <1>8, <1>9 DEF Socket, InByte
  <2> HIDE DEF s
  <2>2. f = [g EXCEPT !.socket = s]
    BY <1>10 DEF s
  <2>3. /\ f \in Device /\ f.socket = s /\ f.state = g.state /\ f.qDev = g.qDev
        /\ f.escapeCount = g.escapeCount /\ f.telnet = g.telnet /\ f.buffer = g.buffer
    BY <1>7, <2>1, <2>2 DEF Device
  <2> QED
    BY <1>7, <2>1, <2>3
<1>12. Len(f.buffer) < BufCap + ReadMax
  <2>1. BufCap \in Nat /\ ReadMax \in Nat /\ n <= ReadMax /\ Len(e.buffer) < BufCap
    BY Sizes
  <2> DEFINE a == Len(g.buffer)
             b == Len(e.buffer)
  <2>2. a \in Nat /\ b \in Nat /\ a <= b + n /\ b < BufCap
    BY <1>1, <1>7, <1>8
  <2> HIDE DEF a, b
  <2>3. a < BufCap + ReadMax
    BY <1>4, <2>1, <2>2
  <2> QED
    BY <1>11, <2>3 DEF a
<1>13. TxGood(f.socket, f.escapeCount)
  BY <1>7, <1>8, <1>11 DEF TxGood
<1>14. Seen(f.socket, f.qDev, f.buffer, c) = x \o g.buffer
  BY <1>11, Zenon DEF Seen, x
<1>15. t[0] = [at |-> f.telnet, out |-> Seen(f.socket, f.qDev, f.buffer, c)]
  <2>1. h[n] \in Heard
    BY <1>3, <1>4 DEF Hearing
  <2>2. h[n] = [at |-> h[n].at, out |-> h[n].out]
    BY <2>1 DEF Heard
  <2> QED
    BY <1>7, <1>9, <1>11, <1>14, <2>2
<1>16. HeardFrom(t, f.socket, f.telnet, Seen(f.socket, f.qDev, f.buffer, c))
  BY <1>3, <1>9, <1>11, <1>15 DEF HeardFrom
<1>17. SocketOk(f.socket, f.buffer, c)
  BY <1>1, <1>11 DEF SocketOk
<1>18. Good(f, c)
  BY <1>1, <1>11, <1>12, <1>13, <1>16, <1>17 DEF Good, RxGood
<1> QED
  BY <1>7, <1>8, <1>18 DEF f, g, in

(* check_tcp_data after a read of n bytes.                                 *)
LEMMA ReadGood ==
    ASSUME conn \in 1 .. MaxConn, NEW e, Good(e, conn), e.socket.st = "up", Len(e.buffer) < BufCap,
           NEW n \in 0 .. ReadMax, n <= Len(e.socket.in)
    PROVE  LET f == [Drain(ProcessTelnet(e, SubSeq(e.socket.in, 1, n))) EXCEPT
                        !.socket.in = SubSeq(@, n + 1, Len(@))]
           IN  Good(f, conn) /\ f.socket.st = "up" /\ f.state = e.state
<1> DEFINE g == ProcessTelnet(e, SubSeq(e.socket.in, 1, n))
           rest == SubSeq(g.socket.in, n + 1, Len(g.socket.in))
           k == [g EXCEPT !.socket.in = SubSeq(@, n + 1, Len(@))]
           f == [Drain(g) EXCEPT !.socket.in = SubSeq(@, n + 1, Len(@))]
<1>1. g \in Device /\ g.socket.in = e.socket.in /\ g.socket.st = "up" /\ g.state = e.state /\ Good(k, conn)
  BY CutGood
<1> HIDE DEF g
<1>2. g.socket \in Socket
  BY <1>1, DeviceFields
<1>3. k = [g EXCEPT !.socket = [g.socket EXCEPT !.in = rest]]
  BY <1>1, <1>2 DEF Device
<1>4. Drain(g).socket = g.socket /\ f = [Drain(g) EXCEPT !.socket = [g.socket EXCEPT !.in = rest]]
  BY <1>1, <1>2 DEF Device, Drain
<1> DEFINE s == [g.socket EXCEPT !.in = rest]
<1>5. s.st = "up"
  BY <1>1, <1>2 DEF Socket
<1> HIDE DEF s, f, k
<1>6. f = Drain(k)
  <2> DEFINE room == RingCap - Len(g.qDev)
             m == IF room < Len(g.buffer) THEN room ELSE Len(g.buffer)
             q == g.qDev \o Batch(conn, g.buffer, m)
             y == SubSeq(g.buffer, m + 1, Len(g.buffer))
  <2>1. k.qDev = g.qDev /\ k.buffer = g.buffer /\ k = [g EXCEPT !.socket = s]
    BY <1>1, <1>3 DEF Device, s
  <2>2. Drain(g) = [g EXCEPT !.qDev = q, !.buffer = y]
    BY DEF Drain, Batch
  <2>3. Drain(k) = [k EXCEPT !.qDev = q, !.buffer = y]
    BY <2>1 DEF Drain, Batch
  <2>4. f = [Drain(g) EXCEPT !.socket = s]
    BY <1>4 DEF s
  <2> HIDE DEF room, m, q, y
  <2> QED
    BY <1>1, <2>1, <2>2, <2>3, <2>4 DEF Device
<1>7. k.socket = s /\ k.state = e.state
  BY <1>1, <1>3 DEF Device, s
<1>8. Good(f, conn) /\ f.socket = k.socket /\ f.state = k.state
  BY <1>1, <1>5, <1>6, <1>7, DrainGood
<1> QED
  BY <1>5, <1>7, <1>8 DEF f, g

-----------------------------------------------------------------------------
(* What the guest sends.                                                   *)

LEMMA ResponseQueue ==
    ASSUME NEW c \in Nat, NEW e \in Device, QueueOk(e.qDev, c)
    PROVE  SendResponse(e) \in Device /\ QueueOk(SendResponse(e).qDev, c)
<1> DEFINE q == Append(e.qDev, Result)
<1>1. Result \in Item /\ Result.conn = 0
  BY Sizes DEF Result, Item
<1>2. e.qDev \in Seq(Item) /\ Len(e.qDev) \in Nat
  BY DeviceFields, LenProperties
<1>3. CASE QueueFull(e)
  <2>1. SendResponse(e) = e
    BY <1>3 DEF SendResponse, Send
  <2> QED
    BY <2>1
<1>4. CASE ~QueueFull(e)
  <2>1. SendResponse(e) = [e EXCEPT !.qDev = q]
    BY <1>4 DEF SendResponse, Send
  <2>2. Len(e.qDev) < RingCap
    BY <1>2, <1>4, Sizes DEF QueueFull
  <2>3. q \in Seq(Item) /\ QueueOk(q, c)
    BY <1>1, <1>2, <2>2, SendQueue
  <2> HIDE DEF q
  <2> QED
    BY <2>1, <2>3, KeepsQueue
<1> QED
  BY <1>3, <1>4

(* Without a connection the held characters and the state are free.        *)
LEMMA NoCallGood ==
    ASSUME NEW c, NEW e, Good(e, c), e.socket.st # "up", NEW f \in Device,
           f.socket = e.socket, f.buffer = e.buffer, f.qDev = e.qDev,
           f.state = "ESCAPE" => f.escapeCount = 3
    PROVE  Good(f, c)
<1>1. /\ QueueOk(f.qDev, c) /\ SocketOk(f.socket, f.buffer, c) /\ Len(f.buffer) < BufCap + ReadMax
  BY DEF Good
<1>2. \A x : RxGood(f.socket, f.telnet, x)
  BY DEF RxGood
<1>3. TxGood(f.socket, f.escapeCount)
  BY DEF TxGood
<1> QED
  BY <1>1, <1>2, <1>3 DEF Good

(* The held characters and the next one complete what was typed.           *)
LEMMA HeldJoin ==
    ASSUME NEW typed \in Seq(AllChars), NEW n \in 0 .. 3, n <= Len(typed),
           \A k \in 1 .. Len(typed) : k > Len(typed) - n => typed[k] = "plus", NEW b \in AllChars
    PROVE  /\ Append(Pluses(n), b) \in Seq(AllChars)
           /\ SubSeq(typed, 1, Len(typed) - n) \in Seq(AllChars)
           /\ SubSeq(typed, 1, Len(typed) - n) \o Append(Pluses(n), b) = Append(typed, b)
<1> DEFINE L == Len(typed)
           p == SubSeq(typed, 1, L - n)
           q == Pluses(n)
<1>1. L \in Nat /\ n \in Nat /\ n <= L /\ \A k \in 1 .. L : typed[k] \in AllChars
  BY LenProperties, ElementOfSeq
<1>2. p \in Seq(AllChars) /\ Len(p) = L - n /\ \A k \in 1 .. L - n : p[k] = typed[k]
  BY <1>1
<1>3. q \in Seq(AllChars) /\ Len(q) = n /\ \A k \in 1 .. n : q[k] = "plus"
  <2>1. "plus" \in AllChars
    BY DEF AllChars
  <2> QED
    BY <1>1, <2>1 DEF Pluses
<1> HIDE DEF p, q
<1>4. /\ p \o q \in Seq(AllChars) /\ Len(p \o q) = (L - n) + n
      /\ \A k \in 1 .. (L - n) + n : (p \o q)[k] = IF k <= L - n THEN p[k] ELSE q[k - (L - n)]
  BY <1>2, <1>3, ConcatProperties
<1>5. \A k \in 1 .. L : k > L - n => typed[k] = "plus"
  OBVIOUS
<1> DEFINE u == p \o q
<1>6. u \in Seq(AllChars) /\ Len(u) = L
  BY <1>1, <1>4
<1>7. ASSUME NEW k \in 1 .. L PROVE u[k] = typed[k]
  <2>1. (L - n) + n = L
    BY <1>1
  <2>2. u[k] = IF k <= L - n THEN p[k] ELSE q[k - (L - n)]
    BY <1>4, <2>1
  <2> HIDE DEF L, u
  <2>3. CASE k <= L - n
    BY <1>1, <1>2, <2>2, <2>3
  <2>4. CASE k > L - n
    BY <1>1, <1>3, <1>5, <2>2, <2>4
  <2> QED
    BY <1>1, <2>3, <2>4
<1> HIDE DEF u
<1>8. u = typed
  BY <1>6, <1>7, SeqEqual
<1>9. AppendsThrough(AllChars)
  BY AppendConcat
<1>10. Append(p \o q, b) = p \o Append(q, b)
  BY <1>2, <1>3, <1>9, Zenon DEF AppendsThrough
<1>11. Append(q, b) \in Seq(AllChars)
  BY <1>3, AppendProperties
<1>12. p \o Append(q, b) = Append(typed, b)
  BY <1>8, <1>10, Zenon DEF u
<1> QED
  BY <1>2, <1>11, <1>12 DEF p, q, L

(* A character the guest types, and what it is held back with.             *)
TypedBy(e, b) == IF e.socket.st = "up" THEN [e EXCEPT !.socket.typed = Append(@, b)] ELSE e

(* The socket with one character more typed and o written.                 *)
LEMMA TypedType ==
    ASSUME NEW e \in Device, NEW b \in AllChars, e.socket.st = "up"
    PROVE  LET t == TypedBy(e, b) IN
           /\ t \in Device /\ t.socket = [e.socket EXCEPT !.typed = Append(e.socket.typed, b)]
           /\ t.state = e.state /\ t.buffer = e.buffer /\ t.qDev = e.qDev /\ t.telnet = e.telnet
           /\ t.escapeCount = e.escapeCount
<1> DEFINE y == Append(e.socket.typed, b)
           t == TypedBy(e, b)
           s == [e.socket EXCEPT !.typed = y]
<1>1. e.socket \in Socket /\ e.socket.typed \in Seq(AllChars)
  BY DeviceFields
<1>2. y \in Seq(AllChars)
  BY <1>1, AppendProperties
<1>3. t = [e EXCEPT !.socket = s]
  BY DEF TypedBy, Device
<1> HIDE DEF y, t
<1>4. s \in Socket
  BY <1>1, <1>2 DEF Socket
<1> HIDE DEF s
<1>5. /\ t \in Device /\ t.socket = s
      /\ t.state = e.state /\ t.buffer = e.buffer /\ t.qDev = e.qDev /\ t.telnet = e.telnet
      /\ t.escapeCount = e.escapeCount
  BY <1>3, <1>4 DEF Device
<1> QED
  BY <1>5 DEF t, s, y

LEMMA StateType ==
    ASSUME NEW w \in Device, NEW x \in {"COMMAND", "ONLINE"}
    PROVE  LET f == [w EXCEPT !.state = x, !.escapeCount = 0] IN
           /\ f \in Device /\ f.socket = w.socket /\ f.buffer = w.buffer /\ f.qDev = w.qDev
           /\ f.telnet = w.telnet /\ f.state = x /\ f.escapeCount = 0
<1>1. 0 \in 0 .. 3
  OBVIOUS
<1> QED
  BY <1>1 DEF Device

LEMMA WriteGood ==
    ASSUME NEW c \in Nat, NEW e, Good(e, c), e.socket.st \in {"none", "up"}, NEW b \in AllChars,
           NEW n \in 0 .. 4
    PROVE  LET w == SendTcp(TypedBy(e, b), Append(Pluses(e.escapeCount), b), n) IN
           /\ w \in Device /\ w.state \in {e.state, "COMMAND"} /\ w.socket.st \in {"none", "up"}
           /\ \A x \in {"COMMAND", "ONLINE"} : Good([w EXCEPT !.state = x, !.escapeCount = 0], c)
<1> DEFINE t == TypedBy(e, b)
           bytes == Append(Pluses(e.escapeCount), b)
           w == SendTcp(t, bytes, n)
           F(x) == [w EXCEPT !.state = x, !.escapeCount = 0]
<1>1. e \in Device /\ QueueOk(e.qDev, c) /\ e.escapeCount \in 0 .. 3 /\ e.socket \in Socket
  BY DeviceFields DEF Good
<1>2. CASE e.socket.st = "none"
  <2>1. w = e
    BY <1>2 DEF TypedBy, SendTcp
  <2> HIDE DEF w
  <2>2. ASSUME NEW x \in {"COMMAND", "ONLINE"} PROVE Good(F(x), c)
    <3>1. /\ F(x) \in Device /\ F(x).socket = e.socket /\ F(x).buffer = e.buffer /\ F(x).qDev = e.qDev
          /\ F(x).state = x
      BY <1>1, <2>1, StateType
    <3> HIDE DEF F
    <3> QED
      BY <1>2, <3>1, NoCallGood
  <2> QED
    BY <1>1, <1>2, <2>1, <2>2 DEF w
<1>3. CASE e.socket.st = "up"
  <2> DEFINE ok == IF n < Len(bytes) THEN SubSeq(bytes, 1, n) ELSE bytes
             typed == e.socket.typed
             L == Len(typed)
             p == SubSeq(typed, 1, L - e.escapeCount)
             o == t.socket.out \o Wire(ok)
             v == [t EXCEPT !.socket.out = @ \o Wire(ok)]
  <2>1. /\ t \in Device /\ t.socket = [e.socket EXCEPT !.typed = Append(e.socket.typed, b)]
        /\ t.state = e.state /\ t.buffer = e.buffer /\ t.qDev = e.qDev /\ t.telnet = e.telnet
        /\ t.escapeCount = e.escapeCount
    BY <1>1, <1>3, TypedType
  <2>2. /\ typed \in Seq(AllChars) /\ e.escapeCount <= L
        /\ \A k \in 1 .. L : k > L - e.escapeCount => typed[k] = "plus"
        /\ Read(e.socket.out) = AtData(p) /\ e.socket.out \in Seq(OutByte)
    BY <1>1, <1>3, DeviceFields DEF Good, TxGood
  <2>3. bytes \in Seq(AllChars) /\ p \in Seq(AllChars) /\ p \o bytes = Append(typed, b)
    BY <1>1, <2>2, HeldJoin
  <2> HIDE DEF t, bytes, p
  <2>4. ok \in Seq(AllChars) /\ (~(n < Len(bytes)) => ok = bytes)
    <3>1. Len(bytes) \in Nat /\ \A i \in 1 .. Len(bytes) : bytes[i] \in AllChars
      BY <2>3, LenProperties, ElementOfSeq
    <3>2. CASE n < Len(bytes)
      BY <3>1, <3>2
    <3>3. CASE ~(n < Len(bytes))
      BY <2>3, <3>3
    <3> QED
      BY <3>2, <3>3
  <2>5. t.socket \in Socket /\ t.socket.st = "up" /\ t.socket.out = e.socket.out
    <3> DEFINE y == Append(e.socket.typed, b)
    <3>1. t.socket = [e.socket EXCEPT !.typed = y] /\ t.socket \in Socket
      BY <2>1, DeviceFields
    <3> HIDE DEF y
    <3> QED
      BY <1>1, <1>3, <3>1 DEF Socket
  <2>6. w = IF n < Len(bytes) THEN Hangup(SendResponse(v)) ELSE v
    BY <2>5 DEF SendTcp, Wire
  <2>7. v = [t EXCEPT !.socket = [t.socket EXCEPT !.out = o]]
    BY <2>1 DEF Device
  <2>8. o \in Seq(OutByte)
    <3> DEFINE z == Wire(ok)
               y == e.socket.out
    <3>1. z \in Seq(OutByte) /\ y \in Seq(OutByte)
      BY <2>2, <2>4, WireType
    <3> HIDE DEF z, y
    <3>2. y \o z \in Seq(OutByte)
      BY <3>1, ConcatProperties
    <3> QED
      BY <2>5, <3>2 DEF z, y
  <2> HIDE DEF v, w, ok
  <2>9. /\ v \in Device /\ v.qDev = e.qDev /\ v.state = e.state /\ v.buffer = e.buffer
        /\ v.telnet = e.telnet /\ v.socket.st = "up"
        /\ v.socket = [t.socket EXCEPT !.out = o]
    <3> HIDE DEF o
    <3> DEFINE s == [t.socket EXCEPT !.out = o]
    <3>1. s \in Socket /\ s.st = "up"
      BY <2>5, <2>8 DEF Socket, OutByte
    <3>2. v = [t EXCEPT !.socket = s]
      BY <2>7
    <3> HIDE DEF s
    <3>3. /\ v \in Device /\ v.qDev = t.qDev /\ v.state = t.state /\ v.buffer = t.buffer
          /\ v.telnet = t.telnet /\ v.socket = s
      BY <2>1, <3>1, <3>2 DEF Device
    <3> QED
      BY <2>1, <3>1, <3>3 DEF s
  <2>10. CASE n < Len(bytes)
    <3>1. w = Hangup(SendResponse(v))
      BY <2>6, <2>10
    <3>2. SendResponse(v) \in Device /\ QueueOk(SendResponse(v).qDev, c)
      BY <1>1, <2>9, ResponseQueue
    <3>3. Good(w, c) /\ w.socket.st = "none" /\ w.state = "COMMAND"
      BY <3>1, <3>2, HangupGood
    <3>4. w \in Device
      BY <3>3 DEF Good
    <3>5. ASSUME NEW x \in {"COMMAND", "ONLINE"} PROVE Good(F(x), c)
      <4>1. /\ F(x) \in Device /\ F(x).socket = w.socket /\ F(x).buffer = w.buffer /\ F(x).qDev = w.qDev
            /\ F(x).state = x
        BY <3>4, StateType
      <4> HIDE DEF F
      <4> QED
        BY <3>3, <4>1, NoCallGood
    <3> QED
      BY <3>3, <3>4, <3>5 DEF w, t, bytes
  <2>11. CASE ~(n < Len(bytes))
    <3>1. w = v
      BY <2>6, <2>11
    <3>2. Read(o) = AtData(Append(typed, b))
      <4>1. Read(e.socket.out \o Wire(bytes)) = AtData(p \o bytes)
        BY <2>2, <2>3, ReadWritten
      <4> QED
        BY <2>3, <2>4, <2>5, <2>11, <4>1, Zenon
    <3> HIDE DEF o
    <3> DEFINE y == Append(typed, b)
    <3>3. y \in Seq(AllChars) /\ Len(y) \in Nat
      BY <2>2, AppendProperties, LenProperties
    <3>4. /\ v.socket.typed = y /\ v.socket.out = o /\ v.socket.in = e.socket.in
          /\ v.socket.alive = e.socket.alive /\ v.socket.sent = e.socket.sent
          /\ v.socket.got = e.socket.got
      <4> HIDE DEF y
      <4>1. t.socket = [e.socket EXCEPT !.typed = y]
        BY <2>1 DEF y
      <4> QED
        BY <1>1, <2>9, <4>1 DEF Socket
    <3>5. TxGood(v.socket, 0)
      <4> HIDE DEF y
      <4> DEFINE u == v.socket.typed
      <4>1. u = y /\ Len(u) - 0 = Len(u) /\ 0 <= Len(u) /\ \A k \in 1 .. Len(u) : ~(k > Len(u) - 0)
        BY <3>3, <3>4
      <4>2. SubSeq(u, 1, Len(u)) = y
        BY <3>3, <4>1
      <4>3. Read(v.socket.out) = AtData(SubSeq(u, 1, Len(u) - 0))
        BY <3>2, <3>4, <4>1, <4>2 DEF y
      <4> HIDE DEF u
      <4> QED
        BY <4>1, <4>3 DEF TxGood, u
    <3>6. ASSUME NEW x \in {"COMMAND", "ONLINE"} PROVE Good(F(x), c)
      <4>1. /\ F(x) \in Device /\ F(x).socket = v.socket /\ F(x).buffer = e.buffer
            /\ F(x).qDev = e.qDev /\ F(x).telnet = e.telnet /\ F(x).state = x
            /\ F(x).escapeCount = 0
        <5>1. w \in Device
          BY <2>9, <3>1
        <5>2. /\ F(x) \in Device /\ F(x).socket = w.socket /\ F(x).buffer = w.buffer
              /\ F(x).qDev = w.qDev /\ F(x).telnet = w.telnet /\ F(x).state = x
              /\ F(x).escapeCount = 0
          BY <5>1, StateType
        <5> HIDE DEF F
        <5> QED
          BY <2>9, <3>1, <5>2
      <4> HIDE DEF F
      <4>2. TxGood(F(x).socket, F(x).escapeCount)
        BY <3>5, <4>1
      <4>3. Seen(F(x).socket, F(x).qDev, F(x).buffer, c) = Seen(e.socket, e.qDev, e.buffer, c)
        BY <3>4, <4>1, Zenon DEF Seen
      <4>4. PICK h : HeardFrom(h, e.socket, e.telnet, Seen(e.socket, e.qDev, e.buffer, c))
        BY <1>3 DEF Good, RxGood
      <4>5. HeardFrom(h, F(x).socket, F(x).telnet, Seen(F(x).socket, F(x).qDev, F(x).buffer, c))
        BY <3>4, <4>1, <4>3, <4>4 DEF HeardFrom
      <4>6. Len(F(x).buffer) < BufCap + ReadMax /\ SocketOk(e.socket, e.buffer, c)
        BY <4>1 DEF Good
      <4>7. SocketOk(F(x).socket, F(x).buffer, c)
        BY <1>3, <2>9, <4>1, <4>6 DEF SocketOk
      <4> QED
        BY <1>1, <4>1, <4>2, <4>5, <4>6, <4>7 DEF Good, RxGood
    <3> QED
      BY <2>9, <3>1, <3>6 DEF w, t, bytes
  <2> QED
    BY <2>10, <2>11
<1> QED
  BY <1>2, <1>3

(* The socket changes, and what it holds still agrees.                     *)
LEMMA SocketGood ==
    ASSUME NEW c, NEW e, Good(e, c), e.socket.st = "up", NEW s \in Socket, s.st = "up",
           RxGood(s, e.telnet, Seen(s, e.qDev, e.buffer, c)), TxGood(s, e.escapeCount)
    PROVE  /\ Good([e EXCEPT !.socket = s], c)
           /\ [e EXCEPT !.socket = s].socket = s /\ [e EXCEPT !.socket = s].state = e.state
<1> DEFINE f == [e EXCEPT !.socket = s]
<1>1. e \in Device /\ SocketOk(e.socket, e.buffer, c)
  BY DEF Good
<1>2. /\ f \in Device /\ f.socket = s /\ f.state = e.state /\ f.telnet = e.telnet /\ f.qDev = e.qDev
      /\ f.buffer = e.buffer /\ f.escapeCount = e.escapeCount
  BY <1>1 DEF Device
<1> HIDE DEF f
<1>3. SocketOk(f.socket, f.buffer, c)
  BY <1>1, <1>2 DEF SocketOk
<1>4. Good(f, c)
  BY <1>2, <1>3 DEF Good
<1> QED
  BY <1>2, <1>4 DEF f

(* A '+' is held back.                                                     *)
LEMMA HoldGood ==
    ASSUME NEW c, NEW e, Good(e, c), e.state = "ONLINE", e.escapeCount < 3
    PROVE  LET f == [TypedBy(e, "plus") EXCEPT !.escapeCount = @ + 1,
                                               !.state = IF e.escapeCount = 2 THEN "ESCAPE" ELSE @]
           IN  Good(f, c) /\ f.socket.st = e.socket.st
<1> DEFINE t == TypedBy(e, "plus")
           x == IF e.escapeCount = 2 THEN "ESCAPE" ELSE "ONLINE"
           m == e.escapeCount + 1
           f == [t EXCEPT !.escapeCount = @ + 1, !.state = IF e.escapeCount = 2 THEN "ESCAPE" ELSE @]
<1>1. e \in Device /\ e.escapeCount \in 0 .. 3 /\ "plus" \in AllChars /\ e.socket \in Socket
  BY DeviceFields DEF Good, AllChars
<1>2. m \in 0 .. 3 /\ x \in {"ESCAPE", "ONLINE"} /\ (x = "ESCAPE" => m = 3)
  BY <1>1
<1>3. ASSUME t \in Device, t.state = e.state, t.escapeCount = e.escapeCount
      PROVE  /\ f \in Device /\ f.socket = t.socket /\ f.buffer = t.buffer /\ f.qDev = t.qDev
             /\ f.telnet = t.telnet /\ f.state = x /\ f.escapeCount = m
  <2>1. f = [t EXCEPT !.escapeCount = m, !.state = x]
    BY <1>3 DEF Device
  <2> HIDE DEF f, t, m, x
  <2> QED
    BY <1>2, <1>3, <2>1 DEF Device
<1>4. CASE e.socket.st # "up"
  <2>1. t = e
    BY <1>4 DEF TypedBy
  <2>2. /\ f \in Device /\ f.socket = e.socket /\ f.buffer = e.buffer /\ f.qDev = e.qDev
        /\ f.state = x /\ f.escapeCount = m
    BY <1>1, <1>3, <2>1
  <2> HIDE DEF f, t, m, x
  <2>3. Good(f, c)
    BY <1>2, <1>4, <2>2, NoCallGood
  <2> QED
    BY <2>2, <2>3 DEF f, t
<1>5. CASE e.socket.st = "up"
  <2> DEFINE typed == e.socket.typed
             y == Append(typed, "plus")
             L == Len(typed)
  <2>1. /\ t \in Device /\ t.socket = [e.socket EXCEPT !.typed = y]
        /\ t.state = e.state /\ t.buffer = e.buffer /\ t.qDev = e.qDev /\ t.telnet = e.telnet
        /\ t.escapeCount = e.escapeCount
    BY <1>1, <1>5, TypedType
  <2>2. /\ f \in Device /\ f.socket = t.socket /\ f.buffer = e.buffer /\ f.qDev = e.qDev
        /\ f.telnet = e.telnet /\ f.state = x /\ f.escapeCount = m
    BY <1>3, <2>1
  <2>3. /\ typed \in Seq(AllChars) /\ L \in Nat /\ e.escapeCount <= L
        /\ \A k \in 1 .. L : k > L - e.escapeCount => typed[k] = "plus"
        /\ Read(e.socket.out) = AtData(SubSeq(typed, 1, L - e.escapeCount))
    BY <1>1, <1>5, DeviceFields, LenProperties DEF Good, TxGood
  <2>4. y \in Seq(AllChars) /\ Len(y) = L + 1 /\ y[L + 1] = "plus" /\ \A k \in 1 .. L : y[k] = typed[k]
    BY <1>1, <2>3, AppendProperties
  <2> HIDE DEF f, t, x, y
  <2>5. /\ f.socket.typed = y /\ f.socket.out = e.socket.out /\ f.socket.in = e.socket.in
        /\ f.socket.alive = e.socket.alive /\ f.socket.sent = e.socket.sent
        /\ f.socket.got = e.socket.got /\ f.socket.st = "up"
    BY <1>1, <1>5, <2>1, <2>2 DEF Socket
  <2>6. SubSeq(y, 1, Len(y) - m) = SubSeq(typed, 1, L - e.escapeCount)
    <3> DEFINE j == L - e.escapeCount
    <3>1. j \in Nat /\ j <= L /\ Len(y) - m = j
      <4> DEFINE a == e.escapeCount
      <4>1. a \in 0 .. 3 /\ L \in Nat /\ a <= L /\ Len(y) = L + 1 /\ j = L - a /\ m = a + 1
        BY <1>1, <2>3, <2>4
      <4> HIDE DEF a, L, j, m
      <4> QED
        BY <4>1
    <3> HIDE DEF j, m
    <3>2. \A k \in 1 .. j : y[k] = typed[k]
      BY <2>3, <2>4, <3>1
    <3>3. SubSeq(y, 1, j) = SubSeq(typed, 1, j)
      BY <2>3, <2>4, <3>1, <3>2
    <3> QED
      BY <3>1, <3>3 DEF j
  <2>7. m <= Len(y) /\ \A k \in 1 .. Len(y) : k > Len(y) - m => y[k] = "plus"
    <3>1. m <= Len(y)
      BY <1>1, <2>3, <2>4
    <3>2. ASSUME NEW k \in 1 .. Len(y), k > Len(y) - m PROVE y[k] = "plus"
      <4>1. CASE k = L + 1
        BY <2>4, <4>1
      <4>2. CASE k # L + 1
        <5>1. k \in 1 .. L /\ k > L - e.escapeCount
          BY <1>1, <2>3, <2>4, <3>2, <4>2, SMTT(30)
        <5> QED
          BY <2>3, <2>4, <5>1
      <4> QED
        BY <4>1, <4>2
    <3> QED
      BY <3>1, <3>2
  <2> HIDE DEF m
  <2>8. TxGood(f.socket, m)
    BY <2>3, <2>5, <2>6, <2>7 DEF TxGood
  <2>9. Seen(f.socket, f.qDev, f.buffer, c) = Seen(e.socket, e.qDev, e.buffer, c)
    BY <2>2, <2>5, Zenon DEF Seen
  <2>10. PICK h : HeardFrom(h, e.socket, e.telnet, Seen(e.socket, e.qDev, e.buffer, c))
    BY <1>5 DEF Good, RxGood
  <2>11. HeardFrom(h, f.socket, f.telnet, Seen(f.socket, f.qDev, f.buffer, c))
    BY <2>2, <2>5, <2>9, <2>10 DEF HeardFrom
  <2>12. /\ Len(f.buffer) < BufCap + ReadMax /\ QueueOk(f.qDev, c)
         /\ SocketOk(e.socket, e.buffer, c)
    BY <2>2 DEF Good
  <2>13. SocketOk(f.socket, f.buffer, c)
    BY <1>5, <2>5, <2>12 DEF SocketOk
  <2>14. Good(f, c)
    BY <1>2, <2>2, <2>8, <2>11, <2>12, <2>13 DEF Good, RxGood
  <2> QED
    BY <1>5, <2>5, <2>14 DEF f, t
<1> QED
  BY <1>4, <1>5

(* +++ and the guard time: the escape was no data.                         *)
LEMMA EscapedGood ==
    ASSUME NEW c, NEW e, Good(e, c), e.state = "ESCAPE"
    PROVE  LET f == [e EXCEPT !.state = "COMMAND", !.escapeCount = 0,
                        !.socket.typed = IF Len(@) < 3 THEN @ ELSE SubSeq(@, 1, Len(@) - 3)]
           IN  Good(f, c) /\ f.socket.st = e.socket.st
<1> DEFINE typed == e.socket.typed
           y == IF Len(typed) < 3 THEN typed ELSE SubSeq(typed, 1, Len(typed) - 3)
           s == [e.socket EXCEPT !.typed = y]
           f == [e EXCEPT !.state = "COMMAND", !.escapeCount = 0,
                    !.socket.typed = IF Len(@) < 3 THEN @ ELSE SubSeq(@, 1, Len(@) - 3)]
<1>1. /\ e \in Device /\ e.socket \in Socket /\ e.escapeCount = 3 /\ typed \in Seq(AllChars)
      /\ Len(typed) \in Nat
  BY DeviceFields, LenProperties DEF Good
<1>2. f = [e EXCEPT !.state = "COMMAND", !.escapeCount = 0, !.socket = s]
  BY <1>1 DEF Device
<1>3. y \in Seq(AllChars)
  <2>1. \A k \in 1 .. Len(typed) : typed[k] \in AllChars
    BY <1>1, ElementOfSeq
  <2>2. CASE Len(typed) < 3
    BY <1>1, <2>2
  <2>3. CASE ~(Len(typed) < 3)
    BY <1>1, <2>1, <2>3
  <2> QED
    BY <2>2, <2>3
<1>7. ~(Len(typed) < 3) => y = SubSeq(typed, 1, Len(typed) - 3)
  OBVIOUS
<1>8. Len(typed) < 3 => y = typed
  OBVIOUS
<1> HIDE DEF f, y
<1>4. /\ s \in Socket /\ s.typed = y /\ s.st = e.socket.st /\ s.out = e.socket.out
      /\ s.in = e.socket.in /\ s.alive = e.socket.alive /\ s.sent = e.socket.sent
      /\ s.got = e.socket.got
  BY <1>1, <1>3 DEF Socket
<1>9. Len(typed) < 3 => s = e.socket
  BY <1>1, <1>8 DEF Socket
<1> HIDE DEF s
<1>5. /\ f \in Device /\ f.socket = s /\ f.buffer = e.buffer /\ f.qDev = e.qDev
      /\ f.telnet = e.telnet /\ f.state = "COMMAND" /\ f.escapeCount = 0
  <2> DEFINE g == [e EXCEPT !.socket = s]
  <2>1. /\ g \in Device /\ g.socket = s /\ g.buffer = e.buffer /\ g.qDev = e.qDev
        /\ g.telnet = e.telnet
    BY <1>1, <1>4 DEF Device
  <2>2. f = [g EXCEPT !.state = "COMMAND", !.escapeCount = 0]
    BY <1>1, <1>2 DEF Device
  <2> HIDE DEF g
  <2> QED
    BY <2>1, <2>2, StateType
<1>6. CASE e.socket.st # "up"
  <2>1. e.socket = [NoSocket EXCEPT !.st = e.socket.st]
    BY <1>6 DEF Good, SocketOk
  <2>2. typed = << >>
    BY <2>1 DEF NoSocket
  <2>3. Len(typed) < 3
    BY <2>2
  <2>4. f.socket = e.socket
    BY <1>5, <1>9, <2>3
  <2>5. Good(f, c)
    BY <1>5, <1>6, <2>4, NoCallGood
  <2> QED
    BY <2>4, <2>5 DEF f
<1>10. CASE e.socket.st = "up"
  <2>1. 3 <= Len(typed) /\ Read(e.socket.out) = AtData(SubSeq(typed, 1, Len(typed) - 3))
    BY <1>1, <1>10 DEF Good, TxGood
  <2>2. y = SubSeq(typed, 1, Len(typed) - 3)
    BY <1>1, <1>7, <2>1
  <2>3. Len(y) \in Nat
    BY <1>3, LenProperties
  <2>4. /\ Len(y) - 0 = Len(y) /\ 0 <= Len(y) /\ SubSeq(y, 1, Len(y)) = y
        /\ \A k \in 1 .. Len(y) : ~(k > Len(y) - 0)
    BY <1>3, <2>3
  <2>5. Read(s.out) = AtData(SubSeq(y, 1, Len(y) - 0))
    BY <1>4, <2>1, <2>2, <2>4
  <2>6. TxGood(s, 0)
    BY <1>4, <2>4, <2>5 DEF TxGood
  <2>9. Seen(f.socket, f.qDev, f.buffer, c) = Seen(e.socket, e.qDev, e.buffer, c)
    BY <1>4, <1>5, Zenon DEF Seen
  <2>10. PICK h : HeardFrom(h, e.socket, e.telnet, Seen(e.socket, e.qDev, e.buffer, c))
    BY <1>10 DEF Good, RxGood
  <2>11. HeardFrom(h, f.socket, f.telnet, Seen(f.socket, f.qDev, f.buffer, c))
    BY <1>4, <1>5, <2>9, <2>10 DEF HeardFrom
  <2>12. /\ Len(f.buffer) < BufCap + ReadMax /\ QueueOk(f.qDev, c)
         /\ SocketOk(e.socket, e.buffer, c)
    BY <1>5 DEF Good
  <2>13. SocketOk(f.socket, f.buffer, c)
    BY <1>4, <1>5, <1>10, <2>12 DEF SocketOk
  <2>14. Good(f, c)
    BY <1>5, <2>6, <2>11, <2>12, <2>13 DEF Good, RxGood
  <2> QED
    BY <1>4, <1>5, <2>14 DEF f
<1> QED
  BY <1>6, <1>10

-----------------------------------------------------------------------------
(* The port takes an item; the remote host sends, and goes; a connection.  *)

LEMMA GetGood ==
    ASSUME conn \in 0 .. MaxConn, Good(d, conn), d.qDev # << >>
    PROVE  LET m == Head(d.qDev)
               f == [d EXCEPT !.qDev = Tail(@),
                              !.socket.got = IF OfCurrent(m) THEN Append(@, m.b) ELSE @]
           IN  Good(f, conn) /\ f.socket.st = d.socket.st /\ f.state = d.state
<1> DEFINE q == d.qDev
           m == Head(q)
           r == Tail(q)
           s == d.socket
           g == IF OfCurrent(m) THEN Append(s.got, m.b) ELSE s.got
           f == [d EXCEPT !.qDev = Tail(@), !.socket.got = IF OfCurrent(m) THEN Append(@, m.b) ELSE @]
           t == [s EXCEPT !.got = g]
<1>1. /\ d \in Device /\ q \in Seq(Item) /\ s \in Socket /\ s.got \in Seq(DataChar)
      /\ QueueOk(q, conn) /\ SocketOk(s, d.buffer, conn) /\ Len(d.buffer) < BufCap + ReadMax
      /\ d.state = "ESCAPE" => d.escapeCount = 3
      /\ TxGood(s, d.escapeCount) /\ d.buffer \in Seq(DataChar)
  BY DeviceFields DEF Good
<1>2. /\ m \in Item /\ m = q[1] /\ r \in Seq(Item) /\ Len(r) \in Nat /\ Len(q) = Len(r) + 1
      /\ \A k \in 1 .. Len(r) : r[k] = q[k + 1]
  BY <1>1, HeadTail
<1>3. f = [d EXCEPT !.qDev = r, !.socket = t]
  BY <1>1 DEF Device
<1>4. QueueOk(r, conn)
  BY <1>1, <1>2, Sizes DEF QueueOk
<1>5. m.conn # 0 => m.b \in DataChar
  BY <1>1, <1>2 DEF QueueOk
<1>6. g \in Seq(DataChar)
  <2>1. CASE OfCurrent(m)
    <3>1. m.conn # 0
      BY <1>1, <2>1 DEF OfCurrent, SocketOk
    <3> QED
      BY <1>1, <1>5, <2>1, <3>1, AppendProperties
  <2>2. CASE ~OfCurrent(m)
    BY <1>1, <2>2
  <2> QED
    BY <2>1, <2>2
<1>11. OfCurrent(m) => g = Append(s.got, m.b)
  OBVIOUS
<1>12. ~OfCurrent(m) => g = s.got
  OBVIOUS
<1> HIDE DEF f, g, r, m, q
<1>7. /\ t \in Socket /\ t.st = s.st /\ t.in = s.in /\ t.out = s.out /\ t.alive = s.alive
      /\ t.sent = s.sent /\ t.typed = s.typed /\ t.got = g
  BY <1>1, <1>6 DEF Socket, DataChar
<1>13. ~OfCurrent(m) => t = s
  BY <1>1, <1>12 DEF Socket
<1> HIDE DEF t
<1>8. /\ f \in Device /\ f.socket = t /\ f.qDev = r /\ f.buffer = d.buffer /\ f.telnet = d.telnet
      /\ f.state = d.state /\ f.escapeCount = d.escapeCount
  BY <1>1, <1>2, <1>3, <1>7 DEF Device
<1>9. SocketOk(t, d.buffer, conn)
  BY <1>1, <1>7, <1>13 DEF SocketOk, OfCurrent
<1>10. TxGood(t, d.escapeCount)
  BY <1>1, <1>7 DEF TxGood
<1>14. RxGood(t, d.telnet, Seen(t, r, d.buffer, conn))
  <2> SUFFICES ASSUME s.st = "up" PROVE \E h : HeardFrom(h, t, d.telnet, Seen(t, r, d.buffer, conn))
    BY <1>7 DEF RxGood
  <2>1. conn \in Nat \ {0}
    BY <1>1, Sizes DEF SocketOk
  <2>2. Waiting(q, conn) = Adds(m, conn) \o Waiting(r, conn)
    BY <1>1, <2>1, WaitingTail DEF q, m, r
  <2> DEFINE w == Waiting(r, conn)
             b == m.b
             z == <<b>>
  <2>3. w \in Seq(DataChar)
    BY <1>2, <1>4, <2>1, AddsType
  <2>4. Seen(t, r, d.buffer, conn) = Seen(s, q, d.buffer, conn)
    <3>1. CASE OfCurrent(m)
      <4>1. m.conn = conn /\ b \in DataChar
        BY <1>5, <2>1, <3>1 DEF OfCurrent
      <4>2. Adds(m, conn) = z /\ z \in Seq(DataChar)
        BY <4>1 DEF Adds
      <4>3. Append(s.got, b) = s.got \o z
        BY <1>1, <4>1, AppendIsConcat
      <4> DEFINE x == s.got
      <4>5. x \in Seq(DataChar) /\ t.got = x \o z
        BY <1>1, <1>7, <1>11, <3>1, <4>3
      <4>6. s.got = x
        OBVIOUS
      <4>7. Associates(DataChar)
        BY Assoc
      <4>8. Waiting(r, conn) = w
        OBVIOUS
      <4> HIDE DEF x, z, w, s, b
      <4>4. (x \o z) \o w = x \o (z \o w)
        BY <2>3, <4>2, <4>5, <4>7, Zenon DEF Associates
      <4> QED
        BY <2>2, <4>2, <4>4, <4>5, <4>6, <4>8, Zenon DEF Seen
    <3>2. CASE ~OfCurrent(m)
      <4>1. Adds(m, conn) = << >>
        BY <3>2 DEF OfCurrent, Adds
      <4>2. << >> \o w = w
        BY <2>3, ConcatEmptySeq
      <4>3. t.got = s.got
        BY <1>7, <1>12, <3>2
      <4> QED
        BY <2>2, <4>1, <4>2, <4>3, Zenon DEF Seen
    <3> QED
      BY <3>1, <3>2
  <2>5. PICK h : HeardFrom(h, s, d.telnet, Seen(s, q, d.buffer, conn))
    BY DEF Good, RxGood, q
  <2>6. HeardFrom(h, t, d.telnet, Seen(t, r, d.buffer, conn))
    BY <1>7, <2>4, <2>5 DEF HeardFrom
  <2> QED
    BY <2>6
<1>15. Good(f, conn)
  BY <1>1, <1>4, <1>8, <1>9, <1>10, <1>14 DEF Good
<1> QED
  BY <1>7, <1>8, <1>15 DEF f, m, q

(* The data of the script, one item more.                                  *)
Text(t) == IF t \in DataChar THEN <<t>> ELSE << >>

LEMMA SentSteps ==
    /\ \A n \in 0 .. Len(Script) : Sent(n) \in Seq(DataChar)
    /\ Sent(0) = << >>
    /\ \A n \in 0 .. Len(Script) :
          n < Len(Script) => Sent(n + 1) = Sent(n) \o Text(Script[n + 1])
<1> DEFINE F(n) == [i \in 1 .. n |-> Text(Script[i])]
           T == Seq(DataChar)
<1>1. Len(Script) \in Nat /\ \A i \in 1 .. Len(Script) : Script[i] \in AllTokens
  BY AlphabetAssumption, LenProperties, ElementOfSeq
<1>2. \A i : Text(Script[i]) \in T
  <2>1. << >> \in T /\ \A b \in DataChar : <<b>> \in T
    BY EmptySeq
  <2> HIDE DEF T
  <2> QED
    BY <2>1 DEF Text
<1>3. \A n : Sent(n) = Joined(F(n))
  BY DEF Sent, Text, DataChar
<1>4. ASSUME NEW n \in 0 .. Len(Script)
      PROVE  F(n) \in Seq(T) /\ Len(F(n)) = n /\ \A i \in 1 .. n : F(n)[i] = Text(Script[i])
  <2> HIDE DEF T
  <2> QED
    BY <1>1, <1>2
<1> HIDE DEF F
<1>5. ASSUME NEW n \in 0 .. Len(Script) PROVE Sent(n) \in Seq(DataChar)
  BY <1>3, <1>4, JoinedType
<1>6. Sent(0) = << >>
  <2>1. 0 \in 0 .. Len(Script)
    BY <1>1
  <2> DEFINE x == F(0)
  <2>2. x \in Seq(T) /\ Len(x) = 0
    BY <1>4, <2>1
  <2> HIDE DEF x
  <2>4. \A k \in 1 .. Len(x) : x[k] = << >>
    BY <2>2
  <2>3. Joined(x) = << >>
    BY <2>2, <2>4, JoinedNone
  <2> QED
    BY <1>3, <2>3 DEF x
<1>7. ASSUME NEW n \in 0 .. Len(Script), n < Len(Script)
      PROVE  Sent(n + 1) = Sent(n) \o Text(Script[n + 1])
  <2>1. n + 1 \in 0 .. Len(Script) /\ n \in Nat
    BY <1>1, <1>7
  <2> DEFINE x == F(n)
             y == F(n + 1)
  <2>2. /\ x \in Seq(T) /\ Len(x) = n /\ y \in Seq(T) /\ Len(y) = n + 1
        /\ \A i \in 1 .. n : x[i] = Text(Script[i])
        /\ \A i \in 1 .. n + 1 : y[i] = Text(Script[i])
    BY <1>4, <2>1
  <2> HIDE DEF x, y
  <2>3. \A i \in 1 .. Len(x) : y[i] = x[i]
    BY <2>1, <2>2
  <2>4. Joined(y) = Joined(x) \o y[Len(y)]
    BY <2>2, <2>3, JoinedAppend
  <2>5. y[Len(y)] = Text(Script[n + 1])
    BY <2>1, <2>2
  <2> QED
    BY <1>3, <2>4, <2>5, Zenon DEF x, y
<1> QED
  BY <1>5, <1>6, <1>7

(* A byte more to read.                                                    *)
LEMMA HeardAppend ==
    ASSUME NEW in \in Seq(InByte), NEW h, Hearing(h, in), NEW b \in InByte
    PROVE  \E t : /\ Hearing(t, Append(in, b)) /\ t[0] = h[0]
                  /\ t[Len(Append(in, b))] = Hears(h[Len(in)], b)
<1> DEFINE L == Len(in)
           r == Append(in, b)
           v == Hears(h[L], b)
           t == [j \in 0 .. L + 1 |-> IF j = L + 1 THEN v ELSE h[j]]
<1>1. L \in Nat
  BY LenProperties
<1>2. r \in Seq(InByte) /\ Len(r) = L + 1 /\ r[L + 1] = b /\ \A j \in 1 .. L : r[j] = in[j]
  BY AppendProperties
<1>3. h \in [0 .. L -> Heard] /\ \A j \in 1 .. L : h[j] = Hears(h[j - 1], in[j])
  BY DEF Hearing
<1>4. v \in Heard
  <2>1. h[L] \in Heard
    BY <1>1, <1>3
  <2> QED
    BY <2>1, HearsMore
<1>5. v = Hears(h[L], b)
  OBVIOUS
<1> HIDE DEF v, r, L
<1>6. t \in [0 .. L + 1 -> Heard]
  BY <1>1, <1>3, <1>4
<1>7. t[L + 1] = v /\ \A j \in 0 .. L : t[j] = h[j]
  BY <1>1
<1> HIDE DEF t
<1>8. ASSUME NEW j \in 1 .. L + 1 PROVE t[j] = Hears(t[j - 1], r[j])
  <2>1. CASE j = L + 1
    <3>1. j - 1 = L /\ L \in 0 .. L
      BY <1>1, <2>1
    <3>2. t[j - 1] = h[L]
      BY <1>7, <3>1
    <3> QED
      BY <1>2, <1>5, <1>7, <2>1, <3>2
  <2>2. CASE j # L + 1
    <3>1. j \in 1 .. L /\ j \in 0 .. L /\ j - 1 \in 0 .. L
      BY <1>1, <2>2
    <3>2. t[j] = h[j] /\ t[j - 1] = h[j - 1] /\ r[j] = in[j]
      BY <1>2, <1>7, <3>1
    <3> QED
      BY <1>3, <3>1, <3>2
  <2> QED
    BY <2>1, <2>2
<1>9. Hearing(t, r) /\ t[0] = h[0] /\ t[Len(r)] = v
  BY <1>1, <1>2, <1>6, <1>7, <1>8 DEF Hearing
<1> QED
  BY <1>9, <1>5 DEF r, L

(* The bytes of a script item are heard as its text.                       *)
HeardUpTo(h, in, p, r) == Hearing(h, in) /\ h[0] = p /\ h[Len(in)] = r

LEMMA HeardByte ==
    ASSUME NEW in \in Seq(InByte), NEW h, NEW p, NEW r, HeardUpTo(h, in, p, r), NEW b \in InByte
    PROVE  Append(in, b) \in Seq(InByte) /\ \E t : HeardUpTo(t, Append(in, b), p, Hears(r, b))
<1>1. Hearing(h, in) /\ h[0] = p /\ h[Len(in)] = r
  BY DEF HeardUpTo
<1>2. PICK t : Hearing(t, Append(in, b)) /\ t[0] = h[0] /\ t[Len(Append(in, b))] = Hears(h[Len(in)], b)
  BY <1>1, HeardAppend
<1>3. HeardUpTo(t, Append(in, b), p, Hears(r, b))
  BY <1>1, <1>2 DEF HeardUpTo
<1> QED
  BY <1>3, AppendProperties

LEMMA HeardToken ==
    ASSUME NEW in \in Seq(InByte), NEW h, NEW p, NEW x \in Seq(DataChar),
           HeardUpTo(h, in, p, [at |-> "DATA", out |-> x]), NEW k \in AllTokens
    PROVE  /\ in \o Bytes(k) \in Seq(InByte)
           /\ \E t : HeardUpTo(t, in \o Bytes(k), p, [at |-> "DATA", out |-> x \o Text(k)])
<1> DEFINE D == [at |-> "DATA", out |-> x]
<1>1. CASE k = "a"
  <2> DEFINE v == Append(in, "a")
             y == Append(x, "a")
  <2>1. in \o Bytes(k) = v
    BY <1>1 DEF Bytes
  <2>2. x \o Text(k) = y
    BY <1>1 DEF Text, DataChar
  <2>3. Hears(D, "a") = [at |-> "DATA", out |-> y]
    BY DEF Hears
  <2>4. v \in Seq(InByte) /\ \E t : HeardUpTo(t, v, p, Hears(D, "a"))
    <3>1. "a" \in InByte
      BY DEF InByte
    <3> HIDE DEF D
    <3> QED
      BY <3>1, HeardByte DEF D
  <2> HIDE DEF v, y, D
  <2> QED
    BY <2>1, <2>2, <2>3, <2>4
<1>2. CASE k = "ff"
  <2> DEFINE u == Append(in, "iac")
             v == Append(u, "iac")
             y == Append(x, "ff")
             I == [at |-> "IAC", out |-> x]
  <2>0. "iac" \in InByte
    BY DEF InByte
  <2>1. in \o Bytes(k) = v
    BY <1>2, <2>0 DEF Bytes
  <2>2. x \o Text(k) = y
    BY <1>2 DEF Text, DataChar
  <2>3. Hears(D, "iac") = I /\ Hears(I, "iac") = [at |-> "DATA", out |-> y]
    BY DEF Hears
  <2>4. u \in Seq(InByte) /\ \E t : HeardUpTo(t, u, p, Hears(D, "iac"))
    <3> HIDE DEF D
    <3> QED
      BY <2>0, HeardByte DEF D
  <2> HIDE DEF u, y, D, I
  <2>5. PICK g : HeardUpTo(g, u, p, I)
    BY <2>3, <2>4
  <2>6. v \in Seq(InByte) /\ \E t : HeardUpTo(t, v, p, Hears(I, "iac"))
    BY <2>0, <2>4, <2>5, HeardByte
  <2> HIDE DEF v
  <2> QED
    BY <2>1, <2>2, <2>3, <2>6
<1>3. CASE k \in {"will", "wont", "do"}
  <2> DEFINE u == Append(in, "iac")
             v == Append(u, k)
             w == Append(v, "opt")
             I == [at |-> "IAC", out |-> x]
             N == [at |-> "NEGOTIATE", out |-> x]
  <2>0. "iac" \in InByte /\ k \in InByte /\ "opt" \in InByte
    BY <1>3 DEF InByte
  <2>1. in \o Bytes(k) = w
    <3>1. Bytes(k) = <<"iac", k, "opt">>
      BY <1>3 DEF Bytes
    <3> QED
      BY <2>0, <3>1
  <2>2. x \o Text(k) = x
    <3>1. Text(k) = << >>
      BY <1>3 DEF Text, DataChar
    <3> QED
      BY <3>1, ConcatEmptySeq
  <2>3. Hears(D, "iac") = I /\ Hears(I, k) = N /\ Hears(N, "opt") = D
    BY <1>3 DEF Hears
  <2>4. u \in Seq(InByte) /\ \E t : HeardUpTo(t, u, p, Hears(D, "iac"))
    <3> HIDE DEF D
    <3> QED
      BY <2>0, HeardByte DEF D
  <2>9. D = [at |-> "DATA", out |-> x]
    OBVIOUS
  <2> HIDE DEF u, D, I, N
  <2>5. PICK g : HeardUpTo(g, u, p, I)
    BY <2>3, <2>4
  <2>6. v \in Seq(InByte) /\ \E t : HeardUpTo(t, v, p, Hears(I, k))
    BY <2>0, <2>4, <2>5, HeardByte
  <2> HIDE DEF v
  <2>7. PICK j : HeardUpTo(j, v, p, N)
    BY <2>3, <2>6
  <2>8. w \in Seq(InByte) /\ \E t : HeardUpTo(t, w, p, Hears(N, "opt"))
    BY <2>0, <2>6, <2>7, HeardByte
  <2> HIDE DEF w
  <2> QED
    BY <2>1, <2>2, <2>3, <2>8, <2>9
<1>4. CASE k = "other"
  <2> DEFINE u == Append(in, "iac")
             v == Append(u, k)
             I == [at |-> "IAC", out |-> x]
  <2>0. "iac" \in InByte /\ k \in InByte
    BY <1>4 DEF InByte
  <2>1. in \o Bytes(k) = v
    <3>1. Bytes(k) = <<"iac", k>>
      BY <1>4 DEF Bytes
    <3> QED
      BY <2>0, <3>1
  <2>2. x \o Text(k) = x
    <3>1. Text(k) = << >>
      BY <1>4 DEF Text, DataChar
    <3> QED
      BY <3>1, ConcatEmptySeq
  <2>3. Hears(D, "iac") = I /\ Hears(I, k) = D
    BY <1>4 DEF Hears
  <2>4. u \in Seq(InByte) /\ \E t : HeardUpTo(t, u, p, Hears(D, "iac"))
    <3> HIDE DEF D
    <3> QED
      BY <2>0, HeardByte DEF D
  <2>7. D = [at |-> "DATA", out |-> x]
    OBVIOUS
  <2> HIDE DEF u, D, I
  <2>5. PICK g : HeardUpTo(g, u, p, I)
    BY <2>3, <2>4
  <2>6. v \in Seq(InByte) /\ \E t : HeardUpTo(t, v, p, Hears(I, k))
    BY <2>0, <2>4, <2>5, HeardByte
  <2> HIDE DEF v
  <2> QED
    BY <2>1, <2>2, <2>3, <2>6, <2>7
<1> QED
  BY <1>1, <1>2, <1>3, <1>4 DEF AllTokens

LEMMA PeerSendGood ==
    ASSUME NEW c, NEW e, Good(e, c), e.socket.st = "up", e.socket.alive, e.socket.sent < Len(Script)
    PROVE  LET f == [e EXCEPT !.socket.sent = @ + 1,
                              !.socket.in = @ \o Bytes(Script[e.socket.sent + 1])]
           IN  Good(f, c) /\ f.socket.st = "up" /\ f.state = e.state
<1> DEFINE s == e.socket
           n == s.sent
           k == Script[n + 1]
           in == s.in \o Bytes(k)
           t == [s EXCEPT !.sent = n + 1, !.in = in]
           f == [e EXCEPT !.socket.sent = @ + 1, !.socket.in = @ \o Bytes(Script[e.socket.sent + 1])]
           z == Seen(s, e.qDev, e.buffer, c)
           p == [at |-> e.telnet, out |-> z]
<1>1. /\ e \in Device /\ s \in Socket /\ s.in \in Seq(InByte) /\ n \in 0 .. Len(Script)
      /\ Len(Script) \in Nat /\ TxGood(s, e.escapeCount)
  BY AlphabetAssumption, DeviceFields, LenProperties DEF Good
<1>2. n + 1 \in 0 .. Len(Script) /\ n + 1 \in 1 .. Len(Script) /\ n < Len(Script)
  BY <1>1
<1>3. k \in AllTokens
  BY <1>2, AlphabetAssumption, ElementOfSeq
<1>4. PICK h : HeardFrom(h, s, e.telnet, z)
  BY DEF Good, RxGood
<1>5. HeardUpTo(h, s.in, p, [at |-> "DATA", out |-> Sent(n)])
  BY <1>4 DEF HeardFrom, Ends, HeardUpTo
<1>6. Sent(n) \in Seq(DataChar) /\ Sent(n + 1) = Sent(n) \o Text(k) /\ Sent(n + 1) \in Seq(DataChar)
  BY <1>1, <1>2, SentSteps
<1>7. f = [e EXCEPT !.socket = t]
  BY <1>1 DEF Device, Socket
<1> HIDE DEF k, f, p, z
<1>8. in \in Seq(InByte) /\ \E g : HeardUpTo(g, in, p, [at |-> "DATA", out |-> Sent(n) \o Text(k)])
  <2> DEFINE i == s.in
             x == Sent(n)
  <2>1. i \in Seq(InByte) /\ x \in Seq(DataChar) /\ HeardUpTo(h, i, p, [at |-> "DATA", out |-> x])
    BY <1>1, <1>5, <1>6
  <2> HIDE DEF i, x, s, n
  <2>2. i \o Bytes(k) \in Seq(InByte) /\ \E g : HeardUpTo(g, i \o Bytes(k), p, [at |-> "DATA", out |-> x \o Text(k)])
    BY <1>3, <2>1, HeardToken
  <2> QED
    BY <2>2 DEF i, x, s, n
<1> DEFINE r == [at |-> "DATA", out |-> Sent(n + 1)]
<1>9. PICK g : HeardUpTo(g, in, p, r)
  BY <1>6, <1>8
<1> HIDE DEF in
<1>10. /\ t \in Socket /\ t.st = "up" /\ t.in = in /\ t.out = s.out /\ t.alive = TRUE
       /\ t.sent = n + 1 /\ t.typed = s.typed /\ t.got = s.got
  BY <1>1, <1>2, <1>8 DEF Socket, InByte
<1> HIDE DEF t
<1>11. Ends(r, TRUE, n + 1)
  <2> DEFINE y == Sent(n + 1)
  <2>1. Len(y) \in Nat
    BY <1>6, LenProperties
  <2>2. Starts(y, y)
    BY <2>1 DEF Starts
  <2> HIDE DEF y
  <2>3. r = [at |-> "DATA", out |-> y]
    BY DEF y
  <2>4. r.at = "DATA" /\ r.out = y
    BY <2>3
  <2> QED
    BY <2>2, <2>3, <2>4 DEF Ends, y
<1>12. Seen(t, e.qDev, e.buffer, c) = z
  BY <1>10, Zenon DEF Seen, z
<1>13. HeardFrom(g, t, e.telnet, Seen(t, e.qDev, e.buffer, c))
  <2> HIDE DEF r
  <2> QED
    BY <1>9, <1>10, <1>11, <1>12 DEF HeardFrom, HeardUpTo, p
<1>14. RxGood(t, e.telnet, Seen(t, e.qDev, e.buffer, c))
  BY <1>13 DEF RxGood
<1>15. TxGood(t, e.escapeCount)
  BY <1>1, <1>10 DEF TxGood
<1>16. Good(f, c) /\ f.socket = t /\ f.state = e.state
  BY <1>7, <1>10, <1>14, <1>15, SocketGood
<1> QED
  BY <1>10, <1>16 DEF f

(* The remote end goes, with or without what was not read.                 *)
LEMMA PeerGoneGood ==
    ASSUME NEW c \in Nat, NEW e, Good(e, c), e.socket.st = "up", NEW rest \in {e.socket.in, << >>}
    PROVE  LET f == [e EXCEPT !.socket.alive = FALSE, !.socket.in = rest]
           IN  Good(f, c) /\ f.socket.st = "up" /\ f.state = e.state
<1> DEFINE s == e.socket
           n == s.sent
           L == Len(s.in)
           t == [s EXCEPT !.alive = FALSE, !.in = rest]
           f == [e EXCEPT !.socket.alive = FALSE, !.socket.in = rest]
           z == Seen(s, e.qDev, e.buffer, c)
<1>1. /\ e \in Device /\ s \in Socket /\ s.in \in Seq(InByte) /\ n \in 0 .. Len(Script)
      /\ L \in Nat /\ TxGood(s, e.escapeCount)
  BY DeviceFields, LenProperties DEF Good
<1>2. rest \in Seq(InByte)
  BY <1>1, EmptySeq
<1>3. PICK h : HeardFrom(h, s, e.telnet, z)
  BY DEF Good, RxGood
<1>4. Hearing(h, s.in) /\ h[0] = [at |-> e.telnet, out |-> z] /\ Ends(h[L], s.alive, n)
  BY <1>3 DEF HeardFrom
<1>5. f = [e EXCEPT !.socket = t]
  BY <1>1 DEF Device, Socket
<1>6. /\ t \in Socket /\ t.st = "up" /\ t.in = rest /\ t.out = s.out /\ t.alive = FALSE
      /\ t.sent = n /\ t.typed = s.typed /\ t.got = s.got
  BY <1>1, <1>2 DEF Socket, InByte
<1> HIDE DEF t, f
<1>7. Seen(t, e.qDev, e.buffer, c) = z
  BY <1>6, Zenon DEF Seen
<1> HIDE DEF z
<1>8. \E g : Hearing(g, rest) /\ g[0] = h[0] /\ Ends(g[Len(rest)], FALSE, n)
  <2>1. CASE rest = s.in
    <3>1. Ends(h[L], FALSE, n)
      BY <1>4 DEF Ends
    <3> QED
      BY <1>4, <2>1, <3>1
  <2>2. CASE rest = << >>
    <3> DEFINE g == [j \in 0 .. 0 |-> h[0]]
    <3>1. Len(rest) = 0 /\ 0 \in 0 .. L
      BY <1>1, <2>2
    <3>2. h[0] \in Heard /\ h[L] \in Heard
      <4>1. L \in 0 .. L
        BY <1>1
      <4> QED
        BY <1>4, <3>1, <4>1 DEF Hearing
    <3>3. h[L].at # "bad" /\ Starts(h[L].out, Sent(n))
      BY <1>4 DEF Ends
    <3>4. h[0].at # "bad" /\ Starts(h[0].out, h[L].out)
      BY <1>1, <1>4, <3>1, <3>3, HearingEnds
    <3>5. h[0].out \in Seq(DataChar) /\ h[L].out \in Seq(DataChar) /\ Sent(n) \in Seq(DataChar)
      BY <1>1, <3>2, SentSteps DEF Heard
    <3>6. Starts(h[0].out, Sent(n))
      BY <3>3, <3>4, <3>5, StartsTransitive
    <3>7. Ends(h[0], FALSE, n)
      BY <3>4, <3>6 DEF Ends
    <3>8. g \in [0 .. 0 -> Heard] /\ g[0] = h[0]
      BY <3>2
    <3> HIDE DEF g
    <3>9. Hearing(g, rest)
      BY <3>1, <3>8 DEF Hearing
    <3> QED
      BY <3>1, <3>7, <3>8, <3>9
  <2> QED
    BY <2>1, <2>2
<1>9. PICK g : Hearing(g, rest) /\ g[0] = h[0] /\ Ends(g[Len(rest)], FALSE, n)
  BY <1>8
<1>10. HeardFrom(g, t, e.telnet, Seen(t, e.qDev, e.buffer, c))
  BY <1>4, <1>6, <1>7, <1>9 DEF HeardFrom
<1>14. RxGood(t, e.telnet, Seen(t, e.qDev, e.buffer, c))
  BY <1>10 DEF RxGood
<1>15. TxGood(t, e.escapeCount)
  BY <1>1, <1>6 DEF TxGood
<1>16. Good(f, c) /\ f.socket = t /\ f.state = e.state
  BY <1>5, <1>6, <1>14, <1>15, SocketGood
<1> QED
  BY <1>6, <1>16 DEF f

LEMMA AnswerCall ==
    ASSUME NEW c, NEW e, Good(e, c), e.socket.st = "up", NEW a \in {"do", "will"}
    PROVE  LET f == SendTelnetResponse(e, a)
           IN  Good(f, c) /\ f.socket.st = "up" /\ f.state = e.state
<1> DEFINE f == SendTelnetResponse(e, a)
<1>1. e \in Device /\ TxGood(e.socket, e.escapeCount) /\ SocketOk(e.socket, e.buffer, c) /\ e.socket \in Socket
  BY DeviceFields DEF Good
<1>2. /\ f \in Device
      /\ f.socket = [e.socket EXCEPT !.out = f.socket.out]
      /\ f.state = e.state /\ f.telnet = e.telnet /\ f.buffer = e.buffer /\ f.qDev = e.qDev
      /\ f.escapeCount = e.escapeCount /\ TxGood(f.socket, e.escapeCount)
  BY <1>1, AnswerGood
<1> HIDE DEF f
<1>3. /\ f.socket.st = "up" /\ f.socket.in = e.socket.in /\ f.socket.alive = e.socket.alive
      /\ f.socket.sent = e.socket.sent /\ f.socket.got = e.socket.got
  BY <1>1, <1>2 DEF Socket
<1>4. Seen(f.socket, f.qDev, f.buffer, c) = Seen(e.socket, e.qDev, e.buffer, c)
  BY <1>2, <1>3, Zenon DEF Seen
<1>5. PICK h : HeardFrom(h, e.socket, e.telnet, Seen(e.socket, e.qDev, e.buffer, c))
  BY DEF Good, RxGood
<1>6. HeardFrom(h, f.socket, f.telnet, Seen(f.socket, f.qDev, f.buffer, c))
  BY <1>2, <1>3, <1>4, <1>5 DEF HeardFrom
<1>7. SocketOk(f.socket, f.buffer, c)
  BY <1>1, <1>3 DEF SocketOk
<1>8. Good(f, c)
  BY <1>2, <1>6, <1>7 DEF Good, RxGood
<1> QED
  BY <1>2, <1>3, <1>8 DEF f

(* Nothing of a connection is in the ring before it is made.               *)
LEMMA FreshQueue ==
    ASSUME NEW c \in Nat, NEW q \in Seq(Item), QueueOk(q, c)
    PROVE  QueueOk(q, c + 1) /\ Waiting(q, c + 1) = << >>
<1> DEFINE F == [i \in 1 .. Len(q) |-> Adds(q[i], c + 1)]
<1>1. Len(q) \in Nat /\ c + 1 \in Nat \ {0}
  BY LenProperties
<1>2. ASSUME NEW i \in 1 .. Len(q)
      PROVE  /\ q[i].conn \in Nat /\ q[i].conn <= c /\ q[i].conn # c + 1 /\ q[i].conn <= c + 1
  <2>1. q[i] \in Item
    BY ElementOfSeq
  <2>2. q[i].conn \in Nat
    BY <2>1, Sizes DEF Item
  <2>3. q[i].conn <= c
    BY DEF QueueOk
  <2> QED
    BY <2>2, <2>3
<1>3. QueueOk(q, c + 1)
  BY <1>2 DEF QueueOk
<1>4. F \in Seq(Seq(DataChar)) /\ Len(F) = Len(q)
  BY <1>1, <1>3, AddsType
<1>5. \A i \in 1 .. Len(q) : F[i] = << >>
  BY <1>2 DEF Adds
<1>6. Waiting(q, c + 1) = Joined(F)
  BY DEF Waiting
<1> HIDE DEF F
<1>7. Joined(F) = << >>
  BY <1>4, <1>5, JoinedNone
<1> QED
  BY <1>3, <1>6, <1>7

LEMMA ConnectedGood ==
    ASSUME NEW c \in Nat, NEW e, Good(e, c)
    PROVE  LET up == [NoSocket EXCEPT !.st = "up", !.alive = TRUE, !.typed = Pluses(e.escapeCount)]
               f == [e EXCEPT !.socket = up, !.state = "ONLINE", !.telnet = "DATA", !.buffer = << >>]
               g == SendResponse(SendTelnetResponse(SendTelnetResponse(f, "will"), "do"))
           IN  Good(g, c + 1) /\ g.socket.st = "up" /\ g.state = "ONLINE"
<1> DEFINE z == << >>
           n == e.escapeCount
           y == Pluses(n)
           s == [NoSocket EXCEPT !.st = "up", !.alive = TRUE, !.typed = y]
           f == [e EXCEPT !.socket = s, !.state = "ONLINE", !.telnet = "DATA", !.buffer = z]
           p == [at |-> "DATA", out |-> z]
           t == [j \in 0 .. 0 |-> p]
<1>1. e \in Device /\ n \in 0 .. 3 /\ QueueOk(e.qDev, c) /\ e.qDev \in Seq(Item)
  BY DeviceFields DEF Good
<1>3. /\ z \in Seq(InByte) /\ z \in Seq(OutByte) /\ z \in Seq(DataChar) /\ z \in Seq(AllChars)
      /\ Len(z) = 0
  BY EmptySeq
<1>4. y \in Seq(AllChars) /\ Len(y) = n /\ \A k \in 1 .. n : y[k] = "plus"
  <2>1. "plus" \in AllChars
    BY DEF AllChars
  <2> QED
    BY <1>1, <2>1 DEF Pluses
<1>5. QueueOk(e.qDev, c + 1) /\ Waiting(e.qDev, c + 1) = z
  BY <1>1, FreshQueue
<1>6. Read(z) = AtData(z) /\ z \o z = z
  BY <1>3, ReadNothing, ConcatEmptySeq DEF Start, AtData
<1>7. Sent(0) = z
  BY SentSteps
<1>8. SubSeq(y, 1, 0) = z
  BY <1>4
<1>9. NoSocket \in Socket /\ NoSocket.in = z /\ NoSocket.out = z /\ NoSocket.sent = 0 /\ NoSocket.got = z
  BY NoSocketType DEF NoSocket
<1> HIDE DEF z, y
<1>10. /\ s.st = "up" /\ s.alive = TRUE /\ s.in = z /\ s.out = z /\ s.sent = 0 /\ s.got = z
       /\ s.typed = y /\ s \in Socket
  BY <1>4, <1>9 DEF Socket
<1> HIDE DEF s, f
<1>11. /\ f \in Device /\ f.socket = s /\ f.state = "ONLINE" /\ f.telnet = "DATA" /\ f.buffer = z
       /\ f.qDev = e.qDev /\ f.escapeCount = n
  BY <1>1, <1>3, <1>10 DEF Device, DataChar, f
<1>12. TxGood(s, n)
  <2>1. n - n = 0 /\ n <= n
    BY <1>1
  <2> HIDE DEF n
  <2> QED
    BY <1>4, <1>6, <1>8, <1>10, <2>1 DEF TxGood
<1>13. Seen(f.socket, f.qDev, f.buffer, c + 1) = z
  <2>1. f.socket.got = z /\ f.qDev = e.qDev /\ f.buffer = z
    BY <1>10, <1>11
  <2> QED
    BY <1>5, <1>6, <2>1, Zenon DEF Seen
<1>14. p \in Heard /\ t \in [0 .. 0 -> Heard] /\ t[0] = p
  BY <1>3 DEF Heard
<1>15. Ends(p, TRUE, 0)
  <2>1. p.at = "DATA" /\ p.out = z /\ Starts(z, z)
    BY <1>3 DEF Starts
  <2> QED
    BY <1>7, <2>1 DEF Ends
<1>16. HeardFrom(t, f.socket, f.telnet, Seen(f.socket, f.qDev, f.buffer, c + 1))
  <2>0. p = [at |-> "DATA", out |-> z]
    OBVIOUS
  <2> HIDE DEF t, p
  <2>1. Hearing(t, z)
    BY <1>3, <1>14 DEF Hearing
  <2> QED
    BY <1>3, <1>10, <1>11, <1>13, <1>14, <1>15, <2>0, <2>1 DEF HeardFrom
<1>17. SocketOk(f.socket, f.buffer, c + 1) /\ Len(f.buffer) < BufCap + ReadMax
  BY <1>3, <1>10, <1>11, Sizes DEF SocketOk
<1>18. Good(f, c + 1)
  BY <1>5, <1>11, <1>12, <1>16, <1>17 DEF Good, RxGood
<1> DEFINE a == SendTelnetResponse(f, "will")
           b == SendTelnetResponse(a, "do")
           g == SendResponse(b)
<1>19. Good(a, c + 1) /\ a.socket.st = "up" /\ a.state = "ONLINE"
  BY <1>10, <1>11, <1>18, AnswerCall
<1> HIDE DEF a
<1>20. Good(b, c + 1) /\ b.socket.st = "up" /\ b.state = "ONLINE"
  BY <1>19, AnswerCall
<1> HIDE DEF b
<1>21. Good(g, c + 1) /\ g.socket.st = "up" /\ g.state = "ONLINE"
  BY <1>20, ResponseGood DEF Keeps
<1> QED
  BY <1>21 DEF a, b, f, s, y, z

-----------------------------------------------------------------------------
(* The invariant.                                                          *)

(* Where device_loop is, and the socket.                                   *)
CallOk ==
    /\ pc = "connect" <=> d.socket.st = "dialing"
    /\ pc \in {"resolve", "exited"} => d.socket.st = "none"
    /\ pc \in {"resolve", "connect"} => d.state = "COMMAND"

HostOk == qHost \in Seq(Msg) /\ Len(qHost) <= RingCap

PortOk ==
    /\ pc \in {"top", "host", "resolve", "connect", "exited"}
    /\ slices \in 0 .. Slices
    /\ conn \in 0 .. MaxConn /\ quiet \in 0 .. 2
    /\ spc \in {"run", "stopping", "join", "stopped"}
    /\ dtrOut \in BOOLEAN /\ dcdIn \in {"up", "down"}
    /\ events \in 0 .. MaxEvents

IInv == Good(d, conn) /\ CallOk /\ HostOk /\ PortOk

LEMMA InvType == IInv => TypeOK
BY DEF IInv, Good, QueueOk, HostOk, PortOk, TypeOK

LEMMA InvTx == IInv => TxIntact
BY DEF IInv, Good, TxGood, TxIntact, AtData

(* A sequence that starts another is one of its prefixes.                  *)
LEMMA StartsPrefix ==
    ASSUME NEW S, NEW x \in Seq(S), NEW y \in Seq(S), Starts(x, y)
    PROVE  x \in {SubSeq(y, 1, n) : n \in 0 .. Len(y)}
<1> DEFINE u == SubSeq(y, 1, Len(x))
<1>1. Len(x) \in Nat /\ Len(y) \in Nat /\ Len(x) <= Len(y) /\ \A k \in 1 .. Len(x) : x[k] = y[k]
  BY LenProperties DEF Starts
<1>2. \A k \in 1 .. Len(y) : y[k] \in S
  BY ElementOfSeq
<1>3. u \in Seq(S) /\ Len(u) = Len(x) /\ \A k \in 1 .. Len(x) : u[k] = y[k]
  BY <1>1, <1>2
<1>4. Len(x) \in 0 .. Len(y)
  BY <1>1
<1> HIDE DEF u
<1>5. x = u
  BY <1>1, <1>3, SeqEqual
<1> QED
  BY <1>4, <1>5 DEF u

LEMMA InvRx == IInv => RxIntact
<1> SUFFICES ASSUME IInv PROVE RxIntact
  OBVIOUS
<1> DEFINE s == d.socket
           data == Sent(s.sent)
           F == [i \in 1 .. Len(d.qDev) |-> IF OfCurrent(d.qDev[i]) THEN <<d.qDev[i].b>> ELSE << >>]
           seen == (s.got \o QueuedBytes) \o d.buffer
<1>1. /\ d \in Device /\ s \in Socket /\ d.qDev \in Seq(Item) /\ QueueOk(d.qDev, conn)
      /\ s.got \in Seq(DataChar) /\ d.buffer \in Seq(DataChar) /\ s.in \in Seq(InByte)
      /\ s.sent \in 0 .. Len(Script) /\ SocketOk(s, d.buffer, conn) /\ conn \in Nat
  BY DeviceFields, Sizes DEF IInv, Good, PortOk
<1>2. data \in Seq(DataChar) /\ Len(data) \in Nat
  BY <1>1, SentSteps, LenProperties
<1>3. QueuedBytes = Joined(F)
  BY DEF QueuedBytes
<1>4. SUFFICES /\ seen \in {SubSeq(data, 1, n) : n \in 0 .. Len(data)}
               /\ Linked /\ s.in = << >> => seen = data
  BY DEF RxIntact
<1>5. CASE s.st # "up"
  <2>1. s = [NoSocket EXCEPT !.st = s.st] /\ d.buffer = << >>
    BY <1>1, <1>5 DEF SocketOk
  <2>2. s.got = << >> /\ s.sent = 0
    BY <2>1 DEF NoSocket
  <2> DEFINE T == Seq(DataChar)
             z == << >>
  <2>3. Len(d.qDev) \in Nat /\ z \in T
    BY <1>1, LenProperties, EmptySeq
  <2>4. F = [i \in 1 .. Len(d.qDev) |-> z]
    BY <1>5 DEF OfCurrent
  <2>8. z = << >>
    OBVIOUS
  <2> HIDE DEF F, T, z
  <2>5. F \in Seq(T) /\ Len(F) = Len(d.qDev) /\ \A k \in 1 .. Len(F) : F[k] = z
    BY <2>3, <2>4
  <2>6. Joined(F) = << >>
    BY <2>5, <2>8, JoinedNone DEF T
  <2>7. << >> \o << >> = << >>
    BY ConcatEmptySeq, EmptySeq
  <2>9. seen = << >>
    BY <1>3, <2>1, <2>2, <2>6, <2>7, Zenon
  <2>10. data = << >>
    BY <2>2, SentSteps
  <2> DEFINE x == seen
  <2>11. Starts(<< >>, << >>)
    BY DEF Starts
  <2>12. Starts(seen, data) /\ seen \in Seq(DataChar) /\ data \in Seq(DataChar)
    BY <1>2, <2>9, <2>10, <2>11
  <2> HIDE DEF seen, data
  <2>13. seen \in {SubSeq(data, 1, n) : n \in 0 .. Len(data)}
    BY <2>12, StartsPrefix
  <2> QED
    BY <2>9, <2>10, <2>13
<1>6. CASE s.st = "up"
  <2>1. Waiting(d.qDev, conn) = QueuedBytes
    <3>1. F = [i \in 1 .. Len(d.qDev) |-> Adds(d.qDev[i], conn)]
      BY <1>6 DEF OfCurrent, Adds
    <3> HIDE DEF F
    <3> QED
      BY <1>3, <3>1 DEF Waiting
  <2>2. seen = Seen(s, d.qDev, d.buffer, conn)
    BY <2>1, Zenon DEF Seen
  <2>3. PICK h : HeardFrom(h, s, d.telnet, Seen(s, d.qDev, d.buffer, conn))
    BY <1>6 DEF IInv, Good, RxGood
  <2> DEFINE L == Len(s.in)
  <2> HIDE DEF seen, data, F
  <2>4. /\ Hearing(h, s.in) /\ h[0] = [at |-> d.telnet, out |-> seen]
        /\ h[L].at # "bad" /\ Starts(h[L].out, data)
        /\ s.alive => h[L] = [at |-> "DATA", out |-> data]
    BY <2>2, <2>3 DEF HeardFrom, Ends, data
  <2>5. L \in Nat /\ 0 \in 0 .. L /\ L \in 0 .. L
    BY <1>1, LenProperties
  <2>6. h[0] \in Heard /\ h[L] \in Heard /\ h[0].out = seen
    BY <2>4, <2>5 DEF Hearing
  <2>7. Starts(h[0].out, h[L].out)
    BY <1>1, <2>4, <2>5, HearingEnds
  <2>8. seen \in Seq(DataChar) /\ h[L].out \in Seq(DataChar)
    BY <2>6 DEF Heard
  <2>9. Starts(seen, data)
    BY <1>2, <2>4, <2>6, <2>7, <2>8, StartsTransitive
  <2>10. seen \in {SubSeq(data, 1, n) : n \in 0 .. Len(data)}
    BY <1>2, <2>8, <2>9, StartsPrefix
  <2>11. ASSUME Linked, s.in = << >> PROVE seen = data
    <3>1. L = 0 /\ s.alive
      BY <2>11 DEF Linked
    <3>2. h[0] = [at |-> "DATA", out |-> data]
      BY <2>4, <3>1
    <3>3. h[0].out = data
      BY <3>2
    <3> QED
      BY <2>6, <3>3
  <2> QED
    BY <2>10, <2>11
<1> QED
  BY <1>5, <1>6

LEMMA InvInit == Init => IInv
<1> SUFFICES ASSUME Init PROVE IInv
  OBVIOUS
<1> DEFINE z == << >>
<1>1. d = NewDevice /\ conn = 0 /\ pc = "top" /\ qHost = z
  BY DEF Init
<1>2. z \in Seq(Item) /\ z \in Seq(DataChar) /\ z \in Seq(Msg) /\ Len(z) = 0
  BY EmptySeq
<1>3. NewDevice = [state |-> "COMMAND", socket |-> NoSocket, spoilt |-> FALSE,
                   escapeCount |-> 0, telnet |-> "DATA", command |-> "none", buffer |-> z,
                   shutdownPending |-> FALSE, lastDcd |-> "unknown", lastDtr |-> FALSE,
                   dtrSeen |-> FALSE, qDev |-> z]
  BY DEF NewDevice
<1>4. NoSocket.st = "none" /\ NoSocket = [NoSocket EXCEPT !.st = NoSocket.st]
  BY DEF NoSocket
<1>10. z = << >>
  OBVIOUS
<1> HIDE DEF z
<1>5. /\ NewDevice \in Device /\ NewDevice.socket = NoSocket /\ NewDevice.buffer = z
      /\ NewDevice.qDev = z /\ NewDevice.state = "COMMAND"
  BY <1>2, <1>3, NoSocketType DEF Device, DataChar
<1>6. QueueOk(z, 0) /\ Len(z) < BufCap + ReadMax
  BY <1>2, Sizes DEF QueueOk
<1>7. Good(d, conn)
  BY <1>1, <1>4, <1>5, <1>6, <1>10 DEF Good, SocketOk, RxGood, TxGood
<1>8. HostOk /\ CallOk
  BY <1>1, <1>2, <1>4, <1>5, Sizes DEF HostOk, CallOk
<1>9. PortOk
  <2>1. /\ pc = "top" /\ slices = 0 /\ conn = 0 /\ quiet = 0 /\ spc = "run" /\ dtrOut = FALSE
        /\ dcdIn = "up" /\ events = 0
    BY DEF Init
  <2>2. slices \in 0 .. Slices /\ conn \in 0 .. MaxConn /\ quiet \in 0 .. 2 /\ events \in 0 .. MaxEvents
    BY <2>1, Sizes
  <2>3. dtrOut \in BOOLEAN
    BY <2>1
  <2> QED
    BY <2>1, <2>2, <2>3 DEF PortOk
<1> QED
  BY <1>7, <1>8, <1>9 DEF IInv

(* A message taken is one less.                                            *)
LEMMA TakeOk ==
    ASSUME IInv, NEW t, Take(t)
    PROVE  /\ HostOk' /\ conn' = conn /\ d.socket.st \in {"none", "up"} /\ pc = "host"
           /\ spc' = spc /\ dtrOut' = dtrOut /\ dcdIn' = dcdIn /\ events' = events
           /\ t = "DATA" => Byte \in AllChars
<1>1. /\ pc = "host" /\ qHost # << >> /\ Head(qHost).type = t /\ qHost' = Tail(qHost)
      /\ UNCHANGED <<conn, spc, dtrOut, dcdIn, events>>
  BY DEF Take
<1>2. qHost \in Seq(Msg) /\ Len(qHost) <= RingCap /\ RingCap \in Nat
  BY Sizes DEF IInv, HostOk
<1>3. Head(qHost) \in Msg /\ Tail(qHost) \in Seq(Msg) /\ Len(qHost) \in Nat \ {0} /\ Len(Tail(qHost)) = Len(qHost) - 1
  BY <1>1, <1>2, HeadTail
<1>4. HostOk'
  BY <1>1, <1>2, <1>3 DEF HostOk
<1>5. t = "DATA" => Byte \in AllChars
  BY <1>1, <1>3 DEF Msg, Byte
<1>6. d.socket.st \in {"none", "up"}
  <2>1. d \in Device
    BY DEF IInv, Good
  <2>2. d.socket.st \in {"none", "dialing", "up"}
    BY <2>1, DeviceFields
  <2> QED
    BY <1>1, <2>2 DEF IInv, CallOk
<1> QED
  BY <1>1, <1>4, <1>5, <1>6

(* A step of the device between dials.                                     *)
LEMMA HostStep ==
    ASSUME IInv, conn' = conn, Good(d', conn), d'.socket.st \in {"none", "up"},
           pc' \in {"host", "top"}, HostOk', slices' = slices, quiet' \in 0 .. 2,
           spc' = spc, dtrOut' = dtrOut, dcdIn' = dcdIn, events' = events
    PROVE  IInv'
<1>1. CallOk'
  BY DEF CallOk
<1>2. PortOk'
  BY DEF IInv, PortOk
<1> QED
  BY <1>1, <1>2 DEF IInv

LEMMA Basics ==
    ASSUME IInv
    PROVE  /\ Good(d, conn) /\ d \in Device /\ conn \in Nat /\ conn \in 0 .. MaxConn /\ HostOk
           /\ quiet \in 0 .. 2 /\ d.socket.st \in {"none", "dialing", "up"}
           /\ pc # "connect" => d.socket.st \in {"none", "up"}
           /\ d.socket.st = "up" => conn \in 1 .. MaxConn
<1>1. Good(d, conn) /\ d \in Device /\ conn \in Nat /\ conn \in 0 .. MaxConn /\ HostOk /\ quiet \in 0 .. 2
  BY Sizes DEF IInv, Good, PortOk
<1>2. d.socket.st \in {"none", "dialing", "up"}
  BY <1>1, DeviceFields
<1>3. d.socket.st = "up" => conn # 0
  BY <1>1 DEF Good, SocketOk
<1>4. conn # 0 => conn \in 1 .. MaxConn
  BY <1>1, Sizes
<1> QED
  BY <1>1, <1>2, <1>3, <1>4 DEF IInv, CallOk

LEMMA RoundNoReadInv == IInv /\ RoundNoRead => IInv'
<1> SUFFICES ASSUME IInv, RoundNoRead PROVE IInv'
  OBVIOUS
<1>1. /\ Good(d, conn) /\ conn \in Nat /\ HostOk /\ quiet \in 0 .. 2
      /\ pc # "connect" => d.socket.st \in {"none", "up"}
      /\ d.socket.st = "up" => conn \in 1 .. MaxConn
  BY Basics
<1>2. /\ pc = "top" /\ pc' = "host"
      /\ IF Reads THEN d' = Drain(ReportLines(d)) ELSE d' = ReportLines(d)
      /\ UNCHANGED <<World, slices>>
  BY DEF RoundNoRead
<1>3. /\ qHost' = qHost /\ conn' = conn /\ quiet' = quiet /\ spc' = spc /\ dtrOut' = dtrOut
      /\ dcdIn' = dcdIn /\ events' = events /\ slices' = slices
  BY <1>2 DEF World
<1> DEFINE e == ReportLines(d)
<1>4. Good(e, conn) /\ e.socket = d.socket
  BY <1>1, ReportGood DEF Keeps
<1> HIDE DEF e
<1>5. Good(d', conn) /\ d'.socket = d.socket
  <2>1. CASE Reads
    <3>1. e.socket.st = "up" /\ conn \in 1 .. MaxConn
      BY <1>1, <1>2, <1>4, <2>1 DEF Reads
    <3>2. d' = Drain(e)
      BY <1>2, <2>1 DEF e
    <3> QED
      BY <1>4, <3>1, <3>2, DrainGood
  <2>2. CASE ~Reads
    BY <1>2, <1>4, <2>2 DEF e
  <2> QED
    BY <2>1, <2>2
<1>6. HostOk'
  BY <1>1, <1>3 DEF HostOk
<1> QED
  BY <1>1, <1>2, <1>3, <1>5, <1>6, HostStep

LEMMA RoundReadInv == IInv /\ RoundRead => IInv'
<1> SUFFICES ASSUME IInv, RoundRead PROVE IInv'
  OBVIOUS
<1> DEFINE r == ReportLines(d)
           e == Drain(r)
<1>1. /\ Good(d, conn) /\ conn \in Nat /\ HostOk /\ quiet \in 0 .. 2
      /\ pc # "connect" => d.socket.st \in {"none", "up"}
      /\ d.socket.st = "up" => conn \in 1 .. MaxConn
  BY Basics
<1>2. /\ pc = "top" /\ pc' = "host" /\ Reads /\ Len(e.buffer) < BufCap
      /\ UNCHANGED <<World, slices>>
  BY DEF RoundRead
<1>7. PICK n \in 0 .. ReadMax :
         /\ n <= Len(e.socket.in)
         /\ d' = [Drain(ProcessTelnet(e, SubSeq(e.socket.in, 1, n))) EXCEPT
                     !.socket.in = SubSeq(@, n + 1, Len(@))]
  BY DEF RoundRead
<1>3. /\ qHost' = qHost /\ conn' = conn /\ quiet' = quiet /\ spc' = spc /\ dtrOut' = dtrOut
      /\ dcdIn' = dcdIn /\ events' = events /\ slices' = slices
  BY <1>2 DEF World
<1> HIDE DEF r
<1>4. Good(r, conn) /\ r.socket = d.socket
  BY <1>1, ReportGood DEF Keeps, r
<1>8. d.socket.st = "up" /\ conn \in 1 .. MaxConn
  BY <1>1, <1>2 DEF Reads
<1>9. Good(e, conn) /\ e.socket.st = "up"
  BY <1>4, <1>8, DrainGood
<1> HIDE DEF e
<1>5. Good(d', conn) /\ d'.socket.st = "up"
  BY <1>2, <1>7, <1>8, <1>9, ReadGood
<1>6. HostOk'
  BY <1>1, <1>3 DEF HostOk
<1> QED
  BY <1>1, <1>2, <1>3, <1>5, <1>6, HostStep

LEMMA RoundLostInv == IInv /\ RoundLost => IInv'
<1> SUFFICES ASSUME IInv, RoundLost PROVE IInv'
  OBVIOUS
<1> DEFINE r == ReportLines(d)
           e == Drain(r)
           f == SendResponse(e)
<1>1. /\ Good(d, conn) /\ conn \in Nat /\ HostOk /\ quiet \in 0 .. 2
      /\ pc # "connect" => d.socket.st \in {"none", "up"}
      /\ d.socket.st = "up" => conn \in 1 .. MaxConn
  BY Basics
<1>2. /\ pc = "top" /\ pc' = "host" /\ Reads /\ d' = Hangup(f)
      /\ UNCHANGED <<World, slices>>
  BY DEF RoundLost
<1>3. /\ qHost' = qHost /\ conn' = conn /\ quiet' = quiet /\ spc' = spc /\ dtrOut' = dtrOut
      /\ dcdIn' = dcdIn /\ events' = events /\ slices' = slices
  BY <1>2 DEF World
<1> HIDE DEF r
<1>4. Good(r, conn) /\ r.socket = d.socket
  BY <1>1, ReportGood DEF Keeps, r
<1>8. d.socket.st = "up" /\ conn \in 1 .. MaxConn
  BY <1>1, <1>2 DEF Reads
<1>9. Good(e, conn)
  BY <1>4, <1>8, DrainGood
<1> HIDE DEF e
<1>10. f \in Device /\ QueueOk(f.qDev, conn)
  BY <1>1, <1>9, ResponseGood DEF Good
<1> HIDE DEF f
<1>5. Good(d', conn) /\ d'.socket.st = "none"
  BY <1>2, <1>10, HangupGood
<1>6. HostOk'
  BY <1>1, <1>3 DEF HostOk
<1> QED
  BY <1>1, <1>2, <1>3, <1>5, <1>6, HostStep

LEMMA HostShutdownInv == IInv /\ HostShutdown => IInv'
<1> SUFFICES ASSUME IInv, HostShutdown PROVE IInv'
  OBVIOUS
<1>1. Good(d, conn) /\ quiet \in 0 .. 2
  BY Basics
<1>2. Take("SHUTDOWN") /\ d' = Hangup(d) /\ pc' = "exited" /\ UNCHANGED <<slices, quiet>>
  BY DEF HostShutdown
<1>3. /\ HostOk' /\ conn' = conn
      /\ spc' = spc /\ dtrOut' = dtrOut /\ dcdIn' = dcdIn /\ events' = events
  BY <1>2, TakeOk
<1>4. Good(d', conn) /\ d'.socket.st = "none"
  BY <1>1, <1>2, HangupGood DEF Good
<1>5. CallOk'
  BY <1>2, <1>4 DEF CallOk
<1>6. PortOk'
  BY <1>2, <1>3 DEF PortOk, IInv
<1> QED
  BY <1>3, <1>4, <1>5, <1>6 DEF IInv

(* A message handled between dials.                                        *)
LEMMA TakeStep ==
    ASSUME IInv, NEW t, Take(t), Good(d', conn), d'.socket.st \in {"none", "up"},
           pc' = pc, slices' = slices, quiet' \in 0 .. 2
    PROVE  IInv'
<1>1. /\ HostOk' /\ conn' = conn /\ d.socket.st \in {"none", "up"} /\ pc = "host"
      /\ spc' = spc /\ dtrOut' = dtrOut /\ dcdIn' = dcdIn /\ events' = events
  BY TakeOk
<1> QED
  BY <1>1, HostStep

LEMMA FlagsGood ==
    ASSUME NEW c, NEW e, Good(e, c), NEW x \in BOOLEAN
    PROVE  /\ Good([e EXCEPT !.spoilt = x], c) /\ [e EXCEPT !.spoilt = x].socket = e.socket
           /\ Good([e EXCEPT !.shutdownPending = x], c)
           /\ [e EXCEPT !.shutdownPending = x].socket = e.socket
           /\ Good([e EXCEPT !.lastDtr = x, !.dtrSeen = TRUE], c)
           /\ [e EXCEPT !.lastDtr = x, !.dtrSeen = TRUE].socket = e.socket
<1>1. e \in Device
  BY DEF Good
<1> DEFINE f == [e EXCEPT !.spoilt = x]
           h == [e EXCEPT !.lastDtr = x, !.dtrSeen = TRUE]
           k == [e EXCEPT !.shutdownPending = x]
<1>2. f \in Device /\ Keeps(e, f) /\ f.qDev = e.qDev
  BY <1>1 DEF Device, Keeps
<1>4. h \in Device /\ Keeps(e, h) /\ h.qDev = e.qDev
  BY <1>1 DEF Device, Keeps
<1>6. k \in Device /\ Keeps(e, k) /\ k.qDev = e.qDev
  BY <1>1 DEF Device, Keeps
<1> HIDE DEF f, h, k
<1>5. Good(f, c) /\ Good(h, c) /\ Good(k, c)
  BY <1>2, <1>4, <1>6, CoreGood DEF Keeps
<1> QED
  BY <1>2, <1>4, <1>5, <1>6 DEF Keeps, f, h, k

LEMMA HostCommandInv == IInv /\ HostCommand => IInv'
<1> SUFFICES ASSUME IInv, HostCommand PROVE IInv'
  OBVIOUS
<1>1. Good(d, conn) /\ conn \in Nat
  BY Basics
<1>2. /\ Take("DATA") /\ (Byte = "dial" => d.spoilt) /\ pc' = pc /\ slices' = slices
      /\ quiet' \in 0 .. 2
  BY DEF HostCommand
<1>12. PICK on \in BOOLEAN :
        d' = CASE Byte = "ff" -> Echo(d, on)
               [] Byte = "plus" -> [Echo(d, on) EXCEPT !.spoilt = TRUE]
               [] Byte = "line" \/ (Byte \in Lines /\ d.spoilt) ->
                     SendResponse([Echo(d, on) EXCEPT !.spoilt = FALSE])
               [] Byte = "hang" /\ ~d.spoilt -> SendResponse(Hangup(Echo(d, on)))
  BY DEF HostCommand
<1> DEFINE e == Echo(d, on)
           plain == [e EXCEPT !.spoilt = TRUE]
           line == [e EXCEPT !.spoilt = FALSE]
           hung == Hangup(e)
<1>7. d' = CASE Byte = "ff" -> e
             [] Byte = "plus" -> plain
             [] Byte = "line" \/ (Byte \in Lines /\ d.spoilt) -> SendResponse(line)
             [] Byte = "hang" /\ ~d.spoilt -> SendResponse(hung)
  BY <1>12
<1>3. Byte \in AllChars /\ d.socket.st \in {"none", "up"}
  BY <1>2, TakeOk
<1>4. Good(e, conn) /\ e.socket = d.socket
  BY <1>1, EchoGood DEF Keeps
<1> HIDE DEF e
<1>5. ASSUME NEW f, Good(f, conn), f.socket.st \in {"none", "up"}
      PROVE  Good(SendResponse(f), conn) /\ SendResponse(f).socket.st \in {"none", "up"}
  BY <1>1, <1>5, ResponseGood DEF Keeps
<1>8. Good(plain, conn) /\ plain.socket = e.socket /\ Good(line, conn) /\ line.socket = e.socket
  BY <1>4, FlagsGood
<1>9. Good(hung, conn) /\ hung.socket.st = "none"
  BY <1>4, HangupGood DEF Good
<1> HIDE DEF plain, line, hung
<1>11. d' \in {e, plain, SendResponse(line), SendResponse(hung)}
  <2> DEFINE b == Byte
             sp == d.spoilt
  <2>1. b \in AllChars /\ (b = "dial" => sp)
    BY <1>2, <1>3
  <2>2. d' = CASE b = "ff" -> e
               [] b = "plus" -> plain
               [] b = "line" \/ (b \in Lines /\ sp) -> SendResponse(line)
               [] b = "hang" /\ ~sp -> SendResponse(hung)
    BY <1>7
  <2> HIDE DEF b, sp
  <2> QED
    BY <2>1, <2>2 DEF AllChars, Lines
<1>6. Good(d', conn) /\ d'.socket.st \in {"none", "up"}
  BY <1>3, <1>4, <1>5, <1>8, <1>9, <1>11
<1> QED
  BY <1>2, <1>6, TakeStep

LEMMA DialInv == IInv /\ Dial => IInv'
<1> SUFFICES ASSUME IInv, Dial PROVE IInv'
  OBVIOUS
<1>8. PICK on \in BOOLEAN :
        LET f == IF d.socket.st # "none" THEN Hangup(Echo(d, on)) ELSE Echo(d, on) IN
        \/ d' = f /\ pc' = "resolve" /\ slices' = 0
        \/ d' = SendResponse(f) /\ pc' = pc /\ slices' = slices
  BY DEF Dial
<1> DEFINE g == Echo(d, on)
           e == IF d.socket.st # "none" THEN Hangup(g) ELSE g
<1>1. Good(d, conn) /\ conn \in Nat
  BY Basics
<1>2. Take("DATA") /\ d.state = "COMMAND" /\ quiet' = 0
  BY DEF Dial
<1>3. \/ d' = e /\ pc' = "resolve" /\ slices' = 0
      \/ d' = SendResponse(e) /\ pc' = pc /\ slices' = slices
  BY <1>8
<1>4. Good(g, conn) /\ g.socket = d.socket /\ g.state = d.state
  BY <1>1, EchoGood DEF Keeps
<1> HIDE DEF g
<1>5. Good(e, conn) /\ e.socket.st = "none" /\ e.state = "COMMAND"
  <2>1. Good(Hangup(g), conn) /\ Hangup(g).socket.st = "none" /\ Hangup(g).state = "COMMAND"
    BY <1>4, HangupGood DEF Good
  <2> QED
    BY <1>2, <1>4, <2>1
<1> HIDE DEF e
<1>6. CASE d' = e /\ pc' = "resolve" /\ slices' = 0
  <2>1. /\ HostOk' /\ conn' = conn
        /\ spc' = spc /\ dtrOut' = dtrOut /\ dcdIn' = dcdIn /\ events' = events
    BY <1>2, TakeOk
  <2>2. CallOk'
    BY <1>5, <1>6 DEF CallOk
  <2>3. PortOk'
    BY <1>2, <1>6, <2>1, Sizes DEF PortOk, IInv
  <2> QED
    BY <1>5, <1>6, <2>1, <2>2, <2>3 DEF IInv
<1>7. CASE d' = SendResponse(e) /\ pc' = pc /\ slices' = slices
  <2>1. Good(d', conn) /\ d'.socket.st = "none"
    BY <1>1, <1>5, <1>7, ResponseGood DEF Keeps
  <2> QED
    BY <1>2, <1>7, <2>1, TakeStep
<1> QED
  BY <1>3, <1>6, <1>7

(* What is left after a dial that came to nothing.                         *)
LEMMA DialFailsOk ==
    ASSUME NEW c \in Nat, NEW e, Good(e, c), e.socket.st # "up", DialFails(e)
    PROVE  Good(d', c) /\ d'.socket.st = "none" /\ pc' \in {"host", "exited"}
<1> DEFINE g == [e EXCEPT !.socket = NoSocket]
           f == SendResponse(g)
<1>1. Good(g, c)
  BY DropGood
<1>2. e \in Device /\ NoSocket.st = "none"
  BY DEF Good, NoSocket
<1>3. g.socket = NoSocket
  BY <1>2 DEF Device
<1> HIDE DEF g
<1>4. Good(f, c) /\ f.socket = NoSocket
  BY <1>1, <1>3, ResponseGood DEF Keeps
<1>5. IF f.shutdownPending THEN d' = Hangup(f) /\ pc' = "exited" ELSE d' = f /\ pc' = "host"
  BY DEF DialFails, g
<1> HIDE DEF f
<1>6. Good(Hangup(f), c) /\ Hangup(f).socket.st = "none"
  BY <1>4, HangupGood DEF Good
<1> QED
  BY <1>2, <1>4, <1>5, <1>6

LEMMA DialStep ==
    ASSUME IInv, conn' = conn, Good(d', conn), d'.socket.st = "none", pc' \in {"host", "exited"},
           HostOk', slices' = 0, quiet' = quiet, spc' = spc, dtrOut' = dtrOut, dcdIn' = dcdIn,
           events' = events
    PROVE  IInv'
<1>1. CallOk'
  BY DEF CallOk
<1>2. PortOk'
  BY Sizes DEF IInv, PortOk
<1> QED
  BY <1>1, <1>2 DEF IInv

(* The messages left when a dial is aborted by message n.                  *)
LEMMA AbortQueue ==
    ASSUME IInv, NEW n \in 1 .. Len(qHost), qHost' = RestOf(qHost[n]) \o SubSeq(qHost, n + 1, Len(qHost))
    PROVE  HostOk'
<1> DEFINE q == qHost
           L == Len(q)
           m == q[n]
           y == SubSeq(q, n + 1, L)
           x == RestOf(m)
<1>1. q \in Seq(Msg) /\ L \in Nat /\ L <= RingCap /\ RingCap \in Nat /\ \A k \in 1 .. L : q[k] \in Msg
  BY LenProperties, ElementOfSeq, Sizes DEF IInv, HostOk
<1>2. n \in Nat /\ n >= 1 /\ n <= L /\ m \in Msg
  BY <1>1
<1>3. y \in Seq(Msg) /\ Len(y) = L - n
  BY <1>1, <1>2
<1>4. x \in Seq(Msg) /\ Len(x) \in 0 .. 1
  <2> DEFINE r == [m EXCEPT !.b = "line"]
  <2>1. CASE m.b \in Lines
    <3>1. r \in Msg
      BY <1>2, <2>1 DEF Msg, AllChars, Lines
    <3>2. x = <<r>>
      BY <2>1 DEF RestOf
    <3> HIDE DEF r, x
    <3> QED
      BY <3>1, <3>2
  <2>2. CASE m.b \notin Lines
    <3>1. x = << >>
      BY <2>2 DEF RestOf
    <3> HIDE DEF x
    <3> QED
      BY <3>1
  <2> QED
    BY <2>1, <2>2
<1> HIDE DEF x, y
<1>5. x \o y \in Seq(Msg) /\ Len(x \o y) = Len(x) + Len(y)
  BY <1>3, <1>4, ConcatProperties
<1>6. Len(x) + Len(y) <= RingCap
  <2> DEFINE a == Len(x)
             b == Len(y)
  <2>1. a \in 0 .. 1 /\ b = L - n /\ L \in Nat /\ L <= RingCap /\ RingCap \in Nat /\ n \in Nat /\ n >= 1 /\ n <= L
    BY <1>1, <1>2, <1>3, <1>4
  <2> HIDE DEF a, b, L
  <2>2. a + b <= RingCap
    BY <2>1
  <2> QED
    BY <2>2 DEF a, b
<1>7. qHost' = x \o y
  BY DEF x, y
<1> QED
  BY <1>5, <1>6, <1>7 DEF HostOk

LEMMA DialSliceInv == IInv /\ DialSlice => IInv'
<1> SUFFICES ASSUME IInv, DialSlice PROVE IInv'
  OBVIOUS
<1>1. Good(d, conn) /\ conn \in Nat /\ slices \in 0 .. Slices /\ Slices \in Nat
  BY Basics, Sizes DEF IInv, PortOk
<1>2. /\ pc \in {"resolve", "connect"} /\ slices < Slices
      /\ conn' = conn /\ quiet' = quiet /\ spc' = spc /\ dtrOut' = dtrOut /\ dcdIn' = dcdIn
      /\ events' = events
  BY DEF DialSlice
<1>3. d.socket.st # "up"
  BY <1>2 DEF IInv, CallOk
<1>4. CASE qHost' = << >> /\ slices' = slices + 1 /\ UNCHANGED <<d, pc>>
  <2>1. HostOk'
    <3> DEFINE z == << >>
    <3>1. z \in Seq(Msg) /\ Len(z) <= RingCap /\ qHost' = z
      BY <1>4, EmptySeq, Sizes
    <3> HIDE DEF z
    <3> QED
      BY <3>1 DEF HostOk
  <2>2. CallOk' /\ Good(d', conn')
    BY <1>1, <1>2, <1>4 DEF IInv, CallOk
  <2>3. slices' \in 0 .. Slices
    BY <1>1, <1>2, <1>4
  <2>4. PortOk'
    BY <1>2, <1>4, <2>3 DEF IInv, PortOk
  <2> QED
    BY <2>1, <2>2, <2>4 DEF IInv
<1>5. ASSUME NEW n \in 1 .. Len(qHost),
             qHost' = RestOf(qHost[n]) \o SubSeq(qHost, n + 1, Len(qHost)),
             DialFails([d EXCEPT !.shutdownPending = qHost[n].type = "SHUTDOWN"]), slices' = 0
      PROVE  IInv'
  <2> DEFINE x == qHost[n].type = "SHUTDOWN"
             e == [d EXCEPT !.shutdownPending = x]
  <2>1. x \in BOOLEAN
    OBVIOUS
  <2>2. DialFails(e)
    BY <1>5
  <2> HIDE DEF x
  <2>3. Good(e, conn) /\ e.socket = d.socket
    BY <1>1, <2>1, FlagsGood
  <2> HIDE DEF e
  <2>4. Good(d', conn) /\ d'.socket.st = "none" /\ pc' \in {"host", "exited"}
    BY <1>1, <1>3, <2>2, <2>3, DialFailsOk
  <2>5. HostOk'
    BY <1>5, AbortQueue
  <2> QED
    BY <1>2, <1>5, <2>4, <2>5, DialStep
<1> QED
  BY <1>4, <1>5 DEF DialSlice

LEMMA DialFailedInv == IInv /\ DialFailed => IInv'
<1> SUFFICES ASSUME IInv, DialFailed PROVE IInv'
  OBVIOUS
<1>1. Good(d, conn) /\ conn \in Nat /\ HostOk
  BY Basics
<1>2. pc \in {"resolve", "connect"} /\ DialFails(d) /\ slices' = 0 /\ UNCHANGED World
  BY DEF DialFailed
<1>3. /\ qHost' = qHost /\ conn' = conn /\ quiet' = quiet /\ spc' = spc /\ dtrOut' = dtrOut
      /\ dcdIn' = dcdIn /\ events' = events
  BY <1>2 DEF World
<1>4. d.socket.st # "up"
  BY <1>2 DEF IInv, CallOk
<1>5. Good(d', conn) /\ d'.socket.st = "none" /\ pc' \in {"host", "exited"}
  BY <1>1, <1>2, <1>4, DialFailsOk
<1>6. HostOk'
  BY <1>1, <1>3 DEF HostOk
<1> QED
  BY <1>2, <1>3, <1>5, <1>6, DialStep

LEMMA ResolvedInv == IInv /\ Resolved => IInv'
<1> SUFFICES ASSUME IInv, Resolved PROVE IInv'
  OBVIOUS
<1> DEFINE s == [d.socket EXCEPT !.st = "dialing"]
<1>1. Good(d, conn) /\ d \in Device /\ HostOk /\ d.socket \in Socket
  BY Basics, DeviceFields
<1>2. /\ pc = "resolve" /\ d' = [d EXCEPT !.socket = s] /\ pc' = "connect" /\ slices' = 0
      /\ UNCHANGED World
  BY <1>1 DEF Resolved, Device
<1>3. /\ qHost' = qHost /\ conn' = conn /\ quiet' = quiet /\ spc' = spc /\ dtrOut' = dtrOut
      /\ dcdIn' = dcdIn /\ events' = events
  BY <1>2 DEF World
<1>4. d.socket.st = "none" /\ d.state = "COMMAND"
  BY <1>2 DEF IInv, CallOk
<1>5. d.socket = [NoSocket EXCEPT !.st = d.socket.st] /\ d.buffer = << >>
  BY <1>1, <1>4 DEF Good, SocketOk
<1>6. s = [NoSocket EXCEPT !.st = "dialing"] /\ s.st = "dialing" /\ s \in Socket
  <2>1. s.st = "dialing" /\ s \in Socket
    BY <1>1 DEF Socket
  <2>2. s = [NoSocket EXCEPT !.st = "dialing"]
    BY <1>5, NoSocketType DEF Socket
  <2> QED
    BY <2>1, <2>2
<1> HIDE DEF s
<1>7. /\ d' \in Device /\ d'.socket = s /\ d'.state = "COMMAND" /\ d'.buffer = d.buffer
      /\ d'.qDev = d.qDev /\ d'.escapeCount = d.escapeCount
  BY <1>1, <1>2, <1>4, <1>6 DEF Device
<1>8. SocketOk(d'.socket, d'.buffer, conn)
  BY <1>5, <1>6, <1>7 DEF SocketOk
<1>9. RxGood(d'.socket, d'.telnet, Seen(d'.socket, d'.qDev, d'.buffer, conn)) /\ TxGood(d'.socket, d'.escapeCount)
  BY <1>6, <1>7 DEF RxGood, TxGood
<1>10. Good(d', conn')
  BY <1>1, <1>3, <1>7, <1>8, <1>9 DEF Good
<1>11. CallOk'
  BY <1>2, <1>6, <1>7 DEF CallOk
<1>12. PortOk' /\ HostOk'
  BY <1>1, <1>2, <1>3, Sizes DEF IInv, PortOk, HostOk
<1> QED
  BY <1>10, <1>11, <1>12 DEF IInv

LEMMA ConnectedInv == IInv /\ Connected => IInv'
<1> SUFFICES ASSUME IInv, Connected PROVE IInv'
  OBVIOUS
<1>1. Good(d, conn) /\ conn \in Nat /\ HostOk /\ MaxConn \in Nat
  BY Basics, Sizes
<1>2. /\ conn < MaxConn /\ conn' = conn + 1 /\ pc' = "host" /\ slices' = 0
      /\ UNCHANGED <<qHost, quiet, spc, dtrOut, dcdIn, events>>
  BY DEF Connected
<1>3. Good(d', conn + 1) /\ d'.socket.st = "up"
  <2>1. d' = LET up == [NoSocket EXCEPT !.st = "up", !.alive = TRUE, !.typed = Pluses(d.escapeCount)]
                 f == [d EXCEPT !.socket = up, !.state = "ONLINE", !.telnet = "DATA", !.buffer = << >>]
             IN  SendResponse(SendTelnetResponse(SendTelnetResponse(f, "will"), "do"))
    BY DEF Connected
  <2> QED
    BY <1>1, <2>1, ConnectedGood
<1>4. CallOk'
  BY <1>2, <1>3 DEF CallOk
<1>5. conn' \in 0 .. MaxConn
  BY <1>1, <1>2
<1>6. PortOk'
  BY <1>2, <1>5, Sizes DEF IInv, PortOk
<1>7. HostOk'
  BY <1>1, <1>2 DEF HostOk
<1> QED
  BY <1>2, <1>3, <1>4, <1>6, <1>7 DEF IInv

LEMMA OnlinePlusInv == IInv /\ OnlinePlus => IInv'
<1> SUFFICES ASSUME IInv, OnlinePlus PROVE IInv'
  OBVIOUS
<1>1. Good(d, conn)
  BY Basics
<1>2. /\ Take("DATA") /\ d.state = "ONLINE" /\ Byte = "plus"
      /\ quiet' \in 0 .. 2 /\ pc' = pc /\ slices' = slices
  BY DEF OnlinePlus
<1>3. d' = IF Held
           THEN [Typed(d) EXCEPT !.escapeCount = @ + 1,
                                 !.state = IF d.escapeCount = 2 THEN "ESCAPE" ELSE @]
           ELSE d
  BY DEF OnlinePlus
<1>4. d.socket.st \in {"none", "up"}
  BY <1>2, TakeOk
<1>5. Typed(d) = TypedBy(d, "plus")
  BY <1>2 DEF Typed, TypedBy
<1>6. Good(d', conn) /\ d'.socket.st = d.socket.st
  <2>1. CASE Held
    <3>1. d.escapeCount < 3
      BY <2>1 DEF Held
    <3>2. d' = [TypedBy(d, "plus") EXCEPT !.escapeCount = @ + 1,
                                 !.state = IF d.escapeCount = 2 THEN "ESCAPE" ELSE @]
      BY <1>3, <1>5, <2>1
    <3> QED
      BY <1>1, <1>2, <3>1, <3>2, HoldGood
  <2>2. CASE ~Held
    BY <1>1, <1>3, <2>2
  <2> QED
    BY <2>1, <2>2
<1> QED
  BY <1>2, <1>4, <1>6, TakeStep

LEMMA OnlineSendInv == IInv /\ OnlineSend => IInv'
<1> SUFFICES ASSUME IInv, OnlineSend PROVE IInv'
  OBVIOUS
<1>1. Good(d, conn) /\ conn \in Nat
  BY Basics
<1>2. /\ Take("DATA") /\ d.state = "ONLINE" /\ quiet' \in 0 .. 2 /\ pc' = pc /\ slices' = slices
  BY DEF OnlineSend
<1>3. d.socket.st \in {"none", "up"} /\ Byte \in AllChars
  BY <1>2, TakeOk
<1>4. PICK n \in Writes :
         d' = [SendTcp(Typed(d), Append(Pluses(d.escapeCount), Byte), n) EXCEPT !.escapeCount = 0]
  BY DEF OnlineSend
<1>5. n \in 0 .. 4
  BY DEF Writes
<1> DEFINE w == SendTcp(TypedBy(d, Byte), Append(Pluses(d.escapeCount), Byte), n)
<1>6. /\ w \in Device /\ w.state \in {"ONLINE", "COMMAND"} /\ w.socket.st \in {"none", "up"}
      /\ \A x \in {"COMMAND", "ONLINE"} : Good([w EXCEPT !.state = x, !.escapeCount = 0], conn)
  BY <1>1, <1>2, <1>3, <1>5, WriteGood
<1>7. d' = [w EXCEPT !.escapeCount = 0]
  BY <1>4 DEF Typed, TypedBy
<1> HIDE DEF w
<1>8. d' = [w EXCEPT !.state = w.state, !.escapeCount = 0] /\ d'.socket = w.socket
  BY <1>6, <1>7 DEF Device
<1>9. Good(d', conn) /\ d'.socket.st \in {"none", "up"}
  BY <1>6, <1>8
<1> QED
  BY <1>2, <1>9, TakeStep

LEMMA EscapeCharInv == IInv /\ EscapeChar => IInv'
<1> SUFFICES ASSUME IInv, EscapeChar PROVE IInv'
  OBVIOUS
<1>1. Good(d, conn) /\ conn \in Nat
  BY Basics
<1>6. /\ Take("DATA") /\ d.state = "ESCAPE" /\ quiet' = 0 /\ UNCHANGED <<pc, slices>>
  BY Zenon DEF EscapeChar
<1>2. /\ Take("DATA") /\ d.state = "ESCAPE" /\ quiet' \in 0 .. 2 /\ pc' = pc /\ slices' = slices
  BY <1>6
<1>3. d.socket.st \in {"none", "up"} /\ Byte \in AllChars
  BY <1>2, TakeOk
<1>4. d.escapeCount = 3
  BY <1>1, <1>2 DEF Good
<1>5. Good(d', conn) /\ d'.socket.st \in {"none", "up"}
  <2>1. CASE quiet < 2
    <3>1. PICK n \in Writes :
             d' = [SendTcp(Typed(d), Append(Pluses(3), Byte), n) EXCEPT
                      !.state = "ONLINE", !.escapeCount = 0]
      BY <2>1 DEF EscapeChar
    <3>2. n \in 0 .. 4
      BY DEF Writes
    <3> DEFINE w == SendTcp(TypedBy(d, Byte), Append(Pluses(d.escapeCount), Byte), n)
    <3>3. /\ w \in Device /\ w.socket.st \in {"none", "up"}
          /\ \A x \in {"COMMAND", "ONLINE"} : Good([w EXCEPT !.state = x, !.escapeCount = 0], conn)
      BY <1>1, <1>2, <1>3, <3>2, WriteGood
    <3>4. d' = [w EXCEPT !.state = "ONLINE", !.escapeCount = 0]
      BY <1>4, <3>1 DEF Typed, TypedBy
    <3> HIDE DEF w
    <3>5. d'.socket = w.socket
      BY <3>3, <3>4 DEF Device
    <3> QED
      BY <3>3, <3>4, <3>5
  <2>2. CASE ~(quiet < 2)
    <3>1. d' = d
      BY <2>2 DEF EscapeChar
    <3> QED
      BY <1>1, <1>3, <3>1
  <2> QED
    BY <2>1, <2>2
<1> QED
  BY <1>2, <1>5, TakeStep

LEMMA HostModemCtlInv == IInv /\ HostModemCtl => IInv'
<1> SUFFICES ASSUME IInv, HostModemCtl PROVE IInv'
  OBVIOUS
<1>1. Good(d, conn) /\ conn \in Nat /\ quiet \in 0 .. 2
  BY Basics
<1> DEFINE h == SendResponse(Hangup(d))
           e == IF d.dtrSeen /\ d.lastDtr /\ Byte = "off" /\ d.socket.st # "none" THEN h ELSE d
           x == Byte = "on"
<1>2. /\ Take("MODEM_CTL") /\ quiet' = quiet /\ pc' = pc /\ slices' = slices
      /\ d' = [e EXCEPT !.lastDtr = x, !.dtrSeen = TRUE]
  BY DEF HostModemCtl
<1>3. d.socket.st \in {"none", "up"}
  BY <1>2, TakeOk
<1>4. Good(h, conn) /\ h.socket.st = "none"
  <2>1. Good(Hangup(d), conn) /\ Hangup(d).socket.st = "none"
    BY <1>1, HangupGood DEF Good
  <2> QED
    BY <1>1, <2>1, ResponseGood DEF Keeps
<1>5. x \in BOOLEAN
  OBVIOUS
<1> HIDE DEF h, x
<1>6. Good(e, conn) /\ e.socket.st \in {"none", "up"}
  BY <1>1, <1>3, <1>4
<1> HIDE DEF e
<1>7. Good(d', conn) /\ d'.socket = e.socket
  BY <1>2, <1>5, <1>6, FlagsGood
<1> QED
  BY <1>1, <1>2, <1>6, <1>7, TakeStep

LEMMA HostEmptyInv == IInv /\ HostEmpty => IInv'
<1> SUFFICES ASSUME IInv, HostEmpty PROVE IInv'
  OBVIOUS
<1>1. Good(d, conn) /\ conn \in Nat /\ quiet \in 0 .. 2 /\ HostOk
  BY Basics
<1> DEFINE e == SendResponse(d)
<1>2. /\ pc = "host" /\ pc' = "top" /\ UNCHANGED <<World, slices>>
      /\ d' = IF d.state = "ESCAPE" /\ quiet = 2
              THEN [e EXCEPT !.state = "COMMAND", !.escapeCount = 0,
                       !.socket.typed = IF Len(@) < 3 THEN @ ELSE SubSeq(@, 1, Len(@) - 3)]
              ELSE d
  BY DEF HostEmpty
<1>3. /\ qHost' = qHost /\ conn' = conn /\ quiet' = quiet /\ spc' = spc /\ dtrOut' = dtrOut
      /\ dcdIn' = dcdIn /\ events' = events /\ slices' = slices
  BY <1>2 DEF World
<1>4. d.socket.st \in {"none", "up"}
  BY <1>2, Basics
<1>5. Good(e, conn) /\ e.socket = d.socket /\ e.state = d.state
  BY <1>1, ResponseGood DEF Keeps
<1> HIDE DEF e
<1>6. Good(d', conn) /\ d'.socket.st = d.socket.st
  <2>1. CASE d.state = "ESCAPE" /\ quiet = 2
    <3>1. d' = [e EXCEPT !.state = "COMMAND", !.escapeCount = 0,
                       !.socket.typed = IF Len(@) < 3 THEN @ ELSE SubSeq(@, 1, Len(@) - 3)]
      BY <1>2, <2>1
    <3> QED
      BY <1>5, <2>1, <3>1, EscapedGood, ZenonT(30)
  <2>2. CASE ~(d.state = "ESCAPE" /\ quiet = 2)
    BY <1>1, <1>2, <2>2
  <2> QED
    BY <2>1, <2>2
<1>7. HostOk'
  BY <1>1, <1>3 DEF HostOk
<1> QED
  BY <1>1, <1>2, <1>3, <1>4, <1>6, <1>7, HostStep

(* A step of the port, of the network or of time.                          *)
LEMMA OtherStep ==
    ASSUME IInv, conn' = conn, Good(d', conn), d'.socket.st = d.socket.st, d'.state = d.state,
           pc' = pc, HostOk', PortOk'
    PROVE  IInv'
<1>1. CallOk'
  BY DEF IInv, CallOk
<1> QED
  BY <1>1 DEF IInv

LEMMA AppendHost ==
    ASSUME IInv, Room, NEW m \in Msg, qHost' = Append(qHost, m)
    PROVE  HostOk'
<1>1. qHost \in Seq(Msg) /\ Len(qHost) \in Nat /\ Len(qHost) < RingCap /\ RingCap \in Nat
  BY LenProperties, Sizes DEF IInv, HostOk, Room
<1> DEFINE q == Append(qHost, m)
<1>2. q \in Seq(Msg) /\ Len(q) = Len(qHost) + 1
  BY <1>1, AppendProperties
<1> HIDE DEF q
<1>3. Len(q) <= RingCap
  BY <1>1, <1>2
<1> QED
  BY <1>2, <1>3 DEF HostOk, q

LEMMA EventsGrow ==
    ASSUME IInv, events < MaxEvents, events' = events + 1
    PROVE  events' \in 0 .. MaxEvents
BY Sizes DEF IInv, PortOk

LEMMA GuestSendInv == IInv /\ GuestSend => IInv'
<1> SUFFICES ASSUME IInv, GuestSend PROVE IInv'
  OBVIOUS
<1>1. /\ events < MaxEvents /\ Room /\ events' = events + 1
      /\ UNCHANGED <<d, pc, slices, conn, quiet, spc, dtrOut, dcdIn>>
  BY DEF GuestSend
<1>2. PICK c \in Char : qHost' = Append(qHost, Message("DATA", c))
  BY DEF GuestSend
<1>3. Message("DATA", c) \in Msg
  BY AlphabetAssumption DEF Message, Msg
<1>4. HostOk'
  BY <1>1, <1>2, <1>3, AppendHost
<1>5. events' \in 0 .. MaxEvents
  BY <1>1, EventsGrow
<1>6. PortOk'
  BY <1>1, <1>5 DEF IInv, PortOk
<1> QED
  BY <1>1, <1>4, <1>6, OtherStep, Basics

LEMMA GuestDtrInv == IInv /\ GuestDtr => IInv'
<1> SUFFICES ASSUME IInv, GuestDtr PROVE IInv'
  OBVIOUS
<1> DEFINE b == IF dtrOut THEN "off" ELSE "on"
<1>1. /\ events < MaxEvents /\ Room /\ events' = events + 1 /\ dtrOut' = ~dtrOut
      /\ qHost' = Append(qHost, Message("MODEM_CTL", b))
      /\ UNCHANGED <<d, pc, slices, conn, quiet, spc, dcdIn>>
  BY DEF GuestDtr
<1>2. b \in {"on", "off"}
  OBVIOUS
<1> HIDE DEF b
<1>3. Message("MODEM_CTL", b) \in Msg
  BY <1>2 DEF Message, Msg
<1>4. HostOk'
  BY <1>1, <1>3, AppendHost
<1>5. events' \in 0 .. MaxEvents /\ dtrOut' \in BOOLEAN
  BY <1>1, EventsGrow
<1>6. PortOk'
  BY <1>1, <1>5 DEF IInv, PortOk
<1> QED
  BY <1>1, <1>4, <1>6, OtherStep, Basics

LEMMA GuestGetInv == IInv /\ GuestGet => IInv'
<1> SUFFICES ASSUME IInv, GuestGet PROVE IInv'
  OBVIOUS
<1> DEFINE m == Head(d.qDev)
           f == [d EXCEPT !.qDev = Tail(@),
                          !.socket.got = IF OfCurrent(m) THEN Append(@, m.b) ELSE @]
<1>1. /\ d.qDev # << >> /\ d' = f
      /\ dcdIn' = IF m.type = "STATUS" THEN m.b ELSE dcdIn
      /\ UNCHANGED <<pc, slices, qHost, conn, quiet, spc, dtrOut, events>>
  BY DEF GuestGet
<1>2. Good(d, conn) /\ conn \in 0 .. MaxConn /\ d \in Device /\ HostOk
  BY Basics
<1>3. Good(f, conn) /\ f.socket.st = d.socket.st /\ f.state = d.state
  BY <1>1, <1>2, GetGood
<1>4. d.qDev \in Seq(Item)
  BY <1>2, DeviceFields
<1>5. m \in Item
  BY <1>1, <1>4, HeadTail
<1>6. dcdIn' \in {"up", "down"}
  BY <1>1, <1>5 DEF Item, IInv, PortOk
<1> HIDE DEF f, m
<1>7. PortOk' /\ HostOk'
  BY <1>1, <1>2, <1>6 DEF IInv, PortOk, HostOk
<1> QED
  BY <1>1, <1>3, <1>7, OtherStep

LEMMA StopInv == IInv /\ (StopCall \/ StopSend \/ StopJoin) => IInv'
<1> SUFFICES ASSUME IInv, StopCall \/ StopSend \/ StopJoin PROVE IInv'
  OBVIOUS
<1>1. Good(d, conn) /\ HostOk
  BY Basics
<1>2. CASE StopCall \/ StopJoin
  <2>1. /\ spc' \in {"run", "stopping", "join", "stopped"}
        /\ UNCHANGED <<d, pc, slices, qHost, conn, quiet, dtrOut, dcdIn, events>>
    BY <1>2 DEF StopCall, StopJoin
  <2>2. HostOk' /\ PortOk'
    BY <1>1, <2>1 DEF IInv, HostOk, PortOk
  <2> QED
    BY <1>1, <2>1, <2>2, OtherStep
<1>3. CASE StopSend
  <2>1. /\ Room /\ qHost' = Append(qHost, Message("SHUTDOWN", "off")) /\ spc' = "join"
        /\ UNCHANGED <<d, pc, slices, conn, quiet, dtrOut, dcdIn, events>>
    BY <1>3 DEF StopSend
  <2>2. Message("SHUTDOWN", "off") \in Msg
    BY DEF Message, Msg
  <2>3. HostOk'
    BY <2>1, <2>2, AppendHost
  <2>4. PortOk'
    BY <2>1 DEF IInv, PortOk
  <2> QED
    BY <1>1, <2>1, <2>3, <2>4, OtherStep
<1> QED
  BY <1>2, <1>3

LEMMA InvInitNext == (Init => IInv)'
BY InvInit, PTL

LEMMA AttachInv == IInv /\ Attach => IInv'
<1> SUFFICES ASSUME IInv, Attach PROVE IInv'
  OBVIOUS
<1>1. Init'
  BY DEF Attach, Init
<1> QED
  BY <1>1, InvInitNext

LEMMA PeerSendInv == IInv /\ PeerSend => IInv'
<1> SUFFICES ASSUME IInv, PeerSend PROVE IInv'
  OBVIOUS
<1>1. Good(d, conn) /\ HostOk
  BY Basics
<1>2. /\ Linked /\ d.socket.sent < Len(Script) /\ events < MaxEvents /\ events' = events + 1
      /\ UNCHANGED <<pc, slices, qHost, conn, quiet, spc, dtrOut, dcdIn>>
  BY DEF PeerSend
<1>3. d' = [d EXCEPT !.socket.sent = @ + 1, !.socket.in = @ \o Bytes(Script[d.socket.sent + 1])]
  BY DEF PeerSend
<1>4. d.socket.st = "up" /\ d.socket.alive
  BY <1>2 DEF Linked
<1>5. Good(d', conn) /\ d'.socket.st = "up" /\ d'.state = d.state
  BY <1>1, <1>2, <1>3, <1>4, PeerSendGood
<1>6. events' \in 0 .. MaxEvents
  BY <1>2, EventsGrow
<1>7. HostOk' /\ PortOk'
  BY <1>1, <1>2, <1>6 DEF IInv, HostOk, PortOk
<1> QED
  BY <1>2, <1>4, <1>5, <1>7, OtherStep

LEMMA PeerGoneInv == IInv /\ PeerGone => IInv'
<1> SUFFICES ASSUME IInv, PeerGone PROVE IInv'
  OBVIOUS
<1>1. Good(d, conn) /\ HostOk /\ conn \in Nat
  BY Basics
<1>2. /\ Linked /\ events < MaxEvents /\ events' = events + 1
      /\ UNCHANGED <<pc, slices, qHost, conn, quiet, spc, dtrOut, dcdIn>>
  BY DEF PeerGone
<1>3. PICK rest \in {d.socket.in, << >>} :
         d' = [d EXCEPT !.socket.alive = FALSE, !.socket.in = rest]
  BY DEF PeerGone
<1>4. d.socket.st = "up"
  BY <1>2 DEF Linked
<1>5. Good(d', conn) /\ d'.socket.st = "up" /\ d'.state = d.state
  BY <1>1, <1>3, <1>4, PeerGoneGood, ZenonT(30)
<1>6. events' \in 0 .. MaxEvents
  BY <1>2, EventsGrow
<1>7. HostOk' /\ PortOk'
  BY <1>1, <1>2, <1>6 DEF IInv, HostOk, PortOk
<1> QED
  BY <1>2, <1>4, <1>5, <1>7, OtherStep

LEMMA TickInv == IInv /\ Tick => IInv'
<1> SUFFICES ASSUME IInv, Tick PROVE IInv'
  OBVIOUS
<1>1. Good(d, conn) /\ HostOk /\ quiet \in 0 .. 2
  BY Basics
<1>2. /\ quiet < 2 /\ quiet' = quiet + 1
      /\ UNCHANGED <<d, pc, slices, qHost, conn, spc, dtrOut, dcdIn, events>>
  BY DEF Tick
<1>3. quiet' \in 0 .. 2
  BY <1>1, <1>2
<1>4. HostOk' /\ PortOk'
  BY <1>1, <1>2, <1>3 DEF IInv, HostOk, PortOk
<1> QED
  BY <1>1, <1>2, <1>4, OtherStep

LEMMA InvNext == IInv /\ [Next]_vars => IInv'
<1> SUFFICES ASSUME IInv, [Next]_vars PROVE IInv'
  OBVIOUS
<1>1. CASE DeviceThread
  BY <1>1, RoundNoReadInv, RoundReadInv, RoundLostInv, HostShutdownInv, HostCommandInv, DialInv,
     DialSliceInv, DialFailedInv, ResolvedInv, ConnectedInv, OnlinePlusInv, OnlineSendInv,
     EscapeCharInv, HostModemCtlInv, HostEmptyInv, Zenon
  DEF DeviceThread
<1>2. CASE GuestSend \/ GuestDtr \/ GuestGet
  BY <1>2, GuestSendInv, GuestDtrInv, GuestGetInv
<1>3. CASE StopCall \/ StopSend \/ StopJoin
  BY <1>3, StopInv
<1>4. CASE Attach
  BY <1>4, AttachInv
<1>5. CASE PeerSend \/ PeerGone \/ Tick
  BY <1>5, PeerSendInv, PeerGoneInv, TickInv
<1>6. CASE UNCHANGED vars
  BY <1>6 DEF vars, IInv, CallOk, HostOk, PortOk
<1> QED
  BY <1>1, <1>2, <1>3, <1>4, <1>5, <1>6 DEF Next

-----------------------------------------------------------------------------
(* The theorems.                                                           *)

(* The rings, tcp_buffer, the counters and the states of ModemDevice stay  *)
(* within their bounds, whatever the guest, the remote host and stop() do. *)
THEOREM ModemType == Spec => []TypeOK
<1>1. Init => IInv
  BY InvInit
<1>2. IInv /\ [Next]_vars => IInv'
  BY InvNext
<1>3. IInv => TypeOK
  BY InvType
<1> QED
  BY <1>1, <1>2, <1>3, PTL DEF Spec

(* check_tcp_data, process_telnet_byte and drain_tcp_buffer_to_queue pass  *)
(* on to the guest exactly what the remote host sent, in order, however    *)
(* the reads cut the stream and however full the ring is.                  *)
THEOREM ModemRxIntact == Spec => []RxIntact
<1>1. Init => IInv
  BY InvInit
<1>2. IInv /\ [Next]_vars => IInv'
  BY InvNext
<1>3. IInv => RxIntact
  BY InvRx
<1> QED
  BY <1>1, <1>2, <1>3, PTL DEF Spec

(* send_tcp_data and the +++ escape give the remote host exactly what the  *)
(* guest typed in data mode, whatever telnet options are answered between. *)
THEOREM ModemTxIntact == Spec => []TxIntact
<1>1. Init => IInv
  BY InvInit
<1>2. IInv /\ [Next]_vars => IInv'
  BY InvNext
<1>3. IInv => TxIntact
  BY InvTx
<1> QED
  BY <1>1, <1>2, <1>3, PTL DEF Spec
=============================================================================
