------------------------ MODULE ExecControl_proofs -------------------------
(***************************************************************************)
(* For every program, every set of breakpoints and every sequence of       *)
(* requests: the count of enabled breakpoints is exact, and at full speed  *)
(* no breakpoint is run past unless a CONTINUE suppressed it.              *)
(*                                                                         *)
(* The argument rests on the table: its ids are distinct and below         *)
(* next_id_, so enabling, clearing or hitting one entry changes the set of *)
(* enabled ids by that entry only.                                         *)
(***************************************************************************)
EXTENDS ExecControl, FiniteSetTheorems, FoldLemmas

(* The table's part of the inductive invariant.                            *)
TableInv(b, n, c) ==
    /\ b \subseteq Entry
    /\ n \in Nat
    /\ \A e \in b : e.id < n
    /\ \A e, f \in b : e.id = f.id => e = f
    /\ IsFiniteSet(EnabledIds(b))
    /\ c = Cardinality(EnabledIds(b))

(* The frame that skips the checks has nothing to check.                   *)
FastInv == phase = "fast" => enabledCount = 0

IInv == TypeOK /\ TableInv(bps, nextId, enabledCount) /\ FastInv
----------------------------------------------------------------------------
(* A count of no breakpoints means that none is enabled.                   *)
LEMMA NoneEnabled ==
    ASSUME NEW b, NEW n, NEW c, TableInv(b, n, c), c = 0
    PROVE  EnabledIds(b) = {}
  BY FS_EmptySet DEF TableInv

(* The count is a natural number.                                          *)
LEMMA CountType ==
    ASSUME NEW b, NEW n, NEW c, TableInv(b, n, c)
    PROVE  c \in Nat
  BY FS_CardinalityType DEF TableInv

(* The table is empty at first, and after BP_CLEAR_ALL.                    *)
LEMMA EmptyTable ==
    ASSUME NEW n \in Nat
    PROVE  TableInv({}, n, 0)
<1>1. EnabledIds({}) = {}
  BY DEF EnabledIds
<1> QED
  BY <1>1, FS_EmptySet DEF TableInv

(* BreakpointTable::add.                                                   *)
LEMMA AddTable ==
    ASSUME NEW b, NEW n, NEW c, TableInv(b, n, c),
           NEW e \in Entry, e.id = n
    PROVE  TableInv(b \cup {e}, n + 1, c + Weight(e))
<1>1. n \notin EnabledIds(b)
  BY DEF EnabledIds, TableInv, Entry
<1>2. EnabledIds(b \cup {e}) = IF e.on THEN EnabledIds(b) \cup {n} ELSE EnabledIds(b)
  BY DEF EnabledIds
<1>3. /\ IsFiniteSet(EnabledIds(b) \cup {n})
      /\ Cardinality(EnabledIds(b) \cup {n}) = Cardinality(EnabledIds(b)) + 1
  BY <1>1, FS_AddElement DEF TableInv
<1>4. c \in Nat
  BY CountType
<1>5. /\ IsFiniteSet(EnabledIds(b \cup {e}))
      /\ c + Weight(e) = Cardinality(EnabledIds(b \cup {e}))
  BY <1>2, <1>3, <1>4 DEF TableInv, Weight
<1>6. /\ b \cup {e} \subseteq Entry
      /\ n + 1 \in Nat
      /\ \A g \in b \cup {e} : g.id < n + 1
      /\ \A f, g \in b \cup {e} : f.id = g.id => f = g
  BY DEF TableInv, Entry
<1> QED
  BY <1>5, <1>6 DEF TableInv

(* Taking an entry out of the table.                                       *)
LEMMA ClearTable ==
    ASSUME NEW b, NEW n, NEW c, TableInv(b, n, c), NEW e \in b
    PROVE  TableInv(b \ {e}, n, c - Weight(e))
<1>1. EnabledIds(b \ {e}) = EnabledIds(b) \ {e.id}
  BY DEF EnabledIds, TableInv
<1>2. e.on => e.id \in EnabledIds(b)
  BY DEF EnabledIds
<1>3. ~e.on => e.id \notin EnabledIds(b)
  BY DEF EnabledIds, TableInv
<1>4. /\ IsFiniteSet(EnabledIds(b) \ {e.id})
      /\ Cardinality(EnabledIds(b) \ {e.id}) =
           IF e.id \in EnabledIds(b) THEN Cardinality(EnabledIds(b)) - 1
           ELSE Cardinality(EnabledIds(b))
  BY FS_RemoveElement DEF TableInv
<1>5. c \in Nat
  BY CountType
<1>6. c - Weight(e) = Cardinality(EnabledIds(b \ {e}))
  <2> DEFINE ids == EnabledIds(b)
  <2>1. c = Cardinality(ids)
    BY DEF TableInv
  <2>2. Cardinality(ids \ {e.id}) = c - Weight(e)
    <3>1. CASE e.on
      BY <3>1, <1>2, <1>4, <1>5, <2>1 DEF Weight
    <3>2. CASE ~e.on
      BY <3>2, <1>3, <1>4, <1>5, <2>1 DEF Weight
    <3> QED
      BY <3>1, <3>2
  <2> QED
    BY <1>1, <2>2
<1> QED
  BY <1>1, <1>4, <1>6 DEF TableInv
(* BreakpointTable::set_enabled.                                           *)
LEMMA EnableTable ==
    ASSUME NEW b, NEW n, NEW c, TableInv(b, n, c), NEW e \in b,
           NEW on \in BOOLEAN
    PROVE  TableInv((b \ {e}) \cup {[e EXCEPT !.on = on]}, n,
                    (c - Weight(e)) + (IF on THEN 1 ELSE 0))
<1> DEFINE g == [e EXCEPT !.on = on]
           rest == b \ {e}
           both == rest \cup {g}
<1>1. TableInv(rest, n, c - Weight(e))
  BY ClearTable
<1>2. e \in Entry /\ g \in Entry /\ g.id = e.id /\ g.on = on
  BY DEF TableInv, Entry
<1>3. e.id \notin EnabledIds(rest)
  BY DEF TableInv, EnabledIds
<1>4. EnabledIds(both) = IF on THEN EnabledIds(rest) \cup {e.id} ELSE EnabledIds(rest)
  BY <1>2 DEF EnabledIds
<1>5. /\ IsFiniteSet(EnabledIds(rest) \cup {e.id})
      /\ Cardinality(EnabledIds(rest) \cup {e.id}) = Cardinality(EnabledIds(rest)) + 1
  BY <1>1, <1>3, FS_AddElement DEF TableInv
<1>6. c - Weight(e) \in Nat
  BY <1>1, CountType
<1>7. /\ IsFiniteSet(EnabledIds(both))
      /\ (c - Weight(e)) + (IF on THEN 1 ELSE 0) = Cardinality(EnabledIds(both))
  <2>1. CASE on
    BY <2>1, <1>1, <1>4, <1>5, <1>6 DEF TableInv
  <2>2. CASE ~on
    BY <2>2, <1>1, <1>4, <1>6 DEF TableInv
  <2> QED
    BY <2>1, <2>2
<1>8. /\ both \subseteq Entry
      /\ \A h \in both : h.id < n
      /\ \A f, h \in both : f.id = h.id => f = h
  BY <1>2 DEF TableInv
<1> QED
  BY <1>7, <1>8 DEF TableInv

(* At most one entry stops a scan.                                         *)
LEMMA OneHit ==
    ASSUME NEW b, NEW n, NEW c, TableInv(b, n, c), NEW at,
           NEW g \in Hits(b, at), NEW h \in Hits(b, at)
    PROVE  g = h
<1>1. /\ g \in b /\ h \in b /\ g.id \in Nat /\ h.id \in Nat
      /\ g.ignore = 0 /\ h.ignore = 0
      /\ g \in Matching(b, at) /\ h \in Matching(b, at)
  BY DEF Hits, Matching, TableInv, Entry
<1>2. ~(g.id < h.id) /\ ~(h.id < g.id)
  BY <1>1 DEF Hits
<1>3. g.id = h.id
  BY <1>1, <1>2
<1> QED
  BY <1>1, <1>3 DEF TableInv

(* A scan that meets a due breakpoint stops at one.                        *)
LEMMA DueHits ==
    ASSUME NEW b, NEW n, NEW c, TableInv(b, n, c), NEW at,
           NEW e \in Matching(b, at), e.ignore = 0
    PROVE  Hits(b, at) # {}
<1> DEFINE due == {f \in Matching(b, at) : f.ignore = 0}
           T == {f.id : f \in due}
<1>1. \A f \in Matching(b, at) : f \in b /\ f.id \in Nat /\ f.ignore \in Nat
  BY DEF Matching, TableInv, Entry
<1>2. T \subseteq Nat /\ T # {}
  BY <1>1
<1>3. PICK x \in T : \A y \in T : ~(y < x)
  BY <1>2, Least
<1>4. PICK h \in due : h.id = x
  BY <1>3
<1>5. \A f \in Matching(b, at) : f.id < h.id => f.ignore > 0
  <2> SUFFICES ASSUME NEW f \in Matching(b, at), f.id < h.id
               PROVE  f.ignore # 0
    BY <1>1
  <2> QED
    BY <1>3, <1>4
<1>6. h \in Hits(b, at)
  BY <1>4, <1>5 DEF Hits
<1> QED
  BY <1>6
(* What a scan leaves: every entry but a temporary one that stopped, with  *)
(* its id and its enabled flag.                                            *)
LEMMA ScanKeeps ==
    ASSUME NEW b, NEW n, NEW c, TableInv(b, n, c), NEW at
    PROVE  LET gone == {h \in Hits(b, at) : h.temporary}
           IN  /\ Scanned(b, at) \subseteq Entry
               /\ \A s \in Scanned(b, at) :
                     \E o \in b \ gone : o.id = s.id /\ o.on = s.on
               /\ \A o \in b \ gone :
                     \E s \in Scanned(b, at) : o.id = s.id /\ o.on = s.on
               /\ \A r, s \in Scanned(b, at) : r.id = s.id => r = s
<1> DEFINE gone == {h \in Hits(b, at) : h.temporary}
           P == Passed(b, at)
           Down(e) == [e EXCEPT !.ignore = @ - 1]
           S == Scanned(b, at)
<1>1. /\ \A e \in P : e \in b /\ e.ignore > 0
      /\ \A h \in gone : h \in b /\ h.ignore = 0
  BY DEF Passed, Hits, Matching
<1>2. b \subseteq Entry
  BY DEF TableInv
<1>3. S = (b \ (P \cup gone)) \cup {Down(e) : e \in P}
  BY DEF Scanned
<1>4. \A e \in P : /\ e \in b \ gone
                   /\ Down(e) \in Entry
                   /\ Down(e).id = e.id /\ Down(e).on = e.on
                   /\ Down(e) \in S
  <2> SUFFICES ASSUME NEW e \in P
               PROVE  /\ e \in b \ gone
                      /\ Down(e) \in Entry
                      /\ Down(e).id = e.id /\ Down(e).on = e.on
                      /\ Down(e) \in S
    OBVIOUS
  <2>1. e \in b \ gone /\ e \in Entry /\ e.ignore > 0 /\ e.ignore \in Nat
    <3>1. e \in b /\ e.ignore > 0
      BY <1>1
    <3>2. e \in Entry
      BY <3>1, <1>2
    <3>3. e.ignore \in Nat
      BY <3>2 DEF Entry
    <3>4. e \notin gone
      BY <1>1, <3>1, <3>3
    <3> QED
      BY <3>1, <3>2, <3>3, <3>4
  <2>2. e.ignore - 1 \in Nat
    BY <2>1
  <2>3. Down(e) \in Entry /\ Down(e).id = e.id /\ Down(e).on = e.on
    BY <2>1, <2>2 DEF Entry
  <2> QED
    BY <2>1, <2>3, <1>3
<1>5. S \subseteq Entry
  BY <1>2, <1>3, <1>4
<1>6. \A s \in S : \E o \in b \ gone : o.id = s.id /\ o.on = s.on
  <2> SUFFICES ASSUME NEW s \in S
               PROVE  \E o \in b \ gone : o.id = s.id /\ o.on = s.on
    OBVIOUS
  <2>1. CASE s \in b \ (P \cup gone)
    BY <2>1
  <2>2. CASE \E e \in P : s = Down(e)
    BY <2>2, <1>4
  <2> QED
    BY <2>1, <2>2, <1>3
<1>7. \A o \in b \ gone : \E s \in S : o.id = s.id /\ o.on = s.on
  <2> SUFFICES ASSUME NEW o \in b \ gone
               PROVE  \E s \in S : o.id = s.id /\ o.on = s.on
    OBVIOUS
  <2>1. CASE o \in P
    BY <2>1, <1>4
  <2>2. CASE o \notin P
    BY <2>2, <1>3
  <2> QED
    BY <2>1, <2>2
<1>8. \A r, s \in S : r.id = s.id => r = s
  <2> SUFFICES ASSUME NEW r \in S, NEW s \in S, r.id = s.id
               PROVE  r = s
    OBVIOUS
  <2>1. \A e, f \in b : e.id = f.id => e = f
    BY DEF TableInv
  <2>2. CASE r \in b \ (P \cup gone) /\ s \in b \ (P \cup gone)
    BY <2>1, <2>2
  <2>3. CASE \E e, f \in P : r = Down(e) /\ s = Down(f)
    BY <2>1, <2>3, <1>4
  <2>4. CASE (\E e \in P : r = Down(e)) /\ s \in b \ (P \cup gone)
    BY <2>1, <2>4, <1>4
  <2>5. CASE r \in b \ (P \cup gone) /\ (\E e \in P : s = Down(e))
    BY <2>1, <2>5, <1>4
  <2> QED
    BY <2>2, <2>3, <2>4, <2>5, <1>3
<1> QED
  BY <1>5, <1>6, <1>7, <1>8

(* A scan keeps the count exact: it lowers it for the temporary entry it   *)
(* clears, and only for that.                                              *)
LEMMA ScanTable ==
    ASSUME NEW b, NEW n, NEW c, TableInv(b, n, c), NEW at
    PROVE  TableInv(Scanned(b, at), n, c - CountAfter(b, at))
<1> DEFINE gone == {h \in Hits(b, at) : h.temporary}
           S == Scanned(b, at)
           ids == EnabledIds(b)
<1>1. /\ S \subseteq Entry
      /\ \A s \in S : \E o \in b \ gone : o.id = s.id /\ o.on = s.on
      /\ \A o \in b \ gone : \E s \in S : o.id = s.id /\ o.on = s.on
      /\ \A r, s \in S : r.id = s.id => r = s
  BY ScanKeeps
<1>2. \A h \in gone : h \in b /\ h.on
  BY DEF Hits, Matching
<1>3. c \in Nat /\ c = Cardinality(ids) /\ IsFiniteSet(ids) /\ n \in Nat
  BY CountType DEF TableInv
<1>4. \A s \in S : s.id < n
  BY <1>1 DEF TableInv
<1>5. EnabledIds(S) = EnabledIds(b \ gone)
  BY <1>1 DEF EnabledIds
<1>6. IsFiniteSet(EnabledIds(S)) /\ c - CountAfter(b, at) = Cardinality(EnabledIds(S))
  <2>1. CASE gone = {}
    <3>1. CountAfter(b, at) = 0
      BY <2>1 DEF CountAfter
    <3>2. b \ gone = b
      BY <2>1
    <3> QED
      BY <3>1, <3>2, <1>3, <1>5
  <2>2. CASE gone # {}
    <3>1. PICK h \in gone : TRUE
      BY <2>2
    <3>2. gone = {h}
      BY <3>1, OneHit
    <3>3. CountAfter(b, at) = 1 /\ Weight(h) = 1
      BY <3>1, <1>2 DEF CountAfter, Weight
    <3>4. TableInv(b \ {h}, n, c - Weight(h))
      BY <3>1, <1>2, ClearTable
    <3> QED
      BY <3>2, <3>3, <3>4, <1>5 DEF TableInv
  <2> QED
    BY <2>1, <2>2
<1> QED
  BY <1>1, <1>3, <1>4, <1>6 DEF TableInv
----------------------------------------------------------------------------
(* The invariant holds at first.                                           *)
LEMMA InitIInv == Init => IInv
<1> SUFFICES ASSUME Init
             PROVE  IInv
  OBVIOUS
<1> USE DEF Init
<1>1. TypeOK
  BY ProgramAssumption DEF TypeOK, Modes, Reasons, Phases
<1>2. TableInv(bps, nextId, enabledCount)
  BY EmptyTable
<1>3. FastInv
  BY DEF FastInv
<1> QED
  BY <1>1, <1>2, <1>3 DEF IInv

(* What a request or a command of the monitor does to the table.           *)
LEMMA TableSteps ==
    ASSUME TableInv(bps, nextId, enabledCount),
           \/ \E at \in ExecAt \cup DataAt, ask \in Asks \cup {MonitorAsk} : Add(at, ask)
           \/ \E e \in bps : ClearId(e)
           \/ ClearAll
           \/ \E e \in bps, on \in BOOLEAN : SetEnabled(e, on)
    PROVE  TableInv(bps', nextId', enabledCount')
<1>1. CASE \E at \in ExecAt \cup DataAt, ask \in Asks \cup {MonitorAsk} : Add(at, ask)
  <2>1. PICK at \in ExecAt \cup DataAt, ask \in Asks \cup {MonitorAsk} : Add(at, ask)
    BY <1>1
  <2>2. CASE UNCHANGED table
    BY <2>2 DEF table
  <2>3. CASE ~UNCHANGED table
    <3> DEFINE e == [id |-> nextId, at |-> at, on |-> ask.on,
                     temporary |-> ask.temporary, ignore |-> ask.ignore]
    <3>1. ask \in [on : BOOLEAN, temporary : BOOLEAN, ignore : Nat]
      <4>1. CASE ask \in Asks
        BY <4>1, AsksAssumption
      <4>2. CASE ask = MonitorAsk
        BY <4>2 DEF MonitorAsk
      <4> QED
        BY <4>1, <4>2
    <3>2. e \in Entry /\ e.id = nextId
      BY <3>1 DEF Entry, TableInv
    <3>3. /\ bps' = bps \cup {e}
          /\ nextId' = nextId + 1
          /\ enabledCount' = enabledCount + Weight(e)
      BY <2>1, <2>3 DEF Add
    <3>4. TableInv(bps \cup {e}, nextId + 1, enabledCount + Weight(e))
      BY <3>2, AddTable
    <3> QED
      BY <3>3, <3>4
  <2> QED
    BY <2>2, <2>3
<1>2. CASE \E e \in bps : ClearId(e)
  BY <1>2, ClearTable DEF ClearId
<1>3. CASE ClearAll
  BY <1>3, EmptyTable DEF ClearAll, TableInv
<1>4. CASE \E e \in bps, on \in BOOLEAN : SetEnabled(e, on)
  BY <1>4, EnableTable DEF SetEnabled
<1> QED
  BY <1>1, <1>2, <1>3, <1>4

(* check_pre keeps the table.                                              *)
LEMMA PreKeeps ==
    ASSUME TableInv(bps, nextId, enabledCount)
    PROVE  TableInv(PreTable, nextId, PreCount)
<1>1. CASE PreLooks
  BY <1>1, ScanTable DEF PreTable, PreCount
<1>2. CASE ~PreLooks
  BY <1>2 DEF PreTable, PreCount
<1> QED
  BY <1>1, <1>2

(* Every step keeps the table.                                             *)
LEMMA NextTable ==
    ASSUME TableInv(bps, nextId, enabledCount), [Next]_vars
    PROVE  TableInv(bps', nextId', enabledCount')
<1>1. CASE UNCHANGED table
  BY <1>1 DEF table
<1>2. CASE MonitorTable
  BY <1>2, TableSteps DEF MonitorTable
<1>3. CASE BpRequest
  BY <1>3, TableSteps DEF BpRequest
<1>4. CASE ExecStop
  BY <1>4, PreKeeps DEF ExecStop
<1>5. CASE CheckedExecute
  <2>1. TableInv(PreTable, nextId, PreCount)
    BY PreKeeps
  <2>2. CASE PostLooks
    <3>1. TableInv(Scanned(PreTable, Touch[pc]), nextId,
                   PreCount - CountAfter(PreTable, Touch[pc]))
      BY <2>1, ScanTable
    <3> QED
      BY <3>1, <2>2, <1>5 DEF CheckedExecute
  <2>3. CASE ~PostLooks
    BY <2>1, <2>3, <1>5 DEF CheckedExecute
  <2> QED
    BY <2>2, <2>3
<1>6. CASE UNCHANGED vars
  BY <1>6, <1>1 DEF vars
<1>7. CASE Events
  <2>1. CASE ~MonitorTable
    BY <1>7, <2>1, <1>1 DEF Events, StepOne, ResumeKey, ToggleWindow, Resume,
       CloseWindow, StepOverCall, StepOverPlain, StepOut, MenuPause
  <2> QED
    BY <2>1, <1>2
<1>8. CASE Requests
  <2>1. CASE ~BpRequest
    BY <1>8, <2>1, <1>1 DEF Requests, Pause, Continue, StepInto, SetRegs,
       NoRequest
  <2> QED
    BY <2>1, <1>3
<1>9. CASE Frame
  <2>1. CASE ~ExecStop /\ ~CheckedExecute
    BY <1>9, <2>1, <1>1 DEF Frame, RunFrame, StepExecute, StepEnds,
       FrameEnds, FastExecute, StepOverArrives
  <2> QED
    BY <2>1, <1>4, <1>5
<1> QED
  BY <1>6, <1>7, <1>8, <1>9 DEF Next

(* The types of everything but the table.                                  *)
ControlOK ==
    /\ mode \in Modes /\ left \in Nat /\ reason \in Reasons
    /\ pc \in Pc
    /\ suppress \in Pc \cup {NoPc}
    /\ stepover \in Pc \cup {NoPc} /\ stepOut \in BOOLEAN
    /\ windowOpen \in BOOLEAN
    /\ phase \in Phases
    /\ standing \in Pc \cup {NoPc}
    /\ fresh \in BOOLEAN /\ asked \in BOOLEAN

(* Every step keeps them.                                                  *)
LEMMA NextControl ==
    ASSUME TypeOK, [Next]_vars
    PROVE  ControlOK'
<1> USE DEF Modes, Reasons, Phases
<1>1. CASE UNCHANGED vars
  BY <1>1 DEF TypeOK, ControlOK, vars, table, window, control, ghosts
<1>2. CASE Events
  <2> USE DEF TypeOK, ControlOK, Events
  <2>1. CASE StepOne
    BY <1>2, <2>1 DEF StepOne
  <2>2. CASE ResumeKey \/ ToggleWindow
    <3>1. ASSUME NEW open \in BOOLEAN, Resume(open)
          PROVE  ControlOK'
      BY <3>1 DEF Resume, Runs
    <3>2. CASE /\ ~windowOpen /\ windowOpen' = TRUE
               /\ UNCHANGED <<table, control, ghosts, pc, suppress, stepover,
                              stepOut, phase>>
      BY <3>2 DEF control, ghosts
    <3> QED
      BY <2>2, <3>1, <3>2 DEF ResumeKey, ToggleWindow
  <2>3. CASE CloseWindow
    <3>1. mode' \in Modes /\ left' \in Nat /\ fresh' \in BOOLEAN
      <4>1. \/ Runs /\ left' = 0
            \/ UNCHANGED <<mode, left, fresh>>
        BY <2>3 DEF CloseWindow
      <4>2. CASE Runs /\ left' = 0
        BY <4>2 DEF Runs
      <4>3. CASE UNCHANGED <<mode, left, fresh>>
        BY <4>3
      <4> QED
        BY <4>1, <4>2, <4>3
    <3>2. /\ windowOpen' = FALSE
          /\ UNCHANGED <<pc, suppress, reason, stepover, stepOut, phase,
                         standing, asked>>
      BY <2>3 DEF CloseWindow
    <3> QED
      BY <3>1, <3>2
  <2>4. CASE StepOverCall \/ StepOverPlain
    <3>1. Return[pc] \in Pc
      BY ProgramAssumption
    <3>2. CASE StepOverCall
      BY <3>1, <3>2 DEF StepOverCall, Runs
    <3>3. CASE StepOverPlain
      BY <3>3 DEF StepOverPlain
    <3> QED
      BY <2>4, <3>2, <3>3
  <2>5. CASE StepOut \/ MenuPause
    BY <1>2, <2>5 DEF StepOut, MenuPause, Runs, window
  <2>6. CASE MonitorTable
    BY <1>2, <2>6 DEF MonitorTable, window, control, ghosts
  <2> QED
    BY <1>2, <2>1, <2>2, <2>3, <2>4, <2>5, <2>6
<1>3. CASE Requests
  <2> USE DEF TypeOK, ControlOK
  <2>1. phase' = "run"
    BY <1>3 DEF Requests
  <2>2. CASE Pause
    BY <2>1, <2>2 DEF Pause, window, ghosts
  <2>3. CASE Continue
    BY <2>1, <2>3 DEF Continue, window
  <2>4. CASE StepInto
    BY <2>1, <2>4 DEF StepInto, window
  <2>5. CASE SetRegs
    BY <2>1, <2>5 DEF SetRegs, window, control
  <2>6. CASE BpRequest \/ NoRequest
    BY <2>1, <2>6 DEF BpRequest, NoRequest, window, control, ghosts
  <2> QED
    BY <1>3, <2>2, <2>3, <2>4, <2>5, <2>6 DEF Requests
<1>4. CASE Frame
  <2> USE DEF TypeOK, ControlOK
  <2>0. \A p \in Pc : Flow[p] \subseteq Pc
    BY ProgramAssumption
  <2>1. CASE RunFrame
    BY <2>1 DEF RunFrame, window, control, ghosts
  <2>2. CASE StepExecute
    <3>1. left - 1 \in Nat
      BY <2>2 DEF StepExecute
    <3> QED
      BY <2>0, <2>2, <3>1 DEF StepExecute, Executes, window
  <2>3. CASE StepEnds
    BY <2>3 DEF StepEnds, window
  <2>4. CASE FrameEnds
    BY <2>4 DEF FrameEnds, window, control, ghosts
  <2>5. CASE FastExecute
    BY <2>0, <2>5 DEF FastExecute, Executes, window, control
  <2>6. CASE StepOverArrives
    BY <2>6 DEF StepOverArrives, Stop
  <2>7. CASE ExecStop
    BY <2>7 DEF ExecStop, Stop, PreSuppress, window
  <2>8. CASE CheckedExecute
    <3>1. pc' \in Pc /\ fresh' = FALSE /\ standing' = NoPc
      BY <2>0, <2>8 DEF CheckedExecute, Executes
    <3>2. suppress' = NoPc
      BY <2>8 DEF CheckedExecute, RetiredSuppress
    <3>3. stepOut' \in BOOLEAN /\ stepover' = stepover /\ windowOpen' = windowOpen
      BY <2>8 DEF CheckedExecute
    <3>4. \/ Stop("step") \/ Stop("data") \/ Stop(reason)
          \/ UNCHANGED <<control, phase, asked>>
      BY <2>8 DEF CheckedExecute, After
    <3>5. /\ mode' \in Modes /\ left' \in Nat /\ reason' \in Reasons
          /\ phase' \in Phases /\ asked' \in BOOLEAN
      <4>1. ASSUME NEW r \in Reasons, Stop(r)
            PROVE  /\ mode' \in Modes /\ left' \in Nat /\ reason' \in Reasons
                   /\ phase' \in Phases /\ asked' \in BOOLEAN
        BY <4>1 DEF Stop
      <4>2. CASE UNCHANGED <<control, phase, asked>>
        BY <4>2 DEF control
      <4> QED
        BY <3>4, <4>1, <4>2
    <3> QED
      BY <3>1, <3>2, <3>3, <3>5
  <2> QED
    BY <1>4, <2>1, <2>2, <2>3, <2>4, <2>5, <2>6, <2>7, <2>8 DEF Frame
<1> QED
  BY <1>1, <1>2, <1>3, <1>4 DEF Next

(* A frame starts without checks only when nothing is enabled, and nothing *)
(* can be enabled before it ends.                                          *)
LEMMA NextFast ==
    ASSUME IInv, [Next]_vars
    PROVE  FastInv'
<1> SUFFICES ASSUME phase' = "fast"
             PROVE  enabledCount' = 0
  BY DEF FastInv
<1>1. enabledCount \in Nat
  BY DEF IInv, TypeOK
<1>2. CASE UNCHANGED vars
  BY <1>2 DEF IInv, FastInv, vars, table
<1>3. CASE Events
  BY <1>3 DEF Events, StepOne, ResumeKey, ToggleWindow, Resume, CloseWindow,
     StepOverCall, StepOverPlain, StepOut, MenuPause, MonitorTable
<1>4. CASE Requests
  BY <1>4 DEF Requests
<1>5. CASE RunFrame
  BY <1>1, <1>5 DEF RunFrame, NeedsChecks, table, IInv, TypeOK, Modes
<1>6. CASE FastExecute
  BY <1>6 DEF FastExecute, table, IInv, FastInv
<1>7. CASE StepExecute \/ StepEnds \/ FrameEnds
  BY <1>7 DEF StepExecute, StepEnds, FrameEnds
<1>8. CASE StepOverArrives \/ ExecStop
  BY <1>8 DEF StepOverArrives, ExecStop, Stop
<1>9. CASE CheckedExecute
  BY <1>9 DEF CheckedExecute, After, Stop
<1> QED
  BY <1>2, <1>3, <1>4, <1>5, <1>6, <1>7, <1>8, <1>9 DEF Next, Frame

(* Every step keeps the invariant.                                         *)
LEMMA NextIInv == IInv /\ [Next]_vars => IInv'
<1> SUFFICES ASSUME IInv, [Next]_vars
             PROVE  IInv'
  OBVIOUS
<1>1. TableInv(bps', nextId', enabledCount')
  BY NextTable DEF IInv
<1>2. bps' \subseteq Entry /\ nextId' \in Nat /\ enabledCount' \in Nat
  BY <1>1, CountType DEF TableInv
<1>3. TypeOK'
  BY <1>2, NextControl DEF IInv, TypeOK, ControlOK
<1>4. FastInv'
  BY NextFast
<1> QED
  BY <1>1, <1>3, <1>4 DEF IInv

(* The invariant holds in every reachable state.                           *)
THEOREM Invariance == Spec => []IInv
<1>1. Init => IInv
  BY InitIInv
<1>2. IInv /\ [Next]_vars => IInv'
  BY NextIInv
<1> QED
  BY <1>1, <1>2, PTL DEF Spec
----------------------------------------------------------------------------
(* enabled_count_ is the number of enabled breakpoints in every reachable  *)
(* state, for every program and every sequence of requests.                *)
THEOREM CountExact == Spec => []EnabledCountExact
<1>1. IInv => EnabledCountExact
  BY DEF IInv, TableInv, EnabledCountExact
<1> QED
  BY <1>1, Invariance, PTL

(* Every reachable state of execution control is well typed.               *)
THEOREM TypeCorrect == Spec => []TypeOK
<1>1. IInv => TypeOK
  BY DEF IInv
<1> QED
  BY <1>1, Invariance, PTL

(* A step past a due breakpoint uses up the suppression of its address.    *)
LEMMA StepNeverMisses ==
    ASSUME IInv, FastExecute \/ CheckedExecute, Due
    PROVE  suppress = pc /\ suppress' = NoPc
<1>1. PICK e \in Matching(bps, pc) : e.ignore = 0
  BY DEF Due
<1>2. e.id \in EnabledIds(bps)
  BY DEF Matching, EnabledIds
<1>3. enabledCount # 0
  BY <1>2, NoneEnabled DEF IInv
<1>4. CASE FastExecute
  BY <1>3, <1>4 DEF FastExecute, IInv, FastInv
<1>5. CASE CheckedExecute
  <2>1. Hits(bps, pc) # {}
    BY <1>1, DueHits DEF IInv
  <2>2. ~PreLooks
    BY <2>1, <1>5 DEF CheckedExecute, PreHits
  <2>3. suppress = pc
    BY <2>2, <1>3 DEF PreLooks, IInv, TypeOK
  <2>4. suppress' = NoPc
    BY <1>5 DEF CheckedExecute, RetiredSuppress
  <2> QED
    BY <2>3, <2>4
<1> QED
  BY <1>4, <1>5

(* For every program and every sequence of requests, an instruction with a *)
(* due EXEC breakpoint retires at full speed only under the suppression    *)
(* that a CONTINUE armed, and uses it up.                                  *)
THEOREM NoBreakpointMissed == Spec => NeverMissed
<1>1. IInv /\ [Next]_vars
        => [(FastExecute \/ CheckedExecute) /\ Due
              => suppress = pc /\ suppress' = NoPc]_vars
  BY StepNeverMisses
<1> QED
  BY <1>1, Invariance, PTL DEF Spec, NeverMissed
----------------------------------------------------------------------------
(* A CONTINUE that left a stop has suppressed the address the machine      *)
(* stands on, until it moves.                                              *)
FreshInv == fresh => suppress = pc

(* Only a move or a CONTINUE changes that, and both start it afresh.       *)
LEMMA NextFresh ==
    ASSUME TypeOK, FreshInv, [Next]_vars
    PROVE  FreshInv'
<1> SUFFICES ASSUME fresh'
             PROVE  suppress' = pc'
  BY DEF FreshInv
<1>1. CASE UNCHANGED <<fresh, suppress, pc>>
  BY <1>1 DEF FreshInv
<1>2. CASE fresh' = FALSE
  BY <1>2
<1>3. CASE Events
  <2>1. CASE MenuPause
    BY <2>1, <1>1, <1>2 DEF MenuPause, Runs
  <2>2. CASE CloseWindow
    BY <2>2, <1>1, <1>2 DEF CloseWindow, Runs
  <2>3. CASE StepOne \/ StepOverCall \/ StepOverPlain \/ StepOut
    BY <2>3, <1>1, <1>2 DEF StepOne, StepOverCall, StepOverPlain, StepOut, Runs
  <2>4. CASE ResumeKey \/ ToggleWindow \/ MonitorTable
    BY <2>4, <1>1, <1>2 DEF ResumeKey, ToggleWindow, Resume, Runs,
       MonitorTable, ghosts
  <2> QED
    BY <1>3, <2>1, <2>2, <2>3, <2>4 DEF Events
<1>4. CASE Requests
  <2>1. CASE Continue
    BY <2>1 DEF Continue, ArmsSuppress
  <2>2. CASE ~Continue
    BY <1>4, <2>2, <1>1, <1>2 DEF Requests, Pause, StepInto, SetRegs,
       BpRequest, NoRequest, ghosts
  <2> QED
    BY <2>1, <2>2
<1>5. CASE Frame
  <2>1. CASE ExecStop
    <3>1. PreLooks /\ suppress # pc
      BY <2>1 DEF ExecStop, PreHits, PreLooks
    <3> QED
      BY <2>1, <3>1 DEF ExecStop, FreshInv
  <2>2. CASE ~ExecStop
    BY <1>5, <2>2, <1>1, <1>2 DEF Frame, RunFrame, StepExecute, StepEnds,
       FrameEnds, FastExecute, StepOverArrives, CheckedExecute, Executes,
       ghosts
  <2> QED
    BY <2>1, <2>2
<1>6. CASE UNCHANGED vars
  BY <1>6, <1>1 DEF vars, ghosts
<1> QED
  BY <1>3, <1>4, <1>5, <1>6 DEF Next

(* Policy A: whatever else is asked for in between, after a CONTINUE that  *)
(* leaves a stop an instruction retires before an EXEC breakpoint stops    *)
(* the machine.                                                            *)
THEOREM StepsOff == Spec => PolicyA
<1>1. Init => FreshInv
  BY DEF Init, FreshInv
<1>2. TypeOK /\ FreshInv /\ [Next]_vars => FreshInv'
  BY NextFresh
<1>3. FreshInv /\ [Next]_vars => [ExecStop => ~fresh]_vars
  BY DEF FreshInv, ExecStop, PreHits, PreLooks
<1> QED
  BY <1>1, <1>2, <1>3, TypeCorrect, PTL DEF Spec, PolicyA

(* Stepping is entered with a count only by asking, and a stop clears it.  *)
LEMMA NextStopped ==
    ASSUME StoppedStays, [Next]_vars
    PROVE  StoppedStays'
<1> SUFFICES ASSUME mode' = "STEP_INTO", left' > 0
             PROVE  asked'
  BY DEF StoppedStays
<1>1. CASE UNCHANGED <<mode, left, asked>>
  BY <1>1 DEF StoppedStays
<1>2. CASE asked' = TRUE
  BY <1>2
<1>3. CASE Events
  BY <1>3, <1>1, <1>2 DEF Events, StepOne, ResumeKey, ToggleWindow, Resume,
     CloseWindow, StepOverCall, StepOverPlain, StepOut, MenuPause,
     MonitorTable, Runs, control, ghosts
<1>4. CASE Requests
  BY <1>4, <1>1, <1>2 DEF Requests, Pause, Continue, StepInto, SetRegs,
     BpRequest, NoRequest, control, ghosts
<1>5. CASE Frame
  <2>1. ASSUME NEW r, Stop(r)
        PROVE  FALSE
    BY <2>1 DEF Stop
  <2>2. CASE CheckedExecute
    BY <2>1, <2>2, <1>1 DEF CheckedExecute, After, control
  <2>3. CASE StepExecute
    BY <2>3 DEF StepExecute, StoppedStays
  <2>4. CASE StepEnds
    BY <2>4 DEF StepEnds
  <2>5. CASE StepOverArrives \/ ExecStop
    BY <2>1, <2>5 DEF StepOverArrives, ExecStop
  <2>6. CASE RunFrame \/ FrameEnds \/ FastExecute
    BY <2>6, <1>1 DEF RunFrame, FrameEnds, FastExecute, control, ghosts
  <2> QED
    BY <1>5, <2>2, <2>3, <2>4, <2>5, <2>6 DEF Frame
<1>6. CASE UNCHANGED vars
  BY <1>6, <1>1 DEF vars, control, ghosts
<1> QED
  BY <1>3, <1>4, <1>5, <1>6 DEF Next

(* A machine that stopped executes nothing until a step is asked for.      *)
THEOREM StaysStopped == Spec => []StoppedStays
<1>1. Init => StoppedStays
  BY DEF Init, StoppedStays
<1>2. StoppedStays /\ [Next]_vars => StoppedStays'
  BY NextStopped
<1> QED
  BY <1>1, <1>2, PTL DEF Spec
=============================================================================
