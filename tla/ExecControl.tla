---------------------------- MODULE ExecControl ----------------------------
(***************************************************************************)
(* Execution control: the run loop of gs2.cpp, execution_mode, the         *)
(* breakpoint table, and the three parties that drive them: the debug      *)
(* protocol's client, the debugger window and the Machine menu.            *)
(*                                                                         *)
(* All of it runs on the main thread.  One iteration of the application    *)
(* takes SDL events (phase "events"), then at most one request of the      *)
(* protocol client, then runs a frame: nothing when paused, a batch of     *)
(* instructions_left instructions when stepping, and otherwise             *)
(* instructions until the frame's cycles are used up or something stops    *)
(* it.  Cycles are abstracted: a frame may end before any instruction (a   *)
(* long batch leaves the clock several frames ahead).  The protocol server *)
(* is running, so every stop but the BRK catch sets g_last_stop_reason.    *)
(*                                                                         *)
(* entries_ is kept in the order of its ids, so the table is a set of      *)
(* entries with distinct ids and "scanned before" is "smaller id".  A data *)
(* or I/O entry is the access it matches; its address, mask, access and    *)
(* value filters are not told apart.                                       *)
(***************************************************************************)
EXTENDS Naturals, FiniteSets

CONSTANTS
    Pc,          \* the addresses of the guest's program
    Start,       \* where it is at first
    Op,          \* Op[p]: what the instruction at p is
    Flow,        \* Flow[p]: where it may go
    Return,      \* Return[p]: the address after a call at p
    Touch,       \* Touch[p]: the access the instruction at p makes
    ExecAt,      \* the addresses EXEC breakpoints are set on
    DataAt,      \* the accesses DATA and I/O breakpoints are set on
    NoPc,        \* stepover_bp == 0, suppress_exec_active_ == false
    MaxEntries,  \* BP_MAX_ENTRIES
    MaxIds,      \* breakpoints set in a run
    Asks,        \* the flags and ignore_count a BP_SET may ask for
    MaxStep      \* the largest STEP_INTO count asked for

Ops == {"plain", "call", "ret", "brk"}

ASSUME ProgramAssumption ==
    /\ Start \in Pc /\ NoPc \notin Pc
    /\ Op \in [Pc -> Ops]
    /\ Flow \in [Pc -> SUBSET Pc]
    /\ Return \in [Pc -> Pc]
    /\ ExecAt \subseteq Pc
    /\ ExecAt \cap DataAt = {}
    /\ \A p \in Pc : Touch[p] \notin ExecAt
ASSUME AsksAssumption ==
    Asks \subseteq [on : BOOLEAN, temporary : BOOLEAN, ignore : Nat]
ASSUME BoundAssumption ==
    MaxEntries \in Nat /\ MaxIds \in Nat /\ MaxStep \in Nat

VARIABLES
    mode,          \* execution_mode
    left,          \* instructions_left
    pc,            \* cpu->full_pc
    bps,           \* entries_
    nextId,        \* next_id_
    enabledCount,  \* enabled_count_
    suppress,      \* suppress_exec_pc_, or NoPc
    stepover,      \* stepover_bp
    stepOut,       \* step_out_active
    windowOpen,    \* window_open
    reason,        \* g_last_stop_reason
    phase,         \* where the iteration is
    \* what the properties remember
    standing,      \* where an EXEC stop left the machine, until it moves
    fresh,         \* a CONTINUE left a stop and nothing has moved since
    asked          \* a step was asked for since the last stop

table == <<bps, nextId, enabledCount>>
window == <<stepover, stepOut, windowOpen>>
control == <<mode, left, reason>>
ghosts == <<standing, fresh, asked>>
vars == <<table, window, control, ghosts, pc, suppress, phase>>

Modes == {"NORMAL", "STEP_INTO", "PAUSED"}
Reasons == {"none", "exec", "data", "step", "pause"}
Phases == {"events", "run", "step", "fast", "checked"}

(* kind and address: an EXEC entry is on an address of the program.        *)
Entry == [id : Nat, at : ExecAt \cup DataAt, on : BOOLEAN,
          temporary : BOOLEAN, ignore : Nat]

Init ==
    /\ mode = "NORMAL" /\ left = 0 /\ reason = "none"
    /\ pc = Start
    /\ bps = {} /\ nextId = 1 /\ enabledCount = 0
    /\ suppress = NoPc
    /\ stepover = NoPc /\ stepOut = FALSE /\ windowOpen = FALSE
    /\ phase = "events"
    /\ standing = NoPc /\ fresh = FALSE /\ asked = FALSE
----------------------------------------------------------------------------
(* The breakpoint table.                                                   *)

Weight(e) == IF e.on THEN 1 ELSE 0

(* add: refused when the table is full.                                    *)
Add(at, ask) ==
    \/ Cardinality(bps) >= MaxEntries /\ UNCHANGED table
    \/ /\ Cardinality(bps) < MaxEntries /\ nextId <= MaxIds
       /\ LET e == [id |-> nextId, at |-> at, on |-> ask.on,
                    temporary |-> ask.temporary, ignore |-> ask.ignore]
          IN  /\ bps' = bps \cup {e}
              /\ nextId' = nextId + 1
              /\ enabledCount' = enabledCount + Weight(e)

ClearId(e) ==
    /\ bps' = bps \ {e}
    /\ enabledCount' = enabledCount - Weight(e)
    /\ UNCHANGED nextId

ClearAll ==
    /\ bps' = {} /\ enabledCount' = 0
    /\ UNCHANGED nextId

SetEnabledBlind(e, on) ==
    /\ bps' = (bps \ {e}) \cup {[e EXCEPT !.on = on]}
    /\ enabledCount' = IF on THEN enabledCount + 1 ELSE enabledCount - 1
    /\ UNCHANGED nextId

(* The count changes only when the flag does.                              *)
SetEnabled(e, on) ==
    /\ bps' = (bps \ {e}) \cup {[e EXCEPT !.on = on]}
    /\ enabledCount' = (enabledCount - Weight(e)) + (IF on THEN 1 ELSE 0)
    /\ UNCHANGED nextId

Matching(b, at) == {e \in b : e.on /\ e.at = at}

(* The entry a scan stops at: the first one that matches with its          *)
(* ignore_count used up.                                                   *)
Hits(b, at) ==
    {e \in Matching(b, at) :
        /\ e.ignore = 0
        /\ \A f \in Matching(b, at) : f.id < e.id => f.ignore > 0}

(* Every match the scan passes counts down, and a temporary entry is       *)
(* cleared by the hit that stops.                                          *)
Passed(b, at) ==
    {e \in Matching(b, at) :
        /\ e.ignore > 0
        /\ \A h \in Hits(b, at) : e.id < h.id}

Scanned(b, at) ==
    (b \ (Passed(b, at) \cup {h \in Hits(b, at) : h.temporary}))
        \cup {[e EXCEPT !.ignore = @ - 1] : e \in Passed(b, at)}

CountAfterForgotten(b, at) == 0

(* maybe_hit clears a temporary entry through clear_id, which counts it.   *)
CountAfter(b, at) ==
    IF \E h \in Hits(b, at) : h.temporary THEN 1 ELSE 0

(* check_pre looks only when something is enabled, and not at the          *)
(* suppressed address.                                                     *)
PreLooks == enabledCount > 0 /\ suppress # pc

(* check_pre clears a suppression of another address.                      *)
PreSuppress == IF PreLooks THEN NoPc ELSE suppress

RetiredSuppressIfLeft(s, next) == IF next = s THEN s ELSE NoPc

(* on_instruction_retired ends the suppression whatever retired.           *)
RetiredSuppress(s, next) == NoPc
----------------------------------------------------------------------------
(* Stops.                                                                  *)

StopKeepsLeft(r) ==
    /\ mode' = "STEP_INTO" /\ left' = left /\ reason' = r
    /\ phase' = "events" /\ asked' = FALSE

Stop(r) ==
    /\ mode' = "STEP_INTO" /\ left' = 0 /\ reason' = r
    /\ phase' = "events" /\ asked' = FALSE

(* execute_next: an instruction retires; where it leads is up to Flow.     *)
Executes ==
    /\ pc' \in Flow[pc]
    /\ fresh' = FALSE /\ standing' = NoPc
----------------------------------------------------------------------------
(* Events: the debugger window and the Machine menu.                       *)

Runs == mode' = "NORMAL" /\ fresh' = FALSE

StepOne ==
    /\ windowOpen
    /\ mode' = "STEP_INTO" /\ left' = 1 /\ stepover' = NoPc
    /\ asked' = TRUE
    /\ UNCHANGED <<table, pc, suppress, reason, stepOut, windowOpen,
                   phase, standing, fresh>>

Resume(open) ==
    /\ Runs /\ left' = 0 /\ stepover' = NoPc
    /\ windowOpen' = open
    /\ UNCHANGED <<table, pc, suppress, reason, stepOut, phase,
                   standing, asked>>

ResumeKey == windowOpen /\ Resume(TRUE)

(* F10 closes the window and resumes, or opens it.                         *)
ToggleWindow ==
    \/ windowOpen /\ Resume(FALSE)
    \/ /\ ~windowOpen /\ windowOpen' = TRUE
       /\ UNCHANGED <<table, control, ghosts, pc, suppress, stepover,
                      stepOut, phase>>

CloseWindow ==
    /\ windowOpen /\ windowOpen' = FALSE
    /\ IF mode = "STEP_INTO"
       THEN Runs /\ left' = 0
       ELSE UNCHANGED <<mode, left, fresh>>
    /\ UNCHANGED <<table, pc, suppress, reason, stepover, stepOut,
                   phase, standing, asked>>

(* step_over leaves stepover_bp at the instruction itself when it is not a *)
(* call.                                                                   *)
StepOverCall ==
    /\ windowOpen /\ mode = "STEP_INTO" /\ Op[pc] = "call"
    /\ stepover' = Return[pc] /\ Runs
    /\ UNCHANGED <<table, pc, suppress, left, reason, stepOut,
                   windowOpen, phase, standing, asked>>

StepOverPlain ==
    /\ windowOpen /\ mode = "STEP_INTO" /\ Op[pc] # "call"
    /\ stepover' = pc /\ left' = 1 /\ asked' = TRUE
    /\ UNCHANGED <<table, pc, suppress, mode, reason, stepOut,
                   windowOpen, phase, standing, fresh>>

StepOut ==
    /\ windowOpen /\ mode = "STEP_INTO"
    /\ stepOut' = TRUE /\ Runs
    /\ UNCHANGED <<table, pc, suppress, left, reason, stepover,
                   windowOpen, phase, standing, asked>>

MenuPause ==
    /\ IF mode = "PAUSED"
       THEN Runs
       ELSE mode' = "PAUSED" /\ UNCHANGED <<fresh>>
    /\ UNCHANGED <<table, window, pc, suppress, left, reason, phase,
                   standing, asked>>

(* The monitor's bp, bpd, bpi and nobp.                                    *)
MonitorAsk == [on |-> TRUE, temporary |-> FALSE, ignore |-> 0]

MonitorTable ==
    /\ windowOpen
    /\ \/ \E a \in ExecAt \cup DataAt : Add(a, MonitorAsk)
       \/ \E e \in bps : ClearId(e)
    /\ UNCHANGED <<window, control, ghosts, pc, suppress, phase>>

Events ==
    /\ phase = "events"
    /\ \/ StepOne \/ ResumeKey \/ ToggleWindow \/ CloseWindow
       \/ StepOverCall \/ StepOverPlain \/ StepOut
       \/ MenuPause \/ MonitorTable
----------------------------------------------------------------------------
(* Requests of the protocol client: process_main_thread takes at most one  *)
(* before the frame.                                                       *)

Pause ==
    /\ mode' = "PAUSED" /\ reason' = "pause"
    /\ UNCHANGED <<table, window, ghosts, pc, suppress, left>>

ArmsSuppressAtHit == reason = "exec"

(* Leaving a stop, the EXEC breakpoints at the address the machine stands  *)
(* on are suppressed.                                                      *)
ArmsSuppress == mode = "STEP_INTO" \/ reason = "exec"

Continue ==
    /\ mode' = "NORMAL" /\ reason' = "none"
    /\ suppress' = IF ArmsSuppress THEN pc ELSE suppress
    /\ fresh' = (mode = "STEP_INTO")
    /\ UNCHANGED <<table, window, pc, left, standing, asked>>

StepInto ==
    /\ \E n \in 1 .. MaxStep : left' = n
    /\ mode' = "STEP_INTO" /\ reason' = "none" /\ asked' = TRUE
    /\ UNCHANGED <<table, window, pc, suppress, standing, fresh>>

SetRegs ==
    /\ pc' \in Pc
    /\ fresh' = FALSE /\ standing' = NoPc
    /\ UNCHANGED <<table, window, control, suppress, asked>>

BpRequest ==
    /\ \/ \E a \in ExecAt \cup DataAt, ask \in Asks : Add(a, ask)
       \/ \E e \in bps : ClearId(e)
       \/ ClearAll
       \/ \E e \in bps, on \in BOOLEAN : SetEnabled(e, on)
    /\ UNCHANGED <<window, control, ghosts, pc, suppress>>

NoRequest == UNCHANGED <<table, window, control, ghosts, pc, suppress>>

Requests ==
    /\ phase = "events" /\ phase' = "run"
    /\ Pause \/ Continue \/ StepInto \/ SetRegs \/ BpRequest \/ NoRequest
----------------------------------------------------------------------------
(* A frame.  Whether it looks at breakpoints is decided when it starts.    *)

NeedsChecks ==
    windowOpen \/ stepover # NoPc \/ stepOut \/ enabledCount > 0

RunFrame ==
    /\ phase = "run"
    /\ phase' = CASE mode = "PAUSED" -> "events"
                  [] mode = "STEP_INTO" -> IF left > 0 THEN "step" ELSE "events"
                  [] mode = "NORMAL" -> IF NeedsChecks THEN "checked" ELSE "fast"
    /\ UNCHANGED <<table, window, control, ghosts, pc, suppress>>

(* Stepping looks at no breakpoint and retires no suppression.             *)
StepExecute ==
    /\ phase = "step" /\ left > 0
    /\ Executes /\ left' = left - 1
    /\ UNCHANGED <<table, window, mode, reason, suppress, phase,
                   asked>>

(* emit_stopped_step reports the batch.                                    *)
StepEnds ==
    /\ phase = "step" /\ left = 0
    /\ reason' = "step" /\ asked' = FALSE
    /\ phase' = "events"
    /\ UNCHANGED <<table, window, mode, left, pc, suppress, standing,
                   fresh>>

FrameEnds ==
    /\ phase \in {"fast", "checked"} /\ phase' = "events"
    /\ UNCHANGED <<table, window, control, ghosts, pc, suppress>>

FastExecute ==
    /\ phase = "fast"
    /\ Executes
    /\ UNCHANGED <<table, window, control, suppress, phase, asked>>

(* check_pre_breakpoint: the step-over target is looked at first.          *)
StepOverArrives ==
    /\ phase = "checked" /\ stepover = pc
    /\ stepover' = NoPc /\ Stop("step")
    /\ UNCHANGED <<table, pc, suppress, stepOut, windowOpen, standing,
                   fresh>>

(* The entries left, and their count, after check_pre.                     *)
PreTable == IF PreLooks THEN Scanned(bps, pc) ELSE bps
PreHits == IF PreLooks THEN Hits(bps, pc) ELSE {}
PreCount ==
    IF PreLooks THEN enabledCount - CountAfter(bps, pc)
    ELSE enabledCount

ExecStop ==
    /\ phase = "checked" /\ stepover # pc
    /\ PreHits # {}
    /\ bps' = PreTable /\ enabledCount' = PreCount /\ suppress' = PreSuppress
    /\ Stop("exec") /\ standing' = pc
    /\ UNCHANGED <<nextId, window, pc, fresh>>

(* check_post_breakpoint and the BRK catch, after the instruction: a step  *)
(* out that returns is reported before the table is looked at.             *)
Returned == stepOut /\ Op[pc] = "ret"

PostLooks == ~Returned /\ PreCount > 0

After ==
    CASE Returned -> Stop("step")
      [] PostLooks /\ Hits(PreTable, Touch[pc]) # {} -> Stop("data")
      [] OTHER -> IF Op[pc] = "brk" THEN Stop(reason)
                  ELSE UNCHANGED <<control, phase, asked>>

CheckedExecute ==
    /\ phase = "checked" /\ stepover # pc
    /\ PreHits = {}
    /\ Executes
    /\ suppress' = RetiredSuppress(PreSuppress, pc')
    /\ bps' = IF PostLooks THEN Scanned(PreTable, Touch[pc])
              ELSE PreTable
    /\ enabledCount' =
         IF PostLooks THEN PreCount - CountAfter(PreTable, Touch[pc])
         ELSE PreCount
    /\ stepOut' = (stepOut /\ ~Returned)
    /\ After
    /\ UNCHANGED <<nextId, stepover, windowOpen>>

Frame ==
    \/ RunFrame \/ StepExecute \/ StepEnds \/ FrameEnds \/ FastExecute
    \/ StepOverArrives \/ ExecStop \/ CheckedExecute

Next == Events \/ Requests \/ Frame

Spec == Init /\ [][Next]_vars
----------------------------------------------------------------------------
(* Properties.                                                             *)

(* Every variable has its type.                                            *)
TypeOK ==
    /\ mode \in Modes /\ left \in Nat /\ reason \in Reasons
    /\ pc \in Pc
    /\ bps \subseteq Entry /\ nextId \in Nat /\ enabledCount \in Nat
    /\ suppress \in Pc \cup {NoPc}
    /\ stepover \in Pc \cup {NoPc} /\ stepOut \in BOOLEAN
    /\ windowOpen \in BOOLEAN
    /\ phase \in Phases
    /\ standing \in Pc \cup {NoPc}
    /\ fresh \in BOOLEAN /\ asked \in BOOLEAN

EnabledIds(b) == {e.id : e \in {f \in b : f.on}}

(* enabled_count_ is the number of enabled entries: has_enabled() decides  *)
(* whether the run loop looks at breakpoints at all.                       *)
EnabledCountExact == enabledCount = Cardinality(EnabledIds(bps))

Due == \E e \in Matching(bps, pc) : e.ignore = 0

(* At full speed an instruction with an enabled EXEC breakpoint due on it  *)
(* retires only under the suppression a CONTINUE armed for that address,   *)
(* and uses it up: the fast loop never runs past a breakpoint, and a loop  *)
(* that comes back is stopped.                                             *)
NeverMissed ==
    [][(FastExecute \/ CheckedExecute) /\ Due
          => suppress = pc /\ suppress' = NoPc]_vars

(* Policy A: after a CONTINUE that leaves a stop, an instruction retires   *)
(* before an EXEC breakpoint stops the machine again.                      *)
PolicyA == [][ExecStop => ~fresh]_vars

(* A machine that stopped executes nothing until a step is asked for: a    *)
(* count left over from a step that PAUSE overtook is not run later.       *)
StoppedStays == mode = "STEP_INTO" /\ left > 0 => asked

(* However the machine is set running again, an EXEC stop at an address is *)
(* left before there is another one at that address.                       *)
LeavesBreakpoint == [][ExecStop => standing # pc]_vars
=============================================================================
