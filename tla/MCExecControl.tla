--------------------------- MODULE MCExecControl ---------------------------
(* A program of four instructions: a call, the loop it calls, which spins  *)
(* on itself or returns, and a BRK.                                        *)
EXTENDS ExecControl

MCPc == {"call", "spin", "ret", "brk"}
MCOp == [p \in MCPc |-> IF p = "spin" THEN "plain" ELSE p]
MCFlow == [p \in MCPc |->
    CASE p = "call" -> {"spin"}
      [] p = "spin" -> {"spin", "ret"}
      [] p = "ret"  -> {"brk"}
      [] p = "brk"  -> {"call"}]
MCReturn == [p \in MCPc |-> "brk"]
MCTouch == [p \in MCPc |-> IF p = "spin" THEN "io" ELSE "nothing"]
MCAsks == {[on |-> TRUE, temporary |-> TRUE, ignore |-> 0],
           [on |-> TRUE, temporary |-> FALSE, ignore |-> 1]}
=============================================================================
