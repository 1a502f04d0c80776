------------------------- MODULE DebugBridge_proofs -------------------------
(***************************************************************************)
(* What DebugProtocolServer's two threads guarantee, for any number of     *)
(* connections, requests and events.  Four invariants build on each other: *)
(*   BridgeInv   a request is in one place at a time, and the bridge is    *)
(*               taken exactly while the protocol thread waits for it;     *)
(*   WireInv     what each client was sent, and whose subscription it is;  *)
(*   SubInv      records name only a SUBSCRIBE that was executed;          *)
(*   StreamInv   a subscriber's records, sent and queued, and the counters *)
(*               account for each other.                                   *)
(***************************************************************************)
EXTENDS DebugBridge, SequenceTheorems, FiniteSetTheorems, FoldLemmas

Results == {"ok", "refused", "timeout", "busy", "aborted", "none"}
Pcs == {"accept", "accepted", "publish", "top", "poll", "reply", "flushQuit", "submit",
        "wait", "leave", "left", "done"}

(* What the clients, the thread and the bridge hold.                       *)
ClientType ==
    /\ conn \in [Conn -> {"new", "served", "over"}]
    /\ kind \in [Req -> AllKinds \cup {"none"}]
    /\ from \in [Req -> Conn \cup {NoConn}]
    /\ nreq \in 0 .. MaxReq

ThreadType ==
    /\ tpc \in Pcs
    /\ tpc \notin {"accept", "done"} => cur \in Conn
    /\ treq \in 0 .. MaxReq
    /\ tpc \in {"reply", "flushQuit", "submit", "wait"} => treq \in Req
    /\ tres \in Results /\ breply \in Results

HistoryType ==
    /\ execs \in [Req -> Nat]
    /\ outcome \in [Req -> Results \cup {"stopped"}]

Fresh(r) == outcome[r] = "none" /\ execs[r] = 0

(* A request is with the thread once it is read, and fresh until submitted.*)
RequestInv ==
    /\ \A r \in Req : r > nreq => Fresh(r)
    /\ treq # NoReq => treq <= nreq /\ from[treq] = cur
    /\ tpc \in {"accept", "accepted", "publish", "done"} => treq = NoReq
    /\ tpc \in {"submit", "flushQuit"} => Fresh(treq)
    /\ tpc = "reply" /\ AckedQuit => Fresh(treq) /\ tres = "ok"
    /\ tpc = "flushQuit" => AckedQuit

(* The bridge is taken exactly while the thread waits, by its request.     *)
WaitInv ==
    /\ pending => tpc = "wait"
    /\ tpc = "wait" => pending /\ breq = treq /\ outcome[treq] = "none"
    /\ tpc = "wait" /\ ~done => execs[treq] = 0
    /\ tpc = "wait" /\ done =>
          \/ breply \in {"ok", "refused"} /\ execs[treq] = 1
          \/ breply = "aborted" /\ execs[treq] = 0

BridgeInv == ClientType /\ ThreadType /\ HistoryType /\ RequestInv /\ WaitInv /\ ExecutedOnce

(* No request has been sent and the bridge is free.                        *)
LEMMA InitBridgeInv == Init => BridgeInv
<1> SUFFICES ASSUME Init PROVE BridgeInv
  OBVIOUS
<1> USE SizeAssumption
<1> USE DEF Init, Conn, Req, NoReq, NoConn
<1>1. ClientType /\ ThreadType /\ HistoryType
  BY DEF ClientType, ThreadType, HistoryType, AllKinds, Results, Pcs
<1>2. RequestInv
  BY DEF RequestInv, Fresh
<1>3. WaitInv
  BY DEF WaitInv
<1>4. ExecutedOnce
  BY DEF ExecutedOnce
<1> QED
  BY <1>1, <1>2, <1>3, <1>4 DEF BridgeInv

(* Every step of a client, of either thread or of stop() keeps a request   *)
(* in one place and the bridge with the thread that waits.                 *)
LEMMA NextBridgeInv == BridgeInv /\ [Next]_vars => BridgeInv'
<1> SUFFICES ASSUME BridgeInv, [Next]_vars PROVE BridgeInv'
  OBVIOUS
<1> USE SizeAssumption, KindsAssumption
<1> USE DEF BridgeInv, Fresh, AckedQuit, Malformed, Conn, Req, NoReq, NoConn, AllKinds, Results, Pcs,
            clientVars, threadVars, bridgeVars, agentVars, threadKeeps, mainKeeps, stopKeeps
<1>3. ASSUME NEW c \in Conn, HangUp(c) PROVE BridgeInv'
  BY <1>3 DEF HangUp, ClientType, ThreadType, HistoryType, RequestInv, WaitInv, ExecutedOnce
<1>4. ASSUME NEW c \in Conn, Accept(c) PROVE BridgeInv'
  BY <1>4 DEF Accept, ClientType, ThreadType, HistoryType, RequestInv, WaitInv, ExecutedOnce
<1>5. CASE AcceptFails
  BY <1>5 DEF AcceptFails, ClientType, ThreadType, HistoryType, RequestInv, WaitInv, ExecutedOnce
<1>6. CASE Accepted
  <2>1. ClientType'
    BY <1>6 DEF Accepted, ClientType
  <2>2. ThreadType'
    BY <1>6 DEF Accepted, ThreadType
  <2>3. HistoryType'
    BY <1>6 DEF Accepted, HistoryType
  <2>4. RequestInv'
    BY <1>6 DEF Accepted, RequestInv
  <2>5. WaitInv'
    BY <1>6 DEF Accepted, WaitInv
  <2>6. ExecutedOnce'
    BY <1>6 DEF Accepted, ExecutedOnce
  <2> QED
    BY <2>1, <2>2, <2>3, <2>4, <2>5, <2>6
<1>7. CASE Publish
  BY <1>7 DEF Publish, ClientType, ThreadType, HistoryType, RequestInv, WaitInv, ExecutedOnce
<1>8. CASE FlushTop
  <2>1. ClientType'
    BY <1>8 DEF FlushTop, FlushEvents, SendFrames, ClientType
  <2>2. ThreadType'
    <3>1. tpc = "top" /\ tpc' \in {"poll", "leave"}
      BY <1>8 DEF FlushTop, FlushEvents, SendFrames
    <3>2. treq' = 0 /\ tres' = "none" /\ UNCHANGED <<cur, breply>>
      BY <1>8 DEF FlushTop
    <3> QED
      BY <3>1, <3>2 DEF ThreadType
  <2>3. HistoryType'
    BY <1>8 DEF FlushTop, FlushEvents, SendFrames, HistoryType
  <2>4. RequestInv'
    BY <1>8 DEF FlushTop, FlushEvents, SendFrames, RequestInv
  <2>5. WaitInv'
    BY <1>8 DEF FlushTop, FlushEvents, SendFrames, WaitInv
  <2>6. ExecutedOnce'
    BY <1>8 DEF FlushTop, FlushEvents, SendFrames, ExecutedOnce
  <2> QED
    BY <2>1, <2>2, <2>3, <2>4, <2>5, <2>6
<1>9. CASE PollAgain
  BY <1>9 DEF PollAgain, ClientType, ThreadType, HistoryType, RequestInv, WaitInv, ExecutedOnce
<1>10. CASE PollHungUp
  BY <1>10 DEF PollHungUp, ClientType, ThreadType, HistoryType, RequestInv, WaitInv, ExecutedOnce
<1>11. CASE ReadRequest
  <2>1. PICK k \in Kinds :
          /\ Sends(k)
          /\ handshaked' = (handshaked \/ k = "hello")
          /\ tres' = IF Rejected(k) THEN "refused" ELSE "ok"
          /\ tpc' = IF Local(k) \/ k = "quit" THEN "reply" ELSE "submit"
    BY <1>11 DEF ReadRequest
  <2>2. /\ tpc = "poll" /\ cur \in Conn /\ tpc' \in {"reply", "submit"} /\ tres' \in {"refused", "ok"}
        /\ UNCHANGED <<conn, cur, pending, done, breq, breply, execs, outcome>>
    BY <1>11, <2>1 DEF ReadRequest, ThreadType
  <2>3. /\ nreq \in Nat /\ nreq + 1 \in Req /\ nreq' = nreq + 1 /\ treq' = nreq + 1
        /\ Fresh(nreq + 1)
        /\ from' = [from EXCEPT ![nreq + 1] = cur] /\ kind' = [kind EXCEPT ![nreq + 1] = k]
    BY <2>1 DEF Sends, ClientType, RequestInv
  <2>4. ClientType'
    BY <2>2, <2>3 DEF ClientType
  <2>5. ThreadType'
    BY <2>2, <2>3 DEF ThreadType
  <2>6. HistoryType' /\ ExecutedOnce'
    BY <2>2 DEF HistoryType, ExecutedOnce
  <2>7. RequestInv'
    <3>1. from'[treq'] = cur /\ kind'[treq'] = k
      BY <2>3 DEF ClientType
    <3>2. handshaked' /\ k = "quit" => tres' = "ok"
      BY <2>1 DEF Rejected
    <3> QED
      BY <2>2, <2>3, <3>1, <3>2 DEF RequestInv
  <2>8. WaitInv'
    BY <2>2 DEF WaitInv
  <2> QED
    BY <2>4, <2>5, <2>6, <2>7, <2>8
<1>12. CASE Reply
  <2>1. /\ tpc = "reply" /\ tpc' \in {"top", "flushQuit", "leave"}
        /\ tpc' = "flushQuit" => AckedQuit
        /\ UNCHANGED <<conn, kind, from, nreq, cur, handshaked, treq, tres, bridgeVars,
                       execs, outcome>>
    BY <1>12 DEF Reply, AfterReply, SendFrames
  <2>2. ClientType' /\ ThreadType' /\ HistoryType' /\ WaitInv' /\ ExecutedOnce'
    BY <2>1 DEF ClientType, ThreadType, HistoryType, WaitInv, ExecutedOnce
  <2>3. RequestInv'
    BY <2>1 DEF RequestInv
  <2> QED
    BY <2>2, <2>3
<1>13. CASE FlushQuit
  BY <1>13 DEF FlushQuit, FlushEvents, SendFrames, ClientType, ThreadType, HistoryType,
    RequestInv, WaitInv,
    ExecutedOnce
<1>14. CASE Submit
  <2>1. ClientType'
    BY <1>14 DEF Submit, FreeBridge, AfterBridge, ClientType
  <2>2. ThreadType'
    BY <1>14 DEF Submit, FreeBridge, AfterBridge, ThreadType
  <2>3. HistoryType'
    BY <1>14 DEF Submit, FreeBridge, AfterBridge, HistoryType
  <2>4. RequestInv'
    BY <1>14 DEF Submit, FreeBridge, AfterBridge, ClientType, RequestInv, WaitInv, HistoryType
  <2>5. WaitInv'
    BY <1>14 DEF Submit, FreeBridge, AfterBridge, RequestInv, WaitInv
  <2>6. ExecutedOnce'
    BY <1>14 DEF Submit, FreeBridge, AfterBridge, RequestInv, ExecutedOnce, HistoryType
  <2> QED
    BY <2>1, <2>2, <2>3, <2>4, <2>5, <2>6
<1>15. CASE Woken
  <2>1. ClientType'
    BY <1>15 DEF Woken, FreeBridge, AfterBridge, ClientType
  <2>2. ThreadType'
    BY <1>15 DEF Woken, FreeBridge, AfterBridge, ThreadType
  <2>3. HistoryType'
    BY <1>15 DEF Woken, FreeBridge, AfterBridge, WaitInv, HistoryType
  <2>4. RequestInv'
    BY <1>15 DEF Woken, FreeBridge, AfterBridge, ClientType, RequestInv
  <2>5. WaitInv'
    BY <1>15 DEF Woken, FreeBridge, AfterBridge, WaitInv
  <2>6. ExecutedOnce'
    BY <1>15 DEF Woken, FreeBridge, AfterBridge, WaitInv, ExecutedOnce
  <2> QED
    BY <2>1, <2>2, <2>3, <2>4, <2>5, <2>6
<1>16. CASE TimedOut
  <2>1. ClientType'
    BY <1>16 DEF TimedOut, FreeBridge, AfterBridge, ClientType
  <2>2. ThreadType'
    BY <1>16 DEF TimedOut, FreeBridge, AfterBridge, ThreadType
  <2>3. HistoryType'
    BY <1>16 DEF TimedOut, FreeBridge, AfterBridge, HistoryType
  <2>4. RequestInv'
    BY <1>16 DEF TimedOut, FreeBridge, AfterBridge, ClientType, RequestInv
  <2>5. WaitInv'
    BY <1>16 DEF TimedOut, FreeBridge, AfterBridge, WaitInv
  <2>6. ExecutedOnce'
    BY <1>16 DEF TimedOut, FreeBridge, AfterBridge, WaitInv, ExecutedOnce
  <2> QED
    BY <2>1, <2>2, <2>3, <2>4, <2>5, <2>6
<1>17. CASE WaitStopped
  <2>1. ClientType'
    BY <1>17 DEF WaitStopped, FreeBridge, AfterBridge, ClientType
  <2>2. ThreadType'
    BY <1>17 DEF WaitStopped, FreeBridge, AfterBridge, ThreadType
  <2>3. HistoryType'
    BY <1>17 DEF WaitStopped, FreeBridge, AfterBridge, HistoryType
  <2>4. RequestInv'
    BY <1>17 DEF WaitStopped, FreeBridge, AfterBridge, ClientType, RequestInv
  <2>5. WaitInv'
    BY <1>17 DEF WaitStopped, FreeBridge, AfterBridge, WaitInv
  <2>6. ExecutedOnce'
    BY <1>17 DEF WaitStopped, FreeBridge, AfterBridge, WaitInv, ExecutedOnce
  <2> QED
    BY <2>1, <2>2, <2>3, <2>4, <2>5, <2>6
<1>18. CASE LeaveDisarm
  BY <1>18 DEF LeaveDisarm, ClientType, ThreadType, HistoryType, RequestInv, WaitInv, ExecutedOnce
<1>19. CASE LeaveClose
  <2>1. ClientType'
    BY <1>19 DEF LeaveClose, ClientType
  <2>2. ThreadType'
    BY <1>19 DEF LeaveClose, ThreadType
  <2>3. HistoryType'
    BY <1>19 DEF LeaveClose, HistoryType
  <2>4. RequestInv'
    BY <1>19 DEF LeaveClose, RequestInv
  <2>5. WaitInv'
    BY <1>19 DEF LeaveClose, WaitInv
  <2>6. ExecutedOnce'
    BY <1>19 DEF LeaveClose, ExecutedOnce
  <2> QED
    BY <2>1, <2>2, <2>3, <2>4, <2>5, <2>6
<1>20. CASE ProcessDisconnect
  BY <1>20 DEF ProcessDisconnect, ClientType, ThreadType, HistoryType, RequestInv, WaitInv,
    ExecutedOnce
<1>21. CASE NothingToProcess
  BY <1>21 DEF NothingToProcess, ClientType, ThreadType, HistoryType, RequestInv, WaitInv,
    ExecutedOnce
<1>22. CASE ExecQuery
  BY <1>22 DEF ExecQuery, Executing, ClientType, ThreadType, HistoryType, RequestInv, WaitInv,
    ExecutedOnce
<1>23. CASE ExecPause \/ ExecContinue
  <2>1. /\ Executing("pause") \/ Executing("continue")
        /\ breply' = "ok"
    BY <1>23 DEF ExecPause, ExecContinue
  <2>2. CASE Executing("pause")
    BY <2>1, <2>2 DEF Executing, ClientType, ThreadType, HistoryType, RequestInv, WaitInv,
      ExecutedOnce
  <2>3. CASE Executing("continue")
    BY <2>1, <2>3 DEF Executing, ClientType, ThreadType, HistoryType, RequestInv, WaitInv,
      ExecutedOnce
  <2> QED
    BY <2>1, <2>2, <2>3
<1>24. CASE ExecOn
  BY <1>24 DEF ExecOn, Executing, ClientType, ThreadType, HistoryType, RequestInv, WaitInv,
    ExecutedOnce
<1>25. CASE ExecOff
  BY <1>25 DEF ExecOff, Executing, ClientType, ThreadType, HistoryType, RequestInv, WaitInv,
    ExecutedOnce
<1>26. CASE ExecQuit
  BY <1>26 DEF ExecQuit, Executing, ClientType, ThreadType, HistoryType, RequestInv, WaitInv,
    ExecutedOnce
<1>27. CASE EmitEnqueue
  BY <1>27 DEF EmitEnqueue, ClientType, ThreadType, HistoryType, RequestInv, WaitInv, ExecutedOnce
<1>28. CASE Stopping
  <2>1. CASE StopDisarm
    BY <2>1 DEF StopDisarm, ClientType, ThreadType, HistoryType, RequestInv, WaitInv, ExecutedOnce
  <2>2. CASE StopFlag
    BY <2>2 DEF StopFlag, ClientType, ThreadType, HistoryType, RequestInv, WaitInv, ExecutedOnce
  <2>3. CASE StopWake
    BY <2>3 DEF StopWake, ClientType, ThreadType, HistoryType, RequestInv, WaitInv, ExecutedOnce
  <2>4. CASE StopClient
    BY <2>4 DEF StopClient, ClientType, ThreadType, HistoryType, RequestInv, WaitInv, ExecutedOnce
  <2>5. CASE StopListen
    BY <2>5 DEF StopListen, ClientType, ThreadType, HistoryType, RequestInv, WaitInv, ExecutedOnce
  <2>6. CASE StopJoin
    BY <2>6 DEF StopJoin, ClientType, ThreadType, HistoryType, RequestInv, WaitInv, ExecutedOnce
  <2> QED
    BY <1>28, <2>1, <2>2, <2>3, <2>4, <2>5, <2>6 DEF Stopping
<1>29. CASE MachineStops
  BY <1>29 DEF MachineStops, ClientType, ThreadType, HistoryType, RequestInv, WaitInv,
    ExecutedOnce
<1>30. CASE EmitCheck
  BY <1>30 DEF EmitCheck, ClientType, ThreadType, HistoryType, RequestInv, WaitInv, ExecutedOnce
<1>31. CASE AppQuit
  BY <1>31 DEF AppQuit, ClientType, ThreadType, HistoryType, RequestInv, WaitInv, ExecutedOnce
<1>32. CASE UNCHANGED vars
  BY <1>32 DEF vars, ClientType, ThreadType, HistoryType, RequestInv, WaitInv, ExecutedOnce
<1> QED
  BY <1>3, <1>4, <1>5, <1>6, <1>7, <1>8, <1>9, <1>10, <1>11, <1>12, <1>13, <1>14,
    <1>15, <1>16, <1>17, <1>18, <1>19, <1>20, <1>21, <1>22, <1>23, <1>24, <1>25, <1>26, <1>27,
    <1>28, <1>29, <1>30, <1>31, <1>32 DEF Next, Client, Serve, Thread, Frame, Exec, Stopped

-----------------------------------------------------------------------------
(* What is queued and what the clients were sent.                          *)

Item == [what : {"state", "agent"}, by : 0 .. MaxReq, sub : 0 .. MaxReq, n : Int]
WireFrame == [type : {"EVENT"}, req : 0 .. MaxReq, item : Item]
         \cup [type : Results, req : Req, item : {<< >>}]

WireType ==
    /\ wire \in [Conn -> Seq(WireFrame)]
    /\ eventQueue \in Seq(Item)
    /\ sub \in 0 .. MaxReq
    /\ sequence \in Nat

(* The numbers of requests in the queue and on the streams.                *)
LEMMA WireElements ==
    ASSUME WireType
    PROVE  /\ Len(eventQueue) \in Nat
           /\ \A i \in 1 .. Len(eventQueue) :
                 /\ eventQueue[i] \in Item /\ eventQueue[i].by \in 0 .. MaxReq
                 /\ eventQueue[i].by # NoReq => eventQueue[i].by \in Req
           /\ \A c \in Conn :
                 /\ Len(wire[c]) \in Nat
                 /\ \A i \in 1 .. Len(wire[c]) :
                       /\ wire[c][i] \in WireFrame /\ wire[c][i].req \in 0 .. MaxReq
                       /\ wire[c][i].req # NoReq => wire[c][i].req \in Req
<1>1. /\ Len(eventQueue) \in Nat
      /\ \A i \in 1 .. Len(eventQueue) : eventQueue[i] \in Item
  BY LenProperties, ElementOfSeq DEF WireType
<1>2. \A x \in Item : x.by \in 0 .. MaxReq
  BY DEF Item
<1>3. \A c \in Conn : /\ Len(wire[c]) \in Nat
                      /\ \A i \in 1 .. Len(wire[c]) : wire[c][i] \in WireFrame
  BY LenProperties, ElementOfSeq DEF WireType
<1>4. \A f \in WireFrame : f.req \in 0 .. MaxReq
  BY SizeAssumption DEF WireFrame, Req
<1>5. \A r \in 0 .. MaxReq : r # NoReq => r \in Req
  BY SizeAssumption DEF Req, NoReq
<1> QED
  BY <1>1, <1>2, <1>3, <1>4, <1>5

(* The queue as frames.                                                    *)
LEMMA EventFramesType ==
    ASSUME WireType
    PROVE  /\ EventFrames \in Seq(WireFrame)
           /\ Len(EventFrames) = Len(eventQueue)
           /\ \A i \in 1 .. Len(eventQueue) :
                 /\ EventFrames[i] = EventFrame(eventQueue[i])
                 /\ EventFrames[i].type = "EVENT"
                 /\ EventFrames[i].req = eventQueue[i].by
                 /\ EventFrames[i].item = eventQueue[i]
<1>1. Len(eventQueue) \in Nat /\ \A i \in 1 .. Len(eventQueue) : eventQueue[i] \in Item
  BY LenProperties, ElementOfSeq DEF WireType
<1>2. \A x \in Item : EventFrame(x) \in WireFrame
  BY DEF EventFrame, WireFrame, Item
<1>3. EventFrames \in [1 .. Len(eventQueue) -> WireFrame]
  BY <1>1, <1>2 DEF EventFrames
<1>4. EventFrames \in Seq(WireFrame) /\ Len(EventFrames) = Len(eventQueue)
  BY <1>1, <1>3
<1> QED
  BY <1>1, <1>4 DEF EventFrames, EventFrame

(* write_full adds to the stream of the client served, whole or a prefix.  *)
LEMMA SendFramesGrows ==
    ASSUME WireType, cur \in Conn, NEW frames \in Seq(WireFrame), NEW then,
           SendFrames(frames, then)
    PROVE  /\ wire' \in [Conn -> Seq(WireFrame)]
           /\ \A c \in Conn : c # cur => wire'[c] = wire[c]
           /\ Len(wire[cur]) <= Len(wire'[cur])
           /\ \A i \in 1 .. Len(wire[cur]) : wire'[cur][i] = wire[cur][i]
           /\ \A i \in 1 .. Len(wire'[cur]) : i > Len(wire[cur]) =>
                 /\ i - Len(wire[cur]) \in 1 .. Len(frames)
                 /\ wire'[cur][i] = frames[i - Len(wire[cur])]
           /\ (tpc' = then /\ wire'[cur] = wire[cur] \o frames) \/ tpc' = "leave"
<1>1. wire[cur] \in Seq(WireFrame) /\ Len(frames) \in Nat
  BY LenProperties DEF WireType
<1>2. PICK n \in 0 .. Len(frames) : wire' = [wire EXCEPT ![cur] = @ \o SubSeq(frames, 1, n)]
  <2>1. CASE wire' = [wire EXCEPT ![cur] = @ \o frames]
    <3>1. SubSeq(frames, 1, Len(frames)) = frames
      BY <1>1, SubSeqFull
    <3>2. wire' = [wire EXCEPT ![cur] = @ \o SubSeq(frames, 1, Len(frames))]
      BY <2>1, <3>1, Zenon
    <3>3. Len(frames) \in 0 .. Len(frames)
      BY <1>1
    <3> QED
      BY <3>2, <3>3, Zenon
  <2>2. CASE \E n \in 0 .. Len(frames) : wire' = [wire EXCEPT ![cur] = @ \o SubSeq(frames, 1, n)]
    BY <2>2
  <2> QED
    BY <2>1, <2>2 DEF SendFrames
<1> DEFINE part == SubSeq(frames, 1, n)
<1>3. /\ part \in Seq(WireFrame) /\ Len(part) = n
      /\ \A i \in 1 .. n : part[i] = frames[i]
  <2>1. \A i \in 1 .. n : frames[i] \in WireFrame
    BY <1>1, ElementOfSeq
  <2> QED
    BY <2>1, SubSeqProperties
<1>4. wire'[cur] = wire[cur] \o part
  BY <1>2 DEF WireType
<1> HIDE DEF part
<1>5. /\ wire'[cur] \in Seq(WireFrame)
      /\ Len(wire'[cur]) = Len(wire[cur]) + n
      /\ \A i \in 1 .. Len(wire[cur]) + n :
            wire'[cur][i] = IF i <= Len(wire[cur]) THEN wire[cur][i]
                            ELSE part[i - Len(wire[cur])]
  <2> DEFINE w == wire[cur]
  <2>1. w \in Seq(WireFrame) /\ part \in Seq(WireFrame) /\ Len(part) = n /\ wire'[cur] = w \o part
    BY <1>1, <1>3, <1>4
  <2> HIDE DEF w
  <2>2. /\ w \o part \in Seq(WireFrame)
        /\ Len(w \o part) = Len(w) + Len(part)
        /\ \A i \in 1 .. Len(w) + Len(part) :
              (w \o part)[i] = IF i <= Len(w) THEN w[i] ELSE part[i - Len(w)]
    BY <2>1, ConcatProperties, Zenon
  <2> QED
    BY <2>1, <2>2, Zenon DEF w
<1>6. wire' \in [Conn -> Seq(WireFrame)] /\ \A c \in Conn : c # cur => wire'[c] = wire[c]
  BY <1>2, <1>4, <1>5 DEF WireType
<1>7. Len(wire[cur]) \in Nat
  BY <1>1, LenProperties
<1>8. (tpc' = then /\ wire'[cur] = wire[cur] \o frames) \/ tpc' = "leave"
  BY DEF SendFrames, WireType
<1>9. \A i \in 1 .. Len(wire'[cur]) : i > Len(wire[cur]) =>
         /\ i - Len(wire[cur]) \in 1 .. Len(frames)
         /\ wire'[cur][i] = frames[i - Len(wire[cur])]
  BY <1>1, <1>3, <1>5, <1>7
<1>10. /\ Len(wire[cur]) <= Len(wire'[cur])
       /\ \A i \in 1 .. Len(wire[cur]) : wire'[cur][i] = wire[cur][i]
  BY <1>5, <1>7
<1> QED
  BY <1>6, <1>8, <1>9, <1>10

(* SUBSCRIBE leaves the items that are not records.                        *)
LEMMA PurgedItems ==
    ASSUME WireType
    PROVE  Purged \in Seq({x \in Item : /\ ~IsAgent(x)
                                        /\ \E j \in 1 .. Len(eventQueue) : x = eventQueue[j]})
<1> DEFINE n == Len(eventQueue)
           G == {x \in Item : ~IsAgent(x) /\ \E j \in 1 .. n : x = eventQueue[j]}
           T == Seq(G)
           step == [i \in 1 .. n |-> [q \in T |-> IF IsAgent(eventQueue[i]) THEN q
                                                ELSE Append(q, eventQueue[i])]]
           After(k) == [i \in 0 .. n |-> IF i = 0 THEN << >>
                                        ELSE IF IsAgent(eventQueue[i]) THEN k[i - 1]
                                        ELSE Append(k[i - 1], eventQueue[i])]
           kept == CHOOSE k : k = After(k)
<1>1. n \in Nat /\ \A i \in 1 .. n : eventQueue[i] \in Item
  BY LenProperties, ElementOfSeq DEF WireType
<1>2. \A i \in 1 .. n : ~IsAgent(eventQueue[i]) => eventQueue[i] \in G
  BY <1>1
<1> HIDE DEF G
<1>3. << >> \in T /\ \A q \in T, x \in G : Append(q, x) \in T
  BY EmptySeq, AppendProperties
<1>4. step \in [1 .. n -> [T -> T]]
  BY <1>2, <1>3
<1>5. PICK f \in [0 .. n -> T] : f[0] = << >> /\ \A i \in 1 .. n : f[i] = step[i][f[i - 1]]
  <2> HIDE DEF T, step, n
  <2> QED
    BY <1>1, <1>3, <1>4, StepsExist
<1>6. f = After(f)
  <2>1. \A i \in 1 .. n : f[i] = After(f)[i]
    <3> SUFFICES ASSUME NEW i \in 1 .. n PROVE f[i] = After(f)[i]
      OBVIOUS
    <3>1. f[i - 1] \in T
      BY <1>1
    <3>2. f[i] = step[i][f[i - 1]]
      BY <1>5
    <3> QED
      BY <1>1, <3>1, <3>2
  <2>2. f[0] = After(f)[0]
    BY <1>1, <1>5
  <2>3. f = [i \in 0 .. n |-> f[i]] /\ After(f) = [i \in 0 .. n |-> After(f)[i]]
    OBVIOUS
  <2> HIDE DEF After
  <2>4. \A i \in 0 .. n : f[i] = After(f)[i]
    BY <1>1, <2>1, <2>2
  <2> QED
    BY <2>3, <2>4
<1>7. kept = After(kept)
  <2> HIDE DEF After
  <2> QED
    BY <1>6
<1> HIDE DEF kept
<1>8. 0 .. n \subseteq {i \in 0 .. n : kept[i] \in T}
  <2> DEFINE S == {i \in 0 .. n : kept[i] \in T}
  <2>1. 0 \in S
    BY <1>1, <1>3, <1>7
  <2>2. ASSUME NEW i \in 1 .. n, i - 1 \in S PROVE i \in S
    <3>1. kept[i] = IF IsAgent(eventQueue[i]) THEN kept[i - 1]
                    ELSE Append(kept[i - 1], eventQueue[i])
      <4>1. After(kept)[i] = IF IsAgent(eventQueue[i]) THEN kept[i - 1]
                             ELSE Append(kept[i - 1], eventQueue[i])
        BY <1>1
      <4> HIDE DEF After
      <4> QED
        BY <1>7, <4>1, Zenon
    <3>2. kept[i - 1] \in T
      BY <2>2
    <3>3. CASE IsAgent(eventQueue[i])
      BY <3>1, <3>2, <3>3
    <3>4. CASE ~IsAgent(eventQueue[i])
      <4>1. eventQueue[i] \in G
        BY <1>2, <3>4
      <4>2. Append(kept[i - 1], eventQueue[i]) \in T
        BY <1>3, <3>2, <4>1
      <4>3. kept[i] = Append(kept[i - 1], eventQueue[i])
        BY <3>1, <3>4, Zenon
      <4>4. kept[i] \in T
        BY <4>2, <4>3, Zenon
      <4> HIDE DEF T
      <4> QED
        BY <1>1, <4>4
    <3> QED
      BY <3>3, <3>4
  <2> HIDE DEF S
  <2>3. 0 .. n \subseteq S
    BY <1>1, <2>1, <2>2, CountUp
  <2> QED
    BY <2>3 DEF S
<1>9. Purged = kept[n]
  BY DEF Purged, kept
<1> QED
  BY <1>1, <1>8, <1>9 DEF G

(* A request comes from a client that was accepted.                        *)
ServedInv ==
    /\ \A r \in Req : r <= nreq => from[r] \in Conn /\ conn[from[r]] \in {"served", "over"}
    /\ tpc \notin {"accept", "done"} => conn[cur] = "served"

(* A subscription belongs to the client served, and ends before it does.   *)
AgentInv ==
    /\ sub <= nreq
    /\ agentSub => /\ installed /\ sub # NoReq /\ cur = from[sub]
                   /\ tpc \notin {"accept", "accepted", "publish", "left", "done"}

Acked(r) ==
    \E i \in 1 .. Len(wire[from[r]]) : wire[from[r]][i].req = r /\ wire[from[r]][i].type = "ok"

(* A QUIT is on its way to the main thread only after its answer.          *)
QuitInv ==
    tpc \in {"flushQuit", "submit", "wait"} /\ kind[treq] = "quit" => Acked(treq)

(* The events that name a request come from a PAUSE or a CONTINUE that was *)
(* executed, and none is sent before the reply to it.                      *)
Announcing == {"pause", "continue"}
QueueInv ==
    \A i \in 1 .. Len(eventQueue) : LET r == eventQueue[i].by IN
        r # NoReq => execs[r] > 0 /\ kind[r] \in Announcing
SentInv ==
    \A c \in Conn : \A i \in 1 .. Len(wire[c]) : LET r == wire[c][i].req IN
        wire[c][i].type = "EVENT" /\ r # NoReq =>
            /\ execs[r] > 0 /\ kind[r] \in Announcing
            /\ tpc \in {"reply", "flushQuit", "submit", "wait"} => r # treq

WireInv ==
    /\ WireType /\ ServedInv /\ AgentInv /\ QuitInv /\ QuitAcked
    /\ QueueInv /\ SentInv /\ EventsFollowReply

(* Nothing has been sent or queued.                                        *)
LEMMA InitWireInv == Init => WireInv
<1> SUFFICES ASSUME Init PROVE WireInv
  OBVIOUS
<1> USE SizeAssumption
<1> USE DEF Init, Conn, Req, NoReq, NoConn
<1>1. WireType
  <2>1. << >> \in Seq(WireFrame) /\ << >> \in Seq(Item)
    BY EmptySeq
  <2> QED
    BY <2>1 DEF WireType
<1>2. ServedInv /\ AgentInv
  BY DEF ServedInv, AgentInv
<1>3. QuitInv /\ QuitAcked
  BY DEF QuitInv, QuitAcked
<1>4. QueueInv /\ SentInv /\ EventsFollowReply
  BY DEF QueueInv, SentInv, EventsFollowReply
<1> QED
  BY <1>1, <1>2, <1>3, <1>4 DEF WireInv

(* What was acknowledged stays acknowledged: the streams only grow.        *)
LEMMA SendKeepsAcks ==
    ASSUME WireType, cur \in Conn, NEW frames \in Seq(WireFrame), NEW then,
           SendFrames(frames, then), UNCHANGED from,
           NEW r, from[r] \in Conn, Acked(r)
    PROVE  Acked(r)'
<1>1. PICK i \in 1 .. Len(wire[from[r]]) : wire[from[r]][i].req = r /\ wire[from[r]][i].type = "ok"
  BY DEF Acked
<1>2. wire[from[r]] \in Seq(WireFrame)
  BY DEF WireType
<1>3. /\ wire' \in [Conn -> Seq(WireFrame)]
      /\ \A c \in Conn : c # cur => wire'[c] = wire[c]
      /\ Len(wire[cur]) <= Len(wire'[cur])
      /\ \A j \in 1 .. Len(wire[cur]) : wire'[cur][j] = wire[cur][j]
  BY SendFramesGrows
<1>4. wire'[from[r]] \in Seq(WireFrame)
  BY <1>3
<1>5. Len(wire[from[r]]) \in Nat /\ Len(wire'[from[r]]) \in Nat
  BY <1>2, <1>4, LenProperties
<1>6. i \in 1 .. Len(wire'[from[r]]) /\ wire'[from[r]][i] = wire[from[r]][i]
  BY <1>1, <1>3, <1>5
<1> QED
  BY <1>1, <1>6 DEF Acked

(* A flush sends events of executed PAUSEs, behind what was sent before.   *)
LEMMA FlushSends ==
    ASSUME BridgeInv, WireInv, cur \in Conn, NEW then, FlushEvents(then),
           UNCHANGED <<conn, kind, from, execs>>
    PROVE  /\ wire' \in [Conn -> Seq(WireFrame)]
           /\ QuitAcked'
           /\ \A c \in Conn : \A i \in 1 .. Len(wire'[c]) :
                 LET r == wire'[c][i].req IN
                 wire'[c][i].type = "EVENT" /\ r # NoReq =>
                     /\ execs[r] > 0 /\ kind[r] \in Announcing
                     /\ \/ \E j \in 1 .. Len(wire[c]) : wire[c][j] = wire'[c][i]
                        \/ \E j \in 1 .. Len(eventQueue) : eventQueue[j].by = r
           /\ EventsFollowReply'
<1>1. WireType /\ SendFrames(EventFrames, then)
  BY DEF WireInv, FlushEvents
<1>2. /\ EventFrames \in Seq(WireFrame)
      /\ Len(EventFrames) = Len(eventQueue)
      /\ \A i \in 1 .. Len(eventQueue) :
            EventFrames[i].type = "EVENT" /\ EventFrames[i].req = eventQueue[i].by
  BY <1>1, EventFramesType
<1>3. /\ wire' \in [Conn -> Seq(WireFrame)]
      /\ \A c \in Conn : c # cur => wire'[c] = wire[c]
      /\ Len(wire[cur]) <= Len(wire'[cur])
      /\ \A i \in 1 .. Len(wire[cur]) : wire'[cur][i] = wire[cur][i]
      /\ \A i \in 1 .. Len(wire'[cur]) : i > Len(wire[cur]) =>
            /\ i - Len(wire[cur]) \in 1 .. Len(EventFrames)
            /\ wire'[cur][i] = EventFrames[i - Len(wire[cur])]
  BY <1>1, <1>2, SendFramesGrows
<1>4. \A c \in Conn : Len(wire[c]) \in Nat /\ Len(wire'[c]) \in Nat
  BY <1>1, <1>3, LenProperties DEF WireType
<1>5. QuitAcked'
  <2> SUFFICES ASSUME NEW r \in Req, kind[r] = "quit", execs[r] > 0, conn[from[r]] = "served"
               PROVE  Acked(r)'
    BY DEF QuitAcked, Acked
  <2>1. from[r] \in Conn /\ Acked(r)
    <3>1. r <= nreq
      BY SizeAssumption DEF BridgeInv, ClientType, RequestInv, Fresh, Req
    <3> QED
      BY <3>1 DEF WireInv, ServedInv, QuitAcked, Acked
  <2> QED
    BY <1>1, <1>2, <2>1, SendKeepsAcks
<1>6. \A c \in Conn : \A i \in 1 .. Len(wire'[c]) :
         \/ i <= Len(wire[c]) /\ wire'[c][i] = wire[c][i]
         \/ /\ i > Len(wire[c]) /\ wire'[c][i].type = "EVENT"
            /\ \E j \in 1 .. Len(eventQueue) : eventQueue[j].by = wire'[c][i].req
  <2> SUFFICES ASSUME NEW c \in Conn, NEW i \in 1 .. Len(wire'[c])
               PROVE  \/ i <= Len(wire[c]) /\ wire'[c][i] = wire[c][i]
                      \/ /\ i > Len(wire[c]) /\ wire'[c][i].type = "EVENT"
                         /\ \E j \in 1 .. Len(eventQueue) : eventQueue[j].by = wire'[c][i].req
    OBVIOUS
  <2>1. CASE i <= Len(wire[c])
    BY <1>3, <1>4, <2>1
  <2>2. CASE i > Len(wire[c])
    <3>1. c = cur
      BY <1>3, <1>4, <2>2
    <3> DEFINE j == i - Len(wire[cur])
    <3>2. j \in 1 .. Len(eventQueue) /\ wire'[c][i] = EventFrames[j]
      BY <1>2, <1>3, <2>2, <3>1
    <3> QED
      BY <1>2, <2>2, <3>2
  <2> QED
    BY <1>4, <2>1, <2>2
<1>7. \A c \in Conn : \A i \in 1 .. Len(wire'[c]) :
         LET r == wire'[c][i].req IN
         wire'[c][i].type = "EVENT" /\ r # NoReq =>
             /\ execs[r] > 0 /\ kind[r] \in Announcing
             /\ \/ \E j \in 1 .. Len(wire[c]) : wire[c][j] = wire'[c][i]
                \/ \E j \in 1 .. Len(eventQueue) : eventQueue[j].by = r
  <2>1. SentInv /\ QueueInv
    BY DEF WireInv
  <2>2. \A c \in Conn : \A i \in 1 .. Len(wire'[c]) : i <= Len(wire[c]) => i \in 1 .. Len(wire[c])
    BY <1>4
  <2> QED
    BY <1>6, <2>1, <2>2 DEF SentInv, QueueInv
<1>8. EventsFollowReply'
  <2> SUFFICES ASSUME NEW c \in Conn, NEW i \in 1 .. Len(wire'[c]), NEW j \in 1 .. Len(wire'[c]),
                      i < j, wire'[c][i].type = "EVENT", wire'[c][j].type # "EVENT"
               PROVE  wire'[c][i].req # wire'[c][j].req
    BY DEF EventsFollowReply
  <2>1. j <= Len(wire[c]) /\ i <= Len(wire[c])
    BY <1>4, <1>6
  <2>2. i \in 1 .. Len(wire[c]) /\ j \in 1 .. Len(wire[c])
    BY <1>4, <2>1
  <2>3. wire'[c][i] = wire[c][i] /\ wire'[c][j] = wire[c][j]
    BY <1>4, <1>6, <2>1
  <2> QED
    BY <2>2, <2>3 DEF WireInv, EventsFollowReply
<1> QED
  BY <1>3, <1>5, <1>7, <1>8

(* The main thread executes the request the thread waits for, for the      *)
(* first time.                                                             *)
LEMMA ExecutingFacts ==
    ASSUME BridgeInv, NEW k, Executing(k)
    PROVE  /\ tpc = "wait" /\ cur \in Conn /\ breq = treq
           /\ treq \in Req /\ treq <= nreq /\ from[treq] = cur /\ kind[treq] = k
           /\ execs[treq] = 0 /\ execs'[treq] = 1
           /\ \A r \in Req : r # treq => execs'[r] = execs[r]
           /\ \A r \in Req : execs[r] > 0 => r # treq /\ execs'[r] > 0
           /\ UNCHANGED <<conn, kind, from, nreq, wire, tpc, cur, treq>>
<1>1. pending /\ ~done /\ kind[breq] = k /\ execs' = [execs EXCEPT ![breq] = @ + 1]
  BY DEF Executing
<1>2. tpc = "wait" /\ breq = treq /\ cur \in Conn /\ treq \in Req /\ execs[treq] = 0
  BY <1>1 DEF BridgeInv, WaitInv, ThreadType
<1>3. treq <= nreq /\ from[treq] = cur
  BY <1>2, SizeAssumption DEF BridgeInv, RequestInv, Req, NoReq
<1>4. UNCHANGED <<conn, kind, from, nreq, wire, tpc, cur, treq>>
  BY DEF Executing, mainKeeps, threadVars
<1>5. execs'[treq] = 1 /\ \A r \in Req : r # treq => execs'[r] = execs[r]
  BY <1>1, <1>2 DEF BridgeInv, HistoryType
<1> QED
  BY <1>1, <1>2, <1>3, <1>4, <1>5

(* What event_mu_ guards, as a record of its four parts.                   *)
BacklogOf(q, k, l, y) == [queue |-> q, kept |-> k, lost |-> l, bytes |-> y]

(* An EVENT is queued last.                                                *)
LEMMA WithEventForm ==
    ASSUME NEW q, NEW k, NEW l, NEW y, NEW r
    PROVE  WithEvent(BacklogOf(q, k, l, y), r) = BacklogOf(Append(q, StateEvent(r)), k, l, y)
BY DEF WithEvent, BacklogOf

(* A record is dropped and counted, or queued last.                        *)
LEMMA WithRecordForm ==
    ASSUME NEW q, NEW k, NEW l, NEW y, NEW x, NEW fits
    PROVE  WithRecord(BacklogOf(q, k, l, y), x, fits) \in
               {BacklogOf(q, k, l + 1, y), BacklogOf(Append(q, x), k + 1, l, y + 1)}
BY DEF WithRecord, BacklogOf

(* What a record does to the queue.                                        *)
LEMMA WithRecordQueue ==
    ASSUME NEW x, NEW fits, BacklogBecomes(WithRecord(Backlog, x, fits))
    PROVE  eventQueue' \in {eventQueue, Append(eventQueue, x)}
<1>1. Backlog = BacklogOf(eventQueue, retained, dropped, queuedBytes)
  BY DEF Backlog, BacklogOf
<1>2. WithRecord(Backlog, x, fits) \in
          {BacklogOf(eventQueue, retained, dropped + 1, queuedBytes),
           BacklogOf(Append(eventQueue, x), retained + 1, dropped, queuedBytes + 1)}
  BY <1>1, WithRecordForm
<1> QED
  BY <1>2 DEF BacklogBecomes, BacklogOf

(* An EVENT is queued, and its record if there is a subscriber.            *)
LEMMA AnnouncedForm ==
    ASSUME NEW q, NEW k, NEW l, NEW y, NEW r, NEW n, NEW selected \in BOOLEAN
    PROVE  LET u == Append(q, StateEvent(r))
               b == Announced(BacklogOf(q, k, l, y), r, n, selected)
           IN  /\ ~selected => b = BacklogOf(u, k, l, y)
               /\ selected => b \in {BacklogOf(u, k, l + 1, y),
                                    BacklogOf(Append(u, AgentRecord(r, n)), k + 1, l, y + 1)}
<1>1. WithEvent(BacklogOf(q, k, l, y), r) = BacklogOf(Append(q, StateEvent(r)), k, l, y)
  BY WithEventForm
<1> QED
  BY <1>1, WithRecordForm DEF Announced

(* The queue u is q and then items that request r caused.                  *)
Extends(q, u, r) ==
    /\ u \in Seq(Item)
    /\ \A i \in 1 .. Len(u) :
          \/ i \in 1 .. Len(q) /\ u[i] = q[i]
          \/ u[i].by = r /\ u[i].sub \in {NoReq, sub}

LEMMA ExtendsAppend ==
    ASSUME NEW q, NEW u, NEW r, Extends(q, u, r),
           NEW x \in Item, x.by = r, x.sub \in {NoReq, sub}
    PROVE  Extends(q, Append(u, x), r)
<1>1. /\ Append(u, x) \in Seq(Item) /\ Len(Append(u, x)) = Len(u) + 1 /\ Len(u) \in Nat
      /\ Append(u, x)[Len(u) + 1] = x /\ \A i \in 1 .. Len(u) : Append(u, x)[i] = u[i]
  BY AppendProperties, LenProperties DEF Extends
<1>2. \A i \in 1 .. Len(u) + 1 : i \in 1 .. Len(u) \/ i = Len(u) + 1
  BY <1>1
<1> QED
  BY <1>1, <1>2 DEF Extends

LEMMA AnnouncedExtends ==
    ASSUME NEW q, NEW u, NEW k, NEW l, NEW y, NEW r \in 0 .. MaxReq, NEW n \in Int,
           NEW selected \in BOOLEAN, WireType, Extends(q, u, r)
    PROVE  \E v, k2, l2, y2 :
              /\ Announced(BacklogOf(u, k, l, y), r, n, selected) = BacklogOf(v, k2, l2, y2)
              /\ Extends(q, v, r)
<1> DEFINE e == StateEvent(r)
           x == AgentRecord(r, n)
<1>1. e \in Item /\ e.by = r /\ e.sub = NoReq /\ x \in Item /\ x.by = r /\ x.sub = sub
  BY SizeAssumption DEF StateEvent, AgentRecord, Item, WireType, NoReq
<1> HIDE DEF e, x
<1>2. Extends(q, Append(u, e), r)
  BY <1>1, ExtendsAppend
<1>3. Extends(q, Append(Append(u, e), x), r)
  BY <1>1, <1>2, ExtendsAppend
<1> QED
  BY <1>2, <1>3, AnnouncedForm DEF e, x

(* A queue extends itself.                                                 *)
LEMMA ExtendsSelf ==
    ASSUME WireType, NEW r PROVE Extends(eventQueue, eventQueue, r)
BY DEF Extends, WireType

(* What PAUSE and CONTINUE do to the queue.                                *)
LEMMA ExecAnnounces ==
    ASSUME WireType, ExecPause \/ ExecContinue, breq \in 0 .. MaxReq
    PROVE  /\ Extends(eventQueue, eventQueue', breq)
           /\ sequence' \in Nat /\ UNCHANGED <<sub, agentSub, installed>>
<1>1. UNCHANGED <<sub, agentSub, installed>>
  BY DEF ExecPause, ExecContinue
<1>2. sequence \in Nat /\ sequence \in Int /\ sequence + 1 \in Int /\ sequence + 1 \in Nat
      /\ sequence + 2 \in Nat
  BY DEF WireType
<1>3. sequence' \in {sequence, sequence + 1, sequence + 2}
  BY DEF ExecPause, ExecContinue
<1>4. ASSUME NEW q, NEW k, NEW l, NEW y, BacklogBecomes(BacklogOf(q, k, l, y))
      PROVE  eventQueue' = q
  BY <1>4 DEF BacklogBecomes, BacklogOf
<1>5. Backlog = BacklogOf(eventQueue, retained, dropped, queuedBytes)
  BY DEF Backlog, BacklogOf
<1>6. Extends(eventQueue, eventQueue, breq)
  BY ExtendsSelf
<1>7. CASE ExecContinue
  <2>1. PICK selected \in BOOLEAN :
            BacklogBecomes(Announced(Backlog, breq, sequence, selected))
    BY <1>7 DEF ExecContinue
  <2>2. PICK v, k2, l2, y2 :
            /\ Announced(Backlog, breq, sequence, selected) = BacklogOf(v, k2, l2, y2)
            /\ Extends(eventQueue, v, breq)
    BY <1>2, <1>5, <1>6, AnnouncedExtends
  <2>3. eventQueue' = v
    BY <1>4, <2>1, <2>2
  <2> QED
    BY <1>1, <1>2, <1>3, <2>2, <2>3
<1>8. CASE ExecPause
  <2>1. PICK selected \in BOOLEAN :
            BacklogBecomes(Announced(Announced(Backlog, breq, sequence, selected),
                                     breq, sequence + 1, selected))
    BY <1>8 DEF ExecPause
  <2>2. PICK u, k1, l1, y1 :
            /\ Announced(Backlog, breq, sequence, selected) = BacklogOf(u, k1, l1, y1)
            /\ Extends(eventQueue, u, breq)
    BY <1>2, <1>5, <1>6, AnnouncedExtends
  <2>3. PICK v, k2, l2, y2 :
            /\ Announced(BacklogOf(u, k1, l1, y1), breq, sequence + 1, selected)
                  = BacklogOf(v, k2, l2, y2)
            /\ Extends(eventQueue, v, breq)
    BY <1>2, <2>2, AnnouncedExtends
  <2>4. eventQueue' = v
    BY <1>4, <2>1, <2>2, <2>3
  <2> QED
    BY <1>1, <1>2, <1>3, <2>3, <2>4
<1> QED
  BY <1>7, <1>8

(* A step that sends, executes and queues nothing.                         *)
LEMMA WireQuiet ==
    ASSUME WireInv, UNCHANGED <<conn, wire, kind, from, execs, eventQueue, sub>>, sequence' \in Nat
    PROVE  /\ WireType' /\ QuitAcked' /\ QueueInv' /\ EventsFollowReply'
           /\ UNCHANGED <<nreq, tpc, cur, treq, agentSub, installed>> => WireInv'
<1>1. WireType'
  BY DEF WireInv, WireType
<1>2. QuitAcked' /\ EventsFollowReply'
  BY DEF WireInv, QuitAcked, EventsFollowReply
<1>3. QueueInv'
  BY DEF WireInv, QueueInv
<1>4. ASSUME UNCHANGED <<nreq, tpc, cur, treq, agentSub, installed>> PROVE WireInv'
  <2>1. ServedInv' /\ AgentInv'
    BY <1>4 DEF WireInv, ServedInv, AgentInv
  <2>2. QuitInv'
    BY <1>4 DEF WireInv, QuitInv, Acked
  <2>3. SentInv'
    BY <1>4 DEF WireInv, SentInv
  <2> QED
    BY <1>1, <1>2, <1>3, <2>1, <2>2, <2>3 DEF WireInv
<1> QED
  BY <1>1, <1>2, <1>3, <1>4

(* Every step keeps replies before the events they caused, acknowledges a  *)
(* QUIT before it is submitted, and keeps a subscription with its client.  *)
LEMMA NextWireInv == BridgeInv /\ WireInv /\ [Next]_vars => WireInv'
<1> SUFFICES ASSUME BridgeInv, WireInv, [Next]_vars PROVE WireInv'
  OBVIOUS
<1> USE SizeAssumption
<1> USE DEF WireInv, BridgeInv, Conn, Req, NoReq, NoConn,
            clientVars, threadVars, bridgeVars, agentVars, threadKeeps, mainKeeps, stopKeeps
<1>3. ASSUME NEW c \in Conn, HangUp(c) PROVE WireInv'
  BY <1>3, WireQuiet DEF HangUp, WireType
<1>4. ASSUME NEW c \in Conn, Accept(c) PROVE WireInv'
  <2>1. WireType' /\ AgentInv' /\ QuitInv' /\ QueueInv' /\ SentInv' /\ EventsFollowReply'
    BY <1>4 DEF Accept, WireType, AgentInv, QuitInv, QueueInv, SentInv, EventsFollowReply, Acked
  <2>2. ServedInv'
    BY <1>4 DEF Accept, ServedInv, ClientType
  <2>3. QuitAcked'
    <3>1. \A r \in Req : execs[r] > 0 => from[r] \in Conn /\ conn[from[r]] \in {"served", "over"}
      BY DEF RequestInv, Fresh, ClientType, ServedInv
    <3>2. \A d \in Conn : conn[d] \in {"served", "over"} /\ conn'[d] = "served" => conn[d] = "served"
      BY <1>4 DEF Accept, ClientType
    <3>3. UNCHANGED <<wire, kind, from, execs>>
      BY <1>4 DEF Accept
    <3> QED
      BY <3>1, <3>2, <3>3 DEF QuitAcked
  <2> QED
    BY <2>1, <2>2, <2>3
<1>5. CASE AcceptFails
  <2>1. WireType' /\ QuitAcked' /\ QueueInv' /\ EventsFollowReply'
    BY <1>5, WireQuiet DEF AcceptFails, WireType
  <2>2. ServedInv' /\ AgentInv'
    BY <1>5 DEF AcceptFails, ServedInv, AgentInv
  <2>3. QuitInv'
    BY <1>5 DEF AcceptFails, QuitInv, Acked
  <2>4. SentInv'
    BY <1>5 DEF AcceptFails, SentInv
  <2> QED
    BY <2>1, <2>2, <2>3, <2>4
<1>6. CASE Accepted
  <2>1. WireType' /\ AgentInv' /\ QuitInv' /\ QueueInv' /\ SentInv' /\ EventsFollowReply'
    BY <1>6 DEF Accepted, WireType, AgentInv, QuitInv, QueueInv, SentInv, EventsFollowReply, Acked
  <2>2. ServedInv'
    BY <1>6 DEF Accepted, ServedInv, ClientType, ThreadType
  <2>3. QuitAcked'
    <3>1. \A r \in Req : execs[r] > 0 => from[r] \in Conn /\ conn[from[r]] \in {"served", "over"}
      BY DEF RequestInv, Fresh, ClientType, ServedInv
    <3>2. \A d \in Conn : conn[d] \in {"served", "over"} /\ conn'[d] = "served" => conn[d] = "served"
      BY <1>6 DEF Accepted, ClientType
    <3>3. UNCHANGED <<wire, kind, from, execs>>
      BY <1>6 DEF Accepted
    <3> QED
      BY <3>1, <3>2, <3>3 DEF QuitAcked
  <2> QED
    BY <2>1, <2>2, <2>3
<1>7. CASE Publish
  <2>1. WireType' /\ QuitAcked' /\ QueueInv' /\ EventsFollowReply'
    BY <1>7, WireQuiet DEF Publish, WireType
  <2>2. ServedInv' /\ AgentInv'
    BY <1>7 DEF Publish, ServedInv, AgentInv
  <2>3. QuitInv'
    BY <1>7 DEF Publish, QuitInv, Acked
  <2>4. SentInv'
    BY <1>7 DEF Publish, SentInv
  <2> QED
    BY <2>1, <2>2, <2>3, <2>4
<1>8. CASE FlushTop
  <2>1. /\ cur \in Conn /\ tpc = "top" /\ FlushEvents("poll") /\ tpc' \in {"poll", "leave"}
        /\ eventQueue' = << >>
        /\ UNCHANGED <<conn, kind, from, nreq, cur, sub, sequence, agentSub, installed, execs>>
    BY <1>8 DEF FlushTop, FlushEvents, SendFrames, ThreadType
  <2>2. /\ wire' \in [Conn -> Seq(WireFrame)] /\ QuitAcked' /\ EventsFollowReply'
        /\ \A c \in Conn : \A i \in 1 .. Len(wire'[c]) : LET r == wire'[c][i].req IN
              wire'[c][i].type = "EVENT" /\ r # NoReq => execs[r] > 0 /\ kind[r] \in Announcing
    BY <2>1, FlushSends
  <2>3. ServedInv' /\ AgentInv' /\ QuitInv' /\ QueueInv'
    BY <2>1 DEF ServedInv, AgentInv, QuitInv, QueueInv
  <2>4. WireType'
    BY <2>1, <2>2, EmptySeq DEF WireType
  <2>5. SentInv'
    BY <2>1, <2>2 DEF SentInv
  <2> QED
    BY <2>2, <2>3, <2>4, <2>5
<1>9. CASE PollAgain
  <2>1. WireType' /\ QuitAcked' /\ QueueInv' /\ EventsFollowReply'
    BY <1>9, WireQuiet DEF PollAgain, WireType
  <2>2. ServedInv' /\ AgentInv'
    BY <1>9 DEF PollAgain, ServedInv, AgentInv
  <2>3. QuitInv'
    BY <1>9 DEF PollAgain, QuitInv, Acked
  <2>4. SentInv'
    BY <1>9 DEF PollAgain, SentInv
  <2> QED
    BY <2>1, <2>2, <2>3, <2>4
<1>10. CASE PollHungUp
  <2>1. WireType' /\ QuitAcked' /\ QueueInv' /\ EventsFollowReply'
    BY <1>10, WireQuiet DEF PollHungUp, WireType
  <2>2. ServedInv' /\ AgentInv'
    BY <1>10 DEF PollHungUp, ServedInv, AgentInv
  <2>3. QuitInv'
    BY <1>10 DEF PollHungUp, QuitInv, Acked
  <2>4. SentInv'
    BY <1>10 DEF PollHungUp, SentInv
  <2> QED
    BY <2>1, <2>2, <2>3, <2>4
<1>11. CASE ReadRequest
  <2>1. /\ tpc = "poll" /\ cur \in Conn /\ conn[cur] = "served"
        /\ nreq + 1 \in Req /\ nreq' = nreq + 1 /\ treq' = nreq + 1
        /\ from' = [from EXCEPT ![nreq + 1] = cur]
        /\ tpc' \in {"reply", "submit"} /\ (kind'[nreq + 1] = "quit" => tpc' = "reply")
        /\ UNCHANGED <<conn, wire, cur, eventQueue, sub, sequence, agentSub, installed, execs>>
    BY <1>11 DEF ReadRequest, Sends, ClientType, ThreadType, ServedInv
  <2>2. \A r \in Req : r # nreq + 1 => kind'[r] = kind[r] /\ from'[r] = from[r]
    BY <1>11 DEF ReadRequest, Sends, ClientType
  <2>3. /\ execs[nreq + 1] = 0 /\ nreq \in Nat
        /\ \A r \in Req : execs[r] > 0 => r # nreq + 1
    BY <2>1 DEF RequestInv, Fresh, ClientType, ThreadType
  <2>4. WireType' /\ EventsFollowReply'
    <3>1. WireType'
      BY <2>1 DEF WireType
    <3>2. EventsFollowReply'
      BY <2>1, Zenon DEF EventsFollowReply
    <3> QED
      BY <3>1, <3>2
  <2>5. ServedInv'
    <3>1. \A r \in Req : r <= nreq' => from'[r] \in Conn /\ conn[from'[r]] \in {"served", "over"}
      <4> SUFFICES ASSUME NEW r \in Req, r <= nreq'
                   PROVE  from'[r] \in Conn /\ conn[from'[r]] \in {"served", "over"}
        OBVIOUS
      <4>1. CASE r = nreq + 1
        BY <2>1, <4>1 DEF ClientType
      <4>2. CASE r # nreq + 1
        BY <2>1, <2>2, <2>3, <4>2 DEF ServedInv
      <4> QED
        BY <4>1, <4>2
    <3> QED
      BY <2>1, <3>1 DEF ServedInv
  <2>6. AgentInv'
    BY <2>1, <2>2, <2>3 DEF AgentInv, WireType
  <2>7. QuitInv'
    BY <2>1, <2>2, <2>3 DEF QuitInv, Acked, ThreadType
  <2>8. QuitAcked'
    BY <2>1, <2>2, <2>3 DEF QuitAcked
  <2>9. QueueInv'
    <3>1. \A i \in 1 .. Len(eventQueue) : eventQueue[i].by \in 0 .. MaxReq
      BY WireElements
    <3> QED
      BY <2>1, <2>2, <2>3, <3>1 DEF QueueInv, Announcing
  <2>10. SentInv'
    <3>1. \A d \in Conn : \A i \in 1 .. Len(wire[d]) : wire[d][i].req \in 0 .. MaxReq
      BY WireElements
    <3>2. \A d \in Conn : \A i \in 1 .. Len(wire[d]) : LET r == wire[d][i].req IN
             wire[d][i].type = "EVENT" /\ r # NoReq =>
                 /\ r \in Req /\ execs[r] > 0 /\ kind[r] \in Announcing /\ kind'[r] = kind[r]
                 /\ r # nreq + 1
      <4>1. \A d \in Conn : \A i \in 1 .. Len(wire[d]) :
               wire[d][i].req # NoReq => wire[d][i].req \in Req
        BY <3>1
      <4> QED
        BY <2>2, <2>3, <4>1 DEF SentInv
    <3> QED
      BY <2>1, <3>2 DEF SentInv
  <2> QED
    BY <2>4, <2>5, <2>6, <2>7, <2>8, <2>9, <2>10
<1>12. CASE Reply
  <2> DEFINE frame == ReplyFrame(treq, tres)
             then == AfterReply
  <2>1. /\ cur \in Conn /\ tpc = "reply" /\ treq \in Req /\ tres \in Results
        /\ from[treq] = cur /\ treq <= nreq /\ SendFrames(<<frame>>, then)
        /\ UNCHANGED <<conn, kind, from, nreq, cur, treq, sub, sequence, agentSub, installed,
                       execs, eventQueue>>
    BY <1>12 DEF Reply, ThreadType, RequestInv
  <2>2. /\ frame \in WireFrame /\ frame.req = treq /\ frame.type = tres /\ tres # "EVENT"
        /\ <<frame>> \in Seq(WireFrame) /\ Len(<<frame>>) = 1 /\ <<frame>>[1] = frame
    BY <2>1 DEF ReplyFrame, WireFrame, Results
  <2> HIDE DEF frame, then
  <2>3. /\ wire' \in [Conn -> Seq(WireFrame)]
        /\ \A c \in Conn : c # cur => wire'[c] = wire[c]
        /\ Len(wire[cur]) <= Len(wire'[cur])
        /\ \A i \in 1 .. Len(wire[cur]) : wire'[cur][i] = wire[cur][i]
        /\ \A i \in 1 .. Len(wire'[cur]) : i > Len(wire[cur]) =>
              /\ i - Len(wire[cur]) \in 1 .. Len(<<frame>>)
              /\ wire'[cur][i] = <<frame>>[i - Len(wire[cur])]
        /\ (tpc' = then /\ wire'[cur] = wire[cur] \o <<frame>>) \/ tpc' = "leave"
    BY <2>1, <2>2, SendFramesGrows
  <2>4. \A c \in Conn : Len(wire[c]) \in Nat /\ Len(wire'[c]) \in Nat
    BY <2>3, LenProperties DEF WireType
  <2>5. \A c \in Conn : \A i \in 1 .. Len(wire'[c]) :
           \/ i <= Len(wire[c]) /\ wire'[c][i] = wire[c][i]
           \/ c = cur /\ i = Len(wire[c]) + 1 /\ wire'[c][i] = frame
    <3> SUFFICES ASSUME NEW c \in Conn, NEW i \in 1 .. Len(wire'[c]), ~(i <= Len(wire[c]))
                 PROVE  c = cur /\ i = Len(wire[c]) + 1 /\ wire'[c][i] = frame
      BY <2>3, <2>4, SMTT(30)
    <3>1. c = cur /\ i > Len(wire[cur])
      BY <2>3, <2>4
    <3>2. i - Len(wire[cur]) = 1
      BY <2>2, <2>3, <2>4, <3>1
    <3> QED
      BY <2>2, <2>3, <2>4, <3>1, <3>2
  <2>6. WireType' /\ ServedInv' /\ AgentInv' /\ QueueInv'
    <3>1. tpc' \notin {"accept", "accepted", "publish", "left", "done"}
      BY <2>3 DEF then, AfterReply
    <3> QED
      BY <2>1, <2>3, <3>1 DEF WireType, ServedInv, AgentInv, QueueInv
  <2>7. QuitAcked'
    <3> SUFFICES ASSUME NEW r \in Req, kind[r] = "quit", execs[r] > 0, conn[from[r]] = "served"
               PROVE  Acked(r)'
      BY <2>1 DEF QuitAcked, Acked
    <3>1. r <= nreq
      BY DEF RequestInv, Fresh, ClientType
    <3>2. from[r] \in Conn /\ Acked(r)
      BY <3>1 DEF ServedInv, QuitAcked, Acked
    <3> QED
      BY <2>1, <2>2, <3>2, SendKeepsAcks
  <2>8. QuitInv'
    <3> SUFFICES ASSUME tpc' = "flushQuit" PROVE Acked(treq)'
      BY <2>1, <2>3 DEF QuitInv, Acked, then, AfterReply
    <3>1. AckedQuit /\ wire'[cur] = wire[cur] \o <<frame>>
      BY <2>3 DEF then, AfterReply
    <3>2. tres = "ok"
      BY <2>1, <3>1 DEF RequestInv
    <3> DEFINE k == Len(wire[cur]) + 1
    <3>3. k \in 1 .. Len(wire'[cur])
      <4>1. wire[cur] \in Seq(WireFrame)
        BY <2>1 DEF WireType
      <4>2. Len(wire[cur] \o <<frame>>) = Len(wire[cur]) + Len(<<frame>>)
        BY <2>2, <4>1, ConcatProperties, Zenon
      <4> QED
        BY <2>2, <2>4, <3>1, <4>2
    <3>4. wire'[cur][k] = frame
      BY <2>1, <2>4, <2>5, <3>3
    <3> QED
      BY <2>1, <2>2, <3>2, <3>3, <3>4 DEF Acked
  <2>9. SentInv'
    <3> SUFFICES ASSUME NEW c \in Conn, NEW i \in 1 .. Len(wire'[c]),
                        wire'[c][i].type = "EVENT", wire'[c][i].req # NoReq
                 PROVE  LET r == wire'[c][i].req IN
                        /\ execs[r] > 0 /\ kind[r] \in Announcing
                        /\ tpc' \in {"reply", "flushQuit", "submit", "wait"} => r # treq
      BY <2>1 DEF SentInv
    <3>1. i \in 1 .. Len(wire[c]) /\ wire'[c][i] = wire[c][i]
      BY <2>2, <2>4, <2>5
    <3> QED
      BY <2>1, <3>1 DEF SentInv
  <2>10. EventsFollowReply'
    <3> SUFFICES ASSUME NEW c \in Conn, NEW i \in 1 .. Len(wire'[c]), NEW j \in 1 .. Len(wire'[c]),
                        i < j, wire'[c][i].type = "EVENT", wire'[c][j].type # "EVENT"
                 PROVE  wire'[c][i].req # wire'[c][j].req
      BY DEF EventsFollowReply
    <3>1. i \in 1 .. Len(wire[c]) /\ wire'[c][i] = wire[c][i]
      BY <2>2, <2>4, <2>5
    <3>2. CASE j <= Len(wire[c])
      <4>1. j \in 1 .. Len(wire[c]) /\ wire'[c][j] = wire[c][j]
        BY <2>4, <2>5, <3>2
      <4> QED
        BY <3>1, <4>1 DEF EventsFollowReply
    <3>3. CASE j > Len(wire[c])
      <4>1. wire'[c][j].req = treq
        BY <2>2, <2>4, <2>5, <3>3
      <4>2. wire[c][i].req # treq
        BY <2>1, <3>1 DEF SentInv
      <4> QED
        BY <3>1, <4>1, <4>2
    <3> QED
      BY <2>4, <3>2, <3>3
  <2> QED
    BY <2>6, <2>7, <2>8, <2>9, <2>10
<1>13. CASE FlushQuit
  <2>1. /\ cur \in Conn /\ tpc = "flushQuit" /\ FlushEvents("submit")
        /\ tpc' \in {"submit", "leave"} /\ eventQueue' = << >>
        /\ UNCHANGED <<conn, kind, from, nreq, cur, treq, sub, sequence, agentSub, installed, execs>>
    BY <1>13 DEF FlushQuit, FlushEvents, SendFrames, ThreadType
  <2>2. /\ wire' \in [Conn -> Seq(WireFrame)] /\ QuitAcked' /\ EventsFollowReply'
        /\ \A c \in Conn : \A i \in 1 .. Len(wire'[c]) : LET r == wire'[c][i].req IN
              wire'[c][i].type = "EVENT" /\ r # NoReq => execs[r] > 0 /\ kind[r] \in Announcing
    BY <2>1, FlushSends
  <2>3. ServedInv' /\ AgentInv' /\ QueueInv'
    BY <2>1 DEF ServedInv, AgentInv, QueueInv
  <2>4. WireType'
    BY <2>1, <2>2, EmptySeq DEF WireType
  <2>5. treq \in Req /\ kind[treq] = "quit" /\ from[treq] = cur
    BY <2>1 DEF ThreadType, RequestInv, AckedQuit
  <2>6. SentInv'
    BY <2>1, <2>2, <2>5 DEF SentInv, Announcing
  <2>7. QuitInv'
    <3>1. Acked(treq)
      BY <2>1, <2>5 DEF QuitInv
    <3>2. EventFrames \in Seq(WireFrame) /\ SendFrames(EventFrames, "submit")
      BY <2>1, EventFramesType DEF FlushEvents
    <3>3. Acked(treq)'
      BY <2>1, <2>5, <3>1, <3>2, SendKeepsAcks
    <3> QED
      BY <2>1, <3>3 DEF QuitInv, Acked
  <2> QED
    BY <2>2, <2>3, <2>4, <2>6, <2>7
<1>14. CASE Submit
  <2>1. WireType' /\ ServedInv' /\ AgentInv' /\ QuitAcked' /\ QueueInv' /\ SentInv' /\ EventsFollowReply'
    BY <1>14 DEF Submit, FreeBridge, AfterBridge, WireType, ServedInv, AgentInv, QuitAcked,
      QueueInv, SentInv, EventsFollowReply
  <2>2. QuitInv'
    BY <1>14 DEF Submit, AfterBridge, QuitInv, Acked
  <2> QED
    BY <2>1, <2>2
<1>15. CASE Woken
  <2>1. /\ tpc = "wait" /\ tpc' \in {"top", "reply"}
        /\ UNCHANGED <<conn, kind, from, nreq, wire, cur, treq, eventQueue, sub, sequence,
                       agentSub, installed, execs>>
    BY <1>15 DEF Woken, AfterBridge
  <2> QED
    BY <2>1 DEF WireType, ServedInv, AgentInv, QuitInv, QuitAcked, QueueInv, SentInv,
                EventsFollowReply
<1>16. CASE TimedOut
  <2>1. WireType' /\ QuitAcked' /\ QueueInv' /\ EventsFollowReply'
    BY <1>16, WireQuiet DEF TimedOut, FreeBridge, AfterBridge, WireType
  <2>2. ServedInv' /\ AgentInv'
    BY <1>16 DEF TimedOut, FreeBridge, AfterBridge, ServedInv, AgentInv
  <2>3. QuitInv'
    BY <1>16 DEF TimedOut, FreeBridge, AfterBridge, QuitInv, Acked
  <2>4. SentInv'
    BY <1>16 DEF TimedOut, FreeBridge, AfterBridge, SentInv
  <2> QED
    BY <2>1, <2>2, <2>3, <2>4
<1>17. CASE WaitStopped
  <2>1. WireType' /\ QuitAcked' /\ QueueInv' /\ EventsFollowReply'
    BY <1>17, WireQuiet DEF WaitStopped, FreeBridge, WireType
  <2>2. ServedInv' /\ AgentInv'
    BY <1>17 DEF WaitStopped, FreeBridge, ServedInv, AgentInv
  <2>3. QuitInv'
    BY <1>17 DEF WaitStopped, FreeBridge, QuitInv, Acked
  <2>4. SentInv'
    BY <1>17 DEF WaitStopped, FreeBridge, SentInv
  <2> QED
    BY <2>1, <2>2, <2>3, <2>4
<1>18. CASE LeaveDisarm
  <2>1. WireType' /\ QuitAcked' /\ QueueInv' /\ EventsFollowReply'
    BY <1>18, WireQuiet DEF LeaveDisarm, WireType
  <2>2. ServedInv' /\ AgentInv'
    BY <1>18 DEF LeaveDisarm, ServedInv, AgentInv
  <2>3. QuitInv'
    BY <1>18 DEF LeaveDisarm, QuitInv, Acked
  <2>4. SentInv'
    BY <1>18 DEF LeaveDisarm, SentInv
  <2> QED
    BY <2>1, <2>2, <2>3, <2>4
<1>19. CASE LeaveClose
  <2>1. /\ cur \in Conn /\ wire' = [wire EXCEPT ![cur] = << >>]
        /\ conn' = [conn EXCEPT ![cur] = "over"] /\ tpc' \in {"accept", "done"}
        /\ UNCHANGED <<kind, from, nreq, execs, eventQueue, sub, sequence>>
    BY <1>19 DEF LeaveClose, ThreadType
  <2>2. /\ wire' \in [Conn -> Seq(WireFrame)] /\ Len(wire'[cur]) = 0
        /\ \A c \in Conn : c # cur => wire'[c] = wire[c] /\ conn'[c] = conn[c]
        /\ conn'[cur] = "over"
    BY <2>1, EmptySeq DEF WireType, ClientType
  <2>3. WireType' /\ QueueInv'
    BY <2>1, <2>2 DEF WireType, QueueInv
  <2>4. ServedInv' /\ AgentInv'
    BY <1>19, <2>1, <2>2 DEF LeaveClose, ServedInv, AgentInv
  <2>5. QuitInv'
    BY <2>1 DEF QuitInv
  <2>6. QuitAcked'
    <3> SUFFICES ASSUME NEW r \in Req, kind[r] = "quit", execs[r] > 0, conn'[from[r]] = "served"
                 PROVE  Acked(r)'
      BY <2>1 DEF QuitAcked, Acked
    <3>1. from[r] \in Conn
      BY DEF RequestInv, Fresh, ClientType, ServedInv
    <3> QED
      BY <2>1, <2>2, <3>1 DEF QuitAcked, Acked
  <2>7. SentInv' /\ EventsFollowReply'
    <3>1. \A c \in Conn : \A i \in 1 .. Len(wire'[c]) : c # cur /\ wire'[c] = wire[c]
      BY <2>2
    <3>2. SentInv'
      BY <2>1, <3>1 DEF SentInv
    <3>3. EventsFollowReply'
      BY <3>1 DEF EventsFollowReply
    <3> QED
      BY <3>2, <3>3
  <2> QED
    BY <2>3, <2>4, <2>5, <2>6, <2>7
<1>20. CASE ProcessDisconnect
  <2>1. WireType' /\ QuitAcked' /\ QueueInv' /\ EventsFollowReply'
    BY <1>20, WireQuiet DEF ProcessDisconnect, WireType
  <2>2. ServedInv' /\ AgentInv'
    BY <1>20 DEF ProcessDisconnect, ServedInv, AgentInv
  <2>3. QuitInv'
    BY <1>20 DEF ProcessDisconnect, QuitInv, Acked
  <2>4. SentInv'
    BY <1>20 DEF ProcessDisconnect, SentInv
  <2> QED
    BY <2>1, <2>2, <2>3, <2>4
<1>21. CASE NothingToProcess
  BY <1>21, WireQuiet DEF NothingToProcess, WireType
<1>22. CASE ExecQuery
  <2>1. /\ tpc = "wait" /\ cur \in Conn /\ breq = treq
        /\ treq \in Req /\ treq <= nreq /\ from[treq] = cur /\ kind[treq] = "query"
        /\ execs'[treq] = 1
        /\ \A r \in Req : r # treq => execs'[r] = execs[r]
        /\ \A r \in Req : execs[r] > 0 => r # treq /\ execs'[r] > 0
        /\ UNCHANGED <<conn, kind, from, nreq, wire, tpc, cur, treq>>
    BY <1>22, ExecutingFacts DEF ExecQuery
  <2>2. ServedInv' /\ QuitInv' /\ EventsFollowReply'
    BY <2>1 DEF ServedInv, QuitInv, Acked, EventsFollowReply
  <2>3. SentInv'
    <3>1. \A c \in Conn : \A i \in 1 .. Len(wire[c]) :
             wire[c][i].req # NoReq => wire[c][i].req \in Req
      BY WireElements
    <3> QED
      BY <2>1, <3>1 DEF SentInv
  <2>4. QuitAcked'
    BY <2>1 DEF QuitAcked
  <2>5. WireType' /\ AgentInv'
    BY <1>22, <2>1 DEF ExecQuery, WireType, AgentInv
  <2>6. QueueInv'
    BY <1>22, <2>1, WireElements DEF ExecQuery, QueueInv
  <2> QED
    BY <2>2, <2>3, <2>4, <2>5, <2>6
<1>23. CASE ExecPause \/ ExecContinue
  <2>1. /\ tpc = "wait" /\ cur \in Conn /\ breq = treq
        /\ treq \in Req /\ treq <= nreq /\ from[treq] = cur /\ kind[treq] \in Announcing
        /\ execs'[treq] = 1
        /\ \A r \in Req : r # treq => execs'[r] = execs[r]
        /\ \A r \in Req : execs[r] > 0 => r # treq /\ execs'[r] > 0
        /\ UNCHANGED <<conn, kind, from, nreq, wire, tpc, cur, treq>>
    BY <1>23, ExecutingFacts DEF ExecPause, ExecContinue, Announcing
  <2>2. ServedInv' /\ QuitInv' /\ EventsFollowReply'
    BY <2>1 DEF ServedInv, QuitInv, Acked, EventsFollowReply
  <2>3. SentInv'
    <3>1. \A c \in Conn : \A i \in 1 .. Len(wire[c]) :
             wire[c][i].req # NoReq => wire[c][i].req \in Req
      BY WireElements
    <3> QED
      BY <2>1, <3>1 DEF SentInv
  <2>4. QuitAcked'
    BY <2>1, Zenon DEF QuitAcked, Announcing
  <2>5. /\ sub' = sub /\ sequence' \in Nat /\ UNCHANGED <<agentSub, installed>>
        /\ Extends(eventQueue, eventQueue', treq)
    <3>1. breq \in 0 .. MaxReq
      BY <2>1
    <3> QED
      BY <1>23, <2>1, <3>1, ExecAnnounces
  <2>6. WireType' /\ AgentInv'
    BY <2>1, <2>5 DEF WireType, AgentInv, Extends
  <2>7. QueueInv'
    <3>1. \A i \in 1 .. Len(eventQueue) : eventQueue[i].by # NoReq => eventQueue[i].by \in Req
      BY WireElements
    <3>2. \A i \in 1 .. Len(eventQueue') : eventQueue'[i].by = treq
              \/ (i \in 1 .. Len(eventQueue) /\ eventQueue'[i] = eventQueue[i])
      BY <2>5 DEF Extends
    <3> QED
      BY <2>1, <3>1, <3>2 DEF QueueInv
  <2> QED
    BY <2>2, <2>3, <2>4, <2>6, <2>7
<1>24. CASE ExecOn
  <2>1. /\ tpc = "wait" /\ cur \in Conn /\ breq = treq
        /\ treq \in Req /\ treq <= nreq /\ from[treq] = cur /\ kind[treq] = "on"
        /\ execs'[treq] = 1
        /\ \A r \in Req : r # treq => execs'[r] = execs[r]
        /\ \A r \in Req : execs[r] > 0 => r # treq /\ execs'[r] > 0
        /\ UNCHANGED <<conn, kind, from, nreq, wire, tpc, cur, treq>>
    BY <1>24, ExecutingFacts DEF ExecOn
  <2>2. ServedInv' /\ QuitInv' /\ EventsFollowReply'
    BY <2>1 DEF ServedInv, QuitInv, Acked, EventsFollowReply
  <2>3. SentInv'
    <3>1. \A c \in Conn : \A i \in 1 .. Len(wire[c]) :
             wire[c][i].req # NoReq => wire[c][i].req \in Req
      BY WireElements
    <3> QED
      BY <2>1, <3>1 DEF SentInv
  <2>4. QuitAcked'
    BY <2>1 DEF QuitAcked
  <2>5. CASE agentSub
    <3>1. UNCHANGED <<eventQueue, agentSub, installed, sub, sequence>>
      BY <1>24, <2>5 DEF ExecOn
    <3>2. WireType' /\ AgentInv'
      BY <2>1, <3>1 DEF WireType, AgentInv
    <3>3. QueueInv'
      BY <2>1, <3>1, WireElements DEF QueueInv
    <3> QED
      BY <2>2, <2>3, <2>4, <3>2, <3>3
  <2>6. CASE ~agentSub
    <3>1. /\ eventQueue' = Purged /\ sub' = treq /\ sequence' = 0 /\ installed'
      BY <1>24, <2>1, <2>6 DEF ExecOn
    <3> DEFINE G == {y \in Item : ~IsAgent(y) /\ \E j \in 1 .. Len(eventQueue) : y = eventQueue[j]}
    <3>2. eventQueue' \in Seq(G)
      BY <3>1, PurgedItems
    <3>3. eventQueue' \in Seq(Item)
      BY <3>2, SeqMonotonic
    <3>4. \A i \in 1 .. Len(eventQueue') : eventQueue'[i] \in G
      BY <3>2, ElementOfSeq
    <3>5. WireType' /\ AgentInv'
      BY <2>1, <3>1, <3>3 DEF WireType, AgentInv
    <3>6. QueueInv'
      <4>1. \A i \in 1 .. Len(eventQueue) : eventQueue[i].by # NoReq => eventQueue[i].by \in Req
        BY WireElements
      <4> QED
        BY <2>1, <3>4, <4>1, ZenonT(30) DEF QueueInv
    <3> QED
      BY <2>2, <2>3, <2>4, <3>5, <3>6
  <2> QED
    BY <2>5, <2>6
<1>25. CASE ExecOff
  <2>1. /\ tpc = "wait" /\ cur \in Conn /\ breq = treq
        /\ treq \in Req /\ treq <= nreq /\ from[treq] = cur /\ kind[treq] = "off"
        /\ execs'[treq] = 1
        /\ \A r \in Req : r # treq => execs'[r] = execs[r]
        /\ \A r \in Req : execs[r] > 0 => r # treq /\ execs'[r] > 0
        /\ UNCHANGED <<conn, kind, from, nreq, wire, tpc, cur, treq>>
    BY <1>25, ExecutingFacts DEF ExecOff
  <2>2. ServedInv' /\ QuitInv' /\ EventsFollowReply'
    BY <2>1 DEF ServedInv, QuitInv, Acked, EventsFollowReply
  <2>3. SentInv'
    <3>1. \A c \in Conn : \A i \in 1 .. Len(wire[c]) :
             wire[c][i].req # NoReq => wire[c][i].req \in Req
      BY WireElements
    <3> QED
      BY <2>1, <3>1 DEF SentInv
  <2>4. QuitAcked'
    BY <2>1 DEF QuitAcked
  <2>5. WireType' /\ AgentInv'
    BY <1>25, <2>1 DEF ExecOff, WireType, AgentInv
  <2>6. QueueInv'
    BY <1>25, <2>1, WireElements DEF ExecOff, QueueInv
  <2> QED
    BY <2>2, <2>3, <2>4, <2>5, <2>6
<1>26. CASE ExecQuit
  <2>1. /\ tpc = "wait" /\ cur \in Conn /\ breq = treq
        /\ treq \in Req /\ treq <= nreq /\ from[treq] = cur /\ kind[treq] = "quit"
        /\ execs'[treq] = 1
        /\ \A r \in Req : r # treq => execs'[r] = execs[r]
        /\ \A r \in Req : execs[r] > 0 => r # treq /\ execs'[r] > 0
        /\ UNCHANGED <<conn, kind, from, nreq, wire, tpc, cur, treq>>
    BY <1>26, ExecutingFacts DEF ExecQuit
  <2>2. ServedInv' /\ QuitInv' /\ EventsFollowReply'
    BY <2>1 DEF ServedInv, QuitInv, Acked, EventsFollowReply
  <2>3. SentInv'
    <3>1. \A c \in Conn : \A i \in 1 .. Len(wire[c]) :
             wire[c][i].req # NoReq => wire[c][i].req \in Req
      BY WireElements
    <3> QED
      BY <2>1, <3>1 DEF SentInv
  <2>4. QuitAcked'
    <3>1. Acked(treq)
      BY <2>1 DEF QuitInv
    <3>2. \A r \in Req : kind[r] = "quit" /\ execs'[r] > 0 /\ conn[from[r]] = "served" => Acked(r)
      BY <2>1, <3>1 DEF QuitAcked, Acked
    <3> QED
      BY <2>1, <3>2 DEF QuitAcked, Acked
  <2>5. WireType' /\ AgentInv'
    BY <1>26, <2>1 DEF ExecQuit, WireType, AgentInv
  <2>6. QueueInv'
    BY <1>26, <2>1, WireElements DEF ExecQuit, QueueInv
  <2> QED
    BY <2>2, <2>3, <2>4, <2>5, <2>6
<1>27. CASE EmitEnqueue
  <2>1. UNCHANGED <<conn, kind, from, nreq, wire, tpc, cur, treq, sub, sequence, agentSub,
                    installed, execs>>
    BY <1>27 DEF EmitEnqueue
  <2> DEFINE x == AgentRecord(NoReq, sequence - 1)
  <2>2. eventQueue' \in {eventQueue, Append(eventQueue, x)}
    <3>1. PICK fits \in BOOLEAN : BacklogBecomes(WithRecord(Backlog, x, fits))
      BY <1>27 DEF EmitEnqueue
    <3> QED
      BY <3>1, WithRecordQueue
  <2>3. x \in Item /\ x.by = NoReq
    BY DEF StateEvent, AgentRecord, Item, WireType
  <2> HIDE DEF x
  <2>4. /\ Append(eventQueue, x) \in Seq(Item) /\ Len(Append(eventQueue, x)) = Len(eventQueue) + 1
        /\ Append(eventQueue, x)[Len(eventQueue) + 1] = x
        /\ \A i \in 1 .. Len(eventQueue) : Append(eventQueue, x)[i] = eventQueue[i]
    BY <2>3, AppendProperties DEF WireType
  <2>5. \A i \in 1 .. Len(eventQueue') : eventQueue'[i].by # NoReq =>
            i \in 1 .. Len(eventQueue) /\ eventQueue'[i] = eventQueue[i]
    <3>1. \A i \in 1 .. Len(eventQueue) + 1 : i \in 1 .. Len(eventQueue) \/ i = Len(eventQueue) + 1
      BY WireElements
    <3> QED
      BY <2>2, <2>3, <2>4, <3>1
  <2>6. WireType' /\ QueueInv'
    BY <2>1, <2>2, <2>4, <2>5 DEF WireType, QueueInv
  <2>7. ServedInv' /\ AgentInv' /\ QuitInv' /\ QuitAcked' /\ SentInv' /\ EventsFollowReply'
    BY <2>1 DEF ServedInv, AgentInv, QuitInv, Acked, QuitAcked, SentInv, EventsFollowReply
  <2> QED
    BY <2>6, <2>7
<1>28. CASE StopDisarm
  <2>1. WireType' /\ QuitAcked' /\ QueueInv' /\ EventsFollowReply'
    BY <1>28, WireQuiet DEF StopDisarm, WireType
  <2>2. ServedInv' /\ AgentInv'
    BY <1>28 DEF StopDisarm, ServedInv, AgentInv
  <2>3. QuitInv'
    BY <1>28 DEF StopDisarm, QuitInv, Acked
  <2>4. SentInv'
    BY <1>28 DEF StopDisarm, SentInv
  <2> QED
    BY <2>1, <2>2, <2>3, <2>4
<1>29. CASE StopFlag
  BY <1>29, WireQuiet DEF StopFlag, WireType
<1>30. CASE StopWake
  BY <1>30, WireQuiet DEF StopWake, WireType
<1>31. CASE StopClient
  BY <1>31, WireQuiet DEF StopClient, WireType
<1>32. CASE StopListen
  BY <1>32, WireQuiet DEF StopListen, WireType
<1>33. CASE StopJoin
  BY <1>33, WireQuiet DEF StopJoin, WireType
<1>34. CASE MachineStops
  <2>1. UNCHANGED <<conn, kind, from, nreq, wire, tpc, cur, treq, sub, sequence, agentSub,
                    installed, execs>>
    BY <1>34 DEF MachineStops
  <2> DEFINE x == StateEvent(NoReq)
  <2>2. eventQueue' \in {eventQueue, Append(eventQueue, x)}
    BY <1>34 DEF MachineStops
  <2>3. x \in Item /\ x.by = NoReq
    BY DEF StateEvent, AgentRecord, Item, WireType
  <2> HIDE DEF x
  <2>4. /\ Append(eventQueue, x) \in Seq(Item) /\ Len(Append(eventQueue, x)) = Len(eventQueue) + 1
        /\ Append(eventQueue, x)[Len(eventQueue) + 1] = x
        /\ \A i \in 1 .. Len(eventQueue) : Append(eventQueue, x)[i] = eventQueue[i]
    BY <2>3, AppendProperties DEF WireType
  <2>5. \A i \in 1 .. Len(eventQueue') : eventQueue'[i].by # NoReq =>
            i \in 1 .. Len(eventQueue) /\ eventQueue'[i] = eventQueue[i]
    <3>1. \A i \in 1 .. Len(eventQueue) + 1 : i \in 1 .. Len(eventQueue) \/ i = Len(eventQueue) + 1
      BY WireElements
    <3> QED
      BY <2>2, <2>3, <2>4, <3>1
  <2>6. WireType' /\ QueueInv'
    BY <2>1, <2>2, <2>4, <2>5 DEF WireType, QueueInv
  <2>7. ServedInv' /\ AgentInv' /\ QuitInv' /\ QuitAcked' /\ SentInv' /\ EventsFollowReply'
    BY <2>1 DEF ServedInv, AgentInv, QuitInv, Acked, QuitAcked, SentInv, EventsFollowReply
  <2> QED
    BY <2>6, <2>7
<1>35. CASE EmitCheck
  BY <1>35, WireQuiet DEF EmitCheck, WireType
<1>36. CASE AppQuit
  BY <1>36, WireQuiet DEF AppQuit, WireType
<1>37. CASE UNCHANGED vars
  BY <1>37, WireQuiet DEF vars, WireType
<1> QED
  BY <1>3, <1>4, <1>5, <1>6, <1>7, <1>8, <1>9, <1>10, <1>11, <1>12, <1>13, <1>14,
     <1>15, <1>16, <1>17, <1>18, <1>19, <1>20, <1>21, <1>22, <1>23, <1>24, <1>25, <1>26, <1>27,
     <1>28, <1>29, <1>30, <1>31, <1>32, <1>33, <1>34, <1>35, <1>36, <1>37
     DEF Next, Client, Serve, Thread, Frame, Exec, Stopping, Stopped

-----------------------------------------------------------------------------
(* The records of subscription b in a sequence of frames, and what their   *)
(* numbers are.                                                            *)

Recs(s, b) == {i \in DOMAIN s : s[i].type = "EVENT" /\ IsAgent(s[i].item) /\ s[i].item.sub = b}

Num(s, i) == s[i].item.n

InOrder(s, b) == \A i, j \in Recs(s, b) : i < j => Num(s, i) < Num(s, j)
Below(s, b, k) == \A i \in Recs(s, b) : Num(s, i) < k
Precede(s, u, b) == \A i \in Recs(s, b), j \in Recs(u, b) : Num(s, i) < Num(u, j)

(* The records of a sequence are finitely many, and numbered.              *)
LEMMA RecsType ==
    ASSUME NEW s \in Seq(WireFrame), NEW b
    PROVE  /\ Len(s) \in Nat /\ Recs(s, b) \subseteq 1 .. Len(s)
           /\ IsFiniteSet(Recs(s, b)) /\ Cardinality(Recs(s, b)) \in Nat
           /\ \A i \in Recs(s, b) : Num(s, i) \in Int
<1>1. Len(s) \in Nat /\ DOMAIN s = 1 .. Len(s) /\ \A i \in 1 .. Len(s) : s[i] \in WireFrame
  BY LenProperties, ElementOfSeq
<1>2. Recs(s, b) \subseteq 1 .. Len(s)
  BY <1>1 DEF Recs
<1>3. IsFiniteSet(1 .. Len(s))
  BY <1>1, FS_Interval
<1>4. IsFiniteSet(Recs(s, b)) /\ Cardinality(Recs(s, b)) \in Nat
  BY <1>2, <1>3, FS_Subset, FS_CardinalityType
<1>5. \A f \in WireFrame : f.type = "EVENT" => f.item \in Item
  BY DEF WireFrame, Results
<1>6. \A x \in Item : x.n \in Int
  BY DEF Item
<1>7. \A i \in Recs(s, b) : Num(s, i) \in Int
  BY <1>1, <1>2, <1>5, <1>6 DEF Recs, Num
<1> QED
  BY <1>1, <1>2, <1>4, <1>7

(* The records of two sequences one after the other.                       *)
LEMMA RecsConcat ==
    ASSUME NEW s \in Seq(WireFrame), NEW u \in Seq(WireFrame), NEW b
    PROVE  /\ Recs(s \o u, b) = Recs(s, b) \cup {Len(s) + i : i \in Recs(u, b)}
           /\ \A i \in Recs(s, b) : Num(s \o u, i) = Num(s, i)
           /\ \A i \in Recs(u, b) : Num(s \o u, Len(s) + i) = Num(u, i)
           /\ Cardinality(Recs(s \o u, b)) = Cardinality(Recs(s, b)) + Cardinality(Recs(u, b))
<1> DEFINE m == Len(s)
           v == s \o u
           R == Recs(s, b)
           U == Recs(u, b)
           shift == [i \in U |-> m + i]
           V == {m + i : i \in U}
<1>1. /\ m \in Nat /\ Len(u) \in Nat
      /\ R \subseteq 1 .. m /\ U \subseteq 1 .. Len(u) /\ IsFiniteSet(R) /\ IsFiniteSet(U)
      /\ Cardinality(R) \in Nat /\ Cardinality(U) \in Nat
      /\ DOMAIN s = 1 .. m /\ DOMAIN u = 1 .. Len(u)
  BY RecsType, LenProperties
<1>2. /\ v \in Seq(WireFrame) /\ Len(v) = m + Len(u)
      /\ \A i \in 1 .. m + Len(u) : v[i] = IF i <= m THEN s[i] ELSE u[i - m]
  BY ConcatProperties
<1>3. DOMAIN v = 1 .. m + Len(u)
  BY <1>2, LenProperties
<1> HIDE DEF v, m
<1>4. \A i \in 1 .. m : i \in DOMAIN v /\ v[i] = s[i]
  BY <1>1, <1>2, <1>3
<1>5. \A i \in 1 .. Len(u) : m + i \in DOMAIN v /\ v[m + i] = u[i]
  BY <1>1, <1>2, <1>3, SMTT(30)
<1>6. \A k \in DOMAIN v : k \in 1 .. m \/ (k - m \in 1 .. Len(u) /\ k = m + (k - m))
  BY <1>1, <1>3
<1>7. Recs(v, b) = R \cup V
  <2>1. ASSUME NEW k \in Recs(v, b) PROVE k \in R \cup V
    <3>1. k \in DOMAIN v /\ v[k].type = "EVENT" /\ IsAgent(v[k].item) /\ v[k].item.sub = b
      BY DEF Recs
    <3>2. CASE k \in 1 .. m
      BY <1>1, <1>4, <3>1, <3>2 DEF Recs
    <3>3. CASE k - m \in 1 .. Len(u) /\ k = m + (k - m)
      <4>1. v[k] = u[k - m]
        BY <1>5, <3>3
      <4>2. k - m \in U
        BY <1>1, <3>1, <3>3, <4>1 DEF Recs
      <4> QED
        BY <3>3, <4>2
    <3> QED
      BY <1>6, <3>1, <3>2, <3>3
  <2>2. ASSUME NEW k \in R PROVE k \in Recs(v, b)
    BY <1>1, <1>4 DEF Recs
  <2>3. ASSUME NEW i \in U PROVE m + i \in Recs(v, b)
    BY <1>1, <1>5 DEF Recs
  <2> QED
    BY <2>1, <2>2, <2>3
<1>8. /\ \A i \in R : Num(v, i) = Num(s, i)
      /\ \A i \in U : Num(v, m + i) = Num(u, i)
  BY <1>1, <1>4, <1>5 DEF Num
<1>9. IsFiniteSet(V) /\ Cardinality(V) = Cardinality(U)
  <2>1. shift \in Bijection(U, V)
    <3>1. shift \in Injection(U, V)
      BY <1>1 DEF Injection, IsInjective
    <3>2. shift \in Surjection(U, V)
      BY DEF Surjection
    <3> QED
      BY <3>1, <3>2 DEF Bijection
  <2>2. ExistsBijection(U, V)
    BY <2>1 DEF ExistsBijection
  <2> QED
    BY <1>1, <2>2, FS_Bijection
<1>10. R \cap V = {}
  BY <1>1
<1>11. Cardinality(R \cup V) = Cardinality(R) + Cardinality(V)
  <2> HIDE DEF R, V
  <2>1. Cardinality(R \cup V) = Cardinality(R) + Cardinality(V) - Cardinality(R \cap V)
    BY <1>1, <1>9, FS_Union
  <2>2. Cardinality(R \cap V) = 0
    BY <1>10, FS_EmptySet
  <2> QED
    BY <1>1, <1>9, <2>1, <2>2
<1> QED
  BY <1>7, <1>8, <1>9, <1>11 DEF v, m

(* A frame more.                                                           *)
LEMMA RecsAppend ==
    ASSUME NEW s \in Seq(WireFrame), NEW f \in WireFrame, NEW b
    PROVE  LET is == f.type = "EVENT" /\ IsAgent(f.item) /\ f.item.sub = b
           IN  /\ Recs(Append(s, f), b) =
                     Recs(s, b) \cup (IF is THEN {Len(s) + 1} ELSE {})
               /\ \A i \in Recs(s, b) : Num(Append(s, f), i) = Num(s, i)
               /\ is => Num(Append(s, f), Len(s) + 1) = f.item.n
               /\ Cardinality(Recs(Append(s, f), b)) =
                     Cardinality(Recs(s, b)) + (IF is THEN 1 ELSE 0)
<1> DEFINE v == Append(s, f)
           m == Len(s)
           is == f.type = "EVENT" /\ IsAgent(f.item) /\ f.item.sub = b
<1>1. /\ m \in Nat /\ Recs(s, b) \subseteq 1 .. m /\ IsFiniteSet(Recs(s, b))
      /\ Cardinality(Recs(s, b)) \in Nat /\ DOMAIN s = 1 .. m
  BY RecsType, LenProperties
<1>2. /\ v \in Seq(WireFrame) /\ Len(v) = m + 1
      /\ \A i \in 1 .. m : v[i] = s[i]
      /\ v[m + 1] = f
  BY AppendProperties
<1>3. DOMAIN v = 1 .. m + 1
  BY <1>2, LenProperties
<1> HIDE DEF v, m
<1>4. Recs(v, b) = Recs(s, b) \cup (IF is THEN {m + 1} ELSE {})
  <2>1. \A k \in DOMAIN v : k = m + 1 \/ k \in 1 .. m
    BY <1>1, <1>3
  <2>2. m + 1 \in DOMAIN v /\ m + 1 \notin 1 .. m /\ \A k \in 1 .. m : k \in DOMAIN v
    BY <1>1, <1>3
  <2>3. (m + 1 \in Recs(v, b)) <=> is
    BY <1>2, <2>2 DEF Recs
  <2>4. \A k \in 1 .. m : (k \in Recs(v, b)) <=> (k \in Recs(s, b))
    BY <1>1, <1>2, <2>2 DEF Recs
  <2>5. \A k \in Recs(v, b) : k = m + 1 \/ k \in 1 .. m
    BY <2>1 DEF Recs
  <2> QED
    BY <1>1, <2>2, <2>3, <2>4, <2>5
<1>5. /\ \A i \in Recs(s, b) : Num(v, i) = Num(s, i)
      /\ is => Num(v, m + 1) = f.item.n
  BY <1>1, <1>2 DEF Num
<1>6. Cardinality(Recs(v, b)) = Cardinality(Recs(s, b)) + (IF is THEN 1 ELSE 0)
  <2>1. m + 1 \notin Recs(s, b)
    BY <1>1
  <2>2. Cardinality(Recs(s, b) \cup {m + 1}) = Cardinality(Recs(s, b)) + 1
    BY <1>1, <2>1, FS_AddElement
  <2>3. CASE is
    BY <1>4, <2>2, <2>3
  <2>4. CASE ~is
    <3>1. Recs(v, b) = Recs(s, b)
      BY <1>4, <2>4
    <3> QED
      BY <1>1, <2>4, <3>1
  <2> QED
    BY <2>3, <2>4
<1> QED
  BY <1>4, <1>5, <1>6 DEF v, m

(* A sequence of frames that gets one more in front of it, or behind it.   *)
LEMMA OrderAppend ==
    ASSUME NEW s \in Seq(WireFrame), NEW f \in WireFrame, NEW b, NEW k \in Int,
           InOrder(s, b), Below(s, b, k),
           f.type = "EVENT" /\ IsAgent(f.item) /\ f.item.sub = b => f.item.n = k
    PROVE  InOrder(Append(s, f), b) /\ Below(Append(s, f), b, k + 1)
<1> DEFINE v == Append(s, f)
           m == Len(s) + 1
           is == f.type = "EVENT" /\ IsAgent(f.item) /\ f.item.sub = b
<1>1. /\ Recs(v, b) = Recs(s, b) \cup (IF is THEN {m} ELSE {})
      /\ \A i \in Recs(s, b) : Num(v, i) = Num(s, i)
      /\ is => Num(v, m) = f.item.n
  BY RecsAppend
<1>2. Len(s) \in Nat /\ Recs(s, b) \subseteq 1 .. Len(s) /\ \A i \in Recs(s, b) : Num(s, i) \in Int
  BY RecsType
<1>3. \A i \in Recs(s, b) : i < m /\ Num(v, i) < k /\ Num(v, i) \in Int
  BY <1>1, <1>2 DEF Below
<1>4. \A i \in Recs(v, b) : i \in Recs(s, b) \/ (i = m /\ Num(v, i) = k)
  BY <1>1
<1> HIDE DEF v, m, is
<1>5. Below(v, b, k + 1)
  BY <1>3, <1>4 DEF Below
<1>6. InOrder(v, b)
  <2> SUFFICES ASSUME NEW i \in Recs(v, b), NEW j \in Recs(v, b), i < j
               PROVE  Num(v, i) < Num(v, j)
    BY DEF InOrder
  <2>1. i \in Recs(s, b)
    <3>1. m \in Nat /\ \A h \in Recs(s, b) : h \in Nat /\ h < m
      BY <1>2 DEF m
    <3> QED
      BY <1>4, <3>1
  <2>2. CASE j \in Recs(s, b)
    BY <1>1, <2>1, <2>2 DEF InOrder
  <2>3. CASE j = m /\ Num(v, j) = k
    BY <1>3, <2>1, <2>3
  <2> QED
    BY <1>4, <2>2, <2>3
<1> QED
  BY <1>5, <1>6 DEF v

(* One more item in the queue is one more frame to send.                   *)
LEMMA EventFramesAppend ==
    ASSUME WireType, NEW x \in Item, NEW q \in Seq(Item)
    PROVE  /\ EventFrame(x) \in WireFrame
           /\ [i \in 1 .. Len(Append(q, x)) |-> EventFrame(Append(q, x)[i])] =
                 Append([i \in 1 .. Len(q) |-> EventFrame(q[i])], EventFrame(x))
<1> DEFINE g == [i \in 1 .. Len(q) |-> EventFrame(q[i])]
           h == [i \in 1 .. Len(Append(q, x)) |-> EventFrame(Append(q, x)[i])]
<1>1. \A y \in Item : EventFrame(y) \in WireFrame
  BY DEF EventFrame, WireFrame, Item
<1>2. /\ Len(q) \in Nat /\ Len(Append(q, x)) = Len(q) + 1
      /\ \A i \in 1 .. Len(q) : q[i] \in Item /\ Append(q, x)[i] = q[i]
      /\ Append(q, x)[Len(q) + 1] = x
  BY LenProperties, ElementOfSeq, AppendProperties
<1>3. g \in [1 .. Len(q) -> WireFrame]
  BY <1>1, <1>2
<1>4. g \in Seq(WireFrame) /\ Len(g) = Len(q)
  BY <1>2, <1>3
<1>5. h \in [1 .. Len(q) + 1 -> WireFrame]
  <2>1. \A i \in 1 .. Len(q) + 1 : i \in 1 .. Len(q) \/ i = Len(q) + 1
    BY <1>2
  <2> QED
    BY <1>1, <1>2, <2>1
<1>6. h \in Seq(WireFrame) /\ Len(h) = Len(q) + 1
  BY <1>2, <1>5
<1>7. /\ \A i \in 1 .. Len(q) : h[i] = g[i]
      /\ h[Len(q) + 1] = EventFrame(x)
  BY <1>2
<1> HIDE DEF g, h
<1>8. /\ Append(g, EventFrame(x)) \in Seq(WireFrame)
      /\ Len(Append(g, EventFrame(x))) = Len(q) + 1
      /\ \A i \in 1 .. Len(q) : Append(g, EventFrame(x))[i] = g[i]
      /\ Append(g, EventFrame(x))[Len(q) + 1] = EventFrame(x)
  BY <1>1, <1>4, AppendProperties
<1>9. \A i \in 1 .. Len(h) : h[i] = Append(g, EventFrame(x))[i]
  BY <1>2, <1>6, <1>7, <1>8
<1>10. h = Append(g, EventFrame(x))
  BY <1>6, <1>8, <1>9, SeqEqual
<1> QED
  BY <1>1, <1>10 DEF g, h

(* A record belongs to a SUBSCRIBE that was executed.                      *)
SubInv ==
    /\ sub # NoReq => execs[sub] > 0
    /\ \A i \in 1 .. Len(eventQueue) :
          eventQueue[i].sub # NoReq => execs[eventQueue[i].sub] > 0
    /\ \A c \in Conn : \A i \in 1 .. Len(wire[c]) :
          wire[c][i].type = "EVENT" /\ wire[c][i].item.sub # NoReq =>
              execs[wire[c][i].item.sub] > 0

(* The subscriber is there, and the stream to it has not failed.           *)
Live == sub # NoReq /\ cur = from[sub] /\ tpc \notin {"leave", "left"}

(* The number of the next record to be enqueued or dropped.                *)
Coming == sequence - (IF mpc = "emit" THEN 1 ELSE 0)

(* s was sent and u is queued: every record of subscription b that was     *)
(* retained is there once, in sequence, and k counts them and the dropped. *)
Accounts(s, u, b, ret, drp, bytes, k) ==
    /\ Cardinality(Recs(s, b)) + Cardinality(Recs(u, b)) = ret
    /\ bytes = Cardinality(Recs(u, b))
    /\ ret + drp = k
    /\ InOrder(s, b) /\ InOrder(u, b) /\ Precede(s, u, b)
    /\ Below(s, b, k) /\ Below(u, b, k)

StreamInv ==
    /\ {retained, dropped} \subseteq Nat
    /\ Live => Accounts(wire[cur], EventFrames, sub, retained, dropped, queuedBytes, Coming)

(* A flush moves the queue to the end of the stream.                       *)
LEMMA AccountsSend ==
    ASSUME NEW s \in Seq(WireFrame), NEW u \in Seq(WireFrame), NEW b,
           NEW ret, NEW drp, NEW bytes, NEW k, Accounts(s, u, b, ret, drp, bytes, k)
    PROVE  Accounts(s \o u, << >>, b, ret, drp, 0, k)
<1> DEFINE v == s \o u
           R == Recs(s, b)
           U == Recs(u, b)
<1>1. Recs(<< >>, b) = {}
  BY DEF Recs
<1>2. /\ Recs(v, b) = R \cup {Len(s) + i : i \in U}
      /\ \A i \in R : Num(v, i) = Num(s, i)
      /\ \A i \in U : Num(v, Len(s) + i) = Num(u, i)
      /\ Cardinality(Recs(v, b)) = Cardinality(R) + Cardinality(U)
  BY RecsConcat
<1>3. /\ Len(s) \in Nat /\ R \subseteq 1 .. Len(s) /\ U \subseteq 1 .. Len(u) /\ Len(u) \in Nat
      /\ Cardinality(R) \in Nat /\ Cardinality(U) \in Nat
  BY RecsType
<1>4. /\ Cardinality(R) + Cardinality(U) = ret /\ ret + drp = k
      /\ \A i, j \in R : i < j => Num(s, i) < Num(s, j)
      /\ \A i, j \in U : i < j => Num(u, i) < Num(u, j)
      /\ \A i \in R, j \in U : Num(s, i) < Num(u, j)
      /\ \A i \in R : Num(s, i) < k
      /\ \A i \in U : Num(u, i) < k
  BY DEF Accounts, InOrder, Precede, Below
<1> HIDE DEF v, R, U
<1>5. InOrder(v, b)
  <2> SUFFICES ASSUME NEW i \in Recs(v, b), NEW j \in Recs(v, b), i < j
               PROVE  Num(v, i) < Num(v, j)
    BY DEF InOrder
  <2>1. CASE i \in R /\ j \in R
    BY <1>2, <1>4, <2>1
  <2>2. CASE i \in R /\ j \notin R
    <3>1. PICK h \in U : j = Len(s) + h
      BY <1>2, <2>2
    <3> QED
      BY <1>2, <1>4, <2>2, <3>1
  <2>3. CASE i \notin R
    <3>1. PICK g \in U : i = Len(s) + g
      BY <1>2, <2>3
    <3>2. j \notin R
      BY <1>3, <3>1
    <3>3. PICK h \in U : j = Len(s) + h
      BY <1>2, <3>2
    <3>4. g < h
      BY <1>3, <3>1, <3>3
    <3> QED
      BY <1>2, <1>4, <3>1, <3>3, <3>4
  <2> QED
    BY <2>1, <2>2, <2>3
<1>6. Below(v, b, k)
  BY <1>2, <1>4 DEF Below
<1>7. Cardinality(Recs(<< >>, b)) = 0
  BY <1>1, FS_EmptySet
<1>8. InOrder(<< >>, b) /\ Precede(v, << >>, b) /\ Below(<< >>, b, k)
  BY <1>1 DEF InOrder, Precede, Below
<1>9. Cardinality(Recs(v, b)) + Cardinality(Recs(<< >>, b)) = ret
  BY <1>2, <1>3, <1>4, <1>7
<1> QED
  BY <1>4, <1>5, <1>6, <1>7, <1>8, <1>9 DEF Accounts, v

(* The stream is complete when its two parts are.                          *)
LEMMA StreamInvComplete ==
    ASSUME WireType, StreamInv, cur \in Conn \/ ~Live
    PROVE  StreamComplete
<1> SUFFICES ASSUME Live PROVE StreamComplete
  BY DEF StreamComplete, Live
<1> DEFINE s == wire[cur]
           u == EventFrames
<1>1. s \in Seq(WireFrame) /\ u \in Seq(WireFrame)
  BY EventFramesType DEF WireType
<1>2. \A z : RecordsIn(z) = Recs(z, sub)
  BY DEF RecordsIn, Recs
<1>3. Accounts(s, u, sub, retained, dropped, queuedBytes, Coming)
  BY DEF StreamInv
<1> HIDE DEF s, u
<1>4. Accounts(s \o u, << >>, sub, retained, dropped, 0, Coming)
  BY <1>1, <1>3, AccountsSend
<1>5. Cardinality(Recs(s \o u, sub)) = retained
  <2>1. Recs(<< >>, sub) = {}
    BY DEF Recs
  <2>2. s \o u \in Seq(WireFrame)
    BY <1>1, ConcatProperties
  <2>3. Cardinality(Recs(s \o u, sub)) \in Nat /\ Cardinality(Recs(<< >>, sub)) = 0
    BY <2>1, <2>2, RecsType, FS_EmptySet
  <2>4. Cardinality(Recs(s \o u, sub)) + Cardinality(Recs(<< >>, sub)) = retained
    BY <1>4 DEF Accounts
  <2> QED
    BY <2>3, <2>4
<1>6. retained + dropped + (IF mpc = "emit" THEN 1 ELSE 0) = sequence
  BY <1>3 DEF Accounts, StreamInv, Coming, WireType
<1>7. \A i, j \in Recs(s \o u, sub) : i < j => Num(s \o u, i) < Num(s \o u, j)
  BY <1>4 DEF Accounts, InOrder
<1>8. queuedBytes = Cardinality(Recs(u, sub))
  BY <1>3 DEF Accounts
<1> QED
  BY <1>2, <1>5, <1>6, <1>7, <1>8 DEF StreamComplete, Num, s, u

(* The steps that send, execute or queue; every other step leaves what was *)
(* sent, executed and queued, and the counters, alone.                     *)
LEMMA QuietSteps ==
    ASSUME [Next]_vars
    PROVE  \/ UNCHANGED <<wire, execs, eventQueue, queuedBytes, sub, sequence, retained, dropped>>
              /\ (mpc' = "emit" <=> mpc = "emit")
           \/ FlushTop \/ Reply \/ FlushQuit \/ LeaveClose
           \/ ExecQuery \/ ExecPause \/ ExecContinue \/ ExecOn \/ ExecOff \/ ExecQuit
           \/ EmitCheck \/ EmitEnqueue \/ MachineStops
<1> USE DEF clientVars, threadVars, bridgeVars, agentVars, threadKeeps, mainKeeps, stopKeeps
<1> DEFINE Quiet == /\ UNCHANGED <<wire, execs, eventQueue, queuedBytes, sub, sequence, retained,
                                   dropped>>
                    /\ mpc' = "emit" <=> mpc = "emit"
<1>1. Client \/ Serve => Quiet
  BY DEF Client, HangUp, Serve, ReadRequest, Accept
<1>2. Thread => Quiet \/ FlushTop \/ Reply \/ FlushQuit \/ LeaveClose
  BY DEF Thread, AcceptFails, Accepted, Publish, PollAgain, PollHungUp, Submit, Woken, LeaveDisarm
<1>3. TimedOut \/ WaitStopped => Quiet
  BY DEF TimedOut, WaitStopped
<1>4. Stopping => Quiet
  BY DEF Stopping, StopDisarm, StopFlag, StopWake, StopClient, StopListen, StopJoin
<1>5. ProcessDisconnect \/ NothingToProcess \/ AppQuit => Quiet
  BY DEF ProcessDisconnect, NothingToProcess, AppQuit
<1>6. UNCHANGED vars => Quiet
  BY DEF vars
<1> QED
  BY <1>1, <1>2, <1>3, <1>4, <1>5, <1>6 DEF Next, Frame, Exec, Stopped

(* A client is served once: a subscription that has lost its client, or    *)
(* whose stream failed, is not one that a later client gets.               *)
LEMMA LiveStays ==
    ASSUME BridgeInv, WireInv, [Next]_vars, sub' = sub, Live'
    PROVE  Live /\ cur' = cur /\ cur \in Conn
<1> USE DEF clientVars, threadVars, bridgeVars, agentVars, threadKeeps, mainKeeps, stopKeeps
<1> DEFINE Moves == \/ cur' = cur /\ (tpc \in {"leave", "left"} => tpc' \in {"leave", "left"})
                    \/ cur' = NoConn
                    \/ \E c \in Conn : conn[c] = "new" /\ cur' = c
<1>1. Moves
  <2>1. Client \/ Serve => Moves
    BY DEF Client, HangUp, Serve, ReadRequest, Accept
  <2>2. FlushTop \/ Reply \/ FlushQuit => Moves
    BY DEF FlushTop, Reply, FlushQuit
  <2>3. Thread => Moves \/ FlushTop \/ Reply \/ FlushQuit
    BY DEF Thread, AcceptFails, Accepted, Publish, PollAgain, PollHungUp, Submit, Woken,
           LeaveDisarm, LeaveClose
  <2>4. TimedOut \/ WaitStopped => Moves
    BY DEF TimedOut, WaitStopped
  <2>5. Stopping \/ AppQuit => Moves
    BY DEF Stopping, StopDisarm, StopFlag, StopWake, StopClient, StopListen, StopJoin, AppQuit
  <2>6. Frame \/ MachineStops \/ EmitCheck => Moves \/ Stopping
    BY DEF Frame, ProcessDisconnect, NothingToProcess, Exec, ExecQuery, ExecPause, ExecContinue,
           ExecOn, ExecOff, ExecQuit, Executing, EmitEnqueue, MachineStops, EmitCheck
  <2>7. UNCHANGED vars => Moves
    BY DEF vars
  <2> QED
    BY <2>1, <2>2, <2>3, <2>4, <2>5, <2>6, <2>7 DEF Next, Stopped
<1>2. \A r \in Req : r <= nreq => from'[r] = from[r]
  <2> DEFINE Kept == \A r \in Req : r <= nreq => from'[r] = from[r]
  <2>1. ASSUME ReadRequest PROVE Kept
    <3>1. from' = [from EXCEPT ![nreq + 1] = cur] /\ nreq \in Nat /\ from \in [Req -> Conn \cup {NoConn}]
      BY <2>1, SizeAssumption DEF ReadRequest, Sends, BridgeInv, ClientType
    <3>2. \A r \in Req : r <= nreq => r # nreq + 1
      BY <3>1
    <3> QED
      BY <3>1, <3>2
  <2>2. from' = from => Kept
    OBVIOUS
  <2>3. Thread \/ TimedOut \/ WaitStopped => from' = from
    BY DEF Thread, AcceptFails, Accepted, Publish, FlushTop, PollAgain, PollHungUp, Reply,
           FlushQuit, Submit, Woken, LeaveDisarm, LeaveClose, TimedOut,
           WaitStopped
  <2>4. Stopping \/ AppQuit => from' = from
    BY DEF Stopping, StopDisarm, StopFlag, StopWake, StopClient, StopListen, StopJoin, AppQuit
  <2>5. Frame \/ MachineStops \/ EmitCheck => from' = from \/ Stopping
    BY DEF Frame, ProcessDisconnect, NothingToProcess, Exec, ExecQuery, ExecPause, ExecContinue,
           ExecOn, ExecOff, ExecQuit, Executing, EmitEnqueue, MachineStops, EmitCheck
  <2>6. UNCHANGED vars => from' = from
    BY DEF vars
  <2>7. \A c \in Conn : Accept(c) \/ HangUp(c) => from' = from
    BY DEF Accept, HangUp
  <2> HIDE DEF Kept
  <2>8. Kept
    BY <2>1, <2>2, <2>3, <2>4, <2>5, <2>6, <2>7 DEF Next, Client, Serve, Stopped
  <2> QED
    BY <2>8 DEF Kept
<1>3. /\ sub \in Req /\ sub <= nreq /\ from'[sub] = from[sub]
      /\ from[sub] \in Conn /\ conn[from[sub]] \in {"served", "over"}
  <2>1. sub \in Req
    BY SizeAssumption DEF Live, WireInv, WireType, Req, NoReq
  <2> QED
    BY <1>2, <2>1 DEF WireInv, AgentInv, ServedInv
<1>4. cur' = from[sub] /\ tpc' \notin {"leave", "left"} /\ cur' # NoConn
  BY <1>3, SizeAssumption DEF Live, Conn, NoConn
<1> QED
  BY <1>1, <1>3, <1>4 DEF Live, NoReq, Req

(* The subscriptions of the items queued and sent.                         *)
LEMMA SubType ==
    ASSUME WireType
    PROVE  /\ \A i \in 1 .. Len(eventQueue) : eventQueue[i].sub \in 0 .. MaxReq
           /\ \A c \in Conn : \A i \in 1 .. Len(wire[c]) :
                 wire[c][i].type = "EVENT" => wire[c][i].item.sub \in 0 .. MaxReq
           /\ \A r \in 0 .. MaxReq : r # NoReq => r \in Req
<1>1. \A x \in Item : x.sub \in 0 .. MaxReq
  BY DEF Item
<1>2. \A f \in WireFrame : f.type = "EVENT" => f.item \in Item
  BY DEF WireFrame, Results
<1>3. \A r \in 0 .. MaxReq : r # NoReq => r \in Req
  BY SizeAssumption DEF Req, NoReq
<1> QED
  BY <1>1, <1>2, <1>3, WireElements

(* What the queue and the streams hold before the first request.           *)
LEMMA InitStreamInv == Init => SubInv /\ StreamInv
<1> SUFFICES ASSUME Init PROVE SubInv /\ StreamInv
  OBVIOUS
<1>1. SubInv
  BY DEF Init, SubInv
<1>2. StreamInv
  BY DEF Init, StreamInv, Live
<1> QED
  BY <1>1, <1>2

(* Records and counters name only subscriptions that were executed.        *)
LEMMA NextSubInv == BridgeInv /\ WireInv /\ SubInv /\ [Next]_vars => SubInv'
<1> SUFFICES ASSUME BridgeInv, WireInv, SubInv, [Next]_vars PROVE SubInv'
  OBVIOUS
<1> DEFINE QueueOk == \A i \in 1 .. Len(eventQueue) :
                         eventQueue[i].sub # NoReq => execs[eventQueue[i].sub] > 0
           SentOk == \A c \in Conn : \A i \in 1 .. Len(wire[c]) :
                         wire[c][i].type = "EVENT" /\ wire[c][i].item.sub # NoReq =>
                             execs[wire[c][i].item.sub] > 0
           Old(x) == \E i \in 1 .. Len(eventQueue) : x = eventQueue[i]
<1>1. WireType /\ WireType'
  BY NextWireInv DEF WireInv
<1>2. /\ Len(eventQueue) \in Nat
      /\ \A c \in Conn : Len(wire[c]) \in Nat
      /\ \A i \in 1 .. Len(eventQueue) : eventQueue[i].sub \in 0 .. MaxReq
      /\ \A c \in Conn : \A i \in 1 .. Len(wire[c]) :
            wire[c][i].type = "EVENT" => wire[c][i].item.sub \in 0 .. MaxReq
      /\ \A r \in 0 .. MaxReq : r # NoReq => r \in Req
  BY <1>1, SubType, WireElements
<1>3. CASE UNCHANGED <<wire, execs, eventQueue, sub>>
  BY <1>3 DEF SubInv
<1>4. ASSUME NEW k, Executing(k),
             \A i \in 1 .. Len(eventQueue') : \/ Old(eventQueue'[i])
                                              \/ eventQueue'[i].sub \in {NoReq, sub},
             sub' \in {sub, breq}
      PROVE  SubInv'
  <2>1. /\ breq = treq /\ treq \in Req /\ execs'[treq] > 0 /\ UNCHANGED wire
        /\ \A r \in Req : execs[r] > 0 => execs'[r] > 0
    BY <1>4, ExecutingFacts
  <2>2. sub # NoReq => execs'[sub] > 0
    BY <1>2, <2>1, <1>1 DEF SubInv, WireType
  <2>3. sub' # NoReq => execs'[sub'] > 0
    BY <1>4, <2>1, <2>2
  <2>4. QueueOk'
    BY <1>2, <1>4, <2>1, <2>2 DEF SubInv
  <2>5. SentOk'
    BY <1>2, <2>1 DEF SubInv
  <2> QED
    BY <2>3, <2>4, <2>5 DEF SubInv
<1>5. ASSUME UNCHANGED <<wire, execs, sub>>,
             \A i \in 1 .. Len(eventQueue') : \/ Old(eventQueue'[i])
                                              \/ eventQueue'[i].sub \in {NoReq, sub}
      PROVE  SubInv'
  <2>1. QueueOk'
    BY <1>5 DEF SubInv
  <2> QED
    BY <1>5, <2>1 DEF SubInv
<1>6. ASSUME cur \in Conn, NEW frames \in Seq(WireFrame), NEW then, SendFrames(frames, then),
             UNCHANGED <<execs, sub>>, UNCHANGED eventQueue \/ eventQueue' = << >>,
             \A i \in 1 .. Len(frames) :
                 \/ frames[i].type # "EVENT"
                 \/ \E j \in 1 .. Len(eventQueue) : frames[i].item = eventQueue[j]
      PROVE  SubInv'
  <2>1. /\ \A c \in Conn : c # cur => wire'[c] = wire[c]
        /\ Len(wire[cur]) <= Len(wire'[cur])
        /\ \A i \in 1 .. Len(wire[cur]) : wire'[cur][i] = wire[cur][i]
        /\ \A i \in 1 .. Len(wire'[cur]) : i > Len(wire[cur]) =>
              /\ i - Len(wire[cur]) \in 1 .. Len(frames)
              /\ wire'[cur][i] = frames[i - Len(wire[cur])]
    BY <1>1, <1>6, SendFramesGrows
  <2>2. QueueOk'
    BY <1>6 DEF SubInv
  <2>3. SentOk'
    <3> SUFFICES ASSUME NEW c \in Conn, NEW i \in 1 .. Len(wire'[c]),
                        wire'[c][i].type = "EVENT", wire'[c][i].item.sub # NoReq
                 PROVE  execs[wire'[c][i].item.sub] > 0
      BY <1>6
    <3>1. CASE c # cur
      BY <2>1, <3>1 DEF SubInv
    <3>2. CASE c = cur /\ i > Len(wire[cur])
      <4> DEFINE j == i - Len(wire[cur])
      <4>1. j \in 1 .. Len(frames) /\ wire'[c][i] = frames[j]
        BY <2>1, <3>2
      <4> HIDE DEF j
      <4> QED
        BY <1>6, <4>1 DEF SubInv
    <3>3. CASE c = cur /\ ~(i > Len(wire[cur]))
      <4>1. i \in 1 .. Len(wire[cur])
        BY <1>2, <1>6, <3>3, <1>1, WireElements
      <4> QED
        BY <2>1, <3>3, <4>1 DEF SubInv
    <3> QED
      BY <3>1, <3>2, <3>3
  <2> QED
    BY <1>6, <2>2, <2>3 DEF SubInv
<1> HIDE DEF QueueOk, SentOk
<1>7. ASSUME NEW then, FlushEvents(then), cur \in Conn, UNCHANGED <<execs, sub>> PROVE SubInv'
  BY <1>1, <1>6, <1>7, EventFramesType DEF FlushEvents
<1>8. CASE FlushTop
  BY <1>7, <1>8 DEF FlushTop, agentVars, BridgeInv, ThreadType
<1>9. CASE FlushQuit
  BY <1>7, <1>9 DEF FlushQuit, agentVars, BridgeInv, ThreadType
<1>10. CASE Reply
  <2>1. /\ cur \in Conn /\ treq \in Req /\ tres \in Results
        /\ SendFrames(<<ReplyFrame(treq, tres)>>, AfterReply)
        /\ UNCHANGED <<execs, sub, eventQueue>>
    BY <1>10 DEF Reply, agentVars, BridgeInv, ThreadType
  <2> DEFINE f == ReplyFrame(treq, tres)
  <2>2. f \in WireFrame /\ f.type # "EVENT"
    BY <2>1 DEF ReplyFrame, WireFrame, Results
  <2> HIDE DEF f
  <2>3. <<f>> \in Seq(WireFrame) /\ \A i \in 1 .. Len(<<f>>) : <<f>>[i].type # "EVENT"
    BY <2>2
  <2> QED
    BY <1>6, <2>1, <2>3 DEF f
<1>11. \A x \in Item :
          LET q == Append(eventQueue, x)
          IN  /\ Len(q) = Len(eventQueue) + 1 /\ q[Len(eventQueue) + 1] = x
              /\ \A i \in 1 .. Len(eventQueue) : q[i] = eventQueue[i]
              /\ q \in Seq(Item)
              /\ \A i \in 1 .. Len(q) : Old(q[i]) \/ q[i] = x
  <2> SUFFICES ASSUME NEW x \in Item
               PROVE  LET q == Append(eventQueue, x)
                      IN  /\ Len(q) = Len(eventQueue) + 1 /\ q[Len(eventQueue) + 1] = x
                          /\ \A i \in 1 .. Len(eventQueue) : q[i] = eventQueue[i]
                          /\ q \in Seq(Item)
                          /\ \A i \in 1 .. Len(q) : Old(q[i]) \/ q[i] = x
    OBVIOUS
  <2> DEFINE q == Append(eventQueue, x)
  <2>1. /\ Len(q) = Len(eventQueue) + 1 /\ q[Len(eventQueue) + 1] = x /\ q \in Seq(Item)
        /\ \A i \in 1 .. Len(eventQueue) : q[i] = eventQueue[i]
    BY <1>1, AppendProperties DEF WireType
  <2> HIDE DEF q
  <2>2. \A i \in 1 .. Len(q) : i \in 1 .. Len(eventQueue) \/ i = Len(eventQueue) + 1
    BY <1>2, <2>1
  <2>3. \A i \in 1 .. Len(q) : Old(q[i]) \/ q[i] = x
    BY <2>1, <2>2
  <2> QED
    BY <2>1, <2>3 DEF q
<1>12. \A r \in 0 .. MaxReq, n \in Int :
          /\ StateEvent(r) \in Item /\ StateEvent(r).sub = NoReq
          /\ AgentRecord(r, n) \in Item /\ AgentRecord(r, n).sub = sub
  BY <1>1, SizeAssumption DEF StateEvent, AgentRecord, Item, WireType, NoReq
<1>13. CASE MachineStops
  <2>1. eventQueue' = Append(eventQueue, StateEvent(NoReq)) /\ UNCHANGED <<wire, execs, sub>>
    BY <1>13 DEF MachineStops, mainKeeps, agentVars
  <2>2. StateEvent(NoReq) \in Item /\ StateEvent(NoReq).sub = NoReq
    BY <1>12, SizeAssumption DEF NoReq
  <2> QED
    BY <1>5, <1>11, <2>1, <2>2
<1>14. CASE EmitEnqueue
  <2> DEFINE x == AgentRecord(NoReq, sequence - 1)
  <2>1. /\ eventQueue' = eventQueue \/ eventQueue' = Append(eventQueue, x)
        /\ UNCHANGED <<wire, execs, sub>>
    <3>1. PICK fits \in BOOLEAN : BacklogBecomes(WithRecord(Backlog, x, fits))
      BY <1>14 DEF EmitEnqueue
    <3>2. UNCHANGED <<wire, execs, sub>>
      BY <1>14 DEF EmitEnqueue, mainKeeps
    <3> QED
      BY <3>1, <3>2, WithRecordQueue
  <2>2. x \in Item /\ x.sub = sub
    BY <1>1, <1>12, SizeAssumption DEF NoReq, WireType
  <2> HIDE DEF x
  <2> QED
    BY <1>3, <1>5, <1>11, <2>1, <2>2
<1>15. CASE ExecPause \/ ExecContinue
  <2>1. Executing("pause") \/ Executing("continue")
    BY <1>15 DEF ExecPause, ExecContinue
  <2>2. breq \in 0 .. MaxReq
    BY <2>1, ExecutingFacts, SizeAssumption DEF Req
  <2>3. Extends(eventQueue, eventQueue', breq) /\ UNCHANGED sub
    BY <1>1, <1>15, <2>2, ExecAnnounces
  <2>4. \A i \in 1 .. Len(eventQueue') : Old(eventQueue'[i]) \/ eventQueue'[i].sub \in {NoReq, sub}
    BY <2>3 DEF Extends
  <2> QED
    BY <1>4, <2>1, <2>3, <2>4
<1>16. CASE ExecOn
  <2>1. /\ Executing("on")
        /\ UNCHANGED <<eventQueue, sub>> \/ (eventQueue' = Purged /\ sub' = breq)
    BY <1>16 DEF ExecOn
  <2> DEFINE G == {x \in Item : ~IsAgent(x) /\ \E j \in 1 .. Len(eventQueue) : x = eventQueue[j]}
  <2>2. \A i \in 1 .. Len(Purged) : Purged[i] \in G
    BY <1>1, PurgedItems, ElementOfSeq
  <2>3. \A i \in 1 .. Len(eventQueue') : Old(eventQueue'[i])
    BY <2>1, <2>2
  <2> QED
    BY <1>4, <2>1, <2>3
<1>17. CASE ExecQuery \/ ExecOff \/ ExecQuit
  <2>1. /\ Executing("query") \/ Executing("off") \/ Executing("quit")
        /\ UNCHANGED <<eventQueue, sub>>
    BY <1>17 DEF ExecQuery, ExecOff, ExecQuit
  <2>2. \A i \in 1 .. Len(eventQueue') : Old(eventQueue'[i])
    BY <2>1
  <2> QED
    BY <1>4, <2>1, <2>2
<1>18. CASE EmitCheck
  BY <1>3, <1>18 DEF EmitCheck, mainKeeps
<1>19. CASE LeaveClose
  <2>1. /\ cur \in Conn /\ wire' = [wire EXCEPT ![cur] = << >>]
        /\ UNCHANGED <<execs, eventQueue, sub>>
    BY <1>19 DEF LeaveClose, BridgeInv, ThreadType
  <2>2. \A c \in Conn : \A i \in 1 .. Len(wire'[c]) : wire'[c] = wire[c]
    BY <1>1, <2>1 DEF WireType
  <2> QED
    BY <2>1, <2>2 DEF SubInv
<1> QED
  BY <1>3, <1>8, <1>9, <1>10, <1>13, <1>14, <1>15, <1>16, <1>17, <1>18, <1>19, QuietSteps

(* A frame that is no record changes nothing, in the queue or the stream.  *)
LEMMA AccountsOther ==
    ASSUME NEW s \in Seq(WireFrame), NEW u \in Seq(WireFrame), NEW b,
           NEW ret, NEW drp, NEW bytes, NEW k, Accounts(s, u, b, ret, drp, bytes, k),
           NEW f \in WireFrame, ~(f.type = "EVENT" /\ IsAgent(f.item) /\ f.item.sub = b)
    PROVE  /\ Accounts(s, Append(u, f), b, ret, drp, bytes, k)
           /\ Accounts(Append(s, f), u, b, ret, drp, bytes, k)
<1>1. ASSUME NEW z \in Seq(WireFrame)
      PROVE  /\ Recs(Append(z, f), b) = Recs(z, b)
             /\ \A i \in Recs(z, b) : Num(Append(z, f), i) = Num(z, i)
  <2> DEFINE is == f.type = "EVENT" /\ IsAgent(f.item) /\ f.item.sub = b
  <2>1. /\ Recs(Append(z, f), b) = Recs(z, b) \cup (IF is THEN {Len(z) + 1} ELSE {})
        /\ \A i \in Recs(z, b) : Num(Append(z, f), i) = Num(z, i)
    BY RecsAppend
  <2>2. ~is
    OBVIOUS
  <2> HIDE DEF is
  <2> QED
    BY <2>1, <2>2
<1>2. /\ Recs(Append(u, f), b) = Recs(u, b)
      /\ \A i \in Recs(u, b) : Num(Append(u, f), i) = Num(u, i)
  BY <1>1
<1>3. /\ Recs(Append(s, f), b) = Recs(s, b)
      /\ \A i \in Recs(s, b) : Num(Append(s, f), i) = Num(s, i)
  BY <1>1
<1>4. Accounts(s, Append(u, f), b, ret, drp, bytes, k)
  BY <1>2 DEF Accounts, InOrder, Precede, Below
<1>5. Accounts(Append(s, f), u, b, ret, drp, bytes, k)
  BY <1>3 DEF Accounts, InOrder, Precede, Below
<1> QED
  BY <1>4, <1>5

(* The next record is queued, or dropped and counted.                      *)
LEMMA AccountsRecord ==
    ASSUME NEW s \in Seq(WireFrame), NEW u \in Seq(WireFrame), NEW b,
           NEW ret \in Nat, NEW drp \in Nat, NEW bytes, NEW k,
           Accounts(s, u, b, ret, drp, bytes, k)
    PROVE  /\ Accounts(s, u, b, ret, drp + 1, bytes, k + 1)
           /\ \A f \in WireFrame :
                 f.type = "EVENT" /\ IsAgent(f.item) /\ f.item.sub = b /\ f.item.n = k =>
                     Accounts(s, Append(u, f), b, ret + 1, drp, bytes + 1, k + 1)
<1> DEFINE R == Recs(s, b)
           U == Recs(u, b)
<1>1. /\ Cardinality(R) + Cardinality(U) = ret /\ ret + drp = k /\ bytes = Cardinality(U)
      /\ InOrder(s, b) /\ InOrder(u, b) /\ Precede(s, u, b)
      /\ Below(s, b, k) /\ Below(u, b, k)
  BY DEF Accounts
<1>2. /\ Cardinality(R) \in Nat /\ Cardinality(U) \in Nat
      /\ \A i \in R : Num(s, i) \in Int
      /\ \A i \in U : Num(u, i) \in Int
  BY RecsType
<1>3. k \in Int
  BY <1>1
<1>4. Below(s, b, k + 1) /\ Below(u, b, k + 1)
  BY <1>1, <1>2, <1>3 DEF Below
<1>5. Accounts(s, u, b, ret, drp + 1, bytes, k + 1)
  <2>1. ret + (drp + 1) = k + 1
    BY <1>1
  <2> QED
    BY <1>1, <1>4, <2>1 DEF Accounts
<1>6. ASSUME NEW f \in WireFrame,
             f.type = "EVENT" /\ IsAgent(f.item) /\ f.item.sub = b /\ f.item.n = k
      PROVE  Accounts(s, Append(u, f), b, ret + 1, drp, bytes + 1, k + 1)
  <2> DEFINE v == Append(u, f)
             m == Len(u) + 1
  <2>1. /\ Recs(v, b) = U \cup {m}
        /\ \A i \in U : Num(v, i) = Num(u, i)
        /\ Num(v, m) = k
        /\ Cardinality(Recs(v, b)) = Cardinality(U) + 1
    BY <1>6, RecsAppend
  <2>2. InOrder(v, b) /\ Below(v, b, k + 1)
    BY <1>1, <1>3, <1>6, OrderAppend
  <2> HIDE DEF v, m
  <2>3. Precede(s, v, b)
    BY <1>1, <2>1 DEF Precede, Below
  <2>4. Cardinality(R) + Cardinality(Recs(v, b)) = ret + 1
    BY <1>1, <1>2, <2>1
  <2>5. bytes + 1 = Cardinality(Recs(v, b)) /\ (ret + 1) + drp = k + 1
    BY <1>1, <2>1
  <2> QED
    BY <1>1, <1>4, <2>2, <2>3, <2>4, <2>5 DEF Accounts, v
<1> QED
  BY <1>5, <1>6

(* The queue as it would be sent.                                          *)
Frames(q) == [i \in 1 .. Len(q) |-> EventFrame(q[i])]

LEMMA FramesType ==
    ASSUME NEW q \in Seq(Item) PROVE Frames(q) \in Seq(WireFrame)
<1>1. Len(q) \in Nat /\ \A i \in 1 .. Len(q) : q[i] \in Item
  BY LenProperties, ElementOfSeq
<1>2. \A y \in Item : EventFrame(y) \in WireFrame
  BY DEF EventFrame, WireFrame, Item
<1>3. Frames(q) \in [1 .. Len(q) -> WireFrame]
  BY <1>1, <1>2 DEF Frames
<1> QED
  BY <1>1, <1>3

(* The backlog b follows queue q and its counters: if these account for    *)
(* the records below n, so does b for those below n + 1.                   *)
Balanced(b, q, k, l, y, n) ==
    \E v, k2, l2, y2 :
        /\ v \in Seq(Item) /\ k2 \in Nat /\ l2 \in Nat
        /\ b = BacklogOf(v, k2, l2, y2)
        /\ \A s \in Seq(WireFrame) :
              Accounts(s, Frames(q), sub, k, l, y, n)
                  => Accounts(s, Frames(v), sub, k2, l2, y2, n + 1)

(* The next record, queued or dropped, leaves the accounts in balance.     *)
LEMMA WithRecordAccounts ==
    ASSUME WireType, NEW q \in Seq(Item), NEW k \in Nat, NEW l \in Nat, NEW y,
           NEW r \in 0 .. MaxReq, NEW n \in Int, NEW fits
    PROVE  Balanced(WithRecord(BacklogOf(q, k, l, y), AgentRecord(r, n), fits), q, k, l, y, n)
<1> DEFINE x == AgentRecord(r, n)
           f == EventFrame(x)
<1>1. x \in Item
  BY DEF AgentRecord, Item, WireType
<1>2. /\ f \in WireFrame /\ f.type = "EVENT" /\ IsAgent(f.item)
      /\ f.item.sub = sub /\ f.item.n = n
  BY <1>1, EventFramesAppend DEF EventFrame, AgentRecord, IsAgent
<1> HIDE DEF x
<1>3. Frames(q) \in Seq(WireFrame)
  BY FramesType
<1>4. Frames(Append(q, x)) = Append(Frames(q), f)
  BY <1>1, EventFramesAppend DEF Frames
<1>5. Append(q, x) \in Seq(Item) /\ k + 1 \in Nat /\ l + 1 \in Nat
  BY <1>1, AppendProperties
<1> HIDE DEF f
<1>6. ASSUME NEW s \in Seq(WireFrame), Accounts(s, Frames(q), sub, k, l, y, n)
      PROVE  /\ Accounts(s, Frames(q), sub, k, l + 1, y, n + 1)
             /\ Accounts(s, Frames(Append(q, x)), sub, k + 1, l, y + 1, n + 1)
  BY <1>2, <1>3, <1>4, <1>6, AccountsRecord
<1>7. WithRecord(BacklogOf(q, k, l, y), x, fits) \in
          {BacklogOf(q, k, l + 1, y), BacklogOf(Append(q, x), k + 1, l, y + 1)}
  BY WithRecordForm
<1> QED
  BY <1>5, <1>6, <1>7 DEF x, Balanced

(* So does an EVENT without a record, and one with it.                     *)
LEMMA SilentAccounts ==
    ASSUME WireType, NEW q \in Seq(Item), NEW k, NEW l, NEW y, NEW r \in 0 .. MaxReq,
           NEW u, u = Append(q, StateEvent(r))
    PROVE  /\ u \in Seq(Item)
           /\ \A c : \A s \in Seq(WireFrame) :
                 Accounts(s, Frames(q), sub, k, l, y, c) =>
                     Accounts(s, Frames(u), sub, k, l, y, c)
<1> DEFINE e == StateEvent(r)
<1>1. e \in Item /\ ~IsAgent(e)
  BY SizeAssumption DEF StateEvent, Item, IsAgent, NoReq
<1>2. /\ Frames(u) = Append(Frames(q), EventFrame(e)) /\ EventFrame(e) \in WireFrame
      /\ ~IsAgent(EventFrame(e).item)
  BY <1>1, EventFramesAppend DEF Frames, EventFrame
<1>3. u \in Seq(Item)
  BY <1>1, AppendProperties
<1>4. \A c : \A s \in Seq(WireFrame) :
         Accounts(s, Frames(q), sub, k, l, y, c) => Accounts(s, Frames(u), sub, k, l, y, c)
  BY <1>2, FramesType, AccountsOther
<1> QED
  BY <1>3, <1>4

LEMMA RecordedAccounts ==
    ASSUME WireType, NEW q \in Seq(Item), NEW k \in Nat, NEW l \in Nat, NEW y,
           NEW r \in 0 .. MaxReq, NEW n \in Int
    PROVE  Balanced(Announced(BacklogOf(q, k, l, y), r, n, TRUE), q, k, l, y, n)
<1> DEFINE u == Append(q, StateEvent(r))
<1>1. /\ u \in Seq(Item)
      /\ \A s \in Seq(WireFrame) :
            Accounts(s, Frames(q), sub, k, l, y, n) => Accounts(s, Frames(u), sub, k, l, y, n)
  BY SilentAccounts
<1>2. Announced(BacklogOf(q, k, l, y), r, n, TRUE)
        = WithRecord(BacklogOf(u, k, l, y), AgentRecord(r, n), TRUE)
  <2>1. WithEvent(BacklogOf(q, k, l, y), r) = BacklogOf(u, k, l, y)
    BY WithEventForm
  <2> QED
    BY <2>1 DEF Announced
<1> HIDE DEF u
<1>3. Balanced(WithRecord(BacklogOf(u, k, l, y), AgentRecord(r, n), TRUE), u, k, l, y, n)
  BY <1>1, WithRecordAccounts
<1> QED
  BY <1>1, <1>2, <1>3 DEF Balanced

(* What a subscriber was sent and what is queued for it stay complete.     *)
LEMMA NextStreamInv == BridgeInv /\ WireInv /\ SubInv /\ StreamInv /\ [Next]_vars => StreamInv'
<1> SUFFICES ASSUME BridgeInv, WireInv, SubInv, StreamInv, [Next]_vars PROVE StreamInv'
  OBVIOUS
<1> USE DEF mainKeeps, agentVars, threadVars
<1>1. WireType /\ WireType'
  BY NextWireInv DEF WireInv
<1>2. /\ \A c \in Conn : wire[c] \in Seq(WireFrame)
      /\ EventFrames \in Seq(WireFrame)
      /\ {retained, dropped} \subseteq Nat /\ sequence \in Nat
  BY <1>1, EventFramesType DEF WireType, StreamInv
<1> DEFINE Kept(s, u, ret, drp, bytes, k) ==
               Live' => /\ Live /\ cur' = cur /\ cur \in Conn
                        /\ Accounts(s, u, sub, ret, drp, bytes, k)
<1>3. sub' = sub => Kept(wire[cur], EventFrames, retained, dropped, queuedBytes, Coming)
  BY LiveStays DEF StreamInv
<1> HIDE DEF Kept
(* The steps by what they do to the stream and the queue.                  *)
<1>4. ASSUME UNCHANGED <<wire, eventQueue, queuedBytes, sub, retained, dropped>>, Coming' = Coming
      PROVE  StreamInv'
  <2>1. EventFrames' = EventFrames
    BY <1>4 DEF EventFrames, EventFrame
  <2> QED
    BY <1>3, <1>4, <2>1, <1>2 DEF StreamInv, Kept
<1>5. ASSUME NEW then, cur \in Conn, FlushEvents(then), then # "leave",
             UNCHANGED <<sub, retained, dropped, sequence, mpc>>
      PROVE  StreamInv'
  <2>1. eventQueue' = << >> /\ queuedBytes' = 0 /\ SendFrames(EventFrames, then)
    BY <1>5 DEF FlushEvents
  <2>2. tpc' # "leave" => wire'[cur] = wire[cur] \o EventFrames
    BY <1>1, <1>2, <1>5, <2>1, SendFramesGrows
  <2>3. EventFrames' = << >>
    BY <2>1 DEF EventFrames
  <2>4. Coming' = Coming
    BY <1>5 DEF Coming
  <2>5. SUFFICES ASSUME Live'
                 PROVE  Accounts(wire'[cur'], EventFrames', sub', retained', dropped',
                                 queuedBytes', Coming')
    BY <1>2, <1>5 DEF StreamInv
  <2>6. /\ cur' = cur /\ tpc' # "leave"
        /\ Accounts(wire[cur], EventFrames, sub, retained, dropped, queuedBytes, Coming)
    BY <1>3, <1>5, <2>5 DEF Kept, Live
  <2>7. Accounts(wire[cur] \o EventFrames, << >>, sub, retained, dropped, 0, Coming)
    BY <1>2, <1>5, <2>6, AccountsSend
  <2> QED
    BY <1>5, <2>1, <2>2, <2>3, <2>4, <2>6, <2>7
<1>6. ASSUME NEW x \in Item, ~IsAgent(x), eventQueue' = Append(eventQueue, x), Coming' = Coming,
             UNCHANGED <<wire, queuedBytes, sub, retained, dropped>>
      PROVE  StreamInv'
  <2>1. EventFrames' = Append(EventFrames, EventFrame(x)) /\ EventFrame(x) \in WireFrame
    BY <1>1, <1>6, EventFramesAppend, ZenonT(30) DEF EventFrames, EventFrame, WireType
  <2>2. ~IsAgent(EventFrame(x).item)
    BY <1>6 DEF EventFrame
  <2>3. SUFFICES ASSUME Live'
                 PROVE  Accounts(wire'[cur'], EventFrames', sub', retained', dropped',
                                 queuedBytes', Coming')
    BY <1>2, <1>6 DEF StreamInv
  <2>4. /\ cur' = cur /\ cur \in Conn
        /\ Accounts(wire[cur], EventFrames, sub, retained, dropped, queuedBytes, Coming)
    BY <1>3, <1>6, <2>3 DEF Kept
  <2>5. Accounts(wire[cur], Append(EventFrames, EventFrame(x)), sub, retained, dropped,
                 queuedBytes, Coming)
    BY <1>2, <2>1, <2>2, <2>4, AccountsOther
  <2> QED
    BY <1>6, <2>1, <2>4, <2>5
(* A backlog that accounts for the records replaces the one there was.     *)
<1>7. ASSUME NEW q, NEW k \in Nat, NEW l \in Nat, NEW y, NEW n,
             BacklogBecomes(BacklogOf(q, k, l, y)), Coming' = n, UNCHANGED <<wire, sub>>,
             \A s \in Seq(WireFrame) :
                 Accounts(s, EventFrames, sub, retained, dropped, queuedBytes, Coming)
                     => Accounts(s, Frames(q), sub, k, l, y, n)
      PROVE  StreamInv'
  <2>1. eventQueue' = q /\ retained' = k /\ dropped' = l /\ queuedBytes' = y
    BY <1>7 DEF BacklogBecomes, BacklogOf
  <2>2. EventFrames' = Frames(q)
    BY <2>1 DEF EventFrames, EventFrame, Frames
  <2>3. SUFFICES ASSUME Live'
                 PROVE  Accounts(wire'[cur'], EventFrames', sub', retained', dropped',
                                 queuedBytes', Coming')
    BY <1>7, <2>1 DEF StreamInv
  <2>4. /\ cur' = cur /\ cur \in Conn
        /\ Accounts(wire[cur], EventFrames, sub, retained, dropped, queuedBytes, Coming)
    BY <1>3, <1>7, <2>3 DEF Kept
  <2> QED
    BY <1>2, <1>7, <2>1, <2>2, <2>4
<1>8. \A r \in 0 .. MaxReq : StateEvent(r) \in Item /\ ~IsAgent(StateEvent(r))
  BY SizeAssumption DEF StateEvent, Item, IsAgent, NoReq
<1>9. NoReq \in 0 .. MaxReq
  BY SizeAssumption DEF NoReq
<1>10. CASE UNCHANGED <<wire, execs, eventQueue, queuedBytes, sub, sequence, retained, dropped>>
            /\ (mpc' = "emit" <=> mpc = "emit")
  BY <1>4, <1>10 DEF Coming
<1>11. CASE FlushTop
  BY <1>5, <1>11 DEF FlushTop, threadKeeps, BridgeInv, ThreadType
<1>12. CASE FlushQuit
  BY <1>5, <1>12 DEF FlushQuit, threadKeeps, BridgeInv, ThreadType
<1>13. CASE Reply
  <2> DEFINE f == ReplyFrame(treq, tres)
             then == AfterReply
  <2>1. /\ cur \in Conn /\ treq \in Req /\ tres \in Results /\ SendFrames(<<f>>, then)
        /\ UNCHANGED <<cur, eventQueue, sub, retained, dropped, queuedBytes, sequence, mpc>>
    BY <1>13 DEF Reply, threadKeeps, BridgeInv, ThreadType
  <2>2. f \in WireFrame /\ f.type # "EVENT"
    BY <2>1 DEF ReplyFrame, WireFrame, Results
  <2> HIDE DEF f, then
  <2>3. <<f>> \in Seq(WireFrame)
    BY <2>2
  <2>4. tpc' # "leave" => wire'[cur] = wire[cur] \o <<f>>
    BY <1>1, <2>1, <2>3, SendFramesGrows
  <2>5. wire[cur] \o <<f>> = Append(wire[cur], f)
    BY <1>2, <2>1, <2>2
  <2>6. Coming' = Coming /\ EventFrames' = EventFrames
    BY <2>1 DEF Coming, EventFrames, EventFrame
  <2>7. SUFFICES ASSUME Live'
                 PROVE  Accounts(wire'[cur'], EventFrames', sub', retained', dropped',
                                 queuedBytes', Coming')
    BY <1>2, <2>1 DEF StreamInv
  <2>8. /\ cur' = cur /\ tpc' # "leave"
        /\ Accounts(wire[cur], EventFrames, sub, retained, dropped, queuedBytes, Coming)
    BY <1>3, <2>1, <2>7 DEF Kept, Live
  <2>9. Accounts(Append(wire[cur], f), EventFrames, sub, retained, dropped, queuedBytes, Coming)
    BY <1>2, <2>1, <2>2, <2>8, AccountsOther
  <2> QED
    BY <2>1, <2>4, <2>5, <2>6, <2>8, <2>9
<1>14. CASE ExecQuery \/ ExecOff \/ ExecQuit
  <2>1. /\ mpc = "bridge" /\ mpc' # "emit"
        /\ UNCHANGED <<wire, eventQueue, queuedBytes, sub, retained, dropped, sequence>>
    BY <1>14 DEF ExecQuery, ExecOff, ExecQuit, Executing
  <2> QED
    BY <1>4, <2>1 DEF Coming
<1>15. CASE ExecPause \/ ExecContinue
  <2>1. /\ Executing("pause") \/ Executing("continue")
        /\ mpc = "bridge" /\ mpc' = "idle" /\ UNCHANGED <<sub, wire>>
    BY <1>15 DEF ExecPause, ExecContinue, Executing
  <2>2. breq \in 0 .. MaxReq
    BY <2>1, ExecutingFacts, SizeAssumption DEF Req
  <2>3. Coming = sequence /\ Coming' = sequence'
    <3>1. sequence \in Nat /\ sequence' \in Nat
      BY <1>1 DEF WireType
    <3>2. mpc = "bridge" /\ mpc' = "idle"
      BY <2>1
    <3>3. Coming = sequence - 0 /\ Coming' = sequence' - 0
      BY <3>2 DEF Coming
    <3>4. \A n \in Nat : n - 0 = n /\ n \in Int
      OBVIOUS
    <3> QED
      BY <3>1, <3>3, <3>4, Zenon
  <2>4. /\ Backlog = BacklogOf(eventQueue, retained, dropped, queuedBytes)
        /\ EventFrames = Frames(eventQueue) /\ eventQueue \in Seq(Item)
    BY <1>1 DEF Backlog, BacklogOf, EventFrames, Frames, WireType
  <2>5. retained \in Nat /\ dropped \in Nat /\ sequence \in Nat /\ sequence \in Int
        /\ sequence + 1 \in Int /\ (sequence + 1) + 1 = sequence + 2
    BY <1>2
  <2> DEFINE One(selected) == Announced(Backlog, breq, sequence, selected)
             Two(selected) == Announced(One(selected), breq, sequence + 1, selected)
  <2>6. PICK v1, k1, l1, y1 :
            /\ v1 \in Seq(Item) /\ k1 \in Nat /\ l1 \in Nat
            /\ One(TRUE) = BacklogOf(v1, k1, l1, y1)
            /\ \A s \in Seq(WireFrame) :
                  Accounts(s, EventFrames, sub, retained, dropped, queuedBytes, sequence)
                      => Accounts(s, Frames(v1), sub, k1, l1, y1, sequence + 1)
    <3>1. Balanced(One(TRUE), eventQueue, retained, dropped, queuedBytes, sequence)
      BY <1>1, <2>2, <2>4, <2>5, RecordedAccounts
    <3> QED
      BY <2>4, <3>1 DEF Balanced
  <2>7. PICK v2, k2, l2, y2 :
            /\ v2 \in Seq(Item) /\ k2 \in Nat /\ l2 \in Nat
            /\ Two(TRUE) = BacklogOf(v2, k2, l2, y2)
            /\ \A s \in Seq(WireFrame) :
                  Accounts(s, Frames(v1), sub, k1, l1, y1, sequence + 1)
                      => Accounts(s, Frames(v2), sub, k2, l2, y2, sequence + 2)
    <3> DEFINE n == sequence + 1
    <3>1. n \in Int /\ n + 1 = sequence + 2
      BY <2>5
    <3> HIDE DEF n
    <3>2. Balanced(Announced(BacklogOf(v1, k1, l1, y1), breq, n, TRUE), v1, k1, l1, y1, n)
      BY <1>1, <2>2, <2>6, <3>1, RecordedAccounts
    <3>3. Balanced(Two(TRUE), v1, k1, l1, y1, n)
      BY <2>6, <3>2 DEF n
    <3> QED
      BY <3>1, <3>3 DEF n, Balanced
  <2> DEFINE u1 == Append(eventQueue, StateEvent(breq))
             u2 == Append(u1, StateEvent(breq))
  <2>8. /\ u1 \in Seq(Item) /\ One(FALSE) = BacklogOf(u1, retained, dropped, queuedBytes)
        /\ \A s \in Seq(WireFrame) :
              Accounts(s, EventFrames, sub, retained, dropped, queuedBytes, sequence)
                  => Accounts(s, Frames(u1), sub, retained, dropped, queuedBytes, sequence)
    <3>1. One(FALSE) = BacklogOf(u1, retained, dropped, queuedBytes)
      BY <2>4, WithEventForm DEF Announced
    <3> QED
      BY <1>1, <2>2, <2>4, <3>1, SilentAccounts
  <2> HIDE DEF u1
  <2>9. /\ u2 \in Seq(Item) /\ Two(FALSE) = BacklogOf(u2, retained, dropped, queuedBytes)
        /\ \A s \in Seq(WireFrame) :
              Accounts(s, Frames(u1), sub, retained, dropped, queuedBytes, sequence)
                  => Accounts(s, Frames(u2), sub, retained, dropped, queuedBytes, sequence)
    <3>1. Two(FALSE) = BacklogOf(u2, retained, dropped, queuedBytes)
      BY <2>8, WithEventForm DEF Announced
    <3> QED
      BY <1>1, <2>2, <2>8, <3>1, SilentAccounts
  <2> HIDE DEF u2, One, Two
  <2>10. \/ BacklogBecomes(One(TRUE)) /\ sequence' = sequence + 1
         \/ BacklogBecomes(One(FALSE)) /\ sequence' = sequence
         \/ BacklogBecomes(Two(TRUE)) /\ sequence' = sequence + 2
         \/ BacklogBecomes(Two(FALSE)) /\ sequence' = sequence
    <3>1. CASE ExecContinue
      <4>1. PICK selected \in BOOLEAN :
                /\ BacklogBecomes(Announced(Backlog, breq, sequence, selected))
                /\ sequence' = IF selected THEN sequence + 1 ELSE sequence
        BY <3>1 DEF ExecContinue
      <4>2. CASE selected = TRUE
        BY <4>1, <4>2 DEF One
      <4>3. CASE selected = FALSE
        BY <4>1, <4>3 DEF One
      <4> QED
        BY <4>2, <4>3
    <3>2. CASE ExecPause
      <4>1. PICK selected \in BOOLEAN :
                /\ BacklogBecomes(Announced(Announced(Backlog, breq, sequence, selected),
                                            breq, sequence + 1, selected))
                /\ sequence' = IF selected THEN sequence + 2 ELSE sequence
        BY <3>2 DEF ExecPause
      <4>2. CASE selected = TRUE
        BY <4>1, <4>2 DEF One, Two
      <4>3. CASE selected = FALSE
        BY <4>1, <4>3 DEF One, Two
      <4> QED
        BY <4>2, <4>3
    <3> QED
      BY <1>15, <3>1, <3>2
  <2>11. CASE BacklogBecomes(One(TRUE)) /\ sequence' = sequence + 1
    BY <1>7, <2>1, <2>3, <2>6, <2>11
  <2>12. CASE BacklogBecomes(One(FALSE)) /\ sequence' = sequence
    BY <1>7, <2>1, <2>3, <2>5, <2>8, <2>12
  <2>13. CASE BacklogBecomes(Two(TRUE)) /\ sequence' = sequence + 2
    BY <1>7, <2>1, <2>3, <2>6, <2>7, <2>13
  <2>14. CASE BacklogBecomes(Two(FALSE)) /\ sequence' = sequence
    BY <1>7, <2>1, <2>3, <2>5, <2>8, <2>9, <2>14
  <2> QED
    BY <2>10, <2>11, <2>12, <2>13, <2>14
<1>16. CASE ExecOn
  <2>1. /\ Executing("on") /\ mpc = "bridge" /\ mpc' = "idle" /\ UNCHANGED <<wire, cur>>
        /\ \/ UNCHANGED <<eventQueue, sub, sequence, retained, dropped, queuedBytes>>
           \/ /\ eventQueue' = Purged /\ sub' = breq /\ sequence' = 0 /\ retained' = 0
              /\ dropped' = 0 /\ queuedBytes' = 0
    BY <1>16 DEF ExecOn, Executing
  <2>2. CASE UNCHANGED <<eventQueue, sub, sequence, retained, dropped, queuedBytes>>
    BY <1>4, <2>1, <2>2 DEF Coming
  <2>3. CASE /\ eventQueue' = Purged /\ sub' = breq /\ sequence' = 0 /\ retained' = 0
             /\ dropped' = 0 /\ queuedBytes' = 0
    <3>1. breq = treq /\ treq \in Req /\ execs[treq] = 0 /\ cur \in Conn /\ treq # NoReq
      BY <2>1, ExecutingFacts, SizeAssumption DEF Req, NoReq
    <3>2. Recs(wire[cur], treq) = {}
      <4>1. \A i \in 1 .. Len(wire[cur]) :
               wire[cur][i].type = "EVENT" => wire[cur][i].item.sub # treq
        BY <3>1 DEF SubInv
      <4>2. DOMAIN wire[cur] = 1 .. Len(wire[cur])
        BY <1>2, <3>1, LenProperties
      <4> QED
        BY <4>1, <4>2 DEF Recs
    <3>3. \A i \in 1 .. Len(Purged) : ~IsAgent(Purged[i])
      BY <1>1, PurgedItems, ElementOfSeq
    <3>4. /\ Len(eventQueue') \in Nat
          /\ EventFrames' = [i \in 1 .. Len(eventQueue') |-> EventFrame(eventQueue'[i])]
      BY <1>1, LenProperties DEF EventFrames, EventFrame, WireType
    <3>5. Recs(EventFrames', treq) = {}
      BY <2>3, <3>3, <3>4 DEF Recs, EventFrame
    <3>6. Coming' = 0
      BY <2>1, <2>3 DEF Coming
    <3>7. Cardinality(Recs(wire[cur], treq)) = 0 /\ Cardinality(Recs(EventFrames', treq)) = 0
      BY <3>2, <3>5, FS_EmptySet
    <3>8. Accounts(wire[cur], EventFrames', treq, 0, 0, 0, 0)
      BY <3>2, <3>5, <3>7 DEF Accounts, InOrder, Precede, Below
    <3> QED
      BY <2>1, <2>3, <3>1, <3>6, <3>8 DEF StreamInv
  <2> QED
    BY <2>1, <2>2, <2>3
<1>17. CASE EmitCheck
  <2>1. Coming' = Coming
    BY <1>2, <1>17 DEF EmitCheck, Coming
  <2> QED
    BY <1>4, <1>17, <2>1 DEF EmitCheck
<1>18. CASE EmitEnqueue
  <2>1. Coming = sequence - 1 /\ Coming' = Coming + 1 /\ Coming \in Int
    BY <1>2, <1>18 DEF EmitEnqueue, Coming
  <2> DEFINE x == AgentRecord(NoReq, Coming)
  <2>2. PICK fits \in BOOLEAN : BacklogBecomes(WithRecord(Backlog, x, fits))
    BY <1>18, <2>1 DEF EmitEnqueue
  <2>3. /\ Backlog = BacklogOf(eventQueue, retained, dropped, queuedBytes)
        /\ EventFrames = Frames(eventQueue) /\ eventQueue \in Seq(Item) /\ UNCHANGED <<wire, sub>>
    BY <1>1, <1>18 DEF EmitEnqueue, Backlog, BacklogOf, EventFrames, Frames, WireType
  <2>4. PICK v, k, l, y :
            /\ v \in Seq(Item) /\ k \in Nat /\ l \in Nat
            /\ WithRecord(Backlog, x, fits) = BacklogOf(v, k, l, y)
            /\ \A s \in Seq(WireFrame) :
                  Accounts(s, EventFrames, sub, retained, dropped, queuedBytes, Coming)
                      => Accounts(s, Frames(v), sub, k, l, y, Coming + 1)
    <3>1. Balanced(WithRecord(Backlog, x, fits), eventQueue, retained, dropped, queuedBytes, Coming)
      BY <1>1, <1>2, <1>9, <2>1, <2>3, WithRecordAccounts
    <3> QED
      BY <2>3, <3>1 DEF Balanced
  <2> QED
    BY <1>7, <2>1, <2>2, <2>3, <2>4
<1>19. CASE MachineStops
  <2>1. /\ eventQueue' = Append(eventQueue, StateEvent(NoReq))
        /\ UNCHANGED <<wire, queuedBytes, sub, retained, dropped, mpc, sequence>>
    BY <1>19 DEF MachineStops
  <2> QED
    BY <1>6, <1>8, <1>9, <2>1 DEF Coming
<1>20. CASE LeaveClose
  <2>1. cur' = NoConn /\ UNCHANGED <<sub, retained, dropped>>
    BY <1>20 DEF LeaveClose
  <2>2. ~Live'
    BY <1>3, <2>1, SizeAssumption DEF Kept, Conn, NoConn
  <2> QED
    BY <1>2, <2>1, <2>2 DEF StreamInv
<1> QED
  BY <1>10, <1>11, <1>12, <1>13, <1>14, <1>15, <1>16, <1>17, <1>18, <1>19, <1>20, QuietSteps

-----------------------------------------------------------------------------
(* The invariants of the specification.                                    *)

(* Every reachable state satisfies the inductive invariants.               *)
LEMMA BridgeInvariants == Spec => [](BridgeInv /\ WireInv /\ SubInv /\ StreamInv)
<1>1. Init => BridgeInv /\ WireInv /\ SubInv /\ StreamInv
  BY InitBridgeInv, InitWireInv, InitStreamInv
<1>2. BridgeInv /\ WireInv /\ SubInv /\ StreamInv /\ [Next]_vars
         => (BridgeInv /\ WireInv /\ SubInv /\ StreamInv)'
  BY NextBridgeInv, NextWireInv, NextSubInv, NextStreamInv
<1> QED
  BY <1>1, <1>2, PTL DEF Spec

(* The bridge executes a request at most once: one that timed out, was     *)
(* refused as busy or was given up is never executed, one answered was.    *)
THEOREM BridgeExecutesOnce == Spec => []ExecutedOnce
<1>1. BridgeInv => ExecutedOnce
  BY DEF BridgeInv
<1> QED
  BY <1>1, BridgeInvariants, PTL

(* submit_and_wait never finds the bridge taken.                           *)
THEOREM BridgeNeverBusy == Spec => []NeverBusy
<1>1. BridgeInv => NeverBusy
  BY DEF BridgeInv, WaitInv, NeverBusy
<1> QED
  BY <1>1, BridgeInvariants, PTL

(* On every client's stream the reply to a request precedes the events     *)
(* that executing it produced.                                             *)
THEOREM RepliesPrecedeEvents == Spec => []EventsFollowReply
<1>1. WireInv => EventsFollowReply
  BY DEF WireInv
<1> QED
  BY <1>1, BridgeInvariants, PTL

(* A QUIT is executed only after its client has been sent the answer.      *)
THEOREM QuitIsAcknowledged == Spec => []QuitAcked
<1>1. WireInv => QuitAcked
  BY DEF WireInv
<1> QED
  BY <1>1, BridgeInvariants, PTL

(* A subscription that is on has its observer and its client: the late     *)
(* disconnect of an earlier client does not take the observer away.        *)
THEOREM SubscriptionObserved == Spec => []SubscribedMeansObserved
<1>1. WireInv => SubscribedMeansObserved
  BY DEF WireInv, AgentInv, SubscribedMeansObserved
<1> QED
  BY <1>1, BridgeInvariants, PTL

(* A subscriber that stays gets every retained record, once and in         *)
(* sequence, and the counters account for the gaps.                        *)
THEOREM SubscriberStream == Spec => []StreamComplete
<1>1. BridgeInv /\ WireInv /\ SubInv /\ StreamInv => StreamComplete
  <2> SUFFICES ASSUME BridgeInv, WireInv, StreamInv PROVE StreamComplete
    OBVIOUS
  <2>1. Live => cur \in Conn
    <3>1. sub # NoReq => sub \in Req /\ sub <= nreq
      BY SizeAssumption DEF WireInv, WireType, AgentInv, Req, NoReq
    <3> QED
      BY <3>1 DEF Live, WireInv, ServedInv
  <2> QED
    BY <2>1, StreamInvComplete DEF WireInv
<1> QED
  BY <1>1, BridgeInvariants, PTL
=============================================================================
