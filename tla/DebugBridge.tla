---------------------------- MODULE DebugBridge ----------------------------
(***************************************************************************)
(* DebugProtocolServer: a protocol thread that owns the socket, the main   *)
(* (emulation) thread that owns the machine, the single-flight bridge      *)
(* between them under bridge_mu_, and the EVENT queue under event_mu_.     *)
(*                                                                         *)
(* A request is a number; its kind decides who answers it.  What a command *)
(* does to the machine is abstracted to "it was executed", except for      *)
(* SUBSCRIBE and QUIT, whose effects the server itself depends on, and     *)
(* PAUSE and CONTINUE (STEP_INTO does the same), which enqueue EVENTs.     *)
(*                                                                         *)
(* A critical section is one action: nothing else the model tracks is      *)
(* touched inside it.  The accesses outside the two locks (stop_,          *)
(* agent_subscription_, agent_disconnect_pending_, client_fd_) are actions *)
(* of their own.                                                           *)
(***************************************************************************)
EXTENDS Integers, Sequences, FiniteSets

CONSTANTS
    MaxConn,    \* connections clients make
    MaxReq,     \* requests read from all clients together
    MaxEvents,  \* events and records the machine produces by itself
    Kinds,      \* request kinds in use
    HelloFirst, \* clients say HELLO once, before anything else
    AgentCap,   \* the queue capacity a SUBSCRIBE asks for
    ByteCap     \* the records the 4 MiB cap leaves room for

Conn == 1 .. MaxConn
Req == 1 .. MaxReq

NoConn == 0
NoReq == 0

(* Refused on the protocol thread: "bad" is any frame that fails a check   *)
(* there (flags, length, version, arguments, an unknown type), "long" one  *)
(* whose header announces more than kMaxPayload.                           *)
Malformed == {"bad", "long"}

AllKinds == {"hello", "ping", "query", "pause", "continue", "on", "off", "quit"} \cup Malformed

ASSUME SizeAssumption == {MaxConn, MaxReq, MaxEvents} \subseteq Nat
ASSUME KindsAssumption == Kinds \subseteq AllKinds /\ HelloFirst \in BOOLEAN
ASSUME CapAssumption == AgentCap \in Nat \ {0} /\ ByteCap \in Nat \ {0}

VARIABLES
    \* the clients and their byte streams
    conn,        \* "new", "served", "over"
    hung,        \* the client has closed its end, or stop() shut it down
    kind, from,  \* the kind and the sender of each request
    nreq,        \* requests read so far
    wire,        \* what each client has been sent while it is served
    \* the protocol thread
    tpc,         \* where it is
    cur,         \* the connection it serves
    handshaked,
    treq,        \* the request it handles
    tres,        \* what submit_and_wait or the handler answers
    clientFd,    \* client_fd_
    \* the bridge
    pending,     \* bridge_pending_
    done,        \* bridge_done_
    breq,        \* bridge_type_, bridge_seq_, ...: the request in the bridge
    breply,      \* bridge_error_, bridge_reply_
    \* events and the subscription
    eventQueue,
    nevents,     \* events and records produced so far
    agentSub,    \* agent_subscription_
    discPending, \* agent_disconnect_pending_
    installed,   \* agent_listener_installed_
    sub,         \* the SUBSCRIBE the counters belong to
    sequence, retained, dropped, queuedBytes,
    \* the main thread
    mpc,
    stop,        \* stop_
    lfd,         \* the listening socket is open
    \* history
    execs,       \* how often each request was executed
    outcome      \* what submit_and_wait made of each request

clientVars == <<conn, hung, kind, from, nreq>>
threadVars == <<cur, handshaked, treq, tres>>
bridgeVars == <<pending, done, breq, breply>>
agentVars == <<agentSub, discPending, installed, sub, sequence, retained, dropped>>
vars == <<clientVars, wire, tpc, threadVars, clientFd, bridgeVars, eventQueue, nevents,
          agentVars, queuedBytes, mpc, stop, lfd, execs, outcome>>

Init ==
    /\ conn = [c \in Conn |-> "new"]
    /\ hung = [c \in Conn |-> FALSE]
    /\ kind = [r \in Req |-> "none"]
    /\ from = [r \in Req |-> NoConn]
    /\ nreq = 0
    /\ wire = [c \in Conn |-> << >>]
    /\ tpc = "accept" /\ cur = NoConn /\ handshaked = FALSE
    /\ treq = NoReq /\ tres = "none" /\ clientFd = NoConn
    /\ pending = FALSE /\ done = FALSE /\ breq = NoReq /\ breply = "none"
    /\ eventQueue = << >> /\ nevents = 0
    /\ agentSub = FALSE /\ discPending = FALSE /\ installed = FALSE
    /\ sub = NoReq /\ sequence = 0 /\ retained = 0 /\ dropped = 0 /\ queuedBytes = 0
    /\ mpc = "idle" /\ stop = FALSE /\ lfd = TRUE
    /\ execs = [r \in Req |-> 0]
    /\ outcome = [r \in Req |-> "none"]

-----------------------------------------------------------------------------
(* The clients: external.  That a client connects is seen when it is       *)
(* accepted, and what it sends when it is read; it may hang up at any time.*)

HangUp(c) ==
    /\ conn[c] = "served" /\ ~hung[c]
    /\ hung' = [hung EXCEPT ![c] = TRUE]
    /\ UNCHANGED <<conn, kind, from, nreq, wire, tpc, threadVars, clientFd, bridgeVars,
                   eventQueue, nevents, agentVars, queuedBytes, mpc, stop, lfd, execs, outcome>>

-----------------------------------------------------------------------------
(* The protocol thread: thread_main and serve_client.                      *)

threadKeeps == <<hung, kind, from, nreq, nevents, mpc, stop, lfd>>

(* accept blocks until a client is there or stop() closes the socket.      *)
Accept(c) ==
    /\ tpc = "accept" /\ lfd
    /\ conn[c] = "new"
    /\ \A d \in Conn : conn[d] = "new" => c <= d
    /\ conn' = [conn EXCEPT ![c] = "served"]
    /\ cur' = c
    /\ tpc' = "accepted"
    /\ UNCHANGED <<threadKeeps, wire, handshaked, treq, tres, clientFd, bridgeVars,
                   eventQueue, agentVars, queuedBytes, execs, outcome>>

AcceptFails ==
    /\ tpc = "accept" /\ ~lfd
    /\ tpc' = "done"
    /\ UNCHANGED <<threadKeeps, conn, wire, threadVars, clientFd, bridgeVars,
                   eventQueue, agentVars, queuedBytes, execs, outcome>>

(* The test of stop_, then the store of client_fd_.                        *)
Accepted ==
    /\ tpc = "accepted"
    /\ IF stop
       THEN /\ tpc' = "done"
            /\ conn' = [conn EXCEPT ![cur] = "over"]
            /\ cur' = NoConn
       ELSE /\ tpc' = "publish"
            /\ UNCHANGED <<conn, cur>>
    /\ UNCHANGED <<threadKeeps, wire, handshaked, treq, tres, clientFd, bridgeVars,
                   eventQueue, agentVars, queuedBytes, execs, outcome>>

Publish ==
    /\ tpc = "publish"
    /\ clientFd' = cur
    /\ handshaked' = FALSE
    /\ tpc' = "top"
    /\ UNCHANGED <<threadKeeps, conn, wire, cur, treq, tres, bridgeVars,
                   eventQueue, agentVars, queuedBytes, execs, outcome>>

EventFrame(item) == [type |-> "EVENT", req |-> item.by, item |-> item]
ReplyFrame(r, res) == [type |-> res, req |-> r, item |-> << >>]

(* write_full fails once stop_ is set or, at some point, when the client   *)
(* has gone.  frames is what is to be sent, then what follows success.     *)
SendFrames(frames, then) ==
    \/ /\ ~stop
       /\ wire' = [wire EXCEPT ![cur] = @ \o frames]
       /\ tpc' = then
    \/ /\ stop \/ hung[cur]
       /\ \E n \in 0 .. Len(frames) :
             wire' = [wire EXCEPT ![cur] = @ \o SubSeq(frames, 1, n)]
       /\ tpc' = "leave"

EventFrames == [i \in 1 .. Len(eventQueue) |-> EventFrame(eventQueue[i])]

(* flush_events: the queue is taken under the lock, then sent.             *)
FlushEvents(then) ==
    /\ eventQueue' = << >>
    /\ queuedBytes' = 0
    /\ SendFrames(EventFrames, then)

FlushTop ==
    /\ tpc = "top"
    /\ FlushEvents("poll")
    /\ treq' = NoReq /\ tres' = "none"
    /\ UNCHANGED <<threadKeeps, conn, cur, handshaked, clientFd, bridgeVars,
                   agentVars, execs, outcome>>

(* poll() timed out: the loop tests stop_ and flushes again.               *)
PollAgain ==
    /\ tpc = "poll"
    /\ stop \/ eventQueue # << >>
    /\ tpc' = IF stop THEN "leave" ELSE "top"
    /\ UNCHANGED <<threadKeeps, conn, wire, threadVars, clientFd, bridgeVars,
                   eventQueue, agentVars, queuedBytes, execs, outcome>>

PollHungUp ==
    /\ tpc = "poll" /\ hung[cur]
    /\ tpc' = "leave"
    /\ UNCHANGED <<threadKeeps, conn, wire, threadVars, clientFd, bridgeVars,
                   eventQueue, agentVars, queuedBytes, execs, outcome>>

(* Malformed, or anything but HELLO before the handshake.                  *)
Rejected(k) == k \in Malformed \/ ~(handshaked \/ k = "hello")

(* Answered on this thread: an ERROR, HELLO and PING.                      *)
Local(k) == Rejected(k) \/ k \in {"hello", "ping"}

(* What the client being served sent next, before it hung up if it did:    *)
(* external.                                                               *)
Sends(k) ==
    /\ nreq < MaxReq
    /\ HelloFirst => \/ k \in Malformed
                      \/ k = "hello" <=> \A r \in Req : from[r] = cur => kind[r] \in Malformed
    /\ nreq' = nreq + 1
    /\ treq' = nreq + 1
    /\ kind' = [kind EXCEPT ![nreq + 1] = k]
    /\ from' = [from EXCEPT ![nreq + 1] = cur]

(* A QUIT that is answered when the main thread has executed it.           *)
ReadRequestQuitLast ==
    /\ tpc = "poll" /\ ~stop
    /\ \E k \in Kinds :
          /\ Sends(k)
          /\ handshaked' = (handshaked \/ k = "hello")
          /\ tres' = IF Rejected(k) THEN "refused" ELSE "ok"
          /\ tpc' = IF Local(k) THEN "reply" ELSE "submit"
    /\ UNCHANGED <<hung, nevents, mpc, stop, lfd, conn, wire, cur, clientFd, bridgeVars,
                   eventQueue, agentVars, queuedBytes, execs, outcome>>

(* QUIT is acknowledged first, because the main thread then stops us.      *)
ReadRequest ==
    /\ tpc = "poll" /\ ~stop
    /\ \E k \in Kinds :
          /\ Sends(k)
          /\ handshaked' = (handshaked \/ k = "hello")
          /\ tres' = IF Rejected(k) THEN "refused" ELSE "ok"
          /\ tpc' = IF Local(k) \/ k = "quit" THEN "reply" ELSE "submit"
    /\ UNCHANGED <<hung, nevents, mpc, stop, lfd, conn, wire, cur, clientFd, bridgeVars,
                   eventQueue, agentVars, queuedBytes, execs, outcome>>

AckedQuit == handshaked /\ kind[treq] = "quit"

(* A frame that is too long to be read ends the connection.                *)
AfterReply ==
    IF kind[treq] = "long" THEN "leave" ELSE IF AckedQuit THEN "flushQuit" ELSE "top"

(* A reply that sends the waiting events first.                            *)
ReplyEventsFirst ==
    /\ tpc = "reply"
    /\ eventQueue' = << >>
    /\ queuedBytes' = 0
    /\ SendFrames(Append(EventFrames, ReplyFrame(treq, tres)), AfterReply)
    /\ UNCHANGED <<threadKeeps, conn, threadVars, clientFd, bridgeVars,
                   agentVars, execs, outcome>>

(* REPLY_OK and REJECT send the frame; the events follow, for a REJECT at  *)
(* the top of the loop, where REPLY_OK's own flush is merged with it.      *)
Reply ==
    /\ tpc = "reply"
    /\ SendFrames(<<ReplyFrame(treq, tres)>>, AfterReply)
    /\ UNCHANGED <<threadKeeps, conn, threadVars, clientFd, bridgeVars,
                   eventQueue, agentVars, queuedBytes, execs, outcome>>

FlushQuit ==
    /\ tpc = "flushQuit"
    /\ FlushEvents("submit")
    /\ UNCHANGED <<threadKeeps, conn, threadVars, clientFd, bridgeVars,
                   agentVars, execs, outcome>>

AfterBridge == IF kind[treq] = "quit" THEN "top" ELSE "reply"

(* What submit_and_wait leaves behind; nothing reads the request and the   *)
(* reply again.                                                            *)
FreeBridge == pending' = FALSE /\ done' = FALSE /\ breq' = NoReq /\ breply' = "none"

(* submit_and_wait, up to the first wait: under bridge_mu_.                *)
Submit ==
    /\ tpc = "submit"
    /\ IF pending
       THEN /\ outcome' = [outcome EXCEPT ![treq] = "busy"]
            /\ tres' = "busy"
            /\ tpc' = AfterBridge
            /\ UNCHANGED bridgeVars
       ELSE /\ IF stop
               THEN /\ FreeBridge
                    /\ outcome' = [outcome EXCEPT ![treq] = "stopped"]
                    /\ tpc' = "leave"
               ELSE /\ pending' = TRUE
                    /\ done' = FALSE
                    /\ breq' = treq
                    /\ breply' = "none"
                    /\ tpc' = "wait"
                    /\ UNCHANGED outcome
            /\ UNCHANGED tres
    /\ UNCHANGED <<threadKeeps, conn, wire, cur, handshaked, treq, clientFd,
                   eventQueue, agentVars, queuedBytes, execs>>

(* The wait ends with the request done.                                    *)
Woken ==
    /\ tpc = "wait"
    /\ done
    /\ outcome' = [outcome EXCEPT ![treq] = breply]
    /\ tres' = breply
    /\ FreeBridge
    /\ tpc' = AfterBridge
    /\ UNCHANGED <<threadKeeps, conn, wire, cur, handshaked, treq, clientFd,
                   eventQueue, agentVars, queuedBytes, execs>>

(* A timeout that does not look at bridge_done_ again.                     *)
TimedOutBlind ==
    /\ tpc = "wait"
    /\ FreeBridge
    /\ outcome' = [outcome EXCEPT ![treq] = "timeout"]
    /\ tres' = "timeout"
    /\ tpc' = AfterBridge
    /\ UNCHANGED <<threadKeeps, conn, wire, cur, handshaked, treq, clientFd,
                   eventQueue, agentVars, queuedBytes, execs>>

(* A timeout that leaves its request in the bridge.                        *)
TimedOutKeeps ==
    /\ tpc = "wait"
    /\ ~done
    /\ outcome' = [outcome EXCEPT ![treq] = "timeout"]
    /\ tres' = "timeout"
    /\ tpc' = AfterBridge
    /\ UNCHANGED <<threadKeeps, conn, wire, cur, handshaked, treq, clientFd,
                   bridgeVars, eventQueue, agentVars, queuedBytes, execs>>

(* The deadline passed and the request has not been dispatched: cancel it. *)
(* With the request done, the wait ends as in Woken.                       *)
TimedOut ==
    /\ tpc = "wait"
    /\ ~done
    /\ FreeBridge
    /\ outcome' = [outcome EXCEPT ![treq] = "timeout"]
    /\ tres' = "timeout"
    /\ tpc' = AfterBridge
    /\ UNCHANGED <<threadKeeps, conn, wire, cur, handshaked, treq, clientFd,
                   eventQueue, agentVars, queuedBytes, execs>>

(* A spurious wake-up with stop_ set and nothing done.                     *)
WaitStopped ==
    /\ tpc = "wait"
    /\ stop /\ ~done
    /\ FreeBridge
    /\ outcome' = [outcome EXCEPT ![treq] = "stopped"]
    /\ tpc' = "leave"
    /\ UNCHANGED <<threadKeeps, conn, wire, threadVars, clientFd,
                   eventQueue, agentVars, queuedBytes, execs>>

(* After serve_client returned.                                            *)
LeaveDisarm ==
    /\ tpc = "leave"
    /\ agentSub' = FALSE
    /\ tpc' = "left"
    /\ UNCHANGED <<threadKeeps, conn, wire, threadVars, clientFd, bridgeVars, eventQueue,
                   discPending, installed, sub, sequence, retained, dropped, queuedBytes,
                   execs, outcome>>

(* A disconnect the main thread is not told of.                            *)
LeaveCloseSilent ==
    /\ tpc = "left"
    /\ clientFd' = NoConn
    /\ wire' = [wire EXCEPT ![cur] = << >>]
    /\ conn' = [conn EXCEPT ![cur] = "over"]
    /\ cur' = NoConn /\ handshaked' = FALSE /\ treq' = NoReq /\ tres' = "none"
    /\ tpc' = IF stop THEN "done" ELSE "accept"
    /\ UNCHANGED <<threadKeeps, bridgeVars, eventQueue, agentVars, queuedBytes,
                   execs, outcome>>

LeaveClose ==
    /\ tpc = "left"
    /\ discPending' = TRUE
    /\ clientFd' = NoConn
    /\ wire' = [wire EXCEPT ![cur] = << >>]
    /\ conn' = [conn EXCEPT ![cur] = "over"]
    /\ cur' = NoConn /\ handshaked' = FALSE /\ treq' = NoReq /\ tres' = "none"
    /\ tpc' = IF stop THEN "done" ELSE "accept"
    /\ UNCHANGED <<threadKeeps, bridgeVars, eventQueue,
                   agentSub, installed, sub, sequence, retained, dropped, queuedBytes,
                   execs, outcome>>

(* What waits for a client to connect or to send.                          *)
Serve == ReadRequest \/ \E c \in Conn : Accept(c)

(* What the thread does by itself.                                         *)
Thread ==
    \/ AcceptFails \/ Accepted \/ Publish
    \/ FlushTop \/ PollAgain \/ PollHungUp \/ Reply \/ FlushQuit
    \/ Submit \/ Woken
    \/ LeaveDisarm \/ LeaveClose

-----------------------------------------------------------------------------
(* The main thread: one frame calls process_main_thread and runs the       *)
(* machine, which may stop or produce records; AppQuit calls stop.         *)

mainKeeps == <<conn, kind, from, nreq, wire, tpc, threadVars>>

(* A disconnect that disarms whatever subscription there is by now.        *)
ProcessDisconnectAny ==
    /\ mpc = "idle"
    /\ discPending' = FALSE
    /\ installed' = IF discPending THEN FALSE ELSE installed
    /\ mpc' = "bridge"
    /\ UNCHANGED <<mainKeeps, hung, clientFd, bridgeVars, eventQueue, nevents, agentSub,
                   sub, sequence, retained, dropped, queuedBytes, stop, lfd, execs, outcome>>

(* process_main_thread, before it takes the lock.                          *)
ProcessDisconnect ==
    /\ mpc = "idle"
    /\ discPending' = FALSE
    /\ installed' = IF discPending /\ ~agentSub THEN FALSE ELSE installed
    /\ mpc' = "bridge"
    /\ UNCHANGED <<mainKeeps, hung, clientFd, bridgeVars, eventQueue, nevents, agentSub,
                   sub, sequence, retained, dropped, queuedBytes, stop, lfd, execs, outcome>>

NothingToProcess ==
    /\ mpc = "bridge"
    /\ ~pending \/ done
    /\ mpc' = "idle"
    /\ UNCHANGED <<mainKeeps, hung, clientFd, bridgeVars, eventQueue, nevents, agentVars,
                   queuedBytes, stop, lfd, execs, outcome>>

StateEvent(r) == [what |-> "state", by |-> r, sub |-> NoReq, n |-> 0]
AgentRecord(r, n) == [what |-> "agent", by |-> r, sub |-> sub, n |-> n]

IsAgent(item) == item.what = "agent"

(* What event_mu_ guards.                                                  *)
Backlog == [queue |-> eventQueue, kept |-> retained, lost |-> dropped, bytes |-> queuedBytes]

BacklogBecomes(b) ==
    eventQueue' = b.queue /\ retained' = b.kept /\ dropped' = b.lost /\ queuedBytes' = b.bytes

(* enqueue_event.                                                          *)
WithEvent(b, r) == [b EXCEPT !.queue = Append(@, StateEvent(r))]

(* emit_agent_record: the caps count what is waiting.                      *)
NoRoom(b) == Len(b.queue) >= AgentCap \/ b.bytes >= ByteCap

(* A queue that takes a record at its front.                               *)
WithRecordFirst(b, record, fits) ==
    IF ~fits \/ NoRoom(b)
    THEN [b EXCEPT !.lost = @ + 1]
    ELSE [b EXCEPT !.queue = <<record>> \o @, !.kept = @ + 1, !.bytes = @ + 1]

(* A record is dropped and counted when its text is too long for a frame   *)
(* (~fits) or one of the caps is reached.                                  *)
WithRecord(b, record, fits) ==
    IF ~fits \/ NoRoom(b)
    THEN [b EXCEPT !.lost = @ + 1]
    ELSE [b EXCEPT !.queue = Append(@, record), !.kept = @ + 1, !.bytes = @ + 1]

(* emit_stopped_pause, emit_run_state: an EVENT, and the record of it when *)
(* a subscription selects it.  Such a record is short.                     *)
Announced(b, r, n, selected) ==
    IF selected THEN WithRecord(WithEvent(b, r), AgentRecord(r, n), TRUE) ELSE WithEvent(b, r)

(* The commands, executed under bridge_mu_.                                *)
Executing(k) ==
    /\ mpc = "bridge"
    /\ pending /\ ~done
    /\ kind[breq] = k
    /\ execs' = [execs EXCEPT ![breq] = @ + 1]
    /\ done' = TRUE
    /\ UNCHANGED <<mainKeeps, hung, clientFd, pending, breq, nevents, discPending,
                   stop, lfd, outcome>>

(* A command that leaves the server alone, a SUBSCRIBE that is invalid or  *)
(* asks for the status among them; it may fail.                            *)
ExecQuery ==
    /\ Executing("query")
    /\ breply' \in {"ok", "refused"}
    /\ mpc' = "idle"
    /\ UNCHANGED <<eventQueue, agentSub, installed, sub, sequence, retained, dropped, queuedBytes>>

(* PAUSE enqueues EVT_STOPPED and EVT_RUN_STATE, each with a record for a  *)
(* subscriber whose filters select it.                                     *)
ExecPause ==
    /\ Executing("pause")
    /\ breply' = "ok"
    /\ mpc' = "idle"
    /\ \E selected \in BOOLEAN :
          /\ selected => agentSub
          /\ BacklogBecomes(Announced(Announced(Backlog, breq, sequence, selected),
                                      breq, sequence + 1, selected))
          /\ sequence' = IF selected THEN sequence + 2 ELSE sequence
    /\ UNCHANGED <<agentSub, installed, sub>>

(* CONTINUE and STEP_INTO enqueue EVT_RUN_STATE.                           *)
ExecContinue ==
    /\ Executing("continue")
    /\ breply' = "ok"
    /\ mpc' = "idle"
    /\ \E selected \in BOOLEAN :
          /\ selected => agentSub
          /\ BacklogBecomes(Announced(Backlog, breq, sequence, selected))
          /\ sequence' = IF selected THEN sequence + 1 ELSE sequence
    /\ UNCHANGED <<agentSub, installed, sub>>

(* SUBSCRIBE drops the records of an earlier subscription.                 *)
Purged ==
    LET kept[i \in 0 .. Len(eventQueue)] ==
            IF i = 0 THEN << >>
            ELSE IF IsAgent(eventQueue[i]) THEN kept[i - 1]
            ELSE Append(kept[i - 1], eventQueue[i])
    IN  kept[Len(eventQueue)]

ExecOn ==
    /\ Executing("on")
    /\ mpc' = "idle"
    /\ IF agentSub
       THEN /\ breply' = "refused"
            /\ UNCHANGED <<eventQueue, agentSub, installed, sub, sequence, retained, dropped,
                           queuedBytes>>
       ELSE /\ breply' = "ok"
            /\ eventQueue' = Purged
            /\ sub' = breq
            /\ sequence' = 0 /\ retained' = 0 /\ dropped' = 0 /\ queuedBytes' = 0
            /\ agentSub' = TRUE
            /\ installed' = TRUE

ExecOff ==
    /\ Executing("off")
    /\ mpc' = "idle"
    /\ IF agentSub
       THEN breply' = "ok" /\ agentSub' = FALSE /\ installed' = FALSE
       ELSE breply' = "refused" /\ UNCHANGED <<agentSub, installed>>
    /\ UNCHANGED <<eventQueue, sub, sequence, retained, dropped, queuedBytes>>

(* QUIT makes this frame the last: SDL calls AppQuit.                      *)
ExecQuit ==
    /\ Executing("quit")
    /\ breply' = "ok"
    /\ mpc' = "stopDisarm"
    /\ UNCHANGED <<eventQueue, agentSub, installed, sub, sequence, retained, dropped, queuedBytes>>

(* A breakpoint or a finished step: emit_stopped, emit_run_state.          *)
MachineStops ==
    /\ mpc = "idle"
    /\ nevents < MaxEvents
    /\ nevents' = nevents + 1
    /\ eventQueue' = Append(eventQueue, StateEvent(NoReq))
    /\ UNCHANGED <<mainKeeps, hung, clientFd, bridgeVars, agentVars, queuedBytes, mpc,
                   stop, lfd, execs, outcome>>

(* emit_agent_record: agent_subscription_ is read without a lock ...       *)
EmitCheck ==
    /\ mpc = "idle"
    /\ installed /\ agentSub
    /\ nevents < MaxEvents
    /\ nevents' = nevents + 1
    /\ sequence' = sequence + 1
    /\ mpc' = "emit"
    /\ UNCHANGED <<mainKeeps, hung, clientFd, bridgeVars, eventQueue, agentSub, discPending,
                   installed, sub, retained, dropped, queuedBytes, stop, lfd, execs, outcome>>

(* ... and the record is enqueued under event_mu_.                         *)
EmitEnqueue ==
    /\ mpc = "emit"
    /\ \E fits \in BOOLEAN :
          BacklogBecomes(WithRecord(Backlog, AgentRecord(NoReq, sequence - 1), fits))
    /\ mpc' = "idle"
    /\ UNCHANGED <<mainKeeps, hung, clientFd, bridgeVars, nevents, agentSub, discPending,
                   installed, sub, sequence, stop, lfd, execs, outcome>>

-----------------------------------------------------------------------------
(* stop(), on the main thread.                                             *)

stopKeeps == <<conn, kind, from, nreq, wire, tpc, threadVars, eventQueue,
               nevents, queuedBytes, execs, outcome>>

(* The user quits.                                                         *)
AppQuit ==
    /\ mpc = "idle"
    /\ mpc' = "stopDisarm"
    /\ UNCHANGED <<stopKeeps, hung, clientFd, bridgeVars, agentVars, stop, lfd>>

StopDisarm ==
    /\ mpc = "stopDisarm"
    /\ agentSub' = FALSE
    /\ installed' = FALSE
    /\ mpc' = "stopFlag"
    /\ UNCHANGED <<stopKeeps, hung, clientFd, bridgeVars, discPending, sub, sequence, retained,
                   dropped, stop, lfd>>

StopFlag ==
    /\ mpc = "stopFlag"
    /\ stop' = TRUE
    /\ mpc' = "stopWake"
    /\ UNCHANGED <<stopKeeps, hung, clientFd, bridgeVars, agentVars, lfd>>

(* A stop that trusts the flag to be seen.                                 *)
StopWakeNone ==
    /\ mpc = "stopWake"
    /\ mpc' = "stopClient"
    /\ UNCHANGED <<stopKeeps, hung, clientFd, bridgeVars, agentVars, stop, lfd>>

(* wake_bridge_locked.                                                     *)
StopWake ==
    /\ mpc = "stopWake"
    /\ mpc' = "stopClient"
    /\ IF pending /\ ~done
       THEN breply' = "aborted" /\ done' = TRUE
       ELSE UNCHANGED <<breply, done>>
    /\ UNCHANGED <<stopKeeps, hung, clientFd, pending, breq, agentVars, stop, lfd>>

(* client_fd_ is taken and shut down; the thread may have closed it since  *)
(* it was published only after it has cleared client_fd_.                  *)
StopClient ==
    /\ mpc = "stopClient"
    /\ clientFd' = NoConn
    /\ hung' = [c \in Conn |-> hung[c] \/ c = clientFd]
    /\ mpc' = "stopListen"
    /\ UNCHANGED <<stopKeeps, bridgeVars, agentVars, stop, lfd>>

StopListen ==
    /\ mpc = "stopListen"
    /\ lfd' = FALSE
    /\ mpc' = "join"
    /\ UNCHANGED <<stopKeeps, hung, clientFd, bridgeVars, agentVars, stop>>

StopJoin ==
    /\ mpc = "join"
    /\ tpc = "done"
    /\ mpc' = "stopped"
    /\ UNCHANGED <<stopKeeps, hung, clientFd, bridgeVars, agentVars, stop, lfd>>

Exec == ExecQuery \/ ExecPause \/ ExecContinue \/ ExecOn \/ ExecOff \/ ExecQuit

Stopping ==
    StopDisarm \/ StopFlag \/ StopWake \/ StopClient \/ StopListen \/ StopJoin

(* What every frame does, and what a stop in progress does.                *)
Frame == ProcessDisconnect \/ NothingToProcess \/ Exec \/ EmitEnqueue \/ Stopping

Stopped == mpc = "stopped" /\ UNCHANGED vars

Client == \E c \in Conn : HangUp(c)

Next ==
    \/ Client \/ Serve \/ Thread \/ TimedOut \/ WaitStopped
    \/ Frame \/ MachineStops \/ EmitCheck \/ AppQuit \/ Stopped

Spec == Init /\ [][Next]_vars

(* The thread's loop polls for 50 ms, the main loop runs every frame.  No  *)
(* fairness for TimedOut and WaitStopped, nor for what waits for a client: *)
(* what is to follow must not need the deadline, a spurious wake-up or the *)
(* client.                                                                 *)
FairSpec == Spec /\ WF_vars(Thread) /\ WF_vars(Frame)

-----------------------------------------------------------------------------
(* A request is executed at most once: one that was answered with a        *)
(* timeout, refused as busy or given up by stop() never is, not even       *)
(* later, and one answered with a result was.                              *)
ExecutedOnce ==
    \A r \in Req :
        /\ execs[r] <= 1
        /\ outcome[r] \in {"timeout", "busy", "stopped", "aborted"} => execs[r] = 0
        /\ outcome[r] \in {"ok", "refused"} => execs[r] = 1

(* The bridge is free whenever the thread comes to submit: no earlier      *)
(* timeout, hang-up or error leaves it taken, so E_BUSY is never answered. *)
NeverBusy == tpc = "submit" => ~pending

(* What executing a request made the server announce follows the reply to  *)
(* that request on the client's stream.                                    *)
EventsFollowReply ==
    \A c \in Conn : \A i, j \in 1 .. Len(wire[c]) :
        i < j /\ wire[c][i].type = "EVENT" /\ wire[c][j].type # "EVENT"
            => wire[c][i].req # wire[c][j].req

(* A QUIT that was executed had been acknowledged to its client, if that   *)
(* is still there: stop() shuts the socket down in the same frame.         *)
QuitAcked ==
    \A r \in Req :
        kind[r] = "quit" /\ execs[r] > 0 /\ conn[from[r]] = "served" =>
            \E i \in 1 .. Len(wire[from[r]]) :
                wire[from[r]][i].req = r /\ wire[from[r]][i].type = "ok"

(* While a subscription is on, the machine is observed and the client that *)
(* asked for it is the one being served: the disconnect of an earlier      *)
(* client, processed late, does not take the new one's observer away.      *)
SubscribedMeansObserved == agentSub => installed /\ cur = from[sub]

(* The places of a subscription's records among frames.                    *)
RecordsIn(frames) ==
    {i \in DOMAIN frames :
        frames[i].type = "EVENT" /\ IsAgent(frames[i].item) /\ frames[i].item.sub = sub}

(* A subscriber that stays connected gets every record that was retained,  *)
(* once and in sequence, and the counters account for every gap: the       *)
(* stream is what the client was sent and then what is queued.             *)
StreamComplete ==
    sub # NoReq /\ cur = from[sub] /\ tpc \notin {"leave", "left"} =>
        LET stream == wire[cur] \o EventFrames
            records == RecordsIn(stream)
        IN  /\ Cardinality(records) = retained
            /\ \A i, j \in records : i < j => stream[i].item.n < stream[j].item.n
            /\ retained + dropped + (IF mpc = "emit" THEN 1 ELSE 0) = sequence
            /\ queuedBytes = Cardinality(RecordsIn(EventFrames))

(* stop() returns, whatever the thread was waiting for, without the help   *)
(* of a timeout.                                                           *)
StopReturns == mpc = "stopFlag" ~> mpc = "stopped"

(* When its client has gone, a subscription's observer is removed.         *)
ObserverRemoved == installed /\ ~agentSub ~> ~installed \/ agentSub
=============================================================================
