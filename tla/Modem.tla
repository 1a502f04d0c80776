------------------------------- MODULE Modem -------------------------------
(***************************************************************************)
(* ModemDevice, a serial device with a thread of its own, between the two  *)
(* rings it shares with the emulator thread and a TCP connection, and      *)
(* SerialDevice::stop, which the emulator thread calls to end it.          *)
(*                                                                         *)
(* The device is a record d, so that a handler that calls another is the   *)
(* composition of two functions of d.  A ring is a bounded queue: SpscRing *)
(* shows that this is what it implements.  A result code ("OK", "CONNECT", *)
(* "NO CARRIER", ...) is one item of the ring, and like every q_dev.send   *)
(* it is dropped when the ring is full.  What the guest sends is cut into  *)
(* pieces: a '+', a byte 0xFF, or a line of text with its CR, which in     *)
(* command mode is a command ("dial" is ATD and an address, "hang" ATH or  *)
(* ATZ, "line" any other) and in data mode is data.  Of command_buffer it  *)
(* matters whether a '+' stands before the next line; whether ATE has put  *)
(* the echo on is left open.  Time is quiet, the time since last_char_time *)
(* in three classes.                                                       *)
(***************************************************************************)
EXTENDS Integers, Sequences

CONSTANTS
    RingCap,    \* messages a SerialQueue holds
    BufCap,     \* the 4096 bytes tcp_buffer may hold before a read
    ReadMax,    \* the 256 bytes of one read
    Slices,     \* the 50 ms slices of a dial_wait
    Char,       \* the characters the guest sends
    MaxEvents,  \* what the guest and the remote host do, together
    Script,     \* what the remote host sends on a connection, bytes and telnet commands
    MaxConn     \* connections the network grants

Lines == {"dial", "hang", "line"}
AllChars == Lines \cup {"plus", "ff"}

(* A byte, 0xFF, a telnet command with an option (WONT and DONT are both   *)
(* "wont") or one without: SB, SE, NOP and the rest are "other".           *)
AllTokens == {"a", "ff", "will", "wont", "do", "other"}

ASSUME SizeAssumption ==
    /\ {RingCap, BufCap, ReadMax, Slices} \subseteq Nat \ {0}
    /\ {MaxEvents, MaxConn} \subseteq Nat
ASSUME AlphabetAssumption == Char \subseteq AllChars /\ Script \in Seq(AllTokens)

VARIABLES
    d,         \* the device: the members of ModemDevice, and q_dev
    pc,        \* where device_loop is
    slices,    \* slices the current dial_wait has waited
    qHost,     \* q_host
    \* the network
    conn,      \* connections made so far; the number of the current one
    quiet,     \* 0: under 500 ms, 1: under ESCAPE_GUARD_TIME_MS, 2: no less
    \* the port and the emulator thread
    spc,       \* where stop() is
    dtrOut,    \* the DTR the port has told the device
    dcdIn,     \* the DCD the device has told the port
    events     \* what the guest and the remote host have done

vars == <<d, pc, slices, qHost, conn, quiet, spc, dtrOut, dcdIn, events>>

(* The socket: the connection behind it, and what passed on it.  alive:    *)
(* the remote end is up; in: what it sent and was not read yet; out: what  *)
(* was written to it; sent: how much of the script it has sent; got: what  *)
(* the guest received of it; typed: what the guest typed for it.           *)
NoSocket ==
    [st |-> "none", alive |-> FALSE, in |-> << >>, out |-> << >>, sent |-> 0, got |-> << >>,
     typed |-> << >>]

Data(c, b) == [type |-> "DATA", conn |-> c, b |-> b]
Status(b) == [type |-> "STATUS", conn |-> 0, b |-> b]
Result == [type |-> "DATA", conn |-> 0, b |-> "text"]

Message(t, b) == [type |-> t, b |-> b]

(* The sequences of a sequence, one after the other.                       *)
Joined(ss) ==
    LET upTo[n \in 0 .. Len(ss)] == IF n = 0 THEN << >> ELSE upTo[n - 1] \o ss[n]
    IN  upTo[Len(ss)]

-----------------------------------------------------------------------------
(* The functions the handlers are made of.                                 *)

(* One message more than the ring holds.                                   *)
QueueFullLate(e) == Len(e.qDev) > RingCap

QueueFull(e) == Len(e.qDev) >= RingCap

(* q_dev.send: a message into a full ring is dropped.                      *)
Send(e, msg) == IF QueueFull(e) THEN e ELSE [e EXCEPT !.qDev = Append(@, msg)]

SendResponse(e) == Send(e, Result)

Hangup(e) ==
    [e EXCEPT !.socket = NoSocket, !.state = "COMMAND", !.telnet = "DATA", !.buffer = << >>]

(* 0xFF goes out doubled.                                                  *)
Escaped(b) == IF b = "ff" THEN <<"iac", "iac">> ELSE <<b>>

(* Successive calls of send_tcp_data, of which the first n succeed; the    *)
(* one that fails hangs up, and the rest find no socket.                   *)
SendTcp(e, bytes, n) ==
    LET ok == IF n < Len(bytes) THEN SubSeq(bytes, 1, n) ELSE bytes
        w == [e EXCEPT !.socket.out = @ \o Joined([i \in 1 .. Len(ok) |-> Escaped(ok[i])])]
    IN  IF e.socket.st = "none" THEN e
        ELSE IF n < Len(bytes) THEN Hangup(SendResponse(w))
        ELSE w

(* The writes that can succeed: all, unless the remote end is gone.        *)
Writes == IF d.socket.alive THEN {4} ELSE 0 .. 4

Pluses(n) == [i \in 1 .. n |-> "plus"]

SendTelnetResponse(e, c) == [e EXCEPT !.socket.out = @ \o <<"iac", c, "opt">>]

(* The answer to an option: BINARY, ECHO and SUPPRESS_GO_AHEAD accepted,   *)
(* anything else refused, is one answer here; WONT and DONT get none.      *)
ProcessTelnetByte(e, b) ==
    CASE e.telnet = "DATA" ->
           IF b = "iac" THEN [e EXCEPT !.telnet = "IAC"] ELSE [e EXCEPT !.buffer = Append(@, b)]
      [] e.telnet = "IAC" ->
           IF b = "iac" THEN [e EXCEPT !.buffer = Append(@, "ff"), !.telnet = "DATA"]
           ELSE IF b \in {"will", "wont", "do"}
           THEN [e EXCEPT !.telnet = "NEGOTIATE", !.command = b]
           ELSE [e EXCEPT !.telnet = "DATA"]
      [] e.telnet = "NEGOTIATE" ->
           [(CASE e.command = "will" -> SendTelnetResponse(e, "do")
               [] e.command = "do" -> SendTelnetResponse(e, "will")
               [] OTHER -> e) EXCEPT !.telnet = "DATA"]

(* The bytes of a read, one after the other.                               *)
ProcessTelnet(e, bytes) ==
    LET after[n \in 0 .. Len(bytes)] ==
            IF n = 0 THEN e ELSE ProcessTelnetByte(after[n - 1], bytes[n])
    IN  after[Len(bytes)]

(* The ring takes what it has room for, the buffer loses all of it.        *)
DrainDrops(e) ==
    LET room == RingCap - Len(e.qDev)
        n == IF room < Len(e.buffer) THEN room ELSE Len(e.buffer)
    IN  [e EXCEPT !.qDev = @ \o [i \in 1 .. n |-> Data(conn, e.buffer[i])], !.buffer = << >>]

(* drain_tcp_buffer_to_queue                                               *)
Drain(e) ==
    LET room == RingCap - Len(e.qDev)
        n == IF room < Len(e.buffer) THEN room ELSE Len(e.buffer)
    IN  [e EXCEPT !.qDev = @ \o [i \in 1 .. n |-> Data(conn, e.buffer[i])],
                  !.buffer = SubSeq(@, n + 1, Len(@))]

-----------------------------------------------------------------------------
(* The device thread.                                                      *)

NewDevice ==
    [state |-> "COMMAND", socket |-> NoSocket, spoilt |-> FALSE, escapeCount |-> 0,
     telnet |-> "DATA", command |-> "none", buffer |-> << >>, shutdownPending |-> FALSE,
     lastDcd |-> "unknown", lastDtr |-> FALSE, dtrSeen |-> FALSE, qDev |-> << >>]

World == <<qHost, conn, quiet, spc, dtrOut, dcdIn, events>>

Carrier == IF d.socket.st # "none" THEN "up" ELSE "down"

(* The change counts as reported even when the ring had no room for it.    *)
ReportLinesOnce(e) ==
    IF e.lastDcd = Carrier THEN e ELSE [Send(e, Status(Carrier)) EXCEPT !.lastDcd = Carrier]

(* report_lines: a change the ring has no room for is tried again.         *)
ReportLines(e) ==
    IF e.lastDcd = Carrier \/ QueueFull(e) THEN e
    ELSE [Send(e, Status(Carrier)) EXCEPT !.lastDcd = Carrier]

(* A round of device_loop starts with report_lines and, in data mode,      *)
(* check_tcp_data, which without a socket, or with the buffer full, reads  *)
(* nothing.                                                                *)
Reads == d.state = "ONLINE" /\ d.socket.st # "none"

RoundNoRead ==
    /\ pc = "top"
    /\ pc' = "host"
    /\ IF Reads THEN d' = Drain(ReportLines(d)) /\ Len(d'.buffer) >= BufCap
       ELSE d' = ReportLines(d)
    /\ UNCHANGED <<World, slices>>

RoundRead ==
    /\ pc = "top" /\ Reads
    /\ LET e == Drain(ReportLines(d)) IN
       /\ Len(e.buffer) < BufCap
       /\ \E n \in 0 .. ReadMax :
             /\ n <= Len(e.socket.in)
             /\ d' = [Drain(ProcessTelnet(e, SubSeq(e.socket.in, 1, n))) EXCEPT
                         !.socket.in = SubSeq(@, n + 1, Len(@))]
    /\ pc' = "host"
    /\ UNCHANGED <<World, slices>>

(* The read fails: the remote end is gone and all it sent has been read.   *)
RoundLost ==
    /\ pc = "top" /\ Reads
    /\ LET e == Drain(ReportLines(d)) IN
       /\ Len(e.buffer) < BufCap
       /\ ~e.socket.alive /\ e.socket.in = << >>
       /\ d' = Hangup(SendResponse(e))
    /\ pc' = "host"
    /\ UNCHANGED <<World, slices>>

(* The next message of the host ring; every handler starts with it.        *)
Take(t) ==
    /\ pc = "host"
    /\ qHost # << >>
    /\ Head(qHost).type = t
    /\ qHost' = Tail(qHost)
    /\ UNCHANGED <<conn, spc, dtrOut, dcdIn, events>>

Byte == Head(qHost).b

(* MESSAGE_SHUTDOWN                                                        *)
HostShutdown ==
    /\ Take("SHUTDOWN")
    /\ d' = Hangup(d)
    /\ pc' = "exited"
    /\ UNCHANGED <<slices, quiet>>

(* A byte in command mode is echoed when the echo is on; 0xFF is ignored,  *)
(* a '+' waits in command_buffer and spoils the line that follows it, and  *)
(* every command but ATD answers once.                                     *)
Echo(e, on) == IF on THEN Send(e, Result) ELSE e

HostCommand ==
    /\ Take("DATA")
    /\ d.state = "COMMAND" /\ (Byte = "dial" => d.spoilt)
    /\ \E on \in BOOLEAN :
          d' = CASE Byte = "ff" -> Echo(d, on)
                 [] Byte = "plus" -> [Echo(d, on) EXCEPT !.spoilt = TRUE]
                 [] Byte = "line" \/ (Byte \in Lines /\ d.spoilt) ->
                       SendResponse([Echo(d, on) EXCEPT !.spoilt = FALSE])
                 [] Byte = "hang" /\ ~d.spoilt -> SendResponse(Hangup(Echo(d, on)))
    /\ quiet' = 0
    /\ UNCHANGED <<pc, slices>>

(* dial: an old connection is hung up; no address, a bad port number or a  *)
(* resolver that does not start ends it at once, otherwise it waits.       *)
Dial ==
    /\ Take("DATA")
    /\ d.state = "COMMAND" /\ Byte = "dial" /\ ~d.spoilt
    /\ \E on \in BOOLEAN :
          LET e == IF d.socket.st # "none" THEN Hangup(Echo(d, on)) ELSE Echo(d, on) IN
          \/ d' = e /\ pc' = "resolve" /\ slices' = 0
          \/ d' = SendResponse(e) /\ UNCHANGED <<pc, slices>>
    /\ quiet' = 0

(* The way out of a dial that failed, was aborted or timed out, and the    *)
(* shutdown test that follows every message.                               *)
DialFails(e) ==
    LET f == SendResponse([e EXCEPT !.socket = NoSocket]) IN
    IF f.shutdownPending THEN d' = Hangup(f) /\ pc' = "exited" ELSE d' = f /\ pc' = "host"

(* dial_aborted takes messages up to the first DATA or SHUTDOWN.  Of a     *)
(* line it takes the first character, and the rest is no command.          *)
Aborting(m) == m.type \in {"DATA", "SHUTDOWN"}
RestOf(m) == IF m.b \in Lines THEN <<[m EXCEPT !.b = "line"]>> ELSE << >>

(* A slice of dial_wait that ends with NET_WAITING.                        *)
DialSlice ==
    /\ pc \in {"resolve", "connect"} /\ slices < Slices
    /\ \/ /\ \A k \in 1 .. Len(qHost) : ~Aborting(qHost[k])
          /\ qHost' = << >>
          /\ slices' = slices + 1
          /\ UNCHANGED <<d, pc>>
       \/ \E n \in 1 .. Len(qHost) :
             /\ Aborting(qHost[n]) /\ \A k \in 1 .. n - 1 : ~Aborting(qHost[k])
             /\ qHost' = RestOf(qHost[n]) \o SubSeq(qHost, n + 1, Len(qHost))
             /\ DialFails([d EXCEPT !.shutdownPending = qHost[n].type = "SHUTDOWN"])
             /\ slices' = 0
    /\ UNCHANGED <<conn, quiet, spc, dtrOut, dcdIn, events>>

(* A slice that ends with NET_FAILURE, or the last one has passed; also a  *)
(* NET_CreateClient that fails.                                            *)
DialFailed ==
    /\ pc \in {"resolve", "connect"}
    /\ DialFails(d)
    /\ slices' = 0
    /\ UNCHANGED World

Resolved ==
    /\ pc = "resolve" /\ slices < Slices
    /\ d' = [d EXCEPT !.socket.st = "dialing"]
    /\ pc' = "connect"
    /\ slices' = 0
    /\ UNCHANGED World

(* Connected: data mode, the telnet machine and the buffer start afresh,   *)
(* BINARY is negotiated both ways.  escape_count is not reset: what an     *)
(* earlier connection left in it will be sent to this one.                 *)
Connected ==
    /\ pc = "connect" /\ slices < Slices
    /\ conn < MaxConn
    /\ conn' = conn + 1
    /\ LET up == [NoSocket EXCEPT !.st = "up", !.alive = TRUE, !.typed = Pluses(d.escapeCount)]
           e == [d EXCEPT !.socket = up, !.state = "ONLINE", !.telnet = "DATA", !.buffer = << >>]
       IN  d' = SendResponse(SendTelnetResponse(SendTelnetResponse(e, "will"), "do"))
    /\ pc' = "host"
    /\ slices' = 0
    /\ UNCHANGED <<qHost, quiet, spc, dtrOut, dcdIn, events>>

(* The byte joins what the guest typed for the remote host.                *)
Typed(e) == IF e.socket.st = "up" THEN [e EXCEPT !.socket.typed = Append(@, Byte)] ELSE e

(* A '+' in data mode: the first after the guard time, and the ones that   *)
(* follow it quickly, are held back.  One that finds three held back by an *)
(* earlier connection is neither sent nor counted.                         *)
Held == d.escapeCount < 3 /\ IF d.escapeCount = 0 THEN quiet = 2 ELSE quiet = 0

OnlinePlus ==
    /\ Take("DATA")
    /\ d.state = "ONLINE" /\ Byte = "plus" /\ (Held \/ d.escapeCount = 3)
    /\ d' = IF Held
            THEN [Typed(d) EXCEPT !.escapeCount = @ + 1,
                                  !.state = IF d.escapeCount = 2 THEN "ESCAPE" ELSE @]
            ELSE d
    /\ quiet' = 0
    /\ UNCHANGED <<pc, slices>>

(* The held characters are forgotten when another one follows.             *)
OnlineSendForgets ==
    /\ Take("DATA")
    /\ d.state = "ONLINE" /\ ~(Byte = "plus" /\ (Held \/ d.escapeCount = 3))
    /\ \E n \in Writes : d' = [SendTcp(Typed(d), <<Byte>>, n) EXCEPT !.escapeCount = 0]
    /\ quiet' = 0
    /\ UNCHANGED <<pc, slices>>

(* Any other character, or a '+' at the wrong time, goes out after the     *)
(* ones held back.                                                         *)
OnlineSend ==
    /\ Take("DATA")
    /\ d.state = "ONLINE" /\ ~(Byte = "plus" /\ (Held \/ d.escapeCount = 3))
    /\ \E n \in Writes :
          d' = [SendTcp(Typed(d), Append(Pluses(d.escapeCount), Byte), n) EXCEPT !.escapeCount = 0]
    /\ quiet' = 0
    /\ UNCHANGED <<pc, slices>>

(* A character within the guard time after +++ aborts the escape: all goes *)
(* out and the modem is back in data mode, whatever the writes did.  One   *)
(* after the guard time that the loop sees before it tests the time itself *)
(* is dropped, and the guard time starts again.                            *)
EscapeChar ==
    /\ Take("DATA")
    /\ d.state = "ESCAPE"
    /\ IF quiet < 2
       THEN \E n \in Writes :
               d' = [SendTcp(Typed(d), Append(Pluses(3), Byte), n) EXCEPT
                        !.state = "ONLINE", !.escapeCount = 0]
       ELSE UNCHANGED d
    /\ quiet' = 0
    /\ UNCHANGED <<pc, slices>>

(* MESSAGE_MODEM_CTL: a DTR drop with a socket hangs up.                   *)
HostModemCtl ==
    /\ Take("MODEM_CTL")
    /\ LET e == IF d.dtrSeen /\ d.lastDtr /\ Byte = "off" /\ d.socket.st # "none"
                THEN SendResponse(Hangup(d)) ELSE d
       IN  d' = [e EXCEPT !.lastDtr = Byte = "on", !.dtrSeen = TRUE]
    /\ UNCHANGED <<pc, slices, quiet>>

(* The ring is empty: the escape test ends the round.                      *)
HostEmpty ==
    /\ pc = "host" /\ qHost = << >>
    /\ pc' = "top"
    /\ d' = IF d.state = "ESCAPE" /\ quiet = 2
            THEN [SendResponse(d) EXCEPT !.state = "COMMAND", !.escapeCount = 0,
                     !.socket.typed = IF Len(@) < 3 THEN @ ELSE SubSeq(@, 1, Len(@) - 3)]
            ELSE d
    /\ UNCHANGED <<World, slices>>

DeviceThread ==
    \/ RoundNoRead \/ RoundRead \/ RoundLost
    \/ HostShutdown \/ HostCommand \/ Dial
    \/ DialSlice \/ DialFailed \/ Resolved \/ Connected
    \/ OnlinePlus \/ OnlineSend \/ EscapeChar \/ HostModemCtl \/ HostEmpty

-----------------------------------------------------------------------------
(* The emulator thread: the port while it runs, stop() at the end.         *)

Room == Len(qHost) < RingCap

GuestSend ==
    /\ spc = "run" /\ events < MaxEvents /\ Room
    /\ \E c \in Char : qHost' = Append(qHost, Message("DATA", c))
    /\ events' = events + 1
    /\ UNCHANGED <<d, pc, slices, conn, quiet, spc, dtrOut, dcdIn>>

(* The port tells the device of a DTR change; told only if the ring has    *)
(* room.                                                                   *)
GuestDtr ==
    /\ spc = "run" /\ events < MaxEvents /\ Room
    /\ qHost' = Append(qHost, Message("MODEM_CTL", IF dtrOut THEN "off" ELSE "on"))
    /\ dtrOut' = ~dtrOut
    /\ events' = events + 1
    /\ UNCHANGED <<d, pc, slices, conn, quiet, spc, dcdIn>>

OfCurrent(item) == d.socket.st = "up" /\ item.conn = conn

(* The port takes a message of the device.                                 *)
GuestGet ==
    /\ spc = "run" /\ d.qDev # << >>
    /\ LET m == Head(d.qDev) IN
       /\ d' = [d EXCEPT !.qDev = Tail(@),
                         !.socket.got = IF OfCurrent(m) THEN Append(@, m.b) ELSE @]
       /\ dcdIn' = IF m.type = "STATUS" THEN m.b ELSE dcdIn
    /\ UNCHANGED <<pc, slices, qHost, conn, quiet, spc, dtrOut, events>>

StopCall ==
    /\ spc = "run"
    /\ spc' = "stopping"
    /\ UNCHANGED <<d, pc, slices, qHost, conn, quiet, dtrOut, dcdIn, events>>

(* A SHUTDOWN that is not tried again when the ring is full.               *)
StopSendOnce ==
    /\ spc = "stopping"
    /\ qHost' = IF Room THEN Append(qHost, Message("SHUTDOWN", "off")) ELSE qHost
    /\ spc' = "join"
    /\ UNCHANGED <<d, pc, slices, conn, quiet, dtrOut, dcdIn, events>>

(* stop() tries SHUTDOWN until the ring takes it.                          *)
StopSend ==
    /\ spc = "stopping" /\ Room
    /\ qHost' = Append(qHost, Message("SHUTDOWN", "off"))
    /\ spc' = "join"
    /\ UNCHANGED <<d, pc, slices, conn, quiet, dtrOut, dcdIn, events>>

StopJoin ==
    /\ spc = "join" /\ pc = "exited"
    /\ spc' = "stopped"
    /\ UNCHANGED <<d, pc, slices, qHost, conn, quiet, dtrOut, dcdIn, events>>

-----------------------------------------------------------------------------
(* The network and time.                                                   *)

Bytes(t) ==
    CASE t = "a" -> <<"a">>
      [] t = "ff" -> <<"iac", "iac">>
      [] t = "other" -> <<"iac", "other">>
      [] OTHER -> <<"iac", t, "opt">>

Linked == d.socket.st = "up" /\ d.socket.alive

PeerSend ==
    /\ Linked /\ d.socket.sent < Len(Script) /\ events < MaxEvents
    /\ events' = events + 1
    /\ d' = [d EXCEPT !.socket.sent = @ + 1, !.socket.in = @ \o Bytes(Script[d.socket.sent + 1])]
    /\ UNCHANGED <<pc, slices, qHost, conn, quiet, spc, dtrOut, dcdIn>>

(* The remote end closes, or fails and takes along what was not read.      *)
PeerGone ==
    /\ Linked /\ events < MaxEvents
    /\ events' = events + 1
    /\ \E rest \in {d.socket.in, << >>} :
          d' = [d EXCEPT !.socket.alive = FALSE, !.socket.in = rest]
    /\ UNCHANGED <<pc, slices, qHost, conn, quiet, spc, dtrOut, dcdIn>>

(* Nobody looks at the time in command mode.                               *)
Tick ==
    /\ quiet < 2 /\ d.state # "COMMAND"
    /\ quiet' = quiet + 1
    /\ UNCHANGED <<d, pc, slices, qHost, conn, spc, dtrOut, dcdIn, events>>

-----------------------------------------------------------------------------
Init ==
    /\ d = NewDevice
    /\ pc = "top" /\ slices = 0
    /\ qHost = << >>
    /\ conn = 0 /\ quiet = 0
    /\ spc = "run" /\ dtrOut = FALSE /\ dcdIn = "up"
    /\ events = 0

(* Connections::attach destroys the device and builds a new one.           *)
Attach ==
    /\ spc = "stopped"
    /\ d' = NewDevice
    /\ pc' = "top" /\ slices' = 0
    /\ qHost' = << >>
    /\ conn' = 0 /\ quiet' = 0
    /\ spc' = "run" /\ dtrOut' = FALSE /\ dcdIn' = "up"
    /\ events' = 0

Next ==
    \/ DeviceThread
    \/ GuestSend \/ GuestDtr \/ GuestGet
    \/ StopCall \/ StopSend \/ StopJoin \/ Attach
    \/ PeerSend \/ PeerGone \/ Tick

Spec == Init /\ [][Next]_vars

(* The device thread runs, the port takes what the device sends while the  *)
(* emulator runs, and stop() goes on.  The guest, the remote host, the     *)
(* network's answers and the clock promise nothing.                        *)
FairSpec ==
    /\ Spec
    /\ WF_vars(DeviceThread)
    /\ WF_vars(GuestGet)
    /\ WF_vars(StopSend) /\ WF_vars(StopJoin)

-----------------------------------------------------------------------------
(* Properties.                                                             *)

Msg == [type : {"DATA"}, b : AllChars] \cup [type : {"MODEM_CTL", "SHUTDOWN"}, b : {"on", "off"}]
Item == [type : {"DATA"}, conn : 0 .. MaxConn, b : {"a", "ff", "text"}]
        \cup [type : {"STATUS"}, conn : {0}, b : {"up", "down"}]
Socket ==
    [st : {"none", "dialing", "up"}, alive : BOOLEAN,
     in : Seq({"a", "iac", "will", "wont", "do", "opt", "other"}),
     out : Seq(AllChars \cup {"iac", "do", "will", "opt"}), sent : 0 .. Len(Script),
     got : Seq({"a", "ff"}), typed : Seq(AllChars)]
Device ==
    [state : {"COMMAND", "ONLINE", "ESCAPE"}, socket : Socket, spoilt : BOOLEAN,
     escapeCount : 0 .. 3, telnet : {"DATA", "IAC", "NEGOTIATE"},
     command : {"none", "will", "wont", "do"}, buffer : Seq({"a", "ff"}),
     shutdownPending : BOOLEAN, lastDcd : {"unknown", "up", "down"}, lastDtr : BOOLEAN,
     dtrSeen : BOOLEAN, qDev : Seq(Item)]

(* The states of ModemDevice and of its surroundings, with the sizes of    *)
(* the rings and of tcp_buffer, which the last read may take past BufCap.  *)
TypeOK ==
    /\ d \in Device
    /\ Len(d.buffer) < BufCap + ReadMax /\ Len(d.qDev) <= RingCap
    /\ pc \in {"top", "host", "resolve", "connect", "exited"}
    /\ slices \in 0 .. Slices
    /\ qHost \in Seq(Msg) /\ Len(qHost) <= RingCap
    /\ conn \in 0 .. MaxConn /\ quiet \in 0 .. 2
    /\ spc \in {"run", "stopping", "join", "stopped"}
    /\ dtrOut \in BOOLEAN /\ dcdIn \in {"up", "down"}
    /\ events \in 0 .. MaxEvents

QueuedBytes ==
    Joined([i \in 1 .. Len(d.qDev) |-> IF OfCurrent(d.qDev[i]) THEN <<d.qDev[i].b>> ELSE << >>])

(* The data among the first n items of the script.                         *)
Sent(n) == Joined([i \in 1 .. n |-> IF Script[i] \in {"a", "ff"} THEN <<Script[i]>> ELSE << >>])

(* What the guest has of the connection, in its hands, in the ring and in  *)
(* tcp_buffer, is what the remote host sent, without its telnet commands,  *)
(* in order and without a gap, however the reads cut the stream and        *)
(* however slowly the guest empties the ring; and all of it once           *)
(* everything has been read.  What stands between an SB and its SE counts  *)
(* as data: process_telnet_byte only skips the two commands.               *)
RxIntact ==
    LET data == Sent(d.socket.sent)
        seen == d.socket.got \o QueuedBytes \o d.buffer
    IN  /\ seen \in {SubSeq(data, 1, n) : n \in 0 .. Len(data)}
        /\ Linked /\ d.socket.in = << >> => seen = data

(* The telnet reader of the remote host.                                   *)
PeerReads(p, b) ==
    CASE p.at = "data" -> IF b = "iac" THEN [p EXCEPT !.at = "iac"]
                          ELSE [p EXCEPT !.out = Append(@, b)]
      [] p.at = "iac" -> IF b = "iac" THEN [at |-> "data", out |-> Append(p.out, "ff")]
                         ELSE [p EXCEPT !.at = "opt"]
      [] p.at = "opt" -> [p EXCEPT !.at = "data"]

Read(bytes) ==
    LET after[n \in 0 .. Len(bytes)] ==
            IF n = 0 THEN [at |-> "data", out |-> << >>] ELSE PeerReads(after[n - 1], bytes[n])
    IN  after[Len(bytes)]

(* What the remote host reads is what the guest typed in data mode, in     *)
(* order, without the escape sequences; the '+' characters still held back *)
(* follow it.                                                              *)
TxIntact ==
    d.socket.st = "up" =>
        Read(d.socket.out)
            = [at |-> "data",
               out |-> SubSeq(d.socket.typed, 1, Len(d.socket.typed) - d.escapeCount)]

(* DCD follows the connection: when it no longer changes, the port comes   *)
(* to know it, though the report is not made while the ring is full.       *)
DcdFollows ==
    \A c \in {"up", "down"} : <>[](spc = "run" /\ Carrier = c) => <>[](dcdIn = c)

(* stop() returns, with the ring full and in the middle of a dial too.     *)
StopReturns == spc = "stopping" ~> spc = "stopped"
=============================================================================
