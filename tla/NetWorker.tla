----------------------------- MODULE NetWorker -----------------------------
(***************************************************************************)
(* The network worker thread of the Uthernet II card and the host it talks *)
(* to.  The thread repeats: take every request, poll every socket, poll    *)
(* slirp.  Between two of its accesses to what it shares with the chip     *)
(* (the rings and the credit) the emulator thread may do anything.         *)
(*                                                                         *)
(* The host is external: its calls return any result they may return.      *)
(* Received bytes are <<generation, k>>, the k-th byte of a connection.    *)
(***************************************************************************)
EXTENDS U2Protocol

CONSTANTS
    MaxPeer,     \* bound on the bytes or datagrams a peer sends on a socket
    MaxFrames,   \* bound on the frames slirp delivers
    Frame        \* the kinds of raw frames: "ip", "bcast", "foreign"

ASSUME WorkerAssumption == MaxPeer \in Nat /\ MaxFrames \in Nat

VARIABLES
    wpc,         \* where the thread is in run()
    wi,          \* the socket poll_sockets is at
    wgen,        \* SockState::gen
    wfd,         \* what SockState::fd is: "none", "tcp", "listen", "udp"
    wst,         \* SockState::status
    txp,         \* SockState::tx_pending
    wcred,       \* cred in poll_sockets
    wgot,        \* the bytes ::recv returned, not posted yet
    wshort,      \* prev < n in poll_sockets
    peer,        \* host: the far end: "none", "up", "fin", "rst"
    kin,         \* host: bytes in the socket's receive buffer
    psent,       \* host: bytes or datagrams the peer has sent on this socket
    hostgot,     \* host: bytes ::send has taken on this connection
    frames       \* host: frames slirp has delivered

workVars == <<wpc, wi, wgen, wfd, wst, txp, wcred, wgot, wshort>>
hostVars == <<peer, kin, psent, hostgot, frames>>
sockVars == <<wgen, wfd, wst, txp>>
recvVars == <<wcred, wgot, wshort>>

NetInit ==
    /\ wpc = "top"
    /\ wi = 0
    /\ wgen = [i \in Sock |-> 0]
    /\ wfd = [i \in Sock |-> "none"]
    /\ wst = [i \in Sock |-> "CLOSED"]
    /\ txp = [i \in Sock |-> << >>]
    /\ wcred = 0
    /\ wgot = << >>
    /\ wshort = FALSE
    /\ peer = [i \in Sock |-> "none"]
    /\ kin = [i \in Sock |-> << >>]
    /\ psent = [i \in Sock |-> 0]
    /\ hostgot = [i \in Sock |-> << >>]
    /\ frames = 0
    /\ evt = << >>
    /\ evtLost = [i \in Sock |-> 0]

(* post_status for socket i, in the generation g the worker has for it.    *)
StatusEvent(i, g, cause) == Event("Status", i, g, cause, << >>)

NoEvent == UNCHANGED <<evt, evtLost>>

(* close_state, and the host closing its end, then socket i having the     *)
(* descriptor fd in status st.                                             *)
NewState(i, fd, st) ==
    /\ wfd' = [wfd EXCEPT ![i] = fd]
    /\ wst' = [wst EXCEPT ![i] = st]
    /\ txp' = [txp EXCEPT ![i] = << >>]
    /\ peer' = [peer EXCEPT ![i] = "none"]
    /\ kin' = [kin EXCEPT ![i] = << >>]
    /\ psent' = [psent EXCEPT ![i] = 0]

CloseState(i) == NewState(i, "none", "CLOSED")

-----------------------------------------------------------------------------
(* run() and handle_request.                                               *)

Wake ==
    /\ wpc = "top"
    /\ running
    /\ wpc' = "drain"
    /\ UNCHANGED <<wi, sockVars, recvVars, hostVars, req, evt, credit, running, reqLost, evtLost>>

(* The thread ends: every host socket is closed.                           *)
Finish ==
    /\ wpc' = "done"
    /\ wfd' = [i \in Sock |-> "none"]
    /\ wst' = [i \in Sock |-> "CLOSED"]
    /\ txp' = [i \in Sock |-> << >>]
    /\ peer' = [i \in Sock |-> "none"]
    /\ kin' = [i \in Sock |-> << >>]
    /\ UNCHANGED <<wi, wgen, recvVars, psent, hostgot, frames,
                   evt, credit, running, reqLost, evtLost>>

ExitNotRunning ==
    /\ wpc = "top"
    /\ ~running
    /\ Finish
    /\ UNCHANGED req

ExitShutdown ==
    /\ wpc = "drain"
    /\ req # << >>
    /\ Head(req).msg = "Shutdown"
    /\ req' = Tail(req)
    /\ Finish

Drained ==
    /\ wpc = "drain"
    /\ req = << >>
    /\ wpc' = "poll"
    /\ wi' = 0
    /\ UNCHANGED <<sockVars, recvVars, hostVars, req, evt, credit, running, reqLost, evtLost>>

DefinesGen == {"OpenTcp", "OpenUdp", "Close", "CloseHost", "AdoptListen"}
RawTx == {"MacRawTx", "IpRawTx"}

(* Taking the oldest request, when it is one of the messages msgs.         *)
Taking(msgs) ==
    /\ wpc = "drain"
    /\ req # << >>
    /\ Head(req).msg \in msgs
    /\ req' = Tail(req)
    /\ UNCHANGED <<wpc, wi, recvVars, frames, credit, running, reqLost>>

(* A request of a generation the worker has left is a leftover.            *)
Leftover(r) == r.msg \notin DefinesGen \cup RawTx /\ r.gen # wgen[r.sock]

HandleLeftover ==
    /\ Taking({"Connect", "SendTcp", "SendUdp"})
    /\ Leftover(Head(req))
    /\ NoEvent
    /\ UNCHANGED <<sockVars, peer, kin, psent, hostgot>>

(* OpenTcp or OpenUdp: the host may refuse the socket, or the UDP bind.    *)
HandleOpen ==
    /\ Taking({"OpenTcp", "OpenUdp"})
    /\ LET r == Head(req)
           i == r.sock
       IN  /\ wgen' = [wgen EXCEPT ![i] = r.gen]
           /\ hostgot' = [hostgot EXCEPT ![i] = << >>]
           /\ \/ /\ IF r.msg = "OpenTcp" THEN NewState(i, "tcp", "INIT")
                                         ELSE NewState(i, "udp", "UDP")
                 /\ NoEvent
              \/ /\ CloseState(i)
                 /\ PostEvent(StatusEvent(i, r.gen, "Failed"))

HandleAdoptListen ==
    /\ Taking({"AdoptListen"})
    /\ LET r == Head(req)
       IN  /\ wgen' = [wgen EXCEPT ![r.sock] = r.gen]
           /\ NewState(r.sock, "listen", "LISTEN")
           /\ hostgot' = [hostgot EXCEPT ![r.sock] = << >>]
    /\ NoEvent

HandleClose ==
    /\ Taking({"Close", "CloseHost"})
    /\ LET r == Head(req)
       IN  /\ wgen' = [wgen EXCEPT ![r.sock] = r.gen]
           /\ CloseState(r.sock)
           /\ hostgot' = [hostgot EXCEPT ![r.sock] = << >>]
    /\ NoEvent

(* ::connect succeeds at once, goes on in the background, or fails.        *)
HandleConnect ==
    /\ Taking({"Connect"})
    /\ ~Leftover(Head(req))
    /\ LET i == Head(req).sock
       IN  IF wfd[i] \notin {"tcp", "listen"}
           THEN NoEvent /\ UNCHANGED <<wfd, wst, txp, peer, kin, psent>>
           ELSE \/ /\ wst' = [wst EXCEPT ![i] = "ESTABLISHED"]
                   /\ peer' = [peer EXCEPT ![i] = "up"]
                   /\ PostEvent(StatusEvent(i, wgen[i], "Connected"))
                   /\ UNCHANGED <<wfd, txp, kin, psent>>
                \/ /\ wst' = [wst EXCEPT ![i] = "SYNSENT"]
                   /\ NoEvent
                   /\ UNCHANGED <<wfd, txp, peer, kin, psent>>
                \/ /\ CloseState(i)
                   /\ PostEvent(StatusEvent(i, wgen[i], "Failed"))
    /\ UNCHANGED <<wgen, hostgot>>

(* A short ::send whose rest is forgotten.                                 *)
FlushTcpTxShort(i, b) ==
    \E n \in 1 .. Len(b) :
        /\ hostgot' = [hostgot EXCEPT ![i] = @ \o SubSeq(b, 1, n)]
        /\ txp' = [txp EXCEPT ![i] = << >>]
        /\ PostEvent(Event("SendDone", i, wgen[i], "None", << >>))
        /\ UNCHANGED <<wfd, wst, peer, kin, psent>>

(* A short ::send after which one byte too many is dropped from the rest.  *)
FlushTcpTxOffByOne(i, b) ==
    \E n \in 0 .. Len(b) :
        /\ hostgot' = [hostgot EXCEPT ![i] = @ \o SubSeq(b, 1, n)]
        /\ txp' = [txp EXCEPT ![i] = SubSeq(b, n + 2, Len(b))]
        /\ IF n = Len(b) THEN PostEvent(Event("SendDone", i, wgen[i], "None", << >>)) ELSE NoEvent
        /\ UNCHANGED <<wfd, wst, peer, kin, psent>>

(* flush_tcp_tx with the bytes b pending: the host takes all of them, some *)
(* of them now, or refuses the rest and the connection is gone.            *)
FlushTcpTx(i, b) ==
    \/ /\ hostgot' = [hostgot EXCEPT ![i] = @ \o b]
       /\ txp' = [txp EXCEPT ![i] = << >>]
       /\ PostEvent(Event("SendDone", i, wgen[i], "None", << >>))
       /\ UNCHANGED <<wfd, wst, peer, kin, psent>>
    \/ \E n \in 0 .. (Len(b) - 1) :
          /\ hostgot' = [hostgot EXCEPT ![i] = @ \o SubSeq(b, 1, n)]
          /\ txp' = [txp EXCEPT ![i] = SubSeq(b, n + 1, Len(b))]
          /\ NoEvent
          /\ UNCHANGED <<wfd, wst, peer, kin, psent>>
    \/ /\ peer[i] \in {"fin", "rst"}
       /\ CloseState(i)
       /\ PostEvent(StatusEvent(i, wgen[i], "Reset"))
       /\ UNCHANGED hostgot

HandleSendTcp ==
    /\ Taking({"SendTcp"})
    /\ ~Leftover(Head(req))
    /\ LET r == Head(req)
       IN  IF wfd[r.sock] \in {"tcp", "listen"}
           THEN FlushTcpTx(r.sock, txp[r.sock] \o r.data)
           ELSE NoEvent /\ UNCHANGED <<wfd, wst, txp, peer, kin, psent, hostgot>>
    /\ UNCHANGED wgen

(* SendUdp, MacRawTx, IpRawTx: sent or not, the guest is told.  The raw    *)
(* ones answer in the generation of the request.                           *)
HandleSendDatagram ==
    /\ Taking({"SendUdp"} \cup RawTx)
    /\ ~Leftover(Head(req))
    /\ LET r == Head(req)
       IN  IF r.msg = "SendUdp" /\ wfd[r.sock] = "none"
           THEN NoEvent
           ELSE \E cause \in {"None", "Failed"} :
                   PostEvent(Event("SendDone", r.sock, r.gen, cause, << >>))
    /\ UNCHANGED <<sockVars, peer, kin, psent, hostgot>>

-----------------------------------------------------------------------------
(* poll_sockets, socket wi.                                                *)

NextSock ==
    IF wi + 1 \in Sock
    THEN wpc' = "poll" /\ wi' = wi + 1
    ELSE wpc' = "slirp" /\ wi' = wi

Polling(pc) ==
    /\ wpc = pc
    /\ UNCHANGED <<wgen, hostgot, frames, req, running, reqLost>>

PollInvalid ==
    /\ Polling("poll")
    /\ wfd[wi] = "none"
    /\ NextSock
    /\ NoEvent
    /\ UNCHANGED <<wfd, wst, txp, recvVars, peer, kin, psent, credit>>

(* A connection in progress: the host does not know yet.                   *)
PollConnecting ==
    /\ Polling("poll")
    /\ wfd[wi] # "none"
    /\ wst[wi] = "SYNSENT"
    /\ NextSock
    /\ NoEvent
    /\ UNCHANGED <<wfd, wst, txp, recvVars, peer, kin, psent, credit>>

(* A failed connection that is closed without a word to the chip.          *)
PollConnectDoneSilent ==
    /\ Polling("poll")
    /\ wfd[wi] # "none"
    /\ wst[wi] = "SYNSENT"
    /\ NextSock
    /\ CloseState(wi)
    /\ NoEvent
    /\ UNCHANGED <<recvVars, credit>>

(* ... or it is established, or has failed.                                *)
PollConnectDone ==
    /\ Polling("poll")
    /\ wfd[wi] # "none"
    /\ wst[wi] = "SYNSENT"
    /\ NextSock
    /\ \/ /\ wst' = [wst EXCEPT ![wi] = "ESTABLISHED"]
          /\ peer' = [peer EXCEPT ![wi] = "up"]
          /\ PostEvent(StatusEvent(wi, wgen[wi], "Connected"))
          /\ UNCHANGED <<wfd, txp, kin, psent>>
       \/ /\ CloseState(wi)
          /\ PostEvent(StatusEvent(wi, wgen[wi], "Failed"))
    /\ UNCHANGED <<recvVars, credit>>

(* A listener accepts its one connection, or nobody is there.              *)
PollListening ==
    /\ Polling("poll")
    /\ wfd[wi] = "listen"
    /\ wst[wi] = "LISTEN"
    /\ \/ NoEvent /\ UNCHANGED <<wfd, wst, peer>>
       \/ /\ wfd' = [wfd EXCEPT ![wi] = "tcp"]
          /\ wst' = [wst EXCEPT ![wi] = "ESTABLISHED"]
          /\ peer' = [peer EXCEPT ![wi] = "up"]
          /\ PostEvent(StatusEvent(wi, wgen[wi], "Connected"))
    /\ wpc' = "flush"
    /\ UNCHANGED <<wi, txp, recvVars, kin, psent, credit>>

PollOpen ==
    /\ Polling("poll")
    /\ wfd[wi] # "none"
    /\ wst[wi] \notin {"SYNSENT", "LISTEN"}
    /\ wpc' = "flush"
    /\ NoEvent
    /\ UNCHANGED <<wi, wfd, wst, txp, recvVars, peer, kin, psent, credit>>

(* What an earlier short ::send left.                                      *)
PollFlush ==
    /\ wpc = "flush"
    /\ wfd[wi] = "tcp"
    /\ txp[wi] # << >>
    /\ FlushTcpTx(wi, txp[wi])
    /\ IF wfd'[wi] = "none" THEN NextSock ELSE wpc' = "recv" /\ wi' = wi
    /\ UNCHANGED <<wgen, recvVars, frames, req, credit, running, reqLost>>

PollNoFlush ==
    /\ Polling("flush")
    /\ wfd[wi] # "tcp" \/ txp[wi] = << >>
    /\ wpc' = "recv"
    /\ NoEvent
    /\ UNCHANGED <<wi, wfd, wst, txp, recvVars, peer, kin, psent, credit>>

TcpReadable == wst[wi] = "ESTABLISHED" /\ wfd[wi] = "tcp"

(* Nothing to read, no room for the event, or no credit.                   *)
PollNoRecv ==
    /\ Polling("recv")
    /\ ~(TcpReadable /\ CanSend /\ credit[wi] > 0)
    /\ ~(wst[wi] = "UDP" /\ CanSend)
    /\ NextSock
    /\ NoEvent
    /\ UNCHANGED <<wfd, wst, txp, recvVars, peer, kin, psent, credit>>

(* The credit is read before ::recv and lowered after it.                  *)
PollLoadCredit ==
    /\ Polling("recv")
    /\ TcpReadable
    /\ CanSend
    /\ credit[wi] > 0
    /\ wcred' = credit[wi]
    /\ wpc' = "take"
    /\ NoEvent
    /\ UNCHANGED <<wi, wfd, wst, txp, wgot, wshort, peer, kin, psent, credit>>

(* ::recv returns bytes.                                                   *)
PollTake ==
    /\ Polling("take")
    /\ peer[wi] # "rst"
    /\ \E n \in 1 .. Len(kin[wi]) :
          /\ n <= wcred
          /\ wgot' = SubSeq(kin[wi], 1, n)
          /\ kin' = [kin EXCEPT ![wi] = SubSeq(@, n + 1, Len(@))]
          /\ wshort' = (credit[wi] < n)
          /\ credit' = [credit EXCEPT ![wi] = @ - n]
    /\ wpc' = "post"
    /\ NoEvent
    /\ UNCHANGED <<wi, wfd, wst, txp, wcred, peer, psent>>

PollPost ==
    /\ Polling("post")
    /\ credit' = IF wshort THEN [credit EXCEPT ![wi] = 0] ELSE credit
    /\ PostEvent(Event("RxTcp", wi, wgen[wi], "None", wgot))
    /\ wgot' = << >>
    /\ wshort' = FALSE
    /\ wcred' = 0
    /\ NextSock
    /\ UNCHANGED <<wfd, wst, txp, peer, kin, psent>>

(* ::recv returns 0 taken as the end although bytes are still waiting.     *)
PollEofEarly ==
    /\ Polling("take")
    /\ peer[wi] = "fin"
    /\ wst' = [wst EXCEPT ![wi] = "CLOSE_WAIT"]
    /\ PostEvent(StatusEvent(wi, wgen[wi], "RemoteClosed"))
    /\ wcred' = 0
    /\ NextSock
    /\ UNCHANGED <<wfd, txp, wgot, wshort, peer, kin, psent, credit>>

(* ::recv returns 0: the peer has closed.                                  *)
PollEof ==
    /\ Polling("take")
    /\ peer[wi] = "fin"
    /\ kin[wi] = << >>
    /\ wst' = [wst EXCEPT ![wi] = "CLOSE_WAIT"]
    /\ PostEvent(StatusEvent(wi, wgen[wi], "RemoteClosed"))
    /\ wcred' = 0
    /\ NextSock
    /\ UNCHANGED <<wfd, txp, wgot, wshort, peer, kin, psent, credit>>

(* ::recv fails: the connection is gone, or there is nothing to read now.  *)
PollRecvError ==
    /\ Polling("take")
    /\ \/ peer[wi] = "rst" /\ CloseState(wi)
          /\ PostEvent(StatusEvent(wi, wgen[wi], "Reset"))
       \/ /\ peer[wi] = "up"
          /\ kin[wi] = << >>
          /\ NoEvent
          /\ UNCHANGED <<wfd, wst, txp, peer, kin, psent>>
    /\ wcred' = 0
    /\ NextSock
    /\ UNCHANGED <<wgot, wshort, credit>>

(* A datagram waits in the host stack while the event ring is full.        *)
PollUdp ==
    /\ Polling("recv")
    /\ wst[wi] = "UDP"
    /\ CanSend
    /\ \/ /\ psent[wi] < MaxPeer
          /\ psent' = [psent EXCEPT ![wi] = @ + 1]
          /\ PostEvent(Event("RxUdp", wi, wgen[wi], "None", <<<<wgen[wi], psent[wi] + 1>>>>))
       \/ NoEvent /\ UNCHANGED psent
    /\ NextSock
    /\ UNCHANGED <<wfd, wst, txp, recvVars, peer, kin, credit>>

(* slirp's callback: a frame is lost when the event ring is full.          *)
SlirpDelivers ==
    /\ frames < MaxFrames
    /\ frames' = frames + 1
    /\ IF CanSend
       THEN \E f \in Frame : PostEvent(Event("MacRawRx", 0, wgen[0], "None", <<f>>))
       ELSE NoEvent

(* The callback is run by slirp_.poll, and by slirp_.input while it is     *)
(* given the frame of a raw request.                                       *)
Slirp ==
    /\ \/ /\ wpc = "slirp"
          /\ wpc' = "top"
          /\ SlirpDelivers \/ (NoEvent /\ UNCHANGED frames)
       \/ /\ wpc = "drain"
          /\ req # << >>
          /\ Head(req).msg \in RawTx
          /\ SlirpDelivers
          /\ UNCHANGED wpc
    /\ UNCHANGED <<wi, sockVars, recvVars, peer, kin, psent, hostgot,
                   req, credit, running, reqLost>>

-----------------------------------------------------------------------------
(* The peer of a connection (external).                                    *)

PeerOnly ==
    /\ NoEvent
    /\ UNCHANGED <<workVars, hostgot, frames, req, credit, running, reqLost>>

PeerSend(i) ==
    /\ PeerOnly
    /\ peer[i] = "up"
    /\ psent[i] < MaxPeer
    /\ psent' = [psent EXCEPT ![i] = @ + 1]
    /\ kin' = [kin EXCEPT ![i] = Append(@, <<wgen[i], psent[i] + 1>>)]
    /\ UNCHANGED peer

PeerEnds(i) ==
    /\ PeerOnly
    /\ peer[i] = "up"
    /\ \E end \in {"fin", "rst"} : peer' = [peer EXCEPT ![i] = end]
    /\ UNCHANGED <<kin, psent>>

Requests ==
    \/ HandleLeftover
    \/ HandleOpen
    \/ HandleAdoptListen
    \/ HandleClose
    \/ HandleConnect
    \/ HandleSendTcp
    \/ HandleSendDatagram

Poll ==
    \/ PollInvalid
    \/ PollConnecting
    \/ PollConnectDone
    \/ PollListening
    \/ PollOpen
    \/ PollFlush
    \/ PollNoFlush
    \/ PollNoRecv
    \/ PollLoadCredit
    \/ PollTake
    \/ PollPost
    \/ PollEof
    \/ PollRecvError
    \/ PollUdp
    \/ Slirp

WorkerNext ==
    \/ Wake
    \/ ExitNotRunning
    \/ ExitShutdown
    \/ Drained
    \/ Requests
    \/ Poll

PeerNext == \E i \in Sock : PeerSend(i) \/ PeerEnds(i)
=============================================================================
