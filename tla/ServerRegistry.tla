--------------------------- MODULE ServerRegistry ---------------------------
(***************************************************************************)
(* The connections of a fake DASH server and the objects that serve them   *)
(* (edge-dash-fake-server.cc, dash-fake-server.cc, the callbacks of        *)
(* http-server-fake-clientsocket.cc), with the transitions of the server's *)
(* TCP sockets that call back into them (tcp-socket-base.cc).              *)
(*                                                                         *)
(* Each accepted socket gets an id and a heap object.  The socket's send,  *)
(* receive and close callbacks and its State trace are bound to the raw    *)
(* pointer.  When TCP reports the close, the send and receive callbacks    *)
(* are cleared and an event one second later deletes the object; the close *)
(* callbacks and the trace stay bound.                                     *)
(*                                                                         *)
(* An action is one simulator event.  What is sent is left out: a request  *)
(* asks for keep-alive or not, and its reply is on its way until all of it *)
(* is acknowledged.                                                        *)
(***************************************************************************)
EXTENDS Naturals, FiniteSets

CONSTANTS
  Sockets,    \* connections clients may open
  MaxVideos,  \* bound: videos added to an edge server
  MaxBytes    \* bound: packets counted by the device traces

ASSUME RegistryAssumption ==
  IsFiniteSet(Sockets) /\ MaxVideos \in Nat /\ MaxBytes \in Nat

VARIABLES
  kind,          \* which application: "edge" or "cloud"
  phase,         \* before start, listening, stopped
  lastSocketID,  \* m_lastSocketID
  activeClients, \* keys of m_activeClients, which are the objects alive
  sock,          \* the server's end of each connection
  finish,        \* scheduled DoFinishSocket events, per id
  videos,        \* videos added to an edge server
  chains,        \* scheduled ReportStats events
  bytes,         \* m_bytes_sent and m_bytes_recv
  lastBytes,     \* m_last_bytes_sent and m_last_bytes_recv
  reported,      \* sum of what the throughput trace was given
  dangling       \* has a callback been run on a deleted object

vars == <<kind, phase, lastSocketID, activeClients, sock, finish, videos,
          chains, bytes, lastBytes, reported, dangling>>

registry == <<kind, phase, lastSocketID, videos, chains, bytes, lastBytes,
              reported>>

Ids == 1..Cardinality(Sockets)

TcpState == {"none", "SYN_RCVD", "ESTABLISHED", "CLOSE_WAIT", "FIN_WAIT_1",
             "FIN_WAIT_2", "CLOSING", "LAST_ACK", "TIME_WAIT", "CLOSED",
             "dropped"}

\* A socket: its TCP state ("dropped": retransmissions ran out); its id in
\* m_activeSockets, 0 before it is accepted (entries are never removed);
\* m_closeNotified; whether the send and receive callbacks are set; the reply
\* that is not fully acknowledged, by the request's keep-alive; m_closeOnEmpty.
Socket == [state : TcpState, id : Ids \cup {0}, notified : BOOLEAN,
           callbacks : BOOLEAN, reply : {"none", "keep", "close"},
           closeOnEmpty : BOOLEAN]

TypeOK ==
  /\ kind \in {"edge", "cloud"} /\ phase \in {"init", "running", "stopped"}
  /\ lastSocketID \in 1..(Cardinality(Sockets) + 1)
  /\ activeClients \subseteq Ids
  /\ sock \in [Sockets -> Socket]
  /\ finish \in [Ids -> 0..2]
  /\ videos \in 0..MaxVideos /\ chains \in 0..(MaxVideos + 1)
  /\ {bytes, lastBytes, reported} \subseteq 0..MaxBytes
  /\ dangling \in BOOLEAN

Init ==
  /\ kind \in {"edge", "cloud"} /\ phase = "init"
  /\ lastSocketID = 1 /\ activeClients = {}
  /\ sock = [k \in Sockets |->
              [state |-> "none", id |-> 0, notified |-> FALSE,
               callbacks |-> FALSE, reply |-> "none", closeOnEmpty |-> FALSE]]
  /\ finish = [i \in Ids |-> 0]
  /\ videos = 0 /\ chains = 0 /\ bytes = 0 /\ lastBytes = 0 /\ reported = 0
  /\ dangling = FALSE

-----------------------------------------------------------------------------
(* The application. *)

\* A faulty ReportStats: the counters of the last report are not kept.
ReportStatsNoReset(scheduled) ==
  /\ reported' = reported + (bytes - lastBytes)
  /\ lastBytes' = lastBytes
  /\ chains' = scheduled + 1

\* A faulty ReportStats: the chain is not continued.
ReportStatsOnce(scheduled) ==
  /\ reported' = reported + (bytes - lastBytes)
  /\ lastBytes' = bytes
  /\ chains' = scheduled

\* ReportStats: the bytes since the last report, by whichever chain.  The next
\* event is scheduled if m_active, which nothing ever clears.
ReportStats(scheduled) ==
  /\ reported' = reported + (bytes - lastBytes)
  /\ lastBytes' = bytes
  /\ chains' = scheduled + 1

\* The cloud's application imports its videos and starts reporting; the edge's
\* does not.
StartApplication ==
  /\ phase = "init"
  /\ phase' = "running" /\ lastSocketID' = 1
  /\ IF kind = "cloud" THEN ReportStats(chains)
                       ELSE UNCHANGED <<reported, lastBytes, chains>>
  /\ UNCHANGED <<kind, activeClients, sock, finish, videos, bytes, dangling>>

\* Closes the listening socket only.
StopApplication ==
  /\ phase = "running"
  /\ phase' = "stopped"
  /\ UNCHANGED <<kind, lastSocketID, activeClients, sock, finish, videos,
                 chains, bytes, lastBytes, reported, dangling>>

\* Each video the controller adds to an edge server starts one more chain.
AddVideo ==
  /\ kind = "edge" /\ phase # "init" /\ videos < MaxVideos
  /\ videos' = videos + 1
  /\ ReportStats(chains)
  /\ UNCHANGED <<kind, phase, lastSocketID, activeClients, sock, finish,
                 bytes, dangling>>

ReportEvent ==
  /\ chains > 0
  /\ ReportStats(chains - 1)
  /\ UNCHANGED <<kind, phase, lastSocketID, activeClients, sock, finish,
                 videos, bytes, dangling>>

\* TxTrace and RxTrace.
Trace ==
  /\ phase # "init" /\ bytes < MaxBytes
  /\ bytes' = bytes + 1
  /\ UNCHANGED <<kind, phase, lastSocketID, activeClients, sock, finish,
                 videos, chains, lastBytes, reported, dangling>>

\* A faulty ConnectionAccepted: the id is not counted up.
AcceptedSameID(k) ==
  /\ sock[k].state = "SYN_RCVD"
  /\ sock' = [sock EXCEPT ![k].state = "ESTABLISHED", ![k].id = lastSocketID,
                          ![k].callbacks = TRUE]
  /\ activeClients' = activeClients \cup {lastSocketID}
  /\ UNCHANGED <<kind, phase, lastSocketID, finish, videos, chains, bytes,
                 lastBytes, reported, dangling>>

\* ConnectionAccepted, with RegisterSocket.  TCP calls it when the handshake
\* is complete, for a connection begun before a stop also after it.
ConnectionAccepted(k) ==
  /\ sock[k].state = "SYN_RCVD"
  /\ sock' = [sock EXCEPT ![k].state = "ESTABLISHED", ![k].id = lastSocketID,
                          ![k].callbacks = TRUE]
  /\ lastSocketID' = lastSocketID + 1
  /\ activeClients' = activeClients \cup {lastSocketID}
  /\ UNCHANGED <<kind, phase, finish, videos, chains, bytes, lastBytes,
                 reported, dangling>>

DoFinishSocket(i) ==
  /\ finish[i] > 0
  /\ finish' = [finish EXCEPT ![i] = @ - 1]
  /\ activeClients' = activeClients \ {i}
  /\ UNCHANGED <<registry, sock, dangling>>

-----------------------------------------------------------------------------
(* Events of a socket.  "calls" tells whether one of the callbacks or the   *)
(* State trace runs, that is, whether the object is used, and "closed"      *)
(* whether the close callback calls FinishedCallback.                       *)

SocketEvent(k, s, calls, closed) ==
  LET i == sock[k].id IN
  /\ sock' = [sock EXCEPT ![k] = s]
  /\ dangling' = (dangling \/ (i # 0 /\ calls /\ i \notin activeClients))
  /\ finish' = IF i # 0 /\ closed THEN [finish EXCEPT ![i] = @ + 1] ELSE finish
  /\ UNCHANGED <<registry, activeClients>>

\* A faulty ConnectionClosed: the callbacks stay.
ConnectionClosedKeeps(s) == s

\* ConnectionClosedNormal and ConnectionClosedError.
ConnectionClosed(s) == [s EXCEPT !.callbacks = FALSE]

\* NotifyNormalClose, at most once per socket.
Notified(s) ==
  IF s.notified THEN s ELSE ConnectionClosed([s EXCEPT !.notified = TRUE])

\* A SYN reaches the listening socket, which forks.
SynArrives(k) ==
  /\ phase = "running" /\ sock[k].state = "none"
  /\ SocketEvent(k, [sock[k] EXCEPT !.state = "SYN_RCVD"], FALSE, FALSE)

\* HandleIncomingData: a request, and its reply is handed to TCP.
HandleIncomingData(k, reply) ==
  /\ sock[k].state = "ESTABLISHED" /\ sock[k].callbacks
  /\ sock[k].reply = "none"
  /\ SocketEvent(k, [sock[k] EXCEPT !.reply = reply], TRUE, FALSE)

\* HandleReadyToTransmit, when everything is handed over: without keep-alive
\* the socket is closed, at once or when the last data leaves, and the
\* callbacks are cleared.
HandleReadyToTransmit(k) ==
  /\ sock[k].state = "ESTABLISHED" /\ sock[k].callbacks
  /\ sock[k].reply = "close"
  /\ \E deferred \in BOOLEAN :
       SocketEvent(k,
         [sock[k] EXCEPT !.callbacks = FALSE, !.closeOnEmpty = deferred,
                         !.state = IF deferred THEN @ ELSE "FIN_WAIT_1"],
         TRUE, FALSE)

\* The last data leaves with a FIN.
LastDataSent(k) ==
  /\ sock[k].closeOnEmpty /\ sock[k].state \in {"ESTABLISHED", "CLOSE_WAIT"}
  /\ SocketEvent(k,
       [sock[k] EXCEPT !.closeOnEmpty = FALSE,
          !.state = IF @ = "ESTABLISHED" THEN "FIN_WAIT_1" ELSE "LAST_ACK"],
       TRUE, FALSE)

\* The reply is acknowledged.
ReplyAcked(k) ==
  /\ sock[k].reply # "none" /\ ~sock[k].closeOnEmpty
  /\ sock[k].state \in {"ESTABLISHED", "CLOSE_WAIT", "FIN_WAIT_1"}
  /\ sock[k].callbacks => sock[k].reply = "keep"
  /\ SocketEvent(k, [sock[k] EXCEPT !.reply = "none"], sock[k].callbacks, FALSE)

\* The client's FIN.  In FIN_WAIT_1 it may or may not acknowledge ours.
PeerClose(k) ==
  LET s == sock[k]
      to(t) == [s EXCEPT !.state = t]
      closes(t) == SocketEvent(k, Notified(to(t)), TRUE, ~s.notified)
  IN \/ s.state = "ESTABLISHED" /\ closes("CLOSE_WAIT")
     \/ s.state = "FIN_WAIT_1" /\ SocketEvent(k, to("CLOSING"), TRUE, FALSE)
     \/ s.state = "FIN_WAIT_1" /\ s.reply = "none" /\ closes("TIME_WAIT")
     \/ s.state = "FIN_WAIT_2" /\ closes("TIME_WAIT")

\* The ACK of our FIN.  From LAST_ACK it, or a timeout, closes the socket.
FinAcked(k) ==
  LET s == sock[k]
      closes(t) == SocketEvent(k, Notified([s EXCEPT !.state = t]), TRUE, ~s.notified)
  IN \/ /\ s.state = "FIN_WAIT_1" /\ s.reply = "none"
        /\ SocketEvent(k, [s EXCEPT !.state = "FIN_WAIT_2"], TRUE, FALSE)
     \/ s.state = "CLOSING" /\ closes("TIME_WAIT")
     \/ s.state = "LAST_ACK" /\ closes("CLOSED")

\* 2 MSL are over.  They are 240 s, so DoFinishSocket has run.
TimeWaitOver(k) ==
  /\ sock[k].state = "TIME_WAIT" /\ finish[sock[k].id] = 0
  /\ SocketEvent(k, Notified([sock[k] EXCEPT !.state = "CLOSED"]), TRUE, ~sock[k].notified)

\* A RST arrives.
Reset(k) ==
  /\ sock[k].state \in {"SYN_RCVD", "ESTABLISHED", "CLOSE_WAIT", "FIN_WAIT_1",
                        "FIN_WAIT_2", "CLOSING", "LAST_ACK"}
  /\ SocketEvent(k, Notified([sock[k] EXCEPT !.state = "CLOSED"]), TRUE, ~sock[k].notified)

\* A faulty variant of the next: ConnectionClosedError does not call
\* m_finished_callback.
DataRetriesExhaustedUnfinished(k) ==
  /\ sock[k].reply # "none"
  /\ sock[k].state \in {"ESTABLISHED", "CLOSE_WAIT", "FIN_WAIT_1", "CLOSING", "LAST_ACK"}
  /\ SocketEvent(k, ConnectionClosed([sock[k] EXCEPT !.state = "dropped"]), TRUE, FALSE)

\* No data retries are left: an error is reported whether or not a close was.
DataRetriesExhausted(k) ==
  /\ sock[k].reply # "none"
  /\ sock[k].state \in {"ESTABLISHED", "CLOSE_WAIT", "FIN_WAIT_1", "CLOSING", "LAST_ACK"}
  /\ SocketEvent(k, ConnectionClosed([sock[k] EXCEPT !.state = "dropped"]), TRUE, TRUE)

-----------------------------------------------------------------------------
Application == StartApplication \/ StopApplication \/ AddVideo \/ ReportEvent
               \/ Trace

Tcp(k) ==
  \/ SynArrives(k) \/ ConnectionAccepted(k)
  \/ \E r \in {"keep", "close"} : HandleIncomingData(k, r)
  \/ HandleReadyToTransmit(k) \/ LastDataSent(k) \/ ReplyAcked(k)
  \/ PeerClose(k) \/ FinAcked(k) \/ TimeWaitOver(k) \/ Reset(k)
  \/ DataRetriesExhausted(k)

Next == Application \/ (\E k \in Sockets : Tcp(k)) \/ (\E i \in Ids : DoFinishSocket(i))

Spec == Init /\ [][Next]_vars

\* The simulator runs every event that is scheduled.
Fairness ==
  WF_vars(ReportEvent) /\ \A i \in Ids : WF_vars(DoFinishSocket(i))

FairSpec == Spec /\ Fairness

-----------------------------------------------------------------------------
Accepted(k) == sock[k].id # 0
IsClosed(k) == sock[k].notified \/ sock[k].state = "dropped"

\* As long as TCP has not reported the close of a connection, its object is in
\* m_activeClients: neither a finish event of another connection nor a second
\* one of an earlier connection deletes it (DoFinishSocket, RegisterSocket).
OpenKeepsObject ==
  \A k \in Sockets : Accepted(k) /\ ~IsClosed(k) => sock[k].id \in activeClients

\* Send and receive callbacks that are set point to an object that is alive:
\* they are cleared before the event that deletes it can run
\* (ConnectionClosedNormal, ConnectionClosedError, HandleReadyToTransmit).
DataCallbacksAlive ==
  \A k \in Sockets : sock[k].callbacks => sock[k].id \in activeClients

\* No two open connections are served under one id, and an object is deleted
\* only for a connection that is closed (FinishedCallback).
FinishOnlyClosed ==
  \A k \in Sockets : Accepted(k) /\ finish[sock[k].id] > 0 => IsClosed(k)

\* However many chains of ReportStats run, each byte is reported at most once.
BytesReportedOnce == reported <= bytes

\* Once reporting has begun, with the cloud's start or an edge server's first
\* video, whatever is counted from then on is reported, also after a stop: some
\* chain is always scheduled again (ReportStats).
CountedIsReported ==
  \A n \in 1..MaxBytes :
    (bytes >= n /\ (kind = "cloud" \/ videos > 0)) ~> (reported >= n)

\* The object of a closed connection is deleted: m_activeClients, whose size
\* ReportStats reports, does not keep it.
ClosedIsFinished ==
  \A k \in Sockets :
    (Accepted(k) /\ IsClosed(k)) ~> (sock[k].id \notin activeClients)

\* "just in case, make sure the callbacks are no longer active": no callback or
\* trace runs on an object DoFinishSocket has deleted.
NoDanglingCall == ~dangling

=============================================================================
