----------------------------- MODULE DashClient -----------------------------
(***************************************************************************)
(* A DASH client (http-client-dash.cc below, http-multimedia-consumer.cc   *)
(* above), the TCP connections it opens (tcp-socket-base.cc) and the       *)
(* server's end of each (http-server-fake-clientsocket.cc).                *)
(*                                                                         *)
(* The client downloads the MPD and then one segment after the other, by   *)
(* default over one kept-alive connection.  Before every GET it looks up   *)
(* its server in the table the controller rewrites.  If the entry changed, *)
(* that GET still goes out on the old connection, without keep-alive, and  *)
(* the next one on a new connection to the new server.                     *)
(*                                                                         *)
(* The simulator calls back into the code from many places, and callbacks  *)
(* call each other.  Each C++ function is an operator that maps the        *)
(* client's state x = [h, c, p, r, crash] to the state it leaves behind    *)
(* (h: http, c: conn, p: player, r: retries); an action is one simulator   *)
(* event, that is, a composition of such operators.                        *)
(*                                                                         *)
(* Data: file 0 is the MPD, file i segment i.  A response is one header    *)
(* unit and Parts body units.  Time is left out: any event that is         *)
(* scheduled or in flight may be the next one.                             *)
(***************************************************************************)
EXTENDS Integers, Sequences, FiniteSets, SequencesExt

CONSTANTS
  Servers,       \* addresses
  Cloud,         \* the server the client starts with
  Holders,       \* servers that have the video
  BadMpd,        \* servers whose MPD has no base URL that can be used
  EmptyMpd,      \* servers whose MPD has one, but no adaptation set
  InitMpd,       \* servers whose MPD names an init segment
  NumSegments,   \* segments of the video
  Parts,         \* body units of a response
  TxUnits,       \* units that fit into a server's send buffer
  BufferCap,     \* segments that fit into the playback buffer
  MaxRedirects,  \* bound: changes of the client's table entry
  MaxConns,      \* bound: connections the client opens
  EarlyRedirect, \* may the entry change before the MPD has arrived
  Lossless,      \* is no packet lost (a lost one is sent again, but later)
  Faulty,        \* may the client's SYNs and retransmissions run out
  MayStop,       \* may the application be stopped
  Layered        \* layered content: a stalled download may be aborted

ASSUME ClientAssumption ==
  /\ Cloud \in Servers /\ Holders \subseteq Servers
  /\ {BadMpd, EmptyMpd, InitMpd} \subseteq SUBSET Servers
  /\ {NumSegments, Parts, TxUnits, BufferCap, MaxConns} \subseteq Nat \ {0}
  /\ MaxRedirects \in Nat
  /\ {EarlyRedirect, Lossless, Faulty, MayStop, Layered} \subseteq BOOLEAN

VARIABLES
  http,      \* members of HttpClientDashApplication
  conn,      \* connections, numbered in the order they are opened
  player,    \* members of MultimediaConsumer and its playback buffer
  retries,   \* scheduled TryEstablishConnection events
  table,     \* the client's entry of the server table
  redirects, \* changes of that entry so far
  crash      \* has received data been copied to a null pointer

vars == <<http, conn, player, retries, table, redirects, crash>>

Mpd      == 0
Files    == 0..NumSegments
Conns    == 1..MaxConns
NoSocket == 0

\* Units on the wire.
Unit == [type : {"header", "body", "404", "FIN"}, file : Files, from : Servers]

Request == [file : Files, keepAlive : BOOLEAN]

\* One connection: the client's TCP state ("synfin": being opened, and to be
\* closed once its requests are sent; "dead": given up); its peer; requests under way;
\* units under way; units received and unread; whether the client's close
\* callbacks are set; whether the server's callbacks are set; requests held
\* in the server's m_activeRecvString; units of its response that are not yet
\* handed to TCP; an ACK under way to the server.
Connection ==
  [state : {"unused", "syn", "synfin", "est", "finwait", "finwait2", "closed",
            "dead"},
   server : Servers, c2s : Seq(Request), s2c : Seq(Unit), rx : Seq(Unit),
   closeCb : BOOLEAN, served : BOOLEAN, recvString : Seq(Request),
   left : Seq(Unit), acked : BOOLEAN]

TypeOK ==
  /\ http \in [active : BOOLEAN, buf : BOOLEAN, sock : 0..MaxConns,
               keepAlive : BOOLEAN, sentGet : BOOLEAN, finished : BOOLEAN,
               host : Servers, peer : Servers, first : BOOLEAN, bytes : Nat,
               len : Nat, file : Files, got : SUBSET Unit, opened : 0..MaxConns]
  /\ conn \in [Conns -> Connection]
  /\ player \in [status : {"new", "running", "stopped"}, mpdParsed : BOOLEAN,
                 allDownloaded : BOOLEAN, next : 1..(NumSegments + 1),
                 segment : Files, buffer : Seq(Files), played : Seq(Files),
                 download : BOOLEAN, play : BOOLEAN, waits : Nat,
                 started : BOOLEAN, frozen : BOOLEAN]
  /\ retries \in Nat
  /\ table \in Servers
  /\ redirects \in 0..MaxRedirects
  /\ crash \in BOOLEAN

\* m_hasStartedPlaying is never initialised.
Init ==
  /\ http = [active |-> FALSE, buf |-> FALSE, sock |-> NoSocket,
             keepAlive |-> FALSE, sentGet |-> FALSE, finished |-> FALSE,
             host |-> Cloud, peer |-> Cloud, first |-> FALSE, bytes |-> 0,
             len |-> 0, file |-> Mpd, got |-> {}, opened |-> 0]
  /\ conn = [k \in Conns |->
       [state |-> "unused", server |-> Cloud, c2s |-> << >>, s2c |-> << >>,
        rx |-> << >>, closeCb |-> FALSE, served |-> TRUE,
        recvString |-> << >>, left |-> << >>, acked |-> FALSE]]
  /\ \E garbage \in BOOLEAN :
       player = [status |-> "new", mpdParsed |-> FALSE,
                 allDownloaded |-> FALSE, next |-> 1, segment |-> 0,
                 buffer |-> << >>, played |-> << >>, download |-> FALSE,
                 play |-> FALSE, waits |-> 0, started |-> garbage,
                 frozen |-> FALSE]
  /\ retries = 0
  /\ table = Cloud
  /\ redirects = 0
  /\ crash = FALSE

-----------------------------------------------------------------------------
(* TCP, as the client uses it *)

\* Bytes handed to a socket that is closed or broken are dropped; nobody looks
\* at the result of Send.
Send(x, k, m) ==
  IF x.c[k].state \in {"syn", "synfin", "est"}
    THEN [x EXCEPT !.c[k].c2s = Append(@, m)]
    ELSE x

\* The close callback for errors; it runs once and schedules a new attempt.
ConnectionClosedError(x, k) ==
  IF x.c[k].closeCb
    THEN [x EXCEPT !.c[k].closeCb = FALSE, !.r = @ + 1]
    ELSE x

\* A reset, or an end without one: nothing is sent or received any more.
Abort(x, k) ==
  ConnectionClosedError(
    [x EXCEPT !.c[k] = [@ EXCEPT !.state = "dead", !.c2s = << >>, !.s2c = << >>,
                                 !.left = << >>, !.served = FALSE]], k)

\* With unread data, or while it is being opened, a connection is reset, which
\* counts as an error; requests that wait for the handshake defer the close;
\* otherwise a FIN is sent.
Close(x, k) ==
  CASE x.c[k].rx # << >> \/ (x.c[k].state = "syn" /\ x.c[k].c2s = << >>) ->
         Abort(x, k)
    [] x.c[k].rx = << >> /\ x.c[k].state = "syn" /\ x.c[k].c2s # << >> ->
         [x EXCEPT !.c[k].state = "synfin"]
    [] x.c[k].rx = << >> /\ x.c[k].state = "est" ->
         [x EXCEPT !.c[k].state = "finwait"]
    [] OTHER -> x

-----------------------------------------------------------------------------
(* HttpClientDashApplication *)

\* Faulty variant: the old connection is kept alive after a redirect.
DoSendGetRequestKeepsAlive(x, k) ==
  LET y == [x EXCEPT !.h.host = table, !.h.peer = table, !.h.keepAlive = TRUE,
                     !.h.first = TRUE]
  IN Send(y, k, [file |-> y.h.file, keepAlive |-> TRUE])

\* Faulty variant: the new host is noted, the address to connect to is not.
DoSendGetRequestSamePeer(x, k) ==
  LET y == [x EXCEPT !.h.host = table, !.h.keepAlive = x.h.host = table,
                     !.h.first = TRUE]
  IN Send(y, k, [file |-> y.h.file, keepAlive |-> y.h.keepAlive])

\* The entry of the table decides host, peer and keep-alive; the GET itself
\* goes out on the socket at hand.
DoSendGetRequest(x, k) ==
  LET moved == x.h.host # table
      y == [x EXCEPT !.h.host = table,
                     !.h.peer = IF moved THEN table ELSE @,
                     !.h.keepAlive = ~moved,
                     !.h.first = TRUE]
  IN Send(y, k, [file |-> y.h.file, keepAlive |-> y.h.keepAlive])

OnReadySend(x, k) ==
  IF x.h.sentGet THEN x
                 ELSE DoSendGetRequest([x EXCEPT !.h.sentGet = TRUE], k)

OpenSocket(x) ==
  LET k == x.h.opened + 1
  IN [x EXCEPT !.h = [@ EXCEPT !.sock = k, !.opened = k],
               !.c[k] = [@ EXCEPT !.state = "syn", !.server = x.h.peer,
                                  !.closeCb = TRUE]]

\* A kept-alive socket is used again; a socket that exists is never reopened.
TryEstablishConnection(x) ==
  LET y == [x EXCEPT !.h.sentGet = FALSE, !.h.finished = FALSE,
                     !.h.bytes = 0, !.h.got = {}]
  IN CASE y.h.sock = NoSocket -> OpenSocket(y)
       [] y.h.sock # NoSocket /\ ~y.h.keepAlive ->
            [y EXCEPT !.c[y.h.sock].closeCb = TRUE]
       [] OTHER -> OnReadySend(y, y.h.sock)

StartApplication(x) ==
  TryEstablishConnection([x EXCEPT !.h.buf = TRUE, !.h.active = TRUE])

\* Faulty variant: the closed socket is not forgotten.
StopApplicationKeepsSocket(x) ==
  LET y == [x EXCEPT !.h.active = FALSE, !.h.buf = FALSE]
  IN IF y.h.sock # NoSocket /\ ~y.h.keepAlive THEN Close(y, y.h.sock) ELSE y

StopApplication(x) ==
  LET y == [x EXCEPT !.h.active = FALSE, !.h.buf = FALSE]
  IN IF y.h.sock # NoSocket /\ ~y.h.keepAlive
       THEN [Close(y, y.h.sock) EXCEPT !.h.sock = NoSocket]
       ELSE y

ForceCloseSocket(x) ==
  IF x.h.sock # NoSocket /\ x.h.keepAlive THEN Close(x, x.h.sock) ELSE x

\* TCP reports the end of the connection, usually that the server closed: close
\* this end too.
ConnectionClosedNormal(x, k) ==
  [Close(x, k) EXCEPT !.c[k] = [@ EXCEPT !.state = "closed", !.closeCb = FALSE]]

-----------------------------------------------------------------------------
(* MultimediaConsumer *)

ScheduleDownloadOfSegment(x) == [x EXCEPT !.p.download = TRUE]

\* The event scheduled here, DownloadInitSegment, only writes to the log.
ScheduleDownloadOfInitSegment(x) == x

\* The peer becomes the host of the MPD's base URL; m_hostName is left alone.
OnMpdFile(x, from) ==
  LET y == [x EXCEPT !.h.peer = from]
      z == [y EXCEPT !.p.mpdParsed = TRUE, !.p.play = TRUE]
  IN CASE from \in BadMpd -> x
       [] from \in EmptyMpd \ BadMpd -> y
       [] from \in InitMpd \ (BadMpd \cup EmptyMpd) ->
            ScheduleDownloadOfInitSegment(z)
       [] OTHER -> ScheduleDownloadOfSegment(z)

\* Faulty variant: the next download starts while a segment waits for room.
OnMultimediaFileGoesOn(x) ==
  CASE ~x.h.active -> x
    [] x.h.active /\ Len(x.p.buffer) < BufferCap ->
         ScheduleDownloadOfSegment(
           [x EXCEPT !.p.buffer = Append(@, x.p.segment)])
    [] OTHER -> ScheduleDownloadOfSegment([x EXCEPT !.p.waits = @ + 1])

\* The segment goes into the playback buffer, or waits for room.
OnMultimediaFile(x) ==
  CASE ~x.h.active -> x
    [] x.h.active /\ Len(x.p.buffer) < BufferCap ->
         ScheduleDownloadOfSegment(
           [x EXCEPT !.p.buffer = Append(@, x.p.segment)])
    [] OTHER -> [x EXCEPT !.p.waits = @ + 1]

OnFileReceived(x, from) ==
  LET y == [x EXCEPT !.h.finished = TRUE]
  IN IF y.p.mpdParsed THEN OnMultimediaFile(y) ELSE OnMpdFile(y, from)

-----------------------------------------------------------------------------
(* Reading a response *)

\* A packet with a 404 reply in it counts as a length no file has.
TotalSize(units) ==
  IF \E u \in ToSet(units) : u.type = "404" THEN 10 * Parts + 10 ELSE Len(units)

\* Where the content begins and how long it is.  Without a header that gives a
\* length, a 404 for instance, the packet counts as a whole and the old content
\* length stays.
ParseResponseHeader(packet, len) ==
  IF Head(packet).type = "header" THEN [where |-> 1, len |-> Parts]
                                  ELSE [where |-> 0, len |-> len]

\* Everything in the receive buffer is one packet; the first one after a GET is
\* searched for a header.
HandleRead(x, k) ==
  LET packet == x.c[k].rx
      parsed == IF x.h.first THEN ParseResponseHeader(packet, x.h.len)
                             ELSE [where |-> 0, len |-> x.h.len]
      y == [x EXCEPT !.c[k].rx = << >>,
                     !.h.first = FALSE,
                     !.h.len = parsed.len,
                     !.h.bytes = @ + TotalSize(packet) - parsed.where,
                     !.h.got = @ \cup ToSet(packet)]
  IN CASE x.h.finished \/ packet = << >> -> x
       [] ~x.h.finished /\ packet # << >> /\ ~x.h.buf ->
            [x EXCEPT !.crash = TRUE]
       [] OTHER -> IF y.h.bytes = y.h.len
                     THEN OnFileReceived(y, Head(packet).from)
                     ELSE y

-----------------------------------------------------------------------------
(* Steps *)

Now == [h |-> http, c |-> conn, p |-> player, r |-> retries, crash |-> crash]

\* The state a chain of callbacks ends in.
Become(x) ==
  /\ x.h.opened <= MaxConns
  /\ http' = x.h
  /\ conn' = x.c
  /\ player' = x.p
  /\ retries' = x.r
  /\ crash' = x.crash
  /\ UNCHANGED <<table, redirects>>

\* The application's start event.
Start ==
  /\ player.status = "new"
  /\ Become(StartApplication(
       [Now EXCEPT !.h.host = table, !.h.peer = table, !.h.file = Mpd,
                   !.h.keepAlive = TRUE, !.p.status = "running"]))

\* Faulty variant: the download timer survives the player.
StopKeepsDownloadTimer ==
  /\ MayStop
  /\ player.status = "running"
  /\ Become(StopApplication(ForceCloseSocket(
       [Now EXCEPT !.p.play = FALSE, !.p.status = "stopped",
                   !.h.keepAlive = FALSE])))

\* The application's stop event: timers are cancelled and the player deleted.
Stop ==
  /\ MayStop
  /\ player.status = "running"
  /\ Become(StopApplication(ForceCloseSocket(
       [Now EXCEPT !.p.download = FALSE, !.p.play = FALSE,
                   !.p.status = "stopped", !.h.keepAlive = FALSE])))

\* The SYN is answered: requests and a deferred FIN are sent, ConnectionComplete
\* runs, then the send callback.
ConnectionComplete(k) ==
  /\ conn[k].state \in {"syn", "synfin"}
  /\ Become(OnReadySend(
       [Now EXCEPT !.c[k].state = IF @ = "syn" THEN "est" ELSE "finwait"], k))

\* The SYNs run out, or one is answered by a RST: TCP reports a normal close, as
\* if the server had closed, not ConnectionFailed.  The Close that follows finds
\* the connection being opened, so it counts as an error after all and a new
\* attempt is scheduled, unless a request waits.
ConnectGivenUp(k) ==
  /\ Faulty
  /\ conn[k].state \in {"syn", "synfin"}
  /\ Become([ConnectionClosedNormal(Now, k) EXCEPT
       !.c[k] = [@ EXCEPT !.state = "dead", !.c2s = << >>, !.served = FALSE]])

\* A request is retransmitted too often, maybe after the client has closed: the
\* socket reports an error.
RetransmitExhausted(k) ==
  /\ Faulty
  /\ conn[k].state \in {"est", "finwait"}
  /\ conn[k].c2s # << >>
  /\ Become(Abort(Now, k))

\* The event scheduled by ConnectionClosedError.
Retry ==
  /\ retries > 0
  /\ Become(TryEstablishConnection([Now EXCEPT !.r = @ - 1]))

\* Data and the FIN behind it, if there is one, reach the client, which
\* acknowledges them.
\* The FIN closes the connection: on an open one through the close callback.
Receive(k, n) ==
  LET units == SubSeq(conn[k].s2c, 1, n)
      rest  == SubSeq(conn[k].s2c, n + 1, Len(conn[k].s2c))
      fin   == Last(units).type = "FIN"
      data  == IF fin THEN Front(units) ELSE units
      x == HandleRead([Now EXCEPT !.c[k] = [@ EXCEPT !.s2c = rest,
                                                     !.rx = conn[k].rx \o data,
                                                     !.acked = conn[k].served]], k)
  IN /\ conn[k].state \in {"est", "finwait", "finwait2"}
     /\ Become(IF fin /\ ~x.crash
                 THEN ConnectionClosedNormal(x, k)
                 ELSE x)

\* The client's FIN reaches the server, which drops its callbacks and does not
\* close its end; the ACK makes the client's socket report free send space.
\* An open socket does not look at the ACK in a packet with a FIN (PeerClose).
\* With nothing lost the server has seen the ACKs sent before, and a FIN it sent
\* before is seen first.
AckFin(k) ==
  /\ conn[k].state = "finwait"
  /\ conn[k].c2s = << >>
  /\ Lossless => ~conn[k].acked /\ \A u \in ToSet(conn[k].s2c) : u.type # "FIN"
  /\ Become(OnReadySend(
       [Now EXCEPT !.c[k] = [@ EXCEPT !.state = "finwait2", !.served = FALSE,
                                      !.left = << >>, !.acked = FALSE]], k))

-----------------------------------------------------------------------------
(* The server's end (HttpServerFakeClientSocket) *)

Reply(server, file) ==
  IF server \in Holders
    THEN [i \in 1..(Parts + 1) |->
            [type |-> IF i = 1 THEN "header" ELSE "body",
             file |-> file, from |-> server]]
    ELSE << [type |-> "404", file |-> file, from |-> server] >>

\* Units are handed to TCP as long as the send buffer has room.
Transmit(c) ==
  LET n == IF TxUnits > Len(c.s2c) THEN TxUnits - Len(c.s2c) ELSE 0
      m == IF n < Len(c.left) THEN n ELSE Len(c.left)
  IN [c EXCEPT !.s2c = @ \o SubSeq(c.left, 1, m),
               !.left = SubSeq(c.left, m + 1, Len(c.left))]

\* A request is appended to m_activeRecvString, whose first GET is answered.
\* The packet that carries it also carries the ACKs before it (~acked).
\* What was not yet handed to TCP of an earlier response is forgotten.
FinishedIncomingData(k) ==
  LET c == conn[k]
      got == Append(c.recvString, Head(c.c2s))
  IN /\ c.state \in {"est", "finwait"}
     /\ c.served
     /\ ~c.acked
     /\ c.c2s # << >>
     /\ Become([Now EXCEPT !.c[k] = Transmit(
          [c EXCEPT !.c2s = Tail(@), !.recvString = got,
                    !.left = Reply(c.server, Head(got).file)])])

\* Faulty variant: an answered request is not forgotten while kept alive.
HandleReadyToTransmitKeepsRequest(k) ==
  LET c == conn[k]
  IN /\ c.served
     /\ c.acked
     /\ Become([Now EXCEPT !.c[k] = Transmit([c EXCEPT !.acked = FALSE])])

\* The send callback, after an ACK: go on transmitting, or forget the request
\* when everything has been handed over, and close unless kept alive.
HandleReadyToTransmit(k) ==
  LET c == conn[k]
      keep == \E r \in ToSet(c.recvString) : r.keepAlive
      fin == [type |-> "FIN", file |-> Mpd, from |-> c.server]
      done == [c EXCEPT !.acked = FALSE, !.recvString = << >>]
  IN /\ c.served
     /\ c.acked
     /\ Become([Now EXCEPT !.c[k] =
          CASE c.left # << >> -> Transmit([c EXCEPT !.acked = FALSE])
            [] c.left = << >> /\ (keep \/ c.recvString = << >>) -> done
            [] OTHER -> [done EXCEPT !.s2c = Append(@, fin), !.served = FALSE]])

-----------------------------------------------------------------------------
(* The consumer's timers *)

\* Faulty variant: the end of the video is not noticed.
DownloadSegmentPastEnd ==
  /\ player.download
  /\ Become(StartApplication([StopApplication(Now) EXCEPT
       !.p.download = FALSE, !.p.segment = player.next,
       !.p.next = @ + 1, !.h.file = player.next]))

\* DownloadSegment, when the adaptation logic names the next segment.
DownloadSegment ==
  /\ player.download
  /\ player.next <= NumSegments
  /\ Become(StartApplication([StopApplication(Now) EXCEPT
       !.p.download = FALSE, !.p.segment = player.next,
       !.p.next = @ + 1, !.h.file = player.next]))

\* ... when it says to wait.
DownloadIdle ==
  /\ player.download
  /\ player.next <= NumSegments
  /\ Become([Now EXCEPT !.p.segment = 0])

\* ... when there are no more segments.
DownloadedAll ==
  /\ player.download
  /\ player.next > NumSegments
  /\ Become(ForceCloseSocket([Now EXCEPT !.p.download = FALSE,
                                         !.p.segment = 0,
                                         !.p.allDownloaded = TRUE]))

\* A segment that found no room is offered again.
OfferAgain ==
  /\ player.waits > 0
  /\ Become(OnMultimediaFile([Now EXCEPT !.p.waits = @ - 1]))

\* DoPlay with something in the buffer: it is played and DoPlay rescheduled.
Play ==
  /\ player.play
  /\ player.buffer # << >>
  /\ Become([Now EXCEPT !.p.buffer = Tail(@),
                        !.p.played = Append(@, Head(player.buffer)),
                        !.p.started = TRUE,
                        !.p.frozen = @ /\ ~player.started])

\* ... with nothing left to come: the loop ends.
PlayedAll ==
  /\ player.play
  /\ player.buffer = << >>
  /\ player.allDownloaded
  /\ Become([Now EXCEPT !.p.play = FALSE])

\* ... with an empty buffer: a freeze begins, if playback has started.
Stall ==
  /\ player.play
  /\ player.buffer = << >>
  /\ ~player.allDownloaded
  /\ Become([Now EXCEPT !.p.frozen = @ \/ player.started])

\* ... and, for layered content, the download under way may be given up.
StallAborts ==
  /\ Layered
  /\ player.play
  /\ player.buffer = << >>
  /\ ~player.allDownloaded
  /\ player.segment # 0
  /\ Become(ScheduleDownloadOfSegment(StopApplication(
       [Now EXCEPT !.p.frozen = @ \/ player.started])))

-----------------------------------------------------------------------------
(* The controller rewrites the client's entry *)

Redirect(s) ==
  /\ redirects < MaxRedirects
  /\ s # table
  /\ EarlyRedirect \/ player.mpdParsed
  /\ table' = s
  /\ redirects' = redirects + 1
  /\ UNCHANGED <<http, conn, player, retries, crash>>

-----------------------------------------------------------------------------
Network ==
  \E k \in Conns :
    \/ ConnectionComplete(k)
    \/ \E n \in 1..Len(conn[k].s2c) : Receive(k, n)
    \/ AckFin(k)
    \/ FinishedIncomingData(k)
    \/ HandleReadyToTransmit(k)

Timers == DownloadedAll \/ OfferAgain \/ Retry

Faults == \E k \in Conns : ConnectGivenUp(k) \/ RetransmitExhausted(k)

Next ==
  /\ ~crash
  /\ \/ Start
     \/ Stop
     \/ Network
     \/ Timers
     \/ DownloadSegment
     \/ DownloadIdle
     \/ Play
     \/ PlayedAll
     \/ Stall
     \/ StallAborts
     \/ Faults
     \/ \E s \in Servers : Redirect(s)

Spec == Init /\ [][Next]_vars

\* Scheduled events fire, packets on working links arrive, and the adaptation
\* logic does not ask to wait for ever.
Fairness ==
  /\ WF_vars(Start)
  /\ WF_vars(Network)
  /\ WF_vars(Timers)
  /\ WF_vars(DownloadSegment)
  /\ WF_vars(Play)
  /\ WF_vars(PlayedAll)

FairSpec == Spec /\ Fairness

-----------------------------------------------------------------------------
(* Properties *)

\* A file counts as received only when every byte counted towards it belongs
\* to the file that was requested, across redirects and reused connections.
ReceivedIsRequested ==
  http.finished => \A u \in http.got : u.file = http.file

\* Playback shows the segments in order, none twice and none left out, however
\* downloads, retries of a full buffer and playback interleave.
PlaybackInOrder ==
  LET shown == player.played \o player.buffer
  IN shown = [i \in 1..Len(shown) |-> i]

\* While a segment waits for room nothing else is downloaded ("do not donwload
\* anything in the meantime"): the retry reads the members that describe the
\* segment under way, so a download begun meanwhile would replace them.
NoDownloadMeanwhile ==
  player.waits > 0 /\ player.status = "running"
    => player.waits = 1 /\ ~player.download /\ http.finished

\* A server never holds two requests of a connection at once: it answers the
\* first GET it finds in what it has received, so a request that arrives before
\* the one in front of it is forgotten would be answered with the wrong file.
OneRequestAtATime ==
  \A k \in Conns : Len(conn[k].c2s) <= 1 /\ Len(conn[k].recvString) <= 1

\* A connection is kept alive only if it leads to the server in the table at
\* the time of the last request: otherwise the redirect would be lost.
KeptAliveToHost ==
  http.sock # NoSocket /\ http.keepAlive /\ http.sentGet
    => conn[http.sock].server = http.host

\* A timer of the consumer never fires after its player has been deleted.
TimersNeedPlayer ==
  player.download \/ player.play => player.status = "running"

\* Received data is never copied into a freed buffer: the wait of 1 ms before a
\* download "prevents some issues with start/stop application and interests
\* coming in late" (http-multimedia-consumer.cc:658).
NeverNullBuffer == ~crash

\* While the application runs, a broken socket is replaced or a new attempt
\* is scheduled ("Trying to open it again...").
BrokenIsRetried ==
  http.active /\ http.sock # NoSocket /\ conn[http.sock].state = "dead"
    => retries > 0

\* Every segment is eventually played.
AllPlayed == <>(Len(player.played) = NumSegments)

\* A client whose entry names a server while two requests are still to come is
\* connected to that server in the end, unless the entry changes again: the
\* first request finds out and closes the old connection, the second one opens
\* the new one.
RedirectFollowed ==
  \A s \in Servers :
    table = s /\ player.next < NumSegments
      ~> table # s \/ (http.sock # NoSocket /\ conn[http.sock].server = s)
=============================================================================
