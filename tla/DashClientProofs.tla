-------------------------- MODULE DashClientProofs --------------------------
(***************************************************************************)
(* Proofs about DashClient.                                                *)
(*                                                                         *)
(* TypeCorrect and TimersNeedPlayerHolds are about every run, with faults, *)
(* stops and aborted downloads.  ClientInvHolds is about a client whose    *)
(* connections do not fail (~Faulty) and which is neither stopped          *)
(* (~MayStop) nor gives up downloads (~Layered): then each request passes  *)
(* through stages (Connecting, Asked, Answering, Done, or Refusing and     *)
(* Stuck), each of which says where the request is, what the server holds  *)
(* and what is in flight, and the units in flight and not yet sent add up  *)
(* to what the client still waits for.  ClientInv combines the stage of    *)
(* the current connection with the state of the download loop; HostInv     *)
(* adds where connections lead.  DashClientFaultProofs says what becomes   *)
(* of this invariant when connections fail and the application is stopped, *)
(* and proves the client's properties.                                     *)
(***************************************************************************)
EXTENDS DashClient, SequenceTheorems, TLAPS

\* The types of the parts of the client's state.  Whether a connection may be
\* opened is decided when the chain of callbacks ends (Become), so the numbers
\* of connections are bounded only then.
Https ==
  [active : BOOLEAN, buf : BOOLEAN, sock : Nat, keepAlive : BOOLEAN,
   sentGet : BOOLEAN, finished : BOOLEAN, host : Servers, peer : Servers,
   first : BOOLEAN, bytes : Nat, len : Nat, file : Files, got : SUBSET Unit,
   opened : Nat]

Players ==
  [status : {"new", "running", "stopped"}, mpdParsed : BOOLEAN,
   allDownloaded : BOOLEAN, next : 1..(NumSegments + 1), segment : Files,
   buffer : Seq(Files), played : Seq(Files), download : BOOLEAN,
   play : BOOLEAN, waits : Nat, started : BOOLEAN, frozen : BOOLEAN]

States == [h : Https, c : [Conns -> Connection], p : Players, r : Nat, crash : BOOLEAN]

\* The current socket is the one opened last, or one the bound allows.
Bounded(h) == h.sock <= MaxConns \/ h.sock = h.opened

Typed(x) == x \in States /\ Bounded(x.h)

\* Files are numbered from 0, and the constants are positive numbers.
LEMMA Constants ==
  /\ NumSegments \in Nat \ {0} /\ Parts \in Nat \ {0} /\ TxUnits \in Nat \ {0}
  /\ BufferCap \in Nat \ {0} /\ MaxConns \in Nat \ {0}
  /\ Mpd \in Files /\ Cloud \in Servers /\ Files \subseteq Nat
BY ClientAssumption DEF Files, Mpd

\* TypeOK in terms of these sets.
LEMMA TypeParts ==
  TypeOK <=> /\ Now \in States /\ http.sock <= MaxConns /\ http.opened <= MaxConns
             /\ table \in Servers /\ redirects \in 0..MaxRedirects
<1>1. Now.h = http /\ Now.c = conn /\ Now.p = player /\ Now.r = retries /\ Now.crash = crash
  BY DEF Now
<1>2. Now \in States <=> /\ http \in Https /\ conn \in [Conns -> Connection]
                         /\ player \in Players /\ retries \in Nat /\ crash \in BOOLEAN
  BY DEF Now, States
<1>3. (player \in Players) <=> (player \in [status : {"new", "running", "stopped"}, mpdParsed : BOOLEAN,
                 allDownloaded : BOOLEAN, next : 1..(NumSegments + 1),
                 segment : Files, buffer : Seq(Files), played : Seq(Files),
                 download : BOOLEAN, play : BOOLEAN, waits : Nat,
                 started : BOOLEAN, frozen : BOOLEAN])
  BY DEF Players
<1>4. http \in Https /\ http.sock <= MaxConns /\ http.opened <= MaxConns
      <=> http \in [active : BOOLEAN, buf : BOOLEAN, sock : 0..MaxConns,
               keepAlive : BOOLEAN, sentGet : BOOLEAN, finished : BOOLEAN,
               host : Servers, peer : Servers, first : BOOLEAN, bytes : Nat,
               len : Nat, file : Files, got : SUBSET Unit, opened : 0..MaxConns]
  BY Constants DEF Https
<1> QED BY <1>2, <1>3, <1>4 DEF TypeOK

\* A changed member of the client keeps the types, if it has its own.
LEMMA SendTyped ==
  ASSUME NEW x, Typed(x), NEW k \in Conns, NEW m \in Request
  PROVE  Typed(Send(x, k, m)) /\ Send(x, k, m).h = x.h /\ Send(x, k, m).p = x.p
<1>1. x.c[k] \in Connection /\ x.c[k].c2s \in Seq(Request)
  BY DEF Typed, States, Connection
<1>2. Append(x.c[k].c2s, m) \in Seq(Request)
  BY <1>1
<1>3. [x.c[k] EXCEPT !.c2s = Append(@, m)] \in Connection
  BY <1>1, <1>2 DEF Connection
<1>4. [x EXCEPT !.c[k].c2s = Append(@, m)] \in States
  BY <1>3 DEF Typed, States
<1> QED BY <1>4 DEF Send, Typed, States

\* Sending a GET keeps the types.
LEMMA GetTyped ==
  ASSUME NEW x, Typed(x), NEW k \in Conns, table \in Servers
  PROVE  Typed(DoSendGetRequest(x, k)) /\ Typed(OnReadySend(x, k))
<1>1. ASSUME NEW y, Typed(y) PROVE Typed(DoSendGetRequest(y, k))
  <2> DEFINE moved == y.h.host # table
             z == [y EXCEPT !.h.host = table, !.h.peer = IF moved THEN table ELSE @,
                            !.h.keepAlive = ~moved, !.h.first = TRUE]
             m == [file |-> z.h.file, keepAlive |-> z.h.keepAlive]
  <2>1. z = [y EXCEPT !.h = [y.h EXCEPT !.host = table, !.peer = IF moved THEN table ELSE @,
                                        !.keepAlive = ~moved, !.first = TRUE]]
    BY <1>1 DEF Typed, States, Https
  <2>2. [y.h EXCEPT !.host = table, !.peer = IF moved THEN table ELSE @,
                    !.keepAlive = ~moved, !.first = TRUE] \in Https
    BY <1>1, ZenonT(60) DEF Typed, States, Https
  <2>3. Typed(z)
    BY <1>1, <2>1, <2>2, ZenonT(60) DEF Typed, States, Bounded, Https
  <2>4. m \in Request
    BY <2>3 DEF Typed, States, Https, Request
  <2>5. DoSendGetRequest(y, k) = Send(z, k, m)
    BY DEF DoSendGetRequest
  <2> HIDE DEF z, m
  <2> QED BY <2>3, <2>4, <2>5, SendTyped
<1>2. Typed([x EXCEPT !.h.sentGet = TRUE])
  BY DEF Typed, States, Bounded, Https
<1> QED BY <1>1, <1>2 DEF OnReadySend

\* So does closing or resetting a connection, which leaves the client's members
\* and the player alone.
LEMMA CloseTyped ==
  ASSUME NEW x, Typed(x), NEW k \in Conns
  PROVE  /\ Typed(Close(x, k)) /\ Close(x, k).h = x.h /\ Close(x, k).p = x.p
         /\ Typed(Abort(x, k)) /\ Abort(x, k).h = x.h /\ Abort(x, k).p = x.p
<1>1. ASSUME NEW y, Typed(y)
      PROVE  /\ Typed(ConnectionClosedError(y, k))
             /\ ConnectionClosedError(y, k).h = y.h /\ ConnectionClosedError(y, k).p = y.p
  <2>1. y.c[k] \in Connection /\ y.r + 1 \in Nat
    BY <1>1 DEF Typed, States
  <2>2. [y.c[k] EXCEPT !.closeCb = FALSE] \in Connection
    BY <2>1 DEF Connection
  <2> QED BY <1>1, <2>1, <2>2 DEF ConnectionClosedError, Typed, States
<1>2. x.c[k] \in Connection /\ << >> \in Seq(Request) /\ << >> \in Seq(Unit)
  BY DEF Typed, States
<1> DEFINE d == [x.c[k] EXCEPT !.state = "dead", !.c2s = << >>, !.s2c = << >>,
                               !.left = << >>, !.served = FALSE]
<1>3. d \in Connection
  BY <1>2 DEF Connection
<1>4. Abort(x, k) = ConnectionClosedError([x EXCEPT !.c[k] = d], k)
  BY DEF Abort
<1> HIDE DEF d
<1> DEFINE y == [x EXCEPT !.c[k] = d]
<1>5. Typed(y) /\ y.h = x.h /\ y.p = x.p
  BY <1>3 DEF Typed, States
<1>6. Abort(x, k) = ConnectionClosedError(y, k)
  BY <1>4
<1> HIDE DEF y
<1>7. Typed(Abort(x, k)) /\ Abort(x, k).h = x.h /\ Abort(x, k).p = x.p
  BY <1>1, <1>5, <1>6
<1>8. ASSUME NEW s \in {"synfin", "finwait"}
      PROVE  LET z == [x EXCEPT !.c[k].state = s] IN Typed(z) /\ z.h = x.h /\ z.p = x.p
  <2>1. [x.c[k] EXCEPT !.state = s] \in Connection
    BY <1>2, <1>8 DEF Connection
  <2> QED BY <2>1 DEF Typed, States
<1>9. /\ Typed([x EXCEPT !.c[k].state = "finwait"]) /\ Typed([x EXCEPT !.c[k].state = "synfin"])
      /\ [x EXCEPT !.c[k].state = "finwait"].h = x.h /\ [x EXCEPT !.c[k].state = "finwait"].p = x.p
      /\ [x EXCEPT !.c[k].state = "synfin"].h = x.h /\ [x EXCEPT !.c[k].state = "synfin"].p = x.p
  BY <1>8
<1> QED BY <1>7, <1>9 DEF Close

\* A connection as it is after the SYNs have run out.
Unanswered(x, k) ==
  [ConnectionClosedNormal(x, k) EXCEPT
     !.c[k] = [@ EXCEPT !.state = "dead", !.c2s = << >>, !.served = FALSE]]

\* So does giving up a connection attempt.
LEMMA UnansweredTyped ==
  ASSUME NEW x, Typed(x), NEW k \in Conns
  PROVE  LET d == [Close(x, k).c[k] EXCEPT !.state = "dead", !.closeCb = FALSE, !.c2s = << >>, !.served = FALSE]
         IN /\ Unanswered(x, k) = [Close(x, k) EXCEPT !.c = [@ EXCEPT ![k] = d]]
            /\ d \in Connection /\ Typed(Unanswered(x, k))
            /\ Unanswered(x, k).h = x.h /\ Unanswered(x, k).p = x.p
<1>1. PICK y : y = Close(x, k)
  OBVIOUS
<1>2. Typed(y) /\ y \in States /\ y.h = x.h /\ y.p = x.p /\ y.c[k] \in Connection /\ << >> \in Seq(Request)
  <2>1. Typed(y) /\ y.h = x.h /\ y.p = x.p
    BY <1>1, CloseTyped
  <2> QED BY <2>1 DEF Typed, States
<1>3. PICK e : e = [y.c[k] EXCEPT !.state = "closed", !.closeCb = FALSE]
  OBVIOUS
<1>4. PICK v : v = [y EXCEPT !.c[k] = e]
  OBVIOUS
<1>5. ConnectionClosedNormal(x, k) = v
  BY <1>1, <1>3, <1>4 DEF ConnectionClosedNormal
<1>6. v.c = [y.c EXCEPT ![k] = e] /\ v.c[k] = e
  BY <1>2, <1>4 DEF States
<1>7. PICK d : d = [y.c[k] EXCEPT !.state = "dead", !.closeCb = FALSE, !.c2s = << >>, !.served = FALSE]
  OBVIOUS
<1>8. [e EXCEPT !.state = "dead", !.c2s = << >>, !.served = FALSE] = d /\ d \in Connection
  BY <1>2, <1>3, <1>7 DEF Connection
<1>9. Unanswered(x, k) = [v EXCEPT !.c[k] = d]
  BY <1>5, <1>6, <1>8 DEF Unanswered
<1>10. [v EXCEPT !.c[k] = d] = [y EXCEPT !.c = [@ EXCEPT ![k] = d]]
  BY <1>2, <1>4, <1>6 DEF States
<1>11. PICK z : z = [y EXCEPT !.c = [@ EXCEPT ![k] = d]]
  OBVIOUS
<1>12. Typed(z) /\ z.h = y.h /\ z.p = y.p
  BY <1>2, <1>8, <1>11 DEF Typed, States
<1> QED BY <1>1, <1>2, <1>7, <1>8, <1>9, <1>10, <1>11, <1>12

\* So does opening a connection or using one again.
LEMMA EstablishTyped ==
  ASSUME NEW x, Typed(x), table \in Servers, x.h.sock <= MaxConns
  PROVE  Typed(TryEstablishConnection(x)) /\ Typed(StartApplication(x))
<1>1. ASSUME NEW z, Typed(z), z.h.sock <= MaxConns
      PROVE  Typed(TryEstablishConnection(z))
  <2> DEFINE y == [z EXCEPT !.h.sentGet = FALSE, !.h.finished = FALSE, !.h.bytes = 0, !.h.got = {}]
             k == y.h.opened + 1
  <2>1. Typed(y) /\ y.h.sock <= MaxConns
    BY <1>1, ZenonT(60) DEF Typed, States, Bounded, Https
  <2> HIDE DEF y
  <2>2. Typed(OpenSocket(y))
    <3> DEFINE d == [y.c[k] EXCEPT !.state = "syn", !.server = y.h.peer, !.closeCb = TRUE]
               g == [y.h EXCEPT !.sock = k, !.opened = k]
    <3>1. y.h \in Https /\ k \in Nat /\ y.c \in [Conns -> Connection] /\ y.h.peer \in Servers
      BY <2>1 DEF Typed, States, Https
    <3>2. g \in Https /\ Bounded(g)
      BY <3>1 DEF Bounded, Https
    <3>3. ASSUME k \in Conns PROVE d \in Connection
      <4>1. y.c[k] \in Connection
        BY <3>1, <3>3
      <4> QED BY <3>1, <4>1 DEF Connection
    <3>5. OpenSocket(y) = [y EXCEPT !.h = g, !.c = [y.c EXCEPT ![k] = d]]
      BY DEF OpenSocket
    <3> HIDE DEF d, g
    <3>4. [y.c EXCEPT ![k] = d] \in [Conns -> Connection]
      BY <3>1, <3>3
    <3> QED BY <2>1, <3>2, <3>4, <3>5 DEF Typed, States
  <2>3. ASSUME y.h.sock # NoSocket
        PROVE  Typed([y EXCEPT !.c[y.h.sock].closeCb = TRUE]) /\ Typed(OnReadySend(y, y.h.sock))
    <3>1. y.h.sock \in Conns
      BY <2>1, <2>3, Constants DEF Typed, States, Https, Conns, NoSocket
    <3>2. [y.c[y.h.sock] EXCEPT !.closeCb = TRUE] \in Connection
      <4>1. y.c[y.h.sock] \in Connection
        BY <2>1, <3>1 DEF Typed, States
      <4> QED BY <4>1 DEF Connection
    <3>3. Typed([y EXCEPT !.c[y.h.sock].closeCb = TRUE])
      BY <2>1, <3>1, <3>2 DEF Typed, States
    <3> QED BY <2>1, <3>1, <3>3, GetTyped
  <2>4. TryEstablishConnection(z) =
          CASE y.h.sock = NoSocket -> OpenSocket(y)
            [] y.h.sock # NoSocket /\ ~y.h.keepAlive -> [y EXCEPT !.c[y.h.sock].closeCb = TRUE]
            [] OTHER -> OnReadySend(y, y.h.sock)
    BY DEF TryEstablishConnection, y
  <2> QED BY <2>2, <2>3, <2>4
<1>2. Typed([x EXCEPT !.h.buf = TRUE, !.h.active = TRUE])
      /\ [x EXCEPT !.h.buf = TRUE, !.h.active = TRUE].h.sock <= MaxConns
  BY DEF Typed, States, Bounded, Https
<1> QED BY <1>1, <1>2 DEF StartApplication

\* So does stopping, which leaves the player alone.
LEMMA StopTyped ==
  ASSUME NEW x, Typed(x), x.h.sock <= MaxConns
  PROVE  /\ Typed(StopApplication(x)) /\ StopApplication(x).h.sock <= MaxConns
         /\ StopApplication(x).p = x.p
         /\ Typed(ForceCloseSocket(x)) /\ ForceCloseSocket(x).h = x.h /\ ForceCloseSocket(x).p = x.p
<1>1. ASSUME NEW z, Typed(z), z.h.sock <= MaxConns, z.h.sock # NoSocket
      PROVE  Typed(Close(z, z.h.sock)) /\ Close(z, z.h.sock).h = z.h /\ Close(z, z.h.sock).p = z.p
  <2>1. z.h.sock \in Conns
    BY <1>1, Constants DEF Typed, States, Https, Conns, NoSocket
  <2> QED BY <1>1, <2>1, CloseTyped
<1> DEFINE y == [x EXCEPT !.h.active = FALSE, !.h.buf = FALSE]
<1>2. Typed(y) /\ y.h.sock <= MaxConns /\ y.p = x.p
  BY DEF Typed, States, Bounded, Https
<1>3. StopApplication(x) = IF y.h.sock # NoSocket /\ ~y.h.keepAlive
                             THEN [Close(y, y.h.sock) EXCEPT !.h.sock = NoSocket] ELSE y
  BY DEF StopApplication
<1> HIDE DEF y
<1>4. ASSUME y.h.sock # NoSocket
      PROVE  /\ Typed([Close(y, y.h.sock) EXCEPT !.h.sock = NoSocket])
             /\ [Close(y, y.h.sock) EXCEPT !.h.sock = NoSocket].h.sock <= MaxConns
             /\ [Close(y, y.h.sock) EXCEPT !.h.sock = NoSocket].p = x.p
  <2>1. PICK z : z = Close(y, y.h.sock)
    OBVIOUS
  <2>2. Typed(z) /\ z.p = x.p
    BY <1>1, <1>2, <1>4, <2>1
  <2>3. /\ Typed([z EXCEPT !.h.sock = NoSocket]) /\ [z EXCEPT !.h.sock = NoSocket].p = x.p
        /\ [z EXCEPT !.h.sock = NoSocket].h.sock <= MaxConns
    BY <2>2, Constants DEF Typed, States, Bounded, Https, NoSocket
  <2> QED BY <2>1, <2>3
<1>5. /\ Typed(StopApplication(x)) /\ StopApplication(x).h.sock <= MaxConns
      /\ StopApplication(x).p = x.p
  BY <1>2, <1>3, <1>4
<1>6. Typed(ForceCloseSocket(x)) /\ ForceCloseSocket(x).h = x.h /\ ForceCloseSocket(x).p = x.p
  BY <1>1 DEF ForceCloseSocket
<1> QED BY <1>5, <1>6

\* So does a file that has arrived.
LEMMA FileTyped ==
  ASSUME NEW x, Typed(x), NEW from \in Servers
  PROVE  Typed(OnMultimediaFile(x)) /\ Typed(OnFileReceived(x, from))
<1>1. ASSUME NEW y, Typed(y) PROVE Typed(OnMultimediaFile(y))
  <2>1. y.p \in Players /\ y.p.segment \in Files /\ y.p.buffer \in Seq(Files)
    BY <1>1 DEF Typed, States, Players
  <2>2. Append(y.p.buffer, y.p.segment) \in Seq(Files) /\ y.p.waits + 1 \in Nat
    BY <2>1 DEF Players
  <2>3. [[y.p EXCEPT !.buffer = Append(@, y.p.segment)] EXCEPT !.download = TRUE] \in Players
    BY <2>1, <2>2 DEF Players
  <2>4. [y.p EXCEPT !.waits = @ + 1] \in Players
    BY <2>1, <2>2 DEF Players
  <2>5. Typed(ScheduleDownloadOfSegment([y EXCEPT !.p.buffer = Append(@, y.p.segment)]))
    BY <1>1, <2>3 DEF ScheduleDownloadOfSegment, Typed, States
  <2>6. Typed([y EXCEPT !.p.waits = @ + 1])
    BY <1>1, <2>4 DEF Typed, States
  <2> QED BY <1>1, <2>5, <2>6 DEF OnMultimediaFile
<1>2. ASSUME NEW x0, Typed(x0) PROVE Typed(OnMpdFile(x0, from))
  <2> DEFINE g == [x0.h EXCEPT !.peer = from]
             q == [x0.p EXCEPT !.mpdParsed = TRUE, !.play = TRUE]
             v == [x0 EXCEPT !.h.peer = from]
             y == [v EXCEPT !.p.mpdParsed = TRUE, !.p.play = TRUE]
  <2>1. g \in Https /\ Bounded(g) /\ q \in Players /\ [q EXCEPT !.download = TRUE] \in Players
    BY <1>2 DEF Typed, States, Bounded, Https, Players
  <2>2. v = [x0 EXCEPT !.h = g] /\ y = [x0 EXCEPT !.h = g, !.p = q]
    BY <1>2 DEF Typed, States
  <2> HIDE DEF g, q
  <2>3. Typed(v) /\ Typed(y) /\ y.p = q
    BY <1>2, <2>1, <2>2 DEF Typed, States
  <2>5. OnMpdFile(x0, from) \in {x0, v, ScheduleDownloadOfInitSegment(y), ScheduleDownloadOfSegment(y)}
    BY DEF OnMpdFile
  <2> HIDE DEF v, y
  <2>4. Typed(ScheduleDownloadOfSegment(y)) /\ Typed(ScheduleDownloadOfInitSegment(y))
    BY <2>1, <2>3 DEF ScheduleDownloadOfSegment, ScheduleDownloadOfInitSegment, Typed, States
  <2> QED BY <1>2, <2>3, <2>4, <2>5
<1>3. Typed([x EXCEPT !.h.finished = TRUE])
  BY DEF Typed, States, Bounded, Https
<1> QED BY <1>1, <1>2, <1>3 DEF OnFileReceived

\* A packet that is not empty has a size, of which the header is a part.
LEMMA PacketSize ==
  ASSUME NEW packet \in Seq(Unit), packet # << >>, NEW len \in Nat
  PROVE  /\ TotalSize(packet) \in Nat \ {0} /\ ToSet(packet) \subseteq Unit
         /\ Head(packet) \in Unit
         /\ ParseResponseHeader(packet, len).where \in {0, 1}
         /\ ParseResponseHeader(packet, len).len \in Nat
<1>1. Len(packet) \in Nat \ {0} /\ Head(packet) \in Unit
  BY EmptySeq, HeadTailProperties
<1>2. TotalSize(packet) \in Nat \ {0}
  BY <1>1, Constants DEF TotalSize
<1>3. ToSet(packet) \subseteq Unit
  BY ElementOfSeq DEF ToSet
<1> QED BY <1>1, <1>2, <1>3, Constants DEF ParseResponseHeader

\* So does reading what was received.
LEMMA ReadTyped ==
  ASSUME NEW x, Typed(x), NEW k \in Conns
  PROVE  Typed(HandleRead(x, k))
<1> DEFINE packet == x.c[k].rx
           parsed == IF x.h.first THEN ParseResponseHeader(packet, x.h.len)
                                  ELSE [where |-> 0, len |-> x.h.len]
           y == [x EXCEPT !.c[k].rx = << >>, !.h.first = FALSE, !.h.len = parsed.len,
                          !.h.bytes = @ + TotalSize(packet) - parsed.where,
                          !.h.got = @ \cup ToSet(packet)]
<1>1. x.h \in Https /\ x.c[k] \in Connection /\ packet \in Seq(Unit) /\ x.h.len \in Nat
      /\ x.h.bytes \in Nat /\ x.h.got \subseteq Unit /\ << >> \in Seq(Unit)
  BY DEF Typed, States, Https, Connection
<1>2. ASSUME packet # << >> PROVE Typed(y) /\ Head(packet).from \in Servers
  <2>1. /\ TotalSize(packet) \in Nat \ {0} /\ ToSet(packet) \subseteq Unit /\ Head(packet) \in Unit
        /\ parsed.where \in {0, 1} /\ parsed.len \in Nat
    BY <1>1, <1>2, PacketSize
  <2> DEFINE n == x.h.bytes + TotalSize(packet) - parsed.where
             g == [x.h EXCEPT !.first = FALSE, !.len = parsed.len, !.bytes = n,
                              !.got = x.h.got \cup ToSet(packet)]
             d == [x.c[k] EXCEPT !.rx = << >>]
  <2>2. n \in Nat /\ x.h.got \cup ToSet(packet) \subseteq Unit
    BY <1>1, <2>1
  <2>3. y = [x EXCEPT !.h = g, !.c[k] = d]
    BY ZenonT(60) DEF Typed, States
  <2> HIDE DEF n, parsed, packet, y
  <2>4. g \in Https /\ g.sock = x.h.sock /\ g.opened = x.h.opened
    BY <1>1, <2>1, <2>2 DEF Https
  <2>5. d \in Connection
    BY <1>1 DEF Connection
  <2> HIDE DEF g, d
  <2>6. Typed(y)
    BY <2>3, <2>4, <2>5 DEF Typed, States, Bounded
  <2> QED BY <2>1, <2>6 DEF Unit
<1>3. Typed([x EXCEPT !.crash = TRUE])
  BY DEF Typed, States
<1>4. HandleRead(x, k) = CASE x.h.finished \/ packet = << >> -> x
       [] ~x.h.finished /\ packet # << >> /\ ~x.h.buf -> [x EXCEPT !.crash = TRUE]
       [] OTHER -> IF y.h.bytes = y.h.len THEN OnFileReceived(y, Head(packet).from) ELSE y
  BY DEF HandleRead
<1> HIDE DEF y, packet
<1> QED BY <1>2, <1>3, <1>4, FileTyped

\* A reply is a sequence of units.
LEMMA ReplyTyped ==
  ASSUME NEW server \in Servers, NEW file \in Files
  PROVE  Reply(server, file) \in Seq(Unit)
<1>1. CASE server \in Holders
  <2>1. [i \in 1..(Parts + 1) |-> [type |-> IF i = 1 THEN "header" ELSE "body",
                                   file |-> file, from |-> server]] \in Seq(Unit)
    BY Constants, SeqDef DEF Unit
  <2> QED BY <1>1, <2>1 DEF Reply
<1>2. CASE server \notin Holders
  <2>1. << [type |-> "404", file |-> file, from |-> server] >> \in Seq(Unit)
    BY DEF Unit
  <2> QED BY <1>2, <2>1 DEF Reply
<1> QED BY <1>1, <1>2

\* Handing units to TCP keeps the type of the connection.
LEMMA TransmitTyped ==
  ASSUME NEW c \in Connection
  PROVE  Transmit(c) \in Connection
<1>1. c.s2c \in Seq(Unit) /\ c.left \in Seq(Unit)
  BY DEF Connection
<1> DEFINE n == IF TxUnits > Len(c.s2c) THEN TxUnits - Len(c.s2c) ELSE 0
           m == IF n < Len(c.left) THEN n ELSE Len(c.left)
<1>2. n \in Nat
  BY <1>1, Constants
<1> HIDE DEF n
<1>3. m \in 0..Len(c.left)
  BY <1>1, <1>2
<1>4. Transmit(c) = [c EXCEPT !.s2c = @ \o SubSeq(c.left, 1, m),
                              !.left = SubSeq(c.left, m + 1, Len(c.left))]
  BY DEF Transmit, n
<1> HIDE DEF m
<1>5. /\ SubSeq(c.left, 1, m) \in Seq(Unit) /\ SubSeq(c.left, m + 1, Len(c.left)) \in Seq(Unit)
  BY <1>1, <1>3
<1>6. c.s2c \o SubSeq(c.left, 1, m) \in Seq(Unit)
  BY <1>1, <1>5
<1> QED BY <1>4, <1>5, <1>6 DEF Connection

-----------------------------------------------------------------------------
\* The state a chain of callbacks ends in has the types.
LEMMA BecomeTyped ==
  ASSUME TypeOK, NEW x, Typed(x), Become(x)
  PROVE  TypeOK'
<1>1. x.h \in Https /\ x.h.sock <= MaxConns /\ x.h.opened <= MaxConns
  BY Constants DEF Typed, States, Bounded, Become, Https
<1>2. x.h \in [active : BOOLEAN, buf : BOOLEAN, sock : 0..MaxConns,
               keepAlive : BOOLEAN, sentGet : BOOLEAN, finished : BOOLEAN,
               host : Servers, peer : Servers, first : BOOLEAN, bytes : Nat,
               len : Nat, file : Files, got : SUBSET Unit, opened : 0..MaxConns]
  BY <1>1, Constants DEF Https
<1>3. x.c \in [Conns -> Connection] /\ x.p \in Players /\ x.r \in Nat /\ x.crash \in BOOLEAN
  BY DEF Typed, States
<1>4. /\ http' = x.h /\ conn' = x.c /\ player' = x.p /\ retries' = x.r /\ crash' = x.crash
      /\ table' = table /\ redirects' = redirects
  BY DEF Become
<1> QED BY <1>2, <1>3, <1>4, SMTT(40) DEF TypeOK, Players

\* Initially every variable has its type.
LEMMA TypeInit == Init => TypeOK
<1> SUFFICES ASSUME Init PROVE TypeOK
  OBVIOUS
<1>1. << >> \in Seq(Request) /\ << >> \in Seq(Unit) /\ << >> \in Seq(Files) /\ {} \in SUBSET Unit
  OBVIOUS
<1>2. conn \in [Conns -> Connection]
  BY <1>1, Constants DEF Init, Connection
<1>3. http \in Https /\ http.sock = 0 /\ http.opened = 0
  BY <1>1, Constants DEF Init, Https, NoSocket
<1>4. player \in Players
  BY <1>1, Constants DEF Init, Players, Mpd
<1>5. Now \in States
  BY <1>2, <1>3, <1>4 DEF Init, Now, States
<1>6. http.sock <= MaxConns /\ http.opened <= MaxConns
  BY <1>3, Constants
<1>7. table \in Servers /\ redirects \in 0..MaxRedirects
  BY Constants, ClientAssumption DEF Init
<1> QED BY <1>5, <1>6, <1>7, TypeParts

\* Every step keeps the types.
LEMMA TypeNext == TypeOK /\ [Next]_vars => TypeOK'
<1> SUFFICES ASSUME TypeOK, [Next]_vars PROVE TypeOK'
  OBVIOUS
<1>1. /\ Typed(Now) /\ http.sock <= MaxConns /\ table \in Servers
      /\ http \in Https /\ conn \in [Conns -> Connection] /\ player \in Players
      /\ Now.h = http /\ Now.c = conn /\ Now.p = player /\ Now.r = retries /\ Now.crash = crash
  BY TypeParts DEF Typed, Bounded, Now, States
<1>2. CASE UNCHANGED vars
  BY <1>2 DEF vars, TypeOK
<1>3. CASE Start
  <2> DEFINE x == [Now EXCEPT !.h.host = table, !.h.peer = table, !.h.file = Mpd,
                              !.h.keepAlive = TRUE, !.p.status = "running"]
  <2>1. Typed(x) /\ x.h.sock <= MaxConns
    BY <1>1, Constants, ZenonT(60) DEF Typed, States, Bounded, Https, Players
  <2>2. Become(StartApplication(x))
    BY <1>3 DEF Start
  <2> HIDE DEF x
  <2> QED BY <1>1, <2>1, <2>2, EstablishTyped, BecomeTyped
<1>4. CASE Stop
  <2> DEFINE x == [Now EXCEPT !.p.download = FALSE, !.p.play = FALSE,
                              !.p.status = "stopped", !.h.keepAlive = FALSE]
  <2>1. Typed(x) /\ x.h.sock <= MaxConns
    BY <1>1, ZenonT(60) DEF Typed, States, Bounded, Https, Players
  <2>2. Become(StopApplication(ForceCloseSocket(x)))
    BY <1>4 DEF Stop
  <2> HIDE DEF x
  <2>3. PICK y : y = ForceCloseSocket(x)
    OBVIOUS
  <2>4. Typed(y) /\ y.h.sock <= MaxConns
    BY <2>1, <2>3, StopTyped
  <2> QED BY <2>2, <2>3, <2>4, StopTyped, BecomeTyped
<1>5. ASSUME NEW k \in Conns, ConnectionComplete(k) PROVE TypeOK'
  <2>1. conn[k] \in Connection
    BY <1>1
  <2> DEFINE x == [Now EXCEPT !.c[k].state = IF @ = "syn" THEN "est" ELSE "finwait"]
  <2>2. [conn[k] EXCEPT !.state = IF @ = "syn" THEN "est" ELSE "finwait"] \in Connection
    BY <2>1 DEF Connection
  <2>3. Typed(x)
    BY <1>1, <2>2 DEF Typed, States
  <2>4. Become(OnReadySend(x, k))
    BY <1>5 DEF ConnectionComplete
  <2> HIDE DEF x
  <2> QED BY <1>1, <2>3, <2>4, GetTyped, BecomeTyped
<1>6. ASSUME NEW k \in Conns, ConnectGivenUp(k) PROVE TypeOK'
  <2>1. Become(Unanswered(Now, k))
    BY <1>6 DEF ConnectGivenUp, Unanswered
  <2> QED BY <1>1, <2>1, UnansweredTyped, BecomeTyped
<1>7. ASSUME NEW k \in Conns, RetransmitExhausted(k) PROVE TypeOK'
  BY <1>1, <1>7, CloseTyped, BecomeTyped DEF RetransmitExhausted
<1>8. CASE Retry
  <2>1. Typed([Now EXCEPT !.r = @ - 1]) /\ [Now EXCEPT !.r = @ - 1].h.sock <= MaxConns
    BY <1>1, <1>8 DEF Retry, Typed, States
  <2> QED BY <1>1, <1>8, <2>1, EstablishTyped, BecomeTyped DEF Retry
<1>9. ASSUME NEW k \in Conns, NEW n \in 1..Len(conn[k].s2c), Receive(k, n) PROVE TypeOK'
  <2> DEFINE units == SubSeq(conn[k].s2c, 1, n)
             rest == SubSeq(conn[k].s2c, n + 1, Len(conn[k].s2c))
             fin == Last(units).type = "FIN"
             data == IF fin THEN Front(units) ELSE units
             d == [Now.c[k] EXCEPT !.s2c = rest, !.rx = conn[k].rx \o data, !.acked = conn[k].served]
             x == HandleRead([Now EXCEPT !.c[k] = d], k)
  <2>1. conn[k] \in Connection /\ conn[k].s2c \in Seq(Unit) /\ conn[k].rx \in Seq(Unit)
    BY <1>1 DEF Connection
  <2>2. units \in Seq(Unit) /\ Len(units) = n /\ rest \in Seq(Unit)
    BY <2>1
  <2>3. Front(units) \in Seq(Unit)
    BY <2>2 DEF Front
  <2>4. conn[k].rx \o data \in Seq(Unit)
    BY <2>1, <2>2, <2>3
  <2>5. Become(IF fin /\ ~x.crash THEN ConnectionClosedNormal(x, k) ELSE x)
    BY <1>9 DEF Receive
  <2> HIDE DEF units, rest, fin, data
  <2>6. d \in Connection
    BY <1>1, <2>1, <2>2, <2>4 DEF Connection
  <2> HIDE DEF d
  <2>7. Typed([Now EXCEPT !.c[k] = d])
    BY <1>1, <2>6 DEF Typed, States
  <2>8. Typed(x)
    BY <2>7, ReadTyped
  <2> HIDE DEF x
  <2>9. PICK y : y = Close(x, k)
    OBVIOUS
  <2>10. Typed(y) /\ y.c[k] \in Connection
    BY <2>8, <2>9, CloseTyped DEF Typed, States
  <2>11. [y.c[k] EXCEPT !.state = "closed", !.closeCb = FALSE] \in Connection
    BY <2>10 DEF Connection
  <2>12. Typed(ConnectionClosedNormal(x, k))
    BY <2>9, <2>10, <2>11 DEF ConnectionClosedNormal, Typed, States
  <2> QED BY <2>5, <2>8, <2>12, BecomeTyped
<1>10. ASSUME NEW k \in Conns, AckFin(k) PROVE TypeOK'
  <2> DEFINE d == [conn[k] EXCEPT !.state = "finwait2", !.served = FALSE, !.left = << >>, !.acked = FALSE]
  <2>1. conn[k] \in Connection /\ << >> \in Seq(Unit)
    BY <1>1
  <2>2. d \in Connection
    BY <2>1 DEF Connection
  <2>3. Become(OnReadySend([Now EXCEPT !.c[k] = d], k))
    BY <1>1, <1>10 DEF AckFin
  <2> HIDE DEF d
  <2>4. Typed([Now EXCEPT !.c[k] = d])
    BY <1>1, <2>2 DEF Typed, States
  <2> QED BY <1>1, <2>3, <2>4, GetTyped, BecomeTyped
<1>11. ASSUME NEW k \in Conns, FinishedIncomingData(k) PROVE TypeOK'
  <2> DEFINE c == conn[k]
             got == Append(c.recvString, Head(c.c2s))
             e == [c EXCEPT !.c2s = Tail(@), !.recvString = got, !.left = Reply(c.server, Head(got).file)]
  <2>1. c \in Connection /\ c.c2s \in Seq(Request) /\ c.c2s # << >> /\ c.recvString \in Seq(Request)
        /\ c.server \in Servers
    BY <1>1, <1>11 DEF Connection, FinishedIncomingData
  <2>2. Head(c.c2s) \in Request /\ Tail(c.c2s) \in Seq(Request)
    BY <2>1, HeadTailProperties
  <2>3. got \in Seq(Request) /\ got # << >>
    BY <2>1, <2>2, AppendProperties
  <2>4. Head(got) \in Request
    BY <2>3, HeadTailProperties
  <2>5. Reply(c.server, Head(got).file) \in Seq(Unit)
    BY <2>1, <2>4, ReplyTyped DEF Request
  <2>6. e \in Connection
    BY <2>1, <2>2, <2>3, <2>5 DEF Connection
  <2>7. Become([Now EXCEPT !.c[k] = Transmit(e)])
    BY <1>11 DEF FinishedIncomingData
  <2> HIDE DEF e, c
  <2>8. Typed([Now EXCEPT !.c[k] = Transmit(e)])
    BY <1>1, <2>6, TransmitTyped DEF Typed, States
  <2> QED BY <2>7, <2>8, BecomeTyped
<1>12. ASSUME NEW k \in Conns, HandleReadyToTransmit(k) PROVE TypeOK'
  <2> DEFINE c == conn[k]
             keep == \E r \in ToSet(c.recvString) : r.keepAlive
             fin == [type |-> "FIN", file |-> Mpd, from |-> c.server]
             done == [c EXCEPT !.acked = FALSE, !.recvString = << >>]
             e == CASE c.left # << >> -> Transmit([c EXCEPT !.acked = FALSE])
                    [] c.left = << >> /\ (keep \/ c.recvString = << >>) -> done
                    [] OTHER -> [done EXCEPT !.s2c = Append(@, fin), !.served = FALSE]
  <2>1. c \in Connection /\ c.s2c \in Seq(Unit) /\ c.server \in Servers /\ << >> \in Seq(Request)
    BY <1>1 DEF Connection
  <2>2. fin \in Unit
    BY <2>1, Constants DEF Unit
  <2>3. Append(c.s2c, fin) \in Seq(Unit)
    BY <2>1, <2>2
  <2> HIDE DEF fin
  <2>4. [c EXCEPT !.acked = FALSE] \in Connection /\ done \in Connection /\ done.s2c = c.s2c
    BY <2>1 DEF Connection
  <2>5. [done EXCEPT !.s2c = Append(@, fin), !.served = FALSE] \in Connection
    BY <2>1, <2>3 DEF Connection
  <2>6. Transmit([c EXCEPT !.acked = FALSE]) \in Connection
    BY <2>4, TransmitTyped
  <2> HIDE DEF done, c, keep
  <2>7. e \in Connection
    BY <2>4, <2>5, <2>6
  <2>8. Become([Now EXCEPT !.c[k] = e])
    BY <1>12 DEF HandleReadyToTransmit, e, c, keep, done, fin
  <2> HIDE DEF e
  <2>9. Typed([Now EXCEPT !.c[k] = e])
    BY <1>1, <2>7 DEF Typed, States
  <2> QED BY <2>8, <2>9, BecomeTyped
<1>13. CASE DownloadSegment
  <2>1. PICK y : y = StopApplication(Now)
    OBVIOUS
  <2>2. Typed(y) /\ y.h.sock <= MaxConns /\ y.p = player
    BY <1>1, <2>1, StopTyped
  <2> DEFINE q == [player EXCEPT !.download = FALSE, !.segment = player.next, !.next = @ + 1]
             g == [y.h EXCEPT !.file = player.next]
             x == [y EXCEPT !.p.download = FALSE, !.p.segment = player.next,
                            !.p.next = @ + 1, !.h.file = player.next]
  <2>3. player.next \in 1..NumSegments
    BY <1>1, <1>13, Constants DEF DownloadSegment, Players
  <2>4. player.next \in Files /\ player.next + 1 \in 1..(NumSegments + 1)
    BY <2>3, Constants DEF Files
  <2>5. q \in Players
    BY <1>1, <2>4, ZenonT(60) DEF Players
  <2>6. g \in Https /\ g.sock = y.h.sock /\ g.opened = y.h.opened
    BY <2>2, <2>4 DEF Typed, States, Https
  <2>7. x = [y EXCEPT !.p = q, !.h = g]
    BY <2>2 DEF Typed, States
  <2> HIDE DEF q, g
  <2>8. Typed(x) /\ x.h.sock <= MaxConns
    BY <2>2, <2>5, <2>6, <2>7 DEF Typed, States, Bounded
  <2>9. Become(StartApplication(x))
    BY <1>13, <2>1 DEF DownloadSegment
  <2> HIDE DEF x
  <2> QED BY <1>1, <2>8, <2>9, EstablishTyped, BecomeTyped
<1>14. CASE DownloadIdle
  <2>1. 0 \in Files
    BY Constants DEF Mpd
  <2>2. [player EXCEPT !.segment = 0] \in Players
    BY <1>1, <2>1 DEF Players
  <2>3. Typed([Now EXCEPT !.p.segment = 0])
    BY <1>1, <2>2 DEF Typed, States
  <2> QED BY <1>14, <2>3, BecomeTyped DEF DownloadIdle
<1>15. CASE DownloadedAll
  <2> DEFINE q == [player EXCEPT !.download = FALSE, !.segment = 0, !.allDownloaded = TRUE]
             x == [Now EXCEPT !.p.download = FALSE, !.p.segment = 0, !.p.allDownloaded = TRUE]
  <2>1. 0 \in Files
    BY Constants DEF Mpd
  <2>2. q \in Players
    BY <1>1, <2>1 DEF Players
  <2>3. x = [Now EXCEPT !.p = q]
    BY <1>1 DEF Typed, States
  <2> HIDE DEF q
  <2>4. Typed(x) /\ x.h = http
    BY <1>1, <2>2, <2>3 DEF Typed, States
  <2>5. Become(ForceCloseSocket(x))
    BY <1>15 DEF DownloadedAll
  <2> HIDE DEF x
  <2> QED BY <1>1, <2>4, <2>5, StopTyped, BecomeTyped
<1>16. CASE OfferAgain
  <2>1. [player EXCEPT !.waits = @ - 1] \in Players
    BY <1>1, <1>16 DEF OfferAgain, Players
  <2>2. Typed([Now EXCEPT !.p.waits = @ - 1])
    BY <1>1, <2>1 DEF Typed, States
  <2> QED BY <1>16, <2>2, Constants, FileTyped, BecomeTyped DEF OfferAgain
<1>17. CASE Play
  <2> DEFINE q == [player EXCEPT !.buffer = Tail(@), !.played = Append(@, Head(player.buffer)),
                                 !.started = TRUE, !.frozen = @ /\ ~player.started]
             x == [Now EXCEPT !.p.buffer = Tail(@), !.p.played = Append(@, Head(player.buffer)),
                              !.p.started = TRUE, !.p.frozen = @ /\ ~player.started]
  <2>1. player.buffer \in Seq(Files) /\ player.played \in Seq(Files) /\ player.buffer # << >>
    BY <1>1, <1>17 DEF Play, Players
  <2>2. Tail(player.buffer) \in Seq(Files) /\ Head(player.buffer) \in Files
    BY <2>1, HeadTailProperties
  <2>3. Append(player.played, Head(player.buffer)) \in Seq(Files)
    BY <2>1, <2>2
  <2>4. q \in Players
    BY <1>1, <2>2, <2>3, ZenonT(60) DEF Players
  <2>5. x = [Now EXCEPT !.p = q]
    BY <1>1 DEF Typed, States
  <2> HIDE DEF q
  <2>6. Typed(x)
    BY <1>1, <2>4, <2>5 DEF Typed, States
  <2>7. Become(x)
    BY <1>17 DEF Play
  <2> HIDE DEF x
  <2> QED BY <2>6, <2>7, BecomeTyped
<1>18. CASE PlayedAll
  <2>1. [player EXCEPT !.play = FALSE] \in Players
    BY <1>1 DEF Players
  <2>2. Typed([Now EXCEPT !.p.play = FALSE])
    BY <1>1, <2>1 DEF Typed, States
  <2> QED BY <1>18, <2>2, BecomeTyped DEF PlayedAll
<1>19. Typed([Now EXCEPT !.p.frozen = @ \/ player.started]) /\ [Now EXCEPT !.p.frozen = @ \/ player.started].h = http
  <2>1. [player EXCEPT !.frozen = @ \/ player.started] \in Players
    BY <1>1 DEF Players
  <2> QED BY <1>1, <2>1 DEF Typed, States
<1>20. CASE Stall
  BY <1>19, <1>20, BecomeTyped DEF Stall
<1>21. CASE StallAborts
  <2>1. PICK y : y = StopApplication([Now EXCEPT !.p.frozen = @ \/ player.started])
    OBVIOUS
  <2>2. Typed(y)
    BY <1>1, <1>19, <2>1, StopTyped
  <2>3. [y.p EXCEPT !.download = TRUE] \in Players
    BY <2>2 DEF Typed, States, Players
  <2>4. Typed(ScheduleDownloadOfSegment(y))
    BY <2>2, <2>3 DEF ScheduleDownloadOfSegment, Typed, States
  <2> QED BY <1>21, <2>1, <2>4, BecomeTyped DEF StallAborts
<1>22. ASSUME NEW s \in Servers, Redirect(s) PROVE TypeOK'
  <2>1. redirects' \in 0..MaxRedirects
    BY <1>22, ClientAssumption, SMTT(40) DEF Redirect, TypeOK
  <2>2. table' \in Servers /\ UNCHANGED <<http, conn, player, retries, crash>>
    BY <1>22 DEF Redirect
  <2> QED BY <2>1, <2>2 DEF TypeOK
<1> QED BY <1>2, <1>3, <1>4, <1>5, <1>6, <1>7, <1>8, <1>9, <1>10, <1>11, <1>12, <1>13, <1>14,
           <1>15, <1>16, <1>17, <1>18, <1>20, <1>21, <1>22 DEF Next, Network, Timers, Faults

\* The variables of the client keep their types.
THEOREM TypeCorrect == Spec => []TypeOK
BY TypeInit, TypeNext, PTL DEF Spec

-----------------------------------------------------------------------------
(* The stages of a request *)

Fin(c) == [type |-> "FIN", file |-> Mpd, from |-> c.server]

\* A connection that was not opened yet.
Blank(c) ==
  /\ c.state = "unused" /\ c.served /\ ~c.acked
  /\ c.c2s = << >> /\ c.s2c = << >> /\ c.rx = << >> /\ c.recvString = << >> /\ c.left = << >>

\* No request and no data are under way, only a FIN may be.  A request that the
\* server still holds is forgotten with the ACK that is under way.
Drained(c) ==
  /\ c.c2s = << >> /\ c.rx = << >> /\ c.left = << >> /\ Len(c.recvString) <= 1
  /\ c.s2c = << >> \/ (c.s2c = <<Fin(c)>> /\ ~c.served)
  /\ c.recvString # << >> /\ c.served => c.acked

\* A connection the client has left.
Spent(c) == Drained(c) /\ c.state \in {"finwait", "finwait2", "closed"}

\* The request under way.
Get(h) == [file |-> h.file, keepAlive |-> h.keepAlive]

Connecting(h, c) ==
  /\ c.state = "syn" /\ c.served /\ ~c.acked
  /\ c.c2s = << >> /\ c.s2c = << >> /\ c.rx = << >> /\ c.recvString = << >> /\ c.left = << >>
  /\ ~h.finished /\ h.bytes = 0 /\ h.got = {}

\* The request is on its way; the server may still hold the one before it, but
\* the ACK that makes it forget that one is on its way too, and in front.
Asked(h, c) ==
  /\ c.state = "est" /\ c.served /\ c.c2s = <<Get(h)>>
  /\ c.s2c = << >> /\ c.rx = << >> /\ c.left = << >>
  /\ c.recvString = << >> \/ (Len(c.recvString) = 1 /\ c.recvString[1].keepAlive /\ c.acked)
  /\ h.sentGet /\ ~h.finished /\ h.bytes = 0 /\ h.got = {} /\ h.first

\* Data units under way: a FIN is sent last.
Flying(c) == IF c.served THEN Len(c.s2c) ELSE Len(c.s2c) - 1

\* A unit of the reply to the request under way.
Wanted(u, h, c) == u.file = h.file /\ u.from = c.server /\ u.type \in {"header", "body"}

\* The server answers, and all that is under way and not yet sent makes up
\* what is missing of the file.
Answering(h, c) ==
  /\ c.state = "est" /\ c.c2s = << >> /\ c.rx = << >>
  /\ h.sentGet /\ ~h.finished
  /\ c.recvString = <<Get(h)>> \/ (c.recvString = << >> /\ c.left = << >>)
  /\ ~c.served => /\ ~h.keepAlive /\ c.left = << >> /\ c.recvString = << >> /\ ~c.acked
                  /\ c.s2c # << >> /\ c.s2c[Len(c.s2c)] = Fin(c)
  /\ c.s2c = << >> => c.acked
  /\ \A i \in 1..Flying(c) : Wanted(c.s2c[i], h, c)
  /\ \A i \in 1..Len(c.left) : Wanted(c.left[i], h, c)
  /\ \A u \in h.got : u.file = h.file
  /\ IF h.first
       THEN /\ h.bytes = 0 /\ Flying(c) + Len(c.left) = Parts + 1
            /\ c.s2c # << >> /\ c.s2c[1].type = "header"
       ELSE /\ h.len = Parts /\ h.bytes + Flying(c) + Len(c.left) = Parts
            /\ Flying(c) + Len(c.left) > 0

\* The server does not have the file and its 404 is under way.
Refusing(h, c) ==
  /\ c.state = "est" /\ c.served /\ ~c.acked /\ c.recvString = <<Get(h)>>
  /\ c.c2s = << >> /\ c.rx = << >> /\ c.left = << >>
  /\ Len(c.s2c) = 1 /\ c.s2c[1].type = "404"
  /\ h.sentGet /\ ~h.finished /\ h.bytes = 0 /\ h.first

\* Nothing is under way and nothing has been received: after a 404, or when the
\* request was sent on a connection that was closed.
Stuck(h, c) == Drained(c) /\ c.state \in {"est", "closed"} /\ h.sentGet /\ ~h.finished

\* The file has been received.
Done(h, c) ==
  /\ Drained(c) /\ h.sentGet /\ h.finished /\ \A u \in h.got : u.file = h.file
  /\ c.state \in {"est", "closed", "finwait", "finwait2"}
  /\ c.recvString # << >> => c.recvString[1].keepAlive = h.keepAlive

Stage(h, c) ==
  \/ Connecting(h, c) \/ Asked(h, c) \/ Answering(h, c) \/ Refusing(h, c)
  \/ Stuck(h, c) \/ Done(h, c)

\* A next request can be made: on this connection if it is kept alive.
Ready(h, c) ==
  /\ h.finished /\ c.state \in {"est", "closed"}
  /\ h.keepAlive => c.state = "est" /\ c.served

\* The number of segments shown or to be shown.
Shown(p) == Len(p.played) + Len(p.buffer)

\* The download loop: one segment is under way, or waits for room, or none.
Loop(h, p) ==
  IF ~p.mpdParsed
    THEN /\ p.next = 1 /\ Shown(p) = 0 /\ ~p.download /\ p.waits = 0
    ELSE \/ ~h.finished /\ ~p.download /\ p.waits = 0 /\ p.segment = p.next - 1 /\ p.segment = Shown(p) + 1
         \/ h.finished /\ ~p.download /\ p.waits = 1 /\ p.segment = p.next - 1 /\ p.segment = Shown(p) + 1
         \/ h.finished /\ p.waits = 0 /\ Shown(p) = p.next - 1

\* Every connection but the current one is either new or left behind.
Elsewhere(h, c) ==
  \A k \in Conns : /\ k > h.opened => Blank(c[k])
                   /\ k <= h.opened /\ k # h.sock => Spent(c[k])

Requesting(h, c, p) ==
  IF p.status = "new"
    THEN h.sock = NoSocket /\ h.opened = 0 /\ ~h.finished /\ ~p.mpdParsed
    ELSE /\ p.status = "running" /\ h.active /\ h.buf /\ h.sock \in 1..h.opened
         /\ Stage(h, c[h.sock])
         /\ p.download \/ p.waits > 0 => Ready(h, c[h.sock])

\* Segment i is the i-th one to be shown.
InOrder(p) == \A i \in 1..Shown(p) : (p.played \o p.buffer)[i] = i

Good(x) ==
  /\ x.r = 0 /\ ~x.crash /\ x.h.len \in {0, Parts}
  /\ Elsewhere(x.h, x.c) /\ Requesting(x.h, x.c, x.p) /\ Loop(x.h, x.p) /\ InOrder(x.p)

\* The inductive invariant of a client whose connections do not fail.
ClientInv == TypeOK /\ Good(Now)

\* While the entry changes only after the MPD has arrived, the address to
\* connect to is that of the host.
Hosted(h, c, p) ==
  /\ h.peer = h.host
  /\ ~p.mpdParsed => /\ table = Cloud /\ h.host = Cloud
                     /\ h.sock # NoSocket => c[h.sock].server = Cloud
  /\ h.sock # NoSocket /\ (h.keepAlive \/ ~h.sentGet) => c[h.sock].server = h.host

HostInv == Hosted(http, conn, player)

\* The members before and after a GET is sent.
Asks(h, g) ==
  /\ g.sentGet /\ g.first /\ g.host = table
  /\ h.host = table => g.peer = h.peer /\ g.keepAlive = TRUE
  /\ h.host # table => g.peer = table /\ g.keepAlive = FALSE
  /\ g.file = h.file /\ g.finished = h.finished /\ g.bytes = h.bytes /\ g.got = h.got
  /\ g.sock = h.sock /\ g.opened = h.opened /\ g.len = h.len /\ g.active = h.active /\ g.buf = h.buf

\* The members before and after a packet is read.
Reads(h, g, packet) ==
  /\ ~g.first /\ g.got = h.got \cup ToSet(packet)
  /\ g.active = h.active /\ g.buf = h.buf /\ g.sock = h.sock /\ g.opened = h.opened
  /\ g.keepAlive = h.keepAlive /\ g.sentGet = h.sentGet /\ g.finished = h.finished
  /\ g.host = h.host /\ g.peer = h.peer /\ g.file = h.file

-----------------------------------------------------------------------------
(* What the callbacks do *)

\* The send callback sends the GET, once.
LEMMA Sending ==
  ASSUME NEW x, Typed(x), NEW k \in Conns, ~x.h.sentGet
  PROVE  LET y == OnReadySend(x, k) IN
         /\ y.p = x.p /\ y.r = x.r /\ y.crash = x.crash
         /\ y.h = [x.h EXCEPT !.sentGet = TRUE, !.host = table,
                              !.peer = IF x.h.host # table THEN table ELSE @,
                              !.keepAlive = ~(x.h.host # table), !.first = TRUE]
         /\ y.c = IF x.c[k].state \in {"syn", "synfin", "est"}
                    THEN [x.c EXCEPT ![k] = [x.c[k] EXCEPT !.c2s = Append(@, Get(y.h))]]
                    ELSE x.c
<1> DEFINE w == [x EXCEPT !.h.sentGet = TRUE]
           moved == w.h.host # table
           z == [w EXCEPT !.h.host = table, !.h.peer = IF moved THEN table ELSE @,
                          !.h.keepAlive = ~moved, !.h.first = TRUE]
<1>1. x \in States /\ x.h \in Https
  BY DEF Typed, States
<1>2. OnReadySend(x, k) = Send(z, k, Get(z.h))
  BY DEF OnReadySend, DoSendGetRequest, Get
<1>3. w \in States /\ w.h = [x.h EXCEPT !.sentGet = TRUE] /\ w.c = x.c /\ w.p = x.p /\ w.r = x.r /\ w.crash = x.crash
  BY <1>1 DEF States, Https
<1>4. w.h \in Https /\ w.h.host = x.h.host
  <2>1. w.h \in Https
    BY <1>3 DEF States
  <2>2. w.h.host = x.h.host
    BY <1>1, <1>3 DEF Https
  <2> QED BY <2>1, <2>2
<1> HIDE DEF w
<1> DEFINE g == [w.h EXCEPT !.host = table, !.peer = IF moved THEN table ELSE @,
                            !.keepAlive = ~moved, !.first = TRUE]
<1>9. z = [w EXCEPT !.h = g]
  BY <1>3, <1>4 DEF States, Https
<1> HIDE DEF z
<1>5. /\ z.h = g /\ z.c = w.c /\ z.p = w.p /\ z.r = w.r /\ z.crash = w.crash
      /\ z = [h |-> z.h, c |-> z.c, p |-> z.p, r |-> z.r, crash |-> z.crash]
  <2> HIDE DEF g
  <2> QED BY <1>3, <1>9 DEF States
<1>6. z.h = [x.h EXCEPT !.sentGet = TRUE, !.host = table,
                        !.peer = IF x.h.host # table THEN table ELSE @,
                        !.keepAlive = ~(x.h.host # table), !.first = TRUE]
  BY <1>1, <1>3, <1>4, <1>5 DEF Https
<1>7. /\ Send(z, k, Get(z.h)).h = z.h /\ Send(z, k, Get(z.h)).p = z.p
      /\ Send(z, k, Get(z.h)).r = z.r /\ Send(z, k, Get(z.h)).crash = z.crash
  BY <1>5 DEF Send
<1>8. Send(z, k, Get(z.h)).c = IF z.c[k].state \in {"syn", "synfin", "est"}
                    THEN [z.c EXCEPT ![k] = [z.c[k] EXCEPT !.c2s = Append(@, Get(z.h))]]
                    ELSE z.c
  BY <1>5 DEF Send
<1> QED BY <1>2, <1>3, <1>5, <1>6, <1>7, <1>8, SMTT(40)

\* A client without a socket opens one.
LEMMA Opening ==
  ASSUME NEW x, Typed(x), x.h.sock = NoSocket
  PROVE  LET y == StartApplication(x)
             k == x.h.opened + 1
         IN /\ y.p = x.p /\ y.r = x.r /\ y.crash = x.crash
            /\ y.h = [x.h EXCEPT !.buf = TRUE, !.active = TRUE, !.sentGet = FALSE, !.finished = FALSE,
                                 !.bytes = 0, !.got = {}, !.sock = k, !.opened = k]
            /\ y.c = [x.c EXCEPT ![k] = [x.c[k] EXCEPT !.state = "syn", !.server = x.h.peer, !.closeCb = TRUE]]
<1> DEFINE w == [x EXCEPT !.h.buf = TRUE, !.h.active = TRUE]
           z == [w EXCEPT !.h.sentGet = FALSE, !.h.finished = FALSE, !.h.bytes = 0, !.h.got = {}]
           k == x.h.opened + 1
           g == [x.h EXCEPT !.buf = TRUE, !.active = TRUE, !.sentGet = FALSE, !.finished = FALSE,
                            !.bytes = 0, !.got = {}]
<1>1. x \in States /\ x.h \in Https
  BY DEF Typed, States
<1>2. z = [x EXCEPT !.h = g]
  BY <1>1 DEF States, Https
<1>3. g.sock = x.h.sock /\ g.opened = x.h.opened /\ g.peer = x.h.peer
  BY <1>1 DEF Https
<1>4. StartApplication(x) = CASE z.h.sock = NoSocket -> OpenSocket(z)
       [] z.h.sock # NoSocket /\ ~z.h.keepAlive -> [z EXCEPT !.c[z.h.sock].closeCb = TRUE]
       [] OTHER -> OnReadySend(z, z.h.sock)
  BY DEF StartApplication, TryEstablishConnection
<1> HIDE DEF z
<1>5. z.h = g /\ z.c = x.c /\ z.p = x.p /\ z.r = x.r /\ z.crash = x.crash
  BY <1>1, <1>2 DEF States
<1>6. StartApplication(x) = OpenSocket(z)
  BY <1>3, <1>4, <1>5
<1>7. OpenSocket(z) = [z EXCEPT !.h = [g EXCEPT !.sock = k, !.opened = k],
                !.c = [x.c EXCEPT ![k] = [x.c[k] EXCEPT !.state = "syn", !.server = x.h.peer, !.closeCb = TRUE]]]
  BY <1>3, <1>5 DEF OpenSocket
<1>8. [g EXCEPT !.sock = k, !.opened = k] =
        [x.h EXCEPT !.buf = TRUE, !.active = TRUE, !.sentGet = FALSE, !.finished = FALSE,
                    !.bytes = 0, !.got = {}, !.sock = k, !.opened = k]
  BY <1>1 DEF Https
<1> HIDE DEF g, k
<1>9. /\ OpenSocket(z).h = [g EXCEPT !.sock = k, !.opened = k]
      /\ OpenSocket(z).c = [x.c EXCEPT ![k] = [x.c[k] EXCEPT !.state = "syn", !.server = x.h.peer, !.closeCb = TRUE]]
      /\ OpenSocket(z).p = x.p /\ OpenSocket(z).r = x.r /\ OpenSocket(z).crash = x.crash
  BY <1>1, <1>2, <1>5, <1>7 DEF States
<1> QED BY <1>6, <1>8, <1>9 DEF k

\* A client with a socket that is kept alive sends the next GET on it.
LEMMA Reusing ==
  ASSUME NEW x, Typed(x), x.h.sock \in Conns, x.h.keepAlive
  PROVE  LET y == StartApplication(x)
             k == x.h.sock
         IN /\ y.p = x.p /\ y.r = x.r /\ y.crash = x.crash
            /\ y.h = [x.h EXCEPT !.buf = TRUE, !.active = TRUE, !.sentGet = TRUE, !.finished = FALSE,
                                 !.bytes = 0, !.got = {}, !.host = table,
                                 !.peer = IF x.h.host # table THEN table ELSE @,
                                 !.keepAlive = ~(x.h.host # table), !.first = TRUE]
            /\ y.c = IF x.c[k].state \in {"syn", "synfin", "est"}
                       THEN [x.c EXCEPT ![k] = [x.c[k] EXCEPT !.c2s = Append(@, Get(y.h))]]
                       ELSE x.c
<1> DEFINE w == [x EXCEPT !.h.buf = TRUE, !.h.active = TRUE]
           z == [w EXCEPT !.h.sentGet = FALSE, !.h.finished = FALSE, !.h.bytes = 0, !.h.got = {}]
           k == x.h.sock
           g == [x.h EXCEPT !.buf = TRUE, !.active = TRUE, !.sentGet = FALSE, !.finished = FALSE,
                            !.bytes = 0, !.got = {}]
<1>1. x \in States /\ x.h \in Https
  BY DEF Typed, States
<1>2. z = [x EXCEPT !.h = g]
  BY <1>1 DEF States, Https
<1>3. g \in Https /\ g.sock = k /\ g.opened = x.h.opened /\ g.keepAlive /\ ~g.sentGet /\ g.host = x.h.host
  BY <1>1 DEF Https
<1>4. StartApplication(x) = CASE z.h.sock = NoSocket -> OpenSocket(z)
       [] z.h.sock # NoSocket /\ ~z.h.keepAlive -> [z EXCEPT !.c[z.h.sock].closeCb = TRUE]
       [] OTHER -> OnReadySend(z, z.h.sock)
  BY DEF StartApplication, TryEstablishConnection
<1> HIDE DEF z
<1>5. z.h = g /\ z.c = x.c /\ z.p = x.p /\ z.r = x.r /\ z.crash = x.crash
  BY <1>1, <1>2 DEF States
<1>6. StartApplication(x) = OnReadySend(z, k)
  <2>1. k # NoSocket
    BY DEF Conns, NoSocket
  <2> QED BY <1>3, <1>4, <1>5, <2>1
<1>7. Typed(z)
  <2> HIDE DEF g
  <2> QED BY <1>1, <1>2, <1>3, SMTT(40) DEF Typed, States, Bounded
<1>8. /\ OnReadySend(z, k).p = z.p /\ OnReadySend(z, k).r = z.r /\ OnReadySend(z, k).crash = z.crash
      /\ OnReadySend(z, k).h = [z.h EXCEPT !.sentGet = TRUE, !.host = table,
                              !.peer = IF z.h.host # table THEN table ELSE @,
                              !.keepAlive = ~(z.h.host # table), !.first = TRUE]
      /\ OnReadySend(z, k).c = IF z.c[k].state \in {"syn", "synfin", "est"}
                    THEN [z.c EXCEPT ![k] = [z.c[k] EXCEPT !.c2s = Append(@, Get(OnReadySend(z, k).h))]]
                    ELSE z.c
  BY <1>3, <1>5, <1>7, Sending, ZenonT(60)
<1>9. [g EXCEPT !.sentGet = TRUE, !.host = table, !.peer = IF g.host # table THEN table ELSE @,
                !.keepAlive = ~(g.host # table), !.first = TRUE] =
      [x.h EXCEPT !.buf = TRUE, !.active = TRUE, !.sentGet = TRUE, !.finished = FALSE,
                  !.bytes = 0, !.got = {}, !.host = table,
                  !.peer = IF x.h.host # table THEN table ELSE @,
                  !.keepAlive = ~(x.h.host # table), !.first = TRUE]
  BY <1>1, ZenonT(60) DEF Https
<1> HIDE DEF g
<1> QED BY <1>5, <1>6, <1>8, <1>9

\* Closing a connection without unread data is quiet.
LEMMA Closing ==
  ASSUME NEW x, Typed(x), NEW k \in Conns, x.c[k].state # "syn", x.c[k].rx = << >>
  PROVE  LET y == Close(x, k) IN
         /\ y.h = x.h /\ y.p = x.p /\ y.r = x.r /\ y.crash = x.crash
         /\ y.c = IF x.c[k].state = "est" THEN [x.c EXCEPT ![k] = [x.c[k] EXCEPT !.state = "finwait"]]
                                          ELSE x.c
<1>1. CASE x.c[k].state = "est"
  <2>1. Close(x, k) = [x EXCEPT !.c[k].state = "finwait"]
    BY <1>1 DEF Close
  <2> QED BY <1>1, <2>1 DEF Typed, States
<1>2. CASE x.c[k].state # "est"
  BY <1>2 DEF Close
<1> QED BY <1>1, <1>2

-----------------------------------------------------------------------------
(* The player *)

\* What is shown and to be shown, as a sequence.
LEMMA ShownSequence ==
  ASSUME NEW p \in Players
  PROVE  /\ p.played \in Seq(Files) /\ p.buffer \in Seq(Files)
         /\ p.played \o p.buffer \in Seq(Files)
         /\ Len(p.played \o p.buffer) = Shown(p) /\ Shown(p) \in Nat
<1>1. p.played \in Seq(Files) /\ p.buffer \in Seq(Files)
  BY DEF Players
<1>2. Len(p.played) \in Nat /\ Len(p.buffer) \in Nat
  BY <1>1, LenProperties
<1>3. p.played \o p.buffer \in Seq(Files) /\ Len(p.played \o p.buffer) = Len(p.played) + Len(p.buffer)
  BY <1>1, ConcatProperties
<1>4. Shown(p) = Len(p.played) + Len(p.buffer)
  BY DEF Shown
<1>5. Shown(p) \in Nat
  <2>1. PICK m \in Nat, n \in Nat : m = Len(p.played) /\ n = Len(p.buffer)
    BY <1>2
  <2>2. m + n \in Nat
    OBVIOUS
  <2> QED BY <1>4, <2>1, <2>2
<1> QED BY <1>1, <1>3, <1>4, <1>5

\* PlaybackInOrder, element by element.
LEMMA OrderMeans ==
  ASSUME player \in Players
  PROVE  PlaybackInOrder <=> InOrder(player)
<1>1. PICK s : s = player.played \o player.buffer
  OBVIOUS
<1>2. s \in Seq(Files) /\ Len(s) = Shown(player)
  BY <1>1, ShownSequence
<1>3. s = [i \in 1..Len(s) |-> i] <=> \A i \in 1..Len(s) : s[i] = i
  BY <1>2
<1> QED BY <1>1, <1>2, <1>3 DEF PlaybackInOrder, InOrder

\* The next segment goes behind the others.
LEMMA OrderAppend ==
  ASSUME NEW p \in Players, InOrder(p), NEW q \in Players,
         q.played = p.played, q.buffer = Append(p.buffer, Shown(p) + 1), Shown(p) + 1 \in Files
  PROVE  InOrder(q) /\ Shown(q) = Shown(p) + 1
<1>1. PICK b, s, n : b = p.buffer /\ s = p.played /\ n = Shown(p)
  OBVIOUS
<1>2. s \in Seq(Files) /\ b \in Seq(Files) /\ n = Len(s) + Len(b) /\ n \in Nat
  BY <1>1, ShownSequence DEF Shown
<1>3. Append(b, n + 1) \in Seq(Files) /\ Len(Append(b, n + 1)) = Len(b) + 1
  <2>1. n + 1 \in Files
    BY <1>1
  <2> QED BY <1>2, <2>1, AppendProperties
<1>4. Shown(q) = n + 1
  <2>1. Shown(q) = Len(s) + Len(Append(b, n + 1))
    BY <1>1 DEF Shown
  <2>2. Len(s) \in Nat /\ Len(b) \in Nat
    BY <1>2, LenProperties
  <2> QED BY <1>2, <1>3, <2>1, <2>2
<1>5. \A i \in 1..n : (s \o Append(b, n + 1))[i] = (s \o b)[i]
  BY <1>2, <1>3
<1>6. (s \o Append(b, n + 1))[n + 1] = n + 1
  BY <1>2, <1>3
<1>7. \A i \in 1..(n + 1) : (s \o Append(b, n + 1))[i] = i
  <2>1. \A i \in 1..n : (s \o b)[i] = i
    BY <1>1 DEF InOrder
  <2>2. \A i \in 1..(n + 1) : i \in 1..n \/ i = n + 1
    BY <1>2
  <2> QED BY <1>5, <1>6, <2>1, <2>2
<1> QED BY <1>1, <1>4, <1>7 DEF InOrder

\* Playing moves a segment from the buffer to the end of what was played.
LEMMA OrderPlay ==
  ASSUME NEW p \in Players, InOrder(p), p.buffer # << >>, NEW q \in Players,
         q.played = Append(p.played, Head(p.buffer)), q.buffer = Tail(p.buffer)
  PROVE  InOrder(q) /\ Shown(q) = Shown(p)
<1>1. PICK b, s, n : b = p.buffer /\ s = p.played /\ n = Shown(p)
  OBVIOUS
<1>2. s \in Seq(Files) /\ b \in Seq(Files) /\ n = Len(s) + Len(b) /\ b # << >>
  BY <1>1, ShownSequence DEF Shown
<1>3. /\ Tail(b) \in Seq(Files) /\ Len(Tail(b)) = Len(b) - 1 /\ Len(b) > 0 /\ Head(b) = b[1]
      /\ \A i \in 1..Len(Tail(b)) : Tail(b)[i] = b[i + 1]
  BY <1>2, HeadTailProperties, EmptySeq
<1>4. Head(b) \in Files
  BY <1>2, HeadTailProperties
<1>5. Append(s, Head(b)) \in Seq(Files) /\ Len(Append(s, Head(b))) = Len(s) + 1
  BY <1>2, <1>4
<1>6. Shown(q) = n
  <2>1. Shown(q) = Len(Append(s, Head(b))) + Len(Tail(b))
    BY <1>1 DEF Shown
  <2>2. Len(s) \in Nat /\ Len(b) \in Nat
    BY <1>2, LenProperties
  <2> QED BY <1>2, <1>3, <1>5, <2>1, <2>2
<1>7. \A i \in 1..n : (Append(s, Head(b)) \o Tail(b))[i] = (s \o b)[i]
  BY <1>2, <1>3, <1>4, <1>5
<1> QED BY <1>1, <1>6, <1>7 DEF InOrder

\* While a file is under way, no timer that could begin another is set.
LEMMA LoopBusy ==
  ASSUME NEW h, NEW p \in Players, Loop(h, p), ~h.finished
  PROVE  ~p.download /\ p.waits = 0
BY DEF Loop

\* A segment that has arrived, or is offered again, goes to its place in the
\* buffer or waits.
LEMMA OnMultimediaFileLoop ==
  ASSUME NEW x, Typed(x), x.h.active, x.h.finished, x.p.mpdParsed, InOrder(x.p),
         ~x.p.download, x.p.waits = 0, x.p.segment = x.p.next - 1, x.p.segment = Shown(x.p) + 1
  PROVE  LET y == OnMultimediaFile(x) IN
         /\ y.h = x.h /\ y.c = x.c /\ y.r = x.r /\ y.crash = x.crash
         /\ y.p.status = x.p.status /\ y.p.mpdParsed /\ Loop(x.h, y.p) /\ InOrder(y.p)
<1>1. x \in States /\ x.p \in Players /\ Typed(OnMultimediaFile(x))
  <2>1. Typed(OnMultimediaFile(x))
    BY Constants, FileTyped
  <2> QED BY <2>1 DEF Typed, States
<1>2. CASE Len(x.p.buffer) < BufferCap
  <2> DEFINE q == [[x.p EXCEPT !.buffer = Append(@, x.p.segment)] EXCEPT !.download = TRUE]
  <2>1. OnMultimediaFile(x) = ScheduleDownloadOfSegment([x EXCEPT !.p.buffer = Append(@, x.p.segment)])
    BY <1>2 DEF OnMultimediaFile
  <2>2. OnMultimediaFile(x) = [x EXCEPT !.p = q]
    BY <1>1, <2>1 DEF ScheduleDownloadOfSegment, States
  <2>3. /\ q.played = x.p.played /\ q.buffer = Append(x.p.buffer, Shown(x.p) + 1) /\ q.status = x.p.status
        /\ q.mpdParsed /\ q.waits = 0 /\ q.next = x.p.next /\ Shown(x.p) + 1 \in Files
    BY <1>1 DEF Players
  <2> HIDE DEF q
  <2>4. /\ OnMultimediaFile(x).p = q /\ OnMultimediaFile(x).h = x.h /\ OnMultimediaFile(x).c = x.c
        /\ OnMultimediaFile(x).r = x.r /\ OnMultimediaFile(x).crash = x.crash
    BY <1>1, <2>2 DEF States
  <2>5. q \in Players
    BY <1>1, <2>4 DEF Typed, States
  <2>6. InOrder(q) /\ Shown(q) = Shown(x.p) + 1
    BY <1>1, <2>3, <2>5, OrderAppend
  <2>7. Loop(x.h, q)
    BY <2>3, <2>6 DEF Loop
  <2> QED BY <2>3, <2>4, <2>6, <2>7
<1>3. CASE ~(Len(x.p.buffer) < BufferCap)
  <2> DEFINE q == [x.p EXCEPT !.waits = @ + 1]
  <2>1. OnMultimediaFile(x) = [x EXCEPT !.p = q]
    BY <1>3 DEF OnMultimediaFile
  <2>2. /\ q.played = x.p.played /\ q.buffer = x.p.buffer /\ q.status = x.p.status /\ q.mpdParsed
        /\ q.waits = 1 /\ q.next = x.p.next /\ q.segment = x.p.segment /\ q.download = x.p.download
    BY <1>1 DEF Players
  <2> HIDE DEF q
  <2>3. /\ OnMultimediaFile(x).p = q /\ OnMultimediaFile(x).h = x.h /\ OnMultimediaFile(x).c = x.c
        /\ OnMultimediaFile(x).r = x.r /\ OnMultimediaFile(x).crash = x.crash
    BY <1>1, <2>1 DEF States
  <2>4. InOrder(q) /\ Shown(q) = Shown(x.p)
    BY <2>2 DEF InOrder, Shown
  <2>5. Loop(x.h, q)
    BY <2>2, <2>4 DEF Loop
  <2> QED BY <2>2, <2>3, <2>4, <2>5
<1> QED BY <1>2, <1>3

\* The members after a segment, and after an MPD, has arrived.
SegmentIn(h)   == [h EXCEPT !.finished = TRUE]
MpdIn(h, from) == [h EXCEPT !.finished = TRUE, !.peer = from]

\* A file that has arrived is the MPD or the segment under way.
LEMMA OnFileReceivedLoop ==
  ASSUME NEW x, Typed(x), x.h.active, ~x.h.finished, Loop(x.h, x.p), InOrder(x.p), NEW from \in Servers
  PROVE  LET y == OnFileReceived(x, from) IN
         /\ y.c = x.c /\ y.r = x.r /\ y.crash = x.crash
         /\ \/ y.h = SegmentIn(x.h) /\ y.p.mpdParsed = x.p.mpdParsed
            \/ y.h = MpdIn(x.h, from) /\ ~x.p.mpdParsed
         /\ y.p.status = x.p.status /\ Loop(y.h, y.p) /\ InOrder(y.p)
<1> DEFINE z == [x EXCEPT !.h.finished = TRUE]
<1>1. x \in States /\ x.p \in Players /\ x.h \in Https
  BY DEF Typed, States
<1>2. /\ Typed(z) /\ z.h = SegmentIn(x.h) /\ z.h.active /\ z.h.finished
      /\ z.c = x.c /\ z.p = x.p /\ z.r = x.r /\ z.crash = x.crash
  BY <1>1 DEF Typed, States, Bounded, Https, SegmentIn
<1>3. OnFileReceived(x, from) = IF z.p.mpdParsed THEN OnMultimediaFile(z) ELSE OnMpdFile(z, from)
  BY DEF OnFileReceived
<1> HIDE DEF z
<1>4. CASE x.p.mpdParsed
  <2>1. /\ ~z.p.download /\ z.p.waits = 0 /\ z.p.segment = z.p.next - 1 /\ z.p.segment = Shown(z.p) + 1
        /\ InOrder(z.p) /\ z.p.mpdParsed
    BY <1>2, <1>4 DEF Loop
  <2>2. PICK y : y = OnMultimediaFile(z)
    OBVIOUS
  <2>3. /\ y.h = z.h /\ y.c = z.c /\ y.r = z.r /\ y.crash = z.crash
        /\ y.p.status = z.p.status /\ y.p.mpdParsed /\ Loop(z.h, y.p) /\ InOrder(y.p)
    BY <1>2, <2>1, <2>2, OnMultimediaFileLoop
  <2>4. OnFileReceived(x, from) = y
    BY <1>3, <2>1, <2>2
  <2>5. y.p.mpdParsed = x.p.mpdParsed
    <3>1. y \in States
      BY <1>2, <2>2, FileTyped DEF Typed
    <3> QED BY <1>1, <1>4, <2>3, <3>1 DEF States, Players
  <2> QED BY <1>2, <2>3, <2>4, <2>5
<1>5. CASE ~x.p.mpdParsed
  <2>1. z.p.next = 1 /\ Shown(z.p) = 0 /\ ~z.p.download /\ z.p.waits = 0
    BY <1>2, <1>5 DEF Loop
  <2>2. CASE from \in BadMpd
    <3>1. OnFileReceived(x, from) = z
      BY <1>2, <1>3, <1>5, <2>2 DEF OnMpdFile
    <3>2. Loop(z.h, z.p)
      BY <1>2, <1>5, <2>1 DEF Loop
    <3> QED BY <1>2, <3>1, <3>2
  <2>4. CASE from \in EmptyMpd \ BadMpd
    <3>1. PICK y : y = OnFileReceived(x, from)
      OBVIOUS
    <3>2. y = [z EXCEPT !.h.peer = from]
      BY <1>2, <1>3, <1>5, <2>4, <3>1 DEF OnMpdFile
    <3>3. y.h = MpdIn(x.h, from) /\ y.c = x.c /\ y.p = x.p /\ y.r = x.r /\ y.crash = x.crash
      BY <1>1, <1>2, <3>2 DEF Typed, States, Https, SegmentIn, MpdIn
    <3>4. Loop(y.h, y.p)
      BY <1>2, <1>5, <2>1, <3>3 DEF Loop
    <3> QED BY <1>5, <3>1, <3>3, <3>4
  <2>3. CASE from \notin BadMpd \cup EmptyMpd
    <3> DEFINE g == [z.h EXCEPT !.peer = from]
               q == [z.p EXCEPT !.mpdParsed = TRUE, !.play = TRUE]
               v == [[z EXCEPT !.h.peer = from] EXCEPT !.p.mpdParsed = TRUE, !.p.play = TRUE]
    <3>1. z \in States /\ z.p \in Players
      BY <1>2 DEF Typed, States
    <3>2. v = [z EXCEPT !.h = g, !.p = q]
      BY <3>1 DEF States
    <3>3. OnFileReceived(x, from) \in {v, [v EXCEPT !.p.download = TRUE]}
      BY <1>2, <1>3, <1>5, <2>3 DEF OnMpdFile, ScheduleDownloadOfSegment, ScheduleDownloadOfInitSegment
    <3>4. /\ q.mpdParsed /\ q.status = x.p.status /\ q.waits = 0 /\ q.next = 1 /\ DOMAIN q = DOMAIN z.p
          /\ q.played = x.p.played /\ q.buffer = x.p.buffer
      BY <1>2, <2>1, <3>1 DEF Players
    <3>5. g = MpdIn(x.h, from) /\ g.finished
      BY <1>1, <1>2 DEF Https, SegmentIn, MpdIn
    <3> HIDE DEF v
    <3>6. ASSUME NEW y \in {v, [v EXCEPT !.p.download = TRUE]}
          PROVE  /\ y.h = g /\ y.c = x.c /\ y.r = x.r /\ y.crash = x.crash
                 /\ y.p \in {q, [q EXCEPT !.download = TRUE]}
      BY <1>2, <3>1, <3>2 DEF States
    <3>7. ASSUME NEW o \in {q, [q EXCEPT !.download = TRUE]}
          PROVE  /\ o.mpdParsed /\ o.status = x.p.status /\ o.waits = 0 /\ o.next = 1
                 /\ o.played = x.p.played /\ o.buffer = x.p.buffer
      BY <3>1, <3>4, ZenonT(60) DEF Players
    <3> HIDE DEF g, q
    <3>8. ASSUME NEW o \in {q, [q EXCEPT !.download = TRUE]}
          PROVE  Loop(g, o) /\ InOrder(o)
      <4>1. Shown(o) = Shown(x.p)
        BY <3>7, <3>8 DEF Shown
      <4>2. InOrder(o)
        BY <3>7, <3>8, <4>1 DEF InOrder
      <4>3. Loop(g, o)
        <5>1. o.mpdParsed /\ o.waits = 0 /\ o.next = 1
          BY <3>7, <3>8
        <5>2. Shown(o) = 0
          BY <1>2, <2>1, <4>1
        <5>3. g.finished
          BY <3>5
        <5> QED BY <5>1, <5>2, <5>3 DEF Loop
      <4> QED BY <4>2, <4>3
    <3>9. PICK y : y = OnFileReceived(x, from)
      OBVIOUS
    <3>10. y \in {v, [v EXCEPT !.p.download = TRUE]}
      BY <3>3, <3>9
    <3>11. y.h = g /\ y.c = x.c /\ y.r = x.r /\ y.crash = x.crash /\ y.p \in {q, [q EXCEPT !.download = TRUE]}
      BY <3>6, <3>10
    <3>12. y.p.mpdParsed /\ y.p.status = x.p.status /\ Loop(y.h, y.p) /\ InOrder(y.p)
      BY <3>7, <3>8, <3>11
    <3> QED BY <1>5, <3>5, <3>9, <3>11, <3>12
  <2> QED BY <2>2, <2>3, <2>4
<1> QED BY <1>4, <1>5

-----------------------------------------------------------------------------
(* The server's end *)

\* Transmit hands a beginning of what is left to TCP, and not nothing if the
\* send buffer is empty.
LEMMA Transmitting ==
  ASSUME NEW c \in Connection
  PROVE  \E m \in 0..Len(c.left) :
           /\ Transmit(c) = [c EXCEPT !.s2c = c.s2c \o SubSeq(c.left, 1, m),
                                     !.left = SubSeq(c.left, m + 1, Len(c.left))]
           /\ c.s2c = << >> /\ c.left # << >> => m > 0
<1>1. c.s2c \in Seq(Unit) /\ c.left \in Seq(Unit)
  BY DEF Connection
<1> DEFINE n == IF TxUnits > Len(c.s2c) THEN TxUnits - Len(c.s2c) ELSE 0
           m == IF n < Len(c.left) THEN n ELSE Len(c.left)
<1>2. n \in Nat /\ (c.s2c = << >> => n > 0)
  <2>1. Len(c.s2c) \in Nat /\ (c.s2c = << >> => Len(c.s2c) = 0)
    BY <1>1, EmptySeq
  <2> QED BY <2>1, Constants
<1>3. Transmit(c) = [c EXCEPT !.s2c = c.s2c \o SubSeq(c.left, 1, m),
                              !.left = SubSeq(c.left, m + 1, Len(c.left))]
  BY DEF Transmit
<1> HIDE DEF n
<1>4. Len(c.left) \in Nat /\ (c.left # << >> => Len(c.left) > 0)
  BY <1>1, EmptySeq
<1>5. m \in 0..Len(c.left) /\ (c.s2c = << >> /\ c.left # << >> => m > 0)
  BY <1>2, <1>4
<1> HIDE DEF m
<1> QED BY <1>3, <1>5

\* A server that transmits keeps answering.
LEMMA TransmitAnswers ==
  ASSUME NEW h, NEW c \in Connection,
         c.state = "est", c.served, c.c2s = << >>, c.rx = << >>, c.recvString = <<Get(h)>>,
         c.left # << >>, h.sentGet, ~h.finished, \A u \in h.got : u.file = h.file, h.bytes \in Nat,
         \A i \in 1..Len(c.s2c) : Wanted(c.s2c[i], h, c),
         \A i \in 1..Len(c.left) : Wanted(c.left[i], h, c),
         IF h.first
           THEN /\ h.bytes = 0 /\ Len(c.s2c) + Len(c.left) = Parts + 1
                /\ (IF c.s2c = << >> THEN c.left[1] ELSE c.s2c[1]).type = "header"
           ELSE h.len = Parts /\ h.bytes + Len(c.s2c) + Len(c.left) = Parts
  PROVE  Answering(h, Transmit(c))
<1>1. c.s2c \in Seq(Unit) /\ c.left \in Seq(Unit)
  BY DEF Connection
<1>2. PICK m \in 0..Len(c.left) :
        /\ Transmit(c) = [c EXCEPT !.s2c = c.s2c \o SubSeq(c.left, 1, m),
                                   !.left = SubSeq(c.left, m + 1, Len(c.left))]
        /\ c.s2c = << >> /\ c.left # << >> => m > 0
  BY Transmitting
<1>3. PICK a, b, e : /\ a = c.s2c \o SubSeq(c.left, 1, m)
                     /\ b = SubSeq(c.left, m + 1, Len(c.left)) /\ e = Transmit(c)
  OBVIOUS
<1>4. PICK x, y : x = Len(c.s2c) /\ y = Len(c.left)
  OBVIOUS
<1>5. x \in Nat /\ y \in Nat /\ y > 0 /\ (c.s2c = << >> <=> x = 0)
  BY <1>1, <1>4, EmptySeq
<1>6. /\ SubSeq(c.left, 1, m) \in Seq(Unit) /\ Len(SubSeq(c.left, 1, m)) = m
      /\ \A i \in 1..m : SubSeq(c.left, 1, m)[i] = c.left[i]
      /\ b \in Seq(Unit) /\ Len(b) = y - m /\ \A i \in 1..(y - m) : b[i] = c.left[m + i]
  <2>1. PICK l \in Seq(Unit) : l = c.left
    BY <1>1
  <2>2. y = Len(l) /\ m \in 0..y
    BY <1>2, <1>4, <2>1
  <2>3. /\ SubSeq(l, 1, m) \in Seq(Unit) /\ Len(SubSeq(l, 1, m)) = m
        /\ \A i \in 1..m : SubSeq(l, 1, m)[i] = l[i]
    BY <2>2
  <2>4. /\ SubSeq(l, m + 1, y) \in Seq(Unit) /\ Len(SubSeq(l, m + 1, y)) = y - m
        /\ \A i \in 1..(y - m) : SubSeq(l, m + 1, y)[i] = l[m + i]
    BY <1>5, <2>2, SMTT(40)
  <2> QED BY <1>3, <1>4, <2>1, <2>3, <2>4
<1>7. /\ a \in Seq(Unit) /\ Len(a) = x + m
      /\ \A i \in 1..x : a[i] = c.s2c[i]
      /\ \A i \in (x + 1)..(x + m) : a[i] = c.left[i - x]
  <2>1. PICK s : s = SubSeq(c.left, 1, m)
    OBVIOUS
  <2>2. a = c.s2c \o s /\ s \in Seq(Unit) /\ Len(s) = m /\ \A i \in 1..m : s[i] = c.left[i]
    BY <1>3, <1>6, <2>1
  <2>3. a \in Seq(Unit) /\ Len(a) = x + m
    BY <1>1, <1>4, <2>2, ConcatProperties, ZenonT(60)
  <2>4. \A i \in 1..x : a[i] = c.s2c[i]
    BY <1>1, <1>4, <1>5, <2>2
  <2>5. \A i \in (x + 1)..(x + m) : a[i] = s[i - x]
    BY <1>1, <1>4, <1>5, <2>2
  <2>6. \A i \in (x + 1)..(x + m) : i - x \in 1..m
    BY <1>5
  <2> QED BY <2>2, <2>3, <2>4, <2>5, <2>6
<1>8. /\ e.s2c = a /\ e.left = b /\ e.state = "est" /\ e.served /\ e.c2s = << >> /\ e.rx = << >>
      /\ e.recvString = <<Get(h)>> /\ e.server = c.server
  BY <1>2, <1>3 DEF Connection
<1>9. Len(a) > 0 /\ a # << >>
  <2>1. x + m > 0
    BY <1>2, <1>4, <1>5
  <2> QED BY <1>7, <2>1, EmptySeq
<1>10. Flying(e) = x + m /\ Len(e.left) = y - m
  BY <1>6, <1>7, <1>8 DEF Flying
<1>11. \A i \in 1..Flying(e) : Wanted(e.s2c[i], h, e)
  <2> SUFFICES ASSUME NEW i \in 1..(x + m) PROVE Wanted(a[i], h, e)
    BY <1>8, <1>10
  <2>1. CASE i \in 1..x
    BY <1>4, <1>7, <1>8, <2>1 DEF Wanted
  <2>2. CASE i \in (x + 1)..(x + m)
    <3>1. i - x \in 1..y
      BY <1>2, <1>4, <1>5, <2>2, SMTT(40)
    <3>2. a[i] = c.left[i - x]
      BY <1>7, <2>2
    <3> QED BY <1>4, <1>8, <3>1, <3>2, SMTT(40) DEF Wanted
  <2> QED BY <1>5, <2>1, <2>2
<1>12. \A i \in 1..Len(e.left) : Wanted(e.left[i], h, e)
  <2> SUFFICES ASSUME NEW i \in 1..(y - m) PROVE Wanted(b[i], h, e)
    BY <1>8, <1>10
  <2>1. m + i \in 1..y
    BY <1>2, <1>4, <1>5
  <2>2. b[i] = c.left[m + i]
    BY <1>6
  <2> QED BY <1>4, <1>8, <2>1, <2>2 DEF Wanted
<1>13. CASE h.first
  <2>1. h.bytes = 0 /\ x + y = Parts + 1 /\ (IF c.s2c = << >> THEN c.left[1] ELSE c.s2c[1]).type = "header"
    BY <1>4, <1>13
  <2>2. a[1].type = "header"
    <3>1. CASE x = 0
      <4>1. m > 0 /\ 1 \in (x + 1)..(x + m) /\ 1 - x = 1
        BY <1>2, <1>5, <3>1
      <4> QED BY <1>5, <1>7, <2>1, <3>1, <4>1
    <3>2. CASE x # 0
      <4>1. 1 \in 1..x
        BY <1>5, <3>2
      <4> QED BY <1>5, <1>7, <2>1, <3>2, <4>1
    <3> QED BY <3>1, <3>2
  <2>3. Flying(e) + Len(e.left) = Parts + 1
    <3>1. m \in Nat /\ Parts \in Nat
      BY <1>2, Constants
    <3>2. (x + m) + (y - m) = Parts + 1
      BY <1>5, <2>1, <3>1
    <3> QED BY <1>10, <3>2
  <2> QED BY <1>3, <1>8, <1>9, <1>11, <1>12, <1>13, <2>1, <2>2, <2>3 DEF Answering
<1>14. CASE ~h.first
  <2>1. h.len = Parts /\ h.bytes + x + y = Parts
    BY <1>4, <1>14
  <2>2. h.bytes + Flying(e) + Len(e.left) = Parts /\ Flying(e) + Len(e.left) > 0
    BY <1>2, <1>4, <1>5, <1>10, <2>1, SMTT(40)
  <2> QED BY <1>3, <1>8, <1>9, <1>11, <1>12, <1>14, <2>1, <2>2 DEF Answering
<1> QED BY <1>13, <1>14

-----------------------------------------------------------------------------
(* The invariant, piece by piece *)

\* What the invariant says of the variables.
LEMMA InvParts ==
  ASSUME ClientInv
  PROVE  /\ Typed(Now) /\ Now \in States /\ http.sock <= MaxConns /\ http.opened <= MaxConns
         /\ Now.h = http /\ Now.c = conn /\ Now.p = player /\ Now.r = retries /\ Now.crash = crash
         /\ http \in Https /\ conn \in [Conns -> Connection] /\ player \in Players
         /\ table \in Servers /\ retries = 0 /\ crash = FALSE /\ http.len \in {0, Parts}
         /\ Elsewhere(http, conn) /\ Requesting(http, conn, player) /\ Loop(http, player) /\ InOrder(player)
<1>1. Now.h = http /\ Now.c = conn /\ Now.p = player /\ Now.r = retries /\ Now.crash = crash
  BY DEF Now
<1>2. Now \in States /\ http.sock <= MaxConns /\ http.opened <= MaxConns /\ table \in Servers
  BY TypeParts DEF ClientInv
<1>3. http \in Https /\ conn \in [Conns -> Connection] /\ player \in Players /\ crash \in BOOLEAN
  BY <1>1, <1>2 DEF States
<1>4. /\ retries = 0 /\ ~crash /\ http.len \in {0, Parts}
      /\ Elsewhere(http, conn) /\ Requesting(http, conn, player) /\ Loop(http, player) /\ InOrder(player)
  BY <1>1 DEF ClientInv, Good
<1> QED BY <1>1, <1>2, <1>3, <1>4 DEF Typed, Bounded

\* A chain of callbacks that ends in a good state keeps the invariant.
LEMMA BecomeGood ==
  ASSUME TypeOK', NEW x, Become(x), Good(x), HostInv => Hosted(x.h, x.c, x.p)
  PROVE  ClientInv' /\ (HostInv => HostInv')
<1>1. /\ http' = x.h /\ conn' = x.c /\ player' = x.p /\ retries' = x.r /\ crash' = x.crash
      /\ table' = table
  BY DEF Become
<1>2. Good(Now)'
  <2>1. Good(Now)' <=>
          /\ retries' = 0 /\ ~crash' /\ http'.len \in {0, Parts}
          /\ Elsewhere(http', conn') /\ Requesting(http', conn', player') /\ Loop(http', player')
          /\ InOrder(player')
    BY DEF Good, Now
  <2> QED BY <1>1, <2>1 DEF Good
<1>3. HostInv => HostInv'
  BY <1>1 DEF HostInv, Hosted
<1> QED BY <1>2, <1>3 DEF ClientInv

\* A connection that was opened is the current one or was left behind.
LEMMA Opened ==
  ASSUME ClientInv, NEW k \in Conns, ~Blank(conn[k])
  PROVE  /\ player.status = "running" /\ http.active /\ http.buf
         /\ http.sock \in 1..http.opened /\ http.sock \in Conns /\ k <= http.opened
         /\ Stage(http, conn[http.sock])
         /\ player.download \/ player.waits > 0 => Ready(http, conn[http.sock])
         /\ k # http.sock => Spent(conn[k])
<1>1. k \in Nat /\ http.opened \in Nat /\ k > 0 /\ http.opened <= MaxConns
  BY InvParts, Constants DEF Conns, Https
<1>2. k <= http.opened /\ (k # http.sock => Spent(conn[k]))
  BY <1>1, InvParts DEF Elsewhere
<1>3. player.status # "new"
  BY <1>1, <1>2, InvParts DEF Requesting
<1>4. http.sock \in 1..http.opened
  BY <1>3, InvParts DEF Requesting
<1>5. http.sock \in Conns
  BY <1>1, <1>4, Constants DEF Conns
<1> QED BY <1>2, <1>3, <1>4, <1>5, InvParts DEF Requesting

\* A running player has a current connection.
LEMMA Running ==
  ASSUME ClientInv, player.status # "new"
  PROVE  /\ player.status = "running" /\ http.active /\ http.buf
         /\ http.sock \in 1..http.opened /\ http.sock \in Conns
         /\ Stage(http, conn[http.sock])
         /\ player.download \/ player.waits > 0 => Ready(http, conn[http.sock])
<1>1. http.opened \in Nat /\ http.opened <= MaxConns
  BY InvParts DEF Https
<1>2. http.sock \in 1..http.opened
  BY InvParts DEF Requesting
<1>3. http.sock \in Conns
  BY <1>1, <1>2, Constants DEF Conns
<1> QED BY <1>2, <1>3, InvParts DEF Requesting

\* A change of one connection that was opened, and of the request on it.
LEMMA OneChanged ==
  ASSUME ClientInv, NEW k \in Conns, ~Blank(conn[k]), NEW x, NEW d \in Connection,
         x.c = [conn EXCEPT ![k] = d], x.h.opened = http.opened, x.h.sock = http.sock,
         x.h.active = http.active, x.h.buf = http.buf, x.h.len \in {0, Parts}, x.r = 0, ~x.crash,
         x.p.status = player.status, Loop(x.h, x.p), InOrder(x.p),
         k # http.sock => Spent(d) /\ Stage(x.h, conn[http.sock]),
         k = http.sock => Stage(x.h, d),
         x.p.download \/ x.p.waits > 0 => Ready(x.h, x.c[http.sock])
  PROVE  Good(x)
<1>1. /\ conn \in [Conns -> Connection] /\ Elsewhere(http, conn) /\ k <= http.opened
      /\ http.sock \in Conns /\ http.sock \in 1..http.opened /\ http.opened \in Nat /\ k \in Nat
  BY Opened, InvParts DEF Https, Conns
<1>2. Elsewhere(x.h, x.c)
  <2> SUFFICES ASSUME NEW j \in Conns
               PROVE  /\ j > http.opened => Blank(x.c[j])
                      /\ j <= http.opened /\ j # http.sock => Spent(x.c[j])
    BY DEF Elsewhere
  <2>1. CASE j = k
    BY <1>1, <2>1
  <2>2. CASE j # k
    BY <1>1, <2>2 DEF Elsewhere
  <2> QED BY <2>1, <2>2
<1>3. Stage(x.h, x.c[x.h.sock])
  BY <1>1
<1>4. Requesting(x.h, x.c, x.p)
  BY <1>1, <1>3, Opened DEF Requesting
<1> QED BY <1>2, <1>4 DEF Good

-----------------------------------------------------------------------------
(* The steps *)

\* The first connection is opened.
LEMMA StartKeeps ==
  ASSUME ClientInv, TypeOK', Start
  PROVE  ClientInv' /\ (HostInv => HostInv')
<1> DEFINE x == [Now EXCEPT !.h.host = table, !.h.peer = table, !.h.file = Mpd,
                            !.h.keepAlive = TRUE, !.p.status = "running"]
           g == [http EXCEPT !.host = table, !.peer = table, !.file = Mpd, !.keepAlive = TRUE]
           q == [player EXCEPT !.status = "running"]
<1>1. Become(StartApplication(x)) /\ player.status = "new"
  BY DEF Start
<1>2. /\ http.sock = NoSocket /\ http.opened = 0 /\ ~player.mpdParsed /\ Loop(http, player)
      /\ Elsewhere(http, conn) /\ 1 \in Conns
  BY <1>1, InvParts, Constants DEF Requesting, Conns
<1>3. x = [Now EXCEPT !.h = g, !.p = q]
  BY InvParts DEF States
<1>4. g \in Https /\ g.sock = NoSocket /\ g.opened = 0 /\ g.peer = table /\ g.host = table /\ g.len = http.len
  BY <1>2, InvParts, Constants DEF Https
<1>5. /\ q \in Players /\ q.status = "running" /\ q.mpdParsed = player.mpdParsed /\ q.next = player.next
      /\ q.download = player.download /\ q.waits = player.waits
      /\ q.played = player.played /\ q.buffer = player.buffer
  BY InvParts DEF Players
<1> HIDE DEF x, q
<1>6. x.h = g /\ x.p = q /\ x.c = conn /\ x.r = 0 /\ ~x.crash /\ x \in States
  <2> HIDE DEF g
  <2> QED BY <1>3, <1>4, <1>5, InvParts DEF States
<1>7. Typed(x)
  BY <1>4, <1>6, Constants DEF Typed, Bounded, NoSocket
<1>8. PICK y : y = StartApplication(x)
  OBVIOUS
<1>9. /\ y.p = q /\ y.r = 0 /\ ~y.crash
      /\ y.h = [g EXCEPT !.buf = TRUE, !.active = TRUE, !.sentGet = FALSE, !.finished = FALSE,
                         !.bytes = 0, !.got = {}, !.sock = 1, !.opened = 1]
      /\ y.c = [conn EXCEPT ![1] = [conn[1] EXCEPT !.state = "syn", !.server = table, !.closeCb = TRUE]]
  <2> HIDE DEF g
  <2>1. /\ y.p = x.p /\ y.r = x.r /\ y.crash = x.crash
        /\ y.h = [x.h EXCEPT !.buf = TRUE, !.active = TRUE, !.sentGet = FALSE, !.finished = FALSE,
                             !.bytes = 0, !.got = {}, !.sock = x.h.opened + 1, !.opened = x.h.opened + 1]
        /\ y.c = [x.c EXCEPT ![x.h.opened + 1] =
                   [x.c[x.h.opened + 1] EXCEPT !.state = "syn", !.server = x.h.peer, !.closeCb = TRUE]]
    BY <1>4, <1>6, <1>7, <1>8, Opening, ZenonT(60)
  <2>2. x.h.opened + 1 = 1 /\ x.h.peer = table
    BY <1>4, <1>6
  <2> QED BY <1>6, <2>1, <2>2
<1>10. /\ y.h.sock = 1 /\ y.h.opened = 1 /\ y.h.active /\ y.h.buf /\ y.h.len = http.len /\ ~y.h.finished
       /\ y.h.bytes = 0 /\ y.h.got = {} /\ y.h.peer = table /\ y.h.host = table
  <2> HIDE DEF g
  <2> QED BY <1>4, <1>9 DEF Https
<1>11. \A j \in Conns : Blank(conn[j])
  BY <1>2 DEF Elsewhere, Conns
<1>12. conn[1] \in Connection /\ Blank(conn[1])
  BY <1>2, <1>11, InvParts
<1>13. Connecting(y.h, y.c[1]) /\ y.c[1].server = table
  BY <1>2, <1>9, <1>10, <1>12, InvParts DEF Connecting, Blank, Connection
<1>14. Elsewhere(y.h, y.c)
  <2> SUFFICES ASSUME NEW j \in Conns PROVE j > 1 => Blank(y.c[j])
    BY <1>10 DEF Elsewhere, Conns
  <2> QED BY <1>9, <1>11, InvParts
<1>15. ~q.download /\ q.waits = 0 /\ Loop(y.h, q) /\ InOrder(q)
  BY <1>2, <1>5, InvParts DEF Loop, InOrder, Shown
<1>16. Requesting(y.h, y.c, y.p)
  BY <1>5, <1>9, <1>10, <1>13, <1>15 DEF Requesting, Stage
<1>17. Good(y)
  BY <1>9, <1>10, <1>14, <1>15, <1>16, InvParts DEF Good
<1>18. HostInv => Hosted(y.h, y.c, y.p)
  BY <1>2, <1>10, <1>13 DEF HostInv, Hosted
<1> QED BY <1>1, <1>8, <1>17, <1>18, BecomeGood

\* The connection is open: the GET is sent, unless the send callback of an older
\* connection has used up the chance.
LEMMA ConnectionCompleteKeeps ==
  ASSUME ClientInv, TypeOK', NEW k \in Conns, ConnectionComplete(k)
  PROVE  ClientInv' /\ (HostInv => HostInv')
<1> DEFINE d == [conn[k] EXCEPT !.state = "est"]
           x == [Now EXCEPT !.c[k].state = "est"]
<1>0. conn[k].state \in {"syn", "synfin"} /\ conn[k] \in Connection /\ ~Blank(conn[k])
  BY InvParts DEF ConnectionComplete, Blank
<1>2. k = http.sock /\ Connecting(http, conn[k])
  <2>1. k = http.sock
    BY <1>0, Opened DEF Spent
  <2> QED BY <1>0, <2>1, Opened DEF Stage, Asked, Answering, Refusing, Stuck, Done
<1>1. Become(OnReadySend(x, k)) /\ conn[k].state = "syn" /\ conn[k] \in Connection /\ ~Blank(conn[k])
  <2>1. conn[k].state = "syn"
    BY <1>2 DEF Connecting
  <2>2. [Now EXCEPT !.c[k].state = IF @ = "syn" THEN "est" ELSE "finwait"] = x
    BY <2>1, InvParts DEF States
  <2> QED BY <1>0, <2>1, <2>2 DEF ConnectionComplete
<1>3. x = [Now EXCEPT !.c = [conn EXCEPT ![k] = d]]
  BY InvParts DEF States
<1>4. /\ d \in Connection /\ d.state = "est" /\ d.server = conn[k].server /\ d.served /\ ~d.acked
      /\ d.c2s = << >> /\ d.s2c = << >> /\ d.rx = << >> /\ d.recvString = << >> /\ d.left = << >>
  BY <1>1, <1>2 DEF Connection, Connecting
<1> HIDE DEF x, d
<1>5. /\ x.h = http /\ x.p = player /\ x.c = [conn EXCEPT ![k] = d] /\ x.r = 0 /\ ~x.crash /\ Typed(x)
      /\ x.c[k] = d
  BY <1>3, <1>4, InvParts DEF Typed, States
<1>6. ~player.download /\ ~(player.waits > 0)
  BY <1>1, <1>2, Opened DEF Connecting, Ready
<1>7. CASE http.sentGet
  <2>1. OnReadySend(x, k) = x
    BY <1>5, <1>7 DEF OnReadySend
  <2>2. Stage(x.h, d)
    <3>1. Len(d.recvString) = 0
      BY <1>4
    <3> QED BY <1>2, <1>4, <1>5, <1>7, <3>1 DEF Stage, Stuck, Drained, Connecting
  <2>3. Good(x)
    <3>1. /\ x.h.opened = http.opened /\ x.h.sock = http.sock
          /\ x.h.active = http.active /\ x.h.buf = http.buf /\ x.h.len \in {0, Parts}
          /\ x.p.status = player.status /\ InOrder(x.p) /\ Loop(x.h, x.p)
          /\ ~x.p.download /\ ~(x.p.waits > 0)
      BY <1>5, <1>6, InvParts
    <3> QED BY <1>1, <1>2, <1>4, <1>5, <2>2, <3>1, OneChanged, ZenonT(60)
  <2>4. HostInv => Hosted(x.h, x.c, x.p)
    BY <1>2, <1>4, <1>5 DEF HostInv, Hosted
  <2> QED BY <1>1, <2>1, <2>3, <2>4, BecomeGood
<1>8. CASE ~http.sentGet
  <2>1. PICK y : y = OnReadySend(x, k)
    BY SMTT(40)
  <2>2. /\ y.p = x.p /\ y.r = x.r /\ y.crash = x.crash
        /\ y.h = [x.h EXCEPT !.sentGet = TRUE, !.host = table,
                             !.peer = IF x.h.host # table THEN table ELSE @,
                             !.keepAlive = ~(x.h.host # table), !.first = TRUE]
        /\ y.c = IF x.c[k].state \in {"syn", "synfin", "est"}
                   THEN [x.c EXCEPT ![k] = [x.c[k] EXCEPT !.c2s = Append(@, Get(y.h))]] ELSE x.c
    BY <1>5, <1>8, <2>1, Sending, ZenonT(60)
  <2>3. Asks(http, y.h)
    BY <1>5, <2>2, InvParts DEF Asks, Https
  <2> DEFINE e == [d EXCEPT !.c2s = Append(@, Get(y.h))]
  <2>4. y.p = player /\ y.r = 0 /\ ~y.crash /\ y.c = [x.c EXCEPT ![k] = e]
    BY <1>4, <1>5, <2>2
  <2>5. Get(y.h) \in Request
    BY <1>5, <2>3, InvParts DEF Get, Request, Https, Asks
  <2>6. e \in Connection /\ e.c2s = <<Get(y.h)>> /\ e.server = conn[k].server
        /\ e.state = "est" /\ e.served /\ e.s2c = << >> /\ e.rx = << >> /\ e.left = << >> /\ e.recvString = << >>
    <3>1. Append(d.c2s, Get(y.h)) = <<Get(y.h)>> /\ <<Get(y.h)>> \in Seq(Request)
      BY <1>4, <2>5
    <3> QED BY <1>4, <3>1 DEF Connection
  <2> HIDE DEF e
  <2>7. y.c = [conn EXCEPT ![k] = e] /\ y.c[k] = e
    BY <1>5, <2>4, InvParts
  <2>8. Stage(y.h, e)
    BY <1>2, <2>3, <2>6 DEF Stage, Asked, Connecting, Asks
  <2>9. Loop(y.h, y.p)
    BY <2>3, <2>4, InvParts DEF Loop, Asks
  <2>10. Good(y)
    <3>1. /\ y.h.opened = http.opened /\ y.h.sock = http.sock
          /\ y.h.active = http.active /\ y.h.buf = http.buf /\ y.h.len \in {0, Parts}
          /\ y.p.status = player.status /\ InOrder(y.p) /\ ~y.p.download /\ ~(y.p.waits > 0)
      BY <1>6, <2>3, <2>4, InvParts DEF Asks
    <3> QED BY <1>1, <1>2, <2>4, <2>6, <2>7, <2>8, <2>9, <3>1, OneChanged
  <2>11. HostInv => Hosted(y.h, y.c, y.p)
    BY <1>2, <1>8, <2>3, <2>4, <2>6, <2>7 DEF HostInv, Hosted, Asks
  <2> QED BY <1>1, <2>1, <2>10, <2>11, BecomeGood
<1> QED BY <1>7, <1>8

\* The client's FIN is acknowledged.  On a connection that was left behind this
\* may send the next GET into nowhere.
LEMMA AckFinKeeps ==
  ASSUME ClientInv, TypeOK', NEW k \in Conns, AckFin(k)
  PROVE  ClientInv' /\ (HostInv => HostInv')
<1> DEFINE d == [conn[k] EXCEPT !.state = "finwait2", !.served = FALSE, !.left = << >>, !.acked = FALSE]
           x == [Now EXCEPT !.c[k] = d]
<1>1. conn[k].state = "finwait" /\ conn[k] \in Connection /\ ~Blank(conn[k]) /\ << >> \in Seq(Unit)
  BY InvParts DEF AckFin, Blank
<1>2. Become(OnReadySend(x, k))
  BY InvParts DEF AckFin
<1>3. /\ d \in Connection /\ d.state = "finwait2" /\ d.server = conn[k].server /\ d.served = FALSE
      /\ d.c2s = conn[k].c2s /\ d.s2c = conn[k].s2c /\ d.rx = conn[k].rx /\ d.left = << >>
      /\ d.recvString = conn[k].recvString
  BY <1>1 DEF Connection
<1> HIDE DEF d
<1>4. /\ x.h = http /\ x.p = player /\ x.c = [conn EXCEPT ![k] = d] /\ x.r = 0 /\ ~x.crash /\ Typed(x)
      /\ x.c[k] = d
  BY <1>3, InvParts DEF Typed, States
<1> HIDE DEF x
<1>5. Drained(conn[k]) => Drained(d)
  BY <1>3 DEF Drained, Fin
<1>6. CASE http.sentGet
  <2>1. OnReadySend(x, k) = x
    BY <1>4, <1>6 DEF OnReadySend
  <2>2. ASSUME k # http.sock PROVE Spent(d) /\ Stage(x.h, conn[http.sock])
    BY <1>1, <1>3, <1>4, <1>5, <2>2, Opened DEF Spent
  <2>3. ASSUME k = http.sock PROVE Stage(x.h, d) /\ ~player.download /\ ~(player.waits > 0)
    <3>1. Done(http, conn[k])
      BY <1>1, <2>3, Opened DEF Stage, Connecting, Asked, Answering, Refusing, Stuck
    <3>2. Done(http, d)
      BY <1>3, <1>5, <3>1 DEF Done
    <3> QED BY <1>1, <1>4, <2>3, <3>2, Opened DEF Stage, Ready
  <2>4. x.p.download \/ x.p.waits > 0 => Ready(x.h, x.c[http.sock])
    BY <1>1, <1>4, <2>3, Opened, InvParts
  <2>5. Good(x)
    BY <1>1, <1>3, <1>4, <2>2, <2>3, <2>4, InvParts, OneChanged
  <2>6. HostInv => Hosted(x.h, x.c, x.p)
    <3>1. http.sock \in Conns
      BY <1>1, Opened
    <3>2. x.c[http.sock].server = conn[http.sock].server
      BY <1>3, <1>4, <3>1, InvParts
    <3> QED BY <1>4, <3>2 DEF HostInv, Hosted
  <2> QED BY <1>2, <2>1, <2>5, <2>6, BecomeGood
<1>7. CASE ~http.sentGet
  <2>1. PICK y : y = OnReadySend(x, k)
    OBVIOUS
  <2>2. /\ y.p = x.p /\ y.r = x.r /\ y.crash = x.crash
        /\ y.h = [x.h EXCEPT !.sentGet = TRUE, !.host = table,
                             !.peer = IF x.h.host # table THEN table ELSE @,
                             !.keepAlive = ~(x.h.host # table), !.first = TRUE]
        /\ y.c = IF x.c[k].state \in {"syn", "synfin", "est"}
                   THEN [x.c EXCEPT ![k] = [x.c[k] EXCEPT !.c2s = Append(@, Get(y.h))]] ELSE x.c
    BY <1>4, <1>7, <2>1, Sending, ZenonT(60)
  <2>3. Asks(http, y.h)
    BY <1>4, <2>2, InvParts DEF Asks, Https
  <2>4. y.p = player /\ y.r = 0 /\ ~y.crash /\ y.c = [conn EXCEPT ![k] = d]
    BY <1>3, <1>4, <2>2
  <2>5. Connecting(http, conn[http.sock])
    BY <1>1, <1>7, Opened DEF Stage, Asked, Answering, Refusing, Stuck, Done
  <2>6. k # http.sock /\ Spent(conn[k]) /\ http.sock \in Conns /\ ~player.download /\ ~(player.waits > 0)
    BY <1>1, <2>5, Opened DEF Connecting, Ready
  <2>7. Spent(d)
    BY <1>3, <1>5, <2>6 DEF Spent
  <2>8. Stage(y.h, conn[http.sock])
    BY <2>3, <2>5 DEF Stage, Connecting, Asks
  <2>9. Good(y)
    <3>1. /\ y.h.opened = http.opened /\ y.h.sock = http.sock
          /\ y.h.active = http.active /\ y.h.buf = http.buf /\ y.h.len \in {0, Parts}
          /\ y.p.status = player.status /\ InOrder(y.p) /\ ~y.p.download /\ ~(y.p.waits > 0)
      BY <2>3, <2>4, <2>6, InvParts DEF Asks
    <3>2. Loop(y.h, y.p)
      BY <2>3, <2>4, InvParts DEF Loop, Asks
    <3> QED BY <1>1, <1>3, <2>4, <2>6, <2>7, <2>8, <3>1, <3>2, OneChanged
  <2>10. HostInv => Hosted(y.h, y.c, y.p)
    <3>1. y.c[http.sock] = conn[http.sock]
      BY <2>4, <2>6, InvParts
    <3> QED BY <1>7, <2>3, <2>4, <3>1 DEF HostInv, Hosted, Asks
  <2> QED BY <1>2, <2>1, <2>9, <2>10, BecomeGood, SMTT(40)
<1> QED BY <1>6, <1>7

\* What the server makes of a request: the file or a 404.
LEMMA ReplyStarts ==
  ASSUME NEW h \in Https, NEW c \in Connection, Asked(h, c), ~c.acked
  PROVE  LET got == Append(c.recvString, Head(c.c2s))
             d == Transmit([c EXCEPT !.c2s = Tail(@), !.recvString = got,
                                     !.left = Reply(c.server, Head(got).file)])
         IN d \in Connection /\ d.server = c.server /\ (Answering(h, d) \/ Refusing(h, d))
<1>1. /\ c.recvString = << >> /\ c.c2s = <<Get(h)>> /\ c.state = "est" /\ c.served
      /\ c.s2c = << >> /\ c.rx = << >> /\ h.sentGet /\ ~h.finished /\ h.bytes = 0 /\ h.got = {} /\ h.first
  BY DEF Asked
<1>2. Get(h) \in Request /\ Get(h).file = h.file /\ h.file \in Files /\ c.server \in Servers
  BY DEF Get, Request, Https, Connection
<1>3. /\ Head(<<Get(h)>>) = Get(h) /\ Tail(<<Get(h)>>) = << >> /\ Append(<< >>, Get(h)) = <<Get(h)>>
      /\ <<Get(h)>> \in Seq(Request) /\ << >> \in Seq(Request)
  BY <1>2
<1> DEFINE r == Reply(c.server, h.file)
           e == [c EXCEPT !.c2s = << >>, !.recvString = <<Get(h)>>, !.left = r]
           d == Transmit(e)
<1>4. r \in Seq(Unit)
  BY <1>2, ReplyTyped
<1>5. d = LET got == Append(c.recvString, Head(c.c2s))
          IN Transmit([c EXCEPT !.c2s = Tail(@), !.recvString = got, !.left = Reply(c.server, Head(got).file)])
  BY <1>1, <1>2, <1>3
<1>6. /\ e \in Connection /\ e.c2s = << >> /\ e.recvString = <<Get(h)>> /\ e.left = r /\ e.state = "est"
      /\ e.served /\ e.s2c = << >> /\ e.rx = << >> /\ e.server = c.server /\ e.acked = c.acked
  <2> HIDE DEF r
  <2> QED BY <1>1, <1>3, <1>4 DEF Connection
<1>7. d \in Connection
  BY <1>6, TransmitTyped
<1> HIDE DEF e
<1>8. PICK m \in 0..Len(r) :
        /\ d = [e EXCEPT !.s2c = e.s2c \o SubSeq(r, 1, m), !.left = SubSeq(r, m + 1, Len(r))]
        /\ r # << >> => m > 0
  BY <1>6, Transmitting
<1>9. d.server = c.server
  <2> HIDE DEF d, r
  <2> QED BY <1>6, <1>8 DEF Connection
<1>10. CASE c.server \in Holders
  <2>1. r = [i \in 1..(Parts + 1) |-> [type |-> IF i = 1 THEN "header" ELSE "body",
                                       file |-> h.file, from |-> c.server]]
    BY <1>10 DEF Reply
  <2>2. Len(r) = Parts + 1 /\ r # << >> /\ r[1].type = "header"
    <3>1. Parts + 1 \in Nat /\ Parts + 1 > 0 /\ 1 \in 1..(Parts + 1)
      BY Constants
    <3>2. Len(r) = Parts + 1
      <4>1. DOMAIN r = 1..(Parts + 1)
        BY <2>1
      <4> HIDE DEF r
      <4> QED BY <1>4, <3>1, <4>1, LenProperties
    <3>3. r[1].type = "header"
      BY <2>1, <3>1
    <3> HIDE DEF r
    <3> QED BY <1>4, <3>1, <3>2, <3>3, EmptySeq
  <2>3. \A i \in 1..Len(r) : Wanted(r[i], h, e)
    <3> SUFFICES ASSUME NEW i \in 1..(Parts + 1) PROVE Wanted(r[i], h, e)
      BY <2>2
    <3>1. r[i] = [type |-> IF i = 1 THEN "header" ELSE "body", file |-> h.file, from |-> c.server]
      BY <2>1
    <3>2. r[i].file = h.file /\ r[i].from = c.server /\ r[i].type \in {"header", "body"}
      BY <3>1
    <3> QED BY <1>6, <3>2 DEF Wanted
  <2> HIDE DEF r
  <2>4. Len(e.s2c) = 0
    BY <1>6
  <2>5. Answering(h, d)
    <3>1. Len(e.s2c) + Len(e.left) = Parts + 1
      BY <1>6, <2>2, <2>4, Constants
    <3>2. \A i \in 1..Len(e.s2c) : Wanted(e.s2c[i], h, e)
      BY <2>4
    <3>3. (IF e.s2c = << >> THEN e.left[1] ELSE e.s2c[1]).type = "header"
      BY <1>6, <2>2
    <3>4. \A i \in 1..Len(e.left) : Wanted(e.left[i], h, e)
      BY <1>6, <2>3
    <3>5. h.bytes \in Nat /\ \A v \in h.got : v.file = h.file
      BY <1>1
    <3>6. e.left # << >>
      BY <1>6, <2>2
    <3> QED BY <1>1, <1>6, <3>1, <3>2, <3>3, <3>4, <3>5, <3>6, TransmitAnswers
  <2> QED BY <1>5, <1>7, <1>9, <2>5
<1>11. CASE c.server \notin Holders
  <2> DEFINE u == [type |-> "404", file |-> h.file, from |-> c.server]
  <2>1. r = <<u>> /\ u \in Unit /\ u.type = "404"
    BY <1>2, <1>11 DEF Reply, Unit
  <2> HIDE DEF u, r, d
  <2>2. Len(r) = 1 /\ r # << >>
    BY <2>1
  <2>3. m = 1
    BY <1>8, <2>2
  <2>4. e.s2c \o SubSeq(r, 1, m) = <<u>> /\ SubSeq(r, m + 1, Len(r)) = << >>
    <3>1. SubSeq(r, 1, m) = r
      BY <1>4, <2>2, <2>3, SubSeqFull
    <3>2. SubSeq(r, m + 1, Len(r)) = << >>
      BY <2>2, <2>3, SubSeqEmpty
    <3>3. << >> \o r = r
      BY <1>4, ConcatEmptySeq
    <3> QED BY <1>6, <2>1, <3>1, <3>2, <3>3
  <2>5. /\ d.s2c = <<u>> /\ d.left = << >> /\ d.state = "est" /\ d.served /\ d.acked = c.acked
        /\ d.c2s = << >> /\ d.rx = << >> /\ d.recvString = <<Get(h)>>
    BY <1>6, <1>8, <2>4 DEF Connection
  <2>6. Refusing(h, d)
    <3>1. Len(d.s2c) = 1 /\ d.s2c[1] = u
      BY <2>5
    <3> QED BY <1>1, <2>1, <2>5, <3>1 DEF Refusing
  <2> QED BY <1>5, <1>7, <1>9, <2>6
<1> QED BY <1>10, <1>11

\* A step of one connection, which the client does not notice.
LEMMA ConnectionKeeps ==
  ASSUME ClientInv, TypeOK', NEW k \in Conns, ~Blank(conn[k]),
         NEW d \in Connection, d.server = conn[k].server,
         k # http.sock => Spent(d),
         k = http.sock => Stage(http, d) /\ (Ready(http, conn[k]) => Ready(http, d)),
         NEW x, x.h = http, x.p = player, x.r = 0, ~x.crash, x.c = [conn EXCEPT ![k] = d], Become(x)
  PROVE  ClientInv' /\ (HostInv => HostInv')
<1>1. http.sock \in Conns /\ Stage(http, conn[http.sock])
      /\ (player.download \/ player.waits > 0 => Ready(http, conn[http.sock]))
  BY Opened
<1>2. x.c[http.sock] = (IF k = http.sock THEN d ELSE conn[http.sock])
  BY <1>1, InvParts
<1>3. x.p.download \/ x.p.waits > 0 => Ready(x.h, x.c[http.sock])
  BY <1>1, <1>2
<1>4. Good(x)
  BY <1>1, <1>3, InvParts, OneChanged
<1>5. x.c[http.sock].server = conn[http.sock].server
  BY <1>2
<1>6. HostInv => Hosted(x.h, x.c, x.p)
  BY <1>5 DEF HostInv, Hosted
<1> QED BY <1>4, <1>6, BecomeGood

\* A request reaches the server.
LEMMA FinishedIncomingDataKeeps ==
  ASSUME ClientInv, TypeOK', NEW k \in Conns, FinishedIncomingData(k)
  PROVE  ClientInv' /\ (HostInv => HostInv')
<1> DEFINE c == conn[k]
           got == Append(c.recvString, Head(c.c2s))
           d == Transmit([c EXCEPT !.c2s = Tail(@), !.recvString = got,
                                   !.left = Reply(c.server, Head(got).file)])
           x == [Now EXCEPT !.c[k] = d]
<1>1. /\ c.state \in {"est", "finwait"} /\ c.served /\ ~c.acked /\ c.c2s # << >> /\ c \in Connection
      /\ ~Blank(c) /\ Become(x)
  BY InvParts DEF FinishedIncomingData, Blank
<1>2. k = http.sock
  BY <1>1, Opened DEF Spent, Drained
<1>3. Asked(http, c)
  BY <1>1, <1>2, Opened, ZenonT(60) DEF Stage, Connecting, Answering, Refusing, Stuck, Done, Drained
<1>4. d \in Connection /\ d.server = c.server /\ Stage(http, d)
  <2>1. d \in Connection /\ d.server = c.server /\ (Answering(http, d) \/ Refusing(http, d))
    BY <1>1, <1>3, InvParts, ReplyStarts, ZenonT(60)
  <2> HIDE DEF d, c
  <2> QED BY <2>1, SMTT(40) DEF Stage
<1>5. ~Ready(http, c)
  BY <1>3 DEF Asked, Ready
<1> HIDE DEF d, got
<1>6. x.h = http /\ x.p = player /\ x.r = 0 /\ ~x.crash /\ x.c = [conn EXCEPT ![k] = d]
  BY InvParts DEF States
<1> HIDE DEF x
<1> QED BY <1>1, <1>2, <1>4, <1>5, <1>6, ConnectionKeeps

\* The server's end after an ACK has reached it.
AfterAck(c) ==
  LET keep == \E r \in ToSet(c.recvString) : r.keepAlive
      done == [c EXCEPT !.acked = FALSE, !.recvString = << >>]
  IN CASE c.left # << >> -> Transmit([c EXCEPT !.acked = FALSE])
       [] c.left = << >> /\ (keep \/ c.recvString = << >>) -> done
       [] OTHER -> [done EXCEPT !.s2c = Append(@, Fin(c)), !.served = FALSE]

\* When everything has been handed over, the request is forgotten, and the
\* connection closed if the request said so.
LEMMA AckForgets ==
  ASSUME NEW c \in Connection, c.left = << >>, Len(c.recvString) <= 1, c.served
  PROVE  LET d == AfterAck(c) IN
         /\ d \in Connection /\ d.server = c.server /\ d.state = c.state /\ d.c2s = c.c2s /\ d.rx = c.rx
         /\ d.left = << >> /\ d.recvString = << >> /\ d.acked = FALSE
         /\ \/ d.served /\ d.s2c = c.s2c
               /\ (c.recvString = << >> \/ c.recvString[1].keepAlive)
            \/ ~d.served /\ d.s2c = Append(c.s2c, Fin(c)) /\ c.recvString # << >> /\ ~c.recvString[1].keepAlive
<1> DEFINE keep == \E r \in ToSet(c.recvString) : r.keepAlive
           done == [c EXCEPT !.acked = FALSE, !.recvString = << >>]
           last == [done EXCEPT !.s2c = Append(@, Fin(c)), !.served = FALSE]
<1>1. << >> \in Seq(Request) /\ c.s2c \in Seq(Unit) /\ Fin(c) \in Unit /\ c.recvString \in Seq(Request)
  BY Constants DEF Connection, Fin, Unit
<1>2. Append(c.s2c, Fin(c)) \in Seq(Unit)
  BY <1>1
<1>3. /\ done \in Connection /\ done.server = c.server /\ done.state = c.state /\ done.c2s = c.c2s
      /\ done.rx = c.rx /\ done.left = << >> /\ done.recvString = << >> /\ done.acked = FALSE
      /\ done.served /\ done.s2c = c.s2c
  BY <1>1 DEF Connection
<1> HIDE DEF done
<1>4. /\ last \in Connection /\ last.server = c.server /\ last.state = c.state /\ last.c2s = c.c2s
      /\ last.rx = c.rx /\ last.left = << >> /\ last.recvString = << >> /\ last.acked = FALSE
      /\ ~last.served /\ last.s2c = Append(c.s2c, Fin(c))
  BY <1>2, <1>3 DEF Connection
<1>5. AfterAck(c) = IF keep \/ c.recvString = << >> THEN done ELSE last
  BY DEF AfterAck, done
<1>6. c.recvString # << >> => (keep <=> c.recvString[1].keepAlive)
  <2> SUFFICES ASSUME c.recvString # << >> PROVE keep <=> c.recvString[1].keepAlive
    OBVIOUS
  <2>1. Len(c.recvString) = 1
    <3>1. PICK s \in Seq(Request) : s = c.recvString
      BY <1>1
    <3>2. Len(s) \in Nat /\ Len(s) # 0 /\ Len(s) <= 1
      BY <3>1, EmptySeq, LenProperties
    <3>3. \A n \in Nat : n # 0 /\ n <= 1 => n = 1
      OBVIOUS
    <3>4. Len(s) = 1
      BY <3>2, <3>3
    <3> QED BY <3>1, <3>4
  <2>2. ToSet(c.recvString) = {c.recvString[1]}
    <3>1. ToSet(c.recvString) = {c.recvString[i] : i \in DOMAIN c.recvString}
      BY DEF ToSet
    <3>2. DOMAIN c.recvString = 1..1
      BY <1>1, <2>1, LenProperties
    <3>3. 1..1 = {1}
      OBVIOUS
    <3> QED BY <3>1, <3>2, <3>3
  <2> QED BY <2>2
<1> HIDE DEF last, keep
<1>7. CASE keep \/ c.recvString = << >>
  BY <1>3, <1>5, <1>6, <1>7
<1>8. CASE ~(keep \/ c.recvString = << >>)
  BY <1>4, <1>5, <1>6, <1>8
<1> QED BY <1>7, <1>8

\* A connection without data under way stays so.
LEMMA AckDrained ==
  ASSUME NEW c \in Connection, Drained(c), c.served
  PROVE  LET d == AfterAck(c) IN
         /\ d \in Connection /\ d.server = c.server /\ d.state = c.state /\ Drained(d) /\ d.recvString = << >>
         /\ c.recvString = << >> \/ c.recvString[1].keepAlive => d.served
<1>1. c.left = << >> /\ Len(c.recvString) <= 1 /\ c.s2c = << >> /\ c.c2s = << >> /\ c.rx = << >>
  BY DEF Drained
<1>2. PICK d : d = AfterAck(c)
  OBVIOUS
<1>3. /\ d \in Connection /\ d.server = c.server /\ d.state = c.state /\ d.c2s = c.c2s /\ d.rx = c.rx
      /\ d.left = << >> /\ d.recvString = << >> /\ d.acked = FALSE
      /\ \/ d.served /\ d.s2c = c.s2c /\ (c.recvString = << >> \/ c.recvString[1].keepAlive)
         \/ ~d.served /\ d.s2c = Append(c.s2c, Fin(c)) /\ c.recvString # << >> /\ ~c.recvString[1].keepAlive
  BY <1>1, <1>2, AckForgets
<1>4. Append(<< >>, Fin(c)) = <<Fin(c)>> /\ Fin(c) = Fin(d) /\ Len(d.recvString) = 0
  BY <1>3 DEF Fin
<1>5. Drained(d)
  BY <1>1, <1>3, <1>4 DEF Drained
<1> QED BY <1>2, <1>3, <1>5

\* An ACK makes the server go on with its answer.
LEMMA AckAnswers ==
  ASSUME NEW h \in Https, NEW c \in Connection, Answering(h, c), c.served
  PROVE  LET d == AfterAck(c) IN d \in Connection /\ d.server = c.server /\ Answering(h, d)
<1>1. c.s2c \in Seq(Unit) /\ c.left \in Seq(Unit) /\ Len(c.s2c) \in Nat /\ Len(c.left) \in Nat /\ h.bytes \in Nat
  BY LenProperties DEF Connection, Https
<1>2. Flying(c) = Len(c.s2c)
  BY DEF Flying
<1>3. CASE c.left # << >>
  <2> DEFINE e == [c EXCEPT !.acked = FALSE]
  <2>1. AfterAck(c) = Transmit(e)
    BY <1>3 DEF AfterAck
  <2>2. /\ e \in Connection /\ e.state = "est" /\ e.served /\ e.c2s = << >> /\ e.rx = << >>
        /\ e.recvString = <<Get(h)>> /\ e.left = c.left /\ e.s2c = c.s2c /\ e.server = c.server
        /\ h.sentGet /\ ~h.finished /\ \A u \in h.got : u.file = h.file
    BY <1>3 DEF Connection, Answering
  <2> HIDE DEF e
  <2>3. /\ \A i \in 1..Len(e.s2c) : Wanted(e.s2c[i], h, e)
        /\ \A i \in 1..Len(e.left) : Wanted(e.left[i], h, e)
    BY <1>2, <2>2 DEF Answering, Wanted
  <2>4. IF h.first
           THEN /\ h.bytes = 0 /\ Len(e.s2c) + Len(e.left) = Parts + 1
                /\ (IF e.s2c = << >> THEN e.left[1] ELSE e.s2c[1]).type = "header"
           ELSE h.len = Parts /\ h.bytes + Len(e.s2c) + Len(e.left) = Parts
    BY <1>2, <2>2 DEF Answering
  <2>5. Answering(h, Transmit(e)) /\ Transmit(e) \in Connection
    BY <1>1, <1>3, <2>2, <2>3, <2>4, TransmitAnswers, TransmitTyped
  <2>6. Transmit(e).server = c.server
    BY <2>2 DEF Transmit, Connection
  <2> QED BY <2>1, <2>5, <2>6
<1>4. CASE c.left = << >>
  <2>1. Len(c.left) = 0 /\ Len(c.s2c) > 0 /\ c.s2c # << >>
    <3>1. Len(c.left) = 0
      BY <1>4
    <3>2. Len(c.s2c) > 0
      BY <1>1, <1>2, <3>1, Constants DEF Answering
    <3> QED BY <1>1, <3>1, <3>2, EmptySeq
  <2>2. Len(c.recvString) <= 1 /\ (c.recvString # << >> => c.recvString[1].keepAlive = h.keepAlive)
    <3>1. CASE c.recvString = <<Get(h)>>
      BY <3>1 DEF Get
    <3>2. CASE c.recvString = << >>
      BY <3>2
    <3> QED BY <3>1, <3>2 DEF Answering
  <2>3. PICK d : d = AfterAck(c)
    OBVIOUS
  <2>4. /\ d \in Connection /\ d.server = c.server /\ d.state = c.state /\ d.c2s = c.c2s /\ d.rx = c.rx
        /\ d.left = << >> /\ d.recvString = << >> /\ d.acked = FALSE
        /\ \/ d.served /\ d.s2c = c.s2c /\ (c.recvString = << >> \/ c.recvString[1].keepAlive)
           \/ ~d.served /\ d.s2c = Append(c.s2c, Fin(c)) /\ c.recvString # << >> /\ ~c.recvString[1].keepAlive
    BY <1>4, <2>2, <2>3, AckForgets
  <2>5. Flying(d) = Len(c.s2c) /\ Len(d.left) = 0 /\ d.s2c # << >>
        /\ (\A i \in 1..Len(c.s2c) : d.s2c[i] = c.s2c[i]) /\ (~d.served => d.s2c[Len(d.s2c)] = Fin(d))
    <3>1. Len(d.left) = 0
      BY <2>4
    <3>2. CASE d.served
      BY <2>1, <2>4, <3>1, <3>2 DEF Flying
    <3>3. CASE ~d.served
      <4>1. Fin(c) \in Unit /\ Fin(d) = Fin(c)
        BY <2>4, Constants DEF Fin, Unit, Connection
      <4>2. PICK s \in Seq(Unit), u \in Unit : s = c.s2c /\ u = Fin(c)
        BY <1>1, <4>1
      <4>3. d.s2c = Append(s, u)
        BY <2>4, <3>3, <4>2
      <4>4. /\ Len(Append(s, u)) = Len(s) + 1 /\ Append(s, u) # << >> /\ Append(s, u)[Len(s) + 1] = u
            /\ \A i \in 1..Len(s) : Append(s, u)[i] = s[i]
        BY AppendProperties
      <4>5. Flying(d) = Len(c.s2c)
        <5>1. Flying(d) = Len(c.s2c) + 1 - 1
          BY <3>3, <4>2, <4>3, <4>4 DEF Flying
        <5> QED BY <1>1, <5>1
      <4> QED BY <3>1, <4>1, <4>2, <4>3, <4>4, <4>5
    <3> QED BY <3>2, <3>3
  <2>6. ~d.served => ~h.keepAlive
    BY <2>2, <2>4
  <2>7. \A i \in 1..Flying(d) : Wanted(d.s2c[i], h, d)
    BY <1>2, <2>4, <2>5 DEF Answering, Wanted
  <2>8. h.first => d.s2c[1].type = "header"
    <3>1. 1 \in 1..Len(c.s2c)
      BY <1>1, <2>1
    <3> QED BY <2>5, <3>1 DEF Answering
  <2>9. Answering(h, d)
    <3>1. /\ d.state = "est" /\ d.c2s = << >> /\ d.rx = << >> /\ h.sentGet /\ ~h.finished
          /\ d.recvString = << >> /\ d.left = << >> /\ \A u \in h.got : u.file = h.file
      BY <2>4 DEF Answering
    <3>2. IF h.first
       THEN /\ h.bytes = 0 /\ Flying(d) + Len(d.left) = Parts + 1
            /\ d.s2c # << >> /\ d.s2c[1].type = "header"
       ELSE /\ h.len = Parts /\ h.bytes + Flying(d) + Len(d.left) = Parts
            /\ Flying(d) + Len(d.left) > 0
      BY <1>2, <2>1, <2>5, <2>8 DEF Answering
    <3>3. \A i \in 1..Len(d.left) : Wanted(d.left[i], h, d)
      BY <2>5
    <3> QED BY <2>4, <2>5, <2>6, <2>7, <3>1, <3>2, <3>3 DEF Answering
  <2> QED BY <2>3, <2>4, <2>9
<1> QED BY <1>3, <1>4

\* An ACK reaches the server.
LEMMA HandleReadyToTransmitKeeps ==
  ASSUME ClientInv, TypeOK', NEW k \in Conns, HandleReadyToTransmit(k)
  PROVE  ClientInv' /\ (HostInv => HostInv')
<1>1. PICK c : c = conn[k]
  OBVIOUS
<1>2. PICK d : d = AfterAck(c)
  OBVIOUS
<1>3. PICK x : x = [Now EXCEPT !.c[k] = d]
  OBVIOUS
<1>4. c.served /\ c.acked /\ c \in Connection /\ ~Blank(conn[k]) /\ Become(x)
  BY <1>1, <1>2, <1>3, InvParts DEF HandleReadyToTransmit, AfterAck, Fin, Blank
<1>5. x.h = http /\ x.p = player /\ x.r = 0 /\ ~x.crash /\ x.c = [conn EXCEPT ![k] = d]
  BY <1>3, InvParts DEF States
<1>6. CASE k # http.sock
  <2>1. Spent(c)
    BY <1>1, <1>4, <1>6, Opened
  <2>2. d \in Connection /\ d.server = c.server /\ Spent(d)
    BY <1>2, <1>4, <2>1, AckDrained DEF Spent
  <2> QED BY <1>1, <1>4, <1>5, <1>6, <2>2, ConnectionKeeps
<1>7. CASE k = http.sock
  <2>1. Stage(http, c)
    BY <1>1, <1>4, <1>7, Opened
  <2>2. CASE Asked(http, c)
    <3>1. /\ c.left = << >> /\ Len(c.recvString) <= 1 /\ (c.recvString = << >> \/ c.recvString[1].keepAlive)
          /\ ~http.finished
      <4>1. c.recvString = << >> => Len(c.recvString) = 0
        OBVIOUS
      <4>2. Len(c.recvString) = 0 \/ Len(c.recvString) = 1
        BY <2>2, <4>1 DEF Asked
      <4>3. Len(c.recvString) <= 1
        <5>1. \A n \in {0, 1} : n <= 1
          OBVIOUS
        <5> QED BY <4>2, <5>1
      <4> QED BY <2>2, <4>3 DEF Asked
    <3>2. /\ d \in Connection /\ d.server = c.server /\ d.state = c.state /\ d.c2s = c.c2s /\ d.rx = c.rx
          /\ d.left = << >> /\ d.recvString = << >> /\ d.acked = FALSE /\ d.served /\ d.s2c = c.s2c
      BY <1>2, <1>4, <3>1, AckForgets
    <3>3. Asked(http, d)
      BY <2>2, <3>2 DEF Asked
    <3> QED BY <1>1, <1>4, <1>5, <1>7, <3>1, <3>2, <3>3, ConnectionKeeps DEF Stage, Ready
  <2>3. CASE Answering(http, c)
    <3>1. d \in Connection /\ d.server = c.server /\ Answering(http, d) /\ ~http.finished
      BY <1>2, <1>4, <2>3, InvParts, AckAnswers DEF Answering
    <3> QED BY <1>1, <1>4, <1>5, <1>7, <3>1, ConnectionKeeps DEF Stage, Ready
  <2>4. CASE Stuck(http, c) \/ Done(http, c)
    <3>1. Drained(c)
      BY <2>4 DEF Stuck, Done
    <3>2. /\ d \in Connection /\ d.server = c.server /\ d.state = c.state /\ Drained(d) /\ d.recvString = << >>
          /\ (c.recvString = << >> \/ c.recvString[1].keepAlive => d.served)
      BY <1>2, <1>4, <3>1, AckDrained
    <3>3. Stage(http, d)
      BY <2>4, <3>2 DEF Stage, Stuck, Done
    <3>4. Ready(http, c) => Ready(http, d)
      <4> SUFFICES ASSUME Ready(http, c) PROVE Ready(http, d)
        OBVIOUS
      <4>1. Done(http, c)
        BY <2>4 DEF Ready, Stuck
      <4> QED BY <3>2, <4>1 DEF Ready, Done
    <3> QED BY <1>1, <1>4, <1>5, <1>7, <3>2, <3>3, <3>4, ConnectionKeeps
  <2> QED BY <1>4, <2>1, <2>2, <2>3, <2>4 DEF Stage, Connecting, Refusing
<1> QED BY <1>6, <1>7

-----------------------------------------------------------------------------
(* Receiving *)

\* The parts of what is under way when the first n units arrive.
Units(c, n) == SubSeq(c.s2c, 1, n)
Rest(c, n)  == SubSeq(c.s2c, n + 1, Len(c.s2c))
Ended(c, n) == Last(Units(c, n)).type = "FIN"
Data(c, n)  == IF Ended(c, n) THEN Front(Units(c, n)) ELSE Units(c, n)

\* These parts, unit by unit.
LEMMA Split ==
  ASSUME NEW c \in Connection, NEW n \in 1..Len(c.s2c)
  PROVE  /\ Units(c, n) \in Seq(Unit) /\ Len(Units(c, n)) = n /\ \A i \in 1..n : Units(c, n)[i] = c.s2c[i]
         /\ Rest(c, n) \in Seq(Unit) /\ Len(Rest(c, n)) = Len(c.s2c) - n
         /\ \A i \in 1..(Len(c.s2c) - n) : Rest(c, n)[i] = c.s2c[n + i]
         /\ Last(Units(c, n)) = c.s2c[n]
         /\ Front(Units(c, n)) \in Seq(Unit) /\ Len(Front(Units(c, n))) = n - 1
         /\ \A i \in 1..(n - 1) : Front(Units(c, n))[i] = c.s2c[i]
<1>1. PICK s \in Seq(Unit) : s = c.s2c
  BY DEF Connection
<1>2. PICK l \in Nat : l = Len(s)
  BY LenProperties
<1>3. n \in 1..l /\ n \in Nat
  BY <1>1, <1>2
<1>4. PICK v : v = SubSeq(s, 1, n)
  OBVIOUS
<1>5. v \in Seq(Unit) /\ Len(v) = n /\ \A i \in 1..n : v[i] = s[i]
  BY <1>2, <1>3, <1>4
<1>6. /\ SubSeq(s, n + 1, l) \in Seq(Unit) /\ Len(SubSeq(s, n + 1, l)) = l - n
      /\ \A i \in 1..(l - n) : SubSeq(s, n + 1, l)[i] = s[n + i]
  BY <1>2, <1>3
<1>7. Last(v) = s[n]
  BY <1>3, <1>5 DEF Last
<1>8. Front(v) \in Seq(Unit) /\ Len(Front(v)) = n - 1 /\ \A i \in 1..(n - 1) : Front(v)[i] = v[i]
  <2>1. Front(v) = SubSeq(v, 1, n - 1)
    BY <1>5 DEF Front
  <2> QED BY <1>3, <1>5, <2>1
<1>9. \A i \in 1..(n - 1) : i \in 1..n
  BY <1>3
<1> QED BY <1>1, <1>2, <1>4, <1>5, <1>6, <1>7, <1>8, <1>9 DEF Units, Rest

\* What arrives while the server answers belongs to the file.
LEMMA Delivered ==
  ASSUME NEW h \in Https, NEW c \in Connection, Answering(h, c), NEW n \in 1..Len(c.s2c)
  PROVE  LET m == Len(Data(c, n)) IN
         /\ Data(c, n) \in Seq(Unit) /\ Rest(c, n) \in Seq(Unit) /\ m \in Nat /\ Flying(c) \in Nat
         /\ m > 0 /\ m <= Flying(c)
         /\ \A i \in 1..m : Wanted(Data(c, n)[i], h, c) /\ Data(c, n)[i] = c.s2c[i]
         /\ Ended(c, n) => ~c.served /\ m = Flying(c) /\ Rest(c, n) = << >>
         /\ c.served => Len(Rest(c, n)) = Flying(c) - m
         /\ ~c.served /\ ~Ended(c, n) =>
              /\ Len(Rest(c, n)) = Flying(c) - m + 1
              /\ Rest(c, n)[Flying(c) - m + 1] = Fin(c)
         /\ \A i \in 1..(Flying(c) - m) : Wanted(Rest(c, n)[i], h, c)
<1>1. PICK l \in Nat : l = Len(c.s2c)
  BY LenProperties DEF Connection
<1>2. PICK f : f = Flying(c)
  OBVIOUS
<1>3. n \in Nat /\ n > 0 /\ n <= l
  BY <1>1
<1>4. f = (IF c.served THEN l ELSE l - 1) /\ f \in Nat
  BY <1>1, <1>2, <1>3 DEF Flying
<1>5. f > 0
  <2>1. CASE c.served
    BY <1>3, <1>4, <2>1
  <2>2. CASE ~c.served
    <3>1. Len(c.left) = 0
      <4>1. c.left = << >>
        BY <2>2 DEF Answering
      <4> QED BY <4>1
    <3> QED BY <1>2, <1>4, <3>1, Constants DEF Answering
  <2> QED BY <2>1, <2>2
<1>6. /\ \A i \in 1..f : Wanted(c.s2c[i], h, c)
      /\ ~c.served => c.s2c[l] = Fin(c)
  BY <1>1, <1>2 DEF Answering
<1>7. Ended(c, n) <=> c.s2c[n].type = "FIN"
  BY Split DEF Ended
<1>8. CASE n <= f
  <2>1. ~Ended(c, n)
    <3>1. n \in 1..f
      BY <1>3, <1>4, <1>8
    <3> QED BY <1>6, <1>7, <3>1 DEF Wanted
  <2>2. Data(c, n) = Units(c, n)
    BY <2>1 DEF Data
  <2>3. Len(Data(c, n)) = n /\ Data(c, n) \in Seq(Unit) /\ Rest(c, n) \in Seq(Unit)
    BY <2>2, Split
  <2>4. \A i \in 1..n : Wanted(Data(c, n)[i], h, c) /\ Data(c, n)[i] = c.s2c[i]
    <3>1. \A i \in 1..n : i \in 1..f
      BY <1>3, <1>4, <1>8
    <3>2. \A i \in 1..n : Units(c, n)[i] = c.s2c[i]
      BY Split
    <3> QED BY <1>6, <2>2, <3>1, <3>2
  <2>5. Len(Rest(c, n)) = l - n /\ \A i \in 1..(l - n) : Rest(c, n)[i] = c.s2c[n + i]
    BY <1>1, Split
  <2>6. \A i \in 1..(f - n) : Wanted(Rest(c, n)[i], h, c)
    <3>1. \A i \in 1..(f - n) : i \in 1..(l - n) /\ n + i \in 1..f
      BY <1>3, <1>4, <1>8
    <3> QED BY <1>6, <2>5, <3>1
  <2>7. c.served => l - n = f - n
    BY <1>4
  <2>8. ~c.served => l - n = f - n + 1 /\ f - n + 1 \in 1..(l - n) /\ n + (f - n + 1) = l
    BY <1>3, <1>4, <1>8
  <2>9. ~c.served => Rest(c, n)[f - n + 1] = Fin(c)
    BY <1>6, <2>5, <2>8
  <2> QED BY <1>2, <1>3, <1>4, <1>8, <2>1, <2>3, <2>4, <2>5, <2>6, <2>7, <2>8, <2>9
<1>9. CASE ~(n <= f)
  <2>1. ~c.served /\ n = l /\ f = n - 1
    BY <1>3, <1>4, <1>9
  <2>2. Ended(c, n)
    BY <1>6, <1>7, <2>1 DEF Fin
  <2>3. Data(c, n) = Front(Units(c, n))
    BY <2>2 DEF Data
  <2>4. Len(Data(c, n)) = f /\ Data(c, n) \in Seq(Unit) /\ Rest(c, n) \in Seq(Unit)
    BY <2>1, <2>3, Split
  <2>5. \A i \in 1..f : Wanted(Data(c, n)[i], h, c) /\ Data(c, n)[i] = c.s2c[i]
    <3>1. \A i \in 1..(n - 1) : Front(Units(c, n))[i] = c.s2c[i]
      BY Split
    <3> QED BY <1>6, <2>1, <2>3, <3>1
  <2>6. Rest(c, n) = << >>
    BY <1>1, <1>3, <2>1, SubSeqEmpty DEF Rest
  <2>7. f - f = 0
    BY <1>4
  <2> QED BY <1>2, <1>4, <1>5, <2>1, <2>2, <2>4, <2>5, <2>6, <2>7
<1> QED BY <1>8, <1>9

\* What is still missing of the file when the first n units have arrived.
Missing(c, n) == Flying(c) + Len(c.left) - Len(Data(c, n))

\* The state x before and the state y after the data has been counted.
Counting(x, y, k, c, n) ==
  /\ Typed(y) /\ y.p = x.p /\ y.r = x.r /\ y.crash = x.crash
  /\ y.c = [x.c EXCEPT ![k] = [x.c[k] EXCEPT !.rx = << >>]]
  /\ Reads(x.h, y.h, Data(c, n)) /\ y.h.len = Parts /\ y.h.bytes = Parts - Missing(c, n)
  /\ HandleRead(x, k) = IF Missing(c, n) = 0 THEN OnFileReceived(y, c.server) ELSE y

\* The client counts what arrives: the file is there when nothing is missing.
LEMMA ReadAnswer ==
  ASSUME NEW x, Typed(x), NEW k \in Conns, x.h.buf, NEW c \in Connection, Answering(x.h, c),
         NEW n \in 1..Len(c.s2c), x.c[k].rx = Data(c, n)
  PROVE  Missing(c, n) \in Nat /\ \E y : Counting(x, y, k, c, n)
<1>1. PICK h, m, f, l, r, data : /\ h = x.h /\ m = Len(Data(c, n)) /\ f = Flying(c) /\ l = Len(c.left)
                                /\ r = Missing(c, n) /\ data = Data(c, n)
  OBVIOUS
<1>2. h \in Https /\ h.bytes \in Nat /\ h.buf /\ ~h.finished /\ x \in States /\ x.c[k].rx = data /\ x.c[k] \in Connection
  BY <1>1 DEF Typed, States, Https, Answering
<1>3. /\ data \in Seq(Unit) /\ m \in Nat /\ f \in Nat /\ m > 0 /\ m <= f
      /\ \A i \in 1..m : Wanted(data[i], h, c) /\ data[i] = c.s2c[i]
  BY <1>1, <1>2, Delivered
<1>4. l \in Nat
  BY <1>1, LenProperties DEF Connection
<1>5. r = f + l - m /\ r \in Nat
  <2>1. r = f + l - m
    BY <1>1 DEF Missing
  <2> QED BY <1>3, <1>4, <2>1
<1>6. data # << >> /\ Head(data) = data[1] /\ Wanted(data[1], h, c) /\ data[1] = c.s2c[1] /\ Len(data) = m
  <2>1. 1 \in 1..m /\ Len(data) = m
    BY <1>1, <1>3
  <2>2. data # << >>
    BY <1>3, <2>1, EmptySeq
  <2> QED BY <1>3, <2>1, <2>2, HeadTailProperties
<1>7. TotalSize(data) = m
  <2>1. \A u \in ToSet(data) : u.type # "404"
    <3> SUFFICES ASSUME NEW u \in ToSet(data) PROVE u.type # "404"
      OBVIOUS
    <3>1. DOMAIN data = 1..m
      BY <1>3, <1>6, LenProperties
    <3>2. PICK i \in 1..m : u = data[i]
      BY <3>1 DEF ToSet
    <3> QED BY <1>3, <3>2 DEF Wanted
  <2> QED BY <1>6, <2>1 DEF TotalSize
<1> DEFINE parsed == IF x.h.first THEN ParseResponseHeader(data, x.h.len) ELSE [where |-> 0, len |-> x.h.len]
           y == [x EXCEPT !.c[k].rx = << >>, !.h.first = FALSE, !.h.len = parsed.len,
                          !.h.bytes = @ + TotalSize(data) - parsed.where,
                          !.h.got = @ \cup ToSet(data)]
<1>8. parsed.len = Parts /\ h.bytes + m - parsed.where = Parts - r
  <2>1. CASE h.first
    <3>1. h.bytes = 0 /\ f + l = Parts + 1 /\ c.s2c[1].type = "header"
      BY <1>1, <2>1 DEF Answering
    <3>2. parsed = [where |-> 1, len |-> Parts]
      BY <1>1, <1>6, <2>1, <3>1 DEF ParseResponseHeader
    <3>3. parsed.where = 1 /\ parsed.len = Parts
      BY <3>2
    <3>4. 0 + m - 1 = Parts - (f + l - m)
      BY <1>3, <1>4, <3>1, Constants
    <3> QED BY <1>5, <3>1, <3>3, <3>4
  <2>2. CASE ~h.first
    <3>1. h.len = Parts /\ h.bytes + f + l = Parts
      BY <1>1, <2>2 DEF Answering
    <3>2. parsed.where = 0 /\ parsed.len = Parts
      BY <1>1, <2>2, <3>1
    <3>3. h.bytes + m - 0 = Parts - (f + l - m)
      <4>1. PICK b \in Nat, q \in Nat : b = h.bytes /\ q = Parts
        BY <1>2, Constants
      <4>2. b + f + l = q => b + m - 0 = q - (f + l - m)
        BY <1>3, <1>4
      <4> QED BY <3>1, <4>1, <4>2
    <3> QED BY <1>5, <3>2, <3>3
  <2> QED BY <2>1, <2>2
<1>9. Parts - r \in Nat
  <2>1. CASE h.first
    <3>1. f + l = Parts + 1
      BY <1>1, <2>1 DEF Answering
    <3> QED BY <1>3, <1>4, <1>5, <3>1, Constants
  <2>2. CASE ~h.first
    <3>1. h.bytes + f + l = Parts
      BY <1>1, <2>2 DEF Answering
    <3> QED BY <1>2, <1>3, <1>4, <1>5, <3>1, Constants, SMTT(40)
  <2> QED BY <2>1, <2>2
<1> DEFINE g == [h EXCEPT !.first = FALSE, !.len = Parts, !.bytes = Parts - r, !.got = h.got \cup ToSet(data)]
           d == [x.c[k] EXCEPT !.rx = << >>]
<1>10. HandleRead(x, k) = IF y.h.bytes = y.h.len THEN OnFileReceived(y, Head(data).from) ELSE y
  BY <1>1, <1>2, <1>6 DEF HandleRead
<1> HIDE DEF parsed
<1>11. y = [x EXCEPT !.h = g, !.c = [x.c EXCEPT ![k] = d]]
  <2>1. y = [x EXCEPT !.h = [x.h EXCEPT !.first = FALSE, !.len = parsed.len,
                          !.bytes = h.bytes + TotalSize(data) - parsed.where,
                          !.got = h.got \cup ToSet(data)], !.c = [x.c EXCEPT ![k] = d]]
    BY <1>1, <1>2 DEF States, Https
  <2> QED BY <1>1, <1>7, <1>8, <2>1
<1>12. d \in Connection
  <2>1. << >> \in Seq(Unit)
    OBVIOUS
  <2> QED BY <1>2, <2>1 DEF Connection
<1>13. g \in Https /\ Reads(h, g, data) /\ g.bytes = Parts - r /\ g.len = Parts
  <2>1. ToSet(data) \subseteq Unit /\ h.got \subseteq Unit /\ Parts \in Nat
    BY <1>2, <1>3, <1>6, PacketSize, Constants DEF Https
  <2> QED BY <1>2, <1>9, <2>1 DEF Https, Reads
<1> HIDE DEF g, d, y
<1>14. y.h = g /\ y.c = [x.c EXCEPT ![k] = d] /\ y.p = x.p /\ y.r = x.r /\ y.crash = x.crash /\ y \in States
  BY <1>2, <1>11, <1>12, <1>13 DEF States
<1>15. Typed(y)
  BY <1>1, <1>13, <1>14 DEF Typed, Bounded, Reads
<1>16. Parts - r = Parts <=> r = 0
  BY <1>5, Constants
<1>17. HandleRead(x, k) = IF r = 0 THEN OnFileReceived(y, c.server) ELSE y
  BY <1>6, <1>10, <1>13, <1>14, <1>16 DEF Wanted
<1>18. Counting(x, y, k, c, n)
  <2>1. Reads(x.h, y.h, Data(c, n)) /\ y.h.len = Parts /\ y.h.bytes = Parts - Missing(c, n)
    BY <1>1, <1>13, <1>14
  <2>2. HandleRead(x, k) = IF Missing(c, n) = 0 THEN OnFileReceived(y, c.server) ELSE y
    BY <1>1, <1>17
  <2>3. y.c = [x.c EXCEPT ![k] = [x.c[k] EXCEPT !.rx = << >>]] /\ y.p = x.p /\ y.r = x.r /\ y.crash = x.crash
    BY <1>14 DEF d
  <2> QED BY <1>15, <2>1, <2>2, <2>3 DEF Counting
<1> QED BY <1>1, <1>5, <1>18

\* The connection when the first n units have been read.
After(c, n) == [c EXCEPT !.s2c = Rest(c, n), !.rx = << >>, !.acked = c.served]

\* The fields of that connection.
LEMMA AfterFields ==
  ASSUME NEW c \in Connection, NEW n \in 1..Len(c.s2c)
  PROVE  LET d == After(c, n) IN
         /\ d \in Connection /\ d.s2c = Rest(c, n) /\ d.rx = << >> /\ d.acked = c.served
         /\ d.state = c.state /\ d.server = c.server /\ d.c2s = c.c2s /\ d.served = c.served
         /\ d.recvString = c.recvString /\ d.left = c.left /\ Fin(d) = Fin(c)
<1>1. << >> \in Seq(Unit) /\ Rest(c, n) \in Seq(Unit) /\ c.served \in BOOLEAN
  BY Split DEF Connection
<1>2. PICK d : d = After(c, n)
  OBVIOUS
<1>3. /\ d \in Connection /\ d.s2c = Rest(c, n) /\ d.rx = << >> /\ d.acked = c.served
      /\ d.state = c.state /\ d.server = c.server /\ d.c2s = c.c2s /\ d.served = c.served
      /\ d.recvString = c.recvString /\ d.left = c.left
  BY <1>1, <1>2 DEF Connection, After
<1> QED BY <1>2, <1>3 DEF Fin

\* The units received belong to the file.
LEMMA GotWanted ==
  ASSUME NEW h \in Https, NEW c \in Connection, Answering(h, c), NEW n \in 1..Len(c.s2c)
  PROVE  \A u \in h.got \cup ToSet(Data(c, n)) : u.file = h.file
<1>1. PICK data, m : data = Data(c, n) /\ m = Len(data)
  OBVIOUS
<1>2. data \in Seq(Unit) /\ \A i \in 1..m : Wanted(data[i], h, c)
  BY <1>1, Delivered
<1>3. DOMAIN data = 1..m
  BY <1>1, <1>2, LenProperties
<1>4. \A u \in ToSet(data) : u.file = h.file
  BY <1>2, <1>3 DEF ToSet, Wanted
<1> QED BY <1>1, <1>4 DEF Answering

\* As long as something is missing, it is under way or still to be sent.
LEMMA StillAnswering ==
  ASSUME NEW h \in Https, NEW c \in Connection, Answering(h, c), NEW n \in 1..Len(c.s2c),
         Missing(c, n) # 0, Missing(c, n) \in Nat,
         NEW g, g.sentGet, ~g.finished, g.file = h.file, g.keepAlive = h.keepAlive, ~g.first, g.len = Parts,
         g.bytes = Parts - Missing(c, n), g.got = h.got \cup ToSet(Data(c, n))
  PROVE  ~Ended(c, n) /\ Answering(g, After(c, n))
<1>1. PICK m, f, l, r, d : /\ m = Len(Data(c, n)) /\ f = Flying(c) /\ l = Len(c.left)
                          /\ r = Missing(c, n) /\ d = After(c, n)
  OBVIOUS
<1>2. m \in Nat /\ f \in Nat /\ m > 0 /\ m <= f /\ l \in Nat
  BY <1>1, Delivered, LenProperties DEF Connection
<1>3. r = f + l - m /\ r \in Nat /\ r > 0
  BY <1>1 DEF Missing
<1>4. /\ d \in Connection /\ d.s2c = Rest(c, n) /\ d.rx = << >> /\ d.acked = c.served
      /\ d.state = c.state /\ d.server = c.server /\ d.c2s = c.c2s /\ d.served = c.served
      /\ d.recvString = c.recvString /\ d.left = c.left /\ Fin(d) = Fin(c)
  BY <1>1, AfterFields
<1>5. ~Ended(c, n)
  <2> SUFFICES ASSUME Ended(c, n) PROVE FALSE
    OBVIOUS
  <2>1. m = f /\ ~c.served
    BY <1>1, Delivered
  <2>2. l = 0
    <3>1. c.left = << >>
      BY <2>1 DEF Answering
    <3> QED BY <1>1, <3>1
  <2> QED BY <1>2, <1>3, <2>1, <2>2
<1>6. /\ d.served => Len(d.s2c) = f - m
      /\ ~d.served => Len(d.s2c) = f - m + 1 /\ d.s2c[f - m + 1] = Fin(d)
      /\ \A i \in 1..(f - m) : Wanted(d.s2c[i], h, c)
  BY <1>1, <1>4, <1>5, Delivered
<1>7. Flying(d) = f - m
  <2>1. CASE d.served
    BY <1>6, <2>1 DEF Flying
  <2>2. CASE ~d.served
    <3>1. Flying(d) = (f - m + 1) - 1
      BY <1>6, <2>2 DEF Flying
    <3> QED BY <1>2, <3>1
  <2> QED BY <2>1, <2>2
<1>8. d.s2c \in Seq(Unit)
  BY <1>4 DEF Connection
<1>9. ~d.served => d.s2c # << >> /\ d.s2c[Len(d.s2c)] = Fin(d)
  <2> SUFFICES ASSUME ~d.served PROVE d.s2c # << >> /\ d.s2c[Len(d.s2c)] = Fin(d)
    OBVIOUS
  <2>1. f - m + 1 # 0
    BY <1>2
  <2> QED BY <1>6, <1>8, <2>1, EmptySeq
<1>10. Get(g) = Get(h)
  BY DEF Get
<1>11. \A i \in 1..Flying(d) : Wanted(d.s2c[i], g, d)
  BY <1>4, <1>6, <1>7 DEF Wanted
<1>12. \A i \in 1..Len(d.left) : Wanted(d.left[i], g, d)
  BY <1>4 DEF Wanted, Answering
<1>13. \A u \in g.got : u.file = g.file
  BY GotWanted
<1>14. g.bytes + Flying(d) + Len(d.left) = Parts /\ Flying(d) + Len(d.left) > 0
  <2>1. g.bytes = Parts - r /\ Flying(d) = f - m /\ Len(d.left) = l
    BY <1>1, <1>4, <1>7
  <2>2. PICK q \in Nat : q = Parts
    BY Constants
  <2>3. (q - r) + (f - m) + l = q /\ (f - m) + l > 0
    BY <1>2, <1>3, SMTT(40)
  <2> QED BY <2>1, <2>2, <2>3
<1>15. d.s2c = << >> => d.acked
  BY <1>4, <1>9
<1>16. /\ d.state = "est" /\ d.c2s = << >> /\ (d.recvString = <<Get(g)>> \/ (d.recvString = << >> /\ d.left = << >>))
       /\ (~d.served => ~g.keepAlive /\ d.left = << >> /\ d.recvString = << >> /\ ~d.acked)
  BY <1>4, <1>10 DEF Answering
<1> QED BY <1>1, <1>4, <1>5, <1>9, <1>11, <1>12, <1>13, <1>14, <1>15, <1>16 DEF Answering

\* When nothing is missing, nothing but a FIN is under way.
LEMMA AnswerEnds ==
  ASSUME NEW h \in Https, NEW c \in Connection, Answering(h, c), NEW n \in 1..Len(c.s2c), Missing(c, n) = 0
  PROVE  /\ Drained(After(c, n)) /\ After(c, n).state = "est"
         /\ After(c, n).recvString # << >> => After(c, n).recvString[1].keepAlive = h.keepAlive
         /\ h.keepAlive => After(c, n).served
         /\ Ended(c, n) => ~h.keepAlive /\ ~c.served /\ Rest(c, n) = << >>
<1>1. PICK m, f, l, d : m = Len(Data(c, n)) /\ f = Flying(c) /\ l = Len(c.left) /\ d = After(c, n)
  OBVIOUS
<1>2. m \in Nat /\ f \in Nat /\ m > 0 /\ m <= f /\ l \in Nat
  BY <1>1, Delivered, LenProperties DEF Connection
<1>3. f + l - m = 0
  BY <1>1 DEF Missing
<1>4. m = f /\ l = 0 /\ f - m = 0 /\ f - m + 1 = 1
  BY <1>2, <1>3
<1>5. /\ d \in Connection /\ d.s2c = Rest(c, n) /\ d.rx = << >> /\ d.acked = c.served
      /\ d.state = c.state /\ d.server = c.server /\ d.c2s = c.c2s /\ d.served = c.served
      /\ d.recvString = c.recvString /\ d.left = c.left /\ Fin(d) = Fin(c)
  BY <1>1, AfterFields
<1>6. d.left = << >> /\ d.s2c \in Seq(Unit)
  <2>1. c.left \in Seq(Unit) /\ d.s2c \in Seq(Unit)
    BY <1>5 DEF Connection
  <2> QED BY <1>1, <1>4, <1>5, <2>1, EmptySeq
<1>7. d.s2c = << >> \/ (d.s2c = <<Fin(d)>> /\ ~d.served)
  <2>1. CASE Ended(c, n)
    BY <1>5, <2>1, Delivered
  <2>2. CASE c.served
    <3>1. Len(d.s2c) = 0
      BY <1>1, <1>4, <1>5, <2>2, Delivered, ZenonT(60)
    <3> QED BY <1>6, <3>1, EmptySeq
  <2>3. CASE ~c.served /\ ~Ended(c, n)
    <3>1. Len(d.s2c) = 1 /\ d.s2c[1] = Fin(d)
      <4>1. Len(Rest(c, n)) = f - m + 1 /\ Rest(c, n)[f - m + 1] = Fin(c)
        BY <1>1, <2>3, Delivered
      <4> QED BY <1>4, <1>5, <4>1
    <3>2. PICK s \in Seq(Unit) : s = d.s2c
      BY <1>6
    <3>3. s = <<s[1]>>
      BY <3>1, <3>2
    <3> QED BY <1>5, <2>3, <3>1, <3>2, <3>3
  <2> QED BY <2>1, <2>2, <2>3
<1>8. Len(d.recvString) <= 1 /\ (d.recvString # << >> => d.recvString[1].keepAlive = h.keepAlive)
  <2>1. CASE d.recvString = <<Get(h)>>
    BY <2>1 DEF Get
  <2>2. CASE d.recvString = << >>
    <3>1. Len(<< >>) <= 1
      OBVIOUS
    <3> QED BY <2>2, <3>1
  <2> QED BY <1>5, <2>1, <2>2 DEF Answering
<1>9. Drained(d)
  <2>1. d.c2s = << >>
    BY <1>5 DEF Answering
  <2> QED BY <1>5, <1>6, <1>7, <1>8, <2>1 DEF Drained
<1>10. h.keepAlive => c.served
  BY DEF Answering
<1>11. Ended(c, n) => ~c.served /\ Rest(c, n) = << >>
  BY Delivered
<1>12. d.state = "est"
  BY <1>5 DEF Answering
<1> QED BY <1>1, <1>5, <1>8, <1>9, <1>10, <1>11, <1>12

\* The state v and the connection e in it when the units are in the receive
\* buffer: they are read, and the FIN behind them closes the connection.
Arriving(v, e, k, n) ==
  LET c == conn[k]
      x == HandleRead(v, k)
  IN /\ Typed(v) /\ v.h = http /\ v.p = player /\ v.r = 0 /\ v.crash = FALSE
     /\ e \in Connection /\ e.rx = Data(c, n) /\ [e EXCEPT !.rx = << >>] = After(c, n)
     /\ v.c = [conn EXCEPT ![k] = e]
     /\ Become(IF Ended(c, n) /\ ~x.crash THEN ConnectionClosedNormal(x, k) ELSE x)

\* The step as a whole.
LEMMA ReceiveMeans ==
  ASSUME ClientInv, NEW k \in Conns, conn[k].rx = << >>, NEW n \in 1..Len(conn[k].s2c), Receive(k, n)
  PROVE  /\ conn[k].state \in {"est", "finwait", "finwait2"} /\ ~Blank(conn[k])
         /\ \E v, e : Arriving(v, e, k, n)
<1> DEFINE c == conn[k]
<1>1. c \in Connection /\ Data(c, n) \in Seq(Unit) /\ Rest(c, n) \in Seq(Unit)
  <2>1. c \in Connection
    BY InvParts
  <2> QED BY <2>1, Split DEF Data
<1> DEFINE e == [c EXCEPT !.s2c = Rest(c, n), !.rx = Data(c, n), !.acked = c.served]
           v == [Now EXCEPT !.c[k] = e]
<1>3. << >> \o Data(c, n) = Data(c, n)
  BY <1>1, ConcatEmptySeq
<1>4. c.state \in {"est", "finwait", "finwait2"} /\ ~Blank(conn[k])
  BY DEF Receive, Blank
<1>5. Become(IF Ended(c, n) /\ ~HandleRead(v, k).crash
               THEN ConnectionClosedNormal(HandleRead(v, k), k) ELSE HandleRead(v, k))
  <2>1. Now.c[k] = c /\ c.rx = << >>
    BY InvParts
  <2> QED BY <1>3, <2>1 DEF Receive, Ended, Data, Rest, Units
<1>6. e \in Connection /\ e.rx = Data(c, n)
  BY <1>1 DEF Connection
<1>7. [e EXCEPT !.rx = << >>] = After(c, n)
  BY <1>1 DEF Connection, After
<1> HIDE DEF e
<1>8. Typed(v) /\ v.h = http /\ v.p = player /\ v.r = 0 /\ v.crash = FALSE /\ v.c = [conn EXCEPT ![k] = e]
  BY <1>6, InvParts DEF Typed, States
<1> HIDE DEF v
<1>9. Arriving(v, e, k, n)
  BY <1>5, <1>6, <1>7, <1>8 DEF Arriving
<1> QED BY <1>4, <1>9

\* The server has closed, and so does the client.
LEMMA NormalClose ==
  ASSUME NEW x, Typed(x), NEW k \in Conns, x.c[k].state \in {"est", "finwait", "finwait2"}, x.c[k].rx = << >>
  PROVE  LET y == ConnectionClosedNormal(x, k) IN
         /\ y.h = x.h /\ y.p = x.p /\ y.r = x.r /\ y.crash = x.crash
         /\ y.c = [x.c EXCEPT ![k] = [x.c[k] EXCEPT !.state = "closed", !.closeCb = FALSE]]
<1>1. PICK z : z = Close(x, k)
  OBVIOUS
<1>2. /\ z.h = x.h /\ z.p = x.p /\ z.r = x.r /\ z.crash = x.crash
      /\ z.c = IF x.c[k].state = "est" THEN [x.c EXCEPT ![k] = [x.c[k] EXCEPT !.state = "finwait"]] ELSE x.c
  BY <1>1, Closing
<1>3. z \in States /\ x \in States /\ x.c[k] \in Connection
  BY <1>1, CloseTyped DEF Typed, States
<1>4. [z.c[k] EXCEPT !.state = "closed", !.closeCb = FALSE] = [x.c[k] EXCEPT !.state = "closed", !.closeCb = FALSE]
  <2>1. z.c[k] = x.c[k] \/ z.c[k] = [x.c[k] EXCEPT !.state = "finwait"]
    BY <1>2, <1>3 DEF States
  <2> QED BY <1>3, <2>1 DEF Connection
<1>5. ConnectionClosedNormal(x, k) = [z EXCEPT !.c = [z.c EXCEPT ![k] = [z.c[k] EXCEPT !.state = "closed", !.closeCb = FALSE]]]
  BY <1>1 DEF ConnectionClosedNormal
<1> DEFINE d == [x.c[k] EXCEPT !.state = "closed", !.closeCb = FALSE]
<1>6. ConnectionClosedNormal(x, k) = [z EXCEPT !.c = [z.c EXCEPT ![k] = d]]
  BY <1>4, <1>5
<1> HIDE DEF d
<1>7. [z.c EXCEPT ![k] = d] = [x.c EXCEPT ![k] = d]
  BY <1>2, <1>3 DEF States
<1>8. ConnectionClosedNormal(x, k) = [z EXCEPT !.c = [x.c EXCEPT ![k] = d]]
  BY <1>6, <1>7
<1> QED BY <1>2, <1>3, <1>8 DEF States, d

\* Without data under way, only a FIN can arrive.
LEMMA FinAlone ==
  ASSUME NEW c \in Connection, Drained(c), NEW n \in 1..Len(c.s2c)
  PROVE  /\ c.s2c = <<Fin(c)>> /\ ~c.served /\ n = 1 /\ Len(c.s2c) = 1
         /\ Ended(c, n) /\ Data(c, n) = << >> /\ Rest(c, n) = << >>
<1>1. c.s2c = <<Fin(c)>> /\ ~c.served /\ n = 1 /\ Len(c.s2c) = 1
  <2>1. c.s2c # << >>
    <3> SUFFICES ASSUME c.s2c = << >> PROVE FALSE
      OBVIOUS
    <3>1. Len(c.s2c) = 0
      OBVIOUS
    <3> QED BY <3>1
  <2>2. c.s2c = <<Fin(c)>> /\ ~c.served
    BY <2>1 DEF Drained
  <2>3. Len(c.s2c) = 1
    BY <2>2
  <2> QED BY <2>2, <2>3
<1>2. Ended(c, n) /\ Data(c, n) = << >> /\ Rest(c, n) = << >>
  <2>1. c.s2c[1] = Fin(c) /\ n - 1 = 0 /\ Len(c.s2c) - n = 0
    BY <1>1
  <2>2. Last(Units(c, n)) = Fin(c)
    BY <1>1, <2>1, Split
  <2>3. Ended(c, n)
    BY <2>2 DEF Ended, Fin
  <2>4. Len(Front(Units(c, n))) = 0 /\ Front(Units(c, n)) \in Seq(Unit)
    BY <2>1, Split
  <2>5. Len(Rest(c, n)) = 0 /\ Rest(c, n) \in Seq(Unit)
    BY <2>1, Split, ZenonT(60)
  <2>6. Front(Units(c, n)) = << >>
    BY <2>4, EmptySeq
  <2>7. Rest(c, n) = << >>
    BY <2>5, EmptySeq
  <2> QED BY <2>3, <2>6, <2>7 DEF Data
<1> QED BY <1>1, <1>2

\* A FIN on a connection without data under way.
LEMMA ReceiveDrained ==
  ASSUME ClientInv, TypeOK', NEW k \in Conns, NEW n \in 1..Len(conn[k].s2c), Receive(k, n), Drained(conn[k])
  PROVE  ClientInv' /\ (HostInv => HostInv')
<1>1. PICK c : c = conn[k]
  OBVIOUS
<1>2. c \in Connection /\ c.rx = << >> /\ Drained(c) /\ n \in 1..Len(c.s2c)
  BY <1>1, InvParts DEF Drained
<1>3. c.s2c = <<Fin(c)>> /\ ~c.served /\ n = 1 /\ Len(c.s2c) = 1
  BY <1>2, FinAlone
<1>4. Ended(c, n) /\ Data(c, n) = << >> /\ Rest(c, n) = << >>
  BY <1>2, FinAlone
<1>5. PICK v, e : /\ Typed(v) /\ v.h = http /\ v.p = player /\ v.r = 0 /\ v.crash = FALSE
                  /\ e \in Connection /\ e.rx = Data(c, n) /\ [e EXCEPT !.rx = << >>] = After(c, n)
                  /\ v.c = [conn EXCEPT ![k] = e]
                  /\ Become(IF Ended(c, n) /\ ~HandleRead(v, k).crash
                              THEN ConnectionClosedNormal(HandleRead(v, k), k) ELSE HandleRead(v, k))
  <2>1. PICK v, e : Arriving(v, e, k, n)
    BY <1>1, <1>2, ReceiveMeans
  <2> QED BY <1>1, <2>1 DEF Arriving
<1>6. c.state \in {"est", "finwait", "finwait2"} /\ ~Blank(conn[k])
  BY <1>1, <1>2, ReceiveMeans
<1>7. e = After(c, n) /\ v.c[k] = e
  <2>1. e.rx = << >>
    BY <1>4, <1>5
  <2>2. [e EXCEPT !.rx = << >>] = e
    BY <1>5, <2>1 DEF Connection
  <2> QED BY <1>5, <2>2, InvParts
<1>8. /\ e.s2c = << >> /\ e.rx = << >> /\ e.acked = FALSE
      /\ e.state = c.state /\ e.server = c.server /\ e.c2s = c.c2s /\ e.served = FALSE
      /\ e.recvString = c.recvString /\ e.left = c.left
  <2>1. c.served \in BOOLEAN
    BY <1>2 DEF Connection
  <2> QED BY <1>2, <1>3, <1>4, <1>7, <2>1, AfterFields, ZenonT(60)
<1>9. HandleRead(v, k) = v
  BY <1>7, <1>8 DEF HandleRead
<1>10. PICK x : x = ConnectionClosedNormal(v, k)
  OBVIOUS
<1>11. Become(x)
  BY <1>4, <1>5, <1>9, <1>10
<1> DEFINE d == [e EXCEPT !.state = "closed", !.closeCb = FALSE]
<1>12. /\ x.h = http /\ x.p = player /\ x.r = 0 /\ ~x.crash /\ x.c = [v.c EXCEPT ![k] = d]
  <2>1. v.c[k].state \in {"est", "finwait", "finwait2"} /\ v.c[k].rx = << >>
    BY <1>6, <1>7, <1>8, SMTT(40)
  <2>2. /\ x.h = v.h /\ x.p = v.p /\ x.r = v.r /\ x.crash = v.crash
        /\ x.c = [v.c EXCEPT ![k] = [v.c[k] EXCEPT !.state = "closed", !.closeCb = FALSE]]
    <3>1. Typed(v)
      BY <1>5
    <3> HIDE DEF d
    <3> QED BY <1>10, <2>1, <3>1, NormalClose
  <2> QED BY <1>5, <1>7, <2>2
<1>13. /\ d \in Connection /\ d.state = "closed" /\ d.server = c.server /\ d.s2c = << >> /\ d.rx = << >>
       /\ d.c2s = c.c2s /\ d.served = FALSE /\ d.recvString = c.recvString /\ d.left = c.left
  BY <1>5, <1>8 DEF Connection
<1> HIDE DEF d
<1>14. x.c = [conn EXCEPT ![k] = d]
  BY <1>5, <1>12, InvParts
<1>15. Drained(d)
  BY <1>2, <1>13 DEF Drained
<1>16. k # http.sock => Spent(d)
  BY <1>13, <1>15 DEF Spent
<1>17. ASSUME k = http.sock PROVE Stage(http, d) /\ (Ready(http, conn[k]) => Ready(http, d))
  <2>1. Stage(http, c)
    BY <1>1, <1>6, <1>17, Opened
  <2>2. CASE Stuck(http, c)
    BY <1>1, <1>13, <1>15, <2>2 DEF Stage, Stuck, Ready
  <2>3. CASE Done(http, c)
    <3>1. Done(http, d)
      BY <1>13, <1>15, <2>3 DEF Done
    <3>2. Ready(http, c) => Ready(http, d)
      BY <1>3, <1>13 DEF Ready
    <3> QED BY <1>1, <3>1, <3>2 DEF Stage
  <2>4. ~Connecting(http, c) /\ ~Asked(http, c) /\ ~Refusing(http, c)
    BY <1>3 DEF Connecting, Asked, Refusing
  <2>5. ~Answering(http, c)
    <3> SUFFICES ASSUME Answering(http, c) PROVE FALSE
      OBVIOUS
    <3>1. Flying(c) = 0 /\ Len(c.left) = 0
      <4>1. Flying(c) = 0
        BY <1>3 DEF Flying
      <4>2. c.left = << >>
        BY <1>2 DEF Drained
      <4> QED BY <4>1, <4>2
    <3> QED BY <3>1, Constants DEF Answering
  <2> QED BY <2>1, <2>2, <2>3, <2>4, <2>5 DEF Stage
<1> QED BY <1>1, <1>6, <1>11, <1>12, <1>13, <1>14, <1>16, <1>17, ConnectionKeeps

\* A 404 is read as data of a length no file has.
LEMMA ReadRefusal ==
  ASSUME NEW x, Typed(x), NEW k \in Conns, x.h.buf, ~x.h.finished, x.h.first, x.h.bytes = 0,
         x.h.len \in {0, Parts}, Len(x.c[k].rx) = 1, x.c[k].rx[1].type = "404"
  PROVE  LET y == HandleRead(x, k) IN
         /\ y.p = x.p /\ y.r = x.r /\ y.crash = x.crash
         /\ y.c = [x.c EXCEPT ![k] = [x.c[k] EXCEPT !.rx = << >>]]
         /\ Reads(x.h, y.h, x.c[k].rx) /\ y.h.len = x.h.len
<1>1. PICK h, data : h = x.h /\ data = x.c[k].rx
  OBVIOUS
<1>2. h \in Https /\ x \in States /\ x.c[k] \in Connection /\ data \in Seq(Unit) /\ Len(data) = 1
  BY <1>1 DEF Typed, States, Connection
<1>3. data # << >> /\ Head(data) = data[1] /\ data[1].type = "404"
  <2>1. data # << >>
    BY <1>2, EmptySeq
  <2> QED BY <1>1, <1>2, <2>1, HeadTailProperties
<1>4. TotalSize(data) = 10 * Parts + 10
  <2>1. 1 \in DOMAIN data
    BY <1>2, LenProperties
  <2>2. data[1] \in ToSet(data)
    BY <2>1 DEF ToSet
  <2> QED BY <1>3, <2>2 DEF TotalSize
<1> DEFINE parsed == IF x.h.first THEN ParseResponseHeader(data, x.h.len) ELSE [where |-> 0, len |-> x.h.len]
           y == [x EXCEPT !.c[k].rx = << >>, !.h.first = FALSE, !.h.len = parsed.len,
                          !.h.bytes = @ + TotalSize(data) - parsed.where,
                          !.h.got = @ \cup ToSet(data)]
           g == [h EXCEPT !.first = FALSE, !.len = h.len, !.bytes = 10 * Parts + 10, !.got = h.got \cup ToSet(data)]
           d == [x.c[k] EXCEPT !.rx = << >>]
<1>5. parsed.where = 0 /\ parsed.len = h.len
  BY <1>1, <1>3 DEF ParseResponseHeader
<1>6. HandleRead(x, k) = IF y.h.bytes = y.h.len THEN OnFileReceived(y, Head(data).from) ELSE y
  BY <1>1, <1>3 DEF HandleRead
<1> HIDE DEF parsed
<1>7. y = [x EXCEPT !.h = g, !.c = [x.c EXCEPT ![k] = d]]
  <2>1. y = [x EXCEPT !.h = [x.h EXCEPT !.first = FALSE, !.len = parsed.len,
                          !.bytes = h.bytes + TotalSize(data) - parsed.where,
                          !.got = h.got \cup ToSet(data)], !.c = [x.c EXCEPT ![k] = d]]
    BY <1>1, <1>2 DEF States, Https
  <2>2. h.bytes + TotalSize(data) - parsed.where = 10 * Parts + 10
    <3>1. PICK q \in Nat : q = Parts
      BY Constants
    <3>2. 0 + (10 * q + 10) - 0 = 10 * q + 10
      OBVIOUS
    <3> QED BY <1>1, <1>4, <1>5, <3>1, <3>2
  <2> QED BY <1>1, <1>5, <2>1, <2>2
<1>8. g.bytes = 10 * Parts + 10 /\ g.len = h.len /\ Reads(h, g, data)
  BY <1>2 DEF Https, Reads
<1> HIDE DEF y, g, d
<1>9. y.h = g /\ y.c = [x.c EXCEPT ![k] = d] /\ y.p = x.p /\ y.r = x.r /\ y.crash = x.crash
  BY <1>2, <1>7 DEF States
<1>10. 10 * Parts + 10 # h.len
  <2>1. PICK q \in Nat : q = Parts
    BY Constants
  <2>2. 10 * q + 10 # 0 /\ 10 * q + 10 # q
    OBVIOUS
  <2> QED BY <1>1, <2>1, <2>2
<1>11. HandleRead(x, k) = y
  BY <1>6, <1>8, <1>9, <1>10
<1> QED BY <1>1, <1>8, <1>9, <1>11 DEF d

\* A 404 leaves the client waiting.
LEMMA ReceiveRefused ==
  ASSUME ClientInv, TypeOK', NEW k \in Conns, NEW n \in 1..Len(conn[k].s2c), Receive(k, n),
         k = http.sock, Refusing(http, conn[k])
  PROVE  ClientInv' /\ (HostInv => HostInv')
<1>1. PICK c : c = conn[k]
  OBVIOUS
<1>2. c \in Connection /\ c.rx = << >> /\ n \in 1..Len(c.s2c) /\ Len(c.s2c) = 1 /\ c.s2c[1].type = "404"
  BY <1>1, InvParts DEF Refusing
<1>3. n = 1 /\ Len(c.s2c) - n = 0
  BY <1>2
<1>4. ~Ended(c, n) /\ Len(Data(c, n)) = 1 /\ Data(c, n)[1].type = "404" /\ Rest(c, n) = << >>
  <2>1. Last(Units(c, n)) = c.s2c[1] /\ Len(Units(c, n)) = 1 /\ Units(c, n)[1] = c.s2c[1]
    BY <1>2, <1>3, Split
  <2>2. ~Ended(c, n)
    BY <1>2, <2>1 DEF Ended
  <2>3. Len(Rest(c, n)) = 0 /\ Rest(c, n) \in Seq(Unit)
    BY <1>2, <1>3, Split
  <2>4. Rest(c, n) = << >>
    BY <2>3, EmptySeq
  <2> QED BY <1>2, <2>1, <2>2, <2>4 DEF Data
<1>5. PICK v, e : /\ Typed(v) /\ v.h = http /\ v.p = player /\ v.r = 0 /\ v.crash = FALSE
                  /\ e \in Connection /\ e.rx = Data(c, n) /\ [e EXCEPT !.rx = << >>] = After(c, n)
                  /\ v.c = [conn EXCEPT ![k] = e]
                  /\ Become(IF Ended(c, n) /\ ~HandleRead(v, k).crash
                              THEN ConnectionClosedNormal(HandleRead(v, k), k) ELSE HandleRead(v, k))
  <2>1. PICK v, e : Arriving(v, e, k, n)
    BY <1>1, <1>2, ReceiveMeans
  <2> QED BY <1>1, <2>1 DEF Arriving
<1>6. /\ ~Blank(conn[k]) /\ http.buf /\ ~http.finished /\ http.first /\ http.bytes = 0 /\ http.sentGet
      /\ http.len \in {0, Parts} /\ http.sock \in Conns
  <2>1. ~Blank(conn[k])
    BY <1>1, <1>2, ReceiveMeans
  <2> QED BY <2>1, Opened, InvParts DEF Refusing
<1>7. v.c[k] = e
  BY <1>5, InvParts
<1>8. PICK y, d : y = HandleRead(v, k) /\ d = After(c, n)
  OBVIOUS
<1>9. /\ y.p = v.p /\ y.r = v.r /\ y.crash = v.crash
      /\ y.c = [v.c EXCEPT ![k] = [v.c[k] EXCEPT !.rx = << >>]]
      /\ Reads(v.h, y.h, v.c[k].rx) /\ y.h.len = v.h.len
  <2>1. /\ Typed(v) /\ v.h.buf /\ ~v.h.finished /\ v.h.first /\ v.h.bytes = 0 /\ v.h.len \in {0, Parts}
        /\ Len(v.c[k].rx) = 1 /\ v.c[k].rx[1].type = "404"
    BY <1>4, <1>5, <1>6, <1>7
  <2>2. y = HandleRead(v, k)
    BY <1>8
  <2> QED BY <2>1, <2>2, ReadRefusal, ZenonT(60)
<1>10. y.p = player /\ y.r = 0 /\ ~y.crash /\ y.c = [conn EXCEPT ![k] = d]
  <2>1. y.c = [v.c EXCEPT ![k] = d]
    BY <1>5, <1>7, <1>8, <1>9
  <2>2. v.c = [conn EXCEPT ![k] = e] /\ v.p = player /\ v.r = 0 /\ v.crash = FALSE
    BY <1>5
  <2> QED BY <1>9, <2>1, <2>2, InvParts, ZenonT(60)
<1>11. /\ y.h.opened = http.opened /\ y.h.sock = http.sock /\ y.h.active = http.active /\ y.h.buf = http.buf
       /\ y.h.len = http.len /\ y.h.sentGet = http.sentGet /\ y.h.finished = http.finished
       /\ y.h.host = http.host /\ y.h.peer = http.peer /\ y.h.keepAlive = http.keepAlive
  BY <1>5, <1>9 DEF Reads
<1>12. /\ d \in Connection /\ d.s2c = << >> /\ d.rx = << >> /\ d.acked = c.served
       /\ d.state = c.state /\ d.server = c.server /\ d.c2s = c.c2s /\ d.served = c.served
       /\ d.recvString = c.recvString /\ d.left = c.left
  BY <1>2, <1>4, <1>8, AfterFields
<1>13. Stage(y.h, d)
  <2>1. c.recvString = <<Get(http)>> /\ c.served /\ c.c2s = << >> /\ c.left = << >> /\ c.state = "est"
    BY <1>1 DEF Refusing
  <2>2. Len(<<Get(http)>>) <= 1
    OBVIOUS
  <2>3. Drained(d)
    BY <1>12, <2>1, <2>2 DEF Drained
  <2> QED BY <1>6, <1>11, <1>12, <2>1, <2>3 DEF Stage, Stuck
<1>14. ~player.download /\ ~(player.waits > 0) /\ Loop(y.h, y.p)
  <2>1. ~player.download /\ ~(player.waits > 0)
    BY <1>6, Opened DEF Ready
  <2> QED BY <1>10, <1>11, <2>1, InvParts DEF Loop
<1>15. Good(y)
  <2>1. y.h.len \in {0, Parts} /\ y.p.status = player.status /\ InOrder(y.p)
    BY <1>10, <1>11, InvParts
  <2> QED BY <1>6, <1>10, <1>11, <1>12, <1>13, <1>14, <2>1, OneChanged
<1>16. HostInv => Hosted(y.h, y.c, y.p)
  <2>1. y.c[http.sock].server = conn[http.sock].server
    BY <1>1, <1>10, <1>12, InvParts
  <2> QED BY <1>10, <1>11, <2>1 DEF HostInv, Hosted
<1>17. Become(y)
  BY <1>4, <1>5, <1>8
<1> QED BY <1>15, <1>16, <1>17, BecomeGood

\* Data of the answer: the file is there, or a part of it is still missing.
LEMMA ReceiveAnswer ==
  ASSUME ClientInv, TypeOK', NEW k \in Conns, NEW n \in 1..Len(conn[k].s2c), Receive(k, n),
         k = http.sock, Answering(http, conn[k])
  PROVE  ClientInv' /\ (HostInv => HostInv')
<1>1. PICK c : c = conn[k]
  OBVIOUS
<1>2. c \in Connection /\ c.rx = << >> /\ n \in 1..Len(c.s2c) /\ Answering(http, c) /\ c.state = "est"
  BY <1>1, InvParts DEF Answering
<1>3. PICK v, e : /\ Typed(v) /\ v.h = http /\ v.p = player /\ v.r = 0 /\ v.crash = FALSE
                  /\ e \in Connection /\ e.rx = Data(c, n) /\ [e EXCEPT !.rx = << >>] = After(c, n)
                  /\ v.c = [conn EXCEPT ![k] = e]
                  /\ Become(IF Ended(c, n) /\ ~HandleRead(v, k).crash
                              THEN ConnectionClosedNormal(HandleRead(v, k), k) ELSE HandleRead(v, k))
  <2>1. PICK v, e : Arriving(v, e, k, n)
    BY <1>1, <1>2, ReceiveMeans
  <2> QED BY <1>1, <2>1 DEF Arriving
<1>4. /\ ~Blank(conn[k]) /\ http.active /\ http.buf /\ http.sentGet /\ ~http.finished /\ http.sock \in Conns
      /\ http \in Https /\ c.server \in Servers
  <2>1. ~Blank(conn[k])
    BY <1>1, <1>2, ReceiveMeans
  <2> QED BY <1>2, <2>1, Opened, InvParts DEF Answering, Connection
<1>5. v.c[k] = e
  BY <1>3, InvParts
<1>6. PICK d : d = After(c, n)
  OBVIOUS
<1>7. Missing(c, n) \in Nat
  <2>1. Typed(v) /\ v.h.buf /\ Answering(v.h, c) /\ v.c[k].rx = Data(c, n)
    BY <1>2, <1>3, <1>4, <1>5
  <2> QED BY <1>2, <2>1, ReadAnswer
<1>8. PICK y : /\ Typed(y) /\ y.p = v.p /\ y.r = v.r /\ y.crash = v.crash
               /\ y.c = [v.c EXCEPT ![k] = [v.c[k] EXCEPT !.rx = << >>]]
               /\ Reads(v.h, y.h, Data(c, n)) /\ y.h.len = Parts /\ y.h.bytes = Parts - Missing(c, n)
               /\ HandleRead(v, k) = IF Missing(c, n) = 0 THEN OnFileReceived(y, c.server) ELSE y
  <2>1. Typed(v) /\ v.h.buf /\ Answering(v.h, c) /\ v.c[k].rx = Data(c, n)
    BY <1>2, <1>3, <1>4, <1>5
  <2>2. PICK y : Counting(v, y, k, c, n)
    BY <1>2, <2>1, ReadAnswer
  <2> QED BY <2>2 DEF Counting
<1>9. y.p = player /\ y.r = 0 /\ y.crash = FALSE /\ y.c = [conn EXCEPT ![k] = d] /\ y.c[k] = d
  <2>1. y.c = [v.c EXCEPT ![k] = d]
    BY <1>3, <1>5, <1>6, <1>8
  <2>2. v.c = [conn EXCEPT ![k] = e] /\ v.p = player /\ v.r = 0 /\ v.crash = FALSE
    BY <1>3
  <2> QED BY <1>8, <2>1, <2>2, InvParts, ZenonT(60)
<1>10. Reads(http, y.h, Data(c, n)) /\ y.h \in Https
  BY <1>3, <1>8 DEF Typed, States
<1>11. /\ d \in Connection /\ d.s2c = Rest(c, n) /\ d.rx = << >> /\ d.acked = c.served
       /\ d.state = c.state /\ d.server = c.server /\ d.c2s = c.c2s /\ d.served = c.served
       /\ d.recvString = c.recvString /\ d.left = c.left /\ Fin(d) = Fin(c)
  BY <1>2, <1>6, AfterFields
<1>12. \A u \in y.h.got : u.file = y.h.file
  <2>1. \A u \in http.got \cup ToSet(Data(c, n)) : u.file = http.file
    BY <1>2, <1>4, GotWanted
  <2> QED BY <1>10, <2>1 DEF Reads
<1>13. Loop(y.h, y.p) /\ InOrder(y.p)
  BY <1>9, <1>10, InvParts DEF Loop, Reads
<1>14. CASE Missing(c, n) # 0
  <2>1. HandleRead(v, k) = y
    BY <1>8, <1>14
  <2>2. ~Ended(c, n) /\ Answering(y.h, d)
    <3>1. /\ y.h.sentGet /\ ~y.h.finished /\ y.h.file = http.file /\ y.h.keepAlive = http.keepAlive /\ ~y.h.first
          /\ y.h.len = Parts /\ y.h.bytes = Parts - Missing(c, n) /\ y.h.got = http.got \cup ToSet(Data(c, n))
      BY <1>4, <1>8, <1>10 DEF Reads
    <3> QED BY <1>2, <1>4, <1>6, <1>7, <1>14, <3>1, StillAnswering
  <2>3. Become(y)
    BY <1>3, <2>1, <2>2
  <2>4. ~player.download /\ ~(player.waits > 0)
    BY <1>4, Opened DEF Ready
  <2>5. Good(y)
    <3>1. /\ y.h.opened = http.opened /\ y.h.sock = http.sock /\ y.h.active = http.active /\ y.h.buf = http.buf
          /\ y.h.len \in {0, Parts} /\ y.p.status = player.status
      BY <1>8, <1>9, <1>10 DEF Reads
    <3>2. Stage(y.h, d)
      BY <2>2 DEF Stage
    <3> QED BY <1>4, <1>9, <1>11, <1>13, <2>4, <3>1, <3>2, OneChanged
  <2>6. HostInv => Hosted(y.h, y.c, y.p)
    <3>1. y.c[http.sock].server = conn[http.sock].server
      BY <1>1, <1>9, <1>11
    <3> QED BY <1>9, <1>10, <3>1 DEF HostInv, Hosted, Reads
  <2> QED BY <2>3, <2>5, <2>6, BecomeGood
<1>15. CASE Missing(c, n) = 0
  <2>1. PICK x : x = OnFileReceived(y, c.server)
    OBVIOUS
  <2>2. /\ x.c = y.c /\ x.r = y.r /\ x.crash = y.crash
        /\ \/ x.h = SegmentIn(y.h) /\ x.p.mpdParsed = y.p.mpdParsed
           \/ x.h = MpdIn(y.h, c.server) /\ ~y.p.mpdParsed
        /\ x.p.status = y.p.status /\ Loop(x.h, x.p) /\ InOrder(x.p) /\ Typed(x)
    <3>1. y.h.active /\ ~y.h.finished
      BY <1>4, <1>10 DEF Reads
    <3>2. Typed(y)
      BY <1>8
    <3>3. Typed(x)
      BY <1>4, <2>1, <3>2, FileTyped
    <3>4. c.server \in Servers
      BY <1>4
    <3> QED BY <1>13, <2>1, <3>1, <3>2, <3>3, <3>4, OnFileReceivedLoop
  <2>3. /\ x.h.finished /\ x.h.got = y.h.got /\ x.h.file = y.h.file /\ x.h.keepAlive = http.keepAlive
        /\ x.h.sentGet /\ x.h.sock = http.sock /\ x.h.opened = http.opened /\ x.h.active = http.active
        /\ x.h.buf = http.buf /\ x.h.len = Parts /\ x.h.host = http.host
    <3>1. x.h = SegmentIn(y.h) \/ x.h = MpdIn(y.h, c.server)
      BY <2>2
    <3>2. /\ x.h.finished /\ x.h.got = y.h.got /\ x.h.file = y.h.file /\ x.h.keepAlive = y.h.keepAlive
          /\ x.h.sentGet = y.h.sentGet /\ x.h.sock = y.h.sock /\ x.h.opened = y.h.opened /\ x.h.active = y.h.active
          /\ x.h.buf = y.h.buf /\ x.h.len = y.h.len /\ x.h.host = y.h.host
      BY <1>10, <3>1 DEF Https, SegmentIn, MpdIn
    <3> QED BY <1>4, <1>8, <1>10, <3>2 DEF Reads
  <2>4. \/ x.h.peer = http.peer /\ x.p.mpdParsed = player.mpdParsed
        \/ x.h.peer = c.server /\ ~player.mpdParsed
    <3>1. \/ x.h.peer = y.h.peer /\ x.p.mpdParsed = y.p.mpdParsed
          \/ x.h.peer = c.server /\ ~y.p.mpdParsed
      <4>1. SegmentIn(y.h).peer = y.h.peer /\ MpdIn(y.h, c.server).peer = c.server
        BY <1>10 DEF Https, SegmentIn, MpdIn
      <4> QED BY <2>2, <4>1
    <3> QED BY <1>9, <1>10, <3>1 DEF Reads
  <2>5. /\ Drained(d) /\ d.state = "est" /\ (d.recvString # << >> => d.recvString[1].keepAlive = http.keepAlive)
        /\ (http.keepAlive => d.served) /\ (Ended(c, n) => ~http.keepAlive)
    BY <1>2, <1>4, <1>6, <1>15, AnswerEnds
  <2> DEFINE Final(z, b) == /\ z.h = x.h /\ z.p = x.p /\ z.r = 0 /\ ~z.crash /\ z.c = [conn EXCEPT ![k] = b]
                            /\ b \in Connection /\ Drained(b) /\ b.recvString = d.recvString /\ b.server = c.server
                            /\ b.state \in {"est", "closed"} /\ (http.keepAlive => b.state = "est" /\ b.served)
  <2>6. ASSUME NEW z, NEW b, Final(z, b), Become(z) PROVE ClientInv' /\ (HostInv => HostInv')
    <3>1. Done(z.h, b)
      BY <1>12, <2>3, <2>5, <2>6 DEF Done
    <3>2. Ready(z.h, b)
      BY <2>3, <2>6 DEF Ready
    <3>3. z.c[http.sock] = b
      BY <2>6, InvParts
    <3>4. Good(z)
      <4>1. z.h.len \in {0, Parts} /\ z.p.status = player.status /\ Loop(z.h, z.p) /\ InOrder(z.p)
        BY <1>9, <2>2, <2>3, <2>6
      <4>2. Stage(z.h, b)
        BY <3>1 DEF Stage
      <4>3. z.p.download \/ z.p.waits > 0 => Ready(z.h, z.c[http.sock])
        BY <3>2, <3>3
      <4>4. z.h.opened = http.opened /\ z.h.sock = http.sock /\ z.h.active = http.active /\ z.h.buf = http.buf
        BY <2>3, <2>6
      <4>5. b \in Connection /\ z.c = [conn EXCEPT ![k] = b] /\ z.r = 0 /\ ~z.crash
        BY <2>6
      <4> QED BY <1>4, <4>1, <4>2, <4>3, <4>4, <4>5, OneChanged
    <3>5. HostInv => Hosted(z.h, z.c, z.p)
      <4>1. z.c[http.sock].server = conn[http.sock].server /\ c.server = conn[http.sock].server
        BY <1>1, <2>6, <3>3
      <4>2. http.sock # NoSocket
        BY <1>4 DEF Conns, NoSocket
      <4>3. z.h = x.h /\ z.p = x.p
        BY <2>6
      <4> QED BY <2>3, <2>4, <4>1, <4>2, <4>3 DEF HostInv, Hosted
    <3> QED BY <2>6, <3>4, <3>5, BecomeGood
  <2>7. HandleRead(v, k) = x /\ ~x.crash
    BY <1>8, <1>9, <1>15, <2>1, <2>2
  <2>8. CASE ~Ended(c, n)
    <3>1. Become(x)
      BY <1>3, <2>7, <2>8
    <3>2. Final(x, d)
      BY <1>9, <1>11, <2>2, <2>5
    <3> HIDE DEF Final
    <3> QED BY <2>6, <3>1, <3>2
  <2>9. CASE Ended(c, n)
    <3>1. PICK z : z = ConnectionClosedNormal(x, k)
      OBVIOUS
    <3>2. Become(z)
      BY <1>3, <2>7, <2>9, <3>1
    <3> DEFINE b == [d EXCEPT !.state = "closed", !.closeCb = FALSE]
    <3>3. x.c = [conn EXCEPT ![k] = d] /\ x.c[k] = d /\ x.c[k].state = "est" /\ x.c[k].rx = << >> /\ Typed(x)
      BY <1>9, <1>11, <2>2, <2>5, SMTT(40)
    <3>4. /\ z.h = x.h /\ z.p = x.p /\ z.r = x.r /\ z.crash = x.crash
          /\ z.c = [x.c EXCEPT ![k] = [x.c[k] EXCEPT !.state = "closed", !.closeCb = FALSE]]
      <4> HIDE DEF b, Final
      <4>1. x.c[k].state \in {"est", "finwait", "finwait2"} /\ x.c[k].rx = << >>
        BY <3>3
      <4>2. Typed(x)
        BY <3>3
      <4> QED BY <3>1, <4>1, <4>2, NormalClose, ZenonT(60)
    <3>5. z.c = [conn EXCEPT ![k] = b]
      BY <3>3, <3>4, InvParts
    <3>6. /\ b \in Connection /\ b.state = "closed" /\ b.recvString = d.recvString /\ b.server = d.server
          /\ b.c2s = d.c2s /\ b.rx = d.rx /\ b.left = d.left /\ b.s2c = d.s2c /\ b.served = d.served /\ b.acked = d.acked
      BY <1>11 DEF Connection
    <3> HIDE DEF b
    <3>7. Drained(b)
      BY <2>5, <3>6 DEF Drained, Fin
    <3>8. Final(z, b)
      BY <1>9, <1>11, <2>2, <2>5, <2>9, <3>4, <3>5, <3>6, <3>7
    <3> HIDE DEF Final
    <3> QED BY <2>6, <3>2, <3>8
  <2> QED BY <2>8, <2>9
<1> QED BY <1>14, <1>15

\* Units reach the client.
LEMMA ReceiveKeeps ==
  ASSUME ClientInv, TypeOK', NEW k \in Conns, NEW n \in 1..Len(conn[k].s2c), Receive(k, n)
  PROVE  ClientInv' /\ (HostInv => HostInv')
<1>1. conn[k].state \in {"est", "finwait", "finwait2"} /\ ~Blank(conn[k])
  BY DEF Receive, Blank
<1>2. CASE k # http.sock
  BY <1>1, <1>2, Opened, ReceiveDrained DEF Spent
<1>3. CASE k = http.sock
  <2>1. Stage(http, conn[k])
    BY <1>1, <1>3, Opened
  <2>2. ~Connecting(http, conn[k])
    BY <1>1 DEF Connecting
  <2>3. ~Asked(http, conn[k])
    <3> SUFFICES ASSUME Asked(http, conn[k]) PROVE FALSE
      OBVIOUS
    <3>1. Len(conn[k].s2c) = 0
      BY DEF Asked
    <3> QED BY <3>1
  <2>4. CASE Answering(http, conn[k])
    BY <1>3, <2>4, ReceiveAnswer
  <2>5. CASE Refusing(http, conn[k])
    BY <1>3, <2>5, ReceiveRefused
  <2>6. CASE Stuck(http, conn[k]) \/ Done(http, conn[k])
    BY <2>6, ReceiveDrained DEF Stuck, Done
  <2> QED BY <2>1, <2>2, <2>3, <2>4, <2>5, <2>6 DEF Stage
<1> QED BY <1>2, <1>3

\* A step of the player alone.
LEMMA PlayerKeeps ==
  ASSUME ClientInv, TypeOK', NEW x, Become(x), NEW q,
         x.h = http, x.c = conn, x.p = q, x.r = 0, ~x.crash,
         q.status = player.status, q.mpdParsed = player.mpdParsed, Loop(http, q), InOrder(q),
         q.download \/ q.waits > 0 => player.download \/ player.waits > 0
  PROVE  ClientInv' /\ (HostInv => HostInv')
<1>1. Requesting(http, conn, q)
  BY InvParts DEF Requesting
<1>2. Good(x)
  BY <1>1, InvParts DEF Good
<1>3. HostInv => Hosted(x.h, x.c, x.p)
  BY DEF HostInv, Hosted
<1> QED BY <1>2, <1>3, BecomeGood

\* A segment is played.
LEMMA PlayKeeps ==
  ASSUME ClientInv, TypeOK', Play
  PROVE  ClientInv' /\ (HostInv => HostInv')
<1> DEFINE q == [player EXCEPT !.buffer = Tail(@), !.played = Append(@, Head(player.buffer)),
                               !.started = TRUE, !.frozen = @ /\ ~player.started]
           x == [Now EXCEPT !.p.buffer = Tail(@), !.p.played = Append(@, Head(player.buffer)),
                            !.p.started = TRUE, !.p.frozen = @ /\ ~player.started]
<1>1. Become(x) /\ player.buffer # << >>
  BY DEF Play
<1>2. x = [Now EXCEPT !.p = q]
  BY InvParts DEF States
<1>3. /\ q.played = Append(player.played, Head(player.buffer)) /\ q.buffer = Tail(player.buffer)
      /\ q.status = player.status /\ q.mpdParsed = player.mpdParsed /\ q.next = player.next
      /\ q.segment = player.segment /\ q.download = player.download /\ q.waits = player.waits
  BY InvParts DEF Players
<1> HIDE DEF x, q
<1>4. x.h = http /\ x.c = conn /\ x.p = q /\ x.r = 0 /\ ~x.crash
  BY <1>2, InvParts DEF States
<1>5. q \in Players
  <2>1. player' = q
    BY <1>1, <1>4 DEF Become
  <2>2. player' \in Players
    BY DEF TypeOK, Players
  <2> QED BY <2>1, <2>2
<1>6. InOrder(q) /\ Shown(q) = Shown(player)
  BY <1>1, <1>3, <1>5, InvParts, OrderPlay
<1>7. Loop(http, q)
  BY <1>3, <1>6, InvParts DEF Loop
<1> QED BY <1>1, <1>3, <1>4, <1>6, <1>7, PlayerKeeps

\* The end of playback.
LEMMA PlayedAllKeeps ==
  ASSUME ClientInv, TypeOK', PlayedAll
  PROVE  ClientInv' /\ (HostInv => HostInv')
<1> DEFINE q == [player EXCEPT !.play = FALSE]
           x == [Now EXCEPT !.p.play = FALSE]
<1>1. Become(x)
  BY DEF PlayedAll
<1>2. x = [Now EXCEPT !.p = q]
  BY InvParts DEF States
<1>3. /\ q.played = player.played /\ q.buffer = player.buffer
      /\ q.status = player.status /\ q.mpdParsed = player.mpdParsed /\ q.next = player.next
      /\ q.segment = player.segment /\ q.download = player.download /\ q.waits = player.waits
  BY InvParts DEF Players
<1> HIDE DEF x, q
<1>4. x.h = http /\ x.c = conn /\ x.p = q /\ x.r = 0 /\ ~x.crash
  BY <1>2, InvParts DEF States
<1>5. InOrder(q) /\ Loop(http, q)
  BY <1>3, InvParts DEF InOrder, Shown, Loop
<1> QED BY <1>1, <1>3, <1>4, <1>5, PlayerKeeps

\* A freeze.
LEMMA StallKeeps ==
  ASSUME ClientInv, TypeOK', Stall
  PROVE  ClientInv' /\ (HostInv => HostInv')
<1> DEFINE q == [player EXCEPT !.frozen = @ \/ player.started]
           x == [Now EXCEPT !.p.frozen = @ \/ player.started]
<1>1. Become(x)
  BY DEF Stall
<1>2. x = [Now EXCEPT !.p = q]
  BY InvParts DEF States
<1>3. /\ q.played = player.played /\ q.buffer = player.buffer
      /\ q.status = player.status /\ q.mpdParsed = player.mpdParsed /\ q.next = player.next
      /\ q.segment = player.segment /\ q.download = player.download /\ q.waits = player.waits
  BY InvParts DEF Players
<1> HIDE DEF x, q
<1>4. x.h = http /\ x.c = conn /\ x.p = q /\ x.r = 0 /\ ~x.crash
  BY <1>2, InvParts DEF States
<1>5. InOrder(q) /\ Loop(http, q)
  BY <1>3, InvParts DEF InOrder, Shown, Loop
<1> QED BY <1>1, <1>3, <1>4, <1>5, PlayerKeeps

\* A timer of the download loop is set only once the MPD has arrived.
LEMMA TimerMeans ==
  ASSUME ClientInv, player.download \/ player.waits > 0
  PROVE  /\ player.mpdParsed /\ player.status = "running" /\ Ready(http, conn[http.sock])
         /\ http.finished /\ http.active /\ http.sock \in Conns /\ http.sock \in 1..http.opened
         /\ Stage(http, conn[http.sock])
<1>1. player.mpdParsed
  BY InvParts DEF Loop
<1>2. player.status # "new"
  BY <1>1, InvParts DEF Requesting
<1> QED BY <1>1, <1>2, Running DEF Ready

\* The adaptation logic says to wait.
LEMMA DownloadIdleKeeps ==
  ASSUME ClientInv, TypeOK', DownloadIdle
  PROVE  ClientInv' /\ (HostInv => HostInv')
<1> DEFINE q == [player EXCEPT !.segment = 0]
           x == [Now EXCEPT !.p.segment = 0]
<1>1. Become(x) /\ player.download
  BY DEF DownloadIdle
<1>2. x = [Now EXCEPT !.p = q]
  BY InvParts DEF States
<1>3. /\ q.played = player.played /\ q.buffer = player.buffer
      /\ q.status = player.status /\ q.mpdParsed = player.mpdParsed /\ q.next = player.next
      /\ q.download = player.download /\ q.waits = player.waits
  BY InvParts DEF Players
<1> HIDE DEF x, q
<1>4. x.h = http /\ x.c = conn /\ x.p = q /\ x.r = 0 /\ ~x.crash
  BY <1>2, InvParts DEF States
<1>5. InOrder(q) /\ Loop(http, q)
  BY <1>1, <1>3, InvParts, TimerMeans DEF InOrder, Shown, Loop
<1> QED BY <1>1, <1>3, <1>4, <1>5, PlayerKeeps

\* The segment that found no room is offered again.
LEMMA OfferAgainKeeps ==
  ASSUME ClientInv, TypeOK', OfferAgain
  PROVE  ClientInv' /\ (HostInv => HostInv')
<1> DEFINE q == [player EXCEPT !.waits = @ - 1]
           x == [Now EXCEPT !.p.waits = @ - 1]
<1>1. Become(OnMultimediaFile(x)) /\ player.waits > 0
  BY DEF OfferAgain
<1>2. x = [Now EXCEPT !.p = q]
  BY InvParts DEF States
<1>3. /\ player.mpdParsed /\ http.finished /\ http.active /\ ~player.download /\ player.waits = 1
      /\ player.segment = player.next - 1 /\ player.segment = Shown(player) + 1
  BY <1>1, TimerMeans, InvParts DEF Loop
<1>4. /\ q.played = player.played /\ q.buffer = player.buffer /\ q \in Players
      /\ q.status = player.status /\ q.mpdParsed = player.mpdParsed /\ q.next = player.next
      /\ q.segment = player.segment /\ q.download = player.download /\ q.waits = 0
  <2>1. q = [player EXCEPT !.waits = 0]
    BY <1>3
  <2> HIDE DEF q
  <2> QED BY <2>1, InvParts DEF Players
<1> HIDE DEF x, q
<1>5. x.h = http /\ x.c = conn /\ x.p = q /\ x.r = 0 /\ ~x.crash /\ Typed(x)
  BY <1>2, <1>4, InvParts DEF States, Typed
<1>6. InOrder(q) /\ Shown(q) = Shown(player)
  BY <1>4, InvParts DEF InOrder, Shown
<1>7. PICK y : y = OnMultimediaFile(x)
  OBVIOUS
<1>8. /\ y.h = x.h /\ y.c = x.c /\ y.r = x.r /\ y.crash = x.crash
      /\ y.p.status = x.p.status /\ y.p.mpdParsed /\ Loop(x.h, y.p) /\ InOrder(y.p)
  <2>1. /\ x.h.active /\ x.h.finished /\ x.p.mpdParsed /\ InOrder(x.p) /\ ~x.p.download /\ x.p.waits = 0
        /\ x.p.segment = x.p.next - 1 /\ x.p.segment = Shown(x.p) + 1
    BY <1>3, <1>4, <1>5, <1>6
  <2> QED BY <1>5, <1>7, <2>1, OnMultimediaFileLoop
<1>9. Requesting(y.h, y.c, y.p)
  BY <1>1, <1>4, <1>5, <1>8, TimerMeans, InvParts DEF Requesting
<1>10. Good(y)
  BY <1>5, <1>8, <1>9, InvParts DEF Good
<1>11. HostInv => Hosted(y.h, y.c, y.p)
  BY <1>3, <1>5, <1>8 DEF HostInv, Hosted
<1> QED BY <1>1, <1>7, <1>10, <1>11, BecomeGood

\* There are no more segments: the connection is closed.
LEMMA DownloadedAllKeeps ==
  ASSUME ClientInv, TypeOK', DownloadedAll
  PROVE  ClientInv' /\ (HostInv => HostInv')
<1> DEFINE q == [player EXCEPT !.download = FALSE, !.segment = 0, !.allDownloaded = TRUE]
           x == [Now EXCEPT !.p.download = FALSE, !.p.segment = 0, !.p.allDownloaded = TRUE]
           k == http.sock
<1>1. Become(ForceCloseSocket(x)) /\ player.download
  BY DEF DownloadedAll
<1>2. x = [Now EXCEPT !.p = q]
  BY InvParts DEF States
<1>3. /\ q.played = player.played /\ q.buffer = player.buffer
      /\ q.status = player.status /\ q.mpdParsed = player.mpdParsed /\ q.next = player.next
      /\ q.download = FALSE /\ q.waits = player.waits
  BY InvParts DEF Players
<1>4. q \in Players
  BY InvParts, Constants DEF Players, Mpd
<1> HIDE DEF x, q
<1>5. x.h = http /\ x.c = conn /\ x.p = q /\ x.r = 0 /\ ~x.crash /\ Typed(x)
  BY <1>2, <1>4, InvParts DEF States, Typed
<1>6. player.waits = 0 /\ InOrder(q) /\ Loop(http, q)
  BY <1>1, <1>3, InvParts, TimerMeans DEF InOrder, Shown, Loop
<1>7. CASE ~http.keepAlive
  <2>1. ForceCloseSocket(x) = x
    BY <1>5, <1>7 DEF ForceCloseSocket
  <2> QED BY <1>1, <1>3, <1>5, <1>6, <2>1, PlayerKeeps
<1>8. CASE http.keepAlive
  <2>1. /\ k \in Conns /\ Done(http, conn[k]) /\ conn[k].state = "est" /\ conn[k] \in Connection
        /\ conn[k].rx = << >> /\ ~Blank(conn[k])
    <3>1. k \in Conns /\ http.finished /\ Stage(http, conn[k]) /\ Ready(http, conn[k])
      BY <1>1, TimerMeans
    <3>2. Done(http, conn[k])
      BY <3>1 DEF Stage, Connecting, Asked, Answering, Refusing, Stuck
    <3> QED BY <1>8, <3>1, <3>2, InvParts DEF Ready, Done, Drained, Blank
  <2>2. PICK d : d = [conn[k] EXCEPT !.state = "finwait"]
    OBVIOUS
  <2>3. /\ d \in Connection /\ d.state = "finwait" /\ d.server = conn[k].server
        /\ d.c2s = conn[k].c2s /\ d.s2c = conn[k].s2c /\ d.rx = conn[k].rx /\ d.left = conn[k].left
        /\ d.recvString = conn[k].recvString /\ d.served = conn[k].served /\ d.acked = conn[k].acked
    BY <2>1, <2>2 DEF Connection
  <2>4. Done(http, d)
    BY <2>1, <2>3 DEF Done, Drained, Fin
  <2>5. ForceCloseSocket(x) = Close(x, k)
    <3>1. k # NoSocket
      BY <2>1 DEF Conns, NoSocket
    <3> QED BY <1>5, <1>8, <3>1 DEF ForceCloseSocket
  <2>6. PICK y : y = Close(x, k)
    OBVIOUS
  <2>7. /\ y.h = x.h /\ y.p = x.p /\ y.r = x.r /\ y.crash = x.crash
        /\ y.c = IF x.c[k].state = "est" THEN [x.c EXCEPT ![k] = [x.c[k] EXCEPT !.state = "finwait"]]
                                         ELSE x.c
    <3>1. x.c[k].state # "syn" /\ x.c[k].rx = << >>
      BY <1>5, <2>1
    <3> QED BY <1>5, <2>1, <2>6, <3>1, Closing
  <2>8. y.h = http /\ y.p = q /\ y.r = 0 /\ ~y.crash /\ y.c = [conn EXCEPT ![k] = d] /\ y.c[k] = d
    BY <1>5, <2>1, <2>2, <2>7, InvParts
  <2>9. Good(y)
    <3>1. ~q.download /\ ~(q.waits > 0) /\ http.len \in {0, Parts}
      BY <1>3, <1>6, InvParts
    <3>2. Stage(http, d)
      BY <2>4 DEF Stage
    <3> QED BY <1>3, <1>6, <2>1, <2>3, <2>8, <3>1, <3>2, OneChanged
  <2>10. HostInv => Hosted(y.h, y.c, y.p)
    BY <1>3, <2>3, <2>8 DEF HostInv, Hosted
  <2> QED BY <1>1, <2>5, <2>6, <2>9, <2>10, BecomeGood
<1> QED BY <1>7, <1>8

\* A change of the client's entry.  If it comes after the MPD, it does not
\* separate the host from the address to connect to.
LEMMA RedirectKeeps ==
  ASSUME ClientInv, TypeOK', NEW s \in Servers, Redirect(s)
  PROVE  ClientInv' /\ (~EarlyRedirect /\ HostInv => HostInv')
<1>1. UNCHANGED <<http, conn, player, retries, crash>> /\ (~EarlyRedirect => player.mpdParsed)
  BY DEF Redirect
<1>3. Good(Now)' <=> Good(Now)
  <2>1. Good(Now)' <=>
          /\ retries' = 0 /\ ~crash' /\ http'.len \in {0, Parts}
          /\ Elsewhere(http', conn') /\ Requesting(http', conn', player') /\ Loop(http', player')
          /\ InOrder(player')
    BY DEF Good, Now
  <2>2. Good(Now) <=>
          /\ retries = 0 /\ ~crash /\ http.len \in {0, Parts}
          /\ Elsewhere(http, conn) /\ Requesting(http, conn, player) /\ Loop(http, player)
          /\ InOrder(player)
    BY DEF Good, Now
  <2> QED BY <1>1, <2>1, <2>2
<1>4. ~EarlyRedirect /\ HostInv => HostInv'
  BY <1>1 DEF HostInv, Hosted
<1> QED BY <1>3, <1>4 DEF ClientInv

\* The player's members when the download of the next segment begins.
NextSegment(p) == [p EXCEPT !.download = FALSE, !.segment = p.next, !.next = p.next + 1]

\* The loop goes on with the segment behind those that are shown.
LEMMA NextSegmentLoop ==
  ASSUME NEW p \in Players, NEW h, NEW g, Loop(h, p), p.download, p.next <= NumSegments,
         ~g.finished, InOrder(p)
  PROVE  LET q == NextSegment(p) IN
         /\ q \in Players /\ q.status = p.status /\ q.mpdParsed = p.mpdParsed /\ p.mpdParsed
         /\ ~q.download /\ q.waits = 0 /\ Loop(g, q) /\ InOrder(q)
<1>1. p.next \in Nat /\ p.next \in Files /\ p.next + 1 \in 1..(NumSegments + 1)
  BY Constants DEF Players, Files
<1>2. p.mpdParsed /\ p.waits = 0 /\ Shown(p) = p.next - 1
  BY DEF Loop
<1>3. PICK q : q = NextSegment(p)
  OBVIOUS
<1>4. /\ q \in Players /\ q.status = p.status /\ q.mpdParsed = p.mpdParsed
      /\ ~q.download /\ q.waits = p.waits /\ q.segment = p.next /\ q.next = p.next + 1
      /\ q.played = p.played /\ q.buffer = p.buffer
  BY <1>1, <1>3 DEF NextSegment, Players
<1>5. Shown(q) = Shown(p) /\ InOrder(q)
  BY <1>4 DEF InOrder, Shown
<1>6. q.segment = q.next - 1 /\ q.segment = Shown(q) + 1
  BY <1>1, <1>2, <1>4, <1>5
<1>7. Loop(g, q)
  BY <1>2, <1>4, <1>6 DEF Loop
<1> QED BY <1>2, <1>3, <1>4, <1>5, <1>7

\* The client's members once the last download is stopped and the next file is
\* known.
Stopped(h, sock, file) == [h EXCEPT !.active = FALSE, !.buf = FALSE, !.sock = sock, !.file = file]

\* What of them a stop leaves alone.
LEMMA StoppedFields ==
  ASSUME NEW h \in Https, NEW sock \in Nat, NEW file \in Files
  PROVE  LET g == Stopped(h, sock, file) IN
         /\ g \in Https /\ g.sock = sock /\ g.file = file /\ g.opened = h.opened /\ g.keepAlive = h.keepAlive
         /\ g.host = h.host /\ g.peer = h.peer /\ g.len = h.len
BY DEF Stopped, Https

\* How DownloadSegment changes what StopApplication leaves.
LEMMA Renewing ==
  ASSUME NEW z \in States, z.p = player, player.next \in 1..NumSegments
  PROVE  [z EXCEPT !.p.download = FALSE, !.p.segment = player.next, !.p.next = @ + 1, !.h.file = player.next]
           = [h |-> [z.h EXCEPT !.file = player.next], c |-> z.c, p |-> NextSegment(player),
              r |-> z.r, crash |-> z.crash]
<1>1. PICK a, b, d, e : /\ a = [z EXCEPT !.p.download = FALSE]
                        /\ b = [a EXCEPT !.p.segment = player.next]
                        /\ d = [b EXCEPT !.p.next = z.p.next + 1]
                        /\ e = [d EXCEPT !.h.file = player.next]
  OBVIOUS
<1>2. player.next \in Nat /\ player.next \in Files /\ player.next + 1 \in 1..(NumSegments + 1)
  BY Constants DEF Files
<1>3. a \in States /\ a.p = [z.p EXCEPT !.download = FALSE] /\ a.h = z.h /\ a.c = z.c /\ a.r = z.r /\ a.crash = z.crash
  BY <1>1 DEF States, Players
<1>4. b \in States /\ b.p = [a.p EXCEPT !.segment = player.next] /\ b.h = a.h /\ b.c = a.c /\ b.r = a.r /\ b.crash = a.crash
  BY <1>1, <1>2, <1>3, ZenonT(60) DEF States, Players
<1>5. b.p.next = player.next
  BY <1>3, <1>4 DEF States, Players
<1>6. d \in States /\ d.p = [b.p EXCEPT !.next = player.next + 1] /\ d.h = b.h /\ d.c = b.c /\ d.r = b.r /\ d.crash = b.crash
  <2>1. b \in States /\ b.p \in Players
    BY <1>4 DEF States
  <2>2. PICK q : q = [b.p EXCEPT !.next = player.next + 1]
    OBVIOUS
  <2>3. q \in Players
    BY <1>2, <2>1, <2>2, ZenonT(60) DEF Players
  <2>4. d = [b EXCEPT !.p = q]
    BY <1>1, <1>5, <2>2
  <2> QED BY <2>1, <2>2, <2>3, <2>4 DEF States
<1>7. e \in States /\ e.p = d.p /\ e.h = [d.h EXCEPT !.file = player.next] /\ e.c = d.c /\ e.r = d.r /\ e.crash = d.crash
  <2>1. d \in States /\ d.h \in Https
    BY <1>6 DEF States
  <2>2. PICK g : g = [d.h EXCEPT !.file = player.next]
    OBVIOUS
  <2>3. g \in Https
    BY <1>2, <2>1, <2>2 DEF Https
  <2>4. e = [d EXCEPT !.h = g]
    BY <1>1, <2>2
  <2> QED BY <2>1, <2>2, <2>3, <2>4 DEF States
<1>8. e.p = NextSegment(player)
  BY <1>3, <1>4, <1>6, <1>7 DEF NextSegment, States, Players
<1>9. e = [h |-> e.h, c |-> e.c, p |-> e.p, r |-> e.r, crash |-> e.crash]
  BY <1>7 DEF States
<1>10. [z EXCEPT !.p.download = FALSE, !.p.segment = player.next, !.p.next = @ + 1, !.h.file = player.next] = e
  BY <1>1
<1>11. d.h = z.h /\ e.c = z.c /\ e.r = z.r /\ e.crash = z.crash
  BY <1>3, <1>4, <1>6, <1>7
<1>12. e.h = [z.h EXCEPT !.file = player.next]
  BY <1>7, <1>11
<1> QED BY <1>8, <1>9, <1>10, <1>11, <1>12

\* The next segment is asked for on the connection that is kept alive.
LEMMA DownloadSegmentKept ==
  ASSUME ClientInv, TypeOK', DownloadSegment, http.keepAlive
  PROVE  ClientInv' /\ (HostInv => HostInv')
<1> DEFINE k == http.sock
           q == NextSegment(player)
           g == Stopped(http, k, player.next)
           x == [StopApplication(Now) EXCEPT !.p.download = FALSE, !.p.segment = player.next,
                                             !.p.next = @ + 1, !.h.file = player.next]
<1>1. Become(StartApplication(x)) /\ player.download /\ player.next <= NumSegments
  BY DEF DownloadSegment
<1>2. /\ k \in Conns /\ k \in 1..http.opened /\ http.finished /\ http.active /\ http.buf
      /\ Done(http, conn[k]) /\ conn[k].state = "est" /\ conn[k].served /\ conn[k] \in Connection
      /\ player.status = "running" /\ ~Blank(conn[k])
  <2>1. k \in Conns /\ http.finished /\ Stage(http, conn[k]) /\ Ready(http, conn[k]) /\ player.status = "running"
    BY <1>1, TimerMeans
  <2>2. Done(http, conn[k])
    BY <2>1 DEF Stage, Connecting, Asked, Answering, Refusing, Stuck
  <2>3. http.buf /\ http.active /\ k \in 1..http.opened
    BY <2>1, Running
  <2> QED BY <2>1, <2>2, <2>3, InvParts DEF Ready, Blank
<1>3. k # NoSocket /\ k \in Nat /\ player.next \in Files
  BY <1>1, <1>2, InvParts, Constants DEF Conns, NoSocket, Players, Files
<1>4. g \in Https /\ g.sock = k /\ g.file = player.next /\ g.opened = http.opened /\ g.keepAlive
      /\ g.host = http.host /\ g.peer = http.peer /\ g.len = http.len
  BY <1>3, InvParts, StoppedFields
<1>5. x = [h |-> g, c |-> conn, p |-> q, r |-> 0, crash |-> FALSE]
  <2>1. PICK z : z = [Now EXCEPT !.h.active = FALSE, !.h.buf = FALSE]
    OBVIOUS
  <2>2. /\ z \in States /\ z.h = [http EXCEPT !.active = FALSE, !.buf = FALSE]
        /\ z.c = conn /\ z.p = player /\ z.r = 0 /\ z.crash = FALSE
    BY <2>1, InvParts, ZenonT(60) DEF States, Https
  <2>3. StopApplication(Now) = z
    <3>1. z.h.keepAlive
      BY <2>2, InvParts DEF Https
    <3> QED BY <2>1, <3>1 DEF StopApplication
  <2>4. g = [z.h EXCEPT !.file = player.next]
    BY <2>2, InvParts, ZenonT(60) DEF Stopped, Https
  <2> HIDE DEF g, q, k
  <2>5. x = [h |-> [z.h EXCEPT !.file = player.next], c |-> z.c, p |-> NextSegment(player),
             r |-> z.r, crash |-> z.crash]
    <3>1. player.next \in 1..NumSegments
      BY <1>1, InvParts, Constants DEF Players
    <3> QED BY <2>2, <2>3, <3>1, Renewing
  <2> QED BY <2>2, <2>4, <2>5 DEF q
<1> HIDE DEF x, g, q, k
<1>6. q \in Players
  <2>1. ~[finished |-> FALSE].finished
    OBVIOUS
  <2> QED BY <1>1, <2>1, InvParts, NextSegmentLoop DEF q
<1>7. x.h = g /\ x.p = q /\ x.c = conn /\ x.r = 0 /\ ~x.crash /\ x \in States
  BY <1>4, <1>5, <1>6, InvParts DEF States
<1>8. Typed(x)
  BY <1>4, <1>7, InvParts DEF Typed, Bounded, k
<1>9. PICK y : y = StartApplication(x)
  BY SMTT(40)
<1>10. /\ y.p = x.p /\ y.r = x.r /\ y.crash = x.crash
       /\ y.h = [x.h EXCEPT !.buf = TRUE, !.active = TRUE, !.sentGet = TRUE, !.finished = FALSE,
                                 !.bytes = 0, !.got = {}, !.host = table,
                                 !.peer = IF x.h.host # table THEN table ELSE @,
                                 !.keepAlive = ~(x.h.host # table), !.first = TRUE]
       /\ y.c = IF x.c[x.h.sock].state \in {"syn", "synfin", "est"}
                  THEN [x.c EXCEPT ![x.h.sock] = [x.c[x.h.sock] EXCEPT !.c2s = Append(@, Get(y.h))]]
                  ELSE x.c
  <2>1. x.h.sock \in Conns /\ x.h.keepAlive
    BY <1>2, <1>4, <1>7
  <2> QED BY <1>8, <1>9, <2>1, Reusing, ZenonT(60)
<1>11. /\ y.h.buf /\ y.h.active /\ y.h.sentGet /\ ~y.h.finished /\ y.h.bytes = 0 /\ y.h.got = {} /\ y.h.first
       /\ y.h.host = table /\ y.h.sock = k /\ y.h.opened = http.opened /\ y.h.len = http.len
       /\ y.h.file = player.next
       /\ y.h.peer = (IF http.host # table THEN table ELSE http.peer)
       /\ y.h.keepAlive = ~(http.host # table)
  BY <1>4, <1>7, <1>10 DEF Https
<1>12. PICK e : e = [conn[k] EXCEPT !.c2s = Append(@, Get(y.h))]
  OBVIOUS
<1>13. /\ y.p = q /\ y.r = 0 /\ ~y.crash /\ y.c = [conn EXCEPT ![k] = e] /\ y.c[k] = e
  BY <1>2, <1>4, <1>7, <1>10, <1>12, InvParts
<1>14. Get(y.h) \in Request
  BY <1>3, <1>11 DEF Get, Request
<1>15. /\ e \in Connection /\ e.c2s = <<Get(y.h)>> /\ e.server = conn[k].server
       /\ e.state = "est" /\ e.served /\ e.s2c = conn[k].s2c /\ e.rx = conn[k].rx /\ e.left = conn[k].left
       /\ e.recvString = conn[k].recvString /\ e.acked = conn[k].acked
  <2>1. Append(conn[k].c2s, Get(y.h)) = <<Get(y.h)>> /\ <<Get(y.h)>> \in Seq(Request)
    <3>1. conn[k].c2s = << >>
      BY <1>2 DEF Done, Drained
    <3> QED BY <1>14, <3>1
  <2> QED BY <1>2, <1>12, <2>1 DEF Connection
<1>16. Asked(y.h, e)
  <2>1. conn[k].s2c = << >> /\ conn[k].rx = << >> /\ conn[k].left = << >>
    BY <1>2 DEF Done, Drained
  <2>2. conn[k].recvString = << >>
        \/ (Len(conn[k].recvString) = 1 /\ conn[k].recvString[1].keepAlive /\ conn[k].acked)
    <3>1. PICK s : s = conn[k].recvString
      OBVIOUS
    <3>2. s \in Seq(Request) /\ Len(s) <= 1
      BY <1>2, <3>1 DEF Done, Drained, Connection
    <3>3. s # << >> => Len(s) = 1
      <4>1. PICK n \in Nat : n = Len(s)
        BY <3>2, LenProperties
      <4>2. s # << >> => n # 0
        BY <3>2, <4>1, EmptySeq
      <4> QED BY <3>2, <4>1, <4>2
    <3> QED BY <1>2, <3>1, <3>3 DEF Done, Drained
  <2> QED BY <1>11, <1>15, <2>1, <2>2 DEF Asked
<1>17. q.status = player.status /\ q.mpdParsed /\ ~q.download /\ q.waits = 0 /\ Loop(y.h, q) /\ InOrder(q)
  BY <1>1, <1>11, InvParts, NextSegmentLoop DEF q
<1>18. Good(y)
  <2>1. /\ y.h.opened = http.opened /\ y.h.sock = http.sock /\ y.h.active = http.active /\ y.h.buf = http.buf
        /\ y.h.len \in {0, Parts} /\ Loop(y.h, y.p) /\ InOrder(y.p) /\ y.p.status = player.status
    BY <1>2, <1>11, <1>13, <1>17, InvParts DEF k
  <2>2. ~(y.p.download \/ y.p.waits > 0) /\ Stage(y.h, e) /\ k = http.sock
    BY <1>13, <1>16, <1>17 DEF Stage, k
  <2> QED BY <1>2, <1>13, <1>15, <2>1, <2>2, OneChanged, ZenonT(60)
<1>19. HostInv => Hosted(y.h, y.c, y.p)
  BY <1>3, <1>11, <1>13, <1>15, <1>17, ZenonT(60) DEF HostInv, Hosted, k
<1> QED BY <1>1, <1>9, <1>18, <1>19, BecomeGood

\* Stopping without keep-alive closes the connection and forgets it.
LEMMA Leaving ==
  ASSUME ClientInv, player.download, ~http.keepAlive
  PROVE  \E e \in Connection :
           /\ Spent(e)
           /\ LET z == StopApplication(Now) IN
              /\ z \in States /\ z.h = [http EXCEPT !.active = FALSE, !.buf = FALSE, !.sock = NoSocket]
              /\ z.c = [conn EXCEPT ![http.sock] = e] /\ z.p = player /\ z.r = 0 /\ z.crash = FALSE
<1> DEFINE k == http.sock
           a == [Now EXCEPT !.h.active = FALSE, !.h.buf = FALSE]
           g == [http EXCEPT !.active = FALSE, !.buf = FALSE]
<1>1. k \in Conns /\ Done(http, conn[k]) /\ conn[k].state \in {"est", "closed"} /\ conn[k] \in Connection
  <2>1. k \in Conns /\ http.finished /\ Stage(http, conn[k]) /\ Ready(http, conn[k])
    BY TimerMeans
  <2>2. Done(http, conn[k])
    BY <2>1 DEF Stage, Connecting, Asked, Answering, Refusing, Stuck
  <2> QED BY <2>1, <2>2, InvParts DEF Ready
<1>2. k # NoSocket
  BY <1>1 DEF Conns, NoSocket
<1>3. a = [Now EXCEPT !.h = g]
  BY InvParts DEF States
<1>4. g \in Https /\ g.sock = k /\ ~g.keepAlive /\ g.opened = http.opened
  BY InvParts DEF Https
<1> HIDE DEF a
<1>5. a \in States /\ a.h = g /\ a.c = conn /\ a.p = player /\ a.r = 0 /\ a.crash = FALSE
  <2> HIDE DEF g
  <2> QED BY <1>3, <1>4, InvParts DEF States
<1>6. Typed(a)
  BY <1>4, <1>5, InvParts DEF Typed, Bounded
<1>7. PICK b : b = Close(a, k)
  OBVIOUS
<1>8. StopApplication(Now) = [b EXCEPT !.h.sock = NoSocket]
  <2>1. a.h.sock = k /\ ~a.h.keepAlive
    BY <1>4, <1>5
  <2> QED BY <1>2, <1>7, <2>1 DEF StopApplication, a
<1>9. /\ b.h = a.h /\ b.p = a.p /\ b.r = a.r /\ b.crash = a.crash
      /\ b.c = IF a.c[k].state = "est" THEN [a.c EXCEPT ![k] = [a.c[k] EXCEPT !.state = "finwait"]]
                                       ELSE a.c
  <2>1. a.c[k].state # "syn" /\ a.c[k].rx = << >>
    BY <1>1, <1>5 DEF Done, Drained
  <2> QED BY <1>1, <1>6, <1>7, <2>1, Closing
<1>10. PICK e \in Connection : Spent(e) /\ b.c = [conn EXCEPT ![k] = e]
  <2>1. CASE conn[k].state = "est"
    <3>1. PICK e : e = [conn[k] EXCEPT !.state = "finwait"]
      OBVIOUS
    <3>2. /\ e \in Connection /\ e.state = "finwait" /\ e.server = conn[k].server
          /\ e.c2s = conn[k].c2s /\ e.s2c = conn[k].s2c /\ e.rx = conn[k].rx /\ e.left = conn[k].left
          /\ e.recvString = conn[k].recvString /\ e.served = conn[k].served /\ e.acked = conn[k].acked
      BY <1>1, <3>1 DEF Connection
    <3>3. Spent(e)
      BY <1>1, <3>2 DEF Spent, Done, Drained, Fin
    <3>4. b.c = [conn EXCEPT ![k] = e]
      BY <1>5, <1>9, <2>1, <3>1
    <3> QED BY <3>2, <3>3, <3>4
  <2>2. CASE conn[k].state = "closed"
    <3>1. Spent(conn[k])
      BY <1>1, <2>2 DEF Spent, Done
    <3>2. b.c = [conn EXCEPT ![k] = conn[k]]
      BY <1>1, <1>5, <1>9, <2>2, InvParts
    <3> QED BY <1>1, <3>1, <3>2
  <2> QED BY <1>1, <2>1, <2>2
<1>11. b \in States
  <2>1. b \in States \/ b = a
    <3>1. CASE a.c[k].state = "est"
      <4>1. b = [a EXCEPT !.c[k].state = "finwait"]
        <5>1. a.c[k].rx = << >>
          BY <1>1, <1>5 DEF Done, Drained
        <5> QED BY <1>7, <3>1, <5>1 DEF Close
      <4>2. b = [a EXCEPT !.c = b.c]
        BY <1>5, <4>1 DEF States
      <4>3. b.c \in [Conns -> Connection]
        BY <1>10, InvParts
      <4> QED BY <1>5, <4>2, <4>3 DEF States
    <3>2. CASE a.c[k].state # "est"
      <4>1. a.c[k].state # "syn" /\ a.c[k].rx = << >>
        BY <1>1, <1>5 DEF Done, Drained
      <4> QED BY <1>7, <3>2, <4>1 DEF Close
    <3> QED BY <3>1, <3>2
  <2> QED BY <1>5, <2>1
<1>12. PICK z : z = StopApplication(Now)
  OBVIOUS
<1>13. /\ z \in States /\ z.h = [g EXCEPT !.sock = NoSocket] /\ z.c = b.c /\ z.p = player
       /\ z.r = 0 /\ z.crash = FALSE
  <2>1. PICK f : f = [g EXCEPT !.sock = NoSocket]
    OBVIOUS
  <2>2. f \in Https
    BY <1>4, <2>1 DEF Https, NoSocket
  <2> HIDE DEF g
  <2>3. z = [b EXCEPT !.h = f]
    BY <1>5, <1>8, <1>9, <1>12, <2>1
  <2> QED BY <1>5, <1>9, <1>11, <2>1, <2>2, <2>3 DEF States
<1>14. [g EXCEPT !.sock = NoSocket] = [http EXCEPT !.active = FALSE, !.buf = FALSE, !.sock = NoSocket]
  BY InvParts DEF Https
<1> QED BY <1>10, <1>12, <1>13, <1>14

\* The next segment is asked for on a new connection.
LEMMA DownloadSegmentAnew ==
  ASSUME ClientInv, TypeOK', DownloadSegment, ~http.keepAlive
  PROVE  ClientInv' /\ (HostInv => HostInv')
<1> DEFINE q == NextSegment(player)
           g == Stopped(http, NoSocket, player.next)
           j == http.opened + 1
           x == [StopApplication(Now) EXCEPT !.p.download = FALSE, !.p.segment = player.next,
                                             !.p.next = @ + 1, !.h.file = player.next]
<1>1. Become(StartApplication(x)) /\ player.download /\ player.next <= NumSegments
  BY DEF DownloadSegment
<1>2. http.sock \in Conns /\ http.sock \in 1..http.opened /\ player.status = "running"
  BY <1>1, TimerMeans
<1>3. player.next \in 1..NumSegments /\ player.next \in Files /\ http.opened \in Nat /\ NoSocket \in Nat
  BY <1>1, InvParts, Constants, SMTT(40) DEF Players, Files, Https, NoSocket
<1>4. PICK e \in Connection :
        /\ Spent(e)
        /\ LET z == StopApplication(Now) IN
           /\ z \in States /\ z.h = [http EXCEPT !.active = FALSE, !.buf = FALSE, !.sock = NoSocket]
           /\ z.c = [conn EXCEPT ![http.sock] = e] /\ z.p = player /\ z.r = 0 /\ z.crash = FALSE
  BY <1>1, Leaving
<1>5. PICK z : z = StopApplication(Now)
  OBVIOUS
<1>6. /\ z \in States /\ z.h = [http EXCEPT !.active = FALSE, !.buf = FALSE, !.sock = NoSocket]
      /\ z.c = [conn EXCEPT ![http.sock] = e] /\ z.p = player /\ z.r = 0 /\ z.crash = FALSE
  BY <1>4, <1>5
<1>7. g = [z.h EXCEPT !.file = player.next]
  BY <1>6, InvParts DEF Stopped, Https
<1>8. /\ g \in Https /\ g.sock = NoSocket /\ g.file = player.next /\ g.opened = http.opened
      /\ g.keepAlive = http.keepAlive /\ g.host = http.host /\ g.peer = http.peer /\ g.len = http.len
  BY <1>3, InvParts, StoppedFields, SMTT(40)
<1> HIDE DEF g, q, j
<1>9. q \in Players
  <2>1. ~[finished |-> FALSE].finished
    OBVIOUS
  <2> QED BY <1>1, <2>1, InvParts, NextSegmentLoop DEF q
<1>10. x = [h |-> g, c |-> [conn EXCEPT ![http.sock] = e], p |-> q, r |-> 0, crash |-> FALSE]
  <2>1. x = [h |-> [z.h EXCEPT !.file = player.next], c |-> z.c, p |-> NextSegment(player),
             r |-> z.r, crash |-> z.crash]
    BY <1>3, <1>5, <1>6, Renewing
  <2> QED BY <1>6, <1>7, <2>1 DEF q
<1> HIDE DEF x
<1>11. PICK c : c = [conn EXCEPT ![http.sock] = e]
  OBVIOUS
<1>12. c \in [Conns -> Connection]
  BY <1>11, InvParts
<1>13. x.h = g /\ x.c = c /\ x.p = q /\ x.r = 0 /\ ~x.crash /\ x \in States
  BY <1>8, <1>9, <1>10, <1>11, <1>12 DEF States
<1>14. Typed(x)
  BY <1>8, <1>13, Constants DEF Typed, Bounded, NoSocket
<1>15. PICK y : y = StartApplication(x)
  BY SMTT(40)
<1>16. /\ y.p = x.p /\ y.r = x.r /\ y.crash = x.crash
       /\ y.h = [x.h EXCEPT !.buf = TRUE, !.active = TRUE, !.sentGet = FALSE, !.finished = FALSE,
                            !.bytes = 0, !.got = {}, !.sock = x.h.opened + 1, !.opened = x.h.opened + 1]
       /\ y.c = [x.c EXCEPT ![x.h.opened + 1] =
                  [x.c[x.h.opened + 1] EXCEPT !.state = "syn", !.server = x.h.peer, !.closeCb = TRUE]]
  <2>1. x.h.sock = NoSocket
    BY <1>8, <1>13
  <2> QED BY <1>14, <1>15, <2>1, Opening, ZenonT(60)
<1>17. x.h.opened + 1 = j /\ x.h.peer = http.peer /\ j \in Nat /\ j > http.opened
  BY <1>3, <1>8, <1>13 DEF j
<1>18. /\ y.h.buf /\ y.h.active /\ ~y.h.sentGet /\ ~y.h.finished /\ y.h.bytes = 0 /\ y.h.got = {}
       /\ y.h.host = http.host /\ y.h.peer = http.peer /\ y.h.sock = j /\ y.h.opened = j
       /\ y.h.len = http.len /\ y.h.keepAlive = http.keepAlive
  BY <1>8, <1>13, <1>16, <1>17 DEF Https
<1>19. j \in Conns /\ j # http.sock
  <2>1. j <= MaxConns
    BY <1>1, <1>15, <1>18 DEF Become
  <2> QED BY <1>2, <1>3, <1>17, <2>1, Constants DEF Conns
<1>20. c[j] = conn[j] /\ Blank(conn[j]) /\ conn[j] \in Connection
  BY <1>11, <1>17, <1>19, InvParts DEF Elsewhere
<1>21. PICK d : d = [conn[j] EXCEPT !.state = "syn", !.server = http.peer, !.closeCb = TRUE]
  OBVIOUS
<1>22. y.p = q /\ y.r = 0 /\ ~y.crash /\ y.c = [c EXCEPT ![j] = d] /\ y.c[j] = d
  <2>1. y.c = [c EXCEPT ![j] = [c[j] EXCEPT !.state = "syn", !.server = http.peer, !.closeCb = TRUE]]
    BY <1>13, <1>16, <1>17
  <2>2. y.c = [c EXCEPT ![j] = d]
    BY <1>20, <1>21, <2>1
  <2> QED BY <1>12, <1>13, <1>16, <1>19, <2>2
<1>23. Connecting(y.h, d) /\ d.server = http.peer
  BY <1>18, <1>20, <1>21 DEF Connecting, Blank, Connection
<1>24. Elsewhere(y.h, y.c)
  <2> SUFFICES ASSUME NEW i \in Conns
               PROVE  /\ i > j => Blank(y.c[i])
                      /\ i <= j /\ i # j => Spent(y.c[i])
    BY <1>18 DEF Elsewhere
  <2>1. CASE i = j
    BY <1>17, <2>1
  <2>2. CASE i = http.sock
    <3>1. y.c[i] = e
      BY <1>11, <1>12, <1>19, <1>22, <2>2, InvParts
    <3>2. ~(i > j)
      BY <1>2, <1>3, <1>17, <2>2
    <3> QED BY <1>4, <3>1, <3>2
  <2>3. CASE i # j /\ i # http.sock
    <3>1. y.c[i] = conn[i]
      BY <1>11, <1>12, <1>22, <2>3, InvParts
    <3>2. i > j => i > http.opened
      BY <1>3 DEF j, Conns
    <3>3. i <= j /\ i # j => i <= http.opened
      BY <1>3 DEF j, Conns
    <3> QED BY <2>3, <3>1, <3>2, <3>3, InvParts DEF Elsewhere
  <2> QED BY <2>1, <2>2, <2>3
<1>25. /\ q.status = "running" /\ q.mpdParsed = player.mpdParsed /\ q.mpdParsed /\ ~q.download /\ q.waits = 0
       /\ Loop(y.h, q) /\ InOrder(q)
  BY <1>1, <1>2, <1>18, InvParts, NextSegmentLoop DEF q
<1>26. Requesting(y.h, y.c, y.p)
  <2>1. j \in 1..j
    BY <1>3, <1>17
  <2> QED BY <1>18, <1>22, <1>23, <1>25, <2>1 DEF Requesting, Stage
<1>27. Good(y)
  BY <1>18, <1>22, <1>24, <1>25, <1>26, InvParts DEF Good
<1>28. HostInv => Hosted(y.h, y.c, y.p)
  BY <1>18, <1>22, <1>23, <1>25 DEF HostInv, Hosted
<1> QED BY <1>1, <1>15, <1>27, <1>28, BecomeGood

\* The next segment is asked for.
LEMMA DownloadSegmentKeeps ==
  ASSUME ClientInv, TypeOK', DownloadSegment
  PROVE  ClientInv' /\ (HostInv => HostInv')
BY DownloadSegmentKept, DownloadSegmentAnew

\* The client starts without a connection.
LEMMA InvInit == Init => ClientInv /\ HostInv
<1> SUFFICES ASSUME Init PROVE ClientInv /\ HostInv
  OBVIOUS
<1>1. TypeOK
  BY TypeInit
<1>2. /\ http.sock = NoSocket /\ http.opened = 0 /\ ~http.finished /\ http.len = 0 /\ http.peer = Cloud
      /\ http.host = Cloud /\ retries = 0 /\ ~crash /\ table = Cloud
  BY DEF Init, Mpd
<1>3. /\ player.status = "new" /\ ~player.mpdParsed /\ player.next = 1 /\ player.buffer = << >>
      /\ player.played = << >> /\ ~player.download /\ player.waits = 0
  BY DEF Init
<1>4. \A k \in Conns : Blank(conn[k])
  BY DEF Init, Blank
<1>5. Shown(player) = 0
  BY <1>3 DEF Shown
<1>6. Elsewhere(http, conn)
  BY <1>2, <1>4 DEF Elsewhere, Conns
<1>7. Requesting(http, conn, player) /\ Loop(http, player)
  BY <1>2, <1>3, <1>5 DEF Requesting, Loop
<1>8. InOrder(player)
  BY <1>5 DEF InOrder
<1>9. Good(Now)
  BY <1>2, <1>6, <1>7, <1>8 DEF Good, Now
<1>10. HostInv
  BY <1>2 DEF HostInv, Hosted
<1> QED BY <1>1, <1>9, <1>10 DEF ClientInv

\* Every step keeps the invariant, unless a connection breaks, the application
\* is stopped or a download is aborted.
LEMMA InvNext ==
  ASSUME ClientInv, [Next]_vars, ~Stop, ~Faults, ~StallAborts
  PROVE  ClientInv' /\ (~EarlyRedirect /\ HostInv => HostInv')
<1>1. TypeOK /\ TypeOK'
  BY TypeNext DEF ClientInv
<1>2. CASE UNCHANGED vars
  <2>1. Good(Now)' <=> Good(Now)
    BY <1>2 DEF vars, Good, Now, Elsewhere, Requesting, Loop, InOrder
  <2>2. HostInv' <=> HostInv
    BY <1>2 DEF vars, HostInv, Hosted
  <2> QED BY <1>1, <2>1, <2>2 DEF ClientInv
<1>3. CASE Start
  BY <1>1, <1>3, StartKeeps
<1>4. CASE Stop
  BY <1>4
<1>5. CASE Network
  <2>1. PICK k \in Conns : \/ ConnectionComplete(k)
                           \/ \E n \in 1..Len(conn[k].s2c) : Receive(k, n)
                           \/ AckFin(k)
                           \/ FinishedIncomingData(k)
                           \/ HandleReadyToTransmit(k)
    BY <1>5 DEF Network
  <2>2. CASE ConnectionComplete(k)
    BY <1>1, <2>2, ConnectionCompleteKeeps
  <2>3. CASE \E n \in 1..Len(conn[k].s2c) : Receive(k, n)
    BY <1>1, <2>3, ReceiveKeeps
  <2>4. CASE AckFin(k)
    BY <1>1, <2>4, AckFinKeeps
  <2>5. CASE FinishedIncomingData(k)
    BY <1>1, <2>5, FinishedIncomingDataKeeps
  <2>6. CASE HandleReadyToTransmit(k)
    BY <1>1, <2>6, HandleReadyToTransmitKeeps
  <2> QED BY <2>1, <2>2, <2>3, <2>4, <2>5, <2>6
<1>6. CASE DownloadedAll
  BY <1>1, <1>6, DownloadedAllKeeps
<1>7. CASE OfferAgain
  BY <1>1, <1>7, OfferAgainKeeps
<1>8. CASE Retry
  BY <1>8, InvParts DEF Retry
<1>9. CASE DownloadSegment
  BY <1>1, <1>9, DownloadSegmentKeeps
<1>10. CASE DownloadIdle
  BY <1>1, <1>10, DownloadIdleKeeps
<1>11. CASE Play
  BY <1>1, <1>11, PlayKeeps
<1>12. CASE PlayedAll
  BY <1>1, <1>12, PlayedAllKeeps
<1>13. CASE Stall
  BY <1>1, <1>13, StallKeeps
<1>14. CASE StallAborts
  BY <1>14
<1>15. CASE Faults
  BY <1>15
<1>16. ASSUME NEW s \in Servers, Redirect(s) PROVE ClientInv' /\ (~EarlyRedirect /\ HostInv => HostInv')
  BY <1>1, <1>16, RedirectKeeps
<1> QED BY <1>2, <1>3, <1>4, <1>5, <1>6, <1>7, <1>8, <1>9, <1>10, <1>11, <1>12, <1>13, <1>14, <1>15, <1>16
        DEF Next, Timers

\* A server holds at most one request of each connection.
LEMMA InvOneRequest == ClientInv => OneRequestAtATime
<1> SUFFICES ASSUME ClientInv, NEW k \in Conns
             PROVE  Len(conn[k].c2s) <= 1 /\ Len(conn[k].recvString) <= 1
  BY DEF OneRequestAtATime
<1>1. /\ Len(<< >>) = 0 /\ \A r : Len(<<r>>) = 1
  OBVIOUS
<1>2. CASE Blank(conn[k])
  <2>1. Len(conn[k].c2s) = 0 /\ Len(conn[k].recvString) = 0
    BY <1>2 DEF Blank
  <2> QED BY <2>1
<1>3. CASE Drained(conn[k])
  <2>1. Len(conn[k].c2s) = 0 /\ Len(conn[k].recvString) <= 1
    BY <1>3 DEF Drained
  <2> QED BY <2>1
<1>4. CASE ~Blank(conn[k]) /\ ~Drained(conn[k])
  <2>1. k = http.sock /\ Stage(http, conn[k])
    BY <1>4, Opened DEF Spent
  <2>2. /\ Len(conn[k].c2s) = 0 \/ Len(conn[k].c2s) = 1
        /\ Len(conn[k].recvString) = 0 \/ Len(conn[k].recvString) = 1
    <3>1. CASE Connecting(http, conn[k])
      BY <1>1, <3>1 DEF Connecting
    <3>2. CASE Asked(http, conn[k])
      BY <1>1, <3>2 DEF Asked
    <3>3. CASE Answering(http, conn[k])
      BY <1>1, <3>3 DEF Answering
    <3>4. CASE Refusing(http, conn[k])
      BY <1>1, <3>4 DEF Refusing
    <3> QED BY <1>4, <2>1, <3>1, <3>2, <3>3, <3>4 DEF Stage, Stuck, Done
  <2>3. \A n : n = 0 \/ n = 1 => n <= 1
    OBVIOUS
  <2> QED BY <2>2, <2>3
<1> QED BY <1>2, <1>3, <1>4

\* The invariant gives the safety properties.
LEMMA InvMeans ==
  ClientInv => ReceivedIsRequested /\ PlaybackInOrder /\ NoDownloadMeanwhile
<1> SUFFICES ASSUME ClientInv
             PROVE  ReceivedIsRequested /\ PlaybackInOrder /\ NoDownloadMeanwhile
  OBVIOUS
<1>1. ReceivedIsRequested
  <2> SUFFICES ASSUME http.finished PROVE \A u \in http.got : u.file = http.file
    BY DEF ReceivedIsRequested
  <2>1. player.status # "new"
    BY InvParts DEF Requesting
  <2>2. Done(http, conn[http.sock])
    BY <2>1, Running DEF Stage, Connecting, Asked, Answering, Refusing, Stuck
  <2> QED BY <2>2 DEF Done
<1>2. PlaybackInOrder
  BY InvParts, OrderMeans
<1>3. NoDownloadMeanwhile
  BY InvParts DEF NoDownloadMeanwhile, Loop
<1> QED BY <1>1, <1>2, <1>3

\* A kept-alive connection leads to the host of the last request.
LEMMA HostMeans == HostInv => KeptAliveToHost
BY DEF HostInv, Hosted, KeptAliveToHost

\* When connections do not break and the application is not stopped, every
\* request goes through its stages in order.
THEOREM ClientInvHolds == ~Faulty /\ ~MayStop /\ ~Layered /\ Spec => []ClientInv
<1>1. CASE ~Faulty /\ ~MayStop /\ ~Layered
  <2>1. Init => ClientInv
    BY InvInit
  <2>2. ~Stop /\ ~Faults /\ ~StallAborts
    BY <1>1 DEF Stop, Faults, ConnectGivenUp, RetransmitExhausted, StallAborts
  <2>3. ClientInv /\ [Next]_vars => ClientInv'
    BY <2>2, InvNext
  <2> QED BY <2>1, <2>3, PTL DEF Spec
<1>2. CASE ~(~Faulty /\ ~MayStop /\ ~Layered)
  BY <1>2
<1> QED BY <1>1, <1>2

-----------------------------------------------------------------------------
(* Timers, in every run: with faults, stops and aborted downloads *)

\* A timer of the player, the receive buffer and the active flag belong to a
\* running player.
Runs(x) ==
  x.p.download \/ x.p.play \/ x.h.buf \/ x.h.active => x.p.status = "running"

\* Callbacks that concern only the connection.
Same(x, y) == y.p = x.p /\ y.h.buf = x.h.buf /\ y.h.active = x.h.active

\* The buffer and the flag are what lets a late packet or a late offer of a
\* segment set a timer, so TimersNeedPlayer is not inductive without them.
RunInv == TypeOK /\ Runs(Now)

\* Sending and connecting do not concern the player.
LEMMA ReadySame ==
  ASSUME NEW x, Typed(x), NEW k \in Conns
  PROVE  Same(x, OnReadySend(x, k))
<1>1. CASE x.h.sentGet
  BY <1>1 DEF OnReadySend, Same
<1>2. CASE ~x.h.sentGet
  <2>1. PICK y : y = OnReadySend(x, k)
    BY SMTT(40)
  <2>2. /\ y.p = x.p
        /\ y.h = [x.h EXCEPT !.sentGet = TRUE, !.host = table,
                             !.peer = IF x.h.host # table THEN table ELSE @,
                             !.keepAlive = ~(x.h.host # table), !.first = TRUE]
    BY <1>2, <2>1, Sending, ZenonT(60)
  <2>3. x.h \in Https
    BY DEF Typed, States
  <2>4. y.h.buf = x.h.buf /\ y.h.active = x.h.active
    BY <2>2, <2>3 DEF Https
  <2> QED BY <2>1, <2>2, <2>4 DEF Same
<1> QED BY <1>1, <1>2

\* A new attempt to connect does not concern the player either.
LEMMA EstablishSame ==
  ASSUME NEW x, Typed(x), x.h.sock <= MaxConns
  PROVE  Same(x, TryEstablishConnection(x))
<1> DEFINE g == [x.h EXCEPT !.sentGet = FALSE, !.finished = FALSE, !.bytes = 0, !.got = {}]
           y == [x EXCEPT !.h.sentGet = FALSE, !.h.finished = FALSE, !.h.bytes = 0, !.h.got = {}]
           k == y.h.opened + 1
<1>1. x \in States /\ x.h \in Https
  BY DEF Typed, States
<1>2. g \in Https /\ g.sock = x.h.sock /\ g.opened = x.h.opened /\ g.buf = x.h.buf /\ g.active = x.h.active
  BY <1>1 DEF Https
<1>3. y = [x EXCEPT !.h = g]
  BY <1>1 DEF States, Https
<1>4. TryEstablishConnection(x) =
        CASE y.h.sock = NoSocket -> OpenSocket(y)
          [] y.h.sock # NoSocket /\ ~y.h.keepAlive -> [y EXCEPT !.c[y.h.sock].closeCb = TRUE]
          [] OTHER -> OnReadySend(y, y.h.sock)
  BY DEF TryEstablishConnection
<1> HIDE DEF y, g, k
<1>5. y.h = g /\ y.p = x.p /\ y \in States
  BY <1>1, <1>2, <1>3 DEF States
<1>6. Same(x, y) /\ Typed(y)
  BY <1>2, <1>5 DEF Same, Typed, Bounded
<1>7. Same(y, OpenSocket(y))
  <2>1. PICK f, c : f = [y.h EXCEPT !.sock = k, !.opened = k]
                    /\ c = [y.c EXCEPT ![k] = [@ EXCEPT !.state = "syn", !.server = y.h.peer, !.closeCb = TRUE]]
    OBVIOUS
  <2>2. OpenSocket(y) = [y EXCEPT !.h = f, !.c = c]
    BY <1>5, <2>1 DEF OpenSocket, States, k
  <2>3. f.buf = y.h.buf /\ f.active = y.h.active
    BY <1>2, <1>5, <2>1 DEF Https
  <2>4. OpenSocket(y).h = f /\ OpenSocket(y).p = y.p
    BY <1>5, <2>2 DEF States
  <2> QED BY <2>3, <2>4 DEF Same
<1>8. Same(y, [y EXCEPT !.c[y.h.sock].closeCb = TRUE])
  BY <1>5 DEF Same, States
<1>9. ASSUME y.h.sock # NoSocket PROVE Same(y, OnReadySend(y, y.h.sock))
  <2>1. y.h.sock \in Conns
    BY <1>2, <1>5, <1>9, Constants DEF Conns, NoSocket, Https
  <2> QED BY <1>6, <2>1, ReadySame
<1>10. Same(y, TryEstablishConnection(x))
  BY <1>4, <1>7, <1>8, <1>9
<1> QED BY <1>6, <1>10 DEF Same

\* StartApplication runs for a running player only.
LEMMA StartRuns ==
  ASSUME NEW x, Typed(x), x.h.sock <= MaxConns, x.p.status = "running"
  PROVE  Runs(StartApplication(x))
<1>1. PICK y : y = [x EXCEPT !.h.buf = TRUE, !.h.active = TRUE]
  OBVIOUS
<1>2. Typed(y) /\ y.h.sock <= MaxConns /\ y.p = x.p
  BY <1>1 DEF Typed, States, Bounded, Https
<1>3. Same(y, StartApplication(x))
  BY <1>1, <1>2, EstablishSame DEF StartApplication
<1> QED BY <1>2, <1>3 DEF Same, Runs

\* StopApplication clears the buffer and the flag.
LEMMA StopRuns ==
  ASSUME NEW x, Typed(x), x.h.sock <= MaxConns
  PROVE  LET y == StopApplication(x) IN y.p = x.p /\ ~y.h.buf /\ ~y.h.active
<1>1. PICK y : y = [x EXCEPT !.h.active = FALSE, !.h.buf = FALSE]
  OBVIOUS
<1>2. Typed(y) /\ y.h.sock <= MaxConns /\ y.p = x.p /\ ~y.h.buf /\ ~y.h.active
  BY <1>1 DEF Typed, States, Bounded, Https
<1>3. StopApplication(x) = IF y.h.sock # NoSocket /\ ~y.h.keepAlive
                             THEN [Close(y, y.h.sock) EXCEPT !.h.sock = NoSocket] ELSE y
  BY <1>1 DEF StopApplication
<1>4. ASSUME y.h.sock # NoSocket
      PROVE  LET z == [Close(y, y.h.sock) EXCEPT !.h.sock = NoSocket] IN ~z.h.buf /\ ~z.h.active
  <2>1. y.h.sock \in Conns
    BY <1>2, <1>4, Constants DEF Typed, States, Https, Conns, NoSocket
  <2>2. PICK z : z = Close(y, y.h.sock)
    OBVIOUS
  <2>3. Typed(z) /\ z.h = y.h
    BY <1>2, <2>1, <2>2, CloseTyped
  <2>4. ~[z EXCEPT !.h.sock = NoSocket].h.buf /\ ~[z EXCEPT !.h.sock = NoSocket].h.active
    BY <1>2, <2>3 DEF Typed, States, Https
  <2> QED BY <2>2, <2>4
<1>5. StopApplication(x).p = x.p
  BY StopTyped
<1> QED BY <1>2, <1>3, <1>4, <1>5

\* A file that arrives sets timers of a running player only.
LEMMA FileRuns ==
  ASSUME NEW x, Typed(x), Runs(x), NEW from \in Servers
  PROVE  /\ Runs(OnMultimediaFile(x))
         /\ x.p.status = "running" => Runs(OnFileReceived(x, from))
<1>1. ASSUME NEW y, Typed(y), Runs(y)
      PROVE  Runs(OnMultimediaFile(y)) /\ OnMultimediaFile(y).p.status = y.p.status
  <2>1. y \in States /\ y.p \in Players
    BY <1>1 DEF Typed, States
  <2>2. CASE ~y.h.active
    BY <1>1, <2>2 DEF OnMultimediaFile
  <2>3. CASE y.h.active /\ Len(y.p.buffer) < BufferCap
    <3>1. y.p.status = "running"
      BY <1>1, <2>3 DEF Runs
    <3>2. PICK q : q = [[y.p EXCEPT !.buffer = Append(@, y.p.segment)] EXCEPT !.download = TRUE]
      OBVIOUS
    <3>3. q.status = y.p.status
      BY <2>1, <3>2 DEF Players
    <3>4. OnMultimediaFile(y) = [y EXCEPT !.p = q]
      BY <2>1, <2>3, <3>2 DEF OnMultimediaFile, ScheduleDownloadOfSegment, States
    <3>5. OnMultimediaFile(y).p = q
      BY <2>1, <3>4 DEF States
    <3> QED BY <3>1, <3>3, <3>5 DEF Runs
  <2>4. CASE y.h.active /\ ~(Len(y.p.buffer) < BufferCap)
    <3>1. y.p.status = "running"
      BY <1>1, <2>4 DEF Runs
    <3>2. PICK q : q = [y.p EXCEPT !.waits = @ + 1]
      OBVIOUS
    <3>3. q.status = y.p.status
      BY <2>1, <3>2 DEF Players
    <3>4. OnMultimediaFile(y) = [y EXCEPT !.p = q]
      BY <2>4, <3>2 DEF OnMultimediaFile
    <3>5. OnMultimediaFile(y).p = q
      BY <2>1, <3>4 DEF States
    <3> QED BY <3>1, <3>3, <3>5 DEF Runs
  <2> QED BY <2>2, <2>3, <2>4
<1>2. ASSUME NEW y, Typed(y), y.p.status = "running" PROVE Runs(OnMpdFile(y, from))
  <2>1. y \in States /\ y.p \in Players /\ y.h \in Https
    BY <1>2 DEF Typed, States
  <2>2. PICK g, q, v : /\ g = [y.h EXCEPT !.peer = from]
                       /\ q = [y.p EXCEPT !.mpdParsed = TRUE, !.play = TRUE]
                       /\ v = [y EXCEPT !.h.peer = from]
    OBVIOUS
  <2>3. q \in Players /\ q.status = "running" /\ [q EXCEPT !.download = TRUE].status = "running"
    BY <1>2, <2>1, <2>2 DEF Players
  <2>4. PICK z : z = [v EXCEPT !.p.mpdParsed = TRUE, !.p.play = TRUE]
    OBVIOUS
  <2>5. z = [y EXCEPT !.h = g, !.p = q] /\ v.p = y.p
    BY <2>1, <2>2, <2>4 DEF States
  <2>6. g \in Https
    BY <2>1, <2>2 DEF Https
  <2>7. z.p = q /\ z \in States
    BY <2>1, <2>3, <2>5, <2>6 DEF States
  <2>8. [z EXCEPT !.p.download = TRUE].p = [q EXCEPT !.download = TRUE]
    BY <2>7 DEF States
  <2>9. OnMpdFile(y, from) \in {y, v, z, [z EXCEPT !.p.download = TRUE]}
    BY <2>2, <2>4 DEF OnMpdFile, ScheduleDownloadOfSegment, ScheduleDownloadOfInitSegment
  <2> QED BY <1>2, <2>3, <2>5, <2>7, <2>8, <2>9 DEF Runs
<1>3. PICK y : y = [x EXCEPT !.h.finished = TRUE]
  OBVIOUS
<1>4. Typed(y) /\ y.p = x.p /\ y.h.buf = x.h.buf /\ y.h.active = x.h.active
  BY <1>3 DEF Typed, States, Bounded, Https
<1>5. Runs(y)
  BY <1>4 DEF Runs
<1>6. OnFileReceived(x, from) = IF y.p.mpdParsed THEN OnMultimediaFile(y) ELSE OnMpdFile(y, from)
  BY <1>3 DEF OnFileReceived
<1> QED BY <1>1, <1>2, <1>4, <1>5, <1>6

\* A packet is read only into the buffer of a running player.
LEMMA ReadRuns ==
  ASSUME NEW x, Typed(x), Runs(x), NEW k \in Conns
  PROVE  Runs(HandleRead(x, k))
<1> DEFINE packet == x.c[k].rx
           parsed == IF x.h.first THEN ParseResponseHeader(packet, x.h.len)
                                  ELSE [where |-> 0, len |-> x.h.len]
           y == [x EXCEPT !.c[k].rx = << >>, !.h.first = FALSE, !.h.len = parsed.len,
                          !.h.bytes = @ + TotalSize(packet) - parsed.where,
                          !.h.got = @ \cup ToSet(packet)]
<1>1. x \in States /\ x.h \in Https /\ x.c[k] \in Connection /\ packet \in Seq(Unit) /\ x.h.len \in Nat
      /\ x.h.bytes \in Nat /\ x.h.got \subseteq Unit /\ << >> \in Seq(Unit)
  BY DEF Typed, States, Https, Connection
<1>2. ASSUME packet # << >>, x.h.buf
      PROVE  Typed(y) /\ Runs(y) /\ y.p.status = "running" /\ Head(packet).from \in Servers
  <2>1. /\ TotalSize(packet) \in Nat \ {0} /\ ToSet(packet) \subseteq Unit /\ Head(packet) \in Unit
        /\ parsed.where \in {0, 1} /\ parsed.len \in Nat
    BY <1>1, <1>2, PacketSize
  <2> DEFINE n == x.h.bytes + TotalSize(packet) - parsed.where
             g == [x.h EXCEPT !.first = FALSE, !.len = parsed.len, !.bytes = n,
                              !.got = x.h.got \cup ToSet(packet)]
             d == [x.c[k] EXCEPT !.rx = << >>]
  <2>2. n \in Nat /\ x.h.got \cup ToSet(packet) \subseteq Unit
    BY <1>1, <2>1
  <2>3. y = [x EXCEPT !.h = g, !.c[k] = d]
    BY ZenonT(60) DEF Typed, States
  <2> HIDE DEF n, parsed, packet, y
  <2>4. g \in Https /\ g.sock = x.h.sock /\ g.opened = x.h.opened
    BY <1>1, <2>1, <2>2 DEF Https
  <2>5. d \in Connection
    BY <1>1 DEF Connection
  <2> HIDE DEF g, d
  <2>6. Typed(y) /\ y.p = x.p
    BY <2>3, <2>4, <2>5 DEF Typed, States, Bounded
  <2>7. x.p.status = "running"
    BY <1>2 DEF Runs
  <2> QED BY <2>1, <2>6, <2>7 DEF Unit, Runs
<1>3. Runs([x EXCEPT !.crash = TRUE])
  BY <1>1 DEF States, Runs
<1>4. HandleRead(x, k) = CASE x.h.finished \/ packet = << >> -> x
       [] ~x.h.finished /\ packet # << >> /\ ~x.h.buf -> [x EXCEPT !.crash = TRUE]
       [] OTHER -> IF y.h.bytes = y.h.len THEN OnFileReceived(y, Head(packet).from) ELSE y
  BY DEF HandleRead
<1> HIDE DEF y, packet
<1> QED BY <1>2, <1>3, <1>4, FileRuns

\* The end of a chain of callbacks.
LEMMA BecomeRuns ==
  ASSUME NEW x, Become(x), Runs(x)
  PROVE  Runs(Now)'
<1>1. http' = x.h /\ player' = x.p
  BY DEF Become
<1>2. Runs(Now)' <=>
        (player'.download \/ player'.play \/ http'.buf \/ http'.active => player'.status = "running")
  BY DEF Runs, Now
<1> QED BY <1>1, <1>2 DEF Runs

\* Every step keeps it, whatever may fail or be stopped.
LEMMA RunNext == RunInv /\ [Next]_vars => RunInv'
<1> SUFFICES ASSUME RunInv, [Next]_vars PROVE RunInv'
  OBVIOUS
<1>1. TypeOK /\ TypeOK' /\ Runs(Now)
  BY TypeNext DEF RunInv
<1> SUFFICES Runs(Now)'
  BY <1>1 DEF RunInv
<1>2. /\ Typed(Now) /\ Now \in States /\ http.sock <= MaxConns /\ table \in Servers
      /\ http \in Https /\ conn \in [Conns -> Connection] /\ player \in Players
      /\ Now.h = http /\ Now.c = conn /\ Now.p = player /\ Now.r = retries /\ Now.crash = crash
  BY <1>1, TypeParts DEF Typed, Bounded, Now, States
<1>3. player.download \/ player.play \/ http.buf \/ http.active => player.status = "running"
  BY <1>1, <1>2 DEF Runs
<1>4. ASSUME UNCHANGED <<http, player>> PROVE Runs(Now)'
  <2>1. Runs(Now)' <=>
          (player'.download \/ player'.play \/ http'.buf \/ http'.active => player'.status = "running")
    BY DEF Runs, Now
  <2> QED BY <1>3, <1>4, <2>1
<1>5. ASSUME NEW y, Become(y), Same(Now, y) PROVE Runs(Now)'
  <2>1. Runs(y)
    BY <1>1, <1>5 DEF Same, Runs
  <2> QED BY <1>5, <2>1, BecomeRuns
<1>6. ASSUME NEW k \in Conns, NEW d \in Connection
      PROVE  /\ Typed([Now EXCEPT !.c[k] = d]) /\ Same(Now, [Now EXCEPT !.c[k] = d])
             /\ [Now EXCEPT !.c[k] = d].h = http /\ Runs([Now EXCEPT !.c[k] = d])
  <2>1. /\ Typed([Now EXCEPT !.c[k] = d]) /\ [Now EXCEPT !.c[k] = d].h = http
        /\ [Now EXCEPT !.c[k] = d].p = player
    BY <1>2, <1>6 DEF Typed, States
  <2> QED BY <1>2, <1>3, <2>1 DEF Same, Runs
<1>7. CASE Start
  <2>1. PICK x : x = [Now EXCEPT !.h.host = table, !.h.peer = table, !.h.file = Mpd,
                                 !.h.keepAlive = TRUE, !.p.status = "running"]
    OBVIOUS
  <2>2. Typed(x) /\ x.h.sock <= MaxConns /\ x.p.status = "running"
    BY <1>2, <2>1, Constants, ZenonT(60) DEF Typed, States, Bounded, Https, Players
  <2>3. Become(StartApplication(x))
    BY <1>7, <2>1 DEF Start
  <2> QED BY <2>2, <2>3, StartRuns, BecomeRuns
<1>8. CASE Stop
  <2>1. PICK x : x = [Now EXCEPT !.p.download = FALSE, !.p.play = FALSE,
                                 !.p.status = "stopped", !.h.keepAlive = FALSE]
    OBVIOUS
  <2>2. Typed(x) /\ x.h.sock <= MaxConns /\ ~x.p.download /\ ~x.p.play
    BY <1>2, <2>1, ZenonT(60) DEF Typed, States, Bounded, Https, Players
  <2>3. Become(StopApplication(ForceCloseSocket(x)))
    BY <1>8, <2>1 DEF Stop
  <2>4. PICK y : y = ForceCloseSocket(x)
    OBVIOUS
  <2>5. Typed(y) /\ y.h.sock <= MaxConns /\ y.p = x.p
    BY <2>2, <2>4, StopTyped
  <2>6. Runs(StopApplication(y))
    BY <2>2, <2>5, StopRuns DEF Runs
  <2> QED BY <2>3, <2>4, <2>6, BecomeRuns
<1>9. ASSUME NEW k \in Conns, ConnectionComplete(k) PROVE Runs(Now)'
  <2>1. PICK d : d = [conn[k] EXCEPT !.state = IF @ = "syn" THEN "est" ELSE "finwait"]
    OBVIOUS
  <2>2. d \in Connection
    <3>1. conn[k] \in Connection
      BY <1>2
    <3> QED BY <2>1, <3>1 DEF Connection
  <2>3. [Now EXCEPT !.c[k].state = IF @ = "syn" THEN "est" ELSE "finwait"] = [Now EXCEPT !.c[k] = d]
    BY <1>2, <2>1 DEF States
  <2>4. Become(OnReadySend([Now EXCEPT !.c[k] = d], k))
    BY <1>9, <2>3 DEF ConnectionComplete
  <2>5. Same(Now, OnReadySend([Now EXCEPT !.c[k] = d], k))
    BY <1>6, <2>2, ReadySame, ZenonT(60) DEF Same
  <2> QED BY <1>5, <2>4, <2>5
<1>10. ASSUME NEW k \in Conns, ConnectGivenUp(k) PROVE Runs(Now)'
  <2>1. Become(Unanswered(Now, k))
    BY <1>10 DEF ConnectGivenUp, Unanswered
  <2>2. Same(Now, Unanswered(Now, k))
    BY <1>2, UnansweredTyped DEF Same
  <2> QED BY <1>5, <2>1, <2>2
<1>11. ASSUME NEW k \in Conns, RetransmitExhausted(k) PROVE Runs(Now)'
  <2>1. Become(Abort(Now, k))
    BY <1>11 DEF RetransmitExhausted
  <2>2. Same(Now, Abort(Now, k))
    BY <1>2, CloseTyped DEF Same
  <2> QED BY <1>5, <2>1, <2>2
<1>12. CASE Retry
  <2>1. PICK x : x = [Now EXCEPT !.r = @ - 1]
    OBVIOUS
  <2>2. Typed(x) /\ x.h = http /\ x.p = player
    BY <1>2, <1>12, <2>1 DEF Retry, Typed, States
  <2>3. Become(TryEstablishConnection(x))
    BY <1>12, <2>1 DEF Retry
  <2>4. Same(Now, TryEstablishConnection(x))
    BY <1>2, <2>2, EstablishSame DEF Same
  <2> QED BY <1>5, <2>3, <2>4
<1>13. ASSUME NEW k \in Conns, NEW n \in 1..Len(conn[k].s2c), Receive(k, n) PROVE Runs(Now)'
  <2> DEFINE units == SubSeq(conn[k].s2c, 1, n)
             rest == SubSeq(conn[k].s2c, n + 1, Len(conn[k].s2c))
             fin == Last(units).type = "FIN"
             data == IF fin THEN Front(units) ELSE units
             d == [Now.c[k] EXCEPT !.s2c = rest, !.rx = conn[k].rx \o data, !.acked = conn[k].served]
             x == HandleRead([Now EXCEPT !.c[k] = d], k)
  <2>1. conn[k] \in Connection /\ conn[k].s2c \in Seq(Unit) /\ conn[k].rx \in Seq(Unit)
    BY <1>2 DEF Connection
  <2>2. units \in Seq(Unit) /\ Len(units) = n /\ rest \in Seq(Unit)
    BY <2>1
  <2>3. Front(units) \in Seq(Unit)
    BY <2>2 DEF Front
  <2>4. conn[k].rx \o data \in Seq(Unit)
    BY <2>1, <2>2, <2>3
  <2>5. Become(IF fin /\ ~x.crash THEN ConnectionClosedNormal(x, k) ELSE x)
    BY <1>13 DEF Receive
  <2> HIDE DEF units, rest, fin, data
  <2>6. d \in Connection
    BY <1>2, <2>1, <2>2, <2>4 DEF Connection
  <2> HIDE DEF d
  <2>7. Typed([Now EXCEPT !.c[k] = d]) /\ Runs([Now EXCEPT !.c[k] = d])
    BY <1>6, <2>6
  <2>8. Typed(x) /\ Runs(x)
    BY <2>7, ReadTyped, ReadRuns
  <2> HIDE DEF x
  <2>9. PICK y : y = Close(x, k)
    OBVIOUS
  <2>10. Typed(y) /\ y.h = x.h /\ y.p = x.p
    BY <2>8, <2>9, CloseTyped
  <2>11. ConnectionClosedNormal(x, k).h = x.h /\ ConnectionClosedNormal(x, k).p = x.p
    BY <2>9, <2>10 DEF ConnectionClosedNormal, Typed, States
  <2>12. Runs(ConnectionClosedNormal(x, k))
    BY <2>8, <2>11 DEF Runs
  <2> QED BY <2>5, <2>8, <2>12, BecomeRuns
<1>14. ASSUME NEW k \in Conns, AckFin(k) PROVE Runs(Now)'
  <2> DEFINE d == [conn[k] EXCEPT !.state = "finwait2", !.served = FALSE, !.left = << >>, !.acked = FALSE]
  <2>1. conn[k] \in Connection /\ << >> \in Seq(Unit)
    BY <1>2
  <2>2. d \in Connection
    BY <2>1 DEF Connection
  <2>3. Become(OnReadySend([Now EXCEPT !.c[k] = d], k))
    BY <1>2, <1>14 DEF AckFin
  <2> HIDE DEF d
  <2>4. Same(Now, OnReadySend([Now EXCEPT !.c[k] = d], k))
    BY <1>6, <2>2, ReadySame, ZenonT(60) DEF Same
  <2> QED BY <1>5, <2>3, <2>4
<1>15. ASSUME NEW k \in Conns, FinishedIncomingData(k) \/ HandleReadyToTransmit(k) PROVE Runs(Now)'
  <2>1. \E d : Become([Now EXCEPT !.c[k] = d])
    BY <1>15 DEF FinishedIncomingData, HandleReadyToTransmit
  <2>2. PICK d : Become([Now EXCEPT !.c[k] = d])
    BY <2>1
  <2>3. Same(Now, [Now EXCEPT !.c[k] = d])
    BY <1>2 DEF Same, States
  <2> QED BY <1>5, <2>2, <2>3
<1>16. CASE DownloadSegment
  <2>1. PICK y : y = StopApplication(Now)
    OBVIOUS
  <2>2. Typed(y) /\ y \in States /\ y.h.sock <= MaxConns /\ y.p = player
    BY <1>2, <2>1, StopTyped DEF Typed
  <2>3. player.next \in 1..NumSegments /\ player.next \in Files /\ player.next + 1 \in 1..(NumSegments + 1)
    BY <1>2, <1>16, Constants DEF DownloadSegment, Players, Files
  <2>4. PICK g, q : g = [y.h EXCEPT !.file = player.next] /\ q = NextSegment(player)
    OBVIOUS
  <2>5. PICK x : x = [h |-> g, c |-> y.c, p |-> q, r |-> y.r, crash |-> y.crash]
    OBVIOUS
  <2>6. Become(StartApplication(x))
    <3>1. Become(StartApplication([y EXCEPT !.p.download = FALSE, !.p.segment = player.next,
                                            !.p.next = @ + 1, !.h.file = player.next]))
      BY <1>16, <2>1 DEF DownloadSegment
    <3> QED BY <2>2, <2>3, <2>4, <2>5, <3>1, Renewing
  <2>7. q \in Players /\ q.status = player.status
    BY <1>2, <2>3, <2>4, ZenonT(60) DEF NextSegment, Players
  <2>8. g \in Https /\ g.sock = y.h.sock /\ g.opened = y.h.opened
    BY <2>2, <2>3, <2>4 DEF States, Https
  <2>9. Typed(x) /\ x.h.sock <= MaxConns /\ x.p.status = player.status
    BY <2>2, <2>5, <2>7, <2>8 DEF Typed, States, Bounded
  <2>10. player.status = "running"
    BY <1>3, <1>16 DEF DownloadSegment
  <2> QED BY <2>6, <2>9, <2>10, StartRuns, BecomeRuns
<1>17. ASSUME NEW x, NEW q, x.p = q, x.h = http, q.status = player.status,
              q.download => player.download, q.play => player.play
       PROVE  Runs(x)
  BY <1>3, <1>17 DEF Runs
<1>18. CASE DownloadIdle
  <2>1. PICK q, x : q = [player EXCEPT !.segment = 0] /\ x = [Now EXCEPT !.p.segment = 0]
    OBVIOUS
  <2>2. q.status = player.status /\ q.download = player.download /\ q.play = player.play
    BY <1>2, <2>1 DEF Players
  <2>3. x.p = q /\ x.h = http
    BY <1>2, <2>1 DEF States
  <2> QED BY <1>17, <1>18, <2>1, <2>2, <2>3, BecomeRuns DEF DownloadIdle
<1>19. CASE DownloadedAll
  <2>1. PICK q, x : /\ q = [player EXCEPT !.download = FALSE, !.segment = 0, !.allDownloaded = TRUE]
                    /\ x = [Now EXCEPT !.p.download = FALSE, !.p.segment = 0, !.p.allDownloaded = TRUE]
    OBVIOUS
  <2>2. q.status = player.status /\ ~q.download /\ q.play = player.play
    BY <1>2, <2>1 DEF Players
  <2>3. q \in Players
    BY <1>2, <2>1, Constants DEF Players, Mpd
  <2>4. x = [Now EXCEPT !.p = q]
    BY <1>2, <2>1 DEF States
  <2>5. x.p = q /\ x.h = http /\ Typed(x)
    BY <1>2, <2>3, <2>4 DEF States, Typed
  <2>6. PICK y : y = ForceCloseSocket(x)
    OBVIOUS
  <2>7. y.p = q /\ y.h = http
    BY <1>2, <2>5, <2>6, StopTyped
  <2>8. Become(y)
    BY <1>19, <2>1, <2>6 DEF DownloadedAll
  <2> QED BY <1>17, <2>2, <2>7, <2>8, BecomeRuns
<1>20. CASE OfferAgain
  <2>1. PICK q, x : q = [player EXCEPT !.waits = @ - 1] /\ x = [Now EXCEPT !.p.waits = @ - 1]
    OBVIOUS
  <2>2. q.status = player.status /\ q.download = player.download /\ q.play = player.play
    BY <1>2, <2>1 DEF Players
  <2>3. q \in Players
    <3>1. player.waits > 0 /\ player.waits \in Nat
      BY <1>2, <1>20 DEF OfferAgain, Players
    <3>2. player.waits - 1 \in Nat
      BY <3>1
    <3> QED BY <1>2, <2>1, <3>2 DEF Players
  <2>4. x.p = q /\ x.h = http /\ Typed(x)
    BY <1>2, <2>1, <2>3 DEF States, Typed
  <2>5. Become(OnMultimediaFile(x))
    BY <1>20, <2>1 DEF OfferAgain
  <2>6. Runs(x)
    BY <1>17, <2>2, <2>4
  <2> QED BY <2>4, <2>5, <2>6, Constants, FileRuns, BecomeRuns
<1>21. CASE Play
  <2>1. PICK q, x : /\ q = [player EXCEPT !.buffer = Tail(@), !.played = Append(@, Head(player.buffer)),
                                          !.started = TRUE, !.frozen = @ /\ ~player.started]
                    /\ x = [Now EXCEPT !.p.buffer = Tail(@), !.p.played = Append(@, Head(player.buffer)),
                                       !.p.started = TRUE, !.p.frozen = @ /\ ~player.started]
    OBVIOUS
  <2>2. q.status = player.status /\ q.download = player.download /\ q.play = player.play
    BY <1>2, <2>1 DEF Players
  <2>3. x.p = q /\ x.h = http
    BY <1>2, <2>1 DEF States
  <2> QED BY <1>17, <1>21, <2>1, <2>2, <2>3, BecomeRuns DEF Play
<1>22. CASE PlayedAll
  <2>1. PICK q, x : q = [player EXCEPT !.play = FALSE] /\ x = [Now EXCEPT !.p.play = FALSE]
    OBVIOUS
  <2>2. q.status = player.status /\ q.download = player.download /\ ~q.play
    BY <1>2, <2>1 DEF Players
  <2>3. x.p = q /\ x.h = http
    BY <1>2, <2>1 DEF States
  <2> QED BY <1>17, <1>22, <2>1, <2>2, <2>3, BecomeRuns DEF PlayedAll
<1>23. PICK q, x : q = [player EXCEPT !.frozen = @ \/ player.started] /\ x = [Now EXCEPT !.p.frozen = @ \/ player.started]
  OBVIOUS
<1>24. /\ q \in Players /\ q.status = player.status /\ q.download = player.download /\ q.play = player.play
       /\ x.p = q /\ x.h = http /\ Typed(x)
  <2>1. q \in Players /\ q.status = player.status /\ q.download = player.download /\ q.play = player.play
    BY <1>2, <1>23, ZenonT(60) DEF Players
  <2> QED BY <1>2, <1>23, <2>1 DEF States, Typed
<1>25. CASE Stall
  BY <1>17, <1>23, <1>24, <1>25, BecomeRuns DEF Stall
<1>26. CASE StallAborts
  <2>1. player.status = "running" /\ Become(ScheduleDownloadOfSegment(StopApplication(x)))
    BY <1>3, <1>23, <1>26 DEF StallAborts
  <2>2. PICK y : y = StopApplication(x)
    OBVIOUS
  <2>3. Typed(y) /\ y.p = q
    <3>1. x.h.sock <= MaxConns
      BY <1>2, <1>24
    <3> QED BY <1>24, <2>2, <3>1, StopTyped
  <2>4. ScheduleDownloadOfSegment(y).p.status = "running"
    BY <1>24, <2>1, <2>3 DEF ScheduleDownloadOfSegment, Typed, States, Players
  <2>5. Runs(ScheduleDownloadOfSegment(y))
    BY <2>4 DEF Runs
  <2> QED BY <2>1, <2>2, <2>5, BecomeRuns
<1>27. ASSUME NEW s \in Servers, Redirect(s) PROVE Runs(Now)'
  BY <1>4, <1>27 DEF Redirect
<1>28. CASE UNCHANGED vars
  BY <1>4, <1>28 DEF vars
<1> QED BY <1>7, <1>8, <1>9, <1>10, <1>11, <1>12, <1>13, <1>14, <1>15, <1>16, <1>18, <1>19, <1>20,
           <1>21, <1>22, <1>25, <1>26, <1>27, <1>28 DEF Next, Network, Timers, Faults

\* A timer of the consumer never fires after its player was deleted, whatever
\* fails, is stopped or is aborted.
THEOREM TimersNeedPlayerHolds == Spec => []TimersNeedPlayer
<1>1. Init => RunInv
  <2> SUFFICES ASSUME Init PROVE Runs(Now)
    BY TypeInit DEF RunInv
  <2>1. ~player.download /\ ~player.play /\ ~http.buf /\ ~http.active
    BY DEF Init
  <2> QED BY <2>1 DEF Runs, Now
<1>2. RunInv => TimersNeedPlayer
  BY DEF RunInv, Runs, Now, TimersNeedPlayer
<1> QED BY <1>1, <1>2, RunNext, PTL DEF Spec
=============================================================================
