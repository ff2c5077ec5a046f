----------------------- MODULE DashClientFaultProofs -----------------------
(***************************************************************************)
(* Proofs about DashClient when connections fail and the application is    *)
(* stopped.                                                                *)
(*                                                                         *)
(* A fault or a stop takes the client out of the stages of ClientInv, and  *)
(* never back.  After a fault, unanswered SYNs or a request sent too often,*)
(* it is Broken: the current socket is dead, the retry that follows finds  *)
(* a socket and opens none, and so no further file arrives.  After a stop  *)
(* it is Halted: no timer is set and the receive buffer is gone, so nothing*)
(* that arrives on the connections left open, or on one opened by a late   *)
(* retry, reaches the player.  FaultInv says that the client is always in  *)
(* one of these phases.                                                    *)
(***************************************************************************)
EXTENDS DashClientProofs

\* A connection on which no second request can be sent before the first one is
\* forgotten.
AtMostOne(c) ==
  /\ Len(c.c2s) <= 1 /\ Len(c.recvString) <= 1 /\ c.state # "synfin"
  /\ c.state = "syn" => c.c2s = << >> /\ c.recvString = << >>
  /\ c.served /\ c.c2s # << >> /\ c.recvString # << >> => c.acked /\ c.left = << >>

\* A socket that is dead.
Useless(c) ==
  /\ c.state = "dead" /\ c.c2s = << >> /\ c.rx = << >> /\ Len(c.recvString) <= 1
  /\ c.served => ~c.acked

\* After a fault: the current socket is useless and a file is still missing.
Broken(x) ==
  /\ Faulty /\ ~x.crash /\ x.r <= 1 /\ x.p.status = "running"
  /\ x.h.sock \in 1..x.h.opened /\ Useless(x.c[x.h.sock]) /\ ~x.h.finished
  /\ Elsewhere(x.h, x.c) /\ Loop(x.h, x.p) /\ InOrder(x.p)

\* After a stop: the player.
Silent(h, p) ==
  /\ p.status = "stopped" /\ ~p.download /\ ~p.play /\ ~h.active /\ ~h.buf /\ InOrder(p)
  /\ h.finished => \A u \in h.got : u.file = h.file

\* The client has closed and its request is not acknowledged: if it never is,
\* an error is reported after all.
Pending(c) == c.state = "finwait" /\ c.c2s # << >>

\* After a stop: connection k.  Only one that was opened by a retry may still be
\* open; data can be left unread only when reading it has crashed, and is under
\* way only if no file has been received; a request can be pending only as long
\* as there has been no retry.
Remnant(x, k, c) ==
  /\ AtMostOne(c)
  /\ k # x.h.sock => c.state \notin {"syn", "synfin", "est"}
  /\ x.crash \/ c.rx = << >>
  /\ x.h.finished => Drained(c)
  /\ Pending(c) => x.r = 0 /\ x.h.sock = NoSocket

Leftover(x) ==
  /\ x.h.sock \in 0..x.h.opened
  /\ \A k \in Conns : /\ Remnant(x, k, x.c[k])
                      /\ k > x.h.opened => Blank(x.c[k])
                      /\ Pending(x.c[k]) => \A j \in Conns : Pending(x.c[j]) => j = k

\* After a stop: the connection a retry has opened.
Reopened(x) ==
  x.h.sock # NoSocket =>
    ~x.h.finished /\ (x.r = 0 \/ (Faulty /\ x.c[x.h.sock].state = "dead"))

Halted(x) ==
  /\ MayStop /\ x.r <= 1
  /\ Silent(x.h, x.p) /\ Leftover(x) /\ Reopened(x)

FaultInv == TypeOK /\ (Good(Now) \/ Broken(Now) \/ Halted(Now))

-----------------------------------------------------------------------------
(* States and callbacks, in every phase *)

\* The types.
LEMMA StateParts ==
  ASSUME TypeOK
  PROVE  /\ Typed(Now) /\ Now \in States /\ http.sock <= MaxConns /\ http.opened <= MaxConns
         /\ Now.h = http /\ Now.c = conn /\ Now.p = player /\ Now.r = retries /\ Now.crash = crash
         /\ http \in Https /\ conn \in [Conns -> Connection] /\ player \in Players
         /\ table \in Servers /\ retries \in Nat /\ crash \in BOOLEAN
         /\ http.sock \in Nat /\ http.opened \in Nat
<1>1. Now.h = http /\ Now.c = conn /\ Now.p = player /\ Now.r = retries /\ Now.crash = crash
  BY DEF Now
<1>2. Now \in States /\ http.sock <= MaxConns /\ http.opened <= MaxConns /\ table \in Servers
  BY TypeParts
<1>3. /\ http \in Https /\ conn \in [Conns -> Connection] /\ player \in Players
      /\ retries \in Nat /\ crash \in BOOLEAN
  BY <1>1, <1>2 DEF States
<1>4. http.sock \in Nat /\ http.opened \in Nat
  BY <1>3 DEF Https
<1> QED BY <1>1, <1>2, <1>3, <1>4 DEF Typed, Bounded

\* A chain of callbacks that ends in a broken or a halted state.
LEMMA BecomePhase ==
  ASSUME NEW x, Become(x)
  PROVE  /\ Broken(x) => Broken(Now)'
         /\ Halted(x) => Halted(Now)'
         /\ Hosted(x.h, x.c, x.p) => HostInv'
<1>1. /\ http' = x.h /\ conn' = x.c /\ player' = x.p /\ retries' = x.r /\ crash' = x.crash
      /\ table' = table
  BY DEF Become
<1>2. Broken(Now)' <=>
        /\ Faulty /\ ~crash' /\ retries' <= 1 /\ player'.status = "running"
        /\ http'.sock \in 1..http'.opened /\ Useless(conn'[http'.sock]) /\ ~http'.finished
        /\ Elsewhere(http', conn') /\ Loop(http', player') /\ InOrder(player')
  BY DEF Broken, Now
<1>3. PICK y : y = Now'
  OBVIOUS
<1>7. y.h = x.h /\ y.c = x.c /\ y.p = x.p /\ y.r = x.r /\ y.crash = x.crash
  BY <1>1, <1>3 DEF Now
<1>8. Halted(x) => Halted(y)
  BY <1>7 DEF Halted, Leftover, Remnant, Reopened
<1>4. Broken(x) => Broken(Now)'
  BY <1>1, <1>2 DEF Broken
<1>5. Halted(x) => Halted(Now)'
  BY <1>3, <1>8
<1>6. Hosted(x.h, x.c, x.p) => HostInv'
  BY <1>1 DEF HostInv, Hosted
<1> QED BY <1>4, <1>5, <1>6

\* A step that leaves the client alone.
LEMMA PhaseStays ==
  ASSUME UNCHANGED <<http, conn, player, retries, crash>>
  PROVE  (Broken(Now) => Broken(Now)') /\ (Halted(Now) => Halted(Now)')
<1>1. Now' = Now
  BY DEF Now
<1>2. PICK y : y = Now
  OBVIOUS
<1>3. Now' = y
  BY <1>1, <1>2
<1> QED BY <1>2, <1>3

\* What the send callback changes: the request, and on an open connection a GET
\* is sent, unless it was before.
Requests(x, y, k) ==
  /\ y.p = x.p /\ y.r = x.r /\ y.crash = x.crash
  /\ y.h.sock = x.h.sock /\ y.h.opened = x.h.opened /\ y.h.active = x.h.active
  /\ y.h.buf = x.h.buf /\ y.h.finished = x.h.finished /\ y.h.got = x.h.got /\ y.h.file = x.h.file
  /\ \/ y.c = x.c
     \/ /\ x.c[k].state \in {"syn", "synfin", "est"}
        /\ \E m \in Request : y.c = [x.c EXCEPT ![k] = [x.c[k] EXCEPT !.c2s = Append(@, m)]]
  /\ Hosted(x.h, x.c, x.p) => Hosted(y.h, x.c, x.p)

\* And nothing else.
LEMMA ReadyEffect ==
  ASSUME NEW x, Typed(x), NEW k \in Conns, table \in Servers
  PROVE  Requests(x, OnReadySend(x, k), k)
<1>1. CASE x.h.sentGet
  <2>1. OnReadySend(x, k) = x
    BY <1>1 DEF OnReadySend
  <2> QED BY <2>1 DEF Requests
<1>2. CASE ~x.h.sentGet
  <2>1. PICK y : y = OnReadySend(x, k)
    OBVIOUS
  <2>2. /\ y.p = x.p /\ y.r = x.r /\ y.crash = x.crash
        /\ y.h = [x.h EXCEPT !.sentGet = TRUE, !.host = table,
                             !.peer = IF x.h.host # table THEN table ELSE @,
                             !.keepAlive = ~(x.h.host # table), !.first = TRUE]
        /\ y.c = IF x.c[k].state \in {"syn", "synfin", "est"}
                   THEN [x.c EXCEPT ![k] = [x.c[k] EXCEPT !.c2s = Append(@, Get(y.h))]] ELSE x.c
    BY <1>2, <2>1, Sending, ZenonT(60)
  <2>3. x.h \in Https
    BY DEF Typed, States
  <2>4. Asks(x.h, y.h)
    BY <2>2, <2>3 DEF Asks, Https
  <2>5. y.h \in Https
    BY <2>2, <2>3, ZenonT(60) DEF Https
  <2>6. Get(y.h) \in Request
    BY <2>5 DEF Get, Request, Https
  <2>7. Hosted(x.h, x.c, x.p) => Hosted(y.h, x.c, x.p)
    BY <1>2, <2>4 DEF Hosted, Asks
  <2>8. \/ y.c = x.c
        \/ /\ x.c[k].state \in {"syn", "synfin", "est"}
           /\ \E m \in Request : y.c = [x.c EXCEPT ![k] = [x.c[k] EXCEPT !.c2s = Append(@, m)]]
    BY <2>2, <2>6
  <2>9. Requests(x, y, k)
    BY <2>2, <2>4, <2>7, <2>8, ZenonT(60) DEF Asks, Requests
  <2> QED BY <2>1, <2>9
<1> QED BY <1>1, <1>2

\* Resetting a connection.
LEMMA AbortEffect ==
  ASSUME NEW x, Typed(x), NEW k \in Conns
  PROVE  LET y == Abort(x, k) IN
         /\ y.h = x.h /\ y.p = x.p /\ y.crash = x.crash /\ y.r \in {x.r, x.r + 1}
         /\ \E d \in Connection :
              /\ y.c = [x.c EXCEPT ![k] = d]
              /\ d.state = "dead" /\ d.c2s = << >> /\ ~d.served /\ d.recvString = x.c[k].recvString
              /\ d.server = x.c[k].server /\ d.rx = x.c[k].rx
<1>1. x \in States /\ x.c \in [Conns -> Connection] /\ x.c[k] \in Connection
  BY DEF Typed, States
<1>2. PICK e : e = [x.c[k] EXCEPT !.state = "dead", !.c2s = << >>, !.s2c = << >>,
                                  !.left = << >>, !.served = FALSE]
  OBVIOUS
<1>3. /\ e \in Connection /\ e.state = "dead" /\ e.c2s = << >> /\ ~e.served
      /\ e.recvString = x.c[k].recvString /\ e.server = x.c[k].server /\ e.rx = x.c[k].rx
  <2>1. << >> \in Seq(Request) /\ << >> \in Seq(Unit)
    OBVIOUS
  <2> QED BY <1>1, <1>2, <2>1 DEF Connection
<1>4. PICK z : z = [x EXCEPT !.c[k] = e]
  OBVIOUS
<1>5. /\ z \in States /\ z.h = x.h /\ z.p = x.p /\ z.crash = x.crash /\ z.r = x.r /\ z.c = [x.c EXCEPT ![k] = e]
      /\ z.c[k] = e
  BY <1>1, <1>3, <1>4 DEF States
<1>6. Abort(x, k) = ConnectionClosedError(z, k)
  BY <1>2, <1>4 DEF Abort
<1>7. CASE ~e.closeCb
  <2>1. Abort(x, k) = z
    BY <1>5, <1>6, <1>7 DEF ConnectionClosedError
  <2> QED BY <1>3, <1>5, <2>1
<1>8. CASE e.closeCb
  <2>1. PICK d : d = [e EXCEPT !.closeCb = FALSE]
    OBVIOUS
  <2>2. /\ d \in Connection /\ d.state = "dead" /\ d.c2s = << >> /\ ~d.served
        /\ d.recvString = x.c[k].recvString /\ d.server = x.c[k].server /\ d.rx = x.c[k].rx
    BY <1>3, <2>1 DEF Connection
  <2>3. PICK y : y = Abort(x, k)
    OBVIOUS
  <2>4. y = [z EXCEPT !.c[k].closeCb = FALSE, !.r = z.r + 1]
    BY <1>5, <1>6, <1>8, <2>3 DEF ConnectionClosedError
  <2>5. y.h = z.h /\ y.p = z.p /\ y.crash = z.crash /\ y.r = z.r + 1 /\ y.c = [z.c EXCEPT ![k] = d]
    BY <1>5, <2>1, <2>4 DEF States
  <2>6. y.c = [x.c EXCEPT ![k] = d]
    BY <1>1, <1>5, <2>5
  <2> QED BY <1>5, <2>2, <2>3, <2>5, <2>6
<1> QED BY <1>7, <1>8

\* Closing a connection: it is not open any more, and a retry is scheduled only
\* if it was being opened.
LEMMA CloseEffect ==
  ASSUME NEW x, Typed(x), NEW k \in Conns, AtMostOne(x.c[k]), x.c[k].rx = << >>
  PROVE  LET y == Close(x, k) IN
         /\ y.h = x.h /\ y.p = x.p /\ y.crash = x.crash /\ y.r \in {x.r, x.r + 1}
         /\ x.c[k].state # "syn" => y.r = x.r
         /\ \E d \in Connection :
              /\ y.c = [x.c EXCEPT ![k] = d] /\ d.state \notin {"syn", "synfin", "est"}
              /\ AtMostOne(d) /\ d.rx = << >>
              /\ x.c[k].state = "syn" => ~Pending(d)
              /\ x.c[k].state # "syn" /\ Drained(x.c[k]) => Drained(d)
<1>1. x \in States /\ x.c \in [Conns -> Connection] /\ x.c[k] \in Connection /\ x.r \in Nat
  BY DEF Typed, States
<1>2. CASE x.c[k].state = "syn"
  <2>1. Close(x, k) = Abort(x, k)
    BY <1>2 DEF Close, AtMostOne
  <2>2. PICK y : y = Abort(x, k)
    OBVIOUS
  <2>3. /\ y.h = x.h /\ y.p = x.p /\ y.crash = x.crash /\ y.r \in {x.r, x.r + 1}
        /\ \E d \in Connection :
              /\ y.c = [x.c EXCEPT ![k] = d]
              /\ d.state = "dead" /\ d.c2s = << >> /\ ~d.served /\ d.recvString = x.c[k].recvString
              /\ d.server = x.c[k].server /\ d.rx = x.c[k].rx
    <3>1. Typed(x) /\ k \in Conns
      OBVIOUS
    <3> QED BY ONLY <2>2, <3>1, AbortEffect
  <2>4. PICK d \in Connection :
              /\ y.c = [x.c EXCEPT ![k] = d]
              /\ d.state = "dead" /\ d.c2s = << >> /\ ~d.served /\ d.recvString = x.c[k].recvString
              /\ d.server = x.c[k].server /\ d.rx = x.c[k].rx
    BY <2>3
  <2>5. AtMostOne(d)
    BY <2>4 DEF AtMostOne
  <2>6. d.state \notin {"syn", "synfin", "est"} /\ ~Pending(d) /\ d.rx = << >>
    BY <2>4 DEF Pending
  <2> QED BY <1>2, <2>1, <2>2, <2>3, <2>4, <2>5, <2>6
<1>3. CASE x.c[k].state # "syn"
  <2>1. PICK y : y = Close(x, k)
    OBVIOUS
  <2>2. /\ y.h = x.h /\ y.p = x.p /\ y.r = x.r /\ y.crash = x.crash
        /\ y.c = IF x.c[k].state = "est" THEN [x.c EXCEPT ![k] = [x.c[k] EXCEPT !.state = "finwait"]]
                                         ELSE x.c
    BY <1>3, <2>1, Closing
  <2>3. PICK d : d = IF x.c[k].state = "est" THEN [x.c[k] EXCEPT !.state = "finwait"] ELSE x.c[k]
    OBVIOUS
  <2>4. /\ d \in Connection /\ d.server = x.c[k].server /\ d.c2s = x.c[k].c2s /\ d.s2c = x.c[k].s2c
        /\ d.recvString = x.c[k].recvString /\ d.served = x.c[k].served /\ d.acked = x.c[k].acked
        /\ d.left = x.c[k].left /\ d.rx = x.c[k].rx
        /\ d.state = IF x.c[k].state = "est" THEN "finwait" ELSE x.c[k].state
    BY <1>1, <2>3 DEF Connection
  <2>5. AtMostOne(d) /\ d.state \notin {"syn", "synfin", "est"}
    BY <1>3, <2>4 DEF AtMostOne
  <2>6. Drained(x.c[k]) => Drained(d)
    BY <2>4 DEF Drained, Fin
  <2>7. y.c = [x.c EXCEPT ![k] = d]
    BY <1>1, <2>2, <2>3
  <2> QED BY <1>3, <2>1, <2>2, <2>4, <2>5, <2>6, <2>7
<1> QED BY <1>2, <1>3

\* The stop event: the current connection is closed and forgotten.
LEMMA StopMeans ==
  ASSUME TypeOK, Stop,
         http.sock # NoSocket => AtMostOne(conn[http.sock]) /\ conn[http.sock].rx = << >>
  PROVE  \E z, a :
           /\ Become(z) /\ MayStop /\ player.status = "running"
           /\ z.p = [player EXCEPT !.download = FALSE, !.play = FALSE, !.status = "stopped"]
           /\ z.h = [http EXCEPT !.keepAlive = FALSE, !.active = FALSE, !.buf = FALSE, !.sock = NoSocket]
           /\ z.crash = crash
           /\ Typed(a) /\ a.c = conn /\ a.r = retries
           /\ IF http.sock = NoSocket THEN z.c = conn /\ z.r = retries
                                      ELSE z.c = Close(a, http.sock).c /\ z.r = Close(a, http.sock).r
<1> DEFINE q == [player EXCEPT !.download = FALSE, !.play = FALSE, !.status = "stopped"]
           f == [http EXCEPT !.keepAlive = FALSE]
           g == [http EXCEPT !.keepAlive = FALSE, !.active = FALSE, !.buf = FALSE]
           w == [Now EXCEPT !.p.download = FALSE, !.p.play = FALSE, !.p.status = "stopped", !.h.keepAlive = FALSE]
           a == [h |-> g, c |-> conn, p |-> q, r |-> retries, crash |-> crash]
<1>1. MayStop /\ player.status = "running" /\ Become(StopApplication(ForceCloseSocket(w)))
  BY DEF Stop
<1>2. q \in Players
  BY StateParts, ZenonT(60) DEF Players
<1>3. f \in Https /\ f.sock = http.sock /\ f.keepAlive = FALSE
  BY StateParts, ZenonT(60) DEF Https
<1>4. g \in Https /\ g.sock = http.sock /\ g.keepAlive = FALSE /\ g.opened = http.opened
  BY StateParts, ZenonT(60) DEF Https
<1>5. PICK v : v = [Now EXCEPT !.p.download = FALSE, !.p.play = FALSE, !.p.status = "stopped"]
  OBVIOUS
<1>6. w \in States /\ w.h = f /\ w.c = conn /\ w.p = q /\ w.r = retries /\ w.crash = crash
  <2>1. v = [Now EXCEPT !.p = q]
    BY <1>5, StateParts DEF States
  <2>2. w = [v EXCEPT !.h.keepAlive = FALSE]
    BY <1>5
  <2> HIDE DEF q, w
  <2>3. v \in States /\ v.h = http /\ v.c = conn /\ v.p = q /\ v.r = retries /\ v.crash = crash
    BY <1>2, <2>1, StateParts DEF States
  <2>4. w = [v EXCEPT !.h = f]
    BY <2>2, <2>3
  <2> HIDE DEF f
  <2> QED BY <1>3, <2>3, <2>4 DEF States
<1>7. [w EXCEPT !.h.active = FALSE, !.h.buf = FALSE] = a
  <2>1. [f EXCEPT !.active = FALSE, !.buf = FALSE] = g
    BY StateParts DEF Https
  <2> HIDE DEF w, g, q, f
  <2>2. [w EXCEPT !.h.active = FALSE, !.h.buf = FALSE] = [w EXCEPT !.h = g]
    BY <1>3, <1>6, <2>1 DEF States
  <2> QED BY <1>6, <2>2 DEF States
<1>8. [g EXCEPT !.sock = NoSocket] = [http EXCEPT !.keepAlive = FALSE, !.active = FALSE, !.buf = FALSE, !.sock = NoSocket]
  BY StateParts DEF Https
<1>9. ForceCloseSocket(w) = w
  BY <1>3, <1>6 DEF ForceCloseSocket
<1>10. a.h = g /\ a.c = conn /\ a.p = q /\ a.r = retries /\ a.crash = crash
  OBVIOUS
<1>11. http.sock = NoSocket => [g EXCEPT !.sock = NoSocket] = g
  BY <1>4 DEF Https
<1> HIDE DEF q, f, g, w
<1>12. Typed(a)
  BY <1>2, <1>4, StateParts DEF Typed, States, Bounded
<1> HIDE DEF a
<1>13. StopApplication(w) = IF http.sock # NoSocket THEN [Close(a, http.sock) EXCEPT !.h.sock = NoSocket] ELSE a
  <2>1. a.h.sock = http.sock /\ a.h.keepAlive = FALSE
    BY <1>4, <1>10
  <2>2. StopApplication(w) = IF a.h.sock # NoSocket /\ ~a.h.keepAlive
                               THEN [Close(a, a.h.sock) EXCEPT !.h.sock = NoSocket] ELSE a
    <3>1. PICK y : y = [w EXCEPT !.h.active = FALSE, !.h.buf = FALSE]
      OBVIOUS
    <3>2. StopApplication(w) = IF y.h.sock # NoSocket /\ ~y.h.keepAlive
                                 THEN [Close(y, y.h.sock) EXCEPT !.h.sock = NoSocket] ELSE y
      BY <3>1 DEF StopApplication
    <3>3. y = a
      BY <1>7, <3>1
    <3> QED BY <3>2, <3>3
  <2> QED BY <2>1, <2>2
<1>14. PICK z : z = StopApplication(w)
  OBVIOUS
<1>15. Become(z)
  BY <1>1, <1>9, <1>14
<1>16. CASE http.sock = NoSocket
  <2>1. z = a
    BY <1>13, <1>14, <1>16
  <2> QED BY <1>1, <1>8, <1>10, <1>11, <1>12, <1>15, <1>16, <2>1 DEF q
<1>17. CASE http.sock # NoSocket
  <2>1. http.sock \in Conns
    BY <1>17, StateParts, Constants DEF Conns, NoSocket
  <2>2. PICK b : b = Close(a, http.sock)
    OBVIOUS
  <2>3. b \in States /\ b.h = g /\ b.p = q /\ b.crash = crash
    <3>1. b \in States /\ b.h = g /\ b.p = q
      BY <1>10, <1>12, <2>1, <2>2, CloseTyped DEF Typed
    <3>2. AtMostOne(a.c[http.sock]) /\ a.c[http.sock].rx = << >>
      BY <1>10, <1>17
    <3>3. b.crash = a.crash
      BY <1>12, <2>1, <2>2, <3>2, CloseEffect
    <3> QED BY <1>10, <3>1, <3>3
  <2>4. z = [b EXCEPT !.h.sock = NoSocket]
    BY <1>13, <1>14, <1>17, <2>2
  <2>5. z.h = [g EXCEPT !.sock = NoSocket] /\ z.c = b.c /\ z.p = q /\ z.r = b.r /\ z.crash = crash
    BY <2>3, <2>4 DEF States
  <2> QED BY <1>1, <1>8, <1>10, <1>12, <1>15, <1>17, <2>2, <2>5 DEF q
<1> QED BY <1>16, <1>17

-----------------------------------------------------------------------------
(* Faults and stops *)

\* A connection without a request under way.
LEMMA Idle ==
  ASSUME NEW c, c.c2s = << >>, Len(c.recvString) <= 1, c.state \notin {"syn", "synfin"}
  PROVE  AtMostOne(c)
<1>1. Len(c.c2s) <= 1
  <2>1. Len(<< >>) = 0
    OBVIOUS
  <2>2. Len(c.c2s) = 0
    BY <2>1
  <2> QED BY <2>2
<1> QED BY <1>1 DEF AtMostOne

\* The connections that are not the current one.
LEMMA Others ==
  ASSUME NEW h, NEW c, Elsewhere(h, c), h.opened \in Nat, NEW k \in Conns, k # h.sock
  PROVE  /\ AtMostOne(c[k]) /\ c[k].state \notin {"syn", "synfin", "est"} /\ Drained(c[k]) /\ c[k].rx = << >>
         /\ ~Pending(c[k]) /\ (k > h.opened => Blank(c[k]))
<1>1. k \in Nat
  BY DEF Conns
<1>2. CASE k > h.opened
  <2>1. Blank(c[k])
    BY <1>2 DEF Elsewhere
  <2>2. c[k].state = "unused" /\ c[k].c2s = << >> /\ Len(c[k].recvString) = 0
    BY <2>1 DEF Blank
  <2>3. Drained(c[k]) /\ c[k].rx = << >> /\ ~Pending(c[k])
    BY <2>1, <2>2 DEF Blank, Drained, Pending
  <2> QED BY <2>1, <2>2, <2>3, Idle
<1>3. CASE ~(k > h.opened)
  <2>1. k <= h.opened
    BY <1>1, <1>3
  <2>2. Spent(c[k])
    BY <2>1 DEF Elsewhere
  <2>3. c[k].state \notin {"syn", "synfin", "est"} /\ c[k].c2s = << >> /\ Len(c[k].recvString) <= 1
    BY <2>2 DEF Spent, Drained
  <2>4. Drained(c[k]) /\ c[k].rx = << >> /\ ~Pending(c[k])
    BY <2>2 DEF Spent, Drained, Pending
  <2> QED BY <1>3, <2>3, <2>4, Idle
<1> QED BY <1>2, <1>3

\* The current connection, in each of its stages.
LEMMA StageAtMostOne ==
  ASSUME NEW h, NEW c, Stage(h, c)
  PROVE  AtMostOne(c) /\ c.rx = << >>
<1>7. c.rx = << >>
  BY DEF Stage, Connecting, Asked, Answering, Refusing, Stuck, Done, Drained
<1>1. /\ Len(<< >>) = 0 /\ \A r : Len(<<r>>) = 1
  OBVIOUS
<1> DEFINE Small(n) == n \in {0, 1}
<1>6. \A n : Small(n) => n <= 1
  OBVIOUS
<1> HIDE DEF Small
<1>2. CASE Asked(h, c)
  <2>1. Small(Len(c.c2s)) /\ Small(Len(c.recvString))
    BY <1>1, <1>2 DEF Asked, Small
  <2>2. Len(c.c2s) <= 1 /\ Len(c.recvString) <= 1
    BY <1>6, <2>1
  <2> QED BY <1>2, <2>2 DEF Asked, AtMostOne
<1>3. CASE Connecting(h, c)
  <2>1. Len(c.c2s) = 0 /\ Len(c.recvString) = 0
    BY <1>1, <1>3 DEF Connecting
  <2>2. Len(c.c2s) <= 1 /\ Len(c.recvString) <= 1
    BY <2>1
  <2> QED BY <1>3, <2>2 DEF Connecting, AtMostOne
<1>4. CASE Answering(h, c) \/ Refusing(h, c)
  <2>1. c.c2s = << >> /\ Small(Len(c.recvString)) /\ c.state \notin {"syn", "synfin"}
    BY <1>1, <1>4 DEF Answering, Refusing, Small
  <2>2. Len(c.recvString) <= 1
    BY <1>6, <2>1
  <2> QED BY <1>7, <2>1, <2>2, Idle
<1>5. CASE Stuck(h, c) \/ Done(h, c)
  <2>1. c.c2s = << >> /\ Len(c.recvString) <= 1 /\ c.state \notin {"syn", "synfin"}
    BY <1>5 DEF Stuck, Done, Drained
  <2> QED BY <1>7, <2>1, Idle
<1> QED BY <1>2, <1>3, <1>4, <1>5 DEF Stage

\* A stop halts the client, whatever it is doing.
LEMMA StopHalts ==
  ASSUME TypeOK, Stop, Elsewhere(http, conn), http.sock \in 1..http.opened,
         AtMostOne(conn[http.sock]), conn[http.sock].rx = << >>,
         retries <= 1, conn[http.sock].state # "dead" => retries = 0,
         InOrder(player), http.finished => \A u \in http.got : u.file = http.file,
         http.finished => Drained(conn[http.sock]) /\ conn[http.sock].state # "syn"
  PROVE  Halted(Now)' /\ (HostInv => HostInv')
<1>1. PICK z, a :
           /\ Become(z) /\ MayStop /\ player.status = "running"
           /\ z.p = [player EXCEPT !.download = FALSE, !.play = FALSE, !.status = "stopped"]
           /\ z.h = [http EXCEPT !.keepAlive = FALSE, !.active = FALSE, !.buf = FALSE, !.sock = NoSocket]
           /\ z.crash = crash
           /\ Typed(a) /\ a.c = conn /\ a.r = retries
           /\ IF http.sock = NoSocket THEN z.c = conn /\ z.r = retries
                                      ELSE z.c = Close(a, http.sock).c /\ z.r = Close(a, http.sock).r
  BY StopMeans
<1>2. http.sock \in Conns /\ http.sock # NoSocket
  BY StateParts, Constants DEF Conns, NoSocket
<1>3. PICK b : b = Close(a, http.sock)
  OBVIOUS
<1>4. PICK d \in Connection :
        /\ b.r \in {retries, retries + 1} /\ (conn[http.sock].state # "syn" => b.r = retries)
        /\ b.c = [conn EXCEPT ![http.sock] = d] /\ d.state \notin {"syn", "synfin", "est"}
        /\ AtMostOne(d) /\ d.rx = << >>
        /\ conn[http.sock].state = "syn" => ~Pending(d)
        /\ conn[http.sock].state # "syn" /\ Drained(conn[http.sock]) => Drained(d)
  <2>1. /\ b.r \in {a.r, a.r + 1}
        /\ a.c[http.sock].state # "syn" => b.r = a.r
        /\ \E d \in Connection :
              /\ b.c = [a.c EXCEPT ![http.sock] = d] /\ d.state \notin {"syn", "synfin", "est"}
              /\ AtMostOne(d) /\ d.rx = << >>
              /\ a.c[http.sock].state = "syn" => ~Pending(d)
              /\ a.c[http.sock].state # "syn" /\ Drained(a.c[http.sock]) => Drained(d)
    <3>1. Typed(a) /\ AtMostOne(a.c[http.sock]) /\ a.c[http.sock].rx = << >>
      BY <1>1
    <3> QED BY <1>2, <1>3, <3>1, CloseEffect
  <2>2. a.c = conn /\ a.r = retries
    BY <1>1
  <2> QED BY <2>1, <2>2
<1>5. conn[http.sock].state = "dead" => ~Pending(d) /\ z.r = retries
  <2>1. ASSUME conn[http.sock].state = "dead" PROVE Close(a, http.sock).c = a.c
    <3>1. a.c[http.sock].state = "dead" /\ a.c[http.sock].rx = << >>
      BY <1>1, <2>1
    <3> QED BY <3>1 DEF Close
  <2>2. ASSUME conn[http.sock].state = "dead" PROVE d = conn[http.sock]
    <3>1. [conn EXCEPT ![http.sock] = d] = conn
      BY <1>1, <1>3, <1>4, <2>1, <2>2
    <3> QED BY <1>2, <3>1, StateParts
  <2> QED BY <1>1, <1>2, <1>3, <1>4, <2>2 DEF Pending
<1>6. z.r <= 1 /\ z.c = [conn EXCEPT ![http.sock] = d] /\ (Pending(d) => z.r = 0)
  <2>1. z.r = b.r /\ z.c = b.c
    BY <1>1, <1>2, <1>3
  <2>2. b.r <= 1
    BY <1>4, StateParts
  <2> QED BY <1>4, <1>5, <2>1, <2>2
<1>7. /\ z.p.status = "stopped" /\ ~z.p.download /\ ~z.p.play /\ z.p.played = player.played
      /\ z.p.buffer = player.buffer /\ z.p.mpdParsed = player.mpdParsed
  BY <1>1, StateParts DEF Players
<1>8. /\ ~z.h.active /\ ~z.h.buf /\ z.h.sock = NoSocket /\ z.h.opened = http.opened /\ z.h.host = http.host
      /\ z.h.finished = http.finished /\ z.h.got = http.got /\ z.h.file = http.file /\ z.h.peer = http.peer
  BY <1>1, StateParts, ZenonT(60) DEF Https
<1>9. Silent(z.h, z.p)
  BY <1>7, <1>8 DEF Silent, InOrder, Shown
<1>10. Leftover(z)
  <2>1. z.h.sock \in 0..z.h.opened
    BY <1>8, StateParts DEF NoSocket
  <2>2. ASSUME NEW k \in Conns
        PROVE  /\ Remnant(z, k, z.c[k]) /\ (k > http.opened => Blank(z.c[k]))
               /\ Pending(z.c[k]) => k = http.sock
    <3>1. CASE k = http.sock
      <4>1. ~(k > http.opened) /\ z.c[k] = d
        BY <1>2, <1>6, <3>1, StateParts
      <4>2. Remnant(z, k, d)
        BY <1>4, <1>6, <1>8 DEF Remnant
      <4> QED BY <3>1, <4>1, <4>2
    <3>2. CASE k # http.sock
      <4>1. z.c[k] = conn[k]
        BY <1>2, <1>6, <3>2, StateParts
      <4>2. /\ AtMostOne(conn[k]) /\ conn[k].state \notin {"syn", "synfin", "est"} /\ Drained(conn[k])
            /\ conn[k].rx = << >> /\ ~Pending(conn[k]) /\ (k > http.opened => Blank(conn[k]))
        BY <3>2, StateParts, Others
      <4> QED BY <4>1, <4>2 DEF Remnant
    <3> QED BY <3>1, <3>2
  <2> QED BY <1>8, <2>1, <2>2 DEF Leftover
<1>11. Halted(z)
  BY <1>1, <1>6, <1>8, <1>9, <1>10 DEF Halted, Reopened
<1>12. HostInv => Hosted(z.h, z.c, z.p)
  BY <1>7, <1>8 DEF HostInv, Hosted
<1> QED BY <1>1, <1>11, <1>12, BecomePhase

\* A stop of a client that works.
LEMMA GoodStop ==
  ASSUME ClientInv, Stop
  PROVE  Halted(Now)' /\ (HostInv => HostInv')
<1>1. player.status = "running" /\ TypeOK
  BY DEF Stop, ClientInv
<1>2. http.sock \in 1..http.opened /\ Stage(http, conn[http.sock])
  BY <1>1, Running
<1>3. http.finished => \A u \in http.got : u.file = http.file
  BY InvMeans DEF ReceivedIsRequested
<1>4. AtMostOne(conn[http.sock]) /\ conn[http.sock].rx = << >>
  BY <1>2, StageAtMostOne
<1>5. retries = 0 /\ retries <= 1 /\ Elsewhere(http, conn) /\ InOrder(player)
  BY InvParts
<1>6. http.finished => Drained(conn[http.sock]) /\ conn[http.sock].state # "syn"
  BY <1>2 DEF Stage, Connecting, Asked, Answering, Refusing, Stuck, Done
<1> QED BY <1>1, <1>2, <1>3, <1>4, <1>5, <1>6, StopHalts

\* The current connection becomes useless while a file is missing.
LEMMA Breaks ==
  ASSUME ClientInv, Faulty, NEW k \in Conns, k = http.sock, ~Blank(conn[k]), ~http.finished,
         NEW d \in Connection, Useless(d),
         NEW x, Become(x), x.h = http, x.p = player, ~x.crash, x.r <= 1, x.c = [conn EXCEPT ![k] = d]
  PROVE  Broken(Now)'
<1>1. /\ conn \in [Conns -> Connection] /\ Elsewhere(http, conn) /\ Loop(http, player) /\ InOrder(player)
  BY InvParts
<1>2. player.status = "running" /\ http.sock \in 1..http.opened
  BY Opened
<1>3. Elsewhere(x.h, x.c)
  <2> SUFFICES ASSUME NEW j \in Conns
               PROVE  /\ j > http.opened => Blank(x.c[j])
                      /\ j <= http.opened /\ j # http.sock => Spent(x.c[j])
    BY DEF Elsewhere
  <2>1. CASE j = k
    <3>1. ~(j > http.opened)
      BY <1>2, <2>1, InvParts DEF Https
    <3> QED BY <2>1, <3>1
  <2>2. CASE j # k
    BY <1>1, <2>2 DEF Elsewhere
  <2> QED BY <2>1, <2>2
<1>4. x.c[x.h.sock] = d
  BY <1>1
<1>5. Broken(x)
  BY <1>1, <1>2, <1>3, <1>4 DEF Broken
<1> QED BY <1>5, BecomePhase

\* The SYNs run out: the socket is dead, and a retry may be scheduled.
LEMMA GivenUpSteps ==
  ASSUME TypeOK, NEW k \in Conns, ConnectGivenUp(k), AtMostOne(conn[k]), conn[k].rx = << >>
  PROVE  /\ Faulty /\ conn[k].state = "syn"
         /\ \E x, d : /\ Become(x) /\ x.h = http /\ x.p = player /\ x.crash = crash
                      /\ x.r \in {retries, retries + 1} /\ x.c = [conn EXCEPT ![k] = d]
                      /\ d \in Connection /\ d.state = "dead" /\ d.c2s = << >> /\ d.rx = << >>
                      /\ d.recvString = << >> /\ ~d.served
<1>1. Faulty /\ conn[k].state = "syn" /\ Become(Unanswered(Now, k))
  BY DEF ConnectGivenUp, Unanswered, AtMostOne
<1>2. PICK y : y = Abort(Now, k)
  OBVIOUS
<1>3. Close(Now, k) = y
  <2>1. Now.c[k].state = "syn" /\ Now.c[k].c2s = << >>
    BY <1>1, StateParts DEF AtMostOne
  <2> QED BY <1>2, <2>1 DEF Close
<1>4. /\ y.h = Now.h /\ y.p = Now.p /\ y.crash = Now.crash /\ y.r \in {Now.r, Now.r + 1}
      /\ \E e \in Connection :
           /\ y.c = [Now.c EXCEPT ![k] = e]
           /\ e.state = "dead" /\ e.c2s = << >> /\ ~e.served /\ e.recvString = Now.c[k].recvString
           /\ e.server = Now.c[k].server /\ e.rx = Now.c[k].rx
  <2>1. Typed(Now)
    BY StateParts
  <2> QED BY <1>2, <2>1, AbortEffect
<1>5. PICK e \in Connection :
           y.c = [conn EXCEPT ![k] = e] /\ e.recvString = << >> /\ e.rx = << >>
  BY <1>1, <1>4, StateParts DEF AtMostOne
<1>6. PICK d, x : /\ d = [y.c[k] EXCEPT !.state = "dead", !.closeCb = FALSE, !.c2s = << >>, !.served = FALSE]
                  /\ x = Unanswered(Now, k)
  OBVIOUS
<1>7. y.c[k] = e
  BY <1>5, StateParts
<1>8. d \in Connection /\ x = [y EXCEPT !.c = [@ EXCEPT ![k] = d]]
  <2>1. Typed(Now)
    BY StateParts
  <2> QED BY <1>3, <1>6, <2>1, UnansweredTyped
<1>9. d.state = "dead" /\ d.c2s = << >> /\ d.rx = << >> /\ d.recvString = << >> /\ ~d.served
  BY <1>5, <1>6, <1>7 DEF Connection
<1>10. x.h = y.h /\ x.p = y.p /\ x.crash = y.crash /\ x.r = y.r /\ x.c = [y.c EXCEPT ![k] = d]
  <2>1. y \in States
    BY <1>2, StateParts, CloseTyped DEF Typed
  <2> QED BY <1>8, <2>1 DEF States
<1>11. x.c = [conn EXCEPT ![k] = d]
  BY <1>5, <1>10, StateParts
<1>12. /\ Become(x) /\ x.h = http /\ x.p = player /\ x.crash = crash
       /\ x.r \in {retries, retries + 1} /\ x.c = [conn EXCEPT ![k] = d]
       /\ d \in Connection /\ d.state = "dead" /\ d.c2s = << >> /\ d.rx = << >>
       /\ d.recvString = << >> /\ ~d.served
  BY <1>1, <1>4, <1>6, <1>8, <1>9, <1>10, <1>11, StateParts
<1> QED BY <1>1, <1>12, ZenonT(60)

\* A connection attempt that is given up.
LEMMA ConnectGivenUpBreaks ==
  ASSUME ClientInv, NEW k \in Conns, ConnectGivenUp(k)
  PROVE  Broken(Now)'
<1>1. TypeOK /\ conn[k].state \in {"syn", "synfin"} /\ ~Blank(conn[k])
  BY DEF ConnectGivenUp, Blank, ClientInv
<1>2. k = http.sock /\ Connecting(http, conn[k]) /\ AtMostOne(conn[k]) /\ conn[k].rx = << >>
  <2>1. ~Spent(conn[k])
    BY <1>1 DEF Spent
  <2>2. k = http.sock /\ Stage(http, conn[k])
    BY <1>1, <2>1, Opened
  <2>3. Connecting(http, conn[k])
    BY <1>1, <2>2 DEF Stage, Asked, Answering, Refusing, Stuck, Done
  <2> QED BY <2>2, <2>3, StageAtMostOne
<1>3. PICK x, d : /\ Become(x) /\ x.h = http /\ x.p = player /\ x.crash = crash
                  /\ x.r \in {retries, retries + 1} /\ x.c = [conn EXCEPT ![k] = d]
                  /\ d \in Connection /\ d.state = "dead" /\ d.c2s = << >> /\ d.rx = << >>
                  /\ d.recvString = << >> /\ ~d.served
  BY <1>1, <1>2, GivenUpSteps
<1>4. Faulty
  BY DEF ConnectGivenUp
<1>5. Useless(d)
  <2>1. Len(d.recvString) = 0
    BY <1>3
  <2>2. Len(d.recvString) <= 1
    BY <2>1
  <2> QED BY <1>3, <2>2 DEF Useless
<1>6. ~x.crash /\ x.r <= 1 /\ ~http.finished
  BY <1>2, <1>3, InvParts DEF Connecting
<1>7. d \in Connection
  BY <1>3
<1> QED BY <1>1, <1>2, <1>3, <1>4, <1>5, <1>6, <1>7, Breaks

\* A request that is retransmitted too often.
LEMMA RetransmitExhaustedBreaks ==
  ASSUME ClientInv, NEW k \in Conns, RetransmitExhausted(k)
  PROVE  Broken(Now)'
<1>1. /\ Faulty /\ conn[k].state \in {"est", "finwait"} /\ conn[k].c2s # << >>
      /\ Become(Abort(Now, k)) /\ ~Blank(conn[k])
  BY SMTT(40) DEF RetransmitExhausted, Blank
<1>2. k = http.sock /\ Asked(http, conn[k])
  <2>1. ~Spent(conn[k])
    BY <1>1 DEF Spent, Drained
  <2>2. k = http.sock /\ Stage(http, conn[k])
    BY <1>1, <2>1, Opened
  <2> QED BY <1>1, <2>2 DEF Stage, Connecting, Answering, Refusing, Stuck, Done, Drained
<1>3. PICK x : x = Abort(Now, k)
  OBVIOUS
<1>4. /\ x.h = http /\ x.p = player /\ x.crash = crash /\ x.r \in {retries, retries + 1}
      /\ \E d \in Connection :
           /\ x.c = [conn EXCEPT ![k] = d]
           /\ d.state = "dead" /\ d.c2s = << >> /\ ~d.served /\ d.recvString = conn[k].recvString
           /\ d.rx = conn[k].rx
  <2>1. Typed(Now) /\ Now.h = http /\ Now.c = conn /\ Now.p = player /\ Now.r = retries /\ Now.crash = crash
    BY InvParts
  <2>2. /\ x.h = Now.h /\ x.p = Now.p /\ x.crash = Now.crash /\ x.r \in {Now.r, Now.r + 1}
        /\ \E d \in Connection :
             /\ x.c = [Now.c EXCEPT ![k] = d]
             /\ d.state = "dead" /\ d.c2s = << >> /\ ~d.served /\ d.recvString = Now.c[k].recvString
             /\ d.server = Now.c[k].server /\ d.rx = Now.c[k].rx
    <3>1. Typed(Now)
      BY <2>1
    <3> QED BY <1>3, <3>1, AbortEffect
  <2> QED BY <2>1, <2>2
<1>5. PICK d \in Connection :
           /\ x.c = [conn EXCEPT ![k] = d]
           /\ d.state = "dead" /\ d.c2s = << >> /\ ~d.served /\ d.recvString = conn[k].recvString
           /\ d.rx = conn[k].rx
  BY <1>4
<1>6. Useless(d)
  <2>1. AtMostOne(conn[k]) /\ conn[k].rx = << >>
    BY <1>2, StageAtMostOne DEF Stage
  <2> QED BY <1>5, <2>1 DEF Useless, AtMostOne
<1>7. ~x.crash /\ x.r <= 1 /\ ~http.finished
  BY <1>2, <1>4, InvParts DEF Asked
<1> QED BY <1>1, <1>2, <1>3, <1>4, <1>5, <1>6, <1>7, Breaks

-----------------------------------------------------------------------------
(* Receiving, in every phase *)

\* The packet and the state it finds.
Coming(v, e, k, n) ==
  LET c == conn[k]
      x == HandleRead(v, k)
  IN /\ Typed(v) /\ v.h = http /\ v.p = player /\ v.r = retries /\ v.crash = crash
     /\ e \in Connection /\ e.rx = c.rx \o Data(c, n) /\ e.s2c = Rest(c, n) /\ e.acked = c.served
     /\ e.state = c.state /\ e.server = c.server /\ e.c2s = c.c2s /\ e.served = c.served
     /\ e.recvString = c.recvString /\ e.left = c.left
     /\ v.c = [conn EXCEPT ![k] = e] /\ v.c[k] = e
     /\ Become(IF Ended(c, n) /\ ~x.crash THEN ConnectionClosedNormal(x, k) ELSE x)

\* The step as a whole.
LEMMA ReceiveSteps ==
  ASSUME TypeOK, NEW k \in Conns, NEW n \in 1..Len(conn[k].s2c), Receive(k, n)
  PROVE  conn[k].state \in {"est", "finwait", "finwait2"} /\ \E v, e : Coming(v, e, k, n)
<1>1. PICK c : c = conn[k]
  OBVIOUS
<1>2. c \in Connection /\ c.rx \in Seq(Unit) /\ Data(c, n) \in Seq(Unit) /\ Rest(c, n) \in Seq(Unit)
  <2>1. c \in Connection
    BY <1>1, StateParts
  <2>2. n \in 1..Len(c.s2c)
    BY <1>1
  <2>3. c.rx \in Seq(Unit)
    BY <2>1 DEF Connection
  <2> QED BY <2>1, <2>2, <2>3, Split DEF Data
<1>3. PICK e, v : /\ e = [c EXCEPT !.s2c = Rest(c, n), !.rx = c.rx \o Data(c, n), !.acked = c.served]
                  /\ v = [Now EXCEPT !.c[k] = e]
  OBVIOUS
<1>4. c.rx \o Data(c, n) \in Seq(Unit)
  BY <1>2, ConcatProperties
<1>5. /\ e \in Connection /\ e.rx = c.rx \o Data(c, n) /\ e.s2c = Rest(c, n) /\ e.acked = c.served
      /\ e.state = c.state /\ e.server = c.server /\ e.c2s = c.c2s /\ e.served = c.served
      /\ e.recvString = c.recvString /\ e.left = c.left
  BY <1>2, <1>3, <1>4 DEF Connection
<1>6. Become(IF Ended(c, n) /\ ~HandleRead(v, k).crash
               THEN ConnectionClosedNormal(HandleRead(v, k), k) ELSE HandleRead(v, k))
  <2>1. Now.c[k] = c
    BY <1>1, StateParts
  <2> QED BY <1>1, <1>3, <2>1 DEF Receive, Ended, Data, Rest, Units
<1>7. /\ Typed(v) /\ v.h = http /\ v.p = player /\ v.r = retries /\ v.crash = crash
      /\ v.c = [conn EXCEPT ![k] = e] /\ v.c[k] = e
  <2>1. v \in States /\ v.h = Now.h /\ v.p = Now.p /\ v.r = Now.r /\ v.crash = Now.crash
        /\ v.c = [Now.c EXCEPT ![k] = e]
    BY <1>3, <1>5, StateParts DEF States
  <2> QED BY <2>1, StateParts DEF Typed
<1>8. Coming(v, e, k, n)
  BY <1>1, <1>5, <1>6, <1>7 DEF Coming
<1>9. conn[k].state \in {"est", "finwait", "finwait2"}
  BY DEF Receive
<1> QED BY <1>8, <1>9

\* The server has closed, and there is nothing to read on this end.
LEMMA CloseBehind ==
  ASSUME NEW x, Typed(x), NEW k \in Conns, x.c[k].state # "syn", x.c[k].rx = << >>
  PROVE  LET y == ConnectionClosedNormal(x, k) IN
         /\ y.h = x.h /\ y.p = x.p /\ y.r = x.r /\ y.crash = x.crash
         /\ y.c = [x.c EXCEPT ![k] = [x.c[k] EXCEPT !.state = "closed", !.closeCb = FALSE]]
<1>1. x \in States /\ x.c[k] \in Connection
  BY SMTT(40) DEF Typed, States
<1>2. CASE x.c[k].state = "est"
  BY <1>2, NormalClose
<1>3. CASE x.c[k].state # "est"
  <2>1. Close(x, k) = x
    BY <1>3 DEF Close
  <2>2. PICK d : d = [x.c[k] EXCEPT !.state = "closed", !.closeCb = FALSE]
    OBVIOUS
  <2>3. ConnectionClosedNormal(x, k) = [x EXCEPT !.c[k] = d]
    BY <2>1, <2>2 DEF ConnectionClosedNormal
  <2> QED BY <1>1, <2>2, <2>3 DEF States
<1> QED BY <1>2, <1>3

-----------------------------------------------------------------------------
(* The other steps, in every phase *)

\* One connection changes.
Put(k, d) == [Now EXCEPT !.c[k] = d]

\* Nothing else does.
LEMMA ChangeOne ==
  ASSUME TypeOK, NEW k \in Conns, NEW d \in Connection, NEW x, x = Put(k, d)
  PROVE  /\ Typed(x) /\ x.h = http /\ x.p = player /\ x.r = retries /\ x.crash = crash
         /\ x.c = [conn EXCEPT ![k] = d] /\ x.c[k] = d
<1>1. /\ x \in States /\ x.h = Now.h /\ x.p = Now.p /\ x.r = Now.r /\ x.crash = Now.crash
      /\ x.c = [Now.c EXCEPT ![k] = d]
  BY StateParts DEF States, Put
<1> QED BY <1>1, StateParts DEF Typed

\* A step after which the client has the members it had, but for those that
\* describe the request.
Calm(x) ==
  /\ Become(x) /\ x.p = player /\ x.r = retries /\ x.crash = crash
  /\ x.h.sock = http.sock /\ x.h.opened = http.opened /\ x.h.active = http.active /\ x.h.buf = http.buf
  /\ x.h.finished = http.finished /\ x.h.got = http.got /\ x.h.file = http.file

\* The connection d takes the place of connection k.
Replaced(x, k, d) == d \in Connection /\ x.c = [conn EXCEPT ![k] = d]

\* Where connections lead does not change with what they carry.
LEMMA HostedSame ==
  ASSUME TypeOK, NEW x, NEW k \in Conns, NEW d, Replaced(x, k, d), d.server = conn[k].server,
         NEW h, NEW p, h.sock = http.sock, Hosted(h, conn, p)
  PROVE  Hosted(h, x.c, p)
<1>1. http.sock # NoSocket => http.sock \in Conns
  BY StateParts, Constants DEF Conns, NoSocket
<1>2. http.sock \in Conns => x.c[http.sock].server = conn[http.sock].server
  BY StateParts DEF Replaced
<1> QED BY <1>1, <1>2 DEF Hosted

\* The client's FIN is acknowledged.
LEMMA AckFinSteps ==
  ASSUME TypeOK, NEW k \in Conns, AckFin(k)
  PROVE  /\ conn[k].state = "finwait" /\ conn[k].c2s = << >>
         /\ \E x, d : /\ Calm(x) /\ Replaced(x, k, d)
                      /\ d.state = "finwait2" /\ ~d.served /\ d.c2s = << >> /\ d.left = << >>
                      /\ d.s2c = conn[k].s2c /\ d.rx = conn[k].rx /\ d.recvString = conn[k].recvString
                      /\ d.server = conn[k].server
                      /\ HostInv => Hosted(x.h, x.c, x.p)
<1>1. conn[k].state = "finwait" /\ conn[k].c2s = << >> /\ conn[k] \in Connection /\ << >> \in Seq(Unit)
  BY StateParts DEF AckFin
<1>2. PICK d, y : /\ d = [conn[k] EXCEPT !.state = "finwait2", !.served = FALSE, !.left = << >>, !.acked = FALSE]
                  /\ y = [Now EXCEPT !.c[k] = d]
  OBVIOUS
<1>3. PICK x : x = OnReadySend(y, k)
  OBVIOUS
<1>4. Become(x)
  BY <1>2, <1>3, StateParts DEF AckFin
<1>5. /\ d \in Connection /\ d.state = "finwait2" /\ ~d.served /\ d.c2s = << >> /\ d.left = << >>
      /\ d.s2c = conn[k].s2c /\ d.rx = conn[k].rx /\ d.recvString = conn[k].recvString
      /\ d.server = conn[k].server
  BY <1>1, <1>2 DEF Connection
<1>6. /\ Typed(y) /\ y.h = http /\ y.p = player /\ y.r = retries /\ y.crash = crash
      /\ y.c = [conn EXCEPT ![k] = d] /\ y.c[k] = d
  <2>1. d \in Connection /\ y = Put(k, d)
    BY <1>2, <1>5 DEF Put
  <2> QED BY <2>1, ChangeOne
<1>7. /\ x.p = y.p /\ x.r = y.r /\ x.crash = y.crash
      /\ x.h.sock = y.h.sock /\ x.h.opened = y.h.opened /\ x.h.active = y.h.active
      /\ x.h.buf = y.h.buf /\ x.h.finished = y.h.finished /\ x.h.got = y.h.got /\ x.h.file = y.h.file
      /\ \/ x.c = y.c
         \/ /\ y.c[k].state \in {"syn", "synfin", "est"}
            /\ \E m \in Request : x.c = [y.c EXCEPT ![k] = [y.c[k] EXCEPT !.c2s = Append(@, m)]]
      /\ Hosted(y.h, y.c, y.p) => Hosted(x.h, y.c, y.p)
  <2>1. Typed(y) /\ table \in Servers
    BY <1>6, StateParts
  <2>2. Requests(y, x, k)
    BY <1>3, <2>1, ReadyEffect
  <2> QED BY <2>2 DEF Requests
<1>8. x.c = y.c
  BY <1>5, <1>6, <1>7
<1>9. Calm(x) /\ Replaced(x, k, d)
  BY <1>4, <1>5, <1>6, <1>7, <1>8 DEF Calm, Replaced
<1>10. HostInv => Hosted(x.h, x.c, x.p)
  <2>1. HostInv => Hosted(http, x.c, player)
    <3> SUFFICES ASSUME Hosted(http, conn, player) PROVE Hosted(http, x.c, player)
      BY DEF HostInv
    <3> QED BY <1>5, <1>9, HostedSame
  <2> QED BY <1>6, <1>7, <1>8, <2>1
<1> QED BY <1>1, <1>5, <1>9, <1>10

\* Handing units to TCP changes only what is under way and what is left.
LEMMA TransmitFields ==
  ASSUME NEW c \in Connection
  PROVE  LET d == Transmit(c) IN
         /\ d \in Connection /\ d.state = c.state /\ d.server = c.server /\ d.c2s = c.c2s /\ d.rx = c.rx
         /\ d.served = c.served /\ d.recvString = c.recvString /\ d.acked = c.acked
<1>1. PICK m \in 0..Len(c.left) :
           Transmit(c) = [c EXCEPT !.s2c = c.s2c \o SubSeq(c.left, 1, m),
                                   !.left = SubSeq(c.left, m + 1, Len(c.left))]
  BY Transmitting
<1>2. Transmit(c) \in Connection
  BY TransmitTyped
<1> QED BY <1>1, <1>2 DEF Connection

\* An ACK reaches the server.
LEMMA AckSteps ==
  ASSUME TypeOK, NEW k \in Conns, HandleReadyToTransmit(k)
  PROVE  /\ conn[k].served /\ conn[k].acked
         /\ \E x : /\ Calm(x) /\ x.h = http
                   /\ AfterAck(conn[k]) \in Connection => Replaced(x, k, AfterAck(conn[k]))
<1>1. PICK d, x : d = AfterAck(conn[k]) /\ x = [Now EXCEPT !.c[k] = d]
  OBVIOUS
<1>2. conn[k].served /\ conn[k].acked /\ Become(x)
  BY <1>1, StateParts DEF HandleReadyToTransmit, AfterAck, Fin
<1>3. x.h = http /\ x.p = player /\ x.r = retries /\ x.crash = crash /\ x.c = [conn EXCEPT ![k] = d]
  <2>1. /\ x.h = Now.h /\ x.p = Now.p /\ x.r = Now.r /\ x.crash = Now.crash
        /\ x.c = [Now.c EXCEPT ![k] = d]
    BY <1>1, StateParts DEF States
  <2> QED BY <2>1, StateParts
<1>4. Calm(x) /\ (d \in Connection => Replaced(x, k, d))
  BY <1>2, <1>3 DEF Calm, Replaced
<1> QED BY <1>1, <1>2, <1>3, <1>4

\* A new attempt to connect: a client without a socket opens one; a socket that
\* is neither open nor being opened is left as it is.
LEMMA EstablishEffect ==
  ASSUME NEW x, Typed(x), x.h.sock <= MaxConns, table \in Servers
  PROVE  LET y == TryEstablishConnection(x)
             k == x.h.opened + 1
             j == x.h.sock
         IN /\ y.p = x.p /\ y.r = x.r /\ y.crash = x.crash
            /\ ~y.h.finished /\ y.h.active = x.h.active /\ y.h.buf = x.h.buf
            /\ j = NoSocket =>
                 /\ y.h.sock = k /\ y.h.opened = k /\ y.h.peer = x.h.peer /\ y.h.host = x.h.host
                 /\ y.c = [x.c EXCEPT ![k] = [x.c[k] EXCEPT !.state = "syn", !.server = x.h.peer, !.closeCb = TRUE]]
            /\ j # NoSocket /\ x.c[j].state \notin {"syn", "synfin", "est"} =>
                 /\ y.h.sock = j /\ y.h.opened = x.h.opened
                 /\ \/ y.c = x.c
                    \/ y.c = [x.c EXCEPT ![j] = [x.c[j] EXCEPT !.closeCb = TRUE]]
<1>1. x \in States /\ x.h \in Https
  BY DEF Typed, States
<1>2. PICK z, g : /\ z = [x EXCEPT !.h.sentGet = FALSE, !.h.finished = FALSE, !.h.bytes = 0, !.h.got = {}]
                  /\ g = [x.h EXCEPT !.sentGet = FALSE, !.finished = FALSE, !.bytes = 0, !.got = {}]
  OBVIOUS
<1>3. z = [x EXCEPT !.h = g]
  BY <1>1, <1>2 DEF States, Https
<1>4. /\ g \in Https /\ g.sock = x.h.sock /\ g.opened = x.h.opened /\ g.peer = x.h.peer /\ g.host = x.h.host
      /\ ~g.finished /\ g.active = x.h.active /\ g.buf = x.h.buf /\ g.keepAlive = x.h.keepAlive
  BY <1>1, <1>2 DEF Https
<1>5. /\ z \in States /\ z.h = g /\ z.c = x.c /\ z.p = x.p /\ z.r = x.r /\ z.crash = x.crash
  BY <1>1, <1>3, <1>4 DEF States
<1>6. PICK y : y = TryEstablishConnection(x)
  OBVIOUS
<1>7. y = CASE z.h.sock = NoSocket -> OpenSocket(z)
            [] z.h.sock # NoSocket /\ ~z.h.keepAlive -> [z EXCEPT !.c[z.h.sock].closeCb = TRUE]
            [] OTHER -> OnReadySend(z, z.h.sock)
  BY <1>2, <1>6 DEF TryEstablishConnection
<1>8. CASE x.h.sock = NoSocket
  <2>1. PICK k, d : /\ k = x.h.opened + 1
                    /\ d = [x.c[k] EXCEPT !.state = "syn", !.server = x.h.peer, !.closeCb = TRUE]
    OBVIOUS
  <2>2. y = OpenSocket(z)
    BY <1>4, <1>5, <1>7, <1>8
  <2>3. y = [z EXCEPT !.h = [g EXCEPT !.sock = k, !.opened = k], !.c = [x.c EXCEPT ![k] = d]]
    BY <1>4, <1>5, <2>1, <2>2 DEF OpenSocket
  <2>4. /\ y.h = [g EXCEPT !.sock = k, !.opened = k] /\ y.c = [x.c EXCEPT ![k] = d]
        /\ y.p = x.p /\ y.r = x.r /\ y.crash = x.crash
    BY <1>5, <2>3 DEF States
  <2>5. /\ y.h.sock = k /\ y.h.opened = k /\ y.h.peer = x.h.peer /\ y.h.host = x.h.host
        /\ ~y.h.finished /\ y.h.active = x.h.active /\ y.h.buf = x.h.buf
    BY <1>4, <2>4 DEF Https
  <2> QED BY <1>6, <1>8, <2>1, <2>4, <2>5
<1>9. CASE x.h.sock # NoSocket /\ ~x.h.keepAlive
  <2>1. PICK j, d : j = x.h.sock /\ d = [x.c[j] EXCEPT !.closeCb = TRUE]
    OBVIOUS
  <2>2. y = [z EXCEPT !.c[j].closeCb = TRUE]
    BY <1>4, <1>5, <1>7, <1>9, <2>1
  <2>3. y = [z EXCEPT !.c = [x.c EXCEPT ![j] = d]]
    BY <1>5, <2>1, <2>2
  <2>4. y.h = g /\ y.c = [x.c EXCEPT ![j] = d] /\ y.p = x.p /\ y.r = x.r /\ y.crash = x.crash
    BY <1>5, <2>3 DEF States
  <2> QED BY <1>4, <1>6, <1>9, <2>1, <2>4
<1>10. CASE x.h.sock # NoSocket /\ x.h.keepAlive
  <2>1. PICK j : j = x.h.sock
    OBVIOUS
  <2>2. y = OnReadySend(z, j)
    BY <1>4, <1>5, <1>7, <1>10, <2>1
  <2>3. j \in Conns /\ Typed(z)
    <3>1. j \in Conns
      BY <1>1, <1>10, <2>1, Constants DEF Https, Conns, NoSocket
    <3>2. Bounded(g)
      BY <1>4 DEF Typed, Bounded
    <3> QED BY <1>5, <3>1, <3>2 DEF Typed
  <2>4. /\ y.p = z.p /\ y.r = z.r /\ y.crash = z.crash
        /\ y.h.sock = z.h.sock /\ y.h.opened = z.h.opened /\ y.h.active = z.h.active
        /\ y.h.buf = z.h.buf /\ y.h.finished = z.h.finished /\ y.h.got = z.h.got /\ y.h.file = z.h.file
        /\ \/ y.c = z.c
           \/ /\ z.c[j].state \in {"syn", "synfin", "est"}
              /\ \E m \in Request : y.c = [z.c EXCEPT ![j] = [z.c[j] EXCEPT !.c2s = Append(@, m)]]
        /\ Hosted(z.h, z.c, z.p) => Hosted(y.h, z.c, z.p)
    <3>1. Requests(z, y, j)
      BY <2>2, <2>3, ReadyEffect
    <3> QED BY <3>1 DEF Requests
  <2>5. x.c[j].state \notin {"syn", "synfin", "est"} => y.c = x.c
    BY <1>5, <2>4
  <2>6. y.p = x.p /\ y.r = x.r /\ y.crash = x.crash /\ y.h.sock = j /\ y.h.opened = x.h.opened
        /\ ~y.h.finished /\ y.h.active = x.h.active /\ y.h.buf = x.h.buf
    BY <1>4, <1>5, <2>1, <2>4, ZenonT(60)
  <2> QED BY <1>6, <1>10, <2>1, <2>5, <2>6
<1> QED BY <1>8, <1>9, <1>10

\* The event scheduled by the close callback.
LEMMA RetrySteps ==
  ASSUME TypeOK, Retry
  PROVE  \E x : LET k == http.opened + 1
                    j == http.sock
                IN /\ retries > 0 /\ Become(x)
                   /\ x.p = player /\ x.r = retries - 1 /\ x.crash = crash
                   /\ ~x.h.finished /\ x.h.active = http.active /\ x.h.buf = http.buf
                   /\ j = NoSocket =>
                        /\ k \in Conns /\ x.h.sock = k /\ x.h.opened = k
                        /\ x.h.peer = http.peer /\ x.h.host = http.host
                        /\ x.c = [conn EXCEPT ![k] =
                                   [conn[k] EXCEPT !.state = "syn", !.server = http.peer, !.closeCb = TRUE]]
                   /\ j # NoSocket /\ conn[j].state \notin {"syn", "synfin", "est"} =>
                        /\ x.h.sock = j /\ x.h.opened = http.opened
                        /\ x.c = conn \/ x.c = [conn EXCEPT ![j] = [conn[j] EXCEPT !.closeCb = TRUE]]
<1>1. PICK y, n : n = retries - 1 /\ y = [Now EXCEPT !.r = n]
  OBVIOUS
<1>2. retries > 0 /\ Become(TryEstablishConnection(y))
  BY <1>1, StateParts DEF Retry
<1>3. n \in Nat
  BY <1>1, <1>2, StateParts
<1>4. y \in States /\ y.h = http /\ y.c = conn /\ y.p = player /\ y.r = n /\ y.crash = crash
  <2>1. y \in States /\ y.h = Now.h /\ y.c = Now.c /\ y.p = Now.p /\ y.r = n /\ y.crash = Now.crash
    BY <1>1, <1>3, StateParts DEF States
  <2> QED BY <2>1, StateParts
<1>5. Typed(y) /\ y.h.sock <= MaxConns /\ table \in Servers
  BY <1>4, StateParts DEF Typed, Bounded
<1>6. PICK x : x = TryEstablishConnection(y)
  OBVIOUS
<1> DEFINE k == y.h.opened + 1
           j == y.h.sock
<1>7. /\ x.p = y.p /\ x.r = y.r /\ x.crash = y.crash
      /\ ~x.h.finished /\ x.h.active = y.h.active /\ x.h.buf = y.h.buf
      /\ j = NoSocket =>
           /\ x.h.sock = k /\ x.h.opened = k /\ x.h.peer = y.h.peer /\ x.h.host = y.h.host
           /\ x.c = [y.c EXCEPT ![k] = [y.c[k] EXCEPT !.state = "syn", !.server = y.h.peer, !.closeCb = TRUE]]
      /\ j # NoSocket /\ y.c[j].state \notin {"syn", "synfin", "est"} =>
           /\ x.h.sock = j /\ x.h.opened = y.h.opened
           /\ \/ x.c = y.c
              \/ x.c = [y.c EXCEPT ![j] = [y.c[j] EXCEPT !.closeCb = TRUE]]
  BY <1>5, <1>6, EstablishEffect, ZenonT(60)
<1>8. Become(x)
  BY <1>2, <1>6
<1>9. j = NoSocket => k \in Conns
  BY <1>4, <1>7, <1>8, StateParts, Constants DEF Conns, Become
<1> HIDE DEF k, j
<1>10. k = http.opened + 1 /\ j = http.sock
  BY <1>4 DEF k, j
<1>11. /\ x.p = player /\ x.r = retries - 1 /\ x.crash = crash
       /\ ~x.h.finished /\ x.h.active = http.active /\ x.h.buf = http.buf
  BY <1>1, <1>4, <1>7
<1>12. http.sock = NoSocket =>
         /\ http.opened + 1 \in Conns /\ x.h.sock = http.opened + 1 /\ x.h.opened = http.opened + 1
         /\ x.h.peer = http.peer /\ x.h.host = http.host
         /\ x.c = [conn EXCEPT ![http.opened + 1] =
                [conn[http.opened + 1] EXCEPT !.state = "syn", !.server = http.peer, !.closeCb = TRUE]]
  BY <1>4, <1>7, <1>9, <1>10, Zenon
<1>13. http.sock # NoSocket /\ conn[http.sock].state \notin {"syn", "synfin", "est"} =>
         /\ x.h.sock = http.sock /\ x.h.opened = http.opened
         /\ x.c = conn \/ x.c = [conn EXCEPT ![http.sock] = [conn[http.sock] EXCEPT !.closeCb = TRUE]]
  BY <1>4, <1>7, <1>10, Zenon
<1> QED BY <1>2, <1>8, <1>11, <1>12, <1>13, Zenon

\* Playback: what is shown and to be shown stays in order.
LEMMA PlayerSteps ==
  ASSUME TypeOK, TypeOK', Play \/ PlayedAll \/ Stall, InOrder(player)
  PROVE  player.play /\ \E x : /\ Become(x) /\ x.h = http /\ x.c = conn /\ x.r = retries /\ x.crash = crash
                               /\ x.p.status = player.status /\ InOrder(x.p)
                               /\ Loop(http, player) => Loop(http, x.p)
<1>1. CASE Play
  <2>1. PICK q, x : /\ q = [player EXCEPT !.buffer = Tail(@), !.played = Append(@, Head(player.buffer)),
                                          !.started = TRUE, !.frozen = @ /\ ~player.started]
                    /\ x = [Now EXCEPT !.p.buffer = Tail(@), !.p.played = Append(@, Head(player.buffer)),
                                       !.p.started = TRUE, !.p.frozen = @ /\ ~player.started]
    OBVIOUS
  <2>2. Become(x) /\ player.buffer # << >> /\ player.play
    BY <1>1, <2>1 DEF Play
  <2>3. x = [Now EXCEPT !.p = q]
    BY <2>1, StateParts DEF States
  <2>4. /\ q.played = Append(player.played, Head(player.buffer)) /\ q.buffer = Tail(player.buffer)
        /\ q.status = player.status /\ q.mpdParsed = player.mpdParsed /\ q.next = player.next
        /\ q.segment = player.segment /\ q.download = player.download /\ q.waits = player.waits
    BY <2>1, StateParts DEF Players
  <2>5. x.h = http /\ x.c = conn /\ x.p = q /\ x.r = retries /\ x.crash = crash
    <3>1. x.h = Now.h /\ x.c = Now.c /\ x.p = q /\ x.r = Now.r /\ x.crash = Now.crash
      BY <2>3, StateParts DEF States
    <3> QED BY <3>1, StateParts
  <2>6. q \in Players
    <3>1. player' = q
      BY <2>2, <2>5 DEF Become
    <3>2. player' \in Players
      BY DEF TypeOK, Players
    <3> QED BY <3>1, <3>2
  <2>7. InOrder(q) /\ Shown(q) = Shown(player)
    BY <2>2, <2>4, <2>6, StateParts, OrderPlay
  <2>8. Loop(http, player) => Loop(http, q)
    BY <2>4, <2>7 DEF Loop
  <2> QED BY <2>2, <2>4, <2>5, <2>7, <2>8
<1>2. CASE PlayedAll \/ Stall
  <2>1. PICK q, x : /\ player.play /\ Become(x) /\ x = [Now EXCEPT !.p = q]
                    /\ q \in {[player EXCEPT !.play = FALSE], [player EXCEPT !.frozen = @ \/ player.started]}
    BY <1>2, StateParts DEF PlayedAll, Stall, States
  <2>2. /\ q.played = player.played /\ q.buffer = player.buffer
        /\ q.status = player.status /\ q.mpdParsed = player.mpdParsed /\ q.next = player.next
        /\ q.segment = player.segment /\ q.download = player.download /\ q.waits = player.waits
    BY <2>1, StateParts DEF Players
  <2>3. x.h = http /\ x.c = conn /\ x.p = q /\ x.r = retries /\ x.crash = crash
    <3>1. x.h = Now.h /\ x.c = Now.c /\ x.p = q /\ x.r = Now.r /\ x.crash = Now.crash
      BY <2>1, StateParts DEF States
    <3> QED BY <3>1, StateParts
  <2>4. InOrder(q) /\ (Loop(http, player) => Loop(http, q))
    BY <2>2 DEF InOrder, Shown, Loop
  <2>5. Become(x) /\ player.play /\ x.p.status = player.status /\ InOrder(x.p)
        /\ (Loop(http, player) => Loop(http, x.p))
    BY <2>1, <2>2, <2>3, <2>4
  <2> QED BY <2>3, <2>5
<1> QED BY <1>1, <1>2

-----------------------------------------------------------------------------
(* A broken client *)

\* What it is.
LEMMA BrokenParts ==
  ASSUME TypeOK, Broken(Now)
  PROVE  /\ Faulty /\ crash = FALSE /\ retries <= 1 /\ player.status = "running"
         /\ http.sock \in 1..http.opened /\ http.sock \in Conns /\ http.sock # NoSocket
         /\ Useless(conn[http.sock]) /\ ~http.finished
         /\ Elsewhere(http, conn) /\ Loop(http, player) /\ InOrder(player)
         /\ ~player.download /\ player.waits = 0
<1>1. /\ Faulty /\ ~crash /\ retries <= 1 /\ player.status = "running"
      /\ http.sock \in 1..http.opened /\ Useless(conn[http.sock]) /\ ~http.finished
      /\ Elsewhere(http, conn) /\ Loop(http, player) /\ InOrder(player)
  BY StateParts DEF Broken
<1>2. http.sock \in Conns /\ http.sock # NoSocket
  BY <1>1, StateParts, Constants DEF Conns, NoSocket
<1>3. ~player.download /\ player.waits = 0
  BY <1>1, StateParts, LoopBusy
<1>4. crash = FALSE
  BY <1>1, StateParts
<1> QED BY <1>1, <1>2, <1>3, <1>4

\* A connection on which something happens is one that was left behind.
LEMMA BrokenOther ==
  ASSUME TypeOK, Broken(Now), NEW k \in Conns, ~Blank(conn[k]), ~Useless(conn[k])
  PROVE  k # http.sock /\ k <= http.opened /\ Spent(conn[k])
<1>1. k # http.sock
  BY BrokenParts
<1>2. k \in Nat
  BY DEF Conns
<1>3. k <= http.opened
  BY <1>2, BrokenParts, StateParts DEF Elsewhere
<1> QED BY <1>1, <1>3, BrokenParts DEF Elsewhere

\* It stays broken when a connection that was left behind changes, or when the
\* current one is told to try again.
LEMMA BrokenChange ==
  ASSUME TypeOK, Broken(Now), NEW k \in Conns, NEW d \in Connection,
         IF k = http.sock THEN Useless(d) ELSE k <= http.opened /\ Spent(d),
         NEW x, Become(x), x.c = [conn EXCEPT ![k] = d], x.h.opened = http.opened, x.h.sock = http.sock,
         ~x.h.finished, x.p = player, x.r <= 1, x.crash = crash
  PROVE  Broken(Now)'
<1>1. /\ conn \in [Conns -> Connection] /\ k \in Nat /\ http.opened \in Nat /\ http.sock \in 1..http.opened
      /\ http.sock \in Conns
  BY StateParts, BrokenParts DEF Conns
<1>2. Elsewhere(x.h, x.c)
  <2> SUFFICES ASSUME NEW j \in Conns
               PROVE  /\ j > http.opened => Blank(x.c[j])
                      /\ j <= http.opened /\ j # http.sock => Spent(x.c[j])
    BY DEF Elsewhere
  <2>1. CASE j = k
    <3>1. ~(k > http.opened)
      BY <1>1
    <3> QED BY <1>1, <2>1, <3>1
  <2>2. CASE j # k
    BY <1>1, <2>2, BrokenParts DEF Elsewhere
  <2> QED BY <2>1, <2>2
<1>3. Useless(x.c[x.h.sock])
  <2>1. CASE k = http.sock
    BY <1>1, <2>1
  <2>2. CASE k # http.sock
    <3>1. x.c[http.sock] = conn[http.sock]
      BY <1>1, <2>2
    <3> QED BY <3>1, BrokenParts
  <2> QED BY <2>1, <2>2
<1>4. Loop(x.h, x.p)
  BY BrokenParts DEF Loop
<1>5. Broken(x)
  BY <1>2, <1>3, <1>4, BrokenParts DEF Broken
<1> QED BY <1>5, BecomePhase

\* Only the FIN of a connection that was left behind can arrive.
LEMMA BrokenReceive ==
  ASSUME TypeOK, Broken(Now), NEW k \in Conns, NEW n \in 1..Len(conn[k].s2c), Receive(k, n)
  PROVE  Broken(Now)'
<1>1. PICK v, e : Coming(v, e, k, n)
  BY ReceiveSteps
<1>2. conn[k].state \in {"est", "finwait", "finwait2"} /\ conn[k] \in Connection
  BY ReceiveSteps, StateParts
<1>3. k # http.sock /\ k <= http.opened /\ Spent(conn[k])
  <2>1. ~Blank(conn[k]) /\ ~Useless(conn[k])
    BY <1>2 DEF Blank, Useless
  <2> QED BY <2>1, BrokenOther
<1>4. Drained(conn[k])
  BY <1>3 DEF Spent
<1>5. Ended(conn[k], n) /\ Data(conn[k], n) = << >> /\ Rest(conn[k], n) = << >> /\ ~conn[k].served
  BY <1>2, <1>4, FinAlone
<1>6. /\ Typed(v) /\ v.h = http /\ v.p = player /\ v.r = retries /\ v.crash = crash
      /\ v.c = [conn EXCEPT ![k] = e] /\ v.c[k] = e /\ e \in Connection
      /\ e.state = conn[k].state /\ e.server = conn[k].server /\ e.c2s = conn[k].c2s
      /\ e.served = conn[k].served /\ e.recvString = conn[k].recvString /\ e.left = conn[k].left
  BY <1>1 DEF Coming
<1>7. e.rx = << >> /\ e.s2c = << >>
  <2>1. e.rx = conn[k].rx \o << >> /\ conn[k].rx = << >> /\ e.s2c = << >>
    BY <1>1, <1>4, <1>5 DEF Coming, Drained
  <2>2. << >> \o << >> = << >>
    OBVIOUS
  <2> QED BY <2>1, <2>2
<1>8. HandleRead(v, k) = v
  BY <1>6, <1>7 DEF HandleRead
<1>9. PICK x : x = ConnectionClosedNormal(v, k)
  OBVIOUS
<1>10. Become(x)
  <2>1. ~v.crash
    BY <1>6, BrokenParts
  <2> QED BY <1>1, <1>5, <1>8, <1>9, <2>1 DEF Coming
<1>11. PICK d : d = [e EXCEPT !.state = "closed", !.closeCb = FALSE]
  BY SMTT(40)
<1>12. /\ x.h = v.h /\ x.p = v.p /\ x.r = v.r /\ x.crash = v.crash
       /\ x.c = [v.c EXCEPT ![k] = [v.c[k] EXCEPT !.state = "closed", !.closeCb = FALSE]]
  <2>1. v.c[k].state # "syn" /\ v.c[k].rx = << >>
    BY <1>2, <1>6, <1>7
  <2>2. Typed(v)
    BY <1>6
  <2> QED BY <1>9, <2>1, <2>2, CloseBehind, ZenonT(60)
<1>13. x.h = http /\ x.p = player /\ x.r = retries /\ x.crash = crash /\ x.c = [conn EXCEPT ![k] = d]
  BY <1>6, <1>11, <1>12, StateParts, ZenonT(60)
<1>14. /\ d \in Connection /\ d.state = "closed" /\ d.server = e.server /\ d.c2s = e.c2s /\ d.s2c = e.s2c
       /\ d.rx = e.rx /\ d.served = e.served /\ d.recvString = e.recvString /\ d.left = e.left
  BY <1>6, <1>11 DEF Connection
<1>15. Spent(d)
  BY <1>4, <1>5, <1>6, <1>7, <1>14 DEF Spent, Drained
<1>16. x.r <= 1 /\ ~x.h.finished
  BY <1>13, BrokenParts
<1> QED BY <1>3, <1>10, <1>13, <1>14, <1>15, <1>16, BrokenChange

\* A client whose connection has been broken is played to its end.
LEMMA BrokenPlay ==
  ASSUME TypeOK, TypeOK', Broken(Now), Play \/ PlayedAll \/ Stall
  PROVE  Broken(Now)'
<1>1. PICK x : /\ Become(x) /\ x.h = http /\ x.c = conn /\ x.r = retries /\ x.crash = crash
               /\ x.p.status = player.status /\ InOrder(x.p) /\ (Loop(http, player) => Loop(http, x.p))
  BY BrokenParts, PlayerSteps
<1>2. Broken(x)
  BY <1>1, BrokenParts DEF Broken
<1> QED BY <1>1, <1>2, BecomePhase

\* The FIN of a connection that was left behind is acknowledged.
LEMMA BrokenAckFin ==
  ASSUME TypeOK, Broken(Now), NEW k \in Conns, AckFin(k)
  PROVE  Broken(Now)'
<1>1. PICK x, d : /\ Calm(x) /\ Replaced(x, k, d)
                  /\ d.state = "finwait2" /\ ~d.served /\ d.c2s = << >> /\ d.left = << >>
                  /\ d.s2c = conn[k].s2c /\ d.rx = conn[k].rx /\ d.recvString = conn[k].recvString
                  /\ d.server = conn[k].server
  BY AckFinSteps
<1>2. k # http.sock /\ k <= http.opened /\ Spent(conn[k])
  <2>1. conn[k].state = "finwait"
    BY AckFinSteps
  <2>2. ~Blank(conn[k]) /\ ~Useless(conn[k])
    BY <2>1 DEF Blank, Useless
  <2> QED BY <2>2, BrokenOther
<1>3. Spent(d)
  BY <1>1, <1>2 DEF Spent, Drained, Fin
<1>4. /\ d \in Connection /\ x.c = [conn EXCEPT ![k] = d] /\ Become(x) /\ x.h.opened = http.opened
      /\ x.h.sock = http.sock /\ ~x.h.finished /\ x.p = player /\ x.r <= 1 /\ x.crash = crash
  BY <1>1, BrokenParts DEF Calm, Replaced
<1> QED BY <1>2, <1>3, <1>4, BrokenChange

\* An ACK on a connection that was left behind reaches the server.
LEMMA BrokenAck ==
  ASSUME TypeOK, Broken(Now), NEW k \in Conns, HandleReadyToTransmit(k)
  PROVE  Broken(Now)'
<1>1. PICK d : d = AfterAck(conn[k])
  OBVIOUS
<1>2. conn[k].served /\ conn[k].acked /\ conn[k] \in Connection
  BY AckSteps, StateParts
<1>3. k # http.sock /\ k <= http.opened /\ Spent(conn[k])
  <2>1. ~Blank(conn[k]) /\ ~Useless(conn[k])
    BY <1>2 DEF Blank, Useless
  <2> QED BY <2>1, BrokenOther
<1>4. d \in Connection /\ Spent(d)
  <2>1. Drained(conn[k])
    BY <1>3 DEF Spent
  <2>2. d \in Connection /\ d.state = conn[k].state /\ Drained(d)
    BY <1>1, <1>2, <2>1, AckDrained
  <2> QED BY <1>3, <2>2 DEF Spent
<1>5. PICK x : Calm(x) /\ Replaced(x, k, d)
  BY <1>1, <1>4, AckSteps
<1>6. /\ x.c = [conn EXCEPT ![k] = d] /\ Become(x) /\ x.h.opened = http.opened
      /\ x.h.sock = http.sock /\ ~x.h.finished /\ x.p = player /\ x.r <= 1 /\ x.crash = crash
  BY <1>5, BrokenParts DEF Calm, Replaced
<1> QED BY <1>3, <1>4, <1>6, BrokenChange

\* A retry does not open a socket, for there is one.
LEMMA BrokenRetry ==
  ASSUME TypeOK, Broken(Now), Retry
  PROVE  Broken(Now)'
<1>1. PICK j : j = http.sock
  OBVIOUS
<1>2. /\ j \in Conns /\ j # NoSocket /\ Useless(conn[j]) /\ conn[j] \in Connection
      /\ conn[j].state \notin {"syn", "synfin", "est"}
  BY <1>1, BrokenParts, StateParts DEF Useless
<1>3. PICK x : /\ retries > 0 /\ Become(x)
               /\ x.p = player /\ x.r = retries - 1 /\ x.crash = crash
               /\ ~x.h.finished /\ x.h.sock = j /\ x.h.opened = http.opened
               /\ x.c = conn \/ x.c = [conn EXCEPT ![j] = [conn[j] EXCEPT !.closeCb = TRUE]]
  BY <1>1, <1>2, RetrySteps
<1>4. PICK d \in Connection : Useless(d) /\ x.c = [conn EXCEPT ![j] = d]
  <2>1. CASE x.c = conn
    <3>1. conn = [conn EXCEPT ![j] = conn[j]]
      BY <1>2, StateParts
    <3> QED BY <1>2, <2>1, <3>1
  <2>2. CASE x.c = [conn EXCEPT ![j] = [conn[j] EXCEPT !.closeCb = TRUE]]
    <3>1. PICK d : d = [conn[j] EXCEPT !.closeCb = TRUE]
      OBVIOUS
    <3>2. /\ d \in Connection /\ d.state = conn[j].state /\ d.c2s = conn[j].c2s /\ d.served = conn[j].served
          /\ d.recvString = conn[j].recvString /\ d.acked = conn[j].acked /\ d.rx = conn[j].rx
      BY <1>2, <3>1 DEF Connection
    <3>3. Useless(d)
      BY <1>2, <3>2 DEF Useless
    <3> QED BY <2>2, <3>1, <3>2, <3>3
  <2> QED BY <1>3, <2>1, <2>2
<1>5. x.r <= 1
  BY <1>3, BrokenParts, StateParts
<1> QED BY <1>1, <1>2, <1>3, <1>4, <1>5, BrokenChange, ZenonT(60)

\* A stop.
LEMMA BrokenStop ==
  ASSUME TypeOK, Broken(Now), Stop
  PROVE  Halted(Now)'
<1>1. AtMostOne(conn[http.sock]) /\ conn[http.sock].state = "dead" /\ conn[http.sock].rx = << >>
  <2>1. /\ conn[http.sock].c2s = << >> /\ Len(conn[http.sock].recvString) <= 1 /\ conn[http.sock].state = "dead"
        /\ conn[http.sock].rx = << >>
    BY BrokenParts DEF Useless
  <2>2. conn[http.sock].state \notin {"syn", "synfin"}
    BY <2>1
  <2> QED BY <2>1, <2>2, Idle
<1>2. /\ Elsewhere(http, conn) /\ http.sock \in 1..http.opened /\ retries <= 1 /\ InOrder(player)
      /\ ~http.finished
  BY BrokenParts
<1> QED BY <1>1, <1>2, StopHalts

\* The other steps do not happen.
LEMMA BrokenNever ==
  ASSUME TypeOK, Broken(Now), NEW k \in Conns
  PROVE  /\ ~ConnectionComplete(k) /\ ~ConnectGivenUp(k) /\ ~RetransmitExhausted(k)
         /\ ~FinishedIncomingData(k)
         /\ ~Start /\ ~DownloadSegment /\ ~DownloadIdle /\ ~DownloadedAll /\ ~OfferAgain
<1>1. conn[k].state \notin {"syn", "synfin", "est"} /\ conn[k].c2s = << >>
  <2>1. CASE Blank(conn[k])
    BY <2>1 DEF Blank
  <2>2. CASE Useless(conn[k])
    BY <2>2 DEF Useless
  <2>3. CASE ~Blank(conn[k]) /\ ~Useless(conn[k])
    <3>1. Spent(conn[k])
      BY <2>3, BrokenOther
    <3> QED BY <3>1 DEF Spent, Drained
  <2> QED BY <2>1, <2>2, <2>3
<1>2. ~player.download /\ player.waits = 0 /\ player.status = "running"
  BY BrokenParts
<1> QED BY <1>1, <1>2 DEF ConnectionComplete, ConnectGivenUp, RetransmitExhausted, FinishedIncomingData,
           Start, DownloadSegment, DownloadIdle, DownloadedAll, OfferAgain

\* A broken client stays broken until it is stopped.
LEMMA BrokenNext ==
  ASSUME TypeOK, TypeOK', Broken(Now), [Next]_vars, ~StallAborts
  PROVE  Broken(Now)' \/ Halted(Now)'
<1>1. CASE UNCHANGED vars
  BY <1>1, PhaseStays DEF vars
<1>2. CASE Stop
  BY <1>2, BrokenStop
<1>3. CASE Network
  <2>1. PICK k \in Conns : \/ ConnectionComplete(k)
                           \/ \E n \in 1..Len(conn[k].s2c) : Receive(k, n)
                           \/ AckFin(k)
                           \/ FinishedIncomingData(k)
                           \/ HandleReadyToTransmit(k)
    BY <1>3 DEF Network
  <2> QED BY <2>1, BrokenNever, BrokenReceive, BrokenAckFin, BrokenAck
<1>4. CASE Retry
  BY <1>4, BrokenRetry
<1>5. CASE Play \/ PlayedAll \/ Stall
  BY <1>5, BrokenPlay
<1>6. ASSUME NEW s \in Servers, Redirect(s) PROVE Broken(Now)'
  BY <1>6, PhaseStays DEF Redirect
<1>7. ~Faults /\ ~Start /\ ~DownloadSegment /\ ~DownloadIdle /\ ~DownloadedAll /\ ~OfferAgain
  <2>1. http.sock \in Conns
    BY BrokenParts
  <2> QED BY <2>1, BrokenNever DEF Faults
<1> QED BY <1>1, <1>2, <1>3, <1>4, <1>5, <1>6, <1>7 DEF Next, Timers

-----------------------------------------------------------------------------
(* A halted client *)

\* What it is.
LEMMA HaltedParts ==
  ASSUME TypeOK, Halted(Now)
  PROVE  /\ MayStop /\ retries <= 1 /\ Silent(http, player) /\ Leftover(Now)
         /\ player.status = "stopped" /\ ~player.download /\ ~player.play /\ ~http.active /\ ~http.buf
         /\ InOrder(player) /\ (http.finished => \A u \in http.got : u.file = http.file)
         /\ http.sock \in 0..http.opened
         /\ http.sock # NoSocket =>
              /\ http.sock \in Conns /\ ~http.finished
              /\ retries = 0 \/ (Faulty /\ conn[http.sock].state = "dead")
<1>1. MayStop /\ retries <= 1 /\ Silent(http, player) /\ Leftover(Now)
  BY StateParts DEF Halted
<1>2. http.sock # NoSocket =>
              ~http.finished /\ (retries = 0 \/ (Faulty /\ conn[http.sock].state = "dead"))
  BY StateParts DEF Halted, Reopened
<1>3. http.sock # NoSocket => http.sock \in Conns
  BY StateParts, Constants DEF Conns, NoSocket
<1>4. http.sock \in 0..http.opened
  BY <1>1, StateParts DEF Leftover
<1> QED BY <1>1, <1>2, <1>3, <1>4 DEF Silent

\* Its connections.
LEMMA HaltedEach ==
  ASSUME TypeOK, Halted(Now), NEW k \in Conns
  PROVE  /\ AtMostOne(conn[k]) /\ conn[k] \in Connection
         /\ k # http.sock => conn[k].state \notin {"syn", "synfin", "est"}
         /\ crash \/ conn[k].rx = << >>
         /\ http.finished => Drained(conn[k])
         /\ Pending(conn[k]) => retries = 0 /\ http.sock = NoSocket
         /\ Pending(conn[k]) => \A j \in Conns : Pending(conn[j]) => j = k
         /\ k > http.opened => Blank(conn[k])
BY HaltedParts, StateParts DEF Leftover, Remnant

\* Those that were opened.
LEMMA HaltedOther ==
  ASSUME TypeOK, Halted(Now), NEW k \in Conns, ~Blank(conn[k])
  PROVE  k <= http.opened /\ (k = http.sock => k # NoSocket)
<1>1. k \in Nat /\ http.opened \in Nat /\ k # NoSocket
  BY StateParts DEF Conns, NoSocket
<1> QED BY <1>1, HaltedEach

\* It stays halted when one of its connections changes.
LEMMA HaltedChange ==
  ASSUME TypeOK, Halted(Now), ~crash, NEW k \in Conns, k <= http.opened, NEW d,
         NEW x, Become(x), Replaced(x, k, d), Remnant(x, k, d), Pending(d) => Pending(conn[k]),
         x.h.sock = http.sock, x.h.opened = http.opened, x.h.finished => http.finished,
         x.r = retries \/ \A j \in Conns : j # k => ~Pending(conn[j]),
         Silent(x.h, x.p), x.r <= 1, Reopened(x)
  PROVE  Halted(Now)'
<1>1. conn \in [Conns -> Connection] /\ k \in Nat /\ http.opened \in Nat /\ x.c = [conn EXCEPT ![k] = d]
  BY StateParts DEF Conns, Replaced
<1>2. \A j \in Conns : Pending(x.c[j]) => Pending(conn[j])
  BY <1>1
<1>3. ASSUME NEW j \in Conns
      PROVE  /\ Remnant(x, j, x.c[j]) /\ (j > http.opened => Blank(x.c[j]))
             /\ Pending(x.c[j]) => \A i \in Conns : Pending(x.c[i]) => i = j
  <2>1. Pending(x.c[j]) => \A i \in Conns : Pending(x.c[i]) => i = j
    BY <1>2, HaltedEach
  <2>2. CASE j = k
    <3>1. ~(j > http.opened)
      BY <1>1, <2>2
    <3> QED BY <1>1, <2>1, <2>2, <3>1
  <2>3. CASE j # k
    <3>1. x.c[j] = conn[j]
      BY <1>1, <2>3
    <3>2. Remnant(x, j, conn[j])
      BY <2>3, HaltedEach DEF Remnant
    <3> QED BY <2>1, <3>1, <3>2, HaltedEach
  <2> QED BY <2>2, <2>3
<1>4. Leftover(x)
  <2>1. http.sock \in 0..http.opened
    BY HaltedParts
  <2> QED BY <1>3, <2>1 DEF Leftover
<1>5. Halted(x)
  BY <1>4, HaltedParts DEF Halted
<1> QED BY <1>5, BecomePhase

\* It does so in a step that changes one connection and no member.
LEMMA HaltedCalm ==
  ASSUME TypeOK, Halted(Now), ~crash, NEW k \in Conns, k <= http.opened, NEW d, AtMostOne(d),
         k # http.sock => d.state \notin {"syn", "synfin", "est"},
         d.rx = << >>, http.finished => Drained(d), Pending(d) => Pending(conn[k]),
         k = http.sock => (conn[k].state = "dead" => d.state = "dead"),
         NEW x, Calm(x), Replaced(x, k, d)
  PROVE  Halted(Now)'
<1>1. /\ Become(x) /\ x.p = player /\ x.r = retries /\ x.crash = crash
      /\ x.h.sock = http.sock /\ x.h.opened = http.opened /\ x.h.active = http.active /\ x.h.buf = http.buf
      /\ x.h.finished = http.finished /\ x.h.got = http.got /\ x.h.file = http.file
  BY DEF Calm
<1>2. Silent(x.h, x.p) /\ x.r <= 1
  BY <1>1, HaltedParts DEF Silent
<1>3. Reopened(x)
  <2> SUFFICES ASSUME http.sock # NoSocket
               PROVE  ~http.finished /\ (retries = 0 \/ (Faulty /\ x.c[http.sock].state = "dead"))
    BY <1>1 DEF Reopened
  <2>1. http.sock \in Conns
    BY HaltedParts
  <2>2. x.c[http.sock] = IF k = http.sock THEN d ELSE conn[http.sock]
    BY <2>1, StateParts DEF Replaced
  <2> QED BY <2>2, HaltedParts
<1>4. Remnant(x, k, d)
  BY <1>1, HaltedEach DEF Remnant
<1> QED BY <1>1, <1>2, <1>3, <1>4, HaltedChange

\* It does so when a connection dies and a retry is scheduled.
LEMMA HaltedDies ==
  ASSUME TypeOK, Halted(Now), ~crash, Faulty, retries = 0, ~http.finished,
         NEW k \in Conns, k <= http.opened, http.sock # NoSocket => k = http.sock,
         NEW d \in Connection, AtMostOne(d), d.state = "dead", d.rx = << >>,
         NEW x, Become(x), x.h = http, x.p = player, x.crash = crash, x.r \in {retries, retries + 1},
         x.c = [conn EXCEPT ![k] = d], http.sock # NoSocket \/ Pending(conn[k])
  PROVE  Halted(Now)'
<1>1. x.r <= 1 /\ x.r \in Nat
  <2>1. x.r \in {0, 1}
    OBVIOUS
  <2> QED BY <2>1
<1>2. ~Pending(d) /\ Replaced(x, k, d) /\ Silent(x.h, x.p)
  BY HaltedParts DEF Pending, Replaced
<1>3. \A j \in Conns : j # k => ~Pending(conn[j])
  BY HaltedEach
<1>4. Remnant(x, k, d)
  BY <1>2 DEF Remnant
<1>5. Reopened(x)
  <2>1. http.sock # NoSocket => x.c[http.sock] = d
    BY StateParts
  <2> QED BY <2>1 DEF Reopened
<1>6. x.h.sock = http.sock /\ x.h.opened = http.opened /\ (x.h.finished => http.finished)
  OBVIOUS
<1> QED BY <1>1, <1>2, <1>3, <1>4, <1>5, <1>6, HaltedChange

\* A connection opened by a late retry is accepted; the GET is sent on it.
LEMMA HaltedConnectionComplete ==
  ASSUME TypeOK, Halted(Now), ~crash, NEW k \in Conns, ConnectionComplete(k)
  PROVE  Halted(Now)' /\ (HostInv => HostInv')
<1>1. PICK e, y : e = [conn[k] EXCEPT !.state = "est"] /\ y = Put(k, e)
  OBVIOUS
<1>2. PICK x : x = OnReadySend(y, k)
  OBVIOUS
<1>3. conn[k].state = "syn" /\ Become(x) /\ ~Blank(conn[k])
  <2>1. conn[k].state = "syn"
    BY HaltedEach DEF ConnectionComplete, AtMostOne
  <2>2. y = [Now EXCEPT !.c[k].state = IF @ = "syn" THEN "est" ELSE "finwait"]
    BY <1>1, <2>1, StateParts DEF Put
  <2> QED BY <1>2, <2>1, <2>2 DEF ConnectionComplete, Blank
<1>4. /\ k = http.sock /\ k <= http.opened /\ AtMostOne(conn[k]) /\ conn[k] \in Connection
      /\ conn[k].rx = << >> /\ ~http.finished
  <2>1. k = http.sock /\ AtMostOne(conn[k]) /\ conn[k] \in Connection /\ conn[k].rx = << >>
    BY <1>3, HaltedEach
  <2> QED BY <1>3, <2>1, HaltedOther, HaltedParts
<1>5. conn[k].c2s = << >> /\ conn[k].recvString = << >>
  BY <1>3, <1>4 DEF AtMostOne
<1>6. /\ e \in Connection /\ e.state = "est" /\ e.server = conn[k].server /\ e.c2s = << >>
      /\ e.recvString = << >> /\ e.rx = << >>
  BY <1>1, <1>4, <1>5 DEF Connection
<1>7. /\ Typed(y) /\ y.h = http /\ y.p = player /\ y.r = retries /\ y.crash = crash
      /\ y.c = [conn EXCEPT ![k] = e] /\ y.c[k] = e
  <2>1. e \in Connection
    BY <1>6
  <2> QED BY <1>1, <2>1, ChangeOne
<1>8. /\ x.p = y.p /\ x.r = y.r /\ x.crash = y.crash
      /\ x.h.sock = y.h.sock /\ x.h.opened = y.h.opened /\ x.h.active = y.h.active
      /\ x.h.buf = y.h.buf /\ x.h.finished = y.h.finished /\ x.h.got = y.h.got /\ x.h.file = y.h.file
      /\ \/ x.c = y.c
         \/ /\ y.c[k].state \in {"syn", "synfin", "est"}
            /\ \E m \in Request : x.c = [y.c EXCEPT ![k] = [y.c[k] EXCEPT !.c2s = Append(@, m)]]
      /\ Hosted(y.h, y.c, y.p) => Hosted(x.h, y.c, y.p)
  <2>1. Typed(y) /\ table \in Servers
    BY <1>7, StateParts
  <2>2. Requests(y, x, k)
    BY <1>2, <2>1, ReadyEffect
  <2> QED BY <2>2 DEF Requests
<1>9. Calm(x)
  BY <1>3, <1>7, <1>8 DEF Calm
<1>10. PICK d : /\ Replaced(x, k, d) /\ AtMostOne(d) /\ d.rx = << >> /\ d.server = conn[k].server
                /\ d.state = "est"
  <2>1. CASE x.c = y.c
    <3>1. Len(e.recvString) = 0
      BY <1>6
    <3>2. AtMostOne(e)
      BY <1>6, <3>1, Idle
    <3> QED BY <1>6, <1>7, <2>1, <3>2 DEF Replaced
  <2>2. CASE \E m \in Request : x.c = [y.c EXCEPT ![k] = [y.c[k] EXCEPT !.c2s = Append(@, m)]]
    <3>1. PICK m \in Request : x.c = [y.c EXCEPT ![k] = [y.c[k] EXCEPT !.c2s = Append(@, m)]]
      BY <2>2
    <3>2. PICK d : d = [e EXCEPT !.c2s = <<m>>]
      OBVIOUS
    <3>3. Append(<< >>, m) = <<m>> /\ <<m>> \in Seq(Request) /\ Len(<<m>>) = 1 /\ Len(<< >>) = 0
      OBVIOUS
    <3>4. x.c = [conn EXCEPT ![k] = d]
      <4>1. [y.c[k] EXCEPT !.c2s = Append(@, m)] = d
        BY <1>6, <1>7, <3>2, <3>3 DEF Connection
      <4> QED BY <1>7, <3>1, <4>1, StateParts
    <3>5. /\ d \in Connection /\ d.state = "est" /\ d.server = conn[k].server /\ d.c2s = <<m>>
          /\ d.recvString = << >> /\ d.rx = << >>
      BY <1>6, <3>2, <3>3 DEF Connection
    <3>6. AtMostOne(d)
      <4>1. Len(d.c2s) = 1 /\ Len(d.recvString) = 0
        BY <3>3, <3>5
      <4>2. Len(d.c2s) <= 1 /\ Len(d.recvString) <= 1
        BY <4>1
      <4> QED BY <3>5, <4>2 DEF AtMostOne
    <3> QED BY <3>4, <3>5, <3>6 DEF Replaced
  <2> QED BY <1>8, <2>1, <2>2
<1>11. Halted(Now)'
  <2>1. ~Pending(d) /\ (k # http.sock => d.state \notin {"syn", "synfin", "est"})
    BY <1>4, <1>10 DEF Pending
  <2> QED BY <1>3, <1>4, <1>9, <1>10, <2>1, HaltedCalm
<1>12. HostInv => Hosted(x.h, x.c, x.p)
  <2> SUFFICES ASSUME Hosted(http, conn, player) PROVE Hosted(x.h, x.c, x.p)
    BY DEF HostInv
  <2>1. Hosted(http, y.c, player)
    <3>1. Replaced(y, k, e) /\ e.server = conn[k].server
      BY <1>6, <1>7 DEF Replaced
    <3> QED BY <3>1, HostedSame
  <2>2. Hosted(x.h, y.c, player)
    BY <1>7, <1>8, <2>1
  <2>3. http.sock \in Conns /\ x.h.sock = http.sock /\ y.c[http.sock].server = x.c[http.sock].server
    BY <1>4, <1>6, <1>7, <1>8, <1>10, StateParts DEF Replaced
  <2>4. x.p = player
    BY <1>7, <1>8
  <2> QED BY <2>2, <2>3, <2>4 DEF Hosted
<1> QED BY <1>3, <1>11, <1>12, BecomePhase

\* A connection attempt of a late retry is given up.
LEMMA HaltedConnectGivenUp ==
  ASSUME TypeOK, Halted(Now), ~crash, NEW k \in Conns, ConnectGivenUp(k)
  PROVE  Halted(Now)' /\ Faulty
<1>1. conn[k].state \in {"syn", "synfin"} /\ ~Blank(conn[k])
  BY DEF ConnectGivenUp, Blank
<1>2. k = http.sock /\ AtMostOne(conn[k]) /\ conn[k].rx = << >>
  BY <1>1, HaltedEach
<1>3. k <= http.opened /\ k # NoSocket
  BY <1>1, <1>2, HaltedOther
<1>4. retries = 0 /\ ~http.finished
  BY <1>1, <1>2, <1>3, HaltedParts
<1>5. PICK x, d : /\ Become(x) /\ x.h = http /\ x.p = player /\ x.crash = crash
                  /\ x.r \in {retries, retries + 1} /\ x.c = [conn EXCEPT ![k] = d]
                  /\ d \in Connection /\ d.state = "dead" /\ d.c2s = << >> /\ d.rx = << >>
                  /\ d.recvString = << >> /\ ~d.served
  BY <1>2, GivenUpSteps
<1>6. Faulty
  BY DEF ConnectGivenUp
<1>7. AtMostOne(d)
  <2>1. Len(d.recvString) = 0
    BY <1>5
  <2>2. Len(d.recvString) <= 1
    BY <2>1
  <2> QED BY <1>5, <2>2, Idle
<1> QED BY <1>2, <1>3, <1>4, <1>5, <1>6, <1>7, HaltedDies

\* A request is retransmitted too often, on a connection opened by a late retry or
\* on the one that was closed by the stop.
LEMMA HaltedRetransmitExhausted ==
  ASSUME TypeOK, Halted(Now), ~crash, NEW k \in Conns, RetransmitExhausted(k)
  PROVE  Halted(Now)' /\ Faulty
<1>1. /\ Faulty /\ conn[k].state \in {"est", "finwait"} /\ conn[k].c2s # << >>
      /\ Become(Abort(Now, k)) /\ ~Blank(conn[k])
  BY DEF RetransmitExhausted, Blank
<1>2. /\ AtMostOne(conn[k]) /\ conn[k] \in Connection /\ conn[k].rx = << >> /\ k <= http.opened
      /\ k = http.sock => k # NoSocket
  BY <1>1, HaltedEach, HaltedOther
<1>3. /\ retries = 0 /\ (http.sock # NoSocket => k = http.sock)
      /\ http.sock # NoSocket \/ Pending(conn[k])
  <2>1. CASE conn[k].state = "est"
    <3>1. k = http.sock
      BY <2>1, HaltedEach
    <3> QED BY <1>2, <2>1, <3>1, HaltedParts
  <2>2. CASE conn[k].state = "finwait"
    <3>1. Pending(conn[k])
      BY <1>1, <2>2 DEF Pending
    <3> QED BY <3>1, HaltedEach
  <2> QED BY <1>1, <2>1, <2>2
<1>4. PICK x : x = Abort(Now, k)
  OBVIOUS
<1>5. /\ x.h = Now.h /\ x.p = Now.p /\ x.crash = Now.crash /\ x.r \in {Now.r, Now.r + 1}
      /\ \E d \in Connection :
           /\ x.c = [Now.c EXCEPT ![k] = d]
           /\ d.state = "dead" /\ d.c2s = << >> /\ ~d.served /\ d.recvString = Now.c[k].recvString
           /\ d.server = Now.c[k].server /\ d.rx = Now.c[k].rx
  <2>1. Typed(Now)
    BY StateParts
  <2> QED BY <1>4, <2>1, AbortEffect
<1>6. PICK d \in Connection : /\ x.c = [conn EXCEPT ![k] = d]
                              /\ d.state = "dead" /\ d.c2s = << >> /\ d.recvString = conn[k].recvString
                              /\ d.rx = << >>
  BY <1>2, <1>5, StateParts
<1>7. AtMostOne(d)
  <2>1. Len(d.recvString) <= 1 /\ d.state \notin {"syn", "synfin"} /\ d.c2s = << >>
    BY <1>2, <1>6 DEF AtMostOne
  <2> QED BY <2>1, Idle
<1>8. /\ x.h = http /\ x.p = player /\ x.crash = crash /\ x.r \in {retries, retries + 1} /\ Become(x)
  BY <1>1, <1>4, <1>5, StateParts
<1>9. ~http.finished
  BY <1>1, HaltedEach DEF Drained
<1> QED BY <1>1, <1>2, <1>3, <1>6, <1>7, <1>8, <1>9, HaltedDies

\* The FIN of the connection that was closed is acknowledged.  The socket
\* reports free send space, but nothing can be sent on it.
LEMMA HaltedAckFin ==
  ASSUME TypeOK, Halted(Now), ~crash, NEW k \in Conns, AckFin(k)
  PROVE  Halted(Now)' /\ (HostInv => HostInv')
<1>1. PICK x, d : /\ Calm(x) /\ Replaced(x, k, d)
                  /\ d.state = "finwait2" /\ ~d.served /\ d.c2s = << >> /\ d.left = << >>
                  /\ d.s2c = conn[k].s2c /\ d.rx = conn[k].rx /\ d.recvString = conn[k].recvString
                  /\ d.server = conn[k].server
                  /\ HostInv => Hosted(x.h, x.c, x.p)
  BY AckFinSteps
<1>2. conn[k].state = "finwait" /\ ~Blank(conn[k])
  BY AckFinSteps DEF Blank
<1>3. k <= http.opened /\ AtMostOne(conn[k]) /\ d.rx = << >> /\ (http.finished => Drained(conn[k]))
  BY <1>1, <1>2, HaltedOther, HaltedEach
<1>4. AtMostOne(d)
  <2>1. d.c2s = << >> /\ Len(d.recvString) <= 1 /\ d.state \notin {"syn", "synfin"}
    BY <1>1, <1>3 DEF AtMostOne
  <2> QED BY <2>1, Idle
<1>5. Halted(Now)'
  <2>1. ~Pending(d) /\ d.state \notin {"syn", "synfin", "est"}
    BY <1>1 DEF Pending
  <2>2. http.finished => Drained(d)
    BY <1>1, <1>3 DEF Drained, Fin
  <2> QED BY <1>1, <1>2, <1>3, <1>4, <2>1, <2>2, HaltedCalm
<1>6. Become(x)
  BY <1>1 DEF Calm
<1> QED BY <1>1, <1>5, <1>6, BecomePhase

\* The request sent on a connection opened by a late retry arrives.
LEMMA HaltedFinishedIncomingData ==
  ASSUME TypeOK, Halted(Now), ~crash, NEW k \in Conns, FinishedIncomingData(k)
  PROVE  Halted(Now)' /\ (HostInv => HostInv')
<1>1. PICK c, m, got, e, d, x :
        /\ c = conn[k] /\ m = Head(c.c2s) /\ got = Append(c.recvString, m)
        /\ e = [c EXCEPT !.c2s = Tail(@), !.recvString = got, !.left = Reply(c.server, Head(got).file)]
        /\ d = Transmit(e) /\ x = Put(k, d)
  BY ZenonT(60)
<1>2. /\ c.state \in {"est", "finwait"} /\ c.served /\ ~c.acked /\ c.c2s # << >> /\ ~Blank(conn[k])
      /\ Become(x)
  BY <1>1, ZenonT(60) DEF FinishedIncomingData, Put, Blank
<1>3. /\ k <= http.opened /\ AtMostOne(c) /\ c \in Connection
      /\ k # http.sock => c.state \notin {"syn", "synfin", "est"}
      /\ c.rx = << >> /\ ~http.finished
  <2>1. http.finished => Drained(c)
    BY <1>1, HaltedEach
  <2>2. ~http.finished
    BY <1>2, <2>1 DEF Drained
  <2>3. /\ AtMostOne(c) /\ c \in Connection /\ c.rx = << >>
        /\ k # http.sock => c.state \notin {"syn", "synfin", "est"}
    BY <1>1, HaltedEach
  <2> QED BY <1>2, <2>2, <2>3, HaltedOther
<1>4. c.recvString = << >> /\ Len(c.c2s) <= 1 /\ c.c2s \in Seq(Request)
  BY <1>2, <1>3, SMTT(40) DEF AtMostOne, Connection
<1>5. m \in Request /\ Tail(c.c2s) = << >>
  <2>1. PICK s \in Seq(Request) : s = c.c2s
    BY <1>4
  <2>2. s # << >> /\ Len(s) <= 1
    BY <1>2, <1>4, <2>1
  <2>3. Head(s) \in Request /\ Tail(s) \in Seq(Request) /\ Len(Tail(s)) = Len(s) - 1 /\ Len(s) \in Nat /\ Len(s) # 0
    BY <2>2, HeadTailProperties, EmptySeq, LenProperties
  <2>4. \A n \in Nat : n # 0 /\ n <= 1 => n - 1 = 0
    OBVIOUS
  <2>5. Len(Tail(s)) = 0
    BY <2>2, <2>3, <2>4
  <2>6. Tail(s) = << >>
    BY <2>3, <2>5, EmptySeq
  <2> QED BY <1>1, <2>1, <2>3, <2>6, ZenonT(60)
<1>6. got = <<m>> /\ got \in Seq(Request) /\ Head(got) = m /\ Len(got) = 1
  BY <1>1, <1>4, <1>5
<1>7. Reply(c.server, Head(got).file) \in Seq(Unit) /\ << >> \in Seq(Request)
  <2>1. c.server \in Servers /\ m.file \in Files
    BY <1>3, <1>5, SMTT(40) DEF Connection, Request
  <2> QED BY <1>6, <2>1, ReplyTyped
<1>8. /\ e \in Connection /\ e.state = c.state /\ e.server = c.server /\ e.c2s = << >> /\ e.recvString = got
      /\ e.rx = c.rx
  BY <1>1, <1>3, <1>5, <1>6, <1>7, ZenonT(60) DEF Connection
<1>9. /\ d \in Connection /\ d.state = c.state /\ d.server = c.server /\ d.c2s = << >> /\ d.recvString = got
      /\ d.rx = c.rx
  BY <1>1, <1>8, TransmitFields, ZenonT(60)
<1>10. AtMostOne(d)
  <2>1. Len(d.recvString) = 1
    BY <1>6, <1>9
  <2>2. Len(d.recvString) <= 1 /\ d.state \notin {"syn", "synfin"}
    BY <1>2, <1>9, <2>1
  <2> QED BY <1>9, <2>2, Idle
<1>11. x.h = http /\ x.p = player /\ x.r = retries /\ x.crash = crash /\ x.c = [conn EXCEPT ![k] = d]
  <2>1. d \in Connection /\ x = Put(k, d)
    BY <1>1, <1>9, ZenonT(60)
  <2> QED BY <2>1, ChangeOne, SMTT(40)
<1>12. Calm(x) /\ Replaced(x, k, d)
  BY <1>2, <1>9, <1>11 DEF Calm, Replaced
<1>13. Halted(Now)'
  <2>1. /\ k # http.sock => d.state \notin {"syn", "synfin", "est"}
        /\ d.rx = << >> /\ conn[k].state # "dead" /\ ~Pending(d)
    BY <1>1, <1>2, <1>3, <1>9, ZenonT(60) DEF Pending
  <2> QED BY <1>3, <1>10, <1>12, <2>1, HaltedCalm, SMTT(40)
<1>14. HostInv => Hosted(x.h, x.c, x.p)
  <2> SUFFICES ASSUME Hosted(http, conn, player) PROVE Hosted(http, x.c, player)
    BY <1>11 DEF HostInv
  <2> QED BY <1>1, <1>9, <1>12, HostedSame, ZenonT(60)
<1> QED BY <1>2, <1>13, <1>14, BecomePhase

\* An ACK never makes a server hold a second request.
LEMMA AckAtMostOne ==
  ASSUME NEW c \in Connection, AtMostOne(c), c.served, c.acked
  PROVE  LET d == AfterAck(c) IN
         /\ d \in Connection /\ d.server = c.server /\ d.state = c.state /\ d.rx = c.rx /\ d.c2s = c.c2s
         /\ AtMostOne(d)
<1>1. PICK d : d = AfterAck(c)
  OBVIOUS
<1>2. CASE c.left # << >>
  <2>1. PICK e : e = [c EXCEPT !.acked = FALSE]
    OBVIOUS
  <2>2. /\ e \in Connection /\ e.state = c.state /\ e.server = c.server /\ e.c2s = c.c2s /\ e.rx = c.rx
        /\ e.served = c.served /\ e.recvString = c.recvString
    BY <2>1 DEF Connection
  <2>3. d = Transmit(e)
    BY <1>1, <1>2, <2>1 DEF AfterAck
  <2>4. /\ d \in Connection /\ d.state = c.state /\ d.server = c.server /\ d.c2s = c.c2s /\ d.rx = c.rx
        /\ d.served = c.served /\ d.recvString = c.recvString
    BY <2>2, <2>3, TransmitFields
  <2>5. AtMostOne(d)
    BY <1>2, <2>4 DEF AtMostOne
  <2> QED BY <1>1, <2>4, <2>5
<1>3. CASE c.left = << >>
  <2>1. Len(c.recvString) <= 1
    BY DEF AtMostOne
  <2>2. /\ d \in Connection /\ d.server = c.server /\ d.state = c.state /\ d.c2s = c.c2s /\ d.rx = c.rx
        /\ d.recvString = << >>
    BY <1>1, <1>3, <2>1, AckForgets
  <2>3. Len(d.recvString) <= 1
    <3>1. Len(d.recvString) = 0
      BY <2>2
    <3> QED BY <3>1
  <2>4. AtMostOne(d)
    BY <2>2, <2>3 DEF AtMostOne
  <2> QED BY <1>1, <2>2, <2>4
<1> QED BY <1>2, <1>3

\* An ACK reaches the server.
LEMMA HaltedAck ==
  ASSUME TypeOK, Halted(Now), ~crash, NEW k \in Conns, HandleReadyToTransmit(k)
  PROVE  Halted(Now)' /\ (HostInv => HostInv')
<1>1. PICK d : d = AfterAck(conn[k])
  OBVIOUS
<1>2. conn[k].served /\ conn[k].acked /\ ~Blank(conn[k])
  BY AckSteps DEF Blank
<1>3. /\ k <= http.opened /\ AtMostOne(conn[k]) /\ conn[k] \in Connection
      /\ k # http.sock => conn[k].state \notin {"syn", "synfin", "est"}
      /\ conn[k].rx = << >> /\ (http.finished => Drained(conn[k]))
  BY <1>2, HaltedOther, HaltedEach
<1>4. /\ d \in Connection /\ d.server = conn[k].server /\ d.state = conn[k].state /\ d.rx = << >>
      /\ AtMostOne(d) /\ (Pending(d) => Pending(conn[k])) /\ (http.finished => Drained(d))
  <2>1. /\ d \in Connection /\ d.server = conn[k].server /\ d.state = conn[k].state /\ d.rx = conn[k].rx
        /\ d.c2s = conn[k].c2s /\ AtMostOne(d)
    BY <1>1, <1>2, <1>3, AckAtMostOne
  <2>2. Pending(d) => Pending(conn[k])
    BY <2>1 DEF Pending
  <2>3. http.finished => Drained(d)
    BY <1>1, <1>2, <1>3, AckDrained
  <2> QED BY <1>3, <2>1, <2>2, <2>3
<1>5. PICK x : Calm(x) /\ x.h = http /\ Replaced(x, k, d)
  BY <1>1, <1>4, AckSteps
<1>6. Halted(Now)'
  BY <1>3, <1>4, <1>5, HaltedCalm
<1>7. Become(x) /\ x.p = player
  BY <1>5 DEF Calm
<1>8. HostInv => Hosted(x.h, x.c, x.p)
  <2> SUFFICES ASSUME Hosted(http, conn, player) PROVE Hosted(http, x.c, player)
    BY <1>5, <1>7 DEF HostInv
  <2> QED BY <1>4, <1>5, HostedSame
<1> QED BY <1>6, <1>7, <1>8, BecomePhase

\* A late retry opens a connection, if the socket has been forgotten.
LEMMA HaltedRetry ==
  ASSUME TypeOK, Halted(Now), ~crash, Retry
  PROVE  Halted(Now)' /\ (~Faulty /\ HostInv => HostInv')
<1>1. CASE http.sock = NoSocket
  <2>1. PICK k : k = http.opened + 1
    OBVIOUS
  <2>2. PICK x : /\ retries > 0 /\ Become(x)
                 /\ x.p = player /\ x.r = retries - 1 /\ x.crash = crash
                 /\ ~x.h.finished /\ x.h.active = http.active /\ x.h.buf = http.buf
                 /\ k \in Conns /\ x.h.sock = k /\ x.h.opened = k
                 /\ x.h.peer = http.peer /\ x.h.host = http.host
                 /\ x.c = [conn EXCEPT ![k] =
                            [conn[k] EXCEPT !.state = "syn", !.server = http.peer, !.closeCb = TRUE]]
    BY <1>1, <2>1, RetrySteps
  <2>3. PICK d : d = [conn[k] EXCEPT !.state = "syn", !.server = http.peer, !.closeCb = TRUE]
    OBVIOUS
  <2>4. k \in Nat /\ http.opened \in Nat /\ k > http.opened /\ conn[k] \in Connection
    BY <2>1, <2>2, StateParts
  <2>5. Blank(conn[k])
    BY <2>2, <2>4, HaltedEach
  <2>6. /\ d.state = "syn" /\ d.server = http.peer /\ d.c2s = << >> /\ d.recvString = << >> /\ d.rx = << >>
    BY <2>3, <2>4, <2>5 DEF Connection, Blank
  <2>7. x.c = [conn EXCEPT ![k] = d] /\ x.c[k] = d
    BY <2>2, <2>3, StateParts
  <2>8. AtMostOne(d)
    <3>1. Len(d.c2s) = 0 /\ Len(d.recvString) = 0
      BY <2>6
    <3>2. Len(d.c2s) <= 1 /\ Len(d.recvString) <= 1
      BY <3>1
    <3> QED BY <2>6, <3>2 DEF AtMostOne
  <2>13. \A j \in Conns : ~Pending(conn[j])
    BY <2>2, HaltedEach
  <2>9. Leftover(x)
    <3>1. ASSUME NEW j \in Conns
          PROVE  Remnant(x, j, x.c[j]) /\ (j > k => Blank(x.c[j])) /\ ~Pending(x.c[j])
      <4>1. CASE j = k
        <5>1. ~(j > k) /\ ~Pending(d)
          BY <2>4, <2>6, <4>1 DEF Pending
        <5>2. Remnant(x, k, d)
          BY <2>2, <2>6, <2>8, <5>1 DEF Remnant
        <5> QED BY <2>7, <4>1, <5>1, <5>2
      <4>2. CASE j # k
        <5>1. x.c[j] = conn[j]
          BY <2>7, <4>2, StateParts
        <5>2. j # http.sock /\ (j > k => j > http.opened)
          BY <1>1, <2>1, StateParts DEF Conns, NoSocket
        <5>3. /\ AtMostOne(conn[j]) /\ conn[j].state \notin {"syn", "synfin", "est"} /\ conn[j].rx = << >>
              /\ ~Pending(conn[j]) /\ (j > k => Blank(conn[j]))
          BY <2>13, <5>2, HaltedEach
        <5>4. Remnant(x, j, conn[j])
          BY <2>2, <5>3 DEF Remnant
        <5> QED BY <5>1, <5>3, <5>4
      <4> QED BY <4>1, <4>2
    <3>2. x.h.sock \in 0..x.h.opened
      BY <2>2, <2>4
    <3> QED BY <2>2, <3>1, <3>2 DEF Leftover
  <2>10. x.r = 0
    BY <2>2, HaltedParts, StateParts
  <2>11. Halted(x)
    <3>1. Silent(x.h, x.p) /\ x.r <= 1
      BY <2>2, <2>10, HaltedParts DEF Silent
    <3>2. Reopened(x)
      BY <2>2, <2>6, <2>7, <2>10 DEF Reopened
    <3> QED BY <2>9, <3>1, <3>2, HaltedParts DEF Halted
  <2>12. HostInv => Hosted(x.h, x.c, x.p)
    BY <2>2, <2>6, <2>7 DEF HostInv, Hosted
  <2> QED BY <2>2, <2>11, <2>12, BecomePhase
<1>2. CASE http.sock # NoSocket
  <2>1. PICK j : j = http.sock
    OBVIOUS
  <2>2. retries # 0
    BY StateParts DEF Retry
  <2>3. /\ j \in Conns /\ j # NoSocket /\ Faulty /\ conn[j].state = "dead" /\ ~Blank(conn[j])
    BY <1>2, <2>1, <2>2, HaltedParts DEF Blank
  <2>4. AtMostOne(conn[j]) /\ conn[j] \in Connection /\ j <= http.opened /\ conn[j].rx = << >>
    BY <2>3, HaltedOther, HaltedEach
  <2>5. PICK x : /\ retries > 0 /\ Become(x)
                 /\ x.p = player /\ x.r = retries - 1 /\ x.crash = crash
                 /\ ~x.h.finished /\ x.h.active = http.active /\ x.h.buf = http.buf
                 /\ x.h.sock = j /\ x.h.opened = http.opened
                 /\ x.c = conn \/ x.c = [conn EXCEPT ![j] = [conn[j] EXCEPT !.closeCb = TRUE]]
    BY <1>2, <2>1, <2>3, RetrySteps
  <2>6. PICK d : Replaced(x, j, d) /\ AtMostOne(d) /\ d.state = "dead" /\ d.rx = << >>
    <3>1. CASE x.c = conn
      <4>1. conn = [conn EXCEPT ![j] = conn[j]]
        BY <2>3, StateParts
      <4> QED BY <2>3, <2>4, <3>1, <4>1 DEF Replaced
    <3>2. CASE x.c = [conn EXCEPT ![j] = [conn[j] EXCEPT !.closeCb = TRUE]]
      <4>1. PICK d : d = [conn[j] EXCEPT !.closeCb = TRUE]
        OBVIOUS
      <4>2. /\ d \in Connection /\ d.state = conn[j].state /\ d.c2s = conn[j].c2s /\ d.served = conn[j].served
            /\ d.recvString = conn[j].recvString /\ d.acked = conn[j].acked /\ d.rx = conn[j].rx
            /\ d.left = conn[j].left
        BY <2>4, <4>1 DEF Connection
      <4>3. AtMostOne(d)
        BY <2>4, <4>2 DEF AtMostOne
      <4>4. Replaced(x, j, d) /\ d.state = "dead" /\ d.rx = << >>
        BY <2>3, <2>4, <3>2, <4>1, <4>2 DEF Replaced
      <4> QED BY <4>3, <4>4
    <3> QED BY <2>5, <3>1, <3>2
  <2>7. x.r <= 1
    BY <2>5, HaltedParts, StateParts
  <2>8. Silent(x.h, x.p)
    BY <2>5, HaltedParts DEF Silent
  <2>9. x.c[j] = d
    BY <2>3, <2>6, StateParts DEF Replaced
  <2>10. Reopened(x)
    BY <2>3, <2>5, <2>6, <2>9 DEF Reopened
  <2>12. (\A i \in Conns : ~Pending(conn[i])) /\ ~Pending(d)
    BY <2>2, <2>6, HaltedEach DEF Pending
  <2>13. Remnant(x, j, d)
    BY <2>5, <2>6, <2>12 DEF Remnant
  <2>11. Halted(Now)'
    BY <2>1, <2>3, <2>4, <2>5, <2>6, <2>7, <2>8, <2>10, <2>12, <2>13, HaltedChange
  <2> QED BY <2>3, <2>11
<1> QED BY <1>1, <1>2

\* A segment that waited for room is dropped.
LEMMA HaltedOfferAgain ==
  ASSUME TypeOK, Halted(Now), ~crash, OfferAgain
  PROVE  Halted(Now)' /\ (HostInv => HostInv')
<1>1. PICK q, x : q = [player EXCEPT !.waits = @ - 1] /\ x = [Now EXCEPT !.p = q]
  OBVIOUS
<1>2. x = [Now EXCEPT !.p.waits = @ - 1]
  BY <1>1, StateParts DEF States
<1>3. x.h = http /\ x.c = conn /\ x.p = q /\ x.r = retries /\ x.crash = crash
  <2>1. x.h = Now.h /\ x.c = Now.c /\ x.p = q /\ x.r = Now.r /\ x.crash = Now.crash
    BY <1>1, StateParts DEF States
  <2> QED BY <2>1, StateParts
<1>4. Become(x)
  <2>1. OnMultimediaFile(x) = x
    BY <1>3, HaltedParts DEF OnMultimediaFile
  <2> QED BY <1>2, <2>1 DEF OfferAgain
<1>5. /\ q.played = player.played /\ q.buffer = player.buffer /\ q.status = player.status
      /\ q.download = player.download /\ q.play = player.play /\ q.mpdParsed = player.mpdParsed
  BY <1>1, StateParts DEF Players
<1>6. Silent(x.h, x.p)
  BY <1>3, <1>5, HaltedParts DEF Silent, InOrder, Shown
<1>7. Reopened(x)
  BY <1>3, HaltedParts DEF Reopened
<1>10. Leftover(x)
  <2>1. x.h = Now.h /\ x.c = Now.c /\ x.r = Now.r /\ x.crash = Now.crash
    BY <1>3, StateParts
  <2> QED BY <2>1, HaltedParts DEF Leftover, Remnant
<1>8. Halted(x)
  BY <1>3, <1>6, <1>7, <1>10, HaltedParts DEF Halted
<1>9. HostInv => Hosted(x.h, x.c, x.p)
  BY <1>3, <1>5 DEF HostInv, Hosted
<1> QED BY <1>4, <1>8, <1>9, BecomePhase

\* Data that arrives is ignored, or it is copied to a null pointer and the
\* program ends; a FIN closes this end too.
LEMMA HaltedReceive ==
  ASSUME TypeOK, Halted(Now), ~crash, NEW k \in Conns, NEW n \in 1..Len(conn[k].s2c), Receive(k, n)
  PROVE  Halted(Now)' /\ (HostInv => HostInv')
<1>1. PICK v, e : Coming(v, e, k, n)
  BY ReceiveSteps
<1>2. conn[k].state \in {"est", "finwait", "finwait2"} /\ ~Blank(conn[k])
  BY ReceiveSteps DEF Blank
<1>3. /\ k <= http.opened /\ AtMostOne(conn[k]) /\ conn[k] \in Connection /\ conn[k].rx = << >>
      /\ k # http.sock => conn[k].state \notin {"syn", "synfin", "est"}
      /\ k = http.sock => ~http.finished /\ retries = 0
      /\ http.finished => Drained(conn[k])
      /\ Pending(conn[k]) => retries = 0 /\ http.sock = NoSocket
  <2>1. k <= http.opened /\ (k = http.sock => k # NoSocket)
    BY <1>2, HaltedOther
  <2>2. k = http.sock => ~http.finished /\ retries = 0
    BY <1>2, <2>1, HaltedParts
  <2> QED BY <2>1, <2>2, HaltedEach
<1>4. /\ Typed(v) /\ v.h = http /\ v.p = player /\ v.r = retries /\ v.crash = crash
      /\ v.c = [conn EXCEPT ![k] = e] /\ v.c[k] = e /\ e \in Connection
      /\ e.state = conn[k].state /\ e.server = conn[k].server /\ e.c2s = conn[k].c2s
      /\ e.served = conn[k].served /\ e.recvString = conn[k].recvString /\ e.left = conn[k].left
      /\ e.acked = conn[k].served /\ e.rx = conn[k].rx \o Data(conn[k], n) /\ e.s2c = Rest(conn[k], n)
  BY <1>1 DEF Coming
<1>5. AtMostOne(e) /\ (Pending(e) => Pending(conn[k]))
  BY <1>3, <1>4 DEF AtMostOne, Pending
<1>9. http.finished => Ended(conn[k], n) /\ e.rx = << >> /\ e.s2c = << >> /\ ~conn[k].served
  <2> SUFFICES ASSUME http.finished
               PROVE  Ended(conn[k], n) /\ e.rx = << >> /\ e.s2c = << >> /\ ~conn[k].served
    OBVIOUS
  <2>1. Ended(conn[k], n) /\ Data(conn[k], n) = << >> /\ Rest(conn[k], n) = << >> /\ ~conn[k].served
    BY <1>3, FinAlone
  <2>2. << >> \o << >> = << >>
    OBVIOUS
  <2> QED BY <1>3, <1>4, <2>1, <2>2
<1>6. PICK x : x = HandleRead(v, k)
  OBVIOUS
<1>7. CASE ~http.finished /\ e.rx # << >>
  <2>1. x = [v EXCEPT !.crash = TRUE]
    BY <1>4, <1>6, <1>7, HaltedParts DEF HandleRead
  <2>2. x.h = v.h /\ x.p = v.p /\ x.r = v.r /\ x.c = v.c /\ x.crash = TRUE
    BY <1>4, <2>1 DEF Typed, States
  <2>3. Become(x)
    BY <1>1, <1>6, <2>2 DEF Coming
  <2>4. Replaced(x, k, e) /\ x.h = http /\ x.p = player /\ x.r = retries
    BY <1>4, <2>2 DEF Replaced
  <2>5. Silent(x.h, x.p) /\ x.r <= 1
    BY <2>4, HaltedParts
  <2>6. Reopened(x)
    <3> SUFFICES ASSUME http.sock # NoSocket
                 PROVE  ~http.finished /\ (retries = 0 \/ (Faulty /\ x.c[http.sock].state = "dead"))
      BY <2>2, <2>4 DEF Reopened
    <3>1. k # http.sock => x.c[http.sock] = conn[http.sock]
      BY <2>4, HaltedParts, StateParts DEF Replaced
    <3> QED BY <1>3, <3>1, HaltedParts
  <2>7. Halted(Now)'
    <3>1. /\ k # http.sock => e.state \notin {"syn", "synfin", "est"}
          /\ x.h.sock = http.sock /\ x.h.opened = http.opened /\ (x.h.finished => http.finished)
      BY <1>3, <1>4, <2>4
    <3>2. Remnant(x, k, e)
      BY <1>3, <1>5, <1>7, <2>2, <2>4, <3>1 DEF Remnant
    <3> QED BY <1>3, <1>5, <2>3, <2>4, <2>5, <2>6, <3>1, <3>2, HaltedChange
  <2>8. HostInv => Hosted(x.h, x.c, x.p)
    <3> SUFFICES ASSUME Hosted(http, conn, player) PROVE Hosted(http, x.c, player)
      BY <2>4 DEF HostInv
    <3> QED BY <1>4, <2>4, HostedSame
  <2> QED BY <2>3, <2>7, <2>8, BecomePhase
<1>8. CASE http.finished \/ e.rx = << >>
  <2>1. x = v /\ ~x.crash
    BY <1>4, <1>6, <1>8 DEF HandleRead
  <2>2. e.rx = << >>
    BY <1>8, <1>9
  <2>3. CASE ~Ended(conn[k], n)
    <3>1. Become(v)
      BY <1>1, <1>6, <2>1, <2>3 DEF Coming
    <3>2. Calm(v) /\ Replaced(v, k, e)
      BY <1>4, <3>1 DEF Calm, Replaced
    <3>3. /\ k # http.sock => e.state \notin {"syn", "synfin", "est"}
          /\ e.rx = << >> /\ conn[k].state # "dead" /\ ~http.finished
      BY <1>2, <1>3, <1>4, <1>9, <2>2, <2>3
    <3>4. Halted(Now)'
      BY <1>3, <1>5, <3>2, <3>3, HaltedCalm
    <3>5. HostInv => Hosted(v.h, v.c, v.p)
      <4> SUFFICES ASSUME Hosted(http, conn, player) PROVE Hosted(http, v.c, player)
        BY <1>4 DEF HostInv
      <4> QED BY <1>4, <3>2, HostedSame
    <3> QED BY <3>1, <3>4, <3>5, BecomePhase
  <2>4. CASE Ended(conn[k], n)
    <3>1. PICK y : y = ConnectionClosedNormal(v, k)
      OBVIOUS
    <3>2. Become(y)
      BY <1>1, <1>6, <2>1, <2>4, <3>1 DEF Coming
    <3>3. PICK d : d = [e EXCEPT !.state = "closed", !.closeCb = FALSE]
      OBVIOUS
    <3>4. /\ d \in Connection /\ d.state = "closed" /\ d.server = e.server /\ d.c2s = e.c2s /\ d.rx = e.rx
          /\ d.s2c = e.s2c
          /\ d.served = e.served /\ d.recvString = e.recvString /\ d.left = e.left /\ d.acked = e.acked
      BY <1>4, <3>3 DEF Connection
    <3>5. AtMostOne(d)
      BY <1>5, <3>4 DEF AtMostOne
    <3>6. /\ y.h = v.h /\ y.p = v.p /\ y.r = v.r /\ y.crash = v.crash
          /\ y.c = [v.c EXCEPT ![k] = [v.c[k] EXCEPT !.state = "closed", !.closeCb = FALSE]]
      <4>1. v.c[k].state # "syn" /\ v.c[k].rx = << >>
        BY <1>2, <1>4, <2>2
      <4>2. Typed(v)
        BY <1>4
      <4> QED BY <3>1, <4>1, <4>2, CloseBehind
    <3>7. y.h = http /\ y.p = player /\ y.r = retries /\ y.crash = crash /\ y.c = [conn EXCEPT ![k] = d]
      BY <1>4, <3>3, <3>6, StateParts, ZenonT(60)
    <3>8. Calm(y) /\ Replaced(y, k, d)
      BY <3>2, <3>4, <3>7 DEF Calm, Replaced
    <3>9. /\ d.state \notin {"syn", "synfin", "est"} /\ ~Pending(d)
          /\ d.rx = << >> /\ conn[k].state # "dead"
      BY <1>2, <2>2, <3>4 DEF Pending
    <3>12. http.finished => Drained(d)
      BY <1>3, <1>4, <1>9, <3>4 DEF Drained
    <3>10. Halted(Now)'
      BY <1>3, <3>5, <3>8, <3>9, <3>12, HaltedCalm
    <3>11. HostInv => Hosted(y.h, y.c, y.p)
      <4> SUFFICES ASSUME Hosted(http, conn, player) PROVE Hosted(http, y.c, player)
        BY <3>7 DEF HostInv
      <4>1. d.server = conn[k].server
        BY <1>4, <3>4
      <4> QED BY <3>8, <4>1, HostedSame
    <3> QED BY <3>2, <3>10, <3>11, BecomePhase
  <2> QED BY <2>3, <2>4
<1> QED BY <1>7, <1>8

\* A stopped client stays halted.
LEMMA HaltedNext ==
  ASSUME TypeOK, Halted(Now), [Next]_vars
  PROVE  Halted(Now)' /\ (~Faulty /\ ~EarlyRedirect /\ HostInv => HostInv')
<1>1. CASE UNCHANGED vars
  <2>1. Halted(Now)'
    BY <1>1, PhaseStays DEF vars
  <2>2. HostInv' <=> HostInv
    BY <1>1 DEF vars, HostInv, Hosted
  <2> QED BY <2>1, <2>2
<1>2. ASSUME ~crash, Network
      PROVE  Halted(Now)' /\ (HostInv => HostInv')
  <2>1. PICK k \in Conns : \/ ConnectionComplete(k)
                           \/ \E n \in 1..Len(conn[k].s2c) : Receive(k, n)
                           \/ AckFin(k)
                           \/ FinishedIncomingData(k)
                           \/ HandleReadyToTransmit(k)
    BY <1>2 DEF Network
  <2> QED BY <1>2, <2>1, HaltedConnectionComplete, HaltedReceive, HaltedAckFin,
             HaltedFinishedIncomingData, HaltedAck
<1>3. ASSUME ~crash, Faults
      PROVE  Halted(Now)' /\ Faulty
  BY <1>3, HaltedConnectGivenUp, HaltedRetransmitExhausted DEF Faults
<1>4. ASSUME ~crash, Retry
      PROVE  Halted(Now)' /\ (~Faulty /\ HostInv => HostInv')
  BY <1>4, HaltedRetry
<1>5. ASSUME ~crash, OfferAgain
      PROVE  Halted(Now)' /\ (HostInv => HostInv')
  BY <1>5, HaltedOfferAgain
<1>6. ASSUME NEW s \in Servers, Redirect(s)
      PROVE  Halted(Now)' /\ (~EarlyRedirect /\ HostInv => HostInv')
  <2>1. UNCHANGED <<http, conn, player, retries, crash>> /\ (~EarlyRedirect => player.mpdParsed)
    BY <1>6 DEF Redirect
  <2>2. ~EarlyRedirect /\ HostInv => HostInv'
    BY <2>1 DEF HostInv, Hosted
  <2> QED BY <2>1, <2>2, PhaseStays
<1>7. /\ ~Start /\ ~Stop /\ ~DownloadSegment /\ ~DownloadIdle /\ ~DownloadedAll
      /\ ~Play /\ ~PlayedAll /\ ~Stall /\ ~StallAborts
  BY HaltedParts DEF Start, Stop, DownloadSegment, DownloadIdle, DownloadedAll, Play, PlayedAll, Stall, StallAborts
<1> QED BY <1>1, <1>2, <1>3, <1>4, <1>5, <1>6, <1>7 DEF Next, Timers

-----------------------------------------------------------------------------
(* The theorems *)

\* The phases follow each other: a client that works goes on or breaks or is
\* stopped, a broken one is stopped.  No connection that is kept alive leads to
\* the wrong server unless one breaks.
LEMMA FaultNext ==
  ASSUME ~Layered, FaultInv, [Next]_vars
  PROVE  FaultInv' /\ (~Faulty /\ ~EarlyRedirect /\ HostInv => HostInv')
<1>1. TypeOK /\ TypeOK' /\ ~StallAborts
  BY TypeNext DEF FaultInv, StallAborts
<1>2. CASE Good(Now)
  <2>1. ClientInv
    BY <1>1, <1>2 DEF ClientInv
  <2>2. CASE ~Stop /\ ~Faults
    <3>1. ClientInv' /\ (~EarlyRedirect /\ HostInv => HostInv')
      BY <1>1, <2>1, <2>2, InvNext
    <3> QED BY <3>1 DEF ClientInv, FaultInv
  <2>3. CASE Stop
    BY <1>1, <2>1, <2>3, GoodStop DEF FaultInv
  <2>4. CASE Faults
    <3>1. PICK k \in Conns : ConnectGivenUp(k) \/ RetransmitExhausted(k)
      BY <2>4 DEF Faults
    <3>2. Faulty
      BY <3>1 DEF ConnectGivenUp, RetransmitExhausted
    <3>3. Broken(Now)'
      BY <2>1, <3>1, ConnectGivenUpBreaks, RetransmitExhaustedBreaks
    <3> QED BY <1>1, <3>2, <3>3 DEF FaultInv
  <2> QED BY <2>2, <2>3, <2>4
<1>3. CASE Broken(Now)
  <2>1. Faulty
    BY <1>3 DEF Broken
  <2> QED BY <1>1, <1>3, <2>1, BrokenNext DEF FaultInv
<1>4. CASE Halted(Now)
  BY <1>1, <1>4, HaltedNext DEF FaultInv
<1> QED BY <1>2, <1>3, <1>4 DEF FaultInv

\* Each phase gives the properties of the files, the player and the servers.
LEMMA FaultMeans ==
  ASSUME FaultInv
  PROVE  ReceivedIsRequested /\ PlaybackInOrder /\ NoDownloadMeanwhile /\ OneRequestAtATime
<1>1. TypeOK /\ player \in Players
  BY StateParts DEF FaultInv
<1>2. CASE Good(Now)
  <2>1. ClientInv
    BY <1>1, <1>2 DEF ClientInv
  <2> QED BY <2>1, InvMeans, InvOneRequest
<1>3. CASE Broken(Now)
  <2>1. PlaybackInOrder
    BY <1>1, <1>3, BrokenParts, OrderMeans
  <2>2. ReceivedIsRequested /\ NoDownloadMeanwhile
    BY <1>1, <1>3, BrokenParts DEF ReceivedIsRequested, NoDownloadMeanwhile
  <2>3. OneRequestAtATime
    <3> SUFFICES ASSUME NEW k \in Conns
                 PROVE  Len(conn[k].c2s) <= 1 /\ Len(conn[k].recvString) <= 1
      BY DEF OneRequestAtATime
    <3>1. CASE k = http.sock
      <4>1. Len(conn[k].c2s) = 0 /\ Len(conn[k].recvString) <= 1
        BY <1>1, <1>3, <3>1, BrokenParts DEF Useless
      <4> QED BY <4>1
    <3>2. CASE k # http.sock
      <4>1. Elsewhere(http, conn) /\ http.opened \in Nat
        BY <1>1, <1>3, BrokenParts, StateParts
      <4> QED BY <3>2, <4>1, Others DEF AtMostOne
    <3> QED BY <3>1, <3>2
  <2> QED BY <2>1, <2>2, <2>3
<1>4. CASE Halted(Now)
  <2>1. PlaybackInOrder
    BY <1>1, <1>4, HaltedParts, OrderMeans
  <2>2. ReceivedIsRequested /\ NoDownloadMeanwhile
    BY <1>1, <1>4, HaltedParts DEF ReceivedIsRequested, NoDownloadMeanwhile
  <2>3. OneRequestAtATime
    BY <1>1, <1>4, HaltedEach DEF AtMostOne, OneRequestAtATime
  <2> QED BY <2>1, <2>2, <2>3
<1> QED BY <1>2, <1>3, <1>4 DEF FaultInv

\* With faults and stops, the client always works, is broken or is halted.
THEOREM FaultInvHolds == ~Layered /\ Spec => []FaultInv
<1>1. CASE ~Layered
  <2>1. Init => FaultInv
    BY InvInit DEF ClientInv, FaultInv
  <2>2. FaultInv /\ [Next]_vars => FaultInv'
    BY <1>1, FaultNext
  <2> QED BY <2>1, <2>2, PTL DEF Spec
<1>2. CASE Layered
  BY <1>2
<1> QED BY <1>1, <1>2

\* The application runs and its connection attempt has failed, or its connection
\* has been reset.
Failed ==
  player.status = "running" /\ http.sock # NoSocket /\ conn[http.sock].state = "dead"

\* Then it is broken.
LEMMA FailedBroken ==
  ASSUME FaultInv, Failed
  PROVE  Broken(Now)
<1>1. TypeOK
  BY SMTT(40) DEF FaultInv
<1>2. ~Good(Now)
  <2> SUFFICES ASSUME Good(Now) PROVE FALSE
    OBVIOUS
  <2>1. ClientInv /\ player.status # "new"
    BY <1>1 DEF ClientInv, Failed
  <2>2. Stage(http, conn[http.sock])
    BY <2>1, Running
  <2> QED BY <2>2, ZenonT(60) DEF Failed, Stage, Connecting, Asked, Answering, Refusing, Stuck, Done
<1>3. ~Halted(Now)
  BY <1>1, HaltedParts DEF Failed
<1> QED BY <1>2, <1>3 DEF FaultInv

\* A client whose connection attempt or request has failed never gets another
\* file.  Its close callback (ConnectionClosedError) has scheduled a retry, but
\* TryEstablishConnection finds the dead socket in m_socket and opens none: the
\* client keeps it until it is stopped, whatever arrives and however often it
\* retries.
THEOREM FailedForGood ==
  ~Layered /\ Spec => [][Failed => (Failed' /\ ~http'.finished) \/ player'.status = "stopped"]_vars
<1>1. CASE ~Layered
  <2>1. FaultInv /\ [Next]_vars
          => [Failed => (Failed' /\ ~http'.finished) \/ player'.status = "stopped"]_vars
    <3> SUFFICES ASSUME FaultInv, [Next]_vars, Failed
                 PROVE  (Failed' /\ ~http'.finished) \/ player'.status = "stopped"
      OBVIOUS
    <3>1. TypeOK /\ TypeOK' /\ ~StallAborts
      BY <1>1, TypeNext DEF FaultInv, StallAborts
    <3>2. Broken(Now)' \/ Halted(Now)'
      BY <3>1, FailedBroken, BrokenNext
    <3>3. Broken(Now)' => Failed' /\ ~http'.finished
      <4>1. Broken(Now)' => /\ player'.status = "running" /\ http'.sock \in 1..http'.opened
                            /\ Useless(conn'[http'.sock]) /\ ~http'.finished
        BY DEF Broken, Now
      <4>2. http'.sock \in 1..http'.opened => http'.sock # NoSocket
        BY DEF NoSocket
      <4> QED BY <4>1, <4>2 DEF Failed, Useless
    <3>4. Halted(Now)' => player'.status = "stopped"
      BY DEF Halted, Silent, Now
    <3> QED BY <3>2, <3>3, <3>4
  <2>2. Spec => []FaultInv
    BY <1>1, FaultInvHolds
  <2> QED BY <2>1, <2>2, PTL DEF Spec
<1>2. CASE Layered
  BY <1>2
<1> QED BY <1>1, <1>2

\* A file counts as received only when all that was counted towards it belongs
\* to the file that was requested (HandleRead, OnFileReceived), across redirects,
\* reused connections, 404 replies, connections that break, and a stop.
THEOREM ReceivedIsRequestedHolds == ~Layered /\ Spec => []ReceivedIsRequested
BY FaultInvHolds, FaultMeans, PTL

\* The segments are played in order, none twice and none left out
\* (OnMultimediaFile, DoPlay), whatever breaks.
THEOREM PlaybackInOrderHolds == ~Layered /\ Spec => []PlaybackInOrder
BY FaultInvHolds, FaultMeans, PTL

\* Nothing is downloaded while a segment waits for room (OnMultimediaFile).
THEOREM NoDownloadMeanwhileHolds == ~Layered /\ Spec => []NoDownloadMeanwhile
BY FaultInvHolds, FaultMeans, PTL

\* A server never holds two requests of a connection (FinishedIncomingData),
\* though a retry may send a request anew.
THEOREM OneRequestAtATimeHolds == ~Layered /\ Spec => []OneRequestAtATime
BY FaultInvHolds, FaultMeans, PTL

\* If no connection breaks and the entry changes only after the MPD has
\* arrived, a connection that is kept alive leads to the host of the last
\* request (DoSendGetRequest): no redirect is lost, not even around a stop.
THEOREM KeptAliveToHostHolds ==
  ~Faulty /\ ~Layered /\ ~EarlyRedirect /\ Spec => []KeptAliveToHost
<1>1. CASE ~Faulty /\ ~Layered /\ ~EarlyRedirect
  <2>1. Init => FaultInv /\ HostInv
    BY InvInit DEF ClientInv, FaultInv
  <2>2. FaultInv /\ HostInv /\ [Next]_vars => (FaultInv /\ HostInv)'
    BY <1>1, FaultNext
  <2>3. FaultInv /\ HostInv => KeptAliveToHost
    BY HostMeans
  <2> QED BY <2>1, <2>2, <2>3, PTL DEF Spec
<1>2. CASE ~(~Faulty /\ ~Layered /\ ~EarlyRedirect)
  BY <1>2
<1> QED BY <1>1, <1>2

=============================================================================
