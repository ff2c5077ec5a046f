------------------------ MODULE ServerRegistryProofs ------------------------
(***************************************************************************)
(* Proofs about ServerRegistry, for any number of connections, videos and  *)
(* packets.  The invariants of the module are not inductive: which finish  *)
(* events are under way has to be bounded by what TCP has reported of the  *)
(* connection they are for, and ids have to be used once (RegInv).         *)
(***************************************************************************)
EXTENDS ServerRegistry, FiniteSetTheorems, TLAPS

\* How often the close of a connection has been reported: once by
\* NotifyNormalClose, and once more if retransmissions ran out.
Weight(s) == (IF s.notified THEN 1 ELSE 0) + (IF s.state = "dropped" THEN 1 ELSE 0)

AcceptedSockets == {k \in Sockets : sock[k].id # 0}

\* Ids are counted up, one per accepted connection.
IdsUsedOnce ==
  /\ Cardinality(AcceptedSockets) = lastSocketID - 1
  /\ \A k \in Sockets : sock[k].id < lastSocketID
  /\ \A k, l \in Sockets : sock[k].id # 0 /\ sock[k].id = sock[l].id => k = l
  /\ \A i \in Ids : i >= lastSocketID => finish[i] = 0
  /\ phase = "init" => lastSocketID = 1

\* No more finish events than closes reported.
FinishBounded ==
  \A k \in Sockets : sock[k].id # 0 => finish[sock[k].id] <= Weight(sock[k])

\* Callbacks are set only on a connection whose close is not reported.
CallbacksOpen ==
  \A k \in Sockets : sock[k].callbacks => sock[k].id # 0 /\ Weight(sock[k]) = 0

NotYetAccepted ==
  \A k \in Sockets :
    sock[k].state \in {"none", "SYN_RCVD"} => sock[k].id = 0 /\ ~sock[k].notified

NoneBeforeStart ==
  phase = "init" => \A k \in Sockets : sock[k].state = "none"

Chains ==
  /\ kind = "edge" => chains = videos
  /\ kind = "cloud" => videos = 0 /\ chains = IF phase = "init" THEN 0 ELSE 1

Reported == reported = lastBytes /\ lastBytes <= bytes

SocketInv ==
  /\ IdsUsedOnce /\ FinishBounded /\ CallbacksOpen /\ NotYetAccepted
  /\ NoneBeforeStart /\ OpenKeepsObject

\* The inductive invariant.
RegInv == TypeOK /\ SocketInv /\ Chains /\ Reported

-----------------------------------------------------------------------------
\* Cardinality(Sockets), and with it Ids, is a number.
LEMMA SocketsNat == Cardinality(Sockets) \in Nat /\ Ids \subseteq Nat
  BY RegistryAssumption, FS_CardinalityType DEF Ids

LEMMA WeightType ==
  ASSUME NEW s \in Socket
  PROVE  Weight(s) \in 0..2
  BY DEF Weight, Socket

\* RegInv holds in the initial states.
LEMMA InitInv == Init => RegInv
<1> SUFFICES ASSUME Init PROVE RegInv
  OBVIOUS
<1>1. AcceptedSockets = {}
  BY DEF Init, AcceptedSockets
<1>2. TypeOK
  <2>1. sock \in [Sockets -> Socket]
    BY DEF Init, Socket, TcpState
  <2>2. finish \in [Ids -> 0..2]
    BY DEF Init
  <2>3. lastSocketID \in 1..(Cardinality(Sockets) + 1)
    BY SocketsNat DEF Init
  <2>4. videos \in 0..MaxVideos /\ chains \in 0..(MaxVideos + 1)
    BY RegistryAssumption DEF Init
  <2>5. {bytes, lastBytes, reported} \subseteq 0..MaxBytes
    BY RegistryAssumption DEF Init
  <2> QED
    BY <2>1, <2>2, <2>3, <2>4, <2>5 DEF Init, TypeOK
<1>3. IdsUsedOnce
  BY <1>1, SocketsNat, FS_EmptySet DEF Init, IdsUsedOnce, Ids
<1>4. FinishBounded /\ CallbacksOpen /\ NotYetAccepted /\ NoneBeforeStart
  BY DEF Init, FinishBounded, CallbacksOpen, NotYetAccepted, NoneBeforeStart
<1>5. OpenKeepsObject
  BY DEF Init, OpenKeepsObject, Accepted
<1>6. Chains /\ Reported
  BY RegistryAssumption DEF Init, Chains, Reported
<1> QED
  BY <1>2, <1>3, <1>4, <1>5, <1>6 DEF RegInv, SocketInv

-----------------------------------------------------------------------------
\* A socket event keeps the invariant if it keeps the id, never takes a reported
\* close back, reports one more close when it schedules a finish event, and
\* sets no callbacks.
LEMMA SocketEventInv ==
  ASSUME RegInv, NEW k \in Sockets, NEW s \in Socket,
         sock' = [sock EXCEPT ![k] = s],
         \/ finish' = finish
         \/ /\ sock[k].id # 0 /\ Weight(s) > Weight(sock[k])
            /\ finish' = [finish EXCEPT ![sock[k].id] = @ + 1],
         dangling' \in BOOLEAN, UNCHANGED <<registry, activeClients>>,
         s.id = sock[k].id, Weight(s) >= Weight(sock[k]),
         s.callbacks => sock[k].callbacks /\ Weight(s) = 0,
         s.state \in {"none", "SYN_RCVD"} => s.id = 0 /\ ~s.notified,
         s.state # "none" => phase # "init"
  PROVE  RegInv'
<1> DEFINE i == sock[k].id
           closed == finish' # finish
<1>1. /\ sock' = [sock EXCEPT ![k] = s]
      /\ closed => i # 0 /\ Weight(s) > Weight(sock[k])
                   /\ finish' = [finish EXCEPT ![i] = @ + 1]
      /\ UNCHANGED <<registry, activeClients>>
  OBVIOUS
<1>2. TypeOK /\ SocketInv /\ Chains /\ Reported
  BY DEF RegInv
<1>3. sock \in [Sockets -> Socket] /\ finish \in [Ids -> 0..2]
  BY <1>2 DEF TypeOK
<1>4. sock' \in [Sockets -> Socket] /\ sock'[k] = s
      /\ \A l \in Sockets : l # k => sock'[l] = sock[l]
  BY <1>1, <1>3
<1>5. i \in Ids \cup {0}
  BY <1>3 DEF Socket
<1>6. Weight(s) \in 0..2 /\ Weight(sock[k]) \in 0..2
  BY <1>3, WeightType
<1>7. i # 0 => finish[i] <= Weight(sock[k]) /\ finish[i] \in 0..2
  BY <1>2, <1>3, <1>5 DEF SocketInv, FinishBounded
<1>8. closed => finish[i] + 1 <= Weight(s) /\ finish[i] + 1 \in 0..2
  BY <1>1, <1>6, <1>7
<1>9. finish' \in [Ids -> 0..2]
  <2>1. CASE closed
    BY <2>1, <1>1, <1>3, <1>5, <1>8
  <2>2. CASE ~closed
    BY <2>2, <1>3
  <2> QED
    BY <2>1, <2>2
<1>10. \A l \in Sockets : sock'[l].id = sock[l].id
  BY <1>4
<1>11. TypeOK'
  BY <1>1, <1>2, <1>4, <1>9 DEF TypeOK, registry
<1>12. IdsUsedOnce'
  <2>1. AcceptedSockets' = AcceptedSockets
    BY <1>10 DEF AcceptedSockets
  <2>2. i < lastSocketID
    BY <1>2 DEF SocketInv, IdsUsedOnce
  <2>3. \A j \in Ids : j >= lastSocketID => finish'[j] = finish[j]
    BY <1>1, <1>3, <1>5, <2>2, SocketsNat, <1>2 DEF TypeOK
  <2> QED
    BY <1>1, <1>2, <1>10, <2>1, <2>3 DEF SocketInv, IdsUsedOnce, registry
<1>13. FinishBounded'
  <2> SUFFICES ASSUME NEW l \in Sockets, sock'[l].id # 0
               PROVE  finish'[sock'[l].id] <= Weight(sock'[l])
    BY DEF FinishBounded, Weight
  <2>1. CASE l = k
    BY <2>1, <1>1, <1>3, <1>4, <1>5, <1>6, <1>7, <1>8
  <2>2. CASE l # k
    <3>1. sock[l].id # i /\ sock'[l] = sock[l]
      BY <2>2, <1>2, <1>4, <1>10 DEF SocketInv, IdsUsedOnce
    <3>2. sock[l].id \in Ids
      BY <3>1, <1>3 DEF Socket
    <3>3. finish'[sock[l].id] = finish[sock[l].id]
      BY <3>1, <3>2, <1>1, <1>3
    <3> QED
      BY <3>1, <3>3, <1>2 DEF SocketInv, FinishBounded
  <2> QED
    BY <2>1, <2>2
<1>14. CallbacksOpen'
  BY <1>2, <1>4 DEF SocketInv, CallbacksOpen
<1>15. NotYetAccepted'
  BY <1>2, <1>4 DEF SocketInv, NotYetAccepted
<1>16. NoneBeforeStart'
  BY <1>1, <1>2, <1>4 DEF SocketInv, NoneBeforeStart, registry
<1>17. OpenKeepsObject'
  <2> SUFFICES ASSUME NEW l \in Sockets, Accepted(l)', ~IsClosed(l)'
               PROVE  sock'[l].id \in activeClients'
    BY DEF OpenKeepsObject
  <2>1. ~IsClosed(l)
    BY <1>4, <1>6 DEF IsClosed, Weight
  <2>2. Accepted(l)
    BY <1>10 DEF Accepted
  <2> QED
    BY <2>1, <2>2, <1>1, <1>2, <1>10 DEF SocketInv, OpenKeepsObject
<1>18. Chains' /\ Reported'
  BY <1>1, <1>2 DEF Chains, Reported, registry
<1> QED
  BY <1>11, <1>12, <1>13, <1>14, <1>15, <1>16, <1>17, <1>18 DEF RegInv, SocketInv

-----------------------------------------------------------------------------
\* The events of TCP.

LEMMA NotifiedFacts ==
  ASSUME NEW s \in Socket, s.state # "dropped"
  PROVE  /\ Notified(s) \in Socket /\ Notified(s).id = s.id
         /\ Notified(s).state = s.state /\ Notified(s).notified
         /\ Notified(s).callbacks => s.callbacks /\ s.notified
         /\ s.notified => Weight(Notified(s)) = Weight(s)
         /\ ~s.notified => Weight(Notified(s)) = 1 /\ Weight(s) = 0
<1>1. CASE s.notified
  BY <1>1 DEF Notified
<1>2. CASE ~s.notified
  <2>1. Notified(s) = [[s EXCEPT !.notified = TRUE] EXCEPT !.callbacks = FALSE]
    BY <1>2 DEF Notified, ConnectionClosed
  <2>2. /\ Notified(s) \in Socket /\ Notified(s).id = s.id
        /\ Notified(s).state = s.state
    BY <2>1 DEF Socket
  <2>3. Notified(s).notified /\ ~Notified(s).callbacks
    BY <2>1 DEF Socket
  <2>4. Weight(Notified(s)) = 1 /\ Weight(s) = 0
    BY <1>2, <2>2, <2>3 DEF Weight
  <2> QED
    BY <1>2, <2>2, <2>3, <2>4
<1> QED
  BY <1>1, <1>2

\* A close that TCP reports keeps the invariant.
LEMMA ClosesInv ==
  ASSUME RegInv, NEW k \in Sockets, NEW t \in TcpState,
         t \notin {"none", "SYN_RCVD", "dropped"},
         sock[k].state \notin {"none", "dropped"},
         SocketEvent(k, Notified([sock[k] EXCEPT !.state = t]), TRUE, ~sock[k].notified)
  PROVE  RegInv'
<1> DEFINE s == [sock[k] EXCEPT !.state = t]
<1>1. sock[k] \in Socket
  BY DEF RegInv, TypeOK
<1>2. /\ s \in Socket /\ s.id = sock[k].id /\ s.state = t
      /\ s.notified = sock[k].notified /\ s.callbacks = sock[k].callbacks
      /\ Weight(s) = Weight(sock[k])
  BY <1>1 DEF Socket, Weight
<1>3. sock[k].notified \in BOOLEAN /\ Weight(sock[k]) \in 0..2
  BY <1>1, WeightType DEF Socket
<1>4. sock[k].callbacks => ~sock[k].notified
  BY DEF RegInv, SocketInv, CallbacksOpen, Weight
<1> DEFINE n == Notified(s)
<1>5. /\ n \in Socket /\ n.id = sock[k].id /\ n.state = t /\ ~n.callbacks
      /\ sock[k].notified => Weight(n) = Weight(sock[k])
      /\ ~sock[k].notified => Weight(n) = 1 /\ Weight(sock[k]) = 0
  <2> HIDE DEF s
  <2> QED
    BY <1>2, <1>4, NotifiedFacts
<1>6. phase # "init"
  BY DEF RegInv, SocketInv, NoneBeforeStart
<1>7. /\ sock' = [sock EXCEPT ![k] = n]
      /\ UNCHANGED <<registry, activeClients>>
      /\ \/ finish' = finish
         \/ /\ sock[k].id # 0 /\ ~sock[k].notified
            /\ finish' = [finish EXCEPT ![sock[k].id] = @ + 1]
  BY DEF SocketEvent
<1>8. dangling' \in BOOLEAN
  BY DEF SocketEvent
<1>9. Weight(n) >= Weight(sock[k])
      /\ (~sock[k].notified => Weight(n) > Weight(sock[k]))
  BY <1>3, <1>5
<1> HIDE DEF n
<1> QED
  BY <1>5, <1>6, <1>7, <1>8, <1>9, SocketEventInv

\* The other changes of a socket leave its id and what was reported alone.
LEMMA QuietInv ==
  ASSUME RegInv, NEW k \in Sockets, NEW s \in Socket, NEW calls \in BOOLEAN,
         SocketEvent(k, s, calls, FALSE),
         s.id = sock[k].id, s.notified = sock[k].notified,
         s.callbacks => sock[k].callbacks,
         s.state # "dropped", sock[k].state # "dropped",
         s.state \in {"none", "SYN_RCVD"} => sock[k].state \in {"none", "SYN_RCVD"},
         phase # "init"
  PROVE  RegInv'
<1>1. sock[k] \in Socket
  BY DEF RegInv, TypeOK
<1>2. Weight(s) = Weight(sock[k]) /\ Weight(s) \in 0..2
  BY <1>1, WeightType DEF Weight
<1>3. s.callbacks => Weight(s) = 0
  BY <1>2 DEF RegInv, SocketInv, CallbacksOpen
<1>4. s.state \in {"none", "SYN_RCVD"} => s.id = 0 /\ ~s.notified
  BY DEF RegInv, SocketInv, NotYetAccepted
<1>5. /\ sock' = [sock EXCEPT ![k] = s] /\ finish' = finish
      /\ dangling' \in BOOLEAN /\ UNCHANGED <<registry, activeClients>>
  BY DEF SocketEvent
<1>6. Weight(s) >= Weight(sock[k])
  BY <1>2
<1>7. s.callbacks => sock[k].callbacks /\ Weight(s) = 0
  BY <1>3
<1> QED
  BY <1>4, <1>5, <1>6, <1>7, SocketEventInv

-----------------------------------------------------------------------------
\* One report adds what was counted since the last: afterwards all is reported.
LEMMA ReportStatsFacts ==
  ASSUME RegInv, NEW n \in Nat, ReportStats(n)
  PROVE  reported' = bytes /\ lastBytes' = bytes /\ chains' = n + 1
<1>1. reported = lastBytes /\ reported \in Nat /\ bytes \in Nat
  BY RegistryAssumption DEF RegInv, TypeOK, Reported
<1> QED
  BY <1>1 DEF ReportStats

\* The steps of the application leave the sockets alone.
LEMMA ApplicationInv == RegInv /\ Application => RegInv'
<1> SUFFICES ASSUME RegInv, Application PROVE RegInv'
  OBVIOUS
<1> USE RegistryAssumption
<1>1. TypeOK /\ SocketInv /\ Chains /\ Reported
  BY DEF RegInv
<1>2. /\ videos \in 0..MaxVideos /\ chains \in 0..(MaxVideos + 1)
      /\ bytes \in 0..MaxBytes /\ lastBytes \in 0..MaxBytes /\ reported \in 0..MaxBytes
  BY <1>1 DEF TypeOK
<1>3. /\ UNCHANGED <<kind, activeClients, sock, finish, dangling>>
      /\ phase' \in {"init", "running", "stopped"}
      /\ phase' = "init" => phase = "init"
  BY <1>1 DEF Application, StartApplication, StopApplication, AddVideo,
              ReportEvent, Trace, TypeOK
<1>4. lastSocketID' = lastSocketID
  BY <1>1 DEF Application, StartApplication, StopApplication, AddVideo,
              ReportEvent, Trace, SocketInv, IdsUsedOnce
<1>5. SocketInv'
  <2>1. AcceptedSockets' = AcceptedSockets
    BY <1>3 DEF AcceptedSockets
  <2>2. IdsUsedOnce'
    BY <1>1, <1>3, <1>4, <2>1 DEF SocketInv, IdsUsedOnce
  <2>3. FinishBounded' /\ CallbacksOpen' /\ NotYetAccepted'
    BY <1>1, <1>3 DEF SocketInv, FinishBounded, CallbacksOpen, NotYetAccepted, Weight
  <2>4. NoneBeforeStart' /\ OpenKeepsObject'
    BY <1>1, <1>3 DEF SocketInv, NoneBeforeStart, OpenKeepsObject, Accepted, IsClosed
  <2> QED
    BY <2>2, <2>3, <2>4 DEF SocketInv
<1>6. /\ videos' \in 0..MaxVideos /\ chains' \in 0..(MaxVideos + 1)
      /\ bytes' \in 0..MaxBytes /\ lastBytes' \in Nat /\ Chains' /\ Reported'
  <2>1. CASE StartApplication /\ kind = "cloud"
    <3>1. ReportStats(chains) /\ UNCHANGED <<kind, videos, bytes>> /\ phase' = "running"
          /\ phase = "init"
      BY <2>1 DEF StartApplication
    <3>2. reported' = bytes /\ lastBytes' = bytes /\ chains' = chains + 1
      BY <3>1, <1>2, ReportStatsFacts
    <3> QED
      BY <2>1, <3>1, <3>2, <1>1, <1>2 DEF Chains, Reported
  <2>2. CASE StartApplication /\ kind # "cloud"
    BY <2>2, <1>1, <1>2 DEF StartApplication, Chains, Reported
  <2>3. CASE StopApplication
    BY <2>3, <1>1, <1>2 DEF StopApplication, Chains, Reported
  <2>4. CASE AddVideo
    <3>1. /\ ReportStats(chains) /\ UNCHANGED <<kind, phase, bytes>>
          /\ videos' = videos + 1 /\ videos < MaxVideos /\ kind = "edge"
      BY <2>4 DEF AddVideo
    <3>2. reported' = bytes /\ lastBytes' = bytes /\ chains' = chains + 1
      BY <3>1, <1>2, ReportStatsFacts
    <3> QED
      BY <3>1, <3>2, <1>1, <1>2 DEF Chains, Reported
  <2>5. CASE ReportEvent
    <3>1. /\ chains - 1 \in Nat /\ ReportStats(chains - 1)
          /\ UNCHANGED <<kind, phase, videos, bytes>>
      BY <2>5, <1>2 DEF ReportEvent
    <3>2. reported' = bytes /\ lastBytes' = bytes /\ chains' = chains - 1 + 1
      BY <3>1, ReportStatsFacts
    <3> QED
      BY <3>1, <3>2, <1>1, <1>2 DEF Chains, Reported, TypeOK
  <2>6. CASE Trace
    BY <2>6, <1>1, <1>2 DEF Trace, Chains, Reported
  <2> QED
    BY <2>1, <2>2, <2>3, <2>4, <2>5, <2>6 DEF Application
<1>7. {bytes', lastBytes', reported'} \subseteq 0..MaxBytes
  <2>1. bytes' \in 0..MaxBytes /\ lastBytes' \in 0..MaxBytes /\ reported' = lastBytes'
    BY <1>6 DEF Reported
  <2> QED
    BY <2>1
<1>8. TypeOK'
  BY <1>1, <1>3, <1>4, <1>6, <1>7 DEF TypeOK
<1> QED
  BY <1>5, <1>6, <1>8 DEF RegInv

\* A new connection gets an id that no other has and no finish event is for.
LEMMA AcceptedInv ==
  ASSUME RegInv, NEW k \in Sockets, ConnectionAccepted(k)
  PROVE  RegInv'
<1> DEFINE n == lastSocketID
<1>1. TypeOK /\ SocketInv /\ Chains /\ Reported
  BY DEF RegInv
<1>2. sock[k] \in Socket /\ sock \in [Sockets -> Socket]
  BY <1>1 DEF TypeOK
<1>3. sock[k].id = 0 /\ ~sock[k].notified /\ sock[k].state = "SYN_RCVD" /\ phase # "init"
  BY <1>1 DEF ConnectionAccepted, SocketInv, NotYetAccepted, NoneBeforeStart
<1>4. AcceptedSockets' = AcceptedSockets \cup {k} /\ k \notin AcceptedSockets
      /\ AcceptedSockets \subseteq Sockets
  BY <1>1, <1>2, <1>3 DEF ConnectionAccepted, AcceptedSockets, Socket, TypeOK
<1>5. /\ IsFiniteSet(AcceptedSockets)
      /\ Cardinality(AcceptedSockets \cup {k}) = Cardinality(AcceptedSockets) + 1
      /\ Cardinality(AcceptedSockets \cup {k}) <= Cardinality(Sockets)
  <2>1. IsFiniteSet(AcceptedSockets)
    BY <1>4, RegistryAssumption, FS_Subset
  <2>2. Cardinality(AcceptedSockets \cup {k}) = Cardinality(AcceptedSockets) + 1
    BY <1>4, <2>1, FS_AddElement
  <2>3. AcceptedSockets \cup {k} \subseteq Sockets
    BY <1>4
  <2>4. Cardinality(AcceptedSockets \cup {k}) <= Cardinality(Sockets)
    BY <2>3, RegistryAssumption, FS_Subset
  <2> QED
    BY <2>1, <2>2, <2>4
<1>6. n \in Ids /\ n \in Nat
  BY <1>1, <1>5, SocketsNat DEF SocketInv, IdsUsedOnce, Ids, TypeOK
<1>7. /\ sock' \in [Sockets -> Socket] /\ sock'[k].id = n /\ sock'[k].callbacks
      /\ sock'[k].state = "ESTABLISHED" /\ sock'[k].notified = FALSE
      /\ \A l \in Sockets : l # k => sock'[l] = sock[l]
  BY <1>2, <1>3, <1>6 DEF ConnectionAccepted, Socket, TcpState
<1>8. /\ lastSocketID' = n + 1 /\ activeClients' = activeClients \cup {n}
      /\ UNCHANGED <<kind, phase, finish, videos, chains, bytes, lastBytes, reported, dangling>>
  BY DEF ConnectionAccepted
<1>9. TypeOK'
  BY <1>1, <1>6, <1>7, <1>8, SocketsNat DEF TypeOK, Ids
<1>10. IdsUsedOnce'
  <2>1. Cardinality(AcceptedSockets') = n + 1 - 1
    BY <1>1, <1>4, <1>5, <1>6 DEF SocketInv, IdsUsedOnce
  <2>2. \A l \in Sockets : sock[l].id < n /\ sock[l].id \in Nat
    <3>1. \A l \in Sockets : sock[l].id \in Ids \cup {0}
      BY <1>2 DEF Socket
    <3>2. \A l \in Sockets : sock[l].id < n
      BY <1>1 DEF SocketInv, IdsUsedOnce
    <3>3. \A l \in Sockets : sock[l].id \in Nat
      <4>1. Ids \cup {0} \subseteq Nat
        BY SocketsNat
      <4> QED
        BY <3>1, <4>1, Zenon
    <3> QED
      BY <3>2, <3>3
  <2>3. \A l \in Sockets : sock'[l].id < n + 1
    BY <1>6, <1>7, <2>2
  <2>4. \A l, m \in Sockets : sock'[l].id # 0 /\ sock'[l].id = sock'[m].id => l = m
    BY <1>1, <1>6, <1>7, <2>2 DEF SocketInv, IdsUsedOnce
  <2>5. \A i \in Ids : i >= n + 1 => finish'[i] = 0
    <3>1. \A i \in Ids : i >= n => finish[i] = 0
      BY <1>1 DEF SocketInv, IdsUsedOnce
    <3>2. \A i \in Ids : i \in Nat /\ (i >= n + 1 => i >= n)
      BY <1>6, SocketsNat
    <3> QED
      BY <1>8, <3>1, <3>2
  <2>6. phase' # "init"
    BY <1>3, <1>8
  <2> HIDE DEF n
  <2> QED
    BY <1>6, <1>8, <2>1, <2>3, <2>4, <2>5, <2>6 DEF IdsUsedOnce
<1>11. FinishBounded'
  <2> SUFFICES ASSUME NEW l \in Sockets, sock'[l].id # 0
               PROVE  finish'[sock'[l].id] <= Weight(sock'[l])
    BY DEF FinishBounded, Weight
  <2>1. CASE l = k
    <3>1. finish[n] = 0
      BY <1>1, <1>6 DEF SocketInv, IdsUsedOnce
    <3>2. Weight(sock'[k]) = 0
      BY <1>7 DEF Weight
    <3> QED
      BY <2>1, <3>1, <3>2, <1>7, <1>8
  <2>2. CASE l # k
    BY <2>2, <1>1, <1>7, <1>8 DEF SocketInv, FinishBounded
  <2> QED
    BY <2>1, <2>2
<1>12. CallbacksOpen'
  <2>1. n # 0
    BY <1>6, SocketsNat DEF Ids
  <2>2. Weight(sock'[k]) = 0
    BY <1>7 DEF Weight
  <2>3. \A l \in Sockets : sock[l].callbacks => sock[l].id # 0 /\ Weight(sock[l]) = 0
    BY <1>1 DEF SocketInv, CallbacksOpen
  <2>4. \A l \in Sockets :
          sock'[l].callbacks => sock'[l].id # 0 /\ Weight(sock'[l]) = 0
    BY <1>7, <2>1, <2>2, <2>3
  <2> QED
    BY <2>4 DEF CallbacksOpen, Weight
<1>13. NotYetAccepted' /\ NoneBeforeStart'
  BY <1>1, <1>3, <1>7, <1>8 DEF SocketInv, NotYetAccepted, NoneBeforeStart
<1>14. OpenKeepsObject'
  BY <1>1, <1>7, <1>8 DEF SocketInv, OpenKeepsObject, Accepted, IsClosed
<1>15. Chains' /\ Reported'
  BY <1>1, <1>8 DEF Chains, Reported
<1> QED
  BY <1>9, <1>10, <1>11, <1>12, <1>13, <1>14, <1>15 DEF RegInv, SocketInv

\* A finish event deletes the object of a connection whose close is reported.
LEMMA FinishInv ==
  ASSUME RegInv, NEW i \in Ids, DoFinishSocket(i)
  PROVE  RegInv'
<1>1. TypeOK /\ SocketInv /\ Chains /\ Reported
  BY DEF RegInv
<1>2. finish \in [Ids -> 0..2] /\ finish[i] > 0
  BY <1>1 DEF TypeOK, DoFinishSocket
<1>3. /\ finish' = [finish EXCEPT ![i] = @ - 1]
      /\ activeClients' = activeClients \ {i}
      /\ UNCHANGED <<registry, sock, dangling>>
  BY DEF DoFinishSocket
<1>4. finish' \in [Ids -> 0..2] /\ \A j \in Ids : finish'[j] <= finish[j]
  BY <1>2, <1>3
<1>5. TypeOK'
  BY <1>1, <1>3, <1>4 DEF TypeOK, registry
<1>6. IdsUsedOnce'
  <2>1. AcceptedSockets' = AcceptedSockets
    BY <1>3 DEF AcceptedSockets
  <2>2. \A j \in Ids : j >= lastSocketID => finish[j] = 0
    BY <1>1 DEF SocketInv, IdsUsedOnce
  <2>3. \A j \in Ids : j >= lastSocketID => finish'[j] = 0
    BY <1>2, <1>4, <2>2
  <2> QED
    BY <1>1, <1>3, <2>1, <2>3 DEF SocketInv, IdsUsedOnce, registry
<1>7. \A k \in Sockets : sock[k].id \in Ids \cup {0} /\ Weight(sock[k]) \in 0..2
  BY <1>1, WeightType DEF TypeOK, Socket
<1>8. FinishBounded'
  <2> SUFFICES ASSUME NEW k \in Sockets, sock[k].id # 0
               PROVE  finish'[sock[k].id] <= Weight(sock[k])
    BY <1>3 DEF FinishBounded, Weight
  <2>1. finish[sock[k].id] <= Weight(sock[k]) /\ sock[k].id \in Ids
    BY <1>1, <1>7 DEF SocketInv, FinishBounded
  <2> QED
    BY <1>2, <1>4, <1>7, <2>1
<1>9. CallbacksOpen' /\ NotYetAccepted' /\ NoneBeforeStart'
  BY <1>1, <1>3 DEF SocketInv, CallbacksOpen, NotYetAccepted, NoneBeforeStart,
                    Weight, registry
<1>10. OpenKeepsObject'
  <2> SUFFICES ASSUME NEW k \in Sockets, Accepted(k), ~IsClosed(k)
               PROVE  sock[k].id \in activeClients \ {i}
    BY <1>3 DEF OpenKeepsObject, Accepted, IsClosed
  <2>1. sock[k].id \in activeClients
    BY <1>1 DEF SocketInv, OpenKeepsObject
  <2>2. Weight(sock[k]) = 0
    BY DEF IsClosed, Weight
  <2>3. finish[sock[k].id] <= 0
    BY <1>1, <2>2 DEF SocketInv, FinishBounded, Accepted
  <2> QED
    BY <1>2, <2>1, <2>3
<1>11. Chains' /\ Reported'
  BY <1>1, <1>3 DEF Chains, Reported, registry
<1> QED
  BY <1>5, <1>6, <1>8, <1>9, <1>10, <1>11 DEF RegInv, SocketInv

\* Every event of a socket keeps the invariant.
LEMMA TcpInv ==
  ASSUME RegInv, NEW k \in Sockets, Tcp(k)
  PROVE  RegInv'
<1> DEFINE s == sock[k]
<1>1. s \in Socket
  BY DEF RegInv, TypeOK
<1>2. s.state # "none" => phase # "init"
  BY DEF RegInv, SocketInv, NoneBeforeStart
<1>3. CASE SynArrives(k)
  <2> DEFINE t == [sock[k] EXCEPT !.state = "SYN_RCVD"]
  <2>1. /\ SocketEvent(k, t, FALSE, FALSE) /\ s.state = "none" /\ phase = "running"
    BY <1>3 DEF SynArrives
  <2>2. /\ t \in Socket /\ t.id = s.id /\ t.notified = s.notified
        /\ t.callbacks = s.callbacks /\ t.state = "SYN_RCVD"
    BY <1>1 DEF Socket, TcpState
  <2> HIDE DEF t
  <2> QED
    BY <2>1, <2>2, QuietInv
<1>4. CASE ConnectionAccepted(k)
  BY <1>4, AcceptedInv
<1>5. ASSUME NEW r \in {"keep", "close"}, HandleIncomingData(k, r)
      PROVE  RegInv'
  <2> DEFINE t == [sock[k] EXCEPT !.reply = r]
  <2>1. SocketEvent(k, t, TRUE, FALSE) /\ s.state = "ESTABLISHED"
    BY <1>5 DEF HandleIncomingData
  <2>2. /\ t \in Socket /\ t.id = s.id /\ t.notified = s.notified
        /\ t.callbacks = s.callbacks /\ t.state = s.state
    BY <1>1 DEF Socket
  <2> HIDE DEF t
  <2> QED
    BY <1>2, <2>1, <2>2, QuietInv
<1>6. CASE HandleReadyToTransmit(k)
  <2>1. PICK deferred \in BOOLEAN :
          SocketEvent(k,
            [sock[k] EXCEPT !.callbacks = FALSE, !.closeOnEmpty = deferred,
                            !.state = IF deferred THEN @ ELSE "FIN_WAIT_1"],
            TRUE, FALSE)
    BY <1>6 DEF HandleReadyToTransmit
  <2> DEFINE t == [sock[k] EXCEPT !.callbacks = FALSE, !.closeOnEmpty = deferred,
                            !.state = IF deferred THEN @ ELSE "FIN_WAIT_1"]
  <2>2. s.state = "ESTABLISHED"
    BY <1>6 DEF HandleReadyToTransmit
  <2>3. /\ t \in Socket /\ t.id = s.id /\ t.notified = s.notified
        /\ ~t.callbacks /\ t.state \in {"ESTABLISHED", "FIN_WAIT_1"}
    BY <1>1, <2>2 DEF Socket, TcpState
  <2>4. SocketEvent(k, t, TRUE, FALSE)
    BY <2>1
  <2> HIDE DEF t
  <2> QED
    BY <1>2, <2>2, <2>3, <2>4, QuietInv
<1>7. CASE LastDataSent(k)
  <2> DEFINE t == [sock[k] EXCEPT !.closeOnEmpty = FALSE,
                     !.state = IF @ = "ESTABLISHED" THEN "FIN_WAIT_1" ELSE "LAST_ACK"]
  <2>1. SocketEvent(k, t, TRUE, FALSE) /\ s.state \in {"ESTABLISHED", "CLOSE_WAIT"}
    BY <1>7 DEF LastDataSent
  <2>2. /\ t \in Socket /\ t.id = s.id /\ t.notified = s.notified
        /\ t.callbacks = s.callbacks /\ t.state \in {"FIN_WAIT_1", "LAST_ACK"}
    BY <1>1 DEF Socket, TcpState
  <2> HIDE DEF t
  <2> QED
    BY <1>2, <2>1, <2>2, QuietInv
<1>8. CASE ReplyAcked(k)
  <2> DEFINE t == [sock[k] EXCEPT !.reply = "none"]
  <2>1. SocketEvent(k, t, sock[k].callbacks, FALSE)
        /\ s.state \in {"ESTABLISHED", "CLOSE_WAIT", "FIN_WAIT_1"}
    BY <1>8 DEF ReplyAcked
  <2>2. /\ t \in Socket /\ t.id = s.id /\ t.notified = s.notified
        /\ t.callbacks = s.callbacks /\ t.state = s.state
    BY <1>1 DEF Socket
  <2>3. s.callbacks \in BOOLEAN
    BY <1>1 DEF Socket
  <2> HIDE DEF t
  <2> QED
    BY <1>2, <2>1, <2>2, <2>3, QuietInv
<1>9. CASE PeerClose(k)
  <2>1. CASE /\ s.state \in {"ESTABLISHED", "FIN_WAIT_1", "FIN_WAIT_2"}
             /\ \E t \in {"CLOSE_WAIT", "TIME_WAIT"} :
                  SocketEvent(k, Notified([sock[k] EXCEPT !.state = t]), TRUE,
                              ~sock[k].notified)
    BY <2>1, ClosesInv DEF TcpState
  <2>2. CASE /\ s.state = "FIN_WAIT_1"
             /\ SocketEvent(k, [sock[k] EXCEPT !.state = "CLOSING"], TRUE, FALSE)
    <3> DEFINE t == [sock[k] EXCEPT !.state = "CLOSING"]
    <3>1. SocketEvent(k, t, TRUE, FALSE)
      BY <2>2
    <3>2. /\ t \in Socket /\ t.id = s.id /\ t.notified = s.notified
          /\ t.callbacks = s.callbacks /\ t.state = "CLOSING"
      BY <1>1 DEF Socket, TcpState
    <3> HIDE DEF t
    <3> QED
      BY <1>2, <2>2, <3>1, <3>2, QuietInv
  <2> QED
    BY <1>9, <2>1, <2>2 DEF PeerClose
<1>10. CASE FinAcked(k)
  <2>1. CASE /\ s.state \in {"CLOSING", "LAST_ACK"}
             /\ \E t \in {"TIME_WAIT", "CLOSED"} :
                  SocketEvent(k, Notified([sock[k] EXCEPT !.state = t]), TRUE,
                              ~sock[k].notified)
    BY <2>1, ClosesInv DEF TcpState
  <2>2. CASE /\ s.state = "FIN_WAIT_1"
             /\ SocketEvent(k, [sock[k] EXCEPT !.state = "FIN_WAIT_2"], TRUE, FALSE)
    <3> DEFINE t == [sock[k] EXCEPT !.state = "FIN_WAIT_2"]
    <3>1. SocketEvent(k, t, TRUE, FALSE)
      BY <2>2
    <3>2. /\ t \in Socket /\ t.id = s.id /\ t.notified = s.notified
          /\ t.callbacks = s.callbacks /\ t.state = "FIN_WAIT_2"
      BY <1>1 DEF Socket, TcpState
    <3> HIDE DEF t
    <3> QED
      BY <1>2, <2>2, <3>1, <3>2, QuietInv
  <2> QED
    BY <1>10, <2>1, <2>2 DEF FinAcked
<1>11. CASE TimeWaitOver(k)
  BY <1>11, ClosesInv DEF TimeWaitOver, TcpState
<1>12. CASE Reset(k)
  BY <1>12, ClosesInv DEF Reset, TcpState
<1>13. CASE DataRetriesExhausted(k)
  <2> DEFINE t == ConnectionClosed([sock[k] EXCEPT !.state = "dropped"])
  <2>1. /\ SocketEvent(k, t, TRUE, TRUE)
        /\ s.state \in {"ESTABLISHED", "CLOSE_WAIT", "FIN_WAIT_1", "CLOSING", "LAST_ACK"}
    BY <1>13 DEF DataRetriesExhausted
  <2>2. /\ t \in Socket /\ t.id = s.id /\ t.notified = s.notified
        /\ t.state = "dropped"
    BY <1>1 DEF ConnectionClosed, Socket, TcpState
  <2>3. ~t.callbacks
    BY <1>1 DEF ConnectionClosed, Socket
  <2>4. Weight(t) > Weight(s) /\ Weight(t) >= Weight(s)
    <3> HIDE DEF t
    <3>1. CASE s.notified
      <4>1. t.notified
        BY <2>2, <3>1, Zenon
      <4> QED
        BY <2>1, <2>2, <3>1, <4>1 DEF Weight
    <3>2. CASE ~s.notified
      BY <2>1, <2>2, <3>2 DEF Weight
    <3> QED
      BY <3>1, <3>2
  <2>5. /\ sock' = [sock EXCEPT ![k] = t]
        /\ UNCHANGED <<registry, activeClients>>
        /\ \/ finish' = finish
           \/ sock[k].id # 0 /\ finish' = [finish EXCEPT ![sock[k].id] = @ + 1]
    BY <2>1 DEF SocketEvent
  <2>6. dangling' \in BOOLEAN
    BY <2>1 DEF SocketEvent
  <2> HIDE DEF t
  <2> QED
    BY <1>2, <2>1, <2>2, <2>3, <2>4, <2>5, <2>6, SocketEventInv
<1> QED
  BY <1>3, <1>4, <1>5, <1>6, <1>7, <1>8, <1>9, <1>10, <1>11, <1>12, <1>13 DEF Tcp

-----------------------------------------------------------------------------
LEMMA NextInv == RegInv /\ [Next]_vars => RegInv'
<1> SUFFICES ASSUME RegInv, [Next]_vars PROVE RegInv'
  OBVIOUS
<1>1. CASE Application
  BY <1>1, ApplicationInv
<1>2. ASSUME NEW k \in Sockets, Tcp(k) PROVE RegInv'
  BY <1>2, TcpInv
<1>3. ASSUME NEW i \in Ids, DoFinishSocket(i) PROVE RegInv'
  BY <1>3, FinishInv
<1>4. CASE UNCHANGED vars
  <2>1. TypeOK'
    BY <1>4 DEF RegInv, TypeOK, vars
  <2>2. AcceptedSockets' = AcceptedSockets
    BY <1>4 DEF AcceptedSockets, vars
  <2>3. IdsUsedOnce'
    BY <1>4, <2>2 DEF RegInv, SocketInv, IdsUsedOnce, vars
  <2>4. FinishBounded' /\ CallbacksOpen' /\ NotYetAccepted' /\ NoneBeforeStart'
    BY <1>4 DEF RegInv, SocketInv, FinishBounded, CallbacksOpen, NotYetAccepted,
                NoneBeforeStart, Weight, vars
  <2>5. OpenKeepsObject' /\ Chains' /\ Reported'
    BY <1>4 DEF RegInv, SocketInv, OpenKeepsObject, Accepted, IsClosed, Chains,
                Reported, vars
  <2> QED
    BY <2>1, <2>3, <2>4, <2>5 DEF RegInv, SocketInv
<1> QED
  BY <1>1, <1>2, <1>3, <1>4 DEF Next

\* RegInv, the inductive invariant of a server, holds in every behaviour.
THEOREM RegInvHolds == Spec => []RegInv
  BY InitInv, NextInv, PTL DEF Spec

\* A server's state stays within its type: ids, finish events and report chains
\* never outgrow the connections and videos they are for (ConnectionAccepted,
\* FinishedCallback, ReportStats).
THEOREM TypeCorrect == Spec => []TypeOK
<1>1. RegInv => TypeOK
  BY DEF RegInv
<1> QED
  BY <1>1, RegInvHolds, PTL

\* The object that serves a connection outlives it: whatever finish events are
\* under way, none deletes the object of a connection that is still open
\* (DoFinishSocket, RegisterSocket).
THEOREM OpenKeepsObjectHolds == Spec => []OpenKeepsObject
<1>1. RegInv => OpenKeepsObject
  BY DEF RegInv, SocketInv
<1> QED
  BY <1>1, RegInvHolds, PTL

\* A send or receive callback that is set points to an object that is alive
\* (ConnectionClosedNormal, ConnectionClosedError, HandleReadyToTransmit).
THEOREM DataCallbacksAliveHolds == Spec => []DataCallbacksAlive
<1>1. RegInv => DataCallbacksAlive
  BY DEF RegInv, SocketInv, CallbacksOpen, OpenKeepsObject, DataCallbacksAlive,
         Accepted, IsClosed, Weight
<1> QED
  BY <1>1, RegInvHolds, PTL

\* A finish event is under way only for a connection whose close TCP has
\* reported (FinishedCallback).
THEOREM FinishOnlyClosedHolds == Spec => []FinishOnlyClosed
<1>1. RegInv => FinishOnlyClosed
  <2> SUFFICES ASSUME RegInv, NEW k \in Sockets, Accepted(k),
                      finish[sock[k].id] > 0
               PROVE  IsClosed(k)
    BY DEF FinishOnlyClosed
  <2>1. sock[k] \in Socket /\ sock[k].id \in Ids
    BY DEF RegInv, TypeOK, Socket, Accepted
  <2>2. finish[sock[k].id] \in 0..2 /\ Weight(sock[k]) \in 0..2
    BY <2>1, WeightType DEF RegInv, TypeOK
  <2>3. finish[sock[k].id] <= Weight(sock[k])
    BY DEF RegInv, SocketInv, FinishBounded, Accepted
  <2>4. Weight(sock[k]) # 0
    BY <2>2, <2>3
  <2> QED
    BY <2>4 DEF Weight, IsClosed
<1> QED
  BY <1>1, RegInvHolds, PTL

\* However many chains of ReportStats a server's videos have started, no byte is
\* reported twice (ReportStats).
THEOREM BytesReportedOnceHolds == Spec => []BytesReportedOnce
<1>1. RegInv => BytesReportedOnce
  BY DEF RegInv, Reported, BytesReportedOnce
<1> QED
  BY <1>1, RegInvHolds, PTL

=============================================================================
