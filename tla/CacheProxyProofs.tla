-------------------------- MODULE CacheProxyProofs --------------------------
(***************************************************************************)
(* Theorems about CacheProxy, for any number of users and files.  While no *)
(* user gives a download up, the requests of one user pass through the     *)
(* proxy one at a time; the inductive invariant names the stages a request *)
(* goes through and what the proxy's object, the two connections and the   *)
(* user hold in each.                                                      *)
(***************************************************************************)
EXTENDS CacheProxy, SequenceTheorems, TLAPS

\* Nothing is under way between the user, the proxy and the origin.
Quiet(c) == user[c].gets = << >> /\ origin[c].gets = << >> /\ origin[c].data = << >>

\* The proxy's object has begun anew for the file that is asked for.
Begun(c) ==
  /\ user[c].asked \in Files \ {Mpd} /\ user[c].gets = << >> /\ user[c].got = << >>
  /\ proxy[c].fileToRequest = user[c].asked /\ proxy[c].bytesToTransmit = << >>

Fresh(c) == proxy[c].isFirstPacket /\ proxy[c].bytesRecv = 0

Idle(c) == user[c].asked = NoFile /\ user[c].got = << >> /\ Quiet(c)

\* The request is on its way to the proxy.
Requested(c) ==
  /\ user[c].asked \in Files /\ user[c].gets = <<user[c].asked>> /\ user[c].got = << >>
  /\ origin[c].gets = << >> /\ origin[c].data = << >>

\* ... to the origin.
Forwarded(c) ==
  /\ Begun(c) /\ Fresh(c)
  /\ origin[c].gets = <<user[c].asked>> /\ origin[c].data = << >>

\* The origin's reply has been sent and nothing of it has been read.
Answered(c) ==
  LET f == user[c].asked
      data == origin[c].data
  IN /\ Begun(c) /\ Fresh(c)
     /\ origin[c].state = "up" /\ origin[c].gets = << >>
     /\ IF f \in Missing THEN data = <<NotFound>>
        ELSE Len(data) = 1 + Size[f] /\ data[1] = Header(Size[f])

\* A part of it has been read, the header included.
Receiving(c) ==
  LET f == user[c].asked IN
  /\ Begun(c) /\ f \notin Missing
  /\ origin[c].state = "up" /\ origin[c].gets = << >>
  /\ ~proxy[c].isFirstPacket /\ proxy[c].contentLength = Size[f]
  /\ origin[c].data # << >> /\ proxy[c].bytesRecv + Len(origin[c].data) = Size[f]

\* A beginning of the reply to a request for f.
BeginsReply(f, got) ==
  got # << >> =>
    /\ got[1] = Header(Size[f])
    /\ Len(got) <= 1 + Size[f]
    /\ \A i \in 2..Len(got) : got[i].type = IF f \in Mpds THEN "mpd" ELSE "random"

\* What the user will ever get it has, or the request is lost.
Served(c) ==
  /\ user[c].asked \in Files /\ Quiet(c)
  /\ user[c].asked \notin Missing /\ Mpds = {Mpd} => BeginsReply(user[c].asked, user[c].got)

Exchange(c) ==
  \/ Idle(c) \/ Requested(c) \/ Forwarded(c) \/ Answered(c) \/ Receiving(c) \/ Served(c)

\* Users ask when they are connected, and connect when the proxy has started.
Connected(c) ==
  /\ user[c].asked # NoFile => origin[c].state # "none"
  /\ origin[c].state # "none" => phase # "init"

\* The MPD imported at the start stays in the map.
MpdKnown == phase # "init" => fileSizes[Mpd] = Size[Mpd]

PInv ==
  /\ TypeOK /\ SizesRight /\ MpdKnown
  /\ \A c \in Users : Exchange(c) /\ Connected(c)

-----------------------------------------------------------------------------
\* Lengths are natural numbers, among them those of files.
LEMMA LengthsType ==
  Lengths \subseteq Nat /\ {0, 1} \subseteq Lengths /\ \A f \in Files : Size[f] \in Lengths
BY ProxyAssumption DEF Lengths

\* The units of a reply: a header and the body it announces.
LEMMA ResponseUnits ==
  ASSUME NEW n \in Lengths, NEW size \in Nat, NEW of \in {"random", "mpd"}
  PROVE  /\ Response(n, size, of) \in Seq(Units)
         /\ Len(Response(n, size, of)) = 1 + size
         /\ Response(n, size, of)[1] = Header(n)
         /\ \A i \in 2..(1 + size) : Response(n, size, of)[i] = Body(of)
<1> DEFINE body == [i \in 1..size |-> Body(of)]
<1>1. Header(n) \in Units /\ Body(of) \in Units
  BY LengthsType DEF Header, Body, Units
<1>2. body \in Seq(Units) /\ Len(body) = size
  BY <1>1, SeqDef
<1>3. <<Header(n)>> \in Seq(Units) /\ Len(<<Header(n)>>) = 1 /\ <<Header(n)>>[1] = Header(n)
  BY <1>1
<1>4. \A i \in 1..size : body[i] = Body(of)
  OBVIOUS
<1> HIDE DEF body
<1>5. /\ <<Header(n)>> \o body \in Seq(Units)
      /\ Len(<<Header(n)>> \o body) = 1 + size
      /\ (<<Header(n)>> \o body)[1] = Header(n)
      /\ \A i \in 2..(1 + size) : (<<Header(n)>> \o body)[i] = body[i - 1]
  BY <1>2, <1>3
<1>6. Response(n, size, of) = <<Header(n)>> \o body
  BY DEF Response, body
<1> QED BY <1>4, <1>5, <1>6

\* A socket accepts a beginning of what it is given.
LEMMA AcceptedUnits ==
  ASSUME NEW units \in Seq(Units), NEW free \in Nat
  PROVE  /\ Accepted(units, free) \in Seq(Units)
         /\ Len(Accepted(units, free)) <= Len(units)
         /\ \A i \in 1..Len(Accepted(units, free)) : Accepted(units, free)[i] = units[i]
<1> DEFINE m == IF Len(units) < free THEN Len(units) ELSE free
<1>1. m \in 0..Len(units)
  OBVIOUS
<1>2. Accepted(units, free) = SubSeq(units, 1, m)
  BY DEF Accepted
<1> HIDE DEF m
<1>3. SubSeq(units, 1, m) \in Seq(Units) /\ Len(SubSeq(units, 1, m)) = m
  BY <1>1
<1>4. \A i \in 1..m : SubSeq(units, 1, m)[i] = units[i]
  BY <1>1
<1> QED BY <1>1, <1>2, <1>3, <1>4

\* The space in a send buffer is a number of units.
LEMMA FreeSpaceType == FreeSpace \subseteq Nat
BY ProxyAssumption DEF FreeSpace

\* The states of the proxy's object, of a user and of a connection to the origin.
Objects == [fileToRequest : Files \cup {NoFile}, isFirstPacket : BOOLEAN,
            contentLength : Lengths, bytesRecv : Nat, bytesToTransmit : Seq(Units)]
UserEnds == [asked : Files \cup {NoFile}, asks : 0..MaxAsks,
             gets : Seq(Files), got : Seq(Units)]
OriginEnds == [state : {"none", "connecting", "up", "failed"},
               gets : Seq(Files), data : Seq(Units)]

\* What a packet of the origin makes of the object: it is counted, and its
\* header, if it begins with one that was waited for, gives the length.
LEMMA ParsedObject ==
  ASSUME NEW s \in Objects, NEW data \in Seq(Units), NEW n \in 1..Len(data)
  PROVE  LET t == ParseResponseHeader(s, SubSeq(data, 1, n)) IN
         /\ t \in Objects
         /\ ~t.isFirstPacket
         /\ t.fileToRequest = s.fileToRequest /\ t.bytesToTransmit = s.bytesToTransmit
         /\ s.isFirstPacket /\ data[1].type = "header" =>
              t.contentLength = data[1].len /\ t.bytesRecv = s.bytesRecv + n - 1
         /\ ~(s.isFirstPacket /\ data[1].type = "header") =>
              t.contentLength = s.contentLength /\ t.bytesRecv = s.bytesRecv + n
<1> DEFINE p == SubSeq(data, 1, n)
<1>1. Len(p) = n /\ p[1] = data[1] /\ data[1].len \in Lengths
  <2>1. data[1] \in Units
    BY ElementOfSeq
  <2> QED BY <2>1 DEF Units
<1> HIDE DEF p
<1>2. CASE s.isFirstPacket /\ p[1].type = "header"
  <2>1. ParseResponseHeader(s, p) = [s EXCEPT !.isFirstPacket = FALSE,
          !.contentLength = data[1].len, !.bytesRecv = s.bytesRecv + n - 1]
    BY <1>1, <1>2 DEF ParseResponseHeader, Objects
  <2>2. s.bytesRecv + n - 1 \in Nat
    BY DEF Objects
  <2> QED BY <1>1, <1>2, <2>1, <2>2 DEF p, Objects
<1>3. CASE ~(s.isFirstPacket /\ p[1].type = "header")
  <2>1. ParseResponseHeader(s, p) = [s EXCEPT !.isFirstPacket = FALSE,
          !.bytesRecv = s.bytesRecv + n]
    BY <1>1, <1>3 DEF ParseResponseHeader, Objects
  <2>2. s.bytesRecv + n \in Nat
    BY DEF Objects
  <2> QED BY <1>1, <1>3, <2>1, <2>2 DEF p, Objects
<1> QED BY <1>2, <1>3

-----------------------------------------------------------------------------
\* TypeOK in terms of these sets.
LEMMA TypeParts ==
  TypeOK <=> /\ phase \in {"init", "running", "stopped"}
             /\ fileSizes \in [Files -> Lengths] /\ proxy \in [Users -> Objects]
             /\ user \in [Users -> UserEnds] /\ origin \in [Users -> OriginEnds]
BY DEF TypeOK, Objects, UserEnds, OriginEnds

\* Initially every variable has its type.
LEMMA TypeInit == Init => TypeOK
<1> SUFFICES ASSUME Init PROVE TypeOK
  OBVIOUS
<1>1. PICK garbage \in [Users -> {0, 1}] :
        proxy = [c \in Users |->
                  [fileToRequest |-> NoFile, isFirstPacket |-> TRUE,
                   contentLength |-> garbage[c], bytesRecv |-> 0,
                   bytesToTransmit |-> << >>]]
  BY DEF Init
<1>2. \A c \in Users : garbage[c] \in Lengths
  BY LengthsType
<1>3. << >> \in Seq(Units) /\ << >> \in Seq(Files) /\ 0 \in 0..MaxAsks
  BY ProxyAssumption
<1>4. proxy \in [Users -> Objects]
  BY <1>1, <1>2, <1>3 DEF Objects
<1>5. user \in [Users -> UserEnds] /\ origin \in [Users -> OriginEnds]
  BY <1>3 DEF Init, UserEnds, OriginEnds
<1>6. phase \in {"init", "running", "stopped"} /\ fileSizes \in [Files -> Lengths]
  BY LengthsType DEF Init
<1> QED BY <1>4, <1>5, <1>6, TypeParts

\* The reply of a hit is a sequence of units.
LEMMA HitReply ==
  ASSUME TypeOK, NEW f \in Files
  PROVE  Response(fileSizes[f], IF f \in Mpds THEN Size[Mpd] ELSE fileSizes[f],
                  IF f \in Mpds THEN "mpd" ELSE "random") \in Seq(Units)
<1>1. fileSizes[f] \in Lengths /\ fileSizes[f] \in Nat /\ Size[Mpd] \in Nat
  BY LengthsType, ProxyAssumption DEF TypeOK
<1>2. CASE f \in Mpds
  BY <1>1, <1>2, ResponseUnits
<1>3. CASE f \notin Mpds
  BY <1>1, <1>3, ResponseUnits
<1> QED BY <1>2, <1>3

\* A request keeps the types.
LEMMA TypeUser ==
  ASSUME TypeOK, NEW c \in Users, IncomingDataFromUser(c)
  PROVE  TypeOK'
<1>1. PICK f, s : f = Head(user[c].gets) /\ s = Cleared(proxy[c])
  OBVIOUS
<1>2. proxy \in [Users -> Objects] /\ user \in [Users -> UserEnds] /\ origin \in [Users -> OriginEnds]
  BY TypeParts
<1>3. f \in Files
  <2>1. user[c].gets \in Seq(Files) /\ user[c].gets # << >>
    BY <1>2 DEF UserEnds, IncomingDataFromUser
  <2> QED BY <1>1, <2>1, HeadTailProperties
<1>4. s \in Objects /\ s.bytesToTransmit = << >>
  <2>1. proxy[c] \in Objects
    BY <1>2
  <2>2. s = [proxy[c] EXCEPT !.bytesToTransmit = << >>]
    BY <1>1 DEF Cleared
  <2>3. << >> \in Seq(Units)
    OBVIOUS
  <2> QED BY <2>1, <2>2, <2>3 DEF Objects
<1>5. << >> \in Seq(Files) /\ << >> \in Seq(Units)
  OBVIOUS
<1>6. CASE fileSizes[f] # 0
  <2> DEFINE reply == Response(fileSizes[f], IF f \in Mpds THEN Size[Mpd] ELSE fileSizes[f],
                               IF f \in Mpds THEN "mpd" ELSE "random")
  <2>1. PICK free \in FreeSpace : Hit(c, f, s, free)
    BY <1>1, <1>6 DEF IncomingDataFromUser
  <2>2. reply \in Seq(Units)
    BY <1>3, HitReply
  <2> HIDE DEF reply
  <2>3. s.bytesToTransmit \o reply \in Seq(Units)
    BY <1>4, <2>2
  <2>4. Accepted(s.bytesToTransmit \o reply, free) \in Seq(Units)
    BY <2>1, <2>3, FreeSpaceType, AcceptedUnits
  <2>5. user' = [user EXCEPT ![c].gets = << >>,
                   ![c].got = @ \o Accepted(s.bytesToTransmit \o reply, free)]
    BY <2>1 DEF Hit, reply
  <2>6. user[c].got \o Accepted(s.bytesToTransmit \o reply, free) \in Seq(Units)
    BY <1>2, <2>4 DEF UserEnds
  <2>7. user' \in [Users -> UserEnds]
    BY <1>2, <1>5, <2>5, <2>6, ZenonT(60) DEF UserEnds
  <2>8. proxy' \in [Users -> Objects]
    BY <1>2, <1>4, <1>5, <2>1 DEF Hit, Objects
  <2>9. UNCHANGED <<phase, fileSizes, origin>>
    BY <2>1 DEF Hit
  <2> QED BY <2>7, <2>8, <2>9 DEF TypeOK, Objects, UserEnds, OriginEnds
<1>7. CASE fileSizes[f] = 0
  <2>1. Miss(c, f, s)
    BY <1>1, <1>7 DEF IncomingDataFromUser
  <2>2. user' \in [Users -> UserEnds]
    BY <1>2, <1>5, <2>1 DEF Miss, UserEnds
  <2>3. proxy' \in [Users -> Objects]
    BY <1>2, <1>3, <1>4, <2>1 DEF Miss, Restarted, Objects
  <2>4. Append(origin[c].gets, f) \in Seq(Files)
    BY <1>2, <1>3 DEF OriginEnds
  <2>5. origin' \in [Users -> OriginEnds]
    BY <1>2, <2>1, <2>4, ZenonT(60) DEF Miss, OriginEnds
  <2>6. UNCHANGED <<phase, fileSizes>>
    BY <2>1 DEF Miss
  <2> QED BY <2>2, <2>3, <2>5, <2>6 DEF TypeOK, Objects, UserEnds, OriginEnds
<1> QED BY <1>6, <1>7

\* A packet of the origin keeps the types.
LEMMA TypeServer ==
  ASSUME TypeOK, NEW c \in Users, NEW n \in 1..Len(origin[c].data), IncomingDataFromServer(c, n)
  PROVE  TypeOK'
<1>1. PICK s : s = ParseResponseHeader(proxy[c], SubSeq(origin[c].data, 1, n))
  OBVIOUS
<1>2. /\ fileSizes \in [Files -> Lengths] /\ proxy \in [Users -> Objects]
      /\ user \in [Users -> UserEnds] /\ origin \in [Users -> OriginEnds]
  BY TypeParts
<1>3. s \in Objects
  <2>1. proxy[c] \in Objects /\ origin[c].data \in Seq(Units)
    BY <1>2 DEF OriginEnds
  <2> QED BY <1>1, <2>1, ParsedObject
<1>4. origin' \in [Users -> OriginEnds] /\ UNCHANGED phase
  <2>1. SubSeq(origin[c].data, n + 1, Len(origin[c].data)) \in Seq(Units)
    BY <1>2 DEF OriginEnds
  <2> QED BY <1>2, <2>1, ZenonT(60) DEF IncomingDataFromServer, OriginEnds
<1>5. CASE s.bytesRecv = s.contentLength
  <2> DEFINE units == s.bytesToTransmit \o Response(s.contentLength, s.contentLength, "random")
  <2>1. fileSizes' = [fileSizes EXCEPT ![s.fileToRequest] = s.contentLength]
    BY <1>1, <1>5 DEF IncomingDataFromServer
  <2>2. PICK free \in FreeSpace : FinishedIncomingDataFromServer(c, s, free)
    BY <1>1, <1>5 DEF IncomingDataFromServer
  <2>3. s.contentLength \in Lengths /\ s.contentLength \in Nat /\ s.bytesToTransmit \in Seq(Units)
    BY <1>3, LengthsType DEF Objects
  <2>4. fileSizes' \in [Files -> Lengths]
    BY <1>2, <2>1, <2>3
  <2>5. Response(s.contentLength, s.contentLength, "random") \in Seq(Units)
    BY <2>3, ResponseUnits
  <2>6. units \in Seq(Units)
    BY <2>3, <2>5
  <2>7. /\ proxy' = [proxy EXCEPT ![c] = [s EXCEPT !.isFirstPacket = TRUE,
                                                   !.bytesToTransmit = units]]
        /\ user' = [user EXCEPT ![c].got = @ \o Accepted(units, free)]
    BY <2>2 DEF FinishedIncomingDataFromServer
  <2> HIDE DEF units
  <2>8. Accepted(units, free) \in Seq(Units)
    BY <2>6, FreeSpaceType, AcceptedUnits
  <2>9. user[c].got \o Accepted(units, free) \in Seq(Units)
    BY <1>2, <2>8 DEF UserEnds
  <2>10. proxy' \in [Users -> Objects]
    BY <1>2, <1>3, <2>6, <2>7 DEF Objects
  <2>11. user' \in [Users -> UserEnds]
    BY <1>2, <2>7, <2>9 DEF UserEnds
  <2> QED BY <1>4, <2>4, <2>10, <2>11 DEF TypeOK, Objects, UserEnds, OriginEnds
<1>6. CASE s.bytesRecv # s.contentLength
  <2>1. proxy' = [proxy EXCEPT ![c] = s] /\ UNCHANGED <<fileSizes, user>>
    BY <1>1, <1>6 DEF IncomingDataFromServer
  <2>2. proxy' \in [Users -> Objects]
    BY <1>2, <1>3, <2>1
  <2> QED BY <1>4, <2>1, <2>2 DEF TypeOK, Objects, UserEnds, OriginEnds
<1> QED BY <1>5, <1>6

\* Every step keeps the types.
LEMMA TypeNext == TypeOK /\ [Next]_vars => TypeOK'
<1> SUFFICES ASSUME TypeOK, [Next]_vars PROVE TypeOK'
  OBVIOUS
<1>1. /\ fileSizes \in [Files -> Lengths] /\ proxy \in [Users -> Objects]
      /\ user \in [Users -> UserEnds] /\ origin \in [Users -> OriginEnds]
  BY TypeParts
<1>2. CASE UNCHANGED vars
  BY <1>2 DEF vars, TypeOK
<1>3. CASE StartApplication
  <2>1. fileSizes' \in [Files -> Lengths]
    BY <1>1, <1>3, LengthsType, ProxyAssumption DEF StartApplication
  <2> QED BY <1>3, <2>1 DEF StartApplication, TypeOK
<1>4. CASE StopApplication
  BY <1>4 DEF StopApplication, TypeOK
<1>5. ASSUME NEW c \in Users, ConnectionAccepted(c) \/ ConnectionComplete(c) \/ ConnectionFailed(c)
      PROVE  TypeOK'
  <2>1. << >> \in Seq(Files)
    OBVIOUS
  <2>2. origin' \in [Users -> OriginEnds]
    <3>1. CASE ConnectionAccepted(c)
      BY <1>1, <3>1 DEF ConnectionAccepted, OriginEnds
    <3>2. CASE ConnectionComplete(c)
      BY <1>1, <3>2 DEF ConnectionComplete, OriginEnds
    <3>3. CASE ConnectionFailed(c)
      BY <1>1, <2>1, <3>3 DEF ConnectionFailed, OriginEnds
    <3> QED BY <1>5, <3>1, <3>2, <3>3
  <2>3. UNCHANGED <<phase, fileSizes, proxy, user>>
    BY <1>5 DEF ConnectionAccepted, ConnectionComplete, ConnectionFailed
  <2> QED BY <2>2, <2>3 DEF TypeOK, OriginEnds
<1>9. ASSUME NEW c \in Users, ConnectionBroken(c)
      PROVE  TypeOK'
  <2>1. [state |-> "failed", gets |-> << >>, data |-> << >>] \in OriginEnds
    <3>1. << >> \in Seq(Files) /\ << >> \in Seq(Units)
      OBVIOUS
    <3> QED BY <3>1 DEF OriginEnds
  <2>2. origin' \in [Users -> OriginEnds]
    BY <1>1, <1>9, <2>1 DEF ConnectionBroken
  <2> QED BY <1>9, <2>2 DEF ConnectionBroken, TypeOK, OriginEnds
<1>6. ASSUME NEW c \in Users, NEW f \in Files, Ask(c, f)
      PROVE  TypeOK'
  <2>1. user[c].gets \in Seq(Files) /\ user[c].asks \in 0..MaxAsks
    BY <1>1 DEF UserEnds
  <2>2. Append(user[c].gets, f) \in Seq(Files) /\ << >> \in Seq(Units) /\ user[c].asks + 1 \in 0..MaxAsks
    BY <1>6, <2>1, ProxyAssumption DEF Ask
  <2>3. user' = [user EXCEPT ![c] = [asked |-> f, asks |-> user[c].asks + 1,
                                     gets |-> Append(user[c].gets, f), got |-> << >>]]
    BY <1>6 DEF Ask
  <2>4. user' \in [Users -> UserEnds]
    BY <1>1, <2>2, <2>3 DEF UserEnds
  <2>5. UNCHANGED <<phase, fileSizes, proxy, origin>>
    BY <1>6 DEF Ask
  <2> QED BY <2>4, <2>5 DEF TypeOK, UserEnds
<1>7. ASSUME NEW c \in Users, ReplyComplete(c)
      PROVE  TypeOK'
  <2>1. << >> \in Seq(Units)
    OBVIOUS
  <2>2. user' \in [Users -> UserEnds]
    BY <1>1, <1>7, <2>1, ZenonT(60) DEF ReplyComplete, UserEnds
  <2> QED BY <1>7, <2>2 DEF ReplyComplete, TypeOK, UserEnds
<1>8. ASSUME NEW c \in Users, OriginReplies(c)
      PROVE  TypeOK'
  <2>1. PICK f : f = Head(origin[c].gets)
    OBVIOUS
  <2>2. PICK reply : reply = IF f \in Missing THEN <<NotFound>>
                             ELSE Response(Size[f], Size[f], IF f \in Mpds THEN "mpd" ELSE "random")
    OBVIOUS
  <2>3. origin[c].gets \in Seq(Files) /\ origin[c].gets # << >> /\ origin[c].data \in Seq(Units)
    BY <1>1, <1>8 DEF OriginReplies, OriginEnds
  <2>4. f \in Files /\ Tail(origin[c].gets) \in Seq(Files)
    BY <2>1, <2>3, HeadTailProperties
  <2>5. Size[f] \in Lengths /\ Size[f] \in Nat
    BY <2>4, LengthsType
  <2>6. reply \in Seq(Units)
    <3>1. NotFound \in Units
      BY LengthsType DEF NotFound, Units
    <3>2. Response(Size[f], Size[f], "mpd") \in Seq(Units) /\ Response(Size[f], Size[f], "random") \in Seq(Units)
      BY <2>5, ResponseUnits
    <3> QED BY <2>2, <3>1, <3>2
  <2>7. origin' = [origin EXCEPT ![c].gets = Tail(@), ![c].data = @ \o reply]
    BY <1>8, <2>1, <2>2 DEF OriginReplies
  <2>8. origin[c].data \o reply \in Seq(Units)
    BY <2>3, <2>6
  <2>9. origin' \in [Users -> OriginEnds]
    BY <1>1, <2>4, <2>7, <2>8, ZenonT(60) DEF OriginEnds
  <2> QED BY <1>8, <2>9, ZenonT(60) DEF OriginReplies, TypeOK, OriginEnds
<1> QED BY <1>2, <1>3, <1>4, <1>5, <1>6, <1>7, <1>8, <1>9, TypeUser, TypeServer DEF Next, Proxy, Environment

\* Every variable of the proxy keeps its type, whatever users do: in
\* particular the map only ever holds sizes of files and the length a reply
\* without one may leave.
THEOREM TypeCorrect == Spec => []TypeOK
BY TypeInit, TypeNext, PTL DEF Spec

-----------------------------------------------------------------------------
(* The stages of a request *)

\* An exchange is at the stage it was when nothing of it changes.
LEMMA ExchangeFrame ==
  ASSUME NEW d \in Users, Exchange(d),
         user'[d] = user[d], proxy'[d] = proxy[d], origin'[d] = origin[d]
  PROVE  Exchange(d)'
<1>1. CASE Idle(d)
  BY <1>1 DEF Exchange, Idle, Quiet
<1>2. CASE Requested(d)
  BY <1>2 DEF Exchange, Requested
<1>3. CASE Forwarded(d)
  BY <1>3 DEF Exchange, Forwarded, Begun, Fresh
<1>4. CASE Answered(d)
  BY <1>4 DEF Exchange, Answered, Begun, Fresh
<1>5. CASE Receiving(d)
  BY <1>5 DEF Exchange, Receiving, Begun
<1>6. CASE Served(d)
  BY <1>6 DEF Exchange, Served, Quiet
<1> QED BY <1>1, <1>2, <1>3, <1>4, <1>5, <1>6 DEF Exchange

\* A user that does not give up asks when nothing is under way.
LEMMA AskStage ==
  ASSUME PInv, ~MayAbort, NEW c \in Users, NEW f \in Files, Ask(c, f)
  PROVE  Requested(c)'
<1>1. user[c].asked = NoFile
  BY DEF Ask
<1>2. Idle(c)
  BY <1>1, ProxyAssumption DEF PInv, Exchange, Requested, Forwarded, Answered, Receiving, Served, Begun
<1>3. /\ user'[c] = [asked |-> f, asks |-> user[c].asks + 1,
                     gets |-> Append(user[c].gets, f), got |-> << >>]
      /\ origin'[c] = origin[c]
  BY DEF Ask, PInv, TypeOK
<1>4. Append(user[c].gets, f) = <<f>>
  BY <1>2 DEF Idle, Quiet
<1> QED BY <1>2, <1>3, <1>4 DEF Requested, Idle, Quiet

\* A complete reply ends the exchange.
LEMMA CompleteStage ==
  ASSUME PInv, NEW c \in Users, ReplyComplete(c)
  PROVE  Idle(c)'
<1>1. user[c].asked # NoFile /\ user[c].got # << >>
  BY DEF ReplyComplete, Complete
<1>2. Served(c)
  BY <1>1 DEF PInv, Exchange, Idle, Requested, Forwarded, Answered, Receiving, Begun
<1>3. /\ user'[c].asked = NoFile /\ user'[c].got = << >> /\ user'[c].gets = user[c].gets
      /\ origin'[c] = origin[c]
  BY DEF ReplyComplete, PInv, TypeOK
<1> QED BY <1>2, <1>3 DEF Served, Idle, Quiet

\* The origin answers the one request it was sent.
LEMMA OriginStage ==
  ASSUME PInv, NEW c \in Users, OriginReplies(c)
  PROVE  Answered(c)'
<1>1. Forwarded(c)
  BY DEF OriginReplies, PInv, Exchange, Idle, Requested, Answered, Receiving, Served, Quiet
<1>2. PICK f : f = user[c].asked
  OBVIOUS
<1>3. f \in Files /\ origin[c].gets = <<f>> /\ origin[c].data = << >>
  BY <1>1, <1>2 DEF Forwarded, Begun
<1>4. PICK reply : reply = IF f \in Missing THEN <<NotFound>>
                           ELSE Response(Size[f], Size[f], IF f \in Mpds THEN "mpd" ELSE "random")
  OBVIOUS
<1>5. origin' = [origin EXCEPT ![c].gets = Tail(@), ![c].data = @ \o reply]
  BY <1>3, <1>4 DEF OriginReplies
<1>6. /\ origin'[c].state = "up" /\ origin'[c].gets = << >>
      /\ origin'[c].data = << >> \o reply
  BY <1>3, <1>5 DEF PInv, TypeOK, OriginReplies
<1>7. user'[c] = user[c] /\ proxy'[c] = proxy[c]
  BY DEF OriginReplies
<1>8. CASE f \in Missing
  <2>1. << >> \o reply = <<NotFound>>
    BY <1>4, <1>8
  <2> QED BY <1>1, <1>2, <1>6, <1>7, <1>8, <2>1 DEF Forwarded, Answered, Begun, Fresh
<1>9. CASE f \notin Missing
  <2>1. Size[f] \in Lengths /\ Size[f] \in Nat
    BY <1>3, LengthsType
  <2>2. /\ Response(Size[f], Size[f], "mpd") \in Seq(Units)
        /\ Len(Response(Size[f], Size[f], "mpd")) = 1 + Size[f]
        /\ Response(Size[f], Size[f], "mpd")[1] = Header(Size[f])
    BY <2>1, ResponseUnits
  <2>3. /\ Response(Size[f], Size[f], "random") \in Seq(Units)
        /\ Len(Response(Size[f], Size[f], "random")) = 1 + Size[f]
        /\ Response(Size[f], Size[f], "random")[1] = Header(Size[f])
    BY <2>1, ResponseUnits
  <2>4. reply \in Seq(Units) /\ Len(reply) = 1 + Size[f] /\ reply[1] = Header(Size[f])
    BY <1>4, <1>9, <2>2, <2>3
  <2>5. << >> \o reply = reply
    BY <2>4, ConcatEmptySeq
  <2> QED BY <1>1, <1>2, <1>6, <1>7, <1>9, <2>4, <2>5 DEF Forwarded, Answered, Begun, Fresh
<1> QED BY <1>8, <1>9

\* With a connection that breaks the request is lost.
LEMMA BrokenStage ==
  ASSUME PInv, NEW c \in Users, ConnectionBroken(c)
  PROVE  Exchange(c)'
<1>1. /\ user'[c] = user[c] /\ proxy'[c] = proxy[c] /\ origin'[c].gets = << >> /\ origin'[c].data = << >>
      /\ origin[c].gets # << >> \/ origin[c].data # << >>
  BY DEF ConnectionBroken, PInv, TypeOK
<1>2. Forwarded(c) \/ Answered(c) \/ Receiving(c)
  BY <1>1 DEF PInv, Exchange, Idle, Requested, Served, Quiet
<1>3. Begun(c)
  BY <1>2 DEF Forwarded, Answered, Receiving
<1> QED BY <1>1, <1>3 DEF Exchange, Begun, Served, Quiet, BeginsReply

\* A connection that is made or fails has nothing on its way back.
LEMMA ConnectionStage ==
  ASSUME PInv, NEW c \in Users,
         ConnectionAccepted(c) \/ ConnectionComplete(c) \/ ConnectionFailed(c)
  PROVE  Exchange(c)'
<1>1. Idle(c) \/ Requested(c) \/ Forwarded(c) \/ Served(c)
  BY DEF PInv, Exchange, Answered, Receiving,
         ConnectionAccepted, ConnectionComplete, ConnectionFailed
<1>2. user'[c] = user[c] /\ proxy'[c] = proxy[c]
  BY DEF ConnectionAccepted, ConnectionComplete, ConnectionFailed
<1>3. origin'[c].data = origin[c].data /\ origin'[c].gets \in {origin[c].gets, << >>}
  <2>1. CASE ConnectionAccepted(c)
    BY <2>1 DEF ConnectionAccepted, PInv, TypeOK
  <2>2. CASE ConnectionComplete(c)
    BY <2>2 DEF ConnectionComplete, PInv, TypeOK
  <2>3. CASE ConnectionFailed(c)
    BY <2>3 DEF ConnectionFailed, PInv, TypeOK
  <2> QED BY <2>1, <2>2, <2>3
<1>4. CASE Idle(c)
  BY <1>2, <1>3, <1>4 DEF Exchange, Idle, Quiet
<1>5. CASE Requested(c)
  BY <1>2, <1>3, <1>5 DEF Exchange, Requested
<1>6. CASE Forwarded(c)
  <2>1. CASE origin'[c].gets = origin[c].gets
    BY <1>2, <1>3, <1>6, <2>1 DEF Exchange, Forwarded, Begun, Fresh
  <2>2. CASE origin'[c].gets = << >>
    BY <1>2, <1>3, <1>6, <2>2 DEF Exchange, Forwarded, Begun, Served, Quiet, BeginsReply
  <2> QED BY <1>3, <2>1, <2>2
<1>7. CASE Served(c)
  BY <1>2, <1>3, <1>7 DEF Exchange, Served, Quiet
<1> QED BY <1>1, <1>4, <1>5, <1>6, <1>7

\* What a socket accepts of the full reply begins the reply.
LEMMA AcceptedBegins ==
  ASSUME NEW f \in Files, NEW free \in FreeSpace,
         NEW of, of = IF f \in Mpds THEN "mpd" ELSE "random"
  PROVE  BeginsReply(f, << >> \o Accepted(<< >> \o Response(Size[f], Size[f], of), free))
<1> DEFINE reply == Response(Size[f], Size[f], of)
           got == Accepted(reply, free)
<1>1. of \in {"mpd", "random"} /\ Size[f] \in Lengths /\ Size[f] \in Nat /\ free \in Nat
  BY LengthsType, FreeSpaceType
<1>2. /\ reply \in Seq(Units) /\ Len(reply) = 1 + Size[f] /\ reply[1] = Header(Size[f])
      /\ \A i \in 2..(1 + Size[f]) : reply[i] = Body(of)
  BY <1>1, ResponseUnits
<1> HIDE DEF reply
<1>3. /\ got \in Seq(Units) /\ Len(got) <= Len(reply)
      /\ \A i \in 1..Len(got) : got[i] = reply[i]
  BY <1>1, <1>2, AcceptedUnits
<1> HIDE DEF got
<1>4. << >> \o reply = reply /\ << >> \o got = got
  BY <1>2, <1>3, ConcatEmptySeq
<1>5. \A i \in 2..Len(got) : got[i].type = of
  BY <1>1, <1>2, <1>3 DEF Body
<1>6. got # << >> => got[1] = Header(Size[f])
  <2>1. got # << >> => 1 \in 1..Len(got)
    BY <1>3, EmptySeq
  <2> QED BY <1>2, <1>3, <2>1
<1>7. BeginsReply(f, got)
  BY <1>1, <1>2, <1>3, <1>5, <1>6 DEF BeginsReply
<1> QED BY <1>4, <1>7 DEF reply, got

\* A request is served from the map, forwarded, or lost with the connection.
LEMMA UserStage ==
  ASSUME PInv, NEW c \in Users, IncomingDataFromUser(c)
  PROVE  Forwarded(c)' \/ Served(c)'
<1>1. Requested(c)
  BY DEF IncomingDataFromUser, PInv, Exchange, Idle, Forwarded, Answered, Receiving, Served, Quiet, Begun
<1>2. PICK f, s : f = user[c].asked /\ s = Cleared(proxy[c])
  OBVIOUS
<1>3. f \in Files /\ user[c].gets = <<f>> /\ Head(user[c].gets) = f
  BY <1>1, <1>2 DEF Requested
<1>4. s.bytesToTransmit = << >> /\ s \in Objects
  <2>1. proxy[c] \in Objects /\ << >> \in Seq(Units)
    BY TypeParts DEF PInv
  <2> QED BY <1>2, <2>1 DEF Cleared, Objects
<1>5. user \in [Users -> UserEnds] /\ origin \in [Users -> OriginEnds] /\ proxy \in [Users -> Objects]
  BY TypeParts DEF PInv
<1>6. ASSUME fileSizes[f] # 0 PROVE Served(c)'
  <2> DEFINE reply == Response(fileSizes[f], IF f \in Mpds THEN Size[Mpd] ELSE fileSizes[f],
                               IF f \in Mpds THEN "mpd" ELSE "random")
  <2>1. PICK free \in FreeSpace : Hit(c, f, s, free)
    BY <1>2, <1>3, <1>6 DEF IncomingDataFromUser
  <2>2. /\ user' = [user EXCEPT ![c].gets = << >>,
                       ![c].got = @ \o Accepted(s.bytesToTransmit \o reply, free)]
        /\ UNCHANGED origin
    BY <2>1 DEF Hit, reply
  <2> HIDE DEF reply
  <2>3. /\ user'[c].asked = f /\ user'[c].gets = << >>
        /\ user'[c].got = << >> \o Accepted(<< >> \o reply, free)
    BY <1>1, <1>2, <1>4, <1>5, <2>2 DEF Requested, UserEnds
  <2>4. ASSUME f \notin Missing, Mpds = {Mpd}
        PROVE  BeginsReply(f, user'[c].got)
    <3>1. fileSizes[f] = Size[f]
      BY <1>3, <1>6, <2>4 DEF PInv, SizesRight
    <3>2. PICK of : of = IF f \in Mpds THEN "mpd" ELSE "random"
      OBVIOUS
    <3>3. (IF f \in Mpds THEN Size[Mpd] ELSE fileSizes[f]) = Size[f]
      BY <2>4, <3>1
    <3>4. reply = Response(Size[f], Size[f], of)
      BY <3>1, <3>2, <3>3 DEF reply
    <3> QED BY <1>3, <2>3, <3>2, <3>4, AcceptedBegins
  <2> QED BY <1>1, <1>3, <2>2, <2>3, <2>4 DEF Requested, Served, Quiet
<1>7. ASSUME fileSizes[f] = 0 PROVE Forwarded(c)' \/ Served(c)'
  <2>1. Miss(c, f, s)
    BY <1>2, <1>3, <1>7 DEF IncomingDataFromUser
  <2>2. f # Mpd
    <3>1. phase # "init"
      BY <1>2, <1>3, ProxyAssumption DEF PInv, Connected
    <3> QED BY <1>7, <3>1, ProxyAssumption DEF PInv, MpdKnown
  <2>3. user'[c].asked = f /\ user'[c].gets = << >> /\ user'[c].got = << >>
    BY <1>1, <1>2, <1>5, <2>1 DEF Miss, Requested, UserEnds
  <2>4. proxy'[c] = Restarted(f, s)
    BY <1>5, <2>1 DEF Miss
  <2>5. /\ proxy'[c].fileToRequest = f /\ proxy'[c].bytesToTransmit = << >>
        /\ proxy'[c].isFirstPacket /\ proxy'[c].bytesRecv = 0
    BY <1>4, <2>4 DEF Restarted, Objects
  <2>6. CASE origin[c].state = "failed"
    <3>1. origin'[c].gets = << >> /\ origin'[c].data = << >>
      BY <1>1, <1>5, <2>1, <2>6 DEF Miss, Requested, OriginEnds
    <3> QED BY <1>3, <2>3, <3>1 DEF Served, Quiet, BeginsReply
  <2>7. CASE origin[c].state # "failed"
    <3>1. origin'[c].gets = Append(origin[c].gets, f) /\ origin'[c].data = << >>
      BY <1>1, <1>5, <2>1, <2>7 DEF Miss, Requested, OriginEnds
    <3>2. Append(origin[c].gets, f) = <<f>>
      BY <1>1 DEF Requested
    <3> QED BY <1>3, <2>2, <2>3, <2>5, <3>1, <3>2 DEF Forwarded, Begun, Fresh
  <2> QED BY <2>6, <2>7
<1> QED BY <1>6, <1>7

\* A packet of the reply is counted; the last one enters the size that the
\* header gave into the map and serves the user.
LEMMA ServerStage ==
  ASSUME PInv, NEW c \in Users, NEW n \in 1..Len(origin[c].data), IncomingDataFromServer(c, n)
  PROVE  /\ Receiving(c)' \/ Served(c)'
         /\ SizesRight' /\ MpdKnown'
<1>1. Answered(c) \/ Receiving(c)
  BY DEF PInv, Exchange, Idle, Requested, Forwarded, Served, Quiet
<1>2. PICK f, s : /\ f = user[c].asked
                  /\ s = ParseResponseHeader(proxy[c], SubSeq(origin[c].data, 1, n))
  OBVIOUS
<1>3. Begun(c) /\ f \in Files \ {Mpd} /\ origin[c].state = "up" /\ origin[c].gets = << >>
  BY <1>1, <1>2 DEF Answered, Receiving, Begun
<1>4. /\ fileSizes \in [Files -> Lengths] /\ proxy \in [Users -> Objects]
      /\ user \in [Users -> UserEnds] /\ origin \in [Users -> OriginEnds]
  BY TypeParts DEF PInv
<1>5. proxy[c] \in Objects /\ origin[c].data \in Seq(Units)
  BY <1>4 DEF OriginEnds
<1>6. /\ s \in Objects /\ ~s.isFirstPacket
      /\ s.fileToRequest = proxy[c].fileToRequest /\ s.bytesToTransmit = proxy[c].bytesToTransmit
      /\ proxy[c].isFirstPacket /\ origin[c].data[1].type = "header" =>
           s.contentLength = origin[c].data[1].len /\ s.bytesRecv = proxy[c].bytesRecv + n - 1
      /\ ~(proxy[c].isFirstPacket /\ origin[c].data[1].type = "header") =>
           s.contentLength = proxy[c].contentLength /\ s.bytesRecv = proxy[c].bytesRecv + n
  BY <1>2, <1>5, ParsedObject
<1>7. s.fileToRequest = f /\ s.bytesToTransmit = << >> /\ user[c].got = << >> /\ user[c].gets = << >>
  BY <1>2, <1>3, <1>6 DEF Begun
<1>8. /\ origin'[c].state = "up" /\ origin'[c].gets = << >>
      /\ origin'[c].data = SubSeq(origin[c].data, n + 1, Len(origin[c].data))
  BY <1>3, <1>4 DEF IncomingDataFromServer, OriginEnds
<1>9. origin'[c].data \in Seq(Units) /\ Len(origin'[c].data) = Len(origin[c].data) - n
  BY <1>5, <1>8
<1>10. origin'[c].data = << >> <=> Len(origin'[c].data) = 0
  BY <1>9, EmptySeq
<1>11. UNCHANGED phase
  BY DEF IncomingDataFromServer
<1>12. ASSUME s.bytesRecv = s.contentLength
       PROVE  /\ fileSizes' = [fileSizes EXCEPT ![f] = s.contentLength]
              /\ user'[c].asked = f /\ user'[c].gets = << >>
              /\ \E free \in FreeSpace : user'[c].got =
                   << >> \o Accepted(<< >> \o Response(s.contentLength, s.contentLength, "random"), free)
  <2>1. PICK free \in FreeSpace : FinishedIncomingDataFromServer(c, s, free)
    BY <1>2, <1>12 DEF IncomingDataFromServer
  <2>2. fileSizes' = [fileSizes EXCEPT ![f] = s.contentLength]
    BY <1>2, <1>7, <1>12 DEF IncomingDataFromServer
  <2>3. user' = [user EXCEPT ![c].got = @ \o
                  Accepted(s.bytesToTransmit \o Response(s.contentLength, s.contentLength, "random"), free)]
    BY <2>1 DEF FinishedIncomingDataFromServer
  <2>4. /\ user'[c].asked = user[c].asked /\ user'[c].gets = user[c].gets
        /\ user'[c].got = user[c].got \o
             Accepted(s.bytesToTransmit \o Response(s.contentLength, s.contentLength, "random"), free)
    BY <1>4, <2>3 DEF UserEnds
  <2> QED BY <1>2, <1>7, <2>2, <2>4
<1>13. ASSUME s.bytesRecv # s.contentLength
       PROVE  proxy'[c] = s /\ user' = user /\ fileSizes' = fileSizes
  BY <1>2, <1>4, <1>13 DEF IncomingDataFromServer
<1>14. CASE f \in Missing
  <2>1. origin[c].data = <<NotFound>>
    BY <1>1, <1>2, <1>14 DEF Answered, Receiving
  <2>2. origin'[c].data = << >>
    BY <1>9, <1>10, <2>1
  <2>3. CASE s.bytesRecv = s.contentLength
    <3>1. Served(c)'
      BY <1>3, <1>8, <1>12, <1>14, <2>2, <2>3 DEF Served, Quiet
    <3>2. \A g \in Files \ {f} : fileSizes'[g] = fileSizes[g]
      BY <1>4, <1>12, <2>3
    <3> QED BY <1>3, <1>11, <1>14, <3>1, <3>2, ProxyAssumption DEF PInv, SizesRight, MpdKnown
  <2>4. CASE s.bytesRecv # s.contentLength
    <3>1. Served(c)'
      BY <1>2, <1>3, <1>7, <1>8, <1>13, <1>14, <2>2, <2>4 DEF Served, Quiet
    <3> QED BY <1>11, <1>13, <2>4, <3>1 DEF PInv, SizesRight, MpdKnown
  <2> QED BY <2>3, <2>4
<1>15. CASE f \notin Missing
  <2>1. Size[f] \in Nat \ {0}
    BY <1>3, ProxyAssumption
  <2>2. s.contentLength = Size[f] /\ s.bytesRecv + Len(origin'[c].data) = Size[f]
    <3>1. CASE Answered(c)
      <4>1. /\ proxy[c].isFirstPacket /\ proxy[c].bytesRecv = 0
            /\ Len(origin[c].data) = 1 + Size[f] /\ origin[c].data[1] = Header(Size[f])
        BY <1>2, <1>15, <3>1 DEF Answered, Fresh
      <4>2. origin[c].data[1].type = "header" /\ origin[c].data[1].len = Size[f]
        BY <4>1 DEF Header
      <4>3. s.contentLength = Size[f] /\ s.bytesRecv = 0 + n - 1
        BY <1>6, <4>1, <4>2
      <4> QED BY <1>9, <2>1, <4>1, <4>3, SMTT(40)
    <3>2. CASE Receiving(c)
      <4>1. /\ ~proxy[c].isFirstPacket /\ proxy[c].contentLength = Size[f]
            /\ proxy[c].bytesRecv + Len(origin[c].data) = Size[f]
        BY <1>2, <3>2 DEF Receiving
      <4>2. s.contentLength = Size[f] /\ s.bytesRecv = proxy[c].bytesRecv + n
        BY <1>6, <4>1
      <4>3. proxy[c].bytesRecv \in Nat /\ Len(origin[c].data) \in Nat
        BY <1>5 DEF Objects
      <4> QED BY <1>9, <2>1, <4>1, <4>2, <4>3
    <3> QED BY <1>1, <3>1, <3>2
  <2>3. s.bytesRecv \in Nat /\ Len(origin'[c].data) \in Nat
    BY <1>6, <1>9 DEF Objects
  <2>4. CASE s.bytesRecv = s.contentLength
    <3>1. origin'[c].data = << >>
      BY <1>10, <2>1, <2>2, <2>3, <2>4
    <3>2. PICK free \in FreeSpace : user'[c].got =
            << >> \o Accepted(<< >> \o Response(Size[f], Size[f], "random"), free)
      BY <1>12, <2>2, <2>4
    <3>3. Mpds = {Mpd} => BeginsReply(f, user'[c].got)
      BY <1>3, <3>2, AcceptedBegins
    <3>4. Served(c)'
      BY <1>3, <1>8, <1>12, <2>4, <3>1, <3>3 DEF Served, Quiet
    <3>5. fileSizes'[f] = Size[f] /\ \A g \in Files \ {f} : fileSizes'[g] = fileSizes[g]
      BY <1>3, <1>4, <1>12, <2>2, <2>4
    <3> QED BY <1>3, <1>11, <3>4, <3>5, ProxyAssumption DEF PInv, SizesRight, MpdKnown
  <2>5. CASE s.bytesRecv # s.contentLength
    <3>1. origin'[c].data # << >>
      BY <1>10, <2>1, <2>2, <2>3, <2>5
    <3>2. user'[c] = user[c] /\ proxy'[c] = s
      BY <1>13, <2>5
    <3>3. Begun(c)'
      BY <1>2, <1>3, <1>7, <3>2 DEF Begun
    <3>4. Receiving(c)'
      BY <1>2, <1>6, <1>8, <1>15, <2>2, <3>1, <3>2, <3>3 DEF Receiving
    <3> QED BY <1>11, <1>13, <2>5, <3>4 DEF PInv, SizesRight, MpdKnown
  <2> QED BY <2>4, <2>5
<1> QED BY <1>14, <1>15

-----------------------------------------------------------------------------
\* Initially every user is idle, none is connected and the map is empty.
LEMMA ProxyInit == Init => PInv
<1> SUFFICES ASSUME Init PROVE PInv
  OBVIOUS
<1>1. TypeOK
  BY TypeInit
<1>2. SizesRight /\ MpdKnown
  BY DEF Init, SizesRight, MpdKnown
<1>3. \A c \in Users : Idle(c) /\ Connected(c)
  BY DEF Init, Idle, Quiet, Connected
<1> QED BY <1>1, <1>2, <1>3 DEF PInv, Exchange

\* Users stay connected as they were, and no step takes the start back.
LEMMA ConnectedNext ==
  ASSUME PInv, [Next]_vars, NEW d \in Users
  PROVE  Connected(d)'
<1> USE DEF PInv, TypeOK
<1>1. CASE UNCHANGED vars
  BY <1>1 DEF vars, Connected
<1>2. CASE StartApplication
  BY <1>2 DEF StartApplication, Connected
<1>3. CASE StopApplication
  BY <1>3 DEF StopApplication, Connected
<1>4. ASSUME NEW c \in Users, ConnectionAccepted(c) \/ ConnectionComplete(c) \/ ConnectionFailed(c)
      PROVE  Connected(d)'
  <2>1. UNCHANGED <<phase, user>>
    BY <1>4 DEF ConnectionAccepted, ConnectionComplete, ConnectionFailed
  <2>2. CASE ConnectionAccepted(c)
    BY <2>1, <2>2 DEF ConnectionAccepted, Connected
  <2>3. CASE ConnectionComplete(c)
    BY <2>1, <2>3 DEF ConnectionComplete, Connected
  <2>4. CASE ConnectionFailed(c)
    BY <2>1, <2>4 DEF ConnectionFailed, Connected
  <2> QED BY <1>4, <2>2, <2>3, <2>4
<1>10. ASSUME NEW c \in Users, ConnectionBroken(c)
      PROVE  Connected(d)'
  <2>1. UNCHANGED <<phase, user>> /\ origin[c].state = "up"
    BY <1>10 DEF ConnectionBroken
  <2>2. origin'[d].state # "none" <=> origin[d].state # "none"
    BY <1>10, <2>1 DEF ConnectionBroken, TypeOK, PInv
  <2> QED BY <2>1, <2>2 DEF Connected
<1>5. ASSUME NEW c \in Users, IncomingDataFromUser(c)
      PROVE  Connected(d)'
  <2>1. PICK f, s : f = Head(user[c].gets) /\ s = Cleared(proxy[c])
    OBVIOUS
  <2>2. CASE fileSizes[f] # 0
    <3>1. PICK free \in FreeSpace : Hit(c, f, s, free)
      BY <1>5, <2>1, <2>2 DEF IncomingDataFromUser
    <3>2. UNCHANGED <<phase, origin>> /\ user'[d].asked = user[d].asked
      BY <3>1, SMTT(40) DEF Hit
    <3> QED BY <3>2 DEF Connected
  <2>3. CASE fileSizes[f] = 0
    <3>1. Miss(c, f, s)
      BY <1>5, <2>1, <2>3 DEF IncomingDataFromUser
    <3>2. UNCHANGED phase /\ user'[d].asked = user[d].asked /\ origin'[d].state = origin[d].state
      BY <3>1, SMTT(40) DEF Miss
    <3> QED BY <3>2 DEF Connected
  <2> QED BY <2>2, <2>3
<1>6. ASSUME NEW c \in Users, NEW n \in 1..Len(origin[c].data), IncomingDataFromServer(c, n)
      PROVE  Connected(d)'
  <2>1. UNCHANGED phase /\ origin'[d].state = origin[d].state
    BY <1>6 DEF IncomingDataFromServer
  <2>2. PICK s : s = ParseResponseHeader(proxy[c], SubSeq(origin[c].data, 1, n))
    OBVIOUS
  <2>3. UNCHANGED user \/ \E free \in FreeSpace : FinishedIncomingDataFromServer(c, s, free)
    BY <1>6, <2>2 DEF IncomingDataFromServer
  <2>4. ASSUME NEW free \in FreeSpace, FinishedIncomingDataFromServer(c, s, free)
        PROVE  user'[d].asked = user[d].asked
    <3>1. PICK units : user' = [user EXCEPT ![c].got = @ \o units]
      BY <2>4 DEF FinishedIncomingDataFromServer
    <3> QED BY <3>1
  <2>5. user'[d].asked = user[d].asked
    BY <2>3, <2>4
  <2> QED BY <2>1, <2>5 DEF Connected
<1>7. ASSUME NEW c \in Users, NEW f \in Files, Ask(c, f)
      PROVE  Connected(d)'
  BY <1>7 DEF Ask, Connected
<1>8. ASSUME NEW c \in Users, ReplyComplete(c)
      PROVE  Connected(d)'
  BY <1>8 DEF ReplyComplete, Connected
<1>9. ASSUME NEW c \in Users, OriginReplies(c)
      PROVE  Connected(d)'
  <2>1. UNCHANGED <<phase, user>> /\ origin'[d].state = origin[d].state
    BY <1>9 DEF OriginReplies
  <2> QED BY <2>1 DEF Connected
<1> QED BY <1>1, <1>2, <1>3, <1>4, <1>5, <1>6, <1>7, <1>8, <1>9, <1>10 DEF Next, Proxy, Environment

\* An action for one user leaves the exchanges of the others alone.
LEMMA OthersFrame ==
  ASSUME TypeOK, NEW c \in Users, Proxy(c) \/ Environment(c), NEW d \in Users \ {c}
  PROVE  user'[d] = user[d] /\ proxy'[d] = proxy[d] /\ origin'[d] = origin[d]
<1> USE DEF TypeOK
<1>1. CASE IncomingDataFromUser(c)
  BY <1>1 DEF IncomingDataFromUser, Hit, Miss
<1>2. ASSUME NEW n \in 1..Len(origin[c].data), IncomingDataFromServer(c, n)
      PROVE  user'[d] = user[d] /\ proxy'[d] = proxy[d] /\ origin'[d] = origin[d]
  BY <1>2 DEF IncomingDataFromServer, FinishedIncomingDataFromServer
<1>3. CASE ConnectionAccepted(c) \/ ConnectionComplete(c) \/ ConnectionFailed(c)
  BY <1>3 DEF ConnectionAccepted, ConnectionComplete, ConnectionFailed
<1>5. CASE ConnectionBroken(c)
  BY <1>5 DEF ConnectionBroken
<1>4. CASE Environment(c)
  BY <1>4, ZenonT(60) DEF Environment, Ask, ReplyComplete, OriginReplies
<1> QED BY <1>1, <1>2, <1>3, <1>4, <1>5 DEF Proxy

\* Every step keeps the invariant when no user gives a download up.
LEMMA ProxyNext == ~MayAbort /\ PInv /\ [Next]_vars => PInv'
<1> SUFFICES ASSUME ~MayAbort, PInv, [Next]_vars PROVE PInv'
  OBVIOUS
<1> DEFINE Kept == SizesRight' /\ MpdKnown' /\ \A d \in Users : Exchange(d)'
<1>1. TypeOK' /\ \A d \in Users : Connected(d)'
  BY TypeNext, ConnectedNext DEF PInv
<1>2. ASSUME UNCHANGED <<proxy, user, origin>>
      PROVE  \A d \in Users : Exchange(d)'
  BY <1>2, ExchangeFrame DEF PInv
<1>3. ASSUME UNCHANGED <<phase, fileSizes>>
      PROVE  SizesRight' /\ MpdKnown'
  BY <1>3 DEF PInv, SizesRight, MpdKnown
<1>4. ASSUME UNCHANGED vars PROVE Kept
  BY <1>2, <1>3, <1>4 DEF vars
<1>5. ASSUME StartApplication PROVE Kept
  <2>1. fileSizes'[Mpd] = Size[Mpd] /\ \A g \in Files \ {Mpd} : fileSizes'[g] = fileSizes[g]
    BY <1>5, ProxyAssumption DEF StartApplication, PInv, TypeOK
  <2>2. SizesRight' /\ MpdKnown'
    BY <2>1 DEF PInv, SizesRight, MpdKnown
  <2> QED BY <1>2, <1>5, <2>2 DEF StartApplication
<1>6. ASSUME StopApplication PROVE Kept
  BY <1>2, <1>6 DEF StopApplication, PInv, SizesRight, MpdKnown
<1>7. ASSUME NEW c \in Users, Proxy(c) \/ Environment(c)
      PROVE  Kept
  <2>1. ASSUME Exchange(c)' PROVE \A d \in Users : Exchange(d)'
    <3>1. ASSUME NEW d \in Users \ {c} PROVE Exchange(d)'
      BY <1>7, OthersFrame, ExchangeFrame DEF PInv
    <3> QED BY <2>1, <3>1
  <2>2. CASE ConnectionAccepted(c) \/ ConnectionComplete(c) \/ ConnectionFailed(c)
    <3>1. UNCHANGED <<phase, fileSizes>>
      BY <2>2 DEF ConnectionAccepted, ConnectionComplete, ConnectionFailed
    <3> QED BY <1>3, <2>1, <2>2, <3>1, ConnectionStage
  <2>8. CASE ConnectionBroken(c)
    <3>1. UNCHANGED <<phase, fileSizes>>
      BY <2>8 DEF ConnectionBroken
    <3> QED BY <1>3, <2>1, <2>8, <3>1, BrokenStage
  <2>3. CASE IncomingDataFromUser(c)
    <3>1. UNCHANGED <<phase, fileSizes>>
      BY <2>3 DEF IncomingDataFromUser, Hit, Miss
    <3> QED BY <1>3, <2>1, <2>3, <3>1, UserStage DEF Exchange
  <2>4. ASSUME NEW n \in 1..Len(origin[c].data), IncomingDataFromServer(c, n)
        PROVE  Kept
    BY <2>1, <2>4, ServerStage DEF Exchange
  <2>5. ASSUME NEW f \in Files, Ask(c, f)
        PROVE  Kept
    <3>1. UNCHANGED <<phase, fileSizes>>
      BY <2>5 DEF Ask
    <3> QED BY <1>3, <2>1, <2>5, <3>1, AskStage DEF Exchange
  <2>6. CASE ReplyComplete(c)
    <3>1. UNCHANGED <<phase, fileSizes>>
      BY <2>6 DEF ReplyComplete
    <3> QED BY <1>3, <2>1, <2>6, <3>1, CompleteStage DEF Exchange
  <2>7. CASE OriginReplies(c)
    <3>1. UNCHANGED <<phase, fileSizes>>
      BY <2>7 DEF OriginReplies
    <3> QED BY <1>3, <2>1, <2>7, <3>1, OriginStage DEF Exchange
  <2> QED BY <1>7, <2>2, <2>3, <2>4, <2>5, <2>6, <2>7, <2>8 DEF Proxy, Environment
<1>8. Kept
  BY <1>4, <1>5, <1>6, <1>7 DEF Next
<1> QED BY <1>1, <1>8 DEF PInv

\* While no user gives a download up, every exchange is at one of its stages.
THEOREM ExchangesInOrder == ~MayAbort /\ Spec => []PInv
<1>1. CASE MayAbort
  BY <1>1, PTL
<1>2. CASE ~MayAbort
  <2>1. PInv /\ [Next]_vars => PInv'
    BY <1>2, ProxyNext
  <2> QED BY <2>1, ProxyInit, PTL DEF Spec
<1> QED BY <1>1, <1>2

\* While no user gives a download up, the shared map gives every file of the
\* origin its true size: packets of one user's reply are never counted for the
\* file of another, nor for the one asked for before, also after a reply that
\* carries no length (IncomingDataFromServer).
THEOREM SizesRightHolds == ~MayAbort /\ Spec => []SizesRight
<1>1. PInv => SizesRight
  BY DEF PInv
<1> QED BY <1>1, ExchangesInOrder, PTL

\* ... and, when the imported MPD is the only one there is (the code serves it
\* for every MPD), a user gets the beginning of the reply to what it asked for
\* and nothing else.
THEOREM ReplyIsOfFileHolds == ~MayAbort /\ Mpds = {Mpd} /\ Spec => []ReplyIsOfFile
<1>1. PInv /\ Mpds = {Mpd} => ReplyIsOfFile
  <2> SUFFICES ASSUME PInv, Mpds = {Mpd}, NEW c \in Users,
                      user[c].asked \in Files \ Missing, user[c].got # << >>
               PROVE  BeginsReply(user[c].asked, user[c].got)
    BY DEF ReplyIsOfFile, BeginsReply
  <2>1. Served(c)
    BY ProxyAssumption DEF PInv, Exchange, Idle, Requested, Forwarded, Answered, Receiving, Begun
  <2> QED BY <2>1 DEF Served
<1>2. CASE Mpds = {Mpd}
  <2>1. PInv => ReplyIsOfFile
    BY <1>1, <1>2
  <2> QED BY <2>1, ExchangesInOrder, PTL
<1>3. CASE ~(Mpds = {Mpd})
  BY <1>3, PTL
<1> QED BY <1>2, <1>3
=============================================================================
