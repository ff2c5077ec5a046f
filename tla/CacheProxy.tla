----------------------------- MODULE CacheProxy -----------------------------
(***************************************************************************)
(* The caching proxy (dash-fake-cache-server.cc) and its per-client object *)
(* (dash-fake-virtual-clientsocket.cc): one connection from a user, one to *)
(* the origin, and a map of file sizes that all clients share.  A file is  *)
(* "cached" when its size is in the map: its payload is made up.           *)
(*                                                                         *)
(* An action is one simulator event.  Data are units: a response header is *)
(* one unit that carries the Content-Length, a body of size n is n units.  *)
(* TCP delivers what was sent in order and in packets of any length.  The  *)
(* scratch buffer that packets are copied to is left out.                  *)
(***************************************************************************)
EXTENDS Naturals, Sequences

CONSTANTS
  Users,     \* connections from users
  Files,     \* what users may ask for
  Missing,   \* files the origin does not have
  Mpds,      \* files whose name ends with ".mpd.gz"
  Mpd,       \* the one the proxy imports at its start
  Size,      \* their sizes
  SndBuf,    \* units the send buffer of a user's socket takes
  MaxAsks,   \* bound: requests of a user
  MayAbort,  \* may a user ask anew before the reply is complete
  NoFile

ASSUME ProxyAssumption ==
  /\ Missing \subseteq Files /\ Mpds \subseteq Files /\ Mpd \in Mpds \ Missing
  /\ Size \in [Files -> Nat \ {0}] /\ NoFile \notin Files
  /\ SndBuf \in Nat \ {0} /\ MaxAsks \in Nat /\ MayAbort \in BOOLEAN

VARIABLES
  phase,      \* before start, listening, stopped
  fileSizes,  \* m_fileSizes, 0 where a file is not in the map
  proxy,      \* the DashFakeVirtualClientSocket of each user
  user,       \* the user's end of each connection
  origin      \* the connection of each proxy object to the origin

vars == <<phase, fileSizes, proxy, user, origin>>

\* Lengths a header can carry: those of files, and what a length that was
\* never set may happen to be.
Lengths == {0, 1} \cup {Size[f] : f \in Files}

Header(n) == [type |-> "header", len |-> n]
NotFound  == [type |-> "404", len |-> 0]
Body(of)  == [type |-> of, len |-> 0]
Units == [type : {"header", "404", "random", "mpd"}, len : Lengths]

Response(n, size, of) == <<Header(n)>> \o [i \in 1..size |-> Body(of)]

TypeOK ==
  /\ phase \in {"init", "running", "stopped"}
  /\ fileSizes \in [Files -> Lengths]
  /\ proxy \in [Users -> [fileToRequest : Files \cup {NoFile},
                          isFirstPacket : BOOLEAN, contentLength : Lengths,
                          bytesRecv : Nat, bytesToTransmit : Seq(Units)]]
  /\ user \in [Users -> [asked : Files \cup {NoFile}, asks : 0..MaxAsks,
                         gets : Seq(Files), got : Seq(Units)]]
  /\ origin \in [Users -> [state : {"none", "connecting", "up", "failed"},
                           gets : Seq(Files), data : Seq(Units)]]

\* requested_content_length is not initialised; it matters only if it happens
\* to be the length of a 404 reply, which is one unit.
Init ==
  /\ phase = "init"
  /\ fileSizes = [f \in Files |-> 0]
  /\ \E garbage \in [Users -> {0, 1}] :
       proxy = [c \in Users |->
                 [fileToRequest |-> NoFile, isFirstPacket |-> TRUE,
                  contentLength |-> garbage[c], bytesRecv |-> 0,
                  bytesToTransmit |-> << >>]]
  /\ user = [c \in Users |-> [asked |-> NoFile, asks |-> 0,
                              gets |-> << >>, got |-> << >>]]
  /\ origin = [c \in Users |-> [state |-> "none", gets |-> << >>,
                                data |-> << >>]]

-----------------------------------------------------------------------------
(* DASHFakeCacheServer *)

\* The proxy listens and imports one MPD.
StartApplication ==
  /\ phase = "init"
  /\ phase' = "running"
  /\ fileSizes' = [fileSizes EXCEPT ![Mpd] = Size[Mpd]]
  /\ UNCHANGED <<proxy, user, origin>>

\* Only the listening socket is closed.
StopApplication ==
  /\ phase = "running"
  /\ phase' = "stopped"
  /\ UNCHANGED <<fileSizes, proxy, user, origin>>

\* The object of a new user connects to the origin (TryEstablishConnection),
\* also after a stop if the handshake began before it.
ConnectionAccepted(c) ==
  /\ phase # "init" /\ origin[c].state = "none"
  /\ origin' = [origin EXCEPT ![c].state = "connecting"]
  /\ UNCHANGED <<phase, fileSizes, proxy, user>>

ConnectionComplete(c) ==
  /\ origin[c].state = "connecting"
  /\ origin' = [origin EXCEPT ![c].state = "up"]
  /\ UNCHANGED <<phase, fileSizes, proxy, user>>

\* The SYNs run out.  TCP reports a close and the proxy has set no callback for
\* it: nothing is done, and what was sent or will be is lost.
ConnectionFailed(c) ==
  /\ origin[c].state = "connecting"
  /\ origin' = [origin EXCEPT ![c].state = "failed", ![c].gets = << >>]
  /\ UNCHANGED <<phase, fileSizes, proxy, user>>

\* A request is retransmitted too often, though its reply may be on the way:
\* the same.
ConnectionBroken(c) ==
  /\ origin[c].state = "up"
  /\ origin[c].gets # << >> \/ origin[c].data # << >>
  /\ origin' = [origin EXCEPT ![c] = [state |-> "failed", gets |-> << >>,
                                     data |-> << >>]]
  /\ UNCHANGED <<phase, fileSizes, proxy, user>>

-----------------------------------------------------------------------------
(* DashFakeVirtualClientSocket *)

FreeSpace == IF MayAbort THEN 0..SndBuf ELSE {SndBuf}

\* A faulty Accepted: the last unit of the buffer is not used.
AcceptedButOne(units, free) ==
  SubSeq(units, 1, IF Len(units) < free THEN Len(units) ELSE free - 1)

\* What the user's socket takes of a reply: by the time a request arrives all
\* earlier replies are acknowledged, unless the user gave one up.  The rest is
\* never sent.
Accepted(units, free) ==
  SubSeq(units, 1, IF Len(units) < free THEN Len(units) ELSE free)

\* A file in the map: header and payload, or the imported MPD for any MPD, as
\* far as the socket takes it (HandleReadyToTransmitFromUser).
Hit(c, f, s, free) ==
  LET reply == Response(fileSizes[f],
                        IF f \in Mpds THEN Size[Mpd] ELSE fileSizes[f],
                        IF f \in Mpds THEN "mpd" ELSE "random")
  IN /\ user' = [user EXCEPT ![c].gets = << >>,
                   ![c].got = @ \o Accepted(s.bytesToTransmit \o reply, free)]
     /\ proxy' = [proxy EXCEPT ![c] = [s EXCEPT !.bytesToTransmit = << >>]]
     /\ UNCHANGED <<phase, fileSizes, origin>>

\* A faulty Restarted: the file under way keeps its name.
RestartedSameFile(f, s) ==
  [s EXCEPT !.bytesRecv = 0, !.isFirstPacket = TRUE,
            !.fileToRequest = IF @ = NoFile THEN f ELSE @]

\* A file that is not: the count restarts.
Restarted(f, s) ==
  [s EXCEPT !.bytesRecv = 0, !.fileToRequest = f, !.isFirstPacket = TRUE]

\* ... and the origin is asked, also while the connection is being made.
Miss(c, f, s) ==
  /\ user' = [user EXCEPT ![c].gets = << >>]
  /\ proxy' = [proxy EXCEPT ![c] = Restarted(f, s)]
  /\ origin' = [origin EXCEPT ![c].gets =
                  IF origin[c].state = "failed" THEN @ ELSE Append(@, f)]
  /\ UNCHANGED <<phase, fileSizes>>

\* A faulty Cleared: the last reply stays in the buffer.
NotCleared(s) == s

\* The buffer of the reply is emptied before a request is read.
Cleared(s) == [s EXCEPT !.bytesToTransmit = << >>]

\* What has arrived is read at once, and its first GET is parsed.
IncomingDataFromUser(c) ==
  /\ user[c].gets # << >>
  /\ LET f == Head(user[c].gets)
         s == Cleared(proxy[c])
     IN IF fileSizes[f] # 0
        THEN \E free \in FreeSpace : Hit(c, f, s, free)
        ELSE Miss(c, f, s)

\* A faulty ParseResponseHeader: it skips more than the header.
ParseResponseHeaderTooFar(s, packet) ==
  IF s.isFirstPacket /\ packet[1].type = "header"
  THEN [s EXCEPT !.isFirstPacket = FALSE, !.contentLength = packet[1].len,
                 !.bytesRecv = @ + Len(packet) - 2]
  ELSE [s EXCEPT !.isFirstPacket = FALSE, !.bytesRecv = @ + Len(packet)]

\* A packet from the origin is counted; a header is recognised only at the
\* start of a packet, and only one with a length replaces the length.
ParseResponseHeader(s, packet) ==
  IF s.isFirstPacket /\ packet[1].type = "header"
  THEN [s EXCEPT !.isFirstPacket = FALSE, !.contentLength = packet[1].len,
                 !.bytesRecv = @ + Len(packet) - 1]
  ELSE [s EXCEPT !.isFirstPacket = FALSE, !.bytesRecv = @ + Len(packet)]

\* The reply is appended to what is left of earlier ones and sent as far as
\* the user's socket takes it.
FinishedIncomingDataFromServer(c, s, free) ==
  LET units == s.bytesToTransmit
                 \o Response(s.contentLength, s.contentLength, "random")
  IN /\ proxy' = [proxy EXCEPT ![c] = [s EXCEPT !.isFirstPacket = TRUE,
                                                !.bytesToTransmit = units]]
     /\ user' = [user EXCEPT ![c].got = @ \o Accepted(units, free)]

IncomingDataFromServer(c, n) ==
  LET s == ParseResponseHeader(proxy[c], SubSeq(origin[c].data, 1, n)) IN
  /\ origin' = [origin EXCEPT ![c].data = SubSeq(@, n + 1, Len(@))]
  /\ IF s.bytesRecv = s.contentLength
     THEN /\ fileSizes' = [fileSizes EXCEPT ![s.fileToRequest] = s.contentLength]
          /\ \E free \in FreeSpace : FinishedIncomingDataFromServer(c, s, free)
     ELSE /\ proxy' = [proxy EXCEPT ![c] = s]
          /\ UNCHANGED <<fileSizes, user>>
  /\ UNCHANGED phase

-----------------------------------------------------------------------------
(* The user and the origin: an http-client-dash and a fake server. *)

Complete(got) == got # << >> /\ Len(got) = 1 + got[1].len

\* A client asks again when a reply is complete; one that gave a download up
\* asks on the same connection.
Ask(c, f) ==
  /\ origin[c].state # "none" /\ user[c].asks < MaxAsks
  /\ MayAbort \/ user[c].asked = NoFile
  /\ user' = [user EXCEPT ![c] = [asked |-> f, asks |-> @.asks + 1,
                                  gets |-> Append(@.gets, f), got |-> << >>]]
  /\ UNCHANGED <<phase, fileSizes, proxy, origin>>

ReplyComplete(c) ==
  /\ user[c].asked # NoFile /\ Complete(user[c].got)
  /\ user' = [user EXCEPT ![c].asked = NoFile, ![c].got = << >>]
  /\ UNCHANGED <<phase, fileSizes, proxy, origin>>

OriginReplies(c) ==
  /\ origin[c].state = "up" /\ origin[c].gets # << >>
  /\ LET f == Head(origin[c].gets)
         reply == IF f \in Missing THEN <<NotFound>>
                  ELSE Response(Size[f], Size[f],
                                IF f \in Mpds THEN "mpd" ELSE "random")
     IN origin' = [origin EXCEPT ![c].gets = Tail(@), ![c].data = @ \o reply]
  /\ UNCHANGED <<phase, fileSizes, proxy, user>>

-----------------------------------------------------------------------------
Proxy(c) ==
  \/ ConnectionAccepted(c) \/ ConnectionComplete(c) \/ ConnectionFailed(c)
  \/ ConnectionBroken(c) \/ IncomingDataFromUser(c)
  \/ \E n \in 1..Len(origin[c].data) : IncomingDataFromServer(c, n)

Environment(c) ==
  (\E f \in Files : Ask(c, f)) \/ ReplyComplete(c) \/ OriginReplies(c)

Next ==
  \/ StartApplication \/ StopApplication
  \/ \E c \in Users : Proxy(c) \/ Environment(c)

Spec == Init /\ [][Next]_vars

\* The network delivers, and the origin answers; a connection attempt ends.
Fairness ==
  \A c \in Users :
    /\ WF_vars(ConnectionComplete(c) \/ ConnectionFailed(c))
    /\ WF_vars(IncomingDataFromUser(c))
    /\ WF_vars(\E n \in 1..Len(origin[c].data) : IncomingDataFromServer(c, n))
    /\ WF_vars(OriginReplies(c)) /\ WF_vars(ReplyComplete(c))

FairSpec == Spec /\ Fairness

-----------------------------------------------------------------------------
\* The shared map gives a file of the origin its true size, whichever users
\* fetched it and whatever they asked for before, also a file that is missing
\* (IncomingDataFromServer).
SizesRight ==
  \A f \in Files \ Missing : fileSizes[f] \in {0, Size[f]}

\* A user that waits for a file the origin has gets the beginning of that
\* file's reply and nothing else: no rest of an earlier reply, no other
\* length, no more than the length says.
ReplyIsOfFile ==
  \A c \in Users :
    LET f == user[c].asked
        got == user[c].got
    IN f \in Files \ Missing /\ got # << >> =>
         /\ got[1] = Header(Size[f])
         /\ Len(got) <= 1 + Size[f]
         /\ \A i \in 2..Len(got) :
              got[i].type = IF f \in Mpds THEN "mpd" ELSE "random"

\* A request for a file that is served and fits the send buffer is answered in
\* full, unless the origin cannot be reached or its connection breaks.
AskedIsAnswered ==
  \A c \in Users, f \in Files \ Missing :
    user[c].asked = f /\ Size[f] < SndBuf
      ~> user[c].asked # f \/ origin[c].state = "failed"
=============================================================================
