--------------------------- MODULE EdgeController ---------------------------
(***************************************************************************)
(* The control plane of the cloud/edge simulation: the link monitor        *)
(* (monitoring.cc), the table of user groups (bigtable.cc, group-user.h),  *)
(* the controller (ctrl-main.cc) and the part of an edge server it drives  *)
(* (edge-dash-fake-server.cc).                                             *)
(*                                                                         *)
(* Every two seconds the monitor walks over the links.  For each link that *)
(* carried more than the threshold it calls the optimizer, which runs the  *)
(* external solver and applies its answer line by line: "group g is served *)
(* by node s".  A line is applied only if s stores the group's video or    *)
(* still has room for it; applying it rewrites the server table that all   *)
(* clients read before every request.                                      *)
(*                                                                         *)
(* The simulator runs one event at a time.  The monitor's walk is one      *)
(* event, cut here into one step per link and one per solver line (pc,     *)
(* link); packets and joining users are other events, so they occur only   *)
(* while pc = "idle".                                                      *)
(***************************************************************************)
EXTENDS Integers, Sequences, FiniteSets

CONSTANTS
  Users,        \* client nodes
  NetOf,        \* NetOf[u]: broadcast address of u's access network
  ContentOf,    \* ContentOf[u]: the video u watches
  Nodes,        \* nodes with an edge server
  Cloud,        \* the node of the cloud server and of the controller
  IpOf,         \* IpOf[n]: address of the first interface of node n
  Capacity,     \* Capacity[n]: attribute "Capacity" of n's edge server
  Readable,     \* videos whose representation file can be opened
  SolverNodes,  \* nodes the external solver may answer with
  NumLinks,     \* entries of the monitor's linkMap
  Threshold,    \* load above which a link counts as congested
  MaxLoad,      \* bound: load counted on a link in one window
  MaxLines,     \* bound: lines of one answer of the solver
  Algo,         \* optAlgo of ControllerMain::Setup
  ToRedirect,   \* Monitoring::toRedirect
  NoNode        \* actualNode of a group that was never redirected

Contents == {ContentOf[u] : u \in Users}
Nets     == {NetOf[u] : u \in Users}
Links    == 1..NumLinks
Addrs    == {IpOf[n] : n \in Nodes \cup {Cloud}}

KeyOf(u) == <<NetOf[u], ContentOf[u]>>

\* Keys of the server table; the scenario writes one entry per client.
Keys == {KeyOf(u) : u \in Users}

ASSUME UsersAssumption == IsFiniteSet(Users)
ASSUME CloudAssumption == Cloud \notin Nodes
ASSUME IpAssumption ==
  \A m, n \in Nodes \cup {Cloud} : IpOf[m] = IpOf[n] => m = n
ASSUME CapacityAssumption == Capacity \in [Nodes -> Nat]
ASSUME SolverAssumption == SolverNodes \subseteq Nodes \cup {Cloud}
ASSUME BoundsAssumption ==
  NumLinks \in Nat /\ Threshold \in Nat /\ MaxLoad \in Nat /\ MaxLines \in Nat
ASSUME AlgoAssumption == Algo \in {"ILPSolution", "QoSGreedy"}
ASSUME RedirectAssumption == ToRedirect \in BOOLEAN
ASSUME NoNodeAssumption == NoNode \notin Nodes

VARIABLES
  pending,        \* users whose AddUserInGroup event is still scheduled
  groups,         \* BigTable::groups
  serverTable,    \* serverTableList, shared with the clients
  contentVideos,  \* per edge server: videos bound to it, in order
  assignedVideos, \* per edge server: its counter of bound videos
  mpds,           \* per edge server: videos with an MPD in m_fileSizes
  segments,       \* per edge server: videos with segments in m_fileSizes
  reportStats,    \* per edge server: scheduled ReportStats events
  linkMap,        \* Monitoring::linkMap, load of each link in this window
  pc,             \* "idle", "scan", "solve" or "crashed"
  link,           \* the link BandwidthEstimator looks at
  lines           \* lines of the solver's answer applied so far

tableVars == <<pending, groups, serverTable>>
edgeVars  == <<contentVideos, assignedVideos, mpds, segments, reportStats>>
scanVars  == <<pc, link, lines>>
vars      == <<tableVars, edgeVars, linkMap, scanVars>>

Group == [id : Nets, content : Contents, users : Seq(Users),
          serverIp : Addrs, actualNode : Nodes \cup {NoNode}]

TypeOK ==
  /\ pending \subseteq Users
  /\ groups \in Seq(Group)
  /\ serverTable \in [Keys -> Addrs]
  /\ contentVideos \in [Nodes -> Seq(Contents)]
  /\ assignedVideos \in [Nodes -> Nat]
  /\ mpds \in [Nodes -> SUBSET Contents]
  /\ segments \in [Nodes -> SUBSET Contents]
  /\ reportStats \in [Nodes -> Nat]
  /\ linkMap \in [Links -> Nat]
  /\ pc \in {"idle", "scan", "solve", "crashed"}
  /\ link \in Nat
  /\ lines \in Nat

Init ==
  /\ pending = Users
  /\ groups = << >>
  /\ serverTable = [k \in Keys |-> IpOf[Cloud]]
  /\ contentVideos = [n \in Nodes |-> << >>]
  /\ assignedVideos = [n \in Nodes |-> 0]
  /\ mpds = [n \in Nodes |-> {}]
  /\ segments = [n \in Nodes |-> {}]
  /\ reportStats = [n \in Nodes |-> 0]
  /\ linkMap = [l \in Links |-> 0]
  /\ pc = "idle"
  /\ link = 0
  /\ lines = 0

-----------------------------------------------------------------------------
(* Users and groups (bigtable.cc) *)

\* Faulty variants: only the newest group is compared; the video is not.
MatchingNewest(u) ==
  {i \in DOMAIN groups : /\ i = Len(groups)
                         /\ <<groups[i].id, groups[i].content>> = KeyOf(u)}
MatchingNet(u) == {i \in DOMAIN groups : groups[i].id = NetOf[u]}

\* Groups a user belongs to: same access network and same video.
Matching(u) ==
  {i \in DOMAIN groups : <<groups[i].id, groups[i].content>> = KeyOf(u)}

NewGroup(u) ==
  [id |-> NetOf[u], content |-> ContentOf[u], users |-> <<u>>,
   serverIp |-> serverTable[KeyOf(u)], actualNode |-> NoNode]

\* The new user goes into the first matching group, or into a new one whose
\* server is read from the server table.
AddUserInGroup(u) ==
  /\ pc = "idle"
  /\ u \in pending
  /\ pending' = pending \ {u}
  /\ \/ \E i \in Matching(u) :
          /\ \A j \in Matching(u) : i <= j
          /\ groups' = [groups EXCEPT ![i].users = Append(@, u)]
     \/ /\ Matching(u) = {}
        /\ groups' = Append(groups, NewGroup(u))
  /\ UNCHANGED <<serverTable, edgeVars, linkMap, scanVars>>

-----------------------------------------------------------------------------
(* The monitor (monitoring.cc) *)

\* A device of link l transmits a packet.
RateCallback(l) ==
  /\ pc = "idle"
  /\ linkMap[l] < MaxLoad
  /\ linkMap' = [linkMap EXCEPT ![l] = @ + 1]
  /\ UNCHANGED <<tableVars, edgeVars, scanVars>>

\* The timer expires: the walk over linkMap begins.
BandwidthEstimator ==
  /\ pc = "idle"
  /\ pc' = "scan"
  /\ link' = 1
  /\ UNCHANGED <<tableVars, edgeVars, linkMap, lines>>

\* Faulty variant: the whole map is cleared on the first turn of the loop.
ScanLinkClearsMap ==
  /\ pc = "scan"
  /\ link \in Links
  /\ linkMap' = [l \in Links |-> 0]
  /\ IF linkMap[link] > Threshold /\ ToRedirect /\ Algo = "ILPSolution"
       THEN pc' = "solve" /\ link' = link
       ELSE pc' = "scan"  /\ link' = link + 1
  /\ lines' = 0
  /\ UNCHANGED <<tableVars, edgeVars>>

\* One turn of the loop: the load is read, the counter cleared, and the
\* optimizer called when the load was above the threshold.  QoSGreedy
\* returns without doing anything.
ScanLink ==
  /\ pc = "scan"
  /\ link \in Links
  /\ linkMap' = [linkMap EXCEPT ![link] = 0]
  /\ IF linkMap[link] > Threshold /\ ToRedirect /\ Algo = "ILPSolution"
       THEN pc' = "solve" /\ link' = link
       ELSE pc' = "scan"  /\ link' = link + 1
  /\ lines' = 0
  /\ UNCHANGED <<tableVars, edgeVars>>

\* The loop is over; the next window is scheduled.
ScanDone ==
  /\ pc = "scan"
  /\ link \notin Links
  /\ pc' = "idle"
  /\ link' = 0
  /\ UNCHANGED <<tableVars, edgeVars, linkMap, lines>>

-----------------------------------------------------------------------------
(* Edge servers (edge-dash-fake-server.cc) *)

hasVideo(n, c) == \E i \in DOMAIN contentVideos[n] : contentVideos[n][i] = c

\* Faulty variant: <= for <.
HasRoomOffByOne(n) == assignedVideos[n] <= Capacity[n]

\* Room for one more video; the guard of VideoAssignment.
HasRoom(n) == assignedVideos[n] < Capacity[n]

\* Faulty variant: the new video takes the place of the older ones.
VideoAssignmentEvicts(n, c) ==
  /\ assignedVideos' = [assignedVideos EXCEPT ![n] = @ + 1]
  /\ contentVideos' = [contentVideos EXCEPT ![n] = <<c>>]

VideoAssignment(n, c) ==
  /\ assignedVideos' = [assignedVideos EXCEPT ![n] = @ + 1]
  /\ contentVideos' = [contentVideos EXCEPT ![n] = Append(@, c)]

\* Faulty variant: the MPD is entered, the segments are not.
AddVideoMpdOnly(n, c) ==
  /\ segments' = segments
  /\ mpds' = [mpds EXCEPT ![n] = @ \cup {c}]
  /\ reportStats' = [reportStats EXCEPT ![n] = @ + 1]

\* The representation file is read: an entry per segment if it opens, nothing
\* if it does not.  The MPD is entered either way, and every call starts one
\* more chain of ReportStats events.
AddVideo(n, c) ==
  /\ segments' = [segments EXCEPT ![n] = @ \cup ({c} \cap Readable)]
  /\ mpds' = [mpds EXCEPT ![n] = @ \cup {c}]
  /\ reportStats' = [reportStats EXCEPT ![n] = @ + 1]

-----------------------------------------------------------------------------
(* The controller (ctrl-main.cc) *)

getInterfaceNode(n) == IpOf[n]

\* Faulty variants: the node's number is stored for its address; the group
\* keeps its old address.
DoRedirectUsersByNumber(g, n) ==
  /\ groups' = [groups EXCEPT ![g].actualNode = n, ![g].serverIp = n]
  /\ serverTable' = [serverTable EXCEPT
       ![<<groups[g].id, groups[g].content>>] = getInterfaceNode(n)]
DoRedirectUsersTableOnly(g, n) ==
  /\ groups' = [groups EXCEPT ![g].actualNode = n]
  /\ serverTable' = [serverTable EXCEPT
       ![<<groups[g].id, groups[g].content>>] = getInterfaceNode(n)]

DoRedirectUsers(g, n) ==
  /\ groups' = [groups EXCEPT ![g].actualNode = n,
                              ![g].serverIp = getInterfaceNode(n)]
  /\ serverTable' = [serverTable EXCEPT
       ![<<groups[g].id, groups[g].content>>] = getInterfaceNode(n)]

\* The next line of the solver's answer, "group g is served by node n".
NextLine ==
  /\ pc = "solve"
  /\ lines < MaxLines
  /\ lines' = lines + 1

\* n already stores the group's video.
RedirectToHolder(g, n) ==
  /\ NextLine
  /\ n \in Nodes
  /\ hasVideo(n, groups[g].content)
  /\ DoRedirectUsers(g, n)
  /\ UNCHANGED <<pending, edgeVars, linkMap, pc, link>>

\* n does not store it and has room.
AssignAndRedirect(g, n) ==
  /\ NextLine
  /\ n \in Nodes
  /\ ~hasVideo(n, groups[g].content)
  /\ HasRoom(n)
  /\ VideoAssignment(n, groups[g].content)
  /\ AddVideo(n, groups[g].content)
  /\ DoRedirectUsers(g, n)
  /\ UNCHANGED <<pending, linkMap, pc, link>>

\* Faulty variant: the users are redirected although the server is full.
SkipLineRedirects(g, n) ==
  /\ NextLine
  /\ n \in Nodes
  /\ ~hasVideo(n, groups[g].content)
  /\ ~HasRoom(n)
  /\ DoRedirectUsers(g, n)
  /\ UNCHANGED <<pending, edgeVars, linkMap, pc, link>>

\* n does not store it and is full: the line has no effect.
SkipLine(g, n) ==
  /\ NextLine
  /\ n \in Nodes
  /\ ~hasVideo(n, groups[g].content)
  /\ ~HasRoom(n)
  /\ UNCHANGED <<tableVars, edgeVars, linkMap, pc, link>>

\* Application 0 of the cloud's node is the controller itself, so the cast to
\* an edge server yields a null pointer that is then dereferenced.
LineNamesCloud(g) ==
  /\ NextLine
  /\ Cloud \in SolverNodes
  /\ pc' = "crashed"
  /\ UNCHANGED <<tableVars, edgeVars, linkMap, link>>

\* End of the answer; the monitor goes on with the next link.
SolverDone ==
  /\ pc = "solve"
  /\ pc' = "scan"
  /\ link' = link + 1
  /\ UNCHANGED <<tableVars, edgeVars, linkMap, lines>>

ILPSolution ==
  \/ \E g \in DOMAIN groups, n \in SolverNodes :
        RedirectToHolder(g, n) \/ AssignAndRedirect(g, n) \/ SkipLine(g, n)
  \/ \E g \in DOMAIN groups : LineNamesCloud(g)
  \/ SolverDone

-----------------------------------------------------------------------------
Monitor == BandwidthEstimator \/ ScanLink \/ ScanDone

Next ==
  \/ \E u \in Users : AddUserInGroup(u)
  \/ \E l \in Links : RateCallback(l)
  \/ Monitor
  \/ ILPSolution

Spec == Init /\ [][Next]_vars

\* The estimator's event always fires and runs to its end: it is scheduled
\* again by itself and the solver's answer is a finite file.
FairSpec == Spec /\ WF_vars(Monitor) /\ WF_vars(SolverDone)

-----------------------------------------------------------------------------
(* Properties *)

\* BigTable::AddUserInGroup never makes two groups for one access network and
\* video: the controller redirects by index, so a second group with the same
\* key would be left behind with a stale server address.
GroupsUnique ==
  \A i, j \in DOMAIN groups :
    groups[i].id = groups[j].id /\ groups[i].content = groups[j].content
      => i = j

\* Every user that has joined is counted once, in the group of its own
\* network and video, whatever happened to that group in between.
UserCountedOnce ==
  \A u \in Users :
    LET seats == {s \in (DOMAIN groups) \X (1..Cardinality(Users)) :
                    /\ s[2] \in DOMAIN groups[s[1]].users
                    /\ groups[s[1]].users[s[2]] = u}
    IN IF u \in pending
         THEN seats = {}
         ELSE /\ Cardinality(seats) = 1
              /\ \A s \in seats :
                   <<groups[s[1]].id, groups[s[1]].content>> = KeyOf(u)

\* The address a group carries, the node it is assigned to and the entry its
\* clients read agree, also for a group made after its key was redirected.
TableAgrees ==
  \A i \in DOMAIN groups :
    /\ groups[i].serverIp = serverTable[<<groups[i].id, groups[i].content>>]
    /\ groups[i].serverIp =
         IF groups[i].actualNode = NoNode THEN IpOf[Cloud]
                                          ELSE IpOf[groups[i].actualNode]

\* An edge server binds no video twice, its counter is the number of videos
\* bound, within the capacity, and so is the number of ReportStats chains.
CapacityRespected ==
  \A n \in Nodes :
    /\ Len(contentVideos[n]) = assignedVideos[n]
    /\ assignedVideos[n] <= Capacity[n]
    /\ reportStats[n] = assignedVideos[n]
    /\ \A i, j \in DOMAIN contentVideos[n] :
         contentVideos[n][i] = contentVideos[n][j] => i = j

\* A client that follows the server table reaches the cloud or an edge server
\* that bound the video, lists its MPD and, if the representation file could
\* be read, its segments.
RedirectedToHolder ==
  \A k \in Keys :
    \/ serverTable[k] = IpOf[Cloud]
    \/ \E n \in Nodes :
         /\ serverTable[k] = IpOf[n]
         /\ hasVideo(n, k[2])
         /\ k[2] \in mpds[n]
         /\ k[2] \in Readable => k[2] \in segments[n]

\* Nobody is sent back to the cloud, and no edge server gives up a video:
\* a request that was routed by an older table entry still finds its video.
NoEviction ==
  [][/\ \A n \in Nodes : \A i \in DOMAIN contentVideos[n] :
          /\ i \in DOMAIN contentVideos'[n]
          /\ contentVideos'[n][i] = contentVideos[n][i]
     /\ \A k \in Keys : serverTable[k] # IpOf[Cloud]
          => serverTable'[k] # IpOf[Cloud]]_vars

\* A link found above the threshold is brought before the solver in the walk
\* that follows, before its counter is lost, unless an answer that names the
\* cloud's node ends the program first (BandwidthEstimator).
CongestionSolved ==
  \A l \in Links :
    linkMap[l] > Threshold
      ~> ((pc = "solve" /\ link = l) \/ pc = "crashed")

-----------------------------------------------------------------------------
(* The abstract promise: Placement, with the server table as its routing and *)
(* the videos bound to an edge server as its store.                          *)

Stored(n) == {contentVideos[n][i] : i \in DOMAIN contentVideos[n]}

P == INSTANCE Placement WITH
       Keys <- Keys, Contents <- Contents, Nodes <- Nodes,
       Origin <- IpOf[Cloud], Addr <- IpOf, Capacity <- Capacity,
       where <- serverTable, stored <- [n \in Nodes |-> Stored(n)]

\* Whatever the monitor, the solver and joining users do, in any order, the
\* server table and the edge stores change only the way Placement allows.
ImplementsPlacement == P!Spec

=============================================================================
