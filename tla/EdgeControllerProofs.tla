------------------------ MODULE EdgeControllerProofs ------------------------
(***************************************************************************)
(* Proofs that the control plane of EdgeController is correct for any      *)
(* number of users, networks, videos, edge servers and links.              *)
(*                                                                         *)
(* The properties are not inductive one by one.  A new group reads its     *)
(* server from the table, so TableAgrees needs to know that a key without  *)
(* a group still points at the cloud (FreshKeysAtCloud); a redirect to a   *)
(* server that already bound the video needs to know that binding and      *)
(* importing went together (BoundIsImported).                              *)
(***************************************************************************)
EXTENDS EdgeController, TLAPS, FiniteSetTheorems

\* Every group has the key of some client.
GroupKeys ==
  \A i \in DOMAIN groups : <<groups[i].id, groups[i].content>> \in Keys

\* Only keys that have a group have ever been redirected.
FreshKeysAtCloud ==
  \A k \in Keys :
    (\A i \in DOMAIN groups : <<groups[i].id, groups[i].content>> # k)
      => serverTable[k] = IpOf[Cloud]

\* A bound video has its MPD entered and, if readable, its segments.
BoundIsImported ==
  \A n \in Nodes, c \in Contents :
    hasVideo(n, c) => c \in mpds[n] /\ (c \in Readable => c \in segments[n])

TableInv == GroupKeys /\ GroupsUnique /\ FreshKeysAtCloud /\ TableAgrees
EdgeInv  == CapacityRespected /\ BoundIsImported /\ RedirectedToHolder
IInv     == TypeOK /\ TableInv /\ EdgeInv

-----------------------------------------------------------------------------
(* Facts about single steps *)

\* The key of a user has a network and a video of the table.
LEMMA KeyType ==
  ASSUME NEW u \in Users
  PROVE  KeyOf(u) \in Keys /\ NetOf[u] \in Nets /\ ContentOf[u] \in Contents
BY DEF KeyOf, Keys, Nets, Contents

\* Addresses of nodes are addresses.
LEMMA AddrType ==
  ASSUME NEW n \in Nodes \cup {Cloud}
  PROVE  IpOf[n] \in Addrs
BY DEF Addrs

\* An element of the vector of groups is a group.
LEMMA GroupType ==
  ASSUME TypeOK, NEW g \in DOMAIN groups
  PROVE  groups[g] \in Group /\ groups[g].content \in Contents
<1>1. groups[g] \in Group
  BY DEF TypeOK
<1> QED
  BY <1>1 DEF Group

\* Overwriting one element of the vector of groups.
LEMMA ReplacedGroup ==
  ASSUME TypeOK, NEW g \in DOMAIN groups, NEW h \in Group,
         groups' = [groups EXCEPT ![g] = h]
  PROVE  /\ groups' \in Seq(Group)
         /\ DOMAIN groups' = DOMAIN groups
         /\ groups'[g] = h
         /\ \A i \in DOMAIN groups : i # g => groups'[i] = groups[i]
BY DEF TypeOK

\* Redirecting group g to n changes its node and its address only.
LEMMA RedirectedGroup ==
  ASSUME TypeOK, NEW g \in DOMAIN groups, NEW n \in Nodes,
         DoRedirectUsers(g, n)
  PROVE  /\ groups' \in Seq(Group)
         /\ DOMAIN groups' = DOMAIN groups
         /\ \A i \in DOMAIN groups :
              /\ groups'[i].id = groups[i].id
              /\ groups'[i].content = groups[i].content
              /\ groups'[i].users = groups[i].users
              /\ i # g => groups'[i] = groups[i]
         /\ groups'[g].actualNode = n
         /\ groups'[g].serverIp = IpOf[n]
<1> DEFINE h == [groups[g] EXCEPT !.actualNode = n, !.serverIp = IpOf[n]]
<1>1. groups[g] \in Group
  BY GroupType
<1>2. h \in Group
  BY <1>1, AddrType DEF Group
<1>3. groups' = [groups EXCEPT ![g] = h]
  BY <1>1 DEF DoRedirectUsers, getInterfaceNode, TypeOK, Group
<1>4. /\ h.id = groups[g].id /\ h.content = groups[g].content
      /\ h.users = groups[g].users /\ h.actualNode = n /\ h.serverIp = IpOf[n]
  BY <1>1 DEF Group
<1> HIDE DEF h
<1>5. /\ groups' \in Seq(Group)
      /\ DOMAIN groups' = DOMAIN groups
      /\ groups'[g] = h
      /\ \A i \in DOMAIN groups : i # g => groups'[i] = groups[i]
  BY <1>2, <1>3, ReplacedGroup
<1> QED
  BY <1>4, <1>5, Zenon

\* Joining an existing group changes its list of users only.
LEMMA JoinedGroup ==
  ASSUME TypeOK, NEW u \in Users, NEW g \in DOMAIN groups,
         groups' = [groups EXCEPT ![g].users = Append(@, u)]
  PROVE  /\ groups' \in Seq(Group)
         /\ DOMAIN groups' = DOMAIN groups
         /\ \A i \in DOMAIN groups :
              /\ groups'[i].id = groups[i].id
              /\ groups'[i].content = groups[i].content
              /\ groups'[i].serverIp = groups[i].serverIp
              /\ groups'[i].actualNode = groups[i].actualNode
              /\ i # g => groups'[i].users = groups[i].users
         /\ groups'[g].users = Append(groups[g].users, u)
<1> DEFINE h == [groups[g] EXCEPT !.users = Append(@, u)]
<1>1. groups[g] \in Group
  BY GroupType
<1>2. h \in Group
  BY <1>1, SMTT(40) DEF Group
<1>3. groups' = [groups EXCEPT ![g] = h]
  BY <1>1 DEF TypeOK, Group
<1>4. /\ h.id = groups[g].id /\ h.content = groups[g].content
      /\ h.serverIp = groups[g].serverIp
      /\ h.actualNode = groups[g].actualNode
      /\ h.users = Append(groups[g].users, u)
  BY <1>1 DEF Group
<1> HIDE DEF h
<1>5. /\ groups' \in Seq(Group)
      /\ DOMAIN groups' = DOMAIN groups
      /\ groups'[g] = h
      /\ \A i \in DOMAIN groups : i # g => groups'[i] = groups[i]
  BY <1>2, <1>3, ReplacedGroup
<1> QED
  BY <1>4, <1>5, Zenon

\* A group is made for a new key and placed last.
LEMMA CreatedGroup ==
  ASSUME TypeOK, NEW u \in Users, groups' = Append(groups, NewGroup(u))
  PROVE  /\ groups' \in Seq(Group)
         /\ DOMAIN groups = 1..Len(groups)
         /\ Len(groups) \in Nat
         /\ DOMAIN groups' = 1..(Len(groups) + 1)
         /\ \A i \in DOMAIN groups : groups'[i] = groups[i]
         /\ groups'[Len(groups) + 1] = NewGroup(u)
<1>1. NewGroup(u) \in Group
  BY KeyType DEF NewGroup, Group, TypeOK
<1> QED
  BY <1>1 DEF TypeOK

-----------------------------------------------------------------------------
(* Type correctness *)

\* The type invariant holds initially and is kept by every step.
LEMMA TypeInit == Init => TypeOK
<1> SUFFICES ASSUME Init PROVE TypeOK
  OBVIOUS
<1>1. IpOf[Cloud] \in Addrs
  BY AddrType
<1>2. << >> \in Seq(Group) /\ << >> \in Seq(Contents)
  OBVIOUS
<1> QED
  BY <1>1, <1>2 DEF Init, TypeOK

\* Every step keeps the types.
LEMMA TypeNext == TypeOK /\ [Next]_vars => TypeOK'
<1> SUFFICES ASSUME TypeOK, [Next]_vars PROVE TypeOK'
  OBVIOUS
<1> USE BoundsAssumption
<1>1. ASSUME NEW u \in Users, AddUserInGroup(u) PROVE TypeOK'
  <2>1. groups' \in Seq(Group)
    BY <1>1, JoinedGroup, CreatedGroup DEF AddUserInGroup, Matching
  <2> QED
    BY <1>1, <2>1 DEF AddUserInGroup, TypeOK, edgeVars, scanVars
<1>2. ASSUME NEW l \in Links, RateCallback(l) PROVE TypeOK'
  BY <1>2 DEF RateCallback, TypeOK, tableVars, edgeVars, scanVars
<1>3. CASE BandwidthEstimator
  BY <1>3 DEF BandwidthEstimator, TypeOK, tableVars, edgeVars
<1>4. CASE ScanLink
  BY <1>4 DEF ScanLink, TypeOK, tableVars, edgeVars
<1>5. CASE ScanDone
  BY <1>5 DEF ScanDone, TypeOK, tableVars, edgeVars
<1>6. ASSUME NEW g \in DOMAIN groups, NEW n \in SolverNodes,
             RedirectToHolder(g, n)
      PROVE  TypeOK'
  <2>1. groups' \in Seq(Group)
    BY <1>6, RedirectedGroup DEF RedirectToHolder
  <2>2. serverTable' \in [Keys -> Addrs]
    BY <1>6, AddrType
    DEF RedirectToHolder, DoRedirectUsers, getInterfaceNode, TypeOK
  <2> QED
    BY <1>6, <2>1, <2>2 DEF RedirectToHolder, NextLine, TypeOK, edgeVars
<1>7. ASSUME NEW g \in DOMAIN groups, NEW n \in SolverNodes,
             AssignAndRedirect(g, n)
      PROVE  TypeOK'
  <2>1. groups' \in Seq(Group)
    BY <1>7, RedirectedGroup DEF AssignAndRedirect
  <2>2. serverTable' \in [Keys -> Addrs]
    BY <1>7, AddrType
    DEF AssignAndRedirect, DoRedirectUsers, getInterfaceNode, TypeOK
  <2>3. groups[g].content \in Contents
    BY GroupType
  <2>4. /\ contentVideos' \in [Nodes -> Seq(Contents)]
        /\ assignedVideos' \in [Nodes -> Nat]
    BY <1>7, <2>3 DEF AssignAndRedirect, VideoAssignment, TypeOK
  <2>5. /\ mpds' \in [Nodes -> SUBSET Contents]
        /\ segments' \in [Nodes -> SUBSET Contents]
        /\ reportStats' \in [Nodes -> Nat]
    BY <1>7, <2>3 DEF AssignAndRedirect, AddVideo, TypeOK
  <2> QED
    BY <1>7, <2>1, <2>2, <2>4, <2>5 DEF AssignAndRedirect, NextLine, TypeOK
<1>8. ASSUME NEW g \in DOMAIN groups, NEW n \in SolverNodes, SkipLine(g, n)
      PROVE  TypeOK'
  BY <1>8 DEF SkipLine, NextLine, TypeOK, tableVars, edgeVars
<1>9. ASSUME NEW g \in DOMAIN groups, LineNamesCloud(g) PROVE TypeOK'
  BY <1>9 DEF LineNamesCloud, NextLine, TypeOK, tableVars, edgeVars
<1>10. CASE SolverDone
  BY <1>10 DEF SolverDone, TypeOK, tableVars, edgeVars
<1>11. CASE UNCHANGED vars
  BY <1>11 DEF vars, TypeOK, tableVars, edgeVars, scanVars
<1> QED
  BY <1>1, <1>2, <1>3, <1>4, <1>5, <1>6, <1>7, <1>8, <1>9, <1>10, <1>11
  DEF Next, Monitor, ILPSolution

\* Every variable of the control plane keeps its type, for every instance.
THEOREM TypeCorrect == Spec => []TypeOK
BY TypeInit, TypeNext, PTL DEF Spec
-----------------------------------------------------------------------------
(* Groups and the server table *)

\* Nothing is in the table but entries that point at the cloud.
LEMMA TableInit == Init => TableInv
BY DEF Init, TableInv, GroupKeys, GroupsUnique, FreshKeysAtCloud, TableAgrees

\* Steps that leave the groups and the table alone.
LEMMA TableUnchanged ==
  ASSUME TableInv, UNCHANGED <<groups, serverTable>>
  PROVE  TableInv'
BY DEF TableInv, GroupKeys, GroupsUnique, FreshKeysAtCloud, TableAgrees

\* A user joins the first group that matches, or a new one.
LEMMA TableAddUser ==
  ASSUME TypeOK, TableInv, NEW u \in Users, AddUserInGroup(u)
  PROVE  TableInv'
<1> USE DEF TableInv
<1>1. serverTable' = serverTable
  BY DEF AddUserInGroup
<1>2. ASSUME NEW g \in Matching(u),
             groups' = [groups EXCEPT ![g].users = Append(@, u)]
      PROVE  TableInv'
  <2>1. g \in DOMAIN groups
    BY DEF Matching
  <2>2. /\ DOMAIN groups' = DOMAIN groups
        /\ \A i \in DOMAIN groups :
             /\ groups'[i].id = groups[i].id
             /\ groups'[i].content = groups[i].content
             /\ groups'[i].serverIp = groups[i].serverIp
             /\ groups'[i].actualNode = groups[i].actualNode
    BY <1>2, <2>1, JoinedGroup
  <2>3. GroupKeys'
    BY <2>2, Zenon DEF GroupKeys
  <2>4. GroupsUnique'
    BY <2>2, Zenon DEF GroupsUnique
  <2>5. FreshKeysAtCloud'
    BY <1>1, <2>2, Zenon DEF FreshKeysAtCloud
  <2>6. TableAgrees'
    BY <1>1, <2>2, ZenonT(60) DEF TableAgrees
  <2> QED
    BY <2>3, <2>4, <2>5, <2>6
<1>3. ASSUME Matching(u) = {}, groups' = Append(groups, NewGroup(u))
      PROVE  TableInv'
  <2> DEFINE m == Len(groups) + 1
  <2>1. /\ DOMAIN groups = 1..Len(groups)
        /\ Len(groups) \in Nat
        /\ DOMAIN groups' = 1..m
        /\ \A i \in DOMAIN groups : groups'[i] = groups[i]
        /\ groups'[m] = NewGroup(u)
    BY <1>3, CreatedGroup
  <2>2. /\ groups'[m].id = NetOf[u]
        /\ groups'[m].content = ContentOf[u]
        /\ groups'[m].serverIp = serverTable[KeyOf(u)]
        /\ groups'[m].actualNode = NoNode
    BY <2>1 DEF NewGroup
  <2>3. \A i \in DOMAIN groups :
          <<groups[i].id, groups[i].content>> # KeyOf(u)
    BY <1>3 DEF Matching
  <2>4. DOMAIN groups' = DOMAIN groups \cup {m} /\ m \notin DOMAIN groups
    BY <2>1
  <2> HIDE DEF m
  <2>5. GroupKeys'
    BY <2>1, <2>2, <2>4, KeyType DEF GroupKeys, KeyOf
  <2>6. GroupsUnique'
    <3> SUFFICES ASSUME NEW i \in DOMAIN groups', NEW j \in DOMAIN groups',
                        groups'[i].id = groups'[j].id,
                        groups'[i].content = groups'[j].content
                 PROVE  i = j
      BY DEF GroupsUnique
    <3>1. CASE i \in DOMAIN groups /\ j \in DOMAIN groups
      BY <2>1, <3>1 DEF GroupsUnique
    <3>2. CASE i = m /\ j \in DOMAIN groups
      BY <2>1, <2>2, <2>3, <3>2 DEF KeyOf
    <3>3. CASE i \in DOMAIN groups /\ j = m
      BY <2>1, <2>2, <2>3, <3>3 DEF KeyOf
    <3> QED
      BY <2>4, <3>1, <3>2, <3>3
  <2>7. FreshKeysAtCloud'
    BY <1>1, <2>1, <2>4 DEF FreshKeysAtCloud
  <2>8. TableAgrees'
    <3>1. serverTable[KeyOf(u)] = IpOf[Cloud]
      BY <2>3, KeyType DEF FreshKeysAtCloud
    <3>2. /\ groups'[m].serverIp
                = serverTable[<<groups'[m].id, groups'[m].content>>]
          /\ groups'[m].serverIp = IpOf[Cloud]
          /\ groups'[m].actualNode = NoNode
      BY <2>2, <3>1 DEF KeyOf
    <3> QED
      BY <1>1, <2>1, <2>4, <3>2, ZenonT(60) DEF TableAgrees
  <2> QED
    BY <2>5, <2>6, <2>7, <2>8
<1> QED
  BY <1>2, <1>3 DEF AddUserInGroup

\* A redirect rewrites the group and the entry its clients read together.
LEMMA TableRedirect ==
  ASSUME TypeOK, TableInv, NEW g \in DOMAIN groups, NEW n \in Nodes,
         DoRedirectUsers(g, n)
  PROVE  TableInv'
<1> USE DEF TableInv
<1> DEFINE key(i) == <<groups[i].id, groups[i].content>>
<1>1. /\ DOMAIN groups' = DOMAIN groups
      /\ \A i \in DOMAIN groups :
           /\ groups'[i].id = groups[i].id
           /\ groups'[i].content = groups[i].content
           /\ i # g => groups'[i] = groups[i]
      /\ groups'[g].actualNode = n
      /\ groups'[g].serverIp = IpOf[n]
  BY RedirectedGroup
<1>2. key(g) \in Keys
  BY DEF GroupKeys
<1>3. /\ serverTable'[key(g)] = IpOf[n]
      /\ \A k \in Keys : k # key(g) => serverTable'[k] = serverTable[k]
  BY <1>2 DEF DoRedirectUsers, getInterfaceNode, TypeOK
<1>4. GroupKeys'
  BY <1>1, Zenon DEF GroupKeys
<1>5. GroupsUnique'
  BY <1>1, Zenon DEF GroupsUnique
<1>6. FreshKeysAtCloud'
  BY <1>1, <1>3 DEF FreshKeysAtCloud
<1>7. TableAgrees'
  <2> SUFFICES ASSUME NEW i \in DOMAIN groups
               PROVE  /\ groups'[i].serverIp = serverTable'[key(i)]
                      /\ groups'[i].serverIp =
                           IF groups'[i].actualNode = NoNode
                             THEN IpOf[Cloud] ELSE IpOf[groups'[i].actualNode]
    BY <1>1, Zenon DEF TableAgrees
  <2>1. CASE i = g
    BY <1>1, <1>3, <2>1, NoNodeAssumption
  <2>2. CASE i # g
    <3>1. key(i) \in Keys /\ key(i) # key(g)
      BY <2>2 DEF GroupKeys, GroupsUnique
    <3>2. serverTable'[key(i)] = serverTable[key(i)]
      BY <1>3, <3>1
    <3> QED
      BY <1>1, <2>2, <3>2, ZenonT(60) DEF TableAgrees
  <2> QED
    BY <2>1, <2>2
<1> QED
  BY <1>4, <1>5, <1>6, <1>7
-----------------------------------------------------------------------------
(* Edge servers *)

\* No edge server has a video at the start.
LEMMA EdgeInit == Init => EdgeInv
<1> SUFFICES ASSUME Init PROVE EdgeInv
  OBVIOUS
<1>1. CapacityRespected
  BY CapacityAssumption DEF Init, CapacityRespected
<1>2. BoundIsImported
  BY DEF Init, BoundIsImported, hasVideo
<1>3. RedirectedToHolder
  BY DEF Init, RedirectedToHolder
<1> QED
  BY <1>1, <1>2, <1>3 DEF EdgeInv

\* Steps that leave the edge servers and the table alone.
LEMMA EdgeUnchanged ==
  ASSUME EdgeInv, UNCHANGED <<edgeVars, serverTable>>
  PROVE  EdgeInv'
BY DEF EdgeInv, edgeVars, CapacityRespected, BoundIsImported,
       RedirectedToHolder, hasVideo

\* Group g moves to a server that bound its video earlier.
LEMMA EdgeRedirect ==
  ASSUME TypeOK, TableInv, EdgeInv, NEW g \in DOMAIN groups, NEW n \in Nodes,
         RedirectToHolder(g, n)
  PROVE  EdgeInv'
<1> DEFINE c == groups[g].content
           k == <<groups[g].id, c>>
<1>1. UNCHANGED edgeVars
  BY DEF RedirectToHolder
<1>2. CapacityRespected' /\ BoundIsImported'
  BY <1>1 DEF EdgeInv, edgeVars, CapacityRespected, BoundIsImported, hasVideo
<1>3. c \in Contents
  BY GroupType
<1>4. k \in Keys
  BY DEF TableInv, GroupKeys
<1>5. /\ serverTable'[k] = IpOf[n]
      /\ \A j \in Keys : j # k => serverTable'[j] = serverTable[j]
  BY <1>4 DEF RedirectToHolder, DoRedirectUsers, getInterfaceNode, TypeOK
<1>6. hasVideo(n, c)
  BY DEF RedirectToHolder
<1>7. c \in mpds[n] /\ (c \in Readable => c \in segments[n])
  BY <1>3, <1>6 DEF EdgeInv, BoundIsImported
<1>8. k[2] = c
  OBVIOUS
<1> HIDE DEF c, k
<1>9. RedirectedToHolder'
  BY <1>1, <1>5, <1>6, <1>7, <1>8
  DEF EdgeInv, RedirectedToHolder, edgeVars, hasVideo
<1> QED
  BY <1>2, <1>9 DEF EdgeInv

\* Group g moves to a server that binds and imports its video for it.
LEMMA EdgeAssign ==
  ASSUME TypeOK, TableInv, EdgeInv, NEW g \in DOMAIN groups, NEW n \in Nodes,
         AssignAndRedirect(g, n)
  PROVE  EdgeInv'
<1>a. PICK c : c = groups[g].content
  OBVIOUS
<1>b. PICK k : k = <<groups[g].id, c>>
  OBVIOUS
<1>1. c \in Contents
  BY <1>a, GroupType
<1>2. k \in Keys
  BY <1>a, <1>b DEF TableInv, GroupKeys
<1>3. /\ serverTable'[k] = IpOf[n]
      /\ \A j \in Keys : j # k => serverTable'[j] = serverTable[j]
  BY <1>a, <1>b, <1>2 DEF AssignAndRedirect, DoRedirectUsers, getInterfaceNode, TypeOK
<1>4. k[2] = c
  BY <1>b
<1>5. /\ ~hasVideo(n, c)
      /\ assignedVideos[n] < Capacity[n]
      /\ contentVideos' = [contentVideos EXCEPT ![n] = Append(@, c)]
      /\ assignedVideos' = [assignedVideos EXCEPT ![n] = @ + 1]
      /\ reportStats' = [reportStats EXCEPT ![n] = @ + 1]
      /\ mpds' = [mpds EXCEPT ![n] = @ \cup {c}]
      /\ segments' = [segments EXCEPT ![n] = @ \cup ({c} \cap Readable)]
  BY <1>a DEF AssignAndRedirect, HasRoom, VideoAssignment, AddVideo
<1>6. \A m \in Nodes \ {n} :
        /\ contentVideos'[m] = contentVideos[m]
        /\ assignedVideos'[m] = assignedVideos[m]
        /\ reportStats'[m] = reportStats[m]
        /\ mpds'[m] = mpds[m]
        /\ segments'[m] = segments[m]
  BY <1>5 DEF TypeOK
<1>7. /\ contentVideos'[n] = Append(contentVideos[n], c)
      /\ assignedVideos'[n] = assignedVideos[n] + 1
      /\ reportStats'[n] = reportStats[n] + 1
      /\ mpds'[n] = mpds[n] \cup {c}
      /\ segments'[n] = segments[n] \cup ({c} \cap Readable)
  BY <1>5 DEF TypeOK
<1>8. contentVideos[n] \in Seq(Contents)
  BY DEF TypeOK
<1>9. /\ Len(contentVideos[n]) \in Nat
      /\ Len(contentVideos'[n]) = Len(contentVideos[n]) + 1
      /\ DOMAIN contentVideos[n] = 1..Len(contentVideos[n])
      /\ DOMAIN contentVideos'[n] = 1..(Len(contentVideos[n]) + 1)
      /\ \A i \in DOMAIN contentVideos[n] :
           contentVideos'[n][i] = contentVideos[n][i]
      /\ contentVideos'[n][Len(contentVideos[n]) + 1] = c
  BY <1>1, <1>7, <1>8
<1>10. hasVideo(n, c)' /\ \A d \in Contents : hasVideo(n, d)' =>
                             hasVideo(n, d) \/ d = c
  BY <1>9 DEF hasVideo
<1>11. \A m \in Nodes, d \in Contents : hasVideo(m, d) => hasVideo(m, d)'
  BY <1>6, <1>9 DEF hasVideo
<1>12. CapacityRespected'
  <2> SUFFICES ASSUME NEW m \in Nodes
               PROVE  /\ Len(contentVideos'[m]) = assignedVideos'[m]
                      /\ assignedVideos'[m] <= Capacity[m]
                      /\ reportStats'[m] = assignedVideos'[m]
                      /\ \A i, j \in DOMAIN contentVideos'[m] :
                           contentVideos'[m][i] = contentVideos'[m][j] => i = j
    BY DEF CapacityRespected
  <2>1. CASE m # n
    BY <1>6, <2>1 DEF EdgeInv, CapacityRespected
  <2>2. CASE m = n
    <3>0. /\ Len(contentVideos[n]) = assignedVideos[n]
          /\ reportStats[n] = assignedVideos[n]
          /\ assignedVideos[n] \in Nat
          /\ Capacity[n] \in Nat
      BY CapacityAssumption DEF EdgeInv, CapacityRespected, TypeOK
    <3>1. /\ Len(contentVideos'[n]) = assignedVideos'[n]
          /\ assignedVideos'[n] <= Capacity[n]
          /\ reportStats'[n] = assignedVideos'[n]
      BY <1>5, <1>7, <1>9, <3>0
    <3>2. ASSUME NEW i \in DOMAIN contentVideos'[n],
                 NEW j \in DOMAIN contentVideos'[n],
                 contentVideos'[n][i] = contentVideos'[n][j]
          PROVE  i = j
      BY <1>5, <1>9, <3>2 DEF EdgeInv, CapacityRespected, hasVideo
    <3> QED
      BY <2>2, <3>1, <3>2
  <2> QED
    BY <2>1, <2>2
<1>13. BoundIsImported'
  <2> SUFFICES ASSUME NEW m \in Nodes, NEW d \in Contents, hasVideo(m, d)'
               PROVE  d \in mpds'[m] /\ (d \in Readable => d \in segments'[m])
    BY DEF BoundIsImported
  <2>1. CASE m # n
    BY <1>6, <2>1 DEF EdgeInv, BoundIsImported, hasVideo
  <2>2. CASE m = n
    BY <1>7, <1>10, <2>2 DEF EdgeInv, BoundIsImported
  <2> QED
    BY <2>1, <2>2
<1>14. RedirectedToHolder'
  <2> SUFFICES ASSUME NEW j \in Keys, serverTable'[j] # IpOf[Cloud]
               PROVE  \E m \in Nodes :
                        /\ serverTable'[j] = IpOf[m]
                        /\ hasVideo(m, j[2])'
                        /\ j[2] \in mpds'[m]
                        /\ j[2] \in Readable => j[2] \in segments'[m]
    BY DEF RedirectedToHolder
  <2>1. CASE j = k
    BY <1>3, <1>4, <1>7, <1>10, <2>1
  <2>2. CASE j # k
    <3>1. j[2] \in Contents
      BY DEF Keys, KeyOf, Contents
    <3>2. PICK m \in Nodes : /\ serverTable[j] = IpOf[m]
                             /\ hasVideo(m, j[2])
                             /\ j[2] \in mpds[m]
                             /\ j[2] \in Readable => j[2] \in segments[m]
      BY <1>3, <2>2 DEF EdgeInv, RedirectedToHolder
    <3>3. mpds[m] \subseteq mpds'[m] /\ segments[m] \subseteq segments'[m]
      BY <1>6, <1>7
    <3> QED
      BY <1>3, <1>11, <2>2, <3>1, <3>2, <3>3
  <2> QED
    BY <2>1, <2>2
<1> QED
  BY <1>12, <1>13, <1>14 DEF EdgeInv

-----------------------------------------------------------------------------
(* The invariant of the whole control plane *)

\* The invariant holds before the first event.
LEMMA IInvInit == Init => IInv
BY TypeInit, TableInit, EdgeInit DEF IInv

\* Every event keeps the invariant.
LEMMA IInvNext == IInv /\ [Next]_vars => IInv'
<1> SUFFICES ASSUME IInv, [Next]_vars PROVE TableInv' /\ EdgeInv'
  BY TypeNext DEF IInv
<1> USE DEF IInv
<1>1. ASSUME NEW u \in Users, AddUserInGroup(u) PROVE TableInv' /\ EdgeInv'
  BY <1>1, TableAddUser, EdgeUnchanged DEF AddUserInGroup
<1>2. ASSUME NEW g \in DOMAIN groups, NEW n \in SolverNodes,
             RedirectToHolder(g, n)
      PROVE  TableInv' /\ EdgeInv'
  BY <1>2, TableRedirect, EdgeRedirect DEF RedirectToHolder
<1>3. ASSUME NEW g \in DOMAIN groups, NEW n \in SolverNodes,
             AssignAndRedirect(g, n)
      PROVE  TableInv' /\ EdgeInv'
  BY <1>3, TableRedirect, EdgeAssign DEF AssignAndRedirect
<1>4. CASE UNCHANGED <<tableVars, edgeVars>>
  BY <1>4, TableUnchanged, EdgeUnchanged DEF tableVars
<1>5. ASSUME NEW l \in Links, RateCallback(l) PROVE UNCHANGED <<tableVars, edgeVars>>
  BY <1>5 DEF RateCallback
<1>6. Monitor => UNCHANGED <<tableVars, edgeVars>>
  BY DEF Monitor, BandwidthEstimator, ScanLink, ScanDone
<1>7. ASSUME NEW g \in DOMAIN groups, NEW n \in SolverNodes, SkipLine(g, n)
      PROVE  UNCHANGED <<tableVars, edgeVars>>
  BY <1>7 DEF SkipLine
<1>8. ASSUME NEW g \in DOMAIN groups, LineNamesCloud(g)
      PROVE  UNCHANGED <<tableVars, edgeVars>>
  BY <1>8 DEF LineNamesCloud
<1>9. SolverDone \/ UNCHANGED vars => UNCHANGED <<tableVars, edgeVars>>
  BY DEF SolverDone, vars
<1> QED
  BY <1>1, <1>2, <1>3, <1>4, <1>5, <1>6, <1>7, <1>8, <1>9
  DEF Next, ILPSolution

\* The invariant holds in every reachable state.
LEMMA Invariance == Spec => []IInv
BY IInvInit, IInvNext, PTL DEF Spec

\* One group per access network and video, however users arrive and groups
\* are redirected (BigTable::AddUserInGroup).
THEOREM GroupsUniqueHolds == Spec => []GroupsUnique
<1>1. IInv => GroupsUnique
  BY DEF IInv, TableInv
<1> QED
  BY <1>1, Invariance, PTL

\* The group, its node and the table entry its clients read always agree
\* (ControllerMain::DoRedirectUsers).
THEOREM TableAgreesHolds == Spec => []TableAgrees
<1>1. IInv => TableAgrees
  BY DEF IInv, TableInv
<1> QED
  BY <1>1, Invariance, PTL

\* No edge server exceeds its capacity or binds a video twice
\* (EdgeDashFakeServerApplication::VideoAssignment).
THEOREM CapacityRespectedHolds == Spec => []CapacityRespected
<1>1. IInv => CapacityRespected
  BY DEF IInv, EdgeInv
<1> QED
  BY <1>1, Invariance, PTL

\* Whoever follows the server table finds the video there
\* (ControllerMain::ILPSolution).
THEOREM RedirectedToHolderHolds == Spec => []RedirectedToHolder
<1>1. IInv => RedirectedToHolder
  BY DEF IInv, EdgeInv
<1> QED
  BY <1>1, Invariance, PTL
-----------------------------------------------------------------------------
(* Users and their seats *)

\* A user waits for its AddUserInGroup event or has one seat in one group,
\* the group of its network and video.
SeatInv ==
  /\ \A i \in DOMAIN groups : \A k \in DOMAIN groups[i].users :
       /\ groups[i].users[k] \in Users \ pending
       /\ <<groups[i].id, groups[i].content>> = KeyOf(groups[i].users[k])
  /\ \A u \in Users \ pending :
       \E i \in DOMAIN groups : \E k \in DOMAIN groups[i].users : groups[i].users[k] = u
  /\ \A i, j \in DOMAIN groups :
       \A k \in DOMAIN groups[i].users : \A l \in DOMAIN groups[j].users :
         groups[i].users[k] = groups[j].users[l] => i = j /\ k = l

\* The list of users of a group.
LEMMA UsersType ==
  ASSUME TypeOK, NEW i \in DOMAIN groups
  PROVE  /\ groups[i].users \in Seq(Users) /\ Len(groups[i].users) \in Nat
         /\ DOMAIN groups[i].users = 1..Len(groups[i].users)
<1>1. groups[i].users \in Seq(Users)
  BY GroupType DEF Group
<1> QED
  BY <1>1

\* Steps that leave the lists of users alone.
LEMMA SeatsUnchanged ==
  ASSUME SeatInv, pending' = pending, DOMAIN groups' = DOMAIN groups,
         \A i \in DOMAIN groups : /\ groups'[i].users = groups[i].users
                                  /\ groups'[i].id = groups[i].id
                                  /\ groups'[i].content = groups[i].content
  PROVE  SeatInv'
<1>1. ASSUME NEW i \in DOMAIN groups', NEW k \in DOMAIN groups'[i].users
      PROVE  /\ groups'[i].users[k] \in Users \ pending'
             /\ <<groups'[i].id, groups'[i].content>> = KeyOf(groups'[i].users[k])
  <2>1. /\ i \in DOMAIN groups /\ k \in DOMAIN groups[i].users
        /\ groups'[i].users = groups[i].users
        /\ groups'[i].id = groups[i].id /\ groups'[i].content = groups[i].content
    OBVIOUS
  <2> QED
    BY <2>1 DEF SeatInv
<1>2. ASSUME NEW u \in Users \ pending'
      PROVE  \E i \in DOMAIN groups' : \E k \in DOMAIN groups'[i].users :
               groups'[i].users[k] = u
  <2>1. PICK i \in DOMAIN groups : \E k \in DOMAIN groups[i].users : groups[i].users[k] = u
    BY <1>2 DEF SeatInv
  <2> QED
    BY <2>1, Zenon
<1>3. ASSUME NEW i \in DOMAIN groups', NEW j \in DOMAIN groups',
             NEW k \in DOMAIN groups'[i].users, NEW l \in DOMAIN groups'[j].users,
             groups'[i].users[k] = groups'[j].users[l]
      PROVE  i = j /\ k = l
  <2>1. /\ i \in DOMAIN groups /\ k \in DOMAIN groups[i].users
        /\ j \in DOMAIN groups /\ l \in DOMAIN groups[j].users
        /\ groups[i].users[k] = groups[j].users[l]
    BY <1>3
  <2> QED
    BY <2>1 DEF SeatInv
<1> QED
  BY <1>1, <1>2, <1>3 DEF SeatInv

\* A user that joins gets a seat, and nobody else's changes.
LEMMA SeatsAddUser ==
  ASSUME TypeOK, SeatInv, NEW u \in Users, AddUserInGroup(u)
  PROVE  SeatInv'
<1>1. u \in pending /\ pending' = pending \ {u}
  BY DEF AddUserInGroup
<1>2. \A i \in DOMAIN groups : \A k \in DOMAIN groups[i].users : groups[i].users[k] # u
  BY <1>1 DEF SeatInv
\* It is enough to say where the new seat is.
<1>3. ASSUME NEW g, NEW m, g \in DOMAIN groups', m \in DOMAIN groups'[g].users,
             groups'[g].users[m] = u,
             <<groups'[g].id, groups'[g].content>> = KeyOf(u),
             \A i \in DOMAIN groups : /\ i \in DOMAIN groups'
                                      /\ groups'[i].id = groups[i].id
                                      /\ groups'[i].content = groups[i].content,
             \A i \in DOMAIN groups : \A k \in DOMAIN groups[i].users :
               k \in DOMAIN groups'[i].users /\ groups'[i].users[k] = groups[i].users[k],
             \A i \in DOMAIN groups' : \A k \in DOMAIN groups'[i].users :
               \/ i = g /\ k = m
               \/ i \in DOMAIN groups /\ k \in DOMAIN groups[i].users
      PROVE  SeatInv'
  <2>1. ASSUME NEW i \in DOMAIN groups', NEW k \in DOMAIN groups'[i].users
        PROVE  /\ groups'[i].users[k] \in Users \ pending'
               /\ <<groups'[i].id, groups'[i].content>> = KeyOf(groups'[i].users[k])
    <3>1. CASE i = g /\ k = m
      BY <1>1, <1>3, <3>1
    <3>2. CASE i \in DOMAIN groups /\ k \in DOMAIN groups[i].users
      <4>1. /\ groups'[i].users[k] = groups[i].users[k]
            /\ groups'[i].id = groups[i].id /\ groups'[i].content = groups[i].content
        BY <1>3, <3>2
      <4>2. /\ groups[i].users[k] \in Users \ pending
            /\ <<groups[i].id, groups[i].content>> = KeyOf(groups[i].users[k])
        BY <3>2 DEF SeatInv
      <4> QED
        BY <1>1, <4>1, <4>2
    <3> QED
      BY <1>3, <2>1, <3>1, <3>2
  <2>2. ASSUME NEW v \in Users \ pending'
        PROVE  \E i \in DOMAIN groups' : \E k \in DOMAIN groups'[i].users :
                 groups'[i].users[k] = v
    <3>1. CASE v = u
      BY <1>3, <3>1
    <3>2. CASE v # u
      <4>1. PICK i \in DOMAIN groups : \E k \in DOMAIN groups[i].users : groups[i].users[k] = v
        BY <1>1, <3>2 DEF SeatInv
      <4>2. PICK k \in DOMAIN groups[i].users : groups[i].users[k] = v
        BY <4>1
      <4> QED
        BY <1>3, <4>2
    <3> QED
      BY <3>1, <3>2
  <2>3. ASSUME NEW i \in DOMAIN groups', NEW j \in DOMAIN groups',
               NEW k \in DOMAIN groups'[i].users, NEW l \in DOMAIN groups'[j].users,
               groups'[i].users[k] = groups'[j].users[l]
        PROVE  i = j /\ k = l
    <3>1. CASE i = g /\ k = m /\ j = g /\ l = m
      BY <3>1
    <3>2. ASSUME i \in DOMAIN groups, k \in DOMAIN groups[i].users,
                 j \in DOMAIN groups, l \in DOMAIN groups[j].users
          PROVE  i = j /\ k = l
      <4>1. groups[i].users[k] = groups[j].users[l]
        BY <1>3, <2>3, <3>2
      <4> QED
        BY <3>2, <4>1 DEF SeatInv
    <3>3. ASSUME i \in DOMAIN groups, k \in DOMAIN groups[i].users
          PROVE  groups'[i].users[k] # u
      BY <1>2, <1>3, <3>3
    <3>4. ASSUME j \in DOMAIN groups, l \in DOMAIN groups[j].users
          PROVE  groups'[j].users[l] # u
      BY <1>2, <1>3, <3>4
    <3> QED
      BY <1>3, <2>3, <3>1, <3>2, <3>3, <3>4
  <2> QED
    BY <2>1, <2>2, <2>3 DEF SeatInv
<1>4. ASSUME NEW g \in Matching(u), groups' = [groups EXCEPT ![g].users = Append(@, u)]
      PROVE  SeatInv'
  <2>1. g \in DOMAIN groups /\ <<groups[g].id, groups[g].content>> = KeyOf(u)
    BY DEF Matching
  <2>2. /\ DOMAIN groups' = DOMAIN groups
        /\ \A i \in DOMAIN groups :
             /\ groups'[i].id = groups[i].id
             /\ groups'[i].content = groups[i].content
             /\ i # g => groups'[i].users = groups[i].users
        /\ groups'[g].users = Append(groups[g].users, u)
    BY <1>4, <2>1, JoinedGroup
  <2>a. PICK us \in Seq(Users) : us = groups[g].users
    BY <2>1, UsersType
  <2>b. PICK m : m = Len(us) + 1
    OBVIOUS
  <2>3. /\ DOMAIN us = 1..Len(us) /\ Len(us) \in Nat
        /\ DOMAIN Append(us, u) = 1..m
        /\ \A k \in 1..Len(us) : Append(us, u)[k] = us[k]
        /\ Append(us, u)[m] = u
    BY <2>b
  <2>4. 1..m = 1..Len(us) \cup {m}
    BY <2>3, <2>b
  <2>c. groups'[g].users = Append(us, u)
    BY <2>2, <2>a
  <2>5. /\ m \in DOMAIN groups'[g].users /\ groups'[g].users[m] = u
        /\ \A k \in DOMAIN groups[g].users :
             k \in DOMAIN groups'[g].users /\ groups'[g].users[k] = groups[g].users[k]
        /\ \A k \in DOMAIN groups'[g].users : k = m \/ k \in DOMAIN groups[g].users
    BY <2>a, <2>c, <2>3, <2>4, Zenon
  <2>6. ASSUME NEW i \in DOMAIN groups, NEW k \in DOMAIN groups[i].users
        PROVE  k \in DOMAIN groups'[i].users /\ groups'[i].users[k] = groups[i].users[k]
    <3>1. CASE i = g
      BY <2>5, <3>1
    <3>2. CASE i # g
      BY <2>2, <3>2
    <3> QED
      BY <3>1, <3>2
  <2>7. ASSUME NEW i \in DOMAIN groups', NEW k \in DOMAIN groups'[i].users
        PROVE  \/ i = g /\ k = m
               \/ i \in DOMAIN groups /\ k \in DOMAIN groups[i].users
    <3>1. CASE i = g
      BY <2>1, <2>5, <3>1
    <3>2. CASE i # g
      BY <2>2, <3>2
    <3> QED
      BY <3>1, <3>2
  <2>8. <<groups'[g].id, groups'[g].content>> = KeyOf(u) /\ g \in DOMAIN groups'
    BY <2>1, <2>2
  <2> QED
    BY <1>3, <2>2, <2>5, <2>6, <2>7, <2>8
<1>5. ASSUME Matching(u) = {}, groups' = Append(groups, NewGroup(u))
      PROVE  SeatInv'
  <2>1. /\ DOMAIN groups = 1..Len(groups)
        /\ Len(groups) \in Nat
        /\ DOMAIN groups' = 1..(Len(groups) + 1)
        /\ \A i \in DOMAIN groups : groups'[i] = groups[i]
        /\ groups'[Len(groups) + 1] = NewGroup(u)
    BY <1>5, CreatedGroup
  <2>a. PICK g : g = Len(groups) + 1
    OBVIOUS
  <2>2. /\ DOMAIN groups' = DOMAIN groups \cup {g} /\ groups'[g] = NewGroup(u)
    BY <2>1, <2>a
  <2>3. /\ groups'[g].users = <<u>>
        /\ <<groups'[g].id, groups'[g].content>> = KeyOf(u)
    BY <2>2 DEF NewGroup, KeyOf
  <2>4. DOMAIN <<u>> = {1} /\ <<u>>[1] = u
    OBVIOUS
  <2> QED
    BY <1>3, <2>1, <2>2, <2>3, <2>4
<1> QED
  BY <1>4, <1>5 DEF AddUserInGroup

\* Nobody has joined at the start.
LEMMA SeatInit == Init => SeatInv
BY DEF Init, SeatInv

\* Every step keeps the seats.
LEMMA SeatNext == TypeOK /\ SeatInv /\ [Next]_vars => SeatInv'
<1> SUFFICES ASSUME TypeOK, SeatInv, [Next]_vars PROVE SeatInv'
  OBVIOUS
<1>1. ASSUME NEW u \in Users, AddUserInGroup(u) PROVE SeatInv'
  BY <1>1, SeatsAddUser
<1>2. ASSUME NEW g \in DOMAIN groups, NEW n \in Nodes, DoRedirectUsers(g, n),
             pending' = pending
      PROVE  SeatInv'
  <2>1. /\ DOMAIN groups' = DOMAIN groups
        /\ \A i \in DOMAIN groups : /\ groups'[i].users = groups[i].users
                                    /\ groups'[i].id = groups[i].id
                                    /\ groups'[i].content = groups[i].content
    BY <1>2, RedirectedGroup
  <2> QED
    BY <1>2, <2>1, SeatsUnchanged
<1>3. CASE UNCHANGED <<pending, groups>>
  BY <1>3 DEF SeatInv
<1>4. ASSUME NEW g \in DOMAIN groups, NEW n \in SolverNodes,
             RedirectToHolder(g, n) \/ AssignAndRedirect(g, n)
      PROVE  SeatInv'
  BY <1>2, <1>4 DEF RedirectToHolder, AssignAndRedirect
<1>5. ASSUME NEW g \in DOMAIN groups, NEW n \in SolverNodes, SkipLine(g, n)
      PROVE  UNCHANGED <<pending, groups>>
  BY <1>5 DEF SkipLine, tableVars
<1>6. ASSUME NEW g \in DOMAIN groups, LineNamesCloud(g)
      PROVE  UNCHANGED <<pending, groups>>
  BY <1>6 DEF LineNamesCloud, tableVars
<1>7. ASSUME NEW l \in Links, RateCallback(l) PROVE UNCHANGED <<pending, groups>>
  BY <1>7 DEF RateCallback, tableVars
<1>8. Monitor \/ SolverDone \/ UNCHANGED vars => UNCHANGED <<pending, groups>>
  BY DEF Monitor, BandwidthEstimator, ScanLink, ScanDone, SolverDone, vars, tableVars
<1> QED
  BY <1>1, <1>3, <1>4, <1>5, <1>6, <1>7, <1>8 DEF Next, ILPSolution

\* A group has no more users than there are.
LEMMA GroupSize ==
  ASSUME TypeOK, SeatInv, NEW i \in DOMAIN groups
  PROVE  /\ Len(groups[i].users) <= Cardinality(Users) /\ Cardinality(Users) \in Nat
<1>a. PICK us : us = groups[i].users
  OBVIOUS
<1>1. us \in Seq(Users) /\ Len(us) \in Nat /\ DOMAIN us = 1..Len(us)
  BY <1>a, UsersType
<1>2. \A k, l \in 1..Len(us) : us[k] = us[l] => k = l
  BY <1>a, <1>1 DEF SeatInv
<1>3. us \in Injection(1..Len(us), Users)
  <2>1. us \in [1..Len(us) -> Users]
    BY <1>1
  <2> QED
    BY <1>2, <2>1 DEF Injection, IsInjective
<1>4. Cardinality(1..Len(us)) <= Cardinality(Users)
  <2>1. IsFiniteSet(1..Len(us))
    BY <1>1, FS_Interval
  <2>2. Injection(1..Len(us), Users) # {}
    BY <1>3
  <2> QED
    BY <2>1, <2>2, UsersAssumption, FS_Injection
<1>5. Cardinality(1..Len(us)) = Len(us)
  <2>1. PICK n \in Nat : n = Len(us)
    BY <1>1, ZenonT(60)
  <2>2. Cardinality(1..n) = n
    BY FS_Interval
  <2> QED
    BY <2>1, <2>2, SMTT(40)
<1> QED
  BY <1>a, <1>4, <1>5, UsersAssumption, FS_CardinalityType

\* Every user that has joined is counted once, in the group of its network
\* and video (BigTable::AddUserInGroup).
THEOREM UserCountedOnceHolds == Spec => []UserCountedOnce
<1>1. ASSUME TypeOK, SeatInv PROVE UserCountedOnce
  <2> SUFFICES ASSUME NEW u \in Users
               PROVE  LET seats == {s \in (DOMAIN groups) \X (1..Cardinality(Users)) :
                                      /\ s[2] \in DOMAIN groups[s[1]].users
                                      /\ groups[s[1]].users[s[2]] = u}
                      IN IF u \in pending
                           THEN seats = {}
                           ELSE /\ Cardinality(seats) = 1
                                /\ \A s \in seats :
                                     <<groups[s[1]].id, groups[s[1]].content>> = KeyOf(u)
    BY DEF UserCountedOnce
  <2> DEFINE seats == {s \in (DOMAIN groups) \X (1..Cardinality(Users)) :
                         /\ s[2] \in DOMAIN groups[s[1]].users
                         /\ groups[s[1]].users[s[2]] = u}
  <2>1. \A s \in seats : /\ s[1] \in DOMAIN groups /\ s[2] \in DOMAIN groups[s[1]].users
                         /\ groups[s[1]].users[s[2]] = u /\ s = <<s[1], s[2]>>
    OBVIOUS
  <2>2. CASE u \in pending
    <3>1. seats = {}
      BY <1>1, <2>1, <2>2 DEF SeatInv
    <3> QED
      BY <2>2, <3>1
  <2>3. CASE u \notin pending
    <3>1. PICK i \in DOMAIN groups : \E k \in DOMAIN groups[i].users : groups[i].users[k] = u
      BY <1>1, <2>3 DEF SeatInv
    <3>2. PICK k \in DOMAIN groups[i].users : groups[i].users[k] = u
      BY <3>1
    <3>3. k \in 1..Cardinality(Users)
      BY <1>1, UsersType, GroupSize
    <3>4. <<i, k>> \in seats
      BY <3>2, <3>3
    <3>5. \A s \in seats : s = <<i, k>>
      <4> SUFFICES ASSUME NEW s \in seats PROVE s[1] = i /\ s[2] = k
        BY <2>1
      <4> QED
        BY <1>1, <2>1, <3>2 DEF SeatInv
    <3>6. seats = {<<i, k>>}
      BY <3>4, <3>5
    <3>7. Cardinality(seats) = 1
      BY <3>6, FS_Singleton
    <3>8. \A s \in seats : <<groups[s[1]].id, groups[s[1]].content>> = KeyOf(u)
      BY <1>1, <3>2, <3>6 DEF SeatInv
    <3> QED
      BY <2>3, <3>7, <3>8
  <2> QED
    BY <2>2, <2>3
<1>2. Spec => []SeatInv
  BY SeatInit, SeatNext, TypeCorrect, PTL DEF Spec
<1> QED
  BY <1>1, <1>2, TypeCorrect, PTL

-----------------------------------------------------------------------------
(* What a step may do to the table and to the stores *)

\* A step either leaves table and stores alone or is one applied line: some
\* key moves to a node that stores its video from now on.
LEMMA AppliedLine ==
  ASSUME IInv, [Next]_vars
  PROVE  \/ UNCHANGED <<serverTable, contentVideos>>
         \/ \E k \in Keys, n \in Nodes :
              /\ serverTable' = [serverTable EXCEPT ![k] = IpOf[n]]
              /\ \/ hasVideo(n, k[2]) /\ UNCHANGED contentVideos
                 \/ contentVideos' =
                      [contentVideos EXCEPT ![n] = Append(@, k[2])]
<1> DEFINE Line(k, n) ==
      /\ serverTable' = [serverTable EXCEPT ![k] = IpOf[n]]
      /\ \/ hasVideo(n, k[2]) /\ UNCHANGED contentVideos
         \/ contentVideos' = [contentVideos EXCEPT ![n] = Append(@, k[2])]
<1>1. ASSUME NEW g \in DOMAIN groups, NEW n \in SolverNodes,
             RedirectToHolder(g, n) \/ AssignAndRedirect(g, n)
      PROVE  \E k \in Keys, m \in Nodes : Line(k, m)
  <2>1. PICK k : k = <<groups[g].id, groups[g].content>>
    OBVIOUS
  <2>2. k \in Keys
    BY <2>1 DEF IInv, TableInv, GroupKeys
  <2>3. k[2] = groups[g].content
    BY <2>1
  <2>4. n \in Nodes
    BY <1>1 DEF RedirectToHolder, AssignAndRedirect
  <2>5. serverTable' = [serverTable EXCEPT ![k] = IpOf[n]]
    BY <1>1, <2>1
    DEF RedirectToHolder, AssignAndRedirect, DoRedirectUsers, getInterfaceNode
  <2>6. \/ hasVideo(n, k[2]) /\ UNCHANGED contentVideos
        \/ contentVideos' = [contentVideos EXCEPT ![n] = Append(@, k[2])]
    BY <1>1, <2>3
    DEF RedirectToHolder, AssignAndRedirect, VideoAssignment, edgeVars
  <2> QED
    BY <2>2, <2>4, <2>5, <2>6
<1> HIDE DEF Line
<1>2. ASSUME NEW u \in Users, AddUserInGroup(u)
      PROVE  UNCHANGED <<serverTable, contentVideos>>
  BY <1>2 DEF AddUserInGroup, edgeVars
<1>3. ASSUME NEW l \in Links, RateCallback(l)
      PROVE  UNCHANGED <<serverTable, contentVideos>>
  BY <1>3 DEF RateCallback, tableVars, edgeVars
<1>4. Monitor => UNCHANGED <<serverTable, contentVideos>>
  BY DEF Monitor, BandwidthEstimator, ScanLink, ScanDone, tableVars, edgeVars
<1>5. ASSUME NEW g \in DOMAIN groups, NEW n \in SolverNodes, SkipLine(g, n)
      PROVE  UNCHANGED <<serverTable, contentVideos>>
  BY <1>5 DEF SkipLine, tableVars, edgeVars
<1>6. ASSUME NEW g \in DOMAIN groups, LineNamesCloud(g)
      PROVE  UNCHANGED <<serverTable, contentVideos>>
  BY <1>6 DEF LineNamesCloud, tableVars, edgeVars
<1>7. SolverDone \/ UNCHANGED vars => UNCHANGED <<serverTable, contentVideos>>
  BY DEF SolverDone, vars, tableVars, edgeVars
<1>8. \/ UNCHANGED <<serverTable, contentVideos>>
      \/ \E k \in Keys, n \in Nodes : Line(k, n)
  BY <1>1, <1>2, <1>3, <1>4, <1>5, <1>6, <1>7 DEF Next, ILPSolution
<1> QED
  BY <1>8 DEF Line

\* No video is dropped and nobody is sent back to the cloud
\* (BindVideos only appends; DoRedirectUsers only names edge servers).
THEOREM NoEvictionHolds == Spec => NoEviction
<1> DEFINE Kept == \A n \in Nodes : \A i \in DOMAIN contentVideos[n] :
                     /\ i \in DOMAIN contentVideos'[n]
                     /\ contentVideos'[n][i] = contentVideos[n][i]
           Away == \A k \in Keys : serverTable[k] # IpOf[Cloud]
                     => serverTable'[k] # IpOf[Cloud]
<1>1. ASSUME IInv, [Next]_vars PROVE Kept /\ Away
  <2>1. CASE UNCHANGED <<serverTable, contentVideos>>
    BY <2>1
  <2>2. ASSUME NEW k \in Keys, NEW n \in Nodes,
               serverTable' = [serverTable EXCEPT ![k] = IpOf[n]]
        PROVE  Away
    <3>1. IpOf[n] # IpOf[Cloud]
      BY IpAssumption, CloudAssumption
    <3> QED
      BY <1>1, <2>2, <3>1 DEF IInv, TypeOK
  <2>3. ASSUME NEW k \in Keys, NEW n \in Nodes,
               contentVideos' = [contentVideos EXCEPT ![n] = Append(@, k[2])]
        PROVE  Kept
    <3> SUFFICES ASSUME NEW m \in Nodes, NEW i \in DOMAIN contentVideos[m]
                 PROVE  /\ i \in DOMAIN contentVideos'[m]
                        /\ contentVideos'[m][i] = contentVideos[m][i]
      OBVIOUS
    <3>1. contentVideos[m] \in Seq(Contents)
      BY <1>1 DEF IInv, TypeOK
    <3>2. contentVideos'[m] = IF m = n THEN Append(contentVideos[m], k[2])
                                       ELSE contentVideos[m]
      BY <1>1, <2>3 DEF IInv, TypeOK
    <3>3. k[2] \in Contents
      BY DEF Keys, KeyOf, Contents
    <3> QED
      BY <3>1, <3>2, <3>3
  <2>4. UNCHANGED contentVideos => Kept
    OBVIOUS
  <2> HIDE DEF Kept, Away
  <2> QED
    BY <1>1, <2>1, <2>2, <2>3, <2>4, AppliedLine
<1>2. IInv /\ [Next]_vars => [Kept /\ Away]_vars
  BY <1>1
<1> QED
  BY <1>2, Invariance, PTL DEF Spec, NoEviction

-----------------------------------------------------------------------------
(* The control plane implements Placement *)

\* A vector has no more distinct elements than entries.
LEMMA SeqRangeSize ==
  ASSUME NEW S, NEW s \in Seq(S), NEW T, T = {s[i] : i \in DOMAIN s}
  PROVE  Cardinality(T) <= Len(s) /\ Cardinality(T) \in Nat
<1>1. Len(s) \in Nat /\ DOMAIN s = 1..Len(s)
  OBVIOUS
<1>2. IsFiniteSet(1..Len(s)) /\ Cardinality(1..Len(s)) = Len(s)
  BY <1>1, FS_Interval, SMTT(40)
<1>3. s \in Surjection(1..Len(s), T)
  <2>1. s \in [1..Len(s) -> T]
    BY <1>1
  <2>2. \A t \in T : \E i \in 1..Len(s) : s[i] = t
    BY <1>1
  <2> QED
    BY <2>1, <2>2 DEF Surjection
<1>4. IsFiniteSet(T) /\ Cardinality(T) <= Cardinality(1..Len(s))
  BY <1>2, <1>3, FS_Surjection
<1> QED
  BY <1>2, <1>4, FS_CardinalityType

\* The server table and the stores of the edge servers implement Placement:
\* every step of the code is an abstract placement or changes neither.
THEOREM Refinement == Spec => ImplementsPlacement
<1> DEFINE st == [n \in Nodes |-> Stored(n)]
<1>1. Init => P!Init
  BY DEF Init, P!Init, Stored
<1>2. ASSUME IInv, IInv', [Next]_vars PROVE [P!Next]_(P!vars)
  <2>1. CASE UNCHANGED <<serverTable, contentVideos>>
    BY <2>1 DEF P!vars, Stored
  <2>2. ASSUME NEW k \in Keys, NEW n \in Nodes,
               serverTable' = [serverTable EXCEPT ![k] = IpOf[n]],
               \/ hasVideo(n, k[2]) /\ UNCHANGED contentVideos
               \/ contentVideos' =
                    [contentVideos EXCEPT ![n] = Append(@, k[2])]
        PROVE  P!Place(k, n)
    <3>1. k[2] \in Contents
      BY DEF Keys, KeyOf, Contents
    <3>2. \A m \in Nodes : m # n => Stored(m)' = Stored(m)
      <4>1. \A m \in Nodes : m # n => contentVideos'[m] = contentVideos[m]
        BY <1>2, <2>2 DEF IInv, TypeOK
      <4> QED
        BY <4>1 DEF Stored
    <3>3. Stored(n)' = Stored(n) \cup {k[2]}
      <4>1. CASE hasVideo(n, k[2]) /\ UNCHANGED contentVideos
        BY <4>1 DEF Stored, hasVideo
      <4>2. CASE contentVideos' = [contentVideos EXCEPT ![n] = Append(@, k[2])]
        <5>1. contentVideos[n] \in Seq(Contents)
          BY <1>2 DEF IInv, TypeOK
        <5>2. contentVideos'[n] = Append(contentVideos[n], k[2])
          BY <1>2, <4>2 DEF IInv, TypeOK
        <5>3. /\ Len(contentVideos[n]) \in Nat
              /\ DOMAIN contentVideos[n] = 1..Len(contentVideos[n])
              /\ DOMAIN contentVideos'[n] = 1..(Len(contentVideos[n]) + 1)
              /\ \A i \in DOMAIN contentVideos[n] :
                   contentVideos'[n][i] = contentVideos[n][i]
              /\ contentVideos'[n][Len(contentVideos[n]) + 1] = k[2]
          BY <3>1, <5>1, <5>2
        <5> QED
          BY <5>3 DEF Stored
      <4> QED
        BY <2>2, <4>1, <4>2
    <3>4. Cardinality(Stored(n)') <= Capacity[n]
      <4>1. /\ Len(contentVideos'[n]) = assignedVideos'[n]
            /\ assignedVideos'[n] <= Capacity[n]
            /\ assignedVideos'[n] \in Nat /\ Capacity[n] \in Nat
        BY <1>2, CapacityAssumption
        DEF IInv, EdgeInv, CapacityRespected, TypeOK
      <4>2. contentVideos'[n] \in Seq(Contents)
        BY <1>2 DEF IInv, TypeOK
      <4>3. /\ Cardinality(Stored(n)') <= Len(contentVideos'[n])
            /\ Cardinality(Stored(n)') \in Nat
        BY <4>2, SeqRangeSize DEF Stored
      <4> QED
        BY <4>1, <4>3
    <3>5. st' = [st EXCEPT ![n] = @ \cup {k[2]}]
      BY <3>2, <3>3
    <3>6. Cardinality(st'[n]) <= Capacity[n]
      BY <3>4
    <3>7. serverTable' = [serverTable EXCEPT ![k] = IpOf[n]]
      BY <2>2
    <3>8. \A T : P!Cardinality(T) = Cardinality(T)
      BY Zenon DEF Cardinality, P!Cardinality
    <3> QED
      BY <3>5, <3>6, <3>7, <3>8 DEF P!Place
  <2> QED
    BY <1>2, <2>1, <2>2, AppliedLine DEF P!Next
<1> QED
  BY <1>1, <1>2, Invariance, PTL DEF Spec, ImplementsPlacement, P!Spec
=============================================================================
