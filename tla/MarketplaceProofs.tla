-------------------------- MODULE MarketplaceProofs --------------------------
(***************************************************************************)
(* For any numbers of listings, versions, customers and requests: an       *)
(* install is the configuration its version stands for, an agent without   *)
(* an install is explained, and a count is backed by installs.             *)
(*                                                                         *)
(* A frozen version never changes, an agent is built once, by the request  *)
(* it is named after, and never comes back: so what a request knows of the *)
(* version it copies, or of the agent it has deleted, stays true while the *)
(* others work.                                                            *)
(***************************************************************************)
EXTENDS Marketplace, TLAPS, FiniteSetTheorems

(* Its agent is made, or never will be.                                    *)
Made == {"counting"} \cup Over

(* What a request has read, and may rely on, where it is.                  *)
Sound(r) ==
    LET h == request[r]
    IN  /\ h.at \in Working => h.listing \in Listings
        /\ h.at \in Installing => h.target = "install"
        /\ h.at = "writing" => h.target # "install"
        /\ h.target = "install" \/ h.at \in Removing => h.user \in Users
        /\ h.at \in {"inserting", "seeding"} => h.copy \in Configs
        /\ h.at = "seeding" => h.copy = snapshot[h.version]
        /\ h.at = "linking" => seed[r] = snapshot[h.version] /\ snapshot[h.version] \in Configs
        /\ h.agent # None => request[h.agent].at \in Made
        /\ h.at \in Removing => h.agent # None
        /\ h.at = "removing" => h.agent \notin agents
        /\ h.at \notin Made => h.linked = None
        /\ h.at = "counting" => h.linked = h.listing

RowsAreSound ==
    \A p \in Places :
        install[p] # None =>
            /\ install[p].agent \in agents
            /\ request[install[p].agent].at \in Made
            /\ seed[install[p].agent] = snapshot[install[p].version]
            /\ snapshot[install[p].version] # None

Counted(l) == {r \in Requests : request[r].linked = l /\ request[r].at # "counting"}

CountIsBacked == \A l \in Listings : listing[l].count <= Cardinality(Counted(l))

Inv ==
    /\ TypeOK
    /\ \A r \in Requests : Sound(r)
    /\ RowsAreSound
    /\ OrphansAreExplained
    /\ CountIsBacked

(* What no step undoes.                                                    *)
Keeps ==
    /\ \A v \in Versions : snapshot[v] # None => snapshot'[v] = snapshot[v]
    /\ \A r \in Requests :
           /\ request[r].at \in Over => request'[r] = request[r]
           /\ request[r].at \in Made => request'[r].at \in Made
           /\ request[r].at \in Made \cup {"linking"} => seed'[r] = seed[r]
           /\ request[r].at \in Made /\ r \notin agents => r \notin agents'
-----------------------------------------------------------------------------
(* What the ways to move a request leave of it, and of the others.         *)
LEMMA GotoFacts ==
    ASSUME TypeOK, NEW r \in Requests, NEW where \in {"idle"} \cup Working \cup Over,
           Goto(r, where)
    PROVE  /\ request' \in [Requests -> Handlers]
           /\ \A q \in Requests : q # r => request'[q] = request[q]
           /\ request'[r] = [request[r] EXCEPT !.at = where]
  BY DEF TypeOK, Goto, Handlers

LEMMA LeaveFacts ==
    ASSUME TypeOK, NEW r \in Requests, NEW how \in Over, Leave(r, how)
    PROVE  /\ request' \in [Requests -> Handlers]
           /\ \A q \in Requests : q # r => request'[q] = request[q]
           /\ request'[r] = Left(r, how)
           /\ request'[r].at = how /\ request'[r].target = "none"
           /\ request'[r].agent = request[r].agent /\ request'[r].linked = request[r].linked
  <1>1. request[r] \in Handlers
    BY DEF TypeOK
  <1>2. /\ Left(r, how) \in Handlers
        /\ Left(r, how).at = how /\ Left(r, how).target = "none"
        /\ Left(r, how).agent = request[r].agent /\ Left(r, how).linked = request[r].linked
    BY <1>1, VersionsAssumption DEF Left, Idle, Handlers, Statuses
  <1> HIDE DEF Left
  <1> QED
    BY <1>2 DEF TypeOK, Leave

LEMMA ReadsFacts ==
    ASSUME TypeOK, NEW r \in Requests, NEW l \in Listings,
           NEW where \in Working, NEW target \in Statuses, Reads(r, l, where, target)
    PROVE  /\ request' \in [Requests -> Handlers]
           /\ \A q \in Requests : q # r => request'[q] = request[q]
           /\ request'[r].at = where /\ request'[r].target = target
           /\ request'[r].listing = l /\ request'[r].agent = None
           /\ request'[r].linked = None
  <1> DEFINE h == [Idle EXCEPT !.at = where, !.listing = l, !.version = listing[l].version,
                               !.target = target]
  <1>1. listing[l].version \in Versions
    BY DEF TypeOK, Listing
  <1>2. /\ h \in Handlers
        /\ h.at = where /\ h.target = target /\ h.listing = l /\ h.agent = None /\ h.linked = None
    BY <1>1 DEF Idle, Handlers
  <1>3. request' = [request EXCEPT ![r] = h]
    BY DEF Reads
  <1> HIDE DEF h
  <1> QED
    BY <1>2, <1>3 DEF TypeOK

LEMMA InstallFacts ==
    ASSUME TypeOK, NEW r \in Requests, NEW l \in Listings, NEW u \in Users, Install(r, l, u)
    PROVE  /\ request' \in [Requests -> Handlers]
           /\ \A q \in Requests : q # r => request'[q] = request[q]
           /\ request'[r].at = "checking" /\ request'[r].target = "install"
           /\ request'[r].listing = l /\ request'[r].user = u /\ request'[r].agent = None
           /\ request'[r].linked = None
  <1> DEFINE h == [Idle EXCEPT !.at = "checking", !.listing = l, !.user = u,
                               !.version = listing[l].version, !.target = "install"]
  <1>1. listing[l].version \in Versions
    BY DEF TypeOK, Listing
  <1>2. /\ h \in Handlers
        /\ h.at = "checking" /\ h.target = "install" /\ h.listing = l /\ h.user = u
        /\ h.agent = None /\ h.linked = None
    BY <1>1 DEF Idle, Handlers, Working, Installing
  <1>3. request' = [request EXCEPT ![r] = h]
    BY DEF Install
  <1> HIDE DEF h
  <1> QED
    BY <1>2, <1>3 DEF TypeOK

LEMMA UninstallFacts ==
    ASSUME TypeOK, NEW r \in Requests, NEW l \in Listings, NEW u \in Users, Uninstall(r, l, u)
    PROVE  /\ request' \in [Requests -> Handlers]
           /\ \A q \in Requests : q # r => request'[q] = request[q]
           /\ request'[r].at = "deleting" /\ request'[r].target = "none"
           /\ request'[r].listing = l /\ request'[r].user = u
           /\ request'[r].agent = install[<<l, u>>].agent /\ request'[r].agent \in Requests
           /\ request'[r].linked = None
  <1> DEFINE a == install[<<l, u>>].agent
             h == [Idle EXCEPT !.at = "deleting", !.listing = l, !.user = u, !.agent = a]
  <1>1. a \in Requests
    <2>1. install[<<l, u>>] \in Rows
      BY DEF TypeOK, Uninstall, Places
    <2> QED
      BY <2>1 DEF Rows
  <1>2. request' = [request EXCEPT ![r] = h]
    BY DEF Uninstall
  <1> HIDE DEF a
  <1>3. /\ h \in Handlers
        /\ h.at = "deleting" /\ h.target = "none" /\ h.listing = l /\ h.user = u
        /\ h.agent = a /\ h.linked = None
    BY <1>1, VersionsAssumption DEF Idle, Handlers, Working, Removing, Statuses
  <1> HIDE DEF h
  <1> QED
    BY <1>1, <1>2, <1>3 DEF TypeOK, a

LEMMA HoldingFacts ==
    ASSUME TypeOK, NEW r \in Requests, NEW copy \in Configs, NEW next \in Working,
           Holding(r, copy, next)
    PROVE  /\ request' \in [Requests -> Handlers]
           /\ \A q \in Requests : q # r => request'[q] = request[q]
           /\ request'[r].at = next /\ request'[r].copy = copy
           /\ request'[r].listing = request[r].listing /\ request'[r].target = request[r].target
           /\ request'[r].user = request[r].user /\ request'[r].version = request[r].version
           /\ request'[r].agent = request[r].agent /\ request'[r].linked = request[r].linked
  <1> DEFINE h == request[r]
             moved == [h EXCEPT !.at = next, !.copy = copy]
  <1>1. h \in Handlers
    BY DEF TypeOK
  <1>2. request' = [request EXCEPT ![r] = moved]
    BY DEF TypeOK, Holding
  <1> HIDE DEF h
  <1>3. moved \in Handlers
    BY <1>1 DEF Handlers
  <1>4. /\ moved.at = next /\ moved.copy = copy
        /\ moved.listing = h.listing /\ moved.target = h.target
        /\ moved.user = h.user /\ moved.version = h.version
        /\ moved.agent = h.agent /\ moved.linked = h.linked
    BY <1>1 DEF Handlers
  <1> HIDE DEF moved
  <1> QED
    BY <1>2, <1>3, <1>4 DEF TypeOK, h

LEMMA CreatedFacts ==
    ASSUME TypeOK, NEW r \in Requests, CreateAndPublish(r)
    PROVE  /\ request' \in [Requests -> Handlers]
           /\ \A q \in Requests : q # r => request'[q] = request[q]
           /\ \E l \in Listings :
                  request'[r] = [request[r] EXCEPT !.at = "finding", !.listing = l,
                                                   !.version = DefaultVersion]
  <1>1. PICK l \in Listings :
           request' = [request EXCEPT ![r].at = "finding", ![r].listing = l,
                                      ![r].version = DefaultVersion]
    BY DEF CreateAndPublish
  <1>2. request[r] \in Handlers
    BY DEF TypeOK
  <1>3. [request[r] EXCEPT !.at = "finding", !.listing = l, !.version = DefaultVersion] \in Handlers
    BY <1>2, VersionsAssumption DEF Handlers, Working
  <1>4. request' = [request EXCEPT ![r] =
                      [request[r] EXCEPT !.at = "finding", !.listing = l, !.version = DefaultVersion]]
    BY <1>1, <1>2 DEF TypeOK
  <1> QED
    BY <1>3, <1>4 DEF TypeOK

LEMMA RestartFacts ==
    ASSUME TypeOK, Restart
    PROVE  /\ request' \in [Requests -> Handlers]
           /\ \A r \in Requests :
                  IF request[r].at \in Working
                  THEN /\ request'[r].at = "lost" /\ request'[r].target = "none"
                       /\ request'[r].agent = request[r].agent
                       /\ request'[r].linked = request[r].linked
                  ELSE request'[r] = request[r]
  <1>1. \A r \in Requests :
           /\ request[r] \in Handlers
           /\ Left(r, "lost") \in Handlers
           /\ Left(r, "lost").at = "lost" /\ Left(r, "lost").target = "none"
           /\ Left(r, "lost").agent = request[r].agent /\ Left(r, "lost").linked = request[r].linked
    BY VersionsAssumption DEF TypeOK, Left, Idle, Handlers, Statuses, Over
  <1> HIDE DEF Left
  <1> QED
    BY <1>1 DEF Restart

LEMMA PlaceType ==
    ASSUME Inv, NEW r \in Requests, request[r].at \in Installing \cup Removing
    PROVE  Place(r) \in Places
  BY DEF Inv, Sound, Place, Places, Working

LEMMA LinkFacts ==
    ASSUME Inv, NEW r \in Requests, CreateInstall(r), install[Place(r)] = None, r \in agents
    PROVE  /\ request' \in [Requests -> Handlers]
           /\ \A q \in Requests : q # r => request'[q] = request[q]
           /\ request'[r] = [request[r] EXCEPT !.at = "counting", !.linked = request[r].listing]
           /\ install' = [install EXCEPT ![Place(r)] =
                             [agent |-> r, version |-> request[r].version]]
           /\ [agent |-> r, version |-> request[r].version] \in Rows
  <1>1. request[r] \in Handlers /\ request[r].listing \in Listings
    BY DEF Inv, TypeOK, Sound, CreateInstall, At, Working, Installing
  <1>2. [request[r] EXCEPT !.at = "counting", !.linked = request[r].listing] \in Handlers
    BY <1>1 DEF Handlers, Working, Installing
  <1>3. request' = [request EXCEPT ![r] =
                      [request[r] EXCEPT !.at = "counting", !.linked = request[r].listing]]
    BY DEF CreateInstall, Inv, TypeOK
  <1>4. [agent |-> r, version |-> request[r].version] \in Rows
    BY <1>1 DEF Rows, Handlers
  <1> QED
    BY <1>2, <1>3, <1>4 DEF CreateInstall, Inv, TypeOK
-----------------------------------------------------------------------------
LEMMA DeleteType ==
    ASSUME TypeOK, NEW a, Delete(a)
    PROVE  agents' \in SUBSET Requests /\ install' \in [Places -> Rows \cup {None}]
  BY DEF TypeOK, Delete, Without

(* A write to one field of one listing.                                    *)
LEMMA ListingType ==
    ASSUME TypeOK, NEW l, NEW row \in Listing, listing' = [listing EXCEPT ![l] = row]
    PROVE  listing' \in [Listings -> Listing]
  BY DEF TypeOK

LEMMA RequestType == Inv /\ [Next]_vars => request' \in [Requests -> Handlers]
  <1> SUFFICES ASSUME Inv, [Next]_vars PROVE request' \in [Requests -> Handlers]
    OBVIOUS
  <1> USE DEF Inv
  <1>1. ASSUME NEW r \in Requests, Step(r) PROVE request' \in [Requests -> Handlers]
    <2>1. CASE CreateAndPublish(r)
      BY <2>1, CreatedFacts
    <2>2. CASE WriteVersion(r) \/ WriteStatus(r) \/ IncrementCount(r) \/ RemoveInstall(r)
      BY <2>2, LeaveFacts DEF WriteVersion, WriteStatus, IncrementCount, RemoveInstall, Over
    <2>3. CASE FindSnapshot(r)
      <3>1. config \in Configs /\ snapshot[request[r].version] \in Configs \cup {None}
        BY DEF TypeOK, Handlers
      <3>2. AfterSnapshot(r) \in Working /\ "inserting" \in Working
        BY DEF AfterSnapshot, Working, Installing, Publishing
      <3> QED
        BY <2>3, <3>1, <3>2, HoldingFacts DEF FindSnapshot
    <2>4. CASE InsertSnapshot(r)
      BY <2>4, GotoFacts, LeaveFacts DEF InsertSnapshot, AfterSnapshot, Working, Installing,
                                         Publishing, Over
    <2>5. CASE FindInstall(r) \/ SaveAgent(r) \/ DeleteAgent(r)
      BY <2>5, GotoFacts, LeaveFacts DEF FindInstall, SaveAgent, DeleteAgent, Working,
                                         Installing, Removing, Over
    <2>6. CASE CreateInstall(r)
      BY <2>6, LinkFacts, LeaveFacts DEF CreateInstall, Over
    <2> QED
      BY <1>1, <2>1, <2>2, <2>3, <2>4, <2>5, <2>6 DEF Step
  <1>2. ASSUME NEW r \in Requests, NEW l \in Listings, Begin(r, l)
        PROVE  request' \in [Requests -> Handlers]
    BY <1>2, ReadsFacts, InstallFacts, UninstallFacts
    DEF Begin, Patch, Submit, Review, AutoPublish, Working, Publishing, Statuses
  <1>3. CASE Restart
    BY <1>3, RestartFacts
  <1>4. ASSUME NEW r \in Requests, DeleteInstalled(r) PROVE request' \in [Requests -> Handlers]
    BY <1>4 DEF DeleteInstalled, TypeOK
  <1>5. CASE CreateListing \/ Edit \/ UNCHANGED vars
    BY <1>5 DEF CreateListing, Edit, vars, TypeOK
  <1> QED
    BY <1>1, <1>2, <1>3, <1>4, <1>5 DEF Next

LEMMA ListingStep == Inv /\ [Next]_vars => listing' \in [Listings -> Listing]
  <1> SUFFICES ASSUME Inv, [Next]_vars PROVE listing' \in [Listings -> Listing]
    OBVIOUS
  <1>1. TypeOK /\ \A l \in Listings : listing[l] \in Listing
    BY DEF Inv, TypeOK
  <1>2. ASSUME NEW l \in Listings, NEW s \in Statuses, NEW v \in Versions
        PROVE  /\ [listing[l] EXCEPT !.status = s, !.version = v] \in Listing
               /\ [listing[l] EXCEPT !.status = s] \in Listing
               /\ [listing[l] EXCEPT !.version = v] \in Listing
               /\ [listing[l] EXCEPT !.count = @ + 1] \in Listing
    <2> DEFINE row == listing[l]
    <2>1. row \in Listing
      BY <1>1
    <2> HIDE DEF row
    <2>2. [row EXCEPT !.status = s, !.version = v] \in Listing
      BY <2>1 DEF Listing
    <2>3. [row EXCEPT !.status = s] \in Listing /\ [row EXCEPT !.version = v] \in Listing
      BY <2>1 DEF Listing
    <2>4. [row EXCEPT !.count = @ + 1] \in Listing
      BY <2>1 DEF Listing
    <2> QED
      BY <2>2, <2>3, <2>4 DEF row
  <1>3. ASSUME NEW l \in Listings, NEW v \in Versions,
               listing' = [listing EXCEPT ![l].status = "draft", ![l].version = v]
        PROVE  listing' \in [Listings -> Listing]
    <2>1. listing' = [listing EXCEPT ![l] = [listing[l] EXCEPT !.status = "draft", !.version = v]]
      BY <1>3, <1>1 DEF TypeOK
    <2>2. [listing[l] EXCEPT !.status = "draft", !.version = v] \in Listing
      BY <1>2 DEF Statuses
    <2> QED
      BY <1>1, <2>1, <2>2, ListingType
  <1>4. CASE CreateListing \/ \E r \in Requests : CreateAndPublish(r)
    BY <1>3, <1>4, VersionsAssumption DEF CreateListing, CreateAndPublish
  <1>5. ASSUME NEW r \in Requests, WriteVersion(r) \/ WriteStatus(r) \/ IncrementCount(r)
        PROVE  listing' \in [Listings -> Listing]
    <2>1. request[r].listing \in Listings /\ (request[r].at = "writing" => request[r].target \in Statuses)
      BY <1>5 DEF Inv, Sound, WriteVersion, WriteStatus, IncrementCount, At, Working, Publishing,
                  Installing, TypeOK, Handlers
    <2> DEFINE l == request[r].listing
    <2>2. CASE WriteVersion(r)
      <3>1. PICK v \in Versions : listing' = [listing EXCEPT ![l] = [listing[l] EXCEPT !.version = v]]
        BY <1>1, <2>2 DEF WriteVersion, TypeOK
      <3>2. [listing[l] EXCEPT !.version = v] \in Listing
        BY <1>2, <2>1 DEF Statuses
      <3> QED
        BY <1>1, <3>1, <3>2, ListingType
    <2>3. CASE WriteStatus(r)
      <3>1. listing' = [listing EXCEPT ![l] = [listing[l] EXCEPT !.status = request[r].target]]
        BY <1>1, <2>3 DEF WriteStatus, TypeOK
      <3>2. [listing[l] EXCEPT !.status = request[r].target] \in Listing
        BY <1>2, <2>1, <2>3, VersionsAssumption DEF WriteStatus, At
      <3> QED
        BY <1>1, <3>1, <3>2, ListingType
    <2>4. CASE IncrementCount(r)
      <3>1. listing' = [listing EXCEPT ![l] = [listing[l] EXCEPT !.count = @ + 1]]
        BY <1>1, <2>4 DEF IncrementCount, TypeOK
      <3>2. [listing[l] EXCEPT !.count = @ + 1] \in Listing
        BY <1>2, <2>1, VersionsAssumption DEF Statuses
      <3> QED
        BY <1>1, <3>1, <3>2, ListingType
    <2> QED
      BY <1>5, <2>2, <2>3, <2>4
  <1>6. CASE UNCHANGED listing
    BY <1>6, <1>1 DEF TypeOK
  <1>7. ASSUME NEW r \in Requests, Step(r) PROVE listing' \in [Listings -> Listing]
    <2>1. \/ CreateAndPublish(r) \/ WriteVersion(r) \/ WriteStatus(r) \/ IncrementCount(r)
          \/ UNCHANGED listing
      BY <1>7 DEF Step, FindSnapshot, InsertSnapshot, FindInstall, SaveAgent, CreateInstall,
                  DeleteAgent, RemoveInstall
    <2> QED
      BY <1>4, <1>5, <1>6, <2>1
  <1>8. ASSUME NEW r \in Requests, NEW l \in Listings, Begin(r, l) PROVE UNCHANGED listing
    BY <1>8 DEF Begin, Patch, Submit, Review, AutoPublish, Reads, Install, Uninstall
  <1>9. CASE (\E r \in Requests : DeleteInstalled(r)) \/ Edit \/ Restart \/ UNCHANGED vars
    BY <1>6, <1>9 DEF DeleteInstalled, Edit, Restart, vars
  <1> QED
    BY <1>4, <1>6, <1>7, <1>8, <1>9 DEF Next

LEMMA TypeStep == Inv /\ [Next]_vars => TypeOK'
  <1> SUFFICES ASSUME Inv, [Next]_vars PROVE TypeOK'
    OBVIOUS
  <1>1. TypeOK
    BY DEF Inv
  <1>2. request' \in [Requests -> Handlers] /\ listing' \in [Listings -> Listing]
    BY RequestType, ListingStep
  <1>3. ASSUME NEW r \in Requests, Step(r) PROVE TypeOK'
    <2>1. CASE InsertSnapshot(r)
      <3>1. request[r].copy \in Configs
        BY <2>1 DEF InsertSnapshot, At, Inv, Sound
      <3> QED
        BY <1>1, <1>2, <2>1, <3>1 DEF InsertSnapshot, TypeOK
    <2>2. CASE SaveAgent(r)
      <3>1. request[r].copy \in Configs
        BY <2>2 DEF SaveAgent, At, Inv, Sound
      <3> QED
        BY <1>1, <1>2, <2>2, <3>1 DEF SaveAgent, TypeOK
    <2>3. CASE CreateInstall(r)
      <3>1. install' \in [Places -> Rows \cup {None}]
        <4>1. CASE install[Place(r)] = None /\ r \in agents
          <5> DEFINE row == [agent |-> r, version |-> request[r].version]
          <5>1. install' = [install EXCEPT ![Place(r)] = row] /\ row \in Rows
            BY <2>3, <4>1, LinkFacts
          <5> HIDE DEF row
          <5> QED
            BY <1>1, <5>1 DEF TypeOK
        <4>2. CASE ~(install[Place(r)] = None /\ r \in agents)
          BY <1>1, <2>3, <4>2 DEF CreateInstall, TypeOK
        <4> QED
          BY <4>1, <4>2
      <3> QED
        BY <1>1, <1>2, <2>3, <3>1 DEF CreateInstall, TypeOK
    <2>4. CASE DeleteAgent(r)
      BY <1>1, <1>2, <2>4, DeleteType DEF DeleteAgent, TypeOK
    <2>5. CASE RemoveInstall(r)
      BY <1>1, <1>2, <2>5 DEF RemoveInstall, TypeOK
    <2>6. CASE \/ CreateAndPublish(r) \/ WriteVersion(r) \/ WriteStatus(r) \/ FindSnapshot(r)
               \/ FindInstall(r) \/ IncrementCount(r)
      BY <1>1, <1>2, <2>6 DEF CreateAndPublish, WriteVersion, WriteStatus, FindSnapshot,
                              FindInstall, IncrementCount, data, TypeOK
    <2> QED
      BY <1>3, <2>1, <2>2, <2>3, <2>4, <2>5, <2>6 DEF Step
  <1>4. ASSUME NEW r \in Requests, NEW l \in Listings, Begin(r, l) PROVE TypeOK'
    BY <1>1, <1>2, <1>4 DEF Begin, Patch, Submit, Review, AutoPublish, Reads, Install, Uninstall,
                            data, TypeOK
  <1>5. ASSUME NEW r \in Requests, DeleteInstalled(r) PROVE TypeOK'
    BY <1>1, <1>2, <1>5, DeleteType DEF DeleteInstalled, TypeOK
  <1>6. CASE CreateListing \/ Restart \/ UNCHANGED vars
    BY <1>1, <1>2, <1>6 DEF CreateListing, Restart, vars, data, TypeOK
  <1>7. CASE Edit
    BY <1>1, <1>2, <1>7, BoundsAssumption DEF Edit, TypeOK, Configs
  <1> QED
    BY <1>3, <1>4, <1>5, <1>6, <1>7 DEF Next
-----------------------------------------------------------------------------
LEMMA KeepsStep == Inv /\ [Next]_vars => Keeps
  <1> SUFFICES ASSUME Inv, [Next]_vars PROVE Keeps
    OBVIOUS
  <1> USE DEF Inv
  <1>1. ASSUME \A r \in Requests : /\ request[r].at \in Over => request'[r] = request[r]
                                   /\ request[r].at \in Made => request'[r].at \in Made,
               UNCHANGED <<snapshot, seed>>, agents' \subseteq agents
        PROVE  Keeps
    BY <1>1 DEF Keeps
  <1>2. ASSUME NEW r \in Requests, Step(r) PROVE Keeps
    <2>1. CASE CreateAndPublish(r)
      BY <1>1, <2>1, CreatedFacts DEF CreateAndPublish, At, data, Made, Over
    <2>2. CASE WriteVersion(r) \/ WriteStatus(r) \/ IncrementCount(r)
      BY <1>1, <2>2, LeaveFacts DEF WriteVersion, WriteStatus, IncrementCount, At, data, Made, Over
    <2>3. CASE FindSnapshot(r)
      <3>1. request[r].at \notin Made /\ \A q \in Requests : q # r => request'[q] = request[q]
        BY <2>3 DEF FindSnapshot, At, Holding, Made, Over, TypeOK
      <3> QED
        BY <1>1, <2>3, <3>1 DEF FindSnapshot, data, Made
    <2>4. CASE InsertSnapshot(r)
      <3>1. request[r].at \notin Made /\ \A q \in Requests : q # r => request'[q] = request[q]
        BY <2>4 DEF InsertSnapshot, At, Goto, Leave, Made, Over, TypeOK
      <3> QED
        BY <2>4, <3>1 DEF InsertSnapshot, Keeps, TypeOK, Made
    <2>5. CASE FindInstall(r)
      <3>1. request[r].at \notin Made /\ \A q \in Requests : q # r => request'[q] = request[q]
        BY <2>5 DEF FindInstall, At, Goto, Leave, Made, Over, TypeOK
      <3> QED
        BY <1>1, <2>5, <3>1 DEF FindInstall, data, Made
    <2>6. CASE SaveAgent(r)
      <3>1. request[r].at \notin Made \cup {"linking"}
        BY <2>6 DEF SaveAgent, At, Made, Over
      <3>2. \A q \in Requests : q # r => request'[q] = request[q] /\ seed'[q] = seed[q]
        BY <2>6 DEF SaveAgent, Goto, TypeOK
      <3> QED
        BY <2>6, <3>1, <3>2 DEF SaveAgent, Keeps, Made
    <2>7. CASE CreateInstall(r)
      <3>1. request[r].at \notin Made /\ \A q \in Requests : q # r => request'[q] = request[q]
        BY <2>7, LinkFacts, LeaveFacts DEF CreateInstall, At, Made, Over
      <3> QED
        BY <1>1, <2>7, <3>1 DEF CreateInstall, Made
    <2>8. CASE DeleteAgent(r) \/ RemoveInstall(r)
      <3>1. request[r].at \notin Made /\ \A q \in Requests : q # r => request'[q] = request[q]
        BY <2>8 DEF DeleteAgent, RemoveInstall, At, Goto, Leave, Made, Over, TypeOK
      <3>2. agents' \subseteq agents /\ UNCHANGED <<snapshot, seed>>
        BY <2>8 DEF DeleteAgent, RemoveInstall, Delete
      <3> QED
        BY <1>1, <3>1, <3>2 DEF Made
    <2> QED
      BY <1>2, <2>1, <2>2, <2>3, <2>4, <2>5, <2>6, <2>7, <2>8 DEF Step
  <1>3. ASSUME NEW r \in Requests, NEW l \in Listings, Begin(r, l) PROVE Keeps
    <2>1. /\ request[r].at = "idle" /\ UNCHANGED <<snapshot, seed, agents>>
          /\ \A q \in Requests : q # r => request'[q] = request[q]
      BY <1>3 DEF Begin, Patch, Submit, Review, AutoPublish, Reads, Install, Uninstall, At, data, TypeOK
    <2> QED
      BY <1>1, <2>1 DEF Made, Over
  <1>4. ASSUME NEW r \in Requests, DeleteInstalled(r) PROVE Keeps
    BY <1>1, <1>4 DEF DeleteInstalled, Delete
  <1>5. CASE Restart
    BY <1>1, <1>5, RestartFacts
    DEF Restart, data, Made, Over, Working, Publishing, Installing, Removing
  <1>6. CASE CreateListing \/ Edit \/ UNCHANGED vars
    BY <1>1, <1>6 DEF CreateListing, Edit, vars, data
  <1> QED
    BY <1>2, <1>3, <1>4, <1>5, <1>6 DEF Next

(* A request that nothing happened to still relies on what is true.        *)
LEMMA OthersSound ==
    ASSUME Inv, TypeOK', Keeps, NEW q \in Requests, request'[q] = request[q]
    PROVE  Sound(q)'
  <1>1. Sound(q) /\ request[q] \in Handlers
    BY DEF Inv, TypeOK
  <1>2. request[q].at = "seeding" => snapshot'[request[q].version] = snapshot[request[q].version]
    BY <1>1, NoneAssumption DEF Sound, Keeps, Handlers, Configs
  <1>3. request[q].at = "linking" => /\ snapshot'[request[q].version] = snapshot[request[q].version]
                                     /\ seed'[q] = seed[q]
    BY <1>1, NoneAssumption DEF Sound, Keeps, Handlers, Configs
  <1>4. request[q].agent # None => request'[request[q].agent].at \in Made
    BY <1>1 DEF Sound, Keeps, Handlers
  <1>5. request[q].at = "removing" => request[q].agent \notin agents'
    BY <1>1 DEF Sound, Keeps, Handlers, Removing
  <1> QED
    BY <1>1, <1>2, <1>3, <1>4, <1>5 DEF Sound

(* One that is over relies on nothing but its agent.                       *)
LEMMA LeftSound ==
    ASSUME Inv, Keeps, NEW r \in Requests,
           request'[r].at \in Over, request'[r].target = "none",
           request'[r].agent = request[r].agent, request'[r].linked = request[r].linked
    PROVE  Sound(r)'
  <1>1. Sound(r) /\ request[r] \in Handlers
    BY DEF Inv, TypeOK
  <1>2. request[r].agent # None => request'[request[r].agent].at \in Made
    BY <1>1 DEF Sound, Keeps, Handlers
  <1> QED
    BY <1>2 DEF Sound, Over, Made, Working, Publishing, Installing, Removing

(* One that has just begun has only read.                                  *)
LEMMA BegunSound ==
    ASSUME NEW r \in Requests, request'[r].listing \in Listings, request'[r].agent = None,
           request'[r].linked = None,
           \/ request'[r].target # "install" /\ request'[r].at \in {"patching", "writing", "finding", "creating"}
           \/ request'[r].target = "install" /\ request'[r].at = "checking" /\ request'[r].user \in Users
    PROVE  Sound(r)'
  BY DEF Sound, Over, Made, Working, Publishing, Installing, Removing

LEMMA SoundStep == Inv /\ [Next]_vars => \A q \in Requests : Sound(q)'
  <1> SUFFICES ASSUME Inv, [Next]_vars PROVE \A q \in Requests : Sound(q)'
    OBVIOUS
  <1>1. TypeOK' /\ Keeps /\ TypeOK
    BY TypeStep, KeepsStep DEF Inv
  <1>2. ASSUME NEW r \in Requests, \A q \in Requests : q # r => request'[q] = request[q], Sound(r)'
        PROVE  \A q \in Requests : Sound(q)'
    BY <1>1, <1>2, OthersSound
  <1>3. ASSUME NEW r \in Requests, Step(r) PROVE \A q \in Requests : Sound(q)'
    <2> DEFINE h == request[r]
    <2>1. Sound(r) /\ h \in Handlers /\ (h.agent # None => request'[h.agent].at \in Made)
      <3>1. Sound(r) /\ h \in Handlers
        BY DEF Inv, TypeOK
      <3>2. h.agent # None => h.agent \in Requests /\ request[h.agent].at \in Made
        BY <3>1 DEF Sound, Handlers
      <3> QED
        BY <1>1, <3>1, <3>2 DEF Keeps
    <2>2. CASE CreateAndPublish(r)
      <3>1. PICK l \in Listings :
               request'[r] = [h EXCEPT !.at = "finding", !.listing = l, !.version = DefaultVersion]
        BY <1>1, <2>2, CreatedFacts
      <3>2. h.at = "creating"
        BY <2>2 DEF CreateAndPublish, At
      <3>3. /\ request'[r].at = "finding" /\ request'[r].listing \in Listings
            /\ request'[r].target = h.target /\ request'[r].user = h.user
            /\ request'[r].agent = h.agent /\ request'[r].linked = h.linked
        BY <2>1, <3>1 DEF Handlers
      <3>4. Sound(r)'
        BY <2>1, <3>2, <3>3 DEF Sound, Over, Made, Working, Publishing, Installing, Removing
      <3> QED
        BY <1>1, <1>2, <2>2, <3>4, CreatedFacts
    <2>3. ASSUME NEW how \in Over, Leave(r, how) PROVE \A q \in Requests : Sound(q)'
      BY <1>1, <1>2, <2>3, LeaveFacts, LeftSound
    <2>4. CASE FindSnapshot(r)
      <3>1. PICK copy \in Configs, next \in {"inserting", AfterSnapshot(r)} :
               /\ Holding(r, copy, next)
               /\ next = AfterSnapshot(r) => copy = snapshot[h.version]
        BY <1>1, <2>1, <2>4 DEF FindSnapshot, TypeOK, Handlers, AfterSnapshot
      <3>2. /\ h.at = "finding" /\ UNCHANGED snapshot
            /\ AfterSnapshot(r) = IF h.target = "install" THEN "seeding" ELSE "writing"
        BY <2>4 DEF FindSnapshot, At, data, AfterSnapshot
      <3>3. next \in Working
        BY <3>1, <3>2 DEF Working, Publishing, Installing
      <3>4. /\ request'[r].at = next /\ request'[r].copy = copy
            /\ request'[r].listing = h.listing /\ request'[r].target = h.target
            /\ request'[r].user = h.user /\ request'[r].version = h.version
            /\ request'[r].agent = h.agent /\ request'[r].linked = h.linked
            /\ \A q \in Requests : q # r => request'[q] = request[q]
        BY <1>1, <3>1, <3>3, HoldingFacts
      <3>5. Sound(r)'
        BY <2>1, <3>1, <3>2, <3>4 DEF Sound, Over, Made, Working, Publishing, Installing, Removing
      <3> QED
        BY <1>2, <3>4, <3>5
    <2>5. ASSUME NEW where \in Working, Goto(r, where)
          PROVE  /\ request'[r].at = where /\ request'[r].copy = h.copy
                 /\ request'[r].listing = h.listing /\ request'[r].target = h.target
                 /\ request'[r].user = h.user /\ request'[r].version = h.version
                 /\ request'[r].agent = h.agent /\ request'[r].linked = h.linked
                 /\ \A q \in Requests : q # r => request'[q] = request[q]
      <3>1. /\ request'[r] = [h EXCEPT !.at = where]
            /\ \A q \in Requests : q # r => request'[q] = request[q]
        BY <1>1, <2>5, GotoFacts
      <3> HIDE DEF h
      <3> QED
        BY <2>1, <3>1 DEF Handlers
    <2>6. CASE InsertSnapshot(r) /\ Goto(r, AfterSnapshot(r))
      <3>1. h.at = "inserting" /\ AfterSnapshot(r) = IF h.target = "install" THEN "seeding" ELSE "writing"
        BY <2>6 DEF InsertSnapshot, At, AfterSnapshot
      <3>2. snapshot'[h.version] = h.copy
        <4>1. ~Leave(r, "threw")
          <5>1. request'[r].at \in {"seeding", "writing"}
            BY <2>5, <2>6, <3>1 DEF Working, Publishing, Installing
          <5> QED
            BY <1>1, <5>1, LeaveFacts DEF Over
        <4> QED
          BY <1>1, <2>1, <2>6, <4>1 DEF InsertSnapshot, TypeOK, Handlers
      <3>3. AfterSnapshot(r) \in Working
        BY <3>1 DEF Working, Publishing, Installing
      <3>4. Sound(r)'
        BY <2>1, <2>5, <2>6, <3>1, <3>2, <3>3
        DEF Sound, Over, Made, Working, Publishing, Installing, Removing
      <3> QED
        BY <1>2, <2>5, <2>6, <3>3, <3>4
    <2>7. CASE FindInstall(r) /\ Goto(r, "finding")
      <3>1. h.at = "checking"
        BY <2>7 DEF FindInstall, At
      <3>2. Sound(r)'
        BY <2>1, <2>5, <2>7, <3>1 DEF Sound, Over, Made, Working, Publishing, Installing, Removing
      <3> QED
        BY <1>2, <2>5, <2>7, <3>2 DEF Working
    <2>8. CASE SaveAgent(r)
      <3>1. h.at = "seeding" /\ seed'[r] = h.copy /\ UNCHANGED snapshot /\ Goto(r, "linking")
        BY <1>1, <2>8 DEF SaveAgent, At, TypeOK
      <3>2. Sound(r)'
        BY <2>1, <2>5, <3>1 DEF Sound, Over, Made, Working, Publishing, Installing, Removing
      <3> QED
        BY <1>2, <2>5, <3>1, <3>2 DEF Working, Installing
    <2>9. CASE CreateInstall(r) /\ install[Place(r)] = None /\ r \in agents
      <3>1. h.at = "linking"
        BY <2>9 DEF CreateInstall, At
      <3>2. /\ request'[r].at = "counting" /\ request'[r].linked = h.listing
            /\ request'[r].listing = h.listing /\ request'[r].target = h.target
            /\ request'[r].user = h.user /\ request'[r].agent = h.agent
            /\ \A q \in Requests : q # r => request'[q] = request[q]
        BY <2>1, <2>9, LinkFacts DEF Handlers
      <3>3. Sound(r)'
        BY <2>1, <3>1, <3>2 DEF Sound, Over, Made, Working, Publishing, Installing, Removing
      <3> QED
        BY <1>2, <3>2, <3>3
    <2>10. CASE DeleteAgent(r)
      <3>1. h.at = "deleting" /\ h.agent \notin agents' /\ Goto(r, "removing")
        BY <2>10 DEF DeleteAgent, Delete, At
      <3>2. Sound(r)'
        BY <2>1, <2>5, <3>1 DEF Sound, Over, Made, Working, Publishing, Installing, Removing
      <3> QED
        BY <1>2, <2>5, <3>1, <3>2 DEF Working, Removing
    <2> QED
      BY <1>3, <2>2, <2>3, <2>4, <2>6, <2>7, <2>8, <2>9, <2>10
      DEF Step, WriteVersion, WriteStatus, InsertSnapshot, FindInstall, CreateInstall,
          IncrementCount, RemoveInstall, Over
  <1>4. ASSUME NEW r \in Requests, NEW l \in Listings, Begin(r, l) PROVE \A q \in Requests : Sound(q)'
    <2>1. ASSUME NEW where \in {"patching", "writing", "finding", "creating"},
                 NEW target \in Statuses, Reads(r, l, where, target)
          PROVE  \A q \in Requests : Sound(q)'
      BY <1>1, <1>2, <2>1, ReadsFacts, BegunSound DEF Working, Publishing, Statuses
    <2>2. ASSUME NEW u \in Users, Install(r, l, u) PROVE \A q \in Requests : Sound(q)'
      BY <1>1, <1>2, <2>2, InstallFacts, BegunSound
    <2>3. ASSUME NEW u \in Users, Uninstall(r, l, u) PROVE \A q \in Requests : Sound(q)'
      <3>1. request[install[<<l, u>>].agent].at \in Made /\ request[r].at = "idle"
        BY <2>3 DEF Uninstall, At, Inv, RowsAreSound, Places
      <3>2. /\ request'[r].at = "deleting" /\ request'[r].target = "none"
            /\ request'[r].listing = l /\ request'[r].user = u
            /\ request'[r].agent = install[<<l, u>>].agent /\ request'[r].agent \in Requests
            /\ request'[r].linked = None
            /\ \A q \in Requests : q # r => request'[q] = request[q]
        BY <1>1, <2>3, UninstallFacts
      <3>3. request'[request'[r].agent].at \in Made
        BY <3>1, <3>2, <1>1 DEF Keeps
      <3>4. Sound(r)'
        BY <3>2, <3>3, NoneAssumption DEF Sound, Over, Made, Working, Publishing, Installing, Removing
      <3> QED
        BY <1>2, <3>2, <3>4
    <2> QED
      BY <1>4, <2>1, <2>2, <2>3 DEF Begin, Patch, Submit, Review, AutoPublish, Statuses
  <1>5. CASE Restart
    <2> TAKE q \in Requests
    <2>1. CASE request[q].at \in Working
      BY <1>1, <1>5, <2>1, RestartFacts, LeftSound DEF Over
    <2>2. CASE request[q].at \notin Working
      BY <1>1, <1>5, <2>2, RestartFacts, OthersSound
    <2> QED
      BY <2>1, <2>2
  <1>6. CASE CreateListing \/ Edit \/ (\E r \in Requests : DeleteInstalled(r)) \/ UNCHANGED vars
    <2>1. UNCHANGED request
      BY <1>6 DEF CreateListing, Edit, DeleteInstalled, vars
    <2> QED
      BY <1>1, <2>1, OthersSound
  <1> QED
    BY <1>3, <1>4, <1>5, <1>6 DEF Next
-----------------------------------------------------------------------------
(* A row that is left as it was stays sound.                               *)
LEMMA RowsFrame ==
    ASSUME Inv, Keeps, TypeOK',
           \A p \in Places : install'[p] # None => /\ install'[p] = install[p]
                                                  /\ install[p].agent \in agents'
    PROVE  RowsAreSound'
  <1> SUFFICES ASSUME NEW p \in Places, install'[p] # None
               PROVE  /\ install'[p].agent \in agents'
                      /\ request'[install'[p].agent].at \in Made
                      /\ seed'[install'[p].agent] = snapshot'[install'[p].version]
                      /\ snapshot'[install'[p].version] # None
    BY DEF RowsAreSound
  <1>1. install[p] \in Rows /\ install'[p] = install[p] /\ install[p].agent \in agents'
    BY DEF Inv, TypeOK
  <1>2. install[p].agent \in Requests /\ install[p].version \in Versions
    BY <1>1 DEF Rows
  <1>3. /\ request[install[p].agent].at \in Made
        /\ seed[install[p].agent] = snapshot[install[p].version]
        /\ snapshot[install[p].version] # None
    BY <1>1 DEF Inv, RowsAreSound
  <1> QED
    BY <1>1, <1>2, <1>3 DEF Keeps

LEMMA WithoutFacts ==
    ASSUME Inv, NEW a, Delete(a)
    PROVE  \A p \in Places :
              IF install[p] # None /\ install[p].agent = a
              THEN install'[p] = None
              ELSE /\ install'[p] = install[p]
                   /\ install[p] # None => install[p].agent \in agents'
  BY DEF Inv, RowsAreSound, Delete, Without

LEMMA RowsStep == Inv /\ [Next]_vars => RowsAreSound'
  <1> SUFFICES ASSUME Inv, [Next]_vars PROVE RowsAreSound'
    OBVIOUS
  <1>1. TypeOK' /\ Keeps /\ TypeOK
    BY TypeStep, KeepsStep DEF Inv
  <1>2. CASE UNCHANGED install /\ agents \subseteq agents'
    BY <1>1, <1>2, RowsFrame DEF Inv, RowsAreSound
  <1>3. ASSUME NEW a, Delete(a) PROVE RowsAreSound'
    BY <1>1, <1>3, RowsFrame, WithoutFacts
  <1>4. ASSUME NEW r \in Requests, RemoveInstall(r) PROVE RowsAreSound'
    <2>1. \A p \in Places : install'[p] # None => install'[p] = install[p]
      BY <1>1, <1>4 DEF RemoveInstall, TypeOK
    <2>2. UNCHANGED agents
      BY <1>4 DEF RemoveInstall
    <2> QED
      BY <1>1, <2>1, <2>2, RowsFrame DEF Inv, RowsAreSound
  <1>5. ASSUME NEW r \in Requests, CreateInstall(r), install[Place(r)] = None, r \in agents
        PROVE  RowsAreSound'
    <2> DEFINE p0 == Place(r)
               row == [agent |-> r, version |-> request[r].version]
    <2>1. /\ install' = [install EXCEPT ![p0] = row]
          /\ request'[r] = [request[r] EXCEPT !.at = "counting", !.linked = request[r].listing]
      BY <1>5, LinkFacts
    <2>2. UNCHANGED <<agents, seed, snapshot>>
      BY <1>5 DEF CreateInstall
    <2>3. /\ request'[r].at = "counting" /\ seed[r] = snapshot[request[r].version]
          /\ snapshot[request[r].version] # None
      BY <1>1, <1>5, <2>1, NoneAssumption
      DEF Inv, Sound, CreateInstall, At, TypeOK, Handlers, Configs
    <2>4. row.agent = r /\ row.version = request[r].version
      OBVIOUS
    <2> HIDE DEF row
    <2>5. ASSUME NEW p \in Places, p # p0, install'[p] # None
          PROVE  /\ install'[p].agent \in agents'
                 /\ request'[install'[p].agent].at \in Made
                 /\ seed'[install'[p].agent] = snapshot'[install'[p].version]
                 /\ snapshot'[install'[p].version] # None
      <3>1. install'[p] = install[p] /\ install[p] \in Rows
        BY <1>1, <2>1, <2>5 DEF TypeOK
      <3>2. install[p].agent \in Requests
        BY <3>1 DEF Rows
      <3> QED
        BY <1>1, <2>2, <2>5, <3>1, <3>2 DEF Inv, RowsAreSound, Keeps
    <2>6. install'[p0] = row \/ p0 \notin Places
      BY <1>1, <2>1 DEF TypeOK
    <2> QED
      BY <1>5, <2>2, <2>3, <2>4, <2>5, <2>6 DEF RowsAreSound, Made
  <1>6. ASSUME NEW r \in Requests, Step(r) PROVE RowsAreSound'
    <2>1. CASE CreateInstall(r)
      BY <1>2, <1>5, <2>1 DEF CreateInstall
    <2>2. CASE DeleteAgent(r) \/ RemoveInstall(r)
      BY <1>3, <1>4, <2>2 DEF DeleteAgent
    <2>3. CASE ~CreateInstall(r) /\ ~DeleteAgent(r) /\ ~RemoveInstall(r)
      BY <1>2, <1>6, <2>3 DEF Step, CreateAndPublish, WriteVersion, WriteStatus, FindSnapshot,
                              InsertSnapshot, FindInstall, SaveAgent, IncrementCount, data
    <2> QED
      BY <2>1, <2>2, <2>3
  <1>7. ASSUME NEW r \in Requests, NEW l \in Listings, Begin(r, l) PROVE RowsAreSound'
    BY <1>2, <1>7 DEF Begin, Patch, Submit, Review, AutoPublish, Reads, Install, Uninstall, data
  <1>8. CASE CreateListing \/ Edit \/ Restart \/ UNCHANGED vars
    BY <1>2, <1>8 DEF CreateListing, Edit, Restart, vars, data
  <1>9. ASSUME NEW r \in Requests, DeleteInstalled(r) PROVE RowsAreSound'
    BY <1>3, <1>9 DEF DeleteInstalled
  <1> QED
    BY <1>6, <1>7, <1>8, <1>9 DEF Next
-----------------------------------------------------------------------------
Installed(a) == \E p \in Places : install[p] # None /\ install[p].agent = a

CutOff(a) == request[a].at \in {"linking", "threw", "lost"}

Unseated(a) == \E r \in Requests : request[r].at = "answered" /\ request[r].agent \notin {None, a}

(* Only an uninstall takes a row from an agent that stays, and it had read *)
(* another.                                                                *)
LEMMA InstalledStep ==
    ASSUME Inv, [Next]_vars, NEW a \in agents, a \in agents', Installed(a)
    PROVE  Installed(a)' \/ Unseated(a)'
  <1>1. TypeOK' /\ Keeps /\ TypeOK
    BY TypeStep, KeepsStep DEF Inv
  <1>2. PICK p \in Places : install[p] # None /\ install[p].agent = a
    BY DEF Installed
  <1>3. CASE install'[p] = install[p]
    BY <1>2, <1>3 DEF Installed
  <1>4. ASSUME NEW b, Delete(b) PROVE install'[p] = install[p]
    <2>1. b # a
      BY <1>4 DEF Delete
    <2> QED
      BY <1>2, <1>4, <2>1, WithoutFacts
  <1>5. ASSUME NEW r \in Requests, CreateInstall(r) PROVE install'[p] = install[p]
    BY <1>1, <1>2, <1>5 DEF CreateInstall, TypeOK
  <1>6. ASSUME NEW r \in Requests, RemoveInstall(r), install'[p] # install[p]
        PROVE  Unseated(a)'
    <2>1. Place(r) = p
      BY <1>1, <1>6 DEF RemoveInstall, TypeOK
    <2>2. Leave(r, "answered") /\ request[r].at = "removing"
      BY <1>2, <1>6, <2>1 DEF RemoveInstall, At
    <2>3. request[r].agent # None /\ request[r].agent # a
      BY <2>2 DEF Inv, Sound, Removing
    <2> QED
      BY <1>1, <2>2, <2>3, LeaveFacts DEF Unseated, Over
  <1>7. ASSUME NEW r \in Requests, Step(r) PROVE install'[p] = install[p] \/ Unseated(a)'
    BY <1>4, <1>5, <1>6, <1>7
    DEF Step, CreateAndPublish, WriteVersion, WriteStatus, FindSnapshot, InsertSnapshot,
        FindInstall, SaveAgent, IncrementCount, DeleteAgent, data
  <1>8. ASSUME NEW r \in Requests, NEW l \in Listings, Begin(r, l) PROVE install'[p] = install[p]
    BY <1>8 DEF Begin, Patch, Submit, Review, AutoPublish, Reads, Install, Uninstall, data
  <1>9. CASE CreateListing \/ Edit \/ Restart \/ UNCHANGED vars \/ \E r \in Requests : DeleteInstalled(r)
    BY <1>3, <1>4, <1>9 DEF CreateListing, Edit, Restart, DeleteInstalled, vars, data
  <1> QED
    BY <1>3, <1>7, <1>8, <1>9 DEF Next

(* An agent that waits for its row gets it, or its request is cut off.     *)
LEMMA CutOffStep ==
    ASSUME Inv, [Next]_vars, NEW a \in agents, CutOff(a)
    PROVE  Installed(a)' \/ CutOff(a)'
  <1>1. TypeOK' /\ Keeps /\ TypeOK /\ a \in Requests
    BY TypeStep, KeepsStep DEF Inv, TypeOK
  <1>2. CASE request[a].at \in {"threw", "lost"}
    BY <1>1, <1>2 DEF Keeps, CutOff, Over
  <1> SUFFICES ASSUME request[a].at = "linking" PROVE Installed(a)' \/ CutOff(a)'
    BY <1>2 DEF CutOff
  <1>3. CASE CreateInstall(a)
    <2>1. CASE install[Place(a)] = None
      <3> DEFINE row == [agent |-> a, version |-> request[a].version]
      <3>1. install' = [install EXCEPT ![Place(a)] = row] /\ row \in Rows /\ row.agent = a
        BY <1>1, <1>3, <2>1, LinkFacts
      <3>2. Place(a) \in Places
        BY <1>1, PlaceType DEF Installing
      <3>3. row # None
        BY <3>1, NoRowAssumption DEF Rows
      <3> HIDE DEF row
      <3>4. install'[Place(a)] = row
        BY <1>1, <3>1, <3>2 DEF TypeOK
      <3> QED
        BY <3>1, <3>2, <3>3, <3>4 DEF Installed
    <2>2. CASE install[Place(a)] # None
      BY <1>1, <1>3, <2>2, LeaveFacts DEF CreateInstall, CutOff, Over
    <2> QED
      BY <2>1, <2>2
  <1>4. CASE request'[a] = request[a]
    BY <1>4 DEF CutOff
  <1>5. ASSUME NEW r \in Requests, Step(r), ~(r = a /\ CreateInstall(r))
        PROVE  request'[a] = request[a]
    <2>1. r # a
      BY <1>5 DEF Step, CreateAndPublish, WriteVersion, WriteStatus, FindSnapshot, InsertSnapshot,
                  FindInstall, SaveAgent, CreateInstall, IncrementCount, DeleteAgent,
                  RemoveInstall, At
    <2>2. CASE CreateAndPublish(r)
      BY <1>1, <2>1, <2>2, CreatedFacts
    <2>3. CASE CreateInstall(r)
      BY <1>1, <2>1, <2>3, LinkFacts, LeaveFacts DEF CreateInstall, Over
    <2>4. CASE ~CreateAndPublish(r) /\ ~CreateInstall(r)
      BY <1>1, <1>5, <2>1, <2>4
      DEF Step, WriteVersion, WriteStatus, FindSnapshot, InsertSnapshot, FindInstall, SaveAgent,
          IncrementCount, DeleteAgent, RemoveInstall, Leave, Goto, Holding, TypeOK
    <2> QED
      BY <2>2, <2>3, <2>4
  <1>6. ASSUME NEW r \in Requests, NEW l \in Listings, Begin(r, l) PROVE request'[a] = request[a]
    BY <1>1, <1>6 DEF Begin, Patch, Submit, Review, AutoPublish, Reads, Install, Uninstall, At, TypeOK
  <1>7. CASE Restart
    BY <1>1, <1>7, RestartFacts DEF CutOff
  <1>8. CASE CreateListing \/ Edit \/ UNCHANGED vars \/ \E r \in Requests : DeleteInstalled(r)
    BY <1>4, <1>8 DEF CreateListing, Edit, DeleteInstalled, vars
  <1> QED
    BY <1>3, <1>4, <1>5, <1>6, <1>7, <1>8 DEF Next

LEMMA OrphansStep == Inv /\ [Next]_vars => OrphansAreExplained'
  <1> SUFFICES ASSUME Inv, [Next]_vars, NEW a \in agents'
               PROVE  Installed(a)' \/ CutOff(a)' \/ Unseated(a)'
    BY DEF OrphansAreExplained, Installed, CutOff, Unseated
  <1>1. TypeOK' /\ Keeps /\ TypeOK
    BY TypeStep, KeepsStep DEF Inv
  <1>2. CASE a \in agents
    <2>1. Installed(a) \/ CutOff(a) \/ Unseated(a)
      BY <1>2 DEF Inv, OrphansAreExplained, Installed, CutOff, Unseated
    <2>2. CASE Unseated(a)
      BY <1>1, <2>2 DEF Unseated, Keeps, Over
    <2> QED
      BY <1>2, <2>1, <2>2, InstalledStep, CutOffStep
  <1>3. CASE a \notin agents
    <2>1. PICK r \in Requests : SaveAgent(r) /\ r = a
      <3>1. ASSUME NEW r \in Requests, Step(r), ~SaveAgent(r) PROVE agents' \subseteq agents
        BY <3>1 DEF Step, CreateAndPublish, WriteVersion, WriteStatus, FindSnapshot, InsertSnapshot,
                    FindInstall, CreateInstall, IncrementCount, DeleteAgent, Delete,
                    RemoveInstall, data
      <3>2. ASSUME NEW r \in Requests, NEW l \in Listings, Begin(r, l) PROVE agents' \subseteq agents
        BY <3>2 DEF Begin, Patch, Submit, Review, AutoPublish, Reads, Install, Uninstall, data
      <3>3. CASE CreateListing \/ Edit \/ Restart \/ UNCHANGED vars \/ \E r \in Requests : DeleteInstalled(r)
        BY <1>3, <3>3 DEF CreateListing, Edit, Restart, DeleteInstalled, Delete, vars, data
      <3>4. \E r \in Requests : SaveAgent(r)
        BY <1>3, <3>1, <3>2, <3>3 DEF Next
      <3> QED
        BY <1>3, <3>4 DEF SaveAgent
    <2> QED
      BY <1>1, <2>1, GotoFacts DEF SaveAgent, CutOff, Working, Installing, TypeOK, Handlers
  <1> QED
    BY <1>2, <1>3
-----------------------------------------------------------------------------
(* Who counts towards a listing counts for good.                           *)
LEMMA CountedGrows ==
    ASSUME Inv, [Next]_vars, NEW l \in Listings
    PROVE  /\ IsFiniteSet(Counted(l)) /\ IsFiniteSet(Counted(l)')
           /\ Counted(l) \subseteq Counted(l)'
           /\ Cardinality(Counted(l)) \in Nat /\ Cardinality(Counted(l)') \in Nat
           /\ Cardinality(Counted(l)) <= Cardinality(Counted(l)')
  <1>1. Keeps
    BY KeepsStep
  <1>2. Counted(l) \subseteq Requests /\ Counted(l)' \subseteq Requests
    BY DEF Counted
  <1>3. IsFiniteSet(Counted(l)) /\ IsFiniteSet(Counted(l)')
    BY <1>2, RequestsAssumption, FS_Subset
  <1>4. l # None
    BY NoneAssumption DEF Listings
  <1>5. Counted(l) \subseteq Counted(l)'
    <2> SUFFICES ASSUME NEW r \in Counted(l) PROVE r \in Counted(l)'
      OBVIOUS
    <2>1. r \in Requests /\ request[r].linked = l /\ request[r].at # "counting"
      BY DEF Counted
    <2>2. request[r].at \in Over
      BY <1>4, <2>1 DEF Inv, Sound, Made
    <2>3. request'[r] = request[r]
      BY <1>1, <2>1, <2>2 DEF Keeps
    <2> QED
      BY <2>1, <2>3 DEF Counted
  <1> QED
    BY <1>3, <1>5, FS_Subset, FS_CardinalityType

LEMMA CountStep == Inv /\ [Next]_vars => CountIsBacked'
  <1> SUFFICES ASSUME Inv, [Next]_vars, NEW l \in Listings
               PROVE  listing'[l].count <= Cardinality(Counted(l)')
    BY DEF CountIsBacked, Counted
  <1>1. TypeOK' /\ TypeOK
    BY TypeStep DEF Inv
  <1>2. listing[l] \in Listing /\ listing'[l] \in Listing
    BY <1>1 DEF TypeOK
  <1>3. /\ listing[l].count \in Nat /\ listing'[l].count \in Nat
        /\ listing[l].count <= Cardinality(Counted(l))
    BY <1>2 DEF Inv, CountIsBacked, Listing
  <1>4. CASE listing'[l].count = listing[l].count
    BY <1>3, <1>4, CountedGrows
  <1>5. ASSUME NEW r \in Requests, IncrementCount(r), request[r].listing = l
        PROVE  listing'[l].count <= Cardinality(Counted(l)')
    <2>1. request[r].at = "counting" /\ request[r].linked = l
      BY <1>5 DEF IncrementCount, At, Inv, Sound
    <2>2. request'[r].at = "answered" /\ request'[r].linked = l
      BY <1>1, <1>5, <2>1, LeaveFacts DEF IncrementCount, Over
    <2>3. r \notin Counted(l) /\ r \in Counted(l)'
      BY <2>1, <2>2 DEF Counted
    <2>4. Cardinality(Counted(l) \cup {r}) = Cardinality(Counted(l)) + 1
      BY <2>3, CountedGrows, FS_AddElement
    <2>5. Cardinality(Counted(l) \cup {r}) <= Cardinality(Counted(l)')
      BY <2>3, CountedGrows, FS_Subset
    <2>6. listing'[l].count = listing[l].count + 1
      <3>1. listing' = [listing EXCEPT ![l] = [listing[l] EXCEPT !.count = @ + 1]]
        BY <1>1, <1>5 DEF IncrementCount, TypeOK
      <3>2. [listing[l] EXCEPT !.count = @ + 1].count = listing[l].count + 1
        BY <1>2 DEF Listing
      <3> HIDE DEF Counted
      <3> QED
        BY <1>1, <3>1, <3>2 DEF TypeOK
    <2> QED
      BY <1>3, <2>4, <2>5, <2>6, CountedGrows
  <1>6. ASSUME NEW k \in Listings, NEW v \in Versions, NEW s \in Statuses,
               \/ listing' = [listing EXCEPT ![k].status = s, ![k].version = v]
               \/ listing' = [listing EXCEPT ![k].status = s]
               \/ listing' = [listing EXCEPT ![k].version = v]
        PROVE  listing'[l].count = listing[l].count
    BY <1>1, <1>2, <1>6 DEF TypeOK, Listing
  <1>7. ASSUME NEW r \in Requests, Step(r) PROVE listing'[l].count <= Cardinality(Counted(l)')
    <2>1. CASE CreateAndPublish(r)
      BY <1>4, <1>6, <2>1, VersionsAssumption DEF CreateAndPublish, Statuses
    <2>2. CASE WriteVersion(r) \/ WriteStatus(r) \/ IncrementCount(r)
      <3>1. request[r].listing \in Listings /\ (request[r].at = "writing" => request[r].target \in Statuses)
        BY <2>2 DEF Inv, Sound, WriteVersion, WriteStatus, IncrementCount, At, Working, Publishing,
                    Installing, TypeOK, Handlers
      <3>2. CASE WriteVersion(r)
        <4>1. PICK v \in Versions : listing' = [listing EXCEPT ![request[r].listing].version = v]
          BY <3>2 DEF WriteVersion
        <4> QED
          BY <1>1, <1>2, <1>4, <3>1, <4>1 DEF TypeOK, Listing
      <3>3. CASE WriteStatus(r)
        <4>1. listing' = [listing EXCEPT ![request[r].listing].status = request[r].target]
          BY <3>3 DEF WriteStatus
        <4> QED
          BY <1>1, <1>2, <1>4, <3>1, <4>1 DEF TypeOK, Listing
      <3>4. CASE IncrementCount(r) /\ request[r].listing # l
        BY <1>1, <1>4, <3>4 DEF IncrementCount, TypeOK
      <3> QED
        BY <1>5, <2>2, <3>2, <3>3, <3>4
    <2>3. CASE ~(CreateAndPublish(r) \/ WriteVersion(r) \/ WriteStatus(r) \/ IncrementCount(r))
      BY <1>4, <1>7, <2>3 DEF Step, FindSnapshot, InsertSnapshot, FindInstall, SaveAgent,
                              CreateInstall, DeleteAgent, RemoveInstall
    <2> QED
      BY <2>1, <2>2, <2>3
  <1>8. ASSUME NEW r \in Requests, NEW k \in Listings, Begin(r, k)
        PROVE  listing'[l].count <= Cardinality(Counted(l)')
    BY <1>4, <1>8 DEF Begin, Patch, Submit, Review, AutoPublish, Reads, Install, Uninstall
  <1>9. CASE CreateListing
    BY <1>4, <1>6, <1>9 DEF CreateListing, Statuses
  <1>10. CASE Edit \/ Restart \/ UNCHANGED vars \/ \E r \in Requests : DeleteInstalled(r)
    BY <1>4, <1>10 DEF Edit, Restart, DeleteInstalled, vars
  <1> QED
    BY <1>7, <1>8, <1>9, <1>10 DEF Next
-----------------------------------------------------------------------------
LEMMA InitInv == Init => Inv
  <1> SUFFICES ASSUME Init PROVE Inv
    OBVIOUS
  <1>1. TypeOK
    BY BoundsAssumption, VersionsAssumption
    DEF Init, TypeOK, Configs, Listing, Statuses, Handlers, Idle
  <1>2. \A r \in Requests : Sound(r)
    BY DEF Init, Sound, Idle, Working, Publishing, Installing, Removing, Made, Over
  <1>3. RowsAreSound /\ OrphansAreExplained
    BY DEF Init, RowsAreSound, OrphansAreExplained
  <1>4. ASSUME NEW l \in Listings PROVE listing[l].count <= Cardinality(Counted(l))
    <2>1. Counted(l) = {}
      BY NoneAssumption DEF Init, Counted, Idle, Listings
    <2> QED
      BY <2>1, FS_EmptySet DEF Init
  <1> QED
    BY <1>1, <1>2, <1>3, <1>4 DEF Inv, CountIsBacked

THEOREM Invariance == Spec => []Inv
  <1>1. Inv /\ [Next]_vars => Inv'
    BY TypeStep, SoundStep, RowsStep, OrphansStep, CountStep DEF Inv
  <1> QED
    BY <1>1, InitInv, PTL DEF Spec

(* Every variable keeps its type.                                          *)
THEOREM TypeCorrect == Spec => []TypeOK
  <1>1. Inv => TypeOK
    BY DEF Inv
  <1> QED
    BY <1>1, Invariance, PTL

(* A customer's copy is the configuration frozen as its version, whoever   *)
(* froze it and whatever was edited since.                                 *)
THEOREM InstallIsItsVersionAlways == Spec => []InstallIsItsVersion
  <1>1. Inv => InstallIsItsVersion
    BY DEF Inv, RowsAreSound, InstallIsItsVersion
  <1> QED
    BY <1>1, Invariance, PTL

(* An installed agent no install points at was left by a request that was  *)
(* cut off, or by an uninstall that had read another row.                  *)
THEOREM OrphansAreExplainedAlways == Spec => []OrphansAreExplained
  <1>1. Inv => OrphansAreExplained
    BY DEF Inv
  <1> QED
    BY <1>1, Invariance, PTL

(* The count of a listing is never above the installs made of it.          *)
THEOREM CountsRealInstallsAlways == Spec => []CountsRealInstalls
  <1>1. Inv => CountsRealInstalls
    <2> SUFFICES ASSUME Inv, NEW l \in Listings
                 PROVE  listing[l].count <= Cardinality({r \in Requests : request[r].linked = l})
      BY DEF CountsRealInstalls
    <2> DEFINE All == {r \in Requests : request[r].linked = l}
    <2>1. Counted(l) \subseteq All /\ IsFiniteSet(All)
      BY RequestsAssumption, FS_Subset DEF Counted
    <2> HIDE DEF All
    <2>2. /\ Cardinality(Counted(l)) <= Cardinality(All)
          /\ Cardinality(Counted(l)) \in Nat /\ Cardinality(All) \in Nat
      BY <2>1, FS_Subset, FS_CardinalityType
    <2>3. listing[l].count \in Nat /\ listing[l].count <= Cardinality(Counted(l))
      BY DEF Inv, TypeOK, Listing, CountIsBacked
    <2> QED
      BY <2>2, <2>3 DEF All
  <1> QED
    BY <1>1, Invariance, PTL
=============================================================================
