----------------------------- MODULE Marketplace -----------------------------
(***************************************************************************)
(* One agent on the marketplace: its listings, the frozen versions that    *)
(* customers get copies of, and the installs (ruh-backend/src/             *)
(* marketplaceRoutes.ts and its stores).                                   *)
(*                                                                         *)
(* Every request reads what it decides by, waits, and writes: PATCH,       *)
(* submit, review and auto-publish a listing's version and status; install *)
(* the snapshot of a version, a new agent, a row and a count; uninstall    *)
(* the deletions of the agent and of the row.  A store call is one         *)
(* transaction, and one step.  Only the database's UNIQUE and CASCADE      *)
(* clauses stand between two requests.                                     *)
(*                                                                         *)
(* A configuration is a number that grows with each edit of the agent; who *)
(* may do what, texts, ratings and the sandboxes of an installed agent     *)
(* (ForgeProvision) are left out.                                          *)
(***************************************************************************)
EXTENDS Naturals, FiniteSets

CONSTANTS MaxListings,      \* bound on the listings of the agent
          MaxEdits,         \* bound on the edits of its configuration
          Versions, DefaultVersion,
          Users,            \* a customer in his organisation
          Requests,
          None

ASSUME BoundsAssumption == MaxListings \in Nat /\ MaxEdits \in Nat
ASSUME VersionsAssumption == DefaultVersion \in Versions
ASSUME RequestsAssumption == IsFiniteSet(Requests)
ASSUME NoneAssumption == None \notin Requests \cup Users \cup Nat
ASSUME NoRowAssumption == None \notin [agent : Requests, version : Versions]

VARIABLES
    config,     \* the agent's configuration
    listing,    \* marketplace_listings, in the order they were created
    snapshot,   \* agent_versions: the configuration of each version
    agents,     \* installed agents, each named by the request that made it
    seed,       \* what an installed agent was built from
    install,    \* marketplace_runtime_installs
    request

vars == <<config, listing, snapshot, agents, seed, install, request>>

Listings == 1..MaxListings

Configs == 0..MaxEdits

Statuses == {"none", "draft", "pending_review", "published", "rejected"}

Listing == [status : Statuses, version : Versions, count : Nat]

Places == Listings \X Users

Rows == [agent : Requests, version : Versions]

(* Where a request is: the snapshot's steps are shared by everything that  *)
(* publishes or installs.                                                  *)
Publishing == {"creating", "patching", "writing"}
Installing == {"checking", "seeding", "linking", "counting"}
Removing == {"deleting", "removing"}
Working == Publishing \cup Installing \cup Removing \cup {"finding", "inserting"}
Over == {"answered", "missing", "threw", "lost"}

(* target: the status to write, "install" for what installs.  linked: the  *)
(* listing it made a row for (history).                                    *)
Handlers == [at : {"idle"} \cup Working \cup Over, listing : Listings \cup {None},
             user : Users \cup {None}, version : Versions,
             target : Statuses \cup {"install"}, copy : Configs \cup {None},
             agent : Requests \cup {None}, linked : Listings \cup {None}]

Idle == [at |-> "idle", listing |-> None, user |-> None, version |-> DefaultVersion,
         target |-> "none", copy |-> None, agent |-> None, linked |-> None]

Init ==
    /\ config = 0
    /\ listing = [l \in Listings |-> [status |-> "none", version |-> DefaultVersion, count |-> 0]]
    /\ snapshot = [v \in Versions |-> None]
    /\ agents = {}
    /\ seed = [r \in Requests |-> None]
    /\ install = [p \in Places |-> None]
    /\ request = [r \in Requests |-> Idle]

-----------------------------------------------------------------------------
At(r, where) == request[r].at = where

Goto(r, where) == request' = [request EXCEPT ![r].at = where]

(* What is left of a request that is over.                                 *)
Left(r, how) == [Idle EXCEPT !.at = how, !.agent = request[r].agent,
                             !.linked = request[r].linked]

Leave(r, how) == request' = [request EXCEPT ![r] = Left(r, how)]

Created == {l \in Listings : listing[l].status # "none"}

(* The new listing gets the next number.                                   *)
IsNew(l) == l \notin Created /\ \A k \in 1..(l - 1) : k \in Created

(* getListingByAgentId: the one created last.                              *)
IsLatest(l) == l \in Created /\ \A k \in Created : k <= l

data == <<config, snapshot, agents, seed, install>>

CreateListing ==
    /\ \E l \in Listings, v \in Versions :
           /\ IsNew(l)
           /\ listing' = [listing EXCEPT ![l].status = "draft", ![l].version = v]
    /\ UNCHANGED <<request, data>>

(***************************************************************************)
(* The requests about a listing.                                           *)
(***************************************************************************)
(* What a request goes on with after reading the listing.                  *)
Reads(r, l, where, target) ==
    /\ At(r, "idle")
    /\ request' = [request EXCEPT ![r] = [Idle EXCEPT !.at = where, !.listing = l,
                                              !.version = listing[l].version,
                                              !.target = target]]
    /\ UNCHANGED <<listing, data>>

Has(l, statuses) == listing[l].status \in statuses

Patch(r, l) ==
    /\ Has(l, {"draft", "pending_review", "rejected"})
    /\ Reads(r, l, "patching", "none")

Submit(r, l) ==
    /\ Has(l, {"draft", "rejected"})
    /\ Reads(r, l, "writing", "pending_review")

Review(r, l) ==
    /\ Has(l, {"pending_review"})
    /\ \/ Reads(r, l, "finding", "published")
       \/ Reads(r, l, "writing", "rejected")

(* auto-publish: a published listing is the answer, one under review is    *)
(* passed over for a new one.                                              *)
AutoPublish(r, l) ==
    \/ IsLatest(l) /\ Has(l, {"draft", "rejected"}) /\ Reads(r, l, "finding", "published")
    \/ IsLatest(l) /\ Has(l, {"pending_review"}) /\ Reads(r, l, "creating", "published")
    \/ Created = {} /\ IsNew(l) /\ Reads(r, l, "creating", "published")

CreateAndPublish(r) ==
    /\ At(r, "creating")
    /\ \E l \in Listings :
           /\ IsNew(l)
           /\ listing' = [listing EXCEPT ![l].status = "draft", ![l].version = DefaultVersion]
           /\ request' = [request EXCEPT ![r].at = "finding", ![r].listing = l,
                                         ![r].version = DefaultVersion]
    /\ UNCHANGED data

WriteVersion(r) ==
    /\ At(r, "patching")
    /\ \E v \in Versions : listing' = [listing EXCEPT ![request[r].listing].version = v]
    /\ Leave(r, "answered")
    /\ UNCHANGED data

(* updateListingStatus: whatever the status has become meanwhile.          *)
WriteStatus(r) ==
    /\ At(r, "writing")
    /\ listing' = [listing EXCEPT ![request[r].listing].status = request[r].target]
    /\ Leave(r, "answered")
    /\ UNCHANGED data

(***************************************************************************)
(* ensurePublishedListingSnapshot, of the version the request has read.    *)
(***************************************************************************)
Holding(r, copy, next) == request' = [request EXCEPT ![r].at = next, ![r].copy = copy]

AfterSnapshot(r) == IF request[r].target = "install" THEN "seeding" ELSE "writing"

(* The version, or else the agent as it is now: nothing tells the two      *)
(* reads' moments apart.                                                   *)
FindSnapshot(r) ==
    /\ At(r, "finding")
    /\ LET found == snapshot[request[r].version]
       IN IF found # None THEN Holding(r, found, AfterSnapshot(r))
                          ELSE Holding(r, config, "inserting")
    /\ UNCHANGED <<listing, data>>

(* Faulty variant: a version that is there is overwritten.                 *)
InsertSnapshotOver(r) ==
    /\ At(r, "inserting")
    /\ snapshot' = [snapshot EXCEPT ![request[r].version] = request[r].copy]
    /\ Goto(r, AfterSnapshot(r))
    /\ UNCHANGED <<config, listing, agents, seed, install>>

(* UNIQUE (agent_id, version): the second insert throws.                   *)
InsertSnapshot(r) ==
    /\ At(r, "inserting")
    /\ IF snapshot[request[r].version] = None
       THEN /\ snapshot' = [snapshot EXCEPT ![request[r].version] = request[r].copy]
            /\ Goto(r, AfterSnapshot(r))
       ELSE /\ Leave(r, "threw")
            /\ UNCHANGED snapshot
    /\ UNCHANGED <<config, listing, agents, seed, install>>

(***************************************************************************)
(* Install.                                                                *)
(***************************************************************************)
Place(r) == <<request[r].listing, request[r].user>>

Install(r, l, u) ==
    /\ At(r, "idle")
    /\ Has(l, {"published"})
    /\ request' = [request EXCEPT ![r] = [Idle EXCEPT !.at = "checking", !.listing = l,
                                              !.user = u, !.version = listing[l].version,
                                              !.target = "install"]]
    /\ UNCHANGED <<listing, data>>

(* Faulty variant: the count goes first.                                   *)
FindInstallCounting(r) ==
    /\ At(r, "checking")
    /\ IF install[Place(r)] # None
       THEN Leave(r, "answered") /\ UNCHANGED listing
       ELSE /\ Goto(r, "finding")
            /\ listing' = [listing EXCEPT ![request[r].listing].count = @ + 1]
    /\ UNCHANGED data

FindInstall(r) ==
    /\ At(r, "checking")
    /\ IF install[Place(r)] # None THEN Leave(r, "answered") ELSE Goto(r, "finding")
    /\ UNCHANGED <<listing, data>>

SaveAgent(r) ==
    /\ At(r, "seeding")
    /\ agents' = agents \cup {r}
    /\ seed' = [seed EXCEPT ![r] = request[r].copy]
    /\ Goto(r, "linking")
    /\ UNCHANGED <<config, listing, snapshot, install>>

(* UNIQUE (listing_id, org_id, user_id); and the agent may be deleted      *)
(* already, which the foreign key minds.                                   *)
CreateInstall(r) ==
    /\ At(r, "linking")
    /\ IF install[Place(r)] = None /\ r \in agents
       THEN /\ install' = [install EXCEPT ![Place(r)] =
                              [agent |-> r, version |-> request[r].version]]
            /\ request' = [request EXCEPT ![r].at = "counting", ![r].linked = request[r].listing]
       ELSE /\ Leave(r, "threw")
            /\ UNCHANGED install
    /\ UNCHANGED <<config, listing, snapshot, agents, seed>>

IncrementCount(r) ==
    /\ At(r, "counting")
    /\ listing' = [listing EXCEPT ![request[r].listing].count = @ + 1]
    /\ Leave(r, "answered")
    /\ UNCHANGED data

(***************************************************************************)
(* Uninstall, and the customer's DELETE of the agent.                      *)
(***************************************************************************)
Uninstall(r, l, u) ==
    /\ At(r, "idle")
    /\ install[<<l, u>>] # None
    /\ request' = [request EXCEPT ![r] = [Idle EXCEPT !.at = "deleting", !.listing = l,
                                              !.user = u, !.agent = install[<<l, u>>].agent]]
    /\ UNCHANGED <<listing, data>>

(* Rows of the agent go with it: ON DELETE CASCADE.                        *)
Without(a) == [p \in Places |-> IF install[p] # None /\ install[p].agent = a THEN None
                                ELSE install[p]]

Delete(a) ==
    /\ agents' = agents \ {a}
    /\ install' = Without(a)

(* Faulty variant: the agent is looked for in another organisation.        *)
DeleteAgentElsewhere(r) ==
    /\ At(r, "deleting")
    /\ Goto(r, "removing")
    /\ UNCHANGED <<listing, data>>

DeleteAgent(r) ==
    /\ At(r, "deleting")
    /\ Delete(request[r].agent)
    /\ Goto(r, "removing")
    /\ UNCHANGED <<config, listing, snapshot, seed>>

(* By listing and customer, not by the row that was read.                  *)
RemoveInstall(r) ==
    /\ At(r, "removing")
    /\ install' = [install EXCEPT ![Place(r)] = None]
    /\ Leave(r, IF install[Place(r)] # None THEN "answered" ELSE "missing")
    /\ UNCHANGED <<config, listing, snapshot, agents, seed>>

DeleteInstalled(a) ==
    /\ a \in agents
    /\ Delete(a)
    /\ UNCHANGED <<config, listing, snapshot, seed, request>>

(***************************************************************************)
(* The agent's owner, and the restart.                                     *)
(***************************************************************************)
Edit ==
    /\ config < MaxEdits
    /\ config' = config + 1
    /\ UNCHANGED <<listing, snapshot, agents, seed, install, request>>

Restart ==
    /\ \E r \in Requests : request[r].at \in Working
    /\ request' = [r \in Requests |->
                      IF request[r].at \in Working THEN Left(r, "lost") ELSE request[r]]
    /\ UNCHANGED <<listing, data>>

Begin(r, l) ==
    \/ Patch(r, l) \/ Submit(r, l) \/ Review(r, l) \/ AutoPublish(r, l)
    \/ \E u \in Users : Install(r, l, u) \/ Uninstall(r, l, u)

Step(r) ==
    \/ CreateAndPublish(r) \/ WriteVersion(r) \/ WriteStatus(r)
    \/ FindSnapshot(r) \/ InsertSnapshot(r)
    \/ FindInstall(r) \/ SaveAgent(r) \/ CreateInstall(r) \/ IncrementCount(r)
    \/ DeleteAgent(r) \/ RemoveInstall(r)

Next ==
    \/ \E r \in Requests : Step(r) \/ (\E l \in Listings : Begin(r, l)) \/ DeleteInstalled(r)
    \/ CreateListing \/ Edit \/ Restart

Spec == Init /\ [][Next]_vars

-----------------------------------------------------------------------------
TypeOK ==
    /\ config \in Configs
    /\ listing \in [Listings -> Listing]
    /\ snapshot \in [Versions -> Configs \cup {None}]
    /\ agents \in SUBSET Requests
    /\ seed \in [Requests -> Configs \cup {None}]
    /\ install \in [Places -> Rows \cup {None}]
    /\ request \in [Requests -> Handlers]

(* 016-marketplace.md:37, "frozen snapshots of agent config at each        *)
(* published version": what a customer has installed is the configuration  *)
(* its version stands for, however publishers, reviewers, edits and other  *)
(* installs raced to freeze it.                                            *)
InstallIsItsVersion ==
    \A p \in Places :
        install[p] # None => seed[install[p].agent] = snapshot[install[p].version]

(* An installed agent that no install points at, so that its customer can  *)
(* neither find nor remove it there, was left by a request that threw or   *)
(* was lost, or lost its row to an uninstall that had read another: never  *)
(* by an uninstall of its own.                                             *)
OrphansAreExplained ==
    \A a \in agents :
        \/ \E p \in Places : install[p] # None /\ install[p].agent = a
        \/ request[a].at \in {"linking", "threw", "lost"}
        \/ \E r \in Requests : request[r].at = "answered" /\ request[r].agent \notin {None, a}

(* A listing's install count, which nothing ever lowers, is not above the  *)
(* installs made: requests that lose a race or are cut off do not count.   *)
CountsRealInstalls ==
    \A l \in Listings :
        listing[l].count <=
            Cardinality({r \in Requests : request[r].linked = l})

(* 016-marketplace.md:52, DELETE install is to "remove the current user's  *)
(* installed runtime agent", and the panel takes any answer but a success  *)
(* for "Uninstall failed": the row went with the agent, and the handler    *)
(* then finds no row to remove.                                            *)
UninstallSucceeds ==
    \A r \in Requests : request[r].at = "missing" => request[r].agent \in agents
=============================================================================
