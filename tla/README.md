# A verification project for the agent life cycle of openclaw-ruh

The backend (`ruh-backend/src`) creates agents for its users: it provisions a sandbox
container, lets a generator write the agent into it with the help of LLM specialists,
sets its services up, judges the outcome, moves the agent through its stages, puts it on
a marketplace, and lets people and webhooks talk to it. This directory holds TLA+ models
of that life cycle, the TLC runs that check them and TLAPS proofs about them.
`PROJECT.json` maps every definition to the lines it stands for, lists the hazards of the
code and the properties that cover each, and gives for every property a mutant: a
plausible bug with which the property fails.

Line numbers below are of files in `src/ruh-backend/src/` unless another path is given.

## 1. Inventory

What the system consists of, with the state each part keeps, what it does, and what
makes it correct. Parts in **bold** are modelled.

| Part | State | Operations | Hard behaviour | What makes it correct |
|---|---|---|---|---|
| **Build pipeline** `agentBuild.ts` (`runAgentBuild`) | manifest in memory, progress counter, files of two workspaces in the container | scaffold, sync, specialists, merge, setup, verification, report | cancellation between awaits, hard timeouts that leave gateway sessions running, failing docker commands, rebuilds over old files | a done task has its files; a ship-ready report forgets nothing; cancelled builds start no work; every build ends, once |
| **Build report** `buildReport.ts` | none | `summarizeBuildReport` | four inputs collected along the way | the verdict blocks on every required failure and on nothing else |
| **Agent setup** `agentSetup.ts` | results of the steps | manifest, infrastructure, install, steps, services, summary | failures that must not hide later parts; two verdicts on one set of results | the two verdicts agree; every part is tried |
| **Build stream** `app.ts` 7480–7713, `streamRegistry.ts` | registry of entries (events, status), the `creation_session` of the agent row | POST build, GET stream, POST cancel, the background consumer | read-modify-write of the row by concurrent savers, replay racing with pushes, expiring entries, restart | watchers get every event once and are told the end; entry and row say what happened |
| **Skill iteration** `agentBuild.ts` 961–1101 | iteration, collected events, skill files | one LLM call per skill, commit after each | plan edited meanwhile, cancel between the plan read and the call | events in order; done means all skills are there; no call after the cancel |
| **Interject queue** `interjectQueue.ts` | queue per agent, in memory | push, peek, drain | several builds drain one queue; restart | no message lost or repeated |
| **Forge stages and guards** `app.ts` 3724–3952, 7745–7771, 2094–2203 | `forge_stage`, `creation_session`, report file | change stage, ship, record evaluations, completion check | guards await after the agent was read; whole-session write-backs; a report written by two parties | a late stage is reached only with its evidence; no session ahead of itself |
| **Sandbox creation, forge provisioning** `app.ts` 3371–3697, `sandboxManager.ts` | stream entries, containers, rows | create, time out, leave, promote, discard, delete | client disconnect, watchdog, half-made container, restart | no container nobody answers for; nobody hears of a sandbox without a row |
| **Create page** `agent-builder-ui`: `copilot-state.ts`, `CoPilotLayout.tsx`, `create-session-cache.ts`, `use-build-completion-reconciliation.ts`, `create/page.tsx` | Co-Pilot store, browser cache, session in the row | approve, follow, cancel, retry, stage changes, autosave, resume | answers that come late or are lost, two handlers at once, stale caches | the page shows no stage the backend did not confirm and no build that nobody follows |
| **Webhooks** `webhookDeliveryStore.ts`, `app.ts` 606–660, 4751–4862, 6930–6960 | delivery rows, trigger list of the agent row | deduplicate, deliver, record; edit and provision triggers | repeated or concurrent deliveries, failing stores, restart in between | each delivery runs at most once; its recorded outcome is true and stays |
| **Developer chat** `app.ts` 6700–7010, `ruh-frontend/components/ChatPanel.tsx` | the bridge of a request, its socket and timer, messages of a conversation | bridge frames to events, persist, answer | asynchronous frame handler racing timer, broken socket and departing client | what is shown as an answer is saved; tools end; the panel is answered |
| **Marketplace** `marketplaceRoutes.ts`, `marketplaceStore.ts`, `agentVersionStore.ts`, `agentStore.ts` | listings, frozen versions, installs, counts | create, patch, submit, review, auto-publish, install, uninstall | every request decides, waits and writes; only UNIQUE and CASCADE stand between two | an install is the version it names; no unexplained orphan; counts are backed |
| Sessions `authRoutes.ts`, `sessionStore.ts`, `accountLockoutStore.ts` | session rows, failure counters | log in, refresh, log out, lock out | two refreshes with one token; counters at their limit | one live token per session; a lockout holds for its time |
| Stuck session monitor `stuckSessionMonitor.ts` | timers | start, touch, stop | late touches | one warning per silence |
| Billing `billing/entitlementState.ts`, `billingStore.ts` | subscription rows | derive the entitlement | events out of order, grace boundaries | the derived state is the defined one |
| Runtime package `packages/openclaw-runtime` | hooks, checkpoints, memories | tool pipeline, retry, convergence, merges | nested hooks, retries, conflicts | to be surveyed |
| Git, channels, costs, audit, organisations, other UIs | rows | queries and thin handlers | client disconnects | see `PROJECT.json` |

How the modelled parts interact. `ForgeProvision` makes the container an agent is built
in. The page approves a prototype, has the stage confirmed (`StageGate`) and POSTs a build.
The POST endpoint creates a registry entry and starts a consumer, which pulls the
pipeline's generator event by event, appends each to the entry and saves outcomes on the
row; connections replay the entry and poll it. The cancel endpoint sets the entry's status
and aborts the signal the pipeline looks at. The pipeline runs the skill loop as one of its
specialists (which drains the interject queue that another endpoint fills), calls the
setup, and feeds its results and the tasks' statuses to the report, which the stage guards
read before they let the agent into review. A shipped agent is reached by webhooks and by
the chat, and is published to and installed from the marketplace.

## 2. Modules

| Module | Stands for | Uses |
|---|---|---|
| `BuildReport` | `summarizeBuildReport`, as operators | |
| `BuildGenerator` | abstract: what a build promises to whoever iterates over it | |
| `BuildPipeline` | `runAgentBuild`, `executeSpecialist`, `callSpecialist`, `executeChunkedSkills` | `BuildReport`; implements `BuildGenerator` |
| `BuildStream` | the three build endpoints, consumer, registry, row | assumes no more than `BuildGenerator` (`StreamObeysGenerator`) |
| `SkillIteration` | `executeIteratedSkills` and the interject queue | |
| `AgentSetup` | `runAgentSetup` | `BuildReport` |
| `StageGate` | stage changes, their guards, ship, completion check, beside a build | |
| `ForgeProvision` | `createOpenclawSandbox` and everything that makes, links or removes a forge sandbox | |
| `CoPilotPage` | the create page from the approved prototype to review | |
| `DeliveryLedger` | abstract: what the replay ledger is to give the webhooks | |
| `WebhookDelivery` | the delivery endpoint, its ledger, the agent's trigger list | implements `DeliveryLedger` |
| `ChatBridge` | POST `chat/ws` and the panel that reads it | |
| `Marketplace` | listings, frozen versions, installs of one agent | |
| `MC...` | instances for TLC | |
| `BuildPipelineProofs`, `BuildStreamProofs`, `StageGateProofs`, `ForgeProvisionProofs`, `WebhookDeliveryProofs`, `MarketplaceProofs` | theorems about the module of that name | |
| `BuildPhasesProofs` | theorems about `AgentSetup` and `SkillIteration` | |
| `BrowserProofs` | theorems about `CoPilotPage` and `ChatBridge` | |

**BuildPipeline.** `pc` names the place before an await. Each action does everything
from one await to the next, so that a cancel (`Cancel`, from the endpoint) can come
between any two. `checkCancelled` is `Checkpoint`/`Cancelled`: the throw ends the build
at the head of a phase, of a specialist, or of a loop's call; nothing looks at the signal
from the verification on. A docker command that fails shows no files (`Probed(FALSE)`), one
that cannot be spawned rejects (`Throws`). A specialist's call writes any subset of the
files it is asked for and returns, fails, or times out; after a timeout or a broken
connection the gateway session lives on (`remote`) and may write later (`LateWrite`). A
skills specialist makes one call per entry of `Calls`, whether chunks
(`executeChunkedSkills`) or skills (`executeIteratedSkills`); `SkillIteration` refines
the latter. Main and copilot workspaces map a file to who wrote it: nobody, the scaffold,
or a specialist. The setup is the outcome `ok` or `broken`; `AgentSetup` looks inside.

**BuildStream.** The generator only runs while the consumer asks for its next event, so
one action yields an event and does what the consumer does with it before its next await.
The saves (`persistBuildSession`, and the POST handler's own) are two steps each, read and
write, because the whole `creation_session` is read, awaited and written back; `seen`
holds what was read. A save may fail and is swallowed. `Connect`, `Poll`, `Disconnect` and
`Expire` are the GET endpoint with its ten-minute deletion timer; `Restart` is the loss of
all in-memory state.

**SkillIteration.** One value of `pc` per await of the loop. Announcing, draining and
placing the call is one step, since nothing is awaited between them. The loop's events go
to `buffer`, which the stream (`out`) gets only when the loop returns (`Flush`) and
never when it throws. The plan may be edited between the reads; `pushed` and `taken` are
history variables over the shared queue.

**AgentSetup.** One action per part, the outcome of its shell commands chosen freely; the
manifest is any of `Manifests`. Its specification is `SetupSpec` (and that of `ChatBridge`
is `ChatSpec`), so that one proof module can extend it with another. `ReportedSteps` and `ReportedServices` are what
`runAgentBuild` copies into the report's inputs.

**StageGate.** A PATCH is four steps, one per await: `ReadAgent`, `Guard` (which reads the
report in the container, or the evaluation results), `UpdateStage`, and `Sync`, which
writes back the session of the first step with the new stage in it. Against it run a build
(`StartBuild`, `WriteFiles`, `ReportBuild`, `BuildFails`) with its two-step saves
(`LoadSession`, `StoreSession`), the completion check, which looks for the files of one
specialist after the other (`CheckFiles`) and stores a favourable report of its own
(`EndCheck`), `Ship`, `RecordEval` and `Restart`.

**ForgeProvision.** A stream is followed through `handler[s].at`: the generator's steps up
to its `result`, then saving, linking, waiting for the device, finishing. `Work` is the
next step of any of these, with its failure; `Stall` lets the watchdog's time pass, which
the loop notices only at the next event. `Close` is the client that leaves and
`HookRemoves` the hook's delayed `docker rm`. `AskForge` and `ClearForge` are POST forge,
`ReadForPromotion`/`Promote` and `ReadForDiscard`/`DiscardSandbox`/`DiscardAgent` the
requests that work from a list they read earlier. `box` says who removed a container.

**CoPilotPage.** The store is what the properties ask about: current and farthest stage,
and the build's status. `Rendered` is what the effects do on any change: the autosave's
timer is cleared, and set again only for a new key, and the completion check is begun or
its pending answer dropped. Handlers are instances of `handlePrototypeApproved`, so that a
retry overlaps the handler of a cancelled build; `Follow(h)` is the next thing it hears,
or fails to hear, of the backend. `Open` resumes from the cache, else from the row.
`farthest` is a history variable: the farthest stage the backend committed.

**WebhookDelivery.** A request is one step per store call and one for the gateway; each
may throw. A rejected delivery runs the failure path in the `try`, and again in the
`catch` if that throws; the places `markRejected` … `persistFailed` tell the two apart.
`ledger` carries whether the row is past its retention; `calls` and `accepted` are
history. `SaveTriggers`, `ReadTriggers` and `Provision` are the requests that rewrite the
list which a delivery's end writes back whole. `DeliveryLedger` is the same without the
requests: per delivery a row, the calls made and whether the gateway agreed. The refinement
mapping is the ledger itself, a row past its retention counting as forgotten, because the
next request to reserve anything deletes it before it looks.

**ChatBridge.** The bridge's frames are its actions; what the frame of the run's end awaits
(`transcript`, `append`) are places of their own, during which `Timeout`, `SocketBreaks`,
`SocketCloses` and `Leave` find the request unresolved. The events it writes are
`stream[e]`, which the panel reads one at a time; `saved` is the database.

**Marketplace.** A request is one step per store call: what it read is in its record, and
the row it writes may have changed since. `FindSnapshot` and `InsertSnapshot` are the
two halves of `ensurePublishedListingSnapshot`, shared by publishing and installing. An
installed agent is named after the request that made it; `seed` is what it was built from.

## 3. Runs

| Run | Question | Bounds | Distinct states |
|---|---|---|---|
| `BuildPipeline` | do tasks, files, report, progress and cancellation hold together, does every build end, is it a `BuildGenerator`? | an identity, a skills loop of two calls and a backend whose file the scaffold also writes; first builds and all rebuilds | 102,684 |
| `BuildStream` | what is each connection sent and told, what do entry and row say, does the entry settle, does each generator keep its promise? | one build, one status event, one cancel, two connections | 150,849 |
| `SkillIteration` | files, order of events, cancellation and end of the loop, the queue | one build, two skills, two messages | 21,188 |
| `AgentSetup` | do setup and report agree, is anything dropped? | all manifests with at most two steps and two services of any kind | 221,214 |
| `StageGate` | what evidence has a late stage, what do stale write-backs do? | two requests for a free stage and one with each guard, one build of two specialists | 908,220 |
| `ForgeProvision` | which containers may be left over, what do agent and clients hear of? | two streams of one agent | 915,871 |
| `CoPilotPage` | does the page show only what is so, and does a spinner stop? | two builds, the page opened twice | 792,636 |
| `WebhookDelivery` | is a delivery made at most once, is its outcome true and final, is it a `DeliveryLedger`? | two requests with one delivery id, two triggers, four public ids | 80,855 |
| `ChatBridge` | is what is shown saved, do tools end, is the panel answered? | two exchanges, one piece of text and two tools each | 328,061 |
| `Marketplace` | are installs their versions, orphans explained, counts backed? | two listings, two versions, one edit, one customer, four requests of any kind | 340,467 |
| `BlockedIsNotDone` | violated: see below | one build, nobody watching | |
| `UninstallSucceeds` | violated: see below | as `Marketplace` | |

Why these are enough. The pipeline treats every specialist alike but for two
distinctions, single call or loop and scaffolded file or not; the plan has each kind, in
the order of the code, and the loop has a first and a last call. Connections influence
each other only through the deletion timer, so two suffice; a second cancel repeats
what the first did to an entry that is already terminal. Step and service results are
folded into a conjunction: two of each show one that hides another. A stale write-back needs
one party that reads early and one that writes in between, which two stage changes, or one
and a build, give. Of two forge streams one can be handed out while the other is at work;
a third would meet no state of the agent's row that the second does not. Two handlers are a
cancelled build and its retry, and two openings a resume from what the first left. A race
for a ledger row has a winner and a loser; the second trigger is the one whose edit a
write-back undoes, and four public ids let both be provisioned twice. Exchanges follow each
other, so two show one being saved while the next runs; a second tool is what ends a first.
Four marketplace requests are one that publishes, one that installs, one that uninstalls,
and one more of any of these.

What a bound leaves out is made up for where there are theorems: they hold for any number
of builds, streams, requests, listings and plans of any length. In particular the races of
two builds of an agent for its row (`SessionIsTruthful`) and for its interject queue
(`NothingLostOrRepeated`), which the runs above are too small for, are proved for any
number of builds.

`CHECK_DEADLOCK FALSE` is set where the modelled system may rest: all builds, loops,
streams, requests or exchanges over, the setup returned, the page closed for the last
time. `BuildPipeline` has an explicit `Terminated` step instead, and in `StageGate` the
operator can always ship or record an evaluation.

Fairness. `WF(Generator)` in `BuildPipeline`: every await has an end, since docker
commands, the LLM stream (hard and idle timeouts) and the setup carry timeouts and a
rejected promise is a step too. `WF(Consume)` and `WF(StarterSaves)` in `BuildStream`: the
background loop and the handler are never suspended other than by awaits that end.
`WF(Poll)`: the interval of a live connection fires until it is cleared. `WF(Loop)` in
`SkillIteration`, as for the generator. In `CoPilotPage` a build ends (`WF(EndBuild)`: that
is `BuildEnds`), and once it has, its handler hears the end or a broken connection
(`WF(Follow)`, only when the build does not run). In `ChatBridge` the three-minute timer
fires, what the end's handler awaits comes back, and the panel reads on (`WF` of `Timeout`,
`Await`, `Read`); the gateway owes nothing, not even an answer. Users, cancels, late writes,
clients, restarts and disconnections owe nothing anywhere. The other modules state no
liveness and no fairness.

What the properties say:

- Pipeline: `DoneHasFiles`, `ShipReadyMeansAllDone`, `ProgressCounts`, `NoWorkAfterCancel`,
  `EarlyCancelIsFinal`, `BuildEnds`, `KeepsPromise`. `EarlyCancelIsFinal` is the
  subtle one: a cancellation thrown inside the setup phase is swallowed by that phase's
  own `try`, and only the next checkpoint makes it final.
- Stream: `SentInOrder`, `ClosedKnowsOutcome`, `OneOutcome`, `EntryIsTruthful`,
  `SessionIsTruthful`, `WatchersAreTold`, `EntrySettles`, and `StreamObeysGenerator`, which
  ties the abstract generator of `BuildStream` to the promise the pipeline keeps.
- Skills and queue: `DoneHasSkills`, `IterationsInOrder`, `NoCallAfterCancel`, `LoopsEnd`,
  `NothingLostOrRepeated`. Setup: `VerdictsAgree`, `NothingDropped`.
- Stages: `ReviewHasFiles` says that the guard may trust the report although two parties
  write it and the request has waited since; `StageIsUnlocked` that whatever stale session
  is written back, it is consistent in itself.
- Forge: `NothingLeaks` lists the only ways in which a container is left that has neither
  row nor handler: the watchdog's break, a store that threw, a restart. A failed
  bootstrap and a client that left are not among them. `LinkedIsSaved`: agent and clients
  never hear of a sandbox without a row, unless an operator deleted it.
- Page: `AdvanceIsConfirmed`, `SpinnerHasHandler`, `SpinnerStops`: through caches, resumes,
  cancels, retries and late answers.
- Webhooks: `NeverInvokedTwice`, `DeliveredIsTrue`, `OutcomeIsFinal`, and `KeepsLedger`, which
  says the three again as the steps of one ledger row. `IdNamesOneTrigger`: although a
  delivery's end and a provisioning each write back a whole list they read earlier, a
  public id never comes to stand for two triggers.
- Chat: `ShownIsSaved`, `ToolsAreEnded`, `AlwaysAnswered`.
- Marketplace: `InstallIsItsVersion`, `OrphansAreExplained`, `CountsRealInstalls`.

The type invariants are stated as theorems only (`TypeCorrect`, `SetupTypeCorrect`,
`PageTypeCorrect`, `ChatTypeCorrect`), which hold of every instance the runs check.

### Disagreements

Two runs expect a violation: a statement of the repository that the code does not keep.

- `BlockedIsNotDone`: a blocked report is stored as failed (`app.ts:7592`) and overwritten
  with done by the `build_complete` that follows it.
- `UninstallSucceeds`: an uninstall that did its work is answered 404. The handler deletes
  the agent first, the row of the install goes with it (`ON DELETE CASCADE`), and the
  removal of the row then finds nothing; the UI reports a failed uninstall
  (`packages/marketplace-ui/src/hooks/useMarketplace.ts:65`).

Seen while modelling, without a run of their own:

- *Build.* Comments say that specialists extend the scaffold (`agentBuild.ts:1218`,
  `scaffoldTemplates.ts:2094`), but its placeholder files are exactly those the backend
  specialist is expected to write, so that one is skipped. The timer meant for reconnection
  (`app.ts:7691`) deletes the entry of a build that runs for more than ten minutes after a
  connection; the build can then neither be watched nor cancelled. A cancel accepted after
  the last checkpoint answers `cancelled: true`, and the build ends as done; the
  cancel endpoint gives an entry a terminal status while its generator still runs.
  Iterations are to be announced before their LLM call (`agentBuild.ts:958`); the events
  reach the stream when the loop is over, and a commit that fails is followed by
  `iteration_done`. Interjects outlive the build they were typed in
  (`interjectQueue.ts:14`). An optional setup step that fails is logged as "optional,
  continuing" (`agentSetup.ts:236`) but blocks the report. The write of the report copy that the
  stage guards read may fail unnoticed (`agentBuild.ts:608`).
- *Stages.* The session and `forge_stage` are said to stay aligned
  (`docs/knowledge-base/specs/SPEC-agent-creation-lifecycle.md:790`): two stage changes at
  once, or one and a build's save, leave the session at another stage than the row. The
  completion check is called read-only (`app.ts:2106`) and writes a report that opens the
  review.
- *Forge.* The close hook is to remove the container of a client that leaves
  (`app.ts:3470`); it does so only once the container's name was seen. A full discard
  (`app.ts:3955`) leaves the sandbox of a stream still at work, which is saved, and linked to
  nothing, after it.
- *Page.* The autosave is a "2s debounce" (`agents/create/page.tsx:974`), but a render
  within the two seconds that leaves the key as it was clears the timer and sets none: that
  save is lost, not put off.
- *Webhooks.* The end of a delivery writes back the whole trigger list it read up to two
  minutes earlier (`app.ts:641`), which undoes edits and provisioning in between. A timeout is
  recorded as failed, and never retried, though the gateway may have done the work. A
  restart leaves a row pending until its retention ends. A configuration saved without the
  secret's hash has a new public id provisioned, though the handle is to be stable
  (`docs/knowledge-base/specs/SPEC-agent-webhook-trigger-runtime.md:30`).
- *Chat.* The panel takes the line that ends a tool for one that starts one
  (`docs/knowledge-base/004-api-reference.md:1561`) and so counts tools twice.
- *Marketplace.* A status is written whatever it has become since it was read, so a
  published listing can go back to pending or rejected
  (`docs/knowledge-base/016-marketplace.md:21`); two auto-publishes at once create two
  listings, though the operation is called idempotent (`016-marketplace.md:67`); a PATCH that
  races a review leaves a published version without its snapshot, which the first install then
  makes of the agent as it is by then (`016-marketplace.md:37`); of two installs at once the
  loser leaves its agent behind; an uninstall removes the row by listing and customer, and so
  may remove the row of a reinstallation.

## 4. Proofs

All theorems hold for every value of the constants under the assumptions named in the
modules: plans without repeated tasks whose files are known files (`PlannedAssumption`,
`FilesAssumption`), natural bounds, owned skills without repetition, typed manifests,
finitely many marketplace requests, and a `None` that is none of the values it stands
beside.

- `BuildPipelineProofs`. `Placed` adds to the types where `pc` allows what: which task
  may be running, where `idx` stands, that the setup has an outcome from the verification
  on. It is inductive; `TypeOK` alone is not, because the index of the current specialist
  stays in range only thanks to the place. `DoneHasFiles` needs that files only appear
  (`Present` grows), `ShipReadyMeansAllDone` that the report was computed from statuses
  nobody changes afterwards. `Ledger` (which tasks are pending, running and ended at each
  place) gives `KeepsPromise`: every step is classified (`StepKinds`) and mapped to a step
  of `BuildGenerator` or a stutter, and `NoWorkAfterCancel`. It gives `ProgressCounts` too:
  a task ends only from running, so each end adds one element to the finite set of ended
  tasks (`OneMoreEnded`), which the counter follows at once or at the specialist's end.
  `EarlyCancelIsFinal` follows from `Doomed`, which no step leaves.
- `BuildStreamProofs`. `Watched` ties cursor and `sent` to the events, which only grow;
  `Outcomes` says that a terminal status was posted with its event (`StatusPosted`) and
  that an uncancelled stream has no terminal event before its generator's end
  (`NothingEarly`); `OneOutcome`, `EntryIsTruthful` and `ClosedKnowsOutcome` are its
  corollaries. For the row, `SaversKnow` bounds what each saver has read and is about
  to write by what `BorneOut` allows, so that any interleaving of write-backs stays true.
  It also says which reports a generator may still make, and so gives the refinement:
  `GeneratorKeepsPromise` for one stream and `StreamObeysGenerator` for all at once, a step of
  one generator being a stutter of every other. With `KeepsPromise` of the pipeline this
  closes the composition: what `BuildStream` consumes is what the pipeline produces.
- `BuildPhasesProofs`, about the setup and the skill loop. `Tape` orders the loop's buffer
  before it reaches the stream, relative to the place in the loop; the queue's theorem is an
  induction over pushes and drains. `Shapes` says that no step's result is marked
  optional and only setup steps are skipped: under it the two verdicts are equivalent
  (`SameVerdict`). `NothingDropped` compares the lengths of results and manifest.
- `StageGateProofs`. A favourable report is only written when the files are there, and files
  stay: `ReportIsEarned` is stable, and so is what a request has concluded from the
  report (`PatchIsAllowed`) and what a check has seen (`CheckHasSeen`). Sessions are consistent
  wherever they are held (`SessionsAreUnlocked`), so writing back an old one does no harm.
- `ForgeProvisionProofs`. `Inv` follows a stream through its handler: nobody has heard of it
  before its row is saved (`KnownIsSaved`), it keeps its row to the end unless somebody deletes
  it (`KeptIsSaved`), and its container comes up once (`ComesUpOnce`).
- `WebhookDeliveryProofs`. The invariant is about the holder of a ledger row, the request
  whose INSERT made it: there is one (`OneHolder`), it has not called before it sends
  (`NotYetCalled`), the row's status tells the holder's place (`RowTellsPlace`), and a row
  somebody holds is not past its retention. `KeepsLedger` adds `HolderKnows`: a holder that
  waits has called, and the gateway has agreed only where the holder has its answer in
  hand, so that no delivery it accepted is ever written down as failed. `IdNamesOneTrigger` is not
  inductive, because lists read earlier are written later: `Names` requires that the
  stored list, the one a provisioning holds and the ones the requests hold agree on whose
  an id is, and contain only ids that were given out before.
- `MarketplaceProofs`. `Sound(r)` is what a request may rely on where it is: a frozen version
  never changes and an agent, once gone, never comes back (`Keeps`), so what it has read
  of them stays true. `CountIsBacked` counts the installs made, less those whose
  count is yet to come, over the finite set of requests.
- `BrowserProofs`, the page. Every copy of the store, cached, restored, saved or on the
  screen, is behind the farthest stage the backend confirmed (`Confirmed`); a step copies
  one copy onto another (`Copies`) or confirms a stage first (`Confirms`), which gives
  `AdvanceIsConfirmed`. `SpinnerIsFollowed` says of the closed page too that what shows as
  building has a handler that follows it; it holds because nothing that is restored shows so.
- `BrowserProofs`, the chat. `Tapes` says for each exchange which events its stream holds at
  the bridge's place: while it runs, one tool more opened than closed if one is active, and at its end, unless
  an error came first, as many closed as opened and the answer saved or reported as not.
  `Reading` ties the panel to what it has read of its exchange's stream, to which a bridge only
  adds (`Extends`); `AnswersAreSaved` is what it concludes, and `Fresh` says that later
  exchanges have not begun. Counting events is by `OccAppend`, over sequences
  of any length.

Every invariant and every action property of a passing run is a theorem, and so are the
three refinements (`KeepsPromise`, `StreamObeysGenerator`, `KeepsLedger`). Only model-checked
are the properties of liveness, which is out of the prover's reach: `BuildEnds`,
`WatchersAreTold`, `EntrySettles`, `LoopsEnd`, `SpinnerStops` and `AlwaysAnswered`.

## 5. Not modelled

- Of the modelled parts: texts (prompts, wording of events, templates), the parsing of the
  gateway's stream and `build-manifest.json`, which nothing reads. Two consumer branches
  for a generator that breaks the promise the pipeline is proved to keep. Two setups at a
  time in one container, which would need the processes behind the ports. GET
  `sandboxes/stream`, which consumes `createOpenclawSandbox` as the forge stream does, for a
  sandbox of no agent. The synchronisation of the plan from the workspace and
  `testOverride`. Stages before the prototype in the page, which follow the pattern of the
  later ones. The older HTTP proxy for chat; history, rename and deletion of conversations.
  Reviews and ratings.
- Sessions and authentication, the stuck session monitor, entitlements and the
  runtime package `packages/openclaw-runtime` have state worth modelling (section 6).
- SQL text, migrations, configuration, audit and cost records, queries, request validation,
  HTTP clients of external services, and the rendering of the user interfaces, which are
  the greater part of the repository's lines: there is no state machine of its own in them,
  only input and output. `PROJECT.json` lists each under `components`, with the reason.

## 6. Plan

What remains, in the order in which it would add most:

1. `AuthSessions`: rotation of refresh tokens, logout and lockout, with two refreshes at once.
2. The runtime package: retry, convergence and merge policies as functions against reference
   definitions, the hook runner and checkpoints as state machines.
3. `Entitlement` as a function against its definition, under events out of order.
4. An abstract row whose every update is atomic, with `StageGate` and `BuildStream` as two
   writers of the one session, to state exactly which updates the write-backs lose.
5. The composition of `SkillIteration` with the pipeline's loop, and an abstract install
   of which `Marketplace` is the implementation.

The number of runs is kept small: a run whose question has been answered by a theorem, or
whose disagreement is recorded above, makes place for one that asks something new.
