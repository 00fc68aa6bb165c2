# Verification of beepa

TLA+ models of beepa, a self-hosted messaging hub: a teammate's hub bridges
their chat accounts into one local homeserver, and, for the conversations the
teammate shares, an *uplink* daemon mirrors them to an organization's *master*
homeserver, where a manager reads them and suggests replies.  The models follow
the source in `src/`; `PROJECT.json` names, for every definition, the lines it
stands for.

## 1. Inventory

| Component | State it keeps | Operations | Interacts with |
|---|---|---|---|
| **Uplink** (`agents/uplink/uplink.py`, `durable_sync.py`, `consent.py`, `reconcile.py`) | SQLite `state.db`: mirror lifecycle, delivery map, pending events, history jobs, proposal ledger, schedules, audit, `meta` watermarks | one thread, `run()`: configuration, revocation, own schedules, reconcile, ingestion, delivery, proposals, history, receipts, contacts; `run_stage` isolates the failures of a stage and retries with a delay | local homeserver (account data, rooms), master homeserver, enrollment service |
| **Teammate app** (`apps/user`, `shared/model`) | per tab: the session, the joined conversations, caches of levels, contacts and suggestions; account data: share levels, policies, contact profiles, `master_link`, schedules, acknowledgements | sign in and out, accept bridge invitations, set levels, edit contacts, decide on suggestions and campaign items, connect and disconnect, confirm a suspension, schedule sends | local homeserver only; the uplink reads what it writes and answers in rooms the app reads |
| **Master app** (`apps/master`) | the workspace (the fold of a room's timeline), caches | post proposals; lists, members, alert reviews and batches; notifications | master homeserver; the sending account's control room |
| **Enrollment, gateway, recovery, lifecycle** (`master/*.py`) | codes, roster, epochs, recovery tokens, backups | enroll, revoke, issue and use recovery, back up, restore, rotate the epoch | uplink, operators |
| **Control core, Telegram, notifications** (`master/*.mjs`, `notifications.py`) | command journal, dialogue state, delivery attempts, subscriptions | accept, confirm and execute commands; route notifications | master homeserver, push services |
| **iMessage bridge** (`imessage/daemon.py`) | journal of imported rows, portals, outgoing receipts | import from `chat.db`, send, backfill, repair timestamps | local homeserver (appservice), Messages |
| **Enrichment and contacts** (`agents/enrich`, `agents/contacts`) | contact store, resolver caches | import, resolve, look up | teammate app, uplink |
| **Connect helpers, hub, updater** (`session-connect`, `gmessages-connect`, `hub`, `beepa_update.py`) | processes, containers, releases | start and stop, sign in, update and roll back | the host |

What is hard here, and what makes each part correct:

* **Sending on a person's real account** (proposal path, own schedules,
  iMessage).  Crash, lost answers and replays against an external effect that
  cannot be undone: *intent before effect, at most one effect, the record tells
  the truth*, under a cap, under a level read at send time, only for the manager
  the teammate confirmed.
* **Copying and un-copying conversations** (mirror lifecycle, delivery,
  history).  Two homeservers, a local database, revocation during a copy:
  *nothing is lost silently, nothing is copied after revocation, every copy that
  was made is cleaned up*.
* **Several writers, one value** (sharing levels, contact profiles, lists, decisions
  on suggestions).  Tabs, the daemon and the manager read, decide and write in
  separate requests: *a change is applied over what its author saw, what is shown
  was stored, one decision wins and everybody is told the same*.
* **Acting for somebody who is not there** (Telegram orders, alerts).  A hosted
  model, lost answers and crashes between a manager and an effect: *nothing acts
  that was not reviewed in full by who confirms it, nothing is shown or sent twice*.
* **Authority changes** (enrollment, recovery, restore): *a new authority never
  inherits the trust of the one before*.

`PROJECT.json` lists each component with its files and status, and each hazard
with the line where it bites and the properties that watch it.

## 2. Plan

In order of what a fault costs the user; everything below is on disk.

1. `OnceOnlySend` (abstract): one durable intent, at most one dispatch, a final
   outcome.
2. `DirectSend`, the manager-proposal path, and `ScheduledSend`, the teammate's own
   schedules; both implement `OnceOnlySend`, with theorems.
3. `MirrorLifecycle`: creation, revocation and retirement of mirrors, with theorems.
4. `ConsentControl`: changes of sharing from the page to the account's journal, with
   theorems.
5. `TeammateSession`: tabs, sessions, invitations; composed with the suggestion
   queue in `SuggestionQueue` and with the contacts in `ContactProfiles`, with
   theorems.
6. `CrmControl`: the manager's lists, member setup and batches, with the sending
   account, with theorems.
7. `TelegramControl` and `NotificationRouting`: orders, reviews and alerts, with
   theorems about orders and alerts.

What a next step would take up: `ArchiveDelivery` (tail, queue, relations, history
paging) against an abstract archive in which every event is forwarded at most once,
in order, unless recorded as an error; the agreement of the Python and the
JavaScript consent resolver over small policies; `Recovery` and `Enrollment`.

The whole system in one module is out of TLC's reach, so components meet at their
interfaces: a module shows its neighbours as actors that do what the neighbour's
own module says they may do (the proposal path spends ticks in `ScheduledSend`, the
account cancels items in `SuggestionQueue`).

## 3. The proposal path: `DirectSend`

`run()` calls, in a pass, `refresh_master_config`, `ensure_proposal_rooms`,
`pull_proposals`, `deliver_proposal_pending` and `scheduled_manager_once`.  The
module has one action per stretch of that code between two points where the
world may change, that is, between two network calls or database commits:

| Action | Code |
|---|---|
| `ConfigOn`, `ConfigOff` | `refresh_master_config`, `destination_binding` |
| `Bind`, `SuspendRebound`, `Ensure` | `refresh_direct_send_binding` (two commits), `ensure_proposal_rooms` |
| `Pull`, `EndBatch` | `pull_proposals` before and after `forward_proposals` |
| `SkipHandled`, `RetireMalformed`, `RecoverAttempted`, `ArmTimed`, `DraftAtOnce`, `Evaluate` | the branches of the loop of `forward_proposals` |
| `Consent`, `Commit` | the network reads of `_direct_send_gate`, then the commit of `_auto_send` |
| `Dispatch`, `Record`, `RecordFails` | the PUT of `_auto_send`; `_file_proposal_record` |
| `Drain`, `Drained` | `deliver_proposal_pending` |
| `Timed`, `CloseDue`, `FireDue`, `MarkSchedule`, `FireDone` | `scheduled_manager_once`, `_mark_schedule` |
| `HistoryDown`, `Reconcile` | what the later stages do to the state this path reads |
| `Interrupt` | the process dies, or `run_stage` absorbs an exception |
| `SetLevel`, `Relink`, `Acknowledge`, `Post`, `Reply`, `ComesDue`, `GrowsStale`, `HourPasses` | the teammate, the manager, the contacts and the clock |

State: the variables are the rows of `state.db` (`outcome`, `sched`, `ticks`,
`mark`, `backlog`, `pending`, `room`, `bound`, `susp`, `dest`, `mirrored`,
`off`), the account data (`level`, `control`, `notice`, `ack`), the two
homeservers (`origin`, `convo`, `inbox`), the control point and the pass's
locals (`pc`, `job`), and history variables that only properties read (`puts`,
`hour`, `willing`, `confirmed`).  `outcome = "fallback"` stands for `fallback`
and `refused`, which differ in the label of the draft.

A homeserver applies a transaction id once: the second write with the same id
returns the first event (`Say`, `FileArtifact`).  A write may be refused
(4xx), applied, or applied with the answer lost.

Abstracted: message contents (a proposal is immediate, timed, a mere
suggestion, malformed, or not from the manager), real time (three phases of a
proposal: early, open, late), the budget of the timed queue (a pass that ends
early is an `Interrupt`), the migration from databases without an epoch, CRM
batches (a component of their own), and recovered credentials (their effect
here is that of a changed connection and an interrupted pass).

### Runs

Each instance has one conversation, two proposals unless said otherwise, and a
cap of one; the interesting cases need one conversation, since the cap, the
quiet check and the order of a batch are per conversation.

| Run | Question | Bounds |
|---|---|---|
| `DirectSend_send` | Is each proposal sent within the cap, not after a reply, at a level read when it is sent, and recorded truthfully; is the path an implementation of `OnceOnlySend` (intent first, one dispatch, a final outcome)? | one timed and one immediate proposal, one per pull (so that the timeline is limited), 1 failure, 1 reply, 1 change of level |
| `DirectSend_rebind` | Who may speak: only the manager adopted first or confirmed after a change; does the ledger survive? | 3 connections (two managers of one organization, another organization), 2 changes, no failures (see the observations), one foreign proposal |
| `DirectSend_live` | Does every posted proposal reach the inbox? | a timed and a malformed proposal, 1 failure |

One failure is enough for the safety properties to bite: each needs one crash or
lost answer at the wrong moment, and the mutants in `PROJECT.json` show that each
property is violated, within these bounds, by a plausible slip in the code
(for instance: the intent committed after the dispatch, the cap compared with
`<=`, an acknowledgement accepted without comparing its stamp).

Fairness (`FairSpec`): the daemon loop keeps taking steps, as `run()` never
blocks for ever on a stage; the history stage runs infinitely often when it is
enabled infinitely often, because every pass visits it; time passes.  Nothing is
assumed of the teammate, the manager, the contacts or failures, which are finitely
many by the bound.

## 4. The teammate's own schedules: `ScheduledSend`

The app writes a `scheduled_send` event into the local proposals room;
`tail_once` arms a row when its /sync shows the event; `scheduled_once` serves
the rows.  The proposal path shares only the rolling budget with it, so that
path appears here as an actor that spends a tick and speaks (`DirectSends`).

| Action | Code |
|---|---|
| `Config` | `refresh_master_config`: is the link on |
| `Recover`, `Answer`, `Judge`, `QueueDone` | the three loops of `scheduled_once`; `Judge` is `_scheduled_send_gate` up to S-7 |
| `Commit`, `Dispatch` | S-8 and the commit of `_scheduled_dispatch`; its PUT |
| `File`, `FileFails` | `_file_scheduled_outcome` |
| `TailOnce`, `Advance`, `NoTail` | `tail_once` with `_arm_scheduled`; the commit of `sync_since`; a pass without the link |
| `Reconcile`, `DirectSends`, `Interrupt` | other stages; a crash, an exception, an exhausted budget |
| `Schedule`, `Cancel`, `SendHeldNow`, `Switch` | `writeSchedule`, `cancelSchedule`, `sendHeldNow`, the link panel |
| `Reply`, `ComesDue`, `GrowsLate`, `HourPasses`, `AutoExpires` | the contacts and the clock |

State: `sched` is `scheduled_sends.state`; `ticks` and `auto` are together
`direct_send_log`; `since` is the tail's token, as the number of events of the
room it has passed; `feed` is the room itself, events and records.

Left open or abstracted: the order among due rows; the re-read of S-1 is taken
together with S-2 (an event does not change; its failure ends the pass); an
unreadable cancellation holds, so a hold is possible at any time; S-5 and the
malformed contents are one shape, `bad_time`; real time has three phases.  The
local proposals room exists from the start.  CRM batches use the same
dispatcher and are not in this module.

| Run | Question | Bounds |
|---|---|---|
| `ScheduledSend_faults` | Sent at most once, not after a cancellation, recorded truthfully; does every armed schedule get an answer; is it an implementation of `OnceOnlySend`? | a plain and a malformed schedule, 1 failure, 1 cancellation, 1 switch of the link |
| `ScheduledSend_room` | Do the common cap and the quiet check hold between the schedules, the Direct path and the people? | two plain schedules, 1 automatic send, 1 reply, no failures |

A cancellation, a replay, a crash and a lost answer each need one occurrence to
do their harm; the mutants show each property broken within the bounds.
`CancelledNeverSent` is about what S-2 could see: a cancellation after that read
is the documented race.  The quiet check is likewise stated up to the read of the
conversation.

`FairSpec` asks that the daemon keep taking steps (the loop never stops: stages
are isolated by `run_stage`) and that `send_at` arrive.  Faults are bounded, which
is the assumption that failures stop.

## 5. The mirrors: `MirrorLifecycle`

For each shared conversation the uplink keeps a room on the master, linked into
the organization's space and readable by the manager.  Making and taking back
such a room are each several requests and several commits, and the teammate may
change the level, the link or the organization between any two of them.

| Action | Code |
|---|---|
| `ConfigOn`, `Wipe`, `Rebind`, `KeepConnection` | `refresh_master_config` and the commits of `destination_binding` |
| `ConfigOff`, `ConfigUnreadable` | `refresh_master_config`, link off or account data unreadable |
| `Revoke`, `CleanStep`, `Forget` | `retry_revocations`, `run_cleanup`, `delete_mirror`, one action per request |
| `Retire`, `RetireStep`, `RetireDone` | `retry_retired_mirrors`, `_retry_retired_mirror` |
| `Plan`, `Decline`, `Allocate`, `Adopt`, `Make`, `CreateDone` | `reconcile`, `create_mirror` |
| `Link`, `Sync`, `SyncDone` | `sync_room` |
| `Tail`, `Copy`, `Withhold`, `Put`, `DeliveryDone`, `HistorySlice` | `tail_once`, `deliver_pending`, `forward_events`, `history_slice`, as far as they revoke and copy |
| `Skip`, `Crash` | a stage without work, the cadence of `reconcile`; a restart |
| `SetLevel`, `Disconnect`, `Reconnect`, `Relink` | the teammate app |

State: `life` and `mirror` are the rows of `mirror_lifecycle` and `mirror_rooms`,
`retired` is `retired_mirrors`, `feed` stands for `history_jobs` and
`pending_events`, `off`, `dest` and `cleanup` are the keys of `meta`.  `master`
holds, for each generation, the room made under its alias: who is in it, whether
the space links it, whether the content was copied.  `revoked` is history: the
generations the daemon has begun to take back.

Abstracted: the content of a conversation is one unit; a request that repeats
what is already done succeeds (the code explains a 403 or 404 by a read); a
definite refusal of a single event; names and level stamps; mirrors of databases
older than the lifecycle table; the contact and proposal rooms, which join the
cleanup list the same way; a stage that failed is tried again in the next pass.

| Run | Question | Bounds |
|---|---|---|
| `MirrorLifecycle_faults` | Is every room taken back before it is forgotten, in the right order, and never opened or written again; is every room written only over its own connection; does cleanup end, and is what stays shared archived? | one conversation, two organizations, four generations, 1 fault, 2 changes of level, 1 disconnection, 1 change of connection |

One conversation suffices: rooms share only the order in which they are served.
One fault suffices because the steps are retried one by one.  `FairSpec` asks that
the loop go on and that `reconcile` be run again and again (its cadence is a
clock); nothing is assumed of the teammate or of the failures, which are bounded.

Two known cases are kept out by a bound, so that the run shows what holds
otherwise.  The theorems of section 10 need neither bound: they name the step itself
(`ComesBack`, `Stranded`) and show that it is the only way to the harm.

* `MaxCuts`: createRoom is applied, its answer is lost, and the connection changes.
  The intent is the only trace of the room and is wiped, so the room stays open to
  the manager.  (If the level becomes Private instead, the intent stays, and the room
  with it until the conversation is shared again.)  With `MaxCuts = 2` TLC finds
  `NothingForgotten` violated.
* `MaxReturns`: the cleanup list is committed before the tables are wiped
  (`meta_set` commits), so a crash in between and a return to the old organization
  leave a live mirror on the list, and the daemon removes the manager from the
  room it is writing to.  With `MaxReturns = 1` TLC finds `NeverRevived` violated.

## 6. Changes of sharing: `ConsentControl`

Every control of the app that changes who may read or send ends in one of four writes:
the override of a conversation, the account default, the contact overrides, the
policy of the address book.  The first goes through the uplink's ordered journal
once the uplink has announced it.  A tab between two requests is a `job` (what is
changed, where it is); each action is the code between two awaits.

| Action | Code |
|---|---|
| `Choice` (`Slide`, `Chip`, `Escalate`, `Bulk`, `AllDirect`, `Exclude`, `ChooseDefault`, `ChooseContact`, `ChoosePerson`, `ClearContacts`, `ChooseBook`, ...) | the controls of `consent.js`: what they plan, and whether they ask first |
| `Confirm`, `Stop` | the dialog; a declined, failed or interrupted change |
| `ReadCapability`, `PutLegacy`, `LegacyAnswer`, `Intend`, `SendIntent`, `Refused`, `Applied` | `createOrderedConsentWriter`, `writeShareOverride` |
| `WriteDefault`, `ReadContacts`, `WriteContacts`, `WriteBook` and their answers | the whole-map writes |
| `Load`, `Reload` | `loadConsentState`; the tab starts anew |
| `Announce`, `Ingest`, `Process`, `PutAnswered`, `Reconcile`, `Publish` | `crm_control.py` and `CRMPolicy.process_next` with `_observe` and `_reconcile` |
| `Lands`, `Vanishes` | a PUT that had no answer takes effect late, or is lost |

State: `store`, `policy`, `contacts`, `book` are account data; `queue`, `log`,
`command`, `observed` are the control room and the journal; `dev` holds the caches
and the job of each tab; `ever` is history.  Abstracted: the layers between override
and default are one level, wording, the folding of rows, changes of authority.

`ConsentControl_devices`: two tabs, one conversation, two handles, a cap of one, two
changes, one fault, announcement at any moment.  Two changes are what every property
compares; one fault is a failed read, a reload, a refused, lost or late PUT at any
place.  The tabs are interchangeable (symmetry).  No fairness: nothing must happen.
The theorems of section 10 remove these bounds.

## 7. The app's session, suggestions and contacts

`TeammateSession` has the tabs: signing in and out (a new `token`), the joined
conversations a tab knows, and the pass over bridge invitations with its question and
its caps, next to the uplink's own `DaemonJoin`.  Two modules are composed with it:
each extends it, takes its steps with its own variables unchanged, and guards what a
job does after an await by the session it began in, as the code does.

| Module | Actions | Code |
|---|---|---|
| `TeammateSession` | `SignIn`, `SignOut`, `SeedFeed`, `StartPass`, `Answer`, `Join`, `EndPass`, `MigrateAck`, `DaemonJoin` | `enterApp`, `forgetSession`, `seedFeed`, `joinBridgeInvites`, `join_invites` |
| `SuggestionQueue` | `Decide`, `SendAll`, `Check`, `WriteDecision`, `Poll`, `GiveUp`, `Send`, `WriteResult` | `decideOne`, `sendAllInOrder`, `createProposalDecisions`, `sendConvoMessage` |
| | `ReadItem`, `WriteIntent`, `TellItem` | `createCRMApprovalWriter`, `submitCRMDecision` |
| | `Commit`, `Checkpoint`, `Publish`; `Ingest`, `Drain`, `Dispatch`, `PublishItem` | `proposal_status.relay`; `crm_approval.ingest`, `drain` |
| | `FetchHistory`, `ShowHistory`, `LoseDatabase`, `Cancel` | `refresh`; the uplink's database is made anew; the manager cancels |
| `ContactProfiles` | `Edit`, `LeaveName`, `Create`, `Enrich` begin; `ReadStore`, `WriteStore` | the controls of `contacts.js` and `autoMergeContacts`; `saveProfilesGuarded` with `normalizeProfiles` and the operations of `model/contacts.js` |

Abstracted in the queue: the text of a message is the decision behind it; a run of
"Accept & send all" is a list of items left.  In the contacts: a profile is its rooms,
handles, name and label; a number is a model value.

| Run | Question | Bounds |
|---|---|---|
| `SuggestionQueue_tabs` | Is an item said once however many tabs decide, is a tab told the truth, is a decision final? | two tabs, one conversation with a suggestion and a campaign item, 2 requests, 2 readings of the history, 2 sign-ins |
| `ContactProfiles_edits` | Is every write built on a store that was read, and no conversation joined before a yes? | one tab (its edit and its enrichment overlap), 3 requests, 2 sign-ins, 3 profile ids, a store of an older version with one conversation in two contacts, one bot's invitation and one that somebody else added to |

Two requests suffice for the queue since a suggestion conflicts with itself only;
the second sign-in is the one an answer of the first must not reach.  The theorems of
section 10 remove these bounds.

## 8. The manager's lists and batches: `CrmControl`

Sessions (tabs of the manager and the control process) keep a shared workspace by
appending operations to a timeline: each is planned, previewed against the
timeline's end, written, and counts only if replaying the timeline accepts it.  The
sending account reads its own requests later, in order.

| Action | Code |
|---|---|
| `PlanAdd`, `PlanRemove`, `PlanArchive`, `PlanRestore`, `PlanWatch`, `PlanBatch`, `PlanStop`, `Resume`, `ResumeBatch` | `crm-members.js`, `crm-batches.js`, `control-domain.mjs` prepare a plan |
| `Execute`, `RequestCancel`, `Canceled`, `RequestPrepare`, `Prepared`, `RequestCommit`, `SendCommit` | `execute`, `applyChange`, `cancelMember`, `request` |
| `Preview`, `Write`, `Written` | `append` of `crm-store.js`; `Applied` is `applyCRMOperation` |
| `Submit`, `SendSubmit`, `SendStop`, `GiveUp` | `submit`, `cancel`; a session that stops at any await |
| `IngestPrepare`, `IngestCommit`, `IngestCancel`, `CancelEnds`, `WriteGrant`, `GrantApplied`, `IngestSubmit`, `IngestStop`, `Attempt` | `crm_control.py`, `crm_policy.py`, `crm_batch.py` |

`CrmControl_sessions`: two sessions, one person, one conversation, three operations,
two requests waiting.  Three operations are an addition, its removal or renewal, and a
batch or another edit, the longest chain a property relates; a request that finds the
queue full waits.  The sessions are interchangeable.  No fairness.  The theorems of
section 10 remove these bounds.

## 9. Orders and alerts: `TelegramControl`, `NotificationRouting`

`TelegramControl` is the control process: updates and API commands are queued, a
lease serializes the work, a hosted model prepares drafts, each draft is a review of
several messages, and a confirmation submits it.  The lease is *released* while the
model is awaited, and polling and the command queue never take it; the module has
these interleavings, and `busy` is a call the lease holder waits for.

| Action | Code |
|---|---|
| `Connect`, `Poll`, `PairLink`, `Disconnect`, `DomainReady` | `pollOnce`, `bindTransport`, `pairLink`, `disconnect`, `monitorOnce` |
| `EnqueueCommand`, `CancelCommand`, `ClaimUpdate`, `ClaimCommand`, `Pairs`, `Ignore`, `AskModel`, `FinishCommand` | the queues, `process`, `command`, `processCommand` |
| `PrepareReview`, `ConfirmByChat`, `HttpConfirm`, `CancelByChat`, `HttpCancel`, `PutProposal`, `Submitted`, `SubmissionUnclear`, `Reconcile` | reviews, `confirm` with `executeSend`, `cancel` |
| `ClaimRow`, `WithdrawRow`, `Accepted`, `RateLimited`, `Rejected`, `DeliveryUnclear`, `MonitorReview`, `RetentionEnds` | `flush`, `invalidateReview`, `maintain` |
| `Restart` | a crash and the recovery of the constructor |
| `UserWrites`, `ContextChanges`, `ReviewAges`, `Display` | people, the conversation, the clock, Telegram |

`TelegramControl_lease`: two chats, two bots, one draft in two parts, one command, two
updates, two pairing links, one disconnect, one change of context, one fault.  Two
chats and bots are what a re-pairing needs, two parts what a half-shown review needs.
`FairSpec` asks that the loops of `createControlService` go on and that requests and
the model's turn end, which have time limits; nothing of the people.

`NotificationRouting` is the monitor's pass (`Refresh`, `Page`, drain one event with
`Visit`, `Check`, `Claim`, the two adapters, then `flush` with its groups) against
edits of lists, an operator who comes and goes, messages that disappear, a push
service that answers late or not at all, and a crash that recovers what was under way
as *unknown*.  `Plan` is the router's `plan`, `Reconciled` its `reconcile`.

`NotificationRouting_faults`: two lists, one of them edited once, two events, one fault,
the settings Telegram first, browser first and both; two events make a group, two
lists make settings that disagree.  `FairSpec`: the pass goes on, stale evidence
becomes fresh, and the push service accepts what waits.

## 10. Proofs

`DirectSendProofs` proves, for any set of conversations and connections, any
finite set of proposals and any bounds (`ConstantsAssumption`):

* `TypeCorrect`: the type invariant.  It is not inductive alone: `Held` adds that
  the pass holds a connection once configured, a proposal at the control points
  that act on one, and a record before it files it.
* `NeverTwice`, `NeverForgotten` (`DispatchOnLedger`): at most one dispatch, and never
  without a trace.  The inductive invariant `OnceInv` says what the ledger holds for
  the proposal in hand at each control point: fresh or parked before the intent,
  attempted and never handed over before the dispatch, not final before the
  record.  `LedgerSteps` reduces every step to one of five effects on the ledger.
* `OutcomesStay`: a recorded outcome is not revised.
* `ImplementsOnceOnly`: the refinement of `OnceOnlySend`.
* `OnlyWillingRooms` (`DirectRoomsOnly`): by `WillingInv`, the conversation in hand after
  the level was read is one that was at "direct" during the pass.
* `CapIsKept` (`CapRespected`): the ledger of ticks is at most `Cap` per conversation, and
  below it between the gate and the commit (`CapInv`); a tick is committed before the
  message leaves, so what was sent within the hour is among the ticks.
* `RecordsTellTheTruth` (`SentRecordTruthful`): by `TruthInv` an item recorded, pending or
  about to be recorded as sent has been said.
* `NotOvertaken`: `OvertakenNeverSent` wherever `ScanCovers` holds, that is, as long as the
  conversation has grown by at most `ScanLimit` messages since the proposal was
  written.  Beyond that the code cannot know (section 11).  The rest of the argument is that
  posts and conversations only grow (`PostedInv`, `ScannedIsQuiet`).
* `ConfirmedUnlessCutOff`: `ConfirmedSenderOnly` in every behaviour without the step
  `CutOff`, the death of the process between the two commits of a change of identity.  All
  other crashes and lost answers are allowed.  `StampInv` ties a notice to its stamp, so
  that an acknowledgement confirms the authority it was shown (`AckConfirms`); `BindInv`,
  `ClearInv` and `ConfirmedInv` say that an authority in force and not suspended was adopted
  or confirmed, at each control point of the binding and the gate.

`ScheduledSendProofs` proves, for any finite set of schedules, any set of
conversations and any bounds (`ScheduleAssumption`):

* `TypeCorrect`, `NeverTwice`, `ImplementsOnceOnly`, along the same argument;
  `RowSteps` reduces every step to feeding, intending, dispatching or filing a
  row.  `OnceInv` knows that a row is armed before the quiet check, attempted
  and unsent before the dispatch, and unfinished before the record.
* `RefusedStaysUnsaid` (`RefusedMeansNotSaid`): by `SaidInv`, what was said has a row
  that says attempted, sent or ambiguous, and a record about to be filed for it says
  sent or ambiguous; `SaidSteps` shows that only a dispatch says an item.
* `FinalIsFiled`: the room only grows (`FeedGrows`) and the row is committed
  after the record.
* `CancellationWins` (`CancelledNeverSent`): between the reading of the cancellation and the
  dispatch the answer is kept in hand.
* `CapIsKept` (`CapRespected`): the ticks of the schedules and the automatic sends together
  stay within the cap, and below it after the check.
* `NotOvertaken`: as in `DirectSendProofs`, under `ScanCovers`.

`MirrorLifecycleProofs` proves, for any sets of conversations, connections and
generations and any bounds (`MirrorAssumption`):

* `TypeCorrect`: the type invariant, with `Held` (what the pass holds at each
  control point), `Scheduled` (which stages only run over a connection) and
  `RowsAgree` (a mirror is the generation of its row; what is queued has a mirror
  that is not being revoked).
* `OnlyOverItsLink` (`WrittenOverItsLink`): by `InUse` the connection of a running
  pass is that of `archive_destination`, and by `OfDestination` so is the one of
  every room a row names, because a change of destination empties the table before
  the new one is committed.  `WideningStep` shows that only the three writing
  steps widen a room, each of the room its row names.
* `NeverRevivedUnlessItComesBack`: `NeverRevived` in every behaviour without the step
  `ComesBack`: the link returns to a destination some of whose rows the daemon had begun to
  retire, and a crash had kept from being wiped.  `RowInv` adds to `LinkInv` that no
  generation has two rows and which rows and rooms in hand are revoked; `NoneOpen`, that no
  room a pass may write is.
* `OwnerLastUnlessItComesBack`: `OwnerLeavesLast` under the same condition.  `StepsTaken`
  relates the step counted in a row, or in the cleanup list, to what is left of the room:
  a refused, lost or repeated request never moves the count ahead of the room.
* `NothingForgottenUnlessStranded`: `NothingForgotten` in every behaviour without `ComesBack`
  and `Stranded`, the wipe of an intent whose room was made and not answered.  `CleanupKept`
  says that a connection is kept for the cleanup before the first row is written.

  So the two cases of section 5 are the only ones.

`ConsentControlProofs`, for any devices, handles, cap and bounds and any conversations, at
least one (`ConsentAssumption`):

* `Consistent`: the inductive invariant `IInv`, of four parts: the types of what the server
  holds; what is stored is in `ever`; the rows of the devices show and carry only such values
  (`DevInv`); and the journal (`JournalInv`).  In the journal an applied revision is one more
  than its base (`RevisionInv`), an intent is read once and is "sent" exactly until then
  (`QueueInv`), a write that may still land is prepared and not yet stored (`WriteInv`), and
  nothing behind an unresolved intent of the same conversation has left the queue
  (`OrderInv`).  `DeviceJournal` reduces the steps of the devices to three effects on the
  journal: none, a new intent, its sending.
* `OnlyTheStoredIsShown` (`ShownIsStored`), from `DevInv`.
* `OneIntentPerRevision` (`OneChangePerRevision`), from `JournalInv`: of two intents with one
  base, the second to be processed finds a later revision.
* `NothingOvertaken` (`LateWriteBarred`), from `OrderInv`: the order of the log is compared by
  positions, without an induction over it.

`CrmControlProofs`, for any sessions, conversations and bounds and any finite set of people
(`CrmAssumption`):

* `Consistent`: the inductive invariant `IInv`.  Its key is `CoveredStays`: a setup leaves the
  list only after its command was canceled, because the plan that takes it off has passed the
  cancellations (`TodoInv`) and, as long as its base is current, names every setup it replaces
  (`PlanInv`).  So a setup once seen on the list is on it or canceled for good, which is what
  a waiting commit, a queued grant and a kept batch remember (`CoveredInv`, `BatchInv`).
  `IdInv` keeps the identities of plans, members and batches apart.
* `StoresAgree` (`GrantFollowsCommand`), `OnlyMembersAreGranted` (`GrantBacked`),
  `OnlyMembersAreSentTo` (`SentToMembersOnly`), `ReviewsAreNotOverwritten`
  (`ReviewedWatchKept`), each from `IInv`.

`TeammateAppProofs`, for any tabs, conversations and bounds, has lemmas about sessions
(`YesInv`: a conversation of the account was there, was invited by a bridge, or is in a pass
whose question was answered with yes) and the theorems of the two modules that extend them:

* `NothingFromNothing` (`BuiltOnTheStore`), for any handles, names and first store: `BuildInv`
  keeps, for each edit under way, the values stored since it began; the value it read is
  one of them.  A failed read ends the edit.
* `NoJoinUnasked` (`JoinedAfterYes`): from `YesInv`.
* `SentForOneDecision` (`SaidOnce`), `ToldTheTruth` (`ToldStands`), `DecisionIsFinal`
  (`DecisionStands`), for any suggestions, from one invariant, `QueueInv`: a tab about to
  send holds the decision that is claimed (`JobGood`); the claim in the room, the one in the
  database, what the manager was told and what was said agree (`ClaimGood`); an item's
  journal moves one way, and the room and the tabs repeat its approval (`ItemGood`).

`TelegramControlProofs`, for any chats, bots, drafts, commands, parts and bounds
(`ControlAssumption`):

* `ConfirmedOnce` (`SubmittedOnce`), `SeenBeforeConfirmed` (`ConfirmerSawReview`),
  `PendingStaysOurs` (`PendingIsOperators`) from `ControlInv`: types; what a claimed
  letter and a call under the lease rely on (`JobInv`, `BusyInv`); and `ReviewInv`, that a
  waiting draft is the operator's, its rows go to that chat, and an accepted row was
  displayed there.  `Effects` reduces the steps to six kinds, from states that only fall
  to a claim, a submission or a display.

`NotificationRoutingProofs`, for any lists, settings, number of messages and bounds
(`RoutingAssumption`):

* `NeverShownTwice` (`ShownOnce`), `RecordsAreTrue` (`AttemptIsTruthful`), `OnlyAskedTwice`
  (`FallbackNeverDoubles`) from `RouteInv`: the outbox and the push service know what can
  have been seen (`SeenInv`), the attempts agree with them (`AttemptInv`), the attempt in
  hand is the only one (`ClaimInv`), and an attempt was asked for by a list itself or
  follows an explicit failure of the other channel (`ReasonInv`).

`TypeCorrect`, `NeverTwice`, `OutcomesStay`, `FinalIsFiled` and `Consistent` are about
definitions no run lists: the runs check what follows from them or is stronger.

Model-checked only: liveness (`EveryProposalFiled`, `ArmedIsAnswered`, `CleanupFinishes`,
`SharedIsArchived`, `OrderEnds`, `NotificationEnds`), since TLAPS does neither fairness nor
ENABLED here.

Proved under a condition on the behaviour, each the exact case in which the code does not
keep the promise, and model-checked where a bound keeps the case out: `ConfirmedSenderOnly`
(no `CutOff`), `OvertakenNeverSent` (`ScanCovers`, in both modules), `NeverRevived` and
`OwnerLeavesLast` (no `ComesBack`), `NothingForgotten` (neither `ComesBack` nor `Stranded`).
No theorem assumes anything else of a behaviour.

Induction over data (what a recursive definition or a fold computes for every input) is
not in the prover's reach, so `Normalized`, `Merged` and the like are only run.

## 11. Observations

What was seen in the code while it was modelled and what no run is about.  The models
do what the code does; where a bound leaves a case out, it says so here.

* The quiet check reads the last ten messages (`uplink.py:2341`, `SUPERSEDED_SCAN_LIMIT`),
  so a long run of the sender's own messages hides an answer, while
  `docs/SYSTEM-DESIGN.md:110` says that anything said meanwhile still refuses.
* The watermark of `pull_proposals` is stored also when `forward_proposals` gave up the
  batch for lack of a link (`uplink.py:2780`; the comment at 2731 says it advances only
  after the batch is forwarded).
* A change of authority commits the identity and the suspension separately
  (`uplink.py:2259`, 2260): after a crash in between, the new manager is not suspended.
  `ConfirmedSenderOnly` is therefore checked without failures; that this is the only
  gap is the theorem `ConfirmedUnlessCutOff`.
* Schedules are armed from a /sync whose timeline may be limited (`uplink.py:2843`), so a
  schedule in the gap is never armed; and the arming stage runs below the connectivity
  gate (`uplink.py:3886`), while `docs/SYSTEM-DESIGN.md:114` puts the queue above it.
* "Send now" sends first and cancels afterwards, and ignores a failed cancellation
  (`scheduled.js:201`): the daemon may send the same words.
* The mirrors' `MaxCuts` and `MaxReturns` are explained in section 5.
* `renderContactDetail` wires the name field once (`contacts.js:329`), with the first
  contact opened: leaving the field later renames that contact.
* Profiles, contact overrides and the address book policy are whole values without
  compare-and-set: two tabs, or an edit and the enrichment, lose the earlier update.
  The address book policy is even written from the cached copy.
* `sendAllInOrder` promises to stop at the first failure, but goes on after a send whose
  outcome is unknown, since `decide` returns then (`proposals.js:487`).
* A decision whose poll timed out stays "sending" and is never offered again; the second
  tab's late decision may replace the owner's result in the room, which then shows the
  claim instead of the result.
* A fast sign-out and sign-in leaves two feed loops (`account-data.js:398`); two invitation
  passes count towards `AUTOJOIN_MAX_SESSION` separately between awaits; a dialog that is
  replaced by another never answers its caller.
* Two handlers around sharing (the summary of a migrated account and the suspension banner)
  swallow a failed write, which the comment at `consent.js:386` forbids.
* An edit of a list bumps its revision, so alerts observed under the earlier one are
  withdrawn; a crash between the claim of an attempt and its answer leaves it unknown for
  good, as intended.

## 12. Not modelled

Components that `PROJECT.json` marks `not_modelled`, with the reason there: what has no
state shared with the rest (reconciliation planning, read marks, enrollment, the updater,
the connect helpers), what is rendering or configuration, and the iMessage bridge, which
groups the rows of another program's database.

Parts of modelled components that are left out: names, level stamps and databases older
than the lifecycle table (mirrors); queue priorities, relations, history paging and media
(delivery); the contact, source and person layers of the resolver and its Python twin;
`sendIdentifierProposal`, "accept schedule", the outcome relay of campaign items, the
suggestion of handles and the fan-out panel of a contact (teammate app); the tools and
dialogues of the hosted model, drafts other than reviews, the expiry of letters
(control process); `ensureNotificationRouting`, quiet hours and digests, and the browser's
subscription (`apps/master/notifications.js`).  Type invariants are stated where they are
proved; in the other modules a wrong type would be an error of TLC.
