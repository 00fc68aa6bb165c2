--------------------------- MODULE TelegramControl ---------------------------
(* The control process of the master: ControlCore (src/master/control-core.mjs)
   run by createControlService (src/master/telegram-service.mjs).  A manager
   asks for things in Telegram or through the command API; a hosted model
   prepares drafts; every draft is shown as a review in Telegram and acts only
   when it is confirmed.

   Mutations are serialized by a FIFO lease, with two exceptions the model
   keeps: the lease is released while the hosted model is awaited (so monitor,
   disconnect, confirmations and deliveries interleave with a half-done
   command), and polling, command submission and command cancellation never
   take it.  The SQLite tables survive a crash; the lease, the running command
   and the readiness flags do not.

   Abstracted: texts, histories and the model's tool loop (a turn prepares one
   review or ends), the other draft kinds (batches, lists and contacts are in
   CrmControl), and the order in which the outbox is walked (any pending row may
   be next).  `context` stands for what a review was prepared against: the
   conversation's permissions, account and latest message (validateSend) and
   the response scope of the text that shows it. *)
EXTENDS Naturals, FiniteSets, Sequences

CONSTANTS
    None,         \* no operator, no work, no address
    Chats,        \* private Telegram chats that can be paired
    FirstChat,    \* the one that writes first (they are interchangeable)
    Bots,         \* bot identities the deployment can be configured with
    FirstBot,     \* the bot configured at first
    Drafts,       \* ids a draft can get
    Commands,     \* request ids of the command API
    Parts,        \* Telegram messages one review is split into
    MaxUpdates,   \* bound: updates the users send, over all bots
    MaxPairs,     \* bound: pairing links issued
    MaxEpoch,     \* bound: disconnects the manager asks for (a crash may change the bot once more)
    MaxContext,   \* bound: changes of the conversation a review is about
    MaxFaults     \* bound: crashes, lost answers, rate limits, poll failures

ASSUME ControlAssumption ==
    /\ None \notin Chats /\ FirstChat \in Chats /\ FirstBot \in Bots
    /\ Parts \in Nat \ {0}
    /\ {MaxUpdates, MaxPairs, MaxEpoch, MaxContext, MaxFaults} \subseteq Nat

VARIABLES
    operator, pair, bot, epoch,     \* kv rows: paired chat, link, bot, operator_epoch
    offset, inbox, retired,         \* next update wanted, inbox rows, transport_inbox
    commands,                       \* api_commands rows
    drafts,                         \* drafts rows
    outbox, outcomes,               \* outbox rows of reviews, transport_outcomes
    transportReady, domainReady,    \* process memory: readiness flags
    job,                            \* process memory: the command being worked on
    busy,                           \* process memory: the external call the lease waits for
    token,                          \* the bot the process is configured with
    mail, links, context, faults,   \* environment: sent updates, issued links, ...
    shown,                          \* what Telegram displayed: <<chat, row>> and how often
    puts                            \* proposals PUT to the homeserver, per draft

core == <<operator, pair, bot, epoch>>
wire == <<offset, inbox, retired>>
memory == <<transportReady, domainReady, job, busy>>
world == <<token, mail, links, context, faults>>
evidence == <<shown, puts>>
vars == <<core, wire, commands, drafts, outbox, outcomes, memory, world, evidence>>

Updates == 1..MaxUpdates
Rows == Drafts \X (1..Parts)
InboxState == {"none", "pending", "processing", "done", "interrupted", "expired"}
CommandState ==
    {"none", "queued", "processing", "processed", "failed", "canceled", "unknown", "expired"}
DraftState ==
    {"none", "pending", "executing", "submitted", "unknown", "canceled", "expired",
     "review_required"}
RowState ==
    {"none", "pending", "sending", "accepted", "failed", "unknown", "canceled", "expired"}
Text == {<<"start", None>>, <<"ask", None>>}
            \cup {<<verb, d>> : verb \in {"confirm", "cancel"}, d \in Drafts}

NoDraft == [state |-> "none", ctx |-> 0, aged |-> FALSE, by |-> None, confirmer |-> None]
NoRow == [state |-> "none", chat |-> None, tries |-> 0]
NoJob == [kind |-> None, id |-> None, binding |-> <<>>, phase |-> "idle", ctx |-> 0]
Idle == [op |-> "idle", on |-> None]

-----------------------------------------------------------------------------
(* Helpers of ControlCore. *)

\* commandBinding: who may give orders, through which bot, since which epoch.
Binding == <<operator, bot, epoch>>

LeaseFree == busy = Idle /\ job.phase # "claimed"

\* What a crash or a lost answer may cost.
Fault == faults < MaxFaults /\ faults' = faults + 1

\* cancelQueuedCommands.
CancelQueued(cs) ==
    [c \in Commands |-> IF cs[c].state = "queued" THEN [cs[c] EXCEPT !.state = "canceled"]
                        ELSE cs[c]]

CancelPendingDrafts(ds) ==
    [d \in Drafts |-> IF ds[d].state = "pending" THEN [ds[d] EXCEPT !.state = "canceled"]
                      ELSE ds[d]]

CancelRows(rows) ==
    [r \in Rows |-> IF r \in rows /\ outbox[r].state = "pending"
                    THEN [outbox[r] EXCEPT !.state = "canceled"] ELSE outbox[r]]

\* invalidateReview: the draft needs a fresh review and its unsent parts go.
InvalidateReview(d) ==
    /\ drafts' = [drafts EXCEPT ![d].state = IF @ = "pending" THEN "review_required" ELSE @]
    /\ outbox' = IF drafts[d].state = "pending" THEN CancelRows({d} \X (1..Parts)) ELSE outbox

\* One accepted part is enough.
MutRequireAny(d) == \E n \in 1..Parts : outbox[<<d, n>>].state = "accepted"

\* requireTelegramReview: every part of one review of the draft was accepted.
RequireTelegramReview(d) == \A n \in 1..Parts : outbox[<<d, n>>].state = "accepted"

\* validateSend: neither the conversation nor the account changed since.
StillValid(d) == drafts[d].ctx = context

-----------------------------------------------------------------------------
(* The environment: people, conversations, time and the deployment. *)

\* Someone writes to the bot that is configured (or presses a button there): a
\* link once one was issued, a draft's id once some chat was shown it.
UserWrites(chat, text) ==
    /\ Len(mail) < MaxUpdates
    /\ Len(mail) = 0 => chat = FirstChat
    /\ CASE text[1] = "start" -> links > 0
         [] text[1] = "ask" -> chat = operator
         [] OTHER -> \E other \in Chats, n \in 1..Parts : shown[<<other, <<text[2], n>>>>] > 0
    /\ mail' = Append(mail, [bot |-> token, from |-> chat, text |-> text,
                             link |-> IF text[1] = "start" THEN links ELSE 0])
    /\ UNCHANGED <<core, wire, commands, drafts, outbox, outcomes, memory, token, links, context,
                   faults, evidence>>

\* The conversation moves on, or a permission or the account changes (while
\* somebody relies on it: earlier changes are not told apart).
ContextChanges ==
    /\ context < MaxContext
    /\ job.phase = "model" \/ \E d \in Drafts : drafts[d].state \in {"pending", "executing"}
    /\ context' = context + 1
    /\ UNCHANGED <<core, wire, commands, drafts, outbox, outcomes, memory, token, mail, links,
                   faults, evidence>>

\* Ten minutes pass over a review.
ReviewAges(d) ==
    /\ drafts[d].state = "pending" /\ ~drafts[d].aged
    /\ drafts' = [drafts EXCEPT ![d].aged = TRUE]
    /\ UNCHANGED <<core, wire, commands, outbox, outcomes, memory, world, evidence>>

-----------------------------------------------------------------------------
(* The polling loop. *)

\* bindTransport: another bot than the bound one retires everything local to the
\* old one; drafts, uncertain sends and command ids survive.
BindTransport(b) ==
    \/ /\ bot = b
       /\ UNCHANGED <<core, wire, commands, drafts, outbox, outcomes>>
    \/ /\ bot # b
       /\ retired' = [retired EXCEPT ![bot] =
              [u \in Updates |-> IF @[u] = "none" THEN inbox[u] ELSE @[u]]]
       /\ outcomes' = [outcomes EXCEPT ![bot] = [r \in Rows |->
              IF @[r] # "none" THEN @[r]
              ELSE CASE outbox[r].state = "pending" -> "canceled"
                     [] outbox[r].state = "sending" -> "unknown"
                     [] OTHER -> outbox[r].state]]
       /\ inbox' = [u \in Updates |-> "none"]
       /\ outbox' = [r \in Rows |-> NoRow]
       /\ drafts' = CancelPendingDrafts(drafts)
       /\ commands' = CancelQueued(commands)
       /\ operator' = None /\ pair' = 0
       /\ bot' = b /\ epoch' = epoch + 1
       /\ UNCHANGED offset    \* one offset per bot: transport_offsets keeps the old ones

\* pollOnce while the transport is down: getMe, then bindTransport under the lease.
Connect ==
    /\ ~transportReady /\ LeaseFree
    /\ BindTransport(token)
    /\ transportReady' = TRUE
    /\ UNCHANGED <<domainReady, job, busy, world, evidence>>

\* pollOnce while it is up: getUpdates, then ingest in one transaction.
Poll ==
    LET fetched == {u \in Updates : /\ u <= Len(mail) /\ mail[u].bot = bot /\ u >= offset[bot]}
    IN
    /\ transportReady /\ fetched # {}
    /\ inbox' = [u \in Updates |->
           IF /\ u \in fetched /\ retired[bot][u] = "none" /\ inbox[u] = "none"
           THEN "pending" ELSE inbox[u]]
    /\ offset' = [offset EXCEPT ![bot] = Len(mail) + 1]
    /\ UNCHANGED <<core, retired, commands, drafts, outbox, outcomes, memory, world, evidence>>

PollFails ==
    /\ transportReady
    /\ Fault
    /\ transportReady' = FALSE
    /\ UNCHANGED <<core, wire, commands, drafts, outbox, outcomes, domainReady, job, busy, token,
                   mail, links, context, evidence>>

-----------------------------------------------------------------------------
(* What the master's own page asks for. *)

\* pairLink: a new link replaces the previous one.
PairLink ==
    /\ transportReady /\ domainReady /\ LeaseFree /\ links < MaxPairs
    /\ links' = links + 1
    /\ pair' = links + 1
    /\ UNCHANGED <<operator, bot, epoch, wire, commands, drafts, outbox, outcomes, memory, token,
                   mail, context, faults, evidence>>

Disconnect ==
    /\ LeaseFree /\ epoch < MaxEpoch /\ operator # None
    /\ operator' = None /\ pair' = 0 /\ epoch' = epoch + 1
    /\ commands' = CancelQueued(commands)
    /\ drafts' = CancelPendingDrafts(drafts)
    /\ outbox' = CancelRows(Rows)
    /\ UNCHANGED <<bot, wire, outcomes, memory, world, evidence>>

\* enqueueCommand, outside the lease: bound to the operator of the moment.
EnqueueCommand(c) ==
    /\ commands[c].state = "none" /\ operator # None
    /\ commands' = [commands EXCEPT ![c] = [state |-> "queued", binding |-> Binding]]
    /\ UNCHANGED <<core, wire, drafts, outbox, outcomes, memory, world, evidence>>

\* cancelCommand, outside the lease: only what has not started.
CancelCommand(c) ==
    /\ commands[c].state = "queued"
    /\ commands' = [commands EXCEPT ![c].state = "canceled"]
    /\ UNCHANGED <<core, wire, drafts, outbox, outcomes, memory, world, evidence>>

\* cancel of a pending draft: nothing was submitted, so it just ends.
CancelDraft(d) ==
    /\ drafts[d].state = "pending"
    /\ drafts' = [drafts EXCEPT ![d].state = "canceled"]

HttpCancel(d) ==
    /\ domainReady /\ LeaseFree
    /\ CancelDraft(d)
    /\ UNCHANGED <<core, wire, commands, outbox, outcomes, memory, world, evidence>>

-----------------------------------------------------------------------------
(* Taking up work: commandsOnce, process, processCommand. *)

CanTakeWork == job = NoJob /\ domainReady /\ transportReady /\ LeaseFree

\* process: the oldest pending inbox row is claimed before anything is done.
ClaimUpdate(u) ==
    /\ CanTakeWork
    /\ inbox[u] = "pending" /\ \A v \in Updates : inbox[v] = "pending" => u <= v
    /\ inbox' = [inbox EXCEPT ![u] = "processing"]
    /\ job' = [kind |-> "update", id |-> u, binding |-> Binding, phase |-> "claimed", ctx |-> 0]
    /\ UNCHANGED <<core, offset, retired, commands, drafts, outbox, outcomes, transportReady,
                   domainReady, busy, world, evidence>>

\* processCommand: an order given under another binding is dropped unread; else
\* processing is committed first and then the model is asked.
ClaimCommand(c) ==
    LET fresh == operator # None /\ commands[c].binding = Binding IN
    /\ CanTakeWork
    /\ commands[c].state = "queued"
    /\ commands' = [commands EXCEPT ![c].state = IF fresh THEN "processing" ELSE "canceled"]
    /\ job' = IF fresh
              THEN [kind |-> "command", id |-> c, binding |-> Binding, phase |-> "model",
                    ctx |-> context]
              ELSE job
    /\ UNCHANGED <<core, wire, drafts, outbox, outcomes, transportReady, domainReady, busy, world,
                   evidence>>

\* An end that forgets the row of the order.
MutEndJob(outcome) ==
    /\ job' = NoJob
    /\ inbox' = IF job.kind = "update" THEN [inbox EXCEPT ![job.id] = "done"] ELSE inbox
    /\ UNCHANGED commands

\* The `finally` of process and the end of processCommand.
EndJob(outcome) ==
    /\ job' = NoJob
    /\ inbox' = IF job.kind = "update" /\ job.binding[2] = bot
                THEN [inbox EXCEPT ![job.id] = "done"] ELSE inbox
    /\ commands' = IF job.kind = "command"
                   THEN [commands EXCEPT ![job.id].state = outcome] ELSE commands

Claimed == job.phase = "claimed" /\ busy = Idle
Letter == mail[job.id]

\* Pairing: the code of the current link makes its sender the operator.
Pairs ==
    /\ Claimed /\ operator = None
    /\ Letter.text = <<"start", None>> /\ pair # 0 /\ Letter.link = pair
    /\ operator' = Letter.from /\ pair' = 0
    /\ EndJob("processed")
    /\ UNCHANGED <<bot, epoch, offset, retired, drafts, outbox, outcomes, transportReady,
                   domainReady, busy, world, evidence>>

\* Not the operator, or a verb whose draft is not there: refused.  A typed verb
\* names its draft without a quote; a button quotes its review besides.
Refused ==
    \/ operator = None /\ (Letter.text # <<"start", None>> \/ pair = 0 \/ Letter.link # pair)
    \/ operator # None /\ Letter.from # operator
    \/ operator # None /\ Letter.text = <<"start", None>>
    \/ /\ operator # None /\ Letter.from = operator
       /\ \E d \in Drafts :
              \/ Letter.text = <<"confirm", d>> /\ ~RequireTelegramReview(d)
              \/ Letter.text = <<"cancel", d>> /\ drafts[d].state # "pending"

Ignore ==
    /\ Claimed /\ Refused
    /\ EndJob("processed")
    /\ UNCHANGED <<core, offset, retired, drafts, outbox, outcomes, transportReady, domainReady,
                   busy, world, evidence>>

CancelByChat(d) ==
    /\ Claimed /\ ~Refused /\ Letter.text = <<"cancel", d>>
    /\ CancelDraft(d)
    /\ EndJob("processed")
    /\ UNCHANGED <<core, offset, retired, outbox, outcomes, transportReady, domainReady, busy,
                   world, evidence>>

\* command: a request in words goes to the hosted model and the lease is released.
AskModel ==
    /\ Claimed /\ ~Refused /\ Letter.text = <<"ask", None>>
    /\ job' = [job EXCEPT !.phase = "model", !.ctx = context]
    /\ UNCHANGED <<core, wire, commands, drafts, outbox, outcomes, transportReady, domainReady,
                   busy, world, evidence>>

ModelBack == job.phase = "model" /\ LeaseFree

\* The binding and the context are checked again when the lease is back.
MutNoRecheck == ModelBack
MayContinue == ModelBack /\ job.binding = Binding /\ job.ctx = context

\* tool(prepare_send) and review: a draft, and its review in the outbox (enqueue).
PrepareReview(d) ==
    /\ MayContinue
    /\ drafts[d].state = "none"
    /\ drafts' = [drafts EXCEPT ![d] =
           [state |-> "pending", ctx |-> context, aged |-> FALSE, by |-> job.binding[1],
            confirmer |-> None]]
    /\ outbox' = [r \in Rows |->
           IF r[1] = d /\ operator # None /\ outcomes[bot][r] = "none" /\ outbox[r].state = "none"
           THEN [state |-> "pending", chat |-> operator, tries |-> 0] ELSE outbox[r]]
    /\ UNCHANGED <<core, wire, commands, outcomes, memory, world, evidence>>

\* The turn loop ends: an answer, finish_request, an error or a changed binding.
FinishCommand ==
    /\ ModelBack
    /\ EndJob(IF MayContinue THEN "processed" ELSE "failed")
    /\ UNCHANGED <<core, offset, retired, drafts, outbox, outcomes, transportReady, domainReady,
                   busy, world, evidence>>

-----------------------------------------------------------------------------
(* confirm and executeSend. *)

\* What confirm answers without acting: not pending, expired or changed.
ConfirmRefuses(d) ==
    \/ drafts[d].state # "pending" /\ UNCHANGED drafts
    \/ /\ drafts[d].state = "pending" /\ drafts[d].aged
       /\ drafts' = [drafts EXCEPT ![d].state = "expired"]
    \/ drafts[d].state = "pending" /\ ~drafts[d].aged /\ ~StillValid(d) /\ UNCHANGED drafts

\* The claim: pending -> executing, before the external call.
ClaimDraft(d, who) ==
    /\ drafts[d].state = "pending" /\ ~drafts[d].aged /\ StillValid(d)
    /\ drafts' = [drafts EXCEPT ![d].state = "executing", ![d].confirmer = who]
    /\ busy' = [op |-> "confirm", on |-> d]

ConfirmByChat(d) ==
    /\ Claimed /\ ~Refused /\ Letter.text = <<"confirm", d>>
    /\ \/ /\ ConfirmRefuses(d)
          /\ EndJob("processed")
          /\ UNCHANGED busy
       \/ /\ ClaimDraft(d, operator)
          /\ UNCHANGED <<job, inbox, commands>>
    /\ UNCHANGED <<core, offset, retired, outbox, outcomes, transportReady, domainReady, world,
                   evidence>>

HttpConfirm(d) ==
    /\ domainReady /\ LeaseFree /\ drafts[d].state # "none"
    /\ \/ ConfirmRefuses(d) /\ UNCHANGED busy
       \/ ClaimDraft(d, None)
    /\ UNCHANGED <<core, wire, commands, outbox, outcomes, transportReady, domainReady, job, world,
                   evidence>>

\* executeSend: the proposal is PUT under a transaction id made from the draft.
PutProposal ==
    /\ busy.op = "confirm" /\ StillValid(busy.on)
    /\ puts' = [puts EXCEPT ![busy.on] = @ + 1]
    /\ busy' = [busy EXCEPT !.op = "confirmed"]
    /\ UNCHANGED <<core, wire, commands, drafts, outbox, outcomes, transportReady, domainReady, job,
                   world, shown>>

AfterConfirm(state) ==
    /\ drafts' = [drafts EXCEPT ![busy.on].state = state]
    /\ busy' = Idle
    /\ IF job.phase = "claimed" THEN EndJob("processed") ELSE UNCHANGED <<job, inbox, commands>>

\* The answer arrived: submitted.
Submitted ==
    /\ busy.op = "confirmed"
    /\ AfterConfirm("submitted")
    /\ UNCHANGED <<core, offset, retired, outbox, outcomes, transportReady, domainReady, world,
                   evidence>>

\* The answer was lost, or the check before the PUT failed: uncertain, not retried.
SubmissionUnclear ==
    /\ \/ busy.op = "confirm" /\ ~StillValid(busy.on) /\ UNCHANGED faults
       \/ busy.op \in {"confirm", "confirmed"} /\ Fault
    /\ AfterConfirm("unknown")
    /\ UNCHANGED <<core, offset, retired, outbox, outcomes, transportReady, domainReady, token,
                   mail, links, context, evidence>>

\* send_status and reconcileSend: the proposal is looked up in the journal room.
Reconcile(d) ==
    /\ domainReady /\ LeaseFree
    /\ drafts[d].state = "unknown" /\ puts[d] > 0
    /\ drafts' = [drafts EXCEPT ![d].state = "submitted"]
    /\ UNCHANGED <<core, wire, commands, outbox, outcomes, memory, world, evidence>>

-----------------------------------------------------------------------------
(* flush: the review rows go out, or are withdrawn. *)

CanFlush(r) ==
    /\ transportReady /\ domainReady /\ LeaseFree
    /\ outbox[r].state = "pending"

Sendable(r) ==
    /\ drafts[r[1]].state = "pending" /\ ~drafts[r[1]].aged /\ StillValid(r[1])
    /\ operator # None /\ outbox[r].chat = operator

\* A changed context, an ended draft or another chat: the row is withdrawn, and a
\* review that cannot be completed takes its draft with it.
WithdrawRow(r) ==
    /\ CanFlush(r) /\ ~Sendable(r)
    /\ IF drafts[r[1]].state = "pending" /\ (drafts[r[1]].aged \/ ~StillValid(r[1]))
       THEN InvalidateReview(r[1])
       ELSE outbox' = CancelRows({r}) /\ UNCHANGED drafts
    /\ UNCHANGED <<core, wire, commands, outcomes, memory, world, evidence>>

\* The claim: pending -> sending, one attempt more.
ClaimRow(r) ==
    /\ CanFlush(r) /\ Sendable(r)
    /\ outbox' = [outbox EXCEPT ![r].state = "sending", ![r].tries = @ + 1]
    /\ busy' = [op |-> "deliver", on |-> r]
    /\ UNCHANGED <<core, wire, commands, drafts, outcomes, transportReady, domainReady, job, world,
                   evidence>>

\* sendMessage reaches Telegram, which displays the message.
Display ==
    /\ busy.op = "deliver"
    /\ LET place == <<outbox[busy.on].chat, busy.on>>
       IN shown' = [shown EXCEPT ![place] = @ + 1]
    /\ busy' = [busy EXCEPT !.op = "displayed"]
    /\ UNCHANGED <<core, wire, commands, drafts, outbox, outcomes, transportReady, domainReady, job,
                   world, puts>>

\* What flush records of a delivery; `limit` is the number of tries 429 is allowed.
SettleRow(state) ==
    /\ outbox' = [outbox EXCEPT ![busy.on].state = state]
    /\ busy' = Idle
    /\ UNCHANGED <<core, wire, commands, drafts, outcomes, transportReady, domainReady, job, token,
                   mail, links, context, evidence>>

Accepted == busy.op = "displayed" /\ UNCHANGED faults /\ SettleRow("accepted")

\* 429: refused without being shown; tried again, five times at most in all.
RateLimited ==
    /\ busy.op = "deliver" /\ Fault
    /\ SettleRow(IF outbox[busy.on].tries < 5 THEN "pending" ELSE "failed")

Rejected == busy.op = "deliver" /\ Fault /\ SettleRow("failed")

\* A timeout may have delivered: uncertain, never sent again.
DeliveryUnclear ==
    /\ busy.op \in {"deliver", "displayed"} /\ Fault
    /\ SettleRow("unknown")

-----------------------------------------------------------------------------
(* monitorOnce and maintain; crashes. *)

\* The first successful refresh after a start.
DomainReady ==
    /\ ~domainReady /\ LeaseFree
    /\ domainReady' = TRUE
    /\ UNCHANGED <<core, wire, commands, drafts, outbox, outcomes, transportReady, job, busy, world,
                   evidence>>

\* invalidateReviews and maintain: expired or overtaken reviews are withdrawn.
MonitorReview(d) ==
    /\ domainReady /\ LeaseFree
    /\ drafts[d].state = "pending" /\ (drafts[d].aged \/ ~StillValid(d))
    /\ InvalidateReview(d)
    /\ UNCHANGED <<core, wire, commands, outcomes, memory, world, evidence>>

\* maintain, retention: an order that waited out the retention period ends unread.
RetentionEnds(c) ==
    /\ domainReady /\ LeaseFree
    /\ commands[c].state = "queued"
    /\ commands' = [commands EXCEPT ![c].state = "expired"]
    /\ UNCHANGED <<core, wire, drafts, outbox, outcomes, memory, world, evidence>>

\* A recovery that puts half-done work back in its queue.
MutReviveDraft(state, middle, verdict) ==
    IF state = middle THEN (IF middle = "executing" THEN "pending" ELSE verdict) ELSE state

\* What the constructor makes of rows a crash left in the middle.
AfterCrash(state, middle, verdict) == IF state = middle THEN verdict ELSE state

\* A crash (or a redeployment with another bot) and the constructor's recovery.
Restart(b) ==
    /\ Fault
    /\ token' = b
    /\ inbox' = [u \in Updates |-> AfterCrash(inbox[u], "processing", "interrupted")]
    /\ drafts' = [d \in Drafts |->
           [drafts[d] EXCEPT !.state = AfterCrash(@, "executing", "unknown")]]
    /\ outbox' = [r \in Rows |-> [outbox[r] EXCEPT !.state = AfterCrash(@, "sending", "unknown")]]
    /\ commands' = [c \in Commands |->
           [commands[c] EXCEPT !.state = AfterCrash(@, "processing", "unknown")]]
    /\ transportReady' = FALSE /\ domainReady' = FALSE
    /\ job' = NoJob /\ busy' = Idle
    /\ UNCHANGED <<core, offset, retired, outcomes, mail, links, context, evidence>>

-----------------------------------------------------------------------------
Init ==
    /\ operator = None /\ pair = 0 /\ bot = FirstBot /\ epoch = 0
    /\ offset = [b \in Bots |-> 1]
    /\ inbox = [u \in Updates |-> "none"]
    /\ retired = [b \in Bots |-> [u \in Updates |-> "none"]]
    /\ commands = [c \in Commands |-> [state |-> "none", binding |-> <<>>]]
    /\ drafts = [d \in Drafts |-> NoDraft]
    /\ outbox = [r \in Rows |-> NoRow]
    /\ outcomes = [b \in Bots |-> [r \in Rows |-> "none"]]
    /\ transportReady = FALSE /\ domainReady = FALSE
    /\ job = NoJob /\ busy = Idle
    /\ token = FirstBot /\ mail = <<>> /\ links = 0 /\ context = 0 /\ faults = 0
    /\ shown = [p \in Chats \X Rows |-> 0]
    /\ puts = [d \in Drafts |-> 0]

Environment ==
    \/ \E chat \in Chats, text \in Text : UserWrites(chat, text)
    \/ ContextChanges
    \/ \E d \in Drafts : ReviewAges(d)

Service ==
    \/ Connect \/ Poll \/ PollFails \/ DomainReady
    \/ PairLink \/ Disconnect
    \/ \E c \in Commands :
           EnqueueCommand(c) \/ CancelCommand(c) \/ ClaimCommand(c)
               \/ RetentionEnds(c)
    \/ \E u \in Updates : ClaimUpdate(u)
    \/ Pairs \/ Ignore \/ AskModel \/ FinishCommand
    \/ \E d \in Drafts :
           HttpCancel(d) \/ CancelByChat(d) \/ PrepareReview(d) \/ ConfirmByChat(d)
               \/ HttpConfirm(d) \/ Reconcile(d) \/ MonitorReview(d)
    \/ PutProposal \/ Submitted \/ SubmissionUnclear
    \/ \E r \in Rows : WithdrawRow(r) \/ ClaimRow(r)
    \/ Display \/ Accepted \/ RateLimited \/ Rejected \/ DeliveryUnclear
    \/ \E b \in Bots : Restart(b)

Next == Environment \/ Service

Spec == Init /\ [][Next]_vars

\* The loops of createControlService run again and again, the hosted model and
\* every request end (they carry time limits), and faults are bounded.
Fairness ==
    /\ WF_vars(Connect) /\ WF_vars(DomainReady)
    /\ WF_vars(\E u \in Updates : ClaimUpdate(u))
    /\ WF_vars(\E c \in Commands : ClaimCommand(c))
    /\ WF_vars(Pairs \/ Ignore \/ AskModel \/ \E d \in Drafts : CancelByChat(d) \/ ConfirmByChat(d))
    /\ WF_vars(FinishCommand)
    /\ WF_vars(PutProposal) /\ WF_vars(Submitted \/ SubmissionUnclear)
    /\ WF_vars(Display) /\ WF_vars(Accepted)

FairSpec == Spec /\ Fairness

-----------------------------------------------------------------------------
(* Properties. *)

\* A confirmed draft reaches the sending account at most once: neither a second
\* confirmation (button, text or the master's page) nor a crash between the PUT
\* and its answer makes confirm submit it again (control-core.mjs confirm).
SubmittedOnce == \A d \in Drafts : puts[d] <= 1

\* Whoever confirms a draft in Telegram was shown every part of its review in
\* that chat, whatever was disconnected, paired or rotated in between.
ConfirmerSawReview ==
    \A d \in Drafts :
        drafts[d].confirmer # None =>
            \A n \in 1..Parts : shown[<<drafts[d].confirmer, <<d, n>>>>] > 0

\* A draft that can still be confirmed belongs to the operator of the moment: a
\* request that outlives its operator (the model is awaited without the lease)
\* leaves nothing behind that the next one, or the page, could confirm.
PendingIsOperators ==
    \A d \in Drafts : drafts[d].state = "pending" => operator # None /\ drafts[d].by = operator

\* An accepted order ends: processed, failed, canceled, expired or, after a
\* crash, unknown; it never stays in the queue or in processing.
OrderEnds ==
    \A c \in Commands :
        commands[c].state = "queued" ~> commands[c].state \notin {"queued", "processing"}
=============================================================================
