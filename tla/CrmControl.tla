------------------------------ MODULE CrmControl ------------------------------
(* Contact lists of the manager: several sessions (browser tabs, the control
   process) edit one workspace whose Matrix timeline decides every race
   (src/shared/model/crm.js, src/apps/master/crm-store.js), and drive the sending
   account's two commands: Direct setup of a list member (prepare, commit, cancel:
   crm-members.js) and a reviewed batch of messages (crm-batches.js).

   A session's code between two awaits is one action.  A refresh of the store
   reads the timeline's end, so what follows it up to the next request reads the
   canonical state directly.  What a session keeps over an await is its job.
   Requests reach the account through its room, in order; it may be offline, so
   they wait.  One list, one message per batch.  Abstracted: names, contact
   versions, digests, the settings inside a watch (its value is the id of the
   operation that wrote it), time limits (a wait gives up at any moment). *)
EXTENDS Naturals, Sequences, FiniteSets

CONSTANTS
    Sessions,     \* tabs of the manager and the control process
    People,       \* persons with one shared contact each
    Rooms,        \* conversations the list can watch
    MaxOps,       \* bound: operations (and batches) ever created
    MaxRequests   \* bound: requests in the account's room that wait

ASSUME CrmAssumption ==
    /\ {MaxOps, MaxRequests} \subseteq Nat
    /\ IsFiniteSet(People)

Ids == 1..MaxOps
NoBatch == [person |-> CHOOSE p \in People : TRUE, member |-> 0, rev |-> 0, list |-> 0]

VARIABLES
    crm,        \* the workspace: the fold of its timeline
    next,       \* id of the next operation
    job,        \* per session: the plan it carries out and where it is
    inbox,      \* requests in the account's room, not yet read by the account
    command,    \* account: crm_control_commands
    grant,      \* account: the policy journal's operation of a command
    batch,      \* account: crm_batches, state of the child
    item        \* account: crm_batch_items, state of its one message

vars == <<crm, next, job, inbox, command, grant, batch, item>>
account == <<command, grant, batch, item>>

Idle == [kind |-> "idle", at |-> "idle", id |-> 0, base |-> 0, list |-> 0, todo |-> {},
         person |-> NoBatch.person, seen |-> 0, room |-> CHOOSE r \in Rooms : TRUE,
         manifest |-> NoBatch]

-----------------------------------------------------------------------------
(* The reducer. *)

Active(p) == crm.member[p].op # 0 /\ ~crm.member[p].removed
ActiveOps == {crm.member[p].op : p \in {q \in People : Active(q)}}
Holds(id) == ~crm.list.archived /\ id \in ActiveOps

\* validateManifest: the list and the membership are the reviewed ones.
ManifestCurrent(b) ==
    /\ ~crm.list.archived /\ crm.list.rev = b.list
    /\ Active(b.person) /\ crm.member[b.person].op = b.member
    /\ crm.member[b.person].rev = b.rev

ListCurrent(j) == ~crm.list.archived /\ crm.list.rev = j.base

\* list.archive: the members are the ones whose setup was canceled.
Archivable(j) == ListCurrent(j) /\ ActiveOps = j.todo

MemberCurrent(j) == ~crm.list.archived /\ crm.member[j.person].rev = j.base

\* applyCRMOperation: whether the timeline accepts a session's operation.
Accepts(j) ==
    \/ j.kind = "archive" /\ Archivable(j)
    \/ j.kind = "restore" /\ crm.list.archived /\ crm.list.rev = j.base
    \/ j.kind = "watch" /\ ListCurrent(j)
    \/ j.kind = "add" /\ MemberCurrent(j)
    \/ j.kind = "remove" /\ MemberCurrent(j) /\ Active(j.person)
    \/ j.kind = "batch" /\ ManifestCurrent(j.manifest)
    \/ j.kind = "stop" /\ crm.batch[j.seen] # NoBatch

\* The operation's effect; its outcome is remembered, a refusal too.
Effect(j) ==
    CASE j.kind = "archive" -> [crm EXCEPT !.list = [rev |-> @.rev + 1, archived |-> TRUE]]
      [] j.kind = "restore" -> [crm EXCEPT !.list = [rev |-> @.rev + 1, archived |-> FALSE]]
      [] j.kind = "watch" -> [crm EXCEPT !.list.rev = @ + 1, !.watch[j.room] = j.id]
      [] j.kind = "add" ->
             [crm EXCEPT !.member[j.person] = [rev |-> @.rev + 1, op |-> j.id, removed |-> FALSE]]
      [] j.kind = "remove" ->
             [crm EXCEPT !.member[j.person] = [rev |-> @.rev + 1, op |-> j.id, removed |-> TRUE]]
      [] j.kind = "batch" -> [crm EXCEPT !.batch[j.id] = j.manifest]
      [] j.kind = "stop" -> [crm EXCEPT !.stopped = @ \cup {j.seen}]

Applied(j) ==
    IF crm.outcome[j.id] # "none" THEN crm
    ELSE IF Accepts(j) THEN [Effect(j) EXCEPT !.outcome[j.id] = "accepted"]
    ELSE [crm EXCEPT !.outcome[j.id] = "refused"]

-----------------------------------------------------------------------------
(* Sessions: plans. *)

Go(s, j) == job' = [job EXCEPT ![s] = j]
At(s, place) == job[s].at = place
Move(s, place) == Go(s, [job[s] EXCEPT !.at = place])

Begin(s, j) ==
    /\ At(s, "idle") /\ next <= MaxOps
    /\ next' = next + 1
    /\ Go(s, [j EXCEPT !.id = next])
    /\ UNCHANGED <<crm, inbox, account>>

\* planAddition, and planRenewal if the person is on the list already; todo holds
\* the earlier setup that has to be canceled first.
PlanAdd(s, p) ==
    /\ ~crm.list.archived
    /\ Begin(s, [Idle EXCEPT !.kind = "add", !.at = "execute", !.person = p,
                             !.base = crm.member[p].rev, !.list = crm.list.rev,
                             !.todo = IF Active(p) THEN {crm.member[p].op} ELSE {}])

\* prepareMemberRemoval, or the member row of the page.
PlanRemove(s, p) ==
    /\ ~crm.list.archived /\ Active(p)
    /\ Begin(s, [Idle EXCEPT !.kind = "remove", !.at = "execute", !.person = p,
                             !.base = crm.member[p].rev, !.todo = {crm.member[p].op}])

PlanArchive(s) ==
    /\ ~crm.list.archived
    /\ Begin(s, [Idle EXCEPT !.kind = "archive", !.at = "execute", !.base = crm.list.rev,
                             !.todo = ActiveOps])

PlanRestore(s) ==
    /\ crm.list.archived
    /\ Begin(s, [Idle EXCEPT !.kind = "restore", !.at = "append", !.base = crm.list.rev])

\* prepareNotifications, prepareWatch: a review of one conversation's alerts.
PlanWatch(s, r) ==
    /\ ~crm.list.archived
    /\ Begin(s, [Idle EXCEPT !.kind = "watch", !.at = "execute", !.room = r,
                             !.base = crm.list.rev, !.seen = crm.watch[r]])

\* createReviewedBatch: what the review binds the message to.
Manifest(p) == [person |-> p, member |-> crm.member[p].op, rev |-> crm.member[p].rev,
                list |-> crm.list.rev]

\* routes: the account has confirmed Direct for this very membership.
Routed(p) == Active(p) /\ command[crm.member[p].op] = "applied"

\* review.
PlanBatch(s, p) ==
    /\ ~crm.list.archived /\ Routed(p)
    /\ Begin(s, [Idle EXCEPT !.kind = "batch", !.at = "append", !.manifest = Manifest(p)])

\* submit of a saved batch, again or by another session.
ResumeBatch(s, b) ==
    /\ At(s, "idle") /\ crm.batch[b] # NoBatch
    /\ Go(s, [Idle EXCEPT !.kind = "batch", !.at = "append", !.id = b,
                          !.manifest = crm.batch[b]])
    /\ UNCHANGED <<crm, next, inbox, account>>

\* cancel of a saved batch.
PlanStop(s, b) ==
    /\ crm.batch[b] # NoBatch
    /\ Begin(s, [Idle EXCEPT !.kind = "stop", !.at = "append", !.seen = b])

\* resume: any session takes up the setup of a member that is in the list.
Resume(s, p) ==
    /\ At(s, "idle") /\ Active(p) /\ ~crm.list.archived
    /\ Go(s, [Idle EXCEPT !.kind = "add", !.at = "execute", !.id = crm.member[p].op,
                          !.person = p, !.base = crm.member[p].rev - 1, !.list = crm.list.rev])
    /\ UNCHANGED <<crm, next, inbox, account>>

\* A session ends, loses its answer, stops waiting or is refused: nothing of the
\* plan is left but what the timeline and the account hold.
GiveUp(s) ==
    /\ ~At(s, "idle")
    /\ Go(s, Idle)
    /\ UNCHANGED <<crm, next, inbox, account>>

-----------------------------------------------------------------------------
(* Sessions: execution. *)

\* assertMembership, before and after the membership operation.
Before(j) ==
    /\ ~crm.list.archived /\ crm.list.rev = j.list
    /\ \/ crm.member[j.person].rev = j.base
       \/ Active(j.person) /\ crm.member[j.person].op = j.id
After(j) ==
    ~crm.list.archived /\ crm.list.rev = j.list /\ Active(j.person)
    /\ crm.member[j.person].op = j.id

\* notificationOperations: another conversation's watch may have advanced the
\* list, the reviewed watch may not have changed.
MutRebased(j) == [j EXCEPT !.base = crm.list.rev]
Rebased(j) == IF crm.watch[j.room] = j.seen THEN [j EXCEPT !.base = crm.list.rev] ELSE j

\* execute, applyChange, validateReviewScope: the reviewed plan still applies.
Execute(s) ==
    LET j == job[s] IN
    /\ At(s, "execute")
    /\ \/ j.kind = "add" /\ Before(j)
          /\ Move(s, IF j.todo = {} THEN "prepare" ELSE "cancel")
       \/ j.kind = "remove" /\ crm.member[j.person].rev = j.base /\ Move(s, "cancel")
       \/ j.kind = "archive" /\ crm.list.rev = j.base /\ ActiveOps = j.todo /\ Move(s, "cancel")
       \/ j.kind = "watch" /\ Go(s, [Rebased(j) EXCEPT !.at = "append"])
    /\ UNCHANGED <<crm, next, inbox, account>>

Request(phase, id) ==
    /\ Len(inbox) < MaxRequests
    /\ inbox' = Append(inbox, [phase |-> phase, id |-> id])

\* cancelMember: every earlier setup is asked to stop; what is not canceled yet
\* is requested (again), and the change waits for all answers.
Uncanceled(j) == {k \in j.todo : command[k] # "canceled"}

RequestCancel(s, k) ==
    /\ At(s, "cancel") /\ k \in Uncanceled(job[s])
    /\ [phase |-> "cancel", id |-> k] \notin {inbox[i] : i \in DOMAIN inbox}
    /\ Request("cancel", k)
    /\ UNCHANGED <<crm, next, job, account>>

\* A removal that does not wait for the account's answer.
MutCanceled(s) ==
    /\ At(s, "cancel")
    /\ IF job[s].kind = "add" THEN Move(s, "prepare") ELSE Move(s, "append")
    /\ UNCHANGED <<crm, next, inbox, account>>

Canceled(s) ==
    /\ At(s, "cancel") /\ Uncanceled(job[s]) = {}
    /\ IF job[s].kind = "add" THEN Move(s, "prepare") ELSE Move(s, "append")
    /\ UNCHANGED <<crm, next, inbox, account>>

\* request: a result that is there already is not asked for again.
RequestPrepare(s) ==
    /\ At(s, "prepare") /\ command[job[s].id] = "none"
    /\ Request("prepare", job[s].id)
    /\ Move(s, "wait")
    /\ UNCHANGED <<crm, next, account>>

Prepared(s) ==
    /\ At(s, "prepare") \/ At(s, "wait")
    /\ command[job[s].id] \in {"prepared", "queued", "applied"} /\ Before(job[s])
    /\ Move(s, "append")
    /\ UNCHANGED <<crm, next, inbox, account>>

\* append: refresh and preview; an operation known already is not written again.
Preview(s) ==
    LET j == job[s] IN
    /\ At(s, "append")
    /\ IF crm.outcome[j.id] = "none" THEN Accepts(j) /\ Move(s, "write")
       ELSE crm.outcome[j.id] = "accepted" /\ Move(s, "written")
    /\ UNCHANGED <<crm, next, inbox, account>>

\* The write reaches the timeline; the answer may be lost (GiveUp).
Write(s) ==
    /\ At(s, "write")
    /\ crm' = Applied(job[s])
    /\ Move(s, "written")
    /\ UNCHANGED <<next, inbox, account>>

\* Only the replayed outcome counts, whatever the server answered.
Written(s) ==
    LET j == job[s] IN
    /\ At(s, "written")
    /\ IF crm.outcome[j.id] = "accepted" /\ j.kind \in {"add", "batch", "stop"}
       THEN Move(s, IF j.kind = "add" THEN "commit" ELSE j.kind)
       ELSE Go(s, Idle)
    /\ UNCHANGED <<crm, next, inbox, account>>

\* request(commit): the canonical membership is read once more before the grant.
RequestCommit(s) ==
    /\ At(s, "commit") /\ After(job[s]) /\ command[job[s].id] \in {"prepared", "queued"}
    /\ Move(s, "grant")
    /\ UNCHANGED <<crm, next, inbox, account>>

SendCommit(s) ==
    /\ At(s, "grant")
    /\ Request("commit", job[s].id)
    /\ Go(s, Idle)
    /\ UNCHANGED <<crm, next, account>>

\* stillCurrent: no cancellation is recorded, the review can be made again as it is.
StillCurrent(j) == j.id \notin crm.stopped /\ ManifestCurrent(j.manifest)

\* submit: a cancellation that is recorded is carried on, an answer of the account
\* ends it, else the message is staged and the child submitted while current.
Submit(s) ==
    LET j == job[s] IN
    /\ At(s, "batch")
    /\ IF j.id \in crm.stopped
       THEN Request("stop", j.id) /\ Go(s, Idle)
       ELSE /\ StillCurrent(j) /\ batch[j.id] = "none"
            /\ Move(s, "submit") /\ UNCHANGED inbox
    /\ UNCHANGED <<crm, next, account>>

SendSubmit(s) ==
    /\ At(s, "submit")
    /\ Request("submit", job[s].id)
    /\ Go(s, Idle)
    /\ UNCHANGED <<crm, next, account>>

\* cancel: the account is asked whatever became of the list since.
SendStop(s) ==
    /\ At(s, "stop")
    /\ Request("stop", job[s].seen)
    /\ Go(s, Idle)
    /\ UNCHANGED <<crm, next, account>>

-----------------------------------------------------------------------------
(* The sending account (src/agents/uplink/crm_control.py, crm_policy.py,
   crm_batch.py). *)

Reads(phase) == inbox # <<>> /\ Head(inbox).phase = phase /\ inbox' = Tail(inbox)

IngestPrepare ==
    /\ Reads("prepare")
    /\ command' = [command EXCEPT ![Head(inbox).id] = IF @ = "none" THEN "prepared" ELSE @]
    /\ UNCHANGED <<crm, next, job, grant, batch, item>>

IngestCommit ==
    LET k == Head(inbox).id IN
    /\ Reads("commit")
    /\ IF command[k] = "prepared"
       THEN /\ command' = [command EXCEPT ![k] = "queued"]
            /\ grant' = [grant EXCEPT ![k] = "queued"]
       ELSE UNCHANGED <<command, grant>>
    /\ UNCHANGED <<crm, next, job, batch, item>>

\* Messages of a batch that waits under a canceled membership are canceled.
Withdrawn(k) ==
    [b \in Ids |-> IF item[b] = "accepted" /\ crm.batch[b].member = k THEN "canceled" ELSE item[b]]

\* A cancellation that leaves the queued grant to the check before its write.
MutIngestCancel ==
    LET k == Head(inbox).id
        writing == grant[k] = "writing"
    IN
    /\ Reads("cancel")
    /\ command' = [command EXCEPT ![k] = IF writing THEN "canceling" ELSE "canceled"]
    /\ item' = Withdrawn(k)
    /\ UNCHANGED <<crm, next, job, grant, batch>>

\* cancel, _cancel_commit: a grant that is queued is canceled, one whose write is
\* under way is waited for.
IngestCancel ==
    LET k == Head(inbox).id
        writing == grant[k] = "writing"
    IN
    /\ Reads("cancel")
    /\ command' = [command EXCEPT ![k] = IF writing THEN "canceling" ELSE "canceled"]
    /\ grant' = [grant EXCEPT ![k] = IF @ = "queued" THEN "canceled" ELSE @]
    /\ item' = Withdrawn(k)
    /\ UNCHANGED <<crm, next, job, batch>>

CancelEnds(k) ==
    /\ command[k] = "canceling" /\ grant[k] # "writing"
    /\ command' = [command EXCEPT ![k] = "canceled"]
    /\ UNCHANGED <<crm, next, job, inbox, grant, batch, item>>

\* _drain, _authorize: a queued grant is written to the conversation's policy.
WriteGrant(k) ==
    /\ grant[k] = "queued" /\ command[k] = "queued"
    /\ grant' = [grant EXCEPT ![k] = "writing"]
    /\ UNCHANGED <<crm, next, job, inbox, command, batch, item>>

GrantApplied(k) ==
    /\ grant[k] = "writing"
    /\ grant' = [grant EXCEPT ![k] = "applied"]
    /\ command' = [command EXCEPT ![k] = IF @ = "queued" THEN "applied" ELSE @]
    /\ UNCHANGED <<crm, next, job, inbox, batch, item>>

\* ingest of a child: the first submission is kept, a cancellation stays.
IngestSubmit ==
    LET b == Head(inbox).id IN
    /\ Reads("submit")
    /\ IF batch[b] = "none"
       THEN batch' = [batch EXCEPT ![b] = "accepted"] /\ item' = [item EXCEPT ![b] = "accepted"]
       ELSE UNCHANGED <<batch, item>>
    /\ UNCHANGED <<crm, next, job, command, grant>>

IngestStop ==
    LET b == Head(inbox).id IN
    /\ Reads("stop")
    /\ batch' = [batch EXCEPT ![b] = "canceled"]
    /\ item' = [item EXCEPT ![b] = IF @ = "attempted" THEN @ ELSE "canceled"]
    /\ UNCHANGED <<crm, next, job, command, grant>>

\* A final gate that trusts the item's state alone.
MutMayAttempt(b) == item[b] = "accepted"

\* before_send, final_direct_gate, _claim_attempt.
MayAttempt(b) ==
    /\ item[b] = "accepted" /\ batch[b] = "accepted"
    /\ command[crm.batch[b].member] \notin {"canceling", "canceled"}

Attempt(b) ==
    /\ MayAttempt(b)
    /\ item' = [item EXCEPT ![b] = "attempted"]
    /\ UNCHANGED <<crm, next, job, inbox, command, grant, batch>>

-----------------------------------------------------------------------------
Init ==
    /\ crm = [list |-> [rev |-> 1, archived |-> FALSE],
              member |-> [p \in People |-> [rev |-> 0, op |-> 0, removed |-> FALSE]],
              watch |-> [r \in Rooms |-> 0],
              batch |-> [b \in Ids |-> NoBatch], stopped |-> {},
              outcome |-> [i \in Ids |-> "none"]]
    /\ next = 1
    /\ job = [s \in Sessions |-> Idle]
    /\ inbox = <<>>
    /\ command = [k \in Ids |-> "none"] /\ grant = [k \in Ids |-> "none"]
    /\ batch = [b \in Ids |-> "none"] /\ item = [b \in Ids |-> "none"]

Plan(s) ==
    \/ (\E p \in People : PlanAdd(s, p) \/ PlanRemove(s, p) \/ PlanBatch(s, p) \/ Resume(s, p))
    \/ PlanArchive(s) \/ PlanRestore(s)
    \/ (\E r \in Rooms : PlanWatch(s, r))
    \/ (\E b \in Ids : PlanStop(s, b) \/ ResumeBatch(s, b))

Step(s) ==
    \/ Execute(s) \/ (\E k \in Ids : RequestCancel(s, k)) \/ Canceled(s)
    \/ RequestPrepare(s) \/ Prepared(s) \/ Preview(s) \/ Write(s) \/ Written(s)
    \/ RequestCommit(s) \/ SendCommit(s) \/ Submit(s) \/ SendSubmit(s) \/ SendStop(s)
    \/ GiveUp(s)

Account ==
    \/ IngestPrepare \/ IngestCommit \/ IngestCancel \/ IngestSubmit \/ IngestStop
    \/ (\E k \in Ids : CancelEnds(k) \/ WriteGrant(k) \/ GrantApplied(k) \/ Attempt(k))

Next == (\E s \in Sessions : Plan(s) \/ Step(s)) \/ Account

Spec == Init /\ [][Next]_vars

-----------------------------------------------------------------------------
(* Properties. *)

\* Direct is only ever applied for a member that is on a list at that moment:
\* whoever removes, replaces or archives it has stopped its setup before, in
\* whatever order the sessions' requests and the account's answers come.
GrantBacked ==
    [][\A k \in Ids : grant[k] # "applied" /\ grant'[k] = "applied" => Holds(k)]_vars

\* The account's two stores agree across commit, cancellation and the policy
\* write's answer: a grant waits only under a command that waits, and was written
\* only for a command that was committed.
GrantFollowsCommand ==
    \A k \in Ids :
        /\ grant[k] = "queued" => command[k] = "queued"
        /\ grant[k] = "writing" => command[k] \in {"queued", "canceling"}
        /\ command[k] = "applied" => grant[k] = "applied"

\* A message of a reviewed batch leaves only while its recipient is on the list
\* through the reviewed sender: removal stops what is queued, also if the batch
\* is submitted by another session at the same time.
SentToMembersOnly ==
    [][\A b \in Ids : item[b] # "attempted" /\ item'[b] = "attempted"
                          => Holds(crm.batch[b].member)]_vars

\* An alert setting a person reviewed never overwrites another edit of the same
\* conversation's alerts made since the review.
ReviewedWatchKept ==
    [][\A s \in Sessions, r \in Rooms :
           crm.watch[r] # crm'.watch[r] /\ crm'.watch[r] = job[s].id
               => crm.watch[r] = job[s].seen]_vars
=============================================================================
