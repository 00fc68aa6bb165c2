-------------------------- MODULE SuggestionQueue --------------------------
(***************************************************************************)
(* The teammate's queue of suggested messages: what each tab shows, the    *)
(* decision a tab writes before it sends, the claim with which the account *)
(* sync service settles which tab may send, the sends, and the relay of    *)
(* the outcome to the manager (src/apps/user/proposals.js,                 *)
(* proposal-decisions.js, crm-approval.js, src/shared/ui/chat.js,          *)
(* src/shared/model/proposal-lifecycle.js,                                 *)
(* src/agents/uplink/proposal_status.py, crm_approval.py).                 *)
(*                                                                         *)
(* A suggestion is for a conversation ("room"), which the tab sends, or an *)
(* item of a campaign ("crm"), which the tab approves and the sync service *)
(* sends.  A tab works on one suggestion, or one run of "Accept & send     *)
(* all", at a time.                                                        *)
(***************************************************************************)
EXTENDS TeammateSession, SequencesExt

CONSTANTS
    Suggestions,
    Kind,        \* what each suggestion is
    Target,      \* the conversation a suggestion is for
    Arrived,     \* the suggestions, oldest first
    MaxRefreshes \* bound: readings of the history, in all tabs

VARIABLES
    decision,    \* room state com.jkali.proposal_decision of each suggestion
    claim,       \* room state com.jkali.proposal_claim
    claimed,     \* the claim in the sync service's database
    published,   \* what the manager is told of a suggestion
    journal,     \* the CRM item: its state, and the decision it is approved by
    intents,     \* approval requests the sync service has not read
    itemStatus,  \* room state com.jkali.crm.item_status
    said,        \* the messages sent for a suggestion: the decision behind each
    events,      \* how many decisions were written: the next event id
    job,         \* what a tab is doing
    view,        \* what a tab shows for each suggestion
    fetched,     \* the history a refresh has read and not yet shown
    refreshes,   \* how many times a history was read
    told         \* the CRM decision a tab was told stands

recordVars == <<decision, events>>
claimVars == <<claim, claimed>>
itemVars == <<journal, intents, itemStatus>>
listVars == <<view, fetched, refreshes, told>>
queueVars == <<recordVars, claimVars, published, itemVars, said, job, listVars>>

Decisions == {"accepted", "declined"}
NoRecord == [by |-> 0, is |-> None, send |-> "none", claim |-> 0]
NoJob == [at |-> "idle", on |-> None, is |-> None, how |-> None, id |-> 0, login |-> 0,
          send |-> "none", rest |-> <<>>]

(* What a decision means once it is claimed: the result of the tab that    *)
(* owns the claim, and the claimed decision for every other.               *)
Settled(p) ==
    IF decision[p] = NoRecord THEN claim[p]
    ELSE IF claim[p] # NoRecord /\ (decision[p].claim # claim[p].by \/ decision[p].is # claim[p].is)
         THEN claim[p] ELSE decision[p]

Shown(p) == [record |-> Settled(p), item |-> IF Kind[p] = "crm" THEN itemStatus[p].state ELSE None]
Unseen == [record |-> NoRecord, item |-> "unlisted"]

QueueInit ==
    /\ decision = [p \in Suggestions |-> NoRecord]
    /\ claim = [p \in Suggestions |-> NoRecord]
    /\ claimed = [p \in Suggestions |-> NoRecord]
    /\ published = [p \in Suggestions |-> [is |-> None, send |-> "none"]]
    /\ journal = [p \in Suggestions |-> [state |-> "waiting_for_approval", approval |-> None]]
    /\ intents = [p \in Suggestions |-> {}]
    /\ itemStatus = journal
    /\ said = [p \in Suggestions |-> {}]
    /\ events = 0
    /\ job = [t \in Tabs |-> NoJob]
    /\ view = [t \in Tabs |-> [p \in Suggestions |-> Unseen]]
    /\ fetched = [t \in Tabs |-> None]
    /\ refreshes = 0
    /\ told = [t \in Tabs |-> [p \in Suggestions |-> None]]

-----------------------------------------------------------------------------
(* What a tab offers. A suggestion is queued while the tab knows no        *)
(* decision of it and its item, if it is one, waits for approval.          *)
Inactive(t, p) ==
    \/ view[t][p].record # NoRecord
    \/ view[t][p].item \notin {None, "waiting_for_approval"}
Queued(t) == {p \in Suggestions : ~Inactive(t, p)}

Sendable(t, p) == Target[p] \in known[t]

Working(t, at) == job[t].at = at
Mine(t) == token[t] = job[t].login
Go(t, at) == job' = [job EXCEPT ![t].at = at]

(* The next suggestion of a run, or the end of the job; a run ends at the  *)
(* first suggestion whose decision throws, and a message that may not have *)
(* been sent does not throw.                                               *)
Begin(p, is, how, login, rest) ==
    [at |-> IF Kind[p] = "crm" THEN "item" ELSE "check", on |-> p, is |-> is, how |-> how,
     id |-> 0, login |-> login, send |-> "none", rest |-> rest]
Next1(t, ok) ==
    IF ok /\ job[t].rest # <<>> /\ SignedIn(t)
    THEN Begin(Head(job[t].rest), "accepted", "run", token[t], Tail(job[t].rest))
    ELSE NoJob
Finish(t, ok) == job' = [job EXCEPT ![t] = Next1(t, ok)]

(* One suggestion: sent or declined, a campaign item also in other words.   *)
Decide(t, p, is, how) ==
    /\ SignedIn(t) /\ Working(t, "idle")
    /\ p \in Queued(t)
    /\ how = "reworded" => Kind[p] = "crm" /\ is = "accepted"
    /\ Ask
    /\ job' = [job EXCEPT ![t] = Begin(p, is, how, token[t], <<>>)]
    /\ UNCHANGED <<recordVars, claimVars, itemVars, listVars, published, said>>

(* "Accept & send all in order" of one conversation.                       *)
SendAll(t, r) ==
    LET run == SelectSeq(Arrived, LAMBDA p : p \in Queued(t) /\ Target[p] = r) IN
    /\ SignedIn(t) /\ Working(t, "idle")
    /\ r \in known[t]
    /\ Len(run) > 1
    /\ Ask
    /\ job' = [job EXCEPT ![t] = Begin(Head(run), "accepted", "run", token[t], Tail(run))]
    /\ UNCHANGED <<recordVars, claimVars, itemVars, listVars, published, said>>

(* The answer reaches a tab that was signed out, or signed in again, in    *)
(* the meantime: the job ends where it is.                                 *)
Drop(t) ==
    /\ job[t].at \notin {"idle", "send"}
    /\ ~Mine(t)
    /\ Finish(t, FALSE)
    /\ UNCHANGED <<recordVars, claimVars, itemVars, listVars, published, said>>

(* A request fails before anything is written.                             *)
Fail(t) ==
    /\ job[t].at \in {"check", "item"}
    /\ Mine(t)
    /\ Finish(t, FALSE)
    /\ UNCHANGED <<recordVars, claimVars, itemVars, listVars, published, said>>

-----------------------------------------------------------------------------
(* The tab reads the room's state: a suggestion that has a decision keeps it. *)
Check(t) ==
    LET p == job[t].on IN
    /\ Working(t, "check") /\ Mine(t)
    /\ \/ /\ Settled(p) # NoRecord
          /\ view' = [view EXCEPT ![t][p].record = Settled(p)]
          /\ Finish(t, FALSE)
       \/ /\ Settled(p) = NoRecord
          /\ Go(t, "write")
          /\ UNCHANGED view
    /\ UNCHANGED <<recordVars, claimVars, itemVars, published, said, fetched, refreshes, told>>

(* The decision is written. It is shown at once; the write may fail. (When *)
(* only its answer is lost the job ends as GiveUp ends it.)                *)
WriteDecision(t) ==
    LET p == job[t].on
        d == [by |-> events + 1, is |-> job[t].is,
              send |-> IF job[t].is = "accepted" THEN "sending" ELSE "none", claim |-> 0] IN
    /\ Working(t, "write") /\ Mine(t)
    /\ view' = [view EXCEPT ![t][p].record = [d EXCEPT !.by = 0]]
    /\ \/ /\ events' = events + 1
          /\ decision' = [decision EXCEPT ![p] = d]
          /\ job' = [job EXCEPT ![t].at = "poll", ![t].id = events + 1]
       \/ /\ Finish(t, FALSE)
          /\ UNCHANGED recordVars
    /\ UNCHANGED <<claimVars, itemVars, published, said, fetched, refreshes, told>>

\* A tab that takes any claim of its own answer for its claim.
MutOwns(t) == claim[job[t].on].is = job[t].is

(* Polling for the claim. Owning it, a declined suggestion is done and an  *)
(* accepted one is sent; the send is on its way before the session is      *)
(* looked at again.                                                        *)
Owns(t) == claim[job[t].on].by = job[t].id /\ claim[job[t].on].is = job[t].is

Poll(t) ==
    LET p == job[t].on IN
    /\ Working(t, "poll") /\ Mine(t)
    /\ claim[p] # NoRecord
    /\ \/ /\ Owns(t) /\ job[t].is = "declined"
          /\ Finish(t, TRUE)
          /\ UNCHANGED view
       \/ /\ Owns(t) /\ job[t].is = "accepted"
          /\ job' = [job EXCEPT ![t].at =
                IF Sendable(t, p) THEN "send" ELSE "result", ![t].send = "unknown"]
          /\ UNCHANGED view
       \/ /\ ~Owns(t)
          /\ view' = [view EXCEPT ![t][p].record = claim[p]]
          /\ Finish(t, FALSE)
    /\ UNCHANGED <<recordVars, claimVars, itemVars, published, said, fetched, refreshes, told>>

(* The last poll finds no claim, or a poll fails: nothing is sent.         *)
GiveUp(t) ==
    /\ Working(t, "poll") /\ Mine(t)
    /\ Finish(t, FALSE)
    /\ UNCHANGED <<recordVars, claimVars, itemVars, listVars, published, said>>

(* The request that sends the message: carried out or not, and answered or *)
(* not.                                                                    *)
Send(t) ==
    LET p == job[t].on IN
    /\ Working(t, "send")
    /\ \/ /\ said' = [said EXCEPT ![p] = @ \cup {job[t].id}]
          /\ \E answered \in BOOLEAN :
                job' = [job EXCEPT ![t].at = "result",
                                   ![t].send = IF answered THEN "sent" ELSE "unknown"]
       \/ /\ Go(t, "result")
          /\ UNCHANGED said
    /\ UNCHANGED <<recordVars, claimVars, itemVars, listVars, published>>

(* The result is shown and written over the decision.                      *)
WriteResult(t) ==
    LET p == job[t].on
        d == [by |-> events + 1, is |-> "accepted", send |-> job[t].send, claim |-> job[t].id] IN
    /\ Working(t, "result") /\ Mine(t)
    /\ view' = [view EXCEPT ![t][p].record = [d EXCEPT !.by = 0]]
    /\ \/ /\ decision' = [decision EXCEPT ![p] = d]
          /\ events' = events + 1
          /\ \E answered \in BOOLEAN : Finish(t, answered)
       \/ /\ Finish(t, FALSE)
          /\ UNCHANGED recordVars
    /\ UNCHANGED <<claimVars, itemVars, published, said, fetched, refreshes, told>>

-----------------------------------------------------------------------------
(* CRM items: the tab writes an intent and waits until the item's status   *)
(* shows a decision. The one it is told must be its own, word for word.    *)
Approvals == {"approve", "reworded", "decline"}
Approval(t) ==
    IF job[t].is = "declined" THEN "decline"
    ELSE IF job[t].how = "reworded" THEN "reworded" ELSE "approve"
Closed == {"sent", "declined", "canceled", "refused", "outcome_unknown", "attempted"}

\* An approval that is told from a decline, and from nothing else.
MutItemAnswer(t) ==
    LET s == itemStatus[job[t].on] IN
    IF s.approval = None THEN IF s.state \in Closed THEN "closed" ELSE "none"
    ELSE IF (s.approval = "decline") = (Approval(t) = "decline") THEN "mine" ELSE "other"

ItemAnswer(t) ==
    LET s == itemStatus[job[t].on] IN
    IF s.approval = None THEN IF s.state \in Closed THEN "closed" ELSE "none"
    ELSE IF s.approval = Approval(t) THEN "mine" ELSE "other"

TellItem(t) ==
    LET p == job[t].on IN
    /\ view' = [view EXCEPT ![t][p].item = itemStatus[p].state]
    /\ told' = [told EXCEPT ![t][p] = IF ItemAnswer(t) = "mine" THEN Approval(t) ELSE @]
    /\ Finish(t, TRUE)

ReadItem(t) ==
    /\ job[t].at \in {"item", "itemPoll"}
    /\ Mine(t)
    /\ \/ /\ ItemAnswer(t) \in {"mine", "closed"}
          /\ TellItem(t)
       \/ /\ ItemAnswer(t) = "other"
          /\ Finish(t, FALSE)
          /\ UNCHANGED <<view, told>>
       \/ /\ ItemAnswer(t) = "none" /\ Working(t, "item")
          /\ Go(t, "intent")
          /\ UNCHANGED <<view, told>>
       \/ /\ ItemAnswer(t) = "none" /\ Working(t, "itemPoll")    \* the last poll
          /\ Finish(t, FALSE)
          /\ UNCHANGED <<view, told>>
    /\ UNCHANGED <<recordVars, claimVars, itemVars, published, said, fetched, refreshes>>

WriteIntent(t) ==
    LET p == job[t].on IN
    /\ Working(t, "intent") /\ Mine(t)
    /\ \/ /\ intents' = [intents EXCEPT ![p] = @ \cup {Approval(t)}]
          /\ Go(t, "itemPoll") \/ Finish(t, FALSE)
       \/ /\ Finish(t, FALSE)
          /\ UNCHANGED intents
    /\ UNCHANGED <<recordVars, claimVars, listVars, published, journal, itemStatus, said>>

(* The sync service: the first decision of a waiting item is recorded,     *)
(* every later one is refused.                                             *)
Ingest(p, d) ==
    /\ d \in intents[p]
    /\ intents' = [intents EXCEPT ![p] = @ \ {d}]
    /\ IF journal[p].approval = None /\ journal[p].state = "waiting_for_approval"
       THEN journal' = [journal EXCEPT ![p] =
                [state |-> IF d = "decline" THEN "declined" ELSE "approval_pending",
                 approval |-> d]]
       ELSE UNCHANGED journal
    /\ UNCHANGED <<recordVars, listVars, claimVars, published, itemStatus, said, job>>

SetItem(p, s) == journal' = [journal EXCEPT ![p].state = s]

(* Draining: refused by a gate, or recorded as attempted and then sent. A  *)
(* failure after the record, and a crash, leave the outcome unknown.       *)
Drain(p) ==
    /\ journal[p].state = "approval_pending"
    /\ SetItem(p, "refused") \/ SetItem(p, "attempted")
    /\ UNCHANGED <<recordVars, listVars, claimVars, published, intents, itemStatus, said, job>>

Dispatch(p) ==
    /\ journal[p].state = "attempted"
    /\ \/ /\ said' = [said EXCEPT ![p] = @ \cup {journal[p].approval}]
          /\ SetItem(p, "sent") \/ SetItem(p, "outcome_unknown")
       \/ /\ SetItem(p, "refused") \/ SetItem(p, "outcome_unknown")
          /\ UNCHANGED said
    /\ UNCHANGED <<recordVars, listVars, claimVars, published, intents, itemStatus, job>>

(* The manager cancels the batch before the item is attempted.             *)
Cancel(p) ==
    /\ Kind[p] = "crm"
    /\ journal[p].state \in {"waiting_for_approval", "approval_pending"}
    /\ Ask
    /\ SetItem(p, "canceled")
    /\ UNCHANGED <<recordVars, listVars, claimVars, published, intents, itemStatus, said, job>>

PublishItem(p) ==
    /\ itemStatus[p] # journal[p]
    /\ itemStatus' = [itemStatus EXCEPT ![p] = journal[p]]
    /\ UNCHANGED <<recordVars, claimVars, listVars, published, journal, intents, said, job>>

-----------------------------------------------------------------------------
\* A sync service that forgets the claim with its database.
MutCommit(p) ==
    /\ Kind[p] = "room"
    /\ claimed[p] = NoRecord
    /\ claimed' = [claimed EXCEPT ![p] = decision[p]]
    /\ claimed'[p] # NoRecord
    /\ UNCHANGED <<recordVars, itemVars, listVars, claim, published, said, job>>

(* The relay: the first decision the sync service observes is committed    *)
(* as the claim, written to the room, and only then published, with the    *)
(* result of the tab that owns it. The database may be lost at any point;  *)
(* the claim in the room survives it.                                      *)
Commit(p) ==
    /\ Kind[p] = "room"
    /\ claimed[p] = NoRecord
    /\ claimed' = [claimed EXCEPT ![p] = IF claim[p] # NoRecord THEN claim[p] ELSE decision[p]]
    /\ claimed'[p] # NoRecord
    /\ UNCHANGED <<recordVars, itemVars, listVars, claim, published, said, job>>

Checkpoint(p) ==
    /\ claimed[p] # NoRecord /\ claim[p] = NoRecord
    /\ claim' = [claim EXCEPT ![p] = claimed[p]]
    /\ UNCHANGED <<recordVars, itemVars, listVars, claimed, published, said, job>>

Selected(p) ==
    IF decision[p].claim = claimed[p].by /\ decision[p].is = claimed[p].is
    THEN decision[p].send ELSE claimed[p].send
Payload(p) == [is |-> claimed[p].is, send |-> Selected(p)]

Publish(p) ==
    /\ claimed[p] # NoRecord /\ claim[p] # NoRecord
    /\ published[p] # Payload(p)
    /\ published' = [published EXCEPT ![p] = Payload(p)]
    /\ UNCHANGED <<recordVars, claimVars, itemVars, listVars, said, job>>

LoseDatabase ==
    /\ \E p \in Suggestions : claimed[p] # NoRecord
    /\ claimed' = [p \in Suggestions |-> NoRecord]
    /\ UNCHANGED <<recordVars, itemVars, listVars, claim, published, said, job>>

-----------------------------------------------------------------------------
(* A tab refreshes its list every ten seconds, and as a whole: what was    *)
(* read before a decision may be shown after it.                           *)
FetchHistory(t) ==
    /\ SignedIn(t)
    /\ fetched[t] = None
    /\ \E p \in Suggestions : view[t][p] # Shown(p)
    /\ refreshes < MaxRefreshes
    /\ refreshes' = refreshes + 1
    /\ fetched' = [fetched EXCEPT ![t] = [login |-> token[t],
                                          list |-> [p \in Suggestions |-> Shown(p)]]]
    /\ UNCHANGED <<recordVars, claimVars, itemVars, published, said, job, view, told>>

ShowHistory(t) ==
    /\ fetched[t] # None
    /\ fetched' = [fetched EXCEPT ![t] = None]
    /\ view' = IF fetched[t].login = token[t] THEN [view EXCEPT ![t] = fetched[t].list] ELSE view
    /\ UNCHANGED <<recordVars, claimVars, itemVars, published, said, job, refreshes, told>>

DecisionStep(t) ==
    \/ \E p \in Suggestions, is \in Decisions, how \in {"alone", "reworded"} :
            Decide(t, p, is, how)
    \/ \E r \in Rooms : SendAll(t, r)

TabStep(t) ==
    \/ Drop(t) \/ Fail(t) \/ Check(t) \/ WriteDecision(t) \/ Poll(t) \/ GiveUp(t) \/ Send(t)
    \/ WriteResult(t) \/ ReadItem(t) \/ WriteIntent(t) \/ FetchHistory(t) \/ ShowHistory(t)

RequestStep ==
    \/ \E t \in Tabs : DecisionStep(t)
    \/ \E p \in Suggestions : Cancel(p)

ServiceStep(p) ==
    \/ \E d \in Approvals : Ingest(p, d)
    \/ Drain(p) \/ Dispatch(p) \/ PublishItem(p)
    \/ Commit(p) \/ Checkpoint(p) \/ Publish(p)

vars == <<sessionVars, queueVars>>

Init == SessionInit /\ QueueInit

Next ==
    \/ SessionNext /\ UNCHANGED queueVars
    \/ RequestStep /\ UNCHANGED exceptAsked
    \/ \E t \in Tabs : TabStep(t) /\ UNCHANGED sessionVars
    \/ \E p \in Suggestions : ServiceStep(p) /\ UNCHANGED sessionVars
    \/ LoseDatabase /\ UNCHANGED sessionVars

Spec == Init /\ [][Next]_vars
-----------------------------------------------------------------------------
(* A message is sent for a suggestion only on behalf of the one decision   *)
(* that was claimed, and never after a decline: two tabs that accept at    *)
(* the same time, a tab that was overtaken and a manager who cancels do    *)
(* not make a second message or an unwanted one.                           *)
SaidOnce ==
    \A p \in Suggestions : said[p] # {} =>
        IF Kind[p] = "crm"
        THEN said[p] = {journal[p].approval} /\ journal[p].approval # "decline"
        ELSE said[p] = {claim[p].by} /\ claim[p].is = "accepted"

(* A tab that was told its approval or its decline stands was told the     *)
(* truth: the item's journal holds that decision, with those words.        *)
ToldStands ==
    \A t \in Tabs, p \in Suggestions : told[t][p] # None => journal[p].approval = told[t][p]

(* The decision the manager is told never changes, whichever tab writes    *)
(* last and whatever the sync service forgets.                             *)
DecisionStands ==
    [][\A p \in Suggestions :
        published[p].is # None => published'[p].is = published[p].is]_vars
=============================================================================
