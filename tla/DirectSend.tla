----------------------------- MODULE DirectSend -----------------------------
(***************************************************************************)
(* The uplink's manager-proposal path: a proposal the manager posts on the *)
(* master homeserver becomes either ONE draft in the teammate's inbox or,  *)
(* when the target conversation is at the "direct" level and every gate    *)
(* passes, ONE message sent from the teammate's account with its record.   *)
(*                                                                         *)
(* The daemon is one thread.  A pass is the sequence of control points     *)
(*                                                                         *)
(*   config -> bind -> (suspend) -> ensure -> pull -> next ... -> drain    *)
(*          -> next ... -> timed -> fire ... -> config                     *)
(*                                                                         *)
(* and between two of them the teammate, the manager, the clock and the    *)
(* two homeservers act.  A step ends at each network call or database      *)
(* commit, because the process can die there and because what was read     *)
(* before it may have changed after it.                                    *)
(***************************************************************************)
EXTENDS Integers, FiniteSets, Sequences, Functions

CONSTANTS
    Proposals,     \* com.jkali.proposal events
    Rooms,         \* the teammate's conversations
    Links,         \* contents of com.jkali.master_link the teammate may connect
    Target,        \* Target[p]: the conversation p is addressed to
    Kind,          \* Kind[p]: what the content and the sender of p are
    Identity,      \* Identity[l]: (master_hs, master_user, manager_mxid)
    Authority,     \* Authority[l]: the master's authority id
    Epoch,         \* Epoch[l]: the master's data epoch
    FirstLink,     \* the connection of a fresh install
    None,          \* absent
    Seasoned,      \* the outcome ledger holds rows of earlier proposals
    Cap,           \* direct_send_cap, per room and rolling hour
    ScanLimit,     \* SUPERSEDED_SCAN_LIMIT
    BatchLimit,    \* timeline limit of the proposals /sync
    MaxFaults,     \* bound: crashes, failed and unanswered writes
    MaxLevels,     \* bound: changes of a share level
    MaxReplies,    \* bound: messages somebody else adds to a conversation
    MaxLinks       \* bound: changes of the connection

Kinds == {"now", "timed", "suggest", "malformed", "foreign"}
Levels == {"private", "share", "direct"}
Records == {"draft", "sent_record", "ambiguous_record"}
Final == {"sent", "ambiguous", "fallback"}
Outcomes == {"none", "scheduled", "attempted"} \cup Final
ControlPoints == {"config", "bind", "suspend", "ensure", "pull", "next", "consent",
                  "quiet", "dispatch", "record", "drain", "timed", "fire", "mark"}
Identities == {Identity[l] : l \in Links} \cup {None}
Counts == [faults : Nat, replies : Nat, links : Nat, levels : Nat, rooms : Nat, stamps : Nat]
Jobs == [link : Links \cup {None}, src : {"none", "pull", "pending", "timed"},
         p : Proposals \cup {None}, queue : SUBSET Proposals,
         cold : BOOLEAN, suspended : BOOLEAN, upto : Nat,
         rec : Records \cup {"none"}, seen : Nat, sent : BOOLEAN]

ASSUME ConstantsAssumption ==
    /\ IsFiniteSet(Proposals)
    /\ Target \in [Proposals -> Rooms]
    /\ Kind \in [Proposals -> Kinds]
    /\ FirstLink \in Links
    /\ None \notin Links /\ Seasoned \in BOOLEAN
    /\ Cap \in Nat /\ ScanLimit \in Nat /\ BatchLimit \in Nat \ {0}
    /\ MaxFaults \in Nat /\ MaxReplies \in Nat
    /\ MaxLinks \in Nat /\ MaxLevels \in Nat

VARIABLES
    \* The teammate: account data on the local homeserver, read over the network.
    level,      \* resolved share level of each conversation
    control,    \* com.jkali.master_link; None when the link is switched off
    notice,     \* com.jkali.direct_send_suspended
    ack,        \* com.jkali.direct_send_ack
    \* The master homeserver.
    origin,     \* origin[p]: where, in which order, by and when p was posted
    due,        \* "early" | "open" | "late": send_at and freshness against now
    \* The local homeserver.
    convo,      \* convo[r]: what was said, oldest first: "reply" or a proposal
    inbox,      \* inbox[p]: the event filed under transaction proposal_<p>
    \* state.db
    outcome,    \* proposal_map.outcome
    sched,      \* scheduled_sends.state of a manager-timed row
    ticks,      \* direct_send_log: proposals that spent a tick of the hour
    mark,       \* meta proposal_sync_since, as the count of events passed
    backlog,    \* proposals behind a limited timeline, to be paged by history
    pending,    \* proposal_pending
    room,       \* meta master_proposals_room (0: none), an instance number
    bound,      \* meta proposal_identity
    susp,       \* meta direct_send_suspended_ts (0: not suspended)
    dest,       \* meta archive_destination, as the link it was taken from
    mirrored,   \* mirror_rooms
    off,        \* meta link_disabled
    \* The process.
    pc, job,
    \* History, for the properties and the bounds only.
    puts,       \* dispatches handed to the local homeserver, per proposal
    hour,       \* proposals dispatched within the last hour
    willing,    \* conversations at "direct" at some moment of the current pass
    confirmed,  \* master authorities adopted first, or confirmed in the app
    count       \* [faults, replies, links, levels, rooms, stamps] used so far

userVars == <<level, control, notice, ack>>
masterVars == <<origin, due>>
hubVars == <<convo, inbox>>
ledgerVars == <<outcome, sched, ticks>>
feedVars == <<mark, backlog, pending>>
bindVars == <<room, bound, susp, dest, mirrored, off>>
ghostVars == <<puts, hour, willing, confirmed, count>>
vars == <<userVars, masterVars, hubVars, ledgerVars, feedVars, bindVars,
          pc, job, ghostVars>>

Unposted == [room |-> 0, nth |-> 0, by |-> None, at |-> 0]
Posted == {p \in Proposals : origin[p].nth > 0}
Authorities(l) == <<Identity[l], Authority[l]>>
Destination(l) == <<Identity[l], Authority[l], Epoch[l]>>
IdleJob == [link |-> None, src |-> "none", p |-> None, queue |-> {},
            cold |-> TRUE, suspended |-> TRUE, upto |-> 0, rec |-> "none",
            seen |-> 0, sent |-> FALSE]

Init ==
    /\ level \in [Rooms -> {"private", "direct"}]
    /\ control = FirstLink
    /\ notice = None /\ ack = None
    /\ origin = [p \in Proposals |-> Unposted]
    /\ due = [p \in Proposals |-> IF Kind[p] = "timed" THEN "early" ELSE "open"]
    /\ convo = [r \in Rooms |-> <<>>]
    /\ inbox = [p \in Proposals |-> "none"]
    /\ outcome = [p \in Proposals |-> "none"]
    /\ sched = [p \in Proposals |-> "none"]
    /\ ticks = {}
    /\ mark = None /\ backlog = {} /\ pending = {}
    /\ room = 0 /\ bound = None /\ susp = 0 /\ dest = None
    /\ mirrored = {} /\ off = FALSE
    /\ pc = "config" /\ job = IdleJob
    /\ puts = [p \in Proposals |-> 0]
    /\ hour = {} /\ willing = {}
    /\ confirmed = {}
    /\ count = [faults |-> 0, replies |-> 0, links |-> 0, levels |-> 0, rooms |-> 0, stamps |-> 0]

-----------------------------------------------------------------------------
(* Conditions the handlers test. *)

(* The control read still names the connection this pass was configured    *)
(* from.                                                                   *)
Active == ~off /\ control = job.link

(* A suspension starts with a new stamp and is surfaced to the app on a    *)
(* best-effort basis: the write that fails is logged, not retried.         *)
Suspend(l) ==
    /\ susp' = count.stamps + 1
    /\ \E told \in BOOLEAN :
         /\ told \/ count.faults < MaxFaults
         /\ notice' = IF told THEN [link |-> l, ts |-> count.stamps + 1] ELSE notice
         /\ count' = [count EXCEPT !.stamps = @ + 1,
                                   !.faults = @ + (IF told THEN 0 ELSE 1)]

(* The acknowledgement echoes the very suspension this daemon holds.       *)
AckPresent == ack # None
AckMatches == /\ ack # None
              /\ Identity[ack.link] = bound
              /\ ack.ts = susp

(* A cold start: no watermark, or nothing in the outcome ledger.           *)
ColdStart == \/ mark = None
             \/ ~Seasoned /\ \A p \in Proposals : outcome[p] = "none"

(* The first proposal of a queue in timeline order.                        *)
Earliest(S) == CHOOSE p \in S : \A q \in S : origin[p].nth <= origin[q].nth

(* proposal_map has no row for p. *)
Fresh(p) == outcome[p] = "none"

(* Gates D2-11, D2-1, D2-3 and D2-4: what is decided without a network     *)
(* read.                                                                   *)
CheapGates(p, cold, suspended) ==
    /\ ~suspended
    /\ Cap > 0
    /\ Kind[p] # "foreign" /\ origin[p].by = bound
    /\ ~cold
    /\ due[p] = "open"
    /\ Target[p] \in mirrored

(* D2-5: the level this very read returns. *)
WillingAtReconcile(r) == r \in mirrored
Willing(r) == level[r] = "direct"

(* What parks a timed proposal instead of filing it at once.               *)
MayArm(p) == /\ ~job.cold /\ ~job.suspended
             /\ Target[p] \in mirrored
             /\ Willing(Target[p])

(* D2-6. *)
UpToCap(r) == Cardinality({p \in ticks : Target[p] = r}) <= Cap
UnderCap(r) == Cardinality({p \in ticks : Target[p] = r}) < Cap

(* D2-12: among the newest ScanLimit messages, none but this daemon's own  *)
(* sends is newer than the proposal.                                       *)
QuietNewest(p) ==
    LET said == convo[Target[p]]
    IN Len(said) > origin[p].at => said[Len(said)] # "reply"
QuietSince(p) ==
    LET said == convo[Target[p]]
    IN \A i \in DOMAIN said :
         i > Len(said) - ScanLimit /\ i > origin[p].at => said[i] # "reply"

-----------------------------------------------------------------------------
(* One pass of the loop. *)

(* refresh_master_config and destination_binding. A different destination  *)
(* forgets the copies on the old one; a different authority suspends.      *)
ConfigOff == /\ pc = "config" /\ control = None
             /\ off' = TRUE
             /\ UNCHANGED <<userVars, masterVars, hubVars, ledgerVars, feedVars,
                            room, bound, susp, dest, mirrored, pc, job, ghostVars>>

RebindDestination(l) ==
    IF dest = None \/ Destination(dest) = Destination(l)
    THEN UNCHANGED <<notice, susp, count, room, mark, pending, backlog, mirrored>>
    ELSE /\ room' = 0 /\ mark' = None
         /\ pending' = {} /\ backlog' = {} /\ mirrored' = {}
         /\ IF Authority[dest] # Authority[l]
            THEN Suspend(l)
            ELSE UNCHANGED <<notice, susp, count>>

ConfigOn ==
    /\ pc = "config" /\ control # None
    /\ off' = FALSE
    /\ RebindDestination(control)
    /\ dest' = control
    /\ job' = [IdleJob EXCEPT !.link = control]
    /\ pc' = "bind"
    /\ willing' = {r \in Rooms : level[r] = "direct"}
    /\ UNCHANGED <<level, control, ack, masterVars, hubVars, ledgerVars, bound,
                   puts, hour, confirmed>>

(* refresh_direct_send_binding, first half: adopt the first identity, or   *)
(* drop the room and the watermark of the one before. The identity is      *)
(* committed here and the suspension in a commit of its own.               *)
InvalidateWithLedger == /\ room' = 0 /\ mark' = None
                        /\ outcome' = [p \in Proposals |-> "none"]
InvalidateBinding == room' = 0 /\ mark' = None /\ UNCHANGED outcome

Bind ==
    /\ pc = "bind"
    /\ bound' = Identity[job.link]
    /\ IF bound = None \/ bound = Identity[job.link]
       THEN pc' = "ensure" /\ UNCHANGED <<room, mark, outcome>>
       ELSE pc' = "suspend" /\ InvalidateBinding
    /\ confirmed' = IF bound = None THEN confirmed \cup {Authorities(job.link)}
                                    ELSE confirmed
    /\ UNCHANGED <<userVars, masterVars, hubVars, sched, ticks, backlog, pending,
                   susp, dest, mirrored, off, job, puts, hour, willing, count>>

SuspendRebound ==
    /\ pc = "suspend"
    /\ Suspend(job.link)
    /\ pc' = "ensure"
    /\ UNCHANGED <<level, control, ack, masterVars, hubVars, ledgerVars, feedVars,
                   room, bound, dest, mirrored, off, job, puts, hour, willing, confirmed>>

(* refresh_direct_send_binding, second half, and ensure_proposal_rooms: an *)
(* acknowledgement that matches ends the suspension; a missing proposals   *)
(* room is created and starts without a watermark. The creation may be     *)
(* applied and its answer lost: the room is then an orphan.                *)
Ensure ==
    /\ pc = "ensure"
    /\ susp' = IF susp # 0 /\ AckMatches THEN 0 ELSE susp
    /\ \/ /\ room # 0
          /\ pc' = "pull" /\ job' = [job EXCEPT !.suspended = susp' # 0]
          /\ UNCHANGED <<room, mark, count>>
       \/ /\ room = 0
          /\ room' = count.rooms + 1 /\ mark' = None
          /\ count' = [count EXCEPT !.rooms = @ + 1]
          /\ pc' = "pull" /\ job' = [job EXCEPT !.suspended = susp' # 0]
       \/ /\ room = 0 /\ count.faults < MaxFaults
          /\ count' = [count EXCEPT !.rooms = @ + 1, !.faults = @ + 1]
          /\ pc' = "config" /\ job' = IdleJob
          /\ UNCHANGED <<room, mark>>
    /\ UNCHANGED <<userVars, masterVars, hubVars, ledgerVars, backlog, pending,
                   bound, dest, mirrored, off, puts, hour, willing, confirmed>>

(* pull_proposals up to the batch: the newest BatchLimit events since the  *)
(* watermark; what a limited timeline leaves behind is history's work.     *)
LeftBehind(new, batch) == new \ batch

Pull ==
    LET seen == IF mark = None THEN 0 ELSE mark
        new == {p \in Posted : origin[p].room = room /\ origin[p].nth > seen}
        batch == {p \in new :
                    Cardinality({q \in new : origin[q].nth > origin[p].nth}) < BatchLimit}
    IN /\ pc = "pull"
       /\ backlog' = backlog \cup LeftBehind(new, batch)
       /\ job' = [job EXCEPT !.src = "pull", !.queue = batch, !.cold = ColdStart,
                             !.upto = Cardinality(Posted)]
       /\ pc' = "next"
       /\ UNCHANGED <<userVars, masterVars, hubVars, ledgerVars, mark, pending,
                      bindVars, ghostVars>>

(* The loop of forward_proposals ends, by exhaustion or because the        *)
(* connection is no longer the one this pass was configured from; either   *)
(* way the caller then advances the watermark, or deletes the pending row. *)
EndBatch ==
    /\ pc = "next"
    /\ job.queue = {} \/ ~Active
    /\ off' = (off \/ (job.queue # {} /\ control = None))
    /\ IF job.src = "pull"
       THEN mark' = job.upto /\ UNCHANGED pending
       ELSE pending' = pending \ {job.p} /\ UNCHANGED mark
    /\ job' = [job EXCEPT !.queue = {}, !.p = None]
    /\ pc' = "drain"
    /\ UNCHANGED <<userVars, masterVars, hubVars, ledgerVars, backlog, room, bound,
                   susp, dest, mirrored, ghostVars>>

(* forward_proposals takes the next event of its batch while the link is   *)
(* live.                                                                   *)
Taking(p) == /\ pc = "next" /\ job.queue # {} /\ Active
             /\ p = Earliest(job.queue)

(* Already has its one artifact, or is parked. *)
SkipHandled(p) ==
    /\ Taking(p)
    /\ outcome[p] \notin {"none", "attempted"}
    /\ job' = [job EXCEPT !.queue = @ \ {p}]
    /\ UNCHANGED <<userVars, masterVars, hubVars, ledgerVars, feedVars, bindVars,
                   pc, ghostVars>>

(* A proposal whose content does not sanitize is recorded as handled.      *)
RetireMalformed(p) ==
    /\ Taking(p)
    /\ Fresh(p) /\ Kind[p] = "malformed"
    /\ outcome' = [outcome EXCEPT ![p] = "fallback"]
    /\ job' = [job EXCEPT !.queue = @ \ {p}]
    /\ UNCHANGED <<userVars, masterVars, hubVars, sched, ticks, feedVars, bindVars,
                   pc, ghostVars>>

(* File one record for p next. *)
ToRecord(p, rec) == /\ job' = [job EXCEPT !.p = p, !.rec = rec]
                    /\ pc' = "record"

(* D2-9: the intent was committed and no artifact was recorded: never      *)
(* sent again, reported as possibly sent.                                  *)
RecoverAttempted(p) ==
    /\ Taking(p)
    /\ outcome[p] = "attempted"
    /\ ToRecord(p, "ambiguous_record")
    /\ UNCHANGED <<userVars, masterVars, hubVars, ledgerVars, feedVars, bindVars,
                   ghostVars>>

(* A timed proposal is parked when it may be armed; else it is drafted.    *)
ArmTimed(p) ==
    /\ Taking(p)
    /\ Fresh(p) /\ Kind[p] = "timed"
    /\ MayArm(p)
    /\ sched' = [sched EXCEPT ![p] = "armed"]
    /\ outcome' = [outcome EXCEPT ![p] = "scheduled"]
    /\ job' = [job EXCEPT !.queue = @ \ {p}]
    /\ UNCHANGED <<userVars, masterVars, hubVars, ticks, feedVars, bindVars, pc,
                   ghostVars>>

(* The ordinary draft without a further read: the manager only suggests,   *)
(* the schedule cannot be armed (any failed level read counts), or a gate  *)
(* decided locally refuses.                                                *)
DraftAtOnce(p) ==
    /\ Taking(p)
    /\ Fresh(p)
    /\ \/ Kind[p] \in {"suggest", "timed"}
       \/ Kind[p] \in {"now", "foreign"} /\ ~CheapGates(p, job.cold, job.suspended)
    /\ ToRecord(p, "draft")
    /\ UNCHANGED <<userVars, masterVars, hubVars, ledgerVars, feedVars, bindVars,
                   ghostVars>>

Evaluate(p) ==
    /\ Taking(p)
    /\ Fresh(p) /\ Kind[p] \in {"now", "foreign"}
    /\ CheapGates(p, job.cold, job.suspended)
    /\ job' = [job EXCEPT !.p = p]
    /\ pc' = "consent"
    /\ UNCHANGED <<userVars, masterVars, hubVars, ledgerVars, feedVars, bindVars,
                   ghostVars>>

(* D2-5 and D2-6: a fresh read of the level, then the cap. A read that     *)
(* fails is a refusal, so a refusal needs no reason.                       *)
Consent ==
    /\ pc = "consent"
    /\ \/ /\ Willing(Target[job.p]) /\ UnderCap(Target[job.p])
          /\ pc' = "quiet" /\ UNCHANGED job
       \/ ToRecord(job.p, "draft")
    /\ UNCHANGED <<userVars, masterVars, hubVars, ledgerVars, feedVars, bindVars,
                   ghostVars>>

(* _auto_send commits the intent and the tick before the PUT.              *)
TickOnly(p) == ticks' = ticks \cup {p} /\ UNCHANGED outcome
Intend(p) == /\ outcome' = [outcome EXCEPT ![p] = "attempted"]
             /\ ticks' = ticks \cup {p}

(* D2-12 is the last gate read; the intent follows without another read.   *)
Commit ==
    /\ pc = "quiet"
    /\ \/ /\ QuietSince(job.p)
          /\ Intend(job.p)
          /\ job' = [job EXCEPT !.seen = Len(convo[Target[job.p]])]
          /\ pc' = "dispatch"
       \/ ToRecord(job.p, "draft") /\ UNCHANGED <<outcome, ticks>>
    /\ UNCHANGED <<userVars, masterVars, hubVars, sched, feedVars, bindVars,
                   ghostVars>>

(* The PUT under transaction autosend_<p>. Confirmed; refused with a 4xx;  *)
(* or unanswered, applied or not. The homeserver applies it once.          *)
Say(p) == convo' = [convo EXCEPT ![Target[p]] =
                      IF p \in Range(@) THEN @ ELSE Append(@, p)]

(* The record each answer calls for. *)
UnknownIsSent(answer) == IF answer = "refused" THEN "draft" ELSE "sent_record"
RecordFor(answer) == CASE answer = "confirmed" -> "sent_record"
                       [] answer = "refused" -> "draft"
                       [] answer = "unknown" -> "ambiguous_record"

Dispatch ==
    /\ pc = "dispatch"
    /\ puts' = [puts EXCEPT ![job.p] = @ + 1]
    /\ hour' = hour \cup {job.p}
    /\ \E answer \in {"confirmed", "refused", "unknown"} :
         /\ job' = [job EXCEPT !.rec = RecordFor(answer), !.sent = TRUE]
         /\ \/ answer # "refused" /\ Say(job.p)
            \/ answer # "confirmed" /\ UNCHANGED convo
         /\ IF answer = "unknown"
            THEN count.faults < MaxFaults /\ count' = [count EXCEPT !.faults = @ + 1]
            ELSE UNCHANGED count
    /\ pc' = "record"
    /\ UNCHANGED <<userVars, masterVars, inbox, ledgerVars, feedVars, bindVars,
                   willing, confirmed>>

(* _file_proposal_record: PUT the artifact under transaction proposal_<p>, *)
(* then commit the outcome. The homeserver keeps the first event of a      *)
(* transaction. A write that fails, or whose answer is lost, aborts the    *)
(* pass before the commit.                                                 *)
OutcomeOf(rec) == CASE rec = "draft" -> "fallback"
                    [] rec = "sent_record" -> "sent"
                    [] rec = "ambiguous_record" -> "ambiguous"

FileArtifact == inbox' = [inbox EXCEPT ![job.p] = IF @ = "none" THEN job.rec ELSE @]

Record ==
    /\ pc = "record"
    /\ FileArtifact
    /\ outcome' = [outcome EXCEPT ![job.p] = OutcomeOf(job.rec)]
    /\ IF job.src = "timed"
       THEN pc' = "mark" /\ UNCHANGED job
       ELSE pc' = "next" /\ job' = [job EXCEPT !.queue = @ \ {job.p}, !.rec = "none",
                                               !.seen = 0, !.sent = FALSE]
    /\ UNCHANGED <<userVars, masterVars, convo, sched, ticks, feedVars, bindVars,
                   ghostVars>>

RecordFails ==
    /\ pc = "record" /\ count.faults < MaxFaults
    /\ count' = [count EXCEPT !.faults = @ + 1]
    /\ FileArtifact
    /\ pc' = "config" /\ job' = IdleJob
    /\ UNCHANGED <<userVars, masterVars, convo, ledgerVars, feedVars, bindVars,
                   puts, hour, willing, confirmed>>

(* deliver_proposal_pending: each staged proposal as a batch of its own    *)
(* that counts as a cold start.                                            *)
Drain(p) ==
    /\ pc = "drain" /\ ~off
    /\ p \in pending /\ p = Earliest(pending)
    /\ pc' = "next"
    /\ job' = [job EXCEPT !.src = "pending", !.queue = {p}, !.p = p, !.cold = TRUE]
    /\ UNCHANGED <<userVars, masterVars, hubVars, ledgerVars, feedVars, bindVars,
                   ghostVars>>

Drained ==
    /\ pc = "drain" /\ (pending = {} \/ off)
    /\ pc' = "timed" /\ job' = [job EXCEPT !.src = "timed"]
    /\ UNCHANGED <<userVars, masterVars, hubVars, ledgerVars, feedVars, bindVars,
                   ghostVars>>

(* scheduled_manager_once: nothing is due, the link is not the one of this *)
(* pass, or the identity is suspended: the pass ends.                      *)
DueInWindow == {p \in Proposals : sched[p] = "armed" /\ due[p] = "open"}
DueTimed == {p \in Proposals : sched[p] = "armed" /\ due[p] # "early"}

EndPass == /\ pc' = "config" /\ job' = IdleJob

Timed ==
    /\ pc = "timed"
    /\ IF DueTimed = {} \/ ~Active
       THEN /\ EndPass
            /\ off' = (off \/ (DueTimed # {} /\ control = None))
            /\ UNCHANGED susp
       ELSE /\ susp' = IF AckMatches THEN 0 ELSE susp
            /\ IF susp' # 0 THEN EndPass ELSE pc' = "fire" /\ UNCHANGED job
            /\ UNCHANGED off
    /\ UNCHANGED <<userVars, masterVars, hubVars, ledgerVars, feedVars, room, bound,
                   dest, mirrored, ghostVars>>

FireDone == /\ pc = "fire" /\ DueTimed = {}
            /\ EndPass
            /\ UNCHANGED <<userVars, masterVars, hubVars, ledgerVars, feedVars,
                           bindVars, ghostVars>>

(* A due row whose proposal reached another outcome, or whose event the    *)
(* re-read does not find in the current proposals room, only changes state.*)
HandledOrGone(p) == outcome[p] \notin {"scheduled", "attempted"} \/ origin[p].room # room

CloseDue(p) ==
    /\ pc = "fire" /\ p \in DueTimed
    /\ HandledOrGone(p)
    /\ sched' = [sched EXCEPT ![p] = "done"]
    /\ UNCHANGED <<userVars, masterVars, hubVars, outcome, ticks, feedVars, bindVars,
                   pc, job, ghostVars>>

(* The other due rows go through recovery or through every gate again.     *)
FireDue(p) ==
    /\ pc = "fire" /\ p \in DueTimed
    /\ ~HandledOrGone(p)
    /\ IF outcome[p] = "attempted"
       THEN ToRecord(p, "ambiguous_record")
       ELSE IF CheapGates(p, FALSE, FALSE)
       THEN pc' = "consent" /\ job' = [job EXCEPT !.p = p]
       ELSE ToRecord(p, "draft")
    /\ UNCHANGED <<userVars, masterVars, hubVars, ledgerVars, feedVars, bindVars,
                   ghostVars>>

(* _mark_schedule after the record; one dispatch ends the pass. *)
MarkSchedule ==
    /\ pc = "mark"
    /\ sched' = [sched EXCEPT ![job.p] = "done"]
    /\ IF job.sent
       THEN EndPass
       ELSE pc' = "fire" /\ job' = [job EXCEPT !.p = None, !.rec = "none"]
    /\ UNCHANGED <<userVars, masterVars, hubVars, outcome, ticks, feedVars, bindVars,
                   ghostVars>>

(* The process dies, or a read the stage does not absorb raises: what the  *)
(* pass held in memory is gone.                                            *)
Interrupt ==
    /\ pc # "config" /\ count.faults < MaxFaults
    /\ count' = [count EXCEPT !.faults = @ + 1]
    /\ EndPass
    /\ UNCHANGED <<userVars, masterVars, hubVars, ledgerVars, feedVars, bindVars,
                   puts, hour, willing, confirmed>>

(* Later stages of the loop: history pages the backlog into the staged     *)
(* queue; reconcile follows the shared set one conversation at a time.     *)
HistoryDown ==
    /\ pc = "config" /\ backlog # {}
    /\ pending' = pending \cup backlog /\ backlog' = {}
    /\ UNCHANGED <<userVars, masterVars, hubVars, ledgerVars, mark, bindVars, pc, job,
                   ghostVars>>

Reconcile(r) ==
    /\ pc = "config" /\ dest # None
    /\ mirrored' = IF level[r] = "private" THEN mirrored \ {r} ELSE mirrored \cup {r}
    /\ mirrored' # mirrored
    /\ UNCHANGED <<userVars, masterVars, hubVars, ledgerVars, feedVars, room, bound,
                   susp, dest, off, pc, job, ghostVars>>
-----------------------------------------------------------------------------
(* Everybody else. *)

SetLevel(r, l) ==
    /\ level[r] # l
    /\ count.levels < MaxLevels
    /\ count' = [count EXCEPT !.levels = @ + 1]
    /\ level' = [level EXCEPT ![r] = l]
    /\ willing' = IF l = "direct" THEN willing \cup {r} ELSE willing
    /\ UNCHANGED <<control, notice, ack, masterVars, hubVars, ledgerVars, feedVars,
                   bindVars, pc, job, puts, hour, confirmed>>

(* Somebody writes in a conversation: the contact, or the teammate by hand *)
(* or by a scheduled send.                                                 *)
Reply(r) ==
    /\ count.replies < MaxReplies
    /\ count' = [count EXCEPT !.replies = @ + 1]
    /\ convo' = [convo EXCEPT ![r] = Append(@, "reply")]
    /\ UNCHANGED <<userVars, masterVars, inbox, ledgerVars, feedVars, bindVars,
                   pc, job, puts, hour, willing, confirmed>>

(* The teammate connects another organization, or switches the link off.   *)
Relink(l) ==
    /\ l # control /\ count.links < MaxLinks
    /\ control' = l
    /\ count' = [count EXCEPT !.links = @ + 1]
    /\ UNCHANGED <<level, notice, ack, masterVars, hubVars, ledgerVars, feedVars,
                   bindVars, pc, job, puts, hour, willing, confirmed>>

(* The teammate confirms the suspension the app shows. *)
Acknowledge ==
    /\ notice # None /\ ack # notice
    /\ ack' = notice
    /\ confirmed' = confirmed \cup {Authorities(notice.link)}
    /\ UNCHANGED <<level, control, notice, masterVars, hubVars, ledgerVars, feedVars,
                   bindVars, pc, job, puts, hour, willing, count>>

(* The manager posts in the proposals room this install has on record.     *)
Post(p) ==
    /\ room # 0 /\ origin[p] = Unposted
    /\ origin' = [origin EXCEPT ![p] =
                    [room |-> room, nth |-> Cardinality(Posted) + 1, by |-> bound,
                     at |-> Len(convo[Target[p]])]]
    /\ UNCHANGED <<userVars, due, hubVars, ledgerVars, feedVars, bindVars, pc, job,
                   ghostVars>>

(* send_at arrives; ten minutes pass after it, or after an untimed post.   *)
ComesDue(p) == /\ p \in Posted /\ due[p] = "early"
               /\ due' = [due EXCEPT ![p] = "open"]
               /\ UNCHANGED <<userVars, origin, hubVars, ledgerVars, feedVars,
                              bindVars, pc, job, ghostVars>>

GrowsStale(p) == /\ p \in Posted /\ due[p] = "open"
                 /\ due' = [due EXCEPT ![p] = "late"]
                 /\ UNCHANGED <<userVars, origin, hubVars, ledgerVars, feedVars,
                                bindVars, pc, job, ghostVars>>

(* The tick of p leaves the rolling hour, and so does its dispatch, which  *)
(* follows the tick within the timeout of one request.                     *)
HourPasses(p) ==
    /\ p \in ticks /\ (pc = "dispatch" => job.p # p)
    /\ ticks' = ticks \ {p} /\ hour' = hour \ {p}
    /\ UNCHANGED <<userVars, masterVars, hubVars, outcome, sched, feedVars, bindVars,
                   pc, job, puts, willing, confirmed, count>>

Daemon == \/ ConfigOn \/ Bind \/ SuspendRebound \/ Ensure \/ Pull \/ EndBatch
          \/ \E p \in Proposals :
               \/ SkipHandled(p) \/ RetireMalformed(p) \/ RecoverAttempted(p)
               \/ ArmTimed(p) \/ DraftAtOnce(p) \/ Evaluate(p)
          \/ Consent \/ Commit \/ Dispatch \/ Record
          \/ Drained \/ Timed \/ FireDone \/ MarkSchedule
          \/ \E p \in Proposals : Drain(p) \/ CloseDue(p) \/ FireDue(p)

Environment == \/ \E r \in Rooms, l \in Levels : SetLevel(r, l)
               \/ \E r \in Rooms : Reply(r)
               \/ \E l \in Links \cup {None} : Relink(l)
               \/ Acknowledge
               \/ \E p \in Proposals :
                    Post(p) \/ ComesDue(p) \/ GrowsStale(p) \/ HourPasses(p)

Next == \/ Daemon \/ ConfigOff \/ HistoryDown \/ \E r \in Rooms : Reconcile(r)
        \/ RecordFails \/ Interrupt
        \/ Environment

Spec == Init /\ [][Next]_vars

(* The loop never stops; time passes; the history stage is not starved.    *)
FairSpec == /\ Spec
            /\ WF_vars(Daemon) /\ SF_vars(HistoryDown)
            /\ \A p \in Proposals : WF_vars(ComesDue(p))

-----------------------------------------------------------------------------
TypeUser ==
    /\ level \in [Rooms -> Levels]
    /\ control \in Links \cup {None}
    /\ notice \in [link : Links, ts : Nat] \cup {None}
    /\ ack \in [link : Links, ts : Nat] \cup {None}

TypeEvents ==
    /\ origin \in [Proposals -> [room : Nat, nth : Nat, by : Identities, at : Nat]]
    /\ due \in [Proposals -> {"early", "open", "late"}]
    /\ convo \in [Rooms -> Seq(Proposals \cup {"reply"})]
    /\ inbox \in [Proposals -> Records \cup {"none"}]

TypeLedger ==
    /\ outcome \in [Proposals -> Outcomes]
    /\ sched \in [Proposals -> {"none", "armed", "done"}]
    /\ ticks \subseteq Proposals
    /\ puts \in [Proposals -> Nat]
    /\ hour \subseteq Proposals

TypeFeed ==
    /\ mark \in Nat \cup {None}
    /\ backlog \subseteq Proposals /\ pending \subseteq Proposals
    /\ room \in Nat /\ susp \in Nat
    /\ count \in Counts

TypeBinding ==
    /\ bound \in Identities
    /\ dest \in Links \cup {None}
    /\ mirrored \subseteq Rooms /\ off \in BOOLEAN
    /\ willing \subseteq Rooms
    /\ confirmed \subseteq {Authorities(l) : l \in Links}

TypePass == pc \in ControlPoints /\ job \in Jobs

TypeOK == TypeUser /\ TypeEvents /\ TypeLedger /\ TypeFeed /\ TypeBinding /\ TypePass

-----------------------------------------------------------------------------
(* Whatever fails, whatever is retried, no proposal is handed to the       *)
(* homeserver as a message twice (_auto_send commits "attempted" first).   *)
AtMostOneDispatch == \A p \in Proposals : puts[p] <= 1

(* A message that may have left is in the ledger for good: neither a crash *)
(* nor a change of authority forgets it (D2-9, and "Outcomes are a safety  *)
(* ledger and must survive authority changes").                            *)
DispatchOnLedger ==
    \A p \in Proposals : puts[p] > 0 => outcome[p] \notin {"none", "scheduled"}

(* An outcome, once recorded, is never revised (proposal_map).             *)
OutcomesAreFinal ==
    [][\A p \in Proposals : outcome[p] \in Final
                            => outcome'[p] = outcome[p]]_vars

(* D2-6: never more than Cap sends into one conversation within the hour,  *)
(* restarts included.                                                      *)
CapRespected ==
    \A r \in Rooms : Cardinality({p \in hour : Target[p] = r}) <= Cap

(* D2-12: what is dispatched had not been overtaken, when the conversation *)
(* was read, by anything anybody else said after it was written.           *)
OvertakenNeverSent ==
    pc = "dispatch" =>
        \A i \in origin[job.p].at + 1 .. job.seen : convo[Target[job.p]][i] # "reply"

(* D2-5: a conversation that was not at "direct" at any moment of the pass *)
(* receives no automatic message, whatever its level was when the proposal *)
(* was parked.                                                             *)
DirectRoomsOnly ==
    [][\A p \in Proposals : puts'[p] # puts[p] => Target[p] \in willing]_vars

(* D2-1 and D2-11: only the manager of the master this install adopted     *)
(* first, or the teammate confirmed after the change, speaks through the   *)
(* account.                                                                *)
ConfirmedSenderOnly ==
    [][\A p \in Proposals : puts'[p] # puts[p] =>
         /\ Kind[p] # "foreign"
         /\ origin[p].by = Identity[dest]
         /\ Authorities(dest) \in confirmed]_vars

(* The record of a send is true: it was said in the conversation.          *)
SentRecordTruthful ==
    \A p \in Proposals :
        inbox[p] = "sent_record" \/ outcome[p] = "sent" => p \in Range(convo[Target[p]])

(* Every posted proposal reaches the teammate's inbox, if failures stop    *)
(* and the connection is left alone.                                       *)
EveryProposalFiled ==
    \A p \in Proposals : Kind[p] # "malformed" =>
        (p \in Posted ~> inbox[p] # "none")

(* The path implements the once-only contract.                             *)
Once == INSTANCE OnceOnlySend WITH
            Items  <- Proposals,
            intent <- {p \in Proposals :
                         puts[p] > 0 \/ outcome[p] \in {"attempted", "sent", "ambiguous"}},
            issued <- puts,
            closed <- {p \in Proposals : outcome[p] \in Final}
OnceOnly == Once!Spec

=============================================================================
