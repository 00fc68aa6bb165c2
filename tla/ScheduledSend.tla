---------------------------- MODULE ScheduledSend ----------------------------
(***************************************************************************)
(* The teammate's own scheduled messages.  The app writes a scheduled_send *)
(* event into the local proposals room; the uplink arms a row when its     *)
(* tail of the local homeserver shows the event, and at send_at sends the  *)
(* message once, behind gates S-1 to S-8, and files an outcome record.     *)
(*                                                                         *)
(* One thread, one pass of the loop:                                       *)
(*                                                                         *)
(*   config -> queue (quiet -> dispatch -> file)* -> tail -> advance       *)
(*                                                                         *)
(* The queue runs whether or not the organization link is on; the tail,    *)
(* which arms, runs only when it is.  The teammate, the contacts, the      *)
(* Direct path and the clock act between the steps.                        *)
(***************************************************************************)
EXTENDS Integers, FiniteSets, Sequences, Functions

CONSTANTS
    Items,        \* com.jkali.scheduled_send events
    Rooms,        \* the teammate's conversations
    Target,       \* Target[i]: the conversation i is for
    Shape,        \* Shape[i]: what the content of i is
    None,         \* absent
    Cap,          \* direct_send_cap, per room and rolling hour
    ScanLimit,    \* SUPERSEDED_SCAN_LIMIT
    SyncLimit,    \* events of one room's timeline in a /sync without a filter
    MaxFaults,    \* bound: crashes, failed and unanswered writes
    MaxReplies,   \* bound: messages somebody types in a conversation
    MaxCancels,   \* bound: cancellations
    MaxAutos,     \* bound: automatic sends of the Direct path
    MaxLinks      \* bound: switches of the organization link

Shapes == {"plain", "command", "bad_time"}
Verdicts == {"sent", "ambiguous", "refused", "held", "cancelled"}
Pending == {"refuse_pending", "cancel_pending"}
RowStates == {"none", "armed", "attempted"} \cup Pending \cup Verdicts
Events == [kind : {"send", "cancel"} \cup Verdicts, item : Items]
ControlPoints == {"config", "queue", "quiet", "dispatch", "file", "tail", "advance"}
Jobs == [on : BOOLEAN, item : Items \cup {None}, verdict : Verdicts \cup {"none"},
         clear : BOOLEAN, sent : BOOLEAN, seen : Nat, upto : Nat]
Counts == [faults : Nat, replies : Nat, autos : Nat, links : Nat]

ASSUME ScheduleAssumption ==
    /\ IsFiniteSet(Items)
    /\ Target \in [Items -> Rooms]
    /\ Shape \in [Items -> Shapes]
    /\ None \notin Items /\ "typed" \notin Items /\ "auto" \notin Items
    /\ Cap \in Nat /\ ScanLimit \in Nat /\ SyncLimit \in Nat
    /\ MaxFaults \in Nat /\ MaxReplies \in Nat /\ MaxCancels \in Nat
    /\ MaxAutos \in Nat /\ MaxLinks \in Nat

VARIABLES
    \* The teammate and the local homeserver.
    link,        \* com.jkali.master_link is on
    feed,        \* the local proposals room, oldest event first
    stamp,       \* stamp[i]: messages in Target[i] when i was scheduled
    convo,       \* convo[r]: what was said, oldest first: "typed", "auto" or an item
    due,         \* "early" | "open" | "late": send_at and the fire window against now
    \* state.db
    sched,       \* scheduled_sends.state
    ticks,       \* direct_send_log: items that spent a tick of the hour
    auto,        \* direct_send_log: ticks of the Direct path, per room
    attributed,  \* attributed_rooms
    since,       \* meta sync_since, as the count of events passed
    \* The process.
    pc, job,
    \* History, for the properties and the bounds only.
    puts,        \* dispatches handed to the local homeserver, per item
    hour,        \* items dispatched within the last hour
    byhand,      \* held items the teammate sent with "Send now"
    count        \* [faults, replies, autos, links] used so far

hubVars == <<link, feed, stamp, convo, due>>
rowVars == <<sched, ticks, auto>>
tailVars == <<attributed, since>>
ghostVars == <<puts, hour, byhand, count>>
vars == <<hubVars, rowVars, tailVars, pc, job, ghostVars>>

Written(i) == [kind |-> "send", item |-> i] \in Range(feed)
Cancelled(i) == [kind |-> "cancel", item |-> i] \in Range(feed)
Recorded(i) == {v \in Verdicts : [kind |-> v, item |-> i] \in Range(feed)}
IdleJob == [on |-> FALSE, item |-> None, verdict |-> "none", clear |-> FALSE,
            sent |-> FALSE, seen |-> 0, upto |-> 0]

Init ==
    /\ link = TRUE
    /\ feed = <<>>
    /\ stamp = [i \in Items |-> 0]
    /\ convo = [r \in Rooms |-> <<>>]
    /\ due = [i \in Items |-> "early"]
    /\ sched = [i \in Items |-> "none"]
    /\ ticks = {} /\ auto = [r \in Rooms |-> 0]
    /\ attributed \in SUBSET Rooms
    /\ since = 0
    /\ pc = "config" /\ job = IdleJob
    /\ puts = [i \in Items |-> 0]
    /\ hour = {} /\ byhand = {}
    /\ count = [faults |-> 0, replies |-> 0, autos |-> 0, links |-> 0]

-----------------------------------------------------------------------------
(* Conditions the gates test. *)

(* S-2: the cancellation state event itself is read, not the row. *)
CalledOffRow(i) == sched[i] = "cancel_pending"
CalledOff(i) == Cancelled(i)

(* S-7: one budget for the Direct path and for the schedules.              *)
Spent(r, S) == Cardinality({i \in S : Target[i] = r}) + auto[r]
UnderCapAlone(r) == Cardinality({i \in ticks : Target[i] = r}) < Cap
UnderCap(r) == Spent(r, ticks) < Cap

(* S-8: among the newest ScanLimit messages, none that somebody typed is   *)
(* newer than the schedule. The daemon's own sends do not count.           *)
QuietNewest(i) ==
    LET said == convo[Target[i]]
    IN Len(said) > stamp[i] => said[Len(said)] # "typed"
QuietSince(i) ==
    LET said == convo[Target[i]]
    IN \A k \in DOMAIN said :
         k > Len(said) - ScanLimit /\ k > stamp[i] => said[k] # "typed"

(* S-3 to S-7: what is decided without a network read.                     *)
LocalGates(i) ==
    /\ Shape[i] = "plain"
    /\ due[i] = "open"
    /\ Target[i] \in attributed
    /\ UnderCap(Target[i])

-----------------------------------------------------------------------------
(* One pass of the loop. *)

Config == /\ pc = "config"
          /\ job' = [IdleJob EXCEPT !.on = link]
          /\ pc' = "queue"
          /\ UNCHANGED <<hubVars, rowVars, tailVars, ghostVars>>

(* File one outcome record for i next. *)
ToFile(i, v) == /\ job' = [job EXCEPT !.item = i, !.verdict = v]
                /\ pc' = "file"

(* scheduled_once works in three lists: interrupted sends, rows that only  *)
(* await their record, then the rows that are due.                         *)
Interrupted == {i \in Items : sched[i] = "attempted"}
Unanswered == {i \in Items : sched[i] \in Pending}
DueInWindow == {i \in Items : sched[i] = "armed" /\ due[i] = "open"}
Due == {i \in Items : sched[i] = "armed" /\ due[i] # "early"}

(* S-10: the intent was committed and its result is not known: never sent  *)
(* again.                                                                  *)
Recover(i) ==
    /\ pc = "queue" /\ i \in Interrupted
    /\ ToFile(i, "ambiguous")
    /\ UNCHANGED <<hubVars, rowVars, tailVars, ghostVars>>

Answer(i) ==
    /\ pc = "queue" /\ Interrupted = {} /\ i \in Unanswered
    /\ ToFile(i, IF sched[i] = "refuse_pending" THEN "refused" ELSE "cancelled")
    /\ UNCHANGED <<hubVars, rowVars, tailVars, ghostVars>>

(* _scheduled_send_gate up to S-7. An unreadable cancellation holds, so a  *)
(* hold needs no reason; the order of two due rows is left open.           *)
Judge(i) ==
    /\ pc = "queue" /\ Interrupted = {} /\ Unanswered = {} /\ i \in Due
    /\ \/ CalledOff(i) /\ ToFile(i, "cancelled")
       \/ ToFile(i, "held")
       \/ /\ ~CalledOff(i)
          /\ Shape[i] = "plain" /\ due[i] = "open" /\ Target[i] \notin attributed
          /\ ToFile(i, "refused")
       \/ /\ ~CalledOff(i) /\ LocalGates(i)
          /\ job' = [job EXCEPT !.item = i, !.clear = ~Cancelled(i)]
          /\ pc' = "quiet"
    /\ UNCHANGED <<hubVars, rowVars, tailVars, ghostVars>>

QueueDone ==
    /\ pc = "queue" /\ Interrupted \cup Unanswered \cup Due = {}
    /\ pc' = "tail"
    /\ UNCHANGED <<hubVars, rowVars, tailVars, job, ghostVars>>

(* S-8 is the last gate; _scheduled_dispatch then commits the intent with  *)
(* its tick before the PUT.                                                *)
TickOnly(i) == ticks' = ticks \cup {i} /\ UNCHANGED sched
Intend(i) == /\ sched' = [sched EXCEPT ![i] = "attempted"]
             /\ ticks' = ticks \cup {i}

Commit ==
    /\ pc = "quiet"
    /\ \/ /\ QuietSince(job.item)
          /\ Intend(job.item)
          /\ job' = [job EXCEPT !.seen = Len(convo[Target[job.item]])]
          /\ pc' = "dispatch"
       \/ ToFile(job.item, "held") /\ UNCHANGED <<sched, ticks>>
    /\ UNCHANGED <<hubVars, auto, tailVars, ghostVars>>

(* The PUT under transaction sched_<i>: confirmed; refused with a 4xx; or  *)
(* unanswered, applied or not. The homeserver applies it once.             *)
Say(i) == convo' = [convo EXCEPT ![Target[i]] =
                      IF i \in Range(@) THEN @ ELSE Append(@, i)]

UnknownIsRefused(answer) == IF answer = "confirmed" THEN "sent" ELSE "refused"
VerdictOf(answer) == CASE answer = "confirmed" -> "sent"
                       [] answer = "refused" -> "refused"
                       [] answer = "unknown" -> "ambiguous"

Dispatch ==
    /\ pc = "dispatch"
    /\ puts' = [puts EXCEPT ![job.item] = @ + 1]
    /\ hour' = hour \cup {job.item}
    /\ \E answer \in {"confirmed", "refused", "unknown"} :
         /\ job' = [job EXCEPT !.verdict = VerdictOf(answer), !.sent = TRUE]
         /\ \/ answer # "refused" /\ Say(job.item)
            \/ answer # "confirmed" /\ UNCHANGED convo
         /\ IF answer = "unknown"
            THEN count.faults < MaxFaults /\ count' = [count EXCEPT !.faults = @ + 1]
            ELSE UNCHANGED count
    /\ pc' = "file"
    /\ UNCHANGED <<link, feed, stamp, due, rowVars, tailVars, byhand>>

(* _file_scheduled_outcome: PUT the record under schedout_ID_STATE,        *)
(* then commit the row. One dispatch ends the stage.                       *)
PutRecord == LET e == [kind |-> job.verdict, item |-> job.item]
             IN feed' = IF e \in Range(feed) THEN feed ELSE Append(feed, e)

File ==
    /\ pc = "file"
    /\ PutRecord
    /\ sched' = [sched EXCEPT ![job.item] = job.verdict]
    /\ pc' = IF job.sent THEN "tail" ELSE "queue"
    /\ job' = [IdleJob EXCEPT !.on = job.on]
    /\ UNCHANGED <<link, stamp, convo, due, ticks, auto, tailVars, ghostVars>>

(* The write fails, or its answer is lost: the stage raises before the     *)
(* commit of the row, and the loop goes on with the next stage.            *)
RowKept == UNCHANGED sched

FileFails ==
    /\ pc = "file" /\ count.faults < MaxFaults
    /\ count' = [count EXCEPT !.faults = @ + 1]
    /\ PutRecord \/ UNCHANGED feed
    /\ RowKept
    /\ pc' = "tail"
    /\ job' = [IdleJob EXCEPT !.on = job.on]
    /\ UNCHANGED <<link, stamp, convo, due, ticks, auto, tailVars, puts, hour, byhand>>

(* tail_once and _arm_scheduled: one /sync shows the newest SyncLimit      *)
(* events since the token, and the cancellations, which are state, however *)
(* old. A row is inserted unless there is one; only a row that was not     *)
(* attempted yet is marked by a cancellation.                              *)
ArmedRow(i) == IF Shape[i] = "bad_time" THEN "refuse_pending" ELSE "armed"

MarkAnyRow(i) == sched[i] # "none"
MayMark(i) == sched[i] \in {"armed", "refuse_pending"}

Arm(new, shown) == sched' =
    [i \in Items |->
        LET called == [kind |-> "cancel", item |-> i] \in new
            wrote == [kind |-> "send", item |-> i] \in shown /\ sched[i] = "none"
        IN IF called /\ (wrote \/ MayMark(i)) THEN "cancel_pending"
           ELSE IF wrote THEN ArmedRow(i)
           ELSE sched[i]]

TailOnce ==
    /\ pc = "tail" /\ job.on
    /\ Arm({feed[k] : k \in since + 1 .. Len(feed)},
           {feed[k] : k \in {n \in since + 1 .. Len(feed) : n > Len(feed) - SyncLimit}})
    /\ job' = [job EXCEPT !.upto = IF link THEN Len(feed) ELSE since]
    /\ pc' = "advance"
    /\ UNCHANGED <<hubVars, ticks, auto, tailVars, ghostVars>>

(* The token moves in a commit of its own, and stays when the batch says   *)
(* that the link was switched off.                                         *)
Advance ==
    /\ pc = "advance"
    /\ since' = job.upto
    /\ pc' = "config" /\ job' = IdleJob
    /\ UNCHANGED <<hubVars, rowVars, attributed, ghostVars>>

NoTail ==
    /\ pc = "tail" /\ ~job.on
    /\ pc' = "config" /\ job' = IdleJob
    /\ UNCHANGED <<hubVars, rowVars, tailVars, ghostVars>>

(* The process dies, or a stage raises or exhausts its budget and the pass *)
(* is over.                                                                *)
Interrupt ==
    /\ pc # "config" /\ count.faults < MaxFaults
    /\ count' = [count EXCEPT !.faults = @ + 1]
    /\ pc' = "config" /\ job' = IdleJob
    /\ UNCHANGED <<hubVars, rowVars, tailVars, puts, hour, byhand>>

(* Other stages: reconcile replaces the set of attributed conversations;   *)
(* the Direct path sends into a conversation and spends a tick.            *)
Reconcile(S) ==
    /\ pc = "tail" /\ job.on /\ S # attributed
    /\ attributed' = S
    /\ UNCHANGED <<hubVars, rowVars, since, pc, job, ghostVars>>

DirectSends(r) ==
    /\ pc = "config" /\ link
    /\ UnderCap(r)
    /\ count.autos < MaxAutos
    /\ count' = [count EXCEPT !.autos = @ + 1]
    /\ auto' = [auto EXCEPT ![r] = @ + 1]
    /\ convo' = [convo EXCEPT ![r] = Append(@, "auto")]
    /\ UNCHANGED <<link, feed, stamp, due, sched, ticks, tailVars, pc, job, puts, hour, byhand>>

-----------------------------------------------------------------------------
(* The teammate in the app, the contacts and the clock. *)

(* writeSchedule, cancelSchedule. *)
Schedule(i) ==
    /\ ~Written(i)
    /\ feed' = Append(feed, [kind |-> "send", item |-> i])
    /\ stamp' = [stamp EXCEPT ![i] = Len(convo[Target[i]])]
    /\ UNCHANGED <<link, convo, due, rowVars, tailVars, pc, job, ghostVars>>

Cancel(i) ==
    /\ Written(i) /\ ~Cancelled(i) /\ Cardinality({j \in Items : Cancelled(j)}) < MaxCancels
    /\ feed' = Append(feed, [kind |-> "cancel", item |-> i])
    /\ UNCHANGED <<link, stamp, convo, due, rowVars, tailVars, pc, job, ghostVars>>

(* classifySchedules: what the app shows is the newest record.             *)
Shown(i) ==
    LET filed == {k \in DOMAIN feed : feed[k].item = i /\ feed[k].kind \in Verdicts}
    IN IF filed # {} THEN feed[CHOOSE k \in filed : \A n \in filed : n <= k].kind
       ELSE IF Cancelled(i) THEN "cancelled"
       ELSE IF Written(i) THEN "scheduled" ELSE "none"

(* sendHeldNow: an ordinary message first; its Cancel follows in a request *)
(* of its own, if the browser stays open.                                  *)
SendHeldNow(i) ==
    /\ Shown(i) = "held" /\ i \notin byhand
    /\ convo' = [convo EXCEPT ![Target[i]] = Append(@, "typed")]
    /\ byhand' = byhand \cup {i}
    /\ UNCHANGED <<link, feed, stamp, due, rowVars, tailVars, pc, job, puts, hour, count>>

Reply(r) ==
    /\ count.replies < MaxReplies
    /\ count' = [count EXCEPT !.replies = @ + 1]
    /\ convo' = [convo EXCEPT ![r] = Append(@, "typed")]
    /\ UNCHANGED <<link, feed, stamp, due, rowVars, tailVars, pc, job, puts, hour, byhand>>

Switch ==
    /\ count.links < MaxLinks
    /\ count' = [count EXCEPT !.links = @ + 1]
    /\ link' = ~link
    /\ UNCHANGED <<feed, stamp, convo, due, rowVars, tailVars, pc, job, puts, hour, byhand>>

(* send_at arrives, if it is a time; the fire window of ten minutes closes. *)
ComesDue(i) ==
    /\ Written(i) /\ due[i] = "early" /\ Shape[i] # "bad_time"
    /\ due' = [due EXCEPT ![i] = "open"]
    /\ UNCHANGED <<link, feed, stamp, convo, rowVars, tailVars, pc, job, ghostVars>>

GrowsLate(i) ==
    /\ due[i] = "open"
    /\ due' = [due EXCEPT ![i] = "late"]
    /\ UNCHANGED <<link, feed, stamp, convo, rowVars, tailVars, pc, job, ghostVars>>

(* The tick of i, or of an automatic send, leaves the rolling hour; the    *)
(* dispatch of i follows its tick within the timeout of one request.       *)
HourPasses(i) ==
    /\ i \in ticks /\ (pc = "dispatch" => job.item # i)
    /\ ticks' = ticks \ {i} /\ hour' = hour \ {i}
    /\ UNCHANGED <<hubVars, sched, auto, tailVars, pc, job, puts, byhand, count>>

AutoExpires(r) ==
    /\ auto[r] > 0
    /\ auto' = [auto EXCEPT ![r] = @ - 1]
    /\ UNCHANGED <<hubVars, sched, ticks, tailVars, pc, job, ghostVars>>

Daemon == \/ Config \/ QueueDone \/ Commit \/ Dispatch \/ File
          \/ TailOnce \/ Advance \/ NoTail
          \/ \E i \in Items : Recover(i) \/ Answer(i) \/ Judge(i)

Environment == \/ Switch
               \/ \E r \in Rooms : Reply(r) \/ AutoExpires(r)
               \/ \E i \in Items :
                    \/ Schedule(i) \/ Cancel(i) \/ SendHeldNow(i)
                    \/ ComesDue(i) \/ GrowsLate(i) \/ HourPasses(i)

Next == \/ Daemon \/ FileFails \/ Interrupt
        \/ \E S \in SUBSET Rooms : Reconcile(S)
        \/ \E r \in Rooms : DirectSends(r)
        \/ Environment

Spec == Init /\ [][Next]_vars

(* The loop never stops and time passes. *)
FairSpec == Spec /\ WF_vars(Daemon) /\ \A i \in Items : WF_vars(ComesDue(i))

-----------------------------------------------------------------------------
TypeHub ==
    /\ link \in BOOLEAN
    /\ feed \in Seq(Events)
    /\ stamp \in [Items -> Nat]
    /\ convo \in [Rooms -> Seq(Items \cup {"typed", "auto"})]
    /\ due \in [Items -> {"early", "open", "late"}]

TypeRows ==
    /\ sched \in [Items -> RowStates]
    /\ ticks \subseteq Items
    /\ auto \in [Rooms -> Nat]
    /\ attributed \subseteq Rooms
    /\ since \in Nat

TypePass == pc \in ControlPoints /\ job \in Jobs

TypeGhosts ==
    /\ puts \in [Items -> Nat]
    /\ hour \subseteq Items /\ byhand \subseteq Items
    /\ count \in Counts

TypeOK == TypeHub /\ TypeRows /\ TypePass /\ TypeGhosts

-----------------------------------------------------------------------------
(* Whatever fails, no schedule is handed to the homeserver as a message    *)
(* twice (_scheduled_dispatch commits "attempted" first; a replayed tail   *)
(* never re-arms).                                                         *)
AtMostOneDispatch == \A i \in Items : puts[i] <= 1

(* A schedule the teammate had cancelled when the queue took it up is not  *)
(* sent, however far the tail is behind (S-2 reads the state event).       *)
CancelledNeverSent ==
    [][\A i \in Items : puts'[i] # puts[i] => job.clear]_vars

(* A row that says refused, held or cancelled is the row of a message that *)
(* was never said, late answers and recoveries included.                   *)
RefusedMeansNotSaid ==
    \A i \in Items :
        sched[i] \in {"refused", "held", "cancelled"} => i \notin Range(convo[Target[i]])

(* A row reaches its final state only when the teammate can read its       *)
(* record in the app (the record's PUT comes before the row's commit).     *)
AnsweredIsFiled ==
    \A i \in Items : sched[i] \in Verdicts => sched[i] \in Recorded(i)

(* S-7: within the hour, the schedules and the Direct path together send   *)
(* no more than Cap messages into one conversation.                        *)
CapRespected == \A r \in Rooms : Spent(r, hour) <= Cap

(* S-8: what is dispatched had not been overtaken, when the conversation   *)
(* was read, by anything somebody typed after it was scheduled.            *)
OvertakenNeverSent ==
    pc = "dispatch" =>
        \A k \in stamp[job.item] + 1 .. job.seen : convo[Target[job.item]][k] # "typed"

(* Every schedule the queue holds is answered in the end, with the link on *)
(* or off, after any number of late starts, if failures stop.              *)
ArmedIsAnswered == \A i \in Items : sched[i] = "armed" ~> sched[i] \in Verdicts

(* The path implements the once-only contract.                             *)
Once == INSTANCE OnceOnlySend WITH
            Items  <- Items,
            intent <- {i \in Items :
                         puts[i] > 0 \/ sched[i] \in {"attempted", "sent", "ambiguous"}},
            issued <- puts,
            closed <- {i \in Items : sched[i] \in Verdicts}
OnceOnly == Once!Spec

=============================================================================
