------------------------ MODULE ScheduledSendProofs ------------------------
(***************************************************************************)
(* What holds of ScheduledSend for every finite set of schedules, every    *)
(* set of conversations and whatever the bounds.                           *)
(***************************************************************************)
EXTENDS ScheduledSend, FiniteSetTheorems, TLAPS

USE DEF hubVars, rowVars, tailVars, ghostVars

-----------------------------------------------------------------------------
(* Types; with them, what a pass holds at each control point. *)

Held ==
    /\ pc \in {"quiet", "dispatch", "file"} => job.item \in Items
    /\ pc = "file" => job.verdict \in Verdicts

TypeInv == TypeOK /\ Held

(* The actions one by one. *)
LEMMA StepCases == ASSUME [Next]_vars PROVE
    \/ UNCHANGED vars
    \/ Config \/ QueueDone \/ Commit \/ Dispatch \/ File \/ FileFails
    \/ TailOnce \/ Advance \/ NoTail \/ Interrupt \/ Switch
    \/ \E i \in Items :
         \/ Recover(i) \/ Answer(i) \/ Judge(i)
         \/ Schedule(i) \/ Cancel(i) \/ SendHeldNow(i)
         \/ ComesDue(i) \/ GrowsLate(i) \/ HourPasses(i)
    \/ \E r \in Rooms : DirectSends(r) \/ Reply(r) \/ AutoExpires(r)
    \/ \E S \in SUBSET Rooms : Reconcile(S)
<1>1. CASE UNCHANGED vars
  BY <1>1
<1>2. CASE Daemon
  BY <1>2 DEF Daemon
<1>3. CASE Environment
  BY <1>3 DEF Environment
<1>4. CASE
         \/ FileFails \/ Interrupt \/ \E S \in SUBSET Rooms : Reconcile(S)
         \/ \E r \in Rooms : DirectSends(r)
  BY <1>4
<1> QED BY <1>1, <1>2, <1>3, <1>4 DEF Next

LEMMA IdleJobTyped ==
  /\ IdleJob \in Jobs
  /\ \A b \in BOOLEAN : [IdleJob EXCEPT !.on = b] \in Jobs
  BY DEF IdleJob, Jobs

LEMMA CountsTyped ==
  ASSUME NEW c \in Counts
  PROVE  /\ [c EXCEPT !.faults = @ + 1] \in Counts
         /\ [c EXCEPT !.replies = @ + 1] \in Counts
         /\ [c EXCEPT !.autos = @ + 1] \in Counts
         /\ [c EXCEPT !.links = @ + 1] \in Counts
BY DEF Counts

LEMMA TypeInit == ASSUME Init PROVE TypeInv
<1>1. TypeHub /\ TypeRows /\ TypeGhosts
  BY DEF Init, TypeHub, TypeRows, TypeGhosts, RowStates, Counts
<1>2. TypePass /\ Held
  BY IdleJobTyped DEF Init, TypePass, Held, ControlPoints
<1> QED BY <1>1, <1>2 DEF TypeInv, TypeOK

(* One more message in a conversation. *)
LEMMA SayTyped ==
  ASSUME TypeOK, NEW r \in Rooms, NEW m \in Items \cup {"typed", "auto"}
  PROVE  [convo EXCEPT ![r] = Append(@, m)] \in [Rooms -> Seq(Items \cup {"typed", "auto"})]
<1>1. convo[r] \in Seq(Items \cup {"typed", "auto"})
  BY DEF TypeOK, TypeHub
<1>2. Append(convo[r], m) \in Seq(Items \cup {"typed", "auto"})
  BY <1>1
<1> QED BY <1>2 DEF TypeOK, TypeHub

(* One more event in the local proposals room. *)
LEMMA FeedTyped ==
  ASSUME TypeOK, NEW k \in {"send", "cancel"} \cup Verdicts, NEW i \in Items
  PROVE  Append(feed, [kind |-> k, item |-> i]) \in Seq(Events)
<1>1. [kind |-> k, item |-> i] \in Events
  BY DEF Events
<1> QED BY <1>1 DEF TypeOK, TypeHub

LEMMA TypeHubNext == ASSUME TypeInv, [Next]_vars PROVE TypeHub'
<1>0. TypeOK
  BY DEF TypeInv
<1>1. CASE Dispatch
  <2>1. job.item \in Items /\ Target[job.item] \in Rooms
    BY <1>1, ScheduleAssumption DEF Dispatch, TypeInv, Held
  <2>2. Say(job.item) \/ UNCHANGED convo
    BY <1>1 DEF Dispatch
  <2>3. \/ convo' = [convo EXCEPT ![Target[job.item]] = Append(@, job.item)]
        \/ convo' = convo
    BY <1>0, <2>1, <2>2 DEF Say, TypeOK, TypeHub
  <2>4. [convo EXCEPT ![Target[job.item]] = Append(@, job.item)]
          \in [Rooms -> Seq(Items \cup {"typed", "auto"})]
    BY <1>0, <2>1, SayTyped
  <2>5. convo' \in [Rooms -> Seq(Items \cup {"typed", "auto"})]
    BY <1>0, <2>3, <2>4 DEF TypeOK, TypeHub
  <2> QED BY <1>0, <1>1, <2>5 DEF Dispatch, TypeOK, TypeHub
<1>2. CASE File \/ FileFails
  <2>1. job.item \in Items /\ job.verdict \in Verdicts
    BY <1>2 DEF File, FileFails, TypeInv, Held
  <2>2. Append(feed, [kind |-> job.verdict, item |-> job.item]) \in Seq(Events)
    BY <1>0, <2>1, FeedTyped
  <2>3. \/ feed' = feed
        \/ feed' = Append(feed, [kind |-> job.verdict, item |-> job.item])
    BY <1>2 DEF File, FileFails, PutRecord
  <2>4. feed' \in Seq(Events)
    BY <1>0, <2>2, <2>3 DEF TypeOK, TypeHub
  <2> QED BY <1>0, <1>2, <2>4 DEF File, FileFails, TypeOK, TypeHub
<1>3. ASSUME NEW i \in Items, Schedule(i) PROVE TypeHub'
  <2>1. feed' \in Seq(Events)
    BY <1>0, <1>3, FeedTyped DEF Schedule
  <2>2. Target[i] \in Rooms
    BY ScheduleAssumption
  <2>3. Len(convo[Target[i]]) \in Nat
    BY <1>0, <2>2 DEF TypeOK, TypeHub
  <2> QED BY <1>0, <1>3, <2>1, <2>3 DEF Schedule, TypeOK, TypeHub
<1>4. ASSUME NEW i \in Items, Cancel(i) PROVE TypeHub'
  <2>1. feed' \in Seq(Events)
    BY <1>0, <1>4, FeedTyped DEF Cancel
  <2> QED BY <1>0, <1>4, <2>1 DEF Cancel, TypeOK, TypeHub
<1>5. ASSUME NEW i \in Items, SendHeldNow(i) PROVE TypeHub'
  <2>1. convo' \in [Rooms -> Seq(Items \cup {"typed", "auto"})]
    BY <1>0, <1>5, SayTyped, ScheduleAssumption DEF SendHeldNow
  <2> QED BY <1>0, <1>5, <2>1 DEF SendHeldNow, TypeOK, TypeHub
<1>6. ASSUME NEW r \in Rooms, DirectSends(r) \/ Reply(r) PROVE TypeHub'
  <2>1. /\ [convo EXCEPT ![r] = Append(@, "typed")] \in [Rooms -> Seq(Items \cup {"typed", "auto"})]
        /\ [convo EXCEPT ![r] = Append(@, "auto")] \in [Rooms -> Seq(Items \cup {"typed", "auto"})]
    BY <1>0, SayTyped
  <2>2. convo' \in [Rooms -> Seq(Items \cup {"typed", "auto"})]
    BY <1>6, <2>1 DEF DirectSends, Reply
  <2> QED BY <1>0, <1>6, <2>2 DEF DirectSends, Reply, TypeOK, TypeHub
<1>7. ASSUME NEW i \in Items, ComesDue(i) \/ GrowsLate(i) PROVE TypeHub'
  BY <1>0, <1>7 DEF ComesDue, GrowsLate, TypeOK, TypeHub
<1>8. CASE Switch
  BY <1>0, <1>8 DEF Switch, TypeOK, TypeHub
<1>9. CASE
         \/ UNCHANGED vars \/ Config \/ QueueDone \/ Commit \/ TailOnce \/ Advance
         \/ NoTail \/ Interrupt
         \/ \E i \in Items : Recover(i) \/ Answer(i) \/ Judge(i) \/ HourPasses(i)
         \/ \E r \in Rooms : AutoExpires(r)
         \/ \E S \in SUBSET Rooms : Reconcile(S)
  BY <1>0, <1>9
  DEF TypeOK, TypeHub, vars, Config, QueueDone, Commit, TailOnce, Advance, NoTail,
      Interrupt, Recover, Answer, Judge, HourPasses, AutoExpires, Reconcile
<1> QED
  BY StepCases, <1>1, <1>2, <1>3, <1>4, <1>5, <1>6, <1>7, <1>8, <1>9

(* What the arming of a batch does to a row. *)
LEMMA ArmRow ==
  ASSUME TypeOK, NEW new, NEW shown, Arm(new, shown)
  PROVE  /\ sched' \in [Items -> RowStates]
         /\ \A i \in Items :
              \/ sched'[i] = sched[i]
              \/ /\ sched[i] \in {"none", "armed", "refuse_pending"}
                 /\ sched'[i] \in {"armed", "refuse_pending", "cancel_pending"}
BY DEF TypeOK, TypeRows, Arm, ArmedRow, MayMark, RowStates, Pending

LEMMA TypeRowsNext == ASSUME TypeInv, [Next]_vars PROVE TypeRows'
<1>0. TypeOK
  BY DEF TypeInv
<1>1. CASE Commit
  BY <1>1 DEF TypeInv, TypeOK, TypeRows, Commit, ToFile, Intend, RowStates, Held
<1>2. CASE File
  BY <1>2 DEF TypeInv, TypeOK, TypeRows, File, RowStates, Held
<1>3. CASE TailOnce
  BY <1>0, <1>3, ArmRow DEF TailOnce, TypeOK, TypeRows
<1>4. CASE Advance
  BY <1>4 DEF TypeInv, TypeOK, TypeRows, Advance, TypePass, Jobs
<1>5. ASSUME NEW S \in SUBSET Rooms, Reconcile(S) PROVE TypeRows'
  BY <1>0, <1>5 DEF TypeOK, TypeRows, Reconcile
<1>6. ASSUME NEW r \in Rooms, DirectSends(r) \/ AutoExpires(r) PROVE TypeRows'
  BY <1>0, <1>6 DEF TypeOK, TypeRows, DirectSends, AutoExpires
<1>7. ASSUME NEW i \in Items, HourPasses(i) PROVE TypeRows'
  BY <1>0, <1>7 DEF TypeOK, TypeRows, HourPasses
<1>8. CASE
         \/ UNCHANGED vars \/ Config \/ QueueDone \/ Dispatch \/ FileFails
         \/ NoTail \/ Interrupt \/ Switch
         \/ \E i \in Items : \/ Recover(i) \/ Answer(i) \/ Judge(i)
                             \/ Schedule(i) \/ Cancel(i) \/ SendHeldNow(i)
                             \/ ComesDue(i) \/ GrowsLate(i)
         \/ \E r \in Rooms : Reply(r)
  BY <1>0, <1>8
  DEF TypeOK, TypeRows, vars, Config, QueueDone, Dispatch, FileFails, RowKept,
      NoTail, Interrupt, Switch, Recover, Answer, Judge, Schedule, Cancel,
      SendHeldNow, ComesDue, GrowsLate, Reply
<1> QED
  BY StepCases, <1>1, <1>2, <1>3, <1>4, <1>5, <1>6, <1>7, <1>8

LEMMA TypeGhostsNext == ASSUME TypeInv, [Next]_vars PROVE TypeGhosts'
<1>0. TypeOK
  BY DEF TypeInv
<1>1. CASE Dispatch
  <2>1. count' \in Counts
    BY <1>0, <1>1, CountsTyped DEF TypeOK, TypeGhosts, Dispatch
  <2>2. job.item \in Items
    BY <1>1 DEF TypeInv, Held, Dispatch
  <2> QED BY <1>0, <1>1, <2>1, <2>2 DEF TypeOK, TypeGhosts, Dispatch
<1>2. CASE FileFails \/ Interrupt \/ Switch
  <2>1. count' \in Counts
    BY <1>0, <1>2, CountsTyped DEF TypeOK, TypeGhosts, FileFails, Interrupt, Switch
  <2> QED BY <1>0, <1>2, <2>1 DEF TypeOK, TypeGhosts, FileFails, Interrupt, Switch
<1>3. ASSUME NEW r \in Rooms, DirectSends(r) \/ Reply(r) PROVE TypeGhosts'
  <2>1. count' \in Counts
    BY <1>0, <1>3, CountsTyped DEF TypeOK, TypeGhosts, DirectSends, Reply
  <2> QED BY <1>0, <1>3, <2>1 DEF TypeOK, TypeGhosts, DirectSends, Reply
<1>4. ASSUME NEW i \in Items, SendHeldNow(i) \/ HourPasses(i) PROVE TypeGhosts'
  BY <1>0, <1>4 DEF TypeOK, TypeGhosts, SendHeldNow, HourPasses
<1>5. CASE
         \/ UNCHANGED vars \/ Config \/ QueueDone \/ Commit \/ File
         \/ TailOnce \/ Advance \/ NoTail
         \/ \E i \in Items : \/ Recover(i) \/ Answer(i) \/ Judge(i)
                             \/ Schedule(i) \/ Cancel(i)
                             \/ ComesDue(i) \/ GrowsLate(i)
         \/ \E r \in Rooms : AutoExpires(r)
         \/ \E S \in SUBSET Rooms : Reconcile(S)
  BY <1>0, <1>5
  DEF TypeOK, TypeGhosts, vars, Config, QueueDone, Commit, File, TailOnce, Advance,
      NoTail, Recover, Answer, Judge, Schedule, Cancel, ComesDue, GrowsLate,
      AutoExpires, Reconcile
<1> QED BY StepCases, <1>1, <1>2, <1>3, <1>4, <1>5

LEMMA TypePassNext == ASSUME TypeInv, [Next]_vars PROVE TypePass' /\ Held'
<1>0. /\ job \in Jobs /\ job.on \in BOOLEAN /\ pc \in ControlPoints
      /\ IdleJob \in Jobs
      /\ \A b \in BOOLEAN : [IdleJob EXCEPT !.on = b] \in Jobs
  BY IdleJobTyped DEF TypeInv, TypeOK, TypePass, Jobs
<1>1. ASSUME pc' \in {"config", "queue", "tail"},
             job' = job \/ job' = IdleJob \/ \E b \in BOOLEAN : job' = [IdleJob EXCEPT !.on = b]
      PROVE  TypePass' /\ Held'
  BY <1>0, <1>1 DEF TypePass, Held, ControlPoints
<1>2. CASE Config \/ QueueDone \/ File \/ FileFails \/ Advance \/ NoTail \/ Interrupt
  <2>1. link \in BOOLEAN
    BY DEF TypeInv, TypeOK, TypeHub
  <2>2. pc' \in {"config", "queue", "tail"}
    BY <1>2 DEF Config, QueueDone, File, FileFails, Advance, NoTail, Interrupt
  <2>3. job' = job \/ job' = IdleJob \/ \E b \in BOOLEAN : job' = [IdleJob EXCEPT !.on = b]
    BY <1>0, <1>2, <2>1 DEF Config, QueueDone, File, FileFails, Advance, NoTail, Interrupt
  <2> QED BY <1>1, <2>2, <2>3
<1>3. ASSUME NEW i \in Items, NEW v \in Verdicts, ToFile(i, v) PROVE TypePass' /\ Held'
  <2>1. pc' = "file" /\ job' = [job EXCEPT !.item = i, !.verdict = v]
    BY <1>3 DEF ToFile
  <2>2. job' \in Jobs /\ job'.item = i /\ job'.verdict = v
    BY <1>0, <2>1 DEF Jobs
  <2> QED BY <2>1, <2>2 DEF TypePass, Held, ControlPoints
<1>4. ASSUME NEW i \in Items, Recover(i) \/ Answer(i) PROVE TypePass' /\ Held'
  <2>1. \E v \in Verdicts : ToFile(i, v)
    BY <1>4 DEF Recover, Answer, Verdicts
  <2> QED BY <1>3, <2>1
<1>5. ASSUME NEW i \in Items, Judge(i) PROVE TypePass' /\ Held'
  <2>1. \/ \E v \in Verdicts : ToFile(i, v)
        \/ pc' = "quiet" /\ job' = [job EXCEPT !.item = i, !.clear = ~Cancelled(i)]
    BY <1>5 DEF Judge, Verdicts
  <2>2. CASE pc' = "quiet" /\ job' = [job EXCEPT !.item = i, !.clear = ~Cancelled(i)]
    <3>1. Cancelled(i) \in BOOLEAN
      BY DEF Cancelled
    <3>2. job' \in Jobs /\ job'.item = i
      BY <1>0, <2>2, <3>1 DEF Jobs
    <3> QED BY <2>2, <3>2 DEF TypePass, Held, ControlPoints
  <2> QED BY <1>3, <2>1, <2>2
<1>6. CASE Commit
  <2>1. job.item \in Items /\ "held" \in Verdicts
    BY <1>6 DEF Commit, TypeInv, Held, Verdicts
  <2>2. CASE pc' = "dispatch" /\ job' = [job EXCEPT !.seen = Len(convo[Target[job.item]])]
    <3>1. Len(convo[Target[job.item]]) \in Nat
      BY <2>1, ScheduleAssumption DEF TypeInv, TypeOK, TypeHub
    <3>2. job' \in Jobs /\ job'.item = job.item
      BY <1>0, <2>2, <3>1 DEF Jobs
    <3> QED BY <2>1, <2>2, <3>2 DEF TypePass, Held, ControlPoints
  <2> QED BY <1>3, <1>6, <2>1, <2>2 DEF Commit
<1>7. CASE Dispatch
  <2>1. /\ job.item \in Items /\ pc' = "file"
        /\ \E v \in Verdicts : job' = [job EXCEPT !.verdict = v, !.sent = TRUE]
    BY <1>7 DEF Dispatch, VerdictOf, Verdicts, TypeInv, Held
  <2>2. job' \in Jobs /\ job'.item = job.item /\ job'.verdict \in Verdicts
    BY <1>0, <2>1 DEF Jobs
  <2> QED BY <2>1, <2>2 DEF TypePass, Held, ControlPoints
<1>8. CASE TailOnce
  <2>1. /\ pc' = "advance"
        /\ \E n \in Nat : job' = [job EXCEPT !.upto = n]
    <3>1. Len(feed) \in Nat /\ since \in Nat
      BY DEF TypeInv, TypeOK, TypeHub, TypeRows
    <3>2. (IF link THEN Len(feed) ELSE since) \in Nat
      BY <3>1
    <3>3. job' = [job EXCEPT !.upto = IF link THEN Len(feed) ELSE since]
      BY <1>8 DEF TailOnce
    <3> QED BY <1>8, <3>2, <3>3, Zenon DEF TailOnce
  <2>2. job' \in Jobs
    BY <1>0, <2>1 DEF Jobs
  <2> QED BY <2>1, <2>2 DEF TypePass, Held, ControlPoints
<1>9. CASE
         \/ UNCHANGED vars \/ Switch
         \/ \E i \in Items : \/ Schedule(i) \/ Cancel(i) \/ SendHeldNow(i)
                             \/ ComesDue(i) \/ GrowsLate(i) \/ HourPasses(i)
         \/ \E r \in Rooms : DirectSends(r) \/ Reply(r) \/ AutoExpires(r)
         \/ \E S \in SUBSET Rooms : Reconcile(S)
  <2>1. pc' = pc /\ job' = job
    BY <1>9
    DEF vars, Switch, Schedule, Cancel, SendHeldNow, ComesDue, GrowsLate, HourPasses,
        DirectSends, Reply, AutoExpires, Reconcile
  <2> QED BY <2>1 DEF TypeInv, TypeOK, TypePass, Held
<1> QED
  BY StepCases, <1>2, <1>4, <1>5, <1>6, <1>7, <1>8, <1>9

LEMMA TypeNext == ASSUME TypeInv, [Next]_vars PROVE TypeInv'
  BY TypeHubNext, TypeRowsNext, TypeGhostsNext, TypePassNext DEF TypeInv, TypeOK

(* The variables keep their types, whatever the daemon, the homeserver and *)
(* the teammate do.                                                        *)
THEOREM TypesHold == Spec => []TypeInv
  BY TypeInit, TypeNext, PTL DEF Spec

THEOREM TypeCorrect == Spec => []TypeOK
  BY TypesHold, PTL DEF TypeInv

-----------------------------------------------------------------------------
(* At most one dispatch.  What excludes the second is what the row of the  *)
(* item in hand says at each control point, and that no row which may have *)
(* led to a dispatch is ever armed again, by a replayed tail or by a       *)
(* cancellation that arrives late.                                         *)

DispatchOnRow ==
    \A i \in Items : puts[i] > 0 => sched[i] \in {"attempted"} \cup Verdicts

OnceInv ==
    /\ AtMostOneDispatch
    /\ DispatchOnRow
    /\ pc = "quiet" => sched[job.item] = "armed"
    /\ pc = "dispatch" => sched[job.item] = "attempted" /\ puts[job.item] = 0
    /\ pc = "file" =>
         /\ sched[job.item] \in {"armed", "attempted"} \cup Pending
         /\ job.verdict \in {"sent", "ambiguous"} => sched[job.item] = "attempted"
         /\ sched[job.item] = "attempted" /\ job.verdict \notin {"sent", "ambiguous"}
              => puts[job.item] > 0

LEMMA OnceInit == ASSUME Init PROVE OnceInv
  BY DEF Init, OnceInv, AtMostOneDispatch, DispatchOnRow

(* What a step does to the rows and to the dispatches: every result below  *)
(* is a case analysis over these four.                                     *)
Fed == /\ puts' = puts
       /\ \A i \in Items :
            \/ sched'[i] = sched[i]
            \/ /\ sched[i] \in {"none", "armed", "refuse_pending"}
               /\ sched'[i] \in {"armed", "refuse_pending", "cancel_pending"}
Intended(i) == /\ sched[i] = "armed" /\ puts' = puts
               /\ sched' = [sched EXCEPT ![i] = "attempted"]
Dispatched(i) == /\ sched[i] = "attempted" /\ puts[i] = 0 /\ sched' = sched
                 /\ puts' = [puts EXCEPT ![i] = 1]
Filed(i, v) == /\ sched[i] \in {"armed", "attempted"} \cup Pending /\ puts' = puts
               /\ v \in {"sent", "ambiguous"} => sched[i] = "attempted"
               /\ sched[i] = "attempted" /\ v \notin {"sent", "ambiguous"} => puts[i] > 0
               /\ sched' = [sched EXCEPT ![i] = v]
RowStep == \/ UNCHANGED <<sched, puts>>
           \/ Fed
           \/ \E i \in Items : \/ Intended(i) \/ Dispatched(i)
                               \/ \E v \in Verdicts : Filed(i, v)

LEMMA RowSteps == ASSUME TypeInv, OnceInv, [Next]_vars PROVE RowStep
<1>1. CASE Commit
  <2>1. job.item \in Items /\ sched[job.item] = "armed" /\ puts' = puts
    BY <1>1 DEF Commit, TypeInv, Held, OnceInv
  <2>2. sched' = sched \/ Intended(job.item)
    BY <1>1, <2>1 DEF Commit, Intend, Intended
  <2> QED BY <2>1, <2>2 DEF RowStep
<1>2. CASE Dispatch
  <2>1. /\ job.item \in Items /\ sched[job.item] = "attempted" /\ puts[job.item] = 0
        /\ sched' = sched /\ puts' = [puts EXCEPT ![job.item] = puts[job.item] + 1]
    BY <1>2 DEF Dispatch, TypeInv, Held, OnceInv
  <2>2. Dispatched(job.item)
    BY <2>1 DEF Dispatched
  <2> QED BY <2>1, <2>2 DEF RowStep
<1>3. CASE File
  <2>1. job.item \in Items /\ job.verdict \in Verdicts
    BY <1>3 DEF File, TypeInv, Held
  <2>2. Filed(job.item, job.verdict)
    BY <1>3 DEF File, OnceInv, Filed
  <2> QED BY <2>1, <2>2 DEF RowStep
<1>4. CASE TailOnce
  <2>1. Fed
    BY <1>4, ArmRow DEF TailOnce, Fed, TypeInv
  <2> QED BY <2>1 DEF RowStep
<1>5. CASE
         \/ UNCHANGED vars \/ Config \/ QueueDone \/ FileFails
         \/ Advance \/ NoTail \/ Interrupt \/ Switch
         \/ \E i \in Items : \/ Recover(i) \/ Answer(i) \/ Judge(i)
                             \/ Schedule(i) \/ Cancel(i) \/ SendHeldNow(i)
                             \/ ComesDue(i) \/ GrowsLate(i) \/ HourPasses(i)
         \/ \E r \in Rooms : DirectSends(r) \/ Reply(r) \/ AutoExpires(r)
         \/ \E S \in SUBSET Rooms : Reconcile(S)
  <2>1. UNCHANGED <<sched, puts>>
    BY <1>5
    DEF vars, Config, QueueDone, FileFails, RowKept, Advance, NoTail, Interrupt,
        Switch, Recover, Answer, Judge, Schedule, Cancel, SendHeldNow, ComesDue,
        GrowsLate, HourPasses, DirectSends, Reply, AutoExpires, Reconcile
  <2> QED BY <2>1 DEF RowStep
<1> QED BY StepCases, <1>1, <1>2, <1>3, <1>4, <1>5

(* The two conjuncts that speak of all items survive every such step.      *)
LEMMA RowStepKeeps ==
  ASSUME TypeInv, OnceInv, RowStep PROVE AtMostOneDispatch' /\ DispatchOnRow'
<1>0. sched \in [Items -> RowStates] /\ puts \in [Items -> Nat]
  BY DEF TypeInv, TypeOK, TypeRows, TypeGhosts
<1>1. CASE UNCHANGED <<sched, puts>> \/ Fed
  BY <1>0, <1>1
  DEF Fed, OnceInv, AtMostOneDispatch, DispatchOnRow, Verdicts
<1>2. ASSUME NEW i \in Items, Intended(i) \/ Dispatched(i) \/ \E v \in Verdicts : Filed(i, v)
      PROVE  AtMostOneDispatch' /\ DispatchOnRow'
  BY <1>0, <1>2
  DEF Intended, Dispatched, Filed, OnceInv, AtMostOneDispatch, DispatchOnRow
<1> QED BY <1>1, <1>2 DEF RowStep

LEMMA OnceNext == ASSUME TypeInv, OnceInv, [Next]_vars PROVE OnceInv'
<1>0. /\ job \in Jobs
      /\ sched \in [Items -> RowStates] /\ puts \in [Items -> Nat]
  BY DEF TypeInv, TypeOK, TypePass, TypeRows, TypeGhosts
<1>1. AtMostOneDispatch' /\ DispatchOnRow'
  BY RowSteps, RowStepKeeps
<1>2. CASE pc' \notin {"quiet", "dispatch", "file"}
  BY <1>1, <1>2 DEF OnceInv
<1>3. CASE UNCHANGED <<sched, puts, pc, job>>
  BY <1>1, <1>3 DEF OnceInv
<1>4. ASSUME NEW i \in Items, NEW v \in Verdicts, ToFile(i, v), UNCHANGED <<sched, puts>>,
             sched[i] \in {"armed", "attempted"} \cup Pending,
             v \in {"sent", "ambiguous"} <=> sched[i] = "attempted"
      PROVE  OnceInv'
  <2>1. job'.item = i /\ job'.verdict = v /\ pc' = "file"
    BY <1>0, <1>4 DEF ToFile, Jobs
  <2> QED BY <1>1, <1>4, <2>1 DEF OnceInv
<1>5. ASSUME NEW i \in Items, Recover(i) PROVE OnceInv'
  BY <1>4, <1>5 DEF Recover, Interrupted, Verdicts
<1>6. ASSUME NEW i \in Items, Answer(i) PROVE OnceInv'
  BY <1>4, <1>6 DEF Answer, Unanswered, Verdicts, Pending
<1>7. ASSUME NEW i \in Items, Judge(i) PROVE OnceInv'
  <2>1. sched[i] = "armed" /\ UNCHANGED <<sched, puts>>
    BY <1>7 DEF Judge, Due
  <2>2. ASSUME NEW v \in {"cancelled", "held", "refused"}, ToFile(i, v) PROVE OnceInv'
    BY <1>4, <2>1, <2>2 DEF Verdicts
  <2>3. CASE pc' = "quiet" /\ job' = [job EXCEPT !.item = i, !.clear = ~Cancelled(i)]
    <3>1. job'.item = i
      BY <1>0, <2>3 DEF Jobs
    <3> QED BY <1>1, <2>1, <2>3, <3>1 DEF OnceInv
  <2> QED BY <1>7, <2>2, <2>3 DEF Judge
<1>8. CASE Commit
  <2>1. job.item \in Items /\ sched[job.item] = "armed" /\ puts' = puts
    BY <1>8 DEF Commit, TypeInv, Held, OnceInv
  <2>2. CASE ToFile(job.item, "held") /\ UNCHANGED sched
    BY <1>4, <2>1, <2>2 DEF Verdicts
  <2>3. CASE /\ Intend(job.item) /\ pc' = "dispatch"
             /\ job' = [job EXCEPT !.seen = Len(convo[Target[job.item]])]
    <3>1. job'.item = job.item
      BY <1>0, <2>3 DEF Jobs
    <3>2. puts[job.item] = 0
      BY <1>0, <2>1 DEF OnceInv, DispatchOnRow, Verdicts
    <3> QED BY <1>0, <1>1, <2>1, <2>3, <3>1, <3>2 DEF OnceInv, Intend
  <2> QED BY <1>8, <2>2, <2>3 DEF Commit
<1>9. CASE Dispatch
  <2>1. job.item \in Items /\ sched[job.item] = "attempted" /\ puts[job.item] = 0
    BY <1>9 DEF Dispatch, TypeInv, Held, OnceInv
  <2>2. /\ pc' = "file" /\ sched' = sched
        /\ puts' = [puts EXCEPT ![job.item] = puts[job.item] + 1]
        /\ \E v \in Verdicts : job' = [job EXCEPT !.verdict = v, !.sent = TRUE]
    BY <1>9 DEF Dispatch, VerdictOf, Verdicts
  <2>3. job'.item = job.item
    BY <1>0, <2>2 DEF Jobs
  <2> QED BY <1>0, <1>1, <2>1, <2>2, <2>3 DEF OnceInv
<1>10. CASE
         \/ Config \/ QueueDone \/ File \/ FileFails \/ TailOnce \/ Advance
         \/ NoTail \/ Interrupt
  BY <1>2, <1>10
  DEF Config, QueueDone, File, FileFails, TailOnce, Advance, NoTail, Interrupt
<1>11. CASE
         \/ UNCHANGED vars \/ Switch
         \/ \E i \in Items : \/ Schedule(i) \/ Cancel(i) \/ SendHeldNow(i)
                             \/ ComesDue(i) \/ GrowsLate(i) \/ HourPasses(i)
         \/ \E r \in Rooms : DirectSends(r) \/ Reply(r) \/ AutoExpires(r)
         \/ \E S \in SUBSET Rooms : Reconcile(S)
  BY <1>3, <1>11
  DEF vars, Switch, Schedule, Cancel, SendHeldNow, ComesDue, GrowsLate, HourPasses,
      DirectSends, Reply, AutoExpires, Reconcile
<1> QED
  BY StepCases, <1>5, <1>6, <1>7, <1>8, <1>9, <1>10, <1>11

THEOREM OnceHolds == Spec => []OnceInv
  BY TypesHold, OnceInit, OnceNext, PTL DEF Spec

(* No schedule is ever handed to the homeserver as a message twice.        *)
THEOREM NeverTwice == Spec => []AtMostOneDispatch
  BY OnceHolds, PTL DEF OnceInv

-----------------------------------------------------------------------------
(* The record tells the truth: refused, held or cancelled was never said. *)

Said(i) == i \in Range(convo[Target[i]])

SaidInv ==
    /\ \A i \in Items :
         Said(i) => puts[i] > 0 /\ sched[i] \in {"attempted", "sent", "ambiguous"}
    /\ pc = "file" /\ Said(job.item) => job.verdict \in {"sent", "ambiguous"}

LEMMA SaidInit == ASSUME Init PROVE SaidInv
<1> SUFFICES \A i \in Items : ~Said(i)
  BY DEF Init, SaidInv
<1> QED BY ScheduleAssumption DEF Init, Said, Range

(* A conversation in which m is said next holds what it held, and m.       *)
LEMMA RangeAppend ==
  ASSUME NEW S, NEW s \in Seq(S), NEW m \in S
  PROVE  Range(Append(s, m)) = Range(s) \cup {m}
<1>1. DOMAIN s = 1 .. Len(s) /\ DOMAIN Append(s, m) = 1 .. Len(s) + 1 /\ Len(s) \in Nat
  OBVIOUS
<1>2. \A k \in 1 .. Len(s) : Append(s, m)[k] = s[k]
  OBVIOUS
<1>3. Append(s, m)[Len(s) + 1] = m
  OBVIOUS
<1>4. Range(Append(s, m)) \subseteq Range(s) \cup {m}
  BY <1>1, <1>2, <1>3 DEF Range
<1>5. ASSUME NEW x \in Range(s) PROVE x \in Range(Append(s, m))
  <2>1. PICK k \in DOMAIN s : x = s[k]
    BY <1>5 DEF Range
  <2>2. k \in DOMAIN Append(s, m) /\ Append(s, m)[k] = x
    BY <1>1, <1>2, <2>1
  <2> QED BY <2>2 DEF Range
<1>6. m \in Range(Append(s, m))
  <2>1. Len(s) + 1 \in DOMAIN Append(s, m)
    BY <1>1
  <2> QED BY <1>3, <2>1 DEF Range
<1> QED BY <1>4, <1>5, <1>6

LEMMA SaidAfter ==
  ASSUME TypeOK, NEW r \in Rooms, NEW m \in Items \cup {"typed", "auto"},
         convo' = [convo EXCEPT ![r] = Append(@, m)]
  PROVE  \A i \in Items : Said(i)' => Said(i) \/ i = m
<1> SUFFICES ASSUME NEW i \in Items, Said(i)' PROVE Said(i) \/ i = m
  OBVIOUS
<1>1. convo[r] \in Seq(Items \cup {"typed", "auto"}) /\ Target[i] \in Rooms
  BY ScheduleAssumption DEF TypeOK, TypeHub
<1>2. Range(Append(convo[r], m)) = Range(convo[r]) \cup {m}
  BY <1>1, RangeAppend
<1>3. convo'[Target[i]] = IF Target[i] = r THEN Append(convo[r], m) ELSE convo[Target[i]]
  BY <1>1 DEF TypeOK, TypeHub
<1> QED BY <1>2, <1>3 DEF Said

(* Only a dispatch says an item, and it then reports sent or unknown.      *)
LEMMA SaidSteps ==
  ASSUME TypeInv, [Next]_vars, NEW i \in Items, Said(i)'
  PROVE  Said(i) \/ (Dispatch /\ i = job.item /\ job'.verdict \in {"sent", "ambiguous"})
<1>0. TypeOK /\ job \in Jobs
  BY DEF TypeInv, TypeOK, TypePass
<1>1. CASE convo' = convo
  BY <1>1 DEF Said
<1>2. ASSUME NEW r \in Rooms, DirectSends(r) PROVE Said(i)
  BY <1>0, <1>2, SaidAfter, ScheduleAssumption DEF DirectSends
<1>3. ASSUME NEW r \in Rooms, Reply(r) PROVE Said(i)
  BY <1>0, <1>3, SaidAfter, ScheduleAssumption DEF Reply
<1>4. ASSUME NEW j \in Items, SendHeldNow(j) PROVE Said(i)
  <2>1. Target[j] \in Rooms
    BY ScheduleAssumption
  <2> QED BY <1>0, <1>4, <2>1, SaidAfter, ScheduleAssumption DEF SendHeldNow
<1>5. CASE Dispatch /\ convo' # convo
  <2>1. job.item \in Items /\ Target[job.item] \in Rooms
    BY <1>5, ScheduleAssumption DEF Dispatch, TypeInv, Held
  <2>2. PICK answer \in {"confirmed", "refused", "unknown"} :
          /\ job' = [job EXCEPT !.verdict = VerdictOf(answer), !.sent = TRUE]
          /\ answer # "refused" /\ Say(job.item)
    BY <1>5 DEF Dispatch
  <2>3. job'.verdict \in {"sent", "ambiguous"}
    BY <1>0, <2>2 DEF VerdictOf, Jobs
  <2>4. convo' = [convo EXCEPT ![Target[job.item]] = Append(@, job.item)]
    BY <1>0, <1>5, <2>1, <2>2 DEF Say, TypeOK, TypeHub
  <2>5. Said(i) \/ i = job.item
    BY <1>0, <2>1, <2>4, SaidAfter
  <2> QED BY <1>5, <2>3, <2>5
<1>6. CASE
         \/ UNCHANGED vars
         \/ Config \/ QueueDone \/ Commit \/ File \/ FileFails
         \/ TailOnce \/ Advance \/ NoTail \/ Interrupt \/ Switch
         \/ \E j \in Items :
              \/ Recover(j) \/ Answer(j) \/ Judge(j) \/ Schedule(j) \/ Cancel(j)
              \/ ComesDue(j) \/ GrowsLate(j) \/ HourPasses(j)
         \/ \E r \in Rooms : AutoExpires(r)
         \/ \E S \in SUBSET Rooms : Reconcile(S)
  <2>1. convo' = convo
    BY <1>6
    DEF vars, Config, QueueDone, Commit, File, FileFails, TailOnce, Advance, NoTail,
        Interrupt, Switch, Recover, Answer, Judge, Schedule, Cancel, ComesDue,
        GrowsLate, HourPasses, AutoExpires, Reconcile
  <2> QED BY <1>1, <2>1
<1> QED BY StepCases, <1>1, <1>2, <1>3, <1>4, <1>5, <1>6

LEMMA SaidOnRow ==
  ASSUME TypeInv, OnceInv, SaidInv, [Next]_vars, NEW i \in Items, Said(i)'
  PROVE  puts'[i] > 0 /\ sched'[i] \in {"attempted", "sent", "ambiguous"}
<1>0. /\ sched \in [Items -> RowStates] /\ puts \in [Items -> Nat]
  BY DEF TypeInv, TypeOK, TypeRows, TypeGhosts
<1>1. CASE Dispatch
  <2>1. /\ job.item \in Items /\ sched[job.item] = "attempted"
        /\ sched' = sched /\ puts' = [puts EXCEPT ![job.item] = puts[job.item] + 1]
    BY <1>1 DEF Dispatch, TypeInv, Held, OnceInv
  <2>2. Said(i) \/ i = job.item
    BY SaidSteps
  <2> QED BY <1>0, <2>1, <2>2 DEF SaidInv
<1>2. ASSUME ~Dispatch
      PROVE  Said(i) /\ puts[i] > 0 /\ sched[i] \in {"attempted", "sent", "ambiguous"}
  BY <1>2, SaidSteps DEF SaidInv
<1>3. CASE Commit
  <2>1. job.item \in Items /\ sched[job.item] = "armed" /\ puts' = puts /\ ~Dispatch
    BY <1>3 DEF Commit, Dispatch, TypeInv, Held, OnceInv
  <2>2. sched' = sched \/ sched' = [sched EXCEPT ![job.item] = "attempted"]
    BY <1>3 DEF Commit, Intend
  <2> QED BY <1>0, <1>2, <2>1, <2>2
<1>4. CASE File
  <2>1. /\ job.item \in Items /\ puts' = puts /\ ~Dispatch
        /\ sched' = [sched EXCEPT ![job.item] = job.verdict]
        /\ Said(job.item) => job.verdict \in {"sent", "ambiguous"}
    BY <1>4 DEF File, Dispatch, TypeInv, Held, SaidInv
  <2> QED BY <1>0, <1>2, <2>1
<1>5. CASE TailOnce
  <2>1. Fed /\ ~Dispatch
    BY <1>5, ArmRow DEF TailOnce, Dispatch, Fed, TypeInv
  <2> QED BY <1>2, <2>1 DEF Fed
<1>6. CASE ~Dispatch /\ UNCHANGED <<sched, puts>>
  BY <1>2, <1>6
<1>7. CASE
         \/ UNCHANGED vars \/ Config \/ QueueDone \/ FileFails
         \/ Advance \/ NoTail \/ Interrupt \/ Switch
         \/ \E j \in Items : \/ Recover(j) \/ Answer(j) \/ Judge(j)
                             \/ Schedule(j) \/ Cancel(j) \/ SendHeldNow(j)
                             \/ ComesDue(j) \/ GrowsLate(j) \/ HourPasses(j)
         \/ \E r \in Rooms : DirectSends(r) \/ Reply(r) \/ AutoExpires(r)
         \/ \E S \in SUBSET Rooms : Reconcile(S)
  <2>1. UNCHANGED <<sched, puts>>
    BY <1>7
    DEF vars, Config, QueueDone, FileFails, RowKept, Advance, NoTail, Interrupt,
        Switch, Recover, Answer, Judge, Schedule, Cancel, SendHeldNow, ComesDue,
        GrowsLate, HourPasses, DirectSends, Reply, AutoExpires, Reconcile
  <2> QED BY <1>1, <1>6, <2>1
<1> QED BY StepCases, <1>1, <1>3, <1>4, <1>5, <1>7

LEMMA SaidNext == ASSUME TypeInv, OnceInv, SaidInv, [Next]_vars PROVE SaidInv'
<1>0. job \in Jobs
  BY DEF TypeInv, TypeOK, TypePass
<1>1. \A i \in Items :
        Said(i)' => puts'[i] > 0 /\ sched'[i] \in {"attempted", "sent", "ambiguous"}
  BY SaidOnRow
<1>2. ASSUME NEW i \in Items, sched[i] \in {"armed", "attempted"} \cup Pending, ~Dispatch,
             sched' = sched, NEW v \in Verdicts, ToFile(i, v),
             sched[i] = "attempted" => v = "ambiguous"
      PROVE  SaidInv'
  <2>1. job'.item = i /\ job'.verdict = v
    BY <1>0, <1>2 DEF ToFile, Jobs
  <2>2. Said(i)' => v = "ambiguous"
    BY <1>1, <1>2 DEF Pending
  <2> QED BY <1>1, <2>1, <2>2 DEF SaidInv, Said
<1>3. CASE pc' # "file"
  BY <1>1, <1>3 DEF SaidInv
<1>4. CASE UNCHANGED <<pc, job>>
  <2>1. ASSUME pc' = "file", Said(job.item)' PROVE job.verdict \in {"sent", "ambiguous"}
    <3>1. pc = "file" /\ job.item \in Items /\ ~Dispatch
      BY <1>4, <2>1 DEF TypeInv, Held, Dispatch
    <3>2. Said(job.item)
      BY <1>4, <2>1, <3>1, SaidSteps DEF Said
    <3> QED BY <3>1, <3>2 DEF SaidInv
  <2> QED BY <1>1, <1>4, <2>1 DEF SaidInv, Said
<1>5. CASE Dispatch
  <2>1. job.item \in Items /\ puts[job.item] = 0
    BY <1>5 DEF Dispatch, TypeInv, Held, OnceInv
  <2>2. job'.item = job.item
    BY <1>0, <1>5 DEF Dispatch, Jobs
  <2>3. ~Said(job.item)
    BY <2>1 DEF SaidInv
  <2>4. ASSUME job.item \in Range(convo'[Target[job.item]])
        PROVE  job'.verdict \in {"sent", "ambiguous"}
    BY <2>1, <2>3, <2>4, SaidSteps DEF Said
  <2> QED BY <1>1, <2>2, <2>4 DEF SaidInv, Said
<1>6. ASSUME NEW i \in Items, Recover(i) PROVE SaidInv'
  BY <1>2, <1>6 DEF Recover, Interrupted, Verdicts, Dispatch
<1>7. ASSUME NEW i \in Items, Answer(i) PROVE SaidInv'
  BY <1>2, <1>7 DEF Answer, Unanswered, Verdicts, Pending, Dispatch
<1>8. ASSUME NEW i \in Items, Judge(i) PROVE SaidInv'
  <2>1. sched[i] = "armed" /\ sched' = sched /\ ~Dispatch
    BY <1>8 DEF Judge, Due, Dispatch
  <2>2. ASSUME NEW v \in {"cancelled", "held", "refused"}, ToFile(i, v) PROVE SaidInv'
    BY <1>2, <2>1, <2>2 DEF Verdicts
  <2>3. pc' = "quiet" \/ \E v \in {"cancelled", "held", "refused"} : ToFile(i, v)
    BY <1>8 DEF Judge
  <2> QED BY <1>3, <2>2, <2>3
<1>9. CASE Commit
  <2>1. job.item \in Items /\ sched[job.item] = "armed" /\ ~Dispatch
    BY <1>9 DEF Commit, TypeInv, Held, OnceInv, Dispatch
  <2>2. CASE ToFile(job.item, "held") /\ UNCHANGED sched
    BY <1>2, <2>1, <2>2 DEF Verdicts
  <2>3. pc' = "dispatch" \/ (ToFile(job.item, "held") /\ UNCHANGED sched)
    BY <1>9 DEF Commit
  <2> QED BY <1>3, <2>2, <2>3
<1>10. CASE
          \/ Config \/ QueueDone \/ File \/ FileFails \/ TailOnce \/ Advance
          \/ NoTail \/ Interrupt
  BY <1>3, <1>10
  DEF Config, QueueDone, File, FileFails, TailOnce, Advance, NoTail, Interrupt
<1>11. CASE
          \/ UNCHANGED vars \/ Switch
          \/ \E i \in Items : \/ Schedule(i) \/ Cancel(i) \/ SendHeldNow(i)
                              \/ ComesDue(i) \/ GrowsLate(i) \/ HourPasses(i)
          \/ \E r \in Rooms : DirectSends(r) \/ Reply(r) \/ AutoExpires(r)
          \/ \E S \in SUBSET Rooms : Reconcile(S)
  BY <1>4, <1>11
  DEF vars, Switch, Schedule, Cancel, SendHeldNow, ComesDue, GrowsLate, HourPasses,
      DirectSends, Reply, AutoExpires, Reconcile
<1> QED BY StepCases, <1>5, <1>6, <1>7, <1>8, <1>9, <1>10, <1>11

(* A row that says refused, held or cancelled never reached the            *)
(* conversation, whatever was lost, repeated or interrupted.               *)
THEOREM RefusedStaysUnsaid == Spec => []RefusedMeansNotSaid
<1>1. SaidInv => RefusedMeansNotSaid
  BY DEF SaidInv, RefusedMeansNotSaid, Said
<1> QED BY <1>1, SaidInit, SaidNext, TypesHold, OnceHolds, PTL DEF Spec

-----------------------------------------------------------------------------
(* A final state is one the teammate can read in the app. *)

LEMMA FeedGrows ==
  ASSUME TypeInv, [Next]_vars PROVE Range(feed) \subseteq Range(feed')
<1>0. TypeOK /\ feed \in Seq(Events)
  BY DEF TypeInv, TypeOK, TypeHub
<1>1. ASSUME NEW e \in Events, feed' = Append(feed, e) PROVE Range(feed) \subseteq Range(feed')
  BY <1>0, <1>1, RangeAppend
<1>2. CASE feed' = feed
  BY <1>2
<1>3. CASE File \/ FileFails
  <2>1. [kind |-> job.verdict, item |-> job.item] \in Events
    BY <1>3 DEF File, FileFails, TypeInv, Held, Events
  <2>2. feed' = feed \/ feed' = Append(feed, [kind |-> job.verdict, item |-> job.item])
    BY <1>3 DEF File, FileFails, PutRecord
  <2> QED BY <1>1, <1>2, <2>1, <2>2
<1>4. ASSUME NEW i \in Items, Schedule(i) \/ Cancel(i) PROVE Range(feed) \subseteq Range(feed')
  <2>1. /\ [kind |-> "send", item |-> i] \in Events
        /\ [kind |-> "cancel", item |-> i] \in Events
    BY DEF Events
  <2> QED BY <1>1, <1>4, <2>1 DEF Schedule, Cancel
<1>5. CASE
         \/ UNCHANGED vars
         \/ Config \/ QueueDone \/ Commit \/ Dispatch
         \/ TailOnce \/ Advance \/ NoTail \/ Interrupt \/ Switch
         \/ \E j \in Items :
              \/ Recover(j) \/ Answer(j) \/ Judge(j) \/ SendHeldNow(j)
              \/ ComesDue(j) \/ GrowsLate(j) \/ HourPasses(j)
         \/ \E r \in Rooms : DirectSends(r) \/ Reply(r) \/ AutoExpires(r)
         \/ \E S \in SUBSET Rooms : Reconcile(S)
  <2>1. feed' = feed
    BY <1>5
    DEF vars, Config, QueueDone, Commit, Dispatch, TailOnce, Advance, NoTail,
        Interrupt, Switch, Recover, Answer, Judge, SendHeldNow, ComesDue,
        GrowsLate, HourPasses, DirectSends, Reply, AutoExpires, Reconcile
  <2> QED BY <1>2, <2>1
<1> QED BY StepCases, <1>2, <1>3, <1>4, <1>5

LEMMA FiledNext ==
  ASSUME TypeInv, OnceInv, AnsweredIsFiled, [Next]_vars PROVE AnsweredIsFiled'
<1>0. feed \in Seq(Events) /\ sched \in [Items -> RowStates]
  BY DEF TypeInv, TypeOK, TypeHub, TypeRows
<1>1. SUFFICES ASSUME NEW i \in Items, sched'[i] \in Verdicts
               PROVE  [kind |-> sched'[i], item |-> i] \in Range(feed')
  BY DEF AnsweredIsFiled, Recorded
<1>2. CASE sched'[i] = sched[i]
  BY <1>1, <1>2, FeedGrows DEF AnsweredIsFiled, Recorded
<1>3. CASE File
  <2>1. /\ job.item \in Items /\ job.verdict \in Verdicts
        /\ sched' = [sched EXCEPT ![job.item] = job.verdict]
    BY <1>3 DEF File, TypeInv, Held
  <2>2. [kind |-> job.verdict, item |-> job.item] \in Events
    BY <2>1 DEF Events
  <2>3. [kind |-> job.verdict, item |-> job.item] \in Range(feed')
    BY <1>0, <1>3, <2>2, RangeAppend DEF File, PutRecord
  <2>4. CASE i = job.item
    BY <1>0, <2>1, <2>3, <2>4
  <2>5. CASE i # job.item
    BY <1>0, <1>2, <2>1, <2>5
  <2> QED BY <2>4, <2>5
<1>4. CASE Commit
  <2>1. job.item \in Items /\ (sched' = sched \/ sched' = [sched EXCEPT ![job.item] = "attempted"])
    BY <1>4 DEF Commit, Intend, TypeInv, Held
  <2> QED BY <1>0, <1>1, <1>2, <2>1 DEF Verdicts
<1>5. CASE TailOnce
  <2>1. Fed
    BY <1>5, ArmRow DEF TailOnce, Fed, TypeInv
  <2> QED BY <1>1, <1>2, <2>1 DEF Fed, Verdicts
<1>6. CASE
         \/ UNCHANGED vars \/ Config \/ QueueDone \/ FileFails \/ Dispatch
         \/ Advance \/ NoTail \/ Interrupt \/ Switch
         \/ \E j \in Items : \/ Recover(j) \/ Answer(j) \/ Judge(j)
                             \/ Schedule(j) \/ Cancel(j) \/ SendHeldNow(j)
                             \/ ComesDue(j) \/ GrowsLate(j) \/ HourPasses(j)
         \/ \E r \in Rooms : DirectSends(r) \/ Reply(r) \/ AutoExpires(r)
         \/ \E S \in SUBSET Rooms : Reconcile(S)
  <2>1. sched' = sched
    BY <1>6
    DEF vars, Config, QueueDone, FileFails, RowKept, Dispatch, Advance, NoTail, Interrupt,
        Switch, Recover, Answer, Judge, Schedule, Cancel, SendHeldNow, ComesDue,
        GrowsLate, HourPasses, DirectSends, Reply, AutoExpires, Reconcile
  <2> QED BY <1>2, <2>1
<1> QED BY StepCases, <1>3, <1>4, <1>5, <1>6

(* A row is final only when its record can be read in the app.             *)
THEOREM FinalIsFiled == Spec => []AnsweredIsFiled
<1>1. Init => AnsweredIsFiled
  BY DEF Init, AnsweredIsFiled, Verdicts
<1> QED BY <1>1, FiledNext, TypesHold, OnceHolds, PTL DEF Spec

-----------------------------------------------------------------------------
(* The refinement of the once-only contract. *)

Intents == {i \in Items :
              puts[i] > 0 \/ sched[i] \in {"attempted", "sent", "ambiguous"}}
Closed == {i \in Items : sched[i] \in Verdicts}

LEMMA OnceOnlyInit == ASSUME Init PROVE Once!Init
  BY DEF Init, Once!Init, Verdicts

LEMMA OnceOnlyStep ==
  ASSUME TypeInv, OnceInv, [Next]_vars PROVE [Once!Next]_(Once!vars)
<1>0. sched \in [Items -> RowStates] /\ puts \in [Items -> Nat]
  BY DEF TypeInv, TypeOK, TypeRows, TypeGhosts
<1>1. ASSUME UNCHANGED <<sched, puts>> PROVE UNCHANGED Once!vars
  BY <1>1 DEF Once!vars
<1>3. ASSUME NEW i \in Items, Intended(i) PROVE Once!Commit(i)
  <2>1. puts[i] = 0
    BY <1>0, <1>3 DEF Intended, OnceInv, DispatchOnRow, Verdicts
  <2>2. i \notin Intents \cup Closed
    BY <1>3, <2>1 DEF Intended, Intents, Closed, Verdicts
  <2>3. Intents' = Intents \cup {i} /\ Closed' = Closed
    BY <1>0, <1>3 DEF Intended, Intents, Closed, Verdicts
  <2> QED BY <1>3, <2>2, <2>3 DEF Intended, Once!Commit, Intents, Closed
<1>4. ASSUME NEW i \in Items, Dispatched(i) PROVE Once!Issue(i)
  <2>1. i \in Intents \ Closed
    BY <1>4 DEF Dispatched, Intents, Closed, Verdicts
  <2>2. Intents' = Intents /\ Closed' = Closed
    BY <1>0, <1>4 DEF Dispatched, Intents, Closed
  <2> QED BY <1>4, <2>1, <2>2 DEF Dispatched, Once!Issue, Intents, Closed
<1>5. ASSUME NEW i \in Items, NEW v \in Verdicts, Filed(i, v) PROVE Once!Close(i)
  <2>1. i \notin Closed /\ Closed' = Closed \cup {i}
    BY <1>0, <1>5 DEF Filed, Closed, Verdicts, Pending
  <2>2. Intents' = Intents
    BY <1>0, <1>5 DEF Filed, Intents, Verdicts, Pending
  <2> QED BY <1>5, <2>1, <2>2 DEF Filed, Once!Close, Intents, Closed
<1>6. \/ UNCHANGED Once!vars
      \/ \E i \in Items : Once!Commit(i) \/ Once!Issue(i) \/ Once!Close(i)
  <2>1. CASE UNCHANGED <<sched, puts>>
    BY <1>1, <2>1, Zenon
  <2>2. CASE Fed
    <3>1. UNCHANGED Once!vars
      <4>1. Intents' = Intents /\ Closed' = Closed
        BY <1>0, <2>2 DEF Fed, Intents, Closed, Verdicts
      <4> QED BY <2>2, <4>1 DEF Fed, Once!vars, Intents, Closed
    <3> QED BY <3>1, Zenon
  <2>3. ASSUME NEW i \in Items, Intended(i) \/ Dispatched(i) \/ \E v \in Verdicts : Filed(i, v)
        PROVE  \E j \in Items : Once!Commit(j) \/ Once!Issue(j) \/ Once!Close(j)
    BY <1>3, <1>4, <1>5, <2>3, Zenon
  <2> QED BY RowSteps, <2>1, <2>2, <2>3, Zenon DEF RowStep
<1> QED BY <1>6 DEF Once!Next

(* The path implements the once-only contract of OnceOnlySend.             *)
THEOREM ImplementsOnceOnly == Spec => OnceOnly
  BY OnceOnlyInit, OnceOnlyStep, TypesHold, OnceHolds, PTL
  DEF Spec, OnceOnly, Once!Spec

-----------------------------------------------------------------------------
(* S-2.  Between the reading of the cancellation and the dispatch the      *)
(* answer is kept in hand, and nothing reaches the dispatch around it.     *)

ClearInv == pc \in {"quiet", "dispatch"} => job.clear

LEMMA ClearNext == ASSUME TypeInv, ClearInv, [Next]_vars PROVE ClearInv'
<1>0. job \in Jobs
  BY DEF TypeInv, TypeOK, TypePass
<1>1. CASE pc' \notin {"quiet", "dispatch"}
  BY <1>1 DEF ClearInv
<1>2. CASE UNCHANGED <<pc, job>>
  BY <1>2 DEF ClearInv
<1>3. ASSUME NEW i \in Items, Judge(i) PROVE ClearInv'
  <2>1. CASE pc' = "file"
    BY <1>1, <2>1
  <2>2. CASE job' = [job EXCEPT !.item = i, !.clear = ~Cancelled(i)] /\ ~CalledOff(i)
    <3>1. job'.clear = ~Cancelled(i)
      BY <1>0, <2>2 DEF Jobs
    <3> QED BY <2>2, <3>1 DEF ClearInv, CalledOff
  <2> QED BY <1>3, <2>1, <2>2 DEF Judge, ToFile
<1>4. CASE Commit
  <2>1. CASE pc' = "file"
    BY <1>1, <2>1
  <2>2. CASE job' = [job EXCEPT !.seen = Len(convo[Target[job.item]])]
    <3>1. job'.clear = job.clear
      BY <1>0, <2>2 DEF Jobs
    <3> QED BY <1>4, <3>1 DEF ClearInv, Commit
  <2> QED BY <1>4, <2>1, <2>2 DEF Commit, ToFile
<1>5. CASE
         \/ Config \/ QueueDone \/ Dispatch \/ File \/ FileFails \/ TailOnce \/ Advance
         \/ NoTail \/ Interrupt
         \/ \E i \in Items : Recover(i) \/ Answer(i)
  BY <1>1, <1>5
  DEF Config, QueueDone, Dispatch, File, FileFails, TailOnce, Advance, NoTail, Interrupt,
      Recover, Answer, ToFile
<1>6. CASE
         \/ UNCHANGED vars \/ Switch
         \/ \E i \in Items : \/ Schedule(i) \/ Cancel(i) \/ SendHeldNow(i)
                             \/ ComesDue(i) \/ GrowsLate(i) \/ HourPasses(i)
         \/ \E r \in Rooms : DirectSends(r) \/ Reply(r) \/ AutoExpires(r)
         \/ \E S \in SUBSET Rooms : Reconcile(S)
  BY <1>2, <1>6
  DEF vars, Switch, Schedule, Cancel, SendHeldNow, ComesDue, GrowsLate, HourPasses,
      DirectSends, Reply, AutoExpires, Reconcile
<1> QED BY StepCases, <1>3, <1>4, <1>5, <1>6

(* A schedule that was cancelled before the queue took it up is not sent,  *)
(* whether the tail has seen the cancellation or not.                      *)
THEOREM CancellationWins == Spec => CancelledNeverSent
<1>1. Init => ClearInv
  BY DEF Init, ClearInv
<1>2. ASSUME ClearInv, [Next]_vars
      PROVE  [\A i \in Items : puts'[i] # puts[i] => job.clear]_vars
  <2>1. CASE Dispatch
    BY <1>2, <2>1 DEF Dispatch, ClearInv
  <2>2. puts' = puts \/ Dispatch
    BY <1>2, StepCases
    DEF vars, Config, QueueDone, Commit, File, FileFails, TailOnce, Advance, NoTail,
        Interrupt, Switch, Recover, Answer, Judge, Schedule, Cancel, SendHeldNow,
        ComesDue, GrowsLate, HourPasses, DirectSends, Reply, AutoExpires, Reconcile
  <2> QED BY <2>1, <2>2
<1>3. Spec => []ClearInv
  BY <1>1, ClearNext, TypesHold, PTL DEF Spec
<1> QED BY <1>2, <1>3, PTL DEF Spec, CancelledNeverSent

-----------------------------------------------------------------------------
(* S-7.  A dispatch of the last hour has its tick, because the tick is     *)
(* committed with the intent; and the Direct path, which shares the        *)
(* budget, spends only while no schedule is between its gate and its tick. *)

CapInv ==
    /\ hour \subseteq ticks
    /\ \A r \in Rooms : Spent(r, ticks) <= Cap
    /\ pc = "quiet" => UnderCap(Target[job.item])
    /\ pc = "dispatch" => job.item \in ticks

TicksIn(S, r) == {i \in S : Target[i] = r}

LEMMA TicksAreFinite ==
  ASSUME NEW S, S \subseteq Items, NEW r
  PROVE  IsFiniteSet(TicksIn(S, r)) /\ Cardinality(TicksIn(S, r)) \in Nat
<1>1. TicksIn(S, r) \in SUBSET Items
  BY DEF TicksIn
<1> QED BY <1>1, ScheduleAssumption, FS_Subset, FS_CardinalityType

LEMMA FewerTicks ==
  ASSUME NEW T, T \subseteq Items, NEW S, S \subseteq T, NEW r
  PROVE  Cardinality(TicksIn(S, r)) <= Cardinality(TicksIn(T, r))
<1>1. TicksIn(S, r) \in SUBSET TicksIn(T, r)
  BY DEF TicksIn
<1> QED BY <1>1, TicksAreFinite, FS_Subset

LEMMA OneMoreTick ==
  ASSUME NEW S, S \subseteq Items, NEW q \in Items, NEW r
  PROVE  Cardinality(TicksIn(S \cup {q}, r))
           <= Cardinality(TicksIn(S, r)) + (IF Target[q] = r THEN 1 ELSE 0)
<1>1. IsFiniteSet(TicksIn(S, r)) /\ Cardinality(TicksIn(S, r)) \in Nat
  BY TicksAreFinite
<1>2. CASE Target[q] = r
  <2>1. TicksIn(S \cup {q}, r) = TicksIn(S, r) \cup {q}
    BY <1>2 DEF TicksIn
  <2>2. Cardinality(TicksIn(S, r) \cup {q})
          = IF q \in TicksIn(S, r) THEN Cardinality(TicksIn(S, r))
                                   ELSE Cardinality(TicksIn(S, r)) + 1
    BY <1>1, FS_AddElement, Zenon
  <2> DEFINE c == Cardinality(TicksIn(S, r))
  <2>3. Cardinality(TicksIn(S \cup {q}, r)) = c \/ Cardinality(TicksIn(S \cup {q}, r)) = c + 1
    BY <2>1, <2>2, Zenon
  <2> HIDE DEF c
  <2>4. c \in Nat
    BY <1>1 DEF c
  <2>5. Cardinality(TicksIn(S \cup {q}, r)) <= c + 1
    BY <2>3, <2>4
  <2> QED BY <1>2, <2>5 DEF c
<1>3. CASE Target[q] # r
  <2>1. TicksIn(S \cup {q}, r) = TicksIn(S, r)
    BY <1>3 DEF TicksIn
  <2> QED BY <1>1, <1>3, <2>1
<1> QED BY <1>2, <1>3

(* What a conversation has spent, in schedules and automatic sends.        *)
LEMMA Spending ==
  /\ \A r, S : Spent(r, S) = Cardinality(TicksIn(S, r)) + auto[r]
  /\ \A r : UnderCap(r) <=> Spent(r, ticks) < Cap
BY DEF Spent, UnderCap, TicksIn

(* The same ticks, or fewer, and no more automatic sends: no more spent.   *)
LEMMA NoMoreSpent ==
  ASSUME TypeInv, NEW T \in SUBSET ticks, NEW r \in Rooms, NEW n \in Nat, n <= auto[r]
  PROVE  /\ Cardinality(TicksIn(T, r)) + n <= Spent(r, ticks)
         /\ Cardinality(TicksIn(T, r)) + n \in Nat /\ Spent(r, ticks) \in Nat
<1>1. ticks \subseteq Items /\ T \subseteq Items /\ auto[r] \in Nat
  BY DEF TypeInv, TypeOK, TypeRows
<1>2. /\ Cardinality(TicksIn(T, r)) \in Nat /\ Cardinality(TicksIn(ticks, r)) \in Nat
      /\ Cardinality(TicksIn(T, r)) <= Cardinality(TicksIn(ticks, r))
  BY <1>1, TicksAreFinite, FewerTicks
<1>3. Spent(r, ticks) = Cardinality(TicksIn(ticks, r)) + auto[r]
  BY Spending
<1> QED BY <1>1, <1>2, <1>3

LEMMA CapKept ==
  ASSUME TypeInv, CapInv, ticks' \subseteq ticks,
         auto' \in [Rooms -> Nat], \A r \in Rooms : auto'[r] <= auto[r]
  PROVE  /\ \A r \in Rooms : Spent(r, ticks)' <= Cap
         /\ \A r \in Rooms : UnderCap(r) => UnderCap(r)'
<1> SUFFICES ASSUME NEW r \in Rooms
             PROVE  Spent(r, ticks)' <= Cap /\ (UnderCap(r) => UnderCap(r)')
  OBVIOUS
<1> DEFINE n == Cardinality(TicksIn(ticks', r)) + auto'[r]
<1>1. Spent(r, ticks)' = n /\ (UnderCap(r)' <=> n < Cap)
  BY DEF Spent, UnderCap, TicksIn
<1>2. n <= Spent(r, ticks) /\ n \in Nat /\ Spent(r, ticks) \in Nat
  BY NoMoreSpent
<1>3. Spent(r, ticks) <= Cap /\ (UnderCap(r) <=> Spent(r, ticks) < Cap)
  BY Spending DEF CapInv
<1> HIDE DEF n
<1> QED BY <1>1, <1>2, <1>3, ScheduleAssumption

LEMMA CapNext == ASSUME TypeInv, CapInv, [Next]_vars PROVE CapInv'
<1>0. job \in Jobs /\ ticks \subseteq Items /\ auto \in [Rooms -> Nat]
  BY DEF TypeInv, TypeOK, TypePass, TypeRows
<1>1. ASSUME NEW i \in Items, Judge(i) PROVE CapInv'
  <2>1. /\ UNCHANGED <<hour, ticks, auto>>
        /\ pc' = "file" \/ (pc' = "quiet" /\ job'.item = i /\ UnderCap(Target[i]))
    BY <1>0, <1>1 DEF Judge, ToFile, LocalGates, Jobs
  <2> QED BY <2>1 DEF CapInv, Spent, UnderCap
<1>2. CASE Commit
  <2>1. CASE ToFile(job.item, "held") /\ UNCHANGED <<sched, ticks>>
    BY <1>2, <2>1 DEF Commit, ToFile, CapInv, Spent
  <2>2. CASE /\ ticks' = ticks \cup {job.item} /\ pc' = "dispatch"
             /\ job' = [job EXCEPT !.seen = Len(convo[Target[job.item]])]
    <3>1. job.item \in Items /\ job'.item = job.item /\ UNCHANGED <<auto, hour>>
      BY <1>0, <1>2, <2>2 DEF Commit, TypeInv, Held, Jobs
    <3>2. ASSUME NEW r \in Rooms PROVE Spent(r, ticks)' <= Cap
      <4>1. /\ Cardinality(TicksIn(ticks, r)) \in Nat
            /\ Cardinality(TicksIn(ticks', r)) \in Nat /\ auto[r] \in Nat
        BY <1>0, <2>2, <3>1, TicksAreFinite
      <4>2. Cardinality(TicksIn(ticks', r))
              <= Cardinality(TicksIn(ticks, r)) + (IF Target[job.item] = r THEN 1 ELSE 0)
        BY <1>0, <2>2, <3>1, OneMoreTick
      <4>3. /\ Cardinality(TicksIn(ticks, r)) + auto[r] <= Cap
            /\ Target[job.item] = r => Cardinality(TicksIn(ticks, r)) + auto[r] < Cap
        BY <1>2, Spending DEF Commit, CapInv
      <4>4. Cardinality(TicksIn(ticks', r)) + auto'[r] <= Cap
        BY <3>1, <4>1, <4>2, <4>3, ScheduleAssumption
      <4> QED BY <4>4 DEF Spent, TicksIn
    <3>3. hour' \subseteq ticks' /\ job'.item \in ticks'
      BY <2>2, <3>1 DEF CapInv
    <3>4. \A r \in Rooms : Spent(r, ticks)' <= Cap
      BY <3>2
    <3> QED BY <2>2, <3>3, <3>4, Zenon DEF CapInv
  <2> QED BY <1>2, <2>1, <2>2 DEF Commit, Intend
<1>3. CASE Dispatch
  BY <1>3 DEF Dispatch, CapInv, Spent
<1>4. ASSUME NEW r \in Rooms, DirectSends(r) PROVE CapInv'
  <2>1. /\ pc' = "config" /\ UNCHANGED <<ticks, hour>> /\ UnderCap(r)
        /\ auto' = [auto EXCEPT ![r] = @ + 1]
    BY <1>4 DEF DirectSends
  <2>2. ASSUME NEW q \in Rooms PROVE Spent(q, ticks)' <= Cap
    <3>1. Cardinality(TicksIn(ticks, q)) \in Nat /\ auto[q] \in Nat
      BY <1>0, TicksAreFinite
    <3>2. /\ Cardinality(TicksIn(ticks, q)) + auto[q] <= Cap
          /\ q = r => Cardinality(TicksIn(ticks, q)) + auto[q] < Cap
      BY <2>1, Spending DEF CapInv
    <3>3. auto'[q] = IF q = r THEN auto[q] + 1 ELSE auto[q]
      BY <1>0, <2>1
    <3>4. Cardinality(TicksIn(ticks, q)) + auto'[q] <= Cap
      BY <3>1, <3>2, <3>3, ScheduleAssumption
    <3> QED BY <2>1, <3>4 DEF Spent, TicksIn
  <2> QED BY <2>1, <2>2 DEF CapInv
<1>5. ASSUME NEW i \in Items, HourPasses(i) PROVE CapInv'
  <2>1. /\ ticks' = ticks \ {i} /\ hour' = hour \ {i} /\ UNCHANGED <<pc, job, auto>>
        /\ pc = "dispatch" => job.item # i
    BY <1>5 DEF HourPasses
  <2>2. /\ \A r \in Rooms : Spent(r, ticks)' <= Cap
        /\ \A r \in Rooms : UnderCap(r) => UnderCap(r)'
    BY <1>0, <2>1, CapKept
  <2>3. pc = "quiet" => Target[job.item] \in Rooms
    BY ScheduleAssumption DEF TypeInv, Held
  <2>4. pc' = "quiet" => UnderCap(Target[job.item])'
    BY <2>1, <2>2, <2>3 DEF CapInv
  <2> QED BY <2>1, <2>2, <2>4 DEF CapInv
<1>6. ASSUME NEW q \in Rooms, AutoExpires(q) PROVE CapInv'
  <2>1. /\ auto' = [auto EXCEPT ![q] = @ - 1] /\ auto[q] > 0
        /\ UNCHANGED <<pc, job, ticks, hour>>
    BY <1>6 DEF AutoExpires
  <2>2. auto' \in [Rooms -> Nat] /\ \A r \in Rooms : auto'[r] <= auto[r]
    BY <1>0, <2>1
  <2>3. /\ \A r \in Rooms : Spent(r, ticks)' <= Cap
        /\ \A r \in Rooms : UnderCap(r) => UnderCap(r)'
    BY <2>1, <2>2, CapKept
  <2>4. pc = "quiet" => Target[job.item] \in Rooms
    BY ScheduleAssumption DEF TypeInv, Held
  <2>5. pc' = "quiet" => UnderCap(Target[job.item])'
    BY <2>1, <2>3, <2>4 DEF CapInv
  <2> QED BY <2>1, <2>3, <2>5 DEF CapInv
<1>7. CASE
         \/ Config \/ QueueDone \/ File \/ FileFails \/ TailOnce \/ Advance
         \/ NoTail \/ Interrupt
         \/ \E i \in Items : Recover(i) \/ Answer(i)
  <2>1. UNCHANGED <<ticks, hour, auto>> /\ pc' \notin {"quiet", "dispatch"}
    BY <1>7
    DEF Config, QueueDone, File, FileFails, TailOnce, Advance, NoTail, Interrupt,
        Recover, Answer, ToFile
  <2> QED BY <2>1 DEF CapInv, Spent
<1>8. CASE
         \/ UNCHANGED vars \/ Switch
         \/ \E i \in Items : \/ Schedule(i) \/ Cancel(i) \/ SendHeldNow(i)
                             \/ ComesDue(i) \/ GrowsLate(i)
         \/ \E r \in Rooms : Reply(r)
         \/ \E S \in SUBSET Rooms : Reconcile(S)
  <2>1. UNCHANGED <<ticks, hour, auto, pc, job>>
    BY <1>8
    DEF vars, Switch, Schedule, Cancel, SendHeldNow, ComesDue, GrowsLate, Reply, Reconcile
  <2> QED BY <2>1 DEF CapInv, Spent, UnderCap
<1> QED BY StepCases, <1>1, <1>2, <1>3, <1>4, <1>5, <1>6, <1>7, <1>8

LEMMA CapHolds == Spec => []CapInv
<1>1. ASSUME Init PROVE CapInv
  <2>1. ASSUME NEW r \in Rooms PROVE Spent(r, ticks) <= Cap
    <3>1. TicksIn(ticks, r) = {} /\ auto[r] = 0
      BY <1>1 DEF Init, TicksIn
    <3>2. Cardinality(TicksIn(ticks, r)) = 0
      BY <3>1, FS_EmptySet
    <3> QED BY <3>1, <3>2, Spending, ScheduleAssumption
  <2> QED BY <1>1, <2>1 DEF Init, CapInv
<1> QED BY <1>1, CapNext, TypesHold, PTL DEF Spec

(* Within the hour the schedules and the Direct path together send no more *)
(* than Cap messages into one conversation, whatever is interrupted.       *)
THEOREM CapIsKept == Spec => []CapRespected
<1>1. ASSUME TypeInv, CapInv PROVE CapRespected
  <2>1. ASSUME NEW r \in Rooms PROVE Spent(r, hour) <= Cap
    <3>1. auto[r] \in Nat /\ auto[r] <= auto[r] /\ hour \in SUBSET ticks
      BY <1>1 DEF TypeInv, TypeOK, TypeRows, CapInv
    <3>2. /\ Spent(r, hour) = Cardinality(TicksIn(hour, r)) + auto[r]
          /\ Cardinality(TicksIn(hour, r)) + auto[r] <= Spent(r, ticks)
          /\ Cardinality(TicksIn(hour, r)) + auto[r] \in Nat /\ Spent(r, ticks) \in Nat
      BY <1>1, <3>1, Spending, NoMoreSpent
    <3>3. Spent(r, ticks) <= Cap
      BY <1>1 DEF CapInv
    <3> QED BY <3>2, <3>3, ScheduleAssumption
  <2> QED BY <2>1 DEF CapRespected
<1> QED BY <1>1, TypesHold, CapHolds, PTL

-----------------------------------------------------------------------------
(* What the queue works on has been written, so that the moment it was     *)
(* scheduled is settled.                                                   *)

WrittenInv == \A i \in Items : sched[i] # "none" => Written(i)

LEMMA WrittenNext ==
  ASSUME TypeInv, OnceInv, WrittenInv, [Next]_vars PROVE WrittenInv'
<1>0. sched \in [Items -> RowStates] /\ feed \in Seq(Events)
  BY DEF TypeInv, TypeOK, TypeHub, TypeRows
<1> SUFFICES ASSUME NEW i \in Items, sched'[i] # "none" PROVE Written(i)'
  BY DEF WrittenInv
<1>1. CASE sched[i] # "none"
  BY <1>1, FeedGrows DEF WrittenInv, Written
<1>2. CASE sched[i] = "none" /\ TailOnce
  <2>1. PICK k \in {n \in since + 1 .. Len(feed) : n > Len(feed) - SyncLimit} :
          feed[k] = [kind |-> "send", item |-> i]
    BY <1>0, <1>2 DEF TailOnce, Arm, MayMark
  <2>2. k \in DOMAIN feed /\ feed' = feed
    BY <1>0, <1>2, <2>1 DEF TailOnce, TypeInv, TypeOK, TypeRows
  <2> QED BY <2>1, <2>2 DEF Written, Range
<1>3. CASE Commit \/ File
  <2>1. job.item \in Items /\ sched[job.item] # "none"
    BY <1>3 DEF Commit, File, TypeInv, Held, OnceInv, Pending
  <2>2. sched[i] # "none"
    BY <1>0, <1>3, <2>1 DEF Commit, Intend, File
  <2> QED BY <1>1, <2>2
<1>4. UNCHANGED sched \/ TailOnce \/ Commit \/ File
  BY StepCases
  DEF vars, Config, QueueDone, Dispatch, FileFails, RowKept, Advance, NoTail, Interrupt,
      Switch, Recover, Answer, Judge, Schedule, Cancel, SendHeldNow, ComesDue, GrowsLate,
      HourPasses, DirectSends, Reply, AutoExpires, Reconcile
<1> QED BY <1>1, <1>2, <1>3, <1>4

LEMMA WrittenHolds == Spec => []WrittenInv
<1>1. Init => WrittenInv
  BY DEF Init, WrittenInv
<1> QED BY <1>1, WrittenNext, TypesHold, OnceHolds, PTL DEF Spec

LEMMA StampStays ==
  ASSUME TypeInv, [Next]_vars, NEW i \in Items, Written(i)
  PROVE  stamp'[i] = stamp[i]
<1>1. ASSUME NEW j \in Items, Schedule(j) PROVE stamp'[i] = stamp[i]
  BY <1>1 DEF Schedule, TypeInv, TypeOK, TypeHub
<1>2. UNCHANGED stamp \/ \E j \in Items : Schedule(j)
  BY StepCases
  DEF vars, Config, QueueDone, Commit, Dispatch, File, FileFails, TailOnce, Advance,
      NoTail, Interrupt, Switch, Recover, Answer, Judge, Cancel, SendHeldNow, ComesDue,
      GrowsLate, HourPasses, DirectSends, Reply, AutoExpires, Reconcile
<1> QED BY <1>1, <1>2

(* Nothing said in a conversation is ever unsaid or moved.                 *)
LEMMA AppendKeeps ==
  ASSUME NEW S, NEW s \in Seq(S), NEW x \in S
  PROVE  /\ Len(Append(s, x)) = Len(s) + 1
         /\ \A k \in 1 .. Len(s) : Append(s, x)[k] = s[k]
OBVIOUS

LEMMA ConvoGrows ==
  ASSUME TypeInv, [Next]_vars, NEW r \in Rooms
  PROVE  /\ Len(convo[r]) \in Nat /\ Len(convo'[r]) \in Nat
         /\ Len(convo[r]) <= Len(convo'[r])
         /\ \A k \in 1 .. Len(convo[r]) : convo'[r][k] = convo[r][k]
<1> DEFINE Words == Items \cup {"typed", "auto"}
<1>0. convo \in [Rooms -> Seq(Words)] /\ convo[r] \in Seq(Words) /\ Len(convo[r]) \in Nat
  BY DEF TypeInv, TypeOK, TypeHub
<1>1. convo'[r] = convo[r] \/ \E x \in Words : convo'[r] = Append(convo[r], x)
  <2>1. CASE Dispatch
    <3>1. job.item \in Items
      BY <2>1 DEF Dispatch, TypeInv, Held
    <3> QED BY <1>0, <2>1, <3>1 DEF Dispatch, Say
  <2>2. ASSUME NEW q \in Rooms, NEW x \in {"typed", "auto"},
               convo' = [convo EXCEPT ![q] = Append(@, x)]
        PROVE  convo'[r] = convo[r] \/ \E y \in Words : convo'[r] = Append(convo[r], y)
    BY <1>0, <2>2
  <2>3. ASSUME NEW q \in Rooms, DirectSends(q) \/ Reply(q)
        PROVE  \E x \in {"typed", "auto"} : convo' = [convo EXCEPT ![q] = Append(@, x)]
    BY <2>3 DEF DirectSends, Reply
  <2>4. ASSUME NEW i \in Items, SendHeldNow(i)
        PROVE  \E q \in Rooms : convo' = [convo EXCEPT ![q] = Append(@, "typed")]
    BY <2>4, ScheduleAssumption DEF SendHeldNow
  <2>5. \/ UNCHANGED convo \/ Dispatch \/ \E q \in Rooms : DirectSends(q) \/ Reply(q)
        \/ \E i \in Items : SendHeldNow(i)
    BY StepCases
    DEF vars, Config, QueueDone, Commit, File, FileFails, TailOnce, Advance, NoTail,
        Interrupt, Switch, Recover, Answer, Judge, Schedule, Cancel, ComesDue, GrowsLate,
        HourPasses, AutoExpires, Reconcile
  <2> QED BY <2>1, <2>2, <2>3, <2>4, <2>5
<1>2. CASE convo'[r] = convo[r]
  BY <1>0, <1>2
<1>3. ASSUME NEW x \in Words, convo'[r] = Append(convo[r], x)
      PROVE  /\ Len(convo'[r]) = Len(convo[r]) + 1
             /\ \A k \in 1 .. Len(convo[r]) : convo'[r][k] = convo[r][k]
  BY <1>0, <1>3, AppendKeeps
<1> HIDE DEF Words
<1> QED BY <1>0, <1>1, <1>2, <1>3

-----------------------------------------------------------------------------
(* S-8.  The last gate reads the newest ScanLimit messages.                *)

ScannedIsQuiet ==
    pc = "dispatch" =>
        /\ job.seen <= Len(convo[Target[job.item]])
        /\ \A k \in 1 .. job.seen :
             k > job.seen - ScanLimit /\ k > stamp[job.item]
             => convo[Target[job.item]][k] # "typed"

LEMMA QuietNext ==
  ASSUME TypeInv, OnceInv, WrittenInv, ScannedIsQuiet, [Next]_vars PROVE ScannedIsQuiet'
<1>0. job \in Jobs
  BY DEF TypeInv, TypeOK, TypePass
<1>1. CASE pc' # "dispatch"
  BY <1>1 DEF ScannedIsQuiet
<1>2. CASE Commit /\ pc' = "dispatch"
  <2>1. /\ QuietSince(job.item) /\ UNCHANGED <<convo, stamp>>
        /\ job' = [job EXCEPT !.seen = Len(convo[Target[job.item]])]
        /\ job.item \in Items
    BY <1>2 DEF Commit, ToFile, TypeInv, Held
  <2>2. job'.item = job.item /\ job'.seen = Len(convo[Target[job.item]])
    BY <1>0, <2>1 DEF Jobs
  <2>3. convo[Target[job.item]] \in Seq(Items \cup {"typed", "auto"})
    BY <2>1, ScheduleAssumption DEF TypeInv, TypeOK, TypeHub
  <2> QED BY <2>1, <2>2, <2>3 DEF ScannedIsQuiet, QuietSince
<1>3. ASSUME pc = "dispatch", UNCHANGED <<pc, job>> PROVE ScannedIsQuiet'
  <2>1. /\ job.item \in Items /\ Target[job.item] \in Rooms /\ job.seen \in Nat
        /\ Written(job.item)
    BY <1>0, <1>3, ScheduleAssumption DEF TypeInv, Held, OnceInv, WrittenInv, Jobs
  <2>2. stamp'[job.item] = stamp[job.item]
    BY <2>1, StampStays
  <2>3. /\ Len(convo[Target[job.item]]) \in Nat /\ Len(convo'[Target[job.item]]) \in Nat
        /\ Len(convo[Target[job.item]]) <= Len(convo'[Target[job.item]])
        /\ \A k \in 1 .. Len(convo[Target[job.item]]) :
             convo'[Target[job.item]][k] = convo[Target[job.item]][k]
    BY <2>1, ConvoGrows
  <2> QED BY <1>3, <2>1, <2>2, <2>3 DEF ScannedIsQuiet
<1>4. pc' = "dispatch" => Commit \/ (pc = "dispatch" /\ UNCHANGED <<pc, job>>)
  BY StepCases
  DEF vars, Config, QueueDone, Dispatch, File, FileFails, TailOnce, Advance, NoTail,
      Interrupt, Switch, Recover, Answer, Judge, Schedule, Cancel, SendHeldNow,
      ComesDue, GrowsLate, HourPasses, DirectSends, Reply, AutoExpires, Reconcile, ToFile
<1> QED BY <1>1, <1>2, <1>3, <1>4

LEMMA QuietHolds == Spec => []ScannedIsQuiet
<1>1. Init => ScannedIsQuiet
  BY DEF Init, ScannedIsQuiet
<1> QED BY <1>1, QuietNext, TypesHold, OnceHolds, WrittenHolds, PTL DEF Spec

(* The scan reads back to the moment of scheduling.                       *)
ScanCovers == job.seen <= stamp[job.item] + ScanLimit

(* What is dispatched had not been overtaken when the conversation was     *)
(* read, as long as no more than ScanLimit messages have been said in it   *)
(* since it was scheduled.  Beyond that the scan cannot know.              *)
THEOREM NotOvertaken == Spec => [](ScanCovers => OvertakenNeverSent)
<1>1. ASSUME TypeInv, ScannedIsQuiet, ScanCovers PROVE OvertakenNeverSent
  <2>1. CASE pc = "dispatch"
    <3>1. job.item \in Items /\ job.seen \in Nat
      BY <1>1, <2>1 DEF TypeInv, TypeOK, TypePass, Held, Jobs
    <3>2. stamp[job.item] \in Nat
      BY <1>1, <3>1 DEF TypeInv, TypeOK, TypeHub
    <3>3. \A k \in stamp[job.item] + 1 .. job.seen :
            k \in 1 .. job.seen /\ k > job.seen - ScanLimit /\ k > stamp[job.item]
      BY <1>1, <3>1, <3>2, ScheduleAssumption DEF ScanCovers
    <3> QED BY <1>1, <2>1, <3>3 DEF ScannedIsQuiet, OvertakenNeverSent
  <2>2. CASE pc # "dispatch"
    BY <2>2 DEF OvertakenNeverSent
  <2> QED BY <2>1, <2>2
<1> QED BY <1>1, TypesHold, QuietHolds, PTL

=============================================================================
