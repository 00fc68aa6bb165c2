-------------------------- MODULE DirectSendProofs --------------------------
(***************************************************************************)
(* What holds of DirectSend for every finite set of proposals, every set   *)
(* of conversations and connections, and whatever the bounds.              *)
(***************************************************************************)
EXTENDS DirectSend, FiniteSetTheorems, WellFoundedInduction, TLAPS

USE DEF userVars, masterVars, hubVars, ledgerVars, feedVars, bindVars, ghostVars

-----------------------------------------------------------------------------
(* Types. One lemma per group of variables: the actions that change the    *)
(* group have a step each, the others leave it alone.  What the type of a  *)
(* pass needs besides: the connection and the proposal it holds.           *)

Held ==
    /\ pc # "config" => job.link \in Links
    /\ pc \in {"consent", "quiet", "dispatch", "record", "mark"} => job.p \in Proposals
    /\ pc = "record" => job.rec \in Records

TypeInv == TypeOK /\ Held

(* The actions one by one. *)
LEMMA StepCases == ASSUME [Next]_vars PROVE
    \/ UNCHANGED vars
    \/ ConfigOn \/ Bind \/ SuspendRebound \/ Ensure \/ Pull \/ EndBatch
    \/ Consent \/ Commit \/ Dispatch \/ Record \/ RecordFails
    \/ Drained \/ Timed \/ FireDone \/ MarkSchedule \/ Interrupt
    \/ ConfigOff \/ HistoryDown \/ Acknowledge
    \/ \E p \in Proposals :
         \/ SkipHandled(p) \/ RetireMalformed(p) \/ RecoverAttempted(p)
         \/ ArmTimed(p) \/ DraftAtOnce(p) \/ Evaluate(p)
         \/ Drain(p) \/ CloseDue(p) \/ FireDue(p)
         \/ Post(p) \/ ComesDue(p) \/ GrowsStale(p) \/ HourPasses(p)
    \/ \E r \in Rooms : Reply(r) \/ Reconcile(r)
    \/ \E r \in Rooms, l \in Levels : SetLevel(r, l)
    \/ \E l \in Links \cup {None} : Relink(l)
<1>1. CASE UNCHANGED vars
  BY <1>1
<1>2. CASE Daemon
  BY <1>2 DEF Daemon
<1>3. CASE Environment
  BY <1>3 DEF Environment
<1>4. CASE ConfigOff \/ HistoryDown \/ (\E r \in Rooms : Reconcile(r)) \/ RecordFails \/ Interrupt
  BY <1>4
<1> QED BY <1>1, <1>2, <1>3, <1>4 DEF Next

LEMMA PostedIsFinite == IsFiniteSet(Posted) /\ Cardinality(Posted) \in Nat
  BY ConstantsAssumption, FS_Subset, FS_CardinalityType DEF Posted

LEMMA IdleJobTyped == IdleJob \in Jobs
  BY DEF IdleJob, Jobs

LEMMA TypeInit == ASSUME Init PROVE TypeInv
<1>1. TypeUser
  <2>1. level \in [Rooms -> Levels]
    BY DEF Init, Levels
  <2> QED BY <2>1, ConstantsAssumption DEF Init, TypeUser
<1>2. TypeEvents
  <2>1. Unposted \in [room : Nat, nth : Nat, by : Identities, at : Nat]
    BY DEF Unposted, Identities
  <2>2. due \in [Proposals -> {"early", "open", "late"}]
    BY DEF Init
  <2>3. convo \in [Rooms -> Seq(Proposals \cup {"reply"})]
    BY DEF Init
  <2> QED BY <2>1, <2>2, <2>3 DEF Init, TypeEvents
<1>3. TypeLedger /\ TypeFeed /\ TypeBinding
  BY DEF Init, TypeLedger, TypeFeed, TypeBinding, Identities, Outcomes, Counts
<1>4. TypePass /\ Held
  BY IdleJobTyped DEF Init, TypePass, ControlPoints, Held
<1> QED BY <1>1, <1>2, <1>3, <1>4 DEF TypeOK, TypeInv

LEMMA CountsTyped ==
  ASSUME NEW c \in Counts, NEW s \in Nat, NEW r \in Nat, NEW f \in Nat
  PROVE  /\ [c EXCEPT !.stamps = s, !.faults = f] \in Counts
         /\ [c EXCEPT !.rooms = r, !.faults = f] \in Counts
         /\ [c EXCEPT !.faults = f] \in Counts
         /\ [c EXCEPT !.rooms = r] \in Counts
BY DEF Counts

(* A suspension, and a change of destination, keep the types.              *)
LEMMA SuspendTyped ==
  ASSUME TypeInv, NEW l \in Links, Suspend(l)
  PROVE  /\ susp' \in Nat
         /\ notice' \in [link : Links, ts : Nat] \cup {None}
         /\ count' \in Counts
<1>1. /\ count \in Counts /\ count.stamps + 1 \in Nat
      /\ count.faults + 1 \in Nat /\ count.faults + 0 \in Nat
  BY DEF TypeInv, TypeOK, TypeFeed, Counts
<1>2. [link |-> l, ts |-> count.stamps + 1] \in [link : Links, ts : Nat]
  BY <1>1
<1>3. PICK told \in BOOLEAN :
        /\ notice' = IF told THEN [link |-> l, ts |-> count.stamps + 1] ELSE notice
        /\ count' = [count EXCEPT !.stamps = @ + 1,
                                  !.faults = @ + (IF told THEN 0 ELSE 1)]
  BY DEF Suspend
<1>4. count' \in Counts
  <2>1. CASE told
    <3>1. count' = [count EXCEPT !.stamps = count.stamps + 1,
                                 !.faults = count.faults + 0]
      BY <1>3, <2>1
    <3> QED BY <3>1, <1>1, CountsTyped
  <2>2. CASE ~told
    <3>1. count' = [count EXCEPT !.stamps = count.stamps + 1,
                                 !.faults = count.faults + 1]
      BY <1>3, <2>2
    <3> QED BY <3>1, <1>1, CountsTyped
  <2> QED BY <2>1, <2>2
<1>5. susp' \in Nat
  BY <1>1 DEF Suspend
<1>6. notice' \in [link : Links, ts : Nat] \cup {None}
  BY <1>2, <1>3 DEF TypeInv, TypeOK, TypeUser
<1> QED BY <1>4, <1>5, <1>6

LEMMA RebindTyped ==
  ASSUME TypeInv, NEW l \in Links, RebindDestination(l),
         UNCHANGED <<level, control, ack>>
  PROVE  TypeUser' /\ TypeFeed'
<1>1. CASE dest = None \/ Destination(dest) = Destination(l)
  BY <1>1 DEF RebindDestination, TypeInv, TypeOK, TypeUser, TypeFeed
<1>2. CASE ~(dest = None \/ Destination(dest) = Destination(l))
  <2>1. room' = 0 /\ mark' = None /\ pending' = {} /\ backlog' = {}
    BY <1>2 DEF RebindDestination
  <2>2. Suspend(l) \/ UNCHANGED <<notice, susp, count>>
    BY <1>2 DEF RebindDestination
  <2>3. /\ susp' \in Nat
        /\ notice' \in [link : Links, ts : Nat] \cup {None}
        /\ count' \in Counts
    BY <2>2, SuspendTyped DEF TypeInv, TypeOK, TypeUser, TypeFeed
  <2> QED BY <2>1, <2>3 DEF TypeInv, TypeOK, TypeUser, TypeFeed
<1> QED BY <1>1, <1>2

LEMMA TypeUserNext == ASSUME TypeInv, [Next]_vars PROVE TypeUser'
<1>1. CASE ConfigOn
  <2>1. control \in Links
    BY <1>1 DEF ConfigOn, TypeInv, TypeOK, TypeUser
  <2> QED BY <1>1, <2>1, RebindTyped DEF ConfigOn
<1>2. CASE SuspendRebound
  <2>1. job.link \in Links
    BY <1>2 DEF SuspendRebound, TypeInv, Held
  <2> QED BY <1>2, <2>1, SuspendTyped DEF SuspendRebound, TypeInv, TypeOK, TypeUser
<1>3. ASSUME NEW r \in Rooms, NEW l \in Levels, SetLevel(r, l) PROVE TypeUser'
  BY <1>3 DEF TypeInv, TypeOK, TypeUser, SetLevel
<1>4. ASSUME NEW l \in Links \cup {None}, Relink(l) PROVE TypeUser'
  BY <1>4 DEF TypeInv, TypeOK, TypeUser, Relink
<1>5. CASE Acknowledge
  BY <1>5 DEF TypeInv, TypeOK, TypeUser, Acknowledge
<1>6. CASE
         \/ UNCHANGED vars
         \/ ConfigOff \/ Bind \/ Ensure \/ Pull \/ EndBatch \/ Consent \/ Commit
         \/ Dispatch \/ Record \/ RecordFails \/ Timed \/ FireDone \/ MarkSchedule
         \/ Interrupt \/ HistoryDown \/ Drained
         \/ \E p \in Proposals : SkipHandled(p) \/ RetireMalformed(p)
                                 \/ RecoverAttempted(p) \/ ArmTimed(p)
                                 \/ DraftAtOnce(p) \/ Evaluate(p) \/ CloseDue(p)
                                 \/ FireDue(p) \/ Post(p) \/ ComesDue(p)
                                 \/ GrowsStale(p) \/ HourPasses(p) \/ Drain(p)
         \/ \E r \in Rooms : Reconcile(r) \/ Reply(r)
  BY <1>6
  DEF TypeInv, TypeOK, TypeUser, vars, ConfigOff, Bind, Ensure, Pull, EndBatch,
      Consent, Commit, Dispatch, Record, RecordFails, Timed, FireDone,
      MarkSchedule, Interrupt, HistoryDown, SkipHandled, RetireMalformed,
      RecoverAttempted, ArmTimed, DraftAtOnce, Evaluate, CloseDue, FireDue, Post,
      ComesDue, GrowsStale, HourPasses, Reconcile, Reply, Drain, Drained, EndPass,
      FileArtifact, Intend, Say, ToRecord
<1> QED
  BY StepCases, <1>1, <1>2, <1>3, <1>4, <1>5, <1>6

LEMMA TypeEventsNext == ASSUME TypeInv, [Next]_vars PROVE TypeEvents'
<1>1. CASE Dispatch
  <2>1. Say(job.p) \/ UNCHANGED convo
    BY <1>1 DEF Dispatch
  <2>2. job.p \in Proposals
    BY <1>1 DEF Dispatch, TypeInv, Held
  <2>3. Target[job.p] \in Rooms
    BY <2>2, ConstantsAssumption
  <2>4. convo[Target[job.p]] \in Seq(Proposals \cup {"reply"})
    BY <2>3 DEF TypeInv, TypeOK, TypeEvents
  <2>5. Append(convo[Target[job.p]], job.p) \in Seq(Proposals \cup {"reply"})
    BY <2>2, <2>4
  <2>6. convo' \in [Rooms -> Seq(Proposals \cup {"reply"})]
    BY <2>1, <2>3, <2>4, <2>5 DEF Say, TypeInv, TypeOK, TypeEvents
  <2> QED BY <1>1, <2>6 DEF Dispatch, TypeInv, TypeOK, TypeEvents
<1>2. CASE Record
  BY <1>2 DEF TypeInv, TypeOK, TypeEvents, Record, FileArtifact, Held
<1>3. CASE RecordFails
  BY <1>3 DEF TypeInv, TypeOK, TypeEvents, RecordFails, FileArtifact, Held
<1>4. ASSUME NEW r \in Rooms, Reply(r) PROVE TypeEvents'
  BY <1>4 DEF TypeInv, TypeOK, TypeEvents, Reply
<1>5. ASSUME NEW p \in Proposals, Post(p) PROVE TypeEvents'
  <2>1. Len(convo[Target[p]]) \in Nat
    BY ConstantsAssumption DEF TypeInv, TypeOK, TypeEvents
  <2>2. [room |-> room, nth |-> Cardinality(Posted) + 1, by |-> bound,
         at |-> Len(convo[Target[p]])]
        \in [room : Nat, nth : Nat, by : Identities, at : Nat]
    BY <2>1, PostedIsFinite DEF TypeInv, TypeOK, TypeFeed, TypeBinding
  <2> QED BY <1>5, <2>2 DEF Post, TypeInv, TypeOK, TypeEvents
<1>6. ASSUME NEW p \in Proposals, ComesDue(p) PROVE TypeEvents'
  BY <1>6 DEF TypeInv, TypeOK, TypeEvents, ComesDue
<1>7. ASSUME NEW p \in Proposals, GrowsStale(p) PROVE TypeEvents'
  BY <1>7 DEF TypeInv, TypeOK, TypeEvents, GrowsStale
<1>8. CASE
         \/ UNCHANGED vars
         \/ ConfigOn \/ ConfigOff \/ Bind \/ SuspendRebound \/ Ensure \/ Pull
         \/ EndBatch \/ Consent \/ Commit \/ Timed \/ FireDone \/ MarkSchedule
         \/ Interrupt \/ HistoryDown \/ Acknowledge \/ Drained
         \/ \E p \in Proposals : SkipHandled(p) \/ RetireMalformed(p)
                                 \/ RecoverAttempted(p) \/ ArmTimed(p)
                                 \/ DraftAtOnce(p) \/ Evaluate(p) \/ CloseDue(p)
                                 \/ FireDue(p) \/ HourPasses(p) \/ Drain(p)
         \/ \E r \in Rooms : Reconcile(r)
         \/ \E r \in Rooms, l \in Levels : SetLevel(r, l)
         \/ \E l \in Links \cup {None} : Relink(l)
  BY <1>8
  DEF TypeInv, TypeOK, TypeEvents, vars, ConfigOn, ConfigOff, Bind, SuspendRebound,
      Ensure, Pull, EndBatch, Consent, Commit, Timed, FireDone, MarkSchedule,
      Interrupt, HistoryDown, SkipHandled, RetireMalformed, RecoverAttempted,
      ArmTimed, DraftAtOnce, Evaluate, CloseDue, FireDue, HourPasses, Reconcile,
      SetLevel, Relink, Acknowledge, Drain, Drained, EndPass, Intend, ToRecord
<1> QED
  BY StepCases, <1>1, <1>2, <1>3, <1>4, <1>5, <1>6, <1>7, <1>8

LEMMA TypeLedgerNext == ASSUME TypeInv, [Next]_vars PROVE TypeLedger'
<1>1. CASE Bind
  BY <1>1
  DEF TypeInv, TypeOK, TypeLedger, Bind, InvalidateBinding, InvalidateBinding
<1>2. ASSUME NEW p \in Proposals, RetireMalformed(p) PROVE TypeLedger'
  BY <1>2 DEF TypeInv, TypeOK, TypeLedger, RetireMalformed, Outcomes, Final
<1>3. ASSUME NEW p \in Proposals, ArmTimed(p) PROVE TypeLedger'
  BY <1>3 DEF TypeInv, TypeOK, TypeLedger, ArmTimed, Outcomes, Final
<1>4. CASE Commit
  BY <1>4 DEF TypeInv, TypeOK, TypeLedger, Commit, ToRecord, Intend, Outcomes, Held
<1>5. CASE Dispatch
  BY <1>5 DEF TypeInv, TypeOK, TypeLedger, Dispatch, Say, Held
<1>6. CASE Record
  <2>1. OutcomeOf(job.rec) \in Outcomes
    BY <1>6 DEF Record, TypeInv, Held, Records, OutcomeOf, Outcomes, Final
  <2> QED BY <1>6, <2>1 DEF Record, TypeInv, TypeOK, TypeLedger
<1>7. CASE MarkSchedule
  BY <1>7 DEF TypeInv, TypeOK, TypeLedger, MarkSchedule, EndPass
<1>8. ASSUME NEW p \in Proposals, CloseDue(p) PROVE TypeLedger'
  BY <1>8 DEF TypeInv, TypeOK, TypeLedger, CloseDue
<1>9. ASSUME NEW p \in Proposals, HourPasses(p) PROVE TypeLedger'
  BY <1>9 DEF TypeInv, TypeOK, TypeLedger, HourPasses
<1>10. CASE
         \/ UNCHANGED vars
         \/ ConfigOn \/ ConfigOff \/ SuspendRebound \/ Ensure \/ Pull \/ EndBatch
         \/ Consent \/ RecordFails \/ Timed \/ FireDone \/ Interrupt \/ HistoryDown
         \/ Acknowledge \/ Drained
         \/ \E p \in Proposals : SkipHandled(p) \/ RecoverAttempted(p)
                                 \/ DraftAtOnce(p) \/ Evaluate(p) \/ FireDue(p)
                                 \/ Post(p) \/ ComesDue(p) \/ GrowsStale(p)
                                 \/ Drain(p)
         \/ \E r \in Rooms : Reconcile(r) \/ Reply(r)
         \/ \E r \in Rooms, l \in Levels : SetLevel(r, l)
         \/ \E l \in Links \cup {None} : Relink(l)
  BY <1>10
  DEF TypeInv, TypeOK, TypeLedger, vars, ConfigOn, ConfigOff, SuspendRebound,
      Ensure, Pull, EndBatch, Consent, RecordFails, Timed, FireDone, Interrupt,
      HistoryDown, SkipHandled, RecoverAttempted, DraftAtOnce, Evaluate, FireDue,
      Post, ComesDue, GrowsStale, Reconcile, SetLevel, Reply, Relink, Acknowledge,
      Drain, Drained, EndPass, FileArtifact, ToRecord
<1> QED
  BY StepCases, <1>1, <1>2, <1>3, <1>4, <1>5, <1>6, <1>7, <1>8, <1>9, <1>10

LEMMA TypeFeedNext == ASSUME TypeInv, [Next]_vars PROVE TypeFeed'
<1>1. CASE ConfigOn
  <2>1. control \in Links
    BY <1>1 DEF ConfigOn, TypeInv, TypeOK, TypeUser
  <2> QED BY <1>1, <2>1, RebindTyped DEF ConfigOn
<1>2. CASE Bind
  BY <1>2 DEF TypeInv, TypeOK, TypeFeed, Bind, InvalidateBinding
<1>3. CASE SuspendRebound
  <2>1. job.link \in Links
    BY <1>3 DEF SuspendRebound, TypeInv, Held
  <2> QED BY <1>3, <2>1, SuspendTyped DEF SuspendRebound, TypeInv, TypeOK, TypeFeed
<1>4. CASE Ensure
  <2>1. susp' \in Nat /\ backlog' = backlog /\ pending' = pending
    BY <1>4 DEF Ensure, TypeInv, TypeOK, TypeFeed
  <2>2. /\ count \in Counts
        /\ count.rooms + 1 \in Nat /\ count.faults + 1 \in Nat
    BY DEF TypeInv, TypeOK, TypeFeed, Counts
  <2>5. mark' \in Nat \cup {None} /\ room' \in Nat
    BY <1>4, <2>2 DEF Ensure, TypeInv, TypeOK, TypeFeed
  <2>3. \/ count' = count
        \/ count' = [count EXCEPT !.rooms = count.rooms + 1]
        \/ count' = [count EXCEPT !.rooms = count.rooms + 1,
                                  !.faults = count.faults + 1]
    BY <1>4 DEF Ensure
  <2>4. count' \in Counts
    <3>1. [count EXCEPT !.rooms = count.rooms + 1] \in Counts
      BY <2>2, CountsTyped
    <3>2. [count EXCEPT !.rooms = count.rooms + 1, !.faults = count.faults + 1]
            \in Counts
      BY <2>2, CountsTyped
    <3> QED BY <2>2, <2>3, <3>1, <3>2, Zenon
  <2> QED BY <2>1, <2>4, <2>5 DEF TypeInv, TypeOK, TypeFeed
<1>5. CASE Pull
  BY <1>5 DEF TypeInv, TypeOK, TypeFeed, Pull, LeftBehind, Posted
<1>6. CASE EndBatch
  BY <1>6 DEF TypeInv, TypeOK, TypeFeed, EndBatch, TypePass, Jobs
<1>7. CASE Dispatch
  BY <1>7 DEF TypeInv, TypeOK, TypeFeed, Dispatch, Counts, Say
<1>8. CASE RecordFails
  BY <1>8 DEF TypeInv, TypeOK, TypeFeed, RecordFails, Counts, FileArtifact
<1>9. CASE Timed
  BY <1>9 DEF TypeInv, TypeOK, TypeFeed, Timed, EndPass
<1>10. CASE Interrupt
  BY <1>10 DEF TypeInv, TypeOK, TypeFeed, Interrupt, Counts, EndPass
<1>11. CASE HistoryDown
  BY <1>11 DEF TypeInv, TypeOK, TypeFeed, HistoryDown
<1>12. ASSUME NEW r \in Rooms, Reply(r) PROVE TypeFeed'
  BY <1>12 DEF TypeInv, TypeOK, TypeFeed, Reply, Counts
<1>13. ASSUME NEW l \in Links \cup {None}, Relink(l) PROVE TypeFeed'
  BY <1>13 DEF TypeInv, TypeOK, TypeFeed, Relink, Counts
<1>15. ASSUME NEW r \in Rooms, NEW l \in Levels, SetLevel(r, l) PROVE TypeFeed'
  BY <1>15 DEF TypeInv, TypeOK, TypeFeed, SetLevel, Counts
<1>14. CASE
         \/ UNCHANGED vars
         \/ ConfigOff \/ Consent \/ Commit \/ Record \/ FireDone \/ MarkSchedule
         \/ Acknowledge \/ Drained
         \/ \E p \in Proposals : SkipHandled(p) \/ RetireMalformed(p)
                                 \/ RecoverAttempted(p) \/ ArmTimed(p)
                                 \/ DraftAtOnce(p) \/ Evaluate(p) \/ CloseDue(p)
                                 \/ FireDue(p) \/ Post(p) \/ ComesDue(p)
                                 \/ GrowsStale(p) \/ HourPasses(p) \/ Drain(p)
         \/ \E r \in Rooms : Reconcile(r)
  BY <1>14
  DEF TypeInv, TypeOK, TypeFeed, vars, ConfigOff, Consent, Commit, Record,
      FireDone, MarkSchedule, SkipHandled, RetireMalformed, RecoverAttempted,
      ArmTimed, DraftAtOnce, Evaluate, CloseDue, FireDue, Post, ComesDue,
      GrowsStale, HourPasses, Reconcile, Acknowledge, Drain, Drained,
      EndPass, FileArtifact, Intend, ToRecord
<1> QED
  BY StepCases, <1>1, <1>2, <1>3, <1>4, <1>5, <1>6, <1>7, <1>8, <1>9, <1>10,
     <1>11, <1>12, <1>13, <1>14, <1>15

LEMMA TypeBindingNext == ASSUME TypeInv, [Next]_vars PROVE TypeBinding'
<1>1. CASE ConfigOn
  BY <1>1
  DEF TypeInv, TypeOK, TypeBinding, ConfigOn, RebindDestination, Suspend, TypeUser
<1>2. CASE ConfigOff
  BY <1>2 DEF TypeInv, TypeOK, TypeBinding, ConfigOff
<1>3. CASE Bind
  BY <1>3
  DEF TypeInv, TypeOK, TypeBinding, Bind, InvalidateBinding, Held, Identities
<1>4. CASE EndBatch
  BY <1>4 DEF TypeInv, TypeOK, TypeBinding, EndBatch
<1>5. CASE Timed
  BY <1>5 DEF TypeInv, TypeOK, TypeBinding, Timed, EndPass
<1>6. ASSUME NEW r \in Rooms, Reconcile(r) PROVE TypeBinding'
  BY <1>6 DEF TypeInv, TypeOK, TypeBinding, Reconcile
<1>7. ASSUME NEW r \in Rooms, NEW l \in Levels, SetLevel(r, l) PROVE TypeBinding'
  BY <1>7 DEF TypeInv, TypeOK, TypeBinding, SetLevel
<1>8. CASE Acknowledge
  BY <1>8 DEF TypeInv, TypeOK, TypeBinding, Acknowledge, TypeUser
<1>9. CASE
         \/ UNCHANGED vars
         \/ SuspendRebound \/ Ensure \/ Pull \/ Consent \/ Commit \/ Dispatch
         \/ Record \/ RecordFails \/ FireDone \/ MarkSchedule \/ Interrupt
         \/ HistoryDown \/ Drained
         \/ \E p \in Proposals : SkipHandled(p) \/ RetireMalformed(p)
                                 \/ RecoverAttempted(p) \/ ArmTimed(p)
                                 \/ DraftAtOnce(p) \/ Evaluate(p) \/ CloseDue(p)
                                 \/ FireDue(p) \/ Post(p) \/ ComesDue(p)
                                 \/ GrowsStale(p) \/ HourPasses(p) \/ Drain(p)
         \/ \E r \in Rooms : Reply(r)
         \/ \E l \in Links \cup {None} : Relink(l)
  BY <1>9
  DEF TypeInv, TypeOK, TypeBinding, vars, SuspendRebound, Ensure, Pull, Consent,
      Commit, Dispatch, Record, RecordFails, FireDone, MarkSchedule, Interrupt,
      HistoryDown, SkipHandled, RetireMalformed, RecoverAttempted, ArmTimed,
      DraftAtOnce, Evaluate, CloseDue, FireDue, Post, ComesDue, GrowsStale,
      HourPasses, Reply, Relink, Drain, Drained, EndPass, FileArtifact, Intend,
      Say, ToRecord
<1> QED
  BY StepCases, <1>1, <1>2, <1>3, <1>4, <1>5, <1>6, <1>7, <1>8, <1>9

LEMMA TypePassNext == ASSUME TypeInv, [Next]_vars PROVE TypePass' /\ Held'
<1>0. /\ job \in Jobs /\ IdleJob \in Jobs /\ pc \in ControlPoints
      /\ job.queue \in SUBSET Proposals
  BY IdleJobTyped DEF TypeInv, TypeOK, TypePass, Jobs
<1>1. CASE pc' = "config" /\ job' = IdleJob
  BY <1>0, <1>1 DEF TypePass, Held, ControlPoints
<1>2. CASE ConfigOn
  <2>1. control \in Links
    BY <1>2 DEF ConfigOn, TypeInv, TypeOK, TypeUser
  <2>2. pc' = "bind" /\ job' = [IdleJob EXCEPT !.link = control]
    BY <1>2 DEF ConfigOn
  <2>3. job' \in Jobs /\ job'.link \in Links
    BY <1>0, <2>1, <2>2 DEF Jobs
  <2> QED BY <2>2, <2>3 DEF TypePass, Held, ControlPoints
<1>3. CASE Bind \/ SuspendRebound
  <2>1. pc' \in {"ensure", "suspend"} /\ job' = job /\ pc # "config"
    BY <1>3 DEF Bind, SuspendRebound
  <2> QED BY <1>0, <2>1 DEF TypeInv, TypePass, Held, ControlPoints
<1>4. CASE Ensure /\ pc' # "config"
  <2>1. /\ pc = "ensure" /\ pc' = "pull"
        /\ \E b \in BOOLEAN : job' = [job EXCEPT !.suspended = b]
    BY <1>4 DEF Ensure
  <2>2. job' \in Jobs /\ job'.link = job.link
    BY <1>0, <2>1 DEF Jobs
  <2> QED BY <2>1, <2>2 DEF TypeInv, TypePass, Held, ControlPoints
<1>5. CASE Pull
  <2>1. /\ pc = "pull" /\ pc' = "next"
        /\ \E q \in SUBSET Proposals, b \in BOOLEAN, n \in Nat :
             job' = [job EXCEPT !.src = "pull", !.queue = q, !.cold = b, !.upto = n]
    <3>1. ColdStart \in BOOLEAN /\ Cardinality(Posted) \in Nat
      BY PostedIsFinite DEF ColdStart
    <3>2. \E q \in SUBSET Proposals :
             job' = [job EXCEPT !.src = "pull", !.queue = q, !.cold = ColdStart,
                                !.upto = Cardinality(Posted)]
      BY <1>5 DEF Pull, Posted
    <3> QED BY <1>5, <3>1, <3>2, Zenon DEF Pull
  <2>2. job' \in Jobs /\ job'.link = job.link
    BY <1>0, <2>1 DEF Jobs
  <2> QED BY <2>1, <2>2 DEF TypeInv, TypePass, Held, ControlPoints
<1>6. CASE EndBatch
  <2>1. /\ pc = "next" /\ pc' = "drain"
        /\ job' = [job EXCEPT !.queue = {}, !.p = None]
    BY <1>6 DEF EndBatch
  <2>2. job' \in Jobs /\ job'.link = job.link
    BY <1>0, <2>1 DEF Jobs
  <2> QED BY <2>1, <2>2 DEF TypeInv, TypePass, Held, ControlPoints
<1>7. ASSUME NEW p \in Proposals, SkipHandled(p) \/ RetireMalformed(p) \/ ArmTimed(p)
      PROVE  TypePass' /\ Held'
  <2>1. pc = "next" /\ pc' = pc /\ job' = [job EXCEPT !.queue = job.queue \ {p}]
    BY <1>7 DEF SkipHandled, RetireMalformed, ArmTimed, Taking
  <2>2. job' \in Jobs /\ job'.link = job.link
    BY <1>0, <2>1 DEF Jobs
  <2> QED BY <2>1, <2>2 DEF TypeInv, TypePass, Held, ControlPoints
<1>8. ASSUME NEW p \in Proposals, NEW rec \in Records, ToRecord(p, rec), pc # "config"
      PROVE  TypePass' /\ Held'
  <2>1. pc' = "record" /\ job' = [job EXCEPT !.p = p, !.rec = rec]
    BY <1>8 DEF ToRecord
  <2>2. job' \in Jobs /\ job'.link = job.link /\ job'.p = p /\ job'.rec = rec
    BY <1>0, <2>1 DEF Jobs
  <2> QED BY <1>8, <2>1, <2>2 DEF TypeInv, TypePass, Held, ControlPoints
<1>9. ASSUME NEW p \in Proposals, job' = [job EXCEPT !.p = p],
             pc' = "consent", pc # "config"
      PROVE  TypePass' /\ Held'
  <2>1. job' \in Jobs /\ job'.link = job.link /\ job'.p = p
    BY <1>0, <1>9 DEF Jobs
  <2> QED BY <1>9, <2>1 DEF TypeInv, TypePass, Held, ControlPoints
<1>10. ASSUME NEW p \in Proposals,
              RecoverAttempted(p) \/ DraftAtOnce(p) \/ Evaluate(p) \/ FireDue(p)
       PROVE  TypePass' /\ Held'
  <2>1. /\ pc # "config"
        /\ \/ \E rec \in Records : ToRecord(p, rec)
           \/ pc' = "consent" /\ job' = [job EXCEPT !.p = p]
    BY <1>10
    DEF RecoverAttempted, DraftAtOnce, Evaluate, FireDue, Taking, Records
  <2> QED BY <1>8, <1>9, <2>1
<1>11. CASE Consent
  <2>1. job.p \in Proposals /\ "draft" \in Records
    BY <1>11 DEF Consent, TypeInv, Held, Records
  <2>2. CASE ToRecord(job.p, "draft")
    BY <1>8, <1>11, <2>1, <2>2 DEF Consent
  <2>3. CASE pc' = "quiet" /\ job' = job
    BY <1>0, <1>11, <2>1, <2>3 DEF Consent, TypeInv, TypePass, Held, ControlPoints
  <2> QED BY <1>11, <2>2, <2>3 DEF Consent
<1>12. CASE Commit
  <2>1. job.p \in Proposals /\ "draft" \in Records
    BY <1>12 DEF Commit, TypeInv, Held, Records
  <2>2. CASE ToRecord(job.p, "draft")
    BY <1>8, <1>12, <2>1, <2>2 DEF Commit
  <2>3. CASE /\ pc' = "dispatch"
             /\ job' = [job EXCEPT !.seen = Len(convo[Target[job.p]])]
    <3>1. Len(convo[Target[job.p]]) \in Nat
      BY <2>1, ConstantsAssumption DEF TypeInv, TypeOK, TypeEvents
    <3>2. job' \in Jobs /\ job'.link = job.link /\ job'.p = job.p
      BY <1>0, <2>3, <3>1 DEF Jobs
    <3> QED
      BY <1>12, <2>1, <2>3, <3>2 DEF Commit, TypeInv, TypePass, Held, ControlPoints
  <2> QED BY <1>12, <2>2, <2>3 DEF Commit
<1>13. CASE Dispatch
  <2>1. /\ pc = "dispatch" /\ pc' = "record"
        /\ \E rec \in Records : job' = [job EXCEPT !.rec = rec, !.sent = TRUE]
    BY <1>13 DEF Dispatch, RecordFor, Records
  <2>2. /\ job' \in Jobs /\ job'.link = job.link /\ job'.p = job.p
        /\ job'.rec \in Records
    BY <1>0, <2>1 DEF Jobs
  <2> QED BY <2>1, <2>2 DEF TypeInv, TypePass, Held, ControlPoints
<1>14. CASE Record
  <2>1. pc = "record" /\ job.p \in Proposals
    BY <1>14 DEF Record, TypeInv, Held
  <2>2. CASE pc' = "mark" /\ job' = job
    BY <1>0, <2>1, <2>2 DEF TypeInv, TypePass, Held, ControlPoints
  <2>3. CASE /\ pc' = "next"
             /\ job' = [job EXCEPT !.queue = job.queue \ {job.p}, !.rec = "none",
                                   !.seen = 0, !.sent = FALSE]
    <3>1. job' \in Jobs /\ job'.link = job.link
      BY <1>0, <2>3 DEF Jobs
    <3> QED BY <2>1, <2>3, <3>1 DEF TypeInv, TypePass, Held, ControlPoints
  <2> QED BY <1>14, <2>2, <2>3 DEF Record
<1>15. ASSUME NEW p \in Proposals, Drain(p) PROVE TypePass' /\ Held'
  <2>1. /\ pc = "drain" /\ pc' = "next"
        /\ job' = [job EXCEPT !.src = "pending", !.queue = {p}, !.p = p, !.cold = TRUE]
    BY <1>15 DEF Drain
  <2>2. job' \in Jobs /\ job'.link = job.link
    BY <1>0, <2>1 DEF Jobs
  <2> QED BY <2>1, <2>2 DEF TypeInv, TypePass, Held, ControlPoints
<1>16. CASE Drained
  <2>1. pc = "drain" /\ pc' = "timed" /\ job' = [job EXCEPT !.src = "timed"]
    BY <1>16 DEF Drained
  <2>2. job' \in Jobs /\ job'.link = job.link
    BY <1>0, <2>1 DEF Jobs
  <2> QED BY <2>1, <2>2 DEF TypeInv, TypePass, Held, ControlPoints
<1>17. CASE Timed
  BY <1>0, <1>1, <1>17 DEF Timed, EndPass, TypeInv, TypePass, Held, ControlPoints
<1>18. CASE MarkSchedule
  <2>1. CASE pc' = "fire" /\ job' = [job EXCEPT !.p = None, !.rec = "none"]
    <3>1. job' \in Jobs /\ job'.link = job.link
      BY <1>0, <2>1 DEF Jobs
    <3> QED BY <1>18, <2>1, <3>1
            DEF MarkSchedule, TypeInv, TypePass, Held, ControlPoints
  <2> QED BY <1>1, <1>18, <2>1 DEF MarkSchedule, EndPass
<1>19. CASE FireDone \/ Interrupt \/ RecordFails \/ (Ensure /\ pc' = "config")
  BY <1>1, <1>19 DEF FireDone, Interrupt, RecordFails, Ensure, EndPass
<1>20. CASE
         \/ UNCHANGED vars \/ ConfigOff \/ HistoryDown \/ Acknowledge
         \/ \E p \in Proposals : \/ CloseDue(p) \/ Post(p) \/ ComesDue(p)
                                 \/ GrowsStale(p) \/ HourPasses(p)
         \/ \E r \in Rooms : Reconcile(r) \/ Reply(r)
         \/ \E r \in Rooms, l \in Levels : SetLevel(r, l)
         \/ \E l \in Links \cup {None} : Relink(l)
  <2>1. pc' = pc /\ job' = job
    BY <1>20
    DEF vars, ConfigOff, HistoryDown, Acknowledge, CloseDue, Post, ComesDue,
        GrowsStale, HourPasses, Reconcile, Reply, SetLevel, Relink
  <2> QED BY <2>1 DEF TypeInv, TypeOK, TypePass, Held
<1> QED
  BY StepCases, <1>2, <1>3, <1>4, <1>5, <1>6, <1>7, <1>10, <1>11, <1>12, <1>13,
     <1>14, <1>15, <1>16, <1>17, <1>18, <1>19, <1>20

LEMMA TypeNext == ASSUME TypeInv, [Next]_vars PROVE TypeInv'
  BY TypeUserNext, TypeEventsNext, TypeLedgerNext, TypeFeedNext, TypeBindingNext,
     TypePassNext
  DEF TypeInv, TypeOK

(* The variables keep their types, whatever the daemon, the two            *)
(* homeservers, the teammate and the manager do.                           *)
THEOREM TypesHold == Spec => []TypeInv
  BY TypeInit, TypeNext, PTL DEF Spec

THEOREM TypeCorrect == Spec => []TypeOK
  BY TypesHold, PTL DEF TypeInv

-----------------------------------------------------------------------------
(* At most one dispatch.  The property is not inductive by itself: what    *)
(* makes the second dispatch impossible is what the ledger says of the     *)
(* proposal in hand at each control point, and that a message that may     *)
(* have left never looks new again.                                        *)

OnceInv ==
    /\ AtMostOneDispatch
    /\ DispatchOnLedger
    /\ pc \in {"consent", "quiet"} => outcome[job.p] \in {"none", "scheduled"}
    /\ pc = "dispatch" => outcome[job.p] = "attempted" /\ puts[job.p] = 0
    /\ pc = "record" => /\ outcome[job.p] \in {"none", "scheduled", "attempted"}
                        /\ job.rec # "draft" => outcome[job.p] = "attempted"
                        /\ outcome[job.p] = "attempted" /\ job.rec = "draft"
                             => puts[job.p] > 0

LEMMA OnceInit == ASSUME Init PROVE OnceInv
  BY DEF Init, OnceInv, AtMostOneDispatch, DispatchOnLedger

(* The steps that leave the control point, the proposal in hand and the    *)
(* ledger alone.                                                           *)
LEMMA OnceUnchanged ==
  ASSUME OnceInv, UNCHANGED <<outcome, puts>>,
         pc' \notin {"consent", "quiet", "dispatch", "record"} \/ UNCHANGED <<pc, job>>
  PROVE  OnceInv'
BY DEF OnceInv, AtMostOneDispatch, DispatchOnLedger

LEMMA OnceNext == ASSUME TypeInv, OnceInv, [Next]_vars PROVE OnceInv'
<1>0. /\ job \in Jobs
      /\ outcome \in [Proposals -> Outcomes] /\ puts \in [Proposals -> Nat]
  BY DEF TypeInv, TypeOK, TypePass, TypeLedger
<1>1. ASSUME NEW p \in Proposals, RetireMalformed(p) PROVE OnceInv'
  <2>1. /\ outcome[p] = "none" /\ outcome' = [outcome EXCEPT ![p] = "fallback"]
        /\ puts' = puts /\ pc' = "next"
    BY <1>1 DEF RetireMalformed, Fresh, Taking
  <2> QED BY <1>0, <2>1 DEF OnceInv, AtMostOneDispatch, DispatchOnLedger
<1>2. ASSUME NEW p \in Proposals, ArmTimed(p) PROVE OnceInv'
  <2>1. /\ outcome[p] = "none" /\ outcome' = [outcome EXCEPT ![p] = "scheduled"]
        /\ puts' = puts /\ pc' = "next"
    BY <1>2 DEF ArmTimed, Fresh, Taking
  <2> QED BY <1>0, <2>1 DEF OnceInv, AtMostOneDispatch, DispatchOnLedger
<1>3. ASSUME NEW p \in Proposals, NEW rec \in Records, ToRecord(p, rec),
             UNCHANGED <<outcome, puts>>,
             IF rec = "draft" THEN outcome[p] \in {"none", "scheduled"}
                              ELSE outcome[p] = "attempted"
      PROVE  OnceInv'
  <2>1. job'.p = p /\ job'.rec = rec /\ pc' = "record"
    BY <1>0, <1>3 DEF ToRecord, Jobs
  <2> QED BY <1>3, <2>1 DEF OnceInv, AtMostOneDispatch, DispatchOnLedger
<1>4. ASSUME NEW p \in Proposals, RecoverAttempted(p) PROVE OnceInv'
  BY <1>3, <1>4 DEF RecoverAttempted, Records
<1>5. ASSUME NEW p \in Proposals, DraftAtOnce(p) PROVE OnceInv'
  BY <1>3, <1>5 DEF DraftAtOnce, Fresh, Records
<1>6. ASSUME NEW p \in Proposals, job' = [job EXCEPT !.p = p], pc' = "consent",
             UNCHANGED <<outcome, puts>>, outcome[p] \in {"none", "scheduled"}
      PROVE  OnceInv'
  <2>1. job'.p = p
    BY <1>0, <1>6 DEF Jobs
  <2> QED BY <1>6, <2>1 DEF OnceInv, AtMostOneDispatch, DispatchOnLedger
<1>7. ASSUME NEW p \in Proposals, Evaluate(p) PROVE OnceInv'
  BY <1>6, <1>7 DEF Evaluate, Fresh
<1>8. ASSUME NEW p \in Proposals, FireDue(p) PROVE OnceInv'
  <2>1. CASE outcome[p] = "attempted"
    BY <1>3, <1>8, <2>1 DEF FireDue, Records
  <2>2. CASE outcome[p] # "attempted"
    <3>1. outcome[p] = "scheduled"
      BY <1>8, <2>2 DEF FireDue, HandledOrGone
    <3> QED BY <1>3, <1>6, <1>8, <3>1 DEF FireDue, Records
  <2> QED BY <2>1, <2>2
<1>9. CASE Consent
  <2>1. job.p \in Proposals /\ outcome[job.p] \in {"none", "scheduled"}
    BY <1>9 DEF Consent, TypeInv, Held, OnceInv
  <2>2. CASE ToRecord(job.p, "draft")
    BY <1>3, <1>9, <2>1, <2>2 DEF Consent, Records
  <2>3. CASE pc' = "quiet" /\ job' = job
    BY <1>9, <2>1, <2>3
    DEF Consent, OnceInv, AtMostOneDispatch, DispatchOnLedger
  <2> QED BY <1>9, <2>2, <2>3 DEF Consent
<1>10. CASE Commit
  <2>1. job.p \in Proposals /\ outcome[job.p] \in {"none", "scheduled"}
    BY <1>10 DEF Commit, TypeInv, Held, OnceInv
  <2>2. CASE ToRecord(job.p, "draft") /\ outcome' = outcome
    BY <1>3, <1>10, <2>1, <2>2 DEF Commit, Records
  <2>3. CASE /\ pc' = "dispatch" /\ outcome' = [outcome EXCEPT ![job.p] = "attempted"]
             /\ job' = [job EXCEPT !.seen = Len(convo[Target[job.p]])]
    <3>1. puts[job.p] = 0
      BY <1>0, <2>1 DEF OnceInv, DispatchOnLedger
    <3>2. job'.p = job.p /\ puts' = puts
      BY <1>0, <1>10, <2>3 DEF Commit, Jobs
    <3> QED
      BY <1>0, <2>1, <2>3, <3>1, <3>2 DEF OnceInv, AtMostOneDispatch, DispatchOnLedger
  <2> QED BY <1>10, <2>2, <2>3 DEF Commit, Intend
<1>11. CASE Dispatch
  <2>1. job.p \in Proposals /\ outcome[job.p] = "attempted" /\ puts[job.p] = 0
    BY <1>11 DEF Dispatch, TypeInv, Held, OnceInv
  <2>2. /\ pc' = "record" /\ outcome' = outcome
        /\ puts' = [puts EXCEPT ![job.p] = puts[job.p] + 1]
        /\ \E rec \in Records : job' = [job EXCEPT !.rec = rec, !.sent = TRUE]
    BY <1>11 DEF Dispatch, RecordFor, Records
  <2>3. job'.p = job.p
    BY <1>0, <2>2 DEF Jobs
  <2> QED BY <1>0, <2>1, <2>2, <2>3 DEF OnceInv, AtMostOneDispatch, DispatchOnLedger
<1>12. CASE Record
  <2>1. /\ job.p \in Proposals
        /\ outcome' = [outcome EXCEPT ![job.p] = OutcomeOf(job.rec)]
        /\ puts' = puts /\ pc' \in {"mark", "next"}
    BY <1>12 DEF Record, TypeInv, Held
  <2>2. OutcomeOf(job.rec) \notin {"none", "scheduled"}
    BY <1>12 DEF Record, TypeInv, Held, Records, OutcomeOf
  <2> QED BY <1>0, <2>1, <2>2 DEF OnceInv, AtMostOneDispatch, DispatchOnLedger
<1>13. CASE
         \/ UNCHANGED vars
         \/ ConfigOn \/ ConfigOff \/ Bind \/ SuspendRebound \/ Ensure \/ Pull
         \/ EndBatch \/ RecordFails \/ Drained \/ Timed \/ FireDone \/ MarkSchedule
         \/ Interrupt \/ HistoryDown \/ Acknowledge
         \/ \E p \in Proposals : \/ SkipHandled(p) \/ Drain(p) \/ CloseDue(p)
                                 \/ Post(p) \/ ComesDue(p) \/ GrowsStale(p)
                                 \/ HourPasses(p)
         \/ \E r \in Rooms : Reconcile(r) \/ Reply(r)
         \/ \E r \in Rooms, l \in Levels : SetLevel(r, l)
         \/ \E l \in Links \cup {None} : Relink(l)
  <2>1. UNCHANGED <<outcome, puts>>
    BY <1>13
    DEF vars, ConfigOn, ConfigOff, Bind, InvalidateBinding, SuspendRebound, Ensure,
        Pull, EndBatch, RecordFails, Drained, Timed, FireDone, MarkSchedule,
        Interrupt, HistoryDown, Acknowledge, SkipHandled, Drain, CloseDue, Post,
        ComesDue, GrowsStale, HourPasses, Reconcile, Reply, SetLevel, Relink
  <2>2. pc' \notin {"consent", "quiet", "dispatch", "record"} \/ UNCHANGED <<pc, job>>
    BY <1>13
    DEF vars, ConfigOn, ConfigOff, Bind, SuspendRebound, Ensure, Pull, EndBatch,
        RecordFails, Drained, Timed, FireDone, MarkSchedule, Interrupt, HistoryDown,
        Acknowledge, SkipHandled, Drain, CloseDue, Post, ComesDue, GrowsStale,
        HourPasses, Reconcile, Reply, SetLevel, Relink, EndPass, Taking
  <2> QED BY <2>1, <2>2, OnceUnchanged
<1> QED
  BY StepCases, <1>1, <1>2, <1>4, <1>5, <1>7, <1>8, <1>9, <1>10, <1>11, <1>12,
     <1>13

THEOREM OnceHolds == Spec => []OnceInv
  BY TypesHold, OnceInit, OnceNext, PTL DEF Spec

(* No proposal is ever handed to the homeserver as a message twice,        *)
(* whatever crashes, fails, is replayed or is bound to another authority.  *)
THEOREM NeverTwice == Spec => []AtMostOneDispatch
  BY OnceHolds, PTL DEF OnceInv

(* What may have left is never forgotten by the ledger of outcomes.        *)
THEOREM NeverForgotten == Spec => []DispatchOnLedger
  BY OnceHolds, PTL DEF OnceInv

(* What a step does to the ledger of outcomes and to the dispatches: every *)
(* result below is a case analysis over these five.                        *)
Skipped(p) == /\ outcome[p] = "none" /\ puts' = puts
              /\ outcome' = [outcome EXCEPT ![p] = "fallback"]
Parked(p) == /\ outcome[p] = "none" /\ puts' = puts
             /\ outcome' = [outcome EXCEPT ![p] = "scheduled"]
Intended(p) == /\ outcome[p] \in {"none", "scheduled"} /\ puts' = puts
               /\ outcome' = [outcome EXCEPT ![p] = "attempted"]
Dispatched(p) == /\ outcome[p] = "attempted" /\ puts[p] = 0 /\ outcome' = outcome
                 /\ puts' = [puts EXCEPT ![p] = 1]
Recorded(p, o) == /\ outcome[p] \in {"none", "scheduled", "attempted"} /\ puts' = puts
                  /\ outcome[p] = "attempted" => o # "fallback" \/ puts[p] > 0
                  /\ o # "fallback" => outcome[p] = "attempted"
                  /\ outcome' = [outcome EXCEPT ![p] = o]
LedgerStep == \/ UNCHANGED <<outcome, puts>>
              \/ \E p \in Proposals : \/ Skipped(p) \/ Parked(p) \/ Intended(p)
                                      \/ Dispatched(p)
                                      \/ \E o \in Final : Recorded(p, o)

LEMMA LedgerSteps == ASSUME TypeInv, OnceInv, [Next]_vars PROVE LedgerStep
<1>1. ASSUME NEW p \in Proposals, RetireMalformed(p) \/ ArmTimed(p) PROVE LedgerStep
  <2>1. Skipped(p) \/ Parked(p)
    BY <1>1 DEF RetireMalformed, ArmTimed, Fresh, Skipped, Parked
  <2> QED BY <2>1 DEF LedgerStep
<1>2. CASE Commit
  <2>1. job.p \in Proposals /\ outcome[job.p] \in {"none", "scheduled"} /\ puts' = puts
    BY <1>2 DEF Commit, TypeInv, Held, OnceInv
  <2>2. outcome' = outcome \/ Intended(job.p)
    BY <1>2, <2>1 DEF Commit, Intend, Intended
  <2> QED BY <2>1, <2>2 DEF LedgerStep
<1>3. CASE Dispatch
  <2>1. /\ job.p \in Proposals /\ outcome[job.p] = "attempted" /\ puts[job.p] = 0
        /\ outcome' = outcome /\ puts' = [puts EXCEPT ![job.p] = puts[job.p] + 1]
    BY <1>3 DEF Dispatch, TypeInv, Held, OnceInv
  <2>2. Dispatched(job.p)
    BY <2>1 DEF Dispatched
  <2> QED BY <2>1, <2>2 DEF LedgerStep
<1>4. CASE Record
  <2>1. job.p \in Proposals /\ OutcomeOf(job.rec) \in Final
    BY <1>4 DEF Record, TypeInv, Held, Records, OutcomeOf, Final
  <2>2. Recorded(job.p, OutcomeOf(job.rec))
    BY <1>4 DEF Record, TypeInv, Held, Records, OutcomeOf, OnceInv, Recorded
  <2> QED BY <2>1, <2>2 DEF LedgerStep
<1>5. CASE
         \/ UNCHANGED vars
         \/ ConfigOn \/ ConfigOff \/ Bind \/ SuspendRebound \/ Ensure \/ Pull
         \/ EndBatch \/ Consent \/ RecordFails \/ Drained \/ Timed \/ FireDone
         \/ MarkSchedule \/ Interrupt \/ HistoryDown \/ Acknowledge
         \/ \E p \in Proposals : \/ SkipHandled(p) \/ RecoverAttempted(p)
                                 \/ DraftAtOnce(p) \/ Evaluate(p) \/ Drain(p)
                                 \/ CloseDue(p) \/ FireDue(p) \/ Post(p)
                                 \/ ComesDue(p) \/ GrowsStale(p) \/ HourPasses(p)
         \/ \E r \in Rooms : Reconcile(r) \/ Reply(r)
         \/ \E r \in Rooms, l \in Levels : SetLevel(r, l)
         \/ \E l \in Links \cup {None} : Relink(l)
  <2>1. UNCHANGED <<outcome, puts>>
    BY <1>5
    DEF vars, ConfigOn, ConfigOff, Bind, InvalidateBinding, SuspendRebound, Ensure,
        Pull, EndBatch, Consent, RecordFails, Drained, Timed, FireDone,
        MarkSchedule, Interrupt, HistoryDown, Acknowledge, SkipHandled,
        RecoverAttempted, DraftAtOnce, Evaluate, Drain, CloseDue, FireDue, Post,
        ComesDue, GrowsStale, HourPasses, Reconcile, Reply, SetLevel, Relink
  <2> QED BY <2>1 DEF LedgerStep
<1> QED BY StepCases, <1>1, <1>2, <1>3, <1>4, <1>5

(* An outcome, once recorded, is never revised.                            *)
THEOREM OutcomesStay == Spec => OutcomesAreFinal
<1>1. ASSUME TypeInv, OnceInv, [Next]_vars
      PROVE  \A p \in Proposals : outcome[p] \in Final => outcome'[p] = outcome[p]
  <2>1. outcome \in [Proposals -> Outcomes]
    BY <1>1 DEF TypeInv, TypeOK, TypeLedger
  <2> QED
    BY <1>1, <2>1, LedgerSteps
    DEF LedgerStep, Skipped, Parked, Intended, Dispatched, Recorded, Final
<1>2. ASSUME TypeInv, OnceInv, [Next]_vars
      PROVE  [\A p \in Proposals : outcome[p] \in Final
                                   => outcome'[p] = outcome[p]]_vars
  BY <1>1, <1>2
<1> QED BY <1>2, TypesHold, OnceHolds, PTL DEF Spec, OutcomesAreFinal

-----------------------------------------------------------------------------
(* The refinement of the once-only contract.                               *)

Intents == {p \in Proposals :
              puts[p] > 0 \/ outcome[p] \in {"attempted", "sent", "ambiguous"}}
Closed == {p \in Proposals : outcome[p] \in Final}

LEMMA OnceOnlyInit == ASSUME Init PROVE Once!Init
  BY DEF Init, Once!Init, Final

LEMMA OnceOnlyStep ==
  ASSUME TypeInv, OnceInv, [Next]_vars PROVE [Once!Next]_(Once!vars)
<1>0. outcome \in [Proposals -> Outcomes] /\ puts \in [Proposals -> Nat]
  BY DEF TypeInv, TypeOK, TypeLedger
<1>1. ASSUME UNCHANGED <<outcome, puts>> PROVE UNCHANGED Once!vars
  BY <1>1 DEF Once!vars
<1>2. ASSUME NEW p \in Proposals, Parked(p) PROVE UNCHANGED Once!vars
  <2>1. Intents' = Intents /\ Closed' = Closed
    BY <1>0, <1>2 DEF Parked, Intents, Closed, Final
  <2> QED BY <1>2, <2>1 DEF Parked, Once!vars, Intents, Closed
<1>3. ASSUME NEW p \in Proposals, Intended(p) PROVE Once!Commit(p)
  <2>1. puts[p] = 0
    BY <1>0, <1>3 DEF Intended, OnceInv, DispatchOnLedger
  <2>2. p \notin Intents \cup Closed
    BY <1>3, <2>1 DEF Intended, Intents, Closed, Final
  <2>3. Intents' = Intents \cup {p} /\ Closed' = Closed
    BY <1>0, <1>3 DEF Intended, Intents, Closed, Final
  <2> QED BY <1>3, <2>2, <2>3 DEF Intended, Once!Commit, Intents, Closed
<1>4. ASSUME NEW p \in Proposals, Dispatched(p) PROVE Once!Issue(p)
  <2>1. p \in Intents \ Closed
    BY <1>4 DEF Dispatched, Intents, Closed, Final
  <2>2. Intents' = Intents /\ Closed' = Closed
    BY <1>0, <1>4 DEF Dispatched, Intents, Closed
  <2> QED BY <1>4, <2>1, <2>2 DEF Dispatched, Once!Issue, Intents, Closed
<1>5. ASSUME NEW p \in Proposals, NEW o \in Final, Recorded(p, o) PROVE Once!Close(p)
  <2>1. p \notin Closed /\ Closed' = Closed \cup {p}
    BY <1>0, <1>5 DEF Recorded, Closed, Final
  <2>2. Intents' = Intents
    BY <1>0, <1>5 DEF Recorded, Intents, Final
  <2> QED BY <1>5, <2>1, <2>2 DEF Recorded, Once!Close, Intents, Closed
<1>6. ASSUME NEW p \in Proposals, Skipped(p) PROVE Once!Close(p)
  <2>1. "fallback" \in Final /\ Recorded(p, "fallback")
    BY <1>6 DEF Skipped, Recorded, Final
  <2> QED BY <1>5, <2>1
<1>7. UNCHANGED Once!vars
        \/ \E p \in Proposals : Once!Commit(p) \/ Once!Issue(p) \/ Once!Close(p)
  BY LedgerSteps, <1>1, <1>2, <1>3, <1>4, <1>5, <1>6 DEF LedgerStep
<1> QED BY <1>7 DEF Once!Next

(* The path implements the once-only contract of OnceOnlySend: intent      *)
(* before dispatch, one dispatch, none after an item is closed.            *)
THEOREM ImplementsOnceOnly == Spec => OnceOnly
  BY OnceOnlyInit, OnceOnlyStep, TypesHold, OnceHolds, PTL
  DEF Spec, OnceOnly, Once!Spec

-----------------------------------------------------------------------------
(* What the daemon holds has been posted, and a post never changes.        *)

LEMMA Least ==
  ASSUME NEW T, T \subseteq Nat, T # {}
  PROVE  \E x \in T : \A y \in T : x <= y
<1>1. PICK R : IsWellFoundedOn(R, Nat) /\ \A x, y \in Nat : <<y, x>> \in R <=> y < x
  <2>1. IsWellFoundedOn(OpToRel(<, Nat), Nat)
    BY NatLessThanWellFounded
  <2>2. \A x, y \in Nat : <<y, x>> \in OpToRel(<, Nat) <=> y < x
    BY DEF OpToRel
  <2> QED BY <2>1, <2>2
<1>2. PICK x \in T : \A y \in T : ~ (<<y, x>> \in R)
  BY <1>1, WFMin
<1>3. \A y \in T : ~(y < x)
  BY <1>1, <1>2, Zenon
<1> QED BY <1>3

LEMMA EarliestIsOne ==
  ASSUME TypeInv, NEW S, S \subseteq Proposals, S # {}
  PROVE  Earliest(S) \in S
<1>1. /\ {origin[q].nth : q \in S} \subseteq Nat
      /\ {origin[q].nth : q \in S} # {}
  BY DEF TypeInv, TypeOK, TypeEvents
<1>2. PICK n \in {origin[q].nth : q \in S} : \A m \in {origin[q].nth : q \in S} : n <= m
  BY <1>1, Least
<1>3. PICK p \in S : n = origin[p].nth
  BY <1>2
<1>4. \A q \in S : origin[p].nth <= origin[q].nth
  BY <1>2, <1>3
<1> QED BY <1>4 DEF Earliest

LEMMA PostsStay ==
  ASSUME TypeInv, [Next]_vars
  PROVE  /\ \A p \in Posted : origin'[p] = origin[p]
         /\ Posted \subseteq Posted'
<1>0. origin \in [Proposals -> [room : Nat, nth : Nat, by : Identities, at : Nat]]
  BY DEF TypeInv, TypeOK, TypeEvents
<1>1. ASSUME NEW p \in Proposals, Post(p)
      PROVE  \A q \in Posted : origin'[q] = origin[q]
  <2>1. p \notin Posted
    BY <1>1 DEF Post, Posted, Unposted
  <2> QED BY <1>0, <1>1, <2>1 DEF Post, Posted
<1>2. \/ UNCHANGED origin
      \/ \E p \in Proposals : Post(p)
  BY StepCases
  DEF vars, ConfigOn, ConfigOff, Bind, SuspendRebound, Ensure, Pull, EndBatch, Consent,
      Commit, Dispatch, Record, RecordFails, Drained, Timed, FireDone, MarkSchedule,
      Interrupt, HistoryDown, Acknowledge, SkipHandled, RetireMalformed,
      RecoverAttempted, ArmTimed, DraftAtOnce, Evaluate, Drain, CloseDue, FireDue,
      ComesDue, GrowsStale, HourPasses, Reply, Reconcile, SetLevel, Relink
<1>3. \A q \in Posted : origin'[q] = origin[q]
  BY <1>1, <1>2
<1> QED BY <1>3 DEF Posted

-----------------------------------------------------------------------------
(* D2-5.  A conversation that is at "direct" now has been so at a moment   *)
(* of this pass, and the consent gate has just read that of the one it let *)
(* through.                                                                *)

WillingInv ==
    /\ pc # "config" => \A r \in Rooms : level[r] = "direct" => r \in willing
    /\ pc \in {"quiet", "dispatch"} => Target[job.p] \in willing

LEMMA WillingNext == ASSUME TypeInv, WillingInv, [Next]_vars PROVE WillingInv'
<1>0. job \in Jobs
  BY DEF TypeInv, TypeOK, TypePass
<1>1. CASE ConfigOn
  BY <1>1 DEF ConfigOn, WillingInv
<1>2. ASSUME NEW r \in Rooms, NEW l \in Levels, SetLevel(r, l) PROVE WillingInv'
  BY <1>2 DEF SetLevel, WillingInv, TypeInv, TypeOK, TypeUser
<1>3. CASE Consent
  <2>1. job.p \in Proposals /\ Target[job.p] \in Rooms
    BY <1>3, ConstantsAssumption DEF Consent, TypeInv, Held
  <2> QED BY <1>3, <2>1 DEF Consent, WillingInv, Willing, ToRecord
<1>4. CASE Commit
  <2>1. \/ pc' = "record"
        \/ pc' = "dispatch" /\ job'.p = job.p
    BY <1>0, <1>4 DEF Commit, ToRecord, Jobs
  <2> QED BY <1>4, <2>1 DEF Commit, WillingInv
<1>5. CASE
         \/ Bind \/ SuspendRebound \/ Ensure \/ Pull
         \/ EndBatch \/ Dispatch \/ Record \/ RecordFails
         \/ Drained \/ Timed \/ FireDone \/ MarkSchedule \/ Interrupt
         \/ \E p \in Proposals :
              \/ SkipHandled(p) \/ RetireMalformed(p) \/ RecoverAttempted(p)
              \/ ArmTimed(p) \/ DraftAtOnce(p) \/ Evaluate(p)
              \/ Drain(p) \/ FireDue(p)
  <2>1. UNCHANGED <<level, willing>> /\ pc # "config"
    BY <1>5
    DEF Bind, SuspendRebound, Ensure, Pull, EndBatch, Dispatch, Record, RecordFails,
        Drained, Timed, FireDone, MarkSchedule, Interrupt, SkipHandled,
        RetireMalformed, RecoverAttempted, ArmTimed, DraftAtOnce, Evaluate, Drain,
        FireDue, Taking
  <2>2. pc' \notin {"quiet", "dispatch"}
    BY <1>5
    DEF Bind, SuspendRebound, Ensure, Pull, EndBatch, Dispatch, Record, RecordFails,
        Drained, Timed, FireDone, MarkSchedule, Interrupt, SkipHandled,
        RetireMalformed, RecoverAttempted, ArmTimed, DraftAtOnce, Evaluate, Drain,
        FireDue, Taking, EndPass, ToRecord
  <2> QED BY <2>1, <2>2 DEF WillingInv
<1>6. CASE
         \/ UNCHANGED vars
         \/ ConfigOff \/ HistoryDown \/ Acknowledge
         \/ \E p \in Proposals :
              CloseDue(p) \/ Post(p) \/ ComesDue(p) \/ GrowsStale(p) \/ HourPasses(p)
         \/ \E r \in Rooms : Reply(r) \/ Reconcile(r)
         \/ \E l \in Links \cup {None} : Relink(l)
  <2>1. UNCHANGED <<level, willing, pc, job>>
    BY <1>6
    DEF vars, ConfigOff, HistoryDown, Acknowledge, CloseDue, Post, ComesDue, GrowsStale,
        HourPasses, Reply, Reconcile, Relink
  <2> QED BY <2>1 DEF WillingInv
<1> QED BY StepCases, <1>1, <1>2, <1>3, <1>4, <1>5, <1>6

LEMMA WillingHolds == Spec => []WillingInv
<1>1. ASSUME Init PROVE WillingInv
  BY <1>1 DEF Init, WillingInv
<1> QED BY <1>1, WillingNext, TypesHold, PTL DEF Spec

(* Only Dispatch hands a message over, the one in hand. *)
LEMMA PutSteps ==
  ASSUME [Next]_vars, puts' # puts
  PROVE  Dispatch
BY StepCases
DEF vars, ConfigOn, ConfigOff, Bind, SuspendRebound, Ensure, Pull, EndBatch, Consent,
    Commit, Record, RecordFails, Drained, Timed, FireDone, MarkSchedule,
    Interrupt, HistoryDown, Acknowledge, SkipHandled, RetireMalformed,
    RecoverAttempted, ArmTimed, DraftAtOnce, Evaluate, Drain, CloseDue, FireDue, Post,
    ComesDue, GrowsStale, HourPasses, Reply, Reconcile, SetLevel, Relink

LEMMA PutIsInHand ==
  ASSUME TypeInv, [Next]_vars, NEW p \in Proposals, puts'[p] # puts[p]
  PROVE  pc = "dispatch" /\ p = job.p
<1>1. Dispatch
  BY PutSteps
<1> QED BY <1>1 DEF Dispatch, TypeInv, TypeOK, TypeLedger

(* A conversation that was never at "direct" during the pass receives no   *)
(* automatic message.                                                      *)
THEOREM OnlyWillingRooms == Spec => DirectRoomsOnly
<1>1. ASSUME TypeInv, WillingInv, [Next]_vars
      PROVE  [\A p \in Proposals : puts'[p] # puts[p] => Target[p] \in willing]_vars
  BY <1>1, PutIsInHand DEF WillingInv
<1> QED BY <1>1, TypesHold, WillingHolds, PTL DEF Spec, DirectRoomsOnly

-----------------------------------------------------------------------------
(* D2-6.  Every dispatch of the last hour has its tick, because the tick   *)
(* is committed with the intent; and ticks are only added where there is   *)
(* room, which lasts from the gate to the intent because only the daemon   *)
(* itself adds one.                                                        *)

CapInv ==
    /\ hour \subseteq ticks
    /\ \A r \in Rooms : UpToCap(r)
    /\ pc = "quiet" => UnderCap(Target[job.p])
    /\ pc = "dispatch" => job.p \in ticks

TicksIn(S, r) == {p \in S : Target[p] = r}

LEMMA TicksAreFinite ==
  ASSUME NEW S, S \subseteq Proposals, NEW r
  PROVE  IsFiniteSet(TicksIn(S, r)) /\ Cardinality(TicksIn(S, r)) \in Nat
<1>1. TicksIn(S, r) \in SUBSET Proposals
  BY DEF TicksIn
<1> QED BY <1>1, ConstantsAssumption, FS_Subset, FS_CardinalityType

LEMMA FewerTicks ==
  ASSUME NEW T, T \subseteq Proposals, NEW S, S \subseteq T, NEW r
  PROVE  Cardinality(TicksIn(S, r)) <= Cardinality(TicksIn(T, r))
<1>1. TicksIn(S, r) \in SUBSET TicksIn(T, r)
  BY DEF TicksIn
<1> QED BY <1>1, TicksAreFinite, FS_Subset

LEMMA OneMoreTick ==
  ASSUME NEW S, S \subseteq Proposals, NEW q \in Proposals, NEW r
  PROVE  Cardinality(TicksIn(S \cup {q}, r))
           <= Cardinality(TicksIn(S, r)) + (IF Target[q] = r THEN 1 ELSE 0)
<1>1. IsFiniteSet(TicksIn(S, r)) /\ Cardinality(TicksIn(S, r)) \in Nat
  BY TicksAreFinite
<1>2. CASE Target[q] = r
  <2>1. TicksIn(S \cup {q}, r) = TicksIn(S, r) \cup {q}
    BY <1>2 DEF TicksIn
  <2>2. Cardinality(TicksIn(S, r) \cup {q})
          = IF q \in TicksIn(S, r) THEN Cardinality(TicksIn(S, r))
                                   ELSE Cardinality(TicksIn(S, r)) + 1
    BY <1>1, FS_AddElement, Zenon
  <2> DEFINE c == Cardinality(TicksIn(S, r))
  <2>3. Cardinality(TicksIn(S \cup {q}, r)) = c \/ Cardinality(TicksIn(S \cup {q}, r)) = c + 1
    BY <2>1, <2>2, Zenon
  <2> HIDE DEF c
  <2>4. c \in Nat
    BY <1>1 DEF c
  <2>5. Cardinality(TicksIn(S \cup {q}, r)) <= c + 1
    BY <2>3, <2>4
  <2> QED BY <1>2, <2>5 DEF c
<1>3. CASE Target[q] # r
  <2>1. TicksIn(S \cup {q}, r) = TicksIn(S, r)
    BY <1>3 DEF TicksIn
  <2> QED BY <1>1, <1>3, <2>1
<1> QED BY <1>2, <1>3

LEMMA CapsByTicks ==
  /\ \A r : UpToCap(r) <=> Cardinality(TicksIn(ticks, r)) <= Cap
  /\ \A r : UnderCap(r) <=> Cardinality(TicksIn(ticks, r)) < Cap
BY DEF UpToCap, UnderCap, TicksIn

LEMMA CapNext == ASSUME TypeInv, CapInv, [Next]_vars PROVE CapInv'
<1>0. job \in Jobs /\ ticks \subseteq Proposals
  BY DEF TypeInv, TypeOK, TypePass, TypeLedger
<1>1. CASE Consent
  BY <1>1 DEF Consent, CapInv, ToRecord, UpToCap, UnderCap
<1>2. CASE Commit
  <2>1. CASE ToRecord(job.p, "draft") /\ UNCHANGED <<outcome, ticks>>
    BY <1>2, <2>1 DEF Commit, ToRecord, CapInv, UpToCap
  <2>2. CASE /\ ticks' = ticks \cup {job.p} /\ pc' = "dispatch"
             /\ job' = [job EXCEPT !.seen = Len(convo[Target[job.p]])]
    <3>1. job.p \in Proposals /\ job'.p = job.p
      BY <1>0, <1>2, <2>2 DEF Commit, TypeInv, Held, Jobs
    <3>2. ASSUME NEW r \in Rooms PROVE UpToCap(r)'
      <4>1. /\ Cardinality(TicksIn(ticks, r)) \in Nat
            /\ Cardinality(TicksIn(ticks \cup {job.p}, r)) \in Nat
        BY <1>0, <3>1, TicksAreFinite
      <4>2. Cardinality(TicksIn(ticks \cup {job.p}, r))
              <= Cardinality(TicksIn(ticks, r)) + (IF Target[job.p] = r THEN 1 ELSE 0)
        BY <1>0, <3>1, OneMoreTick
      <4>3. /\ Cardinality(TicksIn(ticks, r)) <= Cap
            /\ Target[job.p] = r => Cardinality(TicksIn(ticks, r)) < Cap
        BY <1>2, CapsByTicks DEF Commit, CapInv
      <4>4. Cardinality(TicksIn(ticks', r)) <= Cap
        BY <2>2, <4>1, <4>2, <4>3, ConstantsAssumption
      <4> QED BY <4>4 DEF UpToCap, TicksIn
    <3> QED BY <1>2, <2>2, <3>1, <3>2 DEF Commit, CapInv
  <2> QED BY <1>2, <2>1, <2>2 DEF Commit, Intend
<1>3. CASE Dispatch
  BY <1>3 DEF Dispatch, CapInv, UpToCap
<1>4. ASSUME NEW p \in Proposals, HourPasses(p) PROVE CapInv'
  <2>1. /\ ticks' = ticks \ {p} /\ hour' = hour \ {p} /\ UNCHANGED <<pc, job>>
        /\ pc = "dispatch" => job.p # p
    BY <1>4 DEF HourPasses
  <2>2. ASSUME NEW r
        PROVE  Cardinality(TicksIn(ticks', r)) <= Cardinality(TicksIn(ticks, r))
    BY <1>0, <2>1, FewerTicks
  <2>3. ASSUME NEW r
        PROVE  /\ Cardinality(TicksIn(ticks', r)) \in Nat
               /\ Cardinality(TicksIn(ticks, r)) \in Nat
    <3>1. ticks' \subseteq Proposals
      BY <1>0, <2>1
    <3> QED BY <1>0, <3>1, TicksAreFinite
  <2>4. \A r \in Rooms : UpToCap(r)'
    <3>1. ASSUME NEW r \in Rooms PROVE Cardinality(TicksIn(ticks', r)) <= Cap
      BY <2>2, <2>3, CapsByTicks, ConstantsAssumption DEF CapInv
    <3> QED BY <3>1 DEF UpToCap, TicksIn
  <2>5. pc' = "quiet" => UnderCap(Target[job.p])'
    <3>1. ASSUME pc = "quiet" PROVE Cardinality(TicksIn(ticks', Target[job.p])) < Cap
      BY <2>2, <2>3, <3>1, CapsByTicks, ConstantsAssumption DEF CapInv
    <3> QED BY <2>1, <3>1 DEF UnderCap, TicksIn
  <2> QED BY <2>1, <2>4, <2>5 DEF CapInv
<1>5. CASE
         \/ ConfigOn \/ Bind \/ SuspendRebound \/ Ensure \/ Pull
         \/ EndBatch \/ Record \/ RecordFails
         \/ Drained \/ Timed \/ FireDone \/ MarkSchedule \/ Interrupt
         \/ \E p \in Proposals :
              \/ SkipHandled(p) \/ RetireMalformed(p) \/ RecoverAttempted(p)
              \/ ArmTimed(p) \/ DraftAtOnce(p) \/ Evaluate(p)
              \/ Drain(p) \/ FireDue(p)
  <2>1. UNCHANGED <<ticks, hour>>
    BY <1>5
    DEF ConfigOn, Bind, SuspendRebound, Ensure, Pull, EndBatch, Record, RecordFails,
        Drained, Timed, FireDone, MarkSchedule, Interrupt, SkipHandled,
        RetireMalformed, RecoverAttempted, ArmTimed, DraftAtOnce, Evaluate, Drain,
        FireDue
  <2>2. pc' \notin {"quiet", "dispatch"}
    BY <1>5
    DEF ConfigOn, Bind, SuspendRebound, Ensure, Pull, EndBatch, Record, RecordFails,
        Drained, Timed, FireDone, MarkSchedule, Interrupt, SkipHandled,
        RetireMalformed, RecoverAttempted, ArmTimed, DraftAtOnce, Evaluate, Drain,
        FireDue, Taking, EndPass, ToRecord
  <2> QED BY <2>1, <2>2 DEF CapInv, UpToCap
<1>6. CASE
         \/ UNCHANGED vars
         \/ ConfigOff \/ HistoryDown \/ Acknowledge
         \/ \E p \in Proposals :
              CloseDue(p) \/ Post(p) \/ ComesDue(p) \/ GrowsStale(p)
         \/ \E r \in Rooms : Reply(r) \/ Reconcile(r)
         \/ \E r \in Rooms, l \in Levels : SetLevel(r, l)
         \/ \E l \in Links \cup {None} : Relink(l)
  <2>1. UNCHANGED <<ticks, hour, pc, job>>
    BY <1>6
    DEF vars, ConfigOff, HistoryDown, Acknowledge, CloseDue, Post, ComesDue, GrowsStale,
        Reply, Reconcile, SetLevel, Relink
  <2> QED BY <2>1 DEF CapInv, UpToCap, UnderCap
<1> QED BY StepCases, <1>1, <1>2, <1>3, <1>4, <1>5, <1>6

LEMMA CapHolds == Spec => []CapInv
<1>1. ASSUME Init PROVE CapInv
  <2>1. ASSUME NEW r PROVE UpToCap(r)
    <3>1. TicksIn(ticks, r) = {}
      BY <1>1 DEF Init, TicksIn
    <3>2. Cardinality(TicksIn(ticks, r)) = 0
      BY <3>1, FS_EmptySet
    <3> QED BY <3>2, CapsByTicks, ConstantsAssumption
  <2> QED BY <1>1, <2>1 DEF Init, CapInv
<1> QED BY <1>1, CapNext, TypesHold, PTL DEF Spec

(* Within the hour no conversation receives more than Cap automatic        *)
(* messages, whatever crashes between the tick and the send.               *)
THEOREM CapIsKept == Spec => []CapRespected
<1>1. ASSUME TypeInv, CapInv PROVE CapRespected
  <2>1. hour \subseteq ticks /\ ticks \subseteq Proposals
    BY <1>1 DEF TypeInv, TypeOK, TypeLedger, CapInv
  <2>2. ASSUME NEW r \in Rooms PROVE Cardinality(TicksIn(hour, r)) <= Cap
    <3>1. /\ Cardinality(TicksIn(hour, r)) \in Nat
          /\ Cardinality(TicksIn(ticks, r)) \in Nat
      BY <2>1, TicksAreFinite
    <3>2. Cardinality(TicksIn(hour, r)) <= Cardinality(TicksIn(ticks, r))
      BY <2>1, FewerTicks
    <3> QED BY <1>1, <3>1, <3>2, CapsByTicks, ConstantsAssumption DEF CapInv
  <2> QED BY <2>2 DEF CapRespected, TicksIn
<1> QED BY <1>1, TypesHold, CapHolds, PTL

-----------------------------------------------------------------------------
(* Nothing said in a conversation is ever unsaid or moved.                 *)

LEMMA AppendKeeps ==
  ASSUME NEW S, NEW s \in Seq(S), NEW x \in S
  PROVE  /\ Len(Append(s, x)) = Len(s) + 1
         /\ \A i \in 1 .. Len(s) : Append(s, x)[i] = s[i]
         /\ Range(Append(s, x)) = Range(s) \cup {x}
<1>1. /\ Append(s, x) \in Seq(S) /\ Len(Append(s, x)) = Len(s) + 1
      /\ \A i \in 1 .. Len(s) : Append(s, x)[i] = s[i]
      /\ Append(s, x)[Len(s) + 1] = x
      /\ DOMAIN s = 1 .. Len(s) /\ DOMAIN Append(s, x) = 1 .. Len(s) + 1
      /\ Len(s) \in Nat
  OBVIOUS
<1> QED BY <1>1 DEF Range

LEMMA ConvoGrows ==
  ASSUME TypeInv, [Next]_vars, NEW r \in Rooms
  PROVE  /\ Len(convo[r]) \in Nat /\ Len(convo'[r]) \in Nat
         /\ Len(convo[r]) <= Len(convo'[r])
         /\ \A i \in 1 .. Len(convo[r]) : convo'[r][i] = convo[r][i]
         /\ Range(convo[r]) \subseteq Range(convo'[r])
<1>0. convo[r] \in Seq(Proposals \cup {"reply"})
  BY DEF TypeInv, TypeOK, TypeEvents
<1>1. \/ convo'[r] = convo[r]
      \/ \E x \in Proposals \cup {"reply"} : convo'[r] = Append(convo[r], x)
  <2>0. convo \in [Rooms -> Seq(Proposals \cup {"reply"})]
    BY DEF TypeInv, TypeOK, TypeEvents
  <2>1. CASE Dispatch
    <3>1. job.p \in Proposals
      BY <2>1 DEF Dispatch, TypeInv, Held
    <3> QED BY <2>0, <2>1, <3>1 DEF Dispatch, Say
  <2>2. ASSUME NEW q \in Rooms, Reply(q)
        PROVE  convo'[r] = convo[r] \/ convo'[r] = Append(convo[r], "reply")
    BY <2>0, <2>2 DEF Reply
  <2>3. UNCHANGED convo \/ Dispatch \/ \E q \in Rooms : Reply(q)
    BY StepCases
    DEF vars, ConfigOn, ConfigOff, Bind, SuspendRebound, Ensure, Pull, EndBatch,
        Consent, Commit, Record, RecordFails, Drained, Timed, FireDone, MarkSchedule,
        Interrupt, HistoryDown, Acknowledge, SkipHandled, RetireMalformed,
        RecoverAttempted, ArmTimed, DraftAtOnce, Evaluate, Drain, CloseDue, FireDue,
        Post, ComesDue, GrowsStale, HourPasses, Reconcile, SetLevel, Relink
  <2> QED BY <2>1, <2>2, <2>3
<1>3. ASSUME NEW x \in Proposals \cup {"reply"}, convo'[r] = Append(convo[r], x)
      PROVE  /\ Len(convo'[r]) = Len(convo[r]) + 1
             /\ \A i \in 1 .. Len(convo[r]) : convo'[r][i] = convo[r][i]
             /\ Range(convo[r]) \subseteq Range(convo'[r])
  BY <1>0, <1>3, AppendKeeps
<1>4. Len(convo[r]) \in Nat
  BY <1>0
<1>5. CASE convo'[r] # convo[r]
  <2>1. PICK x \in Proposals \cup {"reply"} : convo'[r] = Append(convo[r], x)
    BY <1>1, <1>5
  <2>2. /\ Len(convo'[r]) = Len(convo[r]) + 1
        /\ \A i \in 1 .. Len(convo[r]) : convo'[r][i] = convo[r][i]
        /\ Range(convo[r]) \subseteq Range(convo'[r])
    BY <1>3, <2>1
  <2> QED BY <1>4, <2>2
<1>6. CASE convo'[r] = convo[r]
  BY <1>4, <1>6
<1> QED BY <1>5, <1>6

-----------------------------------------------------------------------------
(* A record of a send tells the truth.  Only a confirmed dispatch asks for *)
(* one, and the message is then in the conversation for good; what was     *)
(* filed before stays filed, because the homeserver keeps the first event  *)
(* of a transaction.                                                       *)

TruthInv ==
    /\ SentRecordTruthful
    /\ pc = "record" /\ job.rec = "sent_record" => job.p \in Range(convo[Target[job.p]])

LEMMA TruthNext == ASSUME TypeInv, TruthInv, [Next]_vars PROVE TruthInv'
<1>0. /\ job \in Jobs
      /\ outcome \in [Proposals -> Outcomes] /\ inbox \in [Proposals -> Records \cup {"none"}]
      /\ Target \in [Proposals -> Rooms]
      /\ convo \in [Rooms -> Seq(Proposals \cup {"reply"})]
  BY ConstantsAssumption DEF TypeInv, TypeOK, TypePass, TypeLedger, TypeEvents
<1>1. \A p \in Proposals : Range(convo[Target[p]]) \subseteq Range(convo'[Target[p]])
  BY <1>0, ConvoGrows
<1>2. ASSUME \A p \in Proposals : inbox'[p] = "sent_record" => inbox[p] = "sent_record",
             \A p \in Proposals : outcome'[p] = "sent" => outcome[p] = "sent",
             pc' # "record" \/ job'.rec # "sent_record"
      PROVE  TruthInv'
  BY <1>1, <1>2 DEF TruthInv, SentRecordTruthful
<1>3. CASE Dispatch
  <2>1. job.p \in Proposals /\ Target[job.p] \in Rooms
    BY <1>0, <1>3 DEF Dispatch, TypeInv, Held
  <2>2. UNCHANGED <<inbox, outcome>>
    BY <1>3 DEF Dispatch
  <2>3. SentRecordTruthful'
    BY <1>1, <2>2 DEF TruthInv, SentRecordTruthful
  <2>4. PICK answer \in {"confirmed", "refused", "unknown"} :
          /\ job' = [job EXCEPT !.rec = RecordFor(answer), !.sent = TRUE]
          /\ (answer # "refused" /\ Say(job.p)) \/ (answer # "confirmed" /\ UNCHANGED convo)
    BY <1>3 DEF Dispatch
  <2>5. job'.p = job.p /\ job'.rec = RecordFor(answer)
    BY <1>0, <2>4 DEF Jobs
  <2>6. ASSUME answer = "confirmed" PROVE job.p \in Range(convo'[Target[job.p]])
    <3>1. convo'[Target[job.p]] = IF job.p \in Range(convo[Target[job.p]])
                                  THEN convo[Target[job.p]]
                                  ELSE Append(convo[Target[job.p]], job.p)
      BY <1>0, <2>1, <2>4, <2>6 DEF Say
    <3>2. convo[Target[job.p]] \in Seq(Proposals \cup {"reply"})
      BY <1>0, <2>1
    <3> QED BY <2>1, <3>1, <3>2, AppendKeeps
  <2>7. answer # "confirmed" => job'.rec # "sent_record"
    BY <2>5 DEF RecordFor
  <2> QED BY <2>3, <2>5, <2>6, <2>7 DEF TruthInv
<1>4. CASE Record \/ RecordFails
  <2>1. job.p \in Proposals /\ job.rec \in Records /\ pc = "record"
    BY <1>4 DEF Record, RecordFails, TypeInv, Held
  <2>2. pc' # "record"
    BY <1>4 DEF Record, RecordFails
  <2>3. \A p \in Proposals : inbox'[p] = "sent_record" =>
          inbox[p] = "sent_record" \/ (p = job.p /\ job.rec = "sent_record")
    BY <1>0, <1>4, <2>1 DEF Record, RecordFails, FileArtifact
  <2>4. \A p \in Proposals : outcome'[p] = "sent" =>
          outcome[p] = "sent" \/ (p = job.p /\ job.rec = "sent_record")
    BY <1>0, <1>4, <2>1 DEF Record, RecordFails, OutcomeOf, Records
  <2> QED BY <1>1, <2>1, <2>2, <2>3, <2>4 DEF TruthInv, SentRecordTruthful
<1>5. ASSUME NEW p \in Proposals, NEW rec \in Records, ToRecord(p, rec), rec # "sent_record",
             UNCHANGED <<inbox, outcome>>
      PROVE  TruthInv'
  <2>1. job'.rec = rec
    BY <1>0, <1>5 DEF ToRecord, Jobs
  <2> QED BY <1>2, <1>5, <2>1
<1>6. ASSUME NEW p \in Proposals,
             RecoverAttempted(p) \/ DraftAtOnce(p) \/ Evaluate(p) \/ FireDue(p)
      PROVE  TruthInv'
  <2>1. CASE pc' = "consent" /\ UNCHANGED <<inbox, outcome>>
    BY <1>2, <2>1
  <2> QED
    BY <1>5, <1>6, <2>1 DEF RecoverAttempted, DraftAtOnce, Evaluate, FireDue, Records
<1>7. CASE Consent \/ Commit
  <2>1. job.p \in Proposals /\ "draft" \in Records
    BY <1>7 DEF Consent, Commit, TypeInv, Held, Records
  <2>2. CASE pc' \in {"quiet", "dispatch"}
    BY <1>0, <1>2, <1>7, <2>2 DEF Consent, Commit, Intend, ToRecord
  <2> QED BY <1>5, <1>7, <2>1, <2>2 DEF Consent, Commit
<1>8. CASE
         \/ ConfigOn \/ Bind \/ SuspendRebound \/ Ensure \/ Pull \/ EndBatch
         \/ Drained \/ Timed \/ FireDone \/ MarkSchedule \/ Interrupt
         \/ \E p \in Proposals :
              SkipHandled(p) \/ RetireMalformed(p) \/ ArmTimed(p) \/ Drain(p)
  <2>1. inbox' = inbox /\ pc' # "record"
    BY <1>8
    DEF ConfigOn, Bind, SuspendRebound, Ensure, Pull, EndBatch, Drained, Timed, FireDone,
        MarkSchedule, Interrupt, SkipHandled, RetireMalformed, ArmTimed, Drain, EndPass,
        Taking
  <2>2. \A p \in Proposals : outcome'[p] = "sent" => outcome[p] = "sent"
    BY <1>0, <1>8
    DEF ConfigOn, Bind, SuspendRebound, Ensure, Pull, EndBatch, Drained, Timed, FireDone,
        MarkSchedule, Interrupt, SkipHandled, RetireMalformed, ArmTimed, Drain,
        InvalidateBinding
  <2> QED BY <1>2, <2>1, <2>2
<1>9. CASE
         \/ UNCHANGED vars
         \/ ConfigOff \/ HistoryDown \/ Acknowledge
         \/ \E p \in Proposals :
              CloseDue(p) \/ Post(p) \/ ComesDue(p) \/ GrowsStale(p) \/ HourPasses(p)
         \/ \E r \in Rooms : Reply(r) \/ Reconcile(r)
         \/ \E r \in Rooms, l \in Levels : SetLevel(r, l)
         \/ \E l \in Links \cup {None} : Relink(l)
  <2>1. UNCHANGED <<inbox, outcome, pc, job>>
    BY <1>9
    DEF vars, ConfigOff, HistoryDown, Acknowledge, CloseDue, Post, ComesDue, GrowsStale,
        HourPasses, Reply, Reconcile, SetLevel, Relink
  <2>2. pc = "record" => job.p \in Proposals
    BY DEF TypeInv, Held
  <2> QED BY <1>1, <2>1, <2>2 DEF TruthInv, SentRecordTruthful
<1> QED BY StepCases, <1>3, <1>4, <1>6, <1>7, <1>8, <1>9

(* What the teammate reads as sent has been said in the conversation.      *)
THEOREM RecordsTellTheTruth == Spec => []SentRecordTruthful
<1>1. ASSUME Init PROVE TruthInv
  BY <1>1 DEF Init, TruthInv, SentRecordTruthful
<1>2. TruthInv => SentRecordTruthful
  BY DEF TruthInv
<1> QED BY <1>1, <1>2, TruthNext, TypesHold, PTL DEF Spec

-----------------------------------------------------------------------------
(* What the daemon holds or has parked has been posted.                    *)

PostedInv ==
    /\ job.queue \cup backlog \cup pending \subseteq Posted
    /\ \A p \in Proposals : sched[p] # "none" => p \in Posted
    /\ pc \in {"consent", "quiet", "dispatch", "record", "mark"} => job.p \in Posted

LEMMA TakenIsPosted ==
  ASSUME TypeInv, PostedInv, NEW p \in Proposals, Taking(p)
  PROVE  p \in Posted
<1>1. job.queue \subseteq Proposals /\ job.queue # {}
  BY DEF Taking, TypeInv, TypeOK, TypePass, Jobs
<1>2. p \in job.queue
  BY <1>1, EarliestIsOne DEF Taking
<1> QED BY <1>2 DEF PostedInv

LEMMA PostedNext == ASSUME TypeInv, PostedInv, [Next]_vars PROVE PostedInv'
<1>0. /\ job \in Jobs /\ IdleJob.queue = {}
      /\ sched \in [Proposals -> {"none", "armed", "done"}]
  BY DEF TypeInv, TypeOK, TypePass, TypeLedger, IdleJob
<1>1. Posted \subseteq Posted'
  BY PostsStay
<1>2. ASSUME job'.queue \cup backlog' \cup pending' \subseteq Posted,
             \A p \in Proposals : sched'[p] # "none" => sched[p] # "none" \/ p \in Posted,
             pc' \in {"consent", "quiet", "dispatch", "record", "mark"}
               => job'.p \in Posted
      PROVE  PostedInv'
  BY <1>1, <1>2 DEF PostedInv
<1>3. CASE ConfigOn
  <2>1. job'.queue = {}
    BY <1>3 DEF ConfigOn, IdleJob
  <2>2. backlog' \cup pending' \subseteq backlog \cup pending
    BY <1>3 DEF ConfigOn, RebindDestination
  <2> QED BY <1>2, <1>3, <2>1, <2>2 DEF ConfigOn, PostedInv
<1>4. CASE Ensure
  <2>1. job'.queue = job.queue \/ job'.queue = {}
    BY <1>0, <1>4 DEF Ensure, Jobs
  <2> QED BY <1>2, <1>4, <2>1 DEF Ensure, PostedInv
<1>5. CASE Pull
  <2>1. job'.queue \subseteq Posted /\ backlog' \subseteq backlog \cup Posted
    BY <1>0, <1>5 DEF Pull, LeftBehind, Jobs
  <2> QED BY <1>2, <1>5, <2>1 DEF Pull, PostedInv
<1>6. CASE EndBatch
  <2>1. job'.queue = {} /\ pending' \subseteq pending
    BY <1>0, <1>6 DEF EndBatch, Jobs
  <2> QED BY <1>2, <1>6, <2>1 DEF EndBatch, PostedInv
<1>7. ASSUME NEW p \in Proposals, SkipHandled(p) \/ RetireMalformed(p) \/ ArmTimed(p)
      PROVE  PostedInv'
  <2>1. /\ job' = [job EXCEPT !.queue = job.queue \ {p}] /\ pc' = "next"
        /\ UNCHANGED <<backlog, pending>> /\ Taking(p)
    BY <1>7 DEF SkipHandled, RetireMalformed, ArmTimed, Taking
  <2>2. \A q \in Proposals : sched'[q] # "none" => sched[q] # "none" \/ q = p
    BY <1>0, <1>7 DEF SkipHandled, RetireMalformed, ArmTimed
  <2>3. p \in Posted /\ job'.queue \subseteq job.queue
    BY <1>0, <2>1, TakenIsPosted DEF Jobs
  <2> QED BY <1>2, <2>1, <2>2, <2>3 DEF PostedInv
<1>8. ASSUME NEW p \in Proposals, RecoverAttempted(p) \/ DraftAtOnce(p) \/ Evaluate(p)
      PROVE  PostedInv'
  <2>1. /\ \/ job' = [job EXCEPT !.p = p]
           \/ \E rec \in Records : job' = [job EXCEPT !.p = p, !.rec = rec]
        /\ UNCHANGED <<backlog, pending, sched>> /\ Taking(p)
    BY <1>8 DEF RecoverAttempted, DraftAtOnce, Evaluate, ToRecord, Records
  <2>2. job'.queue = job.queue /\ job'.p = p
    BY <1>0, <2>1 DEF Jobs
  <2>3. p \in Posted
    BY <2>1, TakenIsPosted
  <2> QED BY <1>2, <2>1, <2>2, <2>3 DEF PostedInv
<1>9. ASSUME NEW p \in Proposals, FireDue(p) PROVE PostedInv'
  <2>1. /\ \/ job' = [job EXCEPT !.p = p]
           \/ \E rec \in Records : job' = [job EXCEPT !.p = p, !.rec = rec]
        /\ UNCHANGED <<backlog, pending, sched>>
    BY <1>9 DEF FireDue, ToRecord, Records
  <2>2. job'.queue = job.queue /\ job'.p = p
    BY <1>0, <2>1 DEF Jobs
  <2>3. p \in Posted
    BY <1>9 DEF FireDue, DueTimed, PostedInv
  <2> QED BY <1>2, <2>1, <2>2, <2>3 DEF PostedInv
<1>10. CASE Consent \/ Commit \/ Dispatch
  <2>1. /\ job'.queue = job.queue /\ job'.p = job.p
    <3>1. \/ job' = job
          \/ job' = [job EXCEPT !.p = job.p, !.rec = "draft"]
          \/ job' = [job EXCEPT !.seen = Len(convo[Target[job.p]])]
          \/ \E answer \in {"confirmed", "refused", "unknown"} :
                job' = [job EXCEPT !.rec = RecordFor(answer), !.sent = TRUE]
      BY <1>10 DEF Consent, Commit, Dispatch, ToRecord
    <3> QED BY <1>0, <3>1 DEF Jobs
  <2>2. job.p \in Posted /\ UNCHANGED <<backlog, pending, sched>>
    BY <1>10 DEF Consent, Commit, Dispatch, PostedInv
  <2> QED BY <1>2, <2>1, <2>2 DEF PostedInv
<1>11. CASE Record
  <2>1. /\ job'.queue \subseteq job.queue /\ pc' \in {"mark", "next"}
        /\ pc' = "mark" => job'.p = job.p
    <3>1. \/ job' = job
          \/ /\ job' = [job EXCEPT !.queue = job.queue \ {job.p}, !.rec = "none",
                                   !.seen = 0, !.sent = FALSE]
             /\ pc' = "next"
      BY <1>11 DEF Record
    <3>2. pc' \in {"mark", "next"}
      BY <1>11 DEF Record
    <3>3. CASE job' = job
      BY <3>2, <3>3
    <3>4. CASE /\ job' = [job EXCEPT !.queue = job.queue \ {job.p}, !.rec = "none",
                                     !.seen = 0, !.sent = FALSE]
               /\ pc' = "next"
      <4>1. job'.queue = job.queue \ {job.p}
        BY <1>0, <3>4 DEF Jobs
      <4> QED BY <3>4, <4>1
    <3> QED BY <3>1, <3>3, <3>4
  <2> QED BY <1>2, <1>11, <2>1 DEF Record, PostedInv
<1>12. ASSUME NEW p \in Proposals, Drain(p) PROVE PostedInv'
  <2>1. job'.queue = {p} /\ pc' = "next"
    BY <1>0, <1>12 DEF Drain, Jobs
  <2> QED BY <1>2, <1>12, <2>1 DEF Drain, PostedInv
<1>13. CASE MarkSchedule
  <2>1. /\ job'.queue = job.queue \/ job'.queue = {}
        /\ pc' \in {"config", "fire"} /\ job.p \in Posted
    <3>1. \/ job' = IdleJob
          \/ job' = [job EXCEPT !.p = None, !.rec = "none"]
      BY <1>13 DEF MarkSchedule, EndPass
    <3> QED BY <1>0, <1>13, <3>1 DEF MarkSchedule, EndPass, Jobs, PostedInv
  <2>2. sched' = [sched EXCEPT ![job.p] = "done"] /\ UNCHANGED <<backlog, pending>>
    BY <1>13 DEF MarkSchedule
  <2>3. \A p \in Proposals : sched'[p] # "none" => sched[p] # "none" \/ p \in Posted
    BY <1>0, <2>1, <2>2
  <2> QED BY <1>2, <2>1, <2>2, <2>3 DEF PostedInv
<1>14. ASSUME NEW p \in Proposals, CloseDue(p) PROVE PostedInv'
  <2>1. p \in Posted
    BY <1>14 DEF CloseDue, DueTimed, PostedInv
  <2> QED BY <1>0, <1>2, <1>14, <2>1 DEF CloseDue, PostedInv
<1>15. CASE HistoryDown
  BY <1>2, <1>15 DEF HistoryDown, PostedInv
<1>16. CASE
         \/ Bind \/ SuspendRebound \/ RecordFails \/ Drained \/ Timed \/ FireDone \/ Interrupt
  <2>1. job'.queue = job.queue \/ job'.queue = {}
    BY <1>0, <1>16
    DEF Bind, SuspendRebound, RecordFails, Drained, Timed, FireDone, Interrupt, EndPass,
        Jobs
  <2>2. /\ pc' \notin {"consent", "quiet", "dispatch", "record", "mark"}
        /\ UNCHANGED <<backlog, pending, sched>>
    BY <1>16
    DEF Bind, SuspendRebound, RecordFails, Drained, Timed, FireDone, Interrupt, EndPass
  <2> QED BY <1>2, <2>1, <2>2 DEF PostedInv
<1>17. CASE
         \/ UNCHANGED vars
         \/ ConfigOff \/ Acknowledge
         \/ \E p \in Proposals : Post(p) \/ ComesDue(p) \/ GrowsStale(p) \/ HourPasses(p)
         \/ \E r \in Rooms : Reply(r) \/ Reconcile(r)
         \/ \E r \in Rooms, l \in Levels : SetLevel(r, l)
         \/ \E l \in Links \cup {None} : Relink(l)
  <2>1. UNCHANGED <<backlog, pending, sched, pc, job>>
    BY <1>17
    DEF vars, ConfigOff, Acknowledge, Post, ComesDue, GrowsStale, HourPasses,
        Reply, Reconcile, SetLevel, Relink
  <2> QED BY <1>2, <2>1 DEF PostedInv
<1> QED
  BY StepCases, <1>3, <1>4, <1>5, <1>6, <1>7, <1>8, <1>9, <1>10, <1>11, <1>12, <1>13,
     <1>14, <1>15, <1>16, <1>17

LEMMA PostedHolds == Spec => []PostedInv
<1>1. ASSUME Init PROVE PostedInv
  BY <1>1 DEF Init, PostedInv, IdleJob
<1> QED BY <1>1, PostedNext, TypesHold, PTL DEF Spec

-----------------------------------------------------------------------------
(* D2-12.  The last gate reads the newest ScanLimit messages.              *)

ScannedIsQuiet ==
    pc = "dispatch" =>
        /\ job.seen <= Len(convo[Target[job.p]])
        /\ \A i \in 1 .. job.seen :
             i > job.seen - ScanLimit /\ i > origin[job.p].at
             => convo[Target[job.p]][i] # "reply"

LEMMA QuietNext ==
  ASSUME TypeInv, PostedInv, ScannedIsQuiet, [Next]_vars PROVE ScannedIsQuiet'
<1>0. job \in Jobs
  BY DEF TypeInv, TypeOK, TypePass
<1>1. CASE pc' # "dispatch"
  BY <1>1 DEF ScannedIsQuiet
<1>2. CASE Commit /\ pc' = "dispatch"
  <2>1. /\ QuietSince(job.p) /\ UNCHANGED <<convo, origin>>
        /\ job' = [job EXCEPT !.seen = Len(convo[Target[job.p]])]
        /\ job.p \in Proposals
    BY <1>2 DEF Commit, ToRecord, TypeInv, Held
  <2>2. job'.p = job.p /\ job'.seen = Len(convo[Target[job.p]])
    BY <1>0, <2>1 DEF Jobs
  <2>3. convo[Target[job.p]] \in Seq(Proposals \cup {"reply"})
    BY <2>1, ConstantsAssumption DEF TypeInv, TypeOK, TypeEvents
  <2> QED BY <2>1, <2>2, <2>3 DEF ScannedIsQuiet, QuietSince
<1>3. ASSUME pc = "dispatch", UNCHANGED <<pc, job>> PROVE ScannedIsQuiet'
  <2>1. job.p \in Proposals /\ Target[job.p] \in Rooms /\ job.p \in Posted
        /\ job.seen \in Nat
    BY <1>0, <1>3, ConstantsAssumption DEF TypeInv, Held, PostedInv, Jobs
  <2>2. origin'[job.p] = origin[job.p]
    BY <2>1, PostsStay
  <2>3. /\ Len(convo[Target[job.p]]) \in Nat /\ Len(convo'[Target[job.p]]) \in Nat
        /\ Len(convo[Target[job.p]]) <= Len(convo'[Target[job.p]])
        /\ \A i \in 1 .. Len(convo[Target[job.p]]) :
             convo'[Target[job.p]][i] = convo[Target[job.p]][i]
    BY <2>1, ConvoGrows
  <2> QED BY <1>3, <2>1, <2>2, <2>3 DEF ScannedIsQuiet
<1>4. pc' = "dispatch" => Commit \/ (pc = "dispatch" /\ UNCHANGED <<pc, job>>)
  BY StepCases
  DEF vars, ConfigOn, ConfigOff, Bind, SuspendRebound, Ensure, Pull, EndBatch, Consent,
      Dispatch, Record, RecordFails, Drained, Timed, FireDone, MarkSchedule,
      Interrupt, HistoryDown, Acknowledge, SkipHandled, RetireMalformed,
      RecoverAttempted, ArmTimed, DraftAtOnce, Evaluate, Drain, CloseDue, FireDue,
      Post, ComesDue, GrowsStale, HourPasses, Reply, Reconcile, SetLevel, Relink,
      Taking, EndPass, ToRecord
<1> QED BY <1>1, <1>2, <1>3, <1>4

LEMMA QuietHolds == Spec => []ScannedIsQuiet
<1>1. ASSUME Init PROVE ScannedIsQuiet
  BY <1>1 DEF Init, ScannedIsQuiet
<1> QED BY <1>1, QuietNext, TypesHold, PostedHolds, PTL DEF Spec

(* The scan reads back to the moment of writing.                          *)
ScanCovers == job.seen <= origin[job.p].at + ScanLimit

(* What is dispatched had not been overtaken when the conversation was     *)
(* read, as long as no more than ScanLimit messages have been said in it   *)
(* since the proposal was written.  Beyond that the scan cannot know.      *)
THEOREM NotOvertaken == Spec => [](ScanCovers => OvertakenNeverSent)
<1>1. ASSUME TypeInv, ScannedIsQuiet, ScanCovers PROVE OvertakenNeverSent
  <2>1. CASE pc = "dispatch"
    <3>1. job.p \in Proposals /\ job.seen \in Nat
      BY <1>1, <2>1 DEF TypeInv, TypeOK, TypePass, Held, Jobs
    <3>3. origin[job.p].at \in Nat
      BY <1>1, <3>1 DEF TypeInv, TypeOK, TypeEvents
    <3>2. \A i \in origin[job.p].at + 1 .. job.seen :
            i \in 1 .. job.seen /\ i > job.seen - ScanLimit /\ i > origin[job.p].at
      BY <1>1, <3>1, <3>3, ConstantsAssumption DEF ScanCovers
    <3> QED BY <1>1, <2>1, <3>2 DEF ScannedIsQuiet, OvertakenNeverSent
  <2>2. CASE pc # "dispatch"
    BY <2>2 DEF OvertakenNeverSent
  <2> QED BY <2>1, <2>2
<1> QED BY <1>1, TypesHold, QuietHolds, PTL

-----------------------------------------------------------------------------
(* D2-1 and D2-11.  The connection of a pass is the committed one, its     *)
(* identity is the bound one, and a suspension, with every notice and      *)
(* acknowledgement that carries its stamp, is about the present authority. *)

BindInv ==
    /\ pc # "config" => dest = job.link
    /\ pc \notin {"config", "bind"} => bound = Identity[job.link]
    /\ dest = None => bound = None /\ notice = None /\ ack = None

Notices == {notice, ack} \ {None}

StampInv ==
    /\ susp <= count.stamps
    /\ \A n \in Notices : /\ n.ts > 0 /\ n.ts <= count.stamps
                          /\ n.ts = susp => Authority[n.link] = Authority[dest]
    /\ ack # None => Authorities(ack.link) \in confirmed

LEMMA SuspendStamps ==
  ASSUME TypeInv, NEW l \in Links, Suspend(l)
  PROVE  /\ susp' = count.stamps + 1 /\ count'.stamps = count.stamps + 1
         /\ notice' = notice \/ notice' = [link |-> l, ts |-> count.stamps + 1]
<1>1. PICK told \in BOOLEAN :
        /\ notice' = IF told THEN [link |-> l, ts |-> count.stamps + 1] ELSE notice
        /\ count' = [count EXCEPT !.stamps = @ + 1,
                                  !.faults = @ + (IF told THEN 0 ELSE 1)]
  BY DEF Suspend
<1>2. count'.stamps = count.stamps + 1
  BY <1>1 DEF TypeInv, TypeOK, TypeFeed, Counts
<1> QED BY <1>1, <1>2 DEF Suspend

(* A new suspension is newer than every notice before it. *)
LEMMA StampSuspend ==
  ASSUME TypeInv, StampInv, NEW l \in Links, Suspend(l), dest' = l, UNCHANGED <<ack, confirmed>>
  PROVE  StampInv'
<1>1. /\ susp' = count.stamps + 1 /\ count'.stamps = count.stamps + 1
      /\ notice' = notice \/ notice' = [link |-> l, ts |-> count.stamps + 1]
  BY SuspendStamps
<1>2. count.stamps \in Nat
  BY DEF TypeInv, TypeOK, TypeFeed, Counts
<1>3. \A n \in Notices : n.ts \in Nat
  BY DEF Notices, TypeInv, TypeOK, TypeUser
<1>4. ASSUME NEW n \in Notices'
      PROVE  /\ n.ts > 0 /\ n.ts <= count'.stamps
             /\ n.ts = susp' => Authority[n.link] = Authority[dest']
  <2>1. CASE n \in Notices
    BY <1>1, <1>2, <1>3, <2>1 DEF StampInv
  <2>2. CASE n = [link |-> l, ts |-> count.stamps + 1]
    BY <1>1, <1>2, <2>2
  <2> QED BY <1>1, <1>4, <2>1, <2>2 DEF Notices
<1> QED BY <1>1, <1>2, <1>4 DEF StampInv

(* The connection of a pass is fixed until the pass ends. *)
LEMMA LinkStays ==
  ASSUME TypeInv, [Next]_vars, pc # "config"
  PROVE  pc' = "config" \/ (pc' # "bind" /\ job'.link = job.link) \/ (pc' = pc /\ job' = job)
<1>0. job \in Jobs
  BY DEF TypeInv, TypeOK, TypePass
<1>1. CASE Ensure
  <2>1. \/ pc' = "config"
        \/ pc' = "pull" /\ job' = [job EXCEPT !.suspended = susp' # 0]
    BY <1>1 DEF Ensure
  <2> QED BY <1>0, <2>1 DEF Jobs
<1>7. CASE Pull
  <2>1. PICK q : /\ job' = [job EXCEPT !.src = "pull", !.queue = q, !.cold = ColdStart,
                                       !.upto = Cardinality(Posted)]
                 /\ pc' = "next"
    BY <1>7 DEF Pull
  <2> QED BY <1>0, <2>1 DEF Jobs
<1>8. CASE EndBatch
  <2>1. job' = [job EXCEPT !.queue = {}, !.p = None] /\ pc' = "drain"
    BY <1>8 DEF EndBatch
  <2> QED BY <1>0, <2>1 DEF Jobs
<1>2. CASE Consent \/ Commit \/ Dispatch \/ Record
  <2>1. /\ pc' # "bind"
        /\ \/ job' = job
           \/ job' = [job EXCEPT !.p = job.p, !.rec = "draft"]
           \/ job' = [job EXCEPT !.seen = Len(convo[Target[job.p]])]
           \/ \E r : job' = [job EXCEPT !.rec = r, !.sent = TRUE]
           \/ job' = [job EXCEPT !.queue = job.queue \ {job.p}, !.rec = "none",
                                 !.seen = 0, !.sent = FALSE]
    BY <1>2 DEF Consent, Commit, Dispatch, Record, ToRecord
  <2> QED BY <1>0, <2>1 DEF Jobs
<1>3. ASSUME NEW p \in Proposals,
             \/ SkipHandled(p) \/ RetireMalformed(p) \/ RecoverAttempted(p)
             \/ ArmTimed(p) \/ DraftAtOnce(p) \/ Evaluate(p)
             \/ Drain(p) \/ FireDue(p)
      PROVE  pc' # "bind" /\ job'.link = job.link
  <2>1. /\ pc' # "bind"
        /\ \/ job' = [job EXCEPT !.queue = job.queue \ {p}]
           \/ job' = [job EXCEPT !.p = p]
           \/ \E r : job' = [job EXCEPT !.p = p, !.rec = r]
           \/ job' = [job EXCEPT !.src = "pending", !.queue = {p}, !.p = p, !.cold = TRUE]
    BY <1>3
    DEF SkipHandled, RetireMalformed, RecoverAttempted, ArmTimed, DraftAtOnce, Evaluate,
        Drain, FireDue, ToRecord, Taking
  <2> QED BY <1>0, <2>1 DEF Jobs
<1>4. CASE Bind \/ SuspendRebound \/ Drained \/ Timed \/ MarkSchedule
  <2>1. \/ pc' = "config"
        \/ /\ pc' # "bind"
           /\ \/ job' = job
              \/ job' = [job EXCEPT !.src = "timed"]
              \/ job' = [job EXCEPT !.p = None, !.rec = "none"]
    BY <1>4 DEF Bind, SuspendRebound, Drained, Timed, MarkSchedule, EndPass
  <2> QED BY <1>0, <2>1 DEF Jobs
<1>5. CASE ConfigOn \/ ConfigOff \/ RecordFails \/ FireDone \/ Interrupt
  BY <1>5 DEF ConfigOn, ConfigOff, RecordFails, FireDone, Interrupt, EndPass
<1>6. CASE
         \/ UNCHANGED vars
         \/ HistoryDown \/ Acknowledge
         \/ \E p \in Proposals :
              CloseDue(p) \/ Post(p) \/ ComesDue(p) \/ GrowsStale(p) \/ HourPasses(p)
         \/ \E r \in Rooms : Reply(r) \/ Reconcile(r)
         \/ \E r \in Rooms, l \in Levels : SetLevel(r, l)
         \/ \E l \in Links \cup {None} : Relink(l)
  BY <1>6
  DEF vars, HistoryDown, Acknowledge, CloseDue, Post, ComesDue, GrowsStale, HourPasses,
      Reply, Reconcile, SetLevel, Relink
<1> QED BY StepCases, <1>1, <1>2, <1>3, <1>4, <1>5, <1>6, <1>7, <1>8

LEMMA BindNext == ASSUME TypeInv, BindInv, [Next]_vars PROVE BindInv'
<1>0. job \in Jobs /\ IdleJob \in Jobs
  BY IdleJobTyped DEF TypeInv, TypeOK, TypePass
<1>1. CASE ConfigOn
  <2>1. /\ pc' = "bind" /\ dest' = control /\ job' = [IdleJob EXCEPT !.link = control]
        /\ control # None
    BY <1>1 DEF ConfigOn
  <2>2. job'.link = control
    BY <1>0, <2>1 DEF Jobs
  <2> QED BY <2>1, <2>2 DEF BindInv
<1>2. CASE Bind
  BY <1>2, ConstantsAssumption DEF Bind, BindInv, TypeInv, Held
<1>3. CASE Acknowledge
  BY <1>3 DEF Acknowledge, BindInv
<1>4. CASE SuspendRebound
  <2>1. pc = "suspend" /\ pc' = "ensure" /\ UNCHANGED <<ack, dest, bound, job>>
        /\ dest # None
    BY <1>4, ConstantsAssumption DEF SuspendRebound, BindInv, TypeInv, Held
  <2> QED BY <2>1 DEF BindInv
<1>5. CASE
         \/ Ensure \/ Pull \/ EndBatch \/ Consent \/ Commit \/ Dispatch \/ Record
         \/ RecordFails \/ Drained \/ Timed \/ FireDone \/ MarkSchedule \/ Interrupt
         \/ \E p \in Proposals :
              \/ SkipHandled(p) \/ RetireMalformed(p) \/ RecoverAttempted(p)
              \/ ArmTimed(p) \/ DraftAtOnce(p) \/ Evaluate(p)
              \/ Drain(p) \/ CloseDue(p) \/ FireDue(p)
  <2>1. /\ UNCHANGED <<dest, bound, notice, ack>> /\ pc # "config"
        /\ pc = "bind" => pc' = "config"
    BY <1>5
    DEF Ensure, Pull, EndBatch, Consent, Commit, Dispatch, Record, RecordFails, Drained,
        Timed, FireDone, MarkSchedule, Interrupt, SkipHandled, RetireMalformed,
        RecoverAttempted, ArmTimed, DraftAtOnce, Evaluate, Drain, CloseDue, FireDue,
        Taking, EndPass
  <2> QED BY <2>1, LinkStays DEF BindInv
<1>6. CASE
         \/ UNCHANGED vars
         \/ ConfigOff \/ HistoryDown
         \/ \E p \in Proposals : Post(p) \/ ComesDue(p) \/ GrowsStale(p) \/ HourPasses(p)
         \/ \E r \in Rooms : Reply(r) \/ Reconcile(r)
         \/ \E r \in Rooms, l \in Levels : SetLevel(r, l)
         \/ \E l \in Links \cup {None} : Relink(l)
  <2>1. UNCHANGED <<dest, bound, notice, ack, pc, job>>
    BY <1>6
    DEF vars, ConfigOff, HistoryDown, Post, ComesDue, GrowsStale, HourPasses, Reply,
        Reconcile, SetLevel, Relink
  <2> QED BY <2>1 DEF BindInv
<1> QED BY StepCases, <1>1, <1>2, <1>3, <1>4, <1>5, <1>6

LEMMA NoticesTyped ==
  ASSUME TypeInv
  PROVE  /\ \A n \in Notices : n.ts \in Nat /\ n.link \in Links
         /\ susp \in Nat /\ count.stamps \in Nat
BY DEF Notices, TypeInv, TypeOK, TypeUser, TypeFeed, Counts

LEMMA StampNext == ASSUME TypeInv, BindInv, StampInv, [Next]_vars PROVE StampInv'
<1>0. count.stamps \in Nat /\ susp \in Nat /\ \A n \in Notices : n.ts \in Nat
  BY NoticesTyped
<1>1. CASE ConfigOn
  <2>1. control \in Links /\ dest' = control /\ UNCHANGED <<ack, confirmed>>
    BY <1>1 DEF ConfigOn, TypeInv, TypeOK, TypeUser
  <2>2. CASE Suspend(control)
    BY <2>1, <2>2, StampSuspend
  <2>3. CASE ~Suspend(control)
    <3>1. /\ UNCHANGED <<notice, susp, count>>
          /\ dest = None \/ Authority[dest'] = Authority[dest]
      BY <1>1, <2>1, <2>3 DEF ConfigOn, RebindDestination, Destination
    <3>2. CASE dest = None
      BY <2>1, <3>1, <3>2 DEF BindInv, StampInv, Notices
    <3>3. CASE Authority[dest'] = Authority[dest]
      BY <2>1, <3>1, <3>3 DEF StampInv, Notices
    <3> QED BY <3>1, <3>2, <3>3
  <2> QED BY <2>2, <2>3
<1>2. CASE SuspendRebound
  <2>1. /\ job.link \in Links /\ dest' = job.link /\ Suspend(job.link)
        /\ UNCHANGED <<ack, confirmed>>
    BY <1>2 DEF SuspendRebound, BindInv, TypeInv, Held
  <2> QED BY <2>1, StampSuspend
<1>3. CASE Acknowledge
  <2>1. /\ notice # None /\ ack' = notice /\ UNCHANGED <<notice, susp, count, dest>>
        /\ Authorities(notice.link) \in confirmed' /\ Notices' \subseteq Notices
    BY <1>3 DEF Acknowledge, Notices
  <2> QED BY <2>1 DEF StampInv
<1>4. CASE Ensure
  <2>1. /\ UNCHANGED <<notice, ack, dest, confirmed>>
        /\ susp' \in {0, susp} /\ count'.stamps = count.stamps
    BY <1>4 DEF Ensure, TypeInv, TypeOK, TypeFeed, Counts
  <2>2. Notices' = Notices
    BY <2>1 DEF Notices
  <2> QED BY <1>0, <2>1, <2>2 DEF StampInv
<1>5. CASE Timed
  <2>1. UNCHANGED <<notice, ack, dest, confirmed, count>> /\ susp' \in {0, susp}
    BY <1>5 DEF Timed
  <2>2. Notices' = Notices
    BY <2>1 DEF Notices
  <2> QED BY <1>0, <2>1, <2>2 DEF StampInv
<1>6. CASE Bind
  BY <1>6 DEF Bind, StampInv, Notices
<1>7. CASE
         \/ UNCHANGED vars
         \/ ConfigOff \/ Pull \/ EndBatch \/ Consent \/ Commit \/ Dispatch \/ Record
         \/ RecordFails \/ Drained \/ FireDone \/ MarkSchedule \/ Interrupt \/ HistoryDown
         \/ \E p \in Proposals :
              \/ SkipHandled(p) \/ RetireMalformed(p) \/ RecoverAttempted(p)
              \/ ArmTimed(p) \/ DraftAtOnce(p) \/ Evaluate(p)
              \/ Drain(p) \/ CloseDue(p) \/ FireDue(p)
              \/ Post(p) \/ ComesDue(p) \/ GrowsStale(p) \/ HourPasses(p)
         \/ \E r \in Rooms : Reply(r) \/ Reconcile(r)
         \/ \E r \in Rooms, l \in Levels : SetLevel(r, l)
         \/ \E l \in Links \cup {None} : Relink(l)
  <2>1. UNCHANGED <<notice, ack, dest, confirmed, susp>>
    BY <1>7
    DEF vars, ConfigOff, Pull, EndBatch, Consent, Commit, Dispatch, Record, RecordFails,
        Drained, FireDone, MarkSchedule, Interrupt, HistoryDown, SkipHandled,
        RetireMalformed, RecoverAttempted, ArmTimed, DraftAtOnce, Evaluate, Drain,
        CloseDue, FireDue, Post, ComesDue, GrowsStale, HourPasses, Reply, Reconcile,
        SetLevel, Relink
  <2>2. count'.stamps = count.stamps
    <3>1. count \in Counts
      BY DEF TypeInv, TypeOK, TypeFeed
    <3>2. \/ count' = count
          \/ count' = [count EXCEPT !.faults = @ + 1]
          \/ count' = [count EXCEPT !.replies = @ + 1]
          \/ count' = [count EXCEPT !.levels = @ + 1]
          \/ count' = [count EXCEPT !.links = @ + 1]
      BY <1>7
      DEF vars, ConfigOff, Pull, EndBatch, Consent, Commit, Dispatch, Record, RecordFails,
          Drained, FireDone, MarkSchedule, Interrupt, HistoryDown, SkipHandled,
          RetireMalformed, RecoverAttempted, ArmTimed, DraftAtOnce, Evaluate, Drain,
          CloseDue, FireDue, Post, ComesDue, GrowsStale, HourPasses, Reply, Reconcile,
          SetLevel, Relink
    <3> QED BY <3>1, <3>2 DEF Counts
  <2>3. Notices' = Notices
    BY <2>1 DEF Notices
  <2> QED BY <2>1, <2>2, <2>3 DEF StampInv
<1> QED BY StepCases, <1>1, <1>2, <1>3, <1>4, <1>5, <1>6, <1>7

LEMMA BindingHolds == Spec => [](BindInv /\ StampInv)
<1>1. ASSUME Init PROVE BindInv /\ StampInv
  BY <1>1 DEF Init, BindInv, StampInv, Notices
<1> QED BY <1>1, BindNext, StampNext, TypesHold, PTL DEF Spec

(* A pass that is not suspended, or that has come to the gates, runs under *)
(* no suspension, and what it lets through was written by the bound        *)
(* manager.                                                                *)
ClearInv ==
    /\ pc = "next" => job.src # "timed"
    /\ pc \in {"pull", "next", "drain", "record"} /\ ~job.suspended => susp = 0
    /\ pc = "record" /\ job.src = "timed" => susp = 0
    /\ pc \in {"consent", "quiet", "dispatch", "fire", "mark"} => susp = 0
    /\ pc \in {"consent", "quiet", "dispatch"} =>
         origin[job.p].by = bound /\ Kind[job.p] # "foreign"

(* The authority in force without a suspension was adopted or confirmed.   *)
ConfirmedInv ==
    susp = 0 /\ pc # "suspend" /\ (bound # None \/ pc \notin {"config", "bind"})
    => <<bound, Authority[dest]>> \in confirmed

(* The process dies between the commit of a new identity and that of its   *)
(* suspension.                                                             *)
CutOff == pc = "suspend" /\ pc' = "config"

LEMMA AckConfirms ==
  ASSUME TypeInv, StampInv, AckMatches
  PROVE  <<bound, Authority[dest]>> \in confirmed
BY DEF AckMatches, StampInv, Notices, Authorities

LEMMA ConfirmedNext ==
  ASSUME TypeInv, BindInv, StampInv, ConfirmedInv, [Next]_vars, ~CutOff
  PROVE  ConfirmedInv'
<1>0. count.stamps \in Nat
  BY NoticesTyped
<1>1. CASE ConfigOn
  <2>1. /\ control \in Links /\ dest' = control /\ UNCHANGED <<bound, confirmed>>
        /\ pc = "config" /\ pc' = "bind"
    BY <1>1 DEF ConfigOn, TypeInv, TypeOK, TypeUser
  <2>2. CASE Suspend(control)
    BY <1>0, <2>2 DEF Suspend, ConfirmedInv
  <2>3. CASE ~Suspend(control)
    <3>1. susp' = susp /\ (dest = None \/ Authority[dest'] = Authority[dest])
      BY <1>1, <2>1, <2>3 DEF ConfigOn, RebindDestination, Destination
    <3> QED BY <2>1, <3>1 DEF ConfirmedInv, BindInv
  <2> QED BY <2>2, <2>3
<1>2. CASE Bind
  <2>1. /\ bound' = Identity[job.link] /\ dest = job.link
        /\ UNCHANGED <<susp, dest>> /\ confirmed \subseteq confirmed'
    BY <1>2 DEF Bind, BindInv
  <2>2. CASE bound = None
    BY <1>2, <2>1, <2>2 DEF Bind, ConfirmedInv, Authorities
  <2>3. CASE bound # None /\ bound = Identity[job.link]
    BY <1>2, <2>1, <2>3 DEF Bind, ConfirmedInv
  <2>4. CASE bound # None /\ bound # Identity[job.link]
    BY <1>2, <2>4 DEF Bind, ConfirmedInv
  <2> QED BY <2>2, <2>3, <2>4
<1>3. CASE SuspendRebound
  BY <1>0, <1>3 DEF SuspendRebound, Suspend, ConfirmedInv
<1>4. CASE Ensure
  <2>1. /\ susp' = susp \/ AckMatches
        /\ pc = "ensure" /\ UNCHANGED <<bound, dest, confirmed>>
    BY <1>4 DEF Ensure
  <2> QED BY <2>1, AckConfirms DEF ConfirmedInv
<1>5. CASE Timed
  <2>1. /\ susp' = susp \/ AckMatches
        /\ pc = "timed" /\ UNCHANGED <<bound, dest, confirmed>>
    BY <1>5 DEF Timed
  <2> QED BY <2>1, AckConfirms DEF ConfirmedInv
<1>6. CASE Acknowledge
  BY <1>6 DEF Acknowledge, ConfirmedInv
<1>7. CASE Interrupt
  BY <1>7 DEF Interrupt, EndPass, CutOff, ConfirmedInv
<1>8. CASE
         \/ Pull \/ EndBatch \/ Consent \/ Commit \/ Dispatch \/ Record
         \/ RecordFails \/ Drained \/ FireDone \/ MarkSchedule
         \/ \E p \in Proposals :
              \/ SkipHandled(p) \/ RetireMalformed(p) \/ RecoverAttempted(p)
              \/ ArmTimed(p) \/ DraftAtOnce(p) \/ Evaluate(p)
              \/ Drain(p) \/ CloseDue(p) \/ FireDue(p)
  <2>1. UNCHANGED <<bound, dest, confirmed, susp>> /\ pc \notin {"config", "bind", "suspend"}
    BY <1>8
    DEF Pull, EndBatch, Consent, Commit, Dispatch, Record, RecordFails, Drained, FireDone,
        MarkSchedule, SkipHandled, RetireMalformed, RecoverAttempted, ArmTimed,
        DraftAtOnce, Evaluate, Drain, CloseDue, FireDue, Taking
  <2> QED BY <2>1 DEF ConfirmedInv
<1>9. CASE
         \/ UNCHANGED vars
         \/ ConfigOff \/ HistoryDown
         \/ \E p \in Proposals : Post(p) \/ ComesDue(p) \/ GrowsStale(p) \/ HourPasses(p)
         \/ \E r \in Rooms : Reply(r) \/ Reconcile(r)
         \/ \E r \in Rooms, l \in Levels : SetLevel(r, l)
         \/ \E l \in Links \cup {None} : Relink(l)
  <2>1. UNCHANGED <<bound, dest, confirmed, susp, pc>>
    BY <1>9
    DEF vars, ConfigOff, HistoryDown, Post, ComesDue, GrowsStale, HourPasses, Reply,
        Reconcile, SetLevel, Relink
  <2> QED BY <2>1 DEF ConfirmedInv
<1> QED BY StepCases, <1>1, <1>2, <1>3, <1>4, <1>5, <1>6, <1>7, <1>8, <1>9

LEMMA ClearNext ==
  ASSUME TypeInv, BindInv, PostedInv, ClearInv, [Next]_vars
  PROVE  ClearInv'
<1>0. job \in Jobs
  BY DEF TypeInv, TypeOK, TypePass
<1>1. CASE pc' \in {"config", "bind", "ensure", "suspend", "timed"}
  BY <1>1 DEF ClearInv
<1>2. CASE Ensure /\ pc' # "config"
  <2>1. pc' = "pull" /\ job' = [job EXCEPT !.suspended = susp' # 0]
    BY <1>2 DEF Ensure
  <2>2. job'.suspended = (susp' # 0)
    BY <1>0, <2>1 DEF Jobs
  <2> QED BY <2>1, <2>2 DEF ClearInv
<1>3. CASE Pull
  <2>1. PICK q : /\ job' = [job EXCEPT !.src = "pull", !.queue = q, !.cold = ColdStart,
                                       !.upto = Cardinality(Posted)]
                 /\ pc = "pull" /\ pc' = "next" /\ susp' = susp
    BY <1>3 DEF Pull
  <2>2. job'.suspended = job.suspended /\ job'.src = "pull"
    BY <1>0, <2>1 DEF Jobs
  <2> QED BY <2>1, <2>2 DEF ClearInv
<1>4. CASE EndBatch
  <2>1. /\ job' = [job EXCEPT !.queue = {}, !.p = None]
        /\ pc = "next" /\ pc' = "drain" /\ susp' = susp
    BY <1>4 DEF EndBatch
  <2>2. job'.suspended = job.suspended
    BY <1>0, <2>1 DEF Jobs
  <2> QED BY <2>1, <2>2 DEF ClearInv
<1>5. ASSUME NEW p \in Proposals, SkipHandled(p) \/ RetireMalformed(p) \/ ArmTimed(p)
      PROVE  ClearInv'
  <2>1. /\ job' = [job EXCEPT !.queue = job.queue \ {p}]
        /\ pc = "next" /\ pc' = "next" /\ susp' = susp
    BY <1>5 DEF SkipHandled, RetireMalformed, ArmTimed, Taking
  <2>2. job'.suspended = job.suspended /\ job'.src = job.src
    BY <1>0, <2>1 DEF Jobs
  <2> QED BY <2>1, <2>2 DEF ClearInv
<1>6. ASSUME NEW p, NEW rec, ToRecord(p, rec), susp' = susp,
             susp = 0 \/ (job.suspended /\ job.src # "timed")
      PROVE  ClearInv'
  <2>1. pc' = "record" /\ job'.suspended = job.suspended /\ job'.src = job.src
    BY <1>0, <1>6 DEF ToRecord, Jobs
  <2> QED BY <1>6, <2>1 DEF ClearInv
<1>7. ASSUME NEW p \in Proposals, RecoverAttempted(p) \/ DraftAtOnce(p)
      PROVE  ClearInv'
  <2>1. /\ \E rec : ToRecord(p, rec)
        /\ pc = "next" /\ susp' = susp
    BY <1>7 DEF RecoverAttempted, DraftAtOnce, Taking
  <2>2. susp = 0 \/ (job.suspended /\ job.src # "timed")
    BY <2>1 DEF ClearInv
  <2> QED BY <1>6, <2>1, <2>2
<1>8. ASSUME NEW p \in Proposals, job' = [job EXCEPT !.p = p], pc' = "consent",
             UNCHANGED <<susp, origin, bound>>, susp = 0,
             origin[p].by = bound, Kind[p] # "foreign"
      PROVE  ClearInv'
  <2>1. job'.p = p
    BY <1>0, <1>8 DEF Jobs
  <2> QED BY <1>8, <2>1 DEF ClearInv
<1>9. ASSUME NEW p \in Proposals, Evaluate(p) PROVE ClearInv'
  <2>1. /\ job' = [job EXCEPT !.p = p] /\ pc = "next" /\ pc' = "consent"
        /\ UNCHANGED <<susp, origin, bound>> /\ ~job.suspended
        /\ origin[p].by = bound /\ Kind[p] # "foreign"
    BY <1>9 DEF Evaluate, Taking, CheapGates
  <2> QED BY <1>8, <2>1 DEF ClearInv
<1>10. ASSUME NEW p \in Proposals, FireDue(p) PROVE ClearInv'
  <2>1. UNCHANGED <<susp, origin, bound>> /\ pc = "fire" /\ susp = 0
    BY <1>10 DEF FireDue, ClearInv
  <2>2. CASE \E rec : ToRecord(p, rec)
    BY <1>6, <2>1, <2>2
  <2>3. CASE /\ job' = [job EXCEPT !.p = p] /\ pc' = "consent"
             /\ CheapGates(p, FALSE, FALSE)
    BY <1>8, <2>1, <2>3 DEF CheapGates
  <2> QED BY <1>10, <2>2, <2>3 DEF FireDue
<1>11. CASE Consent \/ Commit \/ Dispatch
  <2>1. /\ UNCHANGED <<susp, origin, bound>> /\ susp = 0
        /\ origin[job.p].by = bound /\ Kind[job.p] # "foreign"
    BY <1>11 DEF Consent, Commit, Dispatch, ClearInv
  <2>2. CASE ToRecord(job.p, "draft")
    BY <1>6, <2>1, <2>2
  <2>3. CASE ~ToRecord(job.p, "draft")
    <3>1. /\ pc' \in {"quiet", "dispatch", "record"}
          /\ \/ job' = job
             \/ job' = [job EXCEPT !.seen = Len(convo[Target[job.p]])]
             \/ \E r : job' = [job EXCEPT !.rec = r, !.sent = TRUE]
      BY <1>11, <2>3 DEF Consent, Commit, Dispatch
    <3>2. job'.p = job.p
      BY <1>0, <3>1 DEF Jobs
    <3> QED BY <2>1, <3>1, <3>2 DEF ClearInv
  <2> QED BY <2>2, <2>3
<1>12. CASE Record
  <2>1. /\ susp' = susp /\ pc = "record"
        /\ \/ pc' = "mark" /\ job.src = "timed"
           \/ /\ pc' = "next" /\ job.src # "timed"
              /\ job' = [job EXCEPT !.queue = job.queue \ {job.p}, !.rec = "none",
                                    !.seen = 0, !.sent = FALSE]
    BY <1>12 DEF Record
  <2>2. CASE pc' = "mark"
    BY <2>1, <2>2 DEF ClearInv
  <2>3. CASE pc' = "next"
    <3>1. job'.suspended = job.suspended /\ job'.src = job.src
      BY <1>0, <2>1, <2>3 DEF Jobs
    <3> QED BY <2>1, <2>3, <3>1 DEF ClearInv
  <2> QED BY <2>1, <2>2, <2>3
<1>13. ASSUME NEW p \in Proposals, Drain(p) PROVE ClearInv'
  <2>1. /\ job' = [job EXCEPT !.src = "pending", !.queue = {p}, !.p = p, !.cold = TRUE]
        /\ pc = "drain" /\ pc' = "next" /\ susp' = susp
    BY <1>13 DEF Drain
  <2>2. job'.suspended = job.suspended /\ job'.src = "pending"
    BY <1>0, <2>1 DEF Jobs
  <2> QED BY <2>1, <2>2 DEF ClearInv
<1>14. CASE Timed \/ MarkSchedule
  BY <1>14 DEF Timed, MarkSchedule, EndPass, ClearInv
<1>15. CASE
         \/ ConfigOn \/ Bind \/ SuspendRebound \/ Drained \/ RecordFails \/ FireDone
         \/ Interrupt
  BY <1>1, <1>15
  DEF ConfigOn, Bind, SuspendRebound, Drained, RecordFails, FireDone, Interrupt, EndPass
<1>16. CASE
         \/ UNCHANGED vars
         \/ ConfigOff \/ HistoryDown \/ Acknowledge
         \/ \E p \in Proposals :
              CloseDue(p) \/ Post(p) \/ ComesDue(p) \/ GrowsStale(p) \/ HourPasses(p)
         \/ \E r \in Rooms : Reply(r) \/ Reconcile(r)
         \/ \E r \in Rooms, l \in Levels : SetLevel(r, l)
         \/ \E l \in Links \cup {None} : Relink(l)
  <2>1. UNCHANGED <<susp, bound, pc, job>>
    BY <1>16
    DEF vars, ConfigOff, HistoryDown, Acknowledge, CloseDue, Post, ComesDue, GrowsStale,
        HourPasses, Reply, Reconcile, SetLevel, Relink
  <2>2. pc \in {"consent", "quiet", "dispatch"} => origin'[job.p] = origin[job.p]
    BY PostsStay DEF PostedInv
  <2> QED BY <2>1, <2>2 DEF ClearInv
<1> QED
  BY StepCases, <1>1, <1>2, <1>3, <1>4, <1>5, <1>7, <1>9, <1>10, <1>11, <1>12, <1>13,
     <1>14, <1>15, <1>16

LEMMA ClearHolds == Spec => []ClearInv
<1>1. ASSUME Init PROVE ClearInv
  BY <1>1 DEF Init, ClearInv
<1> QED BY <1>1, ClearNext, TypesHold, BindingHolds, PostedHolds, PTL DEF Spec

(* Only the manager of the authority adopted first, or confirmed by the    *)
(* teammate after a change, speaks through the account, in every behaviour *)
(* in which the process does not die between the two commits of a change   *)
(* of identity; crashes and lost answers elsewhere are of no consequence.  *)
THEOREM ConfirmedUnlessCutOff == Spec /\ [][~CutOff]_vars => ConfirmedSenderOnly
<1>1. ASSUME Init PROVE ConfirmedInv
  BY <1>1 DEF Init, ConfirmedInv
<1>2. ASSUME TypeInv, BindInv, ClearInv, ConfirmedInv, [Next]_vars,
             NEW p \in Proposals, puts'[p] # puts[p]
      PROVE  /\ Kind[p] # "foreign"
             /\ origin[p].by = Identity[dest]
             /\ Authorities(dest) \in confirmed
  <2>1. pc = "dispatch" /\ p = job.p
    BY <1>2, PutIsInHand
  <2>2. /\ bound = Identity[dest] /\ susp = 0
        /\ origin[p].by = bound /\ Kind[p] # "foreign"
    BY <1>2, <2>1 DEF BindInv, ClearInv
  <2>3. <<bound, Authority[dest]>> \in confirmed
    BY <1>2, <2>1, <2>2 DEF ConfirmedInv
  <2> QED BY <2>2, <2>3 DEF Authorities
<1>3. ASSUME TypeInv, BindInv, ClearInv, ConfirmedInv, [Next]_vars
      PROVE  [\A p \in Proposals : puts'[p] # puts[p] =>
                /\ Kind[p] # "foreign"
                /\ origin[p].by = Identity[dest]
                /\ Authorities(dest) \in confirmed]_vars
  BY <1>2, <1>3
<1>4. ASSUME TypeInv, BindInv, StampInv, ConfirmedInv, [Next]_vars, [~CutOff]_vars
      PROVE  ConfirmedInv'
  <2>1. CASE UNCHANGED vars
    BY <1>4, <2>1 DEF vars, ConfirmedInv
  <2>2. CASE ~CutOff
    BY <1>4, <2>2, ConfirmedNext
  <2> QED BY <1>4, <2>1, <2>2
<1> QED
  BY <1>1, <1>3, <1>4, TypesHold, BindingHolds, ClearHolds, PTL
  DEF Spec, ConfirmedSenderOnly

=============================================================================
