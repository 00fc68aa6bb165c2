----------------------- MODULE MirrorLifecycleProofs -----------------------
(***************************************************************************)
(* What holds of MirrorLifecycle for every set of conversations, of        *)
(* connections and of generations, and whatever the bounds.                *)
(***************************************************************************)
EXTENDS MirrorLifecycle, TLAPS

USE DEF userVars, tableVars, linkVars

-----------------------------------------------------------------------------
(* The invariant: types; what a pass holds at each control point; how the  *)
(* rows of state.db agree; and the connection in use.                      *)

Working == {"reconcile", "create", "adopt", "make", "link", "sync", "tail", "delivery",
            "put", "history"}

Held ==
    /\ pc \in {"clean", "adopt", "make", "link", "put"} => job.room \in Rooms
    /\ pc \in {"retire", "put"} => job.gen \in Generations
    /\ pc = "clean" => life[job.room].status = "revoking"
    /\ pc \in {"adopt", "make"} => life[job.room].gen \in Generations
    /\ pc = "link" => mirror[job.room] \in Generations
    /\ pc = "put" => mirror[job.room] = job.gen

Scheduled ==
    /\ job.then \in {"retirement", "create", "sync"}
    /\ job.then # "retirement" => job.up
    /\ pc \in Working => job.up

Pending(r) == feed[r] \in {"discover", "queued"}

RowsAgree ==
    \A r \in Rooms :
        /\ mirror[r] # None => life[r].gen = mirror[r]
        /\ life[r].status = "linking" => mirror[r] # None
        /\ Pending(r) => mirror[r] # None /\ life[r].status # "revoking"

InUse ==
    /\ job.up => cfg # None
    /\ pc \in {"wipe", "rebind", "keep"} => job.up
    /\ job.up /\ pc \notin {"wipe", "rebind"} => cfg = dest

OfDestination ==
    /\ pc = "rebind" => \A r \in Rooms : life[r].gen = None
    /\ \A r \in Rooms : life[r].gen # None /\ Exists(life[r].gen)
                          => master[life[r].gen].link = dest

TypeInv == TypeOK /\ Held /\ Scheduled /\ RowsAgree
LinkInv == TypeInv /\ InUse /\ OfDestination

(* The actions one by one. *)
LEMMA StepCases == ASSUME [Next]_vars PROVE
    \/ UNCHANGED vars
    \/ ConfigOff \/ ConfigOn \/ ConfigUnreadable \/ Wipe \/ Rebind \/ KeepConnection
    \/ CleanStep \/ Forget \/ RetireStep \/ RetireDone
    \/ Plan \/ Adopt \/ Make \/ Link \/ CreateDone \/ SyncDone
    \/ Tail \/ Put \/ DeliveryDone \/ Skip \/ Crash \/ Disconnect \/ Reconnect
    \/ \E r \in Rooms :
         \/ Revoke(r) \/ Decline(r) \/ Allocate(r) \/ Sync(r)
         \/ Copy(r) \/ Withhold(r) \/ HistorySlice(r) \/ SetLevel(r)
    \/ \E g \in Generations : Retire(g)
    \/ \E l \in Links : Relink(l)
<1>1. CASE UNCHANGED vars
  BY <1>1
<1>2. CASE Daemon
  BY <1>2 DEF Daemon, Configure
<1>3. CASE Environment
  BY <1>3 DEF Environment
<1>4. CASE ConfigUnreadable \/ Crash
  BY <1>4
<1> QED BY <1>1, <1>2, <1>3, <1>4 DEF Next

-----------------------------------------------------------------------------
(* The operators the actions are built from. *)

LEMMA IdleJobTyped ==
  /\ IdleJob \in Jobs
  /\ IdleJob.then = "retirement" /\ IdleJob.up = FALSE
  /\ \A b \in BOOLEAN : /\ [IdleJob EXCEPT !.up = b] \in Jobs
                        /\ [IdleJob EXCEPT !.up = b].up = b
                        /\ [IdleJob EXCEPT !.up = b].then = "retirement"
  BY DEF IdleJob, Jobs, ControlPoints, Stages

LEMMA CountsTyped ==
  ASSUME NEW c \in Counts
  PROVE  /\ [c EXCEPT !.faults = @ + 1] \in Counts
         /\ [c EXCEPT !.levels = @ + 1] \in Counts
         /\ [c EXCEPT !.switches = @ + 1] \in Counts
         /\ [c EXCEPT !.links = @ + 1] \in Counts
         /\ [c EXCEPT !.returns = @ + 1] \in Counts
         /\ [c EXCEPT !.lost = @ + 1] \in Counts
BY DEF Counts

(* What taking a room back leaves of it: no access is ever granted by it.  *)
LEMMA TakeBackNarrows ==
  ASSUME NEW m \in MasterRooms, NEW k \in 0..2
  PROVE  LET n == TakeBack(m, k)
         IN /\ n \in MasterRooms
            /\ n.link = m.link /\ n.copied = m.copied
            /\ n.child => m.child
            /\ n.manager => m.manager
<1>1. CASE k = 0
  BY <1>1 DEF TakeBack, MasterRooms
<1>2. CASE k = 1
  BY <1>2 DEF TakeBack, MasterRooms
<1>3. CASE k = 2
  BY <1>3 DEF TakeBack, MasterRooms
<1> QED BY <1>1, <1>2, <1>3

LEMMA AppliedNarrows ==
  ASSUME TypeMaster, NEW g, NEW k \in 0..2, Applied(g, k)
  PROVE  /\ TypeMaster'
         /\ \A h \in Generations : /\ master'[h].link = master[h].link
                                   /\ master'[h].copied = master[h].copied
                                   /\ master'[h].child => master[h].child
                                   /\ master'[h].manager => master[h].manager
<1>1. ASSUME NEW h \in Generations
      PROVE  master'[h] = IF h = g THEN TakeBack(master[h], k) ELSE master[h]
  BY DEF Applied, TypeMaster
<1>2. \A h \in Generations : master[h] \in MasterRooms
  BY DEF TypeMaster
<1>3. \A h \in Generations : master'[h] \in MasterRooms
  BY <1>1, <1>2, TakeBackNarrows
<1>4. DOMAIN master' = Generations /\ master' = [h \in Generations |-> master'[h]]
  BY DEF Applied, TypeMaster
<1>5. TypeMaster'
  BY <1>3, <1>4 DEF TypeMaster
<1> QED BY <1>1, <1>2, <1>5, TakeBackNarrows

(* One request of a cleanup, however it is answered. *)
Request(c, g, k) == Accepted(c, g, k) \/ Unanswered(c, g, k) \/ Refused(c, g)

LEMMA RequestNarrows ==
  ASSUME TypeMaster, NEW c, NEW g, NEW k \in 0..2, Request(c, g, k)
  PROVE  /\ TypeMaster'
         /\ \A h \in Generations : /\ master'[h].link = master[h].link
                                   /\ master'[h].copied = master[h].copied
                                   /\ master'[h].child => master[h].child
                                   /\ master'[h].manager => master[h].manager
<1>1. Applied(g, k) \/ UNCHANGED master
  BY DEF Request, Accepted, Unanswered, Refused
<1>2. CASE UNCHANGED master
  BY <1>2 DEF TypeMaster
<1> QED BY <1>1, <1>2, AppliedNarrows

(* What marking R as revoking changes, and what it leaves. *)
LEMMA MarkRevokingRows ==
  ASSUME TypeTables, NEW R \in SUBSET Mirrored, MarkRevoking(R)
  PROVE  /\ TypeTables'
         /\ mirror' = mirror
         /\ \A r \in Rooms :
              /\ life'[r].gen = life[r].gen
              /\ life'[r].status = IF r \in R THEN "revoking" ELSE life[r].status
              /\ feed'[r] = IF r \in R THEN "none" ELSE feed[r]
<1>1. ASSUME NEW r \in Rooms
      PROVE  /\ life'[r] = IF r \in R THEN [life[r] EXCEPT !.status = "revoking"] ELSE life[r]
             /\ life[r] \in LifeRows
  BY DEF MarkRevoking, TypeTables
<1>2. ASSUME NEW row \in LifeRows
      PROVE  LET new == [row EXCEPT !.status = "revoking"]
             IN new \in LifeRows /\ new.gen = row.gen /\ new.status = "revoking"
  BY DEF LifeRows, Statuses
<1>3. life' \in [Rooms -> LifeRows]
  <2>1. \A r \in Rooms : life'[r] \in LifeRows
    BY <1>1, <1>2
  <2>2. life' = [r \in Rooms |-> life'[r]]
    BY DEF MarkRevoking
  <2> QED BY <2>1, <2>2
<1>4. feed' \in [Rooms -> Feeds]
  BY DEF MarkRevoking, TypeTables, Feeds
<1>5. revoked' \subseteq Generations
  BY DEF MarkRevoking, TypeTables, Mirrored
<1>6. \A r \in Rooms : feed'[r] = IF r \in R THEN "none" ELSE feed[r]
  BY DEF MarkRevoking
<1>7. mirror' = mirror
  BY DEF MarkRevoking
<1> QED BY <1>1, <1>2, <1>3, <1>4, <1>5, <1>6, <1>7 DEF TypeTables

LEMMA MarkRevokingAgrees ==
  ASSUME TypeTables, RowsAgree, NEW R \in SUBSET Mirrored, MarkRevoking(R)
  PROVE  RowsAgree'
BY MarkRevokingRows DEF RowsAgree, Pending, Mirrored

(* A row of the table with one field changed. *)
LEMMA StatusTyped ==
  ASSUME NEW row \in LifeRows, NEW s \in Statuses
  PROVE  /\ [row EXCEPT !.status = s] \in LifeRows
         /\ [row EXCEPT !.status = s].gen = row.gen
         /\ [row EXCEPT !.status = s].status = s
BY DEF LifeRows

LEMMA StepTyped ==
  ASSUME NEW row \in LifeRows, NEW k \in 0..3
  PROVE  /\ [row EXCEPT !.step = k] \in LifeRows
         /\ [row EXCEPT !.step = k].gen = row.gen
         /\ [row EXCEPT !.step = k].status = row.status
BY DEF LifeRows

LEMMA RecordMirrorRows ==
  ASSUME TypeTables, NEW r \in Rooms, NEW g \in Generations, RecordMirror(r, g)
  PROVE  /\ TypeTables'
         /\ feed' = feed
         /\ \A q \in Rooms :
              /\ life'[q].gen = life[q].gen
              /\ life'[q].status = IF q = r THEN "linking" ELSE life[q].status
              /\ mirror'[q] = IF q = r THEN g ELSE mirror[q]
<1>1. life[r] \in LifeRows /\ "linking" \in Statuses
  BY DEF TypeTables, Statuses
<1>2. life' = [life EXCEPT ![r] = [life[r] EXCEPT !.status = "linking"]]
  BY DEF RecordMirror, TypeTables
<1>3. \A q \in Rooms : life'[q] = IF q = r THEN [life[r] EXCEPT !.status = "linking"]
                                          ELSE life[q]
  BY <1>2 DEF TypeTables
<1>4. /\ [life[r] EXCEPT !.status = "linking"] \in LifeRows
      /\ [life[r] EXCEPT !.status = "linking"].gen = life[r].gen
      /\ [life[r] EXCEPT !.status = "linking"].status = "linking"
  BY <1>1, StatusTyped
<1>5. life' \in [Rooms -> LifeRows]
  BY <1>2, <1>4 DEF TypeTables
<1>6. TypeTables'
  BY <1>5 DEF RecordMirror, TypeTables
<1>7. \A q \in Rooms : /\ life'[q].gen = life[q].gen
                       /\ life'[q].status = IF q = r THEN "linking" ELSE life[q].status
  BY <1>3, <1>4
<1>8. feed' = feed /\ \A q \in Rooms : mirror'[q] = IF q = r THEN g ELSE mirror[q]
  BY DEF RecordMirror, TypeTables
<1> QED BY <1>6, <1>7, <1>8

(* The commit of the intent: nothing but the row of r, and that only when  *)
(* it named no generation.                                                 *)
LEMMA IntendRows ==
  ASSUME TypeTables, NEW r \in Rooms, Intend(r)
  PROVE  /\ life' \in [Rooms -> LifeRows]
         /\ life'[r].gen \in Generations
         /\ \A q \in Rooms : q # r => life'[q] = life[q]
         /\ life[r].gen # None => life' = life
         /\ life[r].gen = None => /\ Fresh(life'[r].gen)
                                  /\ life'[r].status = "allocating"
<1>1. CASE life[r].gen = None
  <2>1. /\ \E g \in Generations : Fresh(g)
        /\ life' = [life EXCEPT ![r] = [gen |-> NewName, status |-> "allocating", step |-> 0]]
    BY <1>1 DEF Intend, AllocateAnew
  <2>2. NewName \in Generations /\ Fresh(NewName)
    BY <2>1 DEF NewName
  <2>3. [gen |-> NewName, status |-> "allocating", step |-> 0] \in LifeRows
    BY <2>2 DEF LifeRows, Statuses
  <2>4. /\ life' \in [Rooms -> LifeRows]
        /\ life'[r] = [gen |-> NewName, status |-> "allocating", step |-> 0]
        /\ \A q \in Rooms : q # r => life'[q] = life[q]
    BY <2>1, <2>3 DEF TypeTables
  <2>5. life'[r].gen = NewName /\ life'[r].status = "allocating"
    BY <2>4
  <2> QED BY <1>1, <2>2, <2>4, <2>5
<1>2. CASE life[r].gen # None
  <2>1. life' = life
    BY <1>2 DEF Intend
  <2>2. life[r].gen \in Generations
    BY <1>2 DEF TypeTables, LifeRows
  <2> QED BY <1>2, <2>1, <2>2 DEF TypeTables
<1> QED BY <1>1, <1>2

(* Joining the cleanup list. *)
LEMMA ListTyped ==
  ASSUME TypeTables, TypeRetired, TypeLink, NEW R \in SUBSET Mirrored, ListForCleanup(R)
  PROVE  TypeRetired' /\ revoked' \subseteq Generations
<1>1. cleanup # None => [connection |-> cleanup, step |-> 0] \in RetiredRows
  BY DEF TypeLink, RetiredRows
<1>2. \A g \in Generations : retired[g] \in RetiredRows
  BY DEF TypeRetired
<1>3. TypeRetired'
  BY <1>1, <1>2 DEF ListForCleanup, TypeRetired
<1>4. \A r \in R : mirror[r] \in Generations
  BY DEF Mirrored, TypeTables
<1> QED BY <1>3, <1>4 DEF ListForCleanup, TypeTables

-----------------------------------------------------------------------------
(* Types, one group of variables after the other. *)

LEMMA TypeInit == ASSUME Init PROVE TypeInv
<1>1. /\ NoRoom \in MasterRooms /\ NotRetired \in RetiredRows
      /\ [faults |-> 0, levels |-> 0, switches |-> 0, links |-> 0, returns |-> 0, lost |-> 0]
           \in Counts
  BY DEF Counts, MasterRooms, NoRoom, RetiredRows, NotRetired
<1>5. TypeUser /\ TypeMaster /\ TypeRetired /\ TypeLink
  BY <1>1 DEF Init, TypeUser, TypeMaster, TypeRetired, TypeLink
<1>2. TypeTables
  BY DEF Init, TypeTables, LifeRows, NoLife, Statuses, Feeds
<1>3. TypePass /\ Held /\ Scheduled
  BY IdleJobTyped DEF Init, TypePass, Held, Scheduled, Working, ControlPoints
<1>4. RowsAgree
  BY DEF Init, RowsAgree, Pending, NoLife
<1> QED BY <1>2, <1>3, <1>4, <1>5 DEF TypeInv, TypeOK

LEMMA TypeUserNext == ASSUME TypeInv, [Next]_vars PROVE TypeUser'
<1>0. TypeUser
  BY DEF TypeInv, TypeOK
<1>1. ASSUME Fault \/ UNCHANGED count PROVE count' \in Counts
  BY <1>0, <1>1, CountsTyped DEF TypeUser, Fault
<1>2. CASE CleanStep \/ RetireStep \/ Adopt \/ Link \/ Put \/ Crash \/ ConfigUnreadable
  <2>1. Fault \/ UNCHANGED count
    BY <1>2 DEF CleanStep, RetireStep, Adopt, Link, Put, Crash, ConfigUnreadable,
                Accepted, Unanswered, Refused
  <2>2. UNCHANGED <<shared, control>>
    BY <1>2 DEF CleanStep, RetireStep, Adopt, Link, Put, Crash, ConfigUnreadable
  <2> QED BY <1>0, <1>1, <2>1, <2>2 DEF TypeUser
<1>3. CASE Make
  <2>1. count' \in Counts
    BY <1>0, <1>1, <1>3, CountsTyped DEF Make, TypeUser
  <2> QED BY <1>0, <1>3, <2>1 DEF Make, TypeUser
<1>4. ASSUME NEW r \in Rooms, SetLevel(r) PROVE TypeUser'
  BY <1>0, <1>4, CountsTyped DEF SetLevel, TypeUser
<1>5. CASE Disconnect
  BY <1>0, <1>5, CountsTyped DEF Disconnect, TypeUser
<1>6. CASE Reconnect
  <2>1. count' \in Counts
    BY <1>0, <1>6, CountsTyped DEF Reconnect, TypeUser
  <2>2. dest \in Links \cup {None}
    BY DEF TypeInv, TypeOK, TypeLink
  <2> QED BY <1>0, <1>6, <2>1, <2>2 DEF Reconnect, TypeUser
<1>7. ASSUME NEW l \in Links, Relink(l) PROVE TypeUser'
  BY <1>0, <1>7, CountsTyped DEF Relink, TypeUser
<1>8. CASE
         \/ UNCHANGED vars
         \/ ConfigOff \/ ConfigOn \/ Wipe \/ Rebind \/ KeepConnection
         \/ Forget \/ RetireDone \/ Plan \/ CreateDone \/ SyncDone
         \/ Tail \/ DeliveryDone \/ Skip
         \/ \E r \in Rooms : \/ Revoke(r) \/ Decline(r) \/ Allocate(r) \/ Sync(r)
                             \/ Copy(r) \/ Withhold(r) \/ HistorySlice(r)
         \/ \E g \in Generations : Retire(g)
  BY <1>0, <1>8 DEF vars, TypeUser, ConfigOff, ConfigOn, Wipe, Rebind, KeepConnection, Forget,
       RetireDone, Plan, CreateDone, SyncDone, Tail, DeliveryDone, Skip, Revoke, Decline,
       Allocate, Sync, Copy, Withhold, HistorySlice, Retire
<1> QED BY StepCases, <1>2, <1>3, <1>4, <1>5, <1>6, <1>7, <1>8

LEMMA TypeMasterNext == ASSUME TypeInv, [Next]_vars PROVE TypeMaster'
<1>0. TypeOK
  BY DEF TypeInv
<1>1. CASE CleanStep
  <2>1. life[job.room].step \in 0..2
    <3>1. life[job.room] \in LifeRows
      BY <1>0, <1>1 DEF CleanStep, TypeInv, Held, TypeOK, TypeTables
    <3> QED BY <1>1, <3>1 DEF CleanStep, LifeRows
  <2>2. Request(cfg, mirror[job.room], life[job.room].step)
    BY <1>1 DEF CleanStep, Request
  <2> QED BY <1>0, <2>1, <2>2, RequestNarrows DEF TypeOK
<1>2. CASE RetireStep
  <2>1. retired[job.gen].step \in 0..2
    <3>1. retired[job.gen] \in RetiredRows
      BY <1>0, <1>2 DEF RetireStep, TypeInv, Held, TypeOK, TypeRetired
    <3> QED BY <1>2, <3>1 DEF RetireStep, RetiredRows
  <2>2. Request(retired[job.gen].connection, job.gen, retired[job.gen].step)
    BY <1>2 DEF RetireStep, Request
  <2> QED BY <1>0, <2>1, <2>2, RequestNarrows DEF TypeOK
<1>3. CASE Make
  <2>1. job.room \in Rooms /\ cfg \in Links \cup {None}
    BY <1>0, <1>3 DEF Make, TypeInv, Held, TypeOK, TypeLink
  <2>2. NewRoom(job.room) \in MasterRooms
    BY <2>1 DEF NewRoom, MasterRooms
  <2>3. master' \in {master, [master EXCEPT ![life[job.room].gen] = NewRoom(job.room)]}
    BY <1>3 DEF Make
  <2> QED BY <1>0, <2>2, <2>3 DEF TypeOK, TypeMaster
<1>4. CASE Link
  <2>1. mirror[job.room] \in Generations
    BY <1>4 DEF Link, TypeInv, Held
  <2>2. master' \in {master, [master EXCEPT ![mirror[job.room]].child = TRUE]}
    BY <1>4 DEF Link
  <2>3. [master[mirror[job.room]] EXCEPT !.child = TRUE] \in MasterRooms
    BY <1>0, <2>1 DEF TypeOK, TypeMaster, MasterRooms
  <2> QED BY <1>0, <2>1, <2>2, <2>3 DEF TypeOK, TypeMaster
<1>5. CASE Put
  <2>1. job.gen \in Generations
    BY <1>5 DEF Put, TypeInv, Held
  <2>2. master' \in {master, [master EXCEPT ![job.gen].copied = TRUE]}
    BY <1>5 DEF Put
  <2>3. [master[job.gen] EXCEPT !.copied = TRUE] \in MasterRooms
    BY <1>0, <2>1 DEF TypeOK, TypeMaster, MasterRooms
  <2> QED BY <1>0, <2>1, <2>2, <2>3 DEF TypeOK, TypeMaster
<1>6. ASSUME UNCHANGED master PROVE TypeMaster'
  BY <1>0, <1>6 DEF TypeOK, TypeMaster
<1>7. CASE
         \/ UNCHANGED vars
         \/ ConfigOff \/ ConfigOn \/ ConfigUnreadable \/ Wipe \/ Rebind \/ KeepConnection
         \/ Forget \/ RetireDone \/ Plan \/ Adopt \/ CreateDone \/ SyncDone
         \/ Tail \/ DeliveryDone \/ Skip \/ Crash \/ Disconnect \/ Reconnect
         \/ \E r \in Rooms : \/ Revoke(r) \/ Decline(r) \/ Allocate(r) \/ Sync(r)
                             \/ Copy(r) \/ Withhold(r) \/ HistorySlice(r) \/ SetLevel(r)
         \/ \E g \in Generations : Retire(g)
         \/ \E l \in Links : Relink(l)
  BY <1>6, <1>7 DEF vars, ConfigOff, ConfigOn, ConfigUnreadable, Wipe, Rebind,
       KeepConnection, Forget, RetireDone, Plan, Adopt, CreateDone, SyncDone, Tail,
       DeliveryDone, Skip, Crash, Disconnect, Reconnect, Revoke, Decline, Allocate, Sync,
       Copy, Withhold, HistorySlice, SetLevel, Retire, Relink
<1> QED BY StepCases, <1>1, <1>2, <1>3, <1>4, <1>5, <1>7

LEMMA TypeRetiredNext == ASSUME TypeInv, [Next]_vars PROVE TypeRetired'
<1>0. TypeOK
  BY DEF TypeInv
<1>1. ASSUME UNCHANGED retired PROVE TypeRetired'
  BY <1>0, <1>1 DEF TypeOK, TypeRetired
<1>2. ASSUME RetireMirrors PROVE TypeRetired'
  BY <1>0, <1>2, ListTyped DEF RetireMirrors, TypeOK
<1>3. CASE ConfigOn \/ Wipe
  BY <1>1, <1>2, <1>3 DEF ConfigOn, Wipe
<1>4. CASE RetireStep
  <2>1. job.gen \in Generations /\ retired[job.gen] \in RetiredRows
    BY <1>0, <1>4 DEF RetireStep, TypeInv, Held, TypeOK, TypeRetired
  <2>2. [retired[job.gen] EXCEPT !.step = retired[job.gen].step + 1] \in RetiredRows
    BY <1>4, <2>1 DEF RetireStep, RetiredRows
  <2>3. retired' \in {retired, [retired EXCEPT ![job.gen].step = retired[job.gen].step + 1]}
    BY <1>4 DEF RetireStep
  <2> QED BY <1>0, <2>1, <2>2, <2>3 DEF TypeOK, TypeRetired
<1>5. CASE RetireDone
  <2>1. NotRetired \in RetiredRows
    BY DEF NotRetired, RetiredRows
  <2> QED BY <1>0, <1>5, <2>1 DEF RetireDone, TypeOK, TypeRetired
<1>6. CASE
         \/ UNCHANGED vars
         \/ ConfigOff \/ ConfigUnreadable \/ Rebind \/ KeepConnection \/ CleanStep \/ Forget
         \/ Plan \/ Adopt \/ Make \/ Link \/ CreateDone \/ SyncDone
         \/ Tail \/ Put \/ DeliveryDone \/ Skip \/ Crash \/ Disconnect \/ Reconnect
         \/ \E r \in Rooms : \/ Revoke(r) \/ Decline(r) \/ Allocate(r) \/ Sync(r)
                             \/ Copy(r) \/ Withhold(r) \/ HistorySlice(r) \/ SetLevel(r)
         \/ \E g \in Generations : Retire(g)
         \/ \E l \in Links : Relink(l)
  BY <1>1, <1>6 DEF vars, ConfigOff, ConfigUnreadable, Rebind, KeepConnection, CleanStep,
       Forget, Plan, Adopt, Make, Link, CreateDone, SyncDone, Tail, Put, DeliveryDone, Skip,
       Crash, Disconnect, Reconnect, Revoke, Decline, Allocate, Sync, Copy, Withhold,
       HistorySlice, SetLevel, Retire, Relink
<1> QED BY StepCases, <1>3, <1>4, <1>5, <1>6

LEMMA TypeLinkNext == ASSUME TypeInv, [Next]_vars PROVE TypeLink'
<1>0. TypeUser /\ TypeLink
  BY DEF TypeInv, TypeOK
<1>1. ASSUME SeeLinkOff \/ UNCHANGED off PROVE off' \in BOOLEAN
  BY <1>0, <1>1 DEF SeeLinkOff, TypeLink
<1>2. CASE ConfigOff \/ ConfigOn \/ Tail \/ \E r \in Rooms : Decline(r) \/ Withhold(r)
  BY <1>0, <1>1, <1>2 DEF ConfigOff, ConfigOn, Tail, Decline, Withhold, TypeLink, TypeUser
<1>3. CASE Rebind \/ KeepConnection \/ Crash
  BY <1>0, <1>3 DEF Rebind, KeepConnection, Crash, TypeLink
<1>4. CASE
         \/ UNCHANGED vars
         \/ ConfigUnreadable \/ Wipe \/ CleanStep \/ Forget \/ RetireStep \/ RetireDone
         \/ Plan \/ Adopt \/ Make \/ Link \/ CreateDone \/ SyncDone
         \/ Put \/ DeliveryDone \/ Skip \/ Disconnect \/ Reconnect
         \/ \E r \in Rooms : \/ Revoke(r) \/ Allocate(r) \/ Sync(r)
                             \/ Copy(r) \/ HistorySlice(r) \/ SetLevel(r)
         \/ \E g \in Generations : Retire(g)
         \/ \E l \in Links : Relink(l)
  BY <1>0, <1>4 DEF vars, TypeLink, ConfigUnreadable, Wipe, CleanStep, Forget, RetireStep,
       RetireDone, Plan, Adopt, Make, Link, CreateDone, SyncDone, Put, DeliveryDone, Skip,
       Disconnect, Reconnect, Revoke, Allocate, Sync, Copy, HistorySlice, SetLevel, Retire,
       Relink
<1> QED BY StepCases, <1>2, <1>3, <1>4

(* The tables, and with them what their rows say of one another. *)
LEMMA RowsNext == ASSUME TypeInv, [Next]_vars PROVE TypeTables' /\ RowsAgree'
<1>0. TypeOK /\ TypeTables /\ RowsAgree
  BY DEF TypeInv, TypeOK
<1>1. ASSUME UNCHANGED <<life, mirror, feed>>, revoked' \subseteq Generations
      PROVE  TypeTables' /\ RowsAgree'
  BY <1>0, <1>1 DEF TypeTables, RowsAgree, Pending
<1>2. ASSUME UNCHANGED tableVars PROVE TypeTables' /\ RowsAgree'
  BY <1>0, <1>1, <1>2 DEF TypeTables
<1>3. ASSUME NEW R \in SUBSET Mirrored, MarkRevoking(R) PROVE TypeTables' /\ RowsAgree'
  BY <1>0, <1>3, MarkRevokingRows, MarkRevokingAgrees
<1>4. ASSUME NEW r \in Rooms, NEW g \in Generations, RecordMirror(r, g), life[r].gen = g
      PROVE  TypeTables' /\ RowsAgree'
  <2>1. TypeTables'
    BY <1>0, <1>4, RecordMirrorRows
  <2>2. /\ feed' = feed /\ g # None
        /\ \A q \in Rooms :
             /\ life'[q].gen = life[q].gen
             /\ life'[q].status = IF q = r THEN "linking" ELSE life[q].status
             /\ mirror'[q] = IF q = r THEN g ELSE mirror[q]
    BY <1>0, <1>4, RecordMirrorRows, MirrorAssumption
  <2>3. RowsAgree'
    BY <1>0, <1>4, <2>2 DEF RowsAgree, Pending
  <2> QED BY <2>1, <2>3
<1>5. ASSUME SeeLinkOff PROVE TypeTables' /\ RowsAgree'
  BY <1>3, <1>5 DEF SeeLinkOff
<1>6. CASE ConfigOff \/ ConfigOn \/ Plan \/ Tail \/ \E r \in Rooms : Decline(r)
  <2>1. CASE ConfigOff
    BY <1>5, <2>1 DEF ConfigOff
  <2>2. CASE ConfigOn
    <3>1. revoked' \subseteq Generations
      BY <1>0, <2>2, ListTyped DEF ConfigOn, RetireMirrors, TypeOK, TypeTables
    <3> QED BY <1>1, <2>2, <3>1 DEF ConfigOn
  <2>3. CASE Plan
    BY <1>3, <2>3 DEF Plan
  <2>4. CASE Tail
    BY <1>3, <1>5, <2>4 DEF Tail
  <2>5. ASSUME NEW r \in Rooms, Decline(r) PROVE TypeTables' /\ RowsAgree'
    BY <1>2, <1>5, <2>5 DEF Decline
  <2> QED BY <1>6, <2>1, <2>2, <2>3, <2>4, <2>5
<1>7. CASE Wipe
  <2>1. revoked' \subseteq Generations
    BY <1>0, <1>7, ListTyped DEF Wipe, RetireMirrors, TypeOK
  <2>2. NoLife \in LifeRows /\ "none" \in Feeds
    BY DEF NoLife, LifeRows, Statuses, Feeds
  <2>3. TypeTables'
    BY <1>7, <2>1, <2>2 DEF Wipe, TypeTables
  <2>4. RowsAgree'
    BY <1>7 DEF Wipe, RowsAgree, Pending, NoLife
  <2> QED BY <2>3, <2>4
<1>8. CASE CleanStep
  <2>1. job.room \in Rooms /\ life[job.room] \in LifeRows
    BY <1>0, <1>8 DEF CleanStep, TypeInv, Held, TypeTables
  <2>2. life[job.room].step + 1 \in 0..3
    BY <1>8, <2>1 DEF CleanStep, LifeRows
  <2> DEFINE row == [life[job.room] EXCEPT !.step = life[job.room].step + 1]
  <2>3. row \in LifeRows /\ row.gen = life[job.room].gen /\ row.status = life[job.room].status
    BY <2>1, <2>2, StepTyped
  <2>4. UNCHANGED life \/ life' = [life EXCEPT ![job.room] = row]
    BY <1>0, <1>8 DEF CleanStep, TypeTables
  <2>5. UNCHANGED <<mirror, feed, revoked>>
    BY <1>8 DEF CleanStep
  <2> HIDE DEF row
  <2>6. TypeTables'
    BY <1>0, <2>1, <2>3, <2>4, <2>5 DEF TypeTables
  <2>7. \A q \in Rooms : life'[q].gen = life[q].gen /\ life'[q].status = life[q].status
    BY <1>0, <2>1, <2>3, <2>4 DEF TypeTables
  <2> QED BY <1>0, <2>5, <2>6, <2>7 DEF RowsAgree, Pending
<1>9. CASE Forget
  <2>1. job.room \in Rooms /\ life[job.room].status = "revoking"
    BY <1>9 DEF Forget, TypeInv, Held
  <2>2. NoLife \in LifeRows /\ NoLife.status = "none"
    BY DEF NoLife, LifeRows, Statuses
  <2>3. TypeTables'
    BY <1>0, <1>9, <2>1, <2>2 DEF Forget, TypeTables
  <2>4. \A q \in Rooms : /\ life'[q] = IF q = job.room THEN NoLife ELSE life[q]
                         /\ mirror'[q] = IF q = job.room THEN None ELSE mirror[q]
                         /\ feed'[q] = feed[q]
    BY <1>0, <1>9, <2>1 DEF Forget, TypeTables
  <2>5. RowsAgree'
    BY <1>0, <2>1, <2>2, <2>4 DEF RowsAgree, Pending
  <2> QED BY <2>3, <2>5
<1>10. ASSUME NEW r \in Rooms, Allocate(r) PROVE TypeTables' /\ RowsAgree'
  <2>1. Intend(r) /\ UNCHANGED <<mirror, feed, revoked>>
    BY <1>10 DEF Allocate
  <2>2. /\ life' \in [Rooms -> LifeRows]
        /\ \A q \in Rooms : q # r => life'[q] = life[q]
        /\ life[r].gen # None => life' = life
        /\ life[r].gen = None => life'[r].status = "allocating"
    BY <1>0, <2>1, IntendRows
  <2>3. TypeTables'
    BY <1>0, <2>1, <2>2 DEF TypeTables
  <2>4. CASE life[r].gen # None
    BY <1>0, <2>1, <2>2, <2>3, <2>4 DEF RowsAgree, Pending
  <2>5. CASE life[r].gen = None
    BY <1>0, <2>1, <2>2, <2>3, <2>5 DEF RowsAgree, Pending
  <2> QED BY <2>3, <2>4, <2>5
<1>11. CASE Adopt \/ Make
  <2>1. job.room \in Rooms /\ life[job.room].gen \in Generations
    BY <1>11 DEF Adopt, Make, TypeInv, Held
  <2>2. RecordMirror(job.room, life[job.room].gen) \/ UNCHANGED tableVars
    BY <1>11 DEF Adopt, Make
  <2> QED BY <1>2, <1>4, <2>1, <2>2
<1>12. CASE Link
  <2>1. job.room \in Rooms /\ mirror[job.room] \in Generations /\ mirror[job.room] # None
    BY <1>12, MirrorAssumption DEF Link, TypeInv, Held
  <2>2. life[job.room] \in LifeRows /\ "history" \in Statuses /\ "discover" \in Feeds
    BY <1>0, <2>1 DEF TypeTables, Statuses, Feeds
  <2> DEFINE row == [life[job.room] EXCEPT !.status = "history"]
  <2>3. row \in LifeRows /\ row.gen = life[job.room].gen /\ row.status = "history"
    BY <2>2, StatusTyped
  <2>4. \/ UNCHANGED <<life, feed>>
        \/ /\ life' = [life EXCEPT ![job.room] = row]
           /\ feed' = [feed EXCEPT ![job.room] = "discover"]
    BY <1>0, <1>12 DEF Link, TypeTables
  <2>5. UNCHANGED <<mirror, revoked>>
    BY <1>12 DEF Link
  <2> HIDE DEF row
  <2>6. CASE UNCHANGED <<life, feed>>
    BY <1>2, <2>5, <2>6
  <2>7. CASE /\ life' = [life EXCEPT ![job.room] = row]
             /\ feed' = [feed EXCEPT ![job.room] = "discover"]
    <3>1. TypeTables'
      BY <1>0, <2>1, <2>2, <2>3, <2>5, <2>7 DEF TypeTables
    <3>2. \A q \in Rooms : /\ life'[q] = IF q = job.room THEN row ELSE life[q]
                           /\ feed'[q] = IF q = job.room THEN "discover" ELSE feed[q]
      BY <1>0, <2>1, <2>7 DEF TypeTables
    <3>3. RowsAgree'
      BY <1>0, <2>1, <2>3, <2>5, <3>2 DEF RowsAgree, Pending
    <3> QED BY <3>1, <3>3
  <2> QED BY <2>4, <2>6, <2>7
<1>13. CASE Put
  <2>1. UNCHANGED <<life, mirror, revoked>>
    BY <1>13 DEF Put
  <2>2. feed' = feed \/ feed' = [feed EXCEPT ![job.room] = "sent"]
    BY <1>13 DEF Put
  <2>3. TypeTables'
    BY <1>0, <2>1, <2>2 DEF TypeTables, Feeds
  <2>4. RowsAgree'
    BY <1>0, <2>1, <2>2 DEF RowsAgree, Pending, TypeTables
  <2> QED BY <2>3, <2>4
<1>14. CASE DeliveryDone
  <2>1. UNCHANGED <<mirror, feed, revoked>>
    BY <1>14 DEF DeliveryDone
  <2>2. /\ life' = [r \in Rooms |-> life'[r]]
        /\ \A r \in Rooms : \/ life'[r] = life[r]
                            \/ life'[r] = [life[r] EXCEPT !.status = "live"]
    BY <1>14 DEF DeliveryDone
  <2>3. \A r \in Rooms : LET row == [life[r] EXCEPT !.status = "live"]
                          IN row \in LifeRows /\ row.gen = life[r].gen /\ row.status = "live"
    BY <1>0, StatusTyped DEF TypeTables, Statuses
  <2>4. \A r \in Rooms : /\ life'[r] \in LifeRows
                         /\ life'[r].gen = life[r].gen
                         /\ life'[r].status \in {life[r].status, "live"}
    BY <1>0, <2>2, <2>3 DEF TypeTables
  <2>5. TypeTables'
    BY <1>0, <2>1, <2>2, <2>4 DEF TypeTables
  <2>6. RowsAgree'
    BY <1>0, <2>1, <2>4 DEF RowsAgree, Pending
  <2> QED BY <2>5, <2>6
<1>15. ASSUME NEW r \in Rooms, Withhold(r) PROVE TypeTables' /\ RowsAgree'
  <2>1. r \in Mirrored
    BY <1>0, <1>15 DEF Withhold, Queued, RowsAgree, Pending, Mirrored
  <2> QED BY <1>2, <1>3, <1>5, <1>15, <2>1 DEF Withhold
<1>16. ASSUME NEW r \in Rooms, HistorySlice(r) PROVE TypeTables' /\ RowsAgree'
  <2>1. r \in Mirrored /\ feed[r] = "discover"
    BY <1>0, <1>16 DEF HistorySlice, Discovering, RowsAgree, Pending, Mirrored
  <2>2. CASE MarkRevoking({r})
    BY <1>3, <2>1, <2>2
  <2>3. CASE feed' = [feed EXCEPT ![r] = "queued"] /\ UNCHANGED <<life, mirror, revoked>>
    BY <1>0, <2>1, <2>3 DEF TypeTables, Feeds, RowsAgree, Pending
  <2> QED BY <1>16, <2>2, <2>3 DEF HistorySlice
<1>17. CASE
         \/ UNCHANGED vars
         \/ ConfigUnreadable \/ Rebind \/ KeepConnection \/ RetireStep \/ RetireDone
         \/ CreateDone \/ SyncDone \/ Skip \/ Crash \/ Disconnect \/ Reconnect
         \/ \E r \in Rooms : Revoke(r) \/ Sync(r) \/ Copy(r) \/ SetLevel(r)
         \/ \E g \in Generations : Retire(g)
         \/ \E l \in Links : Relink(l)
  BY <1>2, <1>17 DEF vars, ConfigUnreadable, Rebind, KeepConnection, RetireStep, RetireDone,
       CreateDone, SyncDone, Skip, Crash, Disconnect, Reconnect, Revoke, Sync, Copy, SetLevel,
       Retire, Relink
<1> QED
  BY StepCases, <1>6, <1>7, <1>8, <1>9, <1>10, <1>11, <1>12, <1>13, <1>14, <1>15, <1>16, <1>17

LEMMA TypePassNext == ASSUME TypeInv, [Next]_vars PROVE TypePass' /\ Scheduled'
<1>0. pc \in ControlPoints /\ job \in Jobs /\ Scheduled
  BY DEF TypeInv, TypeOK, TypePass
<1>1. CASE UNCHANGED <<pc, job>>
  BY <1>0, <1>1 DEF TypePass, Scheduled
<1>2. CASE ConfigOff \/ ConfigUnreadable \/ Crash
  <2>1. job' = IdleJob /\ pc' \in {"revocation", "config"}
    BY <1>2 DEF ConfigOff, ConfigUnreadable, Crash
  <2> QED BY <2>1, IdleJobTyped DEF TypePass, Scheduled, ControlPoints, Stages, Working
<1>3. CASE ConfigOn
  <2>1. job' = [IdleJob EXCEPT !.up = TRUE] /\ pc' \in {"keep", "wipe"}
    BY <1>3 DEF ConfigOn
  <2> QED BY <2>1, IdleJobTyped DEF TypePass, Scheduled, ControlPoints, Stages, Working
<1>4. CASE Wipe \/ Rebind \/ KeepConnection
  <2>1. job' = job /\ pc' \in {"keep", "rebind", "revocation"}
    BY <1>4 DEF Wipe, Rebind, KeepConnection
  <2> QED BY <1>0, <2>1 DEF TypePass, Scheduled, ControlPoints, Stages, Working
<1>5. CASE RetireStep \/ RetireDone
  <2>1. \/ UNCHANGED <<pc, job>>
        \/ job' = [IdleJob EXCEPT !.up = job.up] /\ pc' = IF job.up THEN "reconcile" ELSE "config"
    BY <1>5 DEF RetireStep, RetireDone, StageEnds, AfterRetirement
  <2>2. job.up \in BOOLEAN
    BY <1>0 DEF Jobs
  <2>3. [IdleJob EXCEPT !.up = job.up] \in Jobs /\ [IdleJob EXCEPT !.up = job.up].up = job.up
        /\ [IdleJob EXCEPT !.up = job.up].then = "retirement"
    BY <2>2, IdleJobTyped
  <2> QED BY <1>1, <2>1, <2>3 DEF TypePass, Scheduled, ControlPoints, Stages, Working
<1>6. CASE SyncDone \/ Put
  <2>1. /\ job' = [IdleJob EXCEPT !.up = job.up] /\ pc' \in {"tail", "delivery", "history"}
        /\ job.up = TRUE
    BY <1>0, <1>6 DEF SyncDone, Put, StageEnds, Scheduled, Working, Jobs
  <2> QED BY <2>1, IdleJobTyped DEF TypePass, Scheduled, ControlPoints, Stages, Working
<1>7. CASE CleanStep \/ Forget
  <2>1. UNCHANGED <<pc, job>> \/ CleanupEnds
    BY <1>7 DEF CleanStep, Forget
  <2>2. CASE CleanupEnds
    BY <1>0, <2>2 DEF CleanupEnds, TypePass, Scheduled, ControlPoints, Stages, Working, Jobs
  <2> QED BY <1>1, <2>1, <2>2
<1>8. CASE Adopt \/ Make \/ Link
  <2>1. job.up = TRUE /\ job.todo \in SUBSET Rooms /\ job.sync \in SUBSET Rooms
    BY <1>0, <1>8 DEF Adopt, Make, Link, Scheduled, Working, Jobs
  <2>2. CASE job' = job /\ pc' \in {"link", "make"}
    BY <1>0, <2>1, <2>2 DEF TypePass, Scheduled, ControlPoints, Stages, Working
  <2>3. CASE
           /\ job' = [job EXCEPT !.room = None, !.todo = @ \ {job.room},
                                 !.sync = @ \ {job.room}]
           /\ pc' = job.then
    BY <1>0, <2>1, <2>3 DEF TypePass, Scheduled, ControlPoints, Stages, Working, Jobs
  <2>4. CASE StageEnds /\ pc' = "tail"
    <3>1. job' = [IdleJob EXCEPT !.up = TRUE] /\ pc' = "tail"
      BY <2>1, <2>4 DEF StageEnds
    <3> QED BY <3>1, IdleJobTyped DEF TypePass, Scheduled, ControlPoints, Stages, Working
  <2>5. \/ job' = job /\ pc' \in {"link", "make"}
        \/ /\ job' = [job EXCEPT !.room = None, !.todo = @ \ {job.room},
                                 !.sync = @ \ {job.room}]
           /\ pc' = job.then
        \/ StageEnds /\ pc' = "tail"
    BY <1>8 DEF Adopt, Make, Link, GiveUp
  <2> QED BY <2>2, <2>3, <2>4, <2>5
<1>9. CASE Plan \/ CreateDone
  <2>1. job.up = TRUE
    BY <1>0, <1>9 DEF Plan, CreateDone, Scheduled, Working, Jobs
  <2>2. Desired \in SUBSET Rooms
    BY DEF Desired
  <2>3. CASE Plan
    <3>1. /\ job' = [job EXCEPT !.todo = Desired \ Mirrored, !.sync = Desired, !.then = "create"]
          /\ pc' = "revocation"
      BY <2>3 DEF Plan
    <3>2. job' \in Jobs /\ job'.then = "create" /\ job'.up = job.up
      BY <1>0, <2>2, <3>1 DEF Jobs, ControlPoints
    <3> QED BY <2>1, <3>1, <3>2 DEF TypePass, Scheduled, ControlPoints, Stages, Working
  <2>4. CASE CreateDone
    <3>1. job' = [job EXCEPT !.then = "sync"] /\ pc' = "sync"
      BY <2>4 DEF CreateDone
    <3>2. job' \in Jobs /\ job'.then = "sync" /\ job'.up = job.up
      BY <1>0, <3>1 DEF Jobs, ControlPoints
    <3> QED BY <2>1, <3>1, <3>2 DEF TypePass, Scheduled, ControlPoints, Stages, Working
  <2> QED BY <1>9, <2>3, <2>4
<1>10. CASE Tail \/ DeliveryDone
  <2>1. job' = job /\ pc' \in {"config", "delivery", "history"} /\ pc \in Working
    BY <1>10 DEF Tail, DeliveryDone, AfterTail, Working
  <2> QED BY <1>0, <2>1 DEF TypePass, Scheduled, ControlPoints, Stages, Working
<1>11. CASE Skip
  <2>1. job' = job /\ pc' \in {job.then, AfterRetirement, "tail", "config"}
        /\ (pc' = "tail" => pc \in Working)
    BY <1>0, <1>11 DEF Skip, Idle, Working, Scheduled, AfterRetirement
  <2> QED BY <1>0, <2>1 DEF AfterRetirement, TypePass, Scheduled, ControlPoints, Stages, Working
<1>12. ASSUME NEW r \in Rooms, Revoke(r) PROVE TypePass' /\ Scheduled'
  BY <1>0, <1>12 DEF Revoke, TypePass, Scheduled, ControlPoints, Stages, Working, Jobs
<1>13. ASSUME NEW r \in Rooms, Decline(r) \/ Allocate(r) \/ Sync(r)
       PROVE  TypePass' /\ Scheduled'
  <2>1. job.up = TRUE
    BY <1>0, <1>13 DEF Decline, Allocate, Sync, Scheduled, Working, Jobs
  <2>2. pc' \in {"create", "make", "adopt", "sync", "link"}
    BY <1>13 DEF Decline, Allocate, Sync
  <2>3. \/ job' = [job EXCEPT !.todo = @ \ {r}]
        \/ job' = [job EXCEPT !.room = r, !.then = "create"]
        \/ job' = [job EXCEPT !.room = r]
        \/ job' = [job EXCEPT !.sync = @ \ {r}]
    BY <1>13 DEF Decline, Allocate, Sync
  <2>4. job' \in Jobs /\ job'.then \in {job.then, "create"} /\ job'.up = job.up
    <3>1. job.todo \ {r} \in SUBSET Rooms /\ job.sync \ {r} \in SUBSET Rooms
      BY <1>0 DEF Jobs
    <3>2. CASE job' = [job EXCEPT !.todo = @ \ {r}] \/ job' = [job EXCEPT !.sync = @ \ {r}]
      BY <1>0, <3>1, <3>2 DEF Jobs
    <3>3. CASE job' = [job EXCEPT !.room = r, !.then = "create"] \/ job' = [job EXCEPT !.room = r]
      BY <1>0, <3>3 DEF Jobs, ControlPoints
    <3> QED BY <2>3, <3>2, <3>3
  <2> QED BY <1>0, <2>1, <2>2, <2>4 DEF TypePass, Scheduled, ControlPoints, Stages, Working
<1>14. ASSUME NEW r \in Rooms, Copy(r) PROVE TypePass' /\ Scheduled'
  <2>1. mirror[r] \in Generations \cup {None}
    BY DEF TypeInv, TypeOK, TypeTables
  <2> QED BY <1>0, <1>14, <2>1 DEF Copy, TypePass, Scheduled, ControlPoints, Stages, Working,
             Jobs
<1>15. ASSUME NEW r \in Rooms, Withhold(r) \/ HistorySlice(r) PROVE TypePass' /\ Scheduled'
  <2>1. job' = job /\ pc' \in {"history", "delivery", "config"} /\ pc \in Working
    BY <1>15 DEF Withhold, HistorySlice, Working
  <2> QED BY <1>0, <2>1 DEF TypePass, Scheduled, ControlPoints, Stages, Working
<1>16. ASSUME NEW g \in Generations, Retire(g) PROVE TypePass' /\ Scheduled'
  BY <1>0, <1>16 DEF Retire, TypePass, Scheduled, ControlPoints, Stages, Working, Jobs
<1>17. CASE
         \/ UNCHANGED vars \/ Disconnect \/ Reconnect
         \/ \E r \in Rooms : SetLevel(r)
         \/ \E l \in Links : Relink(l)
  BY <1>1, <1>17 DEF vars, Disconnect, Reconnect, SetLevel, Relink
<1> QED
  BY StepCases, <1>2, <1>3, <1>4, <1>5, <1>6, <1>7, <1>8, <1>9, <1>10, <1>11, <1>12, <1>13,
     <1>14, <1>15, <1>16, <1>17

(* What the pass holds. Nobody but the daemon writes its tables, so that   *)
(* what it found at one step is still there at the next.                   *)
LEMMA HeldNext == ASSUME TypeInv, [Next]_vars PROVE Held'
<1>0. TypeOK /\ Held /\ RowsAgree
  BY DEF TypeInv
<1>1. CASE UNCHANGED <<pc, job, life, mirror>>
  BY <1>0, <1>1 DEF Held
<1>2. ASSUME pc' \notin {"clean", "adopt", "make", "link", "put", "retire"} PROVE Held'
  BY <1>2 DEF Held
<1>3. CASE
         \/ ConfigOff \/ ConfigOn \/ ConfigUnreadable \/ Wipe \/ Rebind \/ KeepConnection
         \/ RetireDone \/ Plan \/ CreateDone \/ SyncDone \/ Tail \/ Put \/ DeliveryDone \/ Crash
         \/ \E r \in Rooms : Decline(r) \/ Withhold(r) \/ HistorySlice(r)
  BY <1>2, <1>3 DEF ConfigOff, ConfigOn, ConfigUnreadable, Wipe, Rebind, KeepConnection,
       RetireDone, Plan, CreateDone, SyncDone, Tail, Put, DeliveryDone, Crash, Decline,
       Withhold, HistorySlice, AfterRetirement, AfterTail
<1>4. job.then \in {"retirement", "create", "sync"}
  BY DEF TypeInv, Scheduled
<1>5. CASE Forget \/ Skip
  BY <1>2, <1>4, <1>5 DEF Forget, Skip, CleanupEnds, Idle, AfterRetirement
<1>6. CASE CleanStep
  <2>1. CASE CleanupEnds
    BY <1>2, <1>4, <2>1 DEF CleanupEnds
  <2>2. CASE UNCHANGED <<pc, job, mirror>>
               /\ life' = [life EXCEPT ![job.room].step = life[job.room].step + 1]
    <3>1. job.room \in Rooms /\ life[job.room] \in LifeRows /\ life[job.room].status = "revoking"
      BY <1>0, <1>6 DEF CleanStep, Held, TypeOK, TypeTables
    <3>2. life[job.room].step + 1 \in 0..3
      BY <1>6, <3>1 DEF CleanStep, LifeRows
    <3>3. life'[job.room] = [life[job.room] EXCEPT !.step = life[job.room].step + 1]
      BY <1>0, <2>2, <3>1 DEF TypeOK, TypeTables
    <3>4. life'[job.room].status = "revoking"
      BY <3>1, <3>2, <3>3, StepTyped
    <3> QED BY <1>6, <2>2, <3>1, <3>4 DEF CleanStep, Held
  <2> QED BY <1>6, <2>1, <2>2 DEF CleanStep
<1>7. CASE RetireStep
  <2>1. UNCHANGED <<pc, job, life, mirror>> \/ pc' = AfterRetirement
    BY <1>7 DEF RetireStep
  <2> QED BY <1>1, <1>2, <2>1 DEF AfterRetirement
<1>8. CASE Adopt \/ Make
  <2>1. job.room \in Rooms /\ life[job.room].gen \in Generations
    BY <1>0, <1>8 DEF Adopt, Make, Held
  <2>2. CASE job' = job /\ pc' = "make" /\ UNCHANGED tableVars
    BY <2>1, <2>2 DEF Held
  <2>3. CASE job' = job /\ pc' = "link" /\ RecordMirror(job.room, life[job.room].gen)
    <3>1. mirror'[job.room] = life[job.room].gen
      BY <1>0, <2>1, <2>3, RecordMirrorRows DEF TypeOK
    <3> QED BY <2>1, <2>3, <3>1 DEF Held
  <2>4. CASE GiveUp \/ pc' = "tail"
    BY <1>2, <1>4, <2>4 DEF GiveUp
  <2> QED BY <1>8, <2>2, <2>3, <2>4 DEF Adopt, Make
<1>9. CASE Link
  BY <1>2, <1>4, <1>9 DEF Link, GiveUp
<1>10. ASSUME NEW r \in Rooms, Allocate(r) PROVE Held'
  <2>1. job' = [job EXCEPT !.room = r, !.then = "create"] /\ pc' \in {"make", "adopt"}
    BY <1>10 DEF Allocate
  <2>2. job'.room = r
    BY <1>0, <2>1 DEF TypeOK, TypePass, Jobs
  <2>3. life'[r].gen \in Generations
    BY <1>0, <1>10, IntendRows DEF Allocate, TypeOK
  <2> QED BY <2>1, <2>2, <2>3 DEF Held
<1>11. ASSUME NEW r \in Rooms, Revoke(r) \/ Sync(r) PROVE Held'
  <2>1. UNCHANGED tableVars /\ pc' \in {"clean", "link", "sync"}
    BY <1>11 DEF Revoke, Sync
  <2>2. CASE pc' = "sync"
    BY <1>2, <2>2
  <2>3. CASE pc' # "sync"
    <3>1. job'.room = r
      BY <1>0, <1>11, <2>3 DEF Revoke, Sync, TypeOK, TypePass, Jobs
    <3>2. mirror[r] \in Generations \cup {None}
      BY <1>0 DEF TypeOK, TypeTables
    <3>3. \/ pc' = "clean" /\ life[r].status = "revoking"
          \/ pc' = "link" /\ life[r].status = "linking"
      BY <1>11, <2>3 DEF Revoke, Revoking, Sync
    <3> QED BY <1>0, <2>1, <3>1, <3>2, <3>3 DEF Held, RowsAgree
  <2> QED BY <2>2, <2>3
<1>12. ASSUME NEW r \in Rooms, Copy(r) PROVE Held'
  <2>1. job'.room = r /\ job'.gen = mirror[r] /\ pc' = "put" /\ UNCHANGED tableVars
    BY <1>0, <1>12 DEF Copy, TypeOK, TypePass, Jobs
  <2>2. mirror[r] \in Generations
    BY <1>0, <1>12 DEF Copy, Queued, RowsAgree, Pending, TypeOK, TypeTables
  <2> QED BY <2>1, <2>2 DEF Held
<1>13. ASSUME NEW g \in Generations, Retire(g) PROVE Held'
  <2>1. job'.gen = g /\ pc' = "retire"
    BY <1>0, <1>13 DEF Retire, TypeOK, TypePass, Jobs
  <2> QED BY <2>1 DEF Held
<1>14. CASE
         \/ UNCHANGED vars \/ Disconnect \/ Reconnect
         \/ \E r \in Rooms : SetLevel(r)
         \/ \E l \in Links : Relink(l)
  BY <1>1, <1>14 DEF vars, Disconnect, Reconnect, SetLevel, Relink
<1> QED
  BY StepCases, <1>3, <1>5, <1>6, <1>7, <1>8, <1>9, <1>10, <1>11, <1>12, <1>13, <1>14

LEMMA TypeNext == ASSUME TypeInv, [Next]_vars PROVE TypeInv'
BY TypeUserNext, TypeMasterNext, TypeRetiredNext, TypeLinkNext, RowsNext, TypePassNext, HeldNext
   DEF TypeInv, TypeOK

(* Every variable always holds a value of its kind: in particular a pass   *)
(* never takes back, links or writes a room it does not know, and a row    *)
(* being revoked has nothing queued.                                       *)
THEOREM TypeCorrect == Spec => []TypeOK
<1>1. TypeInv => TypeOK
  BY DEF TypeInv
<1> QED BY TypeInit, TypeNext, <1>1, PTL DEF Spec

-----------------------------------------------------------------------------
(* The connection in use. While a pass runs it is that of the destination, *)
(* and so is the connection of every room a row of the table names: a      *)
(* change of destination empties the table first.                          *)

LEMMA LinkInit == ASSUME Init PROVE LinkInv
<1>1. InUse
  BY IdleJobTyped DEF Init, InUse
<1>2. OfDestination
  BY DEF Init, OfDestination, NoLife
<1> QED BY <1>1, <1>2, TypeInit DEF LinkInv

LEMMA InUseNext == ASSUME TypeInv, InUse, [Next]_vars PROVE InUse'
<1>0. TypeOK /\ Scheduled
  BY DEF TypeInv
<1>1. CASE ConfigOff \/ ConfigUnreadable \/ Crash
  <2>1. job' = IdleJob /\ pc' \in {"revocation", "config"}
    BY <1>1 DEF ConfigOff, ConfigUnreadable, Crash
  <2> QED BY <2>1, IdleJobTyped DEF InUse
<1>2. CASE ConfigOn
  <2>1. job'.up = TRUE /\ cfg' # None
    BY <1>2, IdleJobTyped DEF ConfigOn
  <2>2. \/ pc' = "keep" /\ cfg' = dest'
        \/ pc' = "wipe"
    BY <1>2 DEF ConfigOn
  <2> QED BY <2>1, <2>2 DEF InUse
<1>3. CASE Wipe \/ Rebind \/ KeepConnection
  BY <1>3 DEF Wipe, Rebind, KeepConnection, InUse
<1>4. ASSUME UNCHANGED <<cfg, dest>>, pc \notin {"wipe", "rebind"},
             pc' \notin {"wipe", "rebind", "keep"}, job'.up = job.up
      PROVE  InUse'
  BY <1>4 DEF InUse
<1>5. ASSUME StageEnds PROVE job'.up = job.up
  BY <1>0, <1>5, IdleJobTyped DEF StageEnds, TypeOK, TypePass, Jobs
<1>6. job.then \in {"retirement", "create", "sync"}
  BY <1>0 DEF Scheduled
<1>7. CASE RetireStep \/ RetireDone \/ SyncDone \/ Put
  <2>1. job'.up = job.up
    BY <1>5, <1>7 DEF RetireStep, RetireDone, SyncDone, Put
  <2> QED BY <1>4, <1>7, <2>1 DEF RetireStep, RetireDone, SyncDone, Put, AfterRetirement
<1>8. CASE CleanStep \/ Forget
  <2>1. job'.up = job.up
    BY <1>0, <1>8 DEF CleanStep, Forget, CleanupEnds, TypeOK, TypePass, Jobs
  <2> QED BY <1>4, <1>6, <1>8, <2>1 DEF CleanStep, Forget, CleanupEnds
<1>9. CASE Adopt \/ Make \/ Link
  <2>1. job'.up = job.up
    BY <1>0, <1>5, <1>9 DEF Adopt, Make, Link, GiveUp, TypeOK, TypePass, Jobs
  <2> QED BY <1>4, <1>6, <1>9, <2>1 DEF Adopt, Make, Link, GiveUp
<1>10. CASE
         \/ Plan \/ CreateDone \/ Tail \/ DeliveryDone \/ Skip
         \/ \E r \in Rooms : \/ Revoke(r) \/ Decline(r) \/ Allocate(r) \/ Sync(r)
                             \/ Copy(r) \/ Withhold(r) \/ HistorySlice(r)
         \/ \E g \in Generations : Retire(g)
  <2>1. job'.up = job.up
    BY <1>0, <1>10 DEF Plan, CreateDone, Tail, DeliveryDone, Skip, Revoke, Decline, Allocate,
         Sync, Copy, Withhold, HistorySlice, Retire, TypeOK, TypePass, Jobs
  <2>2. /\ UNCHANGED <<cfg, dest>> /\ pc \notin {"wipe", "rebind"}
        /\ pc' \notin {"wipe", "rebind", "keep"}
    BY <1>6, <1>10 DEF Plan, CreateDone, Tail, DeliveryDone, Skip, Idle, Revoke, Decline,
         Allocate, Sync, Copy, Withhold, HistorySlice, Retire, AfterRetirement, AfterTail
  <2> QED BY <1>4, <2>1, <2>2
<1>11. CASE
         \/ UNCHANGED vars \/ Disconnect \/ Reconnect
         \/ \E r \in Rooms : SetLevel(r)
         \/ \E l \in Links : Relink(l)
  BY <1>11 DEF vars, Disconnect, Reconnect, SetLevel, Relink, InUse
<1> QED
  BY StepCases, <1>1, <1>2, <1>3, <1>7, <1>8, <1>9, <1>10, <1>11

(* No step names another generation in a row, but the commit of an intent, *)
(* which draws a fresh one; and no request moves a room.                   *)
GenKept == \A r \in Rooms : life'[r].gen \in {life[r].gen, None}
LinkKept == \A g \in Generations : master'[g].link = master[g].link

LEMMA GenKeptByMarking ==
  ASSUME TypeTables, SeeLinkOff \/ \E R \in SUBSET Mirrored : MarkRevoking(R)
  PROVE  GenKept
BY MarkRevokingRows DEF SeeLinkOff, GenKept

LEMMA OfDestinationKept ==
  ASSUME TypeInv, OfDestination, GenKept, LinkKept, dest' = dest \/ dest = None, pc' # "rebind"
  PROVE  OfDestination'
<1>1. ASSUME NEW r \in Rooms, life'[r].gen # None, master'[life'[r].gen].link # None
      PROVE  master'[life'[r].gen].link = dest'
  <2>1. life'[r].gen = life[r].gen
    BY <1>1 DEF GenKept
  <2>2. life[r].gen \in Generations
    BY <1>1, <2>1 DEF TypeInv, TypeOK, TypeTables, LifeRows
  <2>3. master'[life[r].gen].link = master[life[r].gen].link
    BY <2>2 DEF LinkKept
  <2>4. Exists(life[r].gen)
    BY <1>1, <2>1, <2>3 DEF Exists
  <2>5. master[life[r].gen].link = dest /\ dest # None
    BY <2>1, <2>2, <2>4, MirrorAssumption DEF OfDestination, Exists
  <2> QED BY <2>1, <2>3, <2>5
<1> QED BY <1>1 DEF OfDestination, Exists

LEMMA OfDestinationNext == ASSUME LinkInv, [Next]_vars PROVE OfDestination'
<1>0. TypeInv /\ TypeOK /\ TypeTables /\ Held /\ Scheduled /\ OfDestination
  BY DEF LinkInv, TypeInv, TypeOK
<1>1. ASSUME UNCHANGED <<life, master, dest>>, pc' # "rebind" PROVE OfDestination'
  BY <1>0, <1>1 DEF OfDestination, Exists
<1>2. ASSUME GenKept, UNCHANGED <<master, dest>>, pc' # "rebind" PROVE OfDestination'
  <2>1. LinkKept
    BY <1>2 DEF LinkKept
  <2> QED BY <1>0, <1>2, <2>1, OfDestinationKept
<1>3. job.then # "rebind"
  BY <1>0 DEF Scheduled
<1>4. CASE
         \/ ConfigOff \/ Plan \/ Tail
         \/ \E r \in Rooms : Decline(r) \/ Withhold(r) \/ HistorySlice(r)
  <2>1. \/ UNCHANGED life
        \/ SeeLinkOff
        \/ \E R \in SUBSET Mirrored : MarkRevoking(R)
    <3>1. CASE ConfigOff
      BY <3>1 DEF ConfigOff
    <3>2. CASE Plan
      BY <3>2 DEF Plan
    <3>3. CASE Tail
      BY <3>3 DEF Tail
    <3>4. ASSUME NEW r \in Rooms, Decline(r) PROVE UNCHANGED life \/ SeeLinkOff
      BY <3>4 DEF Decline
    <3>5. ASSUME NEW r \in Rooms, Withhold(r) \/ HistorySlice(r)
          PROVE  UNCHANGED life \/ SeeLinkOff \/ \E R \in SUBSET Mirrored : MarkRevoking(R)
      <4>1. {r} \in SUBSET Mirrored
        BY <1>0, <3>5 DEF Withhold, HistorySlice, Queued, Discovering, Mirrored, Pending,
             RowsAgree, TypeInv
      <4> QED BY <3>5, <4>1 DEF Withhold, HistorySlice
    <3> QED BY <1>4, <3>1, <3>2, <3>3, <3>4, <3>5
  <2>2. GenKept
    <3>1. CASE UNCHANGED life
      BY <3>1 DEF GenKept
    <3> QED BY <1>0, <2>1, <3>1, GenKeptByMarking
  <2>3. UNCHANGED <<master, dest>> /\ pc' # "rebind"
    BY <1>4 DEF ConfigOff, Plan, Tail, Decline, Withhold, HistorySlice, AfterTail
  <2> QED BY <1>2, <2>2, <2>3
<1>5. CASE ConfigOn
  <2>1. GenKept /\ LinkKept
    BY <1>5 DEF ConfigOn, GenKept, LinkKept
  <2>2. (dest' = dest \/ dest = None) /\ pc' # "rebind"
    BY <1>5 DEF ConfigOn
  <2> QED BY <1>0, <2>1, <2>2, OfDestinationKept
<1>6. CASE Wipe
  BY <1>6 DEF Wipe, NoLife, OfDestination
<1>7. CASE Rebind
  <2>1. \A r \in Rooms : life'[r].gen = None
    BY <1>0, <1>7 DEF Rebind, OfDestination
  <2> QED BY <2>1 DEF OfDestination
<1>8. CASE CleanStep
  <2>1. job.room \in Rooms /\ life[job.room] \in LifeRows
    BY <1>0, <1>8 DEF CleanStep, Held, TypeTables
  <2>2. life[job.room].step \in 0..2
    BY <1>8, <2>1 DEF CleanStep, LifeRows
  <2>3. LinkKept
    <3>1. Request(cfg, mirror[job.room], life[job.room].step)
      BY <1>8 DEF CleanStep, Request
    <3> QED BY <1>0, <2>2, <3>1, RequestNarrows DEF LinkKept, TypeOK
  <2>4. GenKept
    <3>1. CASE UNCHANGED life
      BY <3>1 DEF GenKept
    <3>2. CASE life' = [life EXCEPT ![job.room].step = life[job.room].step + 1]
      <4> DEFINE row == [life[job.room] EXCEPT !.step = life[job.room].step + 1]
      <4>1. row.gen = life[job.room].gen
        BY <2>1, <2>2, StepTyped
      <4>2. \A q \in Rooms : life'[q] = IF q = job.room THEN row ELSE life[q]
        BY <1>0, <2>1, <3>2 DEF TypeTables
      <4> HIDE DEF row
      <4> QED BY <4>1, <4>2 DEF GenKept
    <3> QED BY <1>8, <3>1, <3>2 DEF CleanStep
  <2>5. dest' = dest /\ pc' # "rebind"
    BY <1>3, <1>8 DEF CleanStep, CleanupEnds
  <2> QED BY <1>0, <2>3, <2>4, <2>5, OfDestinationKept
<1>9. CASE Forget
  <2>1. NoLife.gen = None
    BY DEF NoLife
  <2>2. GenKept
    BY <1>0, <1>9, <2>1 DEF Forget, GenKept, TypeTables
  <2> QED BY <1>2, <1>3, <1>9, <2>2 DEF Forget, CleanupEnds
<1>10. CASE RetireStep
  <2>1. retired[job.gen] \in RetiredRows
    BY <1>0, <1>10 DEF RetireStep, Held, TypeOK, TypeRetired
  <2>2. retired[job.gen].step \in 0..2
    BY <1>10, <2>1 DEF RetireStep, RetiredRows
  <2>3. Request(retired[job.gen].connection, job.gen, retired[job.gen].step)
    BY <1>10 DEF RetireStep, Request
  <2>4. LinkKept
    BY <1>0, <2>2, <2>3, RequestNarrows DEF LinkKept, TypeOK
  <2>5. GenKept /\ dest' = dest /\ pc' # "rebind"
    BY <1>10 DEF RetireStep, GenKept, AfterRetirement
  <2> QED BY <1>0, <2>4, <2>5, OfDestinationKept
<1>11. CASE Adopt
  <2>1. GenKept
    <3>1. job.room \in Rooms /\ life[job.room].gen \in Generations
      BY <1>0, <1>11 DEF Adopt, Held
    <3>2. UNCHANGED life \/ RecordMirror(job.room, life[job.room].gen)
      BY <1>11 DEF Adopt
    <3> QED BY <1>0, <3>1, <3>2, RecordMirrorRows DEF GenKept
  <2> QED BY <1>2, <1>3, <1>11, <2>1 DEF Adopt, GiveUp
<1>12. CASE Make
  <2>1. job.room \in Rooms /\ life[job.room].gen \in Generations
    BY <1>0, <1>12 DEF Make, Held
  <2>2. UNCHANGED life \/ RecordMirror(job.room, life[job.room].gen)
    BY <1>12 DEF Make
  <2>3. \A q \in Rooms : life'[q].gen = life[q].gen
    BY <1>0, <2>1, <2>2, RecordMirrorRows
  <2>4. cfg = dest
    BY <1>0, <1>12 DEF Make, LinkInv, InUse, Scheduled, Working
  <2>5. NewRoom(job.room).link = dest
    BY <2>4 DEF NewRoom
  <2>6. master' \in {master, [master EXCEPT ![life[job.room].gen] = NewRoom(job.room)]}
    BY <1>12 DEF Make
  <2>7. \A g \in Generations : master'[g].link \in {master[g].link, dest}
    BY <1>0, <2>1, <2>5, <2>6 DEF TypeOK, TypeMaster
  <2>8. dest' = dest /\ pc' # "rebind"
    BY <1>3, <1>12 DEF Make, GiveUp
  <2>9. \A r \in Rooms : life[r].gen # None => life[r].gen \in Generations
    BY <1>0 DEF TypeTables, LifeRows
  <2> QED BY <1>0, <2>3, <2>7, <2>8, <2>9 DEF OfDestination, Exists
<1>13. CASE Link
  <2>1. job.room \in Rooms /\ life[job.room] \in LifeRows /\ mirror[job.room] \in Generations
    BY <1>0, <1>13 DEF Link, Held, TypeTables
  <2>2. life' \in {life, [life EXCEPT ![job.room].status = "history"]}
    BY <1>13 DEF Link
  <2>3. [life[job.room] EXCEPT !.status = "history"].gen = life[job.room].gen
    BY <2>1, StatusTyped DEF Statuses
  <2>4. GenKept
    BY <1>0, <2>1, <2>2, <2>3 DEF GenKept, TypeTables
  <2>5. master' \in {master, [master EXCEPT ![mirror[job.room]].child = TRUE]}
    BY <1>13 DEF Link
  <2>6. LinkKept
    BY <1>0, <2>1, <2>5 DEF LinkKept, TypeOK, TypeMaster, MasterRooms
  <2>7. dest' = dest /\ pc' # "rebind"
    BY <1>3, <1>13 DEF Link, GiveUp
  <2> QED BY <1>0, <2>4, <2>6, <2>7, OfDestinationKept
<1>14. CASE Put
  <2>1. master' \in {master, [master EXCEPT ![job.gen].copied = TRUE]}
    BY <1>14 DEF Put
  <2>2. LinkKept
    BY <1>0, <2>1 DEF LinkKept, TypeOK, TypeMaster, MasterRooms
  <2>3. GenKept /\ dest' = dest /\ pc' # "rebind"
    BY <1>14 DEF Put, GenKept
  <2> QED BY <1>0, <2>2, <2>3, OfDestinationKept
<1>15. CASE DeliveryDone
  <2>1. GenKept
    BY <1>0, <1>15 DEF DeliveryDone, GenKept, TypeTables, LifeRows
  <2> QED BY <1>2, <1>15, <2>1 DEF DeliveryDone
<1>16. ASSUME NEW r \in Rooms, Allocate(r) PROVE OfDestination'
  <2>1. /\ life'[r].gen \in Generations
        /\ \A q \in Rooms : q # r => life'[q] = life[q]
        /\ life[r].gen # None => life' = life
        /\ life[r].gen = None => Fresh(life'[r].gen)
    BY <1>0, <1>16, IntendRows DEF Allocate
  <2>2. UNCHANGED <<master, dest>> /\ pc' # "rebind"
    BY <1>16 DEF Allocate
  <2>3. CASE life[r].gen # None
    BY <1>1, <2>1, <2>2, <2>3
  <2>4. CASE life[r].gen = None
    BY <1>0, <2>1, <2>2, <2>4 DEF OfDestination, Exists, Fresh
  <2> QED BY <2>3, <2>4
<1>17. CASE
         \/ ConfigUnreadable \/ KeepConnection \/ RetireDone \/ CreateDone \/ SyncDone \/ Skip
         \/ Crash
         \/ \E r \in Rooms : Revoke(r) \/ Sync(r) \/ Copy(r)
         \/ \E g \in Generations : Retire(g)
  BY <1>1, <1>3, <1>17 DEF ConfigUnreadable, KeepConnection, RetireDone, CreateDone, SyncDone,
       Skip, Crash, Idle, AfterRetirement, Revoke, Sync, Copy, Retire
<1>18. CASE
         \/ UNCHANGED vars \/ Disconnect \/ Reconnect
         \/ \E r \in Rooms : SetLevel(r)
         \/ \E l \in Links : Relink(l)
  BY <1>0, <1>18 DEF vars, Disconnect, Reconnect, SetLevel, Relink, OfDestination, Exists
<1> QED
  BY StepCases, <1>4, <1>5, <1>6, <1>7, <1>8, <1>9, <1>10, <1>11, <1>12, <1>13, <1>14, <1>15,
     <1>16, <1>17, <1>18

LEMMA LinkNext == ASSUME LinkInv, [Next]_vars PROVE LinkInv'
BY TypeNext, InUseNext, OfDestinationNext DEF LinkInv

(* What widens a room is done in the three writing steps. *)
LEMMA WideningStep ==
  ASSUME LinkInv, [Next]_vars, NEW g \in Generations, Widens(g)
  PROVE  \/ Make /\ g = life[job.room].gen
         \/ Link /\ g = mirror[job.room]
         \/ Put /\ g = job.gen
<1>0. TypeOK /\ Held
  BY DEF LinkInv, TypeInv
<1>1. CASE CleanStep
  <2>1. life[job.room].step \in 0..2
    BY <1>0, <1>1 DEF CleanStep, Held, TypeOK, TypeTables, LifeRows
  <2>2. Request(cfg, mirror[job.room], life[job.room].step)
    BY <1>1 DEF CleanStep, Request
  <2> QED BY <1>0, <2>1, <2>2, RequestNarrows DEF TypeOK, Widens
<1>2. CASE RetireStep
  <2>1. retired[job.gen].step \in 0..2
    BY <1>0, <1>2 DEF RetireStep, Held, TypeOK, TypeRetired, RetiredRows
  <2>2. Request(retired[job.gen].connection, job.gen, retired[job.gen].step)
    BY <1>2 DEF RetireStep, Request
  <2> QED BY <1>0, <2>1, <2>2, RequestNarrows DEF TypeOK, Widens
<1>3. CASE Make
  <2>1. master' \in {master, [master EXCEPT ![life[job.room].gen] = NewRoom(job.room)]}
    BY <1>3 DEF Make
  <2> QED BY <1>0, <1>3, <2>1 DEF TypeOK, TypeMaster, Widens
<1>4. CASE Link
  <2>1. master' \in {master, [master EXCEPT ![mirror[job.room]].child = TRUE]}
    BY <1>4 DEF Link
  <2> QED BY <1>0, <1>4, <2>1 DEF TypeOK, TypeMaster, Widens
<1>5. CASE Put
  <2>1. master' \in {master, [master EXCEPT ![job.gen].copied = TRUE]}
    BY <1>5 DEF Put
  <2> QED BY <1>0, <1>5, <2>1 DEF TypeOK, TypeMaster, Widens
<1>6. master' # master
  BY DEF Widens
<1>7. CASE
         \/ UNCHANGED vars
         \/ ConfigOff \/ ConfigOn \/ ConfigUnreadable \/ Wipe \/ Rebind \/ KeepConnection
         \/ Forget \/ RetireDone \/ Plan \/ Adopt \/ CreateDone \/ SyncDone
         \/ Tail \/ DeliveryDone \/ Skip \/ Crash \/ Disconnect \/ Reconnect
         \/ \E r \in Rooms : \/ Revoke(r) \/ Decline(r) \/ Allocate(r) \/ Sync(r)
                             \/ Copy(r) \/ Withhold(r) \/ HistorySlice(r) \/ SetLevel(r)
         \/ \E h \in Generations : Retire(h)
         \/ \E l \in Links : Relink(l)
  BY <1>6, <1>7 DEF vars, ConfigOff, ConfigOn, ConfigUnreadable, Wipe, Rebind,
       KeepConnection, Forget, RetireDone, Plan, Adopt, CreateDone, SyncDone, Tail,
       DeliveryDone, Skip, Crash, Disconnect, Reconnect, Revoke, Decline, Allocate, Sync,
       Copy, Withhold, HistorySlice, SetLevel, Retire, Relink
<1> QED BY StepCases, <1>1, <1>2, <1>3, <1>4, <1>5, <1>7

LEMMA WrittenStep ==
  ASSUME LinkInv, [Next]_vars, NEW g \in Generations, Exists(g), Widens(g)
  PROVE  cfg = master[g].link
<1>1. CASE Make /\ g = life[job.room].gen
  <2>1. job.room \in Rooms /\ pc = "make" /\ job.up
    BY <1>1 DEF Make, LinkInv, TypeInv, Held, Scheduled, Working
  <2> QED BY <1>1, <2>1, MirrorAssumption DEF LinkInv, InUse, OfDestination
<1>2. CASE Link /\ g = mirror[job.room]
  <2>1. job.room \in Rooms /\ pc = "link" /\ job.up /\ g # None
    BY <1>2, MirrorAssumption DEF Link, LinkInv, TypeInv, Held, Scheduled, Working
  <2>2. life[job.room].gen = g
    BY <1>2, <2>1 DEF LinkInv, TypeInv, RowsAgree
  <2> QED BY <2>1, <2>2 DEF LinkInv, InUse, OfDestination
<1>3. CASE Put /\ g = job.gen
  <2>1. job.room \in Rooms /\ pc = "put" /\ job.up /\ g # None /\ mirror[job.room] = g
    BY <1>3, MirrorAssumption DEF Put, LinkInv, TypeInv, Held, Scheduled, Working
  <2>2. life[job.room].gen = g
    BY <1>3, <2>1 DEF LinkInv, TypeInv, RowsAgree
  <2> QED BY <2>1, <2>2 DEF LinkInv, InUse, OfDestination
<1> QED BY <1>1, <1>2, <1>3, WideningStep

(* An archive room is linked, and written, only over the connection it was *)
(* made with: between the moment a room of the table is chosen and the     *)
(* request for it, no change of connection, crash or retry puts another    *)
(* credential in the daemon's hand.                                        *)
THEOREM OnlyOverItsLink == Spec => WrittenOverItsLink
<1>1. LinkInv /\ [Next]_vars => [\A g \in Generations : Exists(g) /\ Widens(g)
                                                       => cfg = master[g].link]_vars
  BY WrittenStep
<1>2. Spec => []LinkInv
  BY LinkInit, LinkNext, PTL DEF Spec
<1> QED BY <1>1, <1>2, PTL DEF Spec, WrittenOverItsLink

-----------------------------------------------------------------------------
(* What a step does to the rows of state.db, in nine shapes. *)

Same(q) == life'[q] = life[q] /\ mirror'[q] = mirror[q]
Restated(q) == /\ life'[q].gen = life[q].gen /\ life'[q].step = life[q].step
               /\ mirror'[q] = mirror[q]

Marked(R) ==
    /\ retired' = retired /\ revoked' = revoked \cup {mirror[r] : r \in R}
    /\ \A q \in Rooms : /\ Restated(q)
                        /\ life'[q].status = IF q \in R THEN "revoking" ELSE life[q].status
Joined(R) ==
    /\ revoked' = revoked \cup {mirror[r] : r \in R}
    /\ \A g \in Generations :
         \/ retired'[g] = retired[g]
         \/ g \in {mirror[r] : r \in R} /\ retired'[g].step = 0
    /\ cleanup # None => \A r \in R : mirror[r] \in Retired'
    /\ Retired \subseteq Retired'
Listed == UNCHANGED <<life, mirror>> /\ Joined(Mirrored)
Wiped == Joined(Mirrored) /\ \A q \in Rooms : life'[q] = NoLife /\ mirror'[q] = None
Advanced(r) ==
    /\ UNCHANGED <<retired, revoked, mirror>>
    /\ life[r].step < 3 /\ life[r].status = "revoking"
    /\ life'[r].gen = life[r].gen /\ life'[r].status = "revoking"
    /\ life'[r].step = life[r].step + 1
    /\ \A q \in Rooms \ {r} : life'[q] = life[q]
Forgot(r) ==
    /\ UNCHANGED <<retired, revoked>>
    /\ life[r].step = 3 /\ life[r].status = "revoking"
    /\ life'[r] = NoLife /\ mirror'[r] = None
    /\ \A q \in Rooms \ {r} : Same(q)
Allocated(r) ==
    /\ UNCHANGED <<retired, revoked, mirror>>
    /\ life[r].gen = None /\ life'[r].gen \in Generations /\ Fresh(life'[r].gen)
    /\ life'[r].status = "allocating" /\ life'[r].step = 0
    /\ \A q \in Rooms \ {r} : life'[q] = life[q]
Recorded(r) ==
    /\ UNCHANGED <<retired, revoked>>
    /\ life[r].gen \in Generations
    /\ life'[r].gen = life[r].gen /\ life'[r].step = life[r].step
    /\ life'[r].status = "linking" /\ mirror'[r] = life[r].gen
    /\ \A q \in Rooms \ {r} : Same(q)
Settled ==
    /\ UNCHANGED <<retired, revoked>>
    /\ \A q \in Rooms :
         /\ Restated(q)
         /\ life'[q].status = "revoking" => life[q].status = "revoking"
         /\ life[q].status = "revoking" =>
              life'[q].status = "revoking" \/ (pc = "link" /\ q = job.room)
Retiring ==
    /\ UNCHANGED <<life, mirror, revoked>>
    /\ Retired' \subseteq Retired
    /\ \A g \in Generations :
         \/ retired'[g].step = retired[g].step
         \/ retired'[g].step = 0
         \/ RetireStep /\ g = job.gen /\ retired'[g].step = retired[g].step + 1

RowStep ==
    \/ \E R \in SUBSET Mirrored : Marked(R)
    \/ ConfigOn /\ pc' = "wipe" /\ Listed
    \/ Wipe /\ Wiped
    \/ CleanStep /\ job.room \in Rooms /\ Advanced(job.room)
    \/ Forget /\ job.room \in Rooms /\ Forgot(job.room)
    \/ Retiring
    \/ \E r \in Rooms : Allocate(r) /\ Allocated(r)
    \/ pc \in {"adopt", "make"} /\ job.room \in Rooms /\ Recorded(job.room)
    \/ Settled

(* The exact effect of marking, steps of the cleanup included.             *)
LEMMA MarkRevokingMarks ==
  ASSUME TypeTables, NEW R \in SUBSET Mirrored, MarkRevoking(R), UNCHANGED retired
  PROVE  Marked(R)
<1>1. ASSUME NEW q \in Rooms PROVE life'[q].step = life[q].step
  <2>1. life[q] \in LifeRows
    BY DEF TypeTables
  <2>2. [life[q] EXCEPT !.status = "revoking"].step = life[q].step
    BY <2>1 DEF LifeRows
  <2> QED BY <2>2 DEF MarkRevoking
<1>2. revoked' = revoked \cup {mirror[r] : r \in R}
  BY DEF MarkRevoking
<1> QED BY <1>1, <1>2, MarkRevokingRows DEF Marked, Restated

LEMMA NothingMarked ==
  ASSUME UNCHANGED <<life, mirror, revoked, retired>> PROVE Marked({})
BY DEF Marked, Restated

LEMMA ListJoins ==
  ASSUME TypeTables, TypeRetired, NEW R \in SUBSET Mirrored, ListForCleanup(R)
  PROVE  Joined(R)
<1>1. ASSUME NEW g \in Generations
      PROVE  /\ \/ retired'[g] = retired[g]
                \/ /\ cleanup # None /\ g \in {mirror[r] : r \in R}
                   /\ retired'[g] = [connection |-> cleanup, step |-> 0]
             /\ cleanup # None /\ g \in {mirror[r] : r \in R}
                  => g \in Retired \/ retired'[g] = [connection |-> cleanup, step |-> 0]
             /\ g \in Retired => retired'[g] = retired[g]
  BY DEF ListForCleanup
<1>2. \A r \in R : mirror[r] \in Generations
  BY DEF Mirrored, TypeTables
<1>3. Retired \subseteq Retired'
  BY <1>1 DEF Retired
<1>4. ASSUME cleanup # None, NEW r \in R PROVE mirror[r] \in Retired'
  BY <1>1, <1>2, <1>3, <1>4 DEF Retired
<1>5. revoked' = revoked \cup {mirror[r] : r \in R}
  BY DEF ListForCleanup
<1> QED BY <1>1, <1>3, <1>4, <1>5 DEF Joined

LEMMA MarkingSteps ==
  ASSUME TypeInv,
         \/ ConfigOff \/ Plan \/ Tail
         \/ \E r \in Rooms : Decline(r) \/ Withhold(r) \/ HistorySlice(r)
  PROVE  \E R \in SUBSET Mirrored : Marked(R)
<1>0. TypeTables /\ RowsAgree
  BY DEF TypeInv, TypeOK
<1>1. UNCHANGED retired
  BY DEF ConfigOff, Plan, Tail, Decline, Withhold, HistorySlice
<1>2. ASSUME SeeLinkOff \/ \E R \in SUBSET Mirrored : MarkRevoking(R)
      PROVE  \E R \in SUBSET Mirrored : Marked(R)
  BY <1>0, <1>1, <1>2, MarkRevokingMarks DEF SeeLinkOff
<1>3. ASSUME UNCHANGED <<life, mirror, revoked>>
      PROVE  \E R \in SUBSET Mirrored : Marked(R)
  BY <1>1, <1>3, NothingMarked
<1>4. CASE ConfigOff \/ Plan \/ Tail
  BY <1>2, <1>4 DEF ConfigOff, Plan, Tail
<1>5. ASSUME NEW r \in Rooms, Decline(r) PROVE \E R \in SUBSET Mirrored : Marked(R)
  BY <1>2, <1>3, <1>5 DEF Decline
<1>6. ASSUME NEW r \in Rooms, Withhold(r) \/ HistorySlice(r)
      PROVE  \E R \in SUBSET Mirrored : Marked(R)
  <2>1. {r} \in SUBSET Mirrored
    BY <1>0, <1>6 DEF Withhold, HistorySlice, Queued, Discovering, Mirrored, Pending, RowsAgree
  <2>2. UNCHANGED <<life, mirror, revoked>> \/ SeeLinkOff \/ MarkRevoking({r})
    BY <1>6 DEF Withhold, HistorySlice
  <2> QED BY <1>2, <1>3, <2>1, <2>2
<1> QED BY <1>4, <1>5, <1>6

LEMMA RowSteps == ASSUME TypeInv, [Next]_vars PROVE RowStep
<1>0. TypeTables /\ TypeRetired /\ Held
  BY DEF TypeInv, TypeOK
<1>1. ASSUME UNCHANGED <<life, mirror, revoked, retired>> PROVE RowStep
  BY <1>1, NothingMarked DEF RowStep
<1>2. CASE \/ ConfigOff \/ Plan \/ Tail
           \/ \E r \in Rooms : Decline(r) \/ Withhold(r) \/ HistorySlice(r)
  BY <1>2, MarkingSteps DEF RowStep
<1>3. CASE ConfigOn
  <2>1. CASE pc' = "wipe" /\ RetireMirrors
    BY <1>0, <1>3, <2>1, ListJoins DEF ConfigOn, RetireMirrors, Listed, RowStep
  <2> QED BY <1>1, <1>3, <2>1 DEF ConfigOn
<1>4. CASE Wipe
  BY <1>0, <1>4, ListJoins DEF Wipe, RetireMirrors, Wiped, RowStep
<1>5. CASE CleanStep
  <2>1. job.room \in Rooms /\ life[job.room] \in LifeRows /\ life[job.room].status = "revoking"
    BY <1>0, <1>5 DEF CleanStep, Held, TypeTables
  <2>2. life[job.room].step \in 0..2
    BY <1>5, <2>1 DEF CleanStep, LifeRows
  <2>3. UNCHANGED <<mirror, revoked, retired>>
    BY <1>5 DEF CleanStep
  <2>4. CASE life' = [life EXCEPT ![job.room].step = life[job.room].step + 1]
    <3> DEFINE row == [life[job.room] EXCEPT !.step = life[job.room].step + 1]
    <3>1. row.gen = life[job.room].gen /\ row.status = life[job.room].status
      BY <2>1, <2>2, StepTyped
    <3>2. row.step = life[job.room].step + 1
      BY <2>1 DEF LifeRows
    <3>3. \A q \in Rooms : life'[q] = IF q = job.room THEN row ELSE life[q]
      BY <1>0, <2>1, <2>4 DEF TypeTables
    <3> HIDE DEF row
    <3>4. Advanced(job.room)
      BY <2>1, <2>2, <2>3, <3>1, <3>2, <3>3 DEF Advanced
    <3> QED BY <1>5, <2>1, <3>4 DEF RowStep
  <2>5. UNCHANGED life \/ life' = [life EXCEPT ![job.room].step = life[job.room].step + 1]
    BY <1>5 DEF CleanStep
  <2> QED BY <1>1, <2>3, <2>4, <2>5
<1>6. CASE Forget
  <2>1. job.room \in Rooms /\ life[job.room].status = "revoking"
    BY <1>0, <1>6 DEF Forget, Held
  <2>2. Forgot(job.room)
    BY <1>0, <1>6, <2>1 DEF Forget, Forgot, Same, TypeTables
  <2> QED BY <1>6, <2>1, <2>2 DEF RowStep
<1>7. CASE RetireStep
  <2>1. job.gen \in Generations /\ retired[job.gen] \in RetiredRows
    BY <1>0, <1>7 DEF RetireStep, Held, TypeRetired
  <2>2. CASE retired' = [retired EXCEPT ![job.gen].step = retired[job.gen].step + 1]
    <3> DEFINE row == [retired[job.gen] EXCEPT !.step = retired[job.gen].step + 1]
    <3>1. row.connection = retired[job.gen].connection /\ row.step = retired[job.gen].step + 1
      BY <2>1 DEF RetiredRows
    <3>2. \A g \in Generations : retired'[g] = IF g = job.gen THEN row ELSE retired[g]
      BY <1>0, <2>1, <2>2 DEF TypeRetired
    <3> HIDE DEF row
    <3>3. Retired' \subseteq Retired
      BY <3>1, <3>2 DEF Retired
    <3>4. UNCHANGED <<life, mirror, revoked>>
      BY <1>7 DEF RetireStep
    <3>5. Retiring
      BY <1>7, <3>1, <3>2, <3>3, <3>4 DEF Retiring
    <3> QED BY <3>5 DEF RowStep
  <2>3. UNCHANGED retired \/ retired' = [retired EXCEPT ![job.gen].step = retired[job.gen].step + 1]
    BY <1>7 DEF RetireStep
  <2> QED BY <1>1, <1>7, <2>2, <2>3 DEF RetireStep
<1>8. CASE RetireDone
  <2>1. \A g \in Generations : retired'[g] = retired[g] \/ retired'[g] = NotRetired
    BY <1>0, <1>8 DEF RetireDone, TypeRetired
  <2>2. Retired' \subseteq Retired
    BY <2>1 DEF Retired, NotRetired
  <2>3. UNCHANGED <<life, mirror, revoked>>
    BY <1>8 DEF RetireDone
  <2>4. Retiring
    BY <2>1, <2>2, <2>3 DEF Retiring, NotRetired
  <2> QED BY <2>4 DEF RowStep
<1>9. ASSUME NEW r \in Rooms, Allocate(r) PROVE RowStep
  <2>1. UNCHANGED <<mirror, revoked, retired>>
    BY <1>9 DEF Allocate
  <2>2. CASE life[r].gen = None
    <3>1. \E g \in Generations : Fresh(g)
      BY <1>9, <2>2 DEF Allocate, Intend, AllocateAnew
    <3>2. NewName \in Generations /\ Fresh(NewName)
      BY <3>1 DEF NewName
    <3>3. life' = [life EXCEPT ![r] = [gen |-> NewName, status |-> "allocating", step |-> 0]]
      BY <1>9, <2>2 DEF Allocate, Intend, AllocateAnew
    <3>4. Allocated(r)
      BY <1>0, <2>1, <2>2, <3>2, <3>3 DEF Allocated, TypeTables
    <3> QED BY <1>9, <3>4 DEF RowStep
  <2>3. CASE life[r].gen # None
    BY <1>1, <1>9, <2>1, <2>3 DEF Allocate, Intend
  <2> QED BY <2>2, <2>3
<1>10. CASE Adopt \/ Make
  <2>1. /\ job.room \in Rooms /\ life[job.room].gen \in Generations
        /\ pc \in {"adopt", "make"}
    BY <1>0, <1>10 DEF Adopt, Make, Held
  <2>2. UNCHANGED tableVars \/ RecordMirror(job.room, life[job.room].gen)
    BY <1>10 DEF Adopt, Make
  <2>3. UNCHANGED retired
    BY <1>10 DEF Adopt, Make
  <2>4. CASE RecordMirror(job.room, life[job.room].gen)
    <3>1. life[job.room] \in LifeRows
      BY <1>0, <2>1 DEF TypeTables
    <3>2. [life[job.room] EXCEPT !.status = "linking"].step = life[job.room].step
      BY <3>1 DEF LifeRows
    <3>3. \A q \in Rooms : life'[q] = IF q = job.room
                                     THEN [life[job.room] EXCEPT !.status = "linking"]
                                     ELSE life[q]
      BY <1>0, <2>1, <2>4 DEF RecordMirror, TypeTables
    <3>4. UNCHANGED revoked
      BY <2>4 DEF RecordMirror
    <3>5. Recorded(job.room)
      BY <1>0, <2>1, <2>3, <2>4, <3>2, <3>3, <3>4, RecordMirrorRows DEF Recorded, Same
    <3> QED BY <2>1, <3>5 DEF RowStep
  <2> QED BY <1>1, <2>2, <2>3, <2>4
<1>11. CASE Link
  <2>1. /\ job.room \in Rooms /\ life[job.room] \in LifeRows /\ pc = "link"
        /\ UNCHANGED <<mirror, revoked, retired>>
    BY <1>0, <1>11 DEF Link, Held, TypeTables
  <2>2. life' = life \/ life' = [life EXCEPT ![job.room].status = "history"]
    BY <1>11 DEF Link
  <2>3. LET row == [life[job.room] EXCEPT !.status = "history"]
        IN row.gen = life[job.room].gen /\ row.status = "history" /\ row.step = life[job.room].step
    BY <2>1 DEF LifeRows
  <2>4. Settled
    BY <1>0, <2>1, <2>2, <2>3 DEF Settled, Restated, TypeTables
  <2> QED BY <2>4 DEF RowStep
<1>12. CASE DeliveryDone
  <2>1. ASSUME NEW q \in Rooms
        PROVE  /\ life'[q].gen = life[q].gen /\ life'[q].step = life[q].step
               /\ \/ life'[q].status = life[q].status
                  \/ life[q].status = "history" /\ life'[q].status = "live"
    <3>1. life[q] \in LifeRows
      BY <1>0 DEF TypeTables
    <3>2. LET row == [life[q] EXCEPT !.status = "live"]
          IN row.gen = life[q].gen /\ row.status = "live" /\ row.step = life[q].step
      BY <3>1 DEF LifeRows
    <3>3. \/ life'[q] = life[q]
          \/ life[q].status = "history" /\ life'[q] = [life[q] EXCEPT !.status = "live"]
      BY <1>12 DEF DeliveryDone
    <3> QED BY <3>2, <3>3
  <2>2. UNCHANGED <<mirror, revoked, retired>>
    BY <1>12 DEF DeliveryDone
  <2>3. Settled
    BY <2>1, <2>2 DEF Settled, Restated
  <2> QED BY <2>3 DEF RowStep
<1>13. CASE
         \/ UNCHANGED vars
         \/ ConfigUnreadable \/ Rebind \/ KeepConnection \/ CreateDone \/ SyncDone \/ Put
         \/ Skip \/ Crash \/ Disconnect \/ Reconnect
         \/ \E r \in Rooms : Revoke(r) \/ Sync(r) \/ Copy(r) \/ SetLevel(r)
         \/ \E g \in Generations : Retire(g)
         \/ \E l \in Links : Relink(l)
  BY <1>1, <1>13 DEF vars, ConfigUnreadable, Rebind, KeepConnection, CreateDone, SyncDone,
       Put, Skip, Crash, Disconnect, Reconnect, Revoke, Sync, Copy, SetLevel, Retire, Relink
<1> QED BY StepCases, <1>2, <1>3, <1>4, <1>5, <1>6, <1>7, <1>8, <1>9, <1>10, <1>11, <1>12, <1>13

-----------------------------------------------------------------------------
(* A mirror that is being taken back is never opened again.  What is       *)
(* excluded is one thing only: that the link comes back to the destination *)
(* whose rows the daemon had begun to retire and, because of a crash, not  *)
(* yet wiped.                                                              *)

ComesBack ==
    /\ pc = "config" /\ pc' = "keep"
    /\ \E r \in Mirrored \ Revoking : mirror[r] \in revoked

OwnRows ==
    \A r, q \in Rooms : life[r].gen = life[q].gen /\ life[r].gen # None => r = q

RevokedRows ==
    /\ Retired \subseteq revoked
    /\ \A r \in Rooms : life[r].status = "revoking" => mirror[r] \in revoked
    /\ \A r \in Rooms : life[r].gen \in revoked => mirror[r] # None

NoneOpen ==
    job.up /\ pc # "wipe" =>
        \A r \in Rooms : life[r].gen \in revoked => life[r].status = "revoking"

InHand ==
    /\ \A r \in job.todo : mirror[r] # None => pc = "link" /\ r = job.room
    /\ pc \in {"adopt", "make", "link", "put"} => life[job.room].status # "revoking"

RowInv == LinkInv /\ OwnRows /\ RevokedRows /\ InHand

(* What the invariants say of one row. *)
LEMMA RowFacts ==
  ASSUME RowInv, NEW r \in Rooms
  PROVE  /\ life[r] \in LifeRows /\ mirror[r] \in Generations \cup {None}
         /\ mirror[r] # None => life[r].gen = mirror[r] /\ mirror[r] \in Generations
         /\ life[r].status = "revoking" => /\ mirror[r] # None /\ mirror[r] \in revoked
                                           /\ life[r].gen = mirror[r]
         /\ None \notin revoked /\ None \notin Generations
BY MirrorAssumption
   DEF RowInv, LinkInv, TypeInv, TypeOK, TypeTables, RowsAgree, RevokedRows

LEMMA OwnRowsNext == ASSUME RowInv, [Next]_vars PROVE OwnRows'
<1>0. OwnRows /\ TypeInv
  BY DEF RowInv, LinkInv
<1>1. ASSUME \A q \in Rooms : life'[q].gen \in {life[q].gen, None} PROVE OwnRows'
  BY <1>0, <1>1 DEF OwnRows
<1>2. NoLife.gen = None
  BY DEF NoLife
<1>3. ASSUME NEW r \in Rooms, Allocated(r) PROVE OwnRows'
  BY <1>0, <1>3 DEF Allocated, Fresh, OwnRows
<1>4. CASE \/ \E R \in SUBSET Mirrored : Marked(R)
           \/ Listed \/ Wiped \/ Settled \/ Retiring
           \/ \E r \in Rooms : Advanced(r) \/ Forgot(r) \/ Recorded(r)
  <2>1. ASSUME NEW q \in Rooms PROVE life'[q].gen \in {life[q].gen, None}
    <3>1. ASSUME NEW R \in SUBSET Mirrored, Marked(R) PROVE life'[q].gen = life[q].gen
      BY <3>1 DEF Marked, Restated
    <3>2. ASSUME Listed \/ Settled \/ Retiring PROVE life'[q].gen = life[q].gen
      BY <3>2 DEF Listed, Settled, Retiring, Restated
    <3>3. ASSUME Wiped PROVE life'[q].gen = None
      BY <1>2, <3>3 DEF Wiped
    <3>4. ASSUME NEW r \in Rooms, Advanced(r) \/ Forgot(r) \/ Recorded(r)
          PROVE  life'[q].gen \in {life[q].gen, None}
      BY <1>2, <3>4 DEF Advanced, Forgot, Recorded, Same
    <3> QED BY <1>4, <3>1, <3>2, <3>3, <3>4
  <2> QED BY <1>1, <2>1
<1> QED BY <1>0, <1>3, <1>4, RowSteps DEF RowStep

LEMMA RevokedRowsNext == ASSUME RowInv, [Next]_vars PROVE RevokedRows'
<1>0. RevokedRows /\ OwnRows /\ InHand /\ TypeInv
  BY DEF RowInv, LinkInv
<1>1. NoLife.gen = None /\ NoLife.status = "none"
  BY DEF NoLife
<1>2. ASSUME NEW R \in SUBSET Mirrored, Marked(R) PROVE RevokedRows'
  <2>1. Retired' = Retired /\ Retired' \subseteq revoked'
    BY <1>0, <1>2 DEF Marked, Retired, RevokedRows
  <2>2. ASSUME NEW q \in Rooms, life'[q].status = "revoking" PROVE mirror'[q] \in revoked'
    BY <1>0, <1>2, <2>2 DEF Marked, Restated, RevokedRows
  <2>3. ASSUME NEW q \in Rooms, life'[q].gen \in revoked' PROVE mirror'[q] # None
    <3>1. CASE life[q].gen \in revoked
      BY <1>0, <1>2, <3>1 DEF Marked, Restated, RevokedRows
    <3>2. CASE life[q].gen \notin revoked
      <4>1. PICK r \in R : life[q].gen = mirror[r]
        BY <1>2, <2>3, <3>2 DEF Marked, Restated
      <4>2. r \in Rooms /\ mirror[r] # None /\ life[r].gen = mirror[r]
        BY RowFacts DEF Mirrored
      <4>3. q = r
        BY <1>0, <4>1, <4>2 DEF OwnRows
      <4> QED BY <1>2, <4>2, <4>3 DEF Marked, Restated
    <3> QED BY <3>1, <3>2
  <2> QED BY <2>1, <2>2, <2>3 DEF RevokedRows
<1>3. ASSUME Joined(Mirrored) PROVE Retired' \subseteq revoked' /\ revoked \subseteq revoked'
  BY <1>0, <1>3 DEF Joined, Retired, RevokedRows
<1>4. CASE Listed
  <2>1. ASSUME NEW q \in Rooms, life'[q].gen \in revoked' PROVE mirror'[q] # None
    <3>1. CASE life[q].gen \in revoked
      BY <1>0, <1>4, <3>1 DEF Listed, RevokedRows
    <3>2. CASE life[q].gen \notin revoked
      <4>1. PICK r \in Mirrored : life[q].gen = mirror[r]
        BY <1>4, <2>1, <3>2 DEF Listed, Joined
      <4>2. r \in Rooms /\ mirror[r] # None /\ life[r].gen = mirror[r]
        BY RowFacts DEF Mirrored
      <4>3. q = r
        BY <1>0, <4>1, <4>2 DEF OwnRows
      <4> QED BY <1>4, <4>2, <4>3 DEF Listed
    <3> QED BY <3>1, <3>2
  <2> QED BY <1>0, <1>3, <1>4, <2>1 DEF Listed, RevokedRows
<1>5. CASE Wiped
  <2>1. revoked' \subseteq Generations
    <3>1. \A r \in Mirrored : mirror[r] \in Generations
      BY RowFacts DEF Mirrored
    <3> QED BY <1>0, <1>5, <3>1 DEF Wiped, Joined, TypeInv, TypeOK, TypeTables
  <2>2. None \notin revoked'
    BY <2>1, MirrorAssumption
  <2> QED BY <1>1, <1>3, <1>5, <2>2 DEF Wiped, RevokedRows
<1>6. CASE Settled /\ (pc = "link" => life[job.room].status # "revoking")
  BY <1>0, <1>6 DEF Settled, Restated, RevokedRows, Retired
<1>7. CASE Retiring
  BY <1>0, <1>7 DEF Retiring, RevokedRows
<1>8. ASSUME NEW r \in Rooms, Advanced(r) PROVE RevokedRows'
  <2>1. ASSUME NEW q \in Rooms
        PROVE  /\ life'[q].gen = life[q].gen /\ mirror'[q] = mirror[q]
               /\ life'[q].status = "revoking" => life[q].status = "revoking"
    BY <1>8 DEF Advanced
  <2>2. revoked' = revoked /\ Retired' = Retired
    BY <1>8 DEF Advanced, Retired
  <2> QED BY <1>0, <2>1, <2>2 DEF RevokedRows
<1>9. ASSUME NEW r \in Rooms, Forgot(r) \/ Allocated(r) \/ Recorded(r) PROVE RevokedRows'
  <2>1. revoked' = revoked /\ Retired' = Retired /\ None \notin revoked
    BY <1>9, RowFacts DEF Forgot, Allocated, Recorded, Retired
  <2>2. \A q \in Rooms \ {r} : life'[q] = life[q] /\ mirror'[q] = mirror[q]
    BY <1>9 DEF Forgot, Allocated, Recorded, Same
  <2>3. life'[r].status # "revoking"
    BY <1>1, <1>9 DEF Forgot, Allocated, Recorded
  <2>4. life'[r].gen \in revoked => mirror'[r] # None
    <3>1. CASE Forgot(r)
      BY <1>1, <2>1, <3>1 DEF Forgot
    <3>2. CASE Allocated(r)
      BY <3>2 DEF Allocated, Fresh
    <3>3. CASE Recorded(r)
      BY <3>3, MirrorAssumption DEF Recorded
    <3> QED BY <1>9, <3>1, <3>2, <3>3
  <2> QED BY <1>0, <2>1, <2>2, <2>3, <2>4 DEF RevokedRows
<1>10. pc = "link" => life[job.room].status # "revoking"
  BY <1>0 DEF InHand
<1> QED
  BY <1>0, <1>2, <1>4, <1>5, <1>6, <1>7, <1>8, <1>9, <1>10, RowSteps DEF RowStep

(* A pass comes up only through the configuration, and it leaves a change  *)
(* of destination only with the tables wiped, or not at all.               *)
LEMMA UpSteps ==
  ASSUME LinkInv, [Next]_vars, job'.up, pc' # "wipe"
  PROVE  \/ job.up /\ pc # "wipe"
         \/ ConfigOn /\ pc = "config" /\ pc' = "keep"
         \/ Wipe
<1>0. TypeOK /\ Scheduled /\ job \in Jobs
  BY DEF LinkInv, TypeInv, TypeOK, TypePass
<1>1. CASE ConfigOff \/ ConfigUnreadable \/ Crash
  <2>1. job' = IdleJob
    BY <1>1 DEF ConfigOff, ConfigUnreadable, Crash
  <2> QED BY <2>1, IdleJobTyped
<1>2. CASE ConfigOn
  BY <1>2 DEF ConfigOn
<1>3. ASSUME StageEnds PROVE job'.up = job.up
  BY <1>0, <1>3, IdleJobTyped DEF StageEnds, Jobs
<1>4. CASE RetireStep \/ RetireDone \/ SyncDone \/ Put
  BY <1>3, <1>4 DEF RetireStep, RetireDone, SyncDone, Put
<1>5. CASE CleanStep \/ Forget
  BY <1>0, <1>5 DEF CleanStep, Forget, CleanupEnds, Jobs
<1>6. CASE Adopt \/ Make \/ Link
  BY <1>0, <1>3, <1>6 DEF Adopt, Make, Link, GiveUp, Jobs
<1>7. CASE
         \/ Rebind \/ KeepConnection
         \/ Plan \/ CreateDone \/ Tail \/ DeliveryDone \/ Skip
         \/ \E r \in Rooms : \/ Revoke(r) \/ Decline(r) \/ Allocate(r) \/ Sync(r)
                             \/ Copy(r) \/ Withhold(r) \/ HistorySlice(r)
         \/ \E g \in Generations : Retire(g)
  <2>1. pc # "wipe"
    BY <1>7 DEF Rebind, KeepConnection, Plan, CreateDone, Tail, DeliveryDone, Skip, Idle,
         Revoke, Decline, Allocate, Sync, Copy, Withhold, HistorySlice, Retire
  <2>2. job'.up = job.up
    BY <1>0, <1>7 DEF Rebind, KeepConnection, Plan, CreateDone, Tail, DeliveryDone, Skip,
         Revoke, Decline, Allocate, Sync, Copy, Withhold, HistorySlice, Retire, Jobs
  <2> QED BY <2>1, <2>2
<1>8. CASE
         \/ UNCHANGED vars \/ Disconnect \/ Reconnect
         \/ \E r \in Rooms : SetLevel(r)
         \/ \E l \in Links : Relink(l)
  BY <1>8 DEF vars, Disconnect, Reconnect, SetLevel, Relink
<1> QED BY StepCases, <1>1, <1>2, <1>4, <1>5, <1>6, <1>7, <1>8

LEMMA NoneOpenNext ==
  ASSUME RowInv, NoneOpen, [Next]_vars, [~ComesBack]_vars PROVE NoneOpen'
<1>0. RevokedRows /\ OwnRows /\ InHand /\ TypeInv /\ LinkInv
  BY DEF RowInv, LinkInv
<1>1. SUFFICES ASSUME job'.up, pc' # "wipe", NEW q \in Rooms, life'[q].gen \in revoked'
               PROVE  life'[q].status = "revoking"
  BY DEF NoneOpen
<1>2. CASE Wipe
  <2>1. life'[q].gen = None
    BY <1>2 DEF Wipe, NoLife
  <2>2. \A r \in Mirrored : mirror[r] \in Generations
    BY RowFacts DEF Mirrored
  <2>3. revoked' \subseteq Generations
    BY <1>0, <1>2, <2>2 DEF Wipe, RetireMirrors, ListForCleanup, TypeInv, TypeOK, TypeTables
  <2> QED BY <1>1, <2>1, <2>3, MirrorAssumption
<1>3. CASE ConfigOn /\ pc = "config" /\ pc' = "keep"
  <2>1. UNCHANGED <<life, mirror, revoked>>
    BY <1>3 DEF ConfigOn
  <2>2. mirror[q] # None /\ life[q].gen = mirror[q] /\ mirror[q] \in revoked
    BY <1>0, <1>1, <2>1, RowFacts DEF RevokedRows
  <2>3. ~ComesBack
    BY <1>3 DEF vars
  <2>4. q \in Revoking
    BY <1>3, <2>2, <2>3 DEF ComesBack, Mirrored
  <2> QED BY <2>1, <2>4 DEF Revoking
<1>4. CASE job.up /\ pc # "wipe"
  <2>0. \A r \in Rooms : life[r].gen \in revoked => life[r].status = "revoking"
    BY <1>4 DEF NoneOpen
  <2>1. ASSUME NEW R \in SUBSET Mirrored, Marked(R) PROVE life'[q].status = "revoking"
    <3>1. CASE life[q].gen \in revoked
      BY <2>0, <2>1, <3>1 DEF Marked, Restated
    <3>2. CASE life[q].gen \notin revoked
      <4>1. PICK r \in R : life[q].gen = mirror[r]
        BY <1>1, <2>1, <3>2 DEF Marked, Restated
      <4>2. r \in Rooms /\ mirror[r] # None /\ life[r].gen = mirror[r]
        BY RowFacts DEF Mirrored
      <4>3. q = r
        BY <1>0, <4>1, <4>2 DEF OwnRows
      <4> QED BY <2>1, <4>1, <4>3 DEF Marked
    <3> QED BY <3>1, <3>2
  <2>2. CASE Settled
    <3>1. pc = "link" => life[job.room].status # "revoking"
      BY <1>0 DEF InHand
    <3> QED BY <1>1, <2>0, <2>2, <3>1 DEF Settled, Restated
  <2>3. CASE Retiring
    BY <1>1, <2>0, <2>3 DEF Retiring
  <2>4. ASSUME NEW r \in Rooms, Advanced(r) PROVE life'[q].status = "revoking"
    BY <1>1, <2>0, <2>4 DEF Advanced
  <2>5. ASSUME NEW r \in Rooms, Forgot(r) \/ Allocated(r) PROVE life'[q].status = "revoking"
    <3>1. revoked' = revoked /\ None \notin revoked
      BY <2>5, RowFacts DEF Forgot, Allocated
    <3>2. q # r
      BY <1>1, <2>5, <3>1 DEF Forgot, Allocated, Fresh, NoLife
    <3> QED BY <1>1, <2>0, <2>5, <3>1, <3>2 DEF Forgot, Allocated, Same
  <2>6. CASE pc \in {"adopt", "make"} /\ job.room \in Rooms /\ Recorded(job.room)
    <3>1. life[job.room].status # "revoking" /\ revoked' = revoked
      BY <1>0, <2>6 DEF InHand, Recorded
    <3>2. q # job.room
      BY <1>1, <2>0, <2>6, <3>1 DEF Recorded
    <3> QED BY <1>1, <2>0, <2>6, <3>1, <3>2 DEF Recorded, Same
  <2>7. ~(ConfigOn /\ pc' = "wipe") /\ ~Wipe
    BY <1>1, <1>4 DEF Wipe
  <2> QED
    BY <1>0, <2>1, <2>2, <2>3, <2>4, <2>5, <2>6, <2>7, RowSteps DEF RowStep
<1> QED BY <1>0, <1>1, <1>2, <1>3, <1>4, UpSteps

(* What a step does to the rooms a pass still has to make.                 *)
LEMMA TodoSteps ==
  ASSUME LinkInv, [Next]_vars
  PROVE  \/ Plan /\ job'.todo \cap Mirrored = {} /\ mirror' = mirror
         \/ /\ job'.todo \subseteq job.todo
            /\ pc = "link" => UNCHANGED <<pc, job>> \/ job.room \notin job'.todo
<1>0. job \in Jobs /\ Scheduled /\ TypeTables
  BY DEF LinkInv, TypeInv, TypeOK, TypePass
<1>1. IdleJob.todo = {} /\ \A b : [IdleJob EXCEPT !.up = b].todo = {}
  BY DEF IdleJob
<1>2. ASSUME job' = IdleJob \/ StageEnds PROVE job'.todo = {}
  BY <1>1, <1>2 DEF StageEnds
<1>3. CASE ConfigOff \/ ConfigUnreadable \/ Crash \/ RetireDone \/ SyncDone \/ Put
  BY <1>2, <1>3 DEF ConfigOff, ConfigUnreadable, Crash, RetireDone, SyncDone, Put
<1>4. CASE ConfigOn
  BY <1>1, <1>4 DEF ConfigOn
<1>5. CASE Plan
  <2>1. job' = [job EXCEPT !.todo = Desired \ Mirrored, !.sync = Desired, !.then = "create"]
    BY <1>5 DEF Plan
  <2>2. job'.todo = Desired \ Mirrored
    BY <1>0, <2>1 DEF Jobs
  <2>3. mirror' = mirror
    BY <1>5 DEF Plan, MarkRevoking
  <2> QED BY <1>5, <2>2, <2>3
<1>6. CASE RetireStep
  <2>1. UNCHANGED <<pc, job>> \/ StageEnds
    BY <1>6 DEF RetireStep
  <2> QED BY <1>2, <1>6, <2>1 DEF RetireStep
<1>7. CASE CleanStep \/ Forget
  <2>1. pc = "clean" /\ (UNCHANGED job \/ CleanupEnds)
    BY <1>7 DEF CleanStep, Forget
  <2>2. job'.todo = job.todo
    BY <1>0, <2>1 DEF CleanupEnds, Jobs
  <2> QED BY <2>1, <2>2
<1>8. CASE Adopt \/ Make
  <2>1. pc # "link" /\ (UNCHANGED job \/ GiveUp)
    BY <1>8 DEF Adopt, Make, GiveUp
  <2>2. job'.todo \subseteq job.todo
    BY <1>0, <1>2, <2>1 DEF GiveUp, Jobs
  <2> QED BY <2>1, <2>2
<1>9. CASE Link
  <2>1. job'.todo \subseteq job.todo \ {job.room}
    <3>1. CASE StageEnds
      BY <1>2, <3>1
    <3>2. ASSUME NEW r \in {job.room},
                 job' = [job EXCEPT !.room = None, !.todo = @ \ {r}, !.sync = @ \ {r}]
          PROVE  job'.todo = job.todo \ {job.room}
      BY <1>0, <3>2 DEF Jobs
    <3> QED BY <1>9, <3>1, <3>2 DEF Link, GiveUp
  <2> QED BY <2>1
<1>10. CASE
         \/ Wipe \/ Rebind \/ KeepConnection \/ CreateDone \/ Tail \/ DeliveryDone \/ Skip
         \/ \E r \in Rooms : \/ Revoke(r) \/ Decline(r) \/ Allocate(r) \/ Sync(r)
                             \/ Copy(r) \/ Withhold(r) \/ HistorySlice(r)
         \/ \E g \in Generations : Retire(g)
  <2>1. pc # "link"
    BY <1>10 DEF Wipe, Rebind, KeepConnection, CreateDone, Tail, DeliveryDone, Skip, Idle,
         Revoke, Decline, Allocate, Sync, Copy, Withhold, HistorySlice, Retire
  <2>2. job'.todo \subseteq job.todo
    BY <1>0, <1>10 DEF Wipe, Rebind, KeepConnection, CreateDone, Tail, DeliveryDone, Skip,
         Revoke, Decline, Allocate, Sync, Copy, Withhold, HistorySlice, Retire, Jobs
  <2> QED BY <2>1, <2>2
<1>11. CASE
         \/ UNCHANGED vars \/ Disconnect \/ Reconnect
         \/ \E r \in Rooms : SetLevel(r)
         \/ \E l \in Links : Relink(l)
  BY <1>11 DEF vars, Disconnect, Reconnect, SetLevel, Relink
<1> QED BY StepCases, <1>3, <1>4, <1>5, <1>6, <1>7, <1>8, <1>9, <1>10, <1>11

(* A room gets its mirror row where one is looked up or made for it.       *)
LEMMA MirrorSteps ==
  ASSUME RowInv, [Next]_vars, NEW q \in Rooms, mirror'[q] # None
  PROVE  mirror[q] # None \/ (pc' = "link" /\ job' = job /\ q = job.room)
<1>0. TypeTables /\ LinkInv /\ TypeInv
  BY DEF RowInv, LinkInv, TypeInv, TypeOK
<1>1. CASE mirror' = mirror
  BY <1>1
<1>2. CASE Wipe
  BY <1>2 DEF Wipe
<1>3. CASE Forget
  BY <1>0, <1>3 DEF Forget, TypeTables
<1>4. CASE Adopt \/ Make
  <2>1. \/ UNCHANGED tableVars
        \/ RecordMirror(job.room, life[job.room].gen) /\ pc' = "link" /\ job' = job
    BY <1>4 DEF Adopt, Make
  <2> QED BY <1>0, <2>1 DEF RecordMirror, TypeTables
<1>5. CASE \/ ConfigOff \/ Plan \/ Tail
           \/ \E r \in Rooms : Decline(r) \/ Withhold(r) \/ HistorySlice(r)
  BY <1>0, <1>5, MarkingSteps DEF Marked, Restated
<1>6. CASE
         \/ UNCHANGED vars
         \/ ConfigOn \/ ConfigUnreadable \/ Rebind \/ KeepConnection
         \/ CleanStep \/ RetireStep \/ RetireDone \/ Link \/ CreateDone \/ SyncDone
         \/ Put \/ DeliveryDone \/ Skip \/ Crash \/ Disconnect \/ Reconnect
         \/ \E r \in Rooms : Revoke(r) \/ Allocate(r) \/ Sync(r) \/ Copy(r) \/ SetLevel(r)
         \/ \E g \in Generations : Retire(g)
         \/ \E l \in Links : Relink(l)
  BY <1>1, <1>6
  DEF vars, ConfigOn, ConfigUnreadable, Rebind, KeepConnection, CleanStep, RetireStep,
      RetireDone, Link, CreateDone, SyncDone, Put, DeliveryDone, Skip, Crash, Disconnect,
      Reconnect, Revoke, Allocate, Sync, Copy, SetLevel, Retire, Relink
<1> QED BY StepCases, <1>2, <1>3, <1>4, <1>5, <1>6

LEMMA InHandNext == ASSUME RowInv, [Next]_vars PROVE InHand'
<1>0. /\ InHand /\ LinkInv /\ TypeTables /\ Scheduled /\ Held /\ job \in Jobs
      /\ job.todo \subseteq Rooms
  BY DEF RowInv, LinkInv, TypeInv, TypeOK, TypePass, Jobs
<1>1. ASSUME NEW r \in job'.todo, mirror'[r] # None PROVE pc' = "link" /\ r = job'.room
  <2>1. CASE Plan /\ job'.todo \cap Mirrored = {} /\ mirror' = mirror
    <3>1. job'.todo = Desired \ Mirrored
      BY <1>0, <2>1 DEF Plan, Jobs
    <3> QED BY <1>1, <2>1, <3>1 DEF Mirrored, Desired
  <2>2. CASE /\ job'.todo \subseteq job.todo
             /\ pc = "link" => UNCHANGED <<pc, job>> \/ job.room \notin job'.todo
    <3>1. r \in job.todo /\ r \in Rooms
      BY <1>0, <2>2
    <3>2. CASE mirror[r] # None
      <4>1. pc = "link" /\ r = job.room
        BY <1>0, <3>1, <3>2 DEF InHand
      <4> QED BY <1>1, <2>2, <4>1
    <3> QED BY <1>1, <3>1, <3>2, MirrorSteps
  <2> QED BY <1>0, <2>1, <2>2, TodoSteps
<1>2. ASSUME pc' \in {"adopt", "make", "link", "put"} PROVE life'[job'.room].status # "revoking"
  <2>1. ASSUME NEW r \in Rooms, Allocate(r) PROVE life'[job'.room].status # "revoking"
    <3>1. job'.room = r
      BY <1>0, <2>1 DEF Allocate, Jobs
    <3>2. mirror[r] = None
      BY <1>0, <2>1 DEF Allocate, InHand
    <3>3. life[r].status # "revoking"
      BY <3>2, RowFacts
    <3>4. life' = life \/ life'[r].status = "allocating"
      BY <1>0, <2>1, IntendRows DEF Allocate
    <3> QED BY <3>1, <3>3, <3>4
  <2>2. CASE Adopt \/ Make
    <3>1. /\ job.room \in Rooms /\ life[job.room].gen \in Generations
          /\ life[job.room].status # "revoking" /\ job.then \notin {"adopt", "make", "link", "put"}
      BY <1>0, <2>2 DEF Adopt, Make, Held, InHand, Scheduled
    <3>2. job' = job /\ (life' = life \/ RecordMirror(job.room, life[job.room].gen))
      BY <1>2, <2>2, <3>1 DEF Adopt, Make, GiveUp
    <3> QED BY <1>0, <3>1, <3>2, RecordMirrorRows
  <2>3. ASSUME NEW r \in Rooms, Sync(r) PROVE life'[job'.room].status # "revoking"
    BY <1>0, <1>2, <2>3 DEF Sync, Jobs
  <2>4. ASSUME NEW r \in Rooms, Copy(r) PROVE life'[job'.room].status # "revoking"
    <3>1. job'.room = r
      BY <1>0, <2>4 DEF Copy, Jobs
    <3> QED BY <2>4, <3>1 DEF Copy, MayCopy
  <2>5. CASE UNCHANGED <<pc, job, life>>
    BY <1>0, <1>2, <2>5 DEF InHand
  <2>6. CASE
           \/ UNCHANGED vars \/ Disconnect \/ Reconnect
           \/ \E r \in Rooms : SetLevel(r)
           \/ \E l \in Links : Relink(l)
    BY <2>5, <2>6 DEF vars, Disconnect, Reconnect, SetLevel, Relink
  <2>7. job.then \notin {"adopt", "make", "link", "put"}
    BY <1>0 DEF Scheduled
  <2>8. CASE
           \/ ConfigOff \/ ConfigOn \/ ConfigUnreadable \/ Wipe \/ Rebind \/ KeepConnection
           \/ CleanStep \/ Forget \/ RetireStep \/ RetireDone
           \/ Plan \/ Link \/ CreateDone \/ SyncDone
           \/ Tail \/ Put \/ DeliveryDone \/ Skip \/ Crash
           \/ \E r \in Rooms : Revoke(r) \/ Decline(r) \/ Withhold(r) \/ HistorySlice(r)
           \/ \E g \in Generations : Retire(g)
    BY <1>2, <2>7, <2>8
    DEF ConfigOff, ConfigOn, ConfigUnreadable, Wipe, Rebind, KeepConnection, CleanStep,
        Forget, RetireStep, RetireDone, Plan, Link, CreateDone, SyncDone, Tail, Put,
        DeliveryDone, Skip, Crash, Revoke, Decline, Withhold, HistorySlice, Retire,
        CleanupEnds, AfterRetirement, AfterTail, GiveUp, Idle
  <2> QED BY StepCases, <2>1, <2>2, <2>3, <2>4, <2>6, <2>8
<1> QED BY <1>1, <1>2 DEF InHand

LEMMA RowInit == ASSUME Init PROVE RowInv /\ NoneOpen
<1>1. LinkInv
  BY LinkInit
<1>2. NoLife.gen = None /\ NoLife.status = "none" /\ NotRetired.connection = None
      /\ IdleJob.todo = {}
  BY DEF NoLife, NotRetired, IdleJob
<1>3. Retired = {}
  BY <1>2 DEF Init, Retired
<1>4. OwnRows /\ RevokedRows /\ InHand /\ NoneOpen
  BY <1>2, <1>3 DEF Init, OwnRows, RevokedRows, InHand, NoneOpen
<1> QED BY <1>1, <1>4 DEF RowInv

LEMMA RowNext == ASSUME RowInv, [Next]_vars PROVE RowInv'
BY LinkNext, OwnRowsNext, RevokedRowsNext, InHandNext DEF RowInv

LEMMA RowHolds == Spec => []RowInv
BY RowInit, RowNext, PTL DEF Spec

LEMMA NoneOpenHolds == Spec /\ [][~ComesBack]_vars => []NoneOpen
<1>1. RowInv /\ NoneOpen /\ [Next]_vars /\ [~ComesBack]_vars => NoneOpen'
  BY NoneOpenNext
<1> QED BY <1>1, RowInit, RowHolds, PTL DEF Spec

(* The room that a writing step opens further is not being taken back.     *)
LEMMA OpensKnown ==
  ASSUME RowInv, NoneOpen
  PROVE  /\ pc \in {"adopt", "make"} => life[job.room].gen \notin revoked
         /\ pc = "link" => mirror[job.room] \notin revoked
         /\ pc = "put" => job.gen \notin revoked
<1>0. Held /\ Scheduled /\ InHand
  BY DEF RowInv, LinkInv, TypeInv
<1>1. ASSUME pc \in {"adopt", "make", "link", "put"}
      PROVE  /\ job.room \in Rooms /\ life[job.room].gen \notin revoked
             /\ mirror[job.room] # None => life[job.room].gen = mirror[job.room]
  <2>1. job.room \in Rooms /\ job.up /\ life[job.room].status # "revoking"
    BY <1>0, <1>1 DEF Held, Scheduled, InHand, Working
  <2> QED BY <1>1, <2>1, RowFacts DEF NoneOpen
<1> QED BY <1>0, <1>1, MirrorAssumption DEF Held

LEMMA RevokedStay ==
  ASSUME RowInv, NoneOpen, [Next]_vars, NEW g \in revoked PROVE ~Widens(g)
<1>1. g \in Generations
  BY DEF RowInv, LinkInv, TypeInv, TypeOK, TypeTables
<1>2. ASSUME Widens(g)
      PROVE  \/ Make /\ g = life[job.room].gen
             \/ Link /\ g = mirror[job.room]
             \/ Put /\ g = job.gen
  BY <1>1, <1>2, WideningStep DEF RowInv
<1> QED BY <1>2, OpensKnown DEF Make, Link, Put

(* From the moment the daemon marks a mirror as revoking, or retires it,   *)
(* nothing is copied into it and nobody gains access to it, unless the     *)
(* link comes back to a destination that a crash left half retired.        *)
THEOREM NeverRevivedUnlessItComesBack == Spec /\ [][~ComesBack]_vars => NeverRevived
<1>1. RowInv /\ NoneOpen /\ [Next]_vars => [\A g \in revoked : ~Widens(g)]_vars
  BY RevokedStay
<1> QED BY <1>1, RowHolds, NoneOpenHolds, PTL DEF Spec, NeverRevived

-----------------------------------------------------------------------------
(* The order in which a room is taken back.  The count of a row, or of an  *)
(* entry of the cleanup list, never runs ahead of what the master did.     *)

Taken(g, k) == /\ k > 0 => ~master[g].child
               /\ k > 1 => ~master[g].manager
               /\ k > 2 => ~master[g].owner

StepsTaken ==
    /\ pc = "retire" => job.gen \in Retired
    /\ \A r \in Rooms : life[r].step > 0 => life[r].status = "revoking"
    /\ \A r \in Rooms : mirror[r] # None => Taken(mirror[r], life[r].step)
    /\ \A g \in Retired : Taken(g, retired[g].step)
    /\ \A g \in Generations : Exists(g) /\ g \notin revoked => master[g].owner
    /\ OwnerLeavesLast

(* What one request of a cleanup does to its room, and to no other.        *)
LEMMA RequestTakes ==
  ASSUME TypeMaster, NEW c, NEW g \in Generations, NEW k \in 0..2, Request(c, g, k)
  PROVE  /\ \A h \in Generations \ {g} : master'[h] = master[h]
         /\ master'[g].owner => master[g].owner
         /\ master[g].owner /\ ~master'[g].owner => k = 2
         /\ Accepted(c, g, k) => /\ k = 0 => ~master'[g].child
                                 /\ k = 1 => ~master'[g].manager
                                 /\ k = 2 => ~master'[g].owner
<1>1. Applied(g, k) \/ UNCHANGED master
  BY DEF Request, Accepted, Unanswered, Refused
<1>2. CASE Applied(g, k)
  <2>1. /\ \A h \in Generations \ {g} : master'[h] = master[h]
        /\ master'[g] = TakeBack(master[g], k)
        /\ master[g] \in MasterRooms
    BY <1>2 DEF Applied, TypeMaster
  <2>2. k = 0 => master'[g].owner = master[g].owner /\ master'[g].child = FALSE
    BY <2>1 DEF TakeBack, MasterRooms
  <2>3. k = 1 => master'[g].owner = master[g].owner /\ master'[g].manager = FALSE
    BY <2>1 DEF TakeBack, MasterRooms
  <2>4. k = 2 => master'[g].owner = FALSE
    BY <2>1 DEF TakeBack, MasterRooms
  <2>5. k = 0 \/ k = 1 \/ k = 2
    OBVIOUS
  <2> QED BY <2>1, <2>2, <2>3, <2>4, <2>5
<1>3. CASE UNCHANGED master /\ ~Applied(g, k)
  BY <1>3 DEF Accepted
<1> QED BY <1>1, <1>2, <1>3

LEMMA MasterSteps ==
  ASSUME [Next]_vars
  PROVE  UNCHANGED master \/ CleanStep \/ RetireStep \/ Make \/ Link \/ Put
BY StepCases
   DEF vars, ConfigOff, ConfigOn, ConfigUnreadable, Wipe, Rebind, KeepConnection, Forget,
       RetireDone, Plan, Adopt, CreateDone, SyncDone, Tail, DeliveryDone, Skip, Crash,
       Disconnect, Reconnect, Revoke, Decline, Allocate, Sync, Copy, Withhold,
       HistorySlice, SetLevel, Retire, Relink

LEMMA RetiredInHand ==
  ASSUME RowInv, StepsTaken, [Next]_vars, pc' = "retire" PROVE job'.gen \in Retired'
<1>0. job \in Jobs /\ TypeRetired /\ Held /\ Scheduled
  BY DEF RowInv, LinkInv, TypeInv, TypeOK, TypePass
<1>1. ASSUME NEW g \in Generations, Retire(g) PROVE job'.gen \in Retired'
  <2>1. job'.gen = g /\ Retired' = Retired
    BY <1>0, <1>1 DEF Retire, Jobs, Retired
  <2> QED BY <1>1, <2>1 DEF Retire
<1>2. CASE RetireStep
  <2>1. /\ job' = job /\ job.gen \in Retired /\ job.gen \in Generations
        /\ retired' = [retired EXCEPT ![job.gen].step = retired[job.gen].step + 1]
    BY <1>0, <1>2 DEF RetireStep, StepsTaken, AfterRetirement, Held
  <2>2. retired[job.gen] \in RetiredRows /\ DOMAIN retired = Generations
    BY <1>0, <2>1 DEF TypeRetired
  <2>3. [retired[job.gen] EXCEPT !.step = retired[job.gen].step + 1].connection
          = retired[job.gen].connection
    BY <2>2 DEF RetiredRows
  <2> QED BY <2>1, <2>2, <2>3 DEF Retired
<1>3. CASE UNCHANGED <<pc, job, retired>>
  BY <1>3 DEF StepsTaken, Retired
<1>4. job.then # "retire"
  BY <1>0 DEF Scheduled
<1> QED
  BY StepCases, <1>1, <1>2, <1>3, <1>4
  DEF vars, ConfigOff, ConfigOn, ConfigUnreadable, Wipe, Rebind, KeepConnection, CleanStep,
      Forget, RetireDone, Plan, Adopt, Make, Link, CreateDone, SyncDone, Tail, Put,
      DeliveryDone, Skip, Crash, Disconnect, Reconnect, Revoke, Decline, Allocate, Sync,
      Copy, Withhold, HistorySlice, SetLevel, Relink,
      CleanupEnds, AfterRetirement, AfterTail, GiveUp, Idle

LEMMA RowCounts ==
  ASSUME RowInv, StepsTaken, [Next]_vars, NEW q \in Rooms, life'[q].step > 0
  PROVE  life'[q].status = "revoking"
<1>0. InHand /\ \A r \in Rooms : life[r].step > 0 => life[r].status = "revoking"
  BY DEF RowInv, StepsTaken
<1>1. NoLife.step = 0
  BY DEF NoLife
<1>2. RowStep
  BY RowSteps DEF RowInv, LinkInv
<1>3. ASSUME NEW R \in SUBSET Mirrored, Marked(R) PROVE life'[q].status = "revoking"
  BY <1>0, <1>3 DEF Marked, Restated
<1>4. CASE Listed \/ Retiring
  BY <1>0, <1>4 DEF Listed, Retiring
<1>5. CASE Wiped
  BY <1>1, <1>5 DEF Wiped
<1>6. CASE Settled
  <2>1. pc = "link" => life[job.room].status # "revoking"
    BY <1>0 DEF InHand
  <2> QED BY <1>0, <1>6, <2>1 DEF Settled, Restated
<1>7. ASSUME NEW r \in Rooms, Advanced(r) PROVE life'[q].status = "revoking"
  BY <1>0, <1>7 DEF Advanced
<1>8. ASSUME NEW r \in Rooms, Forgot(r) \/ Allocated(r) PROVE life'[q].status = "revoking"
  <2>1. q # r
    BY <1>1, <1>8 DEF Forgot, Allocated
  <2> QED BY <1>0, <1>8, <2>1 DEF Forgot, Allocated, Same
<1>9. CASE pc \in {"adopt", "make"} /\ job.room \in Rooms /\ Recorded(job.room)
  <2>1. life[job.room].status # "revoking"
    BY <1>0, <1>9 DEF InHand
  <2>2. q # job.room
    BY <1>0, <1>9, <2>1 DEF Recorded
  <2> QED BY <1>0, <1>9, <2>2 DEF Recorded, Same
<1> QED BY <1>2, <1>3, <1>4, <1>5, <1>6, <1>7, <1>8, <1>9 DEF RowStep

(* Where the counts come from: another cleanup step, the row as it was, or *)
(* a row or an entry that is new.                                          *)
LEMMA RowCountsStay ==
  ASSUME RowInv, StepsTaken, [Next]_vars, ~CleanStep, NEW q \in Rooms, mirror'[q] # None
  PROVE  \/ mirror'[q] = mirror[q] /\ life'[q].step = life[q].step
         \/ mirror'[q] \in Generations /\ life'[q].step \notin {1, 2, 3}
<1>0. /\ InHand /\ life[q] \in LifeRows
      /\ \A r \in Rooms : life[r].step > 0 => life[r].status = "revoking"
  BY RowFacts DEF RowInv, StepsTaken
<1>1. RowStep
  BY RowSteps DEF RowInv, LinkInv
<1>2. ASSUME NEW R \in SUBSET Mirrored, Marked(R)
      PROVE  mirror'[q] = mirror[q] /\ life'[q].step = life[q].step
  BY <1>2 DEF Marked, Restated
<1>3. ASSUME Listed \/ Retiring \/ Settled
      PROVE  mirror'[q] = mirror[q] /\ life'[q].step = life[q].step
  BY <1>3 DEF Listed, Retiring, Settled, Restated
<1>4. ~Wiped
  BY DEF Wiped
<1>5. ASSUME NEW r \in Rooms, Forgot(r)
      PROVE  mirror'[q] = mirror[q] /\ life'[q].step = life[q].step
  BY <1>5 DEF Forgot, Same
<1>6. ASSUME NEW r \in Rooms, Allocated(r)
      PROVE  mirror'[q] = mirror[q] /\ life'[q].step = life[q].step
  <2>1. q # r
    BY <1>6, RowFacts DEF Allocated
  <2> QED BY <1>6, <2>1 DEF Allocated
<1>7. CASE pc \in {"adopt", "make"} /\ job.room \in Rooms /\ Recorded(job.room)
  <2>1. CASE q # job.room
    BY <1>7, <2>1 DEF Recorded, Same
  <2>2. CASE q = job.room
    <3>1. life[q].status # "revoking" /\ life[q].step \in 0..3
      BY <1>0, <1>7, <2>2 DEF InHand, LifeRows
    <3>2. life[q].step = 0
      BY <1>0, <3>1
    <3> QED BY <1>7, <2>2, <3>2 DEF Recorded
  <2> QED BY <2>1, <2>2
<1> QED BY <1>1, <1>2, <1>3, <1>4, <1>5, <1>6, <1>7 DEF RowStep

LEMMA RetiredCountsStay ==
  ASSUME RowInv, [Next]_vars, ~RetireStep, NEW g \in Retired'
  PROVE  (g \in Retired /\ retired'[g].step = retired[g].step) \/ retired'[g].step = 0
<1>0. g \in Generations
  BY DEF Retired
<1>1. RowStep
  BY RowSteps DEF RowInv, LinkInv
<1>2. CASE UNCHANGED retired
  BY <1>2 DEF Retired
<1>3. CASE Listed \/ Wiped
  BY <1>0, <1>3 DEF Listed, Wiped, Joined, Retired
<1>4. CASE Retiring
  BY <1>0, <1>4 DEF Retiring
<1>5. ASSUME ~(Listed \/ Wiped \/ Retiring) PROVE UNCHANGED retired
  BY <1>1, <1>5 DEF RowStep, Marked, Advanced, Forgot, Allocated, Recorded, Settled
<1> QED BY <1>2, <1>3, <1>4, <1>5

(* Access is only taken away, but in a room of G, which is not being taken *)
(* back and stays in its owner's hands.                                    *)
Opens(G) ==
    \A g \in Generations :
        IF g \in G THEN g \notin revoked /\ (Exists(g)' => master'[g].owner)
        ELSE /\ master'[g].link = master[g].link
             /\ master'[g].child => master[g].child
             /\ master'[g].manager => master[g].manager
             /\ master'[g].owner = master[g].owner

LEMMA StepsByOpening ==
  ASSUME RowInv, StepsTaken, [Next]_vars, ~CleanStep, ~RetireStep, NEW G, Opens(G),
         \A q \in Rooms : life[q].gen \in G => life[q].status # "revoking"
  PROVE  /\ \A r \in Rooms : mirror'[r] # None => Taken(mirror[r], life[r].step)'
         /\ \A g \in Retired' : Taken(g, retired[g].step)'
         /\ \A g \in Generations : Exists(g)' /\ g \notin revoked' => master'[g].owner
         /\ OwnerLeavesLast'
<1>0. /\ Retired \subseteq revoked /\ revoked \subseteq revoked'
      /\ \A r \in Rooms : life[r].step > 0 => life[r].status = "revoking"
      /\ \A r \in Rooms : mirror[r] # None => Taken(mirror[r], life[r].step)
      /\ \A g \in Retired : Taken(g, retired[g].step)
      /\ \A g \in Generations : Exists(g) /\ g \notin revoked => master[g].owner
      /\ OwnerLeavesLast
  <2>1. RowStep
    BY RowSteps DEF RowInv, LinkInv
  <2>2. revoked \subseteq revoked'
    BY <2>1 DEF RowStep, Marked, Listed, Wiped, Joined, Advanced, Forgot, Retiring, Allocated,
         Recorded, Settled
  <2> QED BY <2>2 DEF RowInv, RevokedRows, StepsTaken
<1>1. ASSUME NEW r \in Rooms, mirror'[r] # None PROVE Taken(mirror[r], life[r].step)'
  <2>1. CASE mirror'[r] = mirror[r] /\ life'[r].step = life[r].step
    <3>1. mirror[r] \in Generations /\ life[r].gen = mirror[r] /\ life[r].step \in 0..3
      BY <1>1, <2>1, RowFacts DEF LifeRows
    <3>2. mirror[r] \in G => life[r].step = 0
      BY <1>0, <3>1
    <3> QED BY <1>0, <1>1, <2>1, <3>1, <3>2 DEF Taken, Opens
  <2>2. CASE life'[r].step \notin {1, 2, 3}
    <3>1. life'[r].step \in 0..3
      BY LinkNext DEF RowInv, LinkInv, TypeInv, TypeOK, TypeTables, LifeRows
    <3>2. life'[r].step = 0
      BY <2>2, <3>1
    <3> QED BY <3>2 DEF Taken
  <2> QED BY <1>1, <2>1, <2>2, RowCountsStay
<1>2. ASSUME NEW g \in Retired' PROVE Taken(g, retired[g].step)'
  <2>1. CASE g \in Retired /\ retired'[g].step = retired[g].step
    <3>1. g \in Generations /\ g \notin G
      BY <1>0, <2>1 DEF Opens, Retired
    <3> QED BY <1>0, <2>1, <3>1 DEF Taken, Opens
  <2>2. CASE retired'[g].step = 0
    BY <2>2 DEF Taken
  <2> QED BY <2>1, <2>2, RetiredCountsStay
<1>3. ASSUME NEW g \in Generations, Exists(g)'
      PROVE  /\ g \notin revoked' => master'[g].owner
             /\ ~master'[g].owner => ~master'[g].child /\ ~master'[g].manager
  <2>1. CASE g \in G
    BY <1>3, <2>1 DEF Opens
  <2>2. CASE g \notin G
    BY <1>0, <1>3, <2>2 DEF Opens, OwnerLeavesLast, Exists
  <2> QED BY <2>1, <2>2
<1> QED BY <1>1, <1>2, <1>3 DEF OwnerLeavesLast

LEMMA StepsByTaking ==
  ASSUME RowInv, StepsTaken, [Next]_vars, CleanStep \/ RetireStep
  PROVE  /\ \A r \in Rooms : mirror'[r] # None => Taken(mirror[r], life[r].step)'
         /\ \A g \in Retired' : Taken(g, retired[g].step)'
         /\ \A g \in Generations : Exists(g)' /\ g \notin revoked' => master'[g].owner
         /\ OwnerLeavesLast'
<1>0. /\ TypeTables /\ TypeMaster /\ TypeRetired /\ Held /\ RevokedRows /\ OwnRows
      /\ \A r \in Rooms : mirror[r] # None => Taken(mirror[r], life[r].step)
      /\ \A g \in Retired : Taken(g, retired[g].step)
      /\ \A g \in Generations : Exists(g) /\ g \notin revoked => master[g].owner
      /\ OwnerLeavesLast
  BY DEF RowInv, LinkInv, TypeInv, TypeOK, StepsTaken
<1>1. ASSUME NEW c, NEW g \in revoked, NEW k \in 0..2, Request(c, g, k), Taken(g, k),
             UNCHANGED <<mirror, revoked>>,
             \A r \in Rooms : \/ life'[r].step = life[r].step
                              \/ mirror[r] = g /\ Accepted(c, g, k) /\ life'[r].step = k + 1,
             \A h \in Retired' : /\ h \in Retired
                                 /\ \/ retired'[h].step = retired[h].step
                                    \/ h = g /\ Accepted(c, g, k) /\ retired'[h].step = k + 1
      PROVE  /\ \A r \in Rooms : mirror'[r] # None => Taken(mirror[r], life[r].step)'
             /\ \A h \in Retired' : Taken(h, retired[h].step)'
             /\ \A h \in Generations : Exists(h)' /\ h \notin revoked' => master'[h].owner
             /\ OwnerLeavesLast'
  <2>0. g \in Generations
    BY <1>0, <1>1 DEF TypeTables
  <2>1. \A h \in Generations : /\ master'[h].link = master[h].link
                               /\ master'[h].child => master[h].child
                               /\ master'[h].manager => master[h].manager
    BY <1>0, <1>1, RequestNarrows
  <2>2. /\ \A h \in Generations \ {g} : master'[h] = master[h]
        /\ master'[g].owner => master[g].owner
        /\ master[g].owner /\ ~master'[g].owner => k = 2
        /\ Accepted(c, g, k) => /\ k = 0 => ~master'[g].child
                                /\ k = 1 => ~master'[g].manager
                                /\ k = 2 => ~master'[g].owner
    BY <1>0, <1>1, <2>0, RequestTakes
  <2>3. Accepted(c, g, k) => Taken(g, k + 1)'
    <3>1. k = 0 \/ k = 1 \/ k = 2
      BY <1>1
    <3> QED BY <1>1, <2>0, <2>1, <2>2, <3>1 DEF Taken
  <2>4. ASSUME NEW h \in Generations, NEW n \in 0..3, Taken(h, n) PROVE Taken(h, n)'
    BY <2>1, <2>2, <2>4 DEF Taken
  <2>5. ASSUME NEW r \in Rooms, mirror'[r] # None PROVE Taken(mirror[r], life[r].step)'
    <3>1. mirror[r] \in Generations /\ life[r].step \in 0..3 /\ mirror'[r] = mirror[r]
      BY <1>0, <1>1, <2>5 DEF TypeTables, LifeRows
    <3>2. CASE life'[r].step = life[r].step
      <4>1. Taken(mirror[r], life[r].step)
        BY <1>0, <2>5, <3>1
      <4> QED BY <2>4, <3>1, <3>2, <4>1 DEF Taken
    <3>3. CASE mirror[r] = g /\ Accepted(c, g, k) /\ life'[r].step = k + 1
      BY <2>3, <3>1, <3>3 DEF Taken
    <3> QED BY <1>1, <3>2, <3>3
  <2>6. ASSUME NEW h \in Retired' PROVE Taken(h, retired[h].step)'
    <3>1. h \in Generations /\ h \in Retired /\ retired[h].step \in 0..3
      BY <1>0, <1>1, <2>6 DEF Retired, TypeRetired, RetiredRows
    <3>2. CASE retired'[h].step = retired[h].step
      <4>1. Taken(h, retired[h].step)
        BY <1>0, <3>1
      <4> QED BY <2>4, <3>1, <3>2, <4>1 DEF Taken
    <3>3. CASE h = g /\ Accepted(c, g, k) /\ retired'[h].step = k + 1
      BY <2>3, <3>3 DEF Taken
    <3> QED BY <1>1, <2>6, <3>2, <3>3
  <2>7. ASSUME NEW h \in Generations, Exists(h)', h \notin revoked' PROVE master'[h].owner
    <3>1. h # g /\ master'[h] = master[h]
      BY <1>1, <2>2, <2>7
    <3> QED BY <1>0, <1>1, <2>7, <3>1 DEF Exists
  <2>8. ASSUME NEW h \in Generations, Exists(h)', ~master'[h].owner
        PROVE  ~master'[h].child /\ ~master'[h].manager
    <3>1. Exists(h)
      BY <2>1, <2>8 DEF Exists
    <3>2. CASE ~master[h].owner
      BY <1>0, <2>1, <3>1, <3>2 DEF OwnerLeavesLast
    <3>3. CASE master[h].owner
      <4>1. h = g /\ k = 2
        BY <2>2, <2>8, <3>3
      <4> QED BY <1>1, <2>1, <4>1 DEF Taken
    <3> QED BY <3>2, <3>3
  <2> QED BY <2>5, <2>6, <2>7, <2>8 DEF OwnerLeavesLast
<1>2. CASE CleanStep
  <2>1. /\ job.room \in Rooms /\ life[job.room] \in LifeRows
        /\ life[job.room].status = "revoking"
    BY <1>0, <1>2 DEF CleanStep, Held, TypeTables
  <2>2. /\ life[job.room].step \in 0..2 /\ mirror[job.room] \in revoked
        /\ mirror[job.room] # None
    BY <1>2, <2>1, RowFacts DEF CleanStep, LifeRows
  <2>3. Request(cfg, mirror[job.room], life[job.room].step)
    BY <1>2 DEF CleanStep, Request
  <2>4. UNCHANGED <<mirror, revoked, retired>>
    BY <1>2 DEF CleanStep
  <2>5. ASSUME NEW r \in Rooms
        PROVE  \/ life'[r].step = life[r].step
               \/ /\ mirror[r] = mirror[job.room]
                  /\ Accepted(cfg, mirror[job.room], life[job.room].step)
                  /\ life'[r].step = life[job.room].step + 1
    <3>1. CASE life' = life
      BY <3>1
    <3>2. CASE life' = [life EXCEPT ![job.room].step = life[job.room].step + 1]
               /\ Accepted(cfg, mirror[job.room], life[job.room].step)
      <4>1. [life[job.room] EXCEPT !.step = life[job.room].step + 1].step
              = life[job.room].step + 1
        BY <2>1 DEF LifeRows
      <4>2. life'[r] = IF r = job.room
                       THEN [life[job.room] EXCEPT !.step = life[job.room].step + 1]
                       ELSE life[r]
        BY <1>0, <2>1, <3>2 DEF TypeTables
      <4> QED BY <3>2, <4>1, <4>2
    <3> QED BY <1>2, <3>1, <3>2 DEF CleanStep
  <2>6. Retired' = Retired /\ retired' = retired
    BY <2>4 DEF Retired
  <2>7. Taken(mirror[job.room], life[job.room].step)
    BY <1>0, <2>1, <2>2
  <2> QED BY <1>1, <2>2, <2>3, <2>4, <2>5, <2>6, <2>7
<1>3. CASE RetireStep
  <2>1. /\ job.gen \in Retired /\ job.gen \in Generations
        /\ retired[job.gen] \in RetiredRows
    BY <1>0, <1>3 DEF RetireStep, Held, TypeRetired, StepsTaken
  <2>2. retired[job.gen].step \in 0..2 /\ job.gen \in revoked
    BY <1>0, <1>3, <2>1 DEF RetireStep, RetiredRows, RevokedRows
  <2>3. Request(retired[job.gen].connection, job.gen, retired[job.gen].step)
    BY <1>3 DEF RetireStep, Request
  <2>4. UNCHANGED <<life, mirror, revoked>>
    BY <1>3 DEF RetireStep
  <2>5. ASSUME NEW h \in Retired'
        PROVE  /\ h \in Retired
               /\ \/ retired'[h].step = retired[h].step
                  \/ /\ h = job.gen
                     /\ Accepted(retired[job.gen].connection, job.gen, retired[job.gen].step)
                     /\ retired'[h].step = retired[job.gen].step + 1
    <3>1. CASE retired' = retired
      BY <3>1 DEF Retired
    <3>2. CASE retired' = [retired EXCEPT ![job.gen].step = retired[job.gen].step + 1]
               /\ Accepted(retired[job.gen].connection, job.gen, retired[job.gen].step)
      <4>1. [retired[job.gen] EXCEPT !.step = retired[job.gen].step + 1].step
              = retired[job.gen].step + 1
        BY <2>1 DEF RetiredRows
      <4>2. h \in Generations
        BY DEF Retired
      <4>3. retired'[h] = IF h = job.gen
                          THEN [retired[job.gen] EXCEPT !.step = retired[job.gen].step + 1]
                          ELSE retired[h]
        BY <1>0, <2>1, <3>2, <4>2 DEF TypeRetired
      <4>4. h \in Retired
        BY <2>1, <4>2, <4>3 DEF Retired
      <4> QED BY <3>2, <4>1, <4>3, <4>4
    <3> QED BY <1>3, <3>1, <3>2 DEF RetireStep
  <2>6. Taken(job.gen, retired[job.gen].step)
    BY <1>0, <2>1
  <2> QED BY <1>1, <2>2, <2>3, <2>4, <2>5, <2>6
<1> QED BY <1>2, <1>3

LEMMA StepsNext ==
  ASSUME RowInv, NoneOpen, StepsTaken, [Next]_vars PROVE StepsTaken'
<1>0. /\ TypeMaster /\ TypeTables /\ Held /\ OwnRows /\ InHand
      /\ \A g \in Generations : Exists(g) /\ g \notin revoked => master[g].owner
  BY DEF RowInv, LinkInv, TypeInv, TypeOK, StepsTaken
<1>1. /\ pc' = "retire" => job'.gen \in Retired'
      /\ \A r \in Rooms : life'[r].step > 0 => life'[r].status = "revoking"
  BY RetiredInHand, RowCounts
<1>2. CASE CleanStep \/ RetireStep
  BY <1>1, <1>2, StepsByTaking DEF StepsTaken
<1>3. ASSUME ~CleanStep, ~RetireStep, NEW G, Opens(G),
             \A q \in Rooms : life[q].gen \in G => life[q].status # "revoking"
      PROVE  StepsTaken'
  BY <1>1, <1>3, StepsByOpening DEF StepsTaken
<1>4. CASE ~CleanStep /\ ~RetireStep /\ (UNCHANGED master \/ Put)
  <2>1. Opens({})
    <3>1. CASE UNCHANGED master
      BY <3>1 DEF Opens
    <3>2. CASE Put
      <4>1. master' \in {master, [master EXCEPT ![job.gen].copied = TRUE]}
        BY <3>2 DEF Put
      <4> QED BY <1>0, <4>1 DEF Opens, TypeMaster, MasterRooms
    <3> QED BY <1>4, <3>1, <3>2
  <2> QED BY <1>3, <1>4, <2>1
<1>5. CASE ~CleanStep /\ ~RetireStep /\ Make
  <2>1. /\ job.room \in Rooms /\ life[job.room].gen \in Generations
        /\ life[job.room].gen \notin revoked /\ life[job.room].status # "revoking"
    BY <1>0, <1>5, OpensKnown DEF Make, Held, InHand
  <2>2. master' \in {master, [master EXCEPT ![life[job.room].gen] = NewRoom(job.room)]}
    BY <1>5 DEF Make
  <2>3. NewRoom(job.room).owner = TRUE
    BY DEF NewRoom
  <2>4. Opens({life[job.room].gen})
    <3>1. ASSUME NEW g \in Generations \ {life[job.room].gen} PROVE master'[g] = master[g]
      BY <1>0, <2>1, <2>2 DEF TypeMaster
    <3>2. master' = master \/ master'[life[job.room].gen].owner
      BY <1>0, <2>1, <2>2, <2>3 DEF TypeMaster
    <3>3. master' = master => Opens({life[job.room].gen})
      BY <1>0, <2>1 DEF Opens, Exists
    <3>4. master'[life[job.room].gen].owner => Opens({life[job.room].gen})
      BY <2>1, <3>1 DEF Opens
    <3> QED BY <3>2, <3>3, <3>4
  <2>5. \A q \in Rooms : life[q].gen \in {life[job.room].gen} => life[q].status # "revoking"
    BY <1>0, <2>1, MirrorAssumption DEF OwnRows
  <2> QED BY <1>3, <1>5, <2>4, <2>5
<1>6. CASE ~CleanStep /\ ~RetireStep /\ Link
  <2>1. /\ job.room \in Rooms /\ mirror[job.room] \in Generations
        /\ mirror[job.room] \notin revoked /\ life[job.room].status # "revoking"
    BY <1>0, <1>6, OpensKnown DEF Link, Held, InHand
  <2>2. life[job.room].gen = mirror[job.room]
    BY <2>1, RowFacts, MirrorAssumption
  <2>3. master' \in {master, [master EXCEPT ![mirror[job.room]].child = TRUE]}
    BY <1>6 DEF Link
  <2>4. Opens({mirror[job.room]})
    <3>1. ASSUME NEW g \in Generations \ {mirror[job.room]} PROVE master'[g] = master[g]
      BY <1>0, <2>1, <2>3 DEF TypeMaster
    <3>2. /\ master'[mirror[job.room]].link = master[mirror[job.room]].link
          /\ master'[mirror[job.room]].owner = master[mirror[job.room]].owner
      BY <1>0, <2>1, <2>3 DEF TypeMaster, MasterRooms
    <3> QED BY <1>0, <2>1, <3>1, <3>2 DEF Opens, Exists
  <2>5. \A q \in Rooms : life[q].gen \in {mirror[job.room]} => life[q].status # "revoking"
    BY <1>0, <2>1, <2>2, MirrorAssumption DEF OwnRows
  <2> QED BY <1>3, <1>6, <2>4, <2>5
<1> QED BY <1>2, <1>4, <1>5, <1>6, MasterSteps

LEMMA StepsInit == ASSUME Init PROVE StepsTaken
<1>1. NoLife.step = 0 /\ NotRetired.connection = None /\ NoRoom.link = None
  BY DEF NoLife, NotRetired, NoRoom
<1>2. Retired = {} /\ \A g \in Generations : ~Exists(g)
  BY <1>1 DEF Init, Retired, Exists
<1> QED BY <1>1, <1>2 DEF Init, StepsTaken, OwnerLeavesLast

LEMMA StepsHold == Spec /\ [][~ComesBack]_vars => []StepsTaken
<1>1. RowInv /\ NoneOpen /\ StepsTaken /\ [Next]_vars => StepsTaken'
  BY StepsNext
<1> QED BY <1>1, StepsInit, RowHolds, NoneOpenHolds, PTL DEF Spec

(* The owner is the last to leave a room, through refusals, lost answers,  *)
(* restarts and two cleanups at work, unless the link comes back to a      *)
(* destination that a crash left half retired.                             *)
THEOREM OwnerLastUnlessItComesBack == Spec /\ [][~ComesBack]_vars => []OwnerLeavesLast
<1>1. StepsTaken => OwnerLeavesLast
  BY DEF StepsTaken
<1> QED BY <1>1, StepsHold, PTL

-----------------------------------------------------------------------------
(* No room is forgotten.  Excluded is, besides the return, one more crash: *)
(* a room whose making was never answered has no mirror row, and another   *)
(* destination then wipes the intent that was its only trace.              *)

Stranded ==
    /\ pc = "wipe" /\ pc' = "rebind"
    /\ \E r \in Rooms : mirror[r] = None /\ life[r].gen # None /\ Exists(life[r].gen)

(* Before the first mirror row is written a connection has been kept for   *)
(* its cleanup.                                                            *)
CleanupKept ==
    /\ job.up /\ pc \notin {"wipe", "rebind", "keep"} => cleanup # None
    /\ Mirrored # {} => cleanup # None

LEMMA KeepingSteps ==
  ASSUME LinkInv, [Next]_vars, job'.up, pc' \notin {"wipe", "rebind", "keep"}
  PROVE  KeepConnection \/ (job.up /\ pc \notin {"wipe", "rebind", "keep"})
<1>0. TypeOK /\ Scheduled /\ job \in Jobs
  BY DEF LinkInv, TypeInv, TypeOK, TypePass
<1>1. job.up /\ pc # "wipe"
  BY UpSteps DEF Wipe
<1>2. CASE pc \in {"rebind", "keep"}
  <2>1. ~Crash
    BY IdleJobTyped DEF Crash
  <2> QED
    BY <1>2, <2>1, StepCases
    DEF vars, ConfigOff, ConfigOn, ConfigUnreadable, Wipe, Rebind, KeepConnection, CleanStep,
        Forget, RetireStep, RetireDone, Plan, Adopt, Make, Link, CreateDone, SyncDone, Tail,
        Put, DeliveryDone, Skip, Idle, Disconnect, Reconnect, Revoke, Decline, Allocate, Sync,
        Copy, Withhold, HistorySlice, SetLevel, Retire, Relink
<1> QED BY <1>1, <1>2

LEMMA CleanupKeptNext == ASSUME LinkInv, CleanupKept, [Next]_vars PROVE CleanupKept'
<1>0. InUse /\ Scheduled /\ RowStep
  BY RowSteps DEF LinkInv, TypeInv
<1>1. CASE KeepConnection
  BY <1>0, <1>1 DEF KeepConnection, InUse, CleanupKept
<1>2. CASE ~KeepConnection
  <2>1. cleanup' = cleanup
    BY <1>2, StepCases
    DEF vars, ConfigOff, ConfigOn, ConfigUnreadable, Wipe, Rebind, CleanStep,
        Forget, RetireStep, RetireDone, Plan, Adopt, Make, Link, CreateDone, SyncDone, Tail,
        Put, DeliveryDone, Skip, Crash, Disconnect, Reconnect, Revoke, Decline, Allocate,
        Sync, Copy, Withhold, HistorySlice, SetLevel, Retire, Relink
  <2>2. job'.up /\ pc' \notin {"wipe", "rebind", "keep"} => cleanup # None
    BY <1>2, KeepingSteps DEF CleanupKept
  <2>3. ASSUME Mirrored' # {} PROVE cleanup # None
    <3>1. PICK r \in Rooms : mirror'[r] # None
      BY <2>3 DEF Mirrored
    <3>2. CASE mirror[r] # None
      BY <3>2 DEF CleanupKept, Mirrored
    <3>3. CASE mirror[r] = None
      <4>1. pc \in {"adopt", "make"}
        BY <1>0, <3>1, <3>3
        DEF RowStep, Marked, Listed, Wiped, Advanced, Forgot, Retiring, Allocated, Settled,
            Restated, Same
      <4> QED BY <1>0, <4>1 DEF Scheduled, Working, CleanupKept
    <3> QED BY <3>2, <3>3
  <2> QED BY <2>1, <2>2, <2>3 DEF CleanupKept
<1> QED BY <1>1, <1>2

(* What state.db knows stays known, unless it is taken back to the end.    *)
LEMMA ListStays ==
  ASSUME TypeInv, [Next]_vars, NEW g \in Retired
  PROVE  g \in Retired' \/ (RetireDone /\ g = job.gen)
<1>0. TypeRetired /\ Held /\ RowStep /\ g \in Generations
  BY RowSteps DEF TypeInv, TypeOK, Retired
<1>1. CASE RetireDone
  <2>1. g # job.gen => retired'[g] = retired[g]
    BY <1>0, <1>1 DEF RetireDone, TypeRetired
  <2> QED BY <1>0, <1>1, <2>1 DEF Retired
<1>2. CASE RetireStep
  <2>1. CASE retired' = [retired EXCEPT ![job.gen].step = retired[job.gen].step + 1]
    <3>1. job.gen \in Generations /\ retired[job.gen] \in RetiredRows
      BY <1>0, <1>2 DEF RetireStep, Held, TypeRetired
    <3>2. [retired[job.gen] EXCEPT !.step = retired[job.gen].step + 1].connection
            = retired[job.gen].connection
      BY <3>1 DEF RetiredRows
    <3>3. retired'[g].connection = retired[g].connection
      BY <1>0, <2>1, <3>1, <3>2 DEF TypeRetired
    <3> QED BY <1>0, <3>3 DEF Retired
  <2>2. CASE UNCHANGED retired
    BY <2>2 DEF Retired
  <2> QED BY <1>2, <2>1, <2>2 DEF RetireStep
<1>3. CASE ~RetireDone /\ ~RetireStep
  <2>1. UNCHANGED retired \/ Joined(Mirrored)
    BY <1>0, <1>3, StepCases, ListJoins
    DEF TypeInv, TypeOK, vars, ConfigOff, ConfigOn, ConfigUnreadable, Wipe, Rebind,
        KeepConnection, CleanStep, Forget, Plan, Adopt, Make, Link, CreateDone, SyncDone, Tail,
        Put, DeliveryDone, Skip, Crash, Disconnect, Reconnect, Revoke, Decline, Allocate,
        Sync, Copy, Withhold, HistorySlice, SetLevel, Retire, Relink, RetireMirrors
  <2> QED BY <2>1 DEF Joined, Retired
<1> QED BY <1>1, <1>2, <1>3

LEMMA KnownStays ==
  ASSUME RowInv, StepsTaken, CleanupKept, [Next]_vars, [~Stranded]_vars,
         NEW g \in Generations, Known(g), Exists(g) \/ ~Wipe
  PROVE  Known(g)' \/ Gone(g)
<1>0. /\ TypeInv /\ Held /\ RowStep
      /\ \A r \in Rooms : mirror[r] # None => Taken(mirror[r], life[r].step)
      /\ \A h \in Retired : Taken(h, retired[h].step)
  BY RowSteps DEF RowInv, LinkInv, TypeInv, StepsTaken
<1>1. Taken(g, 3) => Gone(g)
  BY DEF Taken, Gone
<1>2. CASE g \in Retired
  BY <1>0, <1>1, <1>2, ListStays DEF Known, RetireDone
<1>3. ASSUME NEW r \in Rooms, life[r].gen = g PROVE Known(g)' \/ Gone(g)
  <2>1. CASE life'[r].gen = g
    BY <2>1 DEF Known
  <2>2. CASE Wipe /\ Wiped
    <3>1. ~Stranded /\ pc = "wipe" /\ pc' = "rebind" /\ Exists(g)
      BY <2>2 DEF Wipe, vars
    <3>2. mirror[r] # None
      BY <1>3, <3>1, MirrorAssumption DEF Stranded
    <3>3. r \in Mirrored /\ mirror[r] = g /\ cleanup # None
      BY <1>3, <3>2, RowFacts DEF Mirrored, CleanupKept
    <3> QED BY <2>2, <3>3 DEF Wiped, Joined, Known
  <2>3. ASSUME Forgot(r) PROVE Gone(g)
    <3>1. life[r].step = 3 /\ mirror[r] # None /\ mirror[r] = g
      BY <1>3, <2>3, RowFacts DEF Forgot
    <3> QED BY <1>0, <1>1, <3>1
  <2>4. ASSUME life'[r].gen # g, ~(Wipe /\ Wiped) PROVE Forgot(r)
    <3>1. g # None
      BY MirrorAssumption
    <3>2. CASE \/ \E R \in SUBSET Mirrored : Marked(R)
               \/ Listed \/ Retiring \/ Settled
               \/ \E q \in Rooms : Advanced(q) \/ Recorded(q) \/ Allocated(q)
      BY <1>3, <2>4, <3>1, <3>2
      DEF Marked, Listed, Retiring, Settled, Restated, Advanced, Recorded, Allocated, Same
    <3>3. ASSUME NEW q \in Rooms, Forgot(q) PROVE Forgot(r)
      BY <1>3, <2>4, <3>3 DEF Forgot, Same
    <3> QED BY <1>0, <2>4, <3>2, <3>3 DEF RowStep
  <2> QED BY <2>1, <2>2, <2>3, <2>4
<1> QED BY <1>2, <1>3 DEF Known

(* A room that is made or linked is that of a row, which keeps its name.   *)
LEMMA OpenedIsKnown ==
  ASSUME RowInv, Make \/ Link
  PROVE  /\ job.room \in Rooms /\ life[job.room].gen \in Generations
         /\ life'[job.room].gen = life[job.room].gen
         /\ Link => mirror[job.room] = life[job.room].gen
<1>0. TypeTables /\ Held
  BY DEF RowInv, LinkInv, TypeInv, TypeOK
<1>1. /\ job.room \in Rooms /\ life[job.room].gen \in Generations
      /\ Link => mirror[job.room] = life[job.room].gen
  BY <1>0, RowFacts, MirrorAssumption DEF Held, Make, Link
<1>2. life'[job.room].gen = life[job.room].gen
  <2>1. life[job.room] \in LifeRows /\ DOMAIN life = Rooms
    BY <1>0, <1>1 DEF TypeTables
  <2>2. CASE Make
    BY <1>0, <1>1, <2>2, RecordMirrorRows DEF Make
  <2>3. CASE Link
    <3>1. life' = life \/ life' = [life EXCEPT ![job.room].status = "history"]
      BY <2>3 DEF Link
    <3>2. [life[job.room] EXCEPT !.status = "history"].gen = life[job.room].gen
      BY <2>1 DEF LifeRows
    <3> QED BY <1>1, <2>1, <3>1, <3>2
  <2> QED BY <2>2, <2>3
<1> QED BY <1>1, <1>2

LEMMA GoneStays ==
  ASSUME RowInv, [Next]_vars, NEW g \in Generations
  PROVE  /\ Gone(g) => Gone(g)' \/ Known(g)'
         /\ Exists(g)' => Exists(g) \/ Known(g)'
<1>0. TypeOK /\ TypeMaster /\ Held
  BY DEF RowInv, LinkInv, TypeInv, TypeOK
<1>1. ASSUME /\ master'[g].link = master[g].link
             /\ master'[g].child => master[g].child
             /\ master'[g].manager => master[g].manager
             /\ master'[g].owner => master[g].owner
      PROVE  (Gone(g) => Gone(g)') /\ (Exists(g)' => Exists(g))
  BY <1>1 DEF Gone, Exists
<1>2. CASE UNCHANGED master
  BY <1>1, <1>2
<1>3. CASE CleanStep \/ RetireStep
  <2>1. ASSUME NEW c, NEW h \in Generations, NEW k \in 0..2, Request(c, h, k)
        PROVE  (Gone(g) => Gone(g)') /\ (Exists(g)' => Exists(g))
    <3>1. master'[g].link = master[g].link
          /\ (master'[g].child => master[g].child)
          /\ (master'[g].manager => master[g].manager)
      BY <1>0, <2>1, RequestNarrows
    <3>2. master'[g].owner => master[g].owner
      BY <1>0, <2>1, RequestTakes
    <3> QED BY <1>1, <3>1, <3>2
  <2>2. CASE CleanStep
    <3>1. life[job.room].step \in 0..2 /\ mirror[job.room] \in Generations
      BY <1>0, <2>2, RowFacts DEF CleanStep, Held, LifeRows
    <3>2. Request(cfg, mirror[job.room], life[job.room].step)
      BY <2>2 DEF CleanStep, Request
    <3> QED BY <2>1, <3>1, <3>2
  <2>3. CASE RetireStep
    <3>1. retired[job.gen].step \in 0..2 /\ job.gen \in Generations
      BY <1>0, <2>3 DEF RetireStep, Held, TypeOK, TypeRetired, RetiredRows
    <3>2. Request(retired[job.gen].connection, job.gen, retired[job.gen].step)
      BY <2>3 DEF RetireStep, Request
    <3> QED BY <2>1, <3>1, <3>2
  <2> QED BY <1>3, <2>2, <2>3
<1>4. CASE Make
  <2>1. CASE g = life[job.room].gen
    BY <1>4, <2>1, OpenedIsKnown DEF Known
  <2>2. CASE g # life[job.room].gen
    <3>1. master'[g] = master[g]
      BY <1>0, <1>4, <2>2 DEF Make, TypeMaster
    <3> QED BY <1>1, <3>1
  <2> QED BY <2>1, <2>2
<1>5. CASE Link
  <2>1. CASE g = mirror[job.room]
    BY <1>5, <2>1, OpenedIsKnown DEF Known
  <2>2. CASE g # mirror[job.room]
    <3>1. master'[g] = master[g]
      BY <1>0, <1>5, <2>2 DEF Link, TypeMaster
    <3> QED BY <1>1, <3>1
  <2> QED BY <2>1, <2>2
<1>6. CASE Put
  <2>1. master' \in {master, [master EXCEPT ![job.gen].copied = TRUE]}
    BY <1>6 DEF Put
  <2>2. /\ master'[g].link = master[g].link /\ master'[g].child = master[g].child
        /\ master'[g].manager = master[g].manager /\ master'[g].owner = master[g].owner
    BY <1>0, <2>1 DEF TypeMaster, MasterRooms
  <2> QED BY <1>1, <2>2
<1> QED BY <1>2, <1>3, <1>4, <1>5, <1>6, MasterSteps

LEMMA NothingForgottenNext ==
  ASSUME RowInv, StepsTaken, CleanupKept, NothingForgotten, [Next]_vars, [~Stranded]_vars
  PROVE  NothingForgotten'
<1>1. ASSUME NEW g \in Generations, Exists(g)' PROVE Known(g)' \/ Gone(g)'
  <2>1. CASE Exists(g)
    <3>1. Known(g) \/ Gone(g)
      BY <2>1 DEF NothingForgotten
    <3>2. Known(g) => Known(g)' \/ Gone(g)
      BY <2>1, KnownStays
    <3>3. Gone(g) => Gone(g)' \/ Known(g)'
      BY GoneStays
    <3> QED BY <3>1, <3>2, <3>3
  <2>2. CASE ~Exists(g)
    BY <1>1, <2>2, GoneStays
  <2> QED BY <2>1, <2>2
<1> QED BY <1>1 DEF NothingForgotten

(* A room on a master that the daemon has not finished taking back is      *)
(* still known to state.db, unless the link comes back to a destination a  *)
(* crash left half retired, or a change of destination wipes the intent of *)
(* a room that was made without an answer.                                 *)
THEOREM NothingForgottenUnlessStranded ==
  Spec /\ [][~ComesBack]_vars /\ [][~Stranded]_vars => []NothingForgotten
<1>1. Init => CleanupKept /\ NothingForgotten
  <2>1. NoRoom.link = None /\ IdleJob.up = FALSE
    BY DEF NoRoom, IdleJob
  <2> QED BY <2>1 DEF Init, CleanupKept, Mirrored, NothingForgotten, Exists
<1>2. RowInv /\ CleanupKept /\ [Next]_vars => CleanupKept'
  BY CleanupKeptNext DEF RowInv
<1>3. RowInv /\ StepsTaken /\ CleanupKept /\ NothingForgotten
        /\ [Next]_vars /\ [~Stranded]_vars => NothingForgotten'
  BY NothingForgottenNext
<1> QED BY <1>1, <1>2, <1>3, RowHolds, StepsHold, PTL DEF Spec

=============================================================================
