-------------------------- MODULE MirrorLifecycle --------------------------
(***************************************************************************)
(* The mirrors of the shared archive.  For each conversation the teammate  *)
(* shares, the uplink keeps one room on the master homeserver, inside the  *)
(* organization's space, readable by the manager.  A conversation made     *)
(* Private, a disconnected link or another organization takes that access  *)
(* away again: unlink the room from the space, remove the manager, leave.  *)
(*                                                                         *)
(* One thread, one pass of the loop:                                       *)
(*                                                                         *)
(*   config (wipe -> rebind) -> keep -> revocation (clean) ->              *)
(*   retirement (retire) -> reconcile -> revocation (clean) ->             *)
(*   create (adopt -> make -> link)* -> sync (link)* -> tail ->            *)
(*   delivery (put)* -> history -> config                                  *)
(*                                                                         *)
(* The teammate acts between any two steps.  A generation names one        *)
(* allocation of a mirror; it is the alias of the room made for it, so     *)
(* that the room itself is named by its generation here.  The content of a *)
(* conversation is one unit: it is discovered, queued and copied.          *)
(***************************************************************************)
EXTENDS Integers, FiniteSets

CONSTANTS
    Rooms,        \* conversations of the local homeserver
    Links,        \* connections to a master that enrollment can hand out
    Org,          \* Org[l]: the authority behind l
    Generations,  \* uuids drawn for mirror_lifecycle.generation
    None,         \* absent; as a value of control: disconnected
    MaxFaults,    \* bound: crashes, failed and unanswered requests
    MaxLevels,    \* bound: changes of a share level
    MaxSwitches,  \* bound: disconnections
    MaxLinks,     \* bound: changes to another connection
    MaxReturns,   \* bound: reconnections after a change of connection
    MaxCuts       \* bound: unanswered createRooms and changes of connection, together

Statuses == {"none", "allocating", "linking", "history", "live", "revoking"}
Feeds == {"none", "discover", "queued", "sent"}
Stages == {"revocation", "retirement", "reconcile", "tail", "delivery", "history"}
ControlPoints == Stages \cup {"config", "wipe", "rebind", "keep", "clean", "retire",
                              "create", "adopt", "make", "link", "sync", "put"}
MasterRooms == [link : Links \cup {None}, of : Rooms \cup {None}, child : BOOLEAN,
                manager : BOOLEAN, owner : BOOLEAN, copied : BOOLEAN]
LifeRows == [gen : Generations \cup {None}, status : Statuses, step : 0..3]
RetiredRows == [connection : Links \cup {None}, step : 0..3]
Jobs == [up : BOOLEAN, room : Rooms \cup {None}, gen : Generations \cup {None},
         todo : SUBSET Rooms, sync : SUBSET Rooms, then : ControlPoints]
Counts == [faults : Nat, levels : Nat, switches : Nat, links : Nat, returns : Nat, lost : Nat]

ASSUME MirrorAssumption ==
    /\ None \notin Rooms /\ None \notin Links /\ None \notin Generations
    /\ Links # {}
    /\ MaxFaults \in Nat /\ MaxLevels \in Nat /\ MaxSwitches \in Nat
    /\ MaxLinks \in Nat /\ MaxReturns \in Nat /\ MaxCuts \in Nat

VARIABLES
    \* The teammate and the local homeserver.
    shared,      \* shared[r]: the level of r is Share or Direct
    control,     \* com.jkali.master_link
    \* The master homeservers: the room made for each generation.
    master,
    \* state.db
    life,        \* mirror_lifecycle: generation, status, revoke_step
    mirror,      \* mirror_rooms
    feed,        \* history_jobs and pending_events of the mirror
    retired,     \* retired_mirrors: connection, revoke_step
    off,         \* meta link_disabled
    dest,        \* meta archive_destination
    cleanup,     \* meta cleanup_connection
    \* The process.
    cfg,         \* the connection in use, None right after a start
    pc, job,
    \* History, for the properties and the bounds only.
    revoked,     \* generations the daemon has begun to take back
    count

userVars == <<shared, control>>
tableVars == <<life, mirror, feed, revoked>>
linkVars == <<off, dest, cleanup, cfg>>
vars == <<userVars, master, tableVars, retired, linkVars, pc, job, count>>

NoRoom == [link |-> None, of |-> None, child |-> FALSE, manager |-> FALSE,
           owner |-> FALSE, copied |-> FALSE]
NoLife == [gen |-> None, status |-> "none", step |-> 0]
NotRetired == [connection |-> None, step |-> 0]
IdleJob == [up |-> FALSE, room |-> None, gen |-> None, todo |-> {}, sync |-> {},
            then |-> "retirement"]

Init ==
    /\ shared \in [Rooms -> BOOLEAN] /\ control \in Links
    /\ master = [g \in Generations |-> NoRoom]
    /\ life = [r \in Rooms |-> NoLife]
    /\ mirror = [r \in Rooms |-> None]
    /\ feed = [r \in Rooms |-> "none"]
    /\ retired = [g \in Generations |-> NotRetired]
    /\ off = FALSE /\ dest = None /\ cleanup = None /\ cfg = None
    /\ pc = "config" /\ job = IdleJob
    /\ revoked = {}
    /\ count = [faults |-> 0, levels |-> 0, switches |-> 0, links |-> 0,
                returns |-> 0, lost |-> 0]

Exists(g) == master[g].link # None
StageEnds == job' = [IdleJob EXCEPT !.up = job.up]
CleanupEnds == job' = [job EXCEPT !.room = None, !.gen = None] /\ pc' = job.then
Mirrored == {r \in Rooms : mirror[r] # None}
Revoking == {r \in Rooms : life[r].status = "revoking"}
Retired == {g \in Generations : retired[g].connection # None}

(* A request that is refused or unanswered, within the bound.              *)
Fault == /\ count.faults < MaxFaults
         /\ count' = [count EXCEPT !.faults = @ + 1]

MarkQueueOnly(R) ==
    /\ feed' = [r \in Rooms |-> IF r \in R THEN "none" ELSE feed[r]]
    /\ revoked' = revoked \cup {mirror[r] : r \in R}
    /\ UNCHANGED <<life, mirror>>

(* mark_revoking: the row, and what was queued for the room.               *)
MarkRevoking(R) ==
    /\ life' = [r \in Rooms |-> IF r \in R THEN [life[r] EXCEPT !.status = "revoking"]
                                           ELSE life[r]]
    /\ feed' = [r \in Rooms |-> IF r \in R THEN "none" ELSE feed[r]]
    /\ revoked' = revoked \cup {mirror[r] : r \in R}
    /\ UNCHANGED mirror

(* active_link_for_dispatch: control, read again, is off; or another link. *)
LinkOff == control = None \/ off
LinkHolds == ~LinkOff /\ control = cfg
SeeLinkOff == off' = TRUE /\ MarkRevoking(Mirrored)

-----------------------------------------------------------------------------
(* refresh_master_config and destination_binding. *)

ConfigUnreadable ==
    /\ pc = "config" /\ Fault
    /\ job' = IdleJob /\ pc' = "revocation"
    /\ UNCHANGED <<userVars, master, tableVars, retired, linkVars>>

ConfigOffAsIs ==
    /\ pc = "config" /\ control = None
    /\ SeeLinkOff
    /\ job' = IdleJob /\ pc' = "revocation"
    /\ UNCHANGED <<userVars, master, retired, dest, cleanup, cfg, count>>

(* Cleanup goes on with the last connection that worked.                   *)
ConfigOff ==
    /\ pc = "config" /\ control = None
    /\ SeeLinkOff
    /\ cfg' = IF cleanup # None THEN cleanup ELSE cfg
    /\ job' = IdleJob /\ pc' = "revocation"
    /\ UNCHANGED <<userVars, master, retired, dest, cleanup, count>>

(* The mirrors of R join the cleanup list, with the connection they had.   *)
ListForCleanup(R) ==
    /\ retired' = [g \in Generations |->
          IF cleanup # None /\ g \notin Retired /\ \E r \in R : mirror[r] = g
          THEN [connection |-> cleanup, step |-> 0]
          ELSE retired[g]]
    /\ revoked' = revoked \cup {mirror[r] : r \in R}

RetireLiveMirrors == ListForCleanup(Mirrored \ Revoking)
RetireMirrors == ListForCleanup(Mirrored)

(* Another authority suspends Direct sends: that commit carries the rows   *)
(* inserted before it.                                                     *)
ConfigOn ==
    /\ pc = "config" /\ control # None
    /\ off' = FALSE /\ cfg' = control
    /\ job' = [IdleJob EXCEPT !.up = TRUE]
    /\ \/ /\ dest \in {None, control}
          /\ dest' = control /\ pc' = "keep"
          /\ UNCHANGED <<retired, revoked>>
       \/ /\ dest \notin {None, control}
          /\ IF Org[dest] # Org[control] THEN RetireMirrors ELSE UNCHANGED <<retired, revoked>>
          /\ pc' = "wipe"
          /\ UNCHANGED dest
    /\ UNCHANGED <<userVars, master, life, mirror, feed, cleanup, count>>

WipeQueues ==
    /\ pc = "wipe"
    /\ RetireMirrors
    /\ feed' = [r \in Rooms |-> "none"]
    /\ pc' = "rebind"
    /\ UNCHANGED <<userVars, master, life, mirror, linkVars, job, count>>

Wipe ==
    /\ pc = "wipe"
    /\ RetireMirrors
    /\ life' = [r \in Rooms |-> NoLife]
    /\ mirror' = [r \in Rooms |-> None]
    /\ feed' = [r \in Rooms |-> "none"]
    /\ pc' = "rebind"
    /\ UNCHANGED <<userVars, master, linkVars, job, count>>

Rebind ==
    /\ pc = "rebind"
    /\ dest' = cfg /\ pc' = "keep"
    /\ UNCHANGED <<userVars, master, tableVars, retired, off, cleanup, cfg, job, count>>

KeepConnection ==
    /\ pc = "keep"
    /\ cleanup' = cfg /\ pc' = "revocation"
    /\ UNCHANGED <<userVars, master, tableVars, retired, off, dest, cfg, job, count>>

-----------------------------------------------------------------------------
(* delete_mirror and _retry_retired_mirror: the same three requests. *)

WithoutManagerFirst(room, step) ==
    CASE step = 0 -> [room EXCEPT !.child = FALSE]
      [] step = 1 -> [room EXCEPT !.owner = FALSE]
      [] step = 2 -> [room EXCEPT !.manager = FALSE]

TakeBack(room, step) ==
    CASE step = 0 -> [room EXCEPT !.child = FALSE]
      [] step = 1 -> [room EXCEPT !.manager = FALSE]
      [] step = 2 -> [room EXCEPT !.owner = FALSE]

(* A request for g over connection c. What was already done answers with a *)
(* refusal that a read then explains, so that a repetition succeeds.       *)
Applied(g, step) == master' = [master EXCEPT ![g] = TakeBack(@, step)]
Accepted(c, g, step) == c = master[g].link /\ Applied(g, step) /\ UNCHANGED count
Unanswered(c, g, step) == c = master[g].link /\ Applied(g, step) /\ Fault
Refused(c, g) == /\ UNCHANGED master
                 /\ IF c = master[g].link THEN Fault ELSE UNCHANGED count

Revoke(r) ==
    /\ pc = "revocation" /\ r \in Revoking
    /\ job' = [job EXCEPT !.room = r] /\ pc' = "clean"
    /\ UNCHANGED <<userVars, master, tableVars, retired, linkVars, count>>

CleanStep ==
    /\ pc = "clean" /\ life[job.room].step < 3
    /\ LET r == job.room
           g == mirror[r]
           k == life[r].step
       IN \/ /\ Accepted(cfg, g, k)
             /\ life' = [life EXCEPT ![r].step = k + 1]
             /\ UNCHANGED <<pc, job>>
          \/ /\ Unanswered(cfg, g, k) \/ Refused(cfg, g)
             /\ CleanupEnds
             /\ UNCHANGED life
    /\ UNCHANGED <<userVars, mirror, feed, revoked, retired, linkVars>>

Forget ==
    /\ pc = "clean" /\ life[job.room].step = 3
    /\ life' = [life EXCEPT ![job.room] = NoLife]
    /\ mirror' = [mirror EXCEPT ![job.room] = None]
    /\ CleanupEnds
    /\ UNCHANGED <<userVars, master, feed, revoked, retired, linkVars, count>>

Retire(g) ==
    /\ pc = "retirement" /\ g \in Retired
    /\ job' = [job EXCEPT !.gen = g] /\ pc' = "retire"
    /\ UNCHANGED <<userVars, master, tableVars, retired, linkVars, count>>

AfterRetirement == IF job.up THEN "reconcile" ELSE "config"

RetireStep ==
    /\ pc = "retire" /\ retired[job.gen].step < 3
    /\ LET g == job.gen
           k == retired[g].step
       IN \/ /\ Accepted(retired[g].connection, g, k)
             /\ retired' = [retired EXCEPT ![g].step = k + 1]
             /\ UNCHANGED <<pc, job>>
          \/ /\ \/ Unanswered(retired[g].connection, g, k)
                \/ Refused(retired[g].connection, g)
             /\ StageEnds /\ pc' = AfterRetirement
             /\ UNCHANGED retired
    /\ UNCHANGED <<userVars, tableVars, linkVars>>

RetireDone ==
    /\ pc = "retire" /\ retired[job.gen].step = 3
    /\ retired' = [retired EXCEPT ![job.gen] = NotRetired]
    /\ StageEnds /\ pc' = AfterRetirement
    /\ UNCHANGED <<userVars, master, tableVars, linkVars, count>>

-----------------------------------------------------------------------------
(* reconcile and create_mirror. *)

(* One full /sync; a room being revoked counts as Private until it is gone.*)
Desired == {r \in Rooms : shared[r]} \ Revoking

Plan ==
    /\ pc = "reconcile"
    /\ MarkRevoking(Mirrored \ Desired)
    /\ job' = [job EXCEPT !.todo = Desired \ Mirrored, !.sync = Desired, !.then = "create"]
    /\ pc' = "revocation"
    /\ UNCHANGED <<userVars, master, retired, linkVars, count>>

(* Level and link are read again before a room is made.                    *)
Decline(r) ==
    /\ pc = "create" /\ r \in job.todo
    /\ \/ LinkOff /\ SeeLinkOff
       \/ /\ ~LinkOff /\ (control # cfg \/ ~shared[r])
          /\ UNCHANGED <<tableVars, off>>
    /\ job' = [job EXCEPT !.todo = @ \ {r}]
    /\ UNCHANGED <<userVars, master, retired, dest, cleanup, cfg, pc, count>>

Fresh(g) == ~Exists(g) /\ g \notin revoked /\ \A r \in Rooms : life[r].gen # g

(* uuid4: any name not used before is as good as another.                  *)
NewName == CHOOSE g \in Generations : Fresh(g)
AllocateAnew(r) ==
    /\ \E g \in Generations : Fresh(g)
    /\ life' = [life EXCEPT ![r] = [gen |-> NewName, status |-> "allocating", step |-> 0]]

(* The generation is committed before the room is asked for; a generation  *)
(* left by an earlier attempt is used again.                               *)
Intend(r) == IF life[r].gen = None THEN AllocateAnew(r) ELSE UNCHANGED life

Allocate(r) ==
    /\ pc = "create" /\ r \in job.todo
    /\ LinkHolds /\ shared[r]
    /\ Intend(r)
    /\ job' = [job EXCEPT !.room = r, !.then = "create"]
    /\ pc' = IF life[r].gen = None THEN "make" ELSE "adopt"
    /\ UNCHANGED <<userVars, master, mirror, feed, revoked, retired, linkVars, count>>

RecordLinked(r, g) ==
    /\ mirror' = [mirror EXCEPT ![r] = g]
    /\ life' = [life EXCEPT ![r].status = "history"]
    /\ UNCHANGED <<feed, revoked>>

RecordMirror(r, g) ==
    /\ mirror' = [mirror EXCEPT ![r] = g]
    /\ life' = [life EXCEPT ![r].status = "linking"]
    /\ UNCHANGED <<feed, revoked>>

(* A refusal leaves this room for the next pass; no answer ends the stage. *)
GiveUp ==
    \/ /\ job' = [job EXCEPT !.room = None, !.todo = @ \ {job.room}, !.sync = @ \ {job.room}]
       /\ pc' = job.then
    \/ StageEnds /\ pc' = "tail"

(* The alias is looked up, and the marker in the room compared.            *)
Adopt ==
    /\ pc = "adopt"
    /\ LET g == life[job.room].gen
       IN \/ /\ master[g].link = cfg
             /\ RecordMirror(job.room, g)
             /\ pc' = "link" /\ UNCHANGED <<job, count>>
          \/ /\ master[g].link # cfg
             /\ pc' = "make" /\ UNCHANGED <<tableVars, job, count>>
          \/ Fault /\ GiveUp /\ UNCHANGED tableVars
    /\ UNCHANGED <<userVars, master, retired, linkVars>>

NewRoom(r) == [link |-> cfg, of |-> r, child |-> FALSE, manager |-> TRUE,
               owner |-> TRUE, copied |-> FALSE]

Make ==
    /\ pc = "make"
    /\ LET r == job.room
           g == life[r].gen
       IN \/ /\ master' = [master EXCEPT ![g] = NewRoom(r)]
             /\ RecordMirror(r, g)
             /\ pc' = "link" /\ UNCHANGED <<job, count>>
          \/ /\ count.lost + count.links < MaxCuts
             /\ master' = [master EXCEPT ![g] = NewRoom(r)]
             /\ count' = [count EXCEPT !.lost = @ + 1]
             /\ StageEnds /\ pc' = "tail" /\ UNCHANGED tableVars
          \/ Fault /\ GiveUp /\ UNCHANGED <<master, tableVars>>
    /\ UNCHANGED <<userVars, retired, linkVars>>

(* sync_room: the room enters the space, then its history is scheduled.    *)
Link ==
    /\ pc = "link"
    /\ LET r == job.room
           g == mirror[r]
       IN \/ /\ master' = [master EXCEPT ![g].child = TRUE]
             /\ life' = [life EXCEPT ![r].status = "history"]
             /\ feed' = [feed EXCEPT ![r] = "discover"]
             /\ job' = [job EXCEPT !.room = None, !.todo = @ \ {r}, !.sync = @ \ {r}]
             /\ pc' = job.then /\ UNCHANGED count
          \/ /\ Fault /\ GiveUp
             /\ \/ master' = [master EXCEPT ![g].child = TRUE]
                \/ UNCHANGED master
             /\ UNCHANGED <<life, feed>>
    /\ UNCHANGED <<userVars, mirror, revoked, retired, linkVars>>

CreateDone ==
    /\ pc = "create" /\ job.todo = {}
    /\ job' = [job EXCEPT !.then = "sync"] /\ pc' = "sync"
    /\ UNCHANGED <<userVars, master, tableVars, retired, linkVars, count>>

Sync(r) ==
    /\ pc = "sync" /\ r \in job.sync
    /\ IF life[r].status = "linking"
       THEN /\ job' = [job EXCEPT !.room = r] /\ pc' = "link"
       ELSE /\ job' = [job EXCEPT !.sync = @ \ {r}] /\ UNCHANGED pc
    /\ UNCHANGED <<userVars, master, tableVars, retired, linkVars, count>>

SyncDone ==
    /\ pc = "sync" /\ job.sync = {}
    /\ StageEnds /\ pc' = "tail"
    /\ UNCHANGED <<userVars, master, tableVars, retired, linkVars, count>>

-----------------------------------------------------------------------------
(* tail_once, deliver_pending and history_slice, as far as they revoke and *)
(* copy. *)

AfterTail == IF off' THEN "config" ELSE "delivery"

(* The batch carries the changes since the watermark: of the link, or of   *)
(* the levels of some rooms.                                               *)
Tail ==
    /\ pc = "tail"
    /\ \/ control = None /\ SeeLinkOff
       \/ /\ \E R \in SUBSET {r \in Mirrored : ~shared[r]} : MarkRevoking(R)
          /\ UNCHANGED off
    /\ pc' = AfterTail
    /\ UNCHANGED <<userVars, master, retired, dest, cleanup, cfg, job, count>>

Queued == {r \in Rooms : feed[r] = "queued"}
Discovering == {r \in Rooms : feed[r] = "discover"}

(* Link, row and level are read again before each event.                   *)
MayCopy(r) == LinkHolds /\ shared[r] /\ life[r].status # "revoking"

Copy(r) ==
    /\ pc = "delivery" /\ r \in Queued
    /\ MayCopy(r)
    /\ job' = [job EXCEPT !.room = r, !.gen = mirror[r]] /\ pc' = "put"
    /\ UNCHANGED <<userVars, master, tableVars, retired, linkVars, count>>

Withhold(r) ==
    /\ pc = "delivery" /\ r \in Queued
    /\ \/ LinkOff /\ SeeLinkOff /\ pc' = "history"
       \/ ~LinkOff /\ control # cfg /\ pc' = "history" /\ UNCHANGED <<tableVars, off>>
       \/ LinkHolds /\ ~shared[r] /\ MarkRevoking({r}) /\ UNCHANGED <<pc, off>>
    /\ UNCHANGED <<userVars, master, retired, dest, cleanup, cfg, job, count>>

Put ==
    /\ pc = "put"
    /\ LET r == job.room
           copied == [master EXCEPT ![job.gen].copied = TRUE]
       IN \/ /\ master' = copied
             /\ feed' = [feed EXCEPT ![r] = "sent"]
             /\ pc' = "delivery" /\ UNCHANGED count
          \/ /\ Fault /\ master' \in {master, copied}
             /\ pc' = "history" /\ UNCHANGED feed
    /\ StageEnds
    /\ UNCHANGED <<userVars, life, mirror, revoked, retired, linkVars>>

DeliveryDone ==
    /\ pc = "delivery" /\ Queued = {}
    /\ life' = [r \in Rooms |->
                  IF life[r].status = "history" /\ r \notin Discovering
                  THEN [life[r] EXCEPT !.status = "live"] ELSE life[r]]
    /\ pc' = "history"
    /\ UNCHANGED <<userVars, master, mirror, feed, revoked, retired, linkVars, job, count>>

(* history_slice reads the level again, and the last page queues it all.   *)
HistorySlice(r) ==
    /\ pc = "history" /\ r \in Discovering
    /\ IF shared[r]
       THEN feed' = [feed EXCEPT ![r] = "queued"] /\ UNCHANGED <<life, mirror, revoked>>
       ELSE MarkRevoking({r})
    /\ pc' = "config"
    /\ UNCHANGED <<userVars, master, retired, linkVars, job, count>>

-----------------------------------------------------------------------------
(* A stage has nothing to do; reconcile also waits for its cadence. After  *)
(* a failure a stage is tried again in the next pass.                      *)

Idle(stage, next) == pc = stage /\ pc' = next
Skip ==
    /\ \/ Revoking = {} /\ Idle("revocation", job.then)
       \/ Retired = {} /\ Idle("retirement", AfterRetirement)
       \/ Idle("reconcile", "tail")
       \/ Discovering = {} /\ Idle("history", "config")
    /\ UNCHANGED <<userVars, master, tableVars, retired, linkVars, job, count>>

Crash ==
    /\ Fault
    /\ cfg' = None /\ pc' = "config" /\ job' = IdleJob
    /\ UNCHANGED <<userVars, master, tableVars, retired, off, dest, cleanup>>

(* The teammate. *)

SetLevel(r) ==
    /\ count.levels < MaxLevels
    /\ shared' = [shared EXCEPT ![r] = ~@]
    /\ count' = [count EXCEPT !.levels = @ + 1]
    /\ UNCHANGED <<control, master, tableVars, retired, linkVars, pc, job>>

Disconnect ==
    /\ control # None /\ count.switches < MaxSwitches
    /\ control' = None
    /\ count' = [count EXCEPT !.switches = @ + 1]
    /\ UNCHANGED <<shared, master, tableVars, retired, linkVars, pc, job>>

Reconnect ==
    /\ control = None /\ dest # None
    /\ control' = dest
    /\ IF count.links = 0 THEN UNCHANGED count
       ELSE count.returns < MaxReturns /\ count' = [count EXCEPT !.returns = @ + 1]
    /\ UNCHANGED <<shared, master, tableVars, retired, linkVars, pc, job>>

Relink(l) ==
    /\ l \notin {control, dest}
    /\ count.links < MaxLinks /\ count.lost + count.links < MaxCuts
    /\ control' = l
    /\ count' = [count EXCEPT !.links = @ + 1]
    /\ UNCHANGED <<shared, master, tableVars, retired, linkVars, pc, job>>

Configure == ConfigOff \/ ConfigOn
Daemon ==
    \/ Configure \/ Wipe \/ Rebind \/ KeepConnection
    \/ \E r \in Rooms : Revoke(r) \/ Decline(r) \/ Allocate(r) \/ Sync(r)
                        \/ Copy(r) \/ Withhold(r) \/ HistorySlice(r)
    \/ \E g \in Generations : Retire(g)
    \/ CleanStep \/ Forget \/ RetireStep \/ RetireDone
    \/ Plan \/ Adopt \/ Make \/ Link \/ CreateDone \/ SyncDone
    \/ Tail \/ Put \/ DeliveryDone \/ Skip
Environment ==
    \/ \E r \in Rooms : SetLevel(r)
    \/ Disconnect \/ Reconnect
    \/ \E l \in Links : Relink(l)

Next == Daemon \/ ConfigUnreadable \/ Crash \/ Environment
Spec == Init /\ [][Next]_vars

(* The loop goes on, and reconcile is run again and again: its cadence is  *)
(* a clock. Nothing is assumed of the teammate, of refusals or of crashes. *)
FairSpec == Spec /\ WF_vars(Daemon) /\ SF_vars(Plan)

-----------------------------------------------------------------------------
(* Properties *)

TypeUser == shared \in [Rooms -> BOOLEAN] /\ control \in Links \cup {None} /\ count \in Counts
TypeMaster == master \in [Generations -> MasterRooms]
TypeTables ==
    /\ life \in [Rooms -> LifeRows]
    /\ mirror \in [Rooms -> Generations \cup {None}]
    /\ feed \in [Rooms -> Feeds]
    /\ revoked \subseteq Generations
TypeRetired == retired \in [Generations -> RetiredRows]
TypeLink == off \in BOOLEAN /\ {dest, cleanup, cfg} \subseteq Links \cup {None}
TypePass == pc \in ControlPoints /\ job \in Jobs

(* Every variable holds a value of its kind: the rows of the two tables,   *)
(* the rooms of the master and the daemon's locals.                        *)
TypeOK == TypeUser /\ TypeMaster /\ TypeTables /\ TypeRetired /\ TypeLink /\ TypePass

Gone(g) == ~master[g].child /\ ~master[g].manager /\ ~master[g].owner
Known(g) == g \in Retired \/ \E r \in Rooms : life[r].gen = g

(* A room on a master that the daemon has not finished taking back is      *)
(* still known to state.db: by its mirror row, by the intent it was made   *)
(* for, or by the cleanup list. Rows are deleted one request after the     *)
(* other, by two cleanups and by a change of organization.                 *)
NothingForgotten == \A g \in Generations : Exists(g) => Known(g) \/ Gone(g)

(* The owner is the last to leave: once it is out of a room nobody could   *)
(* remove the manager any more, or unlink the room.                        *)
OwnerLeavesLast ==
    \A g \in Generations :
        Exists(g) /\ ~master[g].owner => ~master[g].child /\ ~master[g].manager

Widens(g) == \/ ~master[g].child /\ master[g].child'
             \/ ~master[g].manager /\ master[g].manager'
             \/ ~master[g].copied /\ master[g].copied'

(* From the moment the daemon marks a mirror as revoking, or retires it,   *)
(* nothing is copied into it and nobody gains access to it.                *)
NeverRevived == [][\A g \in revoked : ~Widens(g)]_vars

(* A room is linked and written only over the connection it was made with: *)
(* an old room is never dispatched under a replacement credential.         *)
WrittenOverItsLink ==
    [][\A g \in Generations : Exists(g) /\ Widens(g) => cfg = master[g].link]_vars

(* What the daemon begins to take back is taken back, through refusals,    *)
(* lost answers, restarts and disconnections.                              *)
CleanupFinishes == \A g \in Generations : g \in revoked ~> Gone(g)

Archived(r) ==
    /\ mirror[r] # None
    /\ master[mirror[r]].link = control
    /\ master[mirror[r]].child /\ master[mirror[r]].copied

(* A conversation that stays shared over a link that stays on is in the    *)
(* end mirrored, linked and copied there, whatever came before.            *)
SharedIsArchived ==
    \A r \in Rooms : <>[](shared[r] /\ control # None) => <>[]Archived(r)
=============================================================================
