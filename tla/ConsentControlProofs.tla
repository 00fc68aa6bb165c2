------------------------- MODULE ConsentControlProofs -------------------------
(***************************************************************************)
(* Proofs about sharing levels and their journal, for any devices, rooms,  *)
(* handles and bounds: what a device shows was stored, a write that lands  *)
(* late finds nothing decided after it, and of the intents made at one     *)
(* revision at most one is applied.                                        *)
(***************************************************************************)
EXTENDS ConsentControl, TLAPS

USE DEF remote, uplink, bounds

Values == Levels \cup {None}
Maps == [Handles -> {"share", "private", None, "keep"}]
Books == [global : {"private", "share"}, source : {"inherit", "private", "share"}]
Overrides == [level : Values, op : Nat, rev : Nat]
States == {"sent", "queued", "prepared", "verifying", "applied", "rejected", "unknown"}
Commands == [room : Rooms, level : Values, base : Nat, state : States, prev : Overrides,
             rev : Nat]
Jobs == [kind : {"idle", "room", "default", "contacts", "book"},
         at : {"idle", "confirm", "capability", "legacy", "intent", "send", "answer", "policy",
               "policy answer", "map", "map write", "map answer", "book", "book answer"},
         level : Values, rooms : SUBSET Rooms, cmd : Nat, map : Maps, book : Books]
DeviceRows == [cache : [Rooms -> Values], default : Values, readable : BOOLEAN,
               contacts : Maps, book : Books, pending : SUBSET Nat, ordered : BOOLEAN,
               job : Jobs]
Evers == [level : [Rooms -> SUBSET Values], default : SUBSET Values, map : SUBSET Maps,
          book : SUBSET Books]

(* What the app and the homeserver hold.                                   *)
TypeRemote ==
    /\ store \in [Rooms -> Overrides] /\ policy \in Values
    /\ contacts \in Maps /\ book \in Books /\ ever \in Evers

(* What the uplink's journal holds.                                        *)
TypeUplink ==
    /\ announced \in BOOLEAN
    /\ queue \in Seq(Nat) /\ log \in Seq(Nat) /\ command \in Seq(Commands)
    /\ observed \in [Rooms -> [rev : Nat, content : Overrides]]
    /\ published \in [Rooms -> Nat]

StoredInv ==
    /\ \A r \in Rooms : store[r].level \in ever.level[r]
    /\ policy \in ever.default /\ contacts \in ever.map /\ {book, NoBook} \subseteq ever.book

(* A change under way: an answer without a command is that of a write.     *)
JobOk(j) ==
    /\ j.kind = "room" => j.rooms # {}
    /\ j.at = "confirm" => j.kind \in {"room", "default", "contacts"}
    /\ j.at \in {"capability", "legacy", "intent", "send", "answer"} => j.kind = "room"
    /\ j.at = "send" => j.cmd \in DOMAIN command
    /\ j.at = "answer" /\ j.cmd = 0 => j.level \in ever.level[CHOOSE r \in j.rooms : TRUE]
    /\ j.at = "policy answer" => j.level \in ever.default
    /\ j.at = "map answer" => j.map \in ever.map
    /\ j.at = "book answer" => j.book \in ever.book

ShownOk(x) ==
    /\ \A r \in Rooms : x.cache[r] \in ever.level[r]
    /\ x.default \in ever.default /\ x.contacts \in ever.map /\ x.book \in ever.book

RowOk(x) == x \in DeviceRows /\ ShownOk(x) /\ x.pending \subseteq DOMAIN command /\ JobOk(x.job)

DevInv == dev = [d \in Devices |-> dev[d]] /\ \A d \in Devices : RowOk(dev[d])

RevisionInv ==
    \A c \in DOMAIN command :
        /\ command[c].state \in {"prepared", "verifying", "applied"}
             => command[c].rev = command[c].base + 1
        /\ command[c].state = "applied" => command[c].rev <= observed[command[c].room].rev
        /\ command[c].state # "sent" => announced

Read == {log[i] : i \in DOMAIN log}
Waiting == {queue[i] : i \in DOMAIN queue}

QueueInv ==
    /\ Read \subseteq DOMAIN command /\ Waiting \subseteq DOMAIN command
    /\ Read \cap Waiting = {}
    /\ \A i, k \in DOMAIN queue : queue[i] = queue[k] => i = k
    /\ \A i, k \in DOMAIN log : log[i] = log[k] => i = k
    /\ \A c \in DOMAIN command : command[c].state = "sent" <=> c \notin Read

WriteInv ==
    /\ \A c \in flight : c \in Read /\ command[c].state = "prepared"
    /\ \A r \in Rooms : store[r].op # 0 => store[r].op \in Read
    /\ \A c \in Read, r \in Rooms :
         c \in flight \/ command[c].state = "queued" => store[r].op # c

OrderInv ==
    \A i, k \in DOMAIN log :
        i < k /\ command[log[i]].room = command[log[k]].room /\ Unresolved(log[i])
            => command[log[k]].state = "queued"


-----------------------------------------------------------------------------
(* The rows of the devices. *)

(* What was stored and what was intended only grows.                       *)
Grown ==
    /\ \A r \in Rooms : ever.level[r] \subseteq ever'.level[r]
    /\ ever.default \subseteq ever'.default /\ ever.map \subseteq ever'.map
    /\ ever.book \subseteq ever'.book
    /\ DOMAIN command \subseteq DOMAIN command'

LEMMA NoJobOk == NoJob \in Jobs /\ JobOk(NoJob) /\ JobOk(NoJob)' /\ NoJob.at = "idle" /\ NoJob.cmd = 0
BY DEF NoJob, Jobs, JobOk, Values, Levels, None, Maps, Books, NoBook

LEMMA JobStays == ASSUME Grown, NEW j \in Jobs, JobOk(j) PROVE JobOk(j)'
<1>1. j.at = "answer" => (CHOOSE r \in j.rooms : TRUE) \in Rooms
  <2>1. ASSUME j.at = "answer" PROVE j.rooms # {} /\ j.rooms \subseteq Rooms
    BY <2>1 DEF JobOk, Jobs
  <2> QED BY <2>1
<1> QED BY <1>1 DEF Grown, JobOk

LEMMA RowStays == ASSUME Grown, NEW x, RowOk(x) PROVE RowOk(x)'
<1>1. x.job \in Jobs
  BY DEF RowOk, DeviceRows
<1> QED BY <1>1, JobStays DEF Grown, RowOk, ShownOk

LEMMA DevStep ==
  ASSUME DevInv, Grown, NEW d \in Devices, NEW x, RowOk(x)', dev' = [dev EXCEPT ![d] = x]
  PROVE  DevInv'
<1>1. \A e \in Devices : dev'[e] = IF e = d THEN x ELSE dev[e]
  BY DEF DevInv
<1>2. dev' = [e \in Devices |-> dev'[e]]
  BY DEF DevInv
<1>3. ASSUME NEW e \in Devices PROVE RowOk(dev[e])'
  <2>1. PICK y : y = dev'[e]
    OBVIOUS
  <2>2. RowOk(y)'
    BY <1>1, <2>1, RowStays DEF DevInv
  <2> QED BY <2>1, <2>2
<1> QED BY <1>2, <1>3 DEF DevInv

LEMMA DevStays == ASSUME DevInv, Grown, UNCHANGED dev PROVE DevInv'
<1>1. ASSUME NEW e \in Devices PROVE RowOk(dev[e])'
  <2>1. PICK y : y = dev[e] /\ y = dev'[e]
    OBVIOUS
  <2>2. RowOk(y)'
    BY <2>1, RowStays DEF DevInv
  <2> QED BY <2>1, <2>2
<1> QED BY <1>1 DEF DevInv

(* A step that replaces only the change under way.                         *)
LEMMA JobStep ==
  ASSUME DevInv, Grown, NEW d \in Devices, NEW j \in Jobs, JobOk(j)', SetJob(d, j)
  PROVE  DevInv'
<1>1. PICK y : y = dev[d]
  OBVIOUS
<1> DEFINE x == [y EXCEPT !.job = j]
<1>2. y \in DeviceRows /\ RowOk(y)'
  BY <1>1, RowStays DEF DevInv, RowOk
<1>3. /\ x \in DeviceRows /\ x.job = j
      /\ x.cache = y.cache /\ x.default = y.default /\ x.contacts = y.contacts
      /\ x.book = y.book /\ x.pending = y.pending
  BY <1>2 DEF DeviceRows
<1>4. dev' = [dev EXCEPT ![d] = x]
  BY <1>1 DEF SetJob
<1> HIDE DEF x
<1>5. RowOk(x)'
  BY <1>2, <1>3 DEF RowOk, ShownOk
<1> QED BY <1>4, <1>5, DevStep

LEMMA SameIsGrown == ASSUME UNCHANGED <<ever, command>> PROVE Grown
BY DEF Grown

(* Choosing: the new job waits for its confirmation or for its first step. *)
LEMMA ChooseStep ==
  ASSUME DevInv, NEW d \in Devices, NEW kind \in {"room", "default"}, NEW level \in Values,
         NEW rooms \in SUBSET Rooms, NEW place \in {"confirm", "capability", "policy"},
         kind = "room" => rooms # {}, place = "capability" => kind = "room",
         Choose(d, kind, level, rooms, place)
  PROVE  DevInv' /\ UNCHANGED <<remote, uplink, queue, command>>
<1> DEFINE j == [NoJob EXCEPT !.kind = kind, !.at = place, !.level = level, !.rooms = rooms]
<1>1. j \in Jobs /\ j.kind = kind /\ j.at = place /\ j.rooms = rooms
  BY NoJobOk DEF Jobs
<1>2. SetJob(d, j) /\ UNCHANGED <<remote, uplink, queue, command>>
  BY DEF Choose
<1> HIDE DEF j
<1>3. JobOk(j)'
  BY <1>1 DEF JobOk
<1> QED BY <1>1, <1>2, <1>3, JobStep, SameIsGrown

LEMMA ChooseContactsStep ==
  ASSUME DevInv, NEW d \in Devices, NEW hs, NEW value \in {"share", "private", None},
         NEW place \in {"confirm", "map"}, ChooseContacts(d, hs, value, place)
  PROVE  DevInv' /\ UNCHANGED <<remote, uplink, queue, command>>
<1> DEFINE map == [h \in Handles |-> IF h \in hs THEN value ELSE "keep"]
           j == [NoJob EXCEPT !.kind = "contacts", !.at = place, !.level = value, !.map = map]
<1>1. map \in Maps /\ value \in Values
  BY DEF Maps, Values, Levels
<1>2. SetJob(d, j) /\ UNCHANGED <<remote, uplink, queue, command>>
  BY DEF ChooseContacts
<1> HIDE DEF map
<1>3. j \in Jobs /\ j.kind = "contacts" /\ j.at = place
  BY <1>1, NoJobOk DEF Jobs
<1> HIDE DEF j
<1>4. JobOk(j)'
  BY <1>3 DEF JobOk
<1> QED BY <1>2, <1>3, <1>4, JobStep, SameIsGrown

LEMMA ChooseBookStep ==
  ASSUME DevInv, NEW d \in Devices, NEW part \in {"global", "source"}, NEW value,
         ChooseBook(d, part, value)
  PROVE  DevInv' /\ UNCHANGED <<remote, uplink, queue, command>>
<1>1. PICK old : old = dev[d].book
  OBVIOUS
<1>2. PICK new : new = [old EXCEPT ![part] = value]
  OBVIOUS
<1>3. old \in Books
  BY <1>1 DEF DevInv, RowOk, DeviceRows
<1>4. new \in Books
  <2>1. CASE part = "global"
    BY <1>2, <1>3, <2>1 DEF ChooseBook, Books
  <2>2. CASE part = "source"
    BY <1>2, <1>3, <2>2 DEF ChooseBook, Books
  <2> QED BY <2>1, <2>2
<1> DEFINE j == [NoJob EXCEPT !.kind = "book", !.at = "book", !.book = new]
<1>5. SetJob(d, j) /\ UNCHANGED <<remote, uplink, queue, command>>
  BY <1>1, <1>2 DEF ChooseBook
<1>6. j \in Jobs /\ j.kind = "book" /\ j.at = "book"
  BY <1>4, NoJobOk DEF Jobs
<1> HIDE DEF j
<1>7. JobOk(j)'
  BY <1>6 DEF JobOk
<1> QED BY <1>5, <1>6, <1>7, JobStep, SameIsGrown

LEMMA ChoiceStep ==
  ASSUME DevInv, NEW d \in Devices, Choice(d)
  PROVE  DevInv' /\ UNCHANGED <<remote, uplink, queue, command>>
<1>0. Levels \subseteq Values /\ "share" \in Values /\ "private" \in Values /\ "direct" \in Values
  BY DEF Values, Levels
<1>1. ASSUME NEW r \in Rooms,
             \/ Chip(d, r) \/ Escalate(d, r) \/ Deescalate(d, r) \/ Exclude(d, r)
             \/ \E l \in Levels : Slide(d, r, l)
      PROVE  \E level \in Values, place \in {"confirm", "capability"} :
                 Choose(d, "room", level, {r}, place)
  BY <1>0, <1>1 DEF Chip, Escalate, Deescalate, Exclude, Slide
<1>2. ASSUME NEW l \in Levels, Bulk(d, l) PROVE Choose(d, "room", l, Rooms, "confirm")
  BY <1>2 DEF Bulk
<1>3. ASSUME AllDirect(d) PROVE Choose(d, "room", "direct", Rooms, "confirm")
  BY <1>3 DEF AllDirect
<1>4. ASSUME NEW l \in Levels, ChooseDefault(d, l)
      PROVE  \E place \in {"confirm", "policy"} : Choose(d, "default", l, {}, place)
  BY <1>4 DEF ChooseDefault
<1>5. ASSUME \/ \E r \in Rooms : \/ Chip(d, r) \/ Escalate(d, r) \/ Deescalate(d, r)
                                 \/ Exclude(d, r) \/ \E l \in Levels : Slide(d, r, l)
             \/ \E l \in Levels : Bulk(d, l) \/ ChooseDefault(d, l)
             \/ AllDirect(d)
      PROVE  DevInv' /\ UNCHANGED <<remote, uplink, queue, command>>
  <2>1. Rooms \in SUBSET Rooms /\ Rooms # {} /\ {} \in SUBSET Rooms
        /\ \A r \in Rooms : {r} \in SUBSET Rooms /\ {r} # {}
    BY ConsentAssumption
  <2>2. ASSUME NEW level \in Values, NEW rooms \in SUBSET Rooms, rooms # {},
               NEW place \in {"confirm", "capability"}, Choose(d, "room", level, rooms, place)
        PROVE  DevInv' /\ UNCHANGED <<remote, uplink, queue, command>>
    BY <2>2, ChooseStep
  <2>3. ASSUME NEW level \in Values, NEW place \in {"confirm", "policy"},
               Choose(d, "default", level, {}, place)
        PROVE  DevInv' /\ UNCHANGED <<remote, uplink, queue, command>>
    BY <2>1, <2>3, ChooseStep
  <2>4. ASSUME NEW l \in Levels, Bulk(d, l) \/ ChooseDefault(d, l)
        PROVE  DevInv' /\ UNCHANGED <<remote, uplink, queue, command>>
    BY <1>0, <1>2, <1>4, <2>1, <2>2, <2>3, <2>4
  <2>5. ASSUME AllDirect(d) PROVE DevInv' /\ UNCHANGED <<remote, uplink, queue, command>>
    BY <1>0, <1>3, <2>1, <2>2, <2>5
  <2>6. ASSUME NEW r \in Rooms,
               \/ Chip(d, r) \/ Escalate(d, r) \/ Deescalate(d, r) \/ Exclude(d, r)
               \/ \E l \in Levels : Slide(d, r, l)
        PROVE  DevInv' /\ UNCHANGED <<remote, uplink, queue, command>>
    BY <1>1, <2>1, <2>2, <2>6
  <2> QED BY <1>5, <2>4, <2>5, <2>6
<1>6. ASSUME \/ ClearContacts(d)
             \/ \E hs \in SUBSET Handles, v \in {"share", "private", None} :
                    ChoosePerson(d, hs, v)
             \/ \E h \in Handles, v \in {"share", "private", None} : ChooseContact(d, h, v)
      PROVE  DevInv' /\ UNCHANGED <<remote, uplink, queue, command>>
  BY <1>6, ChooseContactsStep DEF ClearContacts, ChoosePerson, ChooseContact
<1>7. ASSUME NEW part \in {"global", "source"}, NEW v, ChooseBook(d, part, v)
      PROVE  DevInv' /\ UNCHANGED <<remote, uplink, queue, command>>
  BY <1>7, ChooseBookStep
<1> QED BY <1>5, <1>6, <1>7 DEF Choice

(* A job that moves on keeps all but its place.                            *)
Moved(j, k, p) ==
    /\ k \in Jobs /\ k.at = p /\ k.kind = j.kind /\ k.level = j.level
    /\ k.rooms = j.rooms /\ k.cmd = j.cmd /\ k.map = j.map /\ k.book = j.book

LEMMA PlaceTyped ==
  ASSUME NEW j \in Jobs, NEW p \in {"capability", "legacy", "intent", "send", "answer", "policy",
                                    "policy answer", "map", "map answer", "book answer"},
         NEW k, k = [j EXCEPT !.at = p]
  PROVE  Moved(j, k, p)
BY DEF Jobs, Moved

LEMMA JobFacts == ASSUME DevInv, NEW d \in Devices
                  PROVE  Job(d) \in Jobs /\ JobOk(Job(d)) /\ dev[d] \in DeviceRows /\ RowOk(dev[d])
BY DEF DevInv, RowOk, DeviceRows, Job

(* Where a change moves on without anything being written.                 *)
LEMMA MoveStep ==
  ASSUME DevInv, NEW d \in Devices, UNCHANGED <<ever, command>>,
         NEW p \in {"capability", "legacy", "policy", "map"}, Move(d, p),
         p \in {"capability", "legacy"} => Job(d).kind = "room"
  PROVE  DevInv'
<1>0. PICK j : j = Job(d)
  OBVIOUS
<1>1. PICK k : k = [j EXCEPT !.at = p]
  OBVIOUS
<1>2. j \in Jobs /\ JobOk(j) /\ Moved(j, k, p)
  BY <1>0, <1>1, JobFacts, PlaceTyped
<1>3. SetJob(d, k)
  BY <1>0, <1>1 DEF Move
<1>4. JobOk(k)'
  BY <1>0, <1>2 DEF JobOk, Moved
<1> QED BY <1>2, <1>3, <1>4, JobStep, SameIsGrown DEF Moved

LEMMA WaitingSteps ==
  ASSUME DevInv, NEW d \in Devices, Confirm(d) \/ Stop(d)
  PROVE  DevInv' /\ UNCHANGED <<remote, uplink, queue, command>>
<1>1. UNCHANGED <<remote, uplink, queue, command>>
  BY DEF Confirm, Stop
<1>2. CASE Confirm(d)
  <2>1. Job(d).kind \in {"room", "default", "contacts"}
    BY <1>2, JobFacts DEF Confirm, At, JobOk
  <2>2. \E p \in {"capability", "policy", "map"} :
          Move(d, p) /\ (p = "capability" => Job(d).kind = "room")
    BY <1>2, <2>1 DEF Confirm
  <2> QED BY <1>1, <2>2, MoveStep
<1>3. CASE Stop(d)
  BY <1>1, <1>3, NoJobOk, JobStep, SameIsGrown DEF Stop
<1> QED BY <1>1, <1>2, <1>3

(* A step of a change that writes: what is stored was stored.              *)
LEMMA LevelStored ==
  ASSUME TypeRemote, StoredInv, NEW r \in Rooms, NEW row \in Overrides,
         store' = [store EXCEPT ![r] = row],
         ever' = [ever EXCEPT !.level[r] = @ \cup {row.level}],
         UNCHANGED <<policy, contacts, book, command>>
  PROVE  TypeRemote' /\ StoredInv' /\ Grown /\ row.level \in ever'.level[r]
<1>1. /\ ever'.default = ever.default /\ ever'.map = ever.map /\ ever'.book = ever.book
      /\ ever'.level = [ever.level EXCEPT ![r] = @ \cup {row.level}]
      /\ ever' = [level |-> ever'.level, default |-> ever'.default, map |-> ever'.map,
                  book |-> ever'.book]
  BY DEF TypeRemote, Evers
<1>2. row.level \in Values
  BY DEF Overrides
<1>3. \A q \in Rooms : ever'.level[q] = IF q = r THEN ever.level[q] \cup {row.level}
                                                ELSE ever.level[q]
  BY <1>1 DEF TypeRemote, Evers
<1>4. ever' \in Evers
  <2>1. ever'.level \in [Rooms -> SUBSET Values]
    BY <1>1, <1>2 DEF TypeRemote, Evers
  <2> QED BY <1>1, <2>1 DEF TypeRemote, Evers
<1>5. \A q \in Rooms : store'[q] = IF q = r THEN row ELSE store[q]
  BY DEF TypeRemote
<1>6. store' \in [Rooms -> Overrides]
  BY DEF TypeRemote
<1>7. TypeRemote'
  BY <1>4, <1>6 DEF TypeRemote
<1>8. StoredInv'
  BY <1>1, <1>3, <1>5 DEF StoredInv
<1>9. Grown
  BY <1>1, <1>3 DEF Grown
<1> QED BY <1>3, <1>7, <1>8, <1>9

(* The same of the default, of the contacts and of the address book.       *)
LEMMA SettingStored ==
  ASSUME TypeRemote, StoredInv, UNCHANGED <<store, command>>,
         \/ /\ \E v \in Values : policy' = v /\ ever' = [ever EXCEPT !.default = @ \cup {v}]
            /\ UNCHANGED <<contacts, book>>
         \/ /\ \E m \in Maps : contacts' = m /\ ever' = [ever EXCEPT !.map = @ \cup {m}]
            /\ UNCHANGED <<policy, book>>
         \/ /\ \E b \in Books : book' = b /\ ever' = [ever EXCEPT !.book = @ \cup {b}]
            /\ UNCHANGED <<policy, contacts>>
  PROVE  /\ TypeRemote' /\ StoredInv' /\ Grown
<1>1. ASSUME NEW v \in Values, policy' = v, ever' = [ever EXCEPT !.default = @ \cup {v}],
             UNCHANGED <<contacts, book>>
      PROVE  TypeRemote' /\ StoredInv' /\ Grown
  <2>1. /\ ever'.default = ever.default \cup {v} /\ ever'.map = ever.map
        /\ ever'.book = ever.book /\ ever'.level = ever.level /\ ever' \in Evers
    BY <1>1 DEF TypeRemote, Evers
  <2> QED BY <1>1, <2>1 DEF TypeRemote, StoredInv, Grown
<1>2. ASSUME NEW m \in Maps, contacts' = m, ever' = [ever EXCEPT !.map = @ \cup {m}],
             UNCHANGED <<policy, book>>
      PROVE  TypeRemote' /\ StoredInv' /\ Grown
  <2>1. /\ ever'.default = ever.default /\ ever'.map = ever.map \cup {m}
        /\ ever'.book = ever.book /\ ever'.level = ever.level /\ ever' \in Evers
    BY <1>2 DEF TypeRemote, Evers
  <2> QED BY <1>2, <2>1 DEF TypeRemote, StoredInv, Grown
<1>3. ASSUME NEW b \in Books, book' = b, ever' = [ever EXCEPT !.book = @ \cup {b}],
             UNCHANGED <<policy, contacts>>
      PROVE  TypeRemote' /\ StoredInv' /\ Grown
  <2>1. /\ ever'.default = ever.default /\ ever'.map = ever.map
        /\ ever'.book = ever.book \cup {b} /\ ever'.level = ever.level /\ ever' \in Evers
    BY <1>3 DEF TypeRemote, Evers
  <2> QED BY <1>3, <2>1 DEF TypeRemote, StoredInv, Grown
<1> QED BY <1>1, <1>2, <1>3

LEMMA RemoteStays ==
  ASSUME TypeRemote, StoredInv, UNCHANGED remote PROVE TypeRemote' /\ StoredInv'
BY DEF TypeRemote, StoredInv

(* The first conversation of those that remain.                            *)
LEMMA TargetRoom ==
  ASSUME NEW j \in Jobs, JobOk(j), j.kind = "room"
  PROVE  (CHOOSE r \in j.rooms : TRUE) \in j.rooms /\ (CHOOSE r \in j.rooms : TRUE) \in Rooms
<1>1. j.rooms # {} /\ j.rooms \subseteq Rooms
  BY DEF JobOk, Jobs
<1> QED BY <1>1

LEMMA SavedStep ==
  ASSUME DevInv, NEW d \in Devices, Job(d).kind = "room", UNCHANGED <<ever, command>>,
         Job(d).level \in ever.level[Target(d)], NEW P \in SUBSET dev[d].pending,
         dev' = Saved(d, P)
  PROVE  DevInv'
<1>1. PICK y : y = dev[d]
  OBVIOUS
<1>2. PICK r : r = CHOOSE q \in y.job.rooms : TRUE
  OBVIOUS
<1>3. y \in DeviceRows /\ RowOk(y) /\ RowOk(y)' /\ y.job \in Jobs /\ JobOk(y.job)
  BY <1>1, RowStays, SameIsGrown, JobFacts DEF Job
<1>4. r \in Rooms /\ r = Target(d) /\ y.job.level \in ever.level[r] /\ y.job.level \in Values
  BY <1>1, <1>2, <1>3, TargetRoom DEF Target, Job, Jobs
<1>5. PICK rest : rest = y.job.rooms \ {r}
  OBVIOUS
<1>6. PICK j : j = IF rest = {} THEN NoJob
                   ELSE [y.job EXCEPT !.rooms = rest, !.at = "capability", !.cmd = 0]
  OBVIOUS
<1>7. j \in Jobs /\ JobOk(j)'
  <2>1. CASE rest = {}
    BY <1>6, <2>1, NoJobOk
  <2>2. CASE rest # {}
    <3>1. /\ j \in Jobs /\ j.kind = y.job.kind /\ j.at = "capability" /\ j.rooms = rest
      BY <1>3, <1>5, <1>6, <2>2 DEF Jobs
    <3> QED BY <1>1, <2>2, <3>1 DEF JobOk, Job
  <2> QED BY <2>1, <2>2
<1>8. PICK x : x = [y EXCEPT !.cache[r] = y.job.level, !.pending = P, !.job = j]
  OBVIOUS
<1>9. /\ x \in DeviceRows /\ x.cache = [y.cache EXCEPT ![r] = y.job.level] /\ x.pending = P
      /\ x.job = j /\ x.default = y.default /\ x.contacts = y.contacts /\ x.book = y.book
  <2>1. [y.cache EXCEPT ![r] = y.job.level] \in [Rooms -> Values] /\ P \subseteq Nat
    BY <1>1, <1>3, <1>4 DEF DeviceRows
  <2> QED BY <1>3, <1>7, <1>8, <2>1 DEF DeviceRows
<1>10. dev' = [dev EXCEPT ![d] = x]
  <2>1. j = IF rest = {} THEN NoJob
            ELSE [dev[d].job EXCEPT !.rooms = rest, !.at = "capability", !.cmd = 0]
    BY <1>1, <1>6
  <2>2. dev' = [dev EXCEPT ![d].cache[r] = y.job.level, ![d].pending = P, ![d].job = j]
    BY <1>1, <1>4, <1>5, <2>1 DEF Saved, Job
  <2>3. dev = [e \in Devices |-> dev[e]]
    BY DEF DevInv
  <2> QED BY <1>1, <1>8, <2>2, <2>3
<1>11. ShownOk(x)'
  <2>1. \A q \in Rooms : x.cache[q] = IF q = r THEN y.job.level ELSE y.cache[q]
    BY <1>3, <1>9 DEF DeviceRows
  <2> QED BY <1>3, <1>4, <1>9, <2>1 DEF RowOk, ShownOk
<1>12. RowOk(x)'
  BY <1>1, <1>3, <1>7, <1>9, <1>11 DEF RowOk
<1> QED BY <1>10, <1>12, DevStep, SameIsGrown

(* A write is on its way: the answer that is awaited is that of a command, *)
(* or of a level that is stored.                                           *)
LEMMA SentStep ==
  ASSUME DevInv, Grown, NEW d \in Devices, Job(d).kind = "room", dev' = Sent(d),
         Job(d).cmd = 0 => Job(d).level \in ever'.level[Target(d)]
  PROVE  DevInv'
<1>1. PICK j : j = Job(d)
  OBVIOUS
<1>2. PICK k : k = [j EXCEPT !.at = "answer"]
  OBVIOUS
<1>3. j \in Jobs /\ JobOk(j) /\ Moved(j, k, "answer")
  BY <1>1, <1>2, JobFacts, PlaceTyped
<1>4. SetJob(d, k)
  BY <1>1, <1>2 DEF Sent, SetJob, Job
<1>5. JobOk(k)'
  BY <1>1, <1>3 DEF JobOk, Moved, Target
<1> QED BY <1>3, <1>4, <1>5, JobStep DEF Moved

(* A row that changes in what is shown, in what is pending or in its job,  *)
(* from what was stored.                                                   *)
LEMMA RowStep ==
  ASSUME DevInv, Grown, NEW d \in Devices, NEW x \in DeviceRows, dev' = [dev EXCEPT ![d] = x],
         x.cache = dev[d].cache \/ \A r \in Rooms : x.cache[r] = store[r].level,
         x.default \in {dev[d].default, policy} \cup ever.default,
         x.contacts \in {dev[d].contacts, contacts} \cup ever.map,
         x.book \in {dev[d].book, book, NoBook} \cup ever.book,
         StoredInv, x.pending \subseteq DOMAIN command', JobOk(x.job)'
  PROVE  DevInv'
<1>1. ShownOk(dev[d])
  BY JobFacts DEF RowOk
<1>2. ShownOk(x)
  BY <1>1 DEF ShownOk, StoredInv
<1>3. ShownOk(x)'
  BY <1>2 DEF ShownOk, Grown
<1>4. RowOk(x)'
  BY <1>3 DEF RowOk
<1> QED BY <1>4, DevStep

LEMMA CapabilitySteps ==
  ASSUME StoredInv, DevInv, NEW d \in Devices, ReadCapability(d) PROVE DevInv'
<1>1. PICK y : y = dev[d]
  OBVIOUS
<1>2. /\ y \in DeviceRows /\ RowOk(y) /\ y.job \in Jobs /\ JobOk(y.job)
      /\ y.job.at = "capability" /\ y.job.kind = "room" /\ UNCHANGED <<ever, command>>
  BY <1>1, JobFacts DEF Job, At, JobOk, ReadCapability
<1>3. CASE announced
  <2>1. PICK k : k = [y.job EXCEPT !.at = "intent"]
    OBVIOUS
  <2>2. Moved(y.job, k, "intent")
    BY <1>2, <2>1, PlaceTyped
  <2>3. PICK x : x = [y EXCEPT !.ordered = TRUE, !.job = k]
    OBVIOUS
  <2>4. /\ x \in DeviceRows /\ x.job = k /\ x.pending = y.pending /\ x.cache = y.cache
        /\ x.default = y.default /\ x.contacts = y.contacts /\ x.book = y.book
    BY <1>2, <2>2, <2>3 DEF DeviceRows, Moved
  <2>5. dev' = [dev EXCEPT ![d] = x]
    <3>1. dev' = [dev EXCEPT ![d].ordered = TRUE, ![d].job.at = "intent"]
      BY <1>3 DEF ReadCapability
    <3>2. dev = [e \in Devices |-> dev[e]]
      BY DEF DevInv
    <3> QED BY <1>1, <1>2, <2>1, <2>3, <3>1, <3>2 DEF DeviceRows
  <2>6. JobOk(k)'
    BY <1>2, <2>2 DEF JobOk, Moved
  <2>7. x.pending \subseteq DOMAIN command'
    BY <1>2, <2>4 DEF RowOk
  <2> QED BY <1>1, <1>2, <2>4, <2>5, <2>6, <2>7, RowStep, SameIsGrown
<1>4. CASE ~announced
  <2>1. Move(d, "legacy") /\ Job(d).kind = "room"
    BY <1>1, <1>2, <1>4 DEF ReadCapability, Job
  <2> QED BY <1>2, <2>1, MoveStep
<1> QED BY <1>3, <1>4

(* An intent is one that waits for its answer, or the next of all.          *)
LEMMA IntendFacts ==
  ASSUME TypeRemote, TypeUplink, DevInv, NEW d \in Devices, Intend(d)
  PROVE  \/ /\ UNCHANGED command
            /\ \E c \in dev[d].pending :
                   dev' = [dev EXCEPT ![d].job.cmd = c, ![d].job.at = "send"]
         \/ \E row \in Commands :
              /\ row.state = "sent" /\ command' = Append(command, row)
              /\ dev' = [dev EXCEPT ![d].job.cmd = Len(command) + 1, ![d].job.at = "send",
                                    ![d].pending = @ \cup {Len(command) + 1}]
<1> DEFINE r == Target(d)
           same == {c \in dev[d].pending : command[c].room = r /\ command[c].level = Job(d).level}
           fresh == [room |-> r, level |-> Job(d).level, base |-> Larger(store[r].rev, published[r]),
                     state |-> "sent", prev |-> store[r], rev |-> 0]
<1>1. CASE same # {}
  <2>1. UNCHANGED command
        /\ dev' = [dev EXCEPT ![d].job.cmd = CHOOSE c \in same : TRUE, ![d].job.at = "send"]
    BY <1>1 DEF Intend
  <2>2. (CHOOSE c \in same : TRUE) \in same
    BY <1>1
  <2>3. (CHOOSE c \in same : TRUE) \in dev[d].pending
    BY <2>2
  <2> HIDE DEF same
  <2> QED BY <2>1, <2>3
<1>2. CASE same = {}
  <2>1. /\ command' = Append(command, fresh)
        /\ dev' = [dev EXCEPT ![d].job.cmd = Len(command) + 1, ![d].job.at = "send",
                              ![d].pending = @ \cup {Len(command) + 1}]
    BY <1>2 DEF Intend
  <2>2. Job(d) \in Jobs /\ JobOk(Job(d)) /\ Job(d).kind = "room"
    BY JobFacts DEF JobOk, Intend, At
  <2>3. r \in Rooms /\ Job(d).level \in Values
    BY <2>2, TargetRoom DEF Target, Jobs
  <2>4. store[r] \in Overrides /\ Larger(store[r].rev, published[r]) \in Nat
    <3>1. store[r] \in Overrides /\ published[r] \in Nat
      BY <2>3 DEF TypeRemote, TypeUplink
    <3> QED BY <3>1 DEF Larger, Overrides
  <2>5. fresh \in Commands /\ fresh.state = "sent"
    BY <2>3, <2>4 DEF Commands, States
  <2> HIDE DEF fresh, same
  <2> QED BY <2>1, <2>5
<1> QED BY <1>1, <1>2

LEMMA IntendStep ==
  ASSUME TypeRemote, TypeUplink, StoredInv, DevInv, NEW d \in Devices, Intend(d)
  PROVE  DevInv'
<1>1. PICK y : y = dev[d]
  OBVIOUS
<1>2. /\ y \in DeviceRows /\ RowOk(y) /\ y.job \in Jobs /\ JobOk(y.job)
      /\ y.job.kind = "room" /\ y.pending \subseteq DOMAIN command /\ UNCHANGED ever
      /\ DOMAIN command = 1..Len(command) /\ Len(command) \in Nat
  <2>1. At(d, "intent") /\ UNCHANGED ever
    BY DEF Intend
  <2>2. y \in DeviceRows /\ RowOk(y) /\ y.job \in Jobs /\ JobOk(y.job)
    BY <1>1, JobFacts DEF Job
  <2>3. y.job.at = "intent"
    BY <1>1, <2>1 DEF At, Job
  <2>4. y.job.kind = "room"
    BY <2>2, <2>3 DEF JobOk
  <2>5. y.pending \subseteq DOMAIN command
    BY <2>2 DEF RowOk
  <2>6. DOMAIN command = 1..Len(command) /\ Len(command) \in Nat
    BY DEF TypeUplink
  <2> QED BY <2>1, <2>2, <2>4, <2>5, <2>6
<1>3. ASSUME NEW c \in DOMAIN command', c \in Nat, NEW P \in SUBSET DOMAIN command',
             DOMAIN command \subseteq DOMAIN command',
             \/ dev' = [dev EXCEPT ![d].job.cmd = c, ![d].job.at = "send"] /\ P = y.pending
             \/ dev' = [dev EXCEPT ![d].job.cmd = c, ![d].job.at = "send",
                                   ![d].pending = @ \cup {c}] /\ P = y.pending \cup {c}
      PROVE  DevInv'
  <2>1. PICK k : k = [y.job EXCEPT !.cmd = c, !.at = "send"]
    OBVIOUS
  <2>2. k \in Jobs /\ k.kind = "room" /\ k.rooms = y.job.rooms /\ k.at = "send" /\ k.cmd = c
    BY <1>2, <1>3, <2>1 DEF Jobs
  <2>3. PICK x : x = [y EXCEPT !.job = k, !.pending = P]
    OBVIOUS
  <2>4. /\ x \in DeviceRows /\ x.job = k /\ x.pending = P /\ x.cache = y.cache
        /\ x.default = y.default /\ x.contacts = y.contacts /\ x.book = y.book
    BY <1>2, <1>3, <2>2, <2>3 DEF DeviceRows
  <2>5. dev' = [dev EXCEPT ![d] = x]
    <3>1. dev = [e \in Devices |-> dev[e]]
      BY DEF DevInv
    <3>2. CASE dev' = [dev EXCEPT ![d].job.cmd = c, ![d].job.at = "send"] /\ P = y.pending
      <4>1. x = [y EXCEPT !.job = k]
        BY <1>2, <2>2, <2>3, <3>2 DEF DeviceRows
      <4> QED BY <1>1, <1>2, <2>1, <3>1, <3>2, <4>1 DEF DeviceRows
    <3>3. CASE dev' = [dev EXCEPT ![d].job.cmd = c, ![d].job.at = "send",
                                  ![d].pending = @ \cup {c}] /\ P = y.pending \cup {c}
      BY <1>1, <1>2, <2>1, <2>3, <3>1, <3>3 DEF DeviceRows
    <3> QED BY <1>3, <3>2, <3>3
  <2>6. JobOk(k)'
    BY <1>2, <1>3, <2>2 DEF JobOk
  <2>7. Grown
    BY <1>2, <1>3 DEF Grown
  <2> QED BY <1>1, <1>3, <2>4, <2>5, <2>6, <2>7, RowStep
<1>4. CASE /\ UNCHANGED command
           /\ \E c \in y.pending : dev' = [dev EXCEPT ![d].job.cmd = c, ![d].job.at = "send"]
  <2>1. PICK c \in y.pending : dev' = [dev EXCEPT ![d].job.cmd = c, ![d].job.at = "send"]
    BY <1>4
  <2>2. PICK P : P = y.pending
    OBVIOUS
  <2>3. DOMAIN command' = DOMAIN command
    BY <1>4
  <2>4. c \in DOMAIN command' /\ c \in Nat /\ P \in SUBSET DOMAIN command'
    BY <1>2, <2>1, <2>2, <2>3
  <2> QED BY <1>3, <2>1, <2>2, <2>3, <2>4
<1>5. CASE \E row \in Commands :
              /\ row.state = "sent" /\ command' = Append(command, row)
              /\ dev' = [dev EXCEPT ![d].job.cmd = Len(command) + 1, ![d].job.at = "send",
                                    ![d].pending = @ \cup {Len(command) + 1}]
  <2>1. DOMAIN command' = 1..(Len(command) + 1)
    BY <1>5 DEF TypeUplink
  <2>2. y.pending \cup {Len(command) + 1} \subseteq DOMAIN command'
    BY <1>2, <2>1
  <2>3. Len(command) + 1 \in DOMAIN command' /\ DOMAIN command \subseteq DOMAIN command'
    BY <1>2, <2>1
  <2>4. PICK c : c = Len(command) + 1
    OBVIOUS
  <2>5. PICK P : P = y.pending \cup {c}
    OBVIOUS
  <2>6. c \in DOMAIN command' /\ c \in Nat /\ P \in SUBSET DOMAIN command'
    BY <1>2, <2>2, <2>3, <2>4, <2>5
  <2>7. dev' = [dev EXCEPT ![d].job.cmd = c, ![d].job.at = "send", ![d].pending = @ \cup {c}]
    BY <1>5, <2>4
  <2> QED BY <1>3, <2>3, <2>5, <2>6, <2>7
<1> QED BY <1>1, <1>4, <1>5, IntendFacts

LEMMA LegacySteps ==
  ASSUME TypeRemote, StoredInv, DevInv, NEW d \in Devices, PutLegacy(d) \/ LegacyAnswer(d)
  PROVE  TypeRemote' /\ StoredInv' /\ DevInv'
<1>1. PICK j : j = Job(d)
  OBVIOUS
<1>2. j \in Jobs /\ JobOk(j)
  BY <1>1, JobFacts
<1>3. j.at \in {"legacy", "answer"}
  BY <1>1 DEF PutLegacy, LegacyAnswer, At
<1>4. j.kind = "room"
  BY <1>2, <1>3 DEF JobOk
<1>5. PICK r : r = Target(d)
  OBVIOUS
<1>6. r \in Rooms /\ j.level \in Values /\ r = CHOOSE q \in j.rooms : TRUE
  BY <1>1, <1>2, <1>4, <1>5, TargetRoom DEF Target, Jobs
<1>7. CASE PutLegacy(d)
  <2>1. PICK row : row = [level |-> j.level, op |-> 0, rev |-> 0]
    OBVIOUS
  <2>2. row \in Overrides /\ row.level = j.level
    BY <1>6, <2>1 DEF Overrides
  <2>3. /\ store' = [store EXCEPT ![r] = row]
        /\ ever' = [ever EXCEPT !.level[r] = @ \cup {row.level}]
        /\ UNCHANGED <<policy, contacts, book, command>> /\ dev' = Sent(d)
    BY <1>1, <1>5, <1>7, <2>1, <2>2 DEF PutLegacy
  <2>4. TypeRemote' /\ StoredInv' /\ Grown /\ row.level \in ever'.level[r]
    BY <1>6, <2>2, <2>3, LevelStored
  <2>5. DevInv'
    BY <1>1, <1>4, <1>5, <2>2, <2>3, <2>4, SentStep
  <2> QED BY <2>4, <2>5
<1>8. CASE LegacyAnswer(d)
  <2>1. /\ UNCHANGED <<remote, command>> /\ j.at = "answer" /\ j.cmd = 0
        /\ dev' = Saved(d, dev[d].pending)
    BY <1>1, <1>8 DEF LegacyAnswer, At
  <2>2. j.level \in ever.level[r]
    BY <1>2, <1>6, <2>1 DEF JobOk
  <2>3. DevInv'
    BY <1>1, <1>4, <1>5, <2>1, <2>2, SavedStep
  <2> QED BY <2>1, <2>3, RemoteStays
<1> QED BY <1>7, <1>8

(* A change that ends without a word about what is stored.                 *)
LEMMA EndStep ==
  ASSUME StoredInv, DevInv, NEW d \in Devices, UNCHANGED <<ever, command>>,
         NEW P \in SUBSET dev[d].pending,
         dev' = [dev EXCEPT ![d].pending = P, ![d].job = NoJob]
  PROVE  DevInv'
<1>1. PICK y : y = dev[d]
  OBVIOUS
<1>2. y \in DeviceRows /\ RowOk(y)
  BY <1>1, JobFacts
<1>3. PICK x : x = [y EXCEPT !.pending = P, !.job = NoJob]
  OBVIOUS
<1>4. /\ x \in DeviceRows /\ x.job = NoJob /\ x.pending = P /\ x.cache = y.cache
      /\ x.default = y.default /\ x.contacts = y.contacts /\ x.book = y.book
  <2>1. P \in SUBSET Nat
    BY <1>1, <1>2 DEF DeviceRows
  <2> QED BY <1>2, <1>3, <2>1, NoJobOk DEF DeviceRows
<1>5. dev' = [dev EXCEPT ![d] = x]
  <2>1. dev = [e \in Devices |-> dev[e]]
    BY DEF DevInv
  <2> QED BY <1>1, <1>3, <2>1
<1>6. x.pending \subseteq DOMAIN command'
  BY <1>1, <1>2, <1>4 DEF RowOk
<1>7. JobOk(x.job)'
  BY <1>4, NoJobOk
<1> QED BY <1>1, <1>4, <1>5, <1>6, <1>7, RowStep, SameIsGrown

LEMMA AnswerSteps ==
  ASSUME TypeRemote, TypeUplink, StoredInv, DevInv, NEW d \in Devices,
         SendIntent(d) \/ Refused(d) \/ Applied(d)
  PROVE  TypeRemote' /\ StoredInv' /\ DevInv'
<1>1. PICK j : j = Job(d)
  OBVIOUS
<1>2. j \in Jobs /\ JobOk(j)
  BY <1>1, JobFacts
<1>3. j.at \in {"send", "answer"} /\ UNCHANGED <<remote, command>>
  BY <1>1 DEF SendIntent, Refused, Applied, At
<1>4. j.kind = "room"
  BY <1>2, <1>3 DEF JobOk
<1>5. PICK P : P = dev[d].pending \ {j.cmd}
  OBVIOUS
<1>6. P \in SUBSET dev[d].pending
  BY <1>5
<1>7. CASE SendIntent(d)
  <2>1. j.at = "send" /\ dev' = Sent(d)
    BY <1>1, <1>7 DEF SendIntent, At
  <2>2. j.cmd \in DOMAIN command
    BY <1>2, <2>1 DEF JobOk
  <2>3. j.cmd # 0
    BY <2>2 DEF TypeUplink
  <2>4. DevInv'
    BY <1>1, <1>3, <1>4, <2>1, <2>3, SentStep, SameIsGrown
  <2> QED BY <1>3, <2>4, RemoteStays
<1>8. CASE Refused(d)
  <2>1. dev' = [dev EXCEPT ![d].pending = P, ![d].job = NoJob]
    BY <1>1, <1>5, <1>8 DEF Refused
  <2> QED BY <1>3, <1>6, <2>1, EndStep, RemoteStays
<1>9. CASE Applied(d)
  <2>1. PICK r : r = Target(d)
    OBVIOUS
  <2>2. r \in Rooms
    BY <1>1, <1>2, <1>4, <2>1, TargetRoom DEF Target
  <2>3. CASE store[r].op = j.cmd /\ store[r].level = j.level
    <3>1. dev' = Saved(d, P) /\ j.level \in ever.level[r]
      BY <1>1, <1>5, <1>9, <2>1, <2>2, <2>3 DEF Applied, StoredInv
    <3> QED BY <1>1, <1>3, <1>4, <1>6, <2>1, <3>1, SavedStep, RemoteStays
  <2>4. CASE ~(store[r].op = j.cmd /\ store[r].level = j.level)
    <3>1. dev' = [dev EXCEPT ![d].pending = P, ![d].job = NoJob]
      BY <1>1, <1>5, <1>9, <2>1, <2>4 DEF Applied
    <3> QED BY <1>3, <1>6, <3>1, EndStep, RemoteStays
  <2> QED BY <2>3, <2>4
<1> QED BY <1>7, <1>8, <1>9

LEMMA DefaultSteps ==
  ASSUME TypeRemote, StoredInv, DevInv, NEW d \in Devices, WriteDefault(d) \/ DefaultAnswer(d)
  PROVE  TypeRemote' /\ StoredInv' /\ DevInv'
<1>1. PICK y : y = dev[d]
  OBVIOUS
<1>2. y \in DeviceRows /\ RowOk(y) /\ y.job \in Jobs /\ JobOk(y.job) /\ y.job = Job(d)
  BY <1>1, JobFacts DEF Job
<1>3. y.job.level \in Values
  BY <1>2 DEF Jobs
<1>4. CASE WriteDefault(d)
  <2>1. /\ policy' = y.job.level /\ ever' = [ever EXCEPT !.default = @ \cup {y.job.level}]
        /\ UNCHANGED <<store, contacts, book, command>> /\ Move(d, "policy answer")
    BY <1>2, <1>4 DEF WriteDefault
  <2>2. TypeRemote' /\ StoredInv' /\ Grown
    BY <1>3, <2>1, SettingStored
  <2>3. y.job.level \in ever'.default
    BY <2>1, <2>2 DEF StoredInv
  <2>4. PICK k : k = [y.job EXCEPT !.at = "policy answer"]
    OBVIOUS
  <2>5. Moved(y.job, k, "policy answer") /\ SetJob(d, k)
    BY <1>2, <2>1, <2>4, PlaceTyped DEF Move
  <2>6. JobOk(k)'
    BY <1>2, <2>3, <2>5 DEF JobOk, Moved
  <2> QED BY <2>2, <2>5, <2>6, JobStep DEF Moved
<1>5. CASE DefaultAnswer(d)
  <2>1. /\ dev' = [dev EXCEPT ![d].default = y.job.level, ![d].readable = TRUE, ![d].job = NoJob]
        /\ y.job.at = "policy answer" /\ UNCHANGED <<remote, command>>
    BY <1>2, <1>5 DEF DefaultAnswer, At
  <2>2. PICK x : x = [y EXCEPT !.default = y.job.level, !.readable = TRUE, !.job = NoJob]
    OBVIOUS
  <2>3. /\ x \in DeviceRows /\ x.default = y.job.level /\ x.job = NoJob /\ x.cache = y.cache
        /\ x.contacts = y.contacts /\ x.book = y.book /\ x.pending = y.pending
    BY <1>2, <1>3, <2>2, NoJobOk DEF DeviceRows
  <2>4. dev' = [dev EXCEPT ![d] = x]
    <3>1. dev = [e \in Devices |-> dev[e]]
      BY DEF DevInv
    <3> QED BY <1>1, <2>1, <2>2, <3>1
  <2>5. y.job.level \in ever.default
    BY <1>2, <2>1 DEF JobOk
  <2>6. x.pending \subseteq DOMAIN command'
    BY <1>2, <2>1, <2>3 DEF RowOk
  <2>7. JobOk(x.job)'
    BY <2>3, NoJobOk
  <2>8. DevInv'
    BY <1>1, <2>1, <2>3, <2>4, <2>5, <2>6, <2>7, RowStep, SameIsGrown
  <2> QED BY <2>1, <2>8, RemoteStays
<1> QED BY <1>4, <1>5

LEMMA ContactsSteps ==
  ASSUME TypeRemote, StoredInv, DevInv, NEW d \in Devices,
         ReadContacts(d) \/ WriteContacts(d) \/ ContactsAnswer(d)
  PROVE  TypeRemote' /\ StoredInv' /\ DevInv'
<1>1. PICK y : y = dev[d]
  OBVIOUS
<1>2. y \in DeviceRows /\ RowOk(y) /\ y.job \in Jobs /\ JobOk(y.job) /\ y.job = Job(d)
  BY <1>1, JobFacts DEF Job
<1>3. y.job.map \in Maps
  BY <1>2 DEF Jobs
<1>4. CASE ReadContacts(d)
  <2>1. PICK plan : plan = Planned(d)
    OBVIOUS
  <2>2. plan \in Maps
    BY <1>2, <1>3, <2>1 DEF Planned, Maps, TypeRemote
  <2>3. PICK k : k = [y.job EXCEPT !.map = plan, !.at = "map write"]
    OBVIOUS
  <2>4. /\ k \in Jobs /\ k.at = "map write" /\ k.kind = y.job.kind /\ k.rooms = y.job.rooms
    BY <1>2, <2>2, <2>3 DEF Jobs
  <2>5. SetJob(d, k) /\ UNCHANGED <<remote, command>>
    BY <1>2, <1>4, <2>1, <2>3 DEF ReadContacts
  <2>6. JobOk(k)'
    BY <1>2, <2>4 DEF JobOk
  <2> QED BY <2>4, <2>5, <2>6, JobStep, SameIsGrown, RemoteStays
<1>5. CASE WriteContacts(d)
  <2>1. /\ contacts' = y.job.map /\ ever' = [ever EXCEPT !.map = @ \cup {y.job.map}]
        /\ UNCHANGED <<store, policy, book, command>> /\ Move(d, "map answer")
    BY <1>2, <1>5 DEF WriteContacts
  <2>2. TypeRemote' /\ StoredInv' /\ Grown
    BY <1>3, <2>1, SettingStored
  <2>3. y.job.map \in ever'.map
    BY <2>1, <2>2 DEF StoredInv
  <2>4. PICK k : k = [y.job EXCEPT !.at = "map answer"]
    OBVIOUS
  <2>5. Moved(y.job, k, "map answer") /\ SetJob(d, k)
    BY <1>2, <2>1, <2>4, PlaceTyped DEF Move
  <2>6. JobOk(k)'
    BY <1>2, <2>3, <2>5 DEF JobOk, Moved
  <2> QED BY <2>2, <2>5, <2>6, JobStep DEF Moved
<1>6. CASE ContactsAnswer(d)
  <2>1. /\ dev' = [dev EXCEPT ![d].contacts = y.job.map, ![d].job = NoJob]
        /\ y.job.at = "map answer" /\ UNCHANGED <<remote, command>>
    BY <1>2, <1>6 DEF ContactsAnswer, At
  <2>2. PICK x : x = [y EXCEPT !.contacts = y.job.map, !.job = NoJob]
    OBVIOUS
  <2>3. /\ x \in DeviceRows /\ x.contacts = y.job.map /\ x.job = NoJob /\ x.cache = y.cache
        /\ x.default = y.default /\ x.book = y.book /\ x.pending = y.pending
    BY <1>2, <1>3, <2>2, NoJobOk DEF DeviceRows
  <2>4. dev' = [dev EXCEPT ![d] = x]
    <3>1. dev = [e \in Devices |-> dev[e]]
      BY DEF DevInv
    <3> QED BY <1>1, <2>1, <2>2, <3>1
  <2>5. y.job.map \in ever.map
    BY <1>2, <2>1 DEF JobOk
  <2>6. x.pending \subseteq DOMAIN command'
    BY <1>2, <2>1, <2>3 DEF RowOk
  <2>7. JobOk(x.job)'
    BY <2>3, NoJobOk
  <2>8. DevInv'
    BY <1>1, <2>1, <2>3, <2>4, <2>5, <2>6, <2>7, RowStep, SameIsGrown
  <2> QED BY <2>1, <2>8, RemoteStays
<1> QED BY <1>4, <1>5, <1>6

LEMMA BookSteps ==
  ASSUME TypeRemote, StoredInv, DevInv, NEW d \in Devices, WriteBook(d) \/ BookAnswer(d)
  PROVE  TypeRemote' /\ StoredInv' /\ DevInv'
<1>1. PICK y : y = dev[d]
  OBVIOUS
<1>2. y \in DeviceRows /\ RowOk(y) /\ y.job \in Jobs /\ JobOk(y.job) /\ y.job = Job(d)
  BY <1>1, JobFacts DEF Job
<1>3. y.job.book \in Books
  BY <1>2 DEF Jobs
<1>4. CASE WriteBook(d)
  <2>1. /\ book' = y.job.book /\ ever' = [ever EXCEPT !.book = @ \cup {y.job.book}]
        /\ UNCHANGED <<store, policy, contacts, command>> /\ Move(d, "book answer")
    BY <1>2, <1>4 DEF WriteBook
  <2>2. TypeRemote' /\ StoredInv' /\ Grown
    BY <1>3, <2>1, SettingStored
  <2>3. y.job.book \in ever'.book
    BY <2>1, <2>2 DEF StoredInv
  <2>4. PICK k : k = [y.job EXCEPT !.at = "book answer"]
    OBVIOUS
  <2>5. Moved(y.job, k, "book answer") /\ SetJob(d, k)
    BY <1>2, <2>1, <2>4, PlaceTyped DEF Move
  <2>6. JobOk(k)'
    BY <1>2, <2>3, <2>5 DEF JobOk, Moved
  <2> QED BY <2>2, <2>5, <2>6, JobStep DEF Moved
<1>5. CASE BookAnswer(d)
  <2>1. /\ dev' = [dev EXCEPT ![d].book = y.job.book, ![d].job = NoJob]
        /\ y.job.at = "book answer" /\ UNCHANGED <<remote, command>>
    BY <1>2, <1>5 DEF BookAnswer, At
  <2>2. PICK x : x = [y EXCEPT !.book = y.job.book, !.job = NoJob]
    OBVIOUS
  <2>3. /\ x \in DeviceRows /\ x.book = y.job.book /\ x.job = NoJob /\ x.cache = y.cache
        /\ x.default = y.default /\ x.contacts = y.contacts /\ x.pending = y.pending
    BY <1>2, <1>3, <2>2, NoJobOk DEF DeviceRows
  <2>4. dev' = [dev EXCEPT ![d] = x]
    <3>1. dev = [e \in Devices |-> dev[e]]
      BY DEF DevInv
    <3> QED BY <1>1, <2>1, <2>2, <3>1
  <2>5. y.job.book \in ever.book
    BY <1>2, <2>1 DEF JobOk
  <2>6. x.pending \subseteq DOMAIN command'
    BY <1>2, <2>1, <2>3 DEF RowOk
  <2>7. JobOk(x.job)'
    BY <2>3, NoJobOk
  <2>8. DevInv'
    BY <1>1, <2>1, <2>3, <2>4, <2>5, <2>6, <2>7, RowStep, SameIsGrown
  <2> QED BY <2>1, <2>8, RemoteStays
<1> QED BY <1>4, <1>5

LEMMA LoadSteps ==
  ASSUME TypeRemote, StoredInv, DevInv, NEW d \in Devices, Load(d) \/ Reload(d)
  PROVE  DevInv' /\ UNCHANGED <<remote, uplink, queue, command>>
<1>0. UNCHANGED <<remote, uplink, queue, command>>
  BY DEF Load, Reload
<1>1. PICK y : y = dev[d]
  OBVIOUS
<1>2. y \in DeviceRows /\ RowOk(y) /\ y.job \in Jobs /\ JobOk(y.job) /\ y.job = Job(d)
      /\ y.pending \subseteq DOMAIN command
  BY <1>1, JobFacts DEF Job, RowOk
<1>3. dev = [e \in Devices |-> dev[e]]
  BY DEF DevInv
<1>4. Snapshot \in [Rooms -> Values] /\ \A r \in Rooms : Snapshot[r] = store[r].level
  BY DEF Snapshot, TypeRemote, Overrides
<1>5. NoBook \in Books
  BY DEF NoBook, Books
<1>6. JobOk(y.job)' /\ JobOk(NoJob)'
  BY <1>0, <1>2, NoJobOk, JobStays, SameIsGrown
<1>7. ASSUME NEW default \in {y.default, policy}, NEW readable \in BOOLEAN,
             NEW b \in {book, NoBook}, NEW x, dev' = [dev EXCEPT ![d] = x],
             x = [y EXCEPT !.cache = Snapshot, !.default = default, !.readable = readable,
                           !.contacts = contacts, !.book = b]
      PROVE  DevInv'
  <2>2. default \in Values /\ b \in Books /\ contacts \in Maps
    BY <1>2, <1>5, <1>7 DEF DeviceRows, TypeRemote
  <2>3. /\ x \in DeviceRows /\ x.cache = Snapshot /\ x.default = default
        /\ x.contacts = contacts /\ x.book = b /\ x.pending = y.pending /\ x.job = y.job
    BY <1>2, <1>4, <1>7, <2>2 DEF DeviceRows
  <2>5. x.pending \subseteq DOMAIN command' /\ JobOk(x.job)'
    BY <1>0, <1>2, <1>6, <2>3
  <2> QED BY <1>0, <1>1, <1>4, <1>7, <2>3, <2>5, RowStep, SameIsGrown
<1>8. CASE Load(d)
  <2>1. CASE dev' = [dev EXCEPT ![d].cache = Snapshot, ![d].default = policy,
                                ![d].readable = TRUE, ![d].contacts = contacts, ![d].book = book]
    <3>1. PICK x : x = [y EXCEPT !.cache = Snapshot, !.default = policy, !.readable = TRUE,
                                 !.contacts = contacts, !.book = book]
      OBVIOUS
    <3>2. dev' = [dev EXCEPT ![d] = x]
      BY <1>1, <1>3, <2>1, <3>1
    <3>3. policy \in {y.default, policy} /\ TRUE \in BOOLEAN /\ book \in {book, NoBook}
      OBVIOUS
    <3> QED BY <1>0, <1>7, <3>1, <3>2, <3>3
  <2>2. CASE dev' = [dev EXCEPT ![d].cache = Snapshot, ![d].readable = FALSE,
                                ![d].contacts = contacts, ![d].book = NoBook]
    <3>1. PICK x : x = [y EXCEPT !.cache = Snapshot, !.default = y.default, !.readable = FALSE,
                                 !.contacts = contacts, !.book = NoBook]
      OBVIOUS
    <3>2. x = [y EXCEPT !.cache = Snapshot, !.readable = FALSE, !.contacts = contacts,
                        !.book = NoBook]
      BY <1>2, <3>1 DEF DeviceRows
    <3>3. dev' = [dev EXCEPT ![d] = x]
      BY <1>1, <1>3, <2>2, <3>2
    <3>4. y.default \in {y.default, policy} /\ FALSE \in BOOLEAN /\ NoBook \in {book, NoBook}
      OBVIOUS
    <3> QED BY <1>0, <1>7, <3>1, <3>3, <3>4
  <2> QED BY <1>8, <2>1, <2>2 DEF Load
<1>9. CASE Reload(d)
  <2>1. PICK x : x = [y EXCEPT !.job = NoJob, !.pending = {}, !.ordered = FALSE]
    OBVIOUS
  <2>2. /\ x \in DeviceRows /\ x.cache = y.cache /\ x.default = y.default
        /\ x.contacts = y.contacts /\ x.book = y.book /\ x.pending = {} /\ x.job = NoJob
    BY <1>2, <2>1, NoJobOk DEF DeviceRows
  <2>3. dev' = [dev EXCEPT ![d] = x]
    BY <1>1, <1>3, <1>9, <2>1 DEF Reload
  <2>4. x.pending \subseteq DOMAIN command' /\ JobOk(x.job)'
    BY <1>6, <2>2
  <2> QED BY <1>0, <1>1, <2>2, <2>3, <2>4, RowStep, SameIsGrown
<1> QED BY <1>0, <1>8, <1>9

LEMMA DeviceStep ==
  ASSUME TypeRemote, TypeUplink, StoredInv, DevInv, NEW d \in Devices, Device(d)
  PROVE  TypeRemote' /\ StoredInv' /\ DevInv'
<1>1. CASE Choice(d) \/ Confirm(d) \/ Stop(d) \/ Load(d) \/ Reload(d)
  BY <1>1, ChoiceStep, WaitingSteps, LoadSteps, RemoteStays
<1>2. CASE ReadCapability(d) \/ Intend(d)
  <2>1. UNCHANGED remote
    BY <1>2 DEF ReadCapability, Intend
  <2> QED BY <1>2, <2>1, CapabilitySteps, IntendStep, RemoteStays
<1>3. CASE \/ PutLegacy(d) \/ LegacyAnswer(d) \/ SendIntent(d) \/ Refused(d) \/ Applied(d)
           \/ WriteDefault(d) \/ DefaultAnswer(d) \/ WriteBook(d) \/ BookAnswer(d)
           \/ ReadContacts(d) \/ WriteContacts(d) \/ ContactsAnswer(d)
  BY <1>3, LegacySteps, AnswerSteps, DefaultSteps, ContactsSteps, BookSteps
<1> QED BY <1>1, <1>2, <1>3 DEF Device

-----------------------------------------------------------------------------
(* The journal. *)

(* What a device does to the journal: nothing but an override without a    *)
(* stamp, an intent, or the intent's message.                              *)
Quiet ==
    /\ UNCHANGED <<uplink, queue, command>>
    /\ \A r \in Rooms : store'[r].op \in {store[r].op, 0}
Intends ==
    /\ UNCHANGED <<store, uplink, queue>>
    /\ \E row \in Commands : row.state = "sent" /\ command' = Append(command, row)
Sends ==
    /\ UNCHANGED <<store, uplink, command>>
    /\ \E c \in DOMAIN command \ (Read \cup Waiting) : queue' = Append(queue, c)

LEMMA DeviceJournal ==
  ASSUME TypeRemote, TypeUplink, StoredInv, DevInv, NEW d \in Devices, Device(d)
  PROVE  Quiet \/ Intends \/ Sends
<1>1. CASE Choice(d) \/ Confirm(d) \/ Stop(d) \/ Load(d) \/ Reload(d)
  BY <1>1, ChoiceStep, WaitingSteps, LoadSteps DEF Quiet
<1>2. CASE \/ ReadCapability(d) \/ LegacyAnswer(d) \/ Refused(d) \/ Applied(d)
           \/ WriteDefault(d) \/ DefaultAnswer(d)
           \/ ReadContacts(d) \/ WriteContacts(d) \/ ContactsAnswer(d)
           \/ WriteBook(d) \/ BookAnswer(d)
  <2>1. UNCHANGED <<store, uplink, queue, command>>
    BY <1>2 DEF ReadCapability, LegacyAnswer, Refused, Applied, WriteDefault, DefaultAnswer,
                ReadContacts, WriteContacts, ContactsAnswer, WriteBook, BookAnswer
  <2> QED BY <2>1 DEF Quiet
<1>3. CASE PutLegacy(d)
  <2>1. PICK row : row = [level |-> Job(d).level, op |-> 0, rev |-> 0]
    OBVIOUS
  <2>2. PICK q : q = Target(d)
    OBVIOUS
  <2>3. store' = [store EXCEPT ![q] = row] /\ UNCHANGED <<uplink, queue, command>>
    BY <1>3, <2>1, <2>2 DEF PutLegacy
  <2>4. row.op = 0
    BY <2>1
  <2>5. \A r \in Rooms : store'[r] = row \/ store'[r] = store[r]
    BY <2>3 DEF TypeRemote
  <2> QED BY <2>3, <2>4, <2>5 DEF Quiet
<1>4. CASE Intend(d)
  <2>1. UNCHANGED <<store, uplink, queue>>
    BY <1>4 DEF Intend
  <2>2. UNCHANGED command \/ \E row \in Commands : row.state = "sent" /\ command' = Append(command, row)
    BY <1>4, IntendFacts
  <2> QED BY <2>1, <2>2 DEF Quiet, Intends
<1>5. CASE SendIntent(d)
  <2>1. PICK c : c = Job(d).cmd
    OBVIOUS
  <2>2. /\ UNCHANGED <<store, uplink, command>>
        /\ queue' = IF c \in Waiting \cup Read THEN queue ELSE Append(queue, c)
    BY <1>5, <2>1 DEF SendIntent, Read, Waiting
  <2>3. c \in DOMAIN command
    BY <1>5, <2>1, JobFacts DEF SendIntent, At, JobOk
  <2>4. CASE c \in Waiting \cup Read
    BY <2>2, <2>4 DEF Quiet
  <2>5. CASE c \notin Waiting \cup Read
    BY <2>2, <2>3, <2>5 DEF Sends
  <2> QED BY <2>4, <2>5
<1> QED BY <1>1, <1>2, <1>3, <1>4, <1>5 DEF Device

JournalInv ==
    TypeUplink /\ RevisionInv /\ QueueInv /\ WriteInv /\ OrderInv /\ OneChangePerRevision

(* An intent that was appended.                                            *)
LEMMA Appended ==
  ASSUME TypeUplink, NEW row \in Commands, command' = Append(command, row)
  PROVE  /\ command' \in Seq(Commands) /\ Len(command) \in Nat
         /\ DOMAIN command = 1..Len(command)
         /\ DOMAIN command' = DOMAIN command \cup {Len(command) + 1}
         /\ Len(command) + 1 \notin DOMAIN command
         /\ \A c \in DOMAIN command : command'[c] = command[c]
         /\ command'[Len(command) + 1] = row
<1>1. command \in Seq(Commands) /\ Len(command) \in Nat /\ DOMAIN command = 1..Len(command)
  BY DEF TypeUplink
<1>2. command' \in Seq(Commands) /\ Len(command') = Len(command) + 1
      /\ DOMAIN command' = 1..(Len(command) + 1)
  BY <1>1
<1> QED BY <1>1, <1>2

LEMMA QuietStep ==
  ASSUME TypeRemote, JournalInv, Quiet PROVE JournalInv'
<1>1. TypeUplink'
  BY DEF Quiet, JournalInv, TypeUplink
<1>2. RevisionInv'
  BY DEF Quiet, JournalInv, RevisionInv
<1>3. QueueInv'
  BY DEF Quiet, JournalInv, QueueInv, Read, Waiting
<1>4. WriteInv'
  <2>1. Read' = Read /\ \A c \in Read : c # 0
    <3>1. DOMAIN command = 1..Len(command) /\ Read \subseteq DOMAIN command
      BY DEF JournalInv, TypeUplink, QueueInv
    <3>2. Read' = Read
      BY DEF Quiet, Read
    <3> QED BY <3>1, <3>2
  <2>2. flight' = flight /\ command' = command
        /\ \A r \in Rooms : store'[r].op \in {store[r].op, 0}
    BY DEF Quiet
  <2>3. \A c \in flight' : c \in Read' /\ command'[c].state = "prepared"
    BY <2>1, <2>2 DEF JournalInv, WriteInv
  <2>4. \A r \in Rooms : store'[r].op # 0 => store'[r].op \in Read'
    BY <2>1, <2>2 DEF JournalInv, WriteInv
  <2>5. \A c \in Read', r \in Rooms :
          c \in flight' \/ command'[c].state = "queued" => store'[r].op # c
    BY <2>1, <2>2 DEF JournalInv, WriteInv
  <2> QED BY <2>3, <2>4, <2>5 DEF WriteInv
<1>5. OrderInv'
  BY DEF Quiet, JournalInv, OrderInv, Unresolved
<1>6. OneChangePerRevision'
  BY DEF Quiet, JournalInv, OneChangePerRevision
<1> QED BY <1>6, <1>1, <1>2, <1>3, <1>4, <1>5 DEF JournalInv

LEMMA IntendsStep ==
  ASSUME TypeRemote, JournalInv, Intends PROVE JournalInv'
<1>0. PICK row \in Commands : row.state = "sent" /\ command' = Append(command, row)
  BY DEF Intends
<1> DEFINE n == Len(command) + 1
<1>1. /\ command' \in Seq(Commands) /\ DOMAIN command' = DOMAIN command \cup {n}
      /\ n \notin DOMAIN command /\ command'[n] = row
      /\ \A c \in DOMAIN command : command'[c] = command[c]
  BY <1>0, Appended DEF JournalInv
<1>2. Read' = Read /\ Waiting' = Waiting /\ Read \subseteq DOMAIN command
      /\ Waiting \subseteq DOMAIN command
  BY DEF Intends, Read, Waiting, JournalInv, QueueInv
<1> HIDE DEF n
<1>3. TypeUplink'
  BY <1>1 DEF Intends, JournalInv, TypeUplink
<1>4. RevisionInv'
  BY <1>0, <1>1 DEF Intends, JournalInv, RevisionInv
<1>5. QueueInv'
  BY <1>0, <1>1, <1>2 DEF Intends, JournalInv, QueueInv
<1>6. WriteInv'
  BY <1>1, <1>2 DEF Intends, JournalInv, WriteInv
<1>7. OrderInv'
  <2>1. \A i \in DOMAIN log : log[i] \in DOMAIN command
    BY <1>2 DEF Read
  <2>2. \A c \in DOMAIN command : Unresolved(c)' <=> Unresolved(c)
    BY <1>1 DEF Unresolved
  <2> QED BY <1>1, <2>1, <2>2 DEF Intends, JournalInv, OrderInv
<1>8. OneChangePerRevision'
  <2>1. DOMAIN command = 1..Len(command) /\ DOMAIN command' = 1..Len(command')
    <3>1. command \in Seq(Commands)
      BY DEF JournalInv, TypeUplink
    <3> QED BY <1>1, <3>1
  <2>2. ASSUME NEW b \in DOMAIN command', NEW e \in DOMAIN command', b # e,
               command'[b].room = command'[e].room, command'[b].base = command'[e].base,
               command'[b].state = "applied", command'[e].state = "applied"
        PROVE  FALSE
    <3>1. b # n /\ e # n
      BY <1>0, <1>1, <2>2
    <3>2. b \in DOMAIN command /\ e \in DOMAIN command
      BY <1>1, <3>1
    <3>3. command'[b] = command[b] /\ command'[e] = command[e]
      BY <1>1, <3>2
    <3> QED BY <2>1, <2>2, <3>2, <3>3 DEF JournalInv, OneChangePerRevision
  <2> QED BY <2>1, <2>2 DEF OneChangePerRevision
<1> QED BY <1>3, <1>4, <1>5, <1>6, <1>7, <1>8 DEF JournalInv

LEMMA SendsStep ==
  ASSUME TypeRemote, JournalInv, Sends PROVE JournalInv'
<1>0. PICK c \in DOMAIN command \ (Read \cup Waiting) : queue' = Append(queue, c)
  BY DEF Sends
<1>1. /\ c \in Nat /\ queue \in Seq(Nat) /\ Len(queue) \in Nat /\ DOMAIN queue = 1..Len(queue)
      /\ queue' \in Seq(Nat) /\ DOMAIN queue' = 1..(Len(queue) + 1)
      /\ \A i \in DOMAIN queue : queue'[i] = queue[i]
      /\ queue'[Len(queue) + 1] = c
  BY <1>0 DEF JournalInv, TypeUplink
<1>2. Read' = Read /\ Waiting' = Waiting \cup {c} /\ c \notin Waiting
  <2>1. Read' = Read /\ c \notin Waiting
    BY <1>0 DEF Sends, Read
  <2>2. Waiting' = Waiting \cup {c}
    <3>1. Waiting' = {queue'[i] : i \in DOMAIN queue'}
      BY DEF Waiting
    <3>2. \A i \in DOMAIN queue' : i \in DOMAIN queue \/ i = Len(queue) + 1
      BY <1>1
    <3>3. \A i \in DOMAIN queue \cup {Len(queue) + 1} : i \in DOMAIN queue'
      BY <1>1
    <3>4. \A x \in Waiting' : x \in Waiting \cup {c}
      BY <1>1, <3>1, <3>2 DEF Waiting
    <3>5. \A x \in Waiting \cup {c} : x \in Waiting'
      BY <1>1, <3>1, <3>3 DEF Waiting
    <3> QED BY <3>4, <3>5
  <2> QED BY <2>1, <2>2
<1>3. TypeUplink'
  BY <1>1 DEF Sends, JournalInv, TypeUplink
<1>4. RevisionInv'
  BY DEF Sends, JournalInv, RevisionInv
<1>5. QueueInv'
  <2>1. \A i, k \in DOMAIN queue' : queue'[i] = queue'[k] => i = k
    <3>1. \A i \in DOMAIN queue : queue[i] # c
      BY <1>2 DEF Waiting
    <3> QED BY <1>1, <3>1 DEF JournalInv, QueueInv
  <2> QED BY <1>0, <1>2, <2>1 DEF Sends, JournalInv, QueueInv
<1>6. WriteInv'
  BY <1>2 DEF Sends, JournalInv, WriteInv
<1>7. OrderInv'
  BY DEF Sends, JournalInv, OrderInv, Unresolved
<1>8. OneChangePerRevision'
  BY DEF Sends, JournalInv, OneChangePerRevision
<1> QED BY <1>8, <1>3, <1>4, <1>5, <1>6, <1>7 DEF JournalInv

(* The journal records a new state of one intent.                          *)
Recorded(c, s) ==
    /\ command' \in Seq(Commands) /\ DOMAIN command' = DOMAIN command
    /\ \A b \in DOMAIN command :
         command'[b].room = command[b].room /\ command'[b].base = command[b].base
    /\ \A b \in DOMAIN command \ {c} : command'[b] = command[b]
    /\ command'[c].state = s

LEMMA RowRecorded ==
  ASSUME TypeUplink, NEW c \in DOMAIN command, NEW row \in Commands,
         row.room = command[c].room, row.base = command[c].base,
         command' = [command EXCEPT ![c] = row]
  PROVE  Recorded(c, row.state) /\ command'[c] = row
<1>1. command \in Seq(Commands)
  BY DEF TypeUplink
<1>2. command' \in Seq(Commands) /\ DOMAIN command' = DOMAIN command
  BY <1>1
<1>3. \A b \in DOMAIN command : command'[b] = IF b = c THEN row ELSE command[b]
  BY <1>1
<1> QED BY <1>2, <1>3 DEF Recorded

LEMMA StateRecorded ==
  ASSUME TypeUplink, NEW c \in DOMAIN command, NEW s \in States,
         command' = [command EXCEPT ![c].state = s]
  PROVE  Recorded(c, s) /\ command'[c].rev = command[c].rev
<1>1. PICK old : old = command[c]
  OBVIOUS
<1>2. PICK row : row = [old EXCEPT !.state = s]
  OBVIOUS
<1>3. old \in Commands
  BY <1>1 DEF TypeUplink
<1>4. /\ row \in Commands /\ row.room = old.room /\ row.base = old.base /\ row.rev = old.rev
      /\ row.state = s
  BY <1>2, <1>3 DEF Commands
<1>5. command' = [command EXCEPT ![c] = row]
  BY <1>1, <1>2
<1> QED BY <1>1, <1>4, <1>5, RowRecorded

LEMMA RecordedQueue ==
  ASSUME JournalInv, NEW c \in Read, NEW s \in States \ {"sent"}, Recorded(c, s),
         UNCHANGED <<queue, log>>
  PROVE  QueueInv'
<1>1. Read' = Read /\ Waiting' = Waiting
  BY DEF Read, Waiting
<1>2. Read \subseteq DOMAIN command /\ command'[c].state # "sent"
  BY DEF JournalInv, QueueInv, Recorded
<1>3. \A b \in DOMAIN command' : command'[b].state = "sent" <=> b \notin Read'
  BY <1>1, <1>2 DEF JournalInv, QueueInv, Recorded
<1> QED BY <1>1, <1>3 DEF JournalInv, QueueInv, Recorded

LEMMA RecordedOrder ==
  ASSUME JournalInv, NEW c \in Read, NEW s \in States, Recorded(c, s), Unresolved(c),
         First(c) \/ command[c].state # "queued", UNCHANGED log
  PROVE  OrderInv'
<1>1. PICK l : l = log
  OBVIOUS
<1>2. /\ l' = log /\ DOMAIN l = 1..Len(l) /\ Len(l) \in Nat
      /\ \A i \in DOMAIN l : l[i] \in DOMAIN command
      /\ \A i, k \in DOMAIN l : l[i] = l[k] => i = k
  BY <1>1 DEF JournalInv, QueueInv, TypeUplink, Read
<1>3. \A i, k \in DOMAIN l :
        i < k /\ command[l[i]].room = command[l[k]].room /\ Unresolved(l[i])
            => command[l[k]].state = "queued"
  BY <1>1 DEF JournalInv, OrderInv
<1>4. ASSUME NEW i \in DOMAIN l, NEW k \in DOMAIN l, i < k,
             command'[l[i]].room = command'[l[k]].room,
             command'[l[i]].state \in {"queued", "prepared", "verifying"}
      PROVE  command'[l[k]].state = "queued"
  <2>1. command[l[i]].room = command[l[k]].room
    BY <1>2, <1>4 DEF Recorded
  <2>2. l[i] # l[k]
    BY <1>2, <1>4
  <2>3. CASE l[k] # c
    <3>1. command'[l[k]] = command[l[k]]
      BY <1>2, <2>3 DEF Recorded
    <3>2. Unresolved(l[i])
      BY <1>2, <1>4 DEF Recorded, Unresolved
    <3> QED BY <1>3, <1>4, <2>1, <3>1, <3>2
  <2>4. CASE l[k] = c
    <3>1. Unresolved(l[i])
      BY <1>2, <1>4, <2>2, <2>4 DEF Recorded, Unresolved
    <3>2. command[c].state = "queued"
      BY <1>3, <1>4, <2>1, <2>4, <3>1
    <3>3. PICK n \in DOMAIN l :
            /\ l[n] = c
            /\ \A m \in 1..(n - 1) : command[l[m]].room = command[c].room => ~Unresolved(l[m])
      BY <1>1, <3>2 DEF First
    <3>4. n = k
      BY <1>2, <2>4, <3>3
    <3>5. i \in 1..(n - 1)
      BY <1>2, <1>4, <3>4
    <3> QED BY <2>1, <2>4, <3>1, <3>3, <3>5
  <2> QED BY <2>3, <2>4
<1>5. log' = l
  BY <1>1
<1> QED BY <1>4, <1>5 DEF OrderInv, Unresolved

LEMMA RecordedRevision ==
  ASSUME JournalInv, TypeUplink', NEW c \in DOMAIN command, NEW s \in States, Recorded(c, s),
         announced, UNCHANGED announced,
         s \in {"prepared", "verifying", "applied"} => command'[c].rev = command[c].base + 1,
         s = "applied" => command'[c].rev <= observed'[command[c].room].rev,
         \A r \in Rooms : observed[r].rev <= observed'[r].rev
  PROVE  RevisionInv'
<1>1. \A b \in DOMAIN command : /\ command[b].room \in Rooms /\ command[b].rev \in Nat
                                /\ observed[command[b].room].rev \in Nat
                                /\ observed'[command[b].room].rev \in Nat
  <2>1. \A b \in DOMAIN command : command[b] \in Commands
    BY DEF JournalInv, TypeUplink
  <2>2. \A b \in DOMAIN command : command[b].room \in Rooms /\ command[b].rev \in Nat
    BY <2>1 DEF Commands
  <2>3. \A r \in Rooms : observed[r].rev \in Nat /\ observed'[r].rev \in Nat
    BY DEF JournalInv, TypeUplink
  <2> QED BY <2>2, <2>3
<1>2. ASSUME NEW b \in DOMAIN command, b # c
      PROVE  /\ command'[b].state \in {"prepared", "verifying", "applied"}
                  => command'[b].rev = command'[b].base + 1
             /\ command'[b].state = "applied"
                  => command'[b].rev <= observed'[command'[b].room].rev
  <2>1. command'[b] = command[b]
    BY <1>2 DEF Recorded
  <2> QED BY <1>1, <2>1 DEF JournalInv, RevisionInv
<1>3. /\ command'[c].state \in {"prepared", "verifying", "applied"}
           => command'[c].rev = command'[c].base + 1
      /\ command'[c].state = "applied" => command'[c].rev <= observed'[command'[c].room].rev
  BY DEF Recorded
<1>4. DOMAIN command' = DOMAIN command
  BY DEF Recorded
<1> QED BY <1>2, <1>3, <1>4 DEF RevisionInv

LEMMA RecordedChange ==
  ASSUME JournalInv, NEW c \in DOMAIN command, NEW s \in States, Recorded(c, s), s # "applied"
  PROVE  OneChangePerRevision'
<1>1. DOMAIN command = 1..Len(command) /\ DOMAIN command' = 1..Len(command')
  BY DEF JournalInv, TypeUplink, Recorded
<1>2. ASSUME NEW b \in DOMAIN command, command'[b].state = "applied"
      PROVE  command[b].state = "applied"
  BY <1>2 DEF Recorded
<1>3. ASSUME NEW b \in DOMAIN command, NEW e \in DOMAIN command, b # e,
             command'[b].room = command'[e].room, command'[b].base = command'[e].base
      PROVE  ~(command'[b].state = "applied" /\ command'[e].state = "applied")
  <2>1. command[b].room = command[e].room /\ command[b].base = command[e].base
    BY <1>3 DEF Recorded
  <2>2. ~(command[b].state = "applied" /\ command[e].state = "applied")
    BY <1>1, <1>3, <2>1 DEF JournalInv, OneChangePerRevision
  <2> QED BY <1>2, <2>2
<1>4. DOMAIN command' = DOMAIN command
  BY DEF Recorded
<1> QED BY <1>1, <1>3, <1>4 DEF OneChangePerRevision

LEMMA FirstFacts ==
  ASSUME JournalInv, NEW c, First(c)
  PROVE  /\ c \in Read /\ c \in DOMAIN command /\ Unresolved(c) /\ announced
         /\ command[c] \in Commands /\ c \in Nat \ {0}
<1>1. c \in Read /\ Unresolved(c)
  BY DEF First, Read
<1>2. c \in DOMAIN command
  BY <1>1 DEF JournalInv, QueueInv
<1>3. command \in Seq(Commands)
  BY DEF JournalInv, TypeUplink
<1>4. command[c].state # "sent"
  BY <1>1 DEF Unresolved
<1>5. announced
  BY <1>2, <1>4 DEF JournalInv, RevisionInv
<1> QED BY <1>1, <1>2, <1>3, <1>5

LEMMA ObservationFacts ==
  ASSUME TypeRemote, TypeUplink, NEW r \in Rooms
  PROVE  /\ Observation(r) \in [rev : Nat, content : Overrides]
         /\ observed[r].rev <= Observation(r).rev
<1>1. store[r] \in Overrides /\ observed[r] \in [rev : Nat, content : Overrides]
  BY DEF TypeRemote, TypeUplink
<1> QED BY <1>1 DEF Observation

LEMMA AnnounceStep == ASSUME TypeRemote, JournalInv, Announce PROVE JournalInv'
<1>1. /\ announced' = TRUE /\ UNCHANGED <<store, queue, log, command, flight, published>>
      /\ observed' = [r \in Rooms |-> [rev |-> 0, content |-> store[r]]] /\ ~announced
  BY DEF Announce
<1>2. observed' \in [Rooms -> [rev : Nat, content : Overrides]]
  BY <1>1 DEF TypeRemote
<1>3. TypeUplink'
  BY <1>1, <1>2 DEF JournalInv, TypeUplink
<1>4. RevisionInv'
  BY <1>1 DEF JournalInv, RevisionInv
<1>5. QueueInv'
  BY <1>1 DEF JournalInv, QueueInv, Read, Waiting
<1>6. WriteInv'
  BY <1>1 DEF JournalInv, WriteInv, Read
<1>7. OrderInv'
  BY <1>1 DEF JournalInv, OrderInv, Unresolved
<1>8. OneChangePerRevision'
  BY <1>1 DEF JournalInv, OneChangePerRevision
<1> QED BY <1>8, <1>3, <1>4, <1>5, <1>6, <1>7 DEF JournalInv

LEMMA ProcessStep ==
  ASSUME TypeRemote, JournalInv, NEW c, Process(c)
  PROVE  JournalInv'
<1>1. /\ First(c) /\ command[c].state = "queued"
      /\ UNCHANGED <<store, announced, queue, log, published>>
  BY DEF Process
<1>2. /\ c \in Read /\ c \in DOMAIN command /\ Unresolved(c) /\ announced
      /\ command[c] \in Commands
  BY <1>1, FirstFacts
<1>3. PICK r : r = command[c].room
  OBVIOUS
<1>4. PICK o : o = Observation(r)
  OBVIOUS
<1>5. r \in Rooms /\ o \in [rev : Nat, content : Overrides] /\ observed[r].rev <= o.rev
  <2>1. r \in Rooms
    BY <1>2, <1>3 DEF Commands
  <2> QED BY <1>4, <2>1, ObservationFacts DEF JournalInv
<1>6. observed' = [observed EXCEPT ![r] = o]
  BY <1>3, <1>4 DEF Process
<1>7. /\ observed' \in [Rooms -> [rev : Nat, content : Overrides]]
      /\ \A q \in Rooms : observed[q].rev <= observed'[q].rev
  BY <1>5, <1>6 DEF JournalInv, TypeUplink
<1>8. ASSUME NEW s \in {"rejected", "prepared"}, Recorded(c, s), flight' \subseteq flight \cup {c},
             s = "prepared" => command'[c].rev = command[c].base + 1,
             s = "rejected" => flight' = flight
      PROVE  JournalInv'
  <2>0. s \in States /\ s # "sent"
    BY DEF States
  <2>1. TypeUplink'
    BY <1>1, <1>7, <1>8 DEF JournalInv, TypeUplink, Recorded
  <2>2. RevisionInv'
    BY <1>1, <1>2, <1>7, <1>8, <2>0, <2>1, RecordedRevision
  <2>3. QueueInv'
    BY <1>1, <1>2, <1>8, <2>0, RecordedQueue
  <2>4. WriteInv'
    <3>1. Read' = Read /\ Read \subseteq DOMAIN command /\ c \notin flight
      BY <1>1 DEF Read, JournalInv, QueueInv, WriteInv
    <3>2. \A b \in flight' : b \in Read' /\ command'[b].state = "prepared"
      <4>1. ASSUME NEW b \in flight', b # c PROVE b \in Read' /\ command'[b].state = "prepared"
        <5>1. b \in flight /\ b \in Read /\ command[b].state = "prepared" /\ b \in DOMAIN command
          BY <1>8, <3>1, <4>1 DEF JournalInv, WriteInv
        <5> QED BY <1>8, <3>1, <4>1, <5>1 DEF Recorded
      <4>2. c \in flight' => command'[c].state = "prepared"
        BY <1>8, <3>1 DEF Recorded
      <4> QED BY <1>2, <3>1, <4>1, <4>2
    <3>3. \A b \in Read', q \in Rooms :
            b \in flight' \/ command'[b].state = "queued" => store'[q].op # b
      <4>1. \A q \in Rooms : store[q].op # c
        BY <1>1, <1>2 DEF JournalInv, WriteInv
      <4>2. ASSUME NEW b \in Read, b # c, b \in flight' \/ command'[b].state = "queued"
            PROVE  b \in flight \/ command[b].state = "queued"
        BY <1>8, <3>1, <4>2 DEF Recorded
      <4>3. \A b \in Read, q \in Rooms :
              b \in flight \/ command[b].state = "queued" => store[q].op # b
        BY DEF JournalInv, WriteInv
      <4> QED BY <1>1, <3>1, <4>1, <4>2, <4>3
    <3> QED BY <1>1, <3>1, <3>2, <3>3 DEF JournalInv, WriteInv
  <2>5. OrderInv'
    BY <1>1, <1>2, <1>8, <2>0, RecordedOrder
  <2>6. OneChangePerRevision'
    BY <1>2, <1>8, <2>0, RecordedChange
  <2> QED BY <2>1, <2>2, <2>3, <2>4, <2>5, <2>6 DEF JournalInv
<1>9. CASE Stale(c, o.rev)
  <2>1. command' = [command EXCEPT ![c].state = "rejected"] /\ flight' = flight
    BY <1>3, <1>4, <1>9 DEF Process
  <2>2. Recorded(c, "rejected")
    BY <1>2, <2>1, StateRecorded DEF JournalInv, States
  <2> QED BY <1>8, <2>1, <2>2
<1>10. CASE ~Stale(c, o.rev)
  <2>1. /\ command' = [command EXCEPT ![c].state = "prepared", ![c].rev = o.rev + 1,
                                      ![c].prev = o.content]
        /\ flight' = flight \cup {c}
    BY <1>3, <1>4, <1>10 DEF Process
  <2>2. o.rev = command[c].base
    BY <1>10 DEF Stale
  <2>3. PICK old : old = command[c]
    OBVIOUS
  <2>4. PICK row : row = [old EXCEPT !.state = "prepared", !.rev = o.rev + 1, !.prev = o.content]
    OBVIOUS
  <2>5. /\ row \in Commands /\ row.room = old.room /\ row.base = old.base
        /\ row.rev = o.rev + 1 /\ row.state = "prepared"
    <3>1. old \in Commands /\ o.rev + 1 \in Nat /\ o.content \in Overrides /\ "prepared" \in States
      BY <1>2, <1>5, <2>3 DEF States
    <3>2. PICK n : n = o.rev + 1
      OBVIOUS
    <3>3. PICK z : z = o.content
      OBVIOUS
    <3>4. row = [[[old EXCEPT !.state = "prepared"] EXCEPT !.rev = n] EXCEPT !.prev = z]
      BY <2>4, <3>2, <3>3
    <3> QED BY <3>1, <3>2, <3>3, <3>4 DEF Commands
  <2>6. command' = [command EXCEPT ![c] = row]
    BY <2>1, <2>3, <2>4
  <2>7. Recorded(c, "prepared") /\ command'[c] = row
    BY <1>2, <2>3, <2>5, <2>6, RowRecorded DEF JournalInv
  <2> QED BY <1>8, <2>1, <2>2, <2>5, <2>7
<1> QED BY <1>9, <1>10

LEMMA IngestStep ==
  ASSUME TypeRemote, JournalInv, Ingest PROVE JournalInv'
<1>1. PICK h : h = Head(queue)
  OBVIOUS
<1>2. /\ announced /\ queue # <<>> /\ queue' = Tail(queue) /\ log' = Append(log, h)
      /\ command' = [command EXCEPT ![h].state = "queued"]
      /\ UNCHANGED <<store, announced, flight, observed, published>>
  BY <1>1 DEF Ingest
<1>3. queue \in Seq(Nat) /\ log \in Seq(Nat) /\ Len(queue) \in Nat \ {0} /\ Len(log) \in Nat
  BY <1>2 DEF JournalInv, TypeUplink
<1>4. /\ queue' \in Seq(Nat) /\ DOMAIN queue = 1..Len(queue)
      /\ DOMAIN queue' = 1..(Len(queue) - 1)
      /\ \A i \in DOMAIN queue' : queue'[i] = queue[i + 1]
      /\ h = queue[1]
  BY <1>1, <1>2, <1>3
<1>5. h \in Waiting /\ h \in DOMAIN command /\ h \notin Read /\ h \in Nat /\ h # 0
  <2>1. h \in Waiting
    <3>1. 1 \in DOMAIN queue /\ queue[1] = h
      BY <1>3, <1>4
    <3> QED BY <3>1 DEF Waiting
  <2>2. h \in DOMAIN command /\ h \notin Read
    BY <2>1 DEF JournalInv, QueueInv
  <2>3. DOMAIN command = 1..Len(command) /\ Len(command) \in Nat
    BY DEF JournalInv, TypeUplink
  <2> QED BY <2>1, <2>2, <2>3
<1>6. /\ log' \in Seq(Nat) /\ DOMAIN log = 1..Len(log) /\ DOMAIN log' = 1..(Len(log) + 1)
      /\ \A i \in DOMAIN log : log'[i] = log[i]
      /\ log'[Len(log) + 1] = h
  BY <1>2, <1>3, <1>5
<1>7. Read' = Read \cup {h}
  <2>1. Read' = {log'[i] : i \in DOMAIN log'}
    BY DEF Read
  <2>2. \A i \in DOMAIN log' : i \in DOMAIN log \/ i = Len(log) + 1
    BY <1>3, <1>6
  <2>3. \A i \in DOMAIN log \cup {Len(log) + 1} : i \in DOMAIN log'
    BY <1>3, <1>6
  <2>4. \A x \in Read' : x \in Read \cup {h}
    BY <1>6, <2>1, <2>2 DEF Read
  <2>5. \A x \in Read \cup {h} : x \in Read'
    BY <1>6, <2>1, <2>3 DEF Read
  <2> QED BY <2>4, <2>5
<1>8. Waiting' \subseteq Waiting \ {h} /\ \A i, k \in DOMAIN queue' : queue'[i] = queue'[k] => i = k
  <2>1. ASSUME NEW i \in DOMAIN queue'
        PROVE  i + 1 \in DOMAIN queue /\ i \in Nat /\ i # 0 /\ queue'[i] = queue[i + 1]
    BY <1>3, <1>4
  <2>2. \A i, k \in DOMAIN queue : queue[i] = queue[k] => i = k
    BY DEF JournalInv, QueueInv
  <2>3. 1 \in DOMAIN queue
    BY <1>3, <1>4
  <2>4. \A i \in DOMAIN queue' : queue'[i] \in Waiting \ {h}
    BY <1>4, <2>1, <2>2, <2>3 DEF Waiting
  <2>5. Waiting' = {queue'[i] : i \in DOMAIN queue'}
    BY DEF Waiting
  <2>6. \A i, k \in DOMAIN queue' : queue'[i] = queue'[k] => i = k
    BY <2>1, <2>2
  <2> QED BY <2>4, <2>5, <2>6
<1>9. Recorded(h, "queued")
  BY <1>2, <1>5, StateRecorded DEF JournalInv, States
<1>10. \A b \in Read : b \in DOMAIN command /\ b # h /\ command'[b] = command[b]
  BY <1>5, <1>9 DEF JournalInv, QueueInv, Recorded
<1>11. TypeUplink'
  BY <1>2, <1>4, <1>6, <1>9 DEF JournalInv, TypeUplink, Recorded
<1>12. RevisionInv'
  <2>1. \A r \in Rooms : observed[r].rev <= observed'[r].rev
    BY <1>2 DEF JournalInv, TypeUplink
  <2> QED BY <1>2, <1>5, <1>9, <1>11, <2>1, RecordedRevision DEF States
<1>13. QueueInv'
  <2>1. /\ Read \subseteq DOMAIN command /\ Waiting \subseteq DOMAIN command
        /\ Read \cap Waiting = {} /\ \A i, k \in DOMAIN log : log[i] = log[k] => i = k
        /\ \A b \in DOMAIN command : command[b].state = "sent" <=> b \notin Read
    BY DEF JournalInv, QueueInv
  <2>2. \A i, k \in DOMAIN log' : log'[i] = log'[k] => i = k
    <3>1. \A i \in DOMAIN log : log'[i] \in Read
      BY <1>6 DEF Read
    <3>2. \A i \in DOMAIN log : log'[i] # h
      BY <1>5, <3>1
    <3>3. \A i \in DOMAIN log' : i \in DOMAIN log \/ i = Len(log) + 1
      BY <1>3, <1>6
    <3> QED BY <1>6, <2>1, <3>2, <3>3
  <2>3. \A b \in DOMAIN command' : command'[b].state = "sent" <=> b \notin Read'
    BY <1>7, <1>9, <2>1 DEF Recorded
  <2>4. DOMAIN command' = DOMAIN command
    BY <1>9 DEF Recorded
  <2>5. Read' \subseteq DOMAIN command' /\ Waiting' \subseteq DOMAIN command'
        /\ Read' \cap Waiting' = {}
    BY <1>5, <1>7, <1>8, <2>1, <2>4
  <2> QED BY <1>8, <2>2, <2>3, <2>5 DEF QueueInv
<1>14. WriteInv'
  <2>1. \A b \in flight' : b \in Read' /\ command'[b].state = "prepared"
    BY <1>2, <1>7, <1>10 DEF JournalInv, WriteInv
  <2>2. \A r \in Rooms : store'[r].op # 0 => store'[r].op \in Read'
    BY <1>2, <1>7 DEF JournalInv, WriteInv
  <2>3. \A r \in Rooms : store[r].op # h
    BY <1>5 DEF JournalInv, WriteInv
  <2>4. \A b \in Read', r \in Rooms :
          b \in flight' \/ command'[b].state = "queued" => store'[r].op # b
    BY <1>2, <1>7, <1>10, <2>3 DEF JournalInv, WriteInv
  <2> QED BY <2>1, <2>2, <2>4 DEF WriteInv
<1>15. OrderInv'
  <2>1. ASSUME NEW i \in DOMAIN log', NEW k \in DOMAIN log', i < k,
               command'[log'[i]].room = command'[log'[k]].room,
               command'[log'[i]].state \in {"queued", "prepared", "verifying"}
        PROVE  command'[log'[k]].state = "queued"
    <3>1. CASE k = Len(log) + 1
      BY <1>6, <1>9, <3>1 DEF Recorded
    <3>2. CASE k # Len(log) + 1
      <4>1. i \in DOMAIN log /\ k \in DOMAIN log
        BY <1>3, <1>6, <2>1, <3>2
      <4>2. log[i] \in Read /\ log[k] \in Read /\ log'[i] = log[i] /\ log'[k] = log[k]
        BY <1>6, <4>1 DEF Read
      <4>3. command'[log[i]] = command[log[i]] /\ command'[log[k]] = command[log[k]]
        BY <1>10, <4>2
      <4> QED BY <2>1, <4>1, <4>2, <4>3 DEF JournalInv, OrderInv, Unresolved
    <3> QED BY <3>1, <3>2
  <2> QED BY <2>1 DEF OrderInv, Unresolved
<1>16. OneChangePerRevision'
  BY <1>5, <1>9, RecordedChange DEF States
<1> QED BY <1>16, <1>11, <1>12, <1>13, <1>14, <1>15 DEF JournalInv

(* What holds of an intent whose write may still land.                     *)
LEMMA FlightFacts ==
  ASSUME JournalInv, NEW c \in flight
  PROVE  /\ c \in Read /\ c \in DOMAIN command /\ command[c] \in Commands /\ c \in Nat
         /\ command[c].state = "prepared" /\ command[c].room \in Rooms /\ c # 0
<1>1. c \in Read /\ command[c].state = "prepared"
  BY DEF JournalInv, WriteInv
<1>2. c \in DOMAIN command
  BY <1>1 DEF JournalInv, QueueInv
<1>3. command[c] \in Commands /\ c \in Nat /\ c # 0
  BY <1>2 DEF JournalInv, TypeUplink
<1> QED BY <1>1, <1>2, <1>3 DEF Commands

LEMMA LandsStep ==
  ASSUME TypeRemote, StoredInv, DevInv, JournalInv, NEW c, Lands(c)
  PROVE  TypeRemote' /\ StoredInv' /\ DevInv' /\ JournalInv'
<1>1. /\ c \in flight /\ flight' = flight \ {c}
      /\ UNCHANGED <<policy, contacts, book, announced, queue, log, command, observed,
                     published, dev>>
  BY DEF Lands
<1>2. /\ c \in Read /\ c \in DOMAIN command /\ command[c] \in Commands /\ c \in Nat
      /\ command[c].state = "prepared"
  BY <1>1, FlightFacts
<1>3. PICK r : r = command[c].room
  OBVIOUS
<1>4. PICK row : row = Intended(c)
  OBVIOUS
<1>5. r \in Rooms /\ row \in Overrides /\ row.level = command[c].level /\ row.op = c
  BY <1>2, <1>3, <1>4 DEF Intended, Commands, Overrides
<1>6. /\ store' = [store EXCEPT ![r] = row]
      /\ ever' = [ever EXCEPT !.level[r] = @ \cup {row.level}]
  BY <1>3, <1>4, <1>5 DEF Lands
<1>7. TypeRemote' /\ StoredInv' /\ Grown
  BY <1>1, <1>5, <1>6, LevelStored
<1>8. DevInv'
  BY <1>1, <1>7, DevStays
<1>9. \A q \in Rooms : store'[q].op = IF q = r THEN c ELSE store[q].op
  BY <1>5, <1>6 DEF TypeRemote
<1>10. TypeUplink' /\ RevisionInv'
  BY <1>1 DEF JournalInv, TypeUplink, RevisionInv
<1>11. QueueInv' /\ Read' = Read
  BY <1>1 DEF JournalInv, QueueInv, Read, Waiting
<1>12. WriteInv'
  <2>1. \A b \in flight' : b \in Read' /\ command'[b].state = "prepared"
    BY <1>1, <1>11 DEF JournalInv, WriteInv
  <2>2. \A q \in Rooms : store'[q].op # 0 => store'[q].op \in Read'
    BY <1>2, <1>9, <1>11 DEF JournalInv, WriteInv
  <2>3. \A b \in Read', q \in Rooms :
          b \in flight' \/ command'[b].state = "queued" => store'[q].op # b
    BY <1>1, <1>2, <1>9, <1>11 DEF JournalInv, WriteInv
  <2> QED BY <2>1, <2>2, <2>3 DEF WriteInv
<1>13. OrderInv'
  BY <1>1 DEF JournalInv, OrderInv, Unresolved
<1>14. OneChangePerRevision'
  BY <1>1 DEF JournalInv, OneChangePerRevision
<1> QED BY <1>14, <1>7, <1>8, <1>10, <1>11, <1>12, <1>13 DEF JournalInv

LEMMA VanishesStep == ASSUME TypeRemote, JournalInv, NEW c, Vanishes(c) PROVE JournalInv'
<1>1. /\ flight' = flight \ {c}
      /\ UNCHANGED <<store, announced, queue, log, command, observed, published>>
  BY DEF Vanishes
<1>2. TypeUplink' /\ RevisionInv'
  BY <1>1 DEF JournalInv, TypeUplink, RevisionInv
<1>3. QueueInv' /\ Read' = Read
  BY <1>1 DEF JournalInv, QueueInv, Read, Waiting
<1>4. WriteInv'
  BY <1>1, <1>3 DEF JournalInv, WriteInv
<1>5. OrderInv'
  BY <1>1 DEF JournalInv, OrderInv, Unresolved
<1>6. OneChangePerRevision'
  BY <1>1 DEF JournalInv, OneChangePerRevision
<1> QED BY <1>6, <1>2, <1>3, <1>4, <1>5 DEF JournalInv

LEMMA PublishStep == ASSUME TypeRemote, JournalInv, NEW c, Publish(c) PROVE JournalInv'
<1>1. /\ UNCHANGED <<store, announced, queue, log, command, flight, observed>>
      /\ c \in DOMAIN command
      /\ published' = [published EXCEPT ![command[c].room] = observed[command[c].room].rev]
  BY DEF Publish, JournalInv, TypeUplink
<1>2. command[c] \in Commands
  BY <1>1 DEF JournalInv, TypeUplink
<1>3. observed[command[c].room].rev \in Nat
  BY <1>2 DEF JournalInv, TypeUplink, Commands
<1>4. TypeUplink'
  BY <1>1, <1>3 DEF JournalInv, TypeUplink
<1>5. RevisionInv'
  BY <1>1 DEF JournalInv, RevisionInv
<1>6. QueueInv' /\ Read' = Read
  BY <1>1 DEF JournalInv, QueueInv, Read, Waiting
<1>7. WriteInv'
  BY <1>1, <1>6 DEF JournalInv, WriteInv
<1>8. OrderInv'
  BY <1>1 DEF JournalInv, OrderInv, Unresolved
<1>9. OneChangePerRevision'
  BY <1>1 DEF JournalInv, OneChangePerRevision
<1> QED BY <1>9, <1>4, <1>5, <1>6, <1>7, <1>8 DEF JournalInv

LEMMA PutAnsweredStep ==
  ASSUME TypeRemote, JournalInv, NEW c \in DOMAIN command, PutAnswered(c)
  PROVE  JournalInv'
<1>1. /\ command[c].state = "prepared"
      /\ UNCHANGED <<store, announced, queue, log, observed, published>>
  BY DEF PutAnswered
<1>2. c \in Read /\ announced
  BY <1>1 DEF JournalInv, QueueInv, RevisionInv
<1>3. PICK s \in {"verifying", "rejected", "queued"} :
        /\ command' = [command EXCEPT ![c].state = s]
        /\ c \notin flight' /\ flight' \subseteq flight
        /\ s = "queued" => c \in flight
  BY DEF PutAnswered
<1>4. s \in States /\ s # "sent" /\ Recorded(c, s) /\ command'[c].rev = command[c].rev
  <2>1. s \in States /\ s # "sent"
    BY DEF States
  <2> QED BY <1>3, <2>1, StateRecorded DEF JournalInv
<1>5. Read' = Read /\ Read \subseteq DOMAIN command
  BY <1>1 DEF Read, JournalInv, QueueInv
<1>6. TypeUplink'
  BY <1>1, <1>4 DEF JournalInv, TypeUplink, Recorded
<1>7. RevisionInv'
  <2>1. command'[c].rev = command[c].base + 1
    BY <1>1, <1>4 DEF JournalInv, RevisionInv
  <2>2. \A r \in Rooms : observed[r].rev <= observed'[r].rev
    BY <1>1 DEF JournalInv, TypeUplink
  <2> QED BY <1>1, <1>2, <1>3, <1>4, <1>6, <2>1, <2>2, RecordedRevision
<1>8. QueueInv'
  BY <1>1, <1>2, <1>4, RecordedQueue
<1>9. WriteInv'
  <2>1. \A b \in flight' : b \in Read' /\ command'[b].state = "prepared"
    <3>1. ASSUME NEW b \in flight' PROVE b \in Read' /\ command'[b].state = "prepared"
      <4>1. b \in flight /\ b # c /\ b \in Read /\ command[b].state = "prepared"
        BY <1>3 DEF JournalInv, WriteInv
      <4> QED BY <1>4, <1>5, <4>1 DEF Recorded
    <3> QED BY <3>1
  <2>2. ASSUME NEW b \in Read, b \in flight' \/ command'[b].state = "queued"
        PROVE  b \in flight \/ command[b].state = "queued"
    BY <1>3, <1>4, <1>5, <2>2 DEF Recorded
  <2>3. \A b \in Read, q \in Rooms :
          b \in flight \/ command[b].state = "queued" => store[q].op # b
    BY DEF JournalInv, WriteInv
  <2> QED BY <1>1, <1>5, <2>1, <2>2, <2>3 DEF JournalInv, WriteInv
<1>10. OrderInv'
  <2>1. Unresolved(c) /\ command[c].state # "queued"
    BY <1>1 DEF Unresolved
  <2> QED BY <1>1, <1>2, <1>4, <2>1, RecordedOrder
<1>11. OneChangePerRevision'
  BY <1>3, <1>4, RecordedChange
<1> QED BY <1>11, <1>6, <1>7, <1>8, <1>9, <1>10 DEF JournalInv

(* Applied is recorded only on top of the revision before it.              *)
LEMMA ReconcileFacts ==
  ASSUME TypeRemote, JournalInv, NEW c, Reconcile(c)
  PROVE  /\ First(c) /\ c \in Read /\ c \in DOMAIN command /\ announced /\ Unresolved(c)
         /\ command[c].rev = command[c].base + 1 /\ command[c].room \in Rooms
         /\ command[c].state \in {"prepared", "verifying"}
         /\ Recorded(c, Reconciled(c)) /\ command'[c].rev = command[c].rev
         /\ Reconciled(c) \in {"applied", "unknown", "prepared"}
         /\ Reconciled(c) = "applied" => observed[command[c].room].rev = command[c].rev - 1
         /\ c \in flight => Reconciled(c) = "prepared"
<1>1. /\ First(c) /\ command[c].state \in {"prepared", "verifying"}
      /\ command' = [command EXCEPT ![c].state = Reconciled(c)]
  BY DEF Reconcile
<1>2. c \in Read /\ c \in DOMAIN command /\ announced /\ Unresolved(c) /\ command[c] \in Commands
  BY <1>1, FirstFacts
<1>3. command[c].room \in Rooms /\ command[c].rev = command[c].base + 1
  BY <1>1, <1>2 DEF JournalInv, RevisionInv, Commands
<1>4. /\ Reconciled(c) \in {"applied", "unknown", "prepared"}
      /\ Reconciled(c) = "applied" => observed[command[c].room].rev = command[c].rev - 1
  BY DEF Reconciled
<1>5. ASSUME c \in flight PROVE Reconciled(c) = "prepared"
  <2>1. command[c].state = "prepared" /\ store[command[c].room].op # c
    BY <1>2, <1>3, <1>5 DEF JournalInv, WriteInv
  <2>2. Intended(c).op = c
    BY DEF Intended
  <2>3. store[command[c].room] # Intended(c)
    BY <2>1, <2>2
  <2> QED BY <2>1, <2>3 DEF Reconciled
<1>6. Recorded(c, Reconciled(c)) /\ command'[c].rev = command[c].rev
  <2>1. Reconciled(c) \in States
    BY <1>4 DEF States
  <2> QED BY <1>1, <1>2, <2>1, StateRecorded DEF JournalInv
<1> QED BY <1>1, <1>2, <1>3, <1>4, <1>5, <1>6

LEMMA ReconcileStep == ASSUME TypeRemote, JournalInv, NEW c, Reconcile(c) PROVE JournalInv'
<1>1. PICK s : s = Reconciled(c)
  OBVIOUS
<1>2. PICK r : r = command[c].room
  OBVIOUS
<1>3. /\ First(c) /\ c \in Read /\ c \in DOMAIN command /\ announced /\ Unresolved(c)
      /\ command[c].rev = command[c].base + 1 /\ r \in Rooms
      /\ Recorded(c, s) /\ command'[c].rev = command[c].rev
      /\ s \in {"applied", "unknown", "prepared"}
      /\ s = "applied" => observed[r].rev = command[c].rev - 1
      /\ c \in flight => s = "prepared"
      /\ command[c].state \in {"prepared", "verifying"}
  BY <1>1, <1>2, ReconcileFacts
<1>4. s \in States \ {"sent", "queued"} /\ command[c] \in Commands
  BY <1>3, FirstFacts DEF States
<1>5. /\ UNCHANGED <<store, announced, queue, log, flight, published>>
      /\ observed' = [observed EXCEPT ![r] = IF s = "applied"
                                             THEN [rev |-> command[c].rev, content |-> store[r]]
                                             ELSE Observation(r)]
  BY <1>1, <1>2 DEF Reconcile
<1>6. PICK o : o = IF s = "applied" THEN [rev |-> command[c].rev, content |-> store[r]]
                   ELSE Observation(r)
  OBVIOUS
<1>7. observed' = [observed EXCEPT ![r] = o]
  BY <1>5, <1>6
<1>8. /\ o \in [rev : Nat, content : Overrides] /\ observed[r].rev <= o.rev
      /\ s = "applied" => o.rev = command[c].rev
  <2>1. CASE s = "applied"
    <3>1. command[c].rev \in Nat /\ store[r] \in Overrides /\ observed[r].rev \in Nat
      BY <1>3, <1>4 DEF Commands, TypeRemote, JournalInv, TypeUplink
    <3> QED BY <1>3, <1>6, <2>1, <3>1
  <2>2. CASE s # "applied"
    BY <1>3, <1>6, <2>2, ObservationFacts DEF JournalInv
  <2> QED BY <2>1, <2>2
<1>9. /\ observed' \in [Rooms -> [rev : Nat, content : Overrides]]
      /\ \A q \in Rooms : observed[q].rev <= observed'[q].rev
      /\ observed'[r] = o
  BY <1>3, <1>7, <1>8 DEF JournalInv, TypeUplink
<1>10. TypeUplink'
  BY <1>3, <1>5, <1>9 DEF JournalInv, TypeUplink, Recorded
<1>11. RevisionInv'
  <2>1. s = "applied" => command'[c].rev <= observed'[command[c].room].rev
    BY <1>2, <1>3, <1>4, <1>8, <1>9 DEF Commands
  <2> QED BY <1>3, <1>4, <1>5, <1>9, <1>10, <2>1, RecordedRevision
<1>12. QueueInv'
  BY <1>3, <1>4, <1>5, RecordedQueue
<1>13. WriteInv'
  <2>1. Read' = Read /\ Read \subseteq DOMAIN command
    BY <1>5 DEF Read, JournalInv, QueueInv
  <2>2. \A b \in flight' : b \in Read' /\ command'[b].state = "prepared"
    <3>1. ASSUME NEW b \in flight PROVE b \in Read /\ command'[b].state = "prepared"
      <4>1. b \in Read /\ b \in DOMAIN command /\ command[b].state = "prepared"
        BY <2>1 DEF JournalInv, WriteInv
      <4> QED BY <1>3, <4>1 DEF Recorded
    <3> QED BY <1>5, <2>1, <3>1
  <2>3. ASSUME NEW b \in Read, b \in flight' \/ command'[b].state = "queued"
        PROVE  b \in flight \/ command[b].state = "queued"
    BY <1>3, <1>4, <1>5, <2>1, <2>3 DEF Recorded
  <2>4. \A b \in Read, q \in Rooms :
          b \in flight \/ command[b].state = "queued" => store[q].op # b
    BY DEF JournalInv, WriteInv
  <2> QED BY <1>5, <2>1, <2>2, <2>3, <2>4 DEF JournalInv, WriteInv
<1>14. OrderInv'
  BY <1>3, <1>4, <1>5, RecordedOrder
<1>15. OneChangePerRevision'
  <2>1. CASE s # "applied"
    BY <1>3, <1>4, <2>1, RecordedChange
  <2>2. CASE s = "applied"
    <3>1. DOMAIN command = 1..Len(command) /\ DOMAIN command' = 1..Len(command')
          /\ DOMAIN command' = DOMAIN command
      BY <1>3 DEF JournalInv, TypeUplink, Recorded
    <3>2. ASSUME NEW b \in DOMAIN command, b # c, command[b].room = r,
                 command[b].base = command[c].base
          PROVE  command'[b].state # "applied"
      <4>1. command'[b] = command[b] /\ command[b] \in Commands
        BY <1>3, <3>2 DEF Recorded, JournalInv, TypeUplink
      <4>2. ASSUME command[b].state = "applied" PROVE FALSE
        <5>1. command[b].rev = command[b].base + 1 /\ command[b].rev <= observed[r].rev
          BY <3>2, <4>2 DEF JournalInv, RevisionInv
        <5>2. observed[r].rev = command[c].rev - 1 /\ observed[r].rev \in Nat
          BY <1>3, <2>2 DEF JournalInv, TypeUplink
        <5>3. command[b].base \in Nat /\ command[c].base \in Nat
          BY <1>4, <4>1 DEF Commands
        <5> QED BY <1>3, <3>2, <5>1, <5>2, <5>3
      <4> QED BY <4>1, <4>2
    <3>3. ASSUME NEW b \in DOMAIN command, NEW e \in DOMAIN command, b # e,
                 command'[b].room = command'[e].room, command'[b].base = command'[e].base
          PROVE  ~(command'[b].state = "applied" /\ command'[e].state = "applied")
      <4>1. command[b].room = command[e].room /\ command[b].base = command[e].base
        BY <1>3, <3>3 DEF Recorded
      <4>2. CASE b # c /\ e # c
        <5>1. command'[b] = command[b] /\ command'[e] = command[e]
          BY <1>3, <4>2 DEF Recorded
        <5> QED BY <3>1, <3>3, <4>1, <5>1 DEF JournalInv, OneChangePerRevision
      <4>3. CASE b = c \/ e = c
        BY <1>2, <3>2, <3>3, <4>1, <4>3
      <4> QED BY <4>2, <4>3
    <3> QED BY <3>1, <3>3 DEF OneChangePerRevision
  <2> QED BY <2>1, <2>2
<1> QED BY <1>10, <1>11, <1>12, <1>13, <1>14, <1>15 DEF JournalInv

LEMMA UplinkStep ==
  ASSUME TypeRemote, StoredInv, DevInv, JournalInv, Uplink
  PROVE  TypeRemote' /\ StoredInv' /\ DevInv' /\ JournalInv'
<1>1. DOMAIN command = 1..Len(command)
  BY DEF JournalInv, TypeUplink
<1>2. ASSUME UNCHANGED <<remote, dev>>, DOMAIN command \subseteq DOMAIN command'
      PROVE  TypeRemote' /\ StoredInv' /\ DevInv'
  <2>1. Grown
    BY <1>2 DEF Grown
  <2> QED BY <1>2, <2>1, RemoteStays, DevStays
<1>3. CASE Announce
  BY <1>2, <1>3, AnnounceStep DEF Announce
<1>4. CASE Ingest
  BY <1>2, <1>4, IngestStep DEF Ingest
<1>5. ASSUME NEW c \in 1..Len(command), Process(c)
      PROVE  TypeRemote' /\ StoredInv' /\ DevInv' /\ JournalInv'
  <2>1. UNCHANGED <<remote, dev>> /\ DOMAIN command \subseteq DOMAIN command'
    BY <1>5 DEF Process
  <2> QED BY <1>2, <1>5, <2>1, ProcessStep
<1>6. ASSUME NEW c \in 1..Len(command), Lands(c)
      PROVE  TypeRemote' /\ StoredInv' /\ DevInv' /\ JournalInv'
  BY <1>6, LandsStep
<1>7. ASSUME NEW c \in 1..Len(command), PutAnswered(c)
      PROVE  TypeRemote' /\ StoredInv' /\ DevInv' /\ JournalInv'
  <2>1. UNCHANGED <<remote, dev>> /\ DOMAIN command \subseteq DOMAIN command'
    BY <1>7 DEF PutAnswered
  <2> QED BY <1>1, <1>2, <1>7, <2>1, PutAnsweredStep
<1>8. ASSUME NEW c \in 1..Len(command), Vanishes(c) \/ Publish(c)
      PROVE  TypeRemote' /\ StoredInv' /\ DevInv' /\ JournalInv'
  <2>1. UNCHANGED <<remote, dev>> /\ DOMAIN command \subseteq DOMAIN command'
    BY <1>8 DEF Vanishes, Publish
  <2> QED BY <1>2, <1>8, <2>1, VanishesStep, PublishStep
<1>9. ASSUME NEW c \in 1..Len(command), Reconcile(c)
      PROVE  TypeRemote' /\ StoredInv' /\ DevInv' /\ JournalInv'
  <2>1. UNCHANGED <<remote, dev>> /\ DOMAIN command \subseteq DOMAIN command'
    BY <1>9 DEF Reconcile
  <2> QED BY <1>2, <1>9, <2>1, ReconcileStep
<1> QED BY <1>3, <1>4, <1>5, <1>6, <1>7, <1>8, <1>9 DEF Uplink

-----------------------------------------------------------------------------
(* The theorems. *)

IInv == TypeRemote /\ StoredInv /\ DevInv /\ JournalInv

LEMMA InitInv == Init => IInv
<1> SUFFICES ASSUME Init PROVE IInv
  OBVIOUS
<1>1. TypeRemote
  <2>1. NoBook \in Books /\ [h \in Handles |-> None] \in Maps /\ None \in Values
        /\ {"private", "share"} \subseteq Values
    BY DEF NoBook, Books, Maps, Values, Levels, None
  <2>2. store \in [Rooms -> Overrides]
    BY <2>1 DEF Init, Overrides
  <2>3. policy \in Values /\ contacts \in Maps /\ book \in Books
    BY <2>1 DEF Init
  <2>4. ever \in Evers
    <3>1. ever = [level |-> [r \in Rooms |-> {None}], default |-> {policy},
                  map |-> {contacts}, book |-> {book}]
      BY DEF Init
    <3>2. [r \in Rooms |-> {None}] \in [Rooms -> SUBSET Values]
      BY <2>1
    <3>3. {policy} \in SUBSET Values /\ {contacts} \in SUBSET Maps /\ {book} \in SUBSET Books
      BY <2>3
    <3> QED BY <3>1, <3>2, <3>3 DEF Evers
  <2> QED BY <2>2, <2>3, <2>4 DEF TypeRemote
<1>2. StoredInv
  BY DEF Init, StoredInv
<1>3. DevInv
  <2>1. \A d \in Devices :
          dev[d] = [cache |-> [r \in Rooms |-> None], default |-> policy, readable |-> TRUE,
                    contacts |-> contacts, book |-> book, pending |-> {}, ordered |-> FALSE,
                    job |-> NoJob]
    BY DEF Init
  <2>2. dev = [d \in Devices |-> dev[d]]
    BY DEF Init
  <2>3. [r \in Rooms |-> None] \in [Rooms -> Values] /\ policy \in Values /\ contacts \in Maps
        /\ book \in Books /\ NoJob \in Jobs
    BY <1>1, NoJobOk DEF TypeRemote, Values
  <2>4. ASSUME NEW d \in Devices PROVE RowOk(dev[d])
    <3>1. dev[d] \in DeviceRows
      <4>1. PICK row : row = [r \in Rooms |-> None]
        OBVIOUS
      <4>2. dev[d] = [cache |-> row, default |-> policy, readable |-> TRUE,
                      contacts |-> contacts, book |-> book, pending |-> {}, ordered |-> FALSE,
                      job |-> NoJob]
        BY <2>1, <4>1
      <4>3. row \in [Rooms -> Values]
        BY <2>3, <4>1
      <4> QED BY <2>3, <4>2, <4>3 DEF DeviceRows
    <3>2. ShownOk(dev[d])
      <4>1. /\ dev[d].cache = [r \in Rooms |-> None] /\ dev[d].default = policy
            /\ dev[d].contacts = contacts /\ dev[d].book = book
        BY <2>1
      <4>2. /\ ever.level = [r \in Rooms |-> {None}] /\ ever.default = {policy}
            /\ ever.map = {contacts} /\ ever.book = {book}
        BY DEF Init
      <4> QED BY <4>1, <4>2 DEF ShownOk
    <3>3. dev[d].pending \subseteq DOMAIN command /\ JobOk(dev[d].job)
      BY <2>1, NoJobOk
    <3> QED BY <3>1, <3>2, <3>3 DEF RowOk
  <2> QED BY <2>2, <2>4 DEF DevInv
<1>4. command = <<>> /\ log = <<>> /\ queue = <<>> /\ flight = {}
      /\ \A r \in Rooms : store[r].op = 0
  BY DEF Init
<1>5. TypeUplink
  <2>1. queue \in Seq(Nat) /\ log \in Seq(Nat) /\ command \in Seq(Commands)
    BY <1>4
  <2>2. announced \in BOOLEAN /\ published \in [Rooms -> Nat]
    BY DEF Init
  <2>3. observed \in [Rooms -> [rev : Nat, content : Overrides]]
    <3>1. observed = [r \in Rooms |-> [rev |-> 0, content |-> store[r]]]
      BY DEF Init
    <3>2. \A r \in Rooms : store[r] \in Overrides
      BY <1>1 DEF TypeRemote
    <3> QED BY <3>1, <3>2
  <2> QED BY <2>1, <2>2, <2>3 DEF TypeUplink
<1>6. RevisionInv /\ OneChangePerRevision /\ QueueInv /\ WriteInv /\ OrderInv
  <2>1. DOMAIN command = {} /\ DOMAIN log = {} /\ DOMAIN queue = {} /\ 1..Len(command) = {}
    BY <1>4
  <2>2. Read = {} /\ Waiting = {}
    BY <2>1 DEF Read, Waiting
  <2> QED BY <1>4, <2>1, <2>2 DEF RevisionInv, OneChangePerRevision, QueueInv, WriteInv, OrderInv
<1> QED BY <1>1, <1>2, <1>3, <1>5, <1>6 DEF IInv, JournalInv

LEMMA NextInv == IInv /\ [Next]_vars => IInv'
<1> SUFFICES ASSUME IInv, [Next]_vars PROVE IInv'
  OBVIOUS
<1>1. ASSUME NEW d \in Devices, Device(d) PROVE IInv'
  <2>1. TypeRemote' /\ StoredInv' /\ DevInv'
    BY <1>1, DeviceStep DEF IInv, JournalInv
  <2>2. Quiet \/ Intends \/ Sends
    BY <1>1, DeviceJournal DEF IInv, JournalInv
  <2>3. JournalInv'
    BY <2>2, QuietStep, IntendsStep, SendsStep DEF IInv
  <2> QED BY <2>1, <2>3 DEF IInv
<1>2. CASE Uplink
  BY <1>2, UplinkStep DEF IInv
<1>3. CASE UNCHANGED vars
  <2>1. UNCHANGED <<remote, uplink, queue, command, dev>>
    BY <1>3 DEF vars
  <2>2. TypeRemote' /\ StoredInv' /\ DevInv'
    BY <2>1, SameIsGrown, RemoteStays, DevStays DEF IInv
  <2>3. Quiet
    BY <2>1 DEF Quiet
  <2> QED BY <2>2, <2>3, QuietStep DEF IInv
<1> QED BY <1>1, <1>2, <1>3 DEF Next

(* The app, the server and the journal agree on what they hold, in every   *)
(* state: the types, and how an intent, its write and its revision relate. *)
THEOREM Consistent == Spec => []IInv
BY InitInv, NextInv, PTL DEF Spec

(* No device shows a level, a default, a contact setting or an address book *)
(* policy that was not stored at some time (consent.js: the caches follow a *)
(* write only after its answer).                                            *)
THEOREM OnlyTheStoredIsShown == Spec => []ShownIsStored
<1>1. IInv => ShownIsStored
  BY DEF IInv, DevInv, RowOk, ShownOk, ShownIsStored
<1> QED BY <1>1, Consistent, PTL

(* Of several intents made at one revision of a conversation the journal   *)
(* applies at most one, in whatever order they arrive.                     *)
THEOREM OneIntentPerRevision == Spec => []OneChangePerRevision
<1>1. IInv => OneChangePerRevision
  BY DEF IInv, JournalInv
<1> QED BY <1>1, Consistent, PTL

(* A write the journal had given up for lost, and that lands late, finds   *)
(* nothing decided after it in its conversation: no later intent was       *)
(* applied while it could still land (crm_policy.py, _reconcile).          *)
THEOREM NothingOvertaken == Spec => LateWriteBarred
<1>1. ASSUME IInv, [Next]_vars, NEW r \in Rooms, store'[r].op # store[r].op, store'[r].op # 0,
             NEW i \in DOMAIN log, NEW k \in DOMAIN log, log[i] = store'[r].op, i < k,
             command[log[k]].room = r
      PROVE  command[log[k]].state # "applied"
  <2>1. ~(Quiet \/ Intends \/ Sends)
    BY <1>1 DEF Quiet, Intends, Sends
  <2>2. ~\E d \in Devices : Device(d)
    BY <1>1, <2>1, DeviceJournal DEF IInv, JournalInv
  <2>3. store' # store
    BY <1>1
  <2>4. Uplink
    BY <1>1, <2>2, <2>3 DEF Next, vars
  <2>5. PICK c : Lands(c)
    BY <2>3, <2>4 DEF Uplink, Announce, Ingest, Process, PutAnswered, Vanishes, Reconcile, Publish
  <2>6. c \in flight /\ store' = [store EXCEPT ![command[c].room] = Intended(c)]
    BY <2>5 DEF Lands
  <2>7. command[c].state = "prepared" /\ command[c].room \in Rooms
    BY <1>1, <2>6, FlightFacts DEF IInv
  <2>8. r = command[c].room /\ store'[r].op = c
    <3>1. \A q \in Rooms : q # command[c].room => store'[q] = store[q]
      BY <1>1, <2>6 DEF IInv, TypeRemote
    <3>2. r = command[c].room
      BY <1>1, <3>1
    <3>3. store'[r] = Intended(c)
      BY <1>1, <2>6, <3>2 DEF IInv, TypeRemote
    <3> QED BY <3>2, <3>3 DEF Intended
  <2>9. Unresolved(log[i])
    BY <1>1, <2>7, <2>8 DEF Unresolved
  <2>10. command[log[k]].state = "queued"
    BY <1>1, <2>8, <2>9 DEF IInv, JournalInv, OrderInv
  <2> QED BY <2>10
<1> DEFINE Barred ==
             \A r \in Rooms :
               store'[r].op # store[r].op /\ store'[r].op # 0
                   => \A i, k \in DOMAIN log :
                          /\ log[i] = store'[r].op /\ i < k /\ command[log[k]].room = r
                          => command[log[k]].state # "applied"
<1>2. IInv /\ [Next]_vars => [Barred]_vars
  BY <1>1
<1> QED BY <1>2, Consistent, PTL DEF Spec, LateWriteBarred

=============================================================================
