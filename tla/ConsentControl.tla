---------------------------- MODULE ConsentControl ----------------------------
(* What the teammate's app shows and writes about sharing, and how a change of one
   conversation's level becomes effective (src/apps/user/consent.js,
   src/shared/model/consent.js, src/apps/user/ordered-consent.js), with the
   uplink's journal of those changes (src/agents/uplink/crm_policy.py).

   A device is a tab of the app.  A change is chosen, confirmed if it is an
   escalation, and written room by room.  Before the uplink has announced its
   journal the app writes the override itself; afterwards it sends an intent with
   the revision it saw to a room of its own, the uplink decides in order, and the
   app believes the change only when the stored override carries the answer's
   stamp.  The journal's PUT may be answered, refused, or answered with silence: then it
   may still land later, and the uplink waits for it as long as it takes.
   Abstracted: the standing policies of the old model (the daemon has announced
   the explicit one), wording and layout, authority changes. *)
EXTENDS Naturals, Sequences, FiniteSets

CONSTANTS
    Devices,      \* tabs and devices of the teammate
    Rooms,        \* conversations
    Handles,      \* entries of the imported address book
    Cap,          \* CONTACT_OVERRIDES_CAP
    MaxChanges,   \* bound: changes the teammate chooses
    MaxFaults     \* bound: answers lost, reads failed, tabs reloaded

\* A change of all conversations is offered only where there are some.
ASSUME ConsentAssumption == {Cap, MaxChanges, MaxFaults} \subseteq Nat /\ Rooms # {}

Levels == {"private", "share", "direct"}
None == "none"

VARIABLES
    store,      \* room -> the override: its level and the journal's stamp
    policy,     \* share_policy: the account default
    contacts,   \* contact_overrides: handle -> share, private or none
    book,       \* contact_share_policy: the address book as a whole and one source
    announced,  \* the uplink's capability is published
    queue,      \* intents in the control room, not yet read by the uplink
    log,        \* journal: commands in the order they were read
    command,    \* every intent ever made, and the journal's state of it
    flight,     \* commands whose PUT may still land
    observed,   \* journal: room -> its revision and the content it belongs to
    published,  \* room -> revision the uplink has published
    result,     \* command -> the answer in the control room
    dev,        \* device -> its caches, its intents without answer, its change
    changes, faults,
    ever        \* history: the values that were stored

vars == <<store, policy, contacts, book, announced, queue, log, command, flight, observed,
          published, result, dev, changes, faults, ever>>
remote == <<store, policy, contacts, book, ever>>
uplink == <<announced, log, flight, observed, published, result>>
bounds == <<changes, faults>>

NoBook == [global |-> "private", source |-> "inherit"]

NoJob == [kind |-> "idle", at |-> "idle", level |-> None, rooms |-> {}, cmd |-> 0,
          map |-> [h \in Handles |-> None], book |-> NoBook]

-----------------------------------------------------------------------------
(* Resolution. *)

\* resolvedLevel: the explicit level, else the account default.
Resolved(override, default) == IF override \in Levels THEN override ELSE default

Shown(d, r) == Resolved(dev[d].cache[r], dev[d].default)

\* By default: the conversation was never set individually.
ByDefault(d, r) == dev[d].cache[r] = None

-----------------------------------------------------------------------------
(* The device: choosing. *)

Job(d) == dev[d].job
SetJob(d, j) == dev' = [dev EXCEPT ![d].job = j]
At(d, place) == Job(d).at = place
Move(d, place) == SetJob(d, [Job(d) EXCEPT !.at = place])

Choose(d, kind, level, rooms, place) ==
    /\ At(d, "idle") /\ changes < MaxChanges
    /\ changes' = changes + 1
    /\ SetJob(d, [NoJob EXCEPT !.kind = kind, !.at = place, !.level = level, !.rooms = rooms])
    /\ UNCHANGED <<remote, uplink, queue, command, faults>>

\* The slider of a conversation's row moves between Private and Share.
Slide(d, r, level) ==
    /\ level \in {"share", "private"}
    /\ (level = "private") # (Shown(d, r) = "private")
    /\ Choose(d, "room", level, {r}, "capability")

\* headerChip, of the open conversation: what is not Private becomes Private.
Chip(d, r) ==
    Choose(d, "room", IF Shown(d, r) = "private" THEN "share" ELSE "private", {r}, "capability")

\* The Direct control of a conversation that is shared: on, after a confirmation ...
Escalate(d, r) ==
    /\ Shown(d, r) = "share"
    /\ Choose(d, "room", "direct", {r}, "confirm")

\* ... and off, without one.
Deescalate(d, r) ==
    /\ Shown(d, r) = "direct"
    /\ Choose(d, "room", "share", {r}, "capability")

\* bulkSetSourceLevel: every conversation of a source, always confirmed.
Bulk(d, level) == Choose(d, "room", level, Rooms, "confirm")

\* bulkSetEverythingDirect: every conversation there is.
AllDirect(d) == Choose(d, "room", "direct", Rooms, "confirm")

\* The summary's Exclude: a conversation the default shares becomes Private.
Exclude(d, r) ==
    /\ ByDefault(d, r) /\ Shown(d, r) # "private"
    /\ Choose(d, "room", "private", {r}, "capability")

\* The account default; Direct is an escalation here too.
ChooseDefault(d, level) ==
    /\ dev[d].readable /\ level # dev[d].default
    /\ Choose(d, "default", level, {}, IF level = "direct" THEN "confirm" ELSE "policy")

\* The overrides hs become value; None removes them.
ChooseContacts(d, hs, value, place) ==
    /\ hs # {} /\ At(d, "idle") /\ changes < MaxChanges
    /\ changes' = changes + 1
    /\ SetJob(d, [NoJob EXCEPT !.kind = "contacts", !.at = place, !.level = value,
                               !.map = [h \in Handles |-> IF h \in hs THEN value ELSE "keep"]])
    /\ UNCHANGED <<remote, uplink, queue, command, faults>>

Entries(map) == {h \in Handles : map[h] # None}

\* buildImportedContactRow: Share, Auto or Private of one handle.
ChooseContact(d, h, value) == ChooseContacts(d, {h}, value, "map")

\* planHandleFanOut: the handles of a person that are in the address book.
ChoosePerson(d, hs, value) == ChooseContacts(d, hs, value, "map")

\* Clear all, confirmed: the entries this tab knows of.
ClearContacts(d) == ChooseContacts(d, Entries(dev[d].contacts), None, "confirm")

\* The switch of the address book and the slider of a source: the new policy is the
\* tab's own copy with one part changed, never one read again.
ChooseBook(d, part, value) ==
    /\ value \in (IF part = "global" THEN {"private", "share"} ELSE {"inherit", "private", "share"})
    /\ dev[d].book[part] # value
    /\ At(d, "idle") /\ changes < MaxChanges
    /\ changes' = changes + 1
    /\ SetJob(d, [NoJob EXCEPT !.kind = "book", !.at = "book",
                               !.book = [dev[d].book EXCEPT ![part] = value]])
    /\ UNCHANGED <<remote, uplink, queue, command, faults>>

Confirm(d) ==
    /\ At(d, "confirm")
    /\ Move(d, CASE Job(d).kind = "default" -> "policy"
                 [] Job(d).kind = "contacts" -> "map"
                 [] OTHER -> "capability")
    /\ UNCHANGED <<remote, uplink, queue, command, bounds>>

\* A declined confirmation, a refusal, a failure that is shown, a wait that ends: the
\* caches keep what was last known, an intent without answer stays pending.
Stop(d) ==
    /\ ~At(d, "idle")
    /\ SetJob(d, NoJob)
    /\ UNCHANGED <<remote, uplink, queue, command, bounds>>

-----------------------------------------------------------------------------
(* The device: writing one conversation's level (ordered-consent.js). *)

\* The rooms of a bulk change are written one after the other.
Target(d) == CHOOSE r \in Job(d).rooms : TRUE

\* A control that shows the new level as soon as the write is on its way.
MutSent(d) == [dev EXCEPT ![d].cache[Target(d)] = Job(d).level, ![d].job.at = "answer"]

Sent(d) == [dev EXCEPT ![d].job.at = "answer"]

\* The write succeeded: the cache follows, and the next conversation is written.
Saved(d, pending) ==
    LET rest == Job(d).rooms \ {Target(d)} IN
    [dev EXCEPT ![d].cache[Target(d)] = Job(d).level, ![d].pending = pending,
                ![d].job = IF rest = {} THEN NoJob
                           ELSE [@ EXCEPT !.rooms = rest, !.at = "capability", !.cmd = 0]]

\* Only a positive absence of the journal, with nothing of it ever seen, allows
\* writing the override directly.
ReadCapability(d) ==
    /\ At(d, "capability")
    /\ IF announced
       THEN dev' = [dev EXCEPT ![d].ordered = TRUE, ![d].job.at = "intent"]
       ELSE /\ ~dev[d].ordered /\ dev[d].pending = {} /\ store[Target(d)].op = 0
            /\ Move(d, "legacy")
    /\ UNCHANGED <<remote, uplink, queue, command, bounds>>

PutLegacy(d) ==
    LET r == Target(d) IN
    /\ At(d, "legacy")
    /\ store' = [store EXCEPT ![r] = [level |-> Job(d).level, op |-> 0, rev |-> 0]]
    /\ ever' = [ever EXCEPT !.level[r] = @ \cup {Job(d).level}]
    /\ dev' = Sent(d)
    /\ UNCHANGED <<policy, contacts, book, uplink, queue, command, bounds>>

LegacyAnswer(d) ==
    /\ At(d, "answer") /\ Job(d).cmd = 0
    /\ dev' = Saved(d, dev[d].pending)
    /\ UNCHANGED <<remote, uplink, queue, command, bounds>>

Larger(a, b) == IF a < b THEN b ELSE a

\* An intent without answer for the same level is taken up again as it was; a new
\* one names the revision its author can see.
Intend(d) ==
    LET r == Target(d)
        same == {c \in dev[d].pending : command[c].room = r /\ command[c].level = Job(d).level}
        fresh == [room |-> r, level |-> Job(d).level, base |-> Larger(store[r].rev, published[r]),
                  state |-> "sent", prev |-> store[r], rev |-> 0]
        id == Len(command) + 1
    IN
    /\ At(d, "intent")
    /\ IF same # {}
       THEN /\ dev' = [dev EXCEPT ![d].job.cmd = CHOOSE c \in same : TRUE, ![d].job.at = "send"]
            /\ UNCHANGED command
       ELSE /\ command' = Append(command, fresh)
            /\ dev' = [dev EXCEPT ![d].job.cmd = id, ![d].job.at = "send",
                                  ![d].pending = @ \cup {id}]
    /\ UNCHANGED <<remote, uplink, queue, bounds>>

\* The transaction's id is the command's: sent again, it is the same event.
SendIntent(d) ==
    LET c == Job(d).cmd IN
    /\ At(d, "send")
    /\ queue' = IF c \in {queue[i] : i \in DOMAIN queue} \cup {log[i] : i \in DOMAIN log}
                THEN queue ELSE Append(queue, c)
    /\ dev' = Sent(d)
    /\ UNCHANGED <<remote, uplink, command, bounds>>

Refused(d) ==
    LET c == Job(d).cmd IN
    /\ At(d, "answer") /\ c # 0 /\ result[c] = "rejected"
    /\ dev' = [dev EXCEPT ![d].pending = @ \ {c}, ![d].job = NoJob]
    /\ UNCHANGED <<remote, uplink, queue, command, bounds>>

\* Applied is believed only with the stamp; else the setting has changed again.
Applied(d) ==
    LET c == Job(d).cmd
        r == Target(d)
    IN
    /\ At(d, "answer") /\ c # 0 /\ result[c] = "applied"
    /\ dev' = IF store[r].op = c /\ store[r].level = Job(d).level
              THEN Saved(d, dev[d].pending \ {c})
              ELSE [dev EXCEPT ![d].pending = @ \ {c}, ![d].job = NoJob]
    /\ UNCHANGED <<remote, uplink, queue, command, bounds>>

-----------------------------------------------------------------------------
(* The device: the account default and the contacts. *)

\* writeDefaultLevel: a merge over a fresh read; the default is the part that is
\* kept here.
WriteDefault(d) ==
    /\ At(d, "policy")
    /\ policy' = Job(d).level
    /\ ever' = [ever EXCEPT !.default = @ \cup {Job(d).level}]
    /\ Move(d, "policy answer")
    /\ UNCHANGED <<store, contacts, book, uplink, queue, command, bounds>>

DefaultAnswer(d) ==
    /\ At(d, "policy answer")
    /\ dev' = [dev EXCEPT ![d].default = Job(d).level, ![d].readable = TRUE, ![d].job = NoJob]
    /\ UNCHANGED <<remote, uplink, queue, command, bounds>>

\* planContactOverrideWrite over the map just read: a result over the limit is
\* refused unless it has fewer entries than before.
Planned(d) == [h \in Handles |-> IF Job(d).map[h] = "keep" THEN contacts[h] ELSE Job(d).map[h]]
WithinCap(d) ==
    \/ Cardinality(Entries(Planned(d))) <= Cap
    \/ Cardinality(Entries(Planned(d))) < Cardinality(Entries(contacts))

\* A map over the limit is read for removals only.
ReadContacts(d) ==
    /\ At(d, "map")
    /\ Cardinality(Entries(contacts)) > Cap => Job(d).level = None
    /\ WithinCap(d)
    /\ SetJob(d, [Job(d) EXCEPT !.map = Planned(d), !.at = "map write"])
    /\ UNCHANGED <<remote, uplink, queue, command, bounds>>

WriteContacts(d) ==
    /\ At(d, "map write")
    /\ contacts' = Job(d).map
    /\ ever' = [ever EXCEPT !.map = @ \cup {Job(d).map}]
    /\ Move(d, "map answer")
    /\ UNCHANGED <<store, policy, book, uplink, queue, command, bounds>>

ContactsAnswer(d) ==
    /\ At(d, "map answer")
    /\ dev' = [dev EXCEPT ![d].contacts = Job(d).map, ![d].job = NoJob]
    /\ UNCHANGED <<remote, uplink, queue, command, bounds>>

\* writeContactPolicy.
WriteBook(d) ==
    /\ At(d, "book")
    /\ book' = Job(d).book
    /\ ever' = [ever EXCEPT !.book = @ \cup {Job(d).book}]
    /\ Move(d, "book answer")
    /\ UNCHANGED <<store, policy, contacts, uplink, queue, command, bounds>>

BookAnswer(d) ==
    /\ At(d, "book answer")
    /\ dev' = [dev EXCEPT ![d].book = Job(d).book, ![d].job = NoJob]
    /\ UNCHANGED <<remote, uplink, queue, command, bounds>>

\* overridesFromSync: the conversations that carry a level.
Snapshot == [r \in Rooms |-> store[r].level]

\* loadConsentState: the caches are replaced by what could be read; after a failed
\* read of the policy the last known default stays and its control is disabled; an
\* address book policy that cannot be read is shown as off.
Load(d) ==
    /\ At(d, "idle")
    /\ \/ /\ dev' = [dev EXCEPT ![d].cache = Snapshot,
                                ![d].default = policy, ![d].readable = TRUE,
                                ![d].contacts = contacts, ![d].book = book]
          /\ UNCHANGED faults
       \/ /\ faults < MaxFaults /\ faults' = faults + 1
          /\ dev' = [dev EXCEPT ![d].cache = Snapshot,
                                ![d].readable = FALSE, ![d].contacts = contacts,
                                ![d].book = NoBook]
    /\ UNCHANGED <<remote, uplink, queue, command, changes>>

\* A reloaded tab forgets its intents.
Reload(d) ==
    /\ faults < MaxFaults /\ faults' = faults + 1
    /\ dev' = [dev EXCEPT ![d].job = NoJob, ![d].pending = {}, ![d].ordered = FALSE]
    /\ UNCHANGED <<remote, uplink, queue, command, changes>>

-----------------------------------------------------------------------------
(* The uplink's journal. *)

Announce ==
    /\ ~announced
    /\ announced' = TRUE
    /\ observed' = [r \in Rooms |-> [rev |-> 0, content |-> store[r]]]
    /\ UNCHANGED <<remote, queue, log, command, flight, published, result, dev, bounds>>

\* ingest_manual: durable before anything is read or written.
Ingest ==
    /\ announced /\ queue # <<>>
    /\ log' = Append(log, Head(queue)) /\ queue' = Tail(queue)
    /\ command' = [command EXCEPT ![Head(queue)].state = "queued"]
    /\ UNCHANGED <<remote, announced, flight, observed, published, result, dev, bounds>>

Unresolved(c) == command[c].state \in {"queued", "prepared", "verifying"}
First(c) ==
    \E i \in DOMAIN log :
        /\ log[i] = c /\ Unresolved(c)
        /\ \A k \in 1..(i - 1) : command[log[k]].room = command[c].room => ~Unresolved(log[k])

\* _observe: content nobody prepared is a revision of its own.
Observation(r) ==
    IF store[r] = observed[r].content THEN observed[r]
    ELSE [rev |-> observed[r].rev + 1, content |-> store[r]]

\* A journal that takes the base of the command for the room's revision.
MutStale(c, rev) == FALSE

\* The intent was made at a revision the room has left.
Stale(c, rev) == rev # command[c].base

\* process_next of a queued intent: a stale revision is refused; the write is
\* recorded before it is sent.
Process(c) ==
    LET r == command[c].room
        o == Observation(r)
    IN
    /\ First(c) /\ command[c].state = "queued"
    /\ observed' = [observed EXCEPT ![r] = o]
    /\ IF Stale(c, o.rev)
       THEN command' = [command EXCEPT ![c].state = "rejected"] /\ UNCHANGED flight
       ELSE /\ command' = [command EXCEPT ![c].state = "prepared", ![c].rev = o.rev + 1,
                                          ![c].prev = o.content]
            /\ flight' = flight \cup {c}
    /\ UNCHANGED <<remote, announced, queue, log, published, result, dev, bounds>>

Intended(c) == [level |-> command[c].level, op |-> c, rev |-> command[c].rev]

Lands(c) ==
    /\ c \in flight
    /\ flight' = flight \ {c}
    /\ store' = [store EXCEPT ![command[c].room] = Intended(c)]
    /\ ever' = [ever EXCEPT !.level[command[c].room] = @ \cup {command[c].level}]
    /\ UNCHANGED <<policy, contacts, book, announced, queue, log, command, observed, published,
                   result, dev, bounds>>

\* A 2xx answer, a refusal, an answer that lets the intent try again.
PutAnswered(c) ==
    /\ command[c].state = "prepared"
    /\ \/ /\ c \notin flight /\ store[command[c].room].op = c
          /\ command' = [command EXCEPT ![c].state = "verifying"]
          /\ UNCHANGED <<flight, faults>>
       \/ /\ c \in flight /\ faults < MaxFaults /\ faults' = faults + 1
          /\ flight' = flight \ {c}
          /\ \E s \in {"rejected", "queued"} : command' = [command EXCEPT ![c].state = s]
    /\ UNCHANGED <<remote, announced, queue, log, observed, published, result, dev, changes>>

\* A PUT without answer never reached the server: nobody knows.
Vanishes(c) ==
    /\ c \in flight /\ faults < MaxFaults
    /\ faults' = faults + 1
    /\ flight' = flight \ {c}
    /\ UNCHANGED <<remote, announced, queue, log, command, observed, published, result, dev,
                   changes>>

\* A reconciliation that takes unchanged content for the end of the write.
MutReconciled(c) ==
    LET r == command[c].room IN
    IF store[r] = Intended(c)
    THEN IF observed[r] = [rev |-> command[c].rev - 1, content |-> command[c].prev]
         THEN "applied" ELSE "unknown"
    ELSE "unknown"

\* _reconcile: only the write's own stamp proves that it has ended.  Unchanged
\* content proves nothing while the answer is missing.
Reconciled(c) ==
    LET r == command[c].room IN
    IF store[r] = Intended(c)
    THEN IF observed[r] = [rev |-> command[c].rev - 1, content |-> command[c].prev]
         THEN "applied" ELSE "unknown"
    ELSE IF command[c].state = "verifying" THEN "unknown" ELSE "prepared"

Reconcile(c) ==
    LET r == command[c].room
        state == Reconciled(c)
    IN
    /\ First(c) /\ command[c].state \in {"prepared", "verifying"}
    /\ command' = [command EXCEPT ![c].state = state]
    /\ observed' = [observed EXCEPT ![r] = IF state = "applied"
                                           THEN [rev |-> command[c].rev, content |-> store[r]]
                                           ELSE Observation(r)]
    /\ UNCHANGED <<remote, announced, queue, log, flight, published, result, dev, bounds>>

\* The answer and the room's revision reach the control room later.
Publish(c) ==
    /\ c \in 1..Len(command) /\ command[c].state \in {"applied", "rejected", "unknown"}
    /\ result' = [result EXCEPT ![c] = IF command[c].state = "unknown" THEN @
                                       ELSE command[c].state]
    /\ published' = [published EXCEPT ![command[c].room] = observed[command[c].room].rev]
    /\ UNCHANGED <<remote, announced, queue, log, command, flight, observed, dev, bounds>>

-----------------------------------------------------------------------------
Init ==
    /\ store = [r \in Rooms |-> [level |-> None, op |-> 0, rev |-> 0]]
    /\ policy \in {"private", "share"}
    /\ contacts = [h \in Handles |-> None] /\ book = NoBook
    /\ announced = FALSE
    /\ queue = <<>> /\ log = <<>> /\ command = <<>> /\ flight = {}
    /\ observed = [r \in Rooms |-> [rev |-> 0, content |-> store[r]]]
    /\ published = [r \in Rooms |-> 0]
    /\ result = [c \in 1..(MaxChanges * Cardinality(Rooms)) |-> None]
    /\ dev = [d \in Devices |->
                  [cache |-> [r \in Rooms |-> None], default |-> policy, readable |-> TRUE,
                   contacts |-> contacts, book |-> book, pending |-> {}, ordered |-> FALSE,
                   job |-> NoJob]]
    /\ changes = 0 /\ faults = 0
    /\ ever = [level |-> [r \in Rooms |-> {None}], default |-> {policy}, map |-> {contacts},
               book |-> {book}]

Choice(d) ==
    \/ (\E r \in Rooms : Chip(d, r) \/ Escalate(d, r) \/ Deescalate(d, r) \/ Exclude(d, r)
                         \/ (\E l \in Levels : Slide(d, r, l)))
    \/ (\E l \in Levels : Bulk(d, l) \/ ChooseDefault(d, l))
    \/ AllDirect(d) \/ ClearContacts(d)
    \/ (\E hs \in SUBSET Handles, v \in {"share", "private", None} : ChoosePerson(d, hs, v))
    \/ (\E h \in Handles, v \in {"share", "private", None} : ChooseContact(d, h, v))
    \/ (\E part \in {"global", "source"}, v \in {"inherit", "private", "share"} :
            ChooseBook(d, part, v))

Device(d) ==
    \/ Choice(d) \/ Confirm(d) \/ Stop(d) \/ Load(d) \/ Reload(d)
    \/ ReadCapability(d) \/ PutLegacy(d) \/ LegacyAnswer(d)
    \/ Intend(d) \/ SendIntent(d) \/ Refused(d) \/ Applied(d)
    \/ WriteDefault(d) \/ DefaultAnswer(d)
    \/ ReadContacts(d) \/ WriteContacts(d) \/ ContactsAnswer(d)
    \/ WriteBook(d) \/ BookAnswer(d)

Uplink ==
    \/ Announce \/ Ingest
    \/ (\E c \in 1..Len(command) :
            Process(c) \/ Lands(c) \/ PutAnswered(c) \/ Vanishes(c) \/ Reconcile(c) \/ Publish(c))

Next == (\E d \in Devices : Device(d)) \/ Uplink

Spec == Init /\ [][Next]_vars

-----------------------------------------------------------------------------
(* Properties. *)

\* The app never shows a sharing level, a default or a contact setting that was not
\* stored: a control that failed, was declined, lost its answer or stopped half way
\* through all conversations shows what was last saved.
ShownIsStored ==
    \A d \in Devices :
        /\ \A r \in Rooms : dev[d].cache[r] \in ever.level[r]
        /\ dev[d].default \in ever.default
        /\ dev[d].contacts \in ever.map
        /\ dev[d].book \in ever.book

\* A change that was written late never replaces a change that was decided after it:
\* a Private the teammate was told is in force is not undone by an earlier Direct
\* whose PUT had been given up for lost.
LateWriteBarred ==
    [][\A r \in Rooms :
           store'[r].op # store[r].op /\ store'[r].op # 0
               => \A i, k \in DOMAIN log :
                      /\ log[i] = store'[r].op /\ i < k /\ command[log[k]].room = r
                      => command[log[k]].state # "applied"]_vars

\* An intent is applied on top of what its author saw: of several intents made at
\* one revision, in whatever order they arrive, at most one is applied.
OneChangePerRevision ==
    \A b, c \in 1..Len(command) :
        /\ b # c /\ command[b].room = command[c].room /\ command[b].base = command[c].base
        => ~(command[b].state = "applied" /\ command[c].state = "applied")
=============================================================================
