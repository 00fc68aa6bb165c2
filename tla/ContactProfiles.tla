-------------------------- MODULE ContactProfiles --------------------------
(***************************************************************************)
(* The contacts of the teammate app: profiles that group conversations and *)
(* handles, kept as one value of account data which every tab, and the     *)
(* enrichment that runs once in each tab, reads as a whole, changes and    *)
(* writes back (src/shared/model/contacts.js, src/apps/user/contacts.js,   *)
(* enrich.js, consent.js saveProfilesGuarded).  In a tab one edit of the   *)
(* user and one enrichment may be under way at a time.                     *)
(***************************************************************************)
EXTENDS TeammateSession, SequencesExt

CONSTANTS
    Handles,     \* address-book handles: a source and an identifier
    Names,       \* what a contact may be called
    Number,      \* the phone number the helper resolves for each room, or None
    FirstStore,  \* the stored profiles at the start, as some version of the app left them
    MaxIds       \* bound: profile ids that are minted

VARIABLES
    stored,      \* account data com.jkali.contact_profiles
    minted,      \* the last profile id (newProfileId)
    book,        \* `store`: the profiles a tab has loaded
    open,        \* activeProfileId: the contact on the screen of a tab
    wired,       \* the contact the name field's handler was made for
    enriched,    \* mergeDone
    work         \* the edit and the enrichment under way in each tab

profileVars == <<stored, minted, book, open, wired, enriched, work>>

Workers == {"edit", "merge"}
Labels == {"share", "inherit", "private"}
Idle == [at |-> "idle"]

-----------------------------------------------------------------------------
(* The model: a sequence of profiles. Reading and writing keep the first   *)
(* profile of an id, and the first claim of a room or a handle.            *)
Ids(s) == {s[i].id : i \in DOMAIN s}
RoomsIn(s) == UNION {s[i].rooms : i \in DOMAIN s}
HandlesIn(s) == UNION {s[i].handles : i \in DOMAIN s}
Profile(s, id) == s[CHOOSE i \in DOMAIN s : s[i].id = id]

Normalized(s) ==
    FoldLeft(LAMBDA done, p :
                IF p.id \in Ids(done) THEN done
                ELSE Append(done, [p EXCEPT !.rooms = @ \ RoomsIn(done),
                                            !.handles = @ \ HandlesIn(done)]),
             <<>>, s)

New(id, name) == [id |-> id, name |-> name, rooms |-> {}, handles |-> {}, share |-> "inherit"]
Each(s, F(_)) == [i \in DOMAIN s |-> F(s[i])]
Added(s, id, name) == IF id \in Ids(s) THEN s ELSE Append(s, New(id, name))
Renamed(s, id, name) ==
    IF id \in Ids(s) THEN Each(s, LAMBDA p : IF p.id = id THEN [p EXCEPT !.name = name] ELSE p)
    ELSE Append(s, New(id, name))
Labelled(s, id, share) ==
    IF id \in Ids(s) THEN Each(s, LAMBDA p : IF p.id = id THEN [p EXCEPT !.share = share] ELSE p)
    ELSE Append(s, [New(id, None) EXCEPT !.share = share])
Removed(s, id) == SelectSeq(s, LAMBDA p : p.id # id)

(* Moving a room or a handle takes it from whoever has it; into a profile  *)
(* that is gone, nothing moves.                                            *)
WithoutRoom(s, r) == Each(s, LAMBDA p : [p EXCEPT !.rooms = @ \ {r}])
WithRoom(s, id, r) ==
    IF id \notin Ids(s) THEN s
    ELSE Each(WithoutRoom(s, r), LAMBDA p : IF p.id = id THEN [p EXCEPT !.rooms = @ \cup {r}]
                                                         ELSE p)
WithoutHandle(s, h) == Each(s, LAMBDA p : [p EXCEPT !.handles = @ \ {h}])
WithHandle(s, id, h) ==
    IF id \notin Ids(s) THEN s
    ELSE Each(WithoutHandle(s, h), LAMBDA p : IF p.id = id THEN [p EXCEPT !.handles = @ \cup {h}]
                                                           ELSE p)
WithRooms(s, id, rs) == FoldSet(LAMBDA r, acc : WithRoom(acc, id, r), s, rs)

Owners(s, rs) == {s[i].id : i \in {j \in DOMAIN s : s[j].rooms \cap rs # {}}}
Unowned(s, rs) == rs \ RoomsIn(s)

(* The enrichment: the rooms of one number go into the one profile that    *)
(* has some of them, or into a new one; two profiles are never joined.     *)
MergedGroup(s, rs, id) ==
    LET o == Owners(s, rs) IN
    IF Cardinality(rs) < 2 \/ Cardinality(o) > 1 THEN s
    ELSE IF o # {} THEN WithRooms(s, CHOOSE i \in o : TRUE, Unowned(s, rs))
    ELSE WithRooms(Added(s, id, None), id, rs)
Groups(rs) == {{r \in rs : Number[r] = n} : n \in {Number[q] : q \in rs} \ {None}}
Merged(s, rs, id) == FoldSet(LAMBDA g, acc : MergedGroup(acc, g, id), s, Groups(rs))

(* What each edit does to the value it finds.                              *)
Apply(e, s) ==
    CASE e.op = "create" -> Renamed(s, e.id, e.arg)
      [] e.op = "rename" -> Renamed(s, e.id, e.arg)
      [] e.op = "label"  -> Labelled(s, e.id, e.arg)
      [] e.op = "delete" -> Removed(s, e.id)
      [] e.op = "link"   -> WithRooms(IF e.new THEN Added(s, e.id, None) ELSE s, e.id, e.arg)
      [] e.op = "unlink" -> WithoutRoom(s, e.arg)
      [] e.op = "handle" -> WithHandle(s, e.id, e.arg)
      [] e.op = "unhandle" -> WithoutHandle(s, e.arg)
      [] e.op = "merge"  -> Merged(s, e.arg, e.id)

Do(op, id, arg, new) == [op |-> op, id |-> id, arg |-> arg, new |-> new]

-----------------------------------------------------------------------------
ProfilesInit ==
    /\ stored = FirstStore
    /\ minted = Len(FirstStore)
    /\ book = [t \in Tabs |-> <<>>]
    /\ open = [t \in Tabs |-> None]
    /\ wired = [t \in Tabs |-> [id |-> None, name |-> None]]
    /\ enriched = [t \in Tabs |-> FALSE]
    /\ work = [t \in Tabs |-> [w \in Workers |-> Idle]]

Free(t, w) == work[t][w] = Idle

(* The People view reads the store; when it cannot, it keeps what it has.  *)
ViewPeople(t) ==
    /\ SignedIn(t)
    /\ book[t] # Normalized(stored)
    /\ book' = [book EXCEPT ![t] = Normalized(stored)]
    /\ open' = [open EXCEPT ![t] = IF @ \in Ids(book'[t]) THEN @ ELSE None]
    /\ UNCHANGED <<stored, minted, wired, enriched, work>>

(* A contact is opened. The handler of the name field is attached once, to *)
(* the contact that was opened first.                                      *)
Open(t, id) ==
    /\ id \in Ids(book[t]) /\ open[t] # id
    /\ open' = [open EXCEPT ![t] = id]
    /\ wired' = [wired EXCEPT ![t] =
                    IF @.id = None THEN [id |-> id, name |-> Profile(book[t], id).name] ELSE @]
    /\ UNCHANGED <<stored, minted, book, enriched, work>>

Start(t, w, do) ==
    work' = [work EXCEPT ![t][w] =
                [at |-> "read", do |-> do, held |-> {Normalized(stored)},
                 base |-> <<>>, next |-> <<>>]]

(* Leaving the name field, with the name it shows or another one.          *)
LeaveName(t, name) ==
    /\ SignedIn(t) /\ Free(t, "edit")
    /\ open[t] # None
    /\ name # wired[t].name
    /\ Ask
    /\ Start(t, "edit", Do("rename", wired[t].id, name, FALSE))
    /\ UNCHANGED <<stored, minted, book, open, wired, enriched>>

(* The other edits of the panel.                                           *)
Edits(t) ==
    LET p == Profile(book[t], open[t]) IN
    IF open[t] = None THEN {} ELSE
        {Do("label", p.id, l, FALSE) : l \in Labels}
        \cup {Do("delete", p.id, None, FALSE)}
        \cup {Do("unlink", None, r, FALSE) : r \in p.rooms}
        \cup {Do("handle", p.id, h, FALSE) : h \in Handles}
        \cup {Do("unhandle", None, h, FALSE) : h \in p.handles}

(* The picker that is opened from a conversation moves it to a contact.    *)
Picked(t) == {Do("link", id, {r}, FALSE) : id \in Ids(book[t]), r \in known[t]}

Edit(t) ==
    /\ SignedIn(t) /\ Free(t, "edit")
    /\ Ask
    /\ \E e \in Edits(t) \cup Picked(t) : Start(t, "edit", e)
    /\ UNCHANGED <<stored, minted, book, open, wired, enriched>>

(* A new contact: named by the user, from a conversation, or for the       *)
(* conversations of one name the list suggests to put together.            *)
Create(t) ==
    /\ SignedIn(t) /\ Free(t, "edit")
    /\ minted < MaxIds
    /\ Ask
    /\ minted' = minted + 1
    /\ \/ \E n \in Names : Start(t, "edit", Do("create", minted + 1, n, TRUE))
       \/ \E rs \in SUBSET known[t] \ {{}} :
            Start(t, "edit", Do("link", minted + 1, rs, TRUE))
    /\ UNCHANGED <<stored, book, open, wired, enriched>>

(* The enrichment, once in a tab and only when its feed is there. The rooms *)
(* are those the tab knew when the numbers were asked for.                 *)
Enrich(t) ==
    /\ SignedIn(t)
    /\ ~enriched[t] /\ known[t] # {}
    /\ minted < MaxIds
    /\ Ask
    /\ enriched' = [enriched EXCEPT ![t] = TRUE]
    /\ minted' = minted + 1
    /\ Start(t, "merge", Do("merge", minted + 1, known[t], TRUE))
    /\ UNCHANGED <<stored, book, open, wired>>

\* A failed read that counts as an empty address book.
MutReadStore(t, w) ==
    /\ ~Free(t, w) /\ work[t][w].at = "read"
    /\ SignedIn(t)
    /\ \E fresh \in {Normalized(stored), <<>>} :
        work' = [work EXCEPT ![t][w] = [@ EXCEPT !.at = "write", !.base = fresh,
                                                 !.next = Apply(work[t][w].do, fresh)]]
    /\ UNCHANGED <<stored, minted, book, open, wired, enriched>>

(* The store is read afresh; a read that fails writes nothing, and an      *)
(* enrichment that changes nothing does not write either.                  *)
ReadStore(t, w) ==
    LET fresh == Normalized(stored)
        next == Apply(work[t][w].do, fresh) IN
    /\ ~Free(t, w) /\ work[t][w].at = "read"
    /\ \/ /\ SignedIn(t)
          /\ w = "merge" => next # fresh
          /\ work' = [work EXCEPT ![t][w] = [at |-> "write", do |-> @.do, held |-> @.held,
                                         base |-> fresh, next |-> next]]
       \/ work' = [work EXCEPT ![t][w] = Idle]
    /\ UNCHANGED <<stored, minted, book, open, wired, enriched>>

(* Everyone who is at work sees the store change.                          *)
Landed(s) ==
    [t \in Tabs |-> [w \in Workers |->
        IF work[t][w] = Idle THEN Idle
        ELSE [work[t][w] EXCEPT !.held = @ \cup {Normalized(s)}]]]

(* The write: it lands or not, and its answer may be lost.                 *)
WriteStore(t, w) ==
    LET s == Normalized(work[t][w].next) IN
    /\ ~Free(t, w) /\ work[t][w].at = "write"
    /\ \/ /\ SignedIn(t)
          /\ stored' = s
          /\ work' = [Landed(s) EXCEPT ![t][w] = Idle]
          /\ \/ /\ w = "edit"
                /\ book' = [book EXCEPT ![t] = s]
                /\ open' = [open EXCEPT ![t] = IF @ \in Ids(s) THEN @ ELSE None]
             \/ UNCHANGED <<book, open>>
       \/ /\ work' = [work EXCEPT ![t][w] = Idle]
          /\ UNCHANGED <<stored, book, open>>
    /\ UNCHANGED <<minted, wired, enriched>>

EditStep(t) ==
    \/ Edit(t) \/ Create(t) \/ Enrich(t)
    \/ \E n \in Names \cup {Profile(book[t], id).name : id \in {open[t]} \cap Ids(book[t])} :
            LeaveName(t, n)

StoreStep(t) ==
    \/ ViewPeople(t) \/ \E id \in Ids(book[t]) : Open(t, id)
    \/ \E w \in Workers : ReadStore(t, w) \/ WriteStore(t, w)

contactVars == <<sessionVars, profileVars>>

ContactsInit == SessionInit /\ ProfilesInit

ContactsNext ==
    \/ SessionNext /\ UNCHANGED profileVars
    \/ \E t \in Tabs : \/ EditStep(t) /\ UNCHANGED exceptAsked
                       \/ StoreStep(t) /\ UNCHANGED sessionVars

ContactsSpec == ContactsInit /\ [][ContactsNext]_contactVars
-----------------------------------------------------------------------------
(* What is written is an edit of a value that was stored while the edit    *)
(* was under way: a read that fails never becomes an empty address book.   *)
BuiltOnTheStore ==
    \A t \in Tabs, w \in Workers :
        ~Free(t, w) /\ work[t][w].at = "write" => work[t][w].base \in work[t][w].held
=============================================================================
