------------------------- MODULE TeammateAppProofs -------------------------
(***************************************************************************)
(* Proofs about the teammate app, for any tabs, conversations and bounds:  *)
(* - the contacts (ContactProfiles), for any handles, names and first      *)
(*   store: what is written was built on a stored value, and no            *)
(*   conversation joins the account before a yes;                          *)
(* - the queue of suggestions (SuggestionQueue), for any suggestions: a    *)
(*   suggestion is sent on behalf of one decision only, what a tab is told *)
(*   of its approval is true, and the decision the manager is told does    *)
(*   not change.                                                           *)
(* The two share the sessions of the tabs (TeammateSession).               *)
(***************************************************************************)
EXTENDS SuggestionQueue, ContactProfiles, TLAPS

-----------------------------------------------------------------------------
(* No conversation joins the account before the user says yes: the lemmas are
   about the steps of the session (TeammateSession), which this module extends. *)

SomebodySaidYes == \E t \in Tabs : saidYes[t]

(* The answers and the passes, as functions over the tabs.                 *)
PassTyped ==
    /\ saidYes \in [Tabs -> BOOLEAN]
    /\ pass \in [Tabs -> [at : {"idle", "ask", "join"}, todo : SUBSET Rooms]]

(* A pass joins only after the yes of its own browser, the sync service    *)
(* only after a yes that reached the account data, and both only what      *)
(* passes the predicate.                                                   *)
YesInv ==
    /\ PassTyped
    /\ ack => SomebodySaidYes
    /\ \A t \in Tabs : pass[t].at = "join" => saidYes[t]
    /\ \A t \in Tabs : \A r \in pass[t].todo : Admitted(r)
    /\ \A r \in member \ Joined : Admitted(r) /\ SomebodySaidYes

(* At the start nobody has been asked and the account is in no new room.   *)
LEMMA YesAtFirst == SessionInit => YesInv
  BY DEF SessionInit, YesInv, PassTyped, NoPass, SomebodySaidYes

(* The predicate is the promise about the inviter.                         *)
LEMMA YesIsEnough == YesInv => JoinedAfterYes
  BY DEF YesInv, JoinedAfterYes, Admitted, SomebodySaidYes

(* Signing in, signing out, the feed and the other things a user asks for  *)
(* leave the answers, the passes and the account as they are.              *)
LEMMA YesUntouched ==
  ASSUME YesInv, UNCHANGED <<member, pass, saidYes, ack>>
  PROVE  YesInv'
  BY DEF YesInv, PassTyped, SomebodySaidYes, Admitted

(* A pass is made of invitations that pass the predicate.                  *)
LEMMA YesStartPass ==
  ASSUME YesInv, NEW t \in Tabs, StartPass(t)
  PROVE  YesInv'
<1>1. PICK b \in Batches(t) :
        pass' = [pass EXCEPT ![t] = [at |-> IF saidYes[t] THEN "join" ELSE "ask", todo |-> b]]
  BY DEF StartPass
<1>2. UNCHANGED <<member, saidYes, ack>>
  BY DEF StartPass
<1>3. b \subseteq Rooms /\ \A r \in b : Admitted(r)
  BY <1>1 DEF Batches, Fresh, Pending
<1>4. PassTyped'
  BY <1>1, <1>2, <1>3 DEF YesInv, PassTyped
<1> QED
  BY <1>1, <1>2, <1>3, <1>4 DEF YesInv, PassTyped, SomebodySaidYes, Admitted

(* A yes is remembered before the pass goes on.                            *)
LEMMA YesAnswer ==
  ASSUME YesInv, NEW t \in Tabs, NEW yes \in BOOLEAN, Answer(t, yes)
  PROVE  YesInv'
<1>1. /\ pass' = [pass EXCEPT ![t] = IF yes THEN [@ EXCEPT !.at = "join"] ELSE NoPass]
      /\ saidYes' = [saidYes EXCEPT ![t] = @ \/ yes]
      /\ \E landed \in BOOLEAN : ack' = (ack \/ (yes /\ landed /\ SignedIn(t)))
      /\ UNCHANGED member
  BY DEF Answer
<1>2. PassTyped'
  BY <1>1 DEF YesInv, PassTyped, NoPass
<1>3. \A s \in Tabs : saidYes[s] => saidYes'[s]
  BY <1>1 DEF YesInv, PassTyped
<1>4. ack' => SomebodySaidYes'
  BY <1>1, <1>3 DEF YesInv, PassTyped, SomebodySaidYes
<1>5. ASSUME NEW s \in Tabs
      PROVE  /\ pass'[s].at = "join" => saidYes'[s]
             /\ pass'[s].todo \subseteq pass[s].todo
  BY <1>1, <1>5 DEF YesInv, PassTyped, NoPass
<1> QED
  BY <1>1, <1>2, <1>3, <1>4, <1>5 DEF YesInv, SomebodySaidYes, Admitted

(* A join by the tab comes from its pass.                                  *)
LEMMA YesJoin ==
  ASSUME YesInv, NEW t \in Tabs, NEW r \in Rooms, Join(t, r)
  PROVE  YesInv'
<1>1. /\ pass[t].at = "join" /\ r \in pass[t].todo
      /\ pass' = [pass EXCEPT ![t].todo = @ \ {r}]
      /\ member' \in {member, member \cup {r}}
      /\ UNCHANGED <<saidYes, ack>>
  BY DEF Join
<1>2. PassTyped'
  BY <1>1 DEF YesInv, PassTyped
<1>3. Admitted(r) /\ SomebodySaidYes
  BY <1>1 DEF YesInv, SomebodySaidYes
<1>4. \A s \in Tabs : pass'[s].at = pass[s].at /\ pass'[s].todo \subseteq pass[s].todo
  BY <1>1 DEF YesInv, PassTyped
<1> QED
  BY <1>1, <1>2, <1>3, <1>4 DEF YesInv, SomebodySaidYes, Admitted

(* Every step of the tabs and of the sync service preserves the invariant. *)
LEMMA YesSession ==
  ASSUME YesInv, SessionNext
  PROVE  YesInv'
<1>1. ASSUME NEW t \in Tabs, SignIn(t) \/ SignOut(t) \/ SeedFeed(t)
      PROVE  YesInv'
  BY <1>1, YesUntouched DEF SignIn, SignOut, SeedFeed
<1>2. ASSUME NEW t \in Tabs, StartPass(t)
      PROVE  YesInv'
  BY <1>2, YesStartPass
<1>3. ASSUME NEW t \in Tabs, EndPass(t)
      PROVE  YesInv'
  <2>1. pass' = [pass EXCEPT ![t] = NoPass] /\ UNCHANGED <<member, saidYes, ack>>
    BY <1>3 DEF EndPass
  <2>2. PassTyped'
    BY <2>1 DEF YesInv, PassTyped, NoPass
  <2>3. \A s \in Tabs : pass'[s] = pass[s] \/ pass'[s] = NoPass
    BY <2>1 DEF YesInv, PassTyped
  <2> QED
    BY <2>1, <2>2, <2>3 DEF YesInv, NoPass, SomebodySaidYes, Admitted
<1>4. ASSUME NEW t \in Tabs, MigrateAck(t)
      PROVE  YesInv'
  BY <1>4 DEF MigrateAck, YesInv, PassTyped, SomebodySaidYes, Admitted
<1>5. ASSUME NEW r \in Rooms, DaemonJoin(r)
      PROVE  YesInv'
  BY <1>5 DEF DaemonJoin, YesInv, PassTyped, SomebodySaidYes, Admitted
<1> QED
  BY <1>1, <1>2, <1>3, <1>4, <1>5, YesAnswer, YesJoin DEF SessionNext

-----------------------------------------------------------------------------
(* The edits. *)
(* An edit or an enrichment under way, with the fields Start gives it.     *)
Underway(j) ==
    /\ j = [at |-> j.at, do |-> j.do, held |-> j.held, base |-> j.base, next |-> j.next]
    /\ j.at \in {"read", "write"}

WorkTyped ==
    /\ work = [t \in Tabs |-> [w \in Workers |-> work[t][w]]]
    /\ \A t \in Tabs, w \in Workers : work[t][w] = Idle \/ Underway(work[t][w])

(* What is stored now is among what an edit under way has seen stored, and *)
(* so is, once it has read, the value it read.                             *)
HeldInv ==
    \A t \in Tabs, w \in Workers : work[t][w] # Idle =>
        /\ Normalized(stored) \in work[t][w].held
        /\ work[t][w].at = "write" => work[t][w].base \in work[t][w].held

BuildInv == WorkTyped /\ HeldInv

LEMMA BuildAtFirst == ProfilesInit => BuildInv
  BY DEF ProfilesInit, BuildInv, WorkTyped, HeldInv

(* A step that neither writes nor starts, reads or ends an edit.           *)
LEMMA BuildUntouched ==
  ASSUME BuildInv, UNCHANGED <<stored, work>>
  PROVE  BuildInv'
  BY DEF BuildInv, WorkTyped, HeldInv

(* The four ways an edit begins put the stored value among what it saw.    *)
LEMMA BuildStart ==
  ASSUME BuildInv, NEW t \in Tabs, NEW w \in Workers, NEW do,
         Start(t, w, do), UNCHANGED stored
  PROVE  BuildInv'
<1> DEFINE j == [at |-> "read", do |-> do, held |-> {Normalized(stored)},
                 base |-> <<>>, next |-> <<>>]
<1>1. work' = [work EXCEPT ![t][w] = j]
  BY DEF Start
<1>2. Underway(j) /\ Normalized(stored) \in j.held /\ j.at # "write"
  BY DEF Underway
<1>3. \A s \in Tabs, v \in Workers :
        work'[s][v] = IF s = t /\ v = w THEN j ELSE work[s][v]
  BY <1>1 DEF BuildInv, WorkTyped
<1>4. work' = [s \in Tabs |-> [v \in Workers |-> work'[s][v]]]
  BY <1>1 DEF BuildInv, WorkTyped
<1> HIDE DEF j
<1>5. WorkTyped'
  BY <1>2, <1>3, <1>4 DEF BuildInv, WorkTyped, Underway
<1> QED
  BY <1>2, <1>3, <1>5 DEF BuildInv, HeldInv

LEMMA BuildEdit ==
  ASSUME BuildInv, NEW t \in Tabs, EditStep(t)
  PROVE  BuildInv'
<1>1. UNCHANGED stored
  BY DEF EditStep, Edit, Create, Enrich, LeaveName
<1>2. "edit" \in Workers /\ "merge" \in Workers
  BY DEF Workers
<1>3. \E w \in Workers : \E do : Start(t, w, do)
  BY <1>2 DEF EditStep, Edit, Create, Enrich, LeaveName
<1> QED
  BY <1>1, <1>3, BuildStart

(* What is read is the stored value; a read that fails ends the edit.      *)
LEMMA BuildRead ==
  ASSUME BuildInv, NEW t \in Tabs, NEW w \in Workers, ReadStore(t, w)
  PROVE  BuildInv'
<1> DEFINE j == work[t][w]
           next == Apply(j.do, Normalized(stored))
           k == [at |-> "write", do |-> j.do, held |-> j.held,
                 base |-> Normalized(stored), next |-> next]
<1>1. j # Idle /\ j.at = "read" /\ UNCHANGED stored
  BY DEF ReadStore, Free
<1>2. Underway(j) /\ Normalized(stored) \in j.held
  BY <1>1 DEF BuildInv, WorkTyped, HeldInv
<1>3. Underway(k) /\ k.base \in k.held /\ Normalized(stored) \in k.held
  BY <1>2 DEF Underway
<1>4. \/ work' = [work EXCEPT ![t][w] = k]
      \/ work' = [work EXCEPT ![t][w] = Idle]
  BY DEF ReadStore
<1> HIDE DEF k
<1>5. ASSUME NEW x, x \in {k, Idle}, work' = [work EXCEPT ![t][w] = x]
      PROVE  BuildInv'
  <2>1. \A s \in Tabs, v \in Workers :
          work'[s][v] = IF s = t /\ v = w THEN x ELSE work[s][v]
    BY <1>5 DEF BuildInv, WorkTyped
  <2>2. work' = [s \in Tabs |-> [v \in Workers |-> work'[s][v]]]
    BY <1>5 DEF BuildInv, WorkTyped
  <2>3. WorkTyped'
    BY <1>3, <1>5, <2>1, <2>2 DEF BuildInv, WorkTyped, Underway
  <2> QED
    BY <1>1, <1>3, <1>5, <2>1, <2>3 DEF BuildInv, HeldInv
<1> QED
  BY <1>4, <1>5

(* What lands is seen by everyone at work.                                 *)
LEMMA BuildWrite ==
  ASSUME BuildInv, NEW t \in Tabs, NEW w \in Workers, WriteStore(t, w)
  PROVE  BuildInv'
<1> DEFINE s == Normalized(work[t][w].next)
<1>1. CASE /\ stored' = s
           /\ work' = [Landed(s) EXCEPT ![t][w] = Idle]
  <2> HIDE DEF s
  <2>1. Landed(s) = [u \in Tabs |-> [v \in Workers |-> Landed(s)[u][v]]]
    BY DEF Landed
  <2>2. \A u \in Tabs, v \in Workers :
          work'[u][v] = IF u = t /\ v = w THEN Idle ELSE Landed(s)[u][v]
    BY <1>1, <2>1
  <2>3. work' = [u \in Tabs |-> [v \in Workers |-> work'[u][v]]]
    BY <1>1, <2>1
  <2>4. ASSUME NEW u \in Tabs, NEW v \in Workers, work'[u][v] # Idle
        PROVE  /\ Underway(work'[u][v])
               /\ Normalized(stored') \in work'[u][v].held
               /\ work'[u][v].at = "write" => work'[u][v].base \in work'[u][v].held
    <3> DEFINE j == work[u][v]
    <3>1. Landed(s)[u][v] = IF j = Idle THEN Idle
                            ELSE [j EXCEPT !.held = @ \cup {Normalized(s)}]
      BY DEF Landed
    <3>2. j # Idle /\ work'[u][v] = [j EXCEPT !.held = @ \cup {Normalized(s)}]
      BY <2>2, <2>4, <3>1
    <3>3. Underway(j) /\ (j.at = "write" => j.base \in j.held)
      BY <3>2 DEF BuildInv, WorkTyped, HeldInv
    <3>4. work'[u][v] = [at |-> j.at, do |-> j.do, held |-> j.held \cup {Normalized(s)},
                         base |-> j.base, next |-> j.next]
      BY <3>2, <3>3 DEF Underway
    <3>5. Normalized(stored') = Normalized(s)
      BY <1>1
    <3> QED
      BY <3>3, <3>4, <3>5 DEF Underway
  <2>5. WorkTyped'
    BY <2>3, <2>4 DEF WorkTyped, Underway
  <2> QED
    BY <2>4, <2>5 DEF BuildInv, HeldInv
<1>2. CASE work' = [work EXCEPT ![t][w] = Idle] /\ stored' = stored
  <2>1. \A u \in Tabs, v \in Workers :
          work'[u][v] = IF u = t /\ v = w THEN Idle ELSE work[u][v]
    BY <1>2 DEF BuildInv, WorkTyped
  <2>2. work' = [u \in Tabs |-> [v \in Workers |-> work'[u][v]]]
    BY <1>2 DEF BuildInv, WorkTyped
  <2>3. WorkTyped'
    BY <2>1, <2>2 DEF BuildInv, WorkTyped, Underway
  <2> QED
    BY <1>2, <2>1, <2>3 DEF BuildInv, HeldInv
<1> QED
  BY <1>1, <1>2 DEF WriteStore

(* Every step, whoever takes it.                                           *)
LEMMA BuildStep == BuildInv /\ [ContactsNext]_contactVars => BuildInv'
<1> SUFFICES ASSUME BuildInv, [ContactsNext]_contactVars
             PROVE  BuildInv'
  OBVIOUS
<1>1. CASE UNCHANGED contactVars \/ UNCHANGED profileVars
  BY <1>1, BuildUntouched DEF contactVars, profileVars
<1>2. ASSUME NEW t \in Tabs, EditStep(t)
      PROVE  BuildInv'
  BY <1>2, BuildEdit
<1>3. ASSUME NEW t \in Tabs, StoreStep(t)
      PROVE  BuildInv'
  <2>1. ASSUME ViewPeople(t) \/ \E id \in Ids(book[t]) : Open(t, id)
        PROVE  BuildInv'
    BY <2>1, BuildUntouched DEF ViewPeople, Open
  <2> QED
    BY <1>3, <2>1, BuildRead, BuildWrite DEF StoreStep
<1> QED
  BY <1>1, <1>2, <1>3 DEF ContactsNext

-----------------------------------------------------------------------------
(* Whatever the edits, the tabs and the enrichment do, what is written is  *)
(* an edit of a value that was stored while the edit was under way         *)
(* (contacts.js and consent.js, saveProfilesGuarded).                      *)
THEOREM NothingFromNothing == ContactsSpec => []BuiltOnTheStore
<1>1. ContactsInit => BuildInv
  BY BuildAtFirst DEF ContactsInit
<1>2. BuildInv => BuiltOnTheStore
  BY DEF BuildInv, HeldInv, BuiltOnTheStore, Free
<1> QED
  BY <1>1, <1>2, BuildStep, PTL DEF ContactsSpec

(* The account is in a new conversation only when its one inviter is the   *)
(* bridge bot that made it and some browser was told yes (invites.js and   *)
(* the invites stage of the sync service).                                 *)
THEOREM NoJoinUnasked == ContactsSpec => []JoinedAfterYes
<1>1. ContactsInit => YesInv
  BY YesAtFirst DEF ContactsInit
<1>2. YesInv /\ [ContactsNext]_contactVars => YesInv'
  <2> SUFFICES ASSUME YesInv, [ContactsNext]_contactVars
               PROVE  YesInv'
    OBVIOUS
  <2>1. CASE SessionNext
    BY <2>1, YesSession
  <2>2. CASE UNCHANGED exceptAsked \/ UNCHANGED sessionVars
    BY <2>2, YesUntouched DEF exceptAsked, sessionVars
  <2> QED
    BY <2>1, <2>2 DEF ContactsNext, contactVars, sessionVars
<1> QED
  BY <1>1, <1>2, YesIsEnough, PTL DEF ContactsSpec

-----------------------------------------------------------------------------
(* The queue of suggestions.                                               *)

IsJob(j) ==
    j = [at |-> j.at, on |-> j.on, is |-> j.is, how |-> j.how, id |-> j.id,
         login |-> j.login, send |-> j.send, rest |-> j.rest]

ItemStates == {"waiting_for_approval", "approval_pending", "attempted", "sent", "declined",
               "canceled", "refused", "outcome_unknown"}
Items == [state : ItemStates, approval : Approvals \cup {None}]

(* The variables are functions over the tabs and the suggestions.          *)
Formed ==
    /\ job = [t \in Tabs |-> job[t]]
    /\ told = [t \in Tabs |-> [p \in Suggestions |-> told[t][p]]]
    /\ said = [p \in Suggestions |-> said[p]]
    /\ claim = [p \in Suggestions |-> claim[p]]
    /\ claimed = [p \in Suggestions |-> claimed[p]]
    /\ published = [p \in Suggestions |-> published[p]]
    /\ journal \in [Suggestions -> Items]
    /\ itemStatus = [p \in Suggestions |-> itemStatus[p]]
    /\ intents \in [Suggestions -> SUBSET Approvals]

(* A tab sends only for a conversation, and only after it found its own    *)
(* decision claimed; an item it leaves to the sync service.                *)
JobGood(j) ==
    /\ IsJob(j)
    /\ j.at \in {"check", "write", "poll", "send", "result"} => Kind[j.on] # "crm"
    /\ j.at \in {"item", "intent", "itemPoll"} => Kind[j.on] = "crm"
    /\ j.at = "send" /\ j.on \in Suggestions =>
         claim[j.on] # NoRecord /\ claim[j.on].by = j.id /\ claim[j.on].is = "accepted"

(* A conversation's claim is settled once: the database, the manager and   *)
(* what was said agree with the claim in the room.                         *)
ClaimGood(p) ==
    /\ claimed[p] # NoRecord /\ claim[p] # NoRecord => claimed[p] = claim[p]
    /\ published[p].is # None => claim[p] # NoRecord /\ published[p].is = claim[p].is
    /\ Kind[p] # "crm" /\ said[p] # {} =>
         said[p] = {claim[p].by} /\ claim[p] # NoRecord /\ claim[p].is = "accepted"

(* An item is approved once, and is dispatched as it was approved; the     *)
(* room and the tabs hold the approval of the journal, or none.            *)
ItemGood(p) ==
    /\ Kind[p] # "crm" => intents[p] = {} /\ journal[p].state = "waiting_for_approval"
    /\ journal[p].state \in {"approval_pending", "attempted"} =>
         journal[p].approval \in {"approve", "reworded"}
    /\ Kind[p] = "crm" /\ said[p] # {} =>
         /\ said[p] = {journal[p].approval} /\ journal[p].approval \in {"approve", "reworded"}
         /\ journal[p].state \notin {"waiting_for_approval", "approval_pending"}
    /\ itemStatus[p].approval # None => itemStatus[p].approval = journal[p].approval
    /\ \A t \in Tabs : told[t][p] # None => told[t][p] = journal[p].approval

QueueInv ==
    /\ Formed
    /\ \A t \in Tabs : JobGood(job[t])
    /\ \A p \in Suggestions : ClaimGood(p) /\ ItemGood(p)

others == <<told, said, claim, claimed, published, journal, itemStatus, intents>>

LEMMA QueueAtFirst == Init => QueueInv
<1> SUFFICES ASSUME Init
             PROVE  QueueInv
  OBVIOUS
<1>1. Formed
  BY DEF Init, QueueInit, Formed, Items, ItemStates
<1>2. \A t \in Tabs : JobGood(job[t])
  BY DEF Init, QueueInit, NoJob, JobGood, IsJob
<1>3. \A p \in Suggestions : ClaimGood(p) /\ ItemGood(p)
  BY DEF Init, QueueInit, ClaimGood, ItemGood
<1> QED
  BY <1>1, <1>2, <1>3 DEF QueueInv

(* A job that begins, goes on with the next suggestion of a run, or ends.   *)
LEMMA BeginGood ==
  ASSUME NEW p, NEW is, NEW how, NEW login, NEW rest
  PROVE  JobGood(Begin(p, is, how, login, rest))
<1> DEFINE j == Begin(p, is, how, login, rest)
<1>1. j = [at |-> IF Kind[p] = "crm" THEN "item" ELSE "check", on |-> p, is |-> is, how |-> how,
           id |-> 0, login |-> login, send |-> "none", rest |-> rest]
  BY DEF Begin
<1>2. j.at = (IF Kind[p] = "crm" THEN "item" ELSE "check") /\ j.on = p
  BY <1>1
<1>3. IsJob(j)
  BY <1>1 DEF IsJob
<1> HIDE DEF j
<1>4. JobGood(j)
  <2>1. CASE Kind[p] = "crm"
    BY <1>2, <1>3, <2>1 DEF JobGood
  <2>2. CASE Kind[p] # "crm"
    BY <1>2, <1>3, <2>2 DEF JobGood
  <2> QED
    BY <2>1, <2>2
<1> QED
  BY <1>4 DEF j

LEMMA NextGood ==
  ASSUME NEW t, NEW ok
  PROVE  JobGood(Next1(t, ok))
<1>1. JobGood(NoJob)
  BY DEF JobGood, IsJob, NoJob
<1> QED
  BY <1>1, BeginGood DEF Next1

(* A job that goes on: its place in the work and nothing else.             *)
LEMMA MoveGood ==
  ASSUME NEW j, IsJob(j), NEW at
  PROVE  LET k == [j EXCEPT !.at = at]
         IN  IsJob(k) /\ k.at = at /\ k.on = j.on /\ k.is = j.is /\ k.id = j.id
  BY DEF IsJob

LEMMA IdGood ==
  ASSUME NEW j, IsJob(j), NEW id
  PROVE  LET k == [j EXCEPT !.id = id]
         IN  IsJob(k) /\ k.at = j.at /\ k.on = j.on
  BY DEF IsJob

LEMMA SendGood ==
  ASSUME NEW j, IsJob(j), NEW send
  PROVE  LET k == [j EXCEPT !.send = send]
         IN  IsJob(k) /\ k.at = j.at /\ k.on = j.on /\ k.id = j.id
  BY DEF IsJob

(* A step that changes the job of one tab only.                            *)
LEMMA JobOnly ==
  ASSUME QueueInv, NEW t \in Tabs, NEW x, JobGood(x),
         job' = [job EXCEPT ![t] = x], UNCHANGED others
  PROVE  QueueInv'
<1>1. job' = [s \in Tabs |-> job'[s]]
  BY DEF QueueInv, Formed
<1>2. \A s \in Tabs : job'[s] = IF s = t THEN x ELSE job[s]
  BY DEF QueueInv, Formed
<1>3. Formed'
  BY <1>1 DEF QueueInv, Formed, others
<1>4. \A s \in Tabs : JobGood(job[s])'
  BY <1>2 DEF QueueInv, JobGood, IsJob, others
<1>5. \A p \in Suggestions : ClaimGood(p)' /\ ItemGood(p)'
  BY DEF QueueInv, ClaimGood, ItemGood, others
<1> QED
  BY <1>3, <1>4, <1>5 DEF QueueInv

LEMMA QueueUntouched ==
  ASSUME QueueInv, UNCHANGED <<job, others>>
  PROVE  QueueInv'
<1>1. Formed'
  BY DEF QueueInv, Formed, others
<1>2. \A t \in Tabs : JobGood(job[t])'
  BY DEF QueueInv, JobGood, IsJob, others
<1>3. \A p \in Suggestions : ClaimGood(p)' /\ ItemGood(p)'
  BY DEF QueueInv, ClaimGood, ItemGood, others
<1> QED
  BY <1>1, <1>2, <1>3 DEF QueueInv

LEMMA FinishGood ==
  ASSUME QueueInv, NEW t \in Tabs, NEW ok, Finish(t, ok), UNCHANGED others
  PROVE  QueueInv'
  BY NextGood, JobOnly DEF Finish

-----------------------------------------------------------------------------
(* The steps of a tab before and around the send.                          *)
LEMMA TabDecides ==
  ASSUME QueueInv, NEW t \in Tabs, DecisionStep(t)
  PROVE  QueueInv'
<1>1. UNCHANGED others
  BY DEF DecisionStep, Decide, SendAll, claimVars, itemVars, listVars, others
<1>2. ASSUME NEW p, NEW is, NEW how, NEW login, NEW rest,
             job' = [job EXCEPT ![t] = Begin(p, is, how, login, rest)]
      PROVE  QueueInv'
  BY <1>1, <1>2, BeginGood, JobOnly
<1>3. ASSUME NEW p \in Suggestions, NEW is \in Decisions, NEW how, Decide(t, p, is, how)
      PROVE  QueueInv'
  BY <1>2, <1>3 DEF Decide
<1>4. ASSUME NEW r \in Rooms, SendAll(t, r)
      PROVE  QueueInv'
  BY <1>2, <1>4 DEF SendAll
<1> QED
  BY <1>3, <1>4 DEF DecisionStep

LEMMA TabEnds ==
  ASSUME QueueInv, NEW t \in Tabs, Drop(t) \/ Fail(t) \/ GiveUp(t)
  PROVE  QueueInv'
  BY FinishGood DEF Drop, Fail, GiveUp, claimVars, itemVars, listVars, others

LEMMA TabChecks ==
  ASSUME QueueInv, NEW t \in Tabs, Check(t)
  PROVE  QueueInv'
<1>1. UNCHANGED others
  BY DEF Check, claimVars, itemVars, others
<1>2. CASE Finish(t, FALSE)
  BY <1>1, <1>2, FinishGood
<1>3. CASE Go(t, "write")
  <2> DEFINE k == [job[t] EXCEPT !.at = "write"]
  <2>1. job[t].at = "check" /\ JobGood(job[t])
    BY DEF Check, Working, QueueInv
  <2>2. job' = [job EXCEPT ![t] = k]
    BY <1>3 DEF Go, QueueInv, Formed
  <2>3. JobGood(k)
    BY <2>1, MoveGood DEF JobGood
  <2> QED
    BY <1>1, <2>2, <2>3, JobOnly
<1> QED
  BY <1>2, <1>3 DEF Check

LEMMA TabWritesDecision ==
  ASSUME QueueInv, NEW t \in Tabs, WriteDecision(t)
  PROVE  QueueInv'
<1>1. UNCHANGED others
  BY DEF WriteDecision, claimVars, itemVars, others
<1>2. CASE Finish(t, FALSE)
  BY <1>1, <1>2, FinishGood
<1>3. CASE job' = [job EXCEPT ![t].at = "poll", ![t].id = events + 1]
  <2> DEFINE i == [job[t] EXCEPT !.at = "poll"]
             k == [i EXCEPT !.id = events + 1]
  <2>1. job[t].at = "write" /\ JobGood(job[t])
    BY DEF WriteDecision, Working, QueueInv
  <2>2. job' = [job EXCEPT ![t] = k]
    BY <1>3 DEF QueueInv, Formed
  <2>3. IsJob(i) /\ i.at = "poll" /\ i.on = job[t].on
    BY <2>1, MoveGood DEF JobGood
  <2> HIDE DEF i
  <2>4. IsJob(k) /\ k.at = "poll" /\ k.on = job[t].on
    BY <2>3, IdGood
  <2> HIDE DEF k
  <2>5. JobGood(k)
    BY <2>1, <2>4 DEF JobGood
  <2> QED
    BY <1>1, <2>2, <2>5, JobOnly
<1> QED
  BY <1>2, <1>3 DEF WriteDecision

(* Only a tab that finds its own acceptance claimed goes on to send.       *)
LEMMA TabPolls ==
  ASSUME QueueInv, NEW t \in Tabs, Poll(t)
  PROVE  QueueInv'
<1>1. UNCHANGED others
  BY DEF Poll, claimVars, itemVars, others
<1>2. ASSUME NEW ok, Finish(t, ok)
      PROVE  QueueInv'
  BY <1>1, <1>2, FinishGood
<1>3. ASSUME NEW at \in {"send", "result"}, Owns(t), job[t].is = "accepted",
             claim[job[t].on] # NoRecord,
             job' = [job EXCEPT ![t].at = at, ![t].send = "unknown"]
      PROVE  QueueInv'
  <2> DEFINE i == [job[t] EXCEPT !.at = at]
             k == [i EXCEPT !.send = "unknown"]
  <2>1. job[t].at = "poll" /\ JobGood(job[t])
    BY DEF Poll, Working, QueueInv
  <2>2. job' = [job EXCEPT ![t] = k]
    BY <1>3 DEF QueueInv, Formed
  <2>3. IsJob(i) /\ i.at = at /\ i.on = job[t].on /\ i.id = job[t].id
    BY <2>1, MoveGood DEF JobGood
  <2> HIDE DEF i
  <2>4. IsJob(k) /\ k.at = at /\ k.on = job[t].on /\ k.id = job[t].id
    BY <2>3, SendGood
  <2> HIDE DEF k
  <2>5. JobGood(k)
    BY <1>3, <2>1, <2>4 DEF JobGood, Owns
  <2> QED
    BY <1>1, <2>2, <2>5, JobOnly
<1> QED
  BY <1>2, <1>3 DEF Poll

LEMMA TabWritesResult ==
  ASSUME QueueInv, NEW t \in Tabs, WriteResult(t)
  PROVE  QueueInv'
<1>1. UNCHANGED others
  BY DEF WriteResult, claimVars, itemVars, others
<1>2. \E ok : Finish(t, ok)
  BY DEF WriteResult
<1> QED
  BY <1>1, <1>2, FinishGood

(* The send itself: one message more, for the claimed decision.            *)
LEMMA TabSends ==
  ASSUME QueueInv, NEW t \in Tabs, Send(t)
  PROVE  QueueInv'
<1> DEFINE p == job[t].on
<1>1. /\ job[t].at = "send" /\ JobGood(job[t]) /\ Kind[p] # "crm"
      /\ UNCHANGED <<told, claim, claimed, published, journal, itemStatus, intents>>
  BY DEF Send, Working, QueueInv, JobGood, claimVars, itemVars, listVars
<1>2. \A q \in Suggestions : said'[q] = said[q] \/ (q = p /\ said'[q] = said[q] \cup {job[t].id})
  BY DEF Send, QueueInv, Formed
<1>3. said' = [q \in Suggestions |-> said'[q]]
  BY DEF Send, QueueInv, Formed
<1>4. \/ job' = [job EXCEPT ![t].at = "result"]
      \/ \E s : job' = [job EXCEPT ![t].at = "result", ![t].send = s]
  BY DEF Send, Go
<1>5. ASSUME NEW k, IsJob(k), k.at = "result", k.on = p, job' = [job EXCEPT ![t] = k]
      PROVE  QueueInv'
  <2>1. job' = [s \in Tabs |-> job'[s]] /\ \A s \in Tabs : job'[s] = IF s = t THEN k ELSE job[s]
    BY <1>5 DEF QueueInv, Formed
  <2>2. Formed'
    BY <1>1, <1>3, <2>1 DEF QueueInv, Formed
  <2>3. JobGood(k)
    BY <1>1, <1>5 DEF JobGood
  <2>4. \A s \in Tabs : JobGood(job[s])'
    <3>1. ASSUME NEW s \in Tabs
          PROVE  JobGood(job[s])'
      <4>1. JobGood(job[s]) /\ (job'[s] = job[s] \/ job'[s] = k)
        BY <2>1 DEF QueueInv
      <4> QED
        BY <1>1, <2>3, <4>1 DEF JobGood, IsJob
    <3> QED
      BY <3>1
  <2>5. ASSUME NEW q \in Suggestions
        PROVE  ClaimGood(q)' /\ ItemGood(q)'
    <3>1. ClaimGood(q) /\ ItemGood(q)
      BY DEF QueueInv
    <3>2. CASE said'[q] = said[q]
      BY <1>1, <3>1, <3>2 DEF ClaimGood, ItemGood
    <3>3. CASE q = p /\ said'[q] = said[q] \cup {job[t].id}
      <4>1. claim[q] # NoRecord /\ claim[q].by = job[t].id /\ claim[q].is = "accepted"
        BY <1>1, <3>3 DEF JobGood
      <4>2. said'[q] = {claim[q].by}
        BY <1>1, <3>1, <3>3, <4>1 DEF ClaimGood
      <4> QED
        BY <1>1, <3>1, <3>3, <4>1, <4>2 DEF ClaimGood, ItemGood
    <3> QED
      BY <1>2, <3>2, <3>3
  <2> QED
    BY <2>2, <2>4, <2>5 DEF QueueInv
<1>6. CASE job' = [job EXCEPT ![t].at = "result"]
  <2>1. job' = [job EXCEPT ![t] = [job[t] EXCEPT !.at = "result"]]
    BY <1>6 DEF QueueInv, Formed
  <2> QED
    BY <1>1, <1>5, <2>1, MoveGood DEF JobGood
<1>7. ASSUME NEW s, job' = [job EXCEPT ![t].at = "result", ![t].send = s]
      PROVE  QueueInv'
  <2> DEFINE i == [job[t] EXCEPT !.at = "result"]
             k == [i EXCEPT !.send = s]
  <2>1. job' = [job EXCEPT ![t] = k]
    BY <1>7 DEF QueueInv, Formed
  <2>2. IsJob(i) /\ i.at = "result" /\ i.on = p
    BY <1>1, MoveGood DEF JobGood
  <2> HIDE DEF i
  <2>3. IsJob(k) /\ k.at = "result" /\ k.on = p
    BY <2>2, SendGood
  <2> HIDE DEF k
  <2> QED
    BY <1>5, <2>1, <2>3
<1> QED
  BY <1>4, <1>6, <1>7

-----------------------------------------------------------------------------
(* Items: what a tab asks for, what the journal makes of it, and what the  *)
(* tab is told.                                                            *)
LEMMA TabReadsItem ==
  ASSUME QueueInv, NEW t \in Tabs, ReadItem(t)
  PROVE  QueueInv'
<1>1. UNCHANGED <<said, claim, claimed, published, journal, itemStatus, intents>>
  BY DEF ReadItem, claimVars, itemVars
<1>2. ASSUME NEW ok, Finish(t, ok), UNCHANGED told
      PROVE  QueueInv'
  BY <1>1, <1>2, FinishGood DEF others
<1>3. CASE Go(t, "intent") /\ UNCHANGED told /\ Working(t, "item")
  <2> DEFINE k == [job[t] EXCEPT !.at = "intent"]
  <2>1. job[t].at = "item" /\ JobGood(job[t])
    BY <1>3 DEF Working, QueueInv
  <2>2. job' = [job EXCEPT ![t] = k]
    BY <1>3 DEF Go, QueueInv, Formed
  <2>3. JobGood(k)
    BY <2>1, MoveGood DEF JobGood
  <2> QED
    BY <1>1, <1>3, <2>2, <2>3, JobOnly DEF others
<1>4. CASE TellItem(t)
  <2> DEFINE p == job[t].on
             x == Next1(t, TRUE)
  <2>1. /\ job' = [job EXCEPT ![t] = x]
        /\ told' = [told EXCEPT ![t][p] = IF ItemAnswer(t) = "mine" THEN Approval(t) ELSE @]
    BY <1>4 DEF TellItem, Finish
  <2>2. JobGood(x)
    BY NextGood
  <2> HIDE DEF x
  <2>3. job' = [s \in Tabs |-> job'[s]] /\ \A s \in Tabs : job'[s] = IF s = t THEN x ELSE job[s]
    BY <2>1 DEF QueueInv, Formed
  <2>4. \A s \in Tabs : JobGood(job[s])'
    <3>1. ASSUME NEW s \in Tabs
          PROVE  JobGood(job[s])'
      <4>1. JobGood(job[s]) /\ (job'[s] = job[s] \/ job'[s] = x)
        BY <2>3 DEF QueueInv
      <4> QED
        BY <1>1, <2>2, <4>1 DEF JobGood, IsJob
    <3> QED
      BY <3>1
  <2>5. told' = [s \in Tabs |-> [q \in Suggestions |-> told'[s][q]]]
    BY <2>1 DEF QueueInv, Formed
  <2>6. ASSUME NEW s \in Tabs, NEW q \in Suggestions, told'[s][q] # told[s][q]
        PROVE  told'[s][q] = journal[q].approval
    <3>1. q = p /\ ItemAnswer(t) = "mine" /\ told'[s][q] = Approval(t)
      BY <2>1, <2>6 DEF QueueInv, Formed
    <3>2. itemStatus[q].approval # None /\ itemStatus[q].approval = Approval(t)
      BY <3>1 DEF ItemAnswer
    <3> QED
      BY <3>1, <3>2 DEF QueueInv, ItemGood
  <2>7. \A q \in Suggestions : ClaimGood(q)'
    BY <1>1 DEF QueueInv, ClaimGood
  <2>8. \A q \in Suggestions : ItemGood(q)'
    BY <1>1, <2>6 DEF QueueInv, ItemGood
  <2> QED
    BY <1>1, <2>3, <2>4, <2>5, <2>7, <2>8 DEF QueueInv, Formed
<1> QED
  BY <1>2, <1>3, <1>4 DEF ReadItem

(* What a step of the items leaves alone.                                  *)
LEMMA ItemsOnly ==
  ASSUME QueueInv, UNCHANGED <<told, claim, claimed, published>>,
         \A t \in Tabs : JobGood(job'[t]), job' = [t \in Tabs |-> job'[t]],
         said' = [p \in Suggestions |-> said'[p]],
         journal' \in [Suggestions -> Items],
         itemStatus' = [p \in Suggestions |-> itemStatus'[p]],
         intents' \in [Suggestions -> SUBSET Approvals],
         \A p \in Suggestions : Kind[p] # "crm" => said'[p] = said[p],
         \A p \in Suggestions : ItemGood(p)'
  PROVE  QueueInv'
<1>1. Formed'
  BY DEF QueueInv, Formed
<1>2. \A t \in Tabs : JobGood(job[t])'
  BY DEF JobGood, IsJob
<1>3. \A p \in Suggestions : ClaimGood(p)'
  BY DEF QueueInv, ClaimGood
<1> QED
  BY <1>1, <1>2, <1>3 DEF QueueInv

LEMMA TabWritesIntent ==
  ASSUME QueueInv, NEW t \in Tabs, WriteIntent(t)
  PROVE  QueueInv'
<1> DEFINE p == job[t].on
           k == [job[t] EXCEPT !.at = "itemPoll"]
<1>1. /\ job[t].at = "intent" /\ JobGood(job[t]) /\ Kind[p] = "crm"
      /\ UNCHANGED <<told, said, claim, claimed, published, journal, itemStatus>>
  BY DEF WriteIntent, Working, QueueInv, JobGood, claimVars, listVars
<1>2. \E x : JobGood(x) /\ job' = [job EXCEPT ![t] = x]
  <2>1. JobGood(k)
    BY <1>1, MoveGood DEF JobGood
  <2>2. Go(t, "itemPoll") \/ Finish(t, FALSE)
    BY DEF WriteIntent
  <2>3. CASE Go(t, "itemPoll")
    <3>1. job' = [job EXCEPT ![t] = k]
      BY <2>3 DEF Go, QueueInv, Formed
    <3> QED
      BY <2>1, <3>1
  <2>4. CASE Finish(t, FALSE)
    BY <2>4, NextGood DEF Finish
  <2> QED
    BY <2>2, <2>3, <2>4
<1>3. job' = [s \in Tabs |-> job'[s]] /\ \A s \in Tabs : JobGood(job'[s])
  BY <1>2 DEF QueueInv, Formed
<1>4. Approval(t) \in Approvals
  BY DEF Approval, Approvals
<1>5. intents' = intents \/ intents' = [intents EXCEPT ![p] = @ \cup {Approval(t)}]
  BY DEF WriteIntent
<1>6. /\ intents' \in [Suggestions -> SUBSET Approvals]
      /\ \A q \in Suggestions : Kind[q] # "crm" => intents'[q] = intents[q]
  BY <1>1, <1>4, <1>5 DEF QueueInv, Formed
<1>7. \A q \in Suggestions : ItemGood(q)'
  BY <1>1, <1>6 DEF QueueInv, ItemGood
<1> QED
  BY <1>1, <1>3, <1>6, <1>7, ItemsOnly DEF QueueInv, Formed

(* The first decision of a waiting item is recorded; a later one is not.   *)
LEMMA ServiceIngests ==
  ASSUME QueueInv, NEW p \in Suggestions, NEW d \in Approvals, Ingest(p, d)
  PROVE  QueueInv'
<1>1. /\ d \in intents[p] /\ intents' = [intents EXCEPT ![p] = @ \ {d}]
      /\ UNCHANGED <<told, said, claim, claimed, published, itemStatus, job>>
  BY DEF Ingest, claimVars, listVars
<1>2. /\ intents' \in [Suggestions -> SUBSET Approvals]
      /\ \A q \in Suggestions : intents[q] = {} => intents'[q] = {}
  BY <1>1 DEF QueueInv, Formed
<1>3. Kind[p] = "crm"
  BY <1>1 DEF QueueInv, ItemGood
<1>4. CASE UNCHANGED journal
  <2>1. \A q \in Suggestions : ItemGood(q)'
    BY <1>1, <1>2, <1>4 DEF QueueInv, ItemGood
  <2> QED
    BY <1>1, <1>2, <1>4, <2>1, ItemsOnly DEF QueueInv, Formed
<1>5. CASE /\ journal[p].approval = None /\ journal[p].state = "waiting_for_approval"
           /\ journal' = [journal EXCEPT ![p] =
                [state |-> IF d = "decline" THEN "declined" ELSE "approval_pending",
                 approval |-> d]]
  <2>1. /\ journal' \in [Suggestions -> Items]
        /\ journal'[p].state = (IF d = "decline" THEN "declined" ELSE "approval_pending")
        /\ journal'[p].approval = d
        /\ \A q \in Suggestions \ {p} : journal'[q] = journal[q]
    BY <1>5 DEF QueueInv, Formed, Items, ItemStates
  <2>2. ASSUME NEW q \in Suggestions
        PROVE  ItemGood(q)'
    <3>1. CASE q # p
      BY <1>1, <1>2, <2>1, <3>1 DEF QueueInv, ItemGood
    <3>2. CASE q = p
      <4>1. said[p] = {} /\ itemStatus[p].approval = None /\ \A t \in Tabs : told[t][p] = None
        BY <1>3, <1>5 DEF QueueInv, ItemGood
      <4> QED
        BY <1>1, <1>3, <2>1, <3>2, <4>1 DEF ItemGood, Approvals
    <3> QED
      BY <3>1, <3>2
  <2> QED
    BY <1>1, <1>2, <2>1, <2>2, ItemsOnly DEF QueueInv, Formed
<1> QED
  BY <1>4, <1>5 DEF Ingest

(* The other steps of an item change its state and never its approval.      *)
LEMMA ItemMoves ==
  ASSUME QueueInv, NEW p \in Suggestions, NEW s \in ItemStates, SetItem(p, s),
         UNCHANGED <<told, claim, claimed, published, itemStatus, intents, job>>,
         said' = [q \in Suggestions |-> said'[q]],
         \A q \in Suggestions \ {p} : said'[q] = said[q],
         Kind[p] = "crm",
         s # "waiting_for_approval" /\ s # "approval_pending",
         s = "attempted" => journal[p].state \in {"approval_pending", "attempted"},
         \/ said'[p] = said[p]
         \/ said'[p] = said[p] \cup {journal[p].approval} /\ journal[p].state = "attempted"
  PROVE  QueueInv'
<1>1. /\ journal' \in [Suggestions -> Items]
      /\ journal'[p].state = s /\ journal'[p].approval = journal[p].approval
      /\ \A q \in Suggestions \ {p} : journal'[q] = journal[q]
  BY DEF SetItem, QueueInv, Formed, Items
<1>2. ASSUME NEW q \in Suggestions
      PROVE  ItemGood(q)'
  <2>1. CASE q # p
    BY <1>1, <2>1 DEF QueueInv, ItemGood
  <2>2. CASE q = p
    BY <1>1, <2>2 DEF QueueInv, ItemGood
  <2> QED
    BY <2>1, <2>2
<1> QED
  BY <1>1, <1>2, ItemsOnly DEF QueueInv, Formed

LEMMA ServiceMovesItem ==
  ASSUME QueueInv, NEW p \in Suggestions, Drain(p) \/ Dispatch(p) \/ Cancel(p)
  PROVE  QueueInv'
<1>1. Kind[p] = "crm"
  BY DEF QueueInv, ItemGood, Drain, Dispatch, Cancel
<1>2. UNCHANGED <<told, claim, claimed, published, itemStatus, intents, job>>
  BY DEF Drain, Dispatch, Cancel, claimVars, listVars
<1>3. said = [q \in Suggestions |-> said[q]]
  BY DEF QueueInv, Formed
<1>4. CASE Drain(p)
  <2>1. /\ journal[p].state = "approval_pending" /\ UNCHANGED said
        /\ SetItem(p, "refused") \/ SetItem(p, "attempted")
    BY <1>4 DEF Drain
  <2> QED
    BY <1>1, <1>2, <1>3, <2>1, ItemMoves DEF ItemStates
<1>5. CASE Dispatch(p)
  <2>1. /\ journal[p].state = "attempted"
        /\ said' = [said EXCEPT ![p] = @ \cup {journal[p].approval}] \/ UNCHANGED said
        /\ \E s \in {"sent", "outcome_unknown", "refused"} : SetItem(p, s)
    BY <1>5 DEF Dispatch
  <2>2. /\ said' = [q \in Suggestions |-> said'[q]]
        /\ \A q \in Suggestions \ {p} : said'[q] = said[q]
        /\ said'[p] = said[p] \/ said'[p] = said[p] \cup {journal[p].approval}
    BY <1>3, <2>1
  <2> QED
    BY <1>1, <1>2, <2>1, <2>2, ItemMoves DEF ItemStates
<1>6. CASE Cancel(p)
  <2>1. UNCHANGED said /\ SetItem(p, "canceled")
    BY <1>6 DEF Cancel
  <2> QED
    BY <1>1, <1>2, <1>3, <2>1, ItemMoves DEF ItemStates
<1> QED
  BY <1>4, <1>5, <1>6

LEMMA ServicePublishesItem ==
  ASSUME QueueInv, NEW p \in Suggestions, PublishItem(p)
  PROVE  QueueInv'
<1>1. /\ itemStatus' = [itemStatus EXCEPT ![p] = journal[p]]
      /\ UNCHANGED <<told, said, claim, claimed, published, journal, intents, job>>
  BY DEF PublishItem, claimVars, listVars
<1>2. /\ itemStatus' = [q \in Suggestions |-> itemStatus'[q]]
      /\ \A q \in Suggestions : itemStatus'[q] = IF q = p THEN journal[q] ELSE itemStatus[q]
  BY <1>1 DEF QueueInv, Formed
<1>3. \A q \in Suggestions : ItemGood(q)'
  BY <1>1, <1>2 DEF QueueInv, ItemGood
<1> QED
  BY <1>1, <1>2, <1>3, ItemsOnly DEF QueueInv, Formed

-----------------------------------------------------------------------------
(* The relay: the claim is settled once, in the database and then in the   *)
(* room, and the manager is told after that.                               *)
LEMMA ClaimsOnly ==
  ASSUME QueueInv, UNCHANGED <<told, said, journal, itemStatus, intents, job>>,
         claim' = [p \in Suggestions |-> claim'[p]],
         claimed' = [p \in Suggestions |-> claimed'[p]],
         published' = [p \in Suggestions |-> published'[p]],
         \A p \in Suggestions : claim[p] # NoRecord => claim'[p] = claim[p],
         \A p \in Suggestions :
            /\ claimed'[p] # NoRecord /\ claim'[p] # NoRecord => claimed'[p] = claim'[p]
            /\ published'[p].is # None =>
                 claim'[p] # NoRecord /\ published'[p].is = claim'[p].is
  PROVE  QueueInv'
<1>1. Formed'
  BY DEF QueueInv, Formed
<1>2. \A t \in Tabs : JobGood(job[t])'
  BY DEF QueueInv, JobGood, IsJob
<1>3. \A p \in Suggestions : ClaimGood(p)' /\ ItemGood(p)'
  BY DEF QueueInv, ClaimGood, ItemGood
<1> QED
  BY <1>1, <1>2, <1>3 DEF QueueInv

LEMMA ServiceClaims ==
  ASSUME QueueInv,
         \/ \E p \in Suggestions : Commit(p) \/ Checkpoint(p) \/ Publish(p)
         \/ LoseDatabase
  PROVE  /\ QueueInv'
         /\ \A q \in Suggestions :
              published[q].is # None => published'[q].is = published[q].is
<1>1. UNCHANGED <<told, said, journal, itemStatus, intents, job>>
  BY DEF Commit, Checkpoint, Publish, LoseDatabase, itemVars, listVars
<1>2. Formed /\ \A q \in Suggestions : ClaimGood(q)
  BY DEF QueueInv
<1>3. ASSUME NEW p \in Suggestions, Commit(p)
      PROVE  QueueInv' /\ UNCHANGED published
  <2>1. /\ claimed[p] = NoRecord /\ UNCHANGED <<claim, published>>
        /\ claimed' = [claimed EXCEPT ![p] = IF claim[p] # NoRecord THEN claim[p] ELSE decision[p]]
    BY <1>3 DEF Commit
  <2>2. /\ claimed' = [q \in Suggestions |-> claimed'[q]]
        /\ \A q \in Suggestions \ {p} : claimed'[q] = claimed[q]
        /\ claim[p] # NoRecord => claimed'[p] = claim[p]
    BY <1>2, <2>1 DEF Formed
  <2> QED
    BY <1>1, <1>2, <2>1, <2>2, ClaimsOnly DEF Formed, ClaimGood
<1>4. ASSUME NEW p \in Suggestions, Checkpoint(p)
      PROVE  QueueInv' /\ UNCHANGED published
  <2>1. /\ claim[p] = NoRecord /\ UNCHANGED <<claimed, published>>
        /\ claim' = [claim EXCEPT ![p] = claimed[p]]
    BY <1>4 DEF Checkpoint
  <2>2. /\ claim' = [q \in Suggestions |-> claim'[q]] /\ claim'[p] = claimed[p]
        /\ \A q \in Suggestions \ {p} : claim'[q] = claim[q]
    BY <1>2, <2>1 DEF Formed
  <2> QED
    BY <1>1, <1>2, <2>1, <2>2, ClaimsOnly DEF Formed, ClaimGood
<1>5. ASSUME NEW p \in Suggestions, Publish(p)
      PROVE  /\ QueueInv'
             /\ \A q \in Suggestions :
                  published[q].is # None => published'[q].is = published[q].is
  <2>1. /\ claimed[p] # NoRecord /\ claim[p] # NoRecord /\ UNCHANGED <<claim, claimed>>
        /\ published' = [published EXCEPT ![p] = Payload(p)]
    BY <1>5 DEF Publish, claimVars
  <2>2. /\ published' = [q \in Suggestions |-> published'[q]] /\ published'[p] = Payload(p)
        /\ \A q \in Suggestions \ {p} : published'[q] = published[q]
    BY <1>2, <2>1 DEF Formed
  <2>3. published'[p].is = claim[p].is
    BY <1>2, <2>1, <2>2 DEF Payload, ClaimGood
  <2>4. QueueInv'
    BY <1>1, <1>2, <2>1, <2>2, <2>3, ClaimsOnly DEF Formed, ClaimGood
  <2> QED
    BY <1>2, <2>2, <2>3, <2>4 DEF ClaimGood
<1>6. CASE LoseDatabase
  <2>1. claimed' = [q \in Suggestions |-> NoRecord] /\ UNCHANGED <<claim, published>>
    BY <1>6 DEF LoseDatabase
  <2>2. claimed' = [q \in Suggestions |-> claimed'[q]]
        /\ \A q \in Suggestions : claimed'[q] = NoRecord
    BY <2>1
  <2> QED
    BY <1>1, <1>2, <2>1, <2>2, ClaimsOnly DEF Formed, ClaimGood
<1> QED
  BY <1>3, <1>4, <1>5, <1>6

(* Every other step leaves what the manager is told.                       *)
LEMMA QueueStep ==
  ASSUME QueueInv, [Next]_vars
  PROVE  /\ QueueInv'
         /\ \A q \in Suggestions :
              published[q].is # None => published'[q].is = published[q].is
<1>1. CASE UNCHANGED vars \/ UNCHANGED queueVars
  BY <1>1, QueueUntouched DEF vars, queueVars, claimVars, itemVars, listVars, others
<1>2. ASSUME NEW t \in Tabs, DecisionStep(t)
      PROVE  QueueInv' /\ UNCHANGED published
  BY <1>2, TabDecides DEF DecisionStep, Decide, SendAll
<1>3. ASSUME NEW p \in Suggestions, Cancel(p)
      PROVE  QueueInv' /\ UNCHANGED published
  BY <1>3, ServiceMovesItem DEF Cancel
<1>4. ASSUME NEW t \in Tabs, TabStep(t)
      PROVE  QueueInv' /\ UNCHANGED published
  <2>1. CASE FetchHistory(t) \/ ShowHistory(t)
    BY <2>1, QueueUntouched DEF FetchHistory, ShowHistory, claimVars, itemVars, others
  <2>2. UNCHANGED published
    BY <1>4 DEF TabStep, Drop, Fail, Check, WriteDecision, Poll, GiveUp, Send, WriteResult,
                ReadItem, WriteIntent, FetchHistory, ShowHistory
  <2> QED
    BY <1>4, <2>1, <2>2, TabEnds, TabChecks, TabWritesDecision, TabPolls, TabSends,
       TabWritesResult, TabReadsItem, TabWritesIntent DEF TabStep
<1>5. ASSUME NEW p \in Suggestions, ServiceStep(p)
      PROVE  /\ QueueInv'
             /\ \A q \in Suggestions :
                  published[q].is # None => published'[q].is = published[q].is
  <2>1. CASE \/ \E d \in Approvals : Ingest(p, d)
             \/ Drain(p) \/ Dispatch(p) \/ PublishItem(p)
    <3>1. UNCHANGED published
      BY <2>1 DEF Ingest, Drain, Dispatch, PublishItem
    <3> QED
      BY <2>1, <3>1, ServiceIngests, ServiceMovesItem, ServicePublishesItem
  <2> QED
    BY <1>5, <2>1, ServiceClaims DEF ServiceStep
<1> QED
  BY <1>1, <1>2, <1>3, <1>4, <1>5, ServiceClaims DEF Next, RequestStep

-----------------------------------------------------------------------------
(* A suggestion is sent only on behalf of the one decision that was         *)
(* claimed, and never after a decline (proposal-decisions.js,              *)
(* proposal_status.py, crm_approval.py).                                   *)
THEOREM SentForOneDecision == Spec => []SaidOnce
<1>1. QueueInv => SaidOnce
  BY DEF QueueInv, ClaimGood, ItemGood, SaidOnce
<1>2. QueueInv /\ [Next]_vars => QueueInv'
  BY QueueStep
<1> QED
  BY <1>1, <1>2, QueueAtFirst, PTL DEF Spec

(* The decision a tab is told stands is the one the journal holds          *)
(* (crm-approval.js, crm_approval.py).                                     *)
THEOREM ToldTheTruth == Spec => []ToldStands
<1>1. QueueInv => ToldStands
  BY DEF QueueInv, ItemGood, ToldStands
<1>2. QueueInv /\ [Next]_vars => QueueInv'
  BY QueueStep
<1> QED
  BY <1>1, <1>2, QueueAtFirst, PTL DEF Spec

(* What the manager is told of a decision is not revised, though the sync   *)
(* service may lose its database (proposal_status.py).                     *)
THEOREM DecisionIsFinal == Spec => DecisionStands
<1>1. QueueInv /\ [Next]_vars =>
        [\A p \in Suggestions :
            published[p].is # None => published'[p].is = published[p].is]_vars
  BY QueueStep
<1>2. QueueInv /\ [Next]_vars => QueueInv'
  BY QueueStep
<1> QED
  BY <1>1, <1>2, QueueAtFirst, PTL DEF Spec, DecisionStands
=============================================================================
