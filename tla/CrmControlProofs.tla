-------------------------- MODULE CrmControlProofs --------------------------
(* Proofs about the manager's lists and batches, for any sessions, people and
   conversations and any bounds: the account's two stores agree (StoresAgree),
   Direct is granted and a reviewed message sent only for a member that is on the
   list at that moment (OnlyMembersAreGranted, OnlyMembersAreSentTo), and a
   reviewed alert setting overwrites nothing it did not see
   (ReviewsAreNotOverwritten).

   The inductive invariant IInv rests on one fact, CoveredStays: a setup leaves the
   list only after its command was canceled, because the plan that takes it off has
   passed the cancellations (TodoInv) and, as long as its base revision is current,
   names every setup it replaces (PlanInv).  So a setup that was once seen on the
   list is on it or canceled for good, which is what a commit that waits, a queued
   grant and a kept batch remember (CoveredInv).  IdInv keeps the identities of
   plans, members and batches apart. *)
EXTENDS CrmControl, Integers, TLAPS

-----------------------------------------------------------------------------
(* Types. *)

Persons == People \cup {NoBatch.person}
Manifests == [person : Persons, member : Nat, rev : Nat, list : Nat]
Workspaces ==
    [list : [rev : Nat, archived : BOOLEAN],
     member : [People -> [rev : Nat, op : 0..MaxOps, removed : BOOLEAN]],
     watch : [Rooms -> 0..MaxOps],
     batch : [Ids -> Manifests], stopped : SUBSET Ids,
     outcome : [Ids -> {"none", "accepted", "refused"}]]

Places == {"idle", "execute", "cancel", "prepare", "wait", "commit", "grant", "append",
           "write", "written", "batch", "submit", "stop"}
Kinds == {"idle", "add", "remove", "archive", "restore", "watch", "batch", "stop"}
Jobs == [kind : Kinds, at : Places, id : 0..MaxOps, base : Int, list : Nat,
         todo : SUBSET Ids, person : Persons, seen : 0..MaxOps,
         room : Rooms \cup {Idle.room}, manifest : Manifests]

\* What a session may carry out at each place.
Carries(j) ==
    /\ j.at = "idle" <=> j.kind = "idle"
    /\ j.at = "execute" => j.kind \in {"add", "remove", "archive", "watch"}
    /\ j.at = "cancel" => j.kind \in {"add", "remove", "archive"}
    /\ j.at \in {"prepare", "wait", "commit", "grant"} => j.kind = "add"
    /\ j.at \in {"batch", "submit"} => j.kind = "batch"
    /\ j.at = "stop" => j.kind = "stop"

JobOk(j) ==
    /\ j \in Jobs /\ Carries(j)
    /\ IF j.at = "idle" THEN j.id = 0 ELSE j.id \in Ids
    /\ j.kind \in {"add", "remove"} => j.person \in People
    /\ j.kind = "watch" => j.room \in Rooms
    /\ j.kind = "stop" => j.seen \in Ids

Phases == {"prepare", "commit", "cancel", "submit", "stop"}
Commands == {"none", "prepared", "queued", "applied", "canceling", "canceled"}

TypeInv ==
    /\ crm \in Workspaces /\ next \in Nat \ {0}
    /\ job \in [Sessions -> Jobs] /\ \A s \in Sessions : JobOk(job[s])
    /\ inbox \in Seq([phase : Phases, id : Ids])
    /\ command \in [Ids -> Commands]
    /\ grant \in [Ids -> {"none", "queued", "writing", "applied", "canceled"}]
    /\ batch \in [Ids -> {"none", "accepted", "canceled"}]
    /\ item \in [Ids -> {"none", "accepted", "attempted", "canceled"}]

-----------------------------------------------------------------------------
\* A plan that passed the cancellations waits for none.
TodoInv ==
    \A s \in Sessions :
        job[s].kind \in {"add", "remove", "archive"} /\ job[s].at \in {"prepare", "wait", "append", "write"}
            => \A k \in job[s].todo : command[k] = "canceled"

\* A plan about a member that is still current names the setup it replaces.
MemberOk(j) ==
    j.kind \in {"add", "remove"} =>
        /\ j.base <= crm.member[j.person].rev
        /\ j.base = crm.member[j.person].rev /\ Active(j.person)
               => crm.member[j.person].op \in j.todo

\* A review of alerts that is still current saw the settings that hold.
WatchOk(j) ==
    j.kind = "watch" =>
        /\ j.base <= crm.list.rev
        /\ j.base = crm.list.rev => crm.watch[j.room] = j.seen

PlanInv == \A s \in Sessions : MemberOk(job[s]) /\ WatchOk(job[s])

-----------------------------------------------------------------------------
(* Identities. *)

BatchId(k) == crm.batch[k] # NoBatch \/ \E s \in Sessions : job[s].kind = "batch" /\ job[s].id = k
OtherId(k) ==
    \/ \E p \in People : crm.member[p].op = k
    \/ \E s \in Sessions : job[s].kind # "batch" /\ job[s].id = k

\* Only identities that were handed out are in use.
IdBelow ==
    /\ \A k \in Ids : BatchId(k) \/ OtherId(k) => k < next
    /\ \A k \in Ids : crm.outcome[k] # "none" => k < next

\* The operations of a batch and of a list do not share an identity.
IdApart == \A k \in Ids : ~(BatchId(k) /\ OtherId(k))

\* A review of alerts shares its identity with nothing.
WatchAlone ==
    \A t \in Sessions :
        job[t].kind = "watch" =>
            /\ \A s \in Sessions \ {t} : job[s].id # job[t].id
            /\ \A p \in People : crm.member[p].op # job[t].id

IdInv == IdBelow /\ IdApart /\ WatchAlone

(* The requests that wait in the account's room, and the batches that are kept. *)

Queued(phase, k) == \E i \in DOMAIN inbox : inbox[i].phase = phase /\ inbox[i].id = k
Kept(k) == crm.batch[k] # NoBatch

BatchInv ==
    /\ \A k \in Ids : crm.outcome[k] = "accepted" /\ BatchId(k) => Kept(k)
    /\ \A s \in Sessions : job[s].at \in {"batch", "submit"} => Kept(job[s].id)
    /\ \A k \in Ids : Queued("submit", k) => Kept(k)
    /\ \A k \in Ids : item[k] = "accepted" => Kept(k)

\* A setup that is on the list, or canceled for good.
Covered(k) == command[k] = "canceled" \/ Holds(k)

CoveredInv ==
    /\ \A k \in Ids : grant[k] \in {"queued", "writing"} => Covered(k)
    /\ \A k \in Ids : Queued("commit", k) => Covered(k)
    /\ \A s \in Sessions : job[s].at = "grant" => Covered(job[s].id)
    /\ \A k \in Ids : Kept(k) => /\ crm.batch[k].person \in People
                                /\ crm.batch[k].member \in Ids /\ Covered(crm.batch[k].member)
    /\ \A s \in Sessions : job[s].kind = "batch" => job[s].manifest.person \in People

IInv ==
    /\ TypeInv /\ GrantFollowsCommand
    /\ TodoInv /\ PlanInv
    /\ IdInv /\ BatchInv /\ CoveredInv

(* What is known of the constants and of the empty plan. *)
LEMMA MaxIsNat == MaxOps \in Nat
  BY CrmAssumption

LEMMA IdsInRange == Ids \subseteq 0..MaxOps /\ 0 \notin Ids
  BY MaxIsNat DEF Ids

LEMMA NoBatchType == NoBatch \in Manifests /\ NoBatch.member = 0
  BY DEF NoBatch, Manifests, Persons

LEMMA IdleType ==
    /\ JobOk(Idle)
    /\ Idle.kind = "idle" /\ Idle.at = "idle" /\ Idle.id = 0 /\ Idle.base = 0 /\ Idle.list = 0
    /\ Idle.todo = {} /\ Idle.seen = 0
  <1>1. /\ Idle.kind = "idle" /\ Idle.at = "idle" /\ Idle.id = 0 /\ Idle.base = 0 /\ Idle.list = 0
        /\ Idle.todo = {} /\ Idle.seen = 0 /\ Idle.manifest = NoBatch /\ Idle.person = NoBatch.person
    BY DEF Idle
  <1>2. Idle \in Jobs
    <2>1. /\ Idle.kind \in Kinds /\ Idle.at \in Places /\ Idle.id \in 0..MaxOps /\ Idle.base \in Int
          /\ Idle.list \in Nat /\ Idle.todo \in SUBSET Ids /\ Idle.person \in Persons
          /\ Idle.seen \in 0..MaxOps /\ Idle.room \in Rooms \cup {Idle.room}
          /\ Idle.manifest \in Manifests
      BY <1>1, MaxIsNat, NoBatchType DEF Kinds, Places, Persons
    <2>2. Idle = [kind |-> Idle.kind, at |-> Idle.at, id |-> Idle.id, base |-> Idle.base,
                  list |-> Idle.list, todo |-> Idle.todo, person |-> Idle.person,
                  seen |-> Idle.seen, room |-> Idle.room, manifest |-> Idle.manifest]
      BY DEF Idle
    <2> QED BY <2>1, <2>2 DEF Jobs
  <1> QED BY <1>1, <1>2 DEF JobOk, Carries

LEMMA InitType == Init => TypeInv
  <1> SUFFICES ASSUME Init PROVE TypeInv
    OBVIOUS
  <1>1. crm \in Workspaces
    BY MaxIsNat, NoBatchType DEF Init, Workspaces, Ids
  <1>2. job \in [Sessions -> Jobs] /\ \A s \in Sessions : JobOk(job[s])
    BY IdleType DEF Init, JobOk
  <1>3. inbox \in Seq([phase : Phases, id : Ids])
    BY DEF Init
  <1> QED BY <1>1, <1>2, <1>3 DEF Init, TypeInv, Commands

-----------------------------------------------------------------------------
(* Steps of a session. *)

\* The plan of one session is replaced by another, well typed.
LEMMA GoType ==
    ASSUME TypeInv, NEW s \in Sessions, NEW j, JobOk(j), Go(s, j)
    PROVE  job' \in [Sessions -> Jobs] /\ \A t \in Sessions : JobOk(job'[t])
  BY DEF TypeInv, Go, JobOk

LEMMA GoTo ==
    ASSUME TypeInv, NEW s \in Sessions, NEW j, Go(s, j)
    PROVE  job'[s] = j
  BY DEF TypeInv, Go

LEMMA MoveType ==
    ASSUME TypeInv, NEW s \in Sessions, ~At(s, "idle"), NEW place \in Places \ {"idle"},
           Carries([job[s] EXCEPT !.at = place]), Move(s, place)
    PROVE  /\ job' \in [Sessions -> Jobs] /\ \A t \in Sessions : JobOk(job'[t])
           /\ job' = [job EXCEPT ![s] = [job[s] EXCEPT !.at = place]]
           /\ job'[s].at = place /\ job'[s].kind = job[s].kind /\ job'[s].id = job[s].id
  <1> DEFINE j == [job[s] EXCEPT !.at = place]
  <1>1. job[s] \in Jobs /\ JobOk(job[s])
    BY DEF TypeInv
  <1>2. /\ j \in Jobs /\ j.at = place /\ j.kind = job[s].kind /\ j.id = job[s].id
        /\ j.person = job[s].person /\ j.room = job[s].room /\ j.seen = job[s].seen
    BY <1>1 DEF Jobs
  <1>3. JobOk(j)
    BY <1>1, <1>2 DEF JobOk, At
  <1> HIDE DEF j
  <1>4. Go(s, j)
    BY DEF Move, j
  <1> QED BY <1>2, <1>3, <1>4, GoType DEF Go, j, TypeInv

\* A member on the list was put there by an operation.
LEMMA OpOfMember ==
    ASSUME TypeInv, NEW p \in People, Active(p)
    PROVE  crm.member[p].op \in Ids /\ crm.member[p].rev \in Nat
  BY MaxIsNat DEF TypeInv, Workspaces, Active, Ids

LEMMA ActiveOpsType == ASSUME TypeInv PROVE ActiveOps \subseteq Ids
  BY OpOfMember DEF ActiveOps

LEMMA ManifestType ==
    ASSUME TypeInv, NEW p \in People, Active(p)
    PROVE  Manifest(p) \in Manifests /\ Manifest(p).member = crm.member[p].op
  BY OpOfMember, MaxIsNat DEF TypeInv, Workspaces, Manifest, Manifests, Persons

\* A new plan takes the next identity.
LEMMA BeginType ==
    ASSUME TypeInv, NEW s \in Sessions, NEW j \in Jobs, Carries(j), j.at # "idle",
           j.kind \in {"add", "remove"} => j.person \in People,
           j.kind = "watch" => j.room \in Rooms, j.kind = "stop" => j.seen \in Ids,
           Begin(s, j)
    PROVE  TypeInv'
  <1> DEFINE k == [j EXCEPT !.id = next]
  <1>1. next \in Ids /\ next + 1 \in Nat \ {0}
    BY MaxIsNat DEF TypeInv, Begin, Ids
  <1>2. /\ k \in Jobs /\ k.at = j.at /\ k.kind = j.kind /\ k.id = next
        /\ k.person = j.person /\ k.room = j.room /\ k.seen = j.seen
    BY <1>1, MaxIsNat DEF Jobs, Ids
  <1>3. JobOk(k)
    BY <1>1, <1>2 DEF JobOk, Carries
  <1> HIDE DEF k
  <1>4. Go(s, k) /\ next' = next + 1 /\ UNCHANGED <<crm, inbox, account>>
    BY DEF Begin, k
  <1>5. job' \in [Sessions -> Jobs] /\ \A t \in Sessions : JobOk(job'[t])
    BY <1>3, <1>4, GoType
  <1> QED BY <1>1, <1>4, <1>5 DEF TypeInv, account

-----------------------------------------------------------------------------
(* What a write does to the workspace. *)

\* A workspace with another list header.
LEMMA ListChanged ==
    ASSUME NEW c \in Workspaces, NEW v \in [rev : Nat, archived : BOOLEAN],
           NEW d, d = [c EXCEPT !.list = v]
    PROVE  /\ d \in Workspaces /\ d.list = v /\ d.member = c.member /\ d.watch = c.watch
           /\ d.batch = c.batch /\ d.outcome = c.outcome
  BY DEF Workspaces

\* An operation the timeline accepts changes what its kind says, and nothing else.
AcceptedAs(c, j) ==
    /\ c \in Workspaces
    /\ c.outcome = [crm.outcome EXCEPT ![j.id] = "accepted"]
    /\ j.kind # "batch" => c.batch = crm.batch
    /\ j.kind \notin {"add", "remove"} => c.member = crm.member
    /\ j.kind \notin {"archive", "restore", "watch"} => c.list = crm.list
    /\ j.kind # "watch" => c.watch = crm.watch
    /\ j.kind = "archive" => c.list = [rev |-> crm.list.rev + 1, archived |-> TRUE]
    /\ j.kind = "restore" => c.list = [rev |-> crm.list.rev + 1, archived |-> FALSE]
    /\ j.kind = "watch" =>
           /\ c.list = [rev |-> crm.list.rev + 1, archived |-> crm.list.archived]
           /\ c.watch = [crm.watch EXCEPT ![j.room] = j.id]
    /\ j.kind \in {"add", "remove"} =>
           c.member = [crm.member EXCEPT ![j.person] =
               [rev |-> crm.member[j.person].rev + 1, op |-> j.id,
                removed |-> (j.kind = "remove")]]
    /\ j.kind = "batch" => c.batch = [crm.batch EXCEPT ![j.id] = j.manifest]

\* A refusal is remembered, and changes nothing.
RefusedAs(c, j) ==
    /\ c.list = crm.list /\ c.member = crm.member /\ c.watch = crm.watch /\ c.batch = crm.batch
    /\ \/ c.outcome = crm.outcome
       \/ crm.outcome[j.id] = "none" /\ c.outcome = [crm.outcome EXCEPT ![j.id] = "refused"]

LEMMA EffectOfKind ==
    ASSUME TypeInv, NEW s \in Sessions, job[s].at = "write",
           NEW j, j = job[s], NEW c, c = [Effect(j) EXCEPT !.outcome[j.id] = "accepted"]
    PROVE  AcceptedAs(c, j)
  <1> USE DEF AcceptedAs
  <1>1. /\ crm \in Workspaces /\ j \in Jobs /\ j.id \in Ids /\ JobOk(j) /\ j.kind # "idle"
    BY DEF TypeInv, JobOk, Carries
  <1> DEFINE e == Effect(j)
  <1>2. CASE j.kind = "archive" \/ j.kind = "restore"
    <2>1. e = [crm EXCEPT !.list = [rev |-> crm.list.rev + 1, archived |-> IF j.kind = "archive" THEN TRUE ELSE FALSE]]
      BY <1>2 DEF Effect
    <2> DEFINE v == [rev |-> crm.list.rev + 1, archived |-> IF j.kind = "archive" THEN TRUE ELSE FALSE]
    <2>3. v \in [rev : Nat, archived : BOOLEAN]
      BY <1>1 DEF Workspaces
    <2>4. e = [crm EXCEPT !.list = v]
      BY <2>1
    <2> HIDE DEF e, v
    <2>2. e \in Workspaces /\ e.list = v
          /\ e.outcome = crm.outcome /\ e.batch = crm.batch /\ e.member = crm.member /\ e.watch = crm.watch
      BY <1>1, <2>3, <2>4, ListChanged
    <2> QED BY <1>1, <1>2, <2>2 DEF Workspaces, e, v
  <1>3. CASE j.kind = "watch"
    <2>1. e = [crm EXCEPT !.list.rev = @ + 1, !.watch[j.room] = j.id]
      BY <1>3 DEF Effect
    <2> DEFINE v == [rev |-> crm.list.rev + 1, archived |-> crm.list.archived]
    <2>3. v \in [rev : Nat, archived : BOOLEAN] /\ j.room \in Rooms /\ j.id \in 0..MaxOps
      BY <1>1, <1>3, IdsInRange DEF Workspaces, JobOk
    <2>4. e = [[crm EXCEPT !.list = v] EXCEPT !.watch = [crm.watch EXCEPT ![j.room] = j.id]]
      BY <1>1, <2>1 DEF Workspaces
    <2> HIDE DEF v
    <2> DEFINE d == [crm EXCEPT !.list = v]
    <2>5. d \in Workspaces /\ d.list = v /\ d.member = crm.member /\ d.watch = crm.watch
          /\ d.batch = crm.batch /\ d.outcome = crm.outcome
      BY <1>1, <2>3, ListChanged
    <2>6. [crm.watch EXCEPT ![j.room] = j.id] \in [Rooms -> 0..MaxOps]
      BY <1>1, <2>3 DEF Workspaces
    <2> HIDE DEF d
    <2>2. e \in Workspaces /\ e.list = v
          /\ e.outcome = crm.outcome /\ e.batch = crm.batch /\ e.member = crm.member
          /\ e.watch = [crm.watch EXCEPT ![j.room] = j.id]
      BY <2>4, <2>5, <2>6 DEF Workspaces, d
    <2> HIDE DEF e
    <2> QED BY <1>1, <1>3, <2>2 DEF Workspaces, e, v
  <1>4. CASE j.kind = "add" \/ j.kind = "remove"
    <2> DEFINE m == [rev |-> crm.member[j.person].rev + 1, op |-> j.id,
                       removed |-> (j.kind = "remove")]
    <2>0. j.person \in People /\ j.id \in 0..MaxOps
      BY <1>1, <1>4, MaxIsNat DEF JobOk, Ids
    <2>1. e = [crm EXCEPT !.member[j.person] = m]
      BY <1>1, <1>4, <2>0 DEF Effect, Workspaces
    <2>2. m \in [rev : Nat, op : 0..MaxOps, removed : BOOLEAN]
      BY <1>1, <2>0 DEF Workspaces
    <2> HIDE DEF m
    <2>3. e \in Workspaces /\ e.list = crm.list
          /\ e.outcome = crm.outcome /\ e.batch = crm.batch /\ e.watch = crm.watch
          /\ e.member = [crm.member EXCEPT ![j.person] = m]
      <3>1. [crm.member EXCEPT ![j.person] = m]
                \in [People -> [rev : Nat, op : 0..MaxOps, removed : BOOLEAN]]
        BY <1>1, <2>0, <2>2 DEF Workspaces
      <3>2. e = [crm EXCEPT !.member = [crm.member EXCEPT ![j.person] = m]]
        BY <1>1, <2>1 DEF Workspaces
      <3> QED BY <1>1, <3>1, <3>2 DEF Workspaces
    <2> HIDE DEF e
    <2> QED BY <1>1, <1>4, <2>3 DEF Workspaces, e, m
  <1>5. CASE j.kind = "batch"
    <2>1. e = [crm EXCEPT !.batch[j.id] = j.manifest]
      BY <1>5 DEF Effect
    <2>2. e \in Workspaces /\ e.list = crm.list
          /\ e.outcome = crm.outcome /\ e.member = crm.member /\ e.watch = crm.watch
          /\ e.batch = [crm.batch EXCEPT ![j.id] = j.manifest]
      BY <1>1, <2>1 DEF Workspaces, Jobs
    <2> HIDE DEF e
    <2> QED BY <1>1, <1>5, <2>2 DEF Workspaces, e
  <1>6. CASE j.kind = "stop"
    <2>1. e = [crm EXCEPT !.stopped = @ \cup {j.seen}] /\ j.seen \in Ids
      BY <1>1, <1>6 DEF Effect, JobOk
    <2>2. e \in Workspaces /\ e.list = crm.list
          /\ e.outcome = crm.outcome /\ e.batch = crm.batch /\ e.member = crm.member /\ e.watch = crm.watch
      BY <1>1, <2>1 DEF Workspaces
    <2> HIDE DEF e
    <2> QED BY <1>1, <1>6, <2>2 DEF Workspaces, e
  <1> QED BY <1>1, <1>2, <1>3, <1>4, <1>5, <1>6 DEF Jobs, Kinds

-----------------------------------------------------------------------------
Fresh(s) == job'[s].id = next /\ next \in Ids /\ next' = next + 1

LEMMA BeginFresh ==
    ASSUME TypeInv, NEW s \in Sessions, NEW j \in Jobs, Begin(s, j)
    PROVE  /\ Fresh(s) /\ job'[s].kind = j.kind /\ job'[s].at = j.at /\ job'[s].base = j.base
           /\ job'[s].todo = j.todo /\ job'[s].person = j.person /\ job'[s].seen = j.seen
           /\ job'[s].room = j.room /\ job'[s].manifest = j.manifest
  <1>1. Go(s, [j EXCEPT !.id = next]) /\ next' = next + 1 /\ next \in Ids
    BY MaxIsNat DEF Begin, TypeInv, Ids
  <1>2. job'[s] = [j EXCEPT !.id = next]
    BY <1>1, GoTo
  <1> QED BY <1>1, <1>2 DEF Fresh, Jobs

\* What a new plan starts from.
LEMMA PlanFacts ==
    ASSUME TypeInv, NEW s \in Sessions, Plan(s)
    PROVE  /\ TypeInv' /\ At(s, "idle")
           /\ \/ job'[s].at = "execute"
              \/ job'[s].at = "append" /\ job'[s].kind \in {"restore", "batch", "stop"}
           /\ MemberOk(job'[s]) /\ WatchOk(job'[s])
           /\ job'[s].kind = "batch" =>
                  \/ job'[s].manifest.person \in People
                  \/ Kept(job'[s].id) /\ job'[s].manifest = crm.batch[job'[s].id]
           /\ \/ Fresh(s)
              \/ /\ next' = next /\ job'[s].kind = "add"
                 /\ \E p \in People : Active(p) /\ job'[s].id = crm.member[p].op
              \/ next' = next /\ job'[s].kind = "batch" /\ job'[s].id \in Ids /\ Kept(job'[s].id)
  <1>0. Idle \in Jobs /\ crm \in Workspaces
    BY IdleType DEF TypeInv, JobOk
  <1>1. ASSUME NEW p \in People, PlanAdd(s, p)
        PROVE  /\ TypeInv' /\ At(s, "idle") /\ Fresh(s)
               /\ job'[s].kind = "add" /\ job'[s].at = "execute" /\ job'[s].person = p
               /\ job'[s].base = crm.member[p].rev
               /\ Active(p) => job'[s].todo = {crm.member[p].op}
    <2> DEFINE j == [Idle EXCEPT !.kind = "add", !.at = "execute", !.person = p,
                             !.base = crm.member[p].rev, !.list = crm.list.rev,
                             !.todo = IF Active(p) THEN {crm.member[p].op} ELSE {}]
    <2>1. /\ j.kind = "add" /\ j.at = "execute" /\ j.person = p /\ j.base = crm.member[p].rev
          /\ Active(p) => j.todo = {crm.member[p].op}
      BY <1>0 DEF Jobs
    <2>2. j \in Jobs
      <3>1. (IF Active(p) THEN {crm.member[p].op} ELSE {}) \in SUBSET Ids
        BY OpOfMember
      <3>2. crm.member[p].rev \in Int /\ crm.list.rev \in Nat
        BY <1>0 DEF Workspaces
      <3> QED BY <1>0, <3>1, <3>2 DEF Jobs, Kinds, Places, Persons
    <2> HIDE DEF j
    <2>3. Begin(s, j)
      BY <1>1 DEF PlanAdd, j
    <2> QED BY <2>1, <2>2, <2>3, BeginFresh, BeginType DEF Begin, Carries
  <1>2. ASSUME NEW p \in People, PlanRemove(s, p)
        PROVE  /\ TypeInv' /\ At(s, "idle") /\ Fresh(s)
               /\ job'[s].kind = "remove" /\ job'[s].at = "execute" /\ job'[s].person = p
               /\ job'[s].base = crm.member[p].rev /\ job'[s].todo = {crm.member[p].op}
    <2> DEFINE j == [Idle EXCEPT !.kind = "remove", !.at = "execute", !.person = p,
                             !.base = crm.member[p].rev, !.todo = {crm.member[p].op}]
    <2>1. /\ j.kind = "remove" /\ j.at = "execute" /\ j.person = p /\ j.base = crm.member[p].rev
          /\ j.todo = {crm.member[p].op}
      BY <1>0 DEF Jobs
    <2>2. j \in Jobs
      <3>1. {crm.member[p].op} \in SUBSET Ids
        BY <1>2, OpOfMember DEF PlanRemove
      <3>2. crm.member[p].rev \in Int
        BY <1>0 DEF Workspaces
      <3> QED BY <1>0, <3>1, <3>2 DEF Jobs, Kinds, Places, Persons
    <2> HIDE DEF j
    <2>3. Begin(s, j)
      BY <1>2 DEF PlanRemove, j
    <2> QED BY <2>1, <2>2, <2>3, BeginFresh, BeginType DEF Begin, Carries
  <1>3. ASSUME NEW p \in People, PlanBatch(s, p)
        PROVE  /\ TypeInv' /\ At(s, "idle") /\ Fresh(s) /\ job'[s].kind = "batch" /\ job'[s].at = "append"
               /\ job'[s].manifest.person \in People
    <2> DEFINE j == [Idle EXCEPT !.kind = "batch", !.at = "append", !.manifest = Manifest(p)]
    <2>1. Manifest(p) \in Manifests
      BY <1>3, ManifestType DEF PlanBatch, Routed
    <2>2. j \in Jobs /\ j.kind = "batch" /\ j.at = "append" /\ j.manifest = Manifest(p)
      BY <1>0, <2>1 DEF Jobs, Kinds, Places
    <2> HIDE DEF j
    <2>3. Begin(s, j)
      BY <1>3 DEF PlanBatch, j
    <2>4. Manifest(p).person \in People
      BY DEF Manifest
    <2> QED BY <2>2, <2>3, <2>4, BeginFresh, BeginType DEF Begin, Carries
  <1>4. ASSUME NEW p \in People, Resume(s, p)
        PROVE  /\ TypeInv' /\ At(s, "idle") /\ next' = next /\ Active(p)
               /\ job'[s].kind = "add" /\ job'[s].at = "execute" /\ job'[s].person = p
               /\ job'[s].base = crm.member[p].rev - 1 /\ job'[s].id = crm.member[p].op
    <2> DEFINE j == [Idle EXCEPT !.kind = "add", !.at = "execute", !.id = crm.member[p].op,
                          !.person = p, !.base = crm.member[p].rev - 1, !.list = crm.list.rev]
    <2>1. crm.member[p].op \in Ids /\ crm.member[p].rev - 1 \in Int /\ crm.list.rev \in Nat
      BY <1>0, <1>4, OpOfMember DEF Resume, Workspaces
    <2>2. /\ j \in Jobs /\ j.kind = "add" /\ j.at = "execute" /\ j.person = p
          /\ j.id = crm.member[p].op /\ j.base = crm.member[p].rev - 1
      BY <1>0, <2>1, IdsInRange DEF Jobs, Kinds, Places, Persons
    <2> HIDE DEF j
    <2>3. JobOk(j)
      BY <2>1, <2>2 DEF JobOk, Carries
    <2>4. Go(s, j) /\ UNCHANGED <<crm, next, inbox, account>>
      BY <1>4 DEF Resume, j
    <2>5. TypeInv'
      BY <2>3, <2>4, GoType DEF TypeInv, account
    <2> QED BY <1>4, <2>2, <2>4, <2>5, GoTo DEF Resume
  <1>5. ASSUME PlanArchive(s)
        PROVE  TypeInv' /\ At(s, "idle") /\ Fresh(s) /\ job'[s].kind = "archive" /\ job'[s].at = "execute"
    <2> DEFINE j == [Idle EXCEPT !.kind = "archive", !.at = "execute", !.base = crm.list.rev,
                             !.todo = ActiveOps]
    <2>1. j \in Jobs /\ j.kind = "archive" /\ j.at = "execute"
      <3>1. crm.list.rev \in Int
        BY <1>0 DEF Workspaces
      <3> QED BY <1>0, <3>1, ActiveOpsType DEF Jobs, Kinds, Places
    <2> HIDE DEF j
    <2>2. Begin(s, j)
      BY <1>5 DEF PlanArchive, j
    <2> QED BY <2>1, <2>2, BeginFresh, BeginType DEF Begin, Carries
  <1>6. ASSUME PlanRestore(s)
        PROVE  TypeInv' /\ At(s, "idle") /\ Fresh(s) /\ job'[s].kind = "restore" /\ job'[s].at = "append"
    <2> DEFINE j == [Idle EXCEPT !.kind = "restore", !.at = "append", !.base = crm.list.rev]
    <2>1. j \in Jobs /\ j.kind = "restore" /\ j.at = "append"
      <3>1. crm.list.rev \in Int
        BY <1>0 DEF Workspaces
      <3> QED BY <1>0, <3>1 DEF Jobs, Kinds, Places
    <2> HIDE DEF j
    <2>2. Begin(s, j)
      BY <1>6 DEF PlanRestore, j
    <2> QED BY <2>1, <2>2, BeginFresh, BeginType DEF Begin, Carries
  <1>7. ASSUME NEW r \in Rooms, PlanWatch(s, r)
        PROVE  /\ TypeInv' /\ At(s, "idle") /\ Fresh(s) /\ job'[s].kind = "watch" /\ job'[s].at = "execute"
               /\ job'[s].base = crm.list.rev /\ crm.watch[job'[s].room] = job'[s].seen
    <2> DEFINE j == [Idle EXCEPT !.kind = "watch", !.at = "execute", !.room = r,
                             !.base = crm.list.rev, !.seen = crm.watch[r]]
    <2>1. /\ j \in Jobs /\ j.kind = "watch" /\ j.at = "execute" /\ j.room = r
          /\ j.base = crm.list.rev /\ j.seen = crm.watch[r]
      <3>1. crm.list.rev \in Int /\ crm.watch[r] \in 0..MaxOps
        BY <1>0 DEF Workspaces
      <3> QED BY <1>0, <3>1 DEF Jobs, Kinds, Places
    <2> HIDE DEF j
    <2>2. Begin(s, j)
      BY <1>7 DEF PlanWatch, j
    <2> QED BY <2>1, <2>2, BeginFresh, BeginType DEF Begin, Carries
  <1>8. ASSUME NEW b \in Ids, PlanStop(s, b)
        PROVE  TypeInv' /\ At(s, "idle") /\ Fresh(s) /\ job'[s].kind = "stop" /\ job'[s].at = "append"
    <2> DEFINE j == [Idle EXCEPT !.kind = "stop", !.at = "append", !.seen = b]
    <2>1. j \in Jobs /\ j.kind = "stop" /\ j.at = "append" /\ j.seen \in Ids
      BY <1>0, IdsInRange DEF Jobs, Kinds, Places
    <2> HIDE DEF j
    <2>2. Begin(s, j)
      BY <1>8 DEF PlanStop, j
    <2> QED BY <2>1, <2>2, BeginFresh, BeginType DEF Begin, Carries
  <1>9. ASSUME NEW b \in Ids, ResumeBatch(s, b)
        PROVE  /\ TypeInv' /\ At(s, "idle") /\ next' = next /\ Kept(b)
               /\ job'[s].kind = "batch" /\ job'[s].at = "append" /\ job'[s].id = b
               /\ job'[s].manifest = crm.batch[b]
    <2> DEFINE j == [Idle EXCEPT !.kind = "batch", !.at = "append", !.id = b,
                          !.manifest = crm.batch[b]]
    <2>1. crm.batch[b] \in Manifests
      BY <1>0 DEF Workspaces
    <2>2. /\ j \in Jobs /\ j.kind = "batch" /\ j.at = "append" /\ j.id = b
          /\ j.manifest = crm.batch[b]
      BY <1>0, <2>1, IdsInRange DEF Jobs, Kinds, Places
    <2> HIDE DEF j
    <2>3. JobOk(j)
      BY <2>2 DEF JobOk, Carries
    <2>4. Go(s, j) /\ UNCHANGED <<crm, next, inbox, account>>
      BY <1>9 DEF ResumeBatch, j
    <2>5. TypeInv'
      BY <2>3, <2>4, GoType DEF TypeInv, account
    <2> QED BY <1>9, <2>2, <2>4, <2>5, GoTo DEF ResumeBatch, Kept
  <1>10. \A p \in People : crm.member[p].rev \in Nat
    BY <1>0 DEF Workspaces
  <1>11. crm.list.rev \in Nat
    BY <1>0 DEF Workspaces
  <1> DEFINE n == job'[s]
  <1> HIDE DEF n
  <1> DEFINE Goal ==
                 /\ TypeInv' /\ At(s, "idle")
                 /\ \/ n.at = "execute"
                    \/ n.at = "append" /\ n.kind \in {"restore", "batch", "stop"}
                 /\ MemberOk(n) /\ WatchOk(n)
                 /\ n.kind = "batch" =>
                        \/ n.manifest.person \in People
                        \/ Kept(n.id) /\ n.manifest = crm.batch[n.id]
                 /\ \/ Fresh(s)
                    \/ /\ next' = next /\ n.kind = "add"
                       /\ \E p \in People : Active(p) /\ n.id = crm.member[p].op
                    \/ next' = next /\ n.kind = "batch" /\ n.id \in Ids /\ Kept(n.id)
  <1>12. ASSUME NEW p \in People, PlanAdd(s, p) \/ PlanRemove(s, p) \/ PlanBatch(s, p) \/ Resume(s, p)
         PROVE  Goal
    <2>1. CASE PlanAdd(s, p)
      BY <1>1, <1>10, <2>1 DEF n, MemberOk, WatchOk
    <2>2. CASE PlanRemove(s, p)
      BY <1>2, <1>10, <2>2 DEF n, MemberOk, WatchOk
    <2>3. CASE PlanBatch(s, p)
      BY <1>3, <2>3 DEF n, MemberOk, WatchOk
    <2>4. CASE Resume(s, p)
      <3>1. n.base <= crm.member[p].rev /\ n.base # crm.member[p].rev
        BY <1>4, <1>10, <2>4 DEF n
      <3> QED BY <1>4, <2>4, <3>1 DEF n, MemberOk, WatchOk
    <2> QED BY <1>12, <2>1, <2>2, <2>3, <2>4
  <1>13. ASSUME PlanArchive(s) \/ PlanRestore(s) PROVE Goal
    BY <1>5, <1>6, <1>13 DEF n, MemberOk, WatchOk
  <1>14. ASSUME NEW r \in Rooms, PlanWatch(s, r) PROVE Goal
    BY <1>7, <1>11, <1>14 DEF n, MemberOk, WatchOk
  <1>15. ASSUME NEW b \in Ids, PlanStop(s, b) \/ ResumeBatch(s, b) PROVE Goal
    BY <1>8, <1>9, <1>15 DEF n, MemberOk, WatchOk
  <1> HIDE DEF Goal
  <1>16. Goal
    BY <1>12, <1>13, <1>14, <1>15 DEF Plan
  <1> QED BY <1>16 DEF n, Goal

-----------------------------------------------------------------------------
\* A write is known already, or refused, or accepted.
LEMMA WriteCases ==
    ASSUME TypeInv, NEW s \in Sessions, Write(s)
    PROVE  LET j == job[s] IN
           /\ j.at = "write" /\ j.id \in Ids /\ crm.outcome[j.id] \in {"none", "accepted", "refused"}
           /\ crm' \in Workspaces
           /\ \/ RefusedAs(crm', j)
              \/ crm.outcome[j.id] = "none" /\ Accepts(j) /\ AcceptedAs(crm', j)
  <1> DEFINE j == job[s]
  <1>1. j.at = "write" /\ j.id \in Ids /\ crm \in Workspaces /\ crm' = Applied(j)
    BY DEF Write, At, TypeInv, JobOk
  <1>2. crm.outcome[j.id] \in {"none", "accepted", "refused"}
    BY <1>1 DEF Workspaces
  <1>3. CASE crm.outcome[j.id] # "none"
    BY <1>1, <1>2, <1>3 DEF Applied, RefusedAs
  <1>4. CASE crm.outcome[j.id] = "none" /\ ~Accepts(j)
    <2>1. crm' = [crm EXCEPT !.outcome[j.id] = "refused"]
      BY <1>1, <1>4 DEF Applied
    <2> QED BY <1>1, <1>2, <1>4, <2>1 DEF Workspaces, RefusedAs
  <1>5. CASE crm.outcome[j.id] = "none" /\ Accepts(j)
    <2>1. crm' = [Effect(j) EXCEPT !.outcome[j.id] = "accepted"]
      BY <1>1, <1>5 DEF Applied
    <2>2. AcceptedAs(crm', j)
      BY <1>1, <2>1, EffectOfKind
    <2>3. crm' \in Workspaces
      BY <2>2 DEF AcceptedAs
    <2> QED BY <1>1, <1>2, <1>5, <2>2, <2>3
  <1> QED BY <1>2, <1>3, <1>4, <1>5

LEMMA RequestType ==
    ASSUME TypeInv, NEW p \in Phases, NEW k \in Ids, Request(p, k)
    PROVE  inbox' \in Seq([phase : Phases, id : Ids])
  BY DEF TypeInv, Request

LEMMA StepType == ASSUME TypeInv, NEW s \in Sessions, Step(s) PROVE TypeInv'
  <1>0. /\ job[s] \in Jobs /\ JobOk(job[s]) /\ Carries(job[s]) /\ crm \in Workspaces
        /\ job \in [Sessions -> Jobs]
    BY DEF TypeInv, JobOk
  <1> DEFINE Typed == job' \in [Sessions -> Jobs] /\ \A t \in Sessions : JobOk(job'[t])
  <1>a. ASSUME NEW place \in Places \ {"idle"}, Move(s, place), ~At(s, "idle"),
               Carries([job[s] EXCEPT !.at = place])
        PROVE  Typed
    BY <1>a, MoveType
  <1>b. ASSUME NEW place \in Places
        PROVE  /\ [job[s] EXCEPT !.at = place].at = place
               /\ [job[s] EXCEPT !.at = place].kind = job[s].kind
    BY <1>0 DEF Jobs
  <1>c. ASSUME Go(s, Idle) PROVE Typed
    BY <1>c, GoType, IdleType
  <1>1. CASE Execute(s)
    <2>0. UNCHANGED <<crm, next, inbox, account>>
      BY <1>1 DEF Execute
    <2>1. CASE job[s].kind = "watch" /\ Go(s, [Rebased(job[s]) EXCEPT !.at = "append"])
      <3> DEFINE j == [Rebased(job[s]) EXCEPT !.at = "append"]
      <3>1. crm.list.rev \in Int
        BY <1>0 DEF Workspaces
      <3>2. /\ Rebased(job[s]) \in Jobs /\ Rebased(job[s]).kind = "watch"
            /\ Rebased(job[s]).id = job[s].id /\ Rebased(job[s]).room = job[s].room
        BY <1>0, <2>1, <3>1 DEF Rebased, Jobs
      <3>3. j \in Jobs /\ j.kind = "watch" /\ j.id = job[s].id /\ j.room = job[s].room /\ j.at = "append"
        BY <3>2 DEF Jobs, Places
      <3> HIDE DEF j
      <3>4. JobOk(j)
        BY <1>0, <1>1, <2>1, <3>3 DEF JobOk, Carries, Execute, At
      <3>5. Typed
        BY <2>1, <3>4, GoType DEF j
      <3> QED BY <2>0, <3>5 DEF TypeInv, account
    <2>2. CASE job[s].kind # "watch"
      <3>1. PICK place \in {"prepare", "cancel"} :
                Move(s, place) /\ (place = "prepare" => job[s].kind = "add")
        BY <1>1, <2>2 DEF Execute
      <3>2. place \in Places \ {"idle"} /\ ~At(s, "idle")
        BY <1>1 DEF Places, Execute, At
      <3>3. Carries([job[s] EXCEPT !.at = place])
        BY <1>0, <1>1, <1>b, <2>2, <3>1, <3>2 DEF Carries, Execute, At
      <3>4. Typed
        BY <1>a, <3>1, <3>2, <3>3
      <3> QED BY <2>0, <3>4 DEF TypeInv, account
    <2> QED BY <1>1, <2>1, <2>2 DEF Execute
  <1>2. ASSUME NEW k \in Ids, RequestCancel(s, k) PROVE TypeInv'
    <2>1. inbox' \in Seq([phase : Phases, id : Ids])
      BY <1>2, RequestType DEF RequestCancel, Phases
    <2> QED BY <1>2, <2>1 DEF RequestCancel, TypeInv, account
  <1>3. CASE Canceled(s)
    <2>1. PICK place \in {"prepare", "append"} :
              Move(s, place) /\ (place = "prepare" <=> job[s].kind = "add")
      BY <1>3 DEF Canceled
    <2>2. place \in Places \ {"idle"} /\ ~At(s, "idle")
      BY <1>3 DEF Places, Canceled, At
    <2>3. Carries([job[s] EXCEPT !.at = place])
      BY <1>0, <1>3, <1>b, <2>1, <2>2 DEF Carries, Canceled, At
    <2>4. Typed
      BY <1>a, <2>1, <2>2, <2>3
    <2> QED BY <1>3, <2>4 DEF TypeInv, account, Canceled
  <1>4. CASE RequestPrepare(s)
    <2>1. inbox' \in Seq([phase : Phases, id : Ids])
      BY <1>0, <1>4, RequestType DEF RequestPrepare, Phases, JobOk, At
    <2>2. Typed
      BY <1>0, <1>4, <1>a, <1>b DEF RequestPrepare, Places, At, Carries
    <2> QED BY <1>4, <2>1, <2>2 DEF RequestPrepare, TypeInv, account
  <1>5. CASE Prepared(s)
    <2>2. Typed
      BY <1>0, <1>5, <1>a, <1>b DEF Prepared, Places, At, Carries
    <2> QED BY <1>5, <2>2 DEF Prepared, TypeInv, account
  <1>6. CASE Preview(s)
    <2>1. PICK place \in {"write", "written"} : Move(s, place)
      BY <1>6 DEF Preview
    <2>2. Typed
      BY <1>0, <1>6, <1>a, <1>b, <2>1 DEF Preview, Places, At, Carries
    <2> QED BY <1>6, <2>2 DEF Preview, TypeInv, account
  <1>7. CASE Write(s)
    <2>1. crm' \in Workspaces
      BY <1>7, WriteCases
    <2>2. Typed
      BY <1>0, <1>7, <1>a, <1>b DEF Write, Places, At, Carries
    <2> QED BY <1>7, <2>1, <2>2 DEF Write, TypeInv, account
  <1>8. CASE Written(s)
    <2>1. CASE Go(s, Idle)
      BY <1>8, <1>c, <2>1 DEF Written, TypeInv, account
    <2>2. CASE /\ job[s].kind \in {"add", "batch", "stop"}
               /\ Move(s, IF job[s].kind = "add" THEN "commit" ELSE job[s].kind)
      <3>1. PICK place \in {"commit", "batch", "stop"} :
                Move(s, place) /\ place = IF job[s].kind = "add" THEN "commit" ELSE job[s].kind
        BY <2>2
      <3>2. Typed
        BY <1>0, <1>8, <1>a, <1>b, <2>2, <3>1 DEF Written, Places, At, Carries
      <3> QED BY <1>8, <3>2 DEF Written, TypeInv, account
    <2> QED BY <1>8, <2>1, <2>2 DEF Written
  <1>9. CASE RequestCommit(s)
    <2>2. Typed
      BY <1>0, <1>9, <1>a, <1>b DEF RequestCommit, Places, At, Carries
    <2> QED BY <1>9, <2>2 DEF RequestCommit, TypeInv, account
  <1>10. CASE SendCommit(s)
    <2>1. inbox' \in Seq([phase : Phases, id : Ids])
      BY <1>0, <1>10, RequestType DEF SendCommit, Phases, JobOk, At
    <2> QED BY <1>10, <1>c, <2>1 DEF SendCommit, TypeInv, account
  <1>11. CASE Submit(s)
    <2>1. CASE Request("stop", job[s].id) /\ Go(s, Idle)
      <3>1. inbox' \in Seq([phase : Phases, id : Ids])
        BY <1>0, <1>11, <2>1, RequestType DEF Submit, Phases, JobOk, At
      <3> QED BY <1>11, <1>c, <2>1, <3>1 DEF Submit, TypeInv, account
    <2>2. CASE Move(s, "submit") /\ UNCHANGED inbox
      <3>1. Typed
        BY <1>0, <1>11, <1>a, <1>b, <2>2 DEF Submit, Places, At, Carries
      <3> QED BY <1>11, <2>2, <3>1 DEF Submit, TypeInv, account
    <2> QED BY <1>11, <2>1, <2>2 DEF Submit
  <1>12. CASE SendSubmit(s)
    <2>1. inbox' \in Seq([phase : Phases, id : Ids])
      BY <1>0, <1>12, RequestType DEF SendSubmit, Phases, JobOk, At
    <2> QED BY <1>12, <1>c, <2>1 DEF SendSubmit, TypeInv, account
  <1>13. CASE SendStop(s)
    <2>1. inbox' \in Seq([phase : Phases, id : Ids])
      BY <1>0, <1>13, RequestType DEF SendStop, Phases, JobOk, At, Carries
    <2> QED BY <1>13, <1>c, <2>1 DEF SendStop, TypeInv, account
  <1>14. CASE GiveUp(s)
    BY <1>14, <1>c DEF GiveUp, TypeInv, account
  <1> QED BY <1>1, <1>2, <1>3, <1>4, <1>5, <1>6, <1>7, <1>8, <1>9, <1>10, <1>11, <1>12,
             <1>13, <1>14 DEF Step

LEMMA HeadType ==
    ASSUME TypeInv, inbox # <<>>
    PROVE  /\ Head(inbox) \in [phase : Phases, id : Ids] /\ Head(inbox).id \in Ids
           /\ Tail(inbox) \in Seq([phase : Phases, id : Ids])
  <1> DEFINE R == [phase : Phases, id : Ids]
  <1>1. inbox \in Seq(R) /\ inbox # <<>>
    BY DEF TypeInv
  <1> HIDE DEF R
  <1>2. Head(inbox) \in R /\ Tail(inbox) \in Seq(R)
    BY <1>1
  <1> QED BY <1>2 DEF R

LEMMA AccountType == ASSUME TypeInv, Account PROVE TypeInv'
  <1> DEFINE h == Head(inbox)
  <1>0. ASSUME NEW phase, Reads(phase)
        PROVE  h.id \in Ids /\ inbox' \in Seq([phase : Phases, id : Ids])
    BY <1>0, HeadType DEF Reads
  <1> HIDE DEF h
  <1>1. CASE IngestPrepare
    BY <1>0, <1>1 DEF IngestPrepare, TypeInv, Commands, h
  <1>2. CASE IngestCommit
    BY <1>0, <1>2 DEF IngestCommit, TypeInv, Commands, h
  <1>3. CASE IngestCancel
    <2>1. item' \in [Ids -> {"none", "accepted", "attempted", "canceled"}]
      BY <1>3 DEF IngestCancel, Withdrawn, TypeInv
    <2>2. /\ command' \in [Ids -> Commands]
          /\ grant' \in [Ids -> {"none", "queued", "writing", "applied", "canceled"}]
      BY <1>0, <1>3 DEF IngestCancel, TypeInv, Commands, h
    <2> QED BY <1>0, <1>3, <2>1, <2>2 DEF IngestCancel, TypeInv, h
  <1>4. CASE IngestSubmit
    BY <1>0, <1>4 DEF IngestSubmit, TypeInv, h
  <1>5. CASE IngestStop
    BY <1>0, <1>5 DEF IngestStop, TypeInv, h
  <1>6. ASSUME NEW k \in Ids, CancelEnds(k) PROVE TypeInv'
    BY <1>6 DEF CancelEnds, TypeInv, Commands
  <1>7. ASSUME NEW k \in Ids, WriteGrant(k) PROVE TypeInv'
    BY <1>7 DEF WriteGrant, TypeInv
  <1>8. ASSUME NEW k \in Ids, GrantApplied(k) PROVE TypeInv'
    BY <1>8 DEF GrantApplied, TypeInv, Commands
  <1>9. ASSUME NEW k \in Ids, Attempt(k) PROVE TypeInv'
    BY <1>9 DEF Attempt, TypeInv
  <1> QED BY <1>1, <1>2, <1>3, <1>4, <1>5, <1>6, <1>7, <1>8, <1>9 DEF Account

LEMMA TypeStep == TypeInv /\ [Next]_vars => TypeInv'
  <1>1. ASSUME TypeInv, UNCHANGED vars PROVE TypeInv'
    BY <1>1 DEF TypeInv, vars
  <1> QED BY <1>1, PlanFacts, StepType, AccountType DEF Next

-----------------------------------------------------------------------------
\* A session's step changes its own plan; only a write changes the workspace.
LEMMA SessionFrame ==
    ASSUME TypeInv, NEW s \in Sessions, Plan(s) \/ Step(s)
    PROVE  /\ UNCHANGED account
           /\ \A t \in Sessions \ {s} : job'[t] = job[t]
           /\ Write(s) \/ crm' = crm
  <1>1. job \in [Sessions -> Jobs]
    BY DEF TypeInv
  <1>2. ASSUME NEW j, Go(s, j) PROVE \A t \in Sessions \ {s} : job'[t] = job[t]
    BY <1>1, <1>2 DEF Go
  <1>3. ASSUME NEW place, Move(s, place) PROVE \A t \in Sessions \ {s} : job'[t] = job[t]
    BY <1>2, <1>3 DEF Move
  <1>4. ASSUME NEW j, Begin(s, j)
        PROVE  UNCHANGED <<crm, account>> /\ \A t \in Sessions \ {s} : job'[t] = job[t]
    BY <1>2, <1>4 DEF Begin
  <1>5. CASE Plan(s)
    BY <1>2, <1>4, <1>5 DEF Plan, PlanAdd, PlanRemove, PlanBatch, Resume, PlanArchive, PlanRestore,
       PlanWatch, PlanStop, ResumeBatch
  <1>6. CASE Step(s)
    <2>1. CASE Execute(s) \/ Canceled(s) \/ Prepared(s) \/ Preview(s) \/ Written(s)
                \/ RequestCommit(s) \/ GiveUp(s)
      BY <1>2, <1>3, <2>1 DEF Execute, Canceled, Prepared, Preview, Written, RequestCommit, GiveUp
    <2>2. CASE (\E k \in Ids : RequestCancel(s, k)) \/ RequestPrepare(s) \/ SendCommit(s) \/ SendSubmit(s)
                \/ SendStop(s) \/ Submit(s)
      BY <1>2, <1>3, <2>2 DEF RequestCancel, RequestPrepare, SendCommit, SendSubmit, SendStop, Submit
    <2>3. CASE Write(s)
      BY <1>3, <2>3 DEF Write
    <2> QED BY <1>6, <2>1, <2>2, <2>3 DEF Step
  <1> QED BY <1>5, <1>6

\* A new plan touches nothing but the plan.
LEMMA PlanFrame ==
    ASSUME NEW s \in Sessions, Plan(s)
    PROVE  UNCHANGED <<crm, inbox, account>>
  BY DEF Plan, PlanAdd, PlanRemove, PlanBatch, Resume, PlanArchive, PlanRestore,
     PlanWatch, PlanStop, ResumeBatch, Begin

LEMMA AccountFrame == ASSUME Account PROVE UNCHANGED <<crm, next, job>>
  BY DEF Account, IngestPrepare, IngestCommit, IngestCancel, IngestSubmit, IngestStop,
     CancelEnds, WriteGrant, GrantApplied, Attempt

-----------------------------------------------------------------------------
(* The account's two stores. *)

LEMMA GrantsStep ==
    ASSUME TypeInv, GrantFollowsCommand, [Next]_vars
    PROVE  GrantFollowsCommand'
  <1>1. CASE UNCHANGED <<command, grant>>
    BY <1>1 DEF GrantFollowsCommand
  <1>2. CASE Account
    <2>1. CASE IngestPrepare
      BY <2>1 DEF IngestPrepare, GrantFollowsCommand, TypeInv
    <2>2. CASE IngestCommit
      BY <2>2 DEF IngestCommit, GrantFollowsCommand, TypeInv
    <2>3. CASE IngestCancel
      BY <2>3 DEF IngestCancel, GrantFollowsCommand, TypeInv
    <2>4. CASE IngestSubmit \/ IngestStop \/ \E k \in Ids : Attempt(k)
      BY <1>1, <2>4 DEF IngestSubmit, IngestStop, Attempt
    <2>5. ASSUME NEW k \in Ids, CancelEnds(k) PROVE GrantFollowsCommand'
      BY <2>5 DEF CancelEnds, GrantFollowsCommand, TypeInv
    <2>6. ASSUME NEW k \in Ids, WriteGrant(k) PROVE GrantFollowsCommand'
      BY <2>6 DEF WriteGrant, GrantFollowsCommand, TypeInv
    <2>7. ASSUME NEW k \in Ids, GrantApplied(k) PROVE GrantFollowsCommand'
      BY <2>7 DEF GrantApplied, GrantFollowsCommand, TypeInv
    <2> QED BY <1>2, <2>1, <2>2, <2>3, <2>4, <2>5, <2>6, <2>7 DEF Account
  <1> QED BY <1>1, <1>2, SessionFrame DEF Next, vars, account

\* A setup that was canceled is never taken up again.
LEMMA CanceledStays ==
    ASSUME TypeInv, GrantFollowsCommand, [Next]_vars, NEW k \in Ids, command[k] = "canceled"
    PROVE  command'[k] = "canceled"
  <1>1. grant[k] \notin {"queued", "writing"}
    BY DEF GrantFollowsCommand
  <1>2. CASE UNCHANGED command
    BY <1>2
  <1>3. CASE Account
    BY <1>1, <1>3 DEF Account, IngestPrepare, IngestCommit, IngestCancel, IngestSubmit,
       IngestStop, CancelEnds, WriteGrant, GrantApplied, Attempt, TypeInv
  <1> QED BY <1>2, <1>3, SessionFrame DEF Next, vars, account

-----------------------------------------------------------------------------
(* What a session's step makes of its plan. *)

Continues(s) ==
    /\ job'[s].kind = job[s].kind /\ job'[s].id = job[s].id /\ job'[s].person = job[s].person
    /\ job'[s].todo = job[s].todo /\ job'[s].seen = job[s].seen /\ job'[s].room = job[s].room
    /\ job'[s].manifest = job[s].manifest

LEMMA MoveContinues ==
    ASSUME TypeInv, NEW s \in Sessions, NEW place, Move(s, place)
    PROVE  Continues(s) /\ job'[s].at = place /\ job'[s].base = job[s].base
  <1>1. job \in [Sessions -> Jobs] /\ job[s] \in Jobs
    BY DEF TypeInv
  <1>2. job'[s] = [job[s] EXCEPT !.at = place]
    BY <1>1 DEF Move, Go
  <1> QED BY <1>1, <1>2 DEF Continues, Jobs

\* A step ends the plan, or moves on with it.
LEMMA StepContinues ==
    ASSUME TypeInv, NEW s \in Sessions, Step(s)
    PROVE  /\ next' = next
           /\ job'[s] = Idle \/ Continues(s)
           /\ job'[s].base = job[s].base \/ job'[s] = Idle \/ (Execute(s) /\ job[s].kind = "watch")
  <1>0. next' = next
    BY DEF Step, Execute, RequestCancel, Canceled, RequestPrepare, Prepared, Preview, Write, Written,
       RequestCommit, SendCommit, Submit, SendSubmit, SendStop, GiveUp
  <1>7. job \in [Sessions -> Jobs] /\ job[s] \in Jobs
    BY DEF TypeInv
  <1>1. CASE \E place : Move(s, place)
    BY <1>0, <1>1, MoveContinues
  <1>2. CASE Go(s, Idle)
    BY <1>0, <1>2, GoTo
  <1>3. CASE Execute(s)
    <2>1. CASE job[s].kind = "watch" /\ Go(s, [Rebased(job[s]) EXCEPT !.at = "append"])
      <3>1. job'[s] = [Rebased(job[s]) EXCEPT !.at = "append"]
        BY <2>1, GoTo
      <3>2. Continues(s)
        BY <1>7, <3>1 DEF Continues, Rebased, Jobs
      <3> QED BY <1>3, <1>0, <2>1, <3>2 DEF Execute
    <2> QED BY <1>1, <1>3, <2>1 DEF Execute
  <1>4. CASE UNCHANGED <<job, next>>
    BY <1>7, <1>4, <1>0 DEF Continues
  <1>5. (\E place : Move(s, place)) \/ Go(s, Idle) \/ Execute(s) \/ UNCHANGED <<job, next>>
    BY DEF Step, RequestCancel, Canceled, RequestPrepare, Prepared, Preview, Write, Written,
       RequestCommit, SendCommit, Submit, SendSubmit, SendStop, GiveUp
  <1> QED BY <1>1, <1>2, <1>3, <1>4, <1>5

-----------------------------------------------------------------------------
(* Plans: what has been canceled stays so, and a plan that is still current knows
   what it changes. *)

LEMMA TodoStep ==
    ASSUME TypeInv, GrantFollowsCommand, TodoInv, [Next]_vars
    PROVE  TodoInv'
  <1> DEFINE Waits(j) == j.kind \in {"add", "remove", "archive"}
                             /\ j.at \in {"prepare", "wait", "append", "write"}
  <1>1. CASE UNCHANGED job
    BY <1>1, CanceledStays DEF TodoInv, TypeInv, Jobs
  <1>2. ASSUME NEW s \in Sessions, Plan(s) \/ Step(s),
               Waits(job'[s]) => \A k \in job'[s].todo : command[k] = "canceled"
        PROVE  TodoInv'
    BY <1>2, SessionFrame DEF TodoInv, account
  <1>3. ASSUME NEW s \in Sessions, Plan(s) PROVE TodoInv'
    <2>1. ~Waits(job'[s])
      BY <1>3, PlanFacts
    <2> QED BY <1>2, <1>3, <2>1
  <1>4. ASSUME NEW s \in Sessions, Step(s) PROVE TodoInv'
    <2>0. job[s] \in Jobs /\ JobOk(job[s]) /\ Carries(job[s])
      BY DEF TypeInv, JobOk
    <2>1. ASSUME job'[s] = Idle PROVE ~Waits(job'[s])
      BY <2>1, IdleType
    <2>2. ASSUME NEW place \in {"prepare", "wait", "append", "write"}, Move(s, place),
                 job[s].at \in {"prepare", "wait", "append", "write"}
          PROVE  TodoInv'
      BY <1>2, <1>4, <2>2, MoveContinues DEF TodoInv, Continues
    <2>3. ASSUME NEW place \in {"written", "commit", "batch", "stop", "grant", "submit", "cancel"},
                 Move(s, place)
          PROVE  TodoInv'
      BY <1>2, <1>4, <2>3, MoveContinues
    <2>4. ASSUME Go(s, Idle) PROVE TodoInv'
      BY <1>2, <1>4, <2>1, <2>4, GoTo
    <2>5. CASE Execute(s)
      <3>1. CASE job[s].kind = "watch"
        <4>1. job'[s].kind = "watch"
          <5>1. job'[s] = [Rebased(job[s]) EXCEPT !.at = "append"]
            BY <2>5, <3>1, GoTo DEF Execute
          <5> QED BY <2>0, <3>1, <5>1 DEF Rebased, Jobs
        <4> QED BY <1>2, <1>4, <4>1
      <3>2. CASE Move(s, "prepare") /\ job[s].todo = {}
        BY <1>2, <1>4, <3>2, MoveContinues DEF Continues
      <3> QED BY <2>3, <2>5, <3>1, <3>2 DEF Execute
    <2>6. CASE Canceled(s)
      <3>1. PICK place \in {"prepare", "append"} : Move(s, place)
        BY <2>6 DEF Canceled
      <3>2. \A k \in job[s].todo : command[k] = "canceled"
        BY <2>6 DEF Canceled, Uncanceled
      <3> QED BY <1>2, <1>4, <3>1, <3>2, MoveContinues DEF Continues
    <2>7. CASE RequestPrepare(s) \/ Prepared(s) \/ Preview(s) \/ Write(s)
      BY <2>2, <2>3, <2>7 DEF RequestPrepare, Prepared, Preview, Write, At
    <2>8. CASE Written(s)
      <3>1. CASE Go(s, Idle)
        BY <2>4, <3>1
      <3>2. CASE /\ job[s].kind \in {"add", "batch", "stop"}
                 /\ Move(s, IF job[s].kind = "add" THEN "commit" ELSE job[s].kind)
        BY <2>3, <3>2
      <3> QED BY <2>8, <3>1, <3>2 DEF Written
    <2>9. CASE RequestCommit(s) \/ SendCommit(s) \/ Submit(s) \/ SendSubmit(s) \/ SendStop(s) \/ GiveUp(s)
      BY <2>3, <2>4, <2>9 DEF RequestCommit, SendCommit, Submit, SendSubmit, SendStop, GiveUp
    <2>10. CASE \E k \in Ids : RequestCancel(s, k)
      BY <1>1, <2>10 DEF RequestCancel
    <2> QED BY <1>4, <2>5, <2>6, <2>7, <2>8, <2>9, <2>10 DEF Step
  <1> QED BY <1>1, <1>3, <1>4, AccountFrame DEF Next, vars

-----------------------------------------------------------------------------

\* Every accepted change of a member, of the list or of its alerts advances the
\* revision, so that a plan that does not know it is no longer current.
LEMMA PlanStep ==
    ASSUME TypeInv, PlanInv, [Next]_vars
    PROVE  PlanInv'
  <1>1. CASE UNCHANGED <<crm, job>>
    BY <1>1 DEF PlanInv, MemberOk, WatchOk, Active
  <1>2. ASSUME NEW s \in Sessions, Plan(s) \/ Step(s), crm' = crm,
               MemberOk(job'[s]) /\ WatchOk(job'[s])
        PROVE  PlanInv'
    BY <1>2, SessionFrame DEF PlanInv, MemberOk, WatchOk, Active
  <1>3. ASSUME NEW s \in Sessions, Plan(s) PROVE PlanInv'
    <2>1. crm' = crm
      BY <1>3, PlanFrame
    <2> QED BY <1>2, <1>3, <2>1, PlanFacts
  <1>4. ASSUME NEW s \in Sessions, Step(s), ~Write(s) PROVE PlanInv'
    <2>1. crm' = crm
      BY <1>4, SessionFrame
    <2>2. CASE job'[s] = Idle
      <3>1. MemberOk(job'[s]) /\ WatchOk(job'[s])
        BY <2>2, IdleType DEF MemberOk, WatchOk
      <3> QED BY <1>2, <1>4, <2>1, <3>1
    <2>3. CASE Continues(s) /\ job'[s].base = job[s].base
      <3>1. MemberOk(job'[s]) /\ WatchOk(job'[s])
        BY <2>3 DEF MemberOk, WatchOk, Continues, PlanInv
      <3> QED BY <1>2, <1>4, <2>1, <3>1
    <2>4. CASE Execute(s) /\ job[s].kind = "watch"
      <3>1. job'[s] = [Rebased(job[s]) EXCEPT !.at = "append"]
        BY <2>4, GoTo DEF Execute
      <3>2. job[s] \in Jobs /\ crm.list.rev \in Nat
        BY DEF TypeInv, Workspaces
      <3>3. WatchOk(job[s])
        BY DEF PlanInv
      <3>4. job'[s].kind = "watch" /\ WatchOk(job'[s])
        BY <2>4, <3>1, <3>2, <3>3 DEF WatchOk, Rebased, Jobs
      <3> QED BY <1>2, <1>4, <2>1, <3>4 DEF MemberOk
    <2> QED BY <1>4, <2>2, <2>3, <2>4, StepContinues
  <1>5. ASSUME NEW s \in Sessions, Write(s) PROVE PlanInv'
    <2> DEFINE w == job[s]
    <2>0. w.at = "write" /\ w.kind \in Kinds \ {"idle"} /\ w \in Jobs /\ crm \in Workspaces
      BY <1>5 DEF Write, At, TypeInv, JobOk, Carries, Jobs
    <2>1. Step(s) /\ Continues(s) /\ job'[s].base = w.base
      BY <1>5, MoveContinues DEF Write, Step
    <2>2. \A t \in Sessions : /\ job'[t].kind = job[t].kind /\ job'[t].person = job[t].person
                              /\ job'[t].base = job[t].base /\ job'[t].todo = job[t].todo
                              /\ job'[t].room = job[t].room /\ job'[t].seen = job[t].seen
      BY <2>1, SessionFrame DEF Continues
    <2>3. \A t \in Sessions : /\ MemberOk(job[t]) /\ WatchOk(job[t]) /\ JobOk(job[t]) /\ job[t] \in Jobs
      BY DEF PlanInv, TypeInv
    <2>4. crm'.member = crm.member \/ \E p \in People :
              /\ crm'.member[p].rev = crm.member[p].rev + 1
              /\ \A q \in People \ {p} : crm'.member[q] = crm.member[q]
      <3>1. CASE w.kind \in {"add", "remove"} /\ AcceptedAs(crm', w)
        <4>1. crm'.member = [crm.member EXCEPT ![w.person] =
                 [rev |-> crm.member[w.person].rev + 1, op |-> w.id, removed |-> (w.kind = "remove")]]
          BY <3>1 DEF AcceptedAs
        <4>2. w.person \in People
          BY <2>3, <3>1 DEF JobOk
        <4>3. crm.member \in [People -> [rev : Nat, op : 0..MaxOps, removed : BOOLEAN]]
          BY <2>0 DEF Workspaces
        <4> QED BY <4>1, <4>2, <4>3
      <3> QED BY <1>5, <3>1, WriteCases DEF AcceptedAs, RefusedAs
    <2>5. \/ crm'.list = crm.list /\ crm'.watch = crm.watch
          \/ crm'.list.rev = crm.list.rev + 1
      <3>1. CASE AcceptedAs(crm', w)
        BY <3>1 DEF AcceptedAs
      <3>2. CASE RefusedAs(crm', w)
        BY <3>2 DEF RefusedAs
      <3> QED BY <1>5, <3>1, <3>2, WriteCases
    <2>6. ASSUME NEW t \in Sessions PROVE MemberOk(job[t])'
      <3>1. CASE job[t].kind \in {"add", "remove"}
        <4> DEFINE p == job[t].person
        <4>1. p \in People /\ job[t].base \in Int /\ crm.member[p].rev \in Nat
          BY <2>0, <2>3, <3>1 DEF JobOk, Jobs, Workspaces
        <4>2. CASE crm'.member[p] = crm.member[p]
          BY <2>2, <2>3, <4>2 DEF MemberOk, Active
        <4>3. CASE crm'.member[p].rev = crm.member[p].rev + 1
          <5>1. job[t].base <= crm.member[p].rev
            BY <2>3, <3>1 DEF MemberOk
          <5> QED BY <2>2, <4>1, <4>3, <5>1 DEF MemberOk
        <4> QED BY <2>4, <4>1, <4>2, <4>3
      <3> QED BY <2>2, <3>1 DEF MemberOk
    <2>7. ASSUME NEW t \in Sessions PROVE WatchOk(job[t])'
      <3>1. job[t].base \in Int /\ crm.list.rev \in Nat
        BY <2>0, <2>3 DEF Jobs, Workspaces
      <3> QED BY <2>2, <2>3, <2>5, <3>1 DEF WatchOk
    <2> QED BY <2>6, <2>7 DEF PlanInv
  <1> QED BY <1>1, <1>3, <1>4, <1>5, AccountFrame DEF Next, vars

-----------------------------------------------------------------------------
\* Whoever takes a setup off its list has had it canceled before.
LEMMA CoveredStays ==
    ASSUME TypeInv, GrantFollowsCommand, TodoInv, PlanInv, [Next]_vars,
           NEW k \in Ids, Covered(k)
    PROVE  Covered(k)'
  <1>1. CASE command[k] = "canceled"
    BY <1>1, CanceledStays DEF Covered
  <1>2. CASE Holds(k) /\ crm' = crm
    BY <1>2 DEF Covered, Holds, ActiveOps, Active
  <1>3. ASSUME NEW s \in Sessions, Write(s), Holds(k) PROVE Covered(k)'
    <2> DEFINE w == job[s]
    <2>0. w.at = "write" /\ w.kind \in Kinds \ {"idle"} /\ JobOk(w) /\ crm \in Workspaces
      BY <1>3 DEF Write, At, TypeInv, JobOk, Carries, Jobs
    <2>1. command' = command
      BY <1>3, SessionFrame DEF Step, account
    <2>2. PICK p \in People : Active(p) /\ crm.member[p].op = k
      BY <1>3 DEF Holds, ActiveOps
    <2>3. w.kind \in {"add", "remove", "archive"} => \A x \in w.todo : command[x] = "canceled"
      BY <2>0 DEF TodoInv
    <2>4. CASE crm'.list.archived = FALSE /\ crm'.member[p] = crm.member[p]
      BY <2>2, <2>4 DEF Covered, Holds, ActiveOps, Active
    <2>5. crm.list.archived = FALSE
      BY <1>3, <2>0 DEF Holds, Workspaces
    <2>6. CASE RefusedAs(crm', w)
      BY <2>4, <2>5, <2>6 DEF RefusedAs
    <2>7. CASE Accepts(w) /\ AcceptedAs(crm', w)
      <3>1. CASE w.kind = "archive"
        <4>1. k \in w.todo
          BY <1>3, <2>7, <3>1 DEF Accepts, Archivable, Holds
        <4> QED BY <2>1, <2>3, <3>1, <4>1 DEF Covered
      <3>2. CASE w.kind = "restore" \/ w.kind = "watch"
        <4>1. crm'.list.archived = FALSE /\ crm'.member = crm.member
          BY <2>5, <2>7, <3>2 DEF AcceptedAs
        <4> QED BY <2>4, <4>1
      <3>3. CASE w.kind = "batch" \/ w.kind = "stop"
        BY <2>4, <2>5, <2>7, <3>3 DEF AcceptedAs
      <3>4. CASE w.kind \in {"add", "remove"} /\ p # w.person
        <4>1. w.person \in People /\ crm.member \in [People -> [rev : Nat, op : 0..MaxOps, removed : BOOLEAN]]
          BY <2>0, <3>4 DEF JobOk, Workspaces
        <4>2. crm'.member[p] = crm.member[p] /\ crm'.list = crm.list
          BY <2>7, <3>4, <4>1 DEF AcceptedAs
        <4> QED BY <2>4, <2>5, <4>2
      <3>5. CASE w.kind \in {"add", "remove"} /\ p = w.person
        <4>1. MemberCurrent(w) /\ MemberOk(w)
          BY <2>7, <3>5 DEF Accepts, PlanInv
        <4>2. k \in w.todo
          BY <2>2, <3>5, <4>1 DEF MemberCurrent, MemberOk
        <4> QED BY <2>1, <2>3, <3>5, <4>2 DEF Covered
      <3> QED BY <2>0, <3>1, <3>2, <3>3, <3>4, <3>5 DEF Kinds
    <2> QED BY <1>3, <2>6, <2>7, WriteCases
  <1> QED BY <1>1, <1>2, <1>3, SessionFrame, AccountFrame DEF Next, vars, Covered

-----------------------------------------------------------------------------
(* Identities. *)

\* A step takes up at most the next identity.
LEMMA IdsInUse ==
    ASSUME TypeInv, NEW s \in Sessions, Plan(s) \/ Step(s), NEW k \in Ids
    PROVE  /\ BatchId(k)' => BatchId(k) \/ (Fresh(s) /\ Plan(s) /\ k = next /\ job'[s].kind = "batch")
           /\ OtherId(k)' => OtherId(k) \/ (Fresh(s) /\ Plan(s) /\ k = next /\ job'[s].kind # "batch")
  <1>0. \A t \in Sessions \ {s} : job'[t] = job[t]
    BY SessionFrame
  <1>1. CASE Plan(s)
    <2>1. crm' = crm
      BY <1>1, PlanFrame
    <2>2. BatchId(k)' => BatchId(k) \/ (job'[s].kind = "batch" /\ job'[s].id = k)
      BY <1>0, <2>1 DEF BatchId
    <2>3. OtherId(k)' => OtherId(k) \/ (job'[s].kind # "batch" /\ job'[s].id = k)
      BY <1>0, <2>1 DEF OtherId
    <2>4. CASE Fresh(s)
      BY <1>1, <2>2, <2>3, <2>4 DEF Fresh
    <2>5. CASE job'[s].kind = "add" /\ \E p \in People : job'[s].id = crm.member[p].op
      BY <2>2, <2>3, <2>5 DEF OtherId
    <2>6. CASE job'[s].kind = "batch" /\ Kept(job'[s].id)
      BY <2>2, <2>3, <2>6 DEF BatchId, Kept
    <2> QED BY <1>1, <2>4, <2>5, <2>6, PlanFacts
  <1>2. CASE Step(s)
    <2>1. job'[s].id = 0 \/ (job'[s].id = job[s].id /\ job'[s].kind = job[s].kind)
      BY <1>2, StepContinues, IdleType DEF Continues
    <2>2. (\E t \in Sessions : job'[t].kind = "batch" /\ job'[t].id = k) => BatchId(k)
      BY <1>0, <2>1, IdsInRange DEF BatchId
    <2>3. (\E t \in Sessions : job'[t].kind # "batch" /\ job'[t].id = k) => OtherId(k)
      BY <1>0, <2>1, IdsInRange DEF OtherId
    <2>4. CASE crm' = crm
      BY <2>2, <2>3, <2>4 DEF BatchId, OtherId
    <2>5. CASE Write(s)
      <3> DEFINE w == job[s]
      <3>0. JobOk(w) /\ crm \in Workspaces
        BY DEF TypeInv
      <3>1. CASE RefusedAs(crm', w)
        BY <2>2, <2>3, <3>1 DEF BatchId, OtherId, RefusedAs
      <3>2. CASE AcceptedAs(crm', w)
        <4>1. crm'.batch[k] # crm.batch[k] => w.kind = "batch" /\ w.id = k
          BY <3>0, <3>2 DEF AcceptedAs, Workspaces
        <4>2. ASSUME NEW p \in People, crm'.member[p].op # crm.member[p].op
              PROVE  w.kind \in {"add", "remove"} /\ crm'.member[p].op = w.id
          <5>1. w.kind \in {"add", "remove"}
            BY <3>2, <4>2 DEF AcceptedAs
          <5>2. crm'.member = [crm.member EXCEPT ![w.person] =
                   [rev |-> crm.member[w.person].rev + 1, op |-> w.id, removed |-> (w.kind = "remove")]]
            BY <3>2, <5>1 DEF AcceptedAs
          <5>3. crm.member \in [People -> [rev : Nat, op : 0..MaxOps, removed : BOOLEAN]]
            BY <3>0 DEF Workspaces
          <5> QED BY <4>2, <5>1, <5>2, <5>3
        <4> QED BY <2>2, <2>3, <4>1, <4>2 DEF BatchId, OtherId
      <3> QED BY <2>5, <3>1, <3>2, WriteCases
    <2> QED BY <1>2, <2>4, <2>5, SessionFrame
  <1> QED BY <1>1, <1>2

LEMMA JobIdInUse ==
    ASSUME TypeInv, NEW s \in Sessions, job[s].id \in Ids
    PROVE  BatchId(job[s].id) \/ OtherId(job[s].id)
  BY DEF BatchId, OtherId

\* An outcome is written once, by the write of its operation.
LEMMA OutcomeChange ==
    ASSUME TypeInv, NEW s \in Sessions, Plan(s) \/ Step(s), NEW k \in Ids,
           crm'.outcome[k] # crm.outcome[k]
    PROVE  /\ Write(s) /\ k = job[s].id /\ crm.outcome[k] = "none"
           /\ crm'.outcome[k] = "accepted" => Accepts(job[s]) /\ AcceptedAs(crm', job[s])
  <1>0. crm.outcome \in [Ids -> {"none", "accepted", "refused"}]
    BY DEF TypeInv, Workspaces
  <1>1. Write(s)
    BY SessionFrame
  <1>2. CASE RefusedAs(crm', job[s])
    BY <1>0, <1>1, <1>2, WriteCases DEF RefusedAs
  <1>3. CASE crm.outcome[job[s].id] = "none" /\ Accepts(job[s]) /\ AcceptedAs(crm', job[s])
    BY <1>0, <1>1, <1>3 DEF AcceptedAs
  <1> QED BY <1>1, <1>2, <1>3, WriteCases

-----------------------------------------------------------------------------
LEMMA IdStep ==
    ASSUME TypeInv, IdInv, [Next]_vars
    PROVE  IdInv'
  <1> USE DEF IdInv
  <1>0. next \in Nat \ {0}
    BY DEF TypeInv
  <1>1. CASE UNCHANGED <<crm, next, job>>
    BY <1>1 DEF IdBelow, IdApart, WatchAlone, BatchId, OtherId
  <1>2. ASSUME NEW s \in Sessions, Plan(s) \/ Step(s) PROVE IdInv'
    <2>0. next' = next \/ (next' = next + 1 /\ Fresh(s) /\ Plan(s))
      BY <1>2, PlanFacts, StepContinues DEF Fresh
    <2>1. IdBelow'
      <3>1. ASSUME NEW k \in Ids, BatchId(k)' \/ OtherId(k)' PROVE k < next'
        <4>1. CASE BatchId(k) \/ OtherId(k)
          <5>1. k < next /\ k \in Nat
            BY <4>1, MaxIsNat DEF IdBelow, Ids
          <5> QED BY <1>0, <2>0, <5>1
        <4>2. CASE Fresh(s) /\ k = next
          BY <1>0, <4>2 DEF Fresh
        <4> QED BY <1>2, <3>1, <4>1, <4>2, IdsInUse
      <3>2. ASSUME NEW k \in Ids, crm'.outcome[k] # "none" PROVE k < next'
        <4>1. CASE crm.outcome[k] # "none"
          <5>1. k < next /\ k \in Nat
            BY <4>1, MaxIsNat DEF IdBelow, Ids
          <5> QED BY <1>0, <2>0, <5>1
        <4>2. CASE crm'.outcome[k] # crm.outcome[k]
          <5>1. BatchId(k) \/ OtherId(k)
            BY <1>2, <4>2, OutcomeChange, JobIdInUse
          <5>2. k < next /\ k \in Nat
            BY <5>1, MaxIsNat DEF IdBelow, Ids
          <5> QED BY <1>0, <2>0, <5>2
        <4> QED BY <3>2, <4>1, <4>2
      <3> QED BY <3>1, <3>2 DEF IdBelow
    <2>2. IdApart'
      <3> SUFFICES ASSUME NEW k \in Ids, BatchId(k)', OtherId(k)' PROVE FALSE
        BY DEF IdApart
      <3>1. CASE BatchId(k) \/ OtherId(k)
        <4>1. k # next
          BY <1>0, <3>1 DEF IdBelow
        <4> QED BY <1>2, <4>1, IdsInUse DEF IdApart
      <3> QED BY <1>2, <3>1, IdsInUse
    <2>3. WatchAlone'
      <3> SUFFICES ASSUME NEW t \in Sessions, job'[t].kind = "watch"
                   PROVE  /\ \A u \in Sessions \ {t} : job'[u].id # job'[t].id
                          /\ \A p \in People : crm'.member[p].op # job'[t].id
        BY DEF WatchAlone
      <3>0. /\ \A u \in Sessions : job[u].id \in Ids \cup {0}
            /\ \A p \in People : crm.member[p].op \in Ids \cup {0}
            /\ \A u \in Sessions : job[u].id = 0 => job[u].kind = "idle"
        <4>1. \A u \in Sessions : JobOk(job[u])
          BY DEF TypeInv
        <4>2. 0..MaxOps = Ids \cup {0}
          BY MaxIsNat DEF Ids
        <4>3. \A p \in People : crm.member[p].op \in 0..MaxOps
          BY DEF TypeInv, Workspaces
        <4> QED BY <4>1, <4>2, <4>3, IdsInRange DEF JobOk, Carries
      <3>1. /\ \A u \in Sessions : job[u].id # next
            /\ \A p \in People : crm.member[p].op # next
        <4>1. ASSUME NEW u \in Sessions, job[u].id = next PROVE FALSE
          BY <1>0, <3>0, <4>1, JobIdInUse DEF IdBelow
        <4>2. ASSUME NEW p \in People, crm.member[p].op = next PROVE FALSE
          <5>1. next \in Ids /\ OtherId(next)
            BY <1>0, <3>0, <4>2 DEF OtherId
          <5> QED BY <1>0, <5>1 DEF IdBelow
        <4> QED BY <4>1, <4>2
      <3>2. \A u \in Sessions \ {s} : job'[u] = job[u]
        BY <1>2, SessionFrame
      <3>3. CASE Plan(s)
        <4>0. crm' = crm
          BY <3>3, PlanFrame
        <4>1. CASE Fresh(s)
          BY <3>1, <3>2, <4>0, <4>1 DEF Fresh, WatchAlone
        <4>2. CASE job'[s].kind = "add" /\ \E p \in People : job'[s].id = crm.member[p].op
          BY <3>2, <4>0, <4>2 DEF WatchAlone
        <4>3. CASE job'[s].kind = "batch" /\ Kept(job'[s].id)
          <5>1. t # s /\ job[t].kind = "watch" /\ job'[t] = job[t]
            BY <3>2, <4>3
          <5>2. job[t].id \in Ids
            BY <3>0, <5>1
          <5>3. OtherId(job[t].id)
            BY <5>1 DEF OtherId
          <5>4. ~BatchId(job[t].id)
            BY <5>2, <5>3 DEF IdApart
          <5>5. job'[s].id # job[t].id
            BY <4>3, <5>4 DEF BatchId, Kept
          <5> QED BY <3>2, <4>0, <5>1, <5>5 DEF WatchAlone
        <4> QED BY <3>3, <4>1, <4>2, <4>3, PlanFacts
      <3>4. CASE Step(s)
        <4>1. \A u \in Sessions : job'[u].id = job[u].id \/ job'[u].id = 0
          BY <3>2, <3>4, StepContinues, IdleType DEF Continues
        <4>2. job[t].kind = "watch" /\ job'[t].id = job[t].id
          BY <3>2, <3>4, StepContinues, IdleType DEF Continues
        <4>3. job[t].id # 0
          BY <3>0, <4>2
        <4>4. \A u \in Sessions \ {t} : job'[u].id # job'[t].id
          BY <4>1, <4>2, <4>3 DEF WatchAlone
        <4>5. ASSUME NEW p \in People PROVE crm'.member[p].op # job'[t].id
          <5>1. CASE crm'.member[p].op = crm.member[p].op
            BY <4>2, <5>1 DEF WatchAlone
          <5>2. CASE crm'.member[p].op # crm.member[p].op
            <6>1. Write(s)
              BY <3>4, <5>2, SessionFrame
            <6>2. AcceptedAs(crm', job[s])
              BY <5>2, <6>1, WriteCases DEF RefusedAs
            <6>3. job[s].kind \in {"add", "remove"}
              BY <5>2, <6>2 DEF AcceptedAs
            <6>4. crm'.member = [crm.member EXCEPT ![job[s].person] =
                     [rev |-> crm.member[job[s].person].rev + 1, op |-> job[s].id,
                      removed |-> (job[s].kind = "remove")]]
              BY <6>2, <6>3 DEF AcceptedAs
            <6>5. crm.member \in [People -> [rev : Nat, op : 0..MaxOps, removed : BOOLEAN]]
              BY DEF TypeInv, Workspaces
            <6>6. crm'.member[p].op = job[s].id
              BY <5>2, <6>4, <6>5
            <6>7. s # t
              BY <4>2, <6>3
            <6> QED BY <4>2, <6>6, <6>7 DEF WatchAlone
          <5> QED BY <5>1, <5>2
        <4> QED BY <4>4, <4>5
      <3> QED BY <1>2, <3>3, <3>4
    <2> QED BY <2>1, <2>2, <2>3
  <1> QED BY <1>1, <1>2, AccountFrame DEF Next, vars

-----------------------------------------------------------------------------
(* The account's room. *)

\* What waits after a request was there before, or is the request.
LEMMA QueuedAppend ==
    ASSUME TypeInv, NEW p \in Phases, NEW k \in Ids, Request(p, k), NEW q, NEW x, Queued(q, x)'
    PROVE  Queued(q, x) \/ (q = p /\ x = k)
  <1> DEFINE R == [phase : Phases, id : Ids]
             m == [phase |-> p, id |-> k]
  <1>1. inbox \in Seq(R) /\ m \in R /\ inbox' = Append(inbox, m)
    BY DEF TypeInv, Request
  <1>2. m.phase = p /\ m.id = k
    OBVIOUS
  <1> HIDE DEF R, m
  <1>3. PICK i \in DOMAIN inbox' : inbox'[i].phase = q /\ inbox'[i].id = x
    BY DEF Queued
  <1>4. CASE i \in DOMAIN inbox
    <2>1. inbox'[i] = inbox[i]
      BY <1>1, <1>4
    <2> QED BY <1>3, <1>4, <2>1 DEF Queued
  <1>5. CASE i \notin DOMAIN inbox
    <2>1. inbox'[i] = m
      BY <1>1, <1>3, <1>5
    <2> QED BY <1>2, <1>3, <2>1
  <1> QED BY <1>4, <1>5

\* Reading takes the first request, and adds none.
LEMMA QueuedRead ==
    ASSUME TypeInv, NEW p, Reads(p)
    PROVE  /\ Queued(p, Head(inbox).id) /\ Head(inbox).id \in Ids
           /\ \A q, x : Queued(q, x)' => Queued(q, x)
  <1> DEFINE R == [phase : Phases, id : Ids]
  <1>1. inbox \in Seq(R) /\ inbox # <<>> /\ inbox' = Tail(inbox) /\ Head(inbox).phase = p
    BY DEF TypeInv, Reads
  <1>2. Head(inbox).id \in Ids
    BY HeadType, <1>1
  <1> HIDE DEF R
  <1>3. 1 \in DOMAIN inbox /\ inbox[1] = Head(inbox)
    BY <1>1
  <1>4. ASSUME NEW i \in DOMAIN inbox'
        PROVE  i + 1 \in DOMAIN inbox /\ inbox'[i] = inbox[i + 1]
    BY <1>1, <1>4
  <1>5. Queued(p, Head(inbox).id)
    BY <1>1, <1>3 DEF Queued
  <1>6. ASSUME NEW q, NEW x, Queued(q, x)' PROVE Queued(q, x)
    <2>1. PICK i \in DOMAIN inbox' : inbox'[i].phase = q /\ inbox'[i].id = x
      BY <1>6 DEF Queued
    <2> QED BY <1>4, <2>1 DEF Queued
  <1> QED BY <1>2, <1>5, <1>6

\* Where the requests of a session come from.
LEMMA QueuedKept ==
    ASSUME TypeInv, NEW s \in Sessions, Plan(s) \/ Step(s), NEW p, NEW k, Queued(p, k)'
    PROVE  \/ Queued(p, k)
           \/ p = "cancel" \/ p = "prepare" \/ p = "stop"
           \/ p = "commit" /\ SendCommit(s) /\ k = job[s].id
           \/ p = "submit" /\ SendSubmit(s) /\ k = job[s].id
  <1>0. job[s] \in Jobs /\ JobOk(job[s]) /\ Carries(job[s])
    BY DEF TypeInv, JobOk
  <1>1. CASE inbox' = inbox
    BY <1>1 DEF Queued
  <1>2. CASE Submit(s) /\ Request("stop", job[s].id)
    BY <1>0, <1>2, QueuedAppend DEF Phases, Submit, At, JobOk
  <1>3. CASE SendCommit(s)
    BY <1>0, <1>3, QueuedAppend DEF Phases, SendCommit, At, JobOk
  <1>4. CASE SendSubmit(s)
    BY <1>0, <1>4, QueuedAppend DEF Phases, SendSubmit, At, JobOk
  <1>5. CASE SendStop(s)
    BY <1>0, <1>5, QueuedAppend DEF Phases, SendStop, At, JobOk, Carries
  <1>6. CASE RequestPrepare(s)
    BY <1>0, <1>6, QueuedAppend DEF Phases, RequestPrepare, At, JobOk
  <1>7. ASSUME NEW x \in Ids, RequestCancel(s, x)
        PROVE  Queued(p, k) \/ p = "cancel"
    BY <1>7, QueuedAppend DEF Phases, RequestCancel
  <1>8. CASE Plan(s)
    BY <1>1, <1>8, PlanFrame
  <1>9. CASE Step(s)
    BY <1>1, <1>2, <1>3, <1>4, <1>5, <1>6, <1>7, <1>9 DEF Step, Execute, Canceled, Prepared,
       Preview, Write, Written, RequestCommit, Submit, GiveUp
  <1> QED BY <1>8, <1>9

-----------------------------------------------------------------------------
(* Batches: a message is only submitted for a batch the workspace keeps. *)

LEMMA AcceptedBatch ==
    ASSUME TypeInv, NEW s \in Sessions, job[s].at = "write", job[s].kind = "batch",
           Accepts(job[s]), AcceptedAs(crm', job[s])
    PROVE  /\ crm'.batch = [crm.batch EXCEPT ![job[s].id] = job[s].manifest]
           /\ job[s].id \in Ids /\ crm'.batch[job[s].id] # NoBatch
           /\ crm.list.archived = FALSE
           /\ Active(job[s].manifest.person)
           /\ crm.member[job[s].manifest.person].op = job[s].manifest.member
  <1>1. ManifestCurrent(job[s].manifest)
    BY DEF Accepts
  <1>2. crm \in Workspaces /\ job[s].id \in Ids
    BY DEF TypeInv, JobOk
  <1>3. job[s].manifest # NoBatch
    BY <1>1, NoBatchType DEF ManifestCurrent, Active
  <1>4. crm'.batch = [crm.batch EXCEPT ![job[s].id] = job[s].manifest]
    BY DEF AcceptedAs
  <1>5. crm'.batch[job[s].id] = job[s].manifest
    BY <1>2, <1>4 DEF Workspaces
  <1>6. crm.list.archived = FALSE
    BY <1>1, <1>2 DEF ManifestCurrent, Workspaces
  <1> QED BY <1>1, <1>2, <1>3, <1>4, <1>5, <1>6 DEF ManifestCurrent

\* What the workspace keeps of a batch it accepted stays.
LEMMA KeptStays ==
    ASSUME TypeInv, [Next]_vars, NEW k \in Ids, Kept(k)
    PROVE  Kept(k)'
  <1>1. CASE crm' = crm
    BY <1>1 DEF Kept
  <1>2. ASSUME NEW s \in Sessions, Write(s) PROVE Kept(k)'
    <2>0. job[s].at = "write" /\ crm \in Workspaces /\ job[s].id \in Ids
      BY <1>2, WriteCases DEF TypeInv
    <2>1. CASE RefusedAs(crm', job[s])
      BY <2>1 DEF RefusedAs, Kept
    <2>2. CASE Accepts(job[s]) /\ AcceptedAs(crm', job[s])
      <3>1. CASE job[s].kind = "batch"
        <4>1. crm'.batch[job[s].id] # NoBatch /\ crm'.batch = [crm.batch EXCEPT ![job[s].id] = job[s].manifest]
          BY <2>0, <2>2, <3>1, AcceptedBatch
        <4>2. k # job[s].id => crm'.batch[k] = crm.batch[k]
          BY <2>0, <4>1 DEF Workspaces
        <4> QED BY <4>1, <4>2 DEF Kept
      <3> QED BY <2>2, <3>1 DEF AcceptedAs, Kept
    <2> QED BY <1>2, <2>1, <2>2, WriteCases
  <1> QED BY <1>1, <1>2, SessionFrame, AccountFrame DEF Next, vars

LEMMA BatchStep ==
    ASSUME TypeInv, IdInv, BatchInv, [Next]_vars
    PROVE  BatchInv'
  <1> USE DEF BatchInv
  <1>1. \A k \in Ids : Kept(k) => Kept(k)'
    BY KeptStays
  <1>2. CASE UNCHANGED vars
    BY <1>2 DEF vars, BatchId, Kept, Queued
  <1>3. ASSUME NEW s \in Sessions, Plan(s) \/ Step(s) PROVE BatchInv'
    <2>0. job[s] \in Jobs /\ JobOk(job[s]) /\ Carries(job[s])
      BY DEF TypeInv, JobOk
    <2>1. ASSUME NEW k \in Ids, crm'.outcome[k] = "accepted", BatchId(k)' PROVE Kept(k)'
      <3>1. CASE crm.outcome[k] = "accepted"
        <4>1. k # next
          BY <3>1 DEF IdInv, IdBelow, TypeInv
        <4>2. BatchId(k)
          BY <1>3, <2>1, <4>1, IdsInUse
        <4> QED BY <1>1, <3>1, <4>2
      <3>2. CASE crm.outcome[k] # "accepted"
        <4>1. Write(s) /\ k = job[s].id /\ Accepts(job[s]) /\ AcceptedAs(crm', job[s])
          BY <1>3, <2>1, <3>2, OutcomeChange
        <4>2. job[s].at = "write"
          BY <4>1 DEF Write, At
        <4>3. CASE job[s].kind = "batch"
          BY <4>1, <4>2, <4>3, AcceptedBatch DEF Kept
        <4>4. CASE job[s].kind # "batch"
          <5>1. OtherId(k)
            BY <4>1, <4>4 DEF OtherId
          <5>2. k # next
            BY <5>1 DEF IdInv, IdBelow, TypeInv
          <5>3. BatchId(k)
            BY <1>3, <2>1, <5>2, IdsInUse
          <5> QED BY <5>1, <5>3 DEF IdInv, IdApart
        <4> QED BY <4>3, <4>4
      <3> QED BY <3>1, <3>2
    <2>2. ASSUME NEW t \in Sessions, job'[t].at \in {"batch", "submit"} PROVE Kept(job[t].id)'
      <3>1. CASE job'[t] = job[t] \/ (job[t].at \in {"batch", "submit"} /\ job'[t].id = job[t].id)
        <4>1. job[t].id \in Ids
          BY <2>2, <3>1 DEF TypeInv, JobOk
        <4> QED BY <1>1, <2>2, <3>1, <4>1 DEF Kept
      <3>2. CASE t = s /\ Written(s)
        <4>1. job[s].id \in Ids /\ crm.outcome[job[s].id] = "accepted" /\ job[s].kind = "batch"
              /\ job'[s].id = job[s].id
          <5>1. CASE Go(s, Idle)
            BY <2>2, <3>2, <5>1, GoTo, IdleType
          <5>2. CASE /\ crm.outcome[job[s].id] = "accepted" /\ job[s].kind \in {"add", "batch", "stop"}
                     /\ Move(s, IF job[s].kind = "add" THEN "commit" ELSE job[s].kind)
            BY <2>0, <2>2, <3>2, <5>2, MoveContinues DEF Written, At, JobOk, Continues
          <5> QED BY <3>2, <5>1, <5>2 DEF Written
        <4>2. BatchId(job[s].id)
          BY <4>1 DEF BatchId
        <4>3. Kept(job[s].id)
          BY <4>1, <4>2
        <4> QED BY <1>1, <3>2, <4>1, <4>3 DEF Kept
      <3>3. CASE t = s /\ Plan(s)
        BY <2>2, <3>3, PlanFacts
      <3>4. CASE t = s /\ Step(s) /\ ~Written(s)
        <4>1. job'[s] # Idle
          BY <2>2, <3>4, IdleType
        <4>2. Continues(s)
          BY <3>4, <4>1, StepContinues
        <4>3. CASE Submit(s)
          BY <3>1, <3>4, <4>2, <4>3 DEF Submit, At, Continues
        <4>4. CASE Execute(s)
          <5>1. job'[s].at \in {"append", "prepare", "cancel"}
            <6>1. CASE job[s].kind = "watch" /\ Go(s, [Rebased(job[s]) EXCEPT !.at = "append"])
              <7>1. job'[s] = [Rebased(job[s]) EXCEPT !.at = "append"]
                BY <6>1, GoTo
              <7> QED BY <2>0, <7>1 DEF Rebased, Jobs
            <6>2. CASE \E place \in {"prepare", "cancel"} : Move(s, place)
              BY <6>2, MoveContinues
            <6> QED BY <4>4, <6>1, <6>2 DEF Execute
          <5> QED BY <2>2, <3>4, <5>1
        <4>5. CASE \E k \in Ids : RequestCancel(s, k)
          BY <3>1, <3>4, <4>5 DEF RequestCancel
        <4>6. CASE \E place \in {"prepare", "append", "wait", "write", "written", "grant"} : Move(s, place)
          BY <2>2, <3>4, <4>6, MoveContinues
        <4>7. ~Go(s, Idle)
          BY <4>1, GoTo
        <4>8. \/ Submit(s) \/ Execute(s) \/ \E k \in Ids : RequestCancel(s, k)
              \/ \E place \in {"prepare", "append", "wait", "write", "written", "grant"} : Move(s, place)
          BY <3>4, <4>7 DEF Step, Canceled, RequestPrepare, Prepared, Preview, Write, RequestCommit,
             SendCommit, SendSubmit, SendStop, GiveUp
        <4> QED BY <4>3, <4>4, <4>5, <4>6, <4>8
      <3> QED BY <1>3, <3>1, <3>2, <3>3, <3>4, SessionFrame
    <2>3. ASSUME NEW k \in Ids, Queued("submit", k)' PROVE Kept(k)'
      <3>1. Queued("submit", k) \/ (SendSubmit(s) /\ k = job[s].id)
        BY <1>3, <2>3, QueuedKept
      <3> QED BY <1>1, <3>1 DEF SendSubmit, At
    <2>4. ASSUME NEW k \in Ids, item'[k] = "accepted" PROVE Kept(k)'
      BY <1>1, <1>3, <2>4, SessionFrame DEF account
    <2> QED BY <2>1, <2>2, <2>3, <2>4
  <1>4. ASSUME Account PROVE BatchInv'
    <2>0. UNCHANGED <<crm, job>>
      BY <1>4, AccountFrame
    <2>1. \A k \in Ids : Queued("submit", k)' => Queued("submit", k)
      <3>1. CASE inbox' = inbox
        BY <3>1 DEF Queued
      <3>2. CASE \E p : Reads(p)
        BY <3>2, QueuedRead
      <3> QED BY <1>4, <3>1, <3>2 DEF Account, IngestPrepare, IngestCommit, IngestCancel, IngestSubmit,
            IngestStop, CancelEnds, WriteGrant, GrantApplied, Attempt
    <2>2. ASSUME NEW k \in Ids, item'[k] = "accepted" PROVE item[k] = "accepted" \/ Queued("submit", k)
      <3>0. item \in [Ids -> {"none", "accepted", "attempted", "canceled"}]
        BY DEF TypeInv
      <3>1. CASE item' = item
        BY <2>2, <3>1
      <3>2. CASE IngestCancel
        BY <2>2, <3>0, <3>2 DEF IngestCancel, Withdrawn
      <3>3. CASE IngestSubmit
        <4>1. Queued("submit", Head(inbox).id)
          BY <3>3, QueuedRead DEF IngestSubmit
        <4> QED BY <2>2, <3>0, <3>3, <4>1 DEF IngestSubmit
      <3>4. CASE IngestStop
        BY <2>2, <3>0, <3>4 DEF IngestStop
      <3>5. ASSUME NEW b \in Ids, Attempt(b) PROVE item[k] = "accepted"
        BY <2>2, <3>0, <3>5 DEF Attempt
      <3> QED BY <1>4, <3>1, <3>2, <3>3, <3>4, <3>5 DEF Account, IngestPrepare, IngestCommit,
            CancelEnds, WriteGrant, GrantApplied
    <2> QED BY <2>0, <2>1, <2>2 DEF BatchId, Kept
  <1> QED BY <1>2, <1>3, <1>4 DEF Next

-----------------------------------------------------------------------------

(* Setups that are relied on. *)

LEMMA HoldsMember ==
    ASSUME NEW p \in People, Active(p), crm.list.archived = FALSE
    PROVE  Holds(crm.member[p].op)
  BY DEF Holds, ActiveOps

LEMMA CoveredStep ==
    ASSUME TypeInv, GrantFollowsCommand, TodoInv, PlanInv, CoveredInv, [Next]_vars
    PROVE  CoveredInv'
  <1> USE DEF CoveredInv
  <1>0. \A k \in Ids : Covered(k) => Covered(k)'
    BY CoveredStays
  <1>1. \A k \in Ids : Kept(k) => Kept(k)'
    BY KeptStays
  <1>2. CASE UNCHANGED vars
    BY <1>2 DEF vars, Covered, Holds, ActiveOps, Active, Kept, Queued
  <1>3. ASSUME NEW s \in Sessions, Plan(s) \/ Step(s) PROVE CoveredInv'
    <2>0. job[s] \in Jobs /\ JobOk(job[s]) /\ Carries(job[s]) /\ crm \in Workspaces
      BY DEF TypeInv, JobOk
    <2>1. ASSUME NEW k \in Ids, grant'[k] \in {"queued", "writing"} PROVE Covered(k)'
      BY <1>0, <1>3, <2>1, SessionFrame DEF account
    <2>2. ASSUME NEW k \in Ids, Queued("commit", k)' PROVE Covered(k)'
      <3>1. Queued("commit", k) \/ (SendCommit(s) /\ k = job[s].id)
        BY <1>3, <2>2, QueuedKept
      <3> QED BY <1>0, <3>1 DEF SendCommit, At
    <2>3. ASSUME NEW t \in Sessions, job'[t].at = "grant" PROVE Covered(job[t].id)'
      <3>1. CASE job'[t] = job[t]
        <4>1. job[t].id \in Ids
          BY <2>3, <3>1 DEF TypeInv, JobOk
        <4> QED BY <1>0, <2>3, <3>1, <4>1 DEF Covered
      <3>2. CASE t = s /\ RequestCommit(s)
        <4>1. job'[s].id = job[s].id /\ crm' = crm /\ job[s].id \in Ids /\ job[s].person \in People
          BY <2>0, <3>2, MoveContinues DEF RequestCommit, Continues, At, JobOk, Carries
        <4>2. Holds(job[s].id)
          BY <2>0, <3>2, <4>1, HoldsMember DEF RequestCommit, After, Workspaces
        <4>3. Covered(job[s].id)
          BY <4>2 DEF Covered
        <4> QED BY <1>0, <3>2, <4>1, <4>3 DEF Covered
      <3>3. CASE t = s /\ Plan(s)
        BY <2>3, <3>3, PlanFacts
      <3>4. CASE t = s /\ Step(s) /\ ~RequestCommit(s) /\ job' # job
        <4>1. ~Go(s, Idle)
          BY <2>3, <3>4, IdleType, GoTo
        <4>2. CASE Execute(s)
          <5>1. CASE job[s].kind = "watch" /\ Go(s, [Rebased(job[s]) EXCEPT !.at = "append"])
            <6>1. job'[s] = [Rebased(job[s]) EXCEPT !.at = "append"]
              BY <5>1, GoTo
            <6>2. job'[s].at = "append"
              BY <2>0, <6>1 DEF Rebased, Jobs
            <6> QED BY <2>3, <3>4, <6>2
          <5>2. CASE \E place \in {"prepare", "cancel"} : Move(s, place)
            BY <2>3, <3>4, <5>2, MoveContinues
          <5> QED BY <4>2, <5>1, <5>2 DEF Execute
        <4>3. CASE \E place \in {"prepare", "append", "wait", "write", "written", "commit", "submit",
                                 "batch", "stop"} : Move(s, place)
          BY <2>3, <3>4, <4>3, MoveContinues
        <4>4. \/ Execute(s)
              \/ \E place \in {"prepare", "append", "wait", "write", "written", "commit", "submit",
                               "batch", "stop"} : Move(s, place)
          BY <3>4, <4>1 DEF Step, RequestCancel, Canceled, RequestPrepare, Prepared, Preview, Write,
             Written, Submit, SendCommit, SendSubmit, SendStop, GiveUp
        <4> QED BY <4>2, <4>3, <4>4
      <3> QED BY <1>3, <3>1, <3>2, <3>3, <3>4, SessionFrame
    <2>4. ASSUME NEW k \in Ids, Kept(k)'
          PROVE  /\ crm'.batch[k].person \in People
                 /\ crm'.batch[k].member \in Ids /\ Covered(crm.batch[k].member)'
      <3>1. CASE crm'.batch[k] = crm.batch[k]
        <4>1. Kept(k)
          BY <2>4, <3>1 DEF Kept
        <4>2. ASSUME NEW m \in Ids, m = crm.batch[k].member PROVE Covered(crm.batch[k].member)'
          <5>1. Covered(m)'
            BY <1>0, <4>1, <4>2
          <5> QED BY <3>1, <4>2, <5>1 DEF Covered, Holds
        <4> QED BY <3>1, <4>1, <4>2
      <3>2. CASE crm'.batch[k] # crm.batch[k]
        <4> DEFINE b == job[s].manifest
        <4>1. Write(s)
          BY <1>3, <3>2, SessionFrame
        <4>2. Accepts(job[s]) /\ AcceptedAs(crm', job[s])
          BY <3>2, <4>1, WriteCases DEF RefusedAs
        <4>3. job[s].kind = "batch" /\ job[s].at = "write"
          BY <3>2, <4>1, <4>2 DEF AcceptedAs, Write, At
        <4>4. /\ crm'.batch = [crm.batch EXCEPT ![job[s].id] = b]
              /\ crm.list.archived = FALSE /\ Active(b.person)
              /\ crm.member[b.person].op = b.member
          BY <4>2, <4>3, AcceptedBatch
        <4>5. crm'.batch[k] = b
          BY <2>0, <3>2, <4>4 DEF Workspaces
        <4>6. b.person \in People
          BY <4>3
        <4>7. b.member \in Ids /\ Covered(b.member)
          BY <4>4, <4>6, HoldsMember, OpOfMember DEF Covered
        <4>8. ASSUME NEW m \in Ids, m = b.member PROVE Covered(crm.batch[k].member)'
          <5>1. Covered(m)'
            BY <1>0, <4>7, <4>8
          <5>2. crm'.batch[k].member = m
            BY <4>5, <4>8
          <5> QED BY <5>1, <5>2 DEF Covered, Holds
        <4> QED BY <4>5, <4>6, <4>7, <4>8
      <3> QED BY <3>1, <3>2
    <2>5. ASSUME NEW t \in Sessions, job'[t].kind = "batch" PROVE job'[t].manifest.person \in People
      <3>1. CASE job'[t] = job[t]
        BY <2>5, <3>1
      <3>2. CASE t = s /\ Plan(s)
        <4>1. job'[s].id \in Ids
          BY <2>5, <3>2, PlanFacts DEF Fresh
        <4> QED BY <2>5, <3>2, <4>1, PlanFacts
      <3>3. CASE t = s /\ Step(s)
        BY <2>5, <3>3, StepContinues, IdleType DEF Continues
      <3> QED BY <1>3, <3>1, <3>2, <3>3, SessionFrame
    <2> QED BY <2>1, <2>2, <2>3, <2>4, <2>5
  <1>4. ASSUME Account PROVE CoveredInv'
    <2>0. UNCHANGED <<crm, job>>
      BY <1>4, AccountFrame
    <2>1. \A k \in Ids : Queued("commit", k)' => Queued("commit", k)
      <3>1. CASE inbox' = inbox
        BY <3>1 DEF Queued
      <3>2. CASE \E p : Reads(p)
        BY <3>2, QueuedRead
      <3> QED BY <1>4, <3>1, <3>2 DEF Account, IngestPrepare, IngestCommit, IngestCancel, IngestSubmit,
            IngestStop, CancelEnds, WriteGrant, GrantApplied, Attempt
    <2>2. ASSUME NEW k \in Ids, grant'[k] \in {"queued", "writing"}
          PROVE  grant[k] \in {"queued", "writing"} \/ Queued("commit", k)
      <3>0. grant \in [Ids -> {"none", "queued", "writing", "applied", "canceled"}]
        BY DEF TypeInv
      <3>1. CASE grant' = grant
        BY <2>2, <3>1
      <3>2. CASE IngestCancel
        BY <2>2, <3>0, <3>2 DEF IngestCancel
      <3>3. CASE IngestCommit
        <4>1. Queued("commit", Head(inbox).id)
          BY <3>3, QueuedRead DEF IngestCommit
        <4> QED BY <2>2, <3>0, <3>3, <4>1 DEF IngestCommit
      <3>4. ASSUME NEW x \in Ids, WriteGrant(x) \/ GrantApplied(x)
            PROVE  grant[k] \in {"queued", "writing"}
        BY <2>2, <3>0, <3>4 DEF WriteGrant, GrantApplied
      <3> QED BY <1>4, <3>1, <3>2, <3>3, <3>4 DEF Account, IngestPrepare, IngestSubmit, IngestStop,
            CancelEnds, Attempt
    <2>3. \A k \in Ids : Kept(k)' => Kept(k) /\ crm'.batch[k] = crm.batch[k]
      BY <2>0 DEF Kept
    <2>4. \A k \in Ids : Kept(k)' => Covered(crm.batch[k].member)'
      BY <1>0, <2>0, <2>3 DEF Covered
    <2>5. \A t \in Sessions : job'[t].at = "grant" => Covered(job[t].id)'
      BY <1>0, <2>0 DEF Covered, TypeInv, JobOk
    <2> QED BY <1>0, <2>0, <2>1, <2>2, <2>3, <2>4, <2>5
  <1> QED BY <1>2, <1>3, <1>4 DEF Next

-----------------------------------------------------------------------------
(* The theorems. *)

LEMMA InitInv == Init => IInv
  <1> SUFFICES ASSUME Init PROVE IInv
    OBVIOUS
  <1>1. TypeInv
    BY InitType
  <1>2. \A s \in Sessions : job[s] = Idle
    BY DEF Init
  <1>3. /\ \A k \in Ids : /\ command[k] = "none" /\ grant[k] = "none" /\ item[k] = "none"
                          /\ crm.batch[k] = NoBatch /\ crm.outcome[k] = "none"
        /\ \A p \in People : crm.member[p].op = 0
        /\ inbox = <<>>
    BY DEF Init
  <1>4. GrantFollowsCommand
    BY <1>3 DEF GrantFollowsCommand
  <1>5. TodoInv /\ PlanInv
    BY <1>2, IdleType DEF TodoInv, PlanInv, MemberOk, WatchOk
  <1>6. IdInv
    <2>1. \A k \in Ids : ~BatchId(k) /\ ~OtherId(k)
      BY <1>2, <1>3, IdleType, IdsInRange DEF BatchId, OtherId
    <2> QED BY <1>2, <1>3, <2>1, IdleType DEF IdInv, IdBelow, IdApart, WatchAlone
  <1>7. \A p, k : ~Queued(p, k)
    BY <1>3 DEF Queued
  <1>8. BatchInv /\ CoveredInv
    BY <1>2, <1>3, <1>7, IdleType DEF BatchInv, CoveredInv, Kept
  <1> QED BY <1>1, <1>4, <1>5, <1>6, <1>8 DEF IInv

LEMMA InvStep == IInv /\ [Next]_vars => IInv'
  BY TypeStep, GrantsStep, TodoStep, PlanStep, IdStep, BatchStep, CoveredStep DEF IInv

\* The inductive invariant holds: types, agreement of the stores, and what plans,
\* requests, batches and grants may rely on.
THEOREM Consistent == Spec => []IInv
  BY InitInv, InvStep, PTL DEF Spec

\* The account's two stores agree (crm_control.py, crm_policy.py): a grant is queued
\* or written only under a command that waits for it, and a command reads "applied"
\* only when its grant was.
THEOREM StoresAgree == Spec => []GrantFollowsCommand
  <1>1. IInv => GrantFollowsCommand
    BY DEF IInv
  <1> QED BY <1>1, Consistent, PTL

\* Whatever the order in which sessions plan, cancel and write, and the account reads
\* and answers, Direct is applied only while the setup's member is on the list: a
\* grant in progress is covered, and its command is not canceled.
THEOREM OnlyMembersAreGranted == Spec => GrantBacked
  <1> DEFINE Step1 == \A k \in Ids : grant[k] # "applied" /\ grant'[k] = "applied" => Holds(k)
  <1>1. ASSUME IInv, [Next]_vars PROVE Step1
    <2> SUFFICES ASSUME NEW k \in Ids, grant[k] # "applied", grant'[k] = "applied" PROVE Holds(k)
      OBVIOUS
    <2>0. grant \in [Ids -> {"none", "queued", "writing", "applied", "canceled"}]
      BY <1>1 DEF IInv, TypeInv
    <2>1. UNCHANGED vars \/ Account \/ \E s \in Sessions : Plan(s) \/ Step(s)
      BY <1>1 DEF Next
    <2>2. grant' # grant
      OBVIOUS
    <2>3. Account
      BY <1>1, <2>1, <2>2, SessionFrame DEF IInv, vars, account
    <2>4. grant[k] = "writing"
      <3>1. CASE IngestCommit \/ IngestCancel
        BY <2>0, <3>1 DEF IngestCommit, IngestCancel
      <3>2. ASSUME NEW x \in Ids, WriteGrant(x) \/ GrantApplied(x) PROVE grant[k] = "writing"
        BY <2>0, <3>2 DEF WriteGrant, GrantApplied
      <3> QED BY <2>2, <2>3, <3>1, <3>2 DEF Account, IngestPrepare, IngestSubmit, IngestStop,
            CancelEnds, Attempt
    <2>5. Covered(k) /\ command[k] # "canceled"
      BY <1>1, <2>4 DEF IInv, CoveredInv, GrantFollowsCommand
    <2> QED BY <2>5 DEF Covered
  <1>2. IInv /\ [Next]_vars => [Step1]_vars
    BY <1>1
  <1> QED BY <1>2, Consistent, PTL DEF Spec, GrantBacked

\* A message of a reviewed batch leaves (crm_batch.py) only while its recipient is on
\* the list by the membership that was reviewed: the batch is kept, its setup is
\* covered, and the last gate has seen that it is not canceled.
THEOREM OnlyMembersAreSentTo == Spec => SentToMembersOnly
  <1> DEFINE Step1 == \A b \in Ids : item[b] # "attempted" /\ item'[b] = "attempted"
                                          => Holds(crm.batch[b].member)
  <1>1. ASSUME IInv, [Next]_vars PROVE Step1
    <2> SUFFICES ASSUME NEW b \in Ids, item[b] # "attempted", item'[b] = "attempted"
                 PROVE  Holds(crm.batch[b].member)
      OBVIOUS
    <2>0. item \in [Ids -> {"none", "accepted", "attempted", "canceled"}]
      BY <1>1 DEF IInv, TypeInv
    <2>1. UNCHANGED vars \/ Account \/ \E s \in Sessions : Plan(s) \/ Step(s)
      BY <1>1 DEF Next
    <2>2. item' # item
      OBVIOUS
    <2>3. Account
      BY <1>1, <2>1, <2>2, SessionFrame DEF IInv, vars, account
    <2>4. Attempt(b)
      <3>1. CASE IngestCancel
        BY <2>0, <3>1 DEF IngestCancel, Withdrawn
      <3>2. CASE IngestSubmit \/ IngestStop
        BY <2>0, <3>2 DEF IngestSubmit, IngestStop
      <3>3. ASSUME NEW x \in Ids, Attempt(x) PROVE Attempt(b)
        BY <2>0, <3>3 DEF Attempt
      <3> QED BY <2>2, <2>3, <3>1, <3>2, <3>3 DEF Account, IngestPrepare, IngestCommit,
            CancelEnds, WriteGrant, GrantApplied
    <2>5. item[b] = "accepted" /\ command[crm.batch[b].member] # "canceled"
      BY <2>4 DEF Attempt, MayAttempt
    <2>6. Covered(crm.batch[b].member)
      BY <1>1, <2>5 DEF IInv, BatchInv, CoveredInv
    <2> QED BY <2>5, <2>6 DEF Covered
  <1>2. IInv /\ [Next]_vars => [Step1]_vars
    BY <1>1
  <1> QED BY <1>2, Consistent, PTL DEF Spec, SentToMembersOnly

\* Only the write of a review changes the alerts of a conversation, and it is accepted
\* at the revision whose settings it has seen (notificationOperations): by WatchOk,
\* and because nobody else goes by its identity.
THEOREM ReviewsAreNotOverwritten == Spec => ReviewedWatchKept
  <1> DEFINE Step1 == \A s \in Sessions, r \in Rooms :
           crm.watch[r] # crm'.watch[r] /\ crm'.watch[r] = job[s].id
               => crm.watch[r] = job[s].seen
  <1>1. ASSUME IInv, [Next]_vars PROVE Step1
    <2> SUFFICES ASSUME NEW s \in Sessions, NEW r \in Rooms,
                        crm.watch[r] # crm'.watch[r], crm'.watch[r] = job[s].id
                 PROVE  crm.watch[r] = job[s].seen
      OBVIOUS
    <2>1. UNCHANGED vars \/ Account \/ \E t \in Sessions : Plan(t) \/ Step(t)
      BY <1>1 DEF Next
    <2>2. crm' # crm
      OBVIOUS
    <2>3. TypeInv /\ PlanInv /\ IdInv
      BY <1>1 DEF IInv
    <2>4. PICK t \in Sessions : Write(t)
      BY <2>1, <2>2, <2>3, SessionFrame, AccountFrame DEF vars
    <2>5. Accepts(job[t]) /\ AcceptedAs(crm', job[t])
      BY <2>3, <2>4, WriteCases DEF RefusedAs
    <2>6. job[t].kind = "watch" /\ crm'.watch = [crm.watch EXCEPT ![job[t].room] = job[t].id]
      BY <2>5 DEF AcceptedAs
    <2>7. crm.watch \in [Rooms -> 0..MaxOps]
      BY <2>3 DEF TypeInv, Workspaces
    <2>8. r = job[t].room /\ crm'.watch[r] = job[t].id
      BY <2>6, <2>7
    <2>9. s = t
      BY <2>3, <2>6, <2>8 DEF IdInv, WatchAlone
    <2>10. ListCurrent(job[t]) /\ WatchOk(job[t])
      BY <2>3, <2>5, <2>6 DEF Accepts, PlanInv
    <2> QED BY <2>6, <2>8, <2>9, <2>10 DEF ListCurrent, WatchOk
  <1>2. IInv /\ [Next]_vars => [Step1]_vars
    BY <1>1
  <1> QED BY <1>2, Consistent, PTL DEF Spec, ReviewedWatchKept
=============================================================================
