----------------------- MODULE TelegramControlProofs -----------------------
(***************************************************************************)
(* Proofs about the orders a manager gives through Telegram, for any chats, *)
(* bots, drafts, orders, size of a review and bounds: a draft is submitted *)
(* at most once, only the operator of the moment can confirm it, and whoever *)
(* confirms it there has seen all of it.                                   *)
(***************************************************************************)
EXTENDS TelegramControl, TLAPS

People == Chats \cup {None}
Letters == [bot : Bots, from : Chats, text : Text, link : Nat]
DraftRecords == [state : DraftState, ctx : Nat, aged : BOOLEAN,
                 by : People, confirmer : People]
RowRecords == [state : RowState, chat : People, tries : Nat]
Bindings == {<<>>} \cup People \X Bots \X Nat

(* The rows of the database and the memory of the process.                 *)
Typed ==
    /\ operator \in People /\ bot \in Bots /\ epoch \in Nat /\ token \in Bots
    /\ context \in Nat /\ links \in Nat
    /\ mail \in Seq(Letters)
    /\ inbox \in [Updates -> InboxState]
    /\ drafts \in [Drafts -> DraftRecords]
    /\ outbox \in [Rows -> RowRecords]
    /\ job \in [kind : {None, "update", "command"}, id : Updates \cup Commands \cup {None},
                binding : Bindings, phase : {"idle", "claimed", "model"}, ctx : Nat]
    /\ busy \in [op : {"idle", "confirm", "confirmed", "deliver", "displayed"},
                 on : Drafts \cup Rows \cup {None}]
    /\ shown \in [Chats \X Rows -> Nat]
    /\ puts \in [Drafts -> Nat]

(* A letter in the inbox was sent. The one that is worked on holds the      *)
(* lease, so nobody was paired or disconnected since it was claimed; what  *)
(* the model is asked for, an operator asked for.                          *)
JobInv ==
    /\ \A u \in Updates : inbox[u] = "pending" => u \in 1..Len(mail)
    /\ job.phase = "claimed" => job.binding = Binding /\ job.id \in 1..Len(mail)
    /\ job.phase = "model" => job.binding[1] \in Chats

(* Who holds the lease for a call holds a draft that is being executed and *)
(* was not submitted, or a row that is being sent.                         *)
BusyInv ==
    /\ busy.op \in {"confirm", "confirmed"} =>
         busy.on \in Drafts /\ drafts[busy.on].state = "executing"
    /\ busy.op = "confirm" => puts[busy.on] = 0
    /\ busy.op \in {"deliver", "displayed"} =>
         busy.on \in Rows /\ outbox[busy.on].state = "sending"
    /\ busy.op = "displayed" => shown[<<outbox[busy.on].chat, busy.on>>] > 0

(* A draft that waits is the operator's and was not submitted; the rows of *)
(* a review go to the chat the draft was prepared for, and an accepted row *)
(* was displayed there.                                                    *)
ReviewInv ==
    /\ \A d \in Drafts :
         /\ drafts[d].state = "pending" => operator # None /\ drafts[d].by = operator
         /\ drafts[d].state \in {"none", "pending"} => puts[d] = 0
         /\ puts[d] <= 1
         /\ drafts[d].confirmer # None =>
              \A n \in 1..Parts : shown[<<drafts[d].confirmer, <<d, n>>>>] > 0
    /\ \A d \in Drafts, n \in 1..Parts :
         /\ outbox[<<d, n>>].state # "none" =>
              /\ drafts[d].state # "none"
              /\ outbox[<<d, n>>].chat \in Chats /\ outbox[<<d, n>>].chat = drafts[d].by
         /\ outbox[<<d, n>>].state = "accepted" => shown[<<outbox[<<d, n>>].chat, <<d, n>>>>] > 0

ControlInv == Typed /\ JobInv /\ BusyInv /\ ReviewInv

LEMMA ControlAtFirst == Init => ControlInv
<1> SUFFICES ASSUME Init
             PROVE  ControlInv
  OBVIOUS
<1>1. Typed
  BY ControlAssumption DEF Init, Typed, People, Letters, Bindings, Rows, NoDraft, NoRow, NoJob,
       Idle, InboxState, DraftState, RowState, DraftRecords, RowRecords
<1>2. JobInv /\ BusyInv
  BY DEF Init, JobInv, BusyInv, NoJob, Idle
<1>3. ReviewInv
  BY DEF Init, ReviewInv, NoDraft, NoRow, Rows
<1> QED
  BY <1>1, <1>2, <1>3 DEF ControlInv

-----------------------------------------------------------------------------
(* Type correctness, one lemma for each part of the service.               *)

LEMMA TypedEnvironment == ControlInv /\ Environment => Typed'
<1> SUFFICES ASSUME Typed, Environment
             PROVE  Typed'
  BY DEF ControlInv
<1>1. ASSUME NEW chat \in Chats, NEW text \in Text, UserWrites(chat, text)
      PROVE  Typed'
  <2> DEFINE l == [bot |-> token, from |-> chat, text |-> text,
                   link |-> IF text[1] = "start" THEN links ELSE 0]
  <2>1. l \in Letters
    BY DEF Typed, Letters
  <2>2. mail' = Append(mail, l)
    BY <1>1 DEF UserWrites
  <2>3. mail' \in Seq(Letters)
    BY <2>1, <2>2 DEF Typed
  <2> QED
    BY <1>1, <2>3 DEF UserWrites, Typed, core, wire, memory, evidence
<1>2. CASE ContextChanges
  BY <1>2 DEF ContextChanges, Typed, core, wire, memory, evidence
<1>3. ASSUME NEW d \in Drafts, ReviewAges(d)
      PROVE  Typed'
  BY <1>3 DEF ReviewAges, Typed, DraftRecords, core, wire, memory, world, evidence
<1> QED
  BY <1>1, <1>2, <1>3 DEF Environment

(* The transport, the page and the queues.                                 *)
(* One draft, or one row, gets another state.                              *)
LEMMA DraftState1 ==
  ASSUME Typed, NEW d \in Drafts, NEW state \in DraftState
  PROVE  [drafts EXCEPT ![d].state = state] \in [Drafts -> DraftRecords]
  BY DEF Typed, DraftRecords

LEMMA RowState1 ==
  ASSUME Typed, NEW r \in Rows, NEW state \in RowState
  PROVE  [outbox EXCEPT ![r].state = state] \in [Rows -> RowRecords]
  BY DEF Typed, RowRecords

LEMMA States ==
  /\ {"pending", "executing", "submitted", "unknown", "canceled", "expired",
      "review_required"} \subseteq DraftState
  /\ {"pending", "sending", "accepted", "failed", "unknown", "canceled"} \subseteq RowState
  BY DEF DraftState, RowState

LEMMA CancelledDrafts ==
  ASSUME Typed
  PROVE  /\ CancelPendingDrafts(drafts) \in [Drafts -> DraftRecords]
         /\ \A d \in Drafts : LET e == CancelPendingDrafts(drafts)[d] IN
              /\ e.by = drafts[d].by /\ e.confirmer = drafts[d].confirmer
              /\ e.state = IF drafts[d].state = "pending" THEN "canceled" ELSE drafts[d].state
<1>1. \A d \in Drafts : drafts[d] \in DraftRecords
  BY DEF Typed, DraftRecords
<1>2. ASSUME NEW d \in Drafts
      PROVE  LET e == IF drafts[d].state = "pending"
                      THEN [drafts[d] EXCEPT !.state = "canceled"] ELSE drafts[d]
             IN  /\ e \in DraftRecords
                 /\ e.by = drafts[d].by /\ e.confirmer = drafts[d].confirmer
                 /\ e.state = IF drafts[d].state = "pending" THEN "canceled"
                              ELSE drafts[d].state
  <2>1. drafts[d] \in DraftRecords
    BY <1>1
  <2> QED
    BY <2>1 DEF DraftRecords, DraftState
<1> HIDE DEF DraftRecords
<1> QED
  BY <1>2 DEF CancelPendingDrafts

LEMMA CancelledRows ==
  ASSUME Typed, NEW rows
  PROVE  /\ CancelRows(rows) \in [Rows -> RowRecords]
         /\ \A r \in Rows : LET e == CancelRows(rows)[r] IN
              /\ e.chat = outbox[r].chat
              /\ e.state = outbox[r].state
                   \/ (outbox[r].state = "pending" /\ e.state = "canceled")
<1>1. ASSUME NEW r \in Rows
      PROVE  LET e == IF r \in rows /\ outbox[r].state = "pending"
                      THEN [outbox[r] EXCEPT !.state = "canceled"] ELSE outbox[r]
             IN  /\ e \in RowRecords
                 /\ e.chat = outbox[r].chat
                 /\ e.state = outbox[r].state
                      \/ (outbox[r].state = "pending" /\ e.state = "canceled")
  <2>1. outbox[r] \in RowRecords
    BY DEF Typed
  <2> QED
    BY <2>1, States DEF RowRecords
<1> HIDE DEF RowRecords
<1> QED
  BY <1>1 DEF CancelRows

LEMMA TypedConnect == ControlInv /\ Connect => Typed'
<1> SUFFICES ASSUME Typed, Connect
             PROVE  Typed'
  BY DEF ControlInv
<1>1. UNCHANGED <<busy, job, world, evidence>>
  BY DEF Connect
<1>2. CASE UNCHANGED <<core, wire, commands, drafts, outbox, outcomes>>
  BY <1>1, <1>2 DEF Typed, core, wire, world, evidence
<1>3. CASE /\ inbox' = [u \in Updates |-> "none"]
           /\ outbox' = [r \in Rows |-> NoRow]
           /\ drafts' = CancelPendingDrafts(drafts)
           /\ operator' = None
           /\ bot' = token /\ epoch' = epoch + 1
  <2>1. drafts' \in [Drafts -> DraftRecords]
    BY <1>3, CancelledDrafts
  <2>2. outbox' \in [Rows -> RowRecords]
    BY <1>3 DEF NoRow, RowState, People, RowRecords
  <2> QED
    BY <1>1, <1>3, <2>1, <2>2 DEF Typed, InboxState, People, world, evidence
<1> QED
  BY <1>2, <1>3 DEF Connect, BindTransport

LEMMA TypedPage ==
  ASSUME ControlInv,
         \/ Poll \/ PollFails \/ DomainReady \/ PairLink \/ Disconnect
         \/ \E c \in Commands : EnqueueCommand(c) \/ CancelCommand(c) \/ RetentionEnds(c)
  PROVE  Typed'
<1> USE DEF ControlInv
<1>1. CASE Poll
  BY <1>1 DEF Poll, Typed, InboxState, core, memory, world, evidence
<1>2. CASE PollFails \/ DomainReady
  BY <1>2 DEF PollFails, DomainReady, Typed, core, wire, world, evidence
<1>3. CASE PairLink
  BY <1>3 DEF PairLink, Typed, wire, memory, evidence
<1>4. CASE Disconnect
  <2>1. drafts' \in [Drafts -> DraftRecords]
    BY <1>4, CancelledDrafts DEF Disconnect
  <2>2. outbox' \in [Rows -> RowRecords]
    BY <1>4 DEF Disconnect, CancelRows, Typed, RowState, RowRecords
  <2> QED
    BY <1>4, <2>1, <2>2 DEF Disconnect, Typed, People, wire, memory, world, evidence
<1>5. ASSUME NEW c \in Commands, EnqueueCommand(c) \/ CancelCommand(c) \/ RetentionEnds(c)
      PROVE  Typed'
  BY <1>5 DEF EnqueueCommand, CancelCommand, RetentionEnds, Typed, core, wire, memory, world,
              evidence
<1> QED
  BY <1>1, <1>2, <1>3, <1>4, <1>5

(* The end of a job, whatever the job was.                                 *)
LEMMA TypedEndJob ==
  ASSUME Typed, NEW outcome, EndJob(outcome)
  PROVE  /\ job' = NoJob
         /\ job' \in [kind : {None, "update", "command"}, id : Updates \cup Commands \cup {None},
                      binding : Bindings, phase : {"idle", "claimed", "model"}, ctx : Nat]
         /\ inbox' \in [Updates -> InboxState]
         /\ \A u \in Updates : inbox'[u] = "pending" => inbox[u] = "pending"
<1>1. job' = NoJob
  BY DEF EndJob
<1>2. job' \in [kind : {None, "update", "command"}, id : Updates \cup Commands \cup {None},
                binding : Bindings, phase : {"idle", "claimed", "model"}, ctx : Nat]
  BY <1>1 DEF NoJob, Bindings
<1>3. inbox' = inbox \/ inbox' = [inbox EXCEPT ![job.id] = "done"]
  BY DEF EndJob
<1>4. inbox' \in [Updates -> InboxState]
  BY <1>3 DEF Typed, InboxState
<1>5. \A u \in Updates : inbox'[u] = "pending" => inbox[u] = "pending"
  BY <1>3 DEF Typed
<1> QED
  BY <1>1, <1>2, <1>4, <1>5

(* Orders, from the claim to the end.                                      *)
LEMMA TypedOrders ==
  ASSUME ControlInv,
         \/ \E c \in Commands : ClaimCommand(c)
         \/ \E u \in Updates : ClaimUpdate(u)
         \/ Pairs \/ Ignore \/ AskModel \/ FinishCommand
  PROVE  Typed'
<1>a. Typed /\ Binding \in Bindings
  BY DEF ControlInv, Typed, Binding, Bindings
<1>1. ASSUME NEW c \in Commands, ClaimCommand(c)
      PROVE  Typed'
  <2>1. job' = job \/ job' = [kind |-> "command", id |-> c, binding |-> Binding,
                              phase |-> "model", ctx |-> context]
    BY <1>1 DEF ClaimCommand
  <2> QED
    BY <1>a, <1>1, <2>1 DEF ClaimCommand, Typed, core, wire, world, evidence
<1>2. ASSUME NEW u \in Updates, ClaimUpdate(u)
      PROVE  Typed'
  BY <1>a, <1>2 DEF ClaimUpdate, Typed, InboxState, core, world, evidence
<1>3. CASE Pairs
  <2>1. job.id \in 1..Len(mail)
    BY <1>3 DEF Pairs, Claimed, ControlInv, JobInv
  <2>2. mail[job.id] \in Letters
    BY <1>a, <2>1 DEF Typed
  <2>3. Letter.from \in Chats
    BY <2>2 DEF Letter, Letters
  <2> QED
    BY <1>a, <1>3, <2>3, TypedEndJob DEF Pairs, Typed, People, world, evidence
<1>4. CASE Ignore
  BY <1>a, <1>4, TypedEndJob DEF Ignore, Typed, core, world, evidence
<1>5. CASE FinishCommand
  BY <1>a, <1>5, TypedEndJob DEF FinishCommand, Typed, core, world, evidence
<1>6. CASE AskModel
  BY <1>a, <1>6 DEF AskModel, Typed, core, wire, world, evidence
<1> QED
  BY <1>1, <1>2, <1>3, <1>4, <1>5, <1>6

(* Reviews, confirmations and the sends they cause.                        *)
LEMMA TypedReviews ==
  ASSUME ControlInv, NEW d \in Drafts,
         PrepareReview(d) \/ HttpCancel(d) \/ CancelByChat(d) \/ Reconcile(d)
  PROVE  Typed'
<1>a. Typed
  BY DEF ControlInv
<1>1. CASE PrepareReview(d)
  <2>1. job.binding[1] \in People
    BY <1>a, <1>1 DEF PrepareReview, MayContinue, Binding, Typed
  <2>2. drafts' \in [Drafts -> DraftRecords]
    BY <1>a, <1>1, <2>1 DEF PrepareReview, Typed, DraftRecords, DraftState, People
  <2>3. outbox' \in [Rows -> RowRecords]
    BY <1>a, <1>1 DEF PrepareReview, Typed, RowRecords, RowState
  <2> QED
    BY <1>a, <1>1, <2>2, <2>3 DEF PrepareReview, Typed, core, wire, memory, world, evidence
<1>2. CASE HttpCancel(d)
  <2>1. drafts' = [drafts EXCEPT ![d].state = "canceled"]
    BY <1>2 DEF HttpCancel, CancelDraft
  <2>2. drafts' \in [Drafts -> DraftRecords]
    BY <1>a, <2>1, DraftState1, States
  <2> QED
    BY <1>a, <1>2, <2>2 DEF HttpCancel, Typed, core, wire, memory, world, evidence
<1>3. CASE CancelByChat(d)
  <2>1. drafts' = [drafts EXCEPT ![d].state = "canceled"]
    BY <1>3 DEF CancelByChat, CancelDraft
  <2>2. drafts' \in [Drafts -> DraftRecords]
    BY <1>a, <2>1, DraftState1, States
  <2> QED
    BY <1>a, <1>3, <2>2, TypedEndJob DEF CancelByChat, Typed, core, world, evidence
<1>4. CASE Reconcile(d)
  <2>1. drafts' = [drafts EXCEPT ![d].state = "submitted"]
    BY <1>4 DEF Reconcile
  <2>2. drafts' \in [Drafts -> DraftRecords]
    BY <1>a, <2>1, DraftState1, States
  <2> QED
    BY <1>a, <1>4, <2>2 DEF Reconcile, Typed, core, wire, memory, world, evidence
<1> QED
  BY <1>1, <1>2, <1>3, <1>4

LEMMA TypedConfirm ==
  ASSUME ControlInv, NEW d \in Drafts, ConfirmByChat(d) \/ HttpConfirm(d)
  PROVE  Typed'
<1>a. Typed
  BY DEF ControlInv
<1>1. ASSUME ConfirmRefuses(d)
      PROVE  drafts' \in [Drafts -> DraftRecords]
  <2>1. CASE UNCHANGED drafts
    BY <1>a, <2>1 DEF Typed
  <2>2. CASE drafts' = [drafts EXCEPT ![d].state = "expired"]
    BY <1>a, <2>2, DraftState1, States
  <2> QED
    BY <1>1, <2>1, <2>2 DEF ConfirmRefuses
<1>2. ASSUME NEW who \in People, ClaimDraft(d, who)
      PROVE  /\ drafts' \in [Drafts -> DraftRecords]
             /\ busy' \in [op : {"idle", "confirm", "confirmed", "deliver", "displayed"},
                           on : Drafts \cup Rows \cup {None}]
  <2>1. drafts' \in [Drafts -> DraftRecords]
    <3>1. "executing" \in DraftState /\ drafts[d] \in DraftRecords
      BY <1>a, States DEF Typed
    <3>2. [drafts[d] EXCEPT !.state = "executing", !.confirmer = who] \in DraftRecords
      BY <3>1 DEF DraftRecords
    <3>3. drafts' = [drafts EXCEPT ![d] = [drafts[d] EXCEPT !.state = "executing",
                                                            !.confirmer = who]]
      BY <1>a, <1>2 DEF ClaimDraft, Typed
    <3> QED
      BY <1>a, <3>2, <3>3 DEF Typed
  <2>2. busy' = [op |-> "confirm", on |-> d]
    BY <1>2 DEF ClaimDraft
  <2> QED
    BY <2>1, <2>2
<1>3. CASE ConfirmByChat(d)
  BY <1>a, <1>1, <1>2, <1>3, TypedEndJob DEF ConfirmByChat, Typed, core, world, evidence
<1>4. CASE HttpConfirm(d)
  BY <1>a, <1>1, <1>2, <1>4 DEF HttpConfirm, Typed, People, core, wire, world, evidence
<1> QED
  BY <1>3, <1>4

LEMMA TypedSends ==
  ASSUME ControlInv, PutProposal \/ Submitted \/ SubmissionUnclear
  PROVE  Typed'
<1>a. Typed
  BY DEF ControlInv
<1>1. CASE PutProposal
  <2>1. busy.on \in Drafts
    BY <1>1 DEF PutProposal, ControlInv, BusyInv
  <2>2. puts' \in [Drafts -> Nat]
    BY <1>a, <1>1, <2>1 DEF PutProposal, Typed
  <2>3. busy' \in [op : {"idle", "confirm", "confirmed", "deliver", "displayed"},
                   on : Drafts \cup Rows \cup {None}]
    BY <1>a, <1>1 DEF PutProposal, Typed
  <2> QED
    BY <1>a, <1>1, <2>2, <2>3 DEF PutProposal, Typed, core, wire, world
<1>2. ASSUME NEW state \in DraftState, AfterConfirm(state)
      PROVE  /\ drafts' \in [Drafts -> DraftRecords]
             /\ busy' \in [op : {"idle", "confirm", "confirmed", "deliver", "displayed"},
                           on : Drafts \cup Rows \cup {None}]
             /\ job' \in [kind : {None, "update", "command"},
                          id : Updates \cup Commands \cup {None}, binding : Bindings,
                          phase : {"idle", "claimed", "model"}, ctx : Nat]
             /\ inbox' \in [Updates -> InboxState]
  <2>1. drafts' \in [Drafts -> DraftRecords]
    BY <1>a, <1>2 DEF AfterConfirm, Typed, DraftRecords
  <2> QED
    BY <1>a, <1>2, <2>1, TypedEndJob DEF AfterConfirm, Typed, Idle
<1>3. CASE Submitted
  BY <1>a, <1>2, <1>3 DEF Submitted, Typed, DraftState, core, world, evidence
<1>4. CASE SubmissionUnclear
  BY <1>a, <1>2, <1>4 DEF SubmissionUnclear, Typed, DraftState, core, evidence
<1> QED
  BY <1>1, <1>3, <1>4

(* The rows of a review, on their way to Telegram.                         *)
LEMMA TypedInvalidate ==
  ASSUME Typed, NEW d \in Drafts, InvalidateReview(d)
  PROVE  drafts' \in [Drafts -> DraftRecords] /\ outbox' \in [Rows -> RowRecords]
<1>1. drafts' \in [Drafts -> DraftRecords]
  <2>1. drafts[d].state \in DraftState
    BY DEF Typed, DraftRecords
  <2> QED
    BY <2>1, States, DraftState1 DEF InvalidateReview
<1>2. outbox' \in [Rows -> RowRecords]
  <2>1. CASE UNCHANGED outbox
    BY <2>1 DEF Typed
  <2>2. CASE outbox' = CancelRows({d} \X (1..Parts))
    BY <2>2, CancelledRows
  <2> QED
    BY <2>1, <2>2 DEF InvalidateReview
<1> QED
  BY <1>1, <1>2

LEMMA RowsAreSent ==
  ASSUME ReviewInv, NEW r \in Rows, outbox[r].state # "none"
  PROVE  outbox[r].chat \in Chats
<1>1. PICK d \in Drafts, n \in 1..Parts : r = <<d, n>>
  BY DEF Rows
<1> QED
  BY <1>1 DEF ReviewInv

LEMMA TypedRows ==
  ASSUME ControlInv,
         \/ \E r \in Rows : WithdrawRow(r) \/ ClaimRow(r)
         \/ \E d \in Drafts : MonitorReview(d)
         \/ Display \/ Accepted \/ RateLimited \/ Rejected \/ DeliveryUnclear
  PROVE  Typed'
<1>a. Typed
  BY DEF ControlInv
<1>1. ASSUME NEW r \in Rows, WithdrawRow(r)
      PROVE  Typed'
  <2>1. r[1] \in Drafts
    BY DEF Rows
  <2>2. CASE InvalidateReview(r[1])
    BY <1>a, <1>1, <2>1, <2>2, TypedInvalidate DEF WithdrawRow, Typed, core, wire, memory, world,
                                                   evidence
  <2>3. CASE outbox' = CancelRows({r}) /\ UNCHANGED drafts
    <3>1. outbox' \in [Rows -> RowRecords]
      BY <1>a, <2>3 DEF CancelRows, Typed, RowRecords, RowState
    <3> QED
      BY <1>a, <1>1, <2>3, <3>1 DEF WithdrawRow, Typed, core, wire, memory, world, evidence
  <2> QED
    BY <1>1, <2>2, <2>3 DEF WithdrawRow
<1>2. ASSUME NEW r \in Rows, ClaimRow(r)
      PROVE  Typed'
  <2>1. outbox' = [outbox EXCEPT ![r].state = "sending", ![r].tries = @ + 1]
    BY <1>2 DEF ClaimRow
  <2>2. outbox' \in [Rows -> RowRecords]
    <3>1. "sending" \in RowState /\ outbox[r] \in RowRecords
      BY <1>a, States DEF Typed
    <3>2. ASSUME NEW n \in Nat
          PROVE  [outbox[r] EXCEPT !.state = "sending", !.tries = n] \in RowRecords
      BY <3>1 DEF RowRecords
    <3>3. outbox' = [outbox EXCEPT ![r] = [outbox[r] EXCEPT !.state = "sending",
                                                            !.tries = outbox[r].tries + 1]]
      BY <1>a, <2>1 DEF Typed
    <3>4. outbox[r].tries + 1 \in Nat
      BY <3>1 DEF RowRecords
    <3> QED
      BY <1>a, <3>2, <3>3, <3>4 DEF Typed
  <2>3. busy' = [op |-> "deliver", on |-> r]
    BY <1>2 DEF ClaimRow
  <2> QED
    BY <1>a, <1>2, <2>2, <2>3 DEF ClaimRow, Typed, core, wire, world, evidence
<1>3. ASSUME NEW d \in Drafts, MonitorReview(d)
      PROVE  Typed'
  BY <1>a, <1>3, TypedInvalidate DEF MonitorReview, Typed, core, wire, memory, world, evidence
<1>4. CASE Display
  <2>1. busy.on \in Rows /\ outbox[busy.on].state = "sending"
    BY <1>4 DEF Display, ControlInv, BusyInv
  <2>2. outbox[busy.on].chat \in Chats
    BY <2>1, RowsAreSent DEF ControlInv
  <2>3. shown' \in [Chats \X Rows -> Nat]
    BY <1>a, <1>4, <2>1, <2>2 DEF Display, Typed
  <2>4. busy' \in [op : {"idle", "confirm", "confirmed", "deliver", "displayed"},
                   on : Drafts \cup Rows \cup {None}]
    BY <1>a, <1>4 DEF Display, Typed
  <2> QED
    BY <1>a, <1>4, <2>3, <2>4 DEF Display, Typed, core, wire, world
<1>5. ASSUME NEW state \in RowState, SettleRow(state)
      PROVE  Typed'
  <2>1. outbox' \in [Rows -> RowRecords]
    BY <1>a, <1>5 DEF SettleRow, Typed, RowRecords
  <2> QED
    BY <1>a, <1>5, <2>1 DEF SettleRow, Typed, Idle, core, wire, evidence
<1>6. CASE Accepted \/ RateLimited \/ Rejected \/ DeliveryUnclear
  BY <1>5, <1>6 DEF Accepted, RateLimited, Rejected, DeliveryUnclear, RowState
<1> QED
  BY <1>1, <1>2, <1>3, <1>4, <1>6

(* A crash, with or without another bot.                                   *)
LEMMA TypedRestart ==
  ASSUME ControlInv, NEW b \in Bots, Restart(b)
  PROVE  Typed'
<1>a. Typed
  BY DEF ControlInv
<1>1. inbox' \in [Updates -> InboxState]
  BY <1>a DEF Restart, AfterCrash, Typed, InboxState
<1>2. drafts' \in [Drafts -> DraftRecords]
  <2>1. ASSUME NEW d \in Drafts
        PROVE  [drafts[d] EXCEPT !.state = AfterCrash(@, "executing", "unknown")] \in DraftRecords
    <3>1. drafts[d] \in DraftRecords
      BY <1>a DEF Typed
    <3> QED
      BY <3>1, States DEF AfterCrash, DraftRecords
  <2> HIDE DEF DraftRecords
  <2> QED
    BY <2>1 DEF Restart
<1>3. outbox' \in [Rows -> RowRecords]
  BY <1>a DEF Restart, AfterCrash, Typed, RowRecords, RowState
<1>4. job' = NoJob /\ busy' = Idle /\ token' = b
  BY DEF Restart
<1> QED
  BY <1>a, <1>1, <1>2, <1>3, <1>4 DEF Restart, Typed, NoJob, Idle, Bindings, core, evidence

LEMMA TypedStep == ControlInv /\ [Next]_vars => Typed'
<1> SUFFICES ASSUME ControlInv, [Next]_vars
             PROVE  Typed'
  OBVIOUS
<1>1. CASE UNCHANGED vars
  BY <1>1 DEF ControlInv, Typed, vars, core, wire, memory, world, evidence
<1> QED
  BY <1>1, TypedEnvironment, TypedConnect, TypedPage, TypedOrders, TypedReviews, TypedConfirm,
     TypedSends, TypedRows, TypedRestart DEF Next, Service

-----------------------------------------------------------------------------
(* What a step does to the reviews: most leave them or end some of them.   *)

DraftFalls(d) ==
    /\ drafts'[d].by = drafts[d].by /\ drafts'[d].confirmer = drafts[d].confirmer
    /\ \/ drafts'[d].state = drafts[d].state
       \/ drafts[d].state # "none" /\ drafts'[d].state \notin {"none", "pending"}

RowFalls(r) ==
    \/ outbox'[r].state = "none"
    \/ /\ outbox'[r].chat = outbox[r].chat
       /\ \/ outbox'[r].state = outbox[r].state
          \/ outbox[r].state # "none" /\ outbox'[r].state # "accepted"

Falls ==
    /\ operator' = operator \/ \A d \in Drafts : drafts'[d].state # "pending"
    /\ UNCHANGED <<shown, puts>>
    /\ \A d \in Drafts : DraftFalls(d)
    /\ \A r \in Rows : RowFalls(r)

(* A draft is claimed for execution; in Telegram by the operator, over a    *)
(* review that was accepted in full.                                       *)
Claims(d, who) ==
    /\ ClaimDraft(d, who)
    /\ UNCHANGED <<operator, outbox, shown, puts>>
    /\ who # None => who = operator /\ RequireTelegramReview(d)

LEMMA QuietFalls ==
  ASSUME UNCHANGED <<operator, drafts, outbox, shown, puts>>
  PROVE  Falls
  BY DEF Falls, DraftFalls, RowFalls

LEMMA DraftEnds ==
  ASSUME Typed, NEW d \in Drafts, drafts[d].state # "none",
         NEW state \in DraftState \ {"none", "pending"},
         drafts' = [drafts EXCEPT ![d].state = state]
  PROVE  \A e \in Drafts : DraftFalls(e)
  BY DEF Typed, DraftRecords, DraftFalls

LEMMA RowEnds ==
  ASSUME Typed, NEW q \in Rows, outbox[q].state # "none",
         NEW state \in RowState \ {"accepted"},
         outbox' = [outbox EXCEPT ![q].state = state]
  PROVE  \A r \in Rows : RowFalls(r)
  BY DEF Typed, RowRecords, RowFalls

LEMMA OrderFalls ==
  ASSUME ControlInv,
         \/ Environment
         \/ Connect \/ Poll \/ PollFails \/ DomainReady \/ PairLink \/ Disconnect
         \/ \E c \in Commands :
              EnqueueCommand(c) \/ CancelCommand(c) \/ ClaimCommand(c) \/ RetentionEnds(c)
         \/ \E u \in Updates : ClaimUpdate(u)
         \/ Pairs \/ Ignore \/ AskModel \/ FinishCommand
  PROVE  Falls
<1>a. Typed /\ ReviewInv
  BY DEF ControlInv
<1>1. CASE \/ ContextChanges \/ \E chat \in Chats, text \in Text : UserWrites(chat, text)
           \/ Poll \/ PollFails \/ DomainReady \/ PairLink
           \/ \E c \in Commands :
                EnqueueCommand(c) \/ CancelCommand(c) \/ ClaimCommand(c) \/ RetentionEnds(c)
           \/ \E u \in Updates : ClaimUpdate(u)
           \/ Ignore \/ AskModel \/ FinishCommand
  <2>1. UNCHANGED <<operator, drafts, outbox, shown, puts>>
    BY <1>1 DEF ContextChanges, UserWrites, Poll, PollFails, DomainReady, PairLink,
          EnqueueCommand, CancelCommand, ClaimCommand, RetentionEnds, ClaimUpdate, Ignore,
          AskModel, FinishCommand, core, evidence
  <2> QED
    BY <2>1, QuietFalls
<1>2. ASSUME NEW d \in Drafts, ReviewAges(d)
      PROVE  Falls
  <2>1. drafts' = [drafts EXCEPT ![d].aged = TRUE] /\ UNCHANGED <<operator, outbox, shown, puts>>
    BY <1>2 DEF ReviewAges, core, evidence
  <2>2. \A e \in Drafts : DraftFalls(e)
    BY <1>a, <2>1 DEF Typed, DraftRecords, DraftFalls
  <2> QED
    BY <2>1, <2>2 DEF Falls, RowFalls
<1>3. CASE Pairs
  <2>1. operator = None /\ UNCHANGED <<drafts, outbox, shown, puts>>
    BY <1>3 DEF Pairs, evidence
  <2>2. \A d \in Drafts : drafts'[d].state # "pending"
    BY <1>a, <2>1 DEF ReviewInv
  <2> QED
    BY <2>1, <2>2 DEF Falls, DraftFalls, RowFalls
<1>4. ASSUME drafts' = CancelPendingDrafts(drafts)
      PROVE  \A d \in Drafts : DraftFalls(d) /\ drafts'[d].state # "pending"
  BY <1>a, <1>4, CancelledDrafts DEF DraftFalls
<1>5. CASE Connect
  <2>1. UNCHANGED <<shown, puts>>
    BY <1>5 DEF Connect, evidence
  <2>2. CASE UNCHANGED <<core, wire, commands, drafts, outbox, outcomes>>
    BY <2>1, <2>2, QuietFalls DEF core
  <2>3. CASE outbox' = [r \in Rows |-> NoRow] /\ drafts' = CancelPendingDrafts(drafts)
    BY <1>4, <2>1, <2>3 DEF Falls, RowFalls, NoRow
  <2> QED
    BY <1>5, <2>2, <2>3 DEF Connect, BindTransport
<1>6. CASE Disconnect
  <2>1. /\ drafts' = CancelPendingDrafts(drafts) /\ outbox' = CancelRows(Rows)
        /\ UNCHANGED <<shown, puts>>
    BY <1>6 DEF Disconnect, evidence
  <2>2. \A r \in Rows : RowFalls(r)
    BY <1>a, <2>1, CancelledRows DEF RowFalls
  <2> QED
    BY <1>4, <2>1, <2>2 DEF Falls
<1> QED
  BY <1>1, <1>2, <1>3, <1>5, <1>6 DEF Environment

LEMMA ConfirmEffects ==
  ASSUME ControlInv, NEW d \in Drafts, ConfirmByChat(d) \/ HttpConfirm(d)
  PROVE  Falls \/ \E who \in People : Claims(d, who)
<1>a. Typed
  BY DEF ControlInv
<1>1. UNCHANGED <<operator, outbox, shown, puts>>
  BY DEF ConfirmByChat, HttpConfirm, core, evidence
<1>2. CASE ConfirmRefuses(d)
  <2>1. CASE UNCHANGED drafts
    BY <1>1, <2>1, QuietFalls
  <2>2. CASE drafts[d].state = "pending" /\ drafts' = [drafts EXCEPT ![d].state = "expired"]
    <3>a. "expired" \in DraftState \ {"none", "pending"}
      BY States
    <3>1. \A e \in Drafts : DraftFalls(e)
      BY <1>a, <2>2, <3>a, DraftEnds
    <3> QED
      BY <1>1, <3>1 DEF Falls, RowFalls
  <2> QED
    BY <1>2, <2>1, <2>2 DEF ConfirmRefuses
<1>3. CASE ConfirmByChat(d) /\ ClaimDraft(d, operator)
  <2>1. RequireTelegramReview(d)
    BY <1>3 DEF ConfirmByChat, Refused
  <2> QED
    BY <1>a, <1>1, <1>3, <2>1 DEF Claims, Typed
<1>4. CASE ClaimDraft(d, None)
  BY <1>1, <1>4 DEF Claims, People
<1> QED
  BY <1>2, <1>3, <1>4 DEF ConfirmByChat, HttpConfirm

LEMMA DraftStepFalls ==
  ASSUME ControlInv,
         \/ \E d \in Drafts : HttpCancel(d) \/ CancelByChat(d) \/ Reconcile(d)
         \/ Submitted \/ SubmissionUnclear
  PROVE  Falls
<1>a. Typed
  BY DEF ControlInv
<1>1. UNCHANGED <<operator, outbox, shown, puts>>
  BY DEF HttpCancel, CancelByChat, Reconcile, Submitted, SubmissionUnclear, core, evidence
<1>2. ASSUME NEW d \in Drafts, drafts[d].state # "none", NEW state \in DraftState,
             state \notin {"none", "pending"}, drafts' = [drafts EXCEPT ![d].state = state]
      PROVE  Falls
  BY <1>a, <1>1, <1>2, DraftEnds DEF Falls, RowFalls
<1>3. ASSUME NEW d \in Drafts, HttpCancel(d) \/ CancelByChat(d)
      PROVE  Falls
  BY <1>2, <1>3, States DEF HttpCancel, CancelByChat, CancelDraft
<1>4. ASSUME NEW d \in Drafts, Reconcile(d)
      PROVE  Falls
  BY <1>2, <1>4, States DEF Reconcile
<1>5. CASE Submitted \/ SubmissionUnclear
  <2>1. busy.on \in Drafts /\ drafts[busy.on].state # "none"
    BY <1>5 DEF Submitted, SubmissionUnclear, ControlInv, BusyInv
  <2>2. \E state \in {"submitted", "unknown"} :
          drafts' = [drafts EXCEPT ![busy.on].state = state]
    BY <1>5 DEF Submitted, SubmissionUnclear, AfterConfirm
  <2> QED
    BY <1>2, <2>1, <2>2, States
<1> QED
  BY <1>3, <1>4, <1>5

LEMMA RowStepFalls ==
  ASSUME ControlInv,
         \/ \E r \in Rows : WithdrawRow(r) \/ ClaimRow(r)
         \/ \E d \in Drafts : MonitorReview(d)
         \/ RateLimited \/ Rejected \/ DeliveryUnclear
  PROVE  Falls
<1>a. Typed
  BY DEF ControlInv
<1>1. UNCHANGED <<operator, shown, puts>>
  BY DEF WithdrawRow, ClaimRow, MonitorReview, RateLimited, Rejected, DeliveryUnclear, SettleRow,
         core, evidence
<1>2. ASSUME NEW rows, outbox' = CancelRows(rows)
      PROVE  \A r \in Rows : RowFalls(r)
  BY <1>a, <1>2, CancelledRows DEF RowFalls
<1>3. ASSUME NEW d \in Drafts, drafts[d].state = "pending", InvalidateReview(d)
      PROVE  Falls
  <2>a. "review_required" \in DraftState \ {"none", "pending"}
    BY States
  <2>b. drafts' = [drafts EXCEPT ![d].state = "review_required"]
    BY <1>a, <1>3 DEF InvalidateReview, Typed
  <2>1. \A e \in Drafts : DraftFalls(e)
    BY <1>a, <1>3, <2>a, <2>b, DraftEnds
  <2> QED
    BY <1>1, <1>2, <1>3, <2>1 DEF InvalidateReview, Falls
<1>4. ASSUME NEW r \in Rows, WithdrawRow(r)
      PROVE  Falls
  <2>1. r[1] \in Drafts
    BY DEF Rows
  <2>2. CASE UNCHANGED drafts /\ outbox' = CancelRows({r})
    BY <1>1, <1>2, <2>2 DEF Falls, DraftFalls
  <2> QED
    BY <1>3, <1>4, <2>1, <2>2 DEF WithdrawRow
<1>5. ASSUME NEW d \in Drafts, MonitorReview(d)
      PROVE  Falls
  BY <1>3, <1>5 DEF MonitorReview
<1>6. ASSUME NEW r \in Rows, ClaimRow(r)
      PROVE  Falls
  <2>1. /\ outbox' = [outbox EXCEPT ![r].state = "sending", ![r].tries = @ + 1]
        /\ outbox[r].state = "pending" /\ UNCHANGED drafts
    BY <1>6 DEF ClaimRow, CanFlush
  <2>2. ASSUME NEW q \in Rows
        PROVE  RowFalls(q)
    BY <1>a, <2>1 DEF RowFalls, Typed, RowRecords
  <2> QED
    BY <1>1, <2>1, <2>2 DEF Falls, DraftFalls
<1>7. CASE RateLimited \/ Rejected \/ DeliveryUnclear
  <2>1. busy.on \in Rows /\ outbox[busy.on].state # "none" /\ UNCHANGED drafts
    BY <1>7 DEF RateLimited, Rejected, DeliveryUnclear, SettleRow, ControlInv, BusyInv
  <2>2. \E state \in {"pending", "failed", "unknown"} :
          outbox' = [outbox EXCEPT ![busy.on].state = state]
    BY <1>7 DEF RateLimited, Rejected, DeliveryUnclear, SettleRow
  <2>3. \A r \in Rows : RowFalls(r)
    BY <1>a, <2>1, <2>2, RowEnds, States
  <2> QED
    BY <1>1, <2>1, <2>3 DEF Falls, DraftFalls
<1> QED
  BY <1>4, <1>5, <1>6, <1>7

LEMMA RestartFalls ==
  ASSUME ControlInv, NEW b \in Bots, Restart(b)
  PROVE  Falls
<1>a. Typed
  BY DEF ControlInv
<1>1. \A d \in Drafts : DraftFalls(d)
  BY <1>a DEF Restart, AfterCrash, Typed, DraftRecords, DraftFalls
<1>2. \A r \in Rows : RowFalls(r)
  BY <1>a DEF Restart, AfterCrash, Typed, RowRecords, RowFalls
<1> QED
  BY <1>1, <1>2 DEF Restart, Falls, core, evidence

LEMMA Effects ==
  ASSUME ControlInv, [Next]_vars
  PROVE  \/ Falls
         \/ \E d \in Drafts : PrepareReview(d)
         \/ \E d \in Drafts, who \in People : Claims(d, who)
         \/ PutProposal \/ Display \/ Accepted
<1>1. CASE UNCHANGED vars
  BY <1>1, QuietFalls DEF vars, core, evidence
<1> QED
  BY <1>1, OrderFalls, ConfirmEffects, DraftStepFalls, RowStepFalls, RestartFalls
     DEF Next, Service

-----------------------------------------------------------------------------
(* The reviews, whatever happens to them.                                  *)

LEMMA ReviewFalls ==
  ASSUME ControlInv, Falls
  PROVE  ReviewInv'
<1>a. Typed /\ ReviewInv
  BY DEF ControlInv
<1>1. ASSUME NEW d \in Drafts
      PROVE  /\ drafts'[d].state = "pending" => operator' # None /\ drafts'[d].by = operator'
             /\ drafts'[d].state \in {"none", "pending"} => puts'[d] = 0
             /\ puts'[d] <= 1
             /\ drafts'[d].confirmer # None =>
                  \A n \in 1..Parts : shown'[<<drafts'[d].confirmer, <<d, n>>>>] > 0
  BY <1>a DEF Falls, DraftFalls, ReviewInv
<1>2. ASSUME NEW d \in Drafts, NEW n \in 1..Parts
      PROVE  /\ outbox'[<<d, n>>].state # "none" =>
                  /\ drafts'[d].state # "none"
                  /\ outbox'[<<d, n>>].chat \in Chats /\ outbox'[<<d, n>>].chat = drafts'[d].by
             /\ outbox'[<<d, n>>].state = "accepted" =>
                  shown'[<<outbox'[<<d, n>>].chat, <<d, n>>>>] > 0
  <2>1. <<d, n>> \in Rows
    BY DEF Rows
  <2>2. RowFalls(<<d, n>>) /\ DraftFalls(d) /\ UNCHANGED shown
    BY <2>1 DEF Falls
  <2> QED
    BY <1>a, <2>2 DEF RowFalls, DraftFalls, ReviewInv
<1> QED
  BY <1>1, <1>2 DEF ReviewInv

(* A review is prepared for the operator of the moment, who asked for it.  *)
LEMMA ReviewPrepared ==
  ASSUME ControlInv, NEW d \in Drafts, PrepareReview(d)
  PROVE  ReviewInv'
<1>a. Typed /\ ReviewInv
  BY DEF ControlInv
<1>1. operator \in Chats /\ operator # None /\ job.binding[1] = operator
  BY ControlAssumption DEF PrepareReview, MayContinue, ModelBack, Binding, ControlInv, JobInv
<1>2. /\ drafts[d].state = "none"
      /\ drafts' = [drafts EXCEPT ![d] = [state |-> "pending", ctx |-> context, aged |-> FALSE,
                                          by |-> operator, confirmer |-> None]]
      /\ UNCHANGED <<operator, shown, puts>>
  BY <1>1 DEF PrepareReview, core, evidence
<1>3. \A r \in Rows :
        \/ outbox'[r] = outbox[r]
        \/ r[1] = d /\ outbox'[r] = [state |-> "pending", chat |-> operator, tries |-> 0]
  BY DEF PrepareReview
<1>4. ASSUME NEW e \in Drafts
      PROVE  /\ drafts'[e].state = "pending" => operator' # None /\ drafts'[e].by = operator'
             /\ drafts'[e].state \in {"none", "pending"} => puts'[e] = 0
             /\ puts'[e] <= 1
             /\ drafts'[e].confirmer # None =>
                  \A n \in 1..Parts : shown'[<<drafts'[e].confirmer, <<e, n>>>>] > 0
  BY <1>a, <1>1, <1>2 DEF ReviewInv, Typed
<1>5. ASSUME NEW e \in Drafts, NEW n \in 1..Parts
      PROVE  /\ outbox'[<<e, n>>].state # "none" =>
                  /\ drafts'[e].state # "none"
                  /\ outbox'[<<e, n>>].chat \in Chats /\ outbox'[<<e, n>>].chat = drafts'[e].by
             /\ outbox'[<<e, n>>].state = "accepted" =>
                  shown'[<<outbox'[<<e, n>>].chat, <<e, n>>>>] > 0
  <2>1. <<e, n>> \in Rows
    BY DEF Rows
  <2>2. CASE outbox'[<<e, n>>] = outbox[<<e, n>>]
    BY <1>a, <1>2, <2>2 DEF ReviewInv, Typed
  <2>3. CASE e = d /\ outbox'[<<e, n>>] = [state |-> "pending", chat |-> operator, tries |-> 0]
    BY <1>a, <1>1, <1>2, <2>3 DEF Typed
  <2> QED
    BY <1>3, <2>1, <2>2, <2>3
<1> QED
  BY <1>4, <1>5 DEF ReviewInv

(* Whoever claims a draft in Telegram is whom its rows were shown to.      *)
LEMMA ReviewClaimed ==
  ASSUME ControlInv, NEW d \in Drafts, NEW who \in People, Claims(d, who)
  PROVE  ReviewInv'
<1>a. Typed /\ ReviewInv
  BY DEF ControlInv
<1>1. /\ drafts[d].state = "pending"
      /\ drafts' = [drafts EXCEPT ![d].state = "executing", ![d].confirmer = who]
      /\ UNCHANGED <<operator, outbox, shown, puts>>
  BY DEF Claims, ClaimDraft
<1>2. /\ drafts'[d].state = "executing" /\ drafts'[d].by = drafts[d].by
      /\ drafts'[d].confirmer = who
      /\ \A e \in Drafts \ {d} : drafts'[e] = drafts[e]
  BY <1>a, <1>1 DEF Typed, DraftRecords
<1>3. ASSUME who # None, NEW n \in 1..Parts
      PROVE  shown[<<who, <<d, n>>>>] > 0
  <2>1. who = operator /\ drafts[d].by = operator
    BY <1>a, <1>1, <1>3 DEF Claims, ReviewInv
  <2>2. outbox[<<d, n>>].state = "accepted"
    BY <1>3 DEF Claims, RequireTelegramReview
  <2> QED
    BY <1>a, <2>1, <2>2 DEF ReviewInv
<1>4. ASSUME NEW e \in Drafts
      PROVE  /\ drafts'[e].state = "pending" => operator' # None /\ drafts'[e].by = operator'
             /\ drafts'[e].state \in {"none", "pending"} => puts'[e] = 0
             /\ puts'[e] <= 1
             /\ drafts'[e].confirmer # None =>
                  \A n \in 1..Parts : shown'[<<drafts'[e].confirmer, <<e, n>>>>] > 0
  <2>1. CASE e = d
    BY <1>a, <1>1, <1>2, <1>3, <2>1 DEF ReviewInv
  <2>2. CASE e # d
    <3>1. /\ drafts'[e] = drafts[e] /\ operator' = operator
          /\ shown' = shown /\ puts' = puts
      BY <1>1, <1>2, <2>2
    <3> QED
      BY <1>a, <3>1 DEF ReviewInv
  <2> QED
    BY <2>1, <2>2
<1>5. ASSUME NEW e \in Drafts, NEW n \in 1..Parts
      PROVE  /\ outbox'[<<e, n>>].state # "none" =>
                  /\ drafts'[e].state # "none"
                  /\ outbox'[<<e, n>>].chat \in Chats /\ outbox'[<<e, n>>].chat = drafts'[e].by
             /\ outbox'[<<e, n>>].state = "accepted" =>
                  shown'[<<outbox'[<<e, n>>].chat, <<e, n>>>>] > 0
  <2>1. /\ outbox' = outbox /\ shown' = shown /\ drafts'[e].by = drafts[e].by
        /\ drafts'[e].state \in {drafts[e].state, "executing"}
    BY <1>1, <1>2
  <2> QED
    BY <1>a, <2>1 DEF ReviewInv
<1> QED
  BY <1>4, <1>5 DEF ReviewInv

(* The proposal of an executing draft is put for the first time.           *)
LEMMA ReviewPut ==
  ASSUME ControlInv, PutProposal
  PROVE  ReviewInv'
<1>a. Typed /\ ReviewInv /\ BusyInv
  BY DEF ControlInv
<1>1. /\ busy.on \in Drafts /\ drafts[busy.on].state = "executing" /\ puts[busy.on] = 0
      /\ puts' = [puts EXCEPT ![busy.on] = @ + 1]
      /\ UNCHANGED <<operator, drafts, outbox, shown>>
  BY <1>a DEF PutProposal, BusyInv, core
<1>2. \A d \in Drafts : puts'[d] = IF d = busy.on THEN 1 ELSE puts[d]
  BY <1>a, <1>1 DEF Typed
<1>4. ASSUME NEW e \in Drafts
      PROVE  /\ drafts'[e].state = "pending" => operator' # None /\ drafts'[e].by = operator'
             /\ drafts'[e].state \in {"none", "pending"} => puts'[e] = 0
             /\ puts'[e] <= 1
             /\ drafts'[e].confirmer # None =>
                  \A n \in 1..Parts : shown'[<<drafts'[e].confirmer, <<e, n>>>>] > 0
  BY <1>a, <1>1, <1>2 DEF ReviewInv
<1>5. ASSUME NEW e \in Drafts, NEW n \in 1..Parts
      PROVE  /\ outbox'[<<e, n>>].state # "none" =>
                  /\ drafts'[e].state # "none"
                  /\ outbox'[<<e, n>>].chat \in Chats /\ outbox'[<<e, n>>].chat = drafts'[e].by
             /\ outbox'[<<e, n>>].state = "accepted" =>
                  shown'[<<outbox'[<<e, n>>].chat, <<e, n>>>>] > 0
  BY <1>a, <1>1 DEF ReviewInv
<1> QED
  BY <1>4, <1>5 DEF ReviewInv

(* What was displayed stays displayed.                                     *)
LEMMA ReviewDisplayed ==
  ASSUME ControlInv, Display
  PROVE  /\ ReviewInv'
         /\ shown'[<<outbox[busy.on].chat, busy.on>>] > 0
         /\ busy.on \in Rows /\ UNCHANGED outbox
<1>a. Typed /\ ReviewInv /\ BusyInv
  BY DEF ControlInv
<1>1. /\ busy.on \in Rows /\ outbox[busy.on].state = "sending"
      /\ UNCHANGED <<operator, drafts, outbox, puts>>
  BY <1>a DEF Display, BusyInv, core
<1> DEFINE place == <<outbox[busy.on].chat, busy.on>>
<1>2. place \in Chats \X Rows /\ shown' = [shown EXCEPT ![place] = @ + 1]
  BY <1>a, <1>1, RowsAreSent DEF Display
<1>3. \A p \in Chats \X Rows : shown[p] > 0 => shown'[p] > 0
  BY <1>a, <1>2 DEF Typed
<1>4. shown'[place] > 0
  BY <1>a, <1>2 DEF Typed
<1>5. ASSUME NEW d \in Drafts, NEW n \in 1..Parts, NEW c \in Chats, shown[<<c, <<d, n>>>>] > 0
      PROVE  shown'[<<c, <<d, n>>>>] > 0
  BY <1>3, <1>5 DEF Rows
<1>6. \A d \in Drafts : drafts[d].confirmer # None => drafts[d].confirmer \in Chats
  BY <1>a DEF Typed, DraftRecords, People
<1> QED
  BY <1>a, <1>1, <1>4, <1>5, <1>6 DEF ReviewInv

(* A row is accepted after it was displayed.                               *)
LEMMA ReviewAccepted ==
  ASSUME ControlInv, Accepted
  PROVE  ReviewInv'
<1>a. Typed /\ ReviewInv /\ BusyInv
  BY DEF ControlInv
<1>1. /\ busy.on \in Rows /\ outbox[busy.on].state = "sending"
      /\ shown[<<outbox[busy.on].chat, busy.on>>] > 0
      /\ outbox' = [outbox EXCEPT ![busy.on].state = "accepted"]
      /\ UNCHANGED <<operator, drafts, shown, puts>>
  BY <1>a DEF Accepted, SettleRow, BusyInv, core, evidence
<1>2. \A r \in Rows : /\ outbox'[r].chat = outbox[r].chat
                      /\ r # busy.on => outbox'[r] = outbox[r]
  BY <1>a, <1>1 DEF Typed, RowRecords
<1>3. ASSUME NEW d \in Drafts, NEW n \in 1..Parts
      PROVE  /\ outbox'[<<d, n>>].state # "none" =>
                  /\ drafts[d].state # "none"
                  /\ outbox'[<<d, n>>].chat \in Chats /\ outbox'[<<d, n>>].chat = drafts[d].by
             /\ outbox'[<<d, n>>].state = "accepted" =>
                  shown[<<outbox'[<<d, n>>].chat, <<d, n>>>>] > 0
  <2>1. <<d, n>> \in Rows
    BY DEF Rows
  <2> QED
    BY <1>a, <1>1, <1>2, <2>1 DEF ReviewInv
<1> QED
  BY <1>a, <1>1, <1>3 DEF ReviewInv

LEMMA ReviewStep == ControlInv /\ [Next]_vars => ReviewInv'
  BY Effects, ReviewFalls, ReviewPrepared, ReviewClaimed, ReviewPut, ReviewDisplayed,
     ReviewAccepted

-----------------------------------------------------------------------------
(* The lease: what an external call and a claimed letter rely on.          *)

(* Only the steps that begin a call make the process busy; while it is, no  *)
(* other step touches what it works on.                                    *)
LEMMA BusyStep == ControlInv /\ [Next]_vars => BusyInv'
<1> SUFFICES ASSUME ControlInv, [Next]_vars
             PROVE  BusyInv'
  OBVIOUS
<1>a. Typed /\ BusyInv /\ ReviewInv
  BY DEF ControlInv
<1>1. ASSUME busy' = Idle
      PROVE  BusyInv'
  BY <1>1 DEF BusyInv, Idle
<1>2. ASSUME UNCHANGED <<busy, outbox, shown, puts>>,
             \A d \in Drafts : drafts'[d].state = drafts[d].state
      PROVE  BusyInv'
  BY <1>a, <1>2 DEF BusyInv
<1>3. ASSUME NEW d \in Drafts, NEW who \in People, ClaimDraft(d, who), UNCHANGED puts
      PROVE  BusyInv'
  <2>1. busy' = [op |-> "confirm", on |-> d] /\ drafts[d].state = "pending"
    BY <1>3 DEF ClaimDraft
  <2>2. drafts'[d].state = "executing"
    BY <1>a, <1>3 DEF ClaimDraft, Typed, DraftRecords
  <2>3. puts'[d] = 0
    BY <1>a, <1>3, <2>1 DEF ReviewInv
  <2> QED
    BY <2>1, <2>2, <2>3 DEF BusyInv
<1>4. CASE Environment
  <2>1. UNCHANGED <<busy, outbox, shown, puts>>
    BY <1>4 DEF Environment, UserWrites, ContextChanges, ReviewAges, memory, evidence
  <2>2. \A d \in Drafts : drafts'[d].state = drafts[d].state
    <3>1. drafts' = drafts \/ \E e \in Drafts : drafts' = [drafts EXCEPT ![e].aged = TRUE]
      BY <1>4 DEF Environment, UserWrites, ContextChanges, ReviewAges
    <3>2. ASSUME NEW e \in Drafts, NEW d \in Drafts, drafts' = [drafts EXCEPT ![e].aged = TRUE]
          PROVE  drafts'[d].state = drafts[d].state
      BY <1>a, <3>2 DEF Typed, DraftRecords
    <3> QED
      BY <3>1, <3>2
  <2> QED
    BY <1>2, <2>1, <2>2
<1>5. CASE \/ Poll \/ PollFails
           \/ \E c \in Commands : EnqueueCommand(c) \/ CancelCommand(c)
  BY <1>2, <1>5 DEF Poll, PollFails, EnqueueCommand, CancelCommand, memory, evidence
<1>6. CASE \/ Connect \/ DomainReady \/ PairLink \/ Disconnect
           \/ \E c \in Commands : ClaimCommand(c) \/ RetentionEnds(c)
           \/ \E u \in Updates : ClaimUpdate(u)
           \/ Pairs \/ Ignore \/ AskModel \/ FinishCommand
           \/ \E d \in Drafts : HttpCancel(d) \/ CancelByChat(d) \/ PrepareReview(d)
                                  \/ Reconcile(d) \/ MonitorReview(d)
           \/ \E r \in Rows : WithdrawRow(r)
  <2>1. busy = Idle /\ busy' = busy
    BY <1>6 DEF Connect, DomainReady, PairLink, Disconnect, ClaimCommand, RetentionEnds,
          ClaimUpdate, Pairs, Ignore, AskModel, FinishCommand, HttpCancel, CancelByChat,
          PrepareReview, Reconcile, MonitorReview, WithdrawRow, CanTakeWork, LeaseFree, Claimed,
          ModelBack, MayContinue, CanFlush, memory
  <2> QED
    BY <1>1, <2>1
<1>7. CASE \/ Submitted \/ SubmissionUnclear \/ Accepted \/ RateLimited \/ Rejected
           \/ DeliveryUnclear \/ \E b \in Bots : Restart(b)
  BY <1>1, <1>7 DEF Submitted, SubmissionUnclear, AfterConfirm, Accepted, RateLimited, Rejected,
                    DeliveryUnclear, SettleRow, Restart
<1>8. ASSUME NEW d \in Drafts, ConfirmByChat(d) \/ HttpConfirm(d)
      PROVE  BusyInv'
  <2>1. operator \in People /\ None \in People /\ UNCHANGED puts
    BY <1>a, <1>8 DEF Typed, People, ConfirmByChat, HttpConfirm, evidence
  <2>2. \/ busy = Idle /\ busy' = busy
        \/ ClaimDraft(d, operator) \/ ClaimDraft(d, None)
    BY <1>8 DEF ConfirmByChat, HttpConfirm, Claimed, LeaseFree
  <2> QED
    BY <1>1, <1>3, <2>1, <2>2
<1>9. CASE PutProposal
  <2>1. busy' = [busy EXCEPT !.op = "confirmed"] /\ busy.op = "confirm" /\ UNCHANGED drafts
    BY <1>9 DEF PutProposal
  <2>2. busy'.op = "confirmed" /\ busy'.on = busy.on
    BY <1>a, <2>1 DEF Typed
  <2> QED
    BY <1>a, <2>1, <2>2 DEF BusyInv
<1>10. ASSUME NEW r \in Rows, ClaimRow(r)
       PROVE  BusyInv'
  <2>1. busy' = [op |-> "deliver", on |-> r]
    BY <1>10 DEF ClaimRow
  <2>2. outbox'[r].state = "sending"
    BY <1>a, <1>10 DEF ClaimRow, Typed, RowRecords
  <2> QED
    BY <2>1, <2>2 DEF BusyInv
<1>11. CASE Display
  <2>1. busy' = [busy EXCEPT !.op = "displayed"] /\ busy.op = "deliver"
    BY <1>11 DEF Display
  <2>2. busy'.op = "displayed" /\ busy'.on = busy.on
    BY <1>a, <2>1 DEF Typed
  <2> QED
    BY <1>a, <1>11, <2>1, <2>2, ReviewDisplayed DEF BusyInv
<1>12. CASE UNCHANGED vars
  BY <1>2, <1>12 DEF vars, memory, evidence
<1> QED
  BY <1>4, <1>5, <1>6, <1>7, <1>8, <1>9, <1>10, <1>11, <1>12 DEF Next, Service

(* Letters only come; a job begins under the binding of its moment and     *)
(* ends with the lease it held.                                            *)
LEMMA JobStep == ControlInv /\ [Next]_vars => JobInv'
<1> SUFFICES ASSUME ControlInv, [Next]_vars
             PROVE  JobInv'
  OBVIOUS
<1>a. Typed /\ JobInv
  BY DEF ControlInv
<1>1. ASSUME UNCHANGED mail, job' = NoJob,
             \A u \in Updates : inbox'[u] = "pending" => inbox[u] = "pending"
      PROVE  JobInv'
  BY <1>a, <1>1 DEF JobInv, NoJob
<1>2. ASSUME UNCHANGED <<job, mail>>, UNCHANGED <<operator, bot, epoch>> \/ job.phase # "claimed",
             \A u \in Updates : inbox'[u] = "pending" => inbox[u] = "pending"
      PROVE  JobInv'
  BY <1>a, <1>2 DEF JobInv, Binding
<1>3. ASSUME NEW outcome, EndJob(outcome), UNCHANGED mail
      PROVE  JobInv'
  BY <1>a, <1>1, <1>3, TypedEndJob
<1>4. CASE Environment
  <2>1. UNCHANGED <<job, inbox, operator, bot, epoch>>
    BY <1>4 DEF Environment, UserWrites, ContextChanges, ReviewAges, core, wire, memory
  <2>2. Len(mail) \in Nat /\ Len(mail') \in Nat /\ Len(mail) <= Len(mail')
    <3>1. mail' = mail \/ \E l : mail' = Append(mail, l)
      BY <1>4 DEF Environment, UserWrites, ContextChanges, ReviewAges, world
    <3> QED
      BY <1>a, <3>1 DEF Typed
  <2> QED
    BY <1>a, <2>1, <2>2 DEF JobInv, Binding
<1>5. CASE Poll
  <2>1. UNCHANGED <<job, mail, operator, bot, epoch>>
    BY <1>5 DEF Poll, core, memory, world
  <2>2. \A u \in Updates : inbox'[u] = "pending" => inbox[u] = "pending" \/ u \in 1..Len(mail)
    BY <1>a, <1>5 DEF Poll, Typed, Updates
  <2> QED
    BY <1>a, <2>1, <2>2 DEF JobInv, Binding
<1>6. CASE \/ PollFails \/ DomainReady \/ PairLink
           \/ \E c \in Commands : EnqueueCommand(c) \/ CancelCommand(c) \/ RetentionEnds(c)
           \/ \E d \in Drafts : HttpCancel(d) \/ PrepareReview(d) \/ HttpConfirm(d)
                                  \/ Reconcile(d) \/ MonitorReview(d)
           \/ PutProposal
           \/ \E r \in Rows : WithdrawRow(r) \/ ClaimRow(r)
           \/ Display \/ Accepted \/ RateLimited \/ Rejected \/ DeliveryUnclear
           \/ UNCHANGED vars
  <2>1. UNCHANGED <<job, mail, operator, bot, epoch, inbox>>
    BY <1>6 DEF PollFails, DomainReady, PairLink, EnqueueCommand, CancelCommand, RetentionEnds,
          HttpCancel, PrepareReview, HttpConfirm, Reconcile, MonitorReview, PutProposal,
          WithdrawRow, ClaimRow, Display, Accepted, RateLimited, Rejected, DeliveryUnclear,
          SettleRow, core, wire, memory, world, vars
  <2> QED
    BY <1>2, <2>1
<1>7. CASE Connect \/ Disconnect
  <2>1. job.phase # "claimed" /\ UNCHANGED <<job, mail>>
    BY <1>7 DEF Connect, Disconnect, LeaseFree, memory, world
  <2>2. \A u \in Updates : inbox'[u] = "pending" => inbox[u] = "pending"
    BY <1>7 DEF Connect, BindTransport, Disconnect, wire
  <2> QED
    BY <1>2, <2>1, <2>2
<1>8. ASSUME NEW c \in Commands, ClaimCommand(c)
      PROVE  JobInv'
  <2>1. UNCHANGED <<mail, operator, bot, epoch, inbox>>
    BY <1>8 DEF ClaimCommand, core, wire, world
  <2>2. CASE job' = job
    BY <1>2, <2>1, <2>2
  <2>3. CASE /\ operator # None
             /\ job' = [kind |-> "command", id |-> c, binding |-> Binding,
                        phase |-> "model", ctx |-> context]
    BY <1>a, <2>1, <2>3 DEF JobInv, Typed, People, Binding
  <2> QED
    BY <1>8, <2>2, <2>3 DEF ClaimCommand
<1>9. ASSUME NEW u \in Updates, ClaimUpdate(u)
      PROVE  JobInv'
  <2>1. /\ UNCHANGED <<mail, operator, bot, epoch>> /\ inbox[u] = "pending"
        /\ inbox' = [inbox EXCEPT ![u] = "processing"]
        /\ job' = [kind |-> "update", id |-> u, binding |-> Binding, phase |-> "claimed",
                   ctx |-> 0]
    BY <1>9 DEF ClaimUpdate, core, world
  <2>2. \A v \in Updates : inbox'[v] = "pending" => inbox[v] = "pending"
    BY <1>a, <2>1 DEF Typed
  <2> QED
    BY <1>a, <2>1, <2>2 DEF JobInv, Binding
<1>10. CASE Pairs \/ Ignore \/ FinishCommand
  BY <1>3, <1>10 DEF Pairs, Ignore, FinishCommand, world
<1>11. CASE AskModel
  <2>1. /\ job' = [job EXCEPT !.phase = "model", !.ctx = context]
        /\ job.phase = "claimed" /\ operator # None
        /\ UNCHANGED <<mail, operator, bot, epoch, inbox>>
    BY <1>11 DEF AskModel, Claimed, Refused, core, wire, world
  <2>2. job'.phase = "model" /\ job'.binding = job.binding
    BY <1>a, <2>1 DEF Typed
  <2>3. job.binding[1] \in Chats
    BY <1>a, <2>1 DEF JobInv, Binding, Typed, People
  <2> QED
    BY <1>a, <2>1, <2>2, <2>3 DEF JobInv
<1>12. ASSUME NEW d \in Drafts, CancelByChat(d) \/ ConfirmByChat(d)
       PROVE  JobInv'
  <2>1. UNCHANGED <<mail, operator, bot, epoch>>
    BY <1>12 DEF CancelByChat, ConfirmByChat, core, world
  <2>2. EndJob("processed") \/ UNCHANGED <<job, inbox>>
    BY <1>12 DEF CancelByChat, ConfirmByChat
  <2> QED
    BY <1>2, <1>3, <2>1, <2>2
<1>13. CASE Submitted \/ SubmissionUnclear
  <2>1. UNCHANGED <<mail, operator, bot, epoch>>
    BY <1>13 DEF Submitted, SubmissionUnclear, core, world
  <2>2. EndJob("processed") \/ UNCHANGED <<job, inbox>>
    BY <1>13 DEF Submitted, SubmissionUnclear, AfterConfirm
  <2> QED
    BY <1>2, <1>3, <2>1, <2>2
<1>14. ASSUME NEW b \in Bots, Restart(b)
       PROVE  JobInv'
  <2>1. job' = NoJob /\ UNCHANGED mail
    BY <1>14 DEF Restart
  <2>2. \A u \in Updates : inbox'[u] = "pending" => inbox[u] = "pending"
    BY <1>a, <1>14 DEF Restart, AfterCrash, Typed
  <2> QED
    BY <1>1, <2>1, <2>2
<1> QED
  BY <1>4, <1>5, <1>6, <1>7, <1>8, <1>9, <1>10, <1>11, <1>12, <1>13, <1>14 DEF Next, Service

LEMMA ControlStep == ControlInv /\ [Next]_vars => ControlInv'
  BY TypedStep, JobStep, BusyStep, ReviewStep DEF ControlInv

-----------------------------------------------------------------------------
(* A confirmed draft reaches the sending account at most once, however     *)
(* often it is confirmed and wherever the service crashes                  *)
(* (control-core.mjs confirm, executeSend).                                *)
THEOREM ConfirmedOnce == Spec => []SubmittedOnce
<1>1. ControlInv => SubmittedOnce
  BY DEF ControlInv, ReviewInv, SubmittedOnce
<1> QED
  BY <1>1, ControlAtFirst, ControlStep, PTL DEF Spec

(* Whoever confirms in Telegram was shown the whole review in that chat    *)
(* (control-core.mjs requireTelegramReview).                               *)
THEOREM SeenBeforeConfirmed == Spec => []ConfirmerSawReview
<1>1. ControlInv => ConfirmerSawReview
  BY DEF ControlInv, ReviewInv, ConfirmerSawReview
<1> QED
  BY <1>1, ControlAtFirst, ControlStep, PTL DEF Spec

(* What can be confirmed belongs to the operator of the moment, though the *)
(* model is awaited without the lease (control-core.mjs command).          *)
THEOREM PendingStaysOurs == Spec => []PendingIsOperators
<1>1. ControlInv => PendingIsOperators
  BY DEF ControlInv, ReviewInv, PendingIsOperators
<1> QED
  BY <1>1, ControlAtFirst, ControlStep, PTL DEF Spec
=============================================================================
