------------------------- MODULE NotificationRouting -------------------------
(* How the control process tells the manager of a message or a due reminder:
   ControlCore.monitor observes it, NotificationRouting (src/master/
   notification-routing.mjs) decides per list which channel it takes, the
   adapters hand it to the Telegram outbox or to the browser push service, and
   flush sends what is in the outbox, several alerts in one message if a digest
   is due.

   The monitor is one sequential pass (refresh, page, drain one event, flush)
   under the control process's lease, so only the environment interleaves with
   it: people edit lists on another page, the push service works on its own, an
   answer is lost, the process crashes.  Everything but `pass` and `known` is
   durable.  Abstracted: schedules and digest windows (any set of waiting alerts
   may be due together), texts, and the drain's limit (one event a pass). *)
EXTENDS Naturals, FiniteSets

CONSTANTS
    None,         \* no channel, no cursor
    Lists,        \* monitoring lists that watch the conversation
    Edited,       \* the lists that people edit meanwhile
    MaxEvents,    \* bound: messages that arrive, numbered in order
    Modes,        \* settings a list can have, besides being off
    FirstMode,    \* the setting of every list at first
    MaxEdits,     \* bound: edits of lists and of the operator's connection
    MaxFaults     \* bound: crashes, lost answers, rejections, stale verifications

Channels == {"browser", "telegram"}
Off == [channels |-> {}, primary |-> None, fallback |-> FALSE]

ASSUME RoutingAssumption ==
    /\ Edited \subseteq Lists
    /\ {MaxEvents, MaxEdits, MaxFaults} \subseteq Nat
    /\ Modes \subseteq [channels : (SUBSET Channels) \ {{}}, primary : Channels \cup {None},
                        fallback : BOOLEAN]
    /\ \A m \in Modes : /\ m.primary # None => m.primary \in m.channels
                        /\ m.fallback => m.primary # None /\ m.channels = Channels
    /\ FirstMode \in Modes

VARIABLES
    policy,     \* the lists as stored in the workspace: revision and mode
    known,      \* process memory: the lists at the last refresh
    timeline,   \* messages that arrived so far
    alive,      \* per message: still there and still shared
    cursor,     \* cursors row: the last message the monitor has gone past, or None
    routes,     \* notification_route_rules rows
    attempt,    \* notification_route_attempts rows
    outbox,     \* outbox row (or its retired outcome) of the alert
    service,    \* what the push service records
    progress,   \* notification_route_progress: the event visited last
    operator,   \* kv operator: a Telegram chat is connected
    fresh,      \* the accounts' evidence is fresh enough to verify a reminder
    pass,       \* process memory: where the monitor is
    edits, faults,
    shown       \* per message and channel: how often the manager saw it

durable == <<cursor, routes, attempt, outbox, progress>>
environment == <<policy, timeline, alive, service, operator, fresh, edits, faults, shown>>
vars == <<policy, known, timeline, alive, cursor, routes, attempt, outbox, service, progress,
          operator, fresh, pass, edits, faults, shown>>

Events == 1..MaxEvents
AttemptState ==
    {"none", "enqueueing", "pending", "in_flight", "unknown", "accepted", "failed", "expired",
     "unavailable", "canceled"}
TerminalFailure == {"failed", "expired", "unavailable"}
Finished == TerminalFailure \cup {"accepted", "canceled"}
Resting == [at |-> "idle", event |-> 0, step |-> 0, todo |-> {}, channel |-> None]

Other(c) == CHOOSE d \in Channels : d # c
Fault == faults < MaxFaults /\ faults' = faults + 1

-----------------------------------------------------------------------------
(* Rules, plans and outcomes. *)

\* plan: the rule is still exactly the one the event was observed under.
Unchanged(e, l) ==
    /\ alive[e]
    /\ policy[l].rev = routes[e][l].rev /\ policy[l].mode = routes[e][l].mode

\* A plan that forgets that a fallback already went out.
MutChosen(e, r) ==
    IF /\ r.mode.fallback /\ r.chosen = r.mode.primary
       /\ attempt[e][r.chosen] \in TerminalFailure \cup {"unknown"}
    THEN Other(r.chosen) ELSE r.chosen

\* plan: a rule with a fallback switches to it on an explicit failure only.
Chosen(e, r) ==
    IF /\ r.mode.fallback /\ r.chosen = r.mode.primary
       /\ attempt[e][r.chosen] \in TerminalFailure
    THEN Other(r.chosen) ELSE r.chosen

Wanted(e, r) == IF r.mode.primary = None THEN r.mode.channels ELSE {Chosen(e, r)}

\* plan, for one rule: canceled, put off, settled or still wanting its channels.
PlanRule(e, l) ==
    LET r == routes[e][l] IN
    IF r.state # "active" THEN r
    ELSE IF ~Unchanged(e, l) THEN [r EXCEPT !.state = "canceled"]
    ELSE IF ~fresh THEN r
    ELSE [r EXCEPT !.chosen = Chosen(e, r),
                   !.state = IF \A c \in Wanted(e, r) : attempt[e][c] \in Finished
                             THEN "settled" ELSE "active"]

Plan(e) == [routes EXCEPT ![e] = [l \in Lists |-> PlanRule(e, l)]]

\* The lists a channel would serve: an attempt that exists is never made again.
Served(e, c) ==
    {l \in Lists : /\ fresh /\ PlanRule(e, l).state = "active"
                   /\ c \in Wanted(e, routes[e][l]) /\ attempt[e][c] = "none"}

Jobs(e) == {c \in Channels : Served(e, c) # {}}

\* reconcile: no evidence changes nothing, acceptance is final, and a failure or a
\* withdrawal yields only to acceptance.
Reconciled(old, state) ==
    IF \/ state = "missing"
       \/ old = "accepted"
       \/ old \in TerminalFailure \cup {"canceled"} /\ state # "accepted"
    THEN old ELSE state

\* What the adapters find out about an alert.
TelegramOutcome(e) == IF outbox[e].state = "sending" THEN "in_flight" ELSE outbox[e].state
Outcome(e, c) == IF c = "telegram" THEN TelegramOutcome(e) ELSE service[e]

\* alertRules: the lists whose present setting lets this alert go to Telegram.
AlertAllowed(e, lists) ==
    /\ alive[e]
    /\ \E l \in lists : /\ known[l].rev = routes[e][l].rev
                        /\ "telegram" \in known[l].mode.channels

-----------------------------------------------------------------------------
(* The environment. *)

\* The manager edits a list on the master's page: every edit makes a new revision.
EditList(l, mode) ==
    /\ edits < MaxEdits /\ edits' = edits + 1
    /\ policy' = [policy EXCEPT ![l] = [rev |-> @.rev + 1, mode |-> mode]]
    /\ UNCHANGED <<durable, known, timeline, alive, service, operator, fresh, pass, faults, shown>>

\* disconnect (waiting alerts are canceled) and a new pairing.
SwitchOperator ==
    /\ pass = Resting /\ edits < MaxEdits /\ edits' = edits + 1
    /\ operator' = ~operator
    /\ outbox' = [e \in Events |-> IF outbox[e].state = "pending"
                                   THEN [outbox[e] EXCEPT !.state = "canceled"] ELSE outbox[e]]
    /\ UNCHANGED <<policy, known, timeline, alive, cursor, routes, attempt, service, progress,
                   fresh, pass, faults, shown>>

MessageArrives ==
    /\ timeline < MaxEvents
    /\ timeline' = timeline + 1
    /\ UNCHANGED <<durable, policy, known, alive, service, operator, fresh, pass, edits, faults,
                   shown>>

\* The message is removed, or its conversation is no longer shared.
MessageGone(e) ==
    /\ e <= timeline /\ alive[e] /\ edits < MaxEdits /\ edits' = edits + 1
    /\ alive' = [alive EXCEPT ![e] = FALSE]
    /\ UNCHANGED <<durable, policy, known, timeline, service, operator, fresh, pass, faults, shown>>

\* An account stops or starts publishing: reminders wait for fresh evidence.
Stale ==
    /\ fresh /\ Fault /\ fresh' = FALSE
    /\ UNCHANGED <<durable, policy, known, timeline, alive, service, operator, pass, edits, shown>>

FreshAgain ==
    /\ ~fresh /\ fresh' = TRUE
    /\ UNCHANGED <<durable, policy, known, timeline, alive, service, operator, pass, edits, faults,
                   shown>>

\* The push service hands a waiting notification to the vendor, and learns how it
\* went: shown, refused without being shown, or no answer after either.
Push(e, state, seen) ==
    /\ service[e] = "pending"
    /\ <<state, seen>> \in {<<"accepted", 1>>, <<"failed", 0>>, <<"unknown", 0>>, <<"unknown", 1>>}
    /\ IF state = "accepted" THEN UNCHANGED faults ELSE Fault
    /\ service' = [service EXCEPT ![e] = state]
    /\ shown' = [shown EXCEPT ![e].browser = @ + seen]
    /\ UNCHANGED <<durable, policy, known, timeline, alive, operator, fresh, pass, edits>>

-----------------------------------------------------------------------------
(* monitor: refresh and observe. *)

\* monitor, first half: fresh lists, and a cursor for a conversation newly watched.
Refresh ==
    /\ pass = Resting
    /\ known' = policy
    /\ cursor' = IF \A l \in Lists : policy[l].mode = Off THEN None
                 ELSE IF cursor = None THEN timeline ELSE cursor
    /\ pass' = [Resting EXCEPT !.at = "page"]
    /\ UNCHANGED <<environment, routes, attempt, outbox, progress>>

\* observe: an identity seen before keeps its first rules.
Observed(e) ==
    IF \E l \in Lists : routes[e][l].state # "none" THEN routes[e]
    ELSE [l \in Lists |->
             IF known[l].mode = Off THEN routes[e][l]
             ELSE [state |-> "active", rev |-> known[l].rev, mode |-> known[l].mode,
                   chosen |-> known[l].mode.primary]]

\* monitor, the pages: the cursor is stored after the page's events (a crash in
\* between, or a page without an end, shows them again).
Page ==
    /\ pass.at = "page"
    /\ IF cursor = None THEN UNCHANGED <<routes, cursor>>
       ELSE /\ routes' = [e \in Events |-> IF e > cursor /\ e <= timeline /\ alive[e]
                                           THEN Observed(e) ELSE routes[e]]
            /\ cursor' \in {cursor, timeline}
    /\ pass' = [pass EXCEPT !.at = "drain"]
    /\ UNCHANGED <<environment, known, attempt, outbox, progress>>

-----------------------------------------------------------------------------
(* drain. *)

Active == {e \in Events : \E l \in Lists : routes[e][l].state = "active"}
NextEvent ==
    LET later == {e \in Active : e > progress}
        pool == IF later = {} THEN Active ELSE later
    IN CHOOSE e \in pool : \A f \in pool : e <= f

GoTo(place) == pass' = [Resting EXCEPT !.at = place]

NothingToDrain ==
    /\ pass.at = "drain" /\ Active = {}
    /\ GoTo("flush")
    /\ UNCHANGED <<environment, durable, known>>

\* The attempts under way are looked up by their stable id; the push service may
\* not answer, which proves nothing.
Visit(answers) ==
    /\ pass.at = "drain" /\ Active # {}
    /\ IF answers THEN UNCHANGED faults ELSE Fault
    /\ LET e == NextEvent IN
       /\ attempt' = [attempt EXCEPT ![e] = [c \in Channels |->
              IF @[c] \in Finished \cup {"none"} \/ (c = "browser" /\ ~answers)
              THEN @[c] ELSE Reconciled(@[c], Outcome(e, c))]]
       /\ pass' = [Resting EXCEPT !.at = "check", !.event = e]
    /\ UNCHANGED <<policy, timeline, alive, service, operator, fresh, edits, shown, known, cursor,
                   routes, outbox, progress>>

\* A drain that starts from the first event in every pass.
MutLeaveEvent ==
    /\ progress' = 0
    /\ GoTo("flush")

\* The event is done with for this pass.
LeaveEvent ==
    /\ progress' = pass.event
    /\ GoTo("flush")

\* validate, then plan; two rounds, so that a refusal can lead to the fallback.
Check ==
    /\ pass.at = "check"
    /\ known' = policy
    /\ routes' = Plan(pass.event)
    /\ IF Jobs(pass.event) = {} THEN LeaveEvent
       ELSE /\ pass' = [pass EXCEPT !.at = "claim", !.todo = Jobs(pass.event), !.step = @ + 1]
            /\ UNCHANGED progress
    /\ UNCHANGED <<environment, cursor, attempt, outbox>>

\* validate could not verify anything: the event waits for the next pass.
CheckFails ==
    /\ pass.at = "check" /\ Fault
    /\ LeaveEvent
    /\ UNCHANGED <<policy, timeline, alive, service, operator, fresh, edits, shown, known, cursor,
                   routes, attempt, outbox>>

\* validate and plan once more before each claim, which is durable before any call.
Claim(c) ==
    /\ pass.at = "claim" /\ c \in pass.todo
    /\ known' = policy
    /\ routes' = Plan(pass.event)
    /\ IF c \in Jobs(pass.event)
       THEN /\ attempt' = [attempt EXCEPT ![pass.event][c] = "enqueueing"]
            /\ pass' = [pass EXCEPT !.at = "enqueue", !.channel = c, !.todo = @ \ {c}]
       ELSE /\ pass' = [pass EXCEPT !.todo = @ \ {c}]
            /\ UNCHANGED attempt
    /\ UNCHANGED <<environment, cursor, outbox, progress>>

\* The same for one job: it is left out of this round.
ClaimFails(c) ==
    /\ pass.at = "claim" /\ c \in pass.todo /\ Fault
    /\ pass' = [pass EXCEPT !.todo = @ \ {c}]
    /\ UNCHANGED <<durable, policy, known, timeline, alive, service, operator, fresh, edits, shown>>

JobsDone ==
    /\ pass.at = "claim" /\ pass.todo = {}
    /\ IF pass.step = 2 THEN LeaveEvent
       ELSE pass' = [pass EXCEPT !.at = "check"] /\ UNCHANGED progress
    /\ UNCHANGED <<environment, known, cursor, routes, attempt, outbox>>

Answered(state) ==
    /\ attempt' = [attempt EXCEPT ![pass.event][pass.channel] = Reconciled(@, state)]
    /\ pass' = [pass EXCEPT !.at = "claim", !.channel = None]

\* The Telegram adapter: an alert known under its key is never queued again.
EnqueueTelegram ==
    LET e == pass.event
        lists == {l \in Lists : /\ routes[e][l].state = "active"
                                /\ "telegram" \in Wanted(e, routes[e][l])}
        accepted == operator /\ AlertAllowed(e, lists)
    IN
    /\ pass.at = "enqueue" /\ pass.channel = "telegram"
    /\ IF outbox[e].state # "missing" THEN Answered(TelegramOutcome(e)) /\ UNCHANGED outbox
       ELSE IF accepted
       THEN /\ outbox' = [outbox EXCEPT ![e] = [state |-> "pending", lists |-> lists]]
            /\ Answered("pending")
       ELSE /\ Answered(IF operator THEN "canceled" ELSE "unavailable")
            /\ UNCHANGED outbox
    /\ UNCHANGED <<environment, known, cursor, routes, progress>>

\* The browser adapter reaches the push service, which keeps one record per id.
EnqueueBrowser ==
    /\ pass.at = "enqueue" /\ pass.channel = "browser"
    /\ \E state \in {"pending", "unavailable"} :
           /\ IF state = "unavailable" THEN Fault ELSE UNCHANGED faults
           /\ service' = [service EXCEPT ![pass.event] = IF @ = "missing" THEN state ELSE @]
    /\ pass' = [pass EXCEPT !.at = "answer"]
    /\ UNCHANGED <<durable, policy, known, timeline, alive, operator, fresh, edits, shown>>

BrowserAnswers ==
    /\ pass.at = "answer"
    /\ Answered(service[pass.event])
    /\ UNCHANGED <<environment, known, cursor, routes, outbox, progress>>

\* No answer, whether or not the request arrived: uncertain, never tried again.
BrowserSilent ==
    /\ pass.at = "answer" \/ (pass.at = "enqueue" /\ pass.channel = "browser")
    /\ Fault
    /\ Answered("unknown")
    /\ UNCHANGED <<policy, timeline, alive, service, operator, fresh, edits, shown, known, cursor,
                   routes, outbox, progress>>

-----------------------------------------------------------------------------
(* flush of the alerts: after the monitor, or after a command with older lists. *)

Waiting == {e \in Events : outbox[e].state = "pending"}

CommandFlush ==
    /\ pass = Resting /\ Waiting # {}
    /\ GoTo("flush")
    /\ UNCHANGED <<environment, durable, known>>

FlushEnds ==
    /\ pass.at = "flush" /\ Waiting = {}
    /\ pass' = Resting
    /\ UNCHANGED <<environment, durable, known>>

Settle(group, state) ==
    outbox' = [e \in Events |-> IF e \in group THEN [outbox[e] EXCEPT !.state = state]
                                ELSE outbox[e]]

\* alertAllowed fails: the alert is withdrawn unsent.
FlushCancels(e) ==
    /\ pass.at = "flush" /\ e \in Waiting /\ ~(operator /\ AlertAllowed(e, outbox[e].lists))
    /\ Settle({e}, "canceled")
    /\ UNCHANGED <<environment, known, cursor, routes, attempt, progress, pass>>

\* flush, flushAlertGroup: all rows of one message are claimed in one transaction.
ClaimGroup(group) ==
    /\ pass.at = "flush" /\ group # {} /\ group \subseteq Waiting
    /\ operator /\ \A e \in group : AlertAllowed(e, outbox[e].lists)
    /\ Settle(group, "sending")
    /\ pass' = [pass EXCEPT !.at = "send", !.todo = group]
    /\ UNCHANGED <<environment, known, cursor, routes, attempt, progress>>

\* Telegram displays the message.
GroupShown ==
    /\ pass.at = "send"
    /\ shown' = [e \in Events |->
           [shown[e] EXCEPT !.telegram = IF e \in pass.todo THEN @ + 1 ELSE @]]
    /\ pass' = [pass EXCEPT !.at = "sent"]
    /\ UNCHANGED <<durable, policy, known, timeline, alive, service, operator, fresh, edits,
                   faults>>

\* An outcome of sendMessage for the whole group.
GroupEnds(state) ==
    /\ Settle(pass.todo, state)
    /\ GoTo("flush")
    /\ UNCHANGED <<policy, timeline, alive, service, operator, fresh, edits, shown, known, cursor,
                   routes, attempt, progress>>

GroupAccepted == pass.at = "sent" /\ UNCHANGED faults /\ GroupEnds("accepted")
GroupRefused ==
    /\ pass.at = "send" /\ Fault
    /\ \E state \in {"pending", "failed"} : GroupEnds(state)

\* A lost answer that is taken for a refusal.
MutGroupSilent == pass.at \in {"send", "sent"} /\ Fault /\ GroupEnds("failed")
GroupSilent == pass.at \in {"send", "sent"} /\ Fault /\ GroupEnds("unknown")

-----------------------------------------------------------------------------
\* A recovery that takes up again what was under way.
MutRecovered(state, middle) == IF state = middle THEN "pending" ELSE state

\* The constructors' recovery: what was under way is uncertain, never repeated.
Recovered(state, middle) == IF state = middle THEN "unknown" ELSE state

Crash ==
    /\ pass # Resting /\ Fault
    /\ pass' = Resting
    /\ known' = policy
    /\ attempt' = [e \in Events |-> [c \in Channels |-> Recovered(attempt[e][c], "enqueueing")]]
    /\ outbox' = [e \in Events |-> [outbox[e] EXCEPT !.state = Recovered(@, "sending")]]
    /\ UNCHANGED <<policy, timeline, alive, cursor, routes, service, progress, operator, fresh,
                   edits, shown>>

-----------------------------------------------------------------------------
Init ==
    /\ policy = [l \in Lists |-> [rev |-> 1, mode |-> FirstMode]] /\ known = policy
    /\ timeline = 0 /\ alive = [e \in Events |-> TRUE] /\ cursor = None
    /\ routes = [e \in Events |-> [l \in Lists |->
           [state |-> "none", rev |-> 0, mode |-> Off, chosen |-> None]]]
    /\ attempt = [e \in Events |-> [c \in Channels |-> "none"]]
    /\ outbox = [e \in Events |-> [state |-> "missing", lists |-> {}]]
    /\ service = [e \in Events |-> "missing"]
    /\ progress = 0 /\ operator = TRUE /\ fresh = TRUE
    /\ pass = Resting /\ edits = 0 /\ faults = 0
    /\ shown = [e \in Events |-> [browser |-> 0, telegram |-> 0]]

World ==
    \/ \E l \in Edited, mode \in Modes \cup {Off} : EditList(l, mode)
    \/ SwitchOperator \/ MessageArrives \/ (\E e \in Events : MessageGone(e))
    \/ Stale \/ FreshAgain
    \/ \E e \in Events, state \in AttemptState, seen \in 0..1 : Push(e, state, seen)

Pass ==
    \/ Refresh \/ Page \/ NothingToDrain \/ (\E answers \in BOOLEAN : Visit(answers))
    \/ Check \/ CheckFails \/ (\E c \in Channels : Claim(c) \/ ClaimFails(c)) \/ JobsDone
    \/ EnqueueTelegram \/ EnqueueBrowser \/ BrowserAnswers \/ BrowserSilent
    \/ CommandFlush \/ FlushEnds \/ (\E e \in Events : FlushCancels(e))
    \/ (\E group \in SUBSET Events : ClaimGroup(group))
    \/ GroupShown \/ GroupAccepted \/ GroupRefused \/ GroupSilent

Next == World \/ Pass \/ Crash

Spec == Init /\ [][Next]_vars

\* The monitor loop never stops, every request ends, and evidence comes back.
FairSpec ==
    /\ Spec
    /\ WF_vars(Pass) /\ WF_vars(FreshAgain)
    /\ \A e \in Events : WF_vars(Push(e, "accepted", 1))

-----------------------------------------------------------------------------
(* Properties. *)

\* A notification is shown at most once per channel, over crashes, lost answers,
\* grouped messages, several lists and messages the monitor pages over again.
ShownOnce == \A e \in Events, c \in Channels : shown[e][c] <= 1

\* The manager gets a notification on two devices only if lists ask for both
\* without a fallback: a fallback never doubles a primary whose fate is unclear.
FallbackNeverDoubles ==
    \A e \in Events :
        (\A c \in Channels : shown[e][c] > 0) =>
            \A c \in Channels : \E l \in Lists :
                /\ routes[e][l].state # "none" /\ c \in routes[e][l].mode.channels
                /\ routes[e][l].mode.primary \in {None, c}

\* What the router records of an attempt is true: accepted was shown, and an
\* explicit failure or a withdrawal was not, so a fallback can rely on it.
AttemptIsTruthful ==
    \A e \in Events, c \in Channels :
        /\ attempt[e][c] = "accepted" => shown[e][c] > 0
        /\ attempt[e][c] \in TerminalFailure \cup {"canceled"} => shown[e][c] = 0

\* A message that arrives while the conversation is watched is settled in the
\* end for every list (shown, failed or withdrawn) unless the fate of an attempt
\* stays unclear.
NotificationEnds ==
    \A e \in Events, l \in Lists :
        routes[e][l].state = "active" ~>
            \/ routes[e][l].state # "active"
            \/ \E c \in Channels : attempt[e][c] = "unknown"
=============================================================================
