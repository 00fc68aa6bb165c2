---------------------- MODULE NotificationRoutingProofs ----------------------
(* Proofs about the notifications, for any lists, settings, number of messages
   and bounds: nothing is shown twice on a channel, what the router records of
   an attempt is true, and a fallback never doubles its primary. *)
EXTENDS NotificationRouting, TLAPS, WellFoundedInduction

Settings == Modes \cup {Off}
Rules == [state : {"none", "active", "canceled", "settled"}, rev : Nat, mode : Settings,
          chosen : Channels \cup {None}]
Alerts == [state : {"missing", "pending", "sending", "unknown", "accepted", "failed", "canceled"},
           lists : SUBSET Lists]
Records == {"missing", "pending", "unavailable", "accepted", "failed", "unknown"}

PassTyped ==
    /\ pass = [at |-> pass.at, event |-> pass.event, step |-> pass.step, todo |-> pass.todo,
               channel |-> pass.channel]
    /\ pass.at \in {"check", "claim", "enqueue", "answer"} => pass.event \in Events
    /\ progress \in Nat

Typed ==
    /\ policy \in [Lists -> [rev : Nat, mode : Settings]]
    /\ known \in [Lists -> [rev : Nat, mode : Settings]]
    /\ routes \in [Events -> [Lists -> Rules]]
    /\ attempt \in [Events -> [Channels -> AttemptState]]
    /\ outbox \in [Events -> Alerts]
    /\ service \in [Events -> Records]
    /\ shown \in [Events -> [browser : Nat, telegram : Nat]]
    /\ PassTyped

(* The outbox and the push service know whether an alert can have been seen: *)
(* what waits, failed or was withdrawn was not, and what is being sent is    *)
(* the group in hand.                                                        *)
Sending(e) == pass.at \in {"send", "sent"} /\ e \in pass.todo
SeenInv ==
    \A e \in Events :
        /\ shown[e].telegram <= 1 /\ shown[e].browser <= 1
        /\ outbox[e].state = "sending" <=> Sending(e)
        /\ Sending(e) => shown[e].telegram = IF pass.at = "sent" THEN 1 ELSE 0
        /\ outbox[e].state \in {"missing", "pending", "canceled", "failed"} =>
             shown[e].telegram = 0
        /\ outbox[e].state = "accepted" => shown[e].telegram = 1
        /\ service[e] \in {"missing", "pending", "unavailable", "failed"} => shown[e].browser = 0
        /\ service[e] = "accepted" => shown[e].browser = 1

(* The router's attempts against what the channels hold.                     *)
NotSeen == TerminalFailure \cup {"canceled"}
AttemptInv ==
    \A e \in Events :
        /\ outbox[e].state # "missing" => attempt[e]["telegram"] # "none"
        /\ service[e] # "missing" => attempt[e]["browser"] # "none"
        /\ attempt[e]["telegram"] = "accepted" => outbox[e].state = "accepted"
        /\ attempt[e]["browser"] = "accepted" => service[e] = "accepted"
        /\ attempt[e]["telegram"] \in NotSeen =>
             outbox[e].state \in {"missing", "canceled", "failed"}
        /\ attempt[e]["browser"] \in NotSeen =>
             service[e] \in {"missing", "unavailable", "failed"}

(* The attempt in hand was claimed, so it is the only one.                   *)
ClaimInv ==
    /\ pass.at \in {"enqueue", "answer"} =>
         pass.channel \in Channels /\ attempt[pass.event][pass.channel] = "enqueueing"
    /\ pass.at = "answer" => pass.channel = "browser"

(* Why an attempt was made: a list asks for the channel itself, or the other *)
(* channel failed.  A rule has switched to its fallback only then.           *)
Asks(r, c) == r.state # "none" /\ c \in r.mode.channels /\ r.mode.primary \in {None, c}
Switched(r) == r.chosen # r.mode.primary
ReasonInv ==
    \A e \in Events :
        /\ \A l \in Lists : Switched(routes[e][l]) =>
             /\ routes[e][l].mode.primary \in Channels
             /\ attempt[e][routes[e][l].mode.primary] \in TerminalFailure
        /\ \A c \in Channels : attempt[e][c] # "none" =>
             \/ \E l \in Lists : Asks(routes[e][l], c)
             \/ attempt[e][Other(c)] \in TerminalFailure

RouteInv == Typed /\ SeenInv /\ AttemptInv /\ ClaimInv /\ ReasonInv

-----------------------------------------------------------------------------
(* Channels, settings and the least element of a set of numbers.             *)

LEMMA OtherChannel ==
  /\ Other("browser") = "telegram" /\ Other("telegram") = "browser"
  /\ \A c \in Channels : Other(c) \in Channels
  BY DEF Other, Channels

LEMMA SettingFacts ==
  ASSUME NEW m \in Settings
  PROVE  /\ m \in [channels : SUBSET Channels, primary : Channels \cup {None},
                   fallback : BOOLEAN]
         /\ m.primary # None => m.primary \in m.channels
         /\ m.fallback => m.primary \in Channels /\ m.channels = Channels
<1>1. CASE m = Off
  BY <1>1 DEF Off
<1>2. CASE m \in Modes
  <2>1. /\ m \in [channels : (SUBSET Channels) \ {{}}, primary : Channels \cup {None},
                  fallback : BOOLEAN]
        /\ m.primary # None => m.primary \in m.channels
        /\ m.fallback => m.primary # None /\ m.channels = Channels
    BY <1>2, RoutingAssumption
  <2> QED
    BY <2>1
<1> QED
  BY <1>1, <1>2 DEF Settings

LEMMA Least ==
  ASSUME NEW T, T \subseteq Nat, T # {}
  PROVE  \E x \in T : \A y \in T : x <= y
<1>1. PICK R : IsWellFoundedOn(R, Nat) /\ \A x, y \in Nat : <<y, x>> \in R <=> y < x
  <2>1. IsWellFoundedOn(OpToRel(<, Nat), Nat)
    BY NatLessThanWellFounded
  <2>2. \A x, y \in Nat : <<y, x>> \in OpToRel(<, Nat) <=> y < x
    BY DEF OpToRel
  <2> QED
    BY <2>1, <2>2
<1>2. PICK x \in T : \A y \in T : ~ (<<y, x>> \in R)
  BY <1>1, WFMin
<1>3. \A y \in T : ~(y < x)
  BY <1>1, <1>2, Zenon
<1> QED
  BY <1>3

LEMMA EventsAreNumbers == Events \subseteq Nat
<1>1. MaxEvents \in Nat
  BY RoutingAssumption
<1> QED
  BY <1>1 DEF Events

LEMMA NextIsEvent ==
  ASSUME Active # {}
  PROVE  NextEvent \in Events
<1> DEFINE later == {e \in Active : e > progress}
           pool == IF later = {} THEN Active ELSE later
<1>1. pool # {} /\ pool \subseteq Events /\ pool \subseteq Nat
  BY EventsAreNumbers DEF Active
<1>2. \E e \in pool : \A f \in pool : e <= f
  <2> HIDE DEF pool
  <2> QED
    BY <1>1, Least
<1>3. NextEvent = CHOOSE e \in pool : \A f \in pool : e <= f
  BY DEF NextEvent
<1> HIDE DEF pool
<1>4. NextEvent \in pool
  BY <1>2, <1>3
<1> QED
  BY <1>1, <1>4

-----------------------------------------------------------------------------
LEMMA RouteAtFirst == Init => RouteInv
<1> SUFFICES ASSUME Init PROVE RouteInv
  OBVIOUS
<1> USE DEF Init
<1>1. Typed
  <2>1. Off \in Settings /\ FirstMode \in Settings
    BY RoutingAssumption DEF Settings
  <2>2. PassTyped
    BY DEF PassTyped, Resting
  <2>3. policy \in [Lists -> [rev : Nat, mode : Settings]]
    BY <2>1
  <2>4. routes \in [Events -> [Lists -> Rules]]
    BY <2>1 DEF Rules
  <2>5. /\ attempt \in [Events -> [Channels -> AttemptState]]
        /\ outbox \in [Events -> Alerts]
        /\ service \in [Events -> Records]
        /\ shown \in [Events -> [browser : Nat, telegram : Nat]]
    BY DEF AttemptState, Alerts, Records
  <2> QED
    BY <2>2, <2>3, <2>4, <2>5 DEF Typed
<1>2. SeenInv
  BY DEF SeenInv, Sending, Resting
<1>3. AttemptInv
  BY DEF AttemptInv, NotSeen, TerminalFailure, Channels
<1>4. ClaimInv
  BY DEF ClaimInv, Resting
<1>5. ReasonInv
  BY DEF ReasonInv, Switched, Off
<1> QED
  BY <1>1, <1>2, <1>3, <1>4, <1>5 DEF RouteInv

(* A step that leaves alerts, records, attempts and rules alone.             *)
LEMMA RouteUntouched ==
  ASSUME RouteInv, UNCHANGED <<routes, attempt, outbox, service, shown>>,
         policy' \in [Lists -> [rev : Nat, mode : Settings]],
         known' \in [Lists -> [rev : Nat, mode : Settings]],
         PassTyped',
         \/ pass' = pass
         \/ /\ pass.at \notin {"send", "sent"}
            /\ pass'.at \notin {"send", "sent", "enqueue", "answer"}
  PROVE  RouteInv'
<1>1. Typed'
  BY DEF RouteInv, Typed
<1>2. SeenInv'
  BY DEF RouteInv, SeenInv, Sending
<1>3. AttemptInv' /\ ClaimInv' /\ ReasonInv'
  BY DEF RouteInv, AttemptInv, ClaimInv, ReasonInv, Switched, Asks
<1> QED
  BY <1>1, <1>2, <1>3 DEF RouteInv

LEMMA WorldQuiet ==
  ASSUME RouteInv,
         \/ \E l \in Edited, mode \in Modes \cup {Off} : EditList(l, mode)
         \/ MessageArrives \/ (\E e \in Events : MessageGone(e)) \/ Stale \/ FreshAgain
  PROVE  RouteInv'
<1>1. /\ UNCHANGED <<routes, attempt, outbox, service, shown, known, pass, progress>>
      /\ \/ UNCHANGED policy
         \/ \E l \in Edited, mode \in Settings :
              policy' = [policy EXCEPT ![l] = [rev |-> @.rev + 1, mode |-> mode]]
  BY DEF EditList, MessageArrives, MessageGone, Stale, FreshAgain, durable, Settings
<1>2. policy' \in [Lists -> [rev : Nat, mode : Settings]]
  <2>1. Edited \subseteq Lists /\ policy \in [Lists -> [rev : Nat, mode : Settings]]
    BY RoutingAssumption DEF RouteInv, Typed
  <2> QED
    BY <1>1, <2>1
<1>3. PassTyped' /\ known' \in [Lists -> [rev : Nat, mode : Settings]]
  BY <1>1 DEF RouteInv, Typed, PassTyped
<1> QED
  BY <1>1, <1>2, <1>3, RouteUntouched

LEMMA PassQuiet ==
  ASSUME RouteInv,
         \/ Refresh \/ NothingToDrain \/ CheckFails \/ (\E c \in Channels : ClaimFails(c))
         \/ JobsDone \/ CommandFlush \/ FlushEnds
  PROVE  RouteInv'
<1>1. /\ UNCHANGED <<routes, attempt, outbox, service, shown, policy>>
      /\ known' \in {known, policy}
  BY DEF Refresh, NothingToDrain, CheckFails, ClaimFails, JobsDone, CommandFlush, FlushEnds,
         environment, durable, LeaveEvent
<1>2. /\ pass.at \notin {"send", "sent"}
      /\ pass'.at \notin {"send", "sent", "enqueue", "answer"}
      /\ PassTyped'
  <2>1. CASE Refresh \/ NothingToDrain \/ CommandFlush \/ FlushEnds
    BY <2>1 DEF Refresh, NothingToDrain, CommandFlush, FlushEnds, GoTo, Resting, PassTyped,
                RouteInv, Typed, durable
  <2>2. CASE CheckFails
    BY <2>2, EventsAreNumbers DEF CheckFails, LeaveEvent, GoTo, Resting, PassTyped, RouteInv, Typed
  <2>3. CASE \E c \in Channels : ClaimFails(c)
    BY <2>3 DEF ClaimFails, PassTyped, RouteInv, Typed, durable
  <2>4. CASE JobsDone
    BY <2>4, EventsAreNumbers DEF JobsDone, LeaveEvent, GoTo, Resting, PassTyped, RouteInv, Typed
  <2> QED
    BY <2>1, <2>2, <2>3, <2>4
<1>3. /\ known' \in [Lists -> [rev : Nat, mode : Settings]]
      /\ policy' \in [Lists -> [rev : Nat, mode : Settings]]
  BY <1>1 DEF RouteInv, Typed
<1> QED
  BY <1>1, <1>2, <1>3, RouteUntouched

-----------------------------------------------------------------------------
(* Environment and observation.                                              *)

(* Steps that change neither rules nor attempts.                             *)
LEMMA AttemptsKept ==
  ASSUME RouteInv, UNCHANGED <<routes, attempt>>
  PROVE  ReasonInv'
  BY DEF RouteInv, ReasonInv, Switched, Asks

LEMMA RouteSwitch ==
  ASSUME RouteInv, SwitchOperator
  PROVE  RouteInv'
<1>1. \A e \in Events :
        /\ outbox'[e].state = IF outbox[e].state = "pending" THEN "canceled" ELSE outbox[e].state
        /\ outbox'[e] \in Alerts
  BY DEF SwitchOperator, RouteInv, Typed, Alerts
<1>2. outbox' \in [Events -> Alerts]
  BY <1>1 DEF SwitchOperator
<1>3. UNCHANGED <<policy, known, routes, attempt, service, shown, pass, progress>>
  BY DEF SwitchOperator
<1>4. Typed'
  BY <1>2, <1>3 DEF RouteInv, Typed, PassTyped
<1>5. SeenInv'
  BY <1>1, <1>3 DEF RouteInv, SeenInv, Sending
<1>6. AttemptInv'
  BY <1>1, <1>3 DEF RouteInv, AttemptInv
<1>7. ClaimInv'
  BY <1>3 DEF RouteInv, ClaimInv
<1> QED
  BY <1>3, <1>4, <1>5, <1>6, <1>7, AttemptsKept DEF RouteInv

LEMMA RoutePush ==
  ASSUME RouteInv, NEW e \in Events, NEW state \in AttemptState, NEW seen \in 0..1,
         Push(e, state, seen)
  PROVE  RouteInv'
<1>1. /\ service[e] = "pending" /\ service' = [service EXCEPT ![e] = state]
      /\ \/ state = "accepted" /\ seen = 1
         \/ state = "failed" /\ seen = 0
         \/ state = "unknown"
      /\ UNCHANGED <<policy, known, routes, attempt, outbox, pass, progress>>
  BY DEF Push, durable
<1>2. shown' = [shown EXCEPT ![e].browser = @ + seen]
  BY DEF Push
<1>3. /\ shown' \in [Events -> [browser : Nat, telegram : Nat]]
      /\ \A f \in Events : /\ shown'[f].telegram = shown[f].telegram
                           /\ shown'[f].browser =
                                IF f = e THEN shown[f].browser + seen ELSE shown[f].browser
  BY <1>2 DEF RouteInv, Typed
<1>4. /\ service' \in [Events -> Records]
      /\ \A f \in Events : service'[f] = IF f = e THEN state ELSE service[f]
  BY <1>1 DEF RouteInv, Typed, Records
<1>5. Typed'
  BY <1>1, <1>3, <1>4 DEF RouteInv, Typed, PassTyped
<1>6. shown[e].browser = 0
  BY <1>1 DEF RouteInv, SeenInv
<1>7. SeenInv'
  BY <1>1, <1>3, <1>4, <1>6 DEF RouteInv, SeenInv, Sending
<1>8. attempt[e]["browser"] \notin NotSeen /\ attempt[e]["browser"] # "accepted"
      /\ attempt[e]["browser"] # "none"
  BY <1>1 DEF RouteInv, AttemptInv
<1>9. AttemptInv'
  BY <1>1, <1>4, <1>8 DEF RouteInv, AttemptInv
<1>10. ClaimInv'
  BY <1>1 DEF RouteInv, ClaimInv
<1> QED
  BY <1>1, <1>5, <1>7, <1>9, <1>10, AttemptsKept DEF RouteInv

LEMMA RoutePage ==
  ASSUME RouteInv, Page
  PROVE  RouteInv'
<1>1. /\ UNCHANGED <<policy, known, attempt, outbox, service, shown, progress>>
      /\ pass.at = "page" /\ pass' = [pass EXCEPT !.at = "drain"]
      /\ \/ UNCHANGED routes
         \/ routes' = [e \in Events |-> IF e > cursor /\ e <= timeline /\ alive[e]
                                        THEN Observed(e) ELSE routes[e]]
  BY DEF Page, environment
<1>2. \A e \in Events :
        /\ Observed(e) \in [Lists -> Rules]
        /\ \A l \in Lists :
             \/ Observed(e)[l] = routes[e][l]
             \/ /\ routes[e][l].state = "none"
                /\ ~Switched(Observed(e)[l])
  <2> SUFFICES ASSUME NEW e \in Events
      PROVE  /\ Observed(e) \in [Lists -> Rules]
             /\ \A l \in Lists :
                  \/ Observed(e)[l] = routes[e][l]
                  \/ /\ routes[e][l].state = "none"
                     /\ ~Switched(Observed(e)[l])
    OBVIOUS
  <2>1. routes[e] \in [Lists -> Rules]
    BY DEF RouteInv, Typed
  <2>2. CASE \E l \in Lists : routes[e][l].state # "none"
    BY <2>1, <2>2 DEF Observed
  <2>3. CASE ~\E l \in Lists : routes[e][l].state # "none"
    <3>1. \A l \in Lists :
            known[l].rev \in Nat /\ known[l].mode \in Settings
      BY DEF RouteInv, Typed
    <3>2. \A l \in Lists : known[l].mode.primary \in Channels \cup {None}
      BY <3>1, SettingFacts
    <3>3. Observed(e) =
            [l \in Lists |->
               IF known[l].mode = Off THEN routes[e][l]
               ELSE [state |-> "active", rev |-> known[l].rev, mode |-> known[l].mode,
                     chosen |-> known[l].mode.primary]]
      BY <2>3 DEF Observed
    <3>4. \A l \in Lists : Observed(e)[l] \in Rules
      BY <2>1, <3>1, <3>2, <3>3 DEF Rules
    <3> QED
      BY <2>3, <3>3, <3>4 DEF Switched
  <2> QED
    BY <2>2, <2>3
<1>3. /\ routes' \in [Events -> [Lists -> Rules]]
      /\ \A e \in Events, l \in Lists :
           \/ routes'[e][l] = routes[e][l]
           \/ routes[e][l].state = "none" /\ ~Switched(routes'[e][l])
  <2>1. routes \in [Events -> [Lists -> Rules]]
    BY DEF RouteInv, Typed
  <2>2. /\ routes' = [e \in Events |-> routes'[e]]
        /\ \A e \in Events : routes'[e] = routes[e] \/ routes'[e] = Observed(e)
    BY <1>1, <2>1
  <2>3. \A e \in Events : routes'[e] \in [Lists -> Rules]
    BY <1>2, <2>1, <2>2
  <2>4. routes' \in [Events -> [Lists -> Rules]]
    BY <2>2, <2>3
  <2> QED
    BY <1>2, <2>2, <2>4
<1>4. PassTyped'
  BY <1>1 DEF RouteInv, Typed, PassTyped
<1>5. Typed'
  BY <1>1, <1>3, <1>4 DEF RouteInv, Typed
<1>6. SeenInv' /\ AttemptInv' /\ ClaimInv'
  BY <1>1 DEF RouteInv, SeenInv, Sending, AttemptInv, ClaimInv, Typed, PassTyped
<1>7. ReasonInv'
  BY <1>1, <1>3 DEF RouteInv, ReasonInv, Asks, Switched
<1> QED
  BY <1>5, <1>6, <1>7 DEF RouteInv

-----------------------------------------------------------------------------
(* The drain.  A plan keeps the settings a rule was observed under, and      *)
(* switches to the fallback only on an explicit failure.                     *)

LEMMA PlanKeeps ==
  ASSUME RouteInv, NEW e \in Events, NEW l \in Lists
  PROVE  LET r == routes[e][l]
             n == PlanRule(e, l)
         IN  /\ n \in Rules /\ n.mode = r.mode
             /\ n.state = "none" <=> r.state = "none"
             /\ n.state = "active" => r.state = "active"
             /\ Switched(n) =>
                  r.mode.primary \in Channels /\ attempt[e][r.mode.primary] \in TerminalFailure
<1> DEFINE r == routes[e][l]
           n == PlanRule(e, l)
<1>1. r \in Rules /\ r.mode \in Settings
  BY DEF RouteInv, Typed, Rules
<1>2. r.mode.fallback => r.mode.primary \in Channels
  BY <1>1, SettingFacts
<1>3. Chosen(e, r) \in Channels \cup {None}
  BY <1>1, <1>2, OtherChannel DEF Chosen, Rules
<1>4. Switched(r) =>
        r.mode.primary \in Channels /\ attempt[e][r.mode.primary] \in TerminalFailure
  BY DEF RouteInv, ReasonInv
<1>5. Chosen(e, r) # r.mode.primary =>
        r.mode.primary \in Channels /\ attempt[e][r.mode.primary] \in TerminalFailure
  BY <1>2, <1>4 DEF Chosen, Switched
<1>6. CASE r.state # "active" \/ (Unchanged(e, l) /\ ~fresh)
  BY <1>1, <1>4, <1>6 DEF PlanRule
<1>7. CASE r.state = "active" /\ ~Unchanged(e, l)
  <2>1. n = [r EXCEPT !.state = "canceled"]
    BY <1>7 DEF PlanRule
  <2> QED
    BY <1>1, <1>4, <1>7, <2>1 DEF Rules, Switched
<1>8. CASE r.state = "active" /\ Unchanged(e, l) /\ fresh
  <2>1. PICK x \in {"settled", "active"} :
          n = [r EXCEPT !.chosen = Chosen(e, r), !.state = x]
    BY <1>8 DEF PlanRule
  <2>2. n = [state |-> x, rev |-> r.rev, mode |-> r.mode, chosen |-> Chosen(e, r)]
    BY <1>1, <2>1 DEF Rules
  <2> QED
    BY <1>1, <1>3, <1>5, <1>8, <2>2 DEF Rules, Switched
<1> QED
  BY <1>6, <1>7, <1>8

LEMMA Planned ==
  ASSUME RouteInv, NEW e \in Events
  PROVE  /\ Plan(e) \in [Events -> [Lists -> Rules]]
         /\ \A f \in Events, l \in Lists :
              /\ \A c \in Channels : Asks(routes[f][l], c) => Asks(Plan(e)[f][l], c)
              /\ Plan(e)[f][l].mode = routes[f][l].mode
              /\ Switched(Plan(e)[f][l]) =>
                   /\ routes[f][l].mode.primary \in Channels
                   /\ attempt[f][routes[f][l].mode.primary] \in TerminalFailure
<1>1. routes \in [Events -> [Lists -> Rules]]
  BY DEF RouteInv, Typed
<1>2. \A l \in Lists : PlanRule(e, l) \in Rules
  BY PlanKeeps
<1>3. Plan(e) \in [Events -> [Lists -> Rules]]
  BY <1>1, <1>2 DEF Plan
<1>4. \A f \in Events, l \in Lists :
        Plan(e)[f][l] = IF f = e THEN PlanRule(e, l) ELSE routes[f][l]
  BY <1>1 DEF Plan
<1>5. ASSUME NEW f \in Events, NEW l \in Lists
      PROVE  /\ Plan(e)[f][l].mode = routes[f][l].mode
             /\ Plan(e)[f][l].state = "none" <=> routes[f][l].state = "none"
             /\ Switched(Plan(e)[f][l]) =>
                   /\ routes[f][l].mode.primary \in Channels
                   /\ attempt[f][routes[f][l].mode.primary] \in TerminalFailure
  <2>1. CASE f = e
    BY <1>4, <2>1, PlanKeeps
  <2>2. CASE f # e
    BY <1>4, <2>2 DEF RouteInv, ReasonInv
  <2> QED
    BY <2>1, <2>2
<1>6. \A f \in Events, l \in Lists, c \in Channels :
        Asks(routes[f][l], c) => Asks(Plan(e)[f][l], c)
  BY <1>5 DEF Asks
<1> QED
  BY <1>3, <1>5, <1>6

(* Why a channel is served at all.                                           *)
LEMMA JobReason ==
  ASSUME RouteInv, NEW e \in Events, NEW c \in Jobs(e)
  PROVE  /\ c \in Channels /\ attempt[e][c] = "none"
         /\ \/ \E l \in Lists : Asks(routes[e][l], c)
            \/ attempt[e][Other(c)] \in TerminalFailure
<1>1. PICK l \in Lists : /\ PlanRule(e, l).state = "active"
                         /\ c \in Wanted(e, routes[e][l]) /\ attempt[e][c] = "none"
  BY DEF Jobs, Served
<1>2. c \in Channels
  BY DEF Jobs
<1> DEFINE r == routes[e][l]
<1>3. r \in Rules /\ r.mode \in Settings /\ r.state = "active"
  BY <1>1, PlanKeeps DEF RouteInv, Typed, Rules
<1>4. CASE r.mode.primary = None
  BY <1>1, <1>2, <1>3, <1>4 DEF Wanted, Asks
<1>5. CASE r.mode.primary # None /\ c = r.mode.primary
  BY <1>1, <1>2, <1>3, <1>5, SettingFacts DEF Asks
<1>6. CASE r.mode.primary # None /\ c # r.mode.primary
  <2>1. c = Chosen(e, r)
    BY <1>1, <1>6 DEF Wanted
  <2>2. r.mode.primary \in Channels /\ attempt[e][r.mode.primary] \in TerminalFailure
    <3>1. CASE r.chosen # r.mode.primary
      BY <3>1 DEF RouteInv, ReasonInv, Switched
    <3>2. CASE r.chosen = r.mode.primary
      <4>1. r.mode.fallback /\ attempt[e][r.chosen] \in TerminalFailure
        BY <1>6, <2>1, <3>2 DEF Chosen
      <4> QED
        BY <1>3, <3>2, <4>1, SettingFacts
    <3> QED
      BY <3>1, <3>2
  <2>3. r.mode.primary = Other(c)
    BY <1>2, <1>6, <2>2, OtherChannel DEF Channels
  <2> QED
    BY <1>1, <1>2, <2>2, <2>3
<1> QED
  BY <1>4, <1>5, <1>6

-----------------------------------------------------------------------------
LEMMA RouteVisit ==
  ASSUME RouteInv, NEW answers \in BOOLEAN, Visit(answers)
  PROVE  RouteInv'
<1> DEFINE e == NextEvent
<1>1. /\ e \in Events /\ pass.at = "drain"
      /\ pass' = [Resting EXCEPT !.at = "check", !.event = e]
      /\ UNCHANGED <<policy, known, routes, outbox, service, shown, progress>>
      /\ attempt' = [attempt EXCEPT ![e] = [c \in Channels |->
              IF @[c] \in Finished \cup {"none"} \/ (c = "browser" /\ ~answers)
              THEN @[c] ELSE Reconciled(@[c], Outcome(e, c))]]
  BY NextIsEvent DEF Visit
<1> HIDE DEF e
<1>2. \A c \in Channels :
        LET old == attempt[e][c]
            new == IF old \in Finished \cup {"none"} \/ (c = "browser" /\ ~answers)
                   THEN old ELSE Reconciled(old, Outcome(e, c))
        IN  /\ new \in AttemptState
            /\ new = "none" <=> old = "none"
            /\ old \in TerminalFailure => new = old
            /\ new # old => new = Outcome(e, c)
  <2>1. \A c \in Channels : attempt[e][c] \in AttemptState /\ Outcome(e, c) # "none"
          /\ (Outcome(e, c) # "missing" => Outcome(e, c) \in AttemptState)
    <3>1. /\ outbox[e].state \in {"missing", "pending", "sending", "unknown", "accepted",
                                  "failed", "canceled"}
          /\ service[e] \in Records /\ \A c \in Channels : attempt[e][c] \in AttemptState
      BY <1>1 DEF RouteInv, Typed, Alerts
    <3> QED
      BY <3>1 DEF Outcome, TelegramOutcome, Records, AttemptState
  <2> QED
    BY <2>1 DEF Reconciled, Finished, TerminalFailure
<1>3. /\ attempt' \in [Events -> [Channels -> AttemptState]]
      /\ \A f \in Events, c \in Channels :
           /\ attempt'[f][c] = "none" <=> attempt[f][c] = "none"
           /\ attempt[f][c] \in TerminalFailure => attempt'[f][c] = attempt[f][c]
           /\ attempt'[f][c] # attempt[f][c] => attempt'[f][c] = Outcome(f, c)
  <2>1. attempt \in [Events -> [Channels -> AttemptState]]
    BY DEF RouteInv, Typed
  <2>2. \A f \in Events, c \in Channels : attempt'[f][c] =
          IF f = e
          THEN IF attempt[e][c] \in Finished \cup {"none"} \/ (c = "browser" /\ ~answers)
               THEN attempt[e][c] ELSE Reconciled(attempt[e][c], Outcome(e, c))
          ELSE attempt[f][c]
    BY <1>1, <2>1
  <2>3. attempt' = [f \in Events |-> [c \in Channels |-> attempt'[f][c]]]
    BY <1>1, <2>1
  <2>4. \A f \in Events, c \in Channels : attempt'[f][c] \in AttemptState
    BY <1>2, <2>1, <2>2
  <2>5. attempt' \in [Events -> [Channels -> AttemptState]]
    BY <2>3, <2>4
  <2> QED
    BY <1>2, <2>2, <2>5
<1>4. PassTyped'
  BY <1>1 DEF RouteInv, Typed, PassTyped, Resting
<1>5. Typed'
  BY <1>1, <1>3, <1>4 DEF RouteInv, Typed
<1>6. pass'.at = "check"
  BY <1>1 DEF Resting
<1>7. SeenInv' /\ ClaimInv'
  BY <1>1, <1>6 DEF RouteInv, SeenInv, Sending, ClaimInv
<1>8. AttemptInv'
  <2>1. "telegram" \in Channels /\ "browser" \in Channels
    BY DEF Channels
  <2>2. \A f \in Events : /\ Outcome(f, "browser") = service[f]
                          /\ Outcome(f, "telegram") = IF outbox[f].state = "sending"
                               THEN "in_flight" ELSE outbox[f].state
    BY DEF Outcome, TelegramOutcome
  <2>3. \A f \in Events : outbox[f].state \in {"missing", "pending", "sending", "unknown",
                            "accepted", "failed", "canceled"} /\ service[f] \in Records
    BY DEF RouteInv, Typed, Alerts
  <2> QED
    BY <1>1, <1>3, <2>1, <2>2, <2>3 DEF RouteInv, AttemptInv, NotSeen, TerminalFailure, Records
<1>9. ReasonInv'
  BY <1>1, <1>3, OtherChannel DEF RouteInv, ReasonInv
<1> QED
  BY <1>5, <1>7, <1>8, <1>9 DEF RouteInv

(* The rules after a plan, with attempts that keep what failed.              *)
LEMMA ReasonPlanned ==
  ASSUME RouteInv, NEW e \in Events, routes' = Plan(e),
         \A f \in Events, c \in Channels :
           /\ attempt[f][c] \in TerminalFailure => attempt'[f][c] = attempt[f][c]
           /\ attempt'[f][c] # "none" /\ attempt[f][c] = "none" => f = e /\ c \in Jobs(e)
  PROVE  ReasonInv'
<1> SUFFICES ASSUME NEW f \in Events
    PROVE  /\ \A l \in Lists : Switched(routes'[f][l]) =>
                /\ routes'[f][l].mode.primary \in Channels
                /\ attempt'[f][routes'[f][l].mode.primary] \in TerminalFailure
           /\ \A c \in Channels : attempt'[f][c] # "none" =>
                \/ \E l \in Lists : Asks(routes'[f][l], c)
                \/ attempt'[f][Other(c)] \in TerminalFailure
  BY DEF ReasonInv
<1>1. \A l \in Lists :
        /\ \A c \in Channels : Asks(routes[f][l], c) => Asks(routes'[f][l], c)
        /\ routes'[f][l].mode = routes[f][l].mode
        /\ Switched(routes'[f][l]) =>
             /\ routes[f][l].mode.primary \in Channels
             /\ attempt[f][routes[f][l].mode.primary] \in TerminalFailure
  BY Planned
<1>2. \A c \in Channels : attempt'[f][c] # "none" =>
        \/ \E l \in Lists : Asks(routes[f][l], c)
        \/ attempt[f][Other(c)] \in TerminalFailure
  <2> SUFFICES ASSUME NEW c \in Channels, attempt'[f][c] # "none"
      PROVE  \/ \E l \in Lists : Asks(routes[f][l], c)
             \/ attempt[f][Other(c)] \in TerminalFailure
    OBVIOUS
  <2>1. CASE attempt[f][c] # "none"
    BY <2>1 DEF RouteInv, ReasonInv
  <2>2. CASE attempt[f][c] = "none"
    BY <2>2, JobReason
  <2> QED
    BY <2>1, <2>2
<1> QED
  BY <1>1, <1>2, OtherChannel

LEMMA RouteCheck ==
  ASSUME RouteInv, Check
  PROVE  RouteInv'
<1>1. /\ pass.at = "check" /\ known' = policy /\ routes' = Plan(pass.event)
      /\ UNCHANGED <<policy, attempt, outbox, service, shown>>
      /\ pass'.at \notin {"send", "sent", "enqueue", "answer"}
      /\ PassTyped'
  BY EventsAreNumbers DEF Check, environment, LeaveEvent, GoTo, Resting, RouteInv, Typed, PassTyped
<1>2. pass.event \in Events
  BY <1>1 DEF RouteInv, Typed, PassTyped
<1>3. Typed'
  BY <1>1, <1>2, Planned DEF RouteInv, Typed
<1>4. SeenInv' /\ AttemptInv' /\ ClaimInv'
  BY <1>1 DEF RouteInv, SeenInv, Sending, AttemptInv, ClaimInv
<1>5. ReasonInv'
  BY <1>1, <1>2, ReasonPlanned
<1> QED
  BY <1>3, <1>4, <1>5 DEF RouteInv

LEMMA RouteClaim ==
  ASSUME RouteInv, NEW c \in Channels, Claim(c)
  PROVE  RouteInv'
<1> DEFINE e == pass.event
<1>1. /\ pass.at = "claim" /\ known' = policy /\ routes' = Plan(e)
      /\ UNCHANGED <<policy, outbox, service, shown, progress>>
      /\ \/ /\ c \in Jobs(e)
            /\ attempt' = [attempt EXCEPT ![e][c] = "enqueueing"]
            /\ pass' = [pass EXCEPT !.at = "enqueue", !.channel = c, !.todo = @ \ {c}]
         \/ attempt' = attempt /\ pass' = [pass EXCEPT !.todo = @ \ {c}]
  BY DEF Claim, environment
<1>2. e \in Events
  BY <1>1 DEF RouteInv, Typed, PassTyped
<1>3. attempt \in [Events -> [Channels -> AttemptState]] /\ "enqueueing" \in AttemptState
  BY DEF RouteInv, Typed, AttemptState
<1>4. /\ attempt' \in [Events -> [Channels -> AttemptState]]
      /\ \A f \in Events, d \in Channels :
           \/ attempt'[f][d] = attempt[f][d]
           \/ /\ f = e /\ d = c /\ c \in Jobs(e)
              /\ attempt[f][d] = "none" /\ attempt'[f][d] = "enqueueing"
  BY <1>1, <1>2, <1>3, JobReason
<1>5. /\ pass'.at \in {"claim", "enqueue"} /\ PassTyped' /\ pass'.event = e
      /\ pass'.at = "enqueue" => pass'.channel = c /\ attempt'[e][c] = "enqueueing"
  <2>1. pass = [at |-> pass.at, event |-> e, step |-> pass.step, todo |-> pass.todo,
                channel |-> pass.channel] /\ progress \in Nat
    BY DEF RouteInv, Typed, PassTyped
  <2>2. CASE /\ attempt' = [attempt EXCEPT ![e][c] = "enqueueing"]
             /\ pass' = [pass EXCEPT !.at = "enqueue", !.channel = c, !.todo = @ \ {c}]
    <3>1. pass' = [at |-> "enqueue", event |-> e, step |-> pass.step, todo |-> pass.todo \ {c},
                   channel |-> c]
      BY <2>1, <2>2
    <3>2. attempt'[e][c] = "enqueueing"
      BY <1>2, <1>3, <2>2
    <3> QED
      BY <1>1, <1>2, <2>1, <3>1, <3>2 DEF PassTyped
  <2>3. CASE pass' = [pass EXCEPT !.todo = @ \ {c}]
    <3>1. pass' = [at |-> "claim", event |-> e, step |-> pass.step, todo |-> pass.todo \ {c},
                   channel |-> pass.channel]
      BY <1>1, <2>1, <2>3
    <3> QED
      BY <1>1, <1>2, <2>1, <3>1 DEF PassTyped
  <2> QED
    BY <1>1, <2>2, <2>3
<1> HIDE DEF e
<1>6. Typed'
  BY <1>1, <1>2, <1>4, <1>5, Planned DEF RouteInv, Typed
<1>7. SeenInv' /\ ClaimInv'
  BY <1>1, <1>5 DEF RouteInv, SeenInv, Sending, ClaimInv
<1>8. AttemptInv'
  BY <1>1, <1>4 DEF RouteInv, AttemptInv, NotSeen, TerminalFailure, Channels
<1>9. ReasonInv'
  <2>1. \A f \in Events, d \in Channels :
          /\ attempt[f][d] \in TerminalFailure => attempt'[f][d] = attempt[f][d]
          /\ attempt'[f][d] # "none" /\ attempt[f][d] = "none" => f = e /\ d \in Jobs(e)
    BY <1>4 DEF TerminalFailure
  <2> QED
    BY <1>1, <1>2, <2>1, ReasonPlanned
<1> QED
  BY <1>6, <1>7, <1>8, <1>9 DEF RouteInv

-----------------------------------------------------------------------------
(* The claimed attempt: queued, and answered.                                *)

(* An answer of the channel c for the event in hand, which agrees with what  *)
(* the channel then holds.                                                   *)
Agrees(c, state) ==
    /\ state \in AttemptState \cup {"missing"} /\ state # "none"
    /\ c = "telegram" =>
         /\ state = "accepted" => outbox'[pass.event].state = "accepted"
         /\ state \in NotSeen => outbox'[pass.event].state \in {"missing", "canceled", "failed"}
    /\ c = "browser" =>
         /\ state = "accepted" => service'[pass.event] = "accepted"
         /\ state \in NotSeen => service'[pass.event] \in {"missing", "unavailable", "failed"}

LEMMA AnswerKeeps ==
  ASSUME RouteInv, NEW state, Answered(state), Agrees(pass.channel, state),
         pass.at \in {"enqueue", "answer"},
         UNCHANGED <<policy, known, routes, service, shown, progress>>,
         \/ UNCHANGED outbox
         \/ /\ pass.channel = "telegram" /\ outbox[pass.event].state = "missing"
            /\ \E lists \in SUBSET Lists :
                 outbox' = [outbox EXCEPT ![pass.event] = [state |-> "pending", lists |-> lists]]
  PROVE  RouteInv'
<1> DEFINE e == pass.event
           c == pass.channel
<1>1. /\ e \in Events /\ c \in Channels /\ attempt[e][c] = "enqueueing"
      /\ attempt \in [Events -> [Channels -> AttemptState]]
  BY DEF RouteInv, Typed, PassTyped, ClaimInv
<1>2. /\ attempt' = [attempt EXCEPT ![e][c] = Reconciled(@, state)]
      /\ pass' = [pass EXCEPT !.at = "claim", !.channel = None]
  BY DEF Answered
<1>3. LET new == Reconciled("enqueueing", state)
      IN  /\ new \in AttemptState /\ new # "none"
          /\ new = IF state = "missing" THEN "enqueueing" ELSE state
  BY DEF Agrees, Reconciled, TerminalFailure, AttemptState
<1>4. /\ attempt' \in [Events -> [Channels -> AttemptState]]
      /\ \A f \in Events, d \in Channels :
           attempt'[f][d] = IF f = e /\ d = c THEN Reconciled("enqueueing", state)
                            ELSE attempt[f][d]
  BY <1>1, <1>2, <1>3
<1>5. pass'.at = "claim" /\ PassTyped'
  <2>1. pass = [at |-> pass.at, event |-> e, step |-> pass.step, todo |-> pass.todo,
                channel |-> pass.channel] /\ progress \in Nat
    BY DEF RouteInv, Typed, PassTyped
  <2>2. pass' = [at |-> "claim", event |-> e, step |-> pass.step, todo |-> pass.todo,
                 channel |-> None]
    BY <1>2, <2>1
  <2> QED
    BY <1>1, <2>1, <2>2 DEF PassTyped
<1>6. /\ outbox' \in [Events -> Alerts]
      /\ \A f \in Events : \/ outbox'[f] = outbox[f]
                           \/ /\ f = e /\ c = "telegram" /\ outbox[f].state = "missing"
                              /\ outbox'[f].state = "pending"
  <2>1. outbox \in [Events -> Alerts]
    BY DEF RouteInv, Typed
  <2>2. CASE UNCHANGED outbox
    BY <2>1, <2>2
  <2>3. ASSUME c = "telegram", outbox[e].state = "missing", NEW lists \in SUBSET Lists,
               outbox' = [outbox EXCEPT ![e] = [state |-> "pending", lists |-> lists]]
        PROVE  /\ outbox' \in [Events -> Alerts]
               /\ \A f \in Events : \/ outbox'[f] = outbox[f]
                                    \/ /\ f = e /\ c = "telegram" /\ outbox[f].state = "missing"
                                       /\ outbox'[f].state = "pending"
    BY <1>1, <2>1, <2>3 DEF Alerts
  <2> QED
    BY <2>2, <2>3
<1> HIDE DEF e, c
<1>7. Typed'
  BY <1>4, <1>5, <1>6 DEF RouteInv, Typed
<1>8. SeenInv'
  BY <1>5, <1>6 DEF RouteInv, SeenInv, Sending
<1>9. AttemptInv'
  <2>1. "telegram" \in Channels /\ "browser" \in Channels
    BY DEF Channels
  <2>2. Agrees(c, state) /\ e = pass.event
    BY DEF c, e
  <2> QED
    BY <1>1, <1>3, <1>4, <1>6, <2>1, <2>2 DEF RouteInv, AttemptInv, Agrees, NotSeen, TerminalFailure
<1>10. ClaimInv'
  BY <1>5 DEF ClaimInv
<1>11. ReasonInv'
  BY <1>1, <1>3, <1>4, OtherChannel DEF RouteInv, ReasonInv, TerminalFailure
<1> QED
  BY <1>7, <1>8, <1>9, <1>10, <1>11 DEF RouteInv

LEMMA RouteTelegram ==
  ASSUME RouteInv, EnqueueTelegram
  PROVE  RouteInv'
<1> DEFINE e == pass.event
<1>1. /\ e \in Events /\ pass.at = "enqueue" /\ pass.channel = "telegram"
      /\ outbox[e].state \in {"missing", "pending", "sending", "unknown", "accepted", "failed",
                              "canceled"}
      /\ UNCHANGED <<policy, known, routes, service, shown, progress>>
  BY DEF EnqueueTelegram, environment, RouteInv, Typed, PassTyped, Alerts
<1>2. \/ outbox[e].state # "missing" /\ Answered(TelegramOutcome(e)) /\ UNCHANGED outbox
      \/ /\ outbox[e].state = "missing" /\ Answered("pending")
         /\ \E lists \in SUBSET Lists :
              outbox' = [outbox EXCEPT ![e] = [state |-> "pending", lists |-> lists]]
      \/ /\ outbox[e].state = "missing" /\ UNCHANGED outbox
         /\ Answered("canceled") \/ Answered("unavailable")
  BY DEF EnqueueTelegram
<1>3. CASE outbox[e].state # "missing" /\ Answered(TelegramOutcome(e)) /\ UNCHANGED outbox
  <2>1. Agrees("telegram", TelegramOutcome(e))
    BY <1>1, <1>3 DEF Agrees, TelegramOutcome, AttemptState, NotSeen, TerminalFailure
  <2> QED
    BY <1>1, <1>3, <2>1, AnswerKeeps
<1>4. CASE /\ outbox[e].state = "missing" /\ Answered("pending")
           /\ \E lists \in SUBSET Lists :
                outbox' = [outbox EXCEPT ![e] = [state |-> "pending", lists |-> lists]]
  <2>1. Agrees("telegram", "pending")
    BY DEF Agrees, AttemptState, NotSeen, TerminalFailure
  <2> QED
    BY <1>1, <1>4, <2>1, AnswerKeeps
<1>5. CASE /\ outbox[e].state = "missing" /\ UNCHANGED outbox
           /\ Answered("canceled") \/ Answered("unavailable")
  <2>1. Agrees("telegram", "canceled") /\ Agrees("telegram", "unavailable")
    BY <1>5 DEF Agrees, AttemptState, NotSeen, TerminalFailure
  <2> QED
    BY <1>1, <1>5, <2>1, AnswerKeeps
<1> QED
  BY <1>2, <1>3, <1>4, <1>5

LEMMA RouteAnswers ==
  ASSUME RouteInv, BrowserAnswers \/ BrowserSilent
  PROVE  RouteInv'
<1>1. /\ pass.event \in Events /\ pass.at \in {"enqueue", "answer"} /\ pass.channel = "browser"
      /\ UNCHANGED <<policy, known, routes, service, shown, progress, outbox>>
      /\ service[pass.event] \in Records
  BY DEF BrowserAnswers, BrowserSilent, environment, RouteInv, Typed, PassTyped, ClaimInv
<1>2. CASE BrowserAnswers
  <2>1. Agrees("browser", service[pass.event])
    BY <1>1 DEF Agrees, AttemptState, NotSeen, TerminalFailure, Records
  <2> QED
    BY <1>1, <1>2, <2>1, AnswerKeeps DEF BrowserAnswers
<1>3. CASE BrowserSilent
  <2>1. Agrees("browser", "unknown")
    BY DEF Agrees, AttemptState, NotSeen, TerminalFailure
  <2> QED
    BY <1>1, <1>3, <2>1, AnswerKeeps DEF BrowserSilent
<1> QED
  BY <1>2, <1>3

LEMMA RouteBrowser ==
  ASSUME RouteInv, EnqueueBrowser
  PROVE  RouteInv'
<1> DEFINE e == pass.event
<1>1. PICK state \in {"pending", "unavailable"} :
        service' = [service EXCEPT ![e] = IF @ = "missing" THEN state ELSE @]
  BY DEF EnqueueBrowser
<1>2. /\ e \in Events /\ pass.at = "enqueue" /\ pass.channel = "browser"
      /\ attempt[e]["browser"] = "enqueueing"
      /\ pass' = [pass EXCEPT !.at = "answer"]
      /\ UNCHANGED <<policy, known, routes, attempt, outbox, shown, progress>>
  BY DEF EnqueueBrowser, durable, RouteInv, Typed, PassTyped, ClaimInv
<1>3. /\ service' \in [Events -> Records]
      /\ \A f \in Events : service'[f] =
           IF f = e /\ service[f] = "missing" THEN state ELSE service[f]
  BY <1>1, <1>2 DEF RouteInv, Typed, Records
<1>4. /\ pass'.at = "answer" /\ pass'.event = e /\ pass'.channel = "browser"
      /\ PassTyped'
  <2>1. pass = [at |-> pass.at, event |-> e, step |-> pass.step, todo |-> pass.todo,
                channel |-> pass.channel] /\ progress \in Nat
    BY DEF RouteInv, Typed, PassTyped
  <2>2. pass' = [at |-> "answer", event |-> e, step |-> pass.step, todo |-> pass.todo,
                 channel |-> "browser"]
    BY <1>2, <2>1
  <2> QED
    BY <1>2, <2>1, <2>2 DEF PassTyped
<1> HIDE DEF e
<1>5. Typed'
  BY <1>2, <1>3, <1>4 DEF RouteInv, Typed
<1>6. SeenInv'
  BY <1>2, <1>3, <1>4 DEF RouteInv, SeenInv, Sending
<1>7. AttemptInv'
  BY <1>2, <1>3 DEF RouteInv, AttemptInv, NotSeen, TerminalFailure
<1>8. ClaimInv'
  BY <1>2, <1>4 DEF ClaimInv, Channels
<1> QED
  BY <1>2, <1>5, <1>6, <1>7, <1>8, AttemptsKept DEF RouteInv

-----------------------------------------------------------------------------
(* The flush.                                                                *)

(* The alerts of a group move on, as far as the attempts allow it.           *)
LEMMA AlertsMove ==
  ASSUME RouteInv, NEW group \in SUBSET Events,
         NEW state \in {"pending", "sending", "unknown", "accepted", "failed", "canceled"},
         Settle(group, state),
         \A e \in group : outbox[e].state \in {"pending", "sending"},
         UNCHANGED <<attempt, service>>
  PROVE  /\ outbox' \in [Events -> Alerts]
         /\ \A e \in Events :
              outbox'[e].state = IF e \in group THEN state ELSE outbox[e].state
         /\ AttemptInv'
<1>1. outbox \in [Events -> Alerts]
  BY DEF RouteInv, Typed
<1>2. \A e \in Events : /\ outbox'[e] \in Alerts
                        /\ outbox'[e].state = IF e \in group THEN state ELSE outbox[e].state
  BY <1>1 DEF Settle, Alerts
<1>3. outbox' \in [Events -> Alerts]
  BY <1>2 DEF Settle
<1>4. AttemptInv'
  BY <1>2 DEF RouteInv, AttemptInv, NotSeen, TerminalFailure
<1> QED
  BY <1>2, <1>3, <1>4

LEMMA RouteWithdraw ==
  ASSUME RouteInv, NEW e \in Events, FlushCancels(e)
  PROVE  RouteInv'
<1>1. /\ outbox[e].state = "pending" /\ Settle({e}, "canceled")
      /\ UNCHANGED <<policy, known, routes, attempt, service, shown, progress, pass>>
  BY DEF FlushCancels, Waiting, environment
<1>2. /\ outbox' \in [Events -> Alerts]
      /\ \A f \in Events : outbox'[f].state = IF f \in {e} THEN "canceled" ELSE outbox[f].state
      /\ AttemptInv'
  <2>1. {e} \in SUBSET Events /\ \A f \in {e} : outbox[f].state \in {"pending", "sending"}
    BY <1>1
  <2> QED
    BY <1>1, <2>1, AlertsMove
<1>3. Typed'
  BY <1>1, <1>2 DEF RouteInv, Typed, PassTyped
<1>4. SeenInv'
  BY <1>1, <1>2 DEF RouteInv, SeenInv, Sending
<1>5. ClaimInv'
  BY <1>1 DEF RouteInv, ClaimInv
<1> QED
  BY <1>1, <1>2, <1>3, <1>4, <1>5, AttemptsKept DEF RouteInv

LEMMA RouteGroup ==
  ASSUME RouteInv, NEW group \in SUBSET Events, ClaimGroup(group)
  PROVE  RouteInv'
<1>1. /\ pass.at = "flush" /\ Settle(group, "sending")
      /\ \A e \in group : outbox[e].state = "pending"
      /\ pass' = [pass EXCEPT !.at = "send", !.todo = group]
      /\ UNCHANGED <<policy, known, routes, attempt, service, shown, progress>>
  BY DEF ClaimGroup, Waiting, environment
<1>2. /\ outbox' \in [Events -> Alerts]
      /\ \A e \in Events : outbox'[e].state = IF e \in group THEN "sending" ELSE outbox[e].state
      /\ AttemptInv'
  BY <1>1, AlertsMove
<1>3. pass'.at = "send" /\ pass'.todo = group /\ PassTyped'
  <2>1. pass = [at |-> pass.at, event |-> pass.event, step |-> pass.step, todo |-> pass.todo,
                channel |-> pass.channel] /\ progress \in Nat
    BY DEF RouteInv, Typed, PassTyped
  <2>2. pass' = [at |-> "send", event |-> pass.event, step |-> pass.step, todo |-> group,
                 channel |-> pass.channel]
    BY <1>1, <2>1
  <2> QED
    BY <1>1, <2>1, <2>2 DEF PassTyped
<1>4. Typed'
  BY <1>1, <1>2, <1>3 DEF RouteInv, Typed
<1>5. SeenInv'
  <2>1. \A e \in Events : outbox[e].state # "sending"
    BY <1>1 DEF RouteInv, SeenInv, Sending
  <2> QED
    BY <1>1, <1>2, <1>3, <2>1 DEF RouteInv, SeenInv, Sending
<1>6. ClaimInv'
  BY <1>3 DEF ClaimInv
<1> QED
  BY <1>1, <1>2, <1>4, <1>5, <1>6, AttemptsKept DEF RouteInv

LEMMA RouteShown ==
  ASSUME RouteInv, GroupShown
  PROVE  RouteInv'
<1>1. /\ pass.at = "send" /\ pass' = [pass EXCEPT !.at = "sent"]
      /\ UNCHANGED <<policy, known, routes, attempt, outbox, service, progress>>
      /\ shown' = [e \in Events |->
           [shown[e] EXCEPT !.telegram = IF e \in pass.todo THEN @ + 1 ELSE @]]
  BY DEF GroupShown, durable
<1>2. \A e \in Events :
        /\ shown'[e] \in [browser : Nat, telegram : Nat]
        /\ shown'[e].browser = shown[e].browser
        /\ shown'[e].telegram = IF e \in pass.todo THEN shown[e].telegram + 1
                                ELSE shown[e].telegram
  BY <1>1 DEF RouteInv, Typed
<1>3. shown' \in [Events -> [browser : Nat, telegram : Nat]]
  BY <1>1, <1>2
<1>4. pass'.at = "sent" /\ pass'.todo = pass.todo /\ PassTyped'
  BY <1>1 DEF RouteInv, Typed, PassTyped
<1>5. Typed'
  BY <1>1, <1>3, <1>4 DEF RouteInv, Typed
<1>6. SeenInv'
  BY <1>1, <1>2, <1>4 DEF RouteInv, SeenInv, Sending
<1>7. AttemptInv'
  BY <1>1 DEF RouteInv, AttemptInv
<1>8. ClaimInv'
  BY <1>4 DEF ClaimInv
<1> QED
  BY <1>1, <1>5, <1>6, <1>7, <1>8, AttemptsKept DEF RouteInv

LEMMA RouteGroupEnds ==
  ASSUME RouteInv, GroupAccepted \/ GroupRefused \/ GroupSilent
  PROVE  RouteInv'
<1>1. PICK state \in {"pending", "failed", "unknown", "accepted"} :
        /\ GroupEnds(state)
        /\ pass.at \in {"send", "sent"}
        /\ state = "accepted" => pass.at = "sent"
        /\ state \in {"pending", "failed"} => pass.at = "send"
  BY DEF GroupAccepted, GroupRefused, GroupSilent
<1>2. /\ Settle(pass.todo, state) /\ pass' = [Resting EXCEPT !.at = "flush"]
      /\ UNCHANGED <<policy, known, routes, attempt, service, shown, progress>>
  BY <1>1 DEF GroupEnds, GoTo
<1> DEFINE group == {e \in Events : e \in pass.todo}
<1>3. \A e \in group : outbox[e].state = "sending"
  BY <1>1 DEF RouteInv, SeenInv, Sending
<1>4. /\ outbox' \in [Events -> Alerts]
      /\ \A e \in Events : outbox'[e].state = IF e \in group THEN state ELSE outbox[e].state
      /\ AttemptInv'
  <2>1. Settle(group, state)
    BY <1>2 DEF Settle
  <2>2. group \in SUBSET Events
    OBVIOUS
  <2> HIDE DEF group
  <2> QED
    BY <1>2, <1>3, <2>1, <2>2, AlertsMove
<1>5. pass'.at = "flush" /\ PassTyped'
  BY <1>2 DEF Resting, RouteInv, Typed, PassTyped
<1>6. Typed'
  BY <1>2, <1>4, <1>5 DEF RouteInv, Typed
<1>7. SeenInv'
  BY <1>1, <1>2, <1>3, <1>4, <1>5 DEF RouteInv, SeenInv, Sending
<1>8. ClaimInv'
  BY <1>5 DEF ClaimInv
<1> QED
  BY <1>2, <1>4, <1>6, <1>7, <1>8, AttemptsKept DEF RouteInv

-----------------------------------------------------------------------------
LEMMA RouteCrash ==
  ASSUME RouteInv, Crash
  PROVE  RouteInv'
<1>1. /\ pass' = Resting /\ known' = policy
      /\ UNCHANGED <<policy, routes, service, progress, shown>>
  BY DEF Crash
<1>2. \A e \in Events, c \in Channels :
        attempt'[e][c] = IF attempt[e][c] = "enqueueing" THEN "unknown" ELSE attempt[e][c]
  BY DEF Crash, Recovered
<1>3. \A e \in Events :
        /\ outbox'[e] \in Alerts
        /\ outbox'[e].state = IF outbox[e].state = "sending" THEN "unknown" ELSE outbox[e].state
  BY DEF Crash, Recovered, RouteInv, Typed, Alerts
<1>4. attempt' \in [Events -> [Channels -> AttemptState]]
  <2>1. \A e \in Events, c \in Channels : attempt'[e][c] \in AttemptState
    BY <1>2 DEF RouteInv, Typed, AttemptState
  <2>2. attempt' = [e \in Events |-> [c \in Channels |-> attempt'[e][c]]]
    BY DEF Crash
  <2> QED
    BY <2>1, <2>2
<1>5. outbox' \in [Events -> Alerts]
  BY <1>3 DEF Crash
<1>6. PassTyped' /\ pass'.at = "idle"
  BY <1>1 DEF Resting, RouteInv, Typed, PassTyped
<1>7. Typed'
  BY <1>1, <1>4, <1>5, <1>6 DEF RouteInv, Typed
<1>8. SeenInv'
  BY <1>1, <1>3, <1>6 DEF RouteInv, SeenInv, Sending
<1>9. AttemptInv'
  BY <1>1, <1>2, <1>3 DEF RouteInv, AttemptInv, NotSeen, TerminalFailure, Channels
<1>10. ClaimInv'
  BY <1>6 DEF ClaimInv
<1>11. ReasonInv'
  BY <1>1, <1>2, OtherChannel DEF RouteInv, ReasonInv, TerminalFailure
<1> QED
  BY <1>7, <1>8, <1>9, <1>10, <1>11 DEF RouteInv

LEMMA RouteStep == RouteInv /\ [Next]_vars => RouteInv'
<1> SUFFICES ASSUME RouteInv, [Next]_vars PROVE RouteInv'
  OBVIOUS
<1>1. CASE UNCHANGED vars
  <2>1. UNCHANGED <<policy, known, routes, attempt, outbox, service, shown, pass, progress>>
    BY <1>1 DEF vars
  <2>2. /\ PassTyped' /\ policy' \in [Lists -> [rev : Nat, mode : Settings]]
        /\ known' \in [Lists -> [rev : Nat, mode : Settings]]
    BY <2>1 DEF RouteInv, Typed, PassTyped
  <2> QED
    BY <2>1, <2>2, RouteUntouched
<1>2. CASE World
  BY <1>2, WorldQuiet, RouteSwitch, RoutePush DEF World
<1>3. CASE Pass
  BY <1>3, PassQuiet, RoutePage, RouteVisit, RouteCheck, RouteClaim, RouteTelegram, RouteBrowser,
     RouteAnswers, RouteWithdraw, RouteGroup, RouteShown, RouteGroupEnds DEF Pass
<1>4. CASE Crash
  BY <1>4, RouteCrash
<1> QED
  BY <1>1, <1>2, <1>3, <1>4 DEF Next

-----------------------------------------------------------------------------
(* A notification is shown at most once per channel (ShownOnce), over        *)
(* crashes, lost answers, groups, several lists and repeated pages.          *)
THEOREM NeverShownTwice == Spec => []ShownOnce
<1>1. Init => RouteInv
  BY RouteAtFirst
<1>2. RouteInv /\ [Next]_vars => RouteInv'
  BY RouteStep
<1>3. RouteInv => ShownOnce
  BY DEF RouteInv, SeenInv, ShownOnce, Channels
<1> QED
  BY <1>1, <1>2, <1>3, PTL DEF Spec

(* What the router records of an attempt is what happened: accepted was      *)
(* shown, a failure and a withdrawal were not (AttemptIsTruthful).           *)
THEOREM RecordsAreTrue == Spec => []AttemptIsTruthful
<1>1. Init => RouteInv
  BY RouteAtFirst
<1>2. RouteInv /\ [Next]_vars => RouteInv'
  BY RouteStep
<1>3. RouteInv => AttemptIsTruthful
  BY DEF RouteInv, SeenInv, AttemptInv, AttemptIsTruthful, Channels, NotSeen, TerminalFailure
<1> QED
  BY <1>1, <1>2, <1>3, PTL DEF Spec

(* Two devices show a notification only if lists ask for each of them as     *)
(* their own, never because a fallback followed an unclear primary           *)
(* (FallbackNeverDoubles).                                                   *)
THEOREM OnlyAskedTwice == Spec => []FallbackNeverDoubles
<1>1. Init => RouteInv
  BY RouteAtFirst
<1>2. RouteInv /\ [Next]_vars => RouteInv'
  BY RouteStep
<1>3. RouteInv => FallbackNeverDoubles
  <2> SUFFICES ASSUME RouteInv, NEW e \in Events, \A c \in Channels : shown[e][c] > 0,
                      NEW c \in Channels
      PROVE  \E l \in Lists : /\ routes[e][l].state # "none" /\ c \in routes[e][l].mode.channels
                              /\ routes[e][l].mode.primary \in {None, c}
    BY DEF FallbackNeverDoubles
  <2>1. \A d \in Channels : attempt[e][d] # "none" /\ attempt[e][d] \notin TerminalFailure
    <3>1. shown[e].telegram > 0 /\ shown[e].browser > 0
      BY DEF Channels
    <3>2. outbox[e].state \notin {"missing", "canceled", "failed"}
          /\ service[e] \notin {"missing", "unavailable", "failed"}
      BY <3>1 DEF RouteInv, SeenInv
    <3> QED
      BY <3>2 DEF RouteInv, AttemptInv, Channels, NotSeen
  <2>2. \E l \in Lists : Asks(routes[e][l], c)
    BY <2>1, OtherChannel DEF RouteInv, ReasonInv
  <2> QED
    BY <2>2 DEF Asks
<1> QED
  BY <1>1, <1>2, <1>3, PTL DEF Spec
==============================================================================
