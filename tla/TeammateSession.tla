-------------------------- MODULE TeammateSession --------------------------
(***************************************************************************)
(* The teammate app as a set of browser tabs of one account: signing in    *)
(* and out, the model of the joined conversations each tab seeds from a    *)
(* snapshot, and the automatic acceptance of bridge invitations, which the *)
(* tab does after a question to the user and the account sync service does *)
(* as well once the account data says that the user has answered yes       *)
(* (src/apps/user/main.js, src/apps/user/invites.js).                      *)
(* Every tab is a browser profile of its own.  One pass over the invitations *)
(* runs at a time in a tab; a pass that starts while the question of an    *)
(* earlier one is on the screen replaces it, as confirmModal does.         *)
(***************************************************************************)
EXTENDS Naturals, FiniteSets, Sequences

CONSTANTS
    Tabs,        \* the browser profiles in which the app is open
    Rooms,       \* the conversations and spaces of the account
    Bots,        \* the code-owned bridge bots (SOURCES[].botMxid)
    Invite,      \* the stripped facts of each invitation: creator, inviters, space, namedFor
    Joined,      \* the rooms the account is in from the start
    MaxJoins,    \* AUTOJOIN_MAX_JOINS, per pass
    MaxSession,  \* AUTOJOIN_MAX_SESSION, per session
    MaxLogins,   \* bound: sign-ins of all tabs
    MaxAsked,    \* bound: things a user, the manager or a fault asks for, in all
    None

VARIABLES
    token,       \* the session of a tab: the number of its sign-in, 0 when signed out
    logins,      \* how many sign-ins there were
    asked,       \* how many things were asked for
    member,      \* the rooms the account is in, on the homeserver
    known,       \* S.joinedSet and feedModel of a tab
    pass,        \* the pass over the invitations that runs in a tab
    refused,     \* userJoinFailed: invitations a tab gave up in this session
    joins,       \* autojoinSessionJoined
    saidYes,     \* localStorage beepa_autojoin_ack: this browser was told yes
    ack          \* account data com.jkali.autojoin_ack says {ok: true}

sessionVars == <<token, logins, asked, member, known, pass, refused, joins, saidYes, ack>>

exceptAsked == <<token, logins, member, known, pass, refused, joins, saidYes, ack>>

NoPass == [at |-> "idle", todo |-> {}]

SessionInit ==
    /\ token = [t \in Tabs |-> 0]
    /\ logins = 0
    /\ asked = 0
    /\ member = Joined
    /\ known = [t \in Tabs |-> {}]
    /\ pass = [t \in Tabs |-> NoPass]
    /\ refused = [t \in Tabs |-> {}]
    /\ joins = [t \in Tabs |-> 0]
    /\ saidYes = [t \in Tabs |-> FALSE]
    /\ ack = FALSE

Ask == /\ asked < MaxAsked
       /\ asked' = asked + 1

SignedIn(t) == token[t] # 0

-----------------------------------------------------------------------------
(* Sessions. enterApp seeds the feed before it does anything else.         *)
SignIn(t) ==
    /\ ~SignedIn(t)
    /\ logins < MaxLogins
    /\ logins' = logins + 1
    /\ token' = [token EXCEPT ![t] = logins + 1]
    /\ known' = [known EXCEPT ![t] = member]
    /\ UNCHANGED <<asked, member, pass, refused, joins, saidYes, ack>>

(* Signing out, or an answer 401 to a request of the current session. A    *)
(* pass that is under way goes on: its joins are refused from now on.      *)
SignOut(t) ==
    /\ SignedIn(t)
    /\ Ask
    /\ token' = [token EXCEPT ![t] = 0]
    /\ known' = [known EXCEPT ![t] = {}]
    /\ refused' = [refused EXCEPT ![t] = {}]
    /\ joins' = [joins EXCEPT ![t] = 0]
    /\ UNCHANGED <<logins, member, pass, saidYes, ack>>

(* The feed is seeded again from a snapshot: a room is listed only if the  *)
(* account is in it.                                                       *)
SeedFeed(t) ==
    /\ SignedIn(t)
    /\ known[t] # member
    /\ known' = [known EXCEPT ![t] = member]
    /\ UNCHANGED <<token, logins, asked, member, pass, refused, joins, saidYes, ack>>

-----------------------------------------------------------------------------
\* An invitation of a bridge bot, whoever else added to it.
MutAdmitted(r) == LET i == Invite[r] IN i.creator \in Bots /\ i.creator \in i.inviters

(* Exactly one inviter, who is the creator and a bridge bot; the name of a *)
(* space must belong to the source of the same bot.                        *)
Admitted(r) ==
    LET i == Invite[r] IN
    /\ i.creator \in Bots
    /\ i.inviters = {i.creator}
    /\ i.space => i.namedFor = i.creator

Pending == Rooms \ member

(* The invitations of a snapshot that the tab has not dealt with, cut at   *)
(* the cap (the caller takes the first ones in the order of their ids).    *)
Fresh(t) == {r \in Pending : r \notin known[t] /\ r \notin refused[t] /\ Admitted(r)}
Batches(t) ==
    {b \in SUBSET Fresh(t) :
        Cardinality(b) = IF Cardinality(Fresh(t)) < MaxJoins THEN Cardinality(Fresh(t))
                                                             ELSE MaxJoins}

StartPass(t) ==
    /\ SignedIn(t)
    /\ pass[t].at # "join"
    /\ Fresh(t) # {}
    /\ \E b \in Batches(t) :
        pass' = [pass EXCEPT ![t] = [at |-> IF saidYes[t] THEN "join" ELSE "ask", todo |-> b]]
    /\ UNCHANGED <<token, logins, asked, member, known, refused, joins, saidYes, ack>>

(* The answer to the question. Only a yes is remembered, and written for   *)
(* the sync service; the write may fail, and the joins go on.              *)
Answer(t, yes) ==
    /\ pass[t].at = "ask"
    /\ Ask
    /\ pass' = [pass EXCEPT ![t] = IF yes THEN [@ EXCEPT !.at = "join"] ELSE NoPass]
    /\ saidYes' = [saidYes EXCEPT ![t] = @ \/ yes]
    /\ \E landed \in BOOLEAN : ack' = (ack \/ (yes /\ landed /\ SignedIn(t)))
    /\ UNCHANGED <<token, logins, member, known, refused, joins>>

(* One room of the pass: joined, refused for good, or left for later. The  *)
(* cap of the session is read before each join.                            *)
Join(t, r) ==
    /\ pass[t].at = "join"
    /\ r \in pass[t].todo
    /\ joins[t] < MaxSession
    /\ pass' = [pass EXCEPT ![t].todo = @ \ {r}]
    /\ \/ /\ SignedIn(t)
          /\ member' = member \cup {r}
          /\ joins' = [joins EXCEPT ![t] = @ + 1]
          /\ UNCHANGED refused
       \/ /\ SignedIn(t)
          /\ r \notin member
          /\ refused' = [refused EXCEPT ![t] = @ \cup {r}]
          /\ UNCHANGED <<member, joins>>
       \/ UNCHANGED <<member, joins, refused>>
    /\ UNCHANGED <<token, logins, asked, known, saidYes, ack>>

EndPass(t) ==
    /\ pass[t].at = "join"
    /\ pass[t].todo = {} \/ joins[t] >= MaxSession
    /\ pass' = [pass EXCEPT ![t] = NoPass]
    /\ UNCHANGED <<token, logins, asked, member, known, refused, joins, saidYes, ack>>

(* A browser that was told yes writes the account data when it finds none. *)
MigrateAck(t) ==
    /\ SignedIn(t)
    /\ saidYes[t]
    /\ ~ack
    /\ ack' = TRUE
    /\ UNCHANGED <<token, logins, asked, member, known, pass, refused, joins, saidYes>>

(* The invites stage of the sync service: nothing before the account data  *)
(* says yes, and the same predicate.                                       *)
DaemonJoin(r) ==
    /\ ack
    /\ r \in Pending
    /\ Admitted(r)
    /\ member' = member \cup {r}
    /\ UNCHANGED <<token, logins, asked, known, pass, refused, joins, saidYes, ack>>

SessionNext ==
    \/ \E t \in Tabs :
        \/ SignIn(t) \/ SignOut(t) \/ SeedFeed(t) \/ StartPass(t) \/ EndPass(t) \/ MigrateAck(t)
        \/ \E yes \in BOOLEAN : Answer(t, yes)
        \/ \E r \in Rooms : Join(t, r)
    \/ \E r \in Rooms : DaemonJoin(r)

-----------------------------------------------------------------------------
(* A conversation becomes part of the account, in the tab or through the   *)
(* sync service that runs while no tab is open, only if its one inviter is *)
(* the bridge bot that made it, and only after the user said yes in some   *)
(* browser: declining, or never being asked, opens nothing.                *)
JoinedAfterYes ==
    \A r \in member \ Joined :
        /\ Invite[r].inviters = {Invite[r].creator} /\ Invite[r].creator \in Bots
        /\ \E t \in Tabs : saidYes[t]
=============================================================================
