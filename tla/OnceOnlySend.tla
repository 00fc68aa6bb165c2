---------------------------- MODULE OnceOnlySend ----------------------------
(***************************************************************************)
(* What every path that puts a message on somebody's real account promises *)
(* about one item of work (a manager proposal, a scheduled message):       *)
(*                                                                         *)
(*   - the intent to dispatch is durable before anything leaves;           *)
(*   - at most one dispatch is ever issued for the item;                   *)
(*   - an item that was closed without an intent is never dispatched.      *)
(*                                                                         *)
(* DirectSend and ScheduledSend are shown to implement this specification. *)
(***************************************************************************)
EXTENDS Naturals

CONSTANT Items

VARIABLES
    intent,   \* items whose dispatch was committed to durable storage
    issued,   \* how many times each item was handed to the homeserver
    closed    \* items that need no further work

vars == <<intent, issued, closed>>

Init == /\ intent = {}
        /\ issued = [i \in Items |-> 0]
        /\ closed = {}

(* The decision to send becomes durable. *)
Commit(i) == /\ i \notin intent \cup closed
             /\ intent' = intent \cup {i}
             /\ UNCHANGED <<issued, closed>>

(* The one dispatch. Whether it took effect is not known to the sender. *)
Issue(i) == /\ i \in intent \ closed
            /\ issued[i] = 0
            /\ issued' = [issued EXCEPT ![i] = 1]
            /\ UNCHANGED <<intent, closed>>

(* The item reaches an outcome that is never revised. *)
Close(i) == /\ i \notin closed
            /\ closed' = closed \cup {i}
            /\ UNCHANGED <<intent, issued>>

Next == \E i \in Items : Commit(i) \/ Issue(i) \/ Close(i)

Spec == Init /\ [][Next]_vars

=============================================================================
