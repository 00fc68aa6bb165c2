------------------------- MODULE MCSuggestionQueue -------------------------
(* Instance of SuggestionQueue for TLC: one conversation, with a suggestion *)
(* for it and a campaign item for it. No invitation is pending.            *)
EXTENDS SuggestionQueue, TLC

CONSTANTS t1, t2, r1, s1, c1, bot, eve

From(who) == [creator |-> who, inviters |-> {who}, space |-> FALSE, namedFor |-> who]
MCInvite == (r1 :> From(eve))
MCKind == (s1 :> "room") @@ (c1 :> "crm")
MCTarget == [s \in {s1, c1} |-> r1]
MCArrived == <<s1, c1>>

TabSymmetry == Permutations(Tabs)
=============================================================================
