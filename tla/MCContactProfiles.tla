------------------------- MODULE MCContactProfiles -------------------------
(* Instance of ContactProfiles for TLC: one tab (its edit and its          *)
(* enrichment overlap), two conversations of one number, one joined and    *)
(* one that a bridge bot invites to, and an invitation that somebody else  *)
(* added to. An older version left one conversation in two contacts.       *)
EXTENDS ContactProfiles, TLC

CONSTANTS t1, r1, b1, b2, h1, bot, eve

From(who, inviters) == [creator |-> who, inviters |-> inviters, space |-> FALSE,
                        namedFor |-> who]
MCInvite == (b1 :> From(bot, {bot})) @@ (b2 :> From(bot, {bot, eve})) @@ (r1 :> From(eve, {eve}))
MCNumber == (r1 :> 1) @@ (b1 :> 1) @@ (b2 :> None)
MCFirstStore ==
    <<[id |-> 1, name |-> "Ann", rooms |-> {r1}, handles |-> {}, share |-> "private"],
      [id |-> 2, name |-> "Bob", rooms |-> {r1}, handles |-> {h1}, share |-> "inherit"]>>
=============================================================================
