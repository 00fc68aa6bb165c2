---------------------------- MODULE MCDirectSend ----------------------------
(* Instances of DirectSend for TLC: the constants that are functions.      *)
EXTENDS DirectSend, TLC

CONSTANTS p1, p2, p3, r1, l1, l2, l3, l4

OneRoom == [p \in Proposals |-> r1]
AllNow == [p \in Proposals |-> "now"]
OneTimed == [p \in Proposals |-> IF p = p1 THEN "timed" ELSE "now"]
NowAndForeign == [p \in Proposals |-> IF p = p1 THEN "foreign" ELSE "now"]
TimedAndMalformed == [p \in Proposals |-> IF p = p1 THEN "timed" ELSE "malformed"]

(* l2: another manager of the organization of l1; l3: the same manager     *)
(* after the master was restored; l4: another organization.                *)
LinkIdentity == [l \in Links |-> IF l = l2 THEN "other_manager"
                                 ELSE IF l = l4 THEN "other_org" ELSE "first"]
LinkAuthority == [l \in Links |-> IF l = l4 THEN "other_key" ELSE "first_key"]
LinkEpoch == [l \in Links |-> IF l = l3 THEN "restored" ELSE "original"]
=============================================================================
