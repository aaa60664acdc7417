--------------------------- MODULE MCRuleLibrary ---------------------------
(***************************************************************************)
(* Instances of RuleLibrary for TLC: one state tax and one federal tax,    *)
(* two clients of two tenants, with an entity type each.                   *)
(***************************************************************************)
EXTENDS RuleLibrary, TLC

CONSTANTS ca, fed, c1, c2, t1, t2, llc, corp

MCJurisdictionOf == [k \in Key |-> IF k = fed THEN Federal ELSE ca]
MCEntityOf == [c \in Client |-> IF c = c1 THEN llc ELSE corp]
MCOneEntity == [c \in Client |-> llc]
MCSymmetry == Permutations(Publisher)

MCTenantOf == [c \in Client |-> IF c = c1 THEN t1 ELSE t2]

=============================================================================
