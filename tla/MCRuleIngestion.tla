--------------------------- MODULE MCRuleIngestion ---------------------------
(***************************************************************************)
(* Texts about one tax of one state: a complete one; two with a label that *)
(* has nothing behind it, on the last line, or with a line to follow that  *)
(* is then taken for the date; and one that speaks of the previous         *)
(* deadline date first and has a line taken for the tax type.  They come   *)
(* from the source of that state, named as a source or by the state.       *)
(***************************************************************************)
EXTENDS RuleIngestion, TLC

CONSTANTS ca, strayTax, stateCa, c1, t1, llc

MCKey == {ca, strayTax}
MCJurisdictionOf == [k \in Key |-> ca]
MCValue == {"income", "CA", "llc", "10", "12", "2026", "another line"}
MCKeyIn == [v \in Value \X Value |-> IF v[1] = "income" THEN ca ELSE strayTax]
MCEntitiesIn == [v \in Value |-> IF v = "llc" THEN {llc} ELSE {}]
MCDateIn == [v \in Value |-> CASE v = "10" -> 10 [] v = "12" -> 12 [] OTHER -> BadDate]
MCEntityOf == [c \in Client |-> llc]
MCTenantOf == [c \in Client |-> t1]
MCStateSource == [s \in State |-> stateCa]

MCSymmetry == Permutations(Publisher)

\* A label with what stands behind it, and a line without a label.
Labelled(f, value) ==
    [whole |-> "another line", after |-> [g \in Field |-> IF g = f THEN value ELSE Absent]]
Plain(value) == [whole |-> value, after |-> [g \in Field |-> Absent]]

Complete == <<Labelled("tax_type", "income"), Labelled("jurisdiction", "CA"),
              Labelled("entity_types", "llc"), Labelled("deadline_date", "10"),
              Labelled("effective_from", "2026")>>

Emptied(i) == [Complete EXCEPT ![i].after = [f \in Field |->
                 IF @[f] = Absent THEN Absent ELSE Empty]]

MCText ==
    {Complete, Emptied(4), Emptied(5),
     <<Labelled("deadline_date", "12")>> \o Emptied(1)}

MCCommand == {[key |-> ca, entities |-> {llc}, date |-> 10]}

=============================================================================
