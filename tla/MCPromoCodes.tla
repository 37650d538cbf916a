---------------------------- MODULE MCPromoCodes ----------------------------
(* PromoCodes on small instances: three or four checkouts race for a code  *)
(* an operator edits, disables, lowers, deletes and creates again.         *)
EXTENDS PromoCodes, TLC

CONSTANTS p1, p2

MCTerm(property, max, from, until, active) ==
  [property |-> property, maxUses |-> max, validFrom |-> from,
   validUntil |-> until, isActive |-> active]

MCTerms ==
  { MCTerm(Null, 1, Null, Null, TRUE),
    MCTerm(Null, 2, Null, 1, TRUE),
    MCTerm(Null, 2, Null, Null, FALSE),
    MCTerm(p1, Null, 1, Null, TRUE) }

MCSymmetry == Permutations(Checkouts)

=============================================================================
