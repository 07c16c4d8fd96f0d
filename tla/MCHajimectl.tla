---------------------------- MODULE MCHajimectl ----------------------------
(***************************************************************************)
(* hajimectl over four rows of the repository's table, with the            *)
(* requirements among them.                                                *)
(***************************************************************************)
EXTENDS Hajimectl, ServiceTable, TLC

CONSTANT Rows

MCStartOrder == SelectSeq(SERVICES, LAMBDA s : s \in Rows)
MCMb == Restrict(TypicalMb, Rows)
MCEssential == EssentialTier \cap Rows
MCRequirements == REQUIREMENTS \cap (Rows \X Rows)

SessionSymmetry == Permutations(Sessions)
=============================================================================
