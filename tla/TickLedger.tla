----------------------------- MODULE TickLedger -----------------------------
(***************************************************************************)
(* What the tick file promises, without the scheduler: a set of items that *)
(* have been handled, which only grows, and a durable claim about them     *)
(* that may lag or fall back but never runs ahead of what was handled.     *)
(* "After the tick, not before" (scheduler.rs:347) is this order.          *)
(***************************************************************************)
CONSTANT Items

VARIABLES
  handled,   \* items run, reported, or being run
  claimed    \* items the durable record says need no further attention

Init == handled = {} /\ claimed = {}

\* More items are handled; the claim does not move with them.
Handle ==
  /\ handled \subseteq handled'
  /\ handled' \subseteq Items
  /\ claimed' = claimed

\* The durable record is rewritten.
Claim ==
  /\ claimed' \subseteq handled
  /\ handled' = handled

Next == Handle \/ Claim

Spec == Init /\ [][Next]_<<handled, claimed>>
==============================================================================
