\* Two messages and another caller of hajime-wa.
SPECIFICATION Spec

CONSTANTS
  m1 = m1
  m2 = m2
  d1 = d1
  Sends = {m1, m2, d1}
  Messages = {m1, m2}
  MaxChanges = 2
  MaxFaults = 1

SYMMETRY MessageSymmetry

INVARIANTS
  AnswersAreHonest
  SentLeavesATrace
  ConfirmedInOrder

\* Everything ends.
CHECK_DEADLOCK FALSE
