---------------------------- MODULE MCAutomation ----------------------------
(***************************************************************************)
(* Automation on small instances.  A window of n ticks holds n + 1 ages.   *)
(***************************************************************************)
EXTENDS Automation, TLC

MCLimit == [hour |-> 2, minute |-> 1]
MCSpan == [hour |-> 2, minute |-> 0]

Symmetry == Permutations(Workers) \cup Permutations(Rules)
=============================================================================
