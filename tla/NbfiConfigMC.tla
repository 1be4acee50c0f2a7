---------------------------- MODULE NbfiConfigMC ----------------------------
(***************************************************************************)
(* Values for NbfiConfig: two rates, two frequency plans, two alternatives *)
(* of which the second has its turn every other time.                      *)
(***************************************************************************)
EXTENDS NbfiConfig

SlowBoard == [tx |-> 0, rx |-> 0, fp |-> 0, fixed |-> FALSE]

TwoAlternatives ==
    <<[interval |-> 1, tx |-> 1, rx |-> 0, fp |-> 0],
      [interval |-> 2, tx |-> 0, rx |-> 0, fp |-> 1]>>

\* Channels of another protocol, or the fastest rates and plan 1, fixed.
ForeignOrFixed == {[tx |-> Foreign, rx |-> Foreign, fp |-> 0, fixed |-> FALSE],
                   [tx |-> 1, rx |-> 1, fp |-> 1, fixed |-> TRUE]}

\* Both rates may rise, or the plan is to change.
Answers == {[ul |-> TRUE, dl |-> TRUE, fp |-> NoChange],
            [ul |-> FALSE, dl |-> FALSE, fp |-> 1]}

AtAnAlternative == {Rates(TwoAlternatives[i]) : i \in 1 .. 2}
=============================================================================
