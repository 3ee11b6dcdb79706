--------------------------- MODULE MCEventBacktest --------------------------
(* Two days of bars that are flat, fall, or open with a gap.               *)
EXTENDS EventBacktest

Bar(o, h, l, c) == [open |-> o, high |-> h, low |-> l, close |-> c]
MCBars == {Bar(100, 101, 99, 100), Bar(99, 100, 97, 98), Bar(97, 98, 96, 97)}
MCRuleLists == {<<"stop_loss">>}
MCAmount == [stop_loss |-> 2]
=============================================================================
