---------------------------- MODULE MCBgRegistry ----------------------------
(* The instances of BgRegistry that TLC checks. *)
EXTENDS BgRegistry, TLC

CONSTANTS w1, p1, p2, p3

OneWaiter == {w1}
NoWaiter == {}
ThreePids == {p1, p2, p3}
TwoPids == {p1, p2}
OnePid == {p1}

(* No definition tells one pid from another: only equality is asked. *)
PidSymmetry == Permutations(Pids)
=============================================================================
