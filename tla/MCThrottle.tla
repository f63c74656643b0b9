----------------------------- MODULE MCThrottle -----------------------------
(* Settings of the throttle for the runs of Throttle, and the symmetry of    *)
(* the CPUs, under which only safety is checked.                             *)
EXTENDS Throttle, TLC

Symmetry == Permutations(CPUs)

Setting(r, b) == [rate_pps |-> r, burst_pkts |-> b]
Settings == {Setting(0, 0), Setting(8, 2), Setting(1, 1)}
SlowRate == {Setting(1, 1)}
=============================================================================
