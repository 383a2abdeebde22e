-------------------------- MODULE MCChannelMetrics --------------------------
(* The channel and its counters with two senders and two receivers; the      *)
(* DepthDrift configuration asks whether current_depth is exact at rest.     *)
EXTENDS ChannelMetrics, TLC
Symmetry == Permutations(Senders) \union Permutations(Receivers)
=============================================================================
