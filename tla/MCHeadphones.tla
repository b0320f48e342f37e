---------------------------- MODULE MCHeadphones ----------------------------
(* A small instance of Headphones for TLC.                                  *)
EXTENDS Headphones, TLC

\* Off, at the level that setChanges() also sends: a record that lags is told
\* from the headphones' setting by the effect being on or off.
MCOwnSettings == {[effect |-> 0, kind |-> 1, voice |-> 0, level |-> 20]}

Symmetry == Permutations(Values)
=============================================================================
