---------------------------- MODULE MCMeasuredBoot ----------------------------
(* Selections for TLC: the ascending ones, which a replay and a filter give. *)
EXTENDS MeasuredBoot

MCSelections == {SetToSortSeq(S, <) : S \in SUBSET (Pcrs \cup {Foreign})}
=============================================================================
