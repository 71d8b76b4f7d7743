---------------------------- MODULE MCEphemeralKey ----------------------------
(* Selections for TLC: ascending, descending, repeated, empty, out of range. *)
EXTENDS EphemeralKey

Ascending2 == {<<0>>, <<0, 1>>}
AllShapes == Ascending2 \cup {<<>>, <<1, 0>>, <<1, 1>>, <<0, 24>>}
=============================================================================
