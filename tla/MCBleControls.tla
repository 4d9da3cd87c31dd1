--------------------------- MODULE MCBleControls ---------------------------
(***************************************************************************)
(* An instance of BleControls for TLC: every control of every version but  *)
(* two.                                                                    *)
(***************************************************************************)
EXTENDS BleControls

MCSamples == {10, 2500}
MCSubjects == {s \in AllSubjects : ~Unfaithful(s)}

(* What the theorem about KeepsSetting asks of the constants.              *)
ASSUME FaithfulAssumption == Faithful
=============================================================================
