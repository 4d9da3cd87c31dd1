----------------------------- MODULE MCJkBmsBle -----------------------------
(***************************************************************************)
(* Instances of JkBmsBle for TLC.  A frame is three units up to its CRC    *)
(* (300 bytes); a long one has a fourth after it (320 bytes).              *)
(***************************************************************************)
EXTENDS JkBmsBle

MCFrameSizes == {3, 4}
=============================================================================
