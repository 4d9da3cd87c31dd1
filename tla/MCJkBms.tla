------------------------------ MODULE MCJkBms ------------------------------
(***************************************************************************)
(* Instances of JkBms for TLC: five bytes for a status frame, four for the *)
(* shorter answers to a password and a write.                              *)
(***************************************************************************)
EXTENDS JkBms

MCSizeOf == [f \in Functions |-> IF f = "read_all" THEN 5 ELSE 4]
MCShort == [f \in Functions |-> 4]

=============================================================================
