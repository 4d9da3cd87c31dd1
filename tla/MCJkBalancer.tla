---------------------------- MODULE MCJkBalancer ----------------------------
(***************************************************************************)
(* An instance of JkBalancer for TLC: two balancers on the line, one of    *)
(* them with a switch.                                                     *)
(***************************************************************************)
EXTENDS JkBalancer

MCDevices == {"first", "second"}
MCSwitched == {"first"}
=============================================================================
