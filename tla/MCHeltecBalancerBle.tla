------------------------ MODULE MCHeltecBalancerBle ------------------------
(***************************************************************************)
(* Instances of HeltecBalancerBle for TLC.  Two units make up the header   *)
(* and the shortest frame (a write acknowledge of 20 bytes), and three are *)
(* a settings frame of 150 bytes or a cell info frame of 300 bytes.        *)
(***************************************************************************)
EXTENDS HeltecBalancerBle

MCSizeOf == [t \in FrameTypes |-> IF t \in {"settings", "cell_info"} THEN 3 ELSE 2]

(* Fragments that span two frames: once everything the balancer sent has   *)
(* arrived and nothing was lost, every frame is decoded and the buffer is  *)
(* empty.  (tests/components/heltec_balancer_ble/assemble_test.cpp:176,    *)
(* FragmentSpanningTwoFramesDecodesBoth)                                   *)
NoFrameLeftUndecoded ==
  losses = 0 /\ forgeries = 0 /\ stream = << >> => frame_buffer_ = << >>

=============================================================================
