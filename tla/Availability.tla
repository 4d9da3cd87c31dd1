---------------------------- MODULE Availability ----------------------------
(***************************************************************************)
(* What a driver promises to the home automation system about one battery: *)
(* it is shown online from the first frame on, it is announced offline by  *)
(* exactly the Patience-th poll in a row that no frame answered, and while *)
(* it is offline the sensors an outage invalidates show no measurement.    *)
(* No protocol is mentioned: each driver with an online status is meant to *)
(* implement this module.                                                  *)
(***************************************************************************)
EXTENDS Naturals

CONSTANT Patience  \* consecutive unanswered polls that make a device offline

VARIABLES
  online,     \* the online status binary sensor
  telemetry,  \* the sensors an outage invalidates: never published, live, invalid
  silence     \* polls since the last frame, counted up to Patience

vars == <<online, telemetry, silence>>

Init ==
  /\ online = "unknown"
  /\ telemetry = "none"
  /\ silence = 0

(* A frame of any type shows the device online; it may carry measurements. *)
FrameArrives ==
  /\ online' = "online"
  /\ silence' = 0
  /\ telemetry' \in {telemetry, "live"}

UnansweredPoll ==
  /\ silence < Patience - 1
  /\ silence' = silence + 1
  /\ UNCHANGED <<online, telemetry>>

DeclaredOffline ==
  /\ silence = Patience - 1
  /\ silence' = Patience
  /\ online' = "offline"
  /\ telemetry' = "invalid"

Poll == UnansweredPoll \/ DeclaredOffline

Next == FrameArrives \/ Poll

Safety == Init /\ [][Next]_vars

Spec == Safety /\ WF_vars(Poll)

=============================================================================
