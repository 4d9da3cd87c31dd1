-------------------------- MODULE JkBmsBleEntities --------------------------
(***************************************************************************)
(* What the entities of a JK BMS on BLE show over frames, polls and        *)
(* outages: a decoded frame publishes the entities of its fields, and the  *)
(* poll that finds the device gone takes a list of entities back, written  *)
(* down far from the decoders.  JkBmsBle is about the frames reaching      *)
(* decode_; here they simply do.                                           *)
(***************************************************************************)
EXTENDS JkBmsBleFrames, OnlineTracker

CONSTANT Throttle  \* throttle_, in clock ticks

ASSUME ThrottleAssumption == Throttle \in Nat

VARIABLES
  version,             \* protocol_version_
  no_response_count_,
  online,              \* what online_status_binary_sensor_ shows
  elapsed,             \* ticks since last_cell_info_, counted up to Throttle
  shown,               \* what each entity shows: nothing yet, a live state, an invalid one
  heard                \* ghost: frame types decoded since the last outage

vars == <<version, no_response_count_, online, elapsed, shown, heard>>

Entities(v) == UNION {Published(FieldsOf(v, type)) : type \in FrameTypes}

-----------------------------------------------------------------------------
(* Fault: a sensor forgotten in publish_device_unavailable_. *)
InvalidatedExceptHeating ==
  { "errors_text", "balancing_binary", "precharging_binary", "charging_binary",
    "discharging_binary", "heating_binary", "dry_contact_1_binary", "dry_contact_2_binary",
    "total_voltage", "current", "power", "charging_power", "discharging_power",
    "mosfet_temperature", "balancer_status_bitmask", "state_of_charge", "state_of_health",
    "capacity_remaining", "full_charge_capacity", "charging_cycles",
    "total_charging_cycle_capacity", "total_runtime", "balancing_current",
    "cell_voltages", "cell_resistances", "temperature_1", "temperature_2", "temperature_3",
    "temperature_4", "temperature_5" } \cup CellStatistics

(* What publish_device_unavailable_ takes back: it publishes NaN, the text *)
(* "Offline", or invalidates a binary sensor.                              *)
Invalidated == InvalidatedExceptHeating \cup {"heating_current"}

publish_device_unavailable_ ==
  /\ online' = "offline"
  /\ shown' = [e \in DOMAIN shown |-> IF e \in Invalidated THEN "invalid" ELSE shown[e]]
  /\ heard' = {}

track_online_status_ ==
  /\ no_response_count_' = Tracked(no_response_count_)
  /\ IF Expires(no_response_count_)
       THEN publish_device_unavailable_
       ELSE UNCHANGED <<online, shown, heard>>

(* update; its request is left to JkBmsBle. *)
Update == track_online_status_ /\ UNCHANGED <<version, elapsed>>

publish_(type) ==
  /\ shown' = [e \in DOMAIN shown |->
                 IF e \in Published(FieldsOf(version, type)) THEN "live" ELSE shown[e]]
  /\ heard' = heard \cup {type}

(* Fault: a frame that comes too early restarts the throttle. *)
RestartsThrottle(type) ==
  IF type # "cell_info"
    THEN publish_(type) /\ UNCHANGED elapsed
    ELSE /\ elapsed' = 0
         /\ IF elapsed < Throttle THEN UNCHANGED <<shown, heard>> ELSE publish_(type)

(* The decoder of the type; the ones for cell info start with the throttle. *)
Publishes(type) ==
  IF type # "cell_info"
    THEN publish_(type) /\ UNCHANGED elapsed
    ELSE IF elapsed < Throttle
           THEN UNCHANGED <<elapsed, shown, heard>>
           ELSE elapsed' = 0 /\ publish_(type)

(* decode_ with a frame of this type. *)
decode_(type) ==
  /\ no_response_count_' = 0
  /\ online' = "online"
  /\ Publishes(type)
  /\ UNCHANGED version

Tick ==
  /\ elapsed < Throttle
  /\ elapsed' = elapsed + 1
  /\ UNCHANGED <<version, no_response_count_, online, shown, heard>>

Init ==
  /\ version \in Versions
  /\ no_response_count_ = 0 /\ online = "unknown"
  /\ elapsed = 0
  /\ shown = [e \in Entities(version) |-> "none"]
  /\ heard = {}

Next == Update \/ (\E type \in FrameTypes : decode_(type)) \/ Tick

Spec == Init /\ [][Next]_vars

(* A battery that streams cell info, and time that passes. *)
FairSpec == Spec /\ WF_vars(decode_("cell_info")) /\ WF_vars(Tick)

-----------------------------------------------------------------------------
(***************************************************************************)
(* Properties.                                                             *)
(***************************************************************************)
(* Every variable stays in its type (the tracker and publish_ functions).  *)
TypeOK ==
  /\ version \in Versions
  /\ no_response_count_ \in RestingCounts
  /\ online \in {"unknown", "online", "offline"}
  /\ elapsed \in 0 .. Throttle
  /\ shown \in [Entities(version) -> {"none", "live", "invalid"}]
  /\ heard \subseteq FrameTypes

(* The measurements an outage leaves as they were: counters and texts of   *)
(* cell info that publish_device_unavailable_ does not name, and the       *)
(* emergency switch.                                                       *)
KeptMeasurements ==
  { "errors_bitmask_hex_text", "balancer_status_text", "total_runtime_formatted_text",
    "smart_sleep_countdown", "emergency_switch", "emergency_time_countdown",
    "detail_log_entry_count", "battery_type_id", "battery_type_text",
    "charge_status_time_elapsed", "charge_status_id", "charge_status_text" }

(* Every measurement but those named above shows a live state just if cell *)
(* info was published since the last outage: nothing else goes stale, and  *)
(* no decoder leaves one of them behind when the device is back            *)
(* (publish_device_unavailable_ against the decoders).                     *)
Measurements == Published(FieldsOf(version, "cell_info")) \ KeptMeasurements

MeasurementsFollowFrames ==
  \A e \in Measurements : (shown[e] = "live") <=> ("cell_info" \in heard)

(* Each of those measurements keeps the availability contract of           *)
(* Availability.tla: the device is declared offline by the poll that takes *)
(* it back, and it shows a live state by nothing but a frame (update(),    *)
(* decode_() and publish_device_unavailable_).                             *)
A(e) == INSTANCE Availability WITH
          Patience <- MaxNoResponse,
          telemetry <- shown[e],
          silence <- IF no_response_count_ > MaxNoResponse THEN MaxNoResponse
                                                           ELSE no_response_count_
MeasurementsKeepContract ==
  /\ \A e \in Measurements : A(e)!Init
  /\ [][\A e \in Measurements : A(e)!Next \/ UNCHANGED A(e)!vars]_vars

(* After an outage a battery that streams again gets its measurements      *)
(* shown again, although the throttle may swallow the first frames.        *)
MeasurementsReturn ==
  (online = "offline") ~>
    (\A e \in Published(FieldsOf(version, "cell_info")) : shown[e] = "live")

=============================================================================
