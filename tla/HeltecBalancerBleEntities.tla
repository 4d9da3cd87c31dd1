---------------------- MODULE HeltecBalancerBleEntities ----------------------
(***************************************************************************)
(* What the entities of a Heltec balancer show over initialisations,       *)
(* frames, outages and connections.  The measurements of cell info stream; *)
(* the device info is asked for once per connection, yet an outage takes   *)
(* some of it back.  HeltecBalancerBle is about the frames reaching        *)
(* decode_; here an answer arrives or is lost.                             *)
(***************************************************************************)
EXTENDS HeltecBalancerBleFrames, OnlineTracker

CONSTANT Throttle  \* throttle_, in clock ticks

ASSUME ThrottleAssumption == Throttle \in Nat

InitStates == {"NEED_DEVICE_INFO", "NEED_SETTINGS", "NEED_CELL_INFO", "READY"}

VARIABLES
  balancer,     \* the version of the balancer
  established,  \* node_state is ESTABLISHED
  owed,         \* the frames the balancer is about to send in this connection
  init_state_,
  no_response_count_,
  online,       \* what online_status_binary_sensor_ shows
  elapsed,      \* ticks since last_cell_info_, counted up to Throttle
  shown,        \* what each entity shows: nothing yet, a live state, an invalid one
  measured      \* ghost: cell info was published since the last outage

link == <<established, owed, init_state_>>
vars == <<balancer, link, no_response_count_, online, elapsed, shown, measured>>

Entities == UNION {PublishedOf(balancer, type) : type \in FrameTypes}

-----------------------------------------------------------------------------
(* Fault: the current is forgotten when the balancer goes offline. *)
InvalidatedExceptCurrent ==
  { "operation_status_text", "balancing_binary", "error_charging_binary",
    "error_discharging_binary", "error_system_overheating_binary", "total_voltage",
    "temperature_sensor_1", "temperature_sensor_2", "mosfet_temperature",
    "balancer_temperature", "nominal_capacity", "capacity_remaining", "state_of_charge",
    "total_runtime", "power_on_count", "cell_detection_failed_bitmask",
    "cell_overvoltage_bitmask", "cell_undervoltage_bitmask", "cell_polarity_error_bitmask",
    "cell_excessive_line_resistance_bitmask", "cell_voltages", "cell_resistances" }
  \cup CellStatistics

(* What publish_device_unavailable_ takes back. *)
Invalidated == InvalidatedExceptCurrent \cup {"balancing_current"}

publish_device_unavailable_ ==
  /\ online' = "offline"
  /\ shown' = [e \in DOMAIN shown |-> IF e \in Invalidated THEN "invalid" ELSE shown[e]]
  /\ measured' = FALSE

track_online_status_ ==
  /\ no_response_count_' = Tracked(no_response_count_)
  /\ IF Expires(no_response_count_)
       THEN publish_device_unavailable_
       ELSE UNCHANGED <<online, shown, measured>>

(* Fault: the initialisation starts with the settings. *)
SettingsFirst ==
  CASE init_state_ \in {"NEED_DEVICE_INFO", "NEED_SETTINGS"} -> {"settings"}
    [] init_state_ = "NEED_CELL_INFO" -> {"cell_info"}
    [] init_state_ = "READY" -> {}

(* The command update sends in each state; its settling time is in         *)
(* HeltecBalancerBle.                                                      *)
Requests ==
  CASE init_state_ = "NEED_DEVICE_INFO" -> {"device_info"}
    [] init_state_ = "NEED_SETTINGS" -> {"settings"}
    [] init_state_ = "NEED_CELL_INFO" -> {"cell_info"}
    [] init_state_ = "READY" -> {}

Update ==
  /\ track_online_status_
  /\ owed' = IF established THEN owed \cup Requests ELSE owed
  /\ UNCHANGED <<balancer, established, init_state_, elapsed>>

-----------------------------------------------------------------------------
publish_(type) ==
  /\ shown' = [e \in DOMAIN shown |->
                 IF e \in PublishedOf(balancer, type) THEN "live" ELSE shown[e]]
  /\ measured' = (measured \/ type = "cell_info")

Publishes(type) ==
  IF type = "cell_info" /\ elapsed < Throttle
    THEN UNCHANGED <<elapsed, shown, measured>>
    ELSE /\ publish_(type)
         /\ elapsed' = IF type = "cell_info" THEN 0 ELSE elapsed

(* The state decode_ goes to, and the command it sends there. *)
NextState(type) ==
  CASE type = "device_info" -> "NEED_SETTINGS"
    [] type = "settings" -> "NEED_CELL_INFO"
    [] type = "cell_info" -> "READY"
    [] OTHER -> init_state_

(* Fault: the answer to the first command asks for cell info at once. *)
SkipsSettings(type) ==
  IF type \in {"device_info", "settings"} THEN {"cell_info"} ELSE {}

NextCommands(type) ==
  CASE type = "device_info" -> {"settings"}
    [] type = "settings" -> {"cell_info"}
    [] OTHER -> {}

(* decode_ with a frame the balancer was asked for.  Cell info, once asked *)
(* for, goes on streaming.                                                 *)
decode_(type) ==
  /\ established /\ type \in owed
  /\ no_response_count_' = 0 /\ online' = "online"
  /\ Publishes(type)
  /\ init_state_' = NextState(type)
  /\ owed' = (owed \ ({type} \ {"cell_info"})) \cup NextCommands(type)
  /\ UNCHANGED <<balancer, established>>

(* An answer is lost, or the request for it was; a frame lost from the     *)
(* stream leaves the stream as it is.                                      *)
LoseAnswer(type) ==
  /\ type \in owed /\ (type = "cell_info" => init_state_ # "READY")
  /\ owed' = owed \ {type}
  /\ UNCHANGED <<balancer, established, init_state_, no_response_count_, online, elapsed,
                 shown, measured>>

(* A button asks for a frame, or a control is used. *)
UseControl(type) ==
  /\ established /\ type # "cell_info"
  /\ owed' = owed \cup {type}
  /\ UNCHANGED <<balancer, established, init_state_, no_response_count_, online, elapsed,
                 shown, measured>>

(* ESP_GATTC_REG_FOR_NOTIFY_EVT and ESP_GATTC_DISCONNECT_EVT *)
Connect ==
  /\ ~established /\ established' = TRUE
  /\ init_state_' = "NEED_DEVICE_INFO"
  /\ UNCHANGED <<balancer, owed, no_response_count_, online, elapsed, shown, measured>>

Disconnect ==
  /\ established /\ established' = FALSE
  /\ init_state_' = "NEED_DEVICE_INFO" /\ owed' = {}
  /\ UNCHANGED <<balancer, no_response_count_, online, elapsed, shown, measured>>

Tick ==
  /\ elapsed < Throttle /\ elapsed' = elapsed + 1
  /\ UNCHANGED <<balancer, link, no_response_count_, online, shown, measured>>

Init ==
  /\ balancer \in Versions
  /\ established = FALSE /\ owed = {} /\ init_state_ = "NEED_DEVICE_INFO"
  /\ no_response_count_ = 0 /\ online = "unknown"
  /\ elapsed = 0
  /\ shown = [e \in Entities |-> "none"]
  /\ measured = FALSE

Next ==
  \/ Update \/ Tick \/ Connect \/ Disconnect
  \/ \E type \in FrameTypes : decode_(type) \/ LoseAnswer(type) \/ UseControl(type)

Spec == Init /\ [][Next]_vars

(* Polls and time go on, a lost connection is made again and often enough  *)
(* lasts for a poll, and a balancer that is asked often enough is heard.   *)
FairSpec ==
  /\ Spec /\ WF_vars(Update) /\ WF_vars(Tick) /\ WF_vars(Connect)
  /\ SF_vars(established /\ Update)
  /\ \A type \in {"device_info", "settings", "cell_info"} : SF_vars(decode_(type))

-----------------------------------------------------------------------------
(***************************************************************************)
(* Properties.                                                             *)
(***************************************************************************)
(* Every variable stays in its type (decode_, the tracker).                *)
TypeOK ==
  /\ balancer \in Versions /\ established \in BOOLEAN
  /\ owed \subseteq FrameTypes /\ init_state_ \in InitStates
  /\ no_response_count_ \in RestingCounts
  /\ online \in {"unknown", "online", "offline"}
  /\ elapsed \in 0 .. Throttle
  /\ shown \in [Entities -> {"none", "live", "invalid"}]
  /\ measured \in BOOLEAN

(* Every measurement of cell info shows a live state just if cell info was *)
(* published since the last outage; none goes stale, none is left behind   *)
(* (publish_device_unavailable_ against both decoders of cell info).       *)
MeasurementsFollowFrames ==
  \A e \in PublishedOf(balancer, "cell_info") : (shown[e] = "live") <=> measured

(* Each of them keeps the availability contract of Availability.tla: the   *)
(* balancer is declared offline by the poll that takes it back, and it     *)
(* shows a live state by nothing but a frame (update(), decode_() and      *)
(* publish_device_unavailable_).                                           *)
A(e) == INSTANCE Availability WITH
          Patience <- MaxNoResponse,
          telemetry <- shown[e],
          silence <- IF no_response_count_ > MaxNoResponse THEN MaxNoResponse
                                                           ELSE no_response_count_
MeasurementsKeepContract ==
  /\ \A e \in PublishedOf(balancer, "cell_info") : A(e)!Init
  /\ [][\A e \in PublishedOf(balancer, "cell_info") :
          A(e)!Next \/ UNCHANGED A(e)!vars]_vars

(* READY never hides settings that have shown nothing at all, even when a  *)
(* button overtakes the initialisation: cell info is asked for only after  *)
(* the settings that fix its layout (decode_, update).                     *)
ReadyShowsSettings ==
  init_state_ = "READY" =>
    \A e \in PublishedOf(balancer, "settings") : shown[e] # "none"

(* The counters of the device info come back too, but it takes a new       *)
(* connection, as no poll asks for them in READY, and a user who does not  *)
(* overtake every initialisation with the settings button, which skips     *)
(* the device info (decode_).                                              *)
Overtakes == init_state_ = "NEED_DEVICE_INFO" /\ UseControl("settings")

CountersReturnWithConnections ==
  ([]<>~established) /\ (<>[][~Overtakes]_vars) =>
    ((shown["total_runtime"] = "invalid") ~> (shown["total_runtime"] = "live"))

=============================================================================
