----------------------- MODULE HeltecBalancerBleFrames -----------------------
(***************************************************************************)
(* The frames of a Heltec balancer as the decoders of heltec_balancer_ble  *)
(* read them: for each protocol version, frame type and frame size, the    *)
(* fields with the entities they are published to.                         *)
(***************************************************************************)
EXTENDS Fields

Versions == {"V1", "V2"}
FrameTypes == {"device_info", "cell_info", "factory_defaults", "settings", "write_register"}

Floats(first, last) == {Logged(at, 4) : at \in {n \in first .. last : (n - first) % 4 = 0}}

-----------------------------------------------------------------------------
(***************************************************************************)
(* decode_cell_arrays_, shared by both versions.                           *)
(***************************************************************************)
CellStatistics ==
  {"min_cell_voltage", "max_cell_voltage", "min_voltage_cell", "max_voltage_cell",
   "delta_cell_voltage", "average_cell_voltage"}

cell_arrays ==
  { Value(9, 24 * 4, {"cell_voltages"} \cup CellStatistics),
    Value(105, 24 * 4, {"cell_resistances"}) }

(***************************************************************************)
(* decode_cell_info_ and decode_cell_info_v2_                              *)
(***************************************************************************)
OperationStatus == Value(216, 1, {"balancing_binary", "operation_status_text"})

cell_info_measurements ==
  { Logged(8, 1),
    Float(201, "total_voltage"),
    OperationStatus,
    Float(217, "balancing_current"),
    Float(221, "temperature_sensor_1"),
    Float(225, "temperature_sensor_2") }

(* The errors and the uptime of V2 are those of V1, 37 bytes further on. *)
Errors(o) ==
  { Value(229 + o, 3, {"cell_detection_failed_bitmask"}),
    Value(232 + o, 3, {"cell_overvoltage_bitmask"}),
    Value(235 + o, 3, {"cell_undervoltage_bitmask"}),
    Value(238 + o, 3, {"cell_polarity_error_bitmask"}),
    Value(241 + o, 3, {"cell_excessive_line_resistance_bitmask"}),
    Truth(244 + o, {"error_system_overheating_binary"}),
    Truth(245 + o, {"error_charging_binary"}),
    Truth(246 + o, {"error_discharging_binary"}),
    Logged(254 + o, 4) }

cell_info_errors == Errors(0)

cell_info_v2_measurements ==
  { Logged(8, 1),
    Float(201, "total_voltage"),
    OperationStatus,
    Float(218, "balancing_current"),
    Float(226, "temperature_sensor_1"),
    Float(230, "temperature_sensor_2"),
    Float(234, "mosfet_temperature"),
    Float(238, "balancer_temperature"),
    Float(242, "nominal_capacity"),
    Float(246, "capacity_remaining"),
    Float(250, "state_of_charge") } \cup Floats(254, 262)

cell_info_v2_errors == Errors(37)

-----------------------------------------------------------------------------
(***************************************************************************)
(* decode_settings_ and decode_settings_v2_.  The two modes are published  *)
(* to a text and, if they are known, to a select.                          *)
(***************************************************************************)
settings ==
  { Unsigned(8, 1, 1, "cell_count"),
    Float(9, "balance_trigger_voltage"),
    Float(13, "max_balance_current"),
    Float(17, "balance_sleep_voltage"),
    Truth(21, {"balancer_switch"}),
    Value(22, 1, {"buzzer_mode_text", "buzzer_mode_select"}),
    Value(23, 1, {"battery_type_text", "battery_type_select"}),
    Unsigned(24, 4, 1, "nominal_battery_capacity"),
    Float(28, "balance_start_voltage"),
    Float(33, "balance_stop_diff_voltage") }

settings_v2_balancing ==
  { Unsigned(9, 1, 1, "cell_count"),
    Float(10, "nominal_battery_capacity"),
    Float(14, "balance_trigger_voltage"),
    Float(22, "balance_sleep_voltage"),
    Float(26, "balance_start_voltage"),
    Float(30, "max_balance_current") }

settings_v2_controls ==
  { Truth(126, {"balancer_switch"}),
    Value(127, 1, {"buzzer_mode_text", "buzzer_mode_select"}),
    Value(128, 1, {"battery_type_text", "battery_type_select"}) }

settings_v2_voltages ==
  { Float(34, "cell_overvoltage_protection"),
    Float(38, "cell_overvoltage_recovery"),
    Float(42, "cell_undervoltage_protection"),
    Float(46, "cell_undervoltage_recovery"),
    Float(50, "cell_voltage_difference_protection"),
    Float(54, "cell_voltage_difference_recovery"),
    Float(58, "cell_shutdown_voltage") }

settings_v2_currents ==
  { Float(62, "charging_overcurrent_protection"),
    Unsigned(66, 2, 1, "charging_overcurrent_delay"),
    Unsigned(68, 2, 1, "charging_overcurrent_recovery"),
    Float(70, "discharging_overcurrent_protection"),
    Unsigned(74, 2, 1, "discharging_overcurrent_delay"),
    Unsigned(76, 2, 1, "discharging_overcurrent_recovery"),
    Float(78, "discharging_overcurrent_2_protection"),
    Unsigned(82, 2, 1, "discharging_overcurrent_2_delay"),
    Unsigned(84, 2, 1, "discharging_overcurrent_2_recovery"),
    Float(86, "short_circuit_protection"),
    Unsigned(90, 2, 1, "short_circuit_detection_delay"),
    Unsigned(92, 2, 1, "short_circuit_recovery") }

settings_v2_temperatures ==
  { Float(94, "charging_overtemperature_protection"),
    Float(98, "charging_overtemperature_recovery"),
    Float(102, "charging_undertemperature_protection"),
    Float(106, "charging_undertemperature_recovery"),
    Float(110, "discharging_overtemperature_protection"),
    Float(114, "discharging_overtemperature_recovery"),
    Float(118, "discharging_undertemperature_protection"),
    Float(122, "discharging_undertemperature_recovery") }

-----------------------------------------------------------------------------
(***************************************************************************)
(* decode_factory_defaults_ and decode_device_info_                        *)
(***************************************************************************)
(* The acknowledgement of the request, which comes first, is skipped. *)
HoldsDefaults(size) == size # 20

(* "Standard voltage 2" is read from byte 2 on, where the address is. *)
factory_defaults(size) ==
  IF HoldsDefaults(size)
    THEN {Logged(8, 4), Logged(2, 4), Logged(72, 8)} \cup Floats(16, 68)
    ELSE {}

device_info ==
  { Value(8, 16, {"device_model_text"}),
    Value(24, 8, {"hardware_version_text"}),
    Value(32, 8, {"software_version_text"}),
    Value(40, 8, {"protocol_version_text"}),
    Value(48, 8, {"manufacturing_date_text"}),
    Value(56, 2, {"power_on_count"}),
    Value(60, 4, {"total_runtime", "total_runtime_formatted_text"}) }

-----------------------------------------------------------------------------
(* decode_ chooses the decoder by frame type and version. *)
FieldsOf(version, type, size) ==
  CASE type = "device_info" -> device_info
    [] type = "cell_info" ->
         cell_arrays \cup IF version = "V2"
                          THEN cell_info_v2_measurements \cup cell_info_v2_errors
                          ELSE cell_info_measurements \cup cell_info_errors
    [] type = "factory_defaults" -> factory_defaults(size)
    [] type = "settings" ->
         IF version = "V2"
           THEN settings_v2_balancing \cup settings_v2_controls \cup settings_v2_voltages
                \cup settings_v2_currents \cup settings_v2_temperatures
           ELSE settings
    [] type = "write_register" -> {}

(***************************************************************************)
(* The size of the frames a balancer sends, from the captures in the       *)
(* decoders (external), apart from the acknowledgement in front of the     *)
(* factory defaults; and the sizes assemble() lets through to any decoder. *)
(***************************************************************************)
FrameSize(version, type) ==
  CASE type \in {"device_info", "factory_defaults"} -> 100
    [] type = "cell_info" -> 300
    [] type = "settings" -> IF version = "V2" THEN 150 ELSE 100
    [] type = "write_register" -> 20

SizesOf(version, type) ==
  {FrameSize(version, type)} \cup IF type = "factory_defaults" THEN {20} ELSE {}

LegalSizes == 20 .. 300  \* MIN_RESPONSE_SIZE and MAX_RESPONSE_SIZE

(* decode_ takes settings for those of a V2 by their size. *)
IsDecodedAs(version, type, size) == type = "settings" => (version = "V2" <=> size = 150)

(* What is published of a frame of this type. *)
PublishedOf(version, type) ==
  UNION {Published(FieldsOf(version, type, size)) : size \in SizesOf(version, type)}

=============================================================================
