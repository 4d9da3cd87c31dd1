--------------------------- MODULE JkBmsBleFrames ---------------------------
(***************************************************************************)
(* The frames of a JK BMS as the decoders of jk_bms_ble read them: for     *)
(* each protocol version and frame type, the fields with the entities they *)
(* are published to.                                                       *)
(***************************************************************************)
EXTENDS Fields

Versions == {"JK04", "JK02_24S", "JK02_32S"}
FrameTypes == {"settings", "cell_info", "device_info", "logbook"}

-----------------------------------------------------------------------------
(***************************************************************************)
(* decode_jk02_cell_info_                                                  *)
(***************************************************************************)
(* The variable offset, before and after it is doubled. *)
jk02_offset(version) == IF version = "JK02_32S" THEN 16 ELSE 0

(* Fault: the offset is not doubled behind the resistances. *)
NotDoubled(version) == jk02_offset(version)

jk02_doubled_offset(version) == 2 * jk02_offset(version)

jk02_cells(version) == 24 + jk02_offset(version) \div 2

CellStatistics ==
  {"min_cell_voltage", "max_cell_voltage", "min_voltage_cell", "max_voltage_cell",
   "delta_cell_voltage", "average_cell_voltage"}

jk02_cell_arrays(version) ==
  LET o == jk02_offset(version) IN
  { Value(6, 2 * jk02_cells(version), {"cell_voltages"} \cup CellStatistics),
    Logged(54 + o, 4),
    Value(64 + o, 2 * jk02_cells(version), {"cell_resistances"}) }

jk02_mosfet_temperature(version) ==
  LET o == jk02_doubled_offset(version) IN
  IF version = "JK02_32S"
    THEN {Value(112 + o, 2, {"mosfet_temperature"})}
    ELSE {Logged(112 + o, 2), Value(134 + o, 2, {"mosfet_temperature"})}

jk02_cell_sums(version) ==
  LET o == jk02_doubled_offset(version) IN
  { Logged(114 + o, 4),
    Value(118 + o, 4, {"total_voltage"}),
    Value(126 + o, 4, {"current", "power", "charging_power", "discharging_power"}),
    Value(130 + o, 2, {"temperature_1"}),
    Value(132 + o, 2, {"temperature_2"}) }
  \cup jk02_mosfet_temperature(version)
  \cup IF version = "JK02_32S"
       THEN {Value(134 + o, 4, {"errors_bitmask_hex_text", "errors_text"})}
       ELSE {Value(136 + o, 2, {"errors_bitmask_hex_text", "errors_text"})}

jk02_cell_counters(version) ==
  LET o == jk02_doubled_offset(version) IN
  { Value(138 + o, 2, {"balancing_current"}),
    Value(140 + o, 1, {"balancer_status_bitmask", "balancing_binary", "balancer_status_text"}),
    Value(141 + o, 1, {"state_of_charge"}),
    Value(142 + o, 4, {"capacity_remaining"}),
    Value(146 + o, 4, {"full_charge_capacity"}),
    Value(150 + o, 4, {"charging_cycles"}),
    Value(154 + o, 4, {"total_charging_cycle_capacity"}),
    Value(158 + o, 1, {"state_of_health"}),
    Logged(159 + o, 1), Logged(160 + o, 2),
    Value(162 + o, 4, {"total_runtime", "total_runtime_formatted_text"}) }

jk02_cell_states(version) ==
  LET o == jk02_doubled_offset(version) IN
  { Truth(166 + o, {"charging_binary"}),
    Truth(167 + o, {"discharging_binary"}),
    Truth(168 + o, {"precharging_binary"}),
    Truth(183 + o, {"heating_binary"}),
    Value(204 + o, 2, {"heating_current"}),
    Value(238 + o, 4, {"smart_sleep_countdown"}) }
  \cup {Logged(at + o, 1) : at \in {169, 182, 213, 242}}
  \cup {Logged(at + o, 2) : at \in {170, 172, 174, 176, 178, 180, 188, 190, 192, 202}}
  \cup {Logged(194 + o, 4)}
  \cup IF version = "JK02_32S" THEN {} ELSE {Logged(186 + o, 2)}

jk02_cell_extras(version) ==
  LET o == jk02_doubled_offset(version) IN
  IF version # "JK02_32S" THEN {} ELSE
  { Flag(249 + o, 2, {"dry_contact_1_binary"}),
    Flag(249 + o, 4, {"dry_contact_2_binary"}),
    Field(186 + o, 2, 0, "truth", 1, {"emergency_switch", "emergency_time_countdown"}),
    Value(222 + o, 2, {"temperature_5"}),
    Value(224 + o, 2, {"temperature_4"}),
    Value(226 + o, 2, {"temperature_3"}),
    Value(234 + o, 4, {"detail_log_entry_count"}),
    Value(243 + o, 1, {"battery_type_id", "battery_type_text"}),
    Value(246 + o, 2, {"charge_status_time_elapsed"}),
    Value(248 + o, 1, {"charge_status_id", "charge_status_text"}) }

(***************************************************************************)
(* decode_jk04_cell_info_                                                  *)
(***************************************************************************)
jk04_cell_arrays ==
  { Value(6, 24 * 4, {"cell_voltages", "total_voltage"} \cup CellStatistics),
    Value(102, 24 * 4, {"cell_resistances"}) }

jk04_cell_states ==
  { Value(220, 1, {"balancer_status_bitmask", "balancing_binary", "balancer_status_text"}),
    Value(222, 4, {"balancing_current"}),
    Value(286, 4, {"total_runtime", "total_runtime_formatted_text"}) }
  \cup {Logged(at, 4) : at \in {210, 214, 233, 237, 290, 294}}
  \cup {Logged(at, 1) : at \in {218, 219, 221, 298}}
  \cup {Logged(226, 7)}

-----------------------------------------------------------------------------
(***************************************************************************)
(* decode_jk02_settings_                                                   *)
(***************************************************************************)
jk02_settings_voltages ==
  { Unsigned(6, 4, 1000, "smart_sleep_voltage"),
    Unsigned(10, 4, 1000, "cell_voltage_undervoltage_protection"),
    Unsigned(14, 4, 1000, "cell_voltage_undervoltage_recovery"),
    Unsigned(18, 4, 1000, "cell_voltage_overvoltage_protection"),
    Unsigned(22, 4, 1000, "cell_voltage_overvoltage_recovery"),
    Unsigned(26, 4, 1000, "balance_trigger_voltage"),
    Unsigned(30, 4, 1000, "cell_soc100_voltage"),
    Unsigned(34, 4, 1000, "cell_soc0_voltage"),
    Unsigned(38, 4, 1000, "cell_request_charge_voltage"),
    Unsigned(42, 4, 1000, "cell_request_float_voltage"),
    Unsigned(46, 4, 1000, "power_off_voltage"),
    Unsigned(138, 4, 1000, "balancing_start_voltage") }

jk02_settings_currents ==
  { Unsigned(50, 4, 1000, "max_charge_current"),
    Unsigned(54, 4, 1, "charge_overcurrent_protection_delay"),
    Unsigned(58, 4, 1, "charge_overcurrent_protection_recovery_time"),
    Unsigned(62, 4, 1000, "max_discharge_current"),
    Unsigned(66, 4, 1, "discharge_overcurrent_protection_delay"),
    Unsigned(70, 4, 1, "discharge_overcurrent_protection_recovery_time"),
    Unsigned(74, 4, 1, "short_circuit_protection_recovery_time"),
    Unsigned(78, 4, 1000, "max_balance_current") }

jk02_settings_temperatures ==
  { Unsigned(82, 4, 10, "charge_overtemperature_protection"),
    Unsigned(86, 4, 10, "charge_overtemperature_protection_recovery"),
    Unsigned(90, 4, 10, "discharge_overtemperature_protection"),
    Unsigned(94, 4, 10, "discharge_overtemperature_protection_recovery"),
    Signed(98, 4, 10, "charge_undertemperature_protection"),
    Signed(102, 4, 10, "charge_undertemperature_protection_recovery"),
    Signed(106, 4, 10, "mosfet_overtemperature_protection"),
    Signed(110, 4, 10, "mosfet_overtemperature_protection_recovery") }

jk02_settings_pack ==
  { Unsigned(114, 1, 1, "cell_count"),
    Truth(118, {"charging_switch"}),
    Truth(122, {"discharging_switch"}),
    Truth(126, {"balancer_switch"}),
    Unsigned(130, 4, 1000, "total_battery_capacity"),
    Unsigned(134, 4, 1, "short_circuit_protection_delay") }

jk02_24s_wire_resistances == {Logged(at, 4) : at \in {142, 146, 150, 154}} \cup {Logged(158, 24 * 4)}
jk02_32s_wire_resistances == {Logged(142, 32 * 4)}

jk02_32s_controls ==
  { Value(270, 1, {"device_address"}),
    Unsigned(274, 1, 1, "discharge_precharge_time"),
    Flag(282, 1, {"heating_switch"}),
    Flag(282, 2, {"disable_temperature_sensors_switch"}),
    Flag(282, 4, {}),
    Flag(282, 8, {"multiplexed_port_mode"}),
    Flag(282, 16, {"display_always_on_switch"}),
    Flag(282, 32, {}),
    Flag(282, 64, {"smart_sleep_switch"}),
    Flag(282, 128, {"disable_pcl_module_switch"}),
    Flag(283, 1, {"timed_stored_data_switch"}),
    Flag(283, 2, {"charging_float_mode_switch"}),
    Flag(283, 4, {"emergency_button_trigger_switch"}),
    Flag(283, 8, {"dry_contact_alarm_intermittent_switch"}),
    Flag(283, 16, {"discharge_overcurrent_protection_2_switch"}),
    Flag(283, 32, {"discharge_overcurrent_protection_3_switch"}),
    Flag(283, 64, {"gps_locked_charging_switch"}),
    Flag(283, 128, {"gps_locked_discharging_switch"}) }

jk02_32s_heating ==
  { Signed(284, 1, 1, "heating_start_temperature"),
    Signed(285, 1, 1, "heating_stop_temperature"),
    Unsigned(286, 1, 1, "smart_sleep_delay"),
    Logged(287, 1), Logged(288, 2), Logged(290, 4), Logged(294, 2),
    Signed(296, 1, 1, "discharge_undertemperature_protection"),
    Signed(297, 1, 1, "discharge_undertemperature_protection_recovery") }

(***************************************************************************)
(* decode_jk04_settings_                                                   *)
(***************************************************************************)
jk04_settings ==
  { Logged(6, 4), Logged(102, 4),
    Unsigned(34, 1, 1, "cell_count"),
    Float(38, "power_off_voltage"),
    Float(74, "voltage_calibration"),
    Float(98, "balancing_start_voltage"),
    Float(106, "balance_trigger_voltage"),
    Float(110, "max_balance_current"),
    Truth(114, {"balancer_switch"}) }

-----------------------------------------------------------------------------
(***************************************************************************)
(* decode_device_info_ and decode_logbook_.                                *)
(***************************************************************************)
device_info_texts ==
  { Value(6, 16, {"device_model_text"}),
    Value(22, 8, {"hardware_version_text"}),
    Value(30, 8, {"software_version_text"}),
    Logged(38, 4),
    Value(42, 4, {"power_on_count"}),
    Value(46, 16, {"device_name_text"}),
    Logged(62, 16),
    Value(78, 6, {"manufacturing_date_text"}),
    Value(86, 11, {"serial_number_text"}),
    Logged(97, 5), Logged(102, 16), Logged(118, 16) }

device_info_ports ==
  { Unsigned(184, 1, 1, "uart1_protocol"),
    Unsigned(185, 1, 1, "can_protocol"),
    Value(186, 4, {"uart1_protocols_enabled_bitmask"}),
    Logged(190, 12),
    Value(202, 4, {"can_protocols_enabled_bitmask"}),
    Unsigned(218, 1, 1, "uart2_protocol"),
    Value(219, 4, {"uart2_protocols_enabled_bitmask"}),
    Unsigned(234, 1, 1, "lcd_buzzer_trigger"),
    Unsigned(235, 1, 1, "dry1_trigger"),
    Unsigned(236, 1, 1, "dry2_trigger") }

device_info_charging ==
  { Unsigned(266, 1, 10, "cell_request_charge_voltage_time"),
    Unsigned(267, 1, 10, "cell_request_float_voltage_time"),
    Unsigned(269, 1, 1, "emergency_duration"),
    Unsigned(270, 1, 1, "uart3_protocol"),
    Value(271, 4, {"uart3_protocols_enabled_bitmask"}),
    Unsigned(278, 1, 1, "re_bulk_soc") }

(* The loop ends after 50 entries of five bytes, whatever count is claimed. *)
logbook_entries == {Logged(6, 4), Logged(11, 50 * 5)}

-----------------------------------------------------------------------------
(***************************************************************************)
(* decode_ chooses the decoder by frame type and version.                  *)
(***************************************************************************)
Jk02Settings(version) ==
  jk02_settings_voltages \cup jk02_settings_currents \cup jk02_settings_temperatures
  \cup jk02_settings_pack
  \cup IF version = "JK02_24S"
       THEN jk02_24s_wire_resistances
       ELSE jk02_32s_wire_resistances \cup jk02_32s_controls \cup jk02_32s_heating

Jk02CellInfo(version) ==
  jk02_cell_arrays(version) \cup jk02_cell_sums(version) \cup jk02_cell_counters(version)
  \cup jk02_cell_states(version) \cup jk02_cell_extras(version)

FieldsOf(version, type) ==
  CASE type = "settings" -> IF version = "JK04" THEN jk04_settings ELSE Jk02Settings(version)
    [] type = "cell_info" -> IF version = "JK04" THEN jk04_cell_arrays \cup jk04_cell_states
                                                 ELSE Jk02CellInfo(version)
    [] type = "device_info" ->
         device_info_texts \cup IF version = "JK02_32S"
                                THEN device_info_ports \cup device_info_charging
                                ELSE {}
    [] type = "logbook" -> logbook_entries

=============================================================================
