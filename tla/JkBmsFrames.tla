---------------------------- MODULE JkBmsFrames ----------------------------
(***************************************************************************)
(* The status frame of a JK BMS on its serial line as on_status_data_      *)
(* reads it: a chain of registers, each behind a byte with its id, of      *)
(* which only the cell voltages say how long they are.  The decoder does   *)
(* not follow the chain, it reads at fixed offsets from the end of the     *)
(* cells.  Register 0xC0, which tells how the current is to be read, is    *)
(* listed with the entity of its own only.                                 *)
(***************************************************************************)
EXTENDS Fields, TLC

Offset(cells) == 3 * cells + 3

cell_voltage(i) == Value(3 + 3 * i, 2, {"cell_voltage_" \o ToString(i + 1)})

cell_voltages(cells) == {cell_voltage(i) : i \in 0 .. cells - 1}

status_measurements(cells) ==
  LET o == Offset(cells) IN
  { Value(o, 2, {"mosfet_temperature"}),
    Value(o + 3, 2, {"temperature_sensor_1"}),
    Value(o + 6, 2, {"temperature_sensor_2"}),
    Value(o + 9, 2, {"total_voltage"}),
    Value(o + 12, 2, {"current", "power", "charging_power", "discharging_power"}),
    Value(o + 15, 1, {"state_of_charge"}),
    Value(o + 17, 1, {"temperature_sensor_count"}),
    Value(o + 19, 2, {"charging_cycles"}),
    Value(o + 22, 4, {"total_charging_cycle_capacity"}),
    Value(o + 27, 2, {"cell_count"}),
    Value(o + 30, 2, {"errors_bitmask", "errors_text"}),
    Value(o + 33, 2, {"operation_mode_bitmask", "operation_mode_text", "charging_binary",
                      "discharging_binary", "balancing_binary"}) }

(* Registers 0x8E to 0x9C, of two bytes each. *)
ProtectionNames ==
  <<"total_voltage_overvoltage_protection", "total_voltage_undervoltage_protection",
    "cell_voltage_overvoltage_protection", "cell_voltage_overvoltage_recovery",
    "cell_voltage_overvoltage_delay", "cell_voltage_undervoltage_protection",
    "cell_voltage_undervoltage_recovery", "cell_voltage_undervoltage_delay",
    "cell_voltage_difference_protection", "discharging_overcurrent_protection",
    "discharging_overcurrent_delay", "charging_overcurrent_protection",
    "charging_overcurrent_delay", "balancing_start_voltage", "balancing_delta_voltage">>

status_protections(cells) ==
  {Value(Offset(cells) + 6 + 3 * (9 + i), 2, {ProtectionNames[i]}) : i \in DOMAIN ProtectionNames}

(* Registers 0x9E to 0xA8. *)
TemperatureNames ==
  <<"mosfet_overtemperature_protection", "mosfet_overtemperature_recovery",
    "battery_overtemperature_protection", "battery_overtemperature_recovery",
    "battery_temperature_difference_protection", "charging_overtemperature_protection",
    "discharging_overtemperature_protection", "charging_undertemperature_protection",
    "charging_undertemperature_recovery", "discharging_undertemperature_protection",
    "discharging_undertemperature_recovery">>

(* Fault: the switch 0x9D, of one byte, is skipped like the others of two. *)
AfterWideSwitch(cells) ==
  {Value(Offset(cells) + 9 + 3 * (24 + i), 2, {TemperatureNames[i]}) : i \in DOMAIN TemperatureNames}

status_temperatures(cells) ==
  {Value(Offset(cells) + 8 + 3 * (24 + i), 2, {TemperatureNames[i]}) : i \in DOMAIN TemperatureNames}

status_switches(cells) ==
  LET o == Offset(cells) IN
  { Truth(o + 6 + 3 * 25, {"balancing_switch_binary", "balancer_switch"}),
    Value(o + 10 + 3 * 36, 4, {"full_charge_capacity", "capacity_remaining"}),
    Truth(o + 15 + 3 * 36, {"charging_switch"}),
    Truth(o + 17 + 3 * 36, {"discharging_switch"}),
    Value(o + 19 + 3 * 36, 2, {"current_calibration"}),
    Value(o + 19 + 3 * 37, 1, {"device_address"}),
    Value(o + 21 + 3 * 37, 1, {"battery_type_text"}),
    Value(o + 23 + 3 * 37, 2, {"sleep_wait_time"}),
    Value(o + 23 + 3 * 38, 1, {"low_soc_alarm_threshold"}) }

status_texts(cells) ==
  LET o == Offset(cells) IN
  { Value(o + 25 + 3 * 38, 10, {"password_text"}),
    Truth(o + 36 + 3 * 38, {"dedicated_charger_switch_binary"}),
    Value(o + 38 + 3 * 38, 8, {"device_type_text"}),
    Value(o + 46 + 3 * 40, 4, {"total_runtime", "total_runtime_formatted_text"}),
    Value(o + 51 + 3 * 40, 15, {"software_version_text"}),
    Value(o + 54 + 3 * 45, 4, {"actual_battery_capacity"}),
    Value(o + 59 + 3 * 45, 24, {"manufacturer_text"}),
    Value(o + 84 + 3 * 45, 1, {"protocol_version"}) }

Status(cells) ==
  cell_voltages(cells) \cup status_measurements(cells) \cup status_protections(cells)
  \cup status_temperatures(cells) \cup status_switches(cells) \cup status_texts(cells)

(* The size a status frame needs to be decoded. *)
Required(cells) == 3 * cells + 223

(***************************************************************************)
(* The chain as the battery sends it (external): how far behind the id of  *)
(* register 0x80 the ids of 0x80 to 0xC0 lie, each with its register       *)
(* behind it.                                                              *)
(***************************************************************************)
IdDistances ==
  {0, 3, 6, 9, 12, 15, 17, 19, 22, 27, 30, 33}         \* 0x80 .. 0x8C, no 0x88
  \cup {36 + 3 * i : i \in 0 .. 14} \cup {81}           \* 0x8E .. 0x9D
  \cup {83 + 3 * i : i \in 0 .. 10}                     \* 0x9E .. 0xA8
  \cup {116, 118, 123, 125, 127, 130, 132, 134, 137, 139, 150, 152, 161, 166, 171, 187, 189,
        194, 219}                                      \* 0xA9 .. 0xC0

Ids(cells) ==
  {0, 1} \cup {2 + 3 * i : i \in 0 .. cells - 1}
  \cup {Offset(cells) - 1 + d : d \in IdDistances}

=============================================================================
