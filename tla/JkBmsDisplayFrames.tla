------------------------- MODULE JkBmsDisplayFrames -------------------------
(***************************************************************************)
(* The frames jk_bms_display listens to on the line between a JK BMS and   *)
(* its display: the status frame, and writes of some of the display's      *)
(* registers, which are only logged.                                       *)
(***************************************************************************)
EXTENDS Fields, TLC

StatusSize == 96  \* three bytes in front of the 93 the length field claims

Offset == 6

(* Sixteen bits, most of them used as a truth value. *)
Word(at, shows) == Value(at + Offset, 2, shows)

cell_voltage(i) == Word(24 + 2 * i, {"cell_voltage_" \o ToString(i + 1)})

cell_voltages == {cell_voltage(i) : i \in 0 .. 23}

status_measurements ==
  { Word(0, {"total_voltage"}),
    Word(2, {"current", "power", "charging_power", "discharging_power"}),
    Word(6, {"state_of_charge"}),
    Word(10, {"mosfet_temperature"}),
    Word(12, {"battery_temperature"}),
    Word(14, {"system_warning_binary"}),
    Word(18, {"balancing_switch_binary"}),
    Word(20, {"charging_binary"}),
    Word(22, {"discharging_binary"}) }

status_alarms ==
  { Word(72, {"cell_voltage_undervoltage_protection_binary"}),
    Word(74, {"cell_voltage_overvoltage_protection_binary"}),
    Word(76, {"overcurrent_protection_binary"}),
    Word(78, {"mosfet_overtemperature_protection_binary"}),
    Word(80, {"battery_temperature_protection_binary"}),
    Word(82, {"short_circuit_protection_binary"}),
    Word(84, {"coprocessor_communication_error_binary"}),
    Word(86, {"balancer_wire_resistance_too_high_binary"}),
    Word(88, {"cell_count_mismatch_binary"}) }

Status == cell_voltages \cup status_measurements \cup status_alarms

(* The address, and a register every two bytes: as many as half the length *)
(* field without type and address, rounded up.                             *)
raw_data(size) == {Logged(4, 2)} \cup {Logged(6 + 2 * i, 2) : i \in 0 .. (size - 5) \div 2 - 1}

=============================================================================
