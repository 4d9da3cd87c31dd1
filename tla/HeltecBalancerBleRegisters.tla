--------------------- MODULE HeltecBalancerBleRegisters ---------------------
(***************************************************************************)
(* The commands behind the numbers, selects and the switch of              *)
(* heltec_balancer_ble, how a value is encoded for them, and where a       *)
(* balancer shows what they set in its settings frame.                     *)
(***************************************************************************)
EXTENDS HeltecBalancerBleFrames

(***************************************************************************)
(* A control: its name and kind; the command and the register it writes,   *)
(* whatever the version is; the fraction of the unit its range is given    *)
(* in, which tells a float from an integer; the range of its values.       *)
(***************************************************************************)
Control(name, kind, command, register, factor, min, max) ==
  [ name |-> name, kind |-> kind, address |-> <<command, register>>,
    length |-> 4, factor |-> factor, min |-> min, max |-> max ]

FloatNumber(name, command, register, min, max) ==
  Control(name, "number", command, register, 1000, min, max)
IntegerNumber(name, command, register, min, max) ==
  Control(name, "number", command, register, 1, min, max)

(* The options of a select are counted from one; 0 is unknown. *)
Select(name, register, options) == Control(name, "select", 5, register, 1, 1, options)

(* NUMBERS of number/__init__.py, with the default ranges of its schema.   *)
LegacyNumbers ==
  { IntegerNumber("cell_count", 5, \h01, 2, 24),
    FloatNumber("balance_trigger_voltage", 5, \h02, 1, 1000),
    FloatNumber("max_balance_current", 5, \h03, 1000, 20000),
    FloatNumber("balance_sleep_voltage", 5, \h04, 1000, 4500),
    FloatNumber("balance_start_voltage", 5, \h17, 1000, 4500),
    FloatNumber("balance_stop_diff_voltage", 5, \h1A, 1, 1000),
    IntegerNumber("nominal_battery_capacity", 5, \h16, 1, 2000) }

(* V2_NUMBERS of number/__init__.py. *)
Voltage(name, register) == FloatNumber(name, 6, register, 1, 5000)
Current(name, register) == FloatNumber(name, 6, register, 1000, 1000000)
Delay(name, register) == IntegerNumber(name, 6, register, 0, 65535)
Temperature(name, register) == FloatNumber(name, 6, register, -40000, 120000)

V2Numbers ==
  { Voltage("cell_overvoltage_protection", \h01),
    Voltage("cell_overvoltage_recovery", \h02),
    Voltage("cell_undervoltage_protection", \h04),
    Voltage("cell_undervoltage_recovery", \h03),
    Voltage("cell_voltage_difference_protection", \h1B),
    Voltage("cell_voltage_difference_recovery", \h1C),
    Voltage("cell_shutdown_voltage", \h1D),
    Current("charging_overcurrent_protection", \h07),
    Delay("charging_overcurrent_delay", \h08),
    Delay("charging_overcurrent_recovery", \h09),
    Current("discharging_overcurrent_protection", \h0A),
    Delay("discharging_overcurrent_delay", \h0B),
    Delay("discharging_overcurrent_recovery", \h0C),
    Current("discharging_overcurrent_2_protection", \h1E),
    Delay("discharging_overcurrent_2_delay", \h1F),
    Delay("discharging_overcurrent_2_recovery", \h20),
    Current("short_circuit_protection", \h21),
    Delay("short_circuit_detection_delay", \h0D),
    Delay("short_circuit_recovery", \h0E),
    Temperature("charging_overtemperature_protection", \h0F),
    Temperature("charging_overtemperature_recovery", \h10),
    Temperature("charging_undertemperature_protection", \h13),
    Temperature("charging_undertemperature_recovery", \h14),
    Temperature("discharging_overtemperature_protection", \h11),
    Temperature("discharging_overtemperature_recovery", \h12),
    Temperature("discharging_undertemperature_protection", \h22),
    Temperature("discharging_undertemperature_recovery", \h23) }

(* SWITCHES of switch/__init__.py and SELECTS of select/__init__.py. *)
Switches == { Control("balancer_switch", "switch", 5, \h0D, 1, 0, 1) }
Selects == { Select("buzzer_mode_select", \h14, 3), Select("battery_type_select", \h15, 4) }

(* Every control is on offer in both versions. *)
Controls == LegacyNumbers \cup V2Numbers \cup Switches \cup Selects

(* The four bytes control() and write_state() hand to send_command. *)
Payload(c, k) == Content(c.factor = 1000, 4, Bytes(k))

-----------------------------------------------------------------------------
(***************************************************************************)
(* Where a balancer shows a setting in its settings frame (external), from *)
(* the captures of the decoders: the byte, and the bytes it has room for.  *)
(***************************************************************************)
Place(at, width) == [type |-> "settings", at |-> at, width |-> width, mask |-> 0]
NoPlace == [type |-> "none", at |-> 0, width |-> 0, mask |-> 0]

(* Registers whose settings lie one behind the other: the first is at at.  *)
Row(r, first, at, width) == Place(at + width * (r - first), width)

LegacyPlace(command, r) ==
  IF command # 5 THEN NoPlace
  ELSE IF r = \h01 THEN Place(8, 1)
  ELSE IF r \in \h02 .. \h04 THEN Row(r, \h02, 9, 4)
  ELSE IF r = \h0D THEN Place(21, 1)
  ELSE IF r \in \h14 .. \h15 THEN Row(r, \h14, 22, 1)
  ELSE IF r \in \h16 .. \h17 THEN Row(r, \h16, 24, 4)
  ELSE IF r = \h1A THEN Place(33, 4)
  ELSE NoPlace

(* The settings a V1 balancer has too. *)
V2CommonPlace(r) ==
  IF r = \h01 THEN Place(9, 1)
  ELSE IF r = \h02 THEN Place(14, 4)
  ELSE IF r = \h03 THEN Place(30, 4)
  ELSE IF r = \h04 THEN Place(22, 4)
  ELSE IF r = \h0D THEN Place(126, 1)
  ELSE IF r \in \h14 .. \h15 THEN Row(r, \h14, 127, 1)
  ELSE IF r = \h16 THEN Place(10, 4)
  ELSE IF r = \h17 THEN Place(26, 4)
  ELSE NoPlace

V2ProtectionPlace(r) ==
  IF r \in \h01 .. \h02 THEN Row(r, \h01, 34, 4)
  ELSE IF r = \h04 THEN Place(42, 4)
  ELSE IF r = \h03 THEN Place(46, 4)
  ELSE IF r \in \h1B .. \h1D THEN Row(r, \h1B, 50, 4)
  ELSE IF r = \h07 THEN Place(62, 4)
  ELSE IF r \in \h08 .. \h09 THEN Row(r, \h08, 66, 2)
  ELSE IF r = \h0A THEN Place(70, 4)
  ELSE IF r \in \h0B .. \h0C THEN Row(r, \h0B, 74, 2)
  ELSE IF r = \h1E THEN Place(78, 4)
  ELSE IF r \in \h1F .. \h20 THEN Row(r, \h1F, 82, 2)
  ELSE IF r = \h21 THEN Place(86, 4)
  ELSE IF r \in \h0D .. \h0E THEN Row(r, \h0D, 90, 2)
  ELSE IF r \in \h0F .. \h10 THEN Row(r, \h0F, 94, 4)
  ELSE IF r \in \h13 .. \h14 THEN Row(r, \h13, 102, 4)
  ELSE IF r \in \h11 .. \h12 THEN Row(r, \h11, 110, 4)
  ELSE IF r \in \h22 .. \h23 THEN Row(r, \h22, 118, 4)
  ELSE NoPlace

PlaceOf(v, address) ==
  LET command == address[1]  r == address[2] IN
  IF v = "V1" THEN LegacyPlace(command, r)
  ELSE IF command = 5 THEN V2CommonPlace(r) ELSE V2ProtectionPlace(r)

=============================================================================
