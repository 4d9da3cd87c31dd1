------------------------- MODULE JkBmsBleRegisters -------------------------
(***************************************************************************)
(* The holding registers behind the numbers, switches and selects of       *)
(* jk_bms_ble, how a value is encoded for them, and where a battery shows  *)
(* them in its frames.                                                     *)
(***************************************************************************)
EXTENDS JkBmsBleFrames

(***************************************************************************)
(* A control in version v: its name and kind; its register, 0 if there is  *)
(* none, picked from those of JK04, JK02_24S and JK02_32S; the factor and  *)
(* the length its value is encoded with, for JK04 a length of its own; the *)
(* range of its values, in 1/factor.                                       *)
(***************************************************************************)
Control(v, name, kind, r04, r24, r32, factor, length, length04, min, max) ==
  [ name |-> name, kind |-> kind,
    address |-> <<IF v = "JK04" THEN r04 ELSE IF v = "JK02_24S" THEN r24 ELSE r32>>,
    length |-> IF v = "JK04" THEN length04 ELSE length,
    factor |-> factor, min |-> min, max |-> max ]

Number(v, name, r04, r24, r32, factor, length, length04, min, max) ==
  Control(v, name, "number", r04, r24, r32, factor, length, length04, min, max)

(* Fault: the registers of the switches are counted from one. *)
CountedFromOne(v, name, r04, r24, r32) ==
  Control(v, name, "switch", r04, r24 + 1, r32 + 1, 1, 4, 1, 0, 1)

Switch(v, name, r04, r24, r32) == Control(v, name, "switch", r04, r24, r32, 1, 4, 1, 0, 1)
(* A select writes its register whatever the version is. *)
Select(v, name, register, length, options) ==
  Control(v, name, "select", register, register, register, 1, length, length, 0, options - 1)

(* NUMBERS of number/__init__.py, with the default ranges of its schema.   *)
VoltageNumbers(v) ==
  { Number(v, "smart_sleep_voltage", 0, \h01, \h01, 1000, 1, 0, 3, 3650),
    Number(v, "cell_voltage_undervoltage_protection", 0, \h02, \h02, 1000, 4, 0, 1200, 4350),
    Number(v, "cell_voltage_undervoltage_recovery", 0, \h03, \h03, 1000, 4, 0, 1200, 4350),
    Number(v, "cell_voltage_overvoltage_protection", 0, \h04, \h04, 1000, 4, 0, 1200, 4350),
    Number(v, "cell_voltage_overvoltage_recovery", 0, \h05, \h05, 1000, 4, 0, 1200, 4350),
    Number(v, "balance_trigger_voltage", \h64, \h06, \h06, 1000, 4, 4, 3, 1000),
    Number(v, "cell_soc100_voltage", 0, \h07, \h07, 1000, 4, 0, 3, 3650),
    Number(v, "cell_soc0_voltage", 0, \h08, \h08, 1000, 4, 0, 3, 3650),
    Number(v, "cell_request_charge_voltage", 0, \h09, \h09, 1000, 4, 0, 3, 3650),
    Number(v, "cell_request_float_voltage", 0, \h0A, \h0A, 1000, 4, 0, 3, 3650),
    Number(v, "balancing_start_voltage", \h58, \h26, \h22, 1000, 4, 4, 1200, 4250),
    Number(v, "voltage_calibration", \h44, \h21, \h64, 1000, 4, 4, 1000, 200000),
    Number(v, "power_off_voltage", \h20, \h0B, \h0B, 1000, 4, 4, 1200, 4350) }

ChargeNumbers(v) ==
  { Number(v, "cell_request_charge_voltage_time", 0, 0, \hB3, 10, 1, 0, 0, 182),
    Number(v, "cell_request_float_voltage_time", 0, 0, \hB4, 10, 1, 0, 0, 182),
    Number(v, "re_bulk_soc", 0, 0, \hB7, 1, 1, 0, 0, 50),
    Number(v, "soc_calibration", 0, 0, \h6E, 1, 1, 0, 0, 100),
    Number(v, "soh_calibration", 0, 0, \h6F, 1, 1, 0, 0, 100),
    Number(v, "cell_count", \h1C, \h1C, \h1C, 1, 4, 2, 2, 32),
    Number(v, "total_battery_capacity", 0, \h20, \h20, 1000, 4, 0, 2000, 20000000),
    Number(v, "current_calibration", 0, \h24, \h67, 1000, 4, 0, 0, 1000000),
    Number(v, "max_balance_current", \h68, \h13, \h13, 1000, 4, 4, 300, 15000),
    Number(v, "max_charge_current", 0, \h0C, \h0C, 1000, 4, 0, 1000, 600100),
    Number(v, "max_discharge_current", 0, \h0F, \h0F, 1000, 4, 0, 1000, 1200100) }

ProtectionNumbers(v) ==
  { Number(v, "charge_overcurrent_protection_delay", 0, \h0D, \h0D, 1, 4, 0, 2, 600),
    Number(v, "charge_overcurrent_protection_recovery_time", 0, \h0E, \h0E, 1, 4, 0, 2, 600),
    Number(v, "discharge_overcurrent_protection_delay", 0, \h10, \h10, 1, 4, 0, 2, 600),
    Number(v, "discharge_overcurrent_protection_recovery_time", 0, \h11, \h11, 1, 4, 0, 2, 600),
    Number(v, "short_circuit_protection_delay", 0, \h25, \h21, 1, 4, 0, 0, 1000000),
    Number(v, "short_circuit_protection_recovery_time", 0, \h12, \h12, 1, 4, 0, 2, 600),
    Number(v, "charge_overtemperature_protection", 0, \h14, \h14, 10, 4, 0, 300, 800),
    Number(v, "charge_overtemperature_protection_recovery", 0, \h15, \h15, 10, 4, 0, 300, 800),
    Number(v, "discharge_overtemperature_protection", 0, \h16, \h16, 10, 4, 0, 300, 800),
    Number(v, "discharge_overtemperature_protection_recovery", 0, \h17, \h17, 10, 4, 0, 300, 800),
    Number(v, "charge_undertemperature_protection", 0, \h18, \h18, 10, 4, 0, -450, 200),
    Number(v, "charge_undertemperature_protection_recovery", 0, \h19, \h19, 10, 4, 0, -450, 200),
    Number(v, "discharge_undertemperature_protection", 0, 0, \h3A, 1, 1, 0, -40, 100),
    Number(v, "discharge_undertemperature_protection_recovery", 0, 0, \h3B, 1, 1, 0, -40, 100),
    Number(v, "mosfet_overtemperature_protection", 0, \h1A, \h1A, 10, 4, 0, 500, 1100),
    Number(v, "mosfet_overtemperature_protection_recovery", 0, \h1B, \h1B, 10, 4, 0, 500, 1100) }

ServiceNumbers(v) ==
  { Number(v, "discharge_precharge_time", 0, 0, \h25, 1, 4, 0, 0, 255),
    Number(v, "heating_start_temperature", 0, 0, \h37, 1, 1, 0, -40, 100),
    Number(v, "heating_stop_temperature", 0, 0, \h38, 1, 1, 0, -40, 100),
    Number(v, "smart_sleep_delay", 0, 0, \h39, 1, 1, 0, 1, 100),
    Number(v, "emergency_duration", 0, 0, \hB5, 1, 1, 0, 1, 255) }

(* SWITCHES of switch/__init__.py. *)
Switches(v) ==
  { Switch(v, "charging_switch", 0, \h1D, \h1D),
    Switch(v, "discharging_switch", 0, \h1E, \h1E),
    Switch(v, "balancer_switch", \h6C, \h1F, \h1F),
    Switch(v, "emergency_switch", 0, 0, \h6B),
    Switch(v, "heating_switch", 0, 0, \h27),
    Switch(v, "disable_temperature_sensors_switch", 0, 0, \h28),
    Switch(v, "display_always_on_switch", 0, 0, \h2B),
    Switch(v, "smart_sleep_switch", 0, 0, \h2D),
    Switch(v, "disable_pcl_module_switch", 0, 0, \h2E),
    Switch(v, "timed_stored_data_switch", 0, 0, \h2F),
    Switch(v, "charging_float_mode_switch", 0, 0, \h30),
    Switch(v, "emergency_button_trigger_switch", 0, 0, \h31),
    Switch(v, "dry_contact_alarm_intermittent_switch", 0, 0, \h32),
    Switch(v, "discharge_overcurrent_protection_2_switch", 0, 0, \h33),
    Switch(v, "discharge_overcurrent_protection_3_switch", 0, 0, \h34),
    Switch(v, "gps_locked_charging_switch", 0, 0, \h35),
    Switch(v, "gps_locked_discharging_switch", 0, 0, \h36) }

(* SELECTS of select/__init__.py, with the number of their options. *)
Selects(v) ==
  { Select(v, "uart1_protocol", \hA5, 2, 21),
    Select(v, "uart2_protocol", \hA8, 2, 21),
    Select(v, "uart3_protocol", \hB6, 2, 21),
    Select(v, "can_protocol", \hA6, 2, 14),
    Select(v, "lcd_buzzer_trigger", \hA9, 2, 15),
    Select(v, "dry1_trigger", \hAA, 2, 15),
    Select(v, "dry2_trigger", \hAB, 2, 15),
    Select(v, "multiplexed_port_mode", \h2A, 4, 2) }

(* The controls a configuration can have in version v. *)
ControlsOf(v) ==
  VoltageNumbers(v) \cup ChargeNumbers(v) \cup ProtectionNumbers(v) \cup ServiceNumbers(v)
  \cup Switches(v) \cup Selects(v)

-----------------------------------------------------------------------------
(***************************************************************************)
(* How a value becomes the bytes of a request.  A control is set to        *)
(* k/factor, which is nearest to some float; times the factor it is a      *)
(* float again, and the cast to an integer cuts off what may be left.      *)
(***************************************************************************)
(* Whether (k / 1000.0f) * 1000.0f rounds to a float below k: with k       *)
(* scaled to 30 bits, the mantissa lies near the top of its octave and     *)
(* the rounding error of the division is of the bad sort.                  *)
RoundsDown(k) ==
  \E s \in 6 .. 30 :
    /\ k > 0 /\ k <= 2^(30 - s) /\ k * 2^s >= 1000 * 2^20
    /\ (k * 2^s) % 125 \in 33 .. 62

Truncated(k, factor) == IF factor = 1000 /\ RoundsDown(k) THEN k - 1 ELSE k

FloatPayload(k) == Content(TRUE, 4, Bytes(k))
IntegerPayload(c, k) == Content(FALSE, 4, Bytes(Truncated(k, c.factor)))

(* The value as control() and write_state() hand it to write_register: a   *)
(* number in a JK04 register of four bytes is the float itself.            *)
Payload(v, c, k) ==
  IF v = "JK04" /\ c.kind = "number" /\ c.length = 4
    THEN FloatPayload(k) ELSE IntegerPayload(c, k)

-----------------------------------------------------------------------------
(***************************************************************************)
(* Where a battery shows its registers (external): the frame, the byte,    *)
(* the bytes it has room for, the bit if it is only one.  Taken from the   *)
(* captures the decoders were written from.  A width of 0 is no place.     *)
(***************************************************************************)
Place(type, at, width, mask) == [type |-> type, at |-> at, width |-> width, mask |-> mask]
NoPlace == Place("none", 0, 0, 0)

(* Registers that lie one behind the other in a frame: the first is at at. *)
Row(r, first, type, at, width) == Place(type, at + width * (r - first), width, 0)

Jk02_24SPlace(r) ==
  IF r \in \h01 .. \h20 THEN Row(r, \h01, "settings", 6, 4)
  ELSE IF r \in \h25 .. \h26 THEN Row(r, \h25, "settings", 134, 4)
  ELSE NoPlace

DeviceInfoPlace(r) ==
  IF r \in \hA5 .. \hA6 THEN Row(r, \hA5, "device_info", 184, 1)
  ELSE IF r = \hA8 THEN Place("device_info", 218, 1, 0)
  ELSE IF r \in \hA9 .. \hAB THEN Row(r, \hA9, "device_info", 234, 1)
  ELSE IF r \in \hB3 .. \hB4 THEN Row(r, \hB3, "device_info", 266, 1)
  ELSE IF r \in \hB5 .. \hB6 THEN Row(r, \hB5, "device_info", 269, 1)
  ELSE IF r = \hB7 THEN Place("device_info", 278, 1, 0)
  ELSE NoPlace

(* Eight registers share a byte, a bit each. *)
Jk02_32SPlace(r) ==
  IF r \in \h01 .. \h22 THEN Row(r, \h01, "settings", 6, 4)
  ELSE IF r = \h25 THEN Place("settings", 274, 4, 0)
  ELSE IF r \in \h27 .. \h2E THEN Place("settings", 282, 1, 2^(r - \h27))
  ELSE IF r \in \h2F .. \h36 THEN Place("settings", 283, 1, 2^(r - \h2F))
  ELSE IF r \in \h37 .. \h39 THEN Row(r, \h37, "settings", 284, 1)
  ELSE IF r \in \h3A .. \h3B THEN Row(r, \h3A, "settings", 296, 1)
  ELSE IF r = \h6B THEN Place("cell_info", 218, 2, 0)
  ELSE DeviceInfoPlace(r)

Jk04Place(r) ==
  IF r = \h1C THEN Place("settings", 34, 4, 0)
  ELSE IF r = \h20 THEN Place("settings", 38, 4, 0)
  ELSE IF r = \h44 THEN Place("settings", 74, 4, 0)
  ELSE IF r = \h58 THEN Place("settings", 98, 4, 0)
  ELSE IF r = \h64 THEN Place("settings", 106, 4, 0)
  ELSE IF r = \h68 THEN Place("settings", 110, 4, 0)
  ELSE IF r = \h6C THEN Place("settings", 114, 4, 0)
  ELSE NoPlace

PlaceOf(v, address) ==
  IF v = "JK04" THEN Jk04Place(address[1])
  ELSE IF v = "JK02_24S" THEN Jk02_24SPlace(address[1])
  ELSE Jk02_32SPlace(address[1])

=============================================================================
