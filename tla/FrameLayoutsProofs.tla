------------------------- MODULE FrameLayoutsProofs -------------------------
(***************************************************************************)
(* Every byte of every frame, for any number of cells of a JK BMS or a JK  *)
(* balancer and any size that is let through: what the decoders read lies  *)
(* in the payload of a frame of the size they assume, and no byte is taken *)
(* for two things.  The fields of each kind of frame are shown to lie      *)
(* apart or to be different bits of a byte; the walk of FrameLayouts then  *)
(* finds nothing else.                                                     *)
(***************************************************************************)
EXTENDS FrameLayouts, TLAPS

(* Fields read from first on, and not beyond last. *)
Within(fields, first, last) ==
  \A f \in fields : /\ f.at \in Int /\ f.width \in Int
                    /\ first <= f.at /\ f.at + f.width <= last + 1

Apart(f, g) == f.at + f.width <= g.at \/ g.at + g.width <= f.at

(* Fields that share no byte, or are different bits of it. *)
Disjoint(fields) == \A f, g \in fields : Ble!Compatible(f, g) \/ Apart(f, g)

-----------------------------------------------------------------------------
(***************************************************************************)
(* The frames of jk_bms_ble.                                               *)
(***************************************************************************)
(* The settings of both JK02 versions. *)
LEMMA Jk02SettingsLayout ==
  ASSUME NEW v \in {"JK02_24S", "JK02_32S"}
  PROVE  /\ Within(Ble!Jk02Settings(v), 6, 298)
         /\ Disjoint(Ble!Jk02Settings(v))
  <1> USE DEF Ble!Jk02Settings, Ble!jk02_settings_voltages, Ble!jk02_settings_currents,
              Ble!jk02_settings_temperatures, Ble!jk02_settings_pack,
              Ble!jk02_24s_wire_resistances, Ble!jk02_32s_wire_resistances,
              Ble!jk02_32s_controls, Ble!jk02_32s_heating,
              Ble!Value, Ble!Unsigned, Ble!Logged, Ble!Signed, Ble!Truth, Ble!Flag, Ble!Field
  <1>1. Within(Ble!Jk02Settings(v), 6, 298)
    BY SMT DEF Within
  <1>2. Disjoint(Ble!Jk02Settings(v))
    BY SMT DEF Disjoint, Ble!Compatible, Apart
  <1> QED BY <1>1, <1>2

(* The cell information of both JK02 versions: the offsets of the 32S one, *)
(* which is doubled behind the resistances, and the two extra layouts.     *)
LEMMA Jk02CellInfoLayout ==
  ASSUME NEW v \in {"JK02_24S", "JK02_32S"}
  PROVE  /\ Within(Ble!Jk02CellInfo(v), 6, 298)
         /\ Disjoint(Ble!Jk02CellInfo(v))
  <1> USE DEF Ble!Jk02CellInfo, Ble!jk02_cell_arrays, Ble!jk02_cell_sums, Ble!jk02_cell_counters,
              Ble!jk02_cell_states, Ble!jk02_cell_extras, Ble!jk02_mosfet_temperature,
              Ble!jk02_offset, Ble!jk02_doubled_offset, Ble!jk02_cells,
              Ble!Value, Ble!Unsigned, Ble!Logged, Ble!Signed, Ble!Truth, Ble!Flag, Ble!Field
  <1>1. Within(Ble!Jk02CellInfo(v), 6, 298)
    BY SMT DEF Within
  <1>2. Disjoint(Ble!Jk02CellInfo(v))
    BY SMT DEF Disjoint, Ble!Compatible, Apart
  <1> QED BY <1>1, <1>2

(* The other decoders, and all of them by version and frame type. *)
LEMMA BleLayouts ==
  ASSUME NEW v \in Ble!Versions, NEW t \in Ble!FrameTypes
  PROVE  /\ Within(Ble!FieldsOf(v, t), 6, 298)
         /\ Disjoint(Ble!FieldsOf(v, t))
  <1> DEFINE jk04_cell_info == Ble!jk04_cell_arrays \cup Ble!jk04_cell_states
             device_info_32s == Ble!device_info_texts \cup Ble!device_info_ports
                                \cup Ble!device_info_charging
             Fine(fields) == Within(fields, 6, 298) /\ Disjoint(fields)
  <1>1. /\ Fine(Ble!jk04_settings)
        /\ Fine(jk04_cell_info)
        /\ Fine(Ble!device_info_texts)
        /\ Fine(device_info_32s)
        /\ Fine(Ble!logbook_entries)
    <2> USE DEF Ble!Value, Ble!Unsigned, Ble!Logged, Ble!Float, Ble!Truth, Ble!Field,
                Within, Disjoint, Ble!Compatible, Apart
    <2>1. Fine(Ble!jk04_settings)
      BY SMT DEF Ble!jk04_settings
    <2>2. Fine(jk04_cell_info)
      BY SMT DEF Ble!jk04_cell_arrays, Ble!jk04_cell_states
    <2>3. Fine(Ble!device_info_texts)
      BY SMT DEF Ble!device_info_texts
    <2>4. Fine(device_info_32s)
      BY SMT DEF Ble!device_info_texts, Ble!device_info_ports, Ble!device_info_charging
    <2>5. Fine(Ble!logbook_entries)
      BY SMT DEF Ble!logbook_entries
    <2> QED BY <2>1, <2>2, <2>3, <2>4, <2>5
  <1>2. v # "JK04" => Fine(Ble!Jk02Settings(v)) /\ Fine(Ble!Jk02CellInfo(v))
    BY Jk02SettingsLayout, Jk02CellInfoLayout DEF Ble!Versions
  <1> HIDE DEF Fine
  <1>3. CASE t = "settings"
    <2>1. Ble!FieldsOf(v, t) = IF v = "JK04" THEN Ble!jk04_settings ELSE Ble!Jk02Settings(v)
      BY <1>3, Zenon DEF Ble!FieldsOf
    <2> QED BY <1>1, <1>2, <2>1 DEF Fine
  <1>4. CASE t = "cell_info"
    <2>1. Ble!FieldsOf(v, t) = IF v = "JK04" THEN jk04_cell_info ELSE Ble!Jk02CellInfo(v)
      BY <1>4, Zenon DEF Ble!FieldsOf
    <2> QED BY <1>1, <1>2, <2>1 DEF Fine
  <1>5. CASE t = "device_info"
    <2>1. Ble!FieldsOf(v, t) =
            Ble!device_info_texts \cup IF v = "JK02_32S"
                                       THEN Ble!device_info_ports \cup Ble!device_info_charging
                                       ELSE {}
      BY <1>5, Zenon DEF Ble!FieldsOf
    <2>2. Ble!FieldsOf(v, t) = IF v = "JK02_32S" THEN device_info_32s ELSE Ble!device_info_texts
      BY <2>1
    <2> QED BY <1>1, <2>2 DEF Fine
  <1>6. CASE t = "logbook"
    <2>1. Ble!FieldsOf(v, t) = Ble!logbook_entries
      BY <1>6, Zenon DEF Ble!FieldsOf
    <2> QED BY <1>1, <2>1 DEF Fine
  <1> QED BY <1>3, <1>4, <1>5, <1>6 DEF Ble!FrameTypes

-----------------------------------------------------------------------------
(***************************************************************************)
(* The frames of heltec_balancer_ble.                                      *)
(***************************************************************************)
(* The cell information of a version. *)
HeltecCellInfo(v) ==
  Heltec!cell_arrays
  \cup IF v = "V2" THEN Heltec!cell_info_v2_measurements \cup Heltec!cell_info_v2_errors
                   ELSE Heltec!cell_info_measurements \cup Heltec!cell_info_errors

(* It ends in front of the checksum. *)
LEMMA HeltecCellInfoLayout ==
  ASSUME NEW v \in Heltec!Versions
  PROVE  Within(HeltecCellInfo(v), 8, 297) /\ Disjoint(HeltecCellInfo(v))
  <1> USE DEF HeltecCellInfo, Heltec!cell_arrays, Heltec!OperationStatus, Heltec!Errors,
              Heltec!cell_info_measurements, Heltec!cell_info_errors,
              Heltec!cell_info_v2_measurements, Heltec!cell_info_v2_errors, Heltec!Floats,
              Heltec!Value, Heltec!Logged, Heltec!Float, Heltec!Truth, Heltec!Field
  <1>1. Within(HeltecCellInfo(v), 8, 297)
    BY SMT DEF Within
  <1>2. Disjoint(HeltecCellInfo(v))
    BY SMT DEF Disjoint, Ble!Compatible, Apart
  <1> QED BY <1>1, <1>2

(* The settings of a version. *)
HeltecSettings(v) ==
  IF v = "V2"
    THEN Heltec!settings_v2_balancing \cup Heltec!settings_v2_controls
         \cup Heltec!settings_v2_voltages \cup Heltec!settings_v2_currents
         \cup Heltec!settings_v2_temperatures
    ELSE Heltec!settings

(* They end in front of the checksum. *)
LEMMA HeltecSettingsLayout ==
  ASSUME NEW v \in Heltec!Versions
  PROVE  /\ Within(HeltecSettings(v), 8, IF v = "V2" THEN 147 ELSE 97)
         /\ Disjoint(HeltecSettings(v))
  <1> USE DEF HeltecSettings, Heltec!settings, Heltec!settings_v2_balancing,
              Heltec!settings_v2_controls, Heltec!settings_v2_voltages,
              Heltec!settings_v2_currents, Heltec!settings_v2_temperatures,
              Heltec!Value, Heltec!Unsigned, Heltec!Float, Heltec!Truth, Heltec!Field
  <1>1. Within(HeltecSettings(v), 8, IF v = "V2" THEN 147 ELSE 97)
    BY SMT DEF Within
  <1>2. Disjoint(HeltecSettings(v))
    BY SMT DEF Disjoint, Ble!Compatible, Apart
  <1> QED BY <1>1, <1>2

(* The factory defaults start at byte 2, where the address is. *)
LEMMA HeltecDefaultsLayout ==
  ASSUME NEW size
  PROVE  Within(Heltec!factory_defaults(size), 2, 97) /\ Disjoint(Heltec!factory_defaults(size))
  <1> DEFINE held == {Heltec!Logged(8, 4), Heltec!Logged(2, 4), Heltec!Logged(72, 8)}
                     \cup Heltec!Floats(16, 68)
  <1>1. Heltec!factory_defaults(size) \subseteq held
    BY Zenon DEF Heltec!factory_defaults
  <1>2. Within(held, 2, 97)
    BY SMT DEF Within, Heltec!Logged, Heltec!Value, Heltec!Field, Heltec!Floats
  <1>3. Disjoint(held)
    BY SMT DEF Disjoint, Ble!Compatible, Apart,
               Heltec!Logged, Heltec!Value, Heltec!Field, Heltec!Floats
  <1> HIDE DEF held
  <1> QED BY <1>1, <1>2, <1>3, Zenon DEF Within, Disjoint

(* All of them, by version and frame type: whatever size they claim.       *)
LEMMA HeltecLayouts ==
  ASSUME NEW v \in Heltec!Versions, NEW t \in Heltec!FrameTypes, NEW size
  PROVE  /\ Heltec!FrameSize(v, t) \in Nat
         /\ Within(Heltec!FieldsOf(v, t, size), IF t = "factory_defaults" THEN 2 ELSE 8,
                   Heltec!FrameSize(v, t) - 3)
         /\ Disjoint(Heltec!FieldsOf(v, t, size))
  <1>1. CASE t = "device_info"
    <2>1. Heltec!FieldsOf(v, t, size) = Heltec!device_info
      BY <1>1, Zenon DEF Heltec!FieldsOf
    <2>2. Within(Heltec!device_info, 8, 97) /\ Disjoint(Heltec!device_info)
      BY SMT DEF Within, Disjoint, Ble!Compatible, Apart, Heltec!device_info, Heltec!Value, Heltec!Field
    <2>3. Heltec!FrameSize(v, t) = 100
      BY <1>1, Zenon DEF Heltec!FrameSize
    <2> QED BY <1>1, <2>1, <2>2, <2>3
  <1>2. CASE t = "cell_info"
    <2>1. Heltec!FieldsOf(v, t, size) = HeltecCellInfo(v)
      BY <1>2, Zenon DEF Heltec!FieldsOf, HeltecCellInfo
    <2>2. Heltec!FrameSize(v, t) = 300
      BY <1>2, Zenon DEF Heltec!FrameSize
    <2> QED BY <1>2, <2>1, <2>2, HeltecCellInfoLayout
  <1>3. CASE t = "factory_defaults"
    <2>1. Heltec!FieldsOf(v, t, size) = Heltec!factory_defaults(size)
      BY <1>3, Zenon DEF Heltec!FieldsOf
    <2>2. Heltec!FrameSize(v, t) = 100
      BY <1>3, Zenon DEF Heltec!FrameSize
    <2> QED BY <1>3, <2>1, <2>2, HeltecDefaultsLayout
  <1>4. CASE t = "settings"
    <2>1. Heltec!FieldsOf(v, t, size) = HeltecSettings(v)
      BY <1>4, Zenon DEF Heltec!FieldsOf, HeltecSettings
    <2>2. Heltec!FrameSize(v, t) = IF v = "V2" THEN 150 ELSE 100
      BY <1>4, Zenon DEF Heltec!FrameSize
    <2>3. /\ Heltec!FrameSize(v, t) \in Nat
          /\ Heltec!FrameSize(v, t) - 3 = IF v = "V2" THEN 147 ELSE 97
      BY <2>2
    <2> QED BY <1>4, <2>1, <2>3, HeltecSettingsLayout
  <1>5. CASE t = "write_register"
    <2>1. Heltec!FieldsOf(v, t, size) = {}
      BY <1>5, Zenon DEF Heltec!FieldsOf
    <2>2. Heltec!FrameSize(v, t) = 20
      BY <1>5, Zenon DEF Heltec!FrameSize
    <2> QED BY <1>5, <2>1, <2>2 DEF Within, Disjoint
  <1> QED BY <1>1, <1>2, <1>3, <1>4, <1>5 DEF Heltec!FrameTypes

-----------------------------------------------------------------------------
(***************************************************************************)
(* The status frame of jk_bms, for any number of cells.                    *)
(***************************************************************************)
(* The fields that are listed one by one, and those that repeat. *)
BmsListed(n) == Bms!status_measurements(n) \cup Bms!status_switches(n) \cup Bms!status_texts(n)

BmsRows(n) == Bms!status_protections(n) \cup Bms!status_temperatures(n)

(* The rows: two bytes every three bytes, with one missing for the switch  *)
(* between the two tables.                                                 *)
LEMMA BmsRowsLayout ==
  ASSUME NEW n \in Nat
  PROVE  /\ \A f \in BmsRows(n) : /\ f.width = 2
                                  /\ \/ \E i \in 0 .. 14 : f.at = Bms!Offset(n) + 36 + 3 * i
                                     \/ \E i \in 0 .. 10 : f.at = Bms!Offset(n) + 83 + 3 * i
         /\ \A f, g \in BmsRows(n) : f.at = g.at => f = g
  <1> USE DEF Bms!Offset, Bms!Value, Bms!Field
  <1>1. DOMAIN Bms!ProtectionNames = 1 .. 15 /\ DOMAIN Bms!TemperatureNames = 1 .. 11
    BY DEF Bms!ProtectionNames, Bms!TemperatureNames
  <1>2. ASSUME NEW f \in Bms!status_protections(n)
        PROVE  \E i \in 0 .. 14 :
                 f = Bms!Value(Bms!Offset(n) + 36 + 3 * i, 2, {Bms!ProtectionNames[i + 1]})
    <2>1. PICK j \in 1 .. 15 :
            f = Bms!Value(Bms!Offset(n) + 6 + 3 * (9 + j), 2, {Bms!ProtectionNames[j]})
      BY <1>1 DEF Bms!status_protections
    <2>2. /\ j - 1 \in 0 .. 14 /\ (j - 1) + 1 = j
          /\ Bms!Offset(n) + 6 + 3 * (9 + j) = Bms!Offset(n) + 36 + 3 * (j - 1)
      OBVIOUS
    <2> QED BY <2>1, <2>2
  <1>3. ASSUME NEW f \in Bms!status_temperatures(n)
        PROVE  \E i \in 0 .. 10 :
                 f = Bms!Value(Bms!Offset(n) + 83 + 3 * i, 2, {Bms!TemperatureNames[i + 1]})
    <2>1. PICK j \in 1 .. 11 :
            f = Bms!Value(Bms!Offset(n) + 8 + 3 * (24 + j), 2, {Bms!TemperatureNames[j]})
      BY <1>1 DEF Bms!status_temperatures
    <2>2. /\ j - 1 \in 0 .. 10 /\ (j - 1) + 1 = j
          /\ Bms!Offset(n) + 8 + 3 * (24 + j) = Bms!Offset(n) + 83 + 3 * (j - 1)
      OBVIOUS
    <2> QED BY <2>1, <2>2
  <1> DEFINE P(i) == Bms!Value(Bms!Offset(n) + 36 + 3 * i, 2, {Bms!ProtectionNames[i + 1]})
             T(i) == Bms!Value(Bms!Offset(n) + 83 + 3 * i, 2, {Bms!TemperatureNames[i + 1]})
  <1>4. \A f \in BmsRows(n) : (\E i \in 0 .. 14 : f = P(i)) \/ (\E i \in 0 .. 10 : f = T(i))
    BY <1>2, <1>3, Zenon DEF BmsRows
  <1>5. /\ \A i \in 0 .. 14 : P(i).at = Bms!Offset(n) + 36 + 3 * i /\ P(i).width = 2
        /\ \A i \in 0 .. 10 : T(i).at = Bms!Offset(n) + 83 + 3 * i /\ T(i).width = 2
    BY SMT
  <1>6. Bms!Offset(n) \in Int
    BY SMT
  <1> HIDE DEF P, T
  <1>7. \A f \in BmsRows(n) : /\ f.width = 2
                              /\ \/ \E i \in 0 .. 14 : f.at = Bms!Offset(n) + 36 + 3 * i
                                 \/ \E i \in 0 .. 10 : f.at = Bms!Offset(n) + 83 + 3 * i
    BY <1>4, <1>5, SMT
  <1>8. ASSUME NEW f \in BmsRows(n), NEW g \in BmsRows(n), f.at = g.at
        PROVE  f = g
    BY <1>4, <1>5, <1>6, <1>8, SMT
  <1> QED BY <1>7, <1>8

(* The cell voltages: two bytes every three bytes. *)
LEMMA BmsCellsLayout ==
  ASSUME NEW n \in Nat
  PROVE  /\ \A f \in Bms!cell_voltages(n) : \E i \in 0 .. n - 1 : f.at = 3 + 3 * i /\ f.width = 2
         /\ \A f, g \in Bms!cell_voltages(n) : f.at = g.at => f = g
  <1>1. \A f \in Bms!cell_voltages(n) : \E i \in 0 .. n - 1 : f = Bms!cell_voltage(i)
    BY Zenon DEF Bms!cell_voltages
  <1>2. \A i \in 0 .. n - 1 : Bms!cell_voltage(i).at = 3 + 3 * i /\ Bms!cell_voltage(i).width = 2
    BY SMT DEF Bms!cell_voltage, Bms!Value, Bms!Field
  <1>3. \A i, j \in 0 .. n - 1 : Bms!cell_voltage(i).at = Bms!cell_voltage(j).at => i = j
    BY <1>2, SMT
  <1> QED BY <1>1, <1>2, <1>3, Zenon

(* The fields listed one by one keep off the rows, and off the ids behind  *)
(* the cells.                                                              *)
LEMMA BmsListedLayout ==
  ASSUME NEW n \in Nat
  PROVE  /\ Within(BmsListed(n), Bms!Offset(n), Bms!Required(n) - 1)
         /\ Disjoint(BmsListed(n))
         /\ \A f \in BmsListed(n) : \/ f.at + f.width <= Bms!Offset(n) + 35
                                    \/ f.at = Bms!Offset(n) + 81 /\ f.width = 1
                                    \/ f.at >= Bms!Offset(n) + 117
         /\ \A f \in BmsListed(n), d \in Bms!IdDistances :
              ~Ble!Covers(f, Bms!Offset(n) - 1 + d)
  <1> USE DEF BmsListed, Bms!status_measurements, Bms!status_switches, Bms!status_texts, Bms!Offset,
              Bms!Value, Bms!Truth, Bms!Field
  <1>1. Within(BmsListed(n), Bms!Offset(n), Bms!Required(n) - 1)
    BY SMT DEF Within, Bms!Required
  <1>2. Disjoint(BmsListed(n))
    BY SMT DEF Disjoint, Ble!Compatible, Apart
  <1>3. \A f \in BmsListed(n) : \/ f.at + f.width <= Bms!Offset(n) + 35
                                \/ f.at = Bms!Offset(n) + 81 /\ f.width = 1
                                \/ f.at >= Bms!Offset(n) + 117
    <2>1. \A f \in Bms!status_measurements(n) : f.at + f.width <= Bms!Offset(n) + 35
      BY SMT
    <2>2. \A f \in Bms!status_switches(n) : \/ f.at = Bms!Offset(n) + 81 /\ f.width = 1
                                            \/ f.at >= Bms!Offset(n) + 117
      BY SMT
    <2>3. \A f \in Bms!status_texts(n) : f.at >= Bms!Offset(n) + 117
      BY SMT
    <2> HIDE DEF Bms!status_measurements, Bms!status_switches, Bms!status_texts
    <2> QED BY <2>1, <2>2, <2>3, SMT
  <1>4. \A f \in BmsListed(n), d \in Bms!IdDistances : ~Ble!Covers(f, Bms!Offset(n) - 1 + d)
    BY SMT DEF Bms!IdDistances, Ble!Covers
  <1> QED BY <1>1, <1>2, <1>3, <1>4

(* The fixed offsets of jk_bms keep off the ids of all registers, however  *)
(* many cells push them back.                                              *)
LEMMA BmsLayout ==
  ASSUME NEW n \in Nat
  PROVE  /\ Within(Bms!Status(n), 2, Bms!Required(n) - 1)
         /\ Disjoint(Bms!Status(n))
         /\ \A f \in Bms!Status(n), id \in Bms!Ids(n) : ~Ble!Covers(f, id)
  <1> DEFINE o == Bms!Offset(n)
  <1>1. o = 3 * n + 3 /\ Bms!Required(n) = o + 220 /\ o \in Nat
    BY DEF Bms!Offset, Bms!Required
  <1>2. \A f \in Bms!Status(n) : \/ f \in Bms!cell_voltages(n)
                                 \/ f \in BmsListed(n)
                                 \/ f \in BmsRows(n)
    BY Zenon DEF Bms!Status, BmsListed, BmsRows
  <1> HIDE DEF o
  <1>3. Within(Bms!Status(n), 2, Bms!Required(n) - 1)
    BY <1>1, <1>2, BmsCellsLayout, BmsListedLayout, BmsRowsLayout, SMT DEF Within, o
  <1>4. ASSUME NEW f \in Bms!Status(n), NEW g \in Bms!Status(n)
        PROVE  Ble!Compatible(f, g) \/ Apart(f, g)
    <2>1. CASE f \in Bms!cell_voltages(n) /\ g \in Bms!cell_voltages(n)
      BY <2>1, BmsCellsLayout, SMT DEF Ble!Compatible, Apart
    <2>2. CASE f \in BmsListed(n) /\ g \in BmsListed(n)
      BY <2>2, BmsListedLayout DEF Disjoint
    <2>3. CASE f \in BmsRows(n) /\ g \in BmsRows(n)
      BY <1>1, <2>3, BmsRowsLayout, SMT DEF Ble!Compatible, Apart, o
    <2>4. \A x \in Bms!cell_voltages(n), y \in BmsListed(n) \cup BmsRows(n) : Apart(x, y) /\ Apart(y, x)
      BY <1>1, BmsCellsLayout, BmsListedLayout, BmsRowsLayout, SMT DEF Within, Apart, o
    <2>5. \A x \in BmsListed(n), y \in BmsRows(n) : Apart(x, y) /\ Apart(y, x)
      BY <1>1, BmsListedLayout, BmsRowsLayout, SMT DEF Within, Apart, o
    <2> QED BY <1>2, <2>1, <2>2, <2>3, <2>4, <2>5
  <1>5. ASSUME NEW f \in Bms!Status(n), NEW id \in Bms!Ids(n)
        PROVE  ~Ble!Covers(f, id)
    <2>1. \/ id \in {0, 1}
          \/ \E i \in 0 .. n - 1 : id = 2 + 3 * i
          \/ \E d \in Bms!IdDistances : id = o - 1 + d
      BY DEF Bms!Ids, o
    <2>2. CASE f \in Bms!cell_voltages(n)
      <3>1. \A d \in Bms!IdDistances : d \in Nat
        BY DEF Bms!IdDistances
      <3> QED BY <1>1, <2>1, <2>2, <3>1, BmsCellsLayout, SMT DEF Ble!Covers
    <2>3. CASE f \in BmsListed(n)
      <3>1. \A d \in Bms!IdDistances : ~Ble!Covers(f, o - 1 + d)
        BY <2>3, BmsListedLayout DEF o
      <3> QED BY <1>1, <2>1, <2>3, <3>1, BmsListedLayout, SMT DEF Ble!Covers, Within, o
    <2>4. CASE f \in BmsRows(n)
      <3>1. \A d \in Bms!IdDistances : d \in Nat /\ (\/ d <= 33
                                                     \/ \E i \in 0 .. 14 : d = 36 + 3 * i
                                                     \/ d = 81
                                                     \/ \E i \in 0 .. 10 : d = 83 + 3 * i
                                                     \/ d >= 116)
        BY DEF Bms!IdDistances
      <3> QED BY <1>1, <2>1, <2>4, <3>1, BmsRowsLayout, SMT DEF Ble!Covers, o
    <2> QED BY <1>2, <2>2, <2>3, <2>4
  <1> QED BY <1>3, <1>4, <1>5 DEF Disjoint

-----------------------------------------------------------------------------
(***************************************************************************)
(* The status frame of jk_balancer.                                        *)
(***************************************************************************)
(* However many cells are configured or reported, 24 are read, and the     *)
(* temperature lies behind them.                                           *)
LEMMA BalancerLayout ==
  ASSUME NEW n \in Nat
  PROVE  /\ Within(Balancer!Status(n), 4, Balancer!FrameSize - 2)
         /\ Disjoint(Balancer!Status(n))
  <1> DEFINE listed == Balancer!status_measurements \cup Balancer!status_settings
  <1>1. \A f \in Balancer!Status(n) : \/ f \in listed
                                      \/ \E i \in 0 .. 23 : f = Balancer!cell_voltage(i)
    <2>1. \A f \in Balancer!cell_voltages(n) :
            \E i \in 0 .. Balancer!Cells(n) - 1 : f = Balancer!cell_voltage(i)
      BY Zenon DEF Balancer!cell_voltages
    <2>2. 0 .. Balancer!Cells(n) - 1 \subseteq 0 .. 23
      BY SMT DEF Balancer!Cells, Balancer!MaxCells
    <2> QED BY <2>1, <2>2, Zenon DEF Balancer!Status
  <1>2. \A i \in 0 .. 23 : /\ Balancer!cell_voltage(i).at = 23 + 2 * i
                           /\ Balancer!cell_voltage(i).width = 2
    BY SMT DEF Balancer!cell_voltage, Balancer!Value, Balancer!Field
  <1>3. /\ \A f \in listed : /\ f.at \in Int /\ f.width \in Int
                             /\ \/ 4 <= f.at /\ f.at + f.width <= 23
                                \/ 71 <= f.at /\ f.at + f.width <= 73
        /\ Disjoint(listed)
    BY SMT DEF Disjoint, Ble!Compatible, Apart, Balancer!status_measurements,
               Balancer!status_settings, Balancer!Value, Balancer!Truth, Balancer!Field
  <1> HIDE DEF listed
  <1>4. Within(Balancer!Status(n), 4, Balancer!FrameSize - 2)
    BY <1>1, <1>2, <1>3, SMT DEF Within, Balancer!FrameSize
  <1>5. ASSUME NEW f \in Balancer!Status(n), NEW g \in Balancer!Status(n)
        PROVE  Ble!Compatible(f, g) \/ Apart(f, g)
    <2>1. CASE f \in listed /\ g \in listed
      BY <1>3, <2>1 DEF Disjoint
    <2>2. CASE f \notin listed \/ g \notin listed
      BY <1>1, <1>2, <1>3, <2>2, SMT DEF Ble!Compatible, Apart
    <2> QED BY <2>1, <2>2
  <1> QED BY <1>4, <1>5 DEF Disjoint

-----------------------------------------------------------------------------
(***************************************************************************)
(* The frames of jk_bms_display.                                           *)
(***************************************************************************)
(* The status frame. *)
LEMMA DisplayStatusLayout ==
  Within(Display!Status, 4, Display!StatusSize - 1) /\ Disjoint(Display!Status)
  <1> DEFINE listed == Display!status_measurements \cup Display!status_alarms
  <1>1. \A f \in Display!Status : f \in listed \/ \E i \in 0 .. 23 : f = Display!cell_voltage(i)
    BY Zenon DEF Display!Status, Display!cell_voltages
  <1>2. \A i \in 0 .. 23 : /\ Display!cell_voltage(i).at = 30 + 2 * i
                           /\ Display!cell_voltage(i).width = 2
    BY SMT DEF Display!cell_voltage, Display!Word, Display!Offset, Display!Value, Display!Field
  <1>3. /\ \A f \in listed : /\ f.at \in Int /\ f.width \in Int
                             /\ \/ 6 <= f.at /\ f.at + f.width <= 30
                                \/ 78 <= f.at /\ f.at + f.width <= 96
        /\ Disjoint(listed)
    BY SMT DEF Disjoint, Ble!Compatible, Apart, Display!status_measurements, Display!status_alarms,
               Display!Word, Display!Offset, Display!Value, Display!Field
  <1> HIDE DEF listed
  <1>4. Within(Display!Status, 4, Display!StatusSize - 1)
    BY <1>1, <1>2, <1>3, SMT DEF Within, Display!StatusSize
  <1>5. ASSUME NEW f \in Display!Status, NEW g \in Display!Status
        PROVE  Ble!Compatible(f, g) \/ Apart(f, g)
    <2>1. CASE f \in listed /\ g \in listed
      BY <1>3, <2>1 DEF Disjoint
    <2>2. CASE f \notin listed \/ g \notin listed
      BY <1>1, <1>2, <1>3, <2>2, SMT DEF Ble!Compatible, Apart
    <2> QED BY <2>1, <2>2
  <1> QED BY <1>4, <1>5 DEF Disjoint

(* The writes it logs, of any size: whole registers are read. *)
LEMMA DisplayRawLayout ==
  ASSUME NEW size \in RawSizes
  PROVE  /\ size \in Nat
         /\ Within(Display!raw_data(size), 4, size + (size % 2) - 1)
         /\ Disjoint(Display!raw_data(size))
  <1> DEFINE last == (size - 5) \div 2 - 1
             R(i) == Display!Logged(6 + 2 * i, 2)
             A == Display!Logged(4, 2)
  <1>1. size \in 8 .. 255
    BY RawSizesAssumption
  <1>2. last \in Int /\ 6 + 2 * last + 2 <= size + (size % 2) /\ size + (size % 2) >= 6
    BY <1>1, SMT
  <1>3. A.at = 4 /\ A.width = 2 /\ \A i \in 0 .. last : R(i).at = 6 + 2 * i /\ R(i).width = 2
    BY <1>2, SMT DEF Display!Logged, Display!Value, Display!Field
  <1>4. \A f \in Display!raw_data(size) : f = A \/ \E i \in 0 .. last : f = R(i)
    BY Zenon DEF Display!raw_data
  <1> HIDE DEF last, R, A
  <1>5. Within(Display!raw_data(size), 4, size + (size % 2) - 1)
    BY <1>1, <1>2, <1>3, <1>4, SMT DEF Within
  <1>6. Disjoint(Display!raw_data(size))
    BY <1>2, <1>3, <1>4, SMT DEF Disjoint, Ble!Compatible, Apart
  <1> QED BY <1>1, <1>5, <1>6

-----------------------------------------------------------------------------
(***************************************************************************)
(* The walk.                                                               *)
(***************************************************************************)
(* What a decoder assumes of a frame is a frame of the same kind. *)
LEMMA AssumedKind ==
  ASSUME NEW f \in Frames
  PROVE  /\ Assumed(f).device = f.device /\ Assumed(f).type = f.type
         /\ Assumed(f).cells = f.cells /\ Assumed(f).size = AssumedSize(f)
  <1>1. \A device, version, type, size, cells :
          DOMAIN Kind(device, version, type, size, cells)
            = {"device", "version", "type", "size", "cells"}
    BY DEF Kind
  <1>2. \E device, version, type, size, cells : f = Kind(device, version, type, size, cells)
    <2>1. CASE f \in BleFrames
      <3>1. \E v \in Ble!Versions, t \in Ble!FrameTypes : f = Kind("jk_bms_ble", v, t, 300, 0)
        BY <2>1, SMT DEF BleFrames
      <3> QED BY <3>1, Zenon
    <2>2. CASE f \in HeltecFrames
      <3>1. \E v \in Heltec!Versions, t \in Heltec!FrameTypes : f \in HeltecFramesOf(v, t)
        BY <2>2, SMT DEF HeltecFrames
      <3> QED BY <3>1, Zenon DEF HeltecFramesOf
    <2>3. CASE f \in BmsFrames
      BY <2>3, Zenon DEF BmsFrames
    <2>4. CASE f \in BalancerFrames
      BY <2>4, Zenon DEF BalancerFrames
    <2>5. CASE f \in DisplayFrames
      BY <2>5, Zenon DEF DisplayFrames
    <2> QED BY <2>1, <2>2, <2>3, <2>4, <2>5, Zenon DEF Frames
  <1>3. DOMAIN f = {"device", "version", "type", "size", "cells"}
    BY <1>1, <1>2, Zenon
  <1> QED BY <1>3 DEF Assumed

(* Most are taken as they are. *)
LEMMA AssumedAsItIs ==
  ASSUME NEW f, f.device \in {"jk_bms_ble", "jk_bms", "jk_balancer"}
  PROVE  AssumedSize(f) = f.size
  <1>1. f.device # "heltec_balancer_ble" /\ f.device # "jk_bms_display"
    OBVIOUS
  <1> QED BY <1>1, Zenon DEF AssumedSize

(* The fields of a frame are read inside the payload it is assumed to      *)
(* have, and apart.                                                        *)
LEMMA Layouts ==
  ASSUME NEW f \in Frames
  PROVE  /\ \A r \in FieldsIn(f), b \in Nat : Ble!Covers(r, b) => b \in Payload(Assumed(f))
         /\ Disjoint(FieldsIn(f))
         /\ \A r \in FieldsIn(f) : r.at \in Int /\ r.width \in Int
  <1> USE DEF Ble!Covers
  <1> DEFINE a == Assumed(f)
  <1>1. CASE f \in BleFrames
    <2>1. PICK v \in Ble!Versions, t \in Ble!FrameTypes : f = Kind("jk_bms_ble", v, t, 300, 0)
      BY <1>1, SMT DEF BleFrames
    <2>2. f.device = "jk_bms_ble" /\ f.version = v /\ f.type = t
      BY <2>1 DEF Kind
    <2>3. a.device = "jk_bms_ble"
      BY <2>2, AssumedKind
    <2>4. FieldsIn(f) = Ble!FieldsOf(v, t) /\ Payload(a) = 6 .. 298
      BY <2>2, <2>3, Zenon DEF FieldsIn, Payload
    <2> QED BY <2>4, BleLayouts, SMT DEF Within
  <1>2. CASE f \in HeltecFrames
    <2>1. PICK v \in Heltec!Versions, t \in Heltec!FrameTypes : f \in HeltecFramesOf(v, t)
      BY <1>2, SMT DEF HeltecFrames
    <2>2. PICK s \in HeltecSizes : f = Kind("heltec_balancer_ble", v, t, s, 0)
      BY <2>1, Zenon DEF HeltecFramesOf
    <2>3. f.device = "heltec_balancer_ble" /\ f.version = v /\ f.type = t /\ f.size = s
      BY <2>2 DEF Kind
    <2>4. FieldsIn(f) = Heltec!FieldsOf(v, t, s)
      BY <2>3, Zenon DEF FieldsIn
    <2>5. a.device = "heltec_balancer_ble" /\ a.type = t /\ a.size = AssumedSize(f)
      BY <2>3, AssumedKind
    <2>6. Payload(a) = (IF t = "factory_defaults" THEN 2 ELSE 8) .. AssumedSize(f) - 3
      BY <2>5, Zenon DEF Payload
    <2>7. s \in Nat /\ Heltec!FrameSize(v, t) \in Nat
      BY HeltecSizesAssumption, HeltecLayouts DEF Heltec!LegalSizes
    <2>8. AssumedSize(f) = IF s < Heltec!FrameSize(v, t) THEN Heltec!FrameSize(v, t) ELSE s
      BY <2>3, Zenon DEF AssumedSize
    <2>9. AssumedSize(f) \in Nat /\ Heltec!FrameSize(v, t) <= AssumedSize(f)
      BY <2>7, <2>8
    <2> QED BY <2>4, <2>6, <2>7, <2>9, HeltecLayouts, SMT DEF Within
  <1>3. CASE f \in BmsFrames
    <2>1. PICK n \in BmsCells : f = Kind("jk_bms", "", "status", Bms!Required(n), n)
      BY <1>3, Zenon DEF BmsFrames
    <2>2. f.device = "jk_bms" /\ f.size = Bms!Required(n) /\ f.cells = n
      BY <2>1 DEF Kind
    <2>3. a.device = "jk_bms" /\ a.size = Bms!Required(n) /\ a.cells = n
      BY <2>2, AssumedKind, AssumedAsItIs
    <2>4. FieldsIn(f) = Bms!Status(n) /\ Payload(a) = (0 .. Bms!Required(n) - 1) \ Bms!Ids(n)
      BY <2>2, <2>3, Zenon DEF FieldsIn, Payload
    <2>5. n \in Nat /\ Bms!Required(n) \in Nat
      BY CellsAssumption DEF Bms!Required
    <2> QED BY <2>4, <2>5, BmsLayout, SMT DEF Within
  <1>4. CASE f \in BalancerFrames
    <2>1. PICK n \in BalancerCells : f = Kind("jk_balancer", "", "status", Balancer!FrameSize, n)
      BY <1>4, Zenon DEF BalancerFrames
    <2>2. f.device = "jk_balancer" /\ f.size = Balancer!FrameSize /\ f.cells = n
      BY <2>1 DEF Kind
    <2>3. a.device = "jk_balancer" /\ a.size = Balancer!FrameSize
      BY <2>2, AssumedKind, AssumedAsItIs
    <2>4. FieldsIn(f) = Balancer!Status(n) /\ Payload(a) = 4 .. Balancer!FrameSize - 2
      BY <2>2, <2>3, Zenon DEF FieldsIn, Payload
    <2>5. n \in Nat /\ Balancer!FrameSize \in Nat
      BY CellsAssumption DEF Balancer!FrameSize
    <2> QED BY <2>4, <2>5, BalancerLayout, SMT DEF Within
  <1>5. CASE f = Kind("jk_bms_display", "", "status", Display!StatusSize, 0)
    <2>1. f.device = "jk_bms_display" /\ f.type = "status" /\ f.size = Display!StatusSize
      BY <1>5 DEF Kind
    <2>2. AssumedSize(f) = Display!StatusSize + (Display!StatusSize % 2)
      BY <2>1, Zenon DEF AssumedSize
    <2>3. AssumedSize(f) = Display!StatusSize /\ Display!StatusSize \in Nat
      BY <2>2 DEF Display!StatusSize
    <2>4. a.device = "jk_bms_display" /\ a.size = Display!StatusSize
      BY <2>1, <2>3, AssumedKind, Zenon
    <2>5. FieldsIn(f) = Display!Status /\ Payload(a) = 4 .. Display!StatusSize - 1
      BY <2>1, <2>4, Zenon DEF FieldsIn, Payload
    <2> QED BY <2>3, <2>5, DisplayStatusLayout, SMT DEF Within
  <1>6. CASE f \in {Kind("jk_bms_display", "", "raw_data", s, 0) : s \in RawSizes}
    <2>1. PICK s \in RawSizes : f = Kind("jk_bms_display", "", "raw_data", s, 0)
      BY <1>6, Zenon
    <2>2. f.device = "jk_bms_display" /\ f.type = "raw_data" /\ f.size = s
      BY <2>1 DEF Kind
    <2>3. AssumedSize(f) = s + (s % 2)
      BY <2>2, Zenon DEF AssumedSize
    <2>4. a.device = "jk_bms_display" /\ a.size = s + (s % 2)
      BY <2>2, <2>3, AssumedKind, Zenon
    <2>5. FieldsIn(f) = Display!raw_data(s)
      BY <2>2, Zenon DEF FieldsIn
    <2>6. Payload(a) = 4 .. a.size - 1
      BY <2>4, Zenon DEF Payload
    <2>7. Payload(a) = 4 .. s + (s % 2) - 1 /\ s + (s % 2) \in Nat
      BY <2>4, <2>6, DisplayRawLayout
    <2> QED BY <2>5, <2>7, DisplayRawLayout, SMT DEF Within
  <1> QED BY <1>1, <1>2, <1>3, <1>4, <1>5, <1>6, Zenon DEF Frames, DisplayFrames

(* What holds of every step of the walk. *)
WalkOK == frame \in Frames /\ byte \in Nat

(* The walk stays on one of the frames. *)
LEMMA WalkGoesOn == Spec => []WalkOK
  <1>1. Init => WalkOK
    BY DEF Init, WalkOK
  <1>2. WalkOK /\ [Advance]_vars => WalkOK'
    BY DEF WalkOK, Advance, vars
  <1> QED BY <1>1, <1>2, PTL DEF Spec

(* No decoder takes a header, a checksum or the id of a register for data, *)
(* or reads beyond the end its frame is assumed to have, which is its own  *)
(* end unless it is a frame of a Heltec balancer shorter than those of its *)
(* type, or a write of half a register to the display: for every number of *)
(* cells, every size that is let through and every byte.                   *)
THEOREM OnlyPayloadIsRead == Spec => []ReadsPayloadOnly
  <1>1. WalkOK => ReadsPayloadOnly
    BY Layouts, SMT DEF WalkOK, ReadsPayloadOnly, Readers
  <1> QED BY <1>1, WalkGoesOn, PTL

(* No byte is taken for two things: for every number of cells, every size  *)
(* that is let through and every byte.                                     *)
THEOREM EveryByteHasOneMeaning == Spec => []OneMeaningPerByte
  <1>1. ASSUME WalkOK PROVE OneMeaningPerByte
    <2>1. ASSUME NEW f \in Readers, NEW g \in Readers
          PROVE  Ble!Compatible(f, g)
      <3>1. /\ f \in FieldsIn(frame) /\ g \in FieldsIn(frame)
            /\ Ble!Covers(f, byte) /\ Ble!Covers(g, byte)
        BY <2>1 DEF Readers
      <3>2. Ble!Compatible(f, g) \/ Apart(f, g)
        BY <1>1, <3>1, Layouts DEF WalkOK, Disjoint
      <3>3. ~Apart(f, g)
        BY <1>1, <3>1, Layouts, SMT DEF WalkOK, Apart, Ble!Covers
      <3> QED BY <3>2, <3>3
    <2> QED BY <2>1 DEF OneMeaningPerByte
  <1> QED BY <1>1, WalkGoesOn, PTL

(* The sizes the code lets through without need: how long a frame of a     *)
(* Heltec balancer has to be for its decoder.                              *)
LastRead(v, t) ==
  CASE t = "device_info" -> 63
    [] t = "cell_info" -> IF v = "V2" THEN 294 ELSE 257
    [] t = "settings" -> IF v = "V2" THEN 128 ELSE 36
    [] t = "factory_defaults" -> 79

(* A frame of a Heltec balancer that assemble() lets through is read       *)
(* beyond its end if it is shorter than its decoder needs, and not the     *)
(* acknowledgement that decode_factory_defaults_ skips: no decoder checks. *)
THEOREM ShortFramesAreOverread ==
  ASSUME NEW f \in HeltecFrames, f.type # "write_register",
         f.type = "factory_defaults" => Heltec!HoldsDefaults(f.size),
         f.size <= LastRead(f.version, f.type)
  PROVE  \E r \in FieldsIn(f), b \in Nat : Ble!Covers(r, b) /\ b >= f.size
  <1>1. PICK v \in Heltec!Versions, t \in Heltec!FrameTypes : f \in HeltecFramesOf(v, t)
    BY SMT DEF HeltecFrames
  <1>2. PICK s \in {n \in HeltecSizes : Heltec!IsDecodedAs(v, t, n)} :
          f = Kind("heltec_balancer_ble", v, t, s, 0)
    BY <1>1, Zenon DEF HeltecFramesOf
  <1>3. f.device = "heltec_balancer_ble" /\ f.version = v /\ f.type = t /\ f.size = s
    BY <1>2 DEF Kind
  <1>4. FieldsIn(f) = Heltec!FieldsOf(v, t, s)
    BY <1>3, Zenon DEF FieldsIn
  <1>5. s \in Nat /\ s <= LastRead(v, t)
    BY <1>2, <1>3, HeltecSizesAssumption DEF Heltec!LegalSizes
  <1>6. /\ LastRead(v, t) \in Nat
        /\ \E r \in Heltec!FieldsOf(v, t, s) :
             r.at \in Nat /\ r.width \in Nat \ {0} /\ r.at + r.width = LastRead(v, t) + 1
    <2>1. CASE t = "device_info"
      <3>1. Heltec!FieldsOf(v, t, s) = Heltec!device_info /\ LastRead(v, t) = 63
        BY <2>1, Zenon DEF Heltec!FieldsOf, LastRead
      <3> DEFINE r == Heltec!Value(60, 4, {"total_runtime", "total_runtime_formatted_text"})
      <3>2. r \in Heltec!device_info
        BY Zenon DEF Heltec!device_info
      <3>3. r.at = 60 /\ r.width = 4
        BY DEF Heltec!Value, Heltec!Field
      <3> HIDE DEF r
      <3> QED BY <3>1, <3>2, <3>3
    <2>2. CASE t = "cell_info"
      <3>1. /\ Heltec!FieldsOf(v, t, s) = HeltecCellInfo(v)
            /\ LastRead(v, t) = IF v = "V2" THEN 294 ELSE 257
        BY <2>2, Zenon DEF Heltec!FieldsOf, LastRead, HeltecCellInfo
      <3>2. PICK o \in {0, 37} : o = IF v = "V2" THEN 37 ELSE 0
        OBVIOUS
      <3> DEFINE r == Heltec!Logged(254 + o, 4)
      <3>3. Heltec!Errors(o) \subseteq HeltecCellInfo(v)
        BY <3>2 DEF HeltecCellInfo, Heltec!cell_info_errors, Heltec!cell_info_v2_errors
      <3>4. r \in Heltec!Errors(o)
        BY Zenon DEF Heltec!Errors
      <3>5. r.at = 254 + o /\ r.width = 4
        BY DEF Heltec!Logged, Heltec!Value, Heltec!Field
      <3> HIDE DEF r
      <3> QED BY <3>1, <3>2, <3>3, <3>4, <3>5
    <2>3. CASE t = "settings"
      <3> DEFINE r == IF v = "V2" THEN Heltec!Value(128, 1, {"battery_type_text", "battery_type_select"})
                                  ELSE Heltec!Float(33, "balance_stop_diff_voltage")
      <3>1. /\ Heltec!FieldsOf(v, t, s) = HeltecSettings(v)
            /\ LastRead(v, t) = IF v = "V2" THEN 128 ELSE 36
        BY <2>3, Zenon DEF Heltec!FieldsOf, LastRead, HeltecSettings
      <3>2. r \in HeltecSettings(v)
        BY Zenon DEF HeltecSettings, Heltec!settings, Heltec!settings_v2_controls
      <3>3. r.at = (IF v = "V2" THEN 128 ELSE 33) /\ r.width = (IF v = "V2" THEN 1 ELSE 4)
        BY DEF Heltec!Float, Heltec!Value, Heltec!Field
      <3> HIDE DEF r
      <3> QED BY <3>1, <3>2, <3>3
    <2>4. CASE t = "factory_defaults"
      <3> DEFINE r == Heltec!Logged(72, 8)
      <3>1. Heltec!FieldsOf(v, t, s) = Heltec!factory_defaults(s) /\ LastRead(v, t) = 79
        BY <2>4, Zenon DEF Heltec!FieldsOf, LastRead
      <3>2. r \in Heltec!factory_defaults(s)
        BY <1>3, <2>4, Zenon DEF Heltec!factory_defaults
      <3>3. r.at = 72 /\ r.width = 8
        BY DEF Heltec!Logged, Heltec!Value, Heltec!Field
      <3> HIDE DEF r
      <3> QED BY <3>1, <3>2, <3>3
    <2> QED BY <1>3, <2>1, <2>2, <2>3, <2>4 DEF Heltec!FrameTypes
  <1>7. PICK r \in FieldsIn(f) :
          r.at \in Nat /\ r.width \in Nat \ {0} /\ r.at + r.width = LastRead(v, t) + 1
    BY <1>4, <1>6
  <1> DEFINE b == r.at + r.width - 1
  <1>8. b \in Nat /\ Ble!Covers(r, b)
    BY <1>7 DEF Ble!Covers
  <1>9. b >= f.size
    BY <1>3, <1>5, <1>6, <1>7
  <1> HIDE DEF b
  <1> QED BY <1>8, <1>9

(* A write of the display with an odd number of bytes is read one byte     *)
(* beyond its end by on_jk_bms_display_raw_data_, which takes two at once. *)
THEOREM HalfRegistersAreOverread ==
  ASSUME NEW size \in RawSizes, size % 2 = 1
  PROVE  \E r \in Display!raw_data(size) : Ble!Covers(r, size)
  <1> DEFINE i == (size - 5) \div 2 - 1
             r == Display!Logged(6 + 2 * i, 2)
  <1>1. size \in 8 .. 255
    BY RawSizesAssumption
  <1>2. i \in 0 .. (size - 5) \div 2 - 1 /\ 6 + 2 * i = size - 1
    BY <1>1, SMT
  <1>3. r \in Display!raw_data(size)
    BY <1>2, Zenon DEF Display!raw_data
  <1>4. r.at = size - 1 /\ r.width = 2
    BY <1>2 DEF Display!Logged, Display!Value, Display!Field
  <1> HIDE DEF r
  <1>5. Ble!Covers(r, size)
    BY <1>1, <1>4, SMT DEF Ble!Covers
  <1> QED BY <1>3, <1>5

=============================================================================
