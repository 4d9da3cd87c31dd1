---------------------------- MODULE FrameLayouts ----------------------------
(***************************************************************************)
(* A walk over the bytes of every frame the components decode, to see what *)
(* the decoders take each byte for.  All of them read at fixed offsets.    *)
(* The sizes are those that the checks in front of the decoders let        *)
(* through, whether a device sends them or not: of a check for a least     *)
(* size, this size.  A JK BMS lists whole cells (external).                *)
(***************************************************************************)
EXTENDS Integers, Sequences, FiniteSets

Ble == INSTANCE JkBmsBleFrames
Heltec == INSTANCE HeltecBalancerBleFrames
Bms == INSTANCE JkBmsFrames
Balancer == INSTANCE JkBalancerFrames
Display == INSTANCE JkBmsDisplayFrames

CONSTANTS
  BmsCells,       \* how many cells a JK BMS on its serial line may report
  BalancerCells,  \* how many a user may configure for a JK balancer, or it may answer with
  HeltecSizes,    \* the sizes a frame of a Heltec balancer may claim
  RawSizes,       \* the sizes what the display writes may claim: one byte, five or more of data
  LastByte        \* bound: the last byte looked at

ASSUME CellsAssumption == BmsCells \subseteq Nat /\ BalancerCells \subseteq Nat
ASSUME HeltecSizesAssumption == HeltecSizes \subseteq Heltec!LegalSizes
ASSUME RawSizesAssumption == RawSizes \subseteq 8 .. 255
ASSUME LastByteAssumption == LastByte \in Nat

VARIABLES frame, byte
vars == <<frame, byte>>

(* A frame of a kind: the version is "" for devices that have only one,    *)
(* cells counts the cells of a frame whose layout depends on them.         *)
Kind(device, version, type, size, cells) ==
  [device |-> device, version |-> version, type |-> type, size |-> size, cells |-> cells]

BleFrames ==
  {Kind("jk_bms_ble", v, t, 300, 0) : v \in Ble!Versions, t \in Ble!FrameTypes}

HeltecFramesOf(v, t) ==
  {Kind("heltec_balancer_ble", v, t, s, 0) : s \in {n \in HeltecSizes : Heltec!IsDecodedAs(v, t, n)}}

HeltecFrames == UNION {HeltecFramesOf(v, t) : v \in Heltec!Versions, t \in Heltec!FrameTypes}

BmsFrames == {Kind("jk_bms", "", "status", Bms!Required(n), n) : n \in BmsCells}

BalancerFrames ==
  {Kind("jk_balancer", "", "status", Balancer!FrameSize, n) : n \in BalancerCells}

DisplayFrames ==
  {Kind("jk_bms_display", "", "status", Display!StatusSize, 0)}
  \cup {Kind("jk_bms_display", "", "raw_data", s, 0) : s \in RawSizes}

Frames == BleFrames \cup HeltecFrames \cup BmsFrames \cup BalancerFrames \cup DisplayFrames

FieldsIn(f) ==
  CASE f.device = "jk_bms_ble" -> Ble!FieldsOf(f.version, f.type)
    [] f.device = "heltec_balancer_ble" -> Heltec!FieldsOf(f.version, f.type, f.size)
    [] f.device = "jk_bms" -> Bms!Status(f.cells)
    [] f.device = "jk_balancer" -> Balancer!Status(f.cells)
    [] f.device = "jk_bms_display" ->
         IF f.type = "status" THEN Display!Status ELSE Display!raw_data(f.size)

(* The bytes that hold data: no header, no checksum, no register id.  The  *)
(* factory defaults of a Heltec balancer are read from its header on.      *)
Payload(f) ==
  CASE f.device = "jk_bms_ble" -> 6 .. 298
    [] f.device = "heltec_balancer_ble" ->
         (IF f.type = "factory_defaults" THEN 2 ELSE 8) .. f.size - 3
    [] f.device = "jk_bms" -> (0 .. f.size - 1) \ Bms!Ids(f.cells)
    [] f.device = "jk_balancer" -> 4 .. f.size - 2
    [] f.device = "jk_bms_display" -> 4 .. f.size - 1

(* The size a decoder takes its frame to have, where no check asks for it: *)
(* a frame of a Heltec balancer at least that of its type, and a write of  *)
(* the display whole registers.                                            *)
AssumedSize(f) ==
  CASE f.device = "heltec_balancer_ble" ->
         (LET least == Heltec!FrameSize(f.version, f.type)
          IN IF f.size < least THEN least ELSE f.size)
    [] f.device = "jk_bms_display" -> f.size + (f.size % 2)
    [] OTHER -> f.size

Assumed(f) == [f EXCEPT !.size = AssumedSize(f)]

Init == frame \in Frames /\ byte = 0

Advance == byte < LastByte /\ byte' = byte + 1 /\ UNCHANGED frame

Spec == Init /\ [][Advance]_vars

Readers == {f \in FieldsIn(frame) : Ble!Covers(f, byte)}

-----------------------------------------------------------------------------
(***************************************************************************)
(* Properties.                                                             *)
(***************************************************************************)
(* A decoder takes neither header nor checksum nor the id of a register    *)
(* for data and reads inside its frame, if that has the size it assumes:   *)
(* the fixed offsets keep pace with the fields of the device.  This is all *)
(* the code supports.  A frame of a Heltec balancer that is shorter than   *)
(* those of its type passes assemble(), and a write of half a register     *)
(* passes on_jk_bms_display_data; both are read as if they were whole, up  *)
(* to the assumed end and beyond their own.                                *)
ReadsPayloadOnly == Readers # {} => byte \in Payload(Assumed(frame))

(* A byte has one meaning in a frame: fields that share it are bits of it, *)
(* and different ones (the offsets of the decoders; those two versions of  *)
(* a frame share, 16, 32 or 37 bytes apart, above all).                    *)
OneMeaningPerByte == \A f, g \in Readers : Ble!Compatible(f, g)

=============================================================================
