---------------------------- MODULE BleControls ----------------------------
(***************************************************************************)
(* A number, switch or select of jk_bms_ble or heltec_balancer_ble and the *)
(* setting of the device behind it.  A control shows what was asked for    *)
(* once the BLE stack took the request, which no one acknowledges; the     *)
(* frames of the device overwrite it with what the device had when the     *)
(* frame was made.  A battery streams its cell info; any other frame       *)
(* answers a request for it, and no one asks again by himself once the     *)
(* connection works.  One behaviour follows one control of one version.    *)
(***************************************************************************)
EXTENDS Fields

Jk == INSTANCE JkBmsBleRegisters
Heltec == INSTANCE HeltecBalancerBleRegisters

Versions == Jk!Versions \cup Heltec!Versions
IsJk(v) == v \in Jk!Versions
ControlsOf(v) == IF IsJk(v) THEN Jk!ControlsOf(v) ELSE Heltec!Controls

(* The fields the decoders publish to a control, with the type of frame.   *)
FieldsOf(v, type) ==
  IF IsJk(v) THEN Jk!FieldsOf(v, type)
  ELSE UNION {Heltec!FieldsOf(v, type, size) : size \in Heltec!SizesOf(v, type)}
ReadsOf(v, c) ==
  UNION {{type} \X {f \in FieldsOf(v, type) : c.name \in f.shows} :
         type \in IF IsJk(v) THEN Jk!FrameTypes ELSE Heltec!FrameTypes}

(* Where the frames of the device show a setting, if they do. *)
NoPlace == Jk!NoPlace
PlaceOf(v, address) ==
  IF IsJk(v) THEN Jk!PlaceOf(v, address) ELSE Heltec!PlaceOf(v, address)

(***************************************************************************)
(* A control of a version, where its setting is shown, and what it shows   *)
(* of the frames.                                                          *)
(***************************************************************************)
Subject(v, c) ==
  [ version |-> v, control |-> c, place |-> PlaceOf(v, c.address), reads |-> ReadsOf(v, c) ]

AllSubjects == UNION {{Subject(v, c) : c \in ControlsOf(v)} : v \in Versions}

CONSTANTS
  Subjects,   \* the controls to follow
  Samples,    \* what they are set to, besides their bounds: a set of integers
  MaxChanges  \* bound: requests, and changes the device makes by itself

ASSUME SubjectsAssumption == Subjects \subseteq AllSubjects
ASSUME SamplesAssumption == Samples \subseteq Int
ASSUME ChangesAssumption == MaxChanges \in Nat

VARIABLES
  subject,   \* the control, see Subject
  stored,    \* the bytes of the setting in the device
  frame,     \* the bytes of it in the frame under way, or NoFrame
  shown,     \* what the control shows, or Unknown
  owed,      \* is the device to answer a request for the frame?
  changes

vars == <<subject, stored, frame, shown, owed, changes>>

NoFrame == Content(FALSE, 0, Bytes(0))
Unknown == << >>
NoRegister == <<0>>

version == subject.version
control == subject.control
place == subject.place

(* The values a control can be asked for here. *)
RequestsOf(c) == {c.min, c.max} \cup {k \in Samples : c.min <= k /\ k <= c.max}
Requests == RequestsOf(control)
Settings == UNION {{<<k, s.control.factor>> : k \in RequestsOf(s.control)} : s \in Subjects}

-----------------------------------------------------------------------------
(* The bytes of a value. *)
Payload(v, c, k) == IF IsJk(v) THEN Jk!Payload(v, c, k) ELSE Heltec!Payload(c, k)

(* What a device keeps of a request that announces so many bytes, and of a *)
(* value it was told by other means.                                       *)
Kept(p, content, length) ==
  LET room == IF p = NoPlace THEN 4 ELSE p.width
  IN Content(content.float, room,
             [i \in 1 .. 4 |-> IF i <= length /\ i <= room THEN content.bytes[i] ELSE 0])
Written(s, k) == Kept(s.place, Payload(s.version, s.control, k), s.control.length)
Exactly(s, k) ==
  Kept(s.place, Content(Payload(s.version, s.control, k).float, 4, Bytes(k)), 4)

(* The setting a device takes its bytes for. *)
Meaning(c, content) ==
  LET kind == IF content.float THEN "float" ELSE IF c.min < 0 THEN "signed"
              ELSE IF c.kind = "switch" THEN "truth" ELSE "unsigned"
  IN Reading(Field(0, content.width, 0, kind, c.factor, {}), content)

(* What the decoder of a frame publishes to the control: nothing, or what  *)
(* it reads from its field, which is the device's place or another one.    *)
IsPublished(s) == s.reads # {}
PublishedValue(s, content) ==
  LET read == CHOOSE r \in s.reads : TRUE
      field == read[2]
  IN IF <<read[1], field.at, field.mask>> = <<s.place.type, s.place.at, s.place.mask>>
       THEN Reading(field, content) ELSE Garbled

Init ==
  /\ subject \in Subjects
  /\ \E k \in Requests : stored = Exactly(subject, k)
  /\ frame = NoFrame /\ shown = Unknown /\ owed = FALSE /\ changes = 0

-----------------------------------------------------------------------------
(* control or write_state, and write_register or send_command.  A control  *)
(* whose register is 0 in this version, or whose request the BLE stack     *)
(* does not take, does nothing; a request that was taken reaches the       *)
(* device or not.                                                          *)
Request(k, heard) ==
  /\ changes < MaxChanges /\ changes' = changes + 1
  /\ control.address # NoRegister /\ shown' = <<k, control.factor>>
  /\ stored' = IF heard THEN Written(subject, k) ELSE stored
  /\ UNCHANGED <<subject, frame, owed>>

(* Another app sets the device, or JkPresetSelect loads a preset, which    *)
(* publishes nothing.                                                      *)
DeviceChanges(k) ==
  /\ changes < MaxChanges /\ changes' = changes + 1
  /\ stored' = Exactly(subject, k)
  /\ UNCHANGED <<subject, frame, shown, owed>>

(* A request for the frame of the setting reaches the device: a new        *)
(* connection makes one, update() repeats it until it is answered or cell  *)
(* info comes, and the buttons retrieve_settings and retrieve_device_info  *)
(* make one; one that gets lost changes nothing.                           *)
AskForFrame ==
  /\ owed' = TRUE
  /\ UNCHANGED <<subject, stored, frame, shown, changes>>

(* The device makes a frame of the type its place is in: one per request,  *)
(* or cell info on its own.                                                *)
IsStreamed(p) == p.type = "cell_info"
SendFrame ==
  /\ place # NoPlace /\ frame = NoFrame
  /\ owed \/ IsStreamed(place)
  /\ frame' = stored /\ owed' = FALSE
  /\ UNCHANGED <<subject, stored, shown, changes>>

LoseFrame ==
  /\ frame # NoFrame /\ frame' = NoFrame
  /\ UNCHANGED <<subject, stored, shown, owed, changes>>

(* The decoder of the frame publishes the field; the throttle may swallow  *)
(* a cell info frame.                                                      *)
Decode(swallowed) ==
  /\ frame # NoFrame /\ frame' = NoFrame
  /\ swallowed => IsStreamed(place)
  /\ shown' = IF IsPublished(subject) /\ ~swallowed THEN PublishedValue(subject, frame) ELSE shown
  /\ UNCHANGED <<subject, stored, owed, changes>>

Next ==
  \/ \E k \in Requests : \E heard \in BOOLEAN : Request(k, heard)
  \/ \E k \in Requests : DeviceChanges(k)
  \/ AskForFrame
  \/ SendFrame
  \/ LoseFrame
  \/ \E swallowed \in BOOLEAN : Decode(swallowed)

Spec == Init /\ [][Next]_vars

(* A device answers a request that reached it, and a battery streams cell  *)
(* info; of the frames that keep coming some arrive and are published.     *)
(* That anyone asks is nobody's duty.                                      *)
FairSpec == Spec /\ WF_vars(SendFrame) /\ SF_vars(Decode(FALSE))

-----------------------------------------------------------------------------
(***************************************************************************)
(* Properties.                                                             *)
(***************************************************************************)
(* No other control of the version writes the register of this one with    *)
(* this command, be it a number, a switch or a select; and a control that  *)
(* the decoders publish writes a setting the device shows, not one beside  *)
(* it (the tables NUMBERS, V2_NUMBERS, SWITCHES, SELECTS).                 *)
OwnsItsSetting ==
  control.address # NoRegister =>
    /\ \A other \in ControlsOf(version) : other.address = control.address => other = control
    /\ IsPublished(subject) => place # NoPlace

(* Two controls cannot keep their promise: smart_sleep_voltage announces   *)
(* one byte of the four its value needs, and nominal_battery_capacity is   *)
(* written as an integer and read from a V2 balancer as a float            *)
(* (number/__init__.py of the two components).                             *)
Unfaithful(s) ==
  \/ IsJk(s.version) /\ s.control.name = "smart_sleep_voltage"
  \/ s.version = "V2" /\ s.control.name = "nominal_battery_capacity"

(* None of those is followed, and no sample is a float that lies below its *)
(* integer and is written one too low (JkNumber::control).                 *)
Faithful ==
  /\ \A s \in Subjects : ~Unfaithful(s)
  /\ \A k \in Samples : ~Jk!RoundsDown(k)

(* The control and the setting behind it are what Setting promises: what   *)
(* was asked for is what is written, to the byte, and what is shown is     *)
(* what was asked for or what the battery had in this very setting; each   *)
(* request in its version's encoding, each report through the decoder of   *)
(* its frame (control, write_register, send_command, decode_).             *)
Setting == INSTANCE Setting WITH
  Values <- Settings,
  Nothing <- Unknown,
  device <- Meaning(control, stored),
  report <- IF frame = NoFrame \/ ~IsPublished(subject) THEN Unknown
            ELSE Meaning(control, frame)
KeepsSetting == Setting!Safety

(* Once neither the user nor the device changes the setting any more, the  *)
(* control shows it in the end, lost requests and stale frames or not, if  *)
(* cell info shows the setting or someone keeps asking for the frame that  *)
(* does: a new connection or a button.  Without that a lost write stays    *)
(* wrong, as update() asks no more once it is done (control, update and    *)
(* the decoders).                                                          *)
SettingSettles ==
  IsPublished(subject) /\ (IsStreamed(place) \/ []<>owed) =>
    <>[](shown = Meaning(control, stored))

=============================================================================
