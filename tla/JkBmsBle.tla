------------------------------ MODULE JkBmsBle ------------------------------
(***************************************************************************)
(* The session of the jk_bms_ble component: the GATT events of the BLE     *)
(* client, the reassembly of notifications into frames, the dispatch of    *)
(* decoded frames, and the poll that asks for cell info and tracks whether *)
(* the battery still answers.                                              *)
(*                                                                         *)
(* ESPHome runs events, polls and entity controls one at a time on the     *)
(* main loop, so an action is one whole handler.  The link, the write      *)
(* without response and the battery itself are external: a write or a      *)
(* notification may get lost, and the link may break between any two       *)
(* handlers.                                                               *)
(*                                                                         *)
(* Bytes are grouped into units: a unit is a run of bytes no fragment      *)
(* boundary splits, the first unit of a frame holds the preamble           *)
(* 55 AA EB 90 and the frame type.  Sizes are counted in units.            *)
(***************************************************************************)
EXTENDS Naturals, Sequences, OnlineTracker

CONSTANTS
  MinResponseSize,  \* MIN_RESPONSE_SIZE: units up to and including the CRC
  MaxResponseSize,  \* MAX_RESPONSE_SIZE
  FrameSizes,       \* the frame sizes batteries send (300 bytes, 320 bytes)
  Throttle,         \* throttle_, in clock ticks
  DeviceHandle,     \* handle of the first 0xFFE1 characteristic of the battery
  ButtonCommands,   \* the commands the configured buttons send
  StreamCommands,   \* the commands a battery must get before it streams
  MaxLosses         \* bound: writes and fragments lost in one behaviour

Commands == {"cell_info", "device_info", "logbook"}  \* 0x96, 0x97, 0xA1
FrameTypes == {"settings", "cell_info", "device_info", "logbook", "unsupported"}

ASSUME SizesAssumption ==
  /\ MinResponseSize \in Nat \ {0}
  /\ MaxResponseSize \in Nat /\ MinResponseSize <= MaxResponseSize
  /\ FrameSizes \subseteq {n \in Nat : n >= MinResponseSize}
ASSUME ThrottleAssumption == Throttle \in Nat
ASSUME HandleAssumption == DeviceHandle \in Nat \ {0}
ASSUME CommandsAssumption ==
  ButtonCommands \subseteq Commands /\ StreamCommands \subseteq Commands
ASSUME LossAssumption == MaxLosses \in Nat

VARIABLES
  (* the BLE stack and the battery, external *)
  link,         \* "up" between the OPEN and the DISCONNECT event
  registration, \* of notifications: see Registrations
  heard,        \* commands the battery got in this connection
  owed,         \* frame types it still has to send in reply
  frame,        \* the frame it is sending or sent last
  sent,         \* units of it that left the battery
  intact,       \* every unit of it that left reached the component
  losses,       \* lost writes and fragments so far
  (* the component *)
  node_state, char_handle_, notify_handle_, frame_buffer_,
  status_notification_received_, no_response_count_,
  elapsed,      \* ticks since last_cell_info_, counted up to Throttle
  (* what the entities show: the online status, and the measurements that  *)
  (* publish_device_unavailable_ invalidates (the text sensors, countdowns *)
  (* and settings it leaves at their last value are not tracked)           *)
  online, telemetry

(* "pending" until the REG_FOR_NOTIFY event is delivered, "active" from    *)
(* then on; "orphaned" when the link broke in between: the event still     *)
(* comes, for a registration that is gone.                                 *)
Registrations == {"none", "pending", "active", "orphaned"}

battery == <<heard, owed, frame, sent, intact>>
session == <<node_state, char_handle_, notify_handle_>>
tracked == <<no_response_count_, online, telemetry>>
decoded == <<status_notification_received_, elapsed, tracked>>
vars == <<link, registration, losses, battery, session, frame_buffer_, decoded>>

(***************************************************************************)
(* Frames and their units.  The serial number tells consecutive frames     *)
(* apart; with at most MaxLosses losses no two frames that could meet in   *)
(* the buffer have the same one.                                           *)
(***************************************************************************)
Frames == [type: FrameTypes, serial: 0 .. MaxLosses + 1, size: FrameSizes]
NoFrame == [type |-> "none", serial |-> 0, size |-> 0]

Unit(f, i) == [frame |-> f, pos |-> i]
Units == [frame: Frames, pos: Nat \ {0}]

(* The n units of the current frame that leave the battery next. *)
Fragment(n) == [i \in 1 .. n |-> Unit(frame, sent + i)]

(***************************************************************************)
(* The battery and the link.                                               *)
(***************************************************************************)
Reply == [cell_info |-> "settings", device_info |-> "device_info",
          logbook |-> "logbook"]

Streaming == StreamCommands \subseteq heard

(* write_register: a write without response to char_handle_, which reaches *)
(* the battery or does not; no caller in this module looks at the status.  *)
Reachable(handle) == link = "up" /\ handle = DeviceHandle

WriteHeard(cmd) ==
  /\ heard' = heard \cup {cmd}
  /\ owed' = owed \cup {Reply[cmd]}
  /\ UNCHANGED losses

WriteLost ==
  /\ losses < MaxLosses
  /\ losses' = losses + 1
  /\ UNCHANGED <<heard, owed>>

write_register(cmd) ==
  \/ Reachable(char_handle_) /\ WriteHeard(cmd)
  \/ Reachable(char_handle_) /\ WriteLost
  \/ ~Reachable(char_handle_) /\ UNCHANGED <<heard, owed, losses>>

(* ESP_GATTC_OPEN_EVT: the component does nothing, the link is up.         *)
(* Events are delivered in order, so the one of a registration made in the *)
(* last connection is delivered before the next one opens.                 *)
Open ==
  /\ link = "down" /\ registration # "orphaned"
  /\ link' = "up"
  /\ UNCHANGED <<registration, losses, battery, session, frame_buffer_, decoded>>

(* The battery begins a frame once the last one has left: a reply it owes, *)
(* or the next cell info frame when it streams.                            *)
FrameDone == sent >= frame.size

BeginFrame(type, size) ==
  /\ link = "up" /\ FrameDone
  /\ \/ type \in owed
     \/ type = "cell_info" /\ Streaming
  /\ frame' = [type |-> type, size |-> size,
               serial |-> (frame.serial + 1) % (MaxLosses + 2)]
  /\ sent' = 0
  /\ intact' = TRUE
  /\ owed' = owed \ {type}
  /\ UNCHANGED <<link, registration, losses, heard, session, frame_buffer_, decoded>>

(***************************************************************************)
(* Polling and the online status.                                          *)
(***************************************************************************)
reset_online_status_tracker_ ==
  /\ no_response_count_' = 0
  /\ online' = "online"

(* Fault: the sensors not invalidated. *)
AnnouncesOnly == online' = "offline" /\ UNCHANGED telemetry

publish_device_unavailable_ ==
  /\ online' = "offline"
  /\ telemetry' = "invalid"

track_online_status_ ==
  /\ no_response_count_' = Tracked(no_response_count_)
  /\ IF Expires(no_response_count_)
       THEN publish_device_unavailable_
       ELSE UNCHANGED <<online, telemetry>>

Asks == node_state = "ESTABLISHED" /\ ~status_notification_received_

(* Fault: the early return of an unconnected poll before the tracking. *)
UpdateTracksConnectedOnly ==
  /\ IF node_state = "ESTABLISHED" THEN track_online_status_ ELSE UNCHANGED tracked
  /\ IF Asks THEN write_register("cell_info") ELSE UNCHANGED <<heard, owed, losses>>
  /\ UNCHANGED <<link, registration, frame, sent, intact, session, frame_buffer_,
                 status_notification_received_, elapsed>>

(* update(): the poll of the PollingComponent. *)
Update ==
  /\ track_online_status_
  /\ IF Asks THEN write_register("cell_info") ELSE UNCHANGED <<heard, owed, losses>>
  /\ UNCHANGED <<link, registration, frame, sent, intact, session, frame_buffer_,
                 status_notification_received_, elapsed>>

(* JkButton::press_action, at any time and whatever the link does. *)
PressButton(cmd) ==
  /\ write_register(cmd)
  /\ UNCHANGED <<link, registration, frame, sent, intact, session, frame_buffer_, decoded>>

(* Time passes; the throttle compares the age of the last cell info.  The  *)
(* wrap of the millisecond clock after 49.7 days without one is left out.  *)
Tick ==
  /\ elapsed < Throttle
  /\ elapsed' = elapsed + 1
  /\ UNCHANGED <<link, registration, losses, battery, session, frame_buffer_,
                 status_notification_received_, tracked>>

(***************************************************************************)
(* Reassembly and decoding.                                                *)
(***************************************************************************)
(* Fault: the flush on a preamble forgotten. *)
NeverStartsWithPreamble(frag) == FALSE

StartsWithPreamble(frag) == frag[1].pos = 1

(* What assemble() keeps of the buffer before it appends the fragment. *)
Kept(frag) ==
  IF Len(frame_buffer_) > MaxResponseSize \/ StartsWithPreamble(frag)
    THEN << >>
    ELSE frame_buffer_

(* Fault: an off-by-one at the limit. *)
WaitsForMore(buf) == Len(buf) <= MinResponseSize

Incomplete(buf) == Len(buf) < MinResponseSize

Genuine(buf) ==
  \A i \in 1 .. MinResponseSize : buf[i] = Unit(buf[1].frame, i)

(* The CRC is an 8-bit sum: it accepts every genuine frame, and it may     *)
(* accept a mix of units, whose fifth byte then names any type.            *)
AcceptedTypes(buf) ==
  IF Genuine(buf) THEN {buf[1].frame.type} ELSE FrameTypes

Rejectable(buf) == ~Genuine(buf)

(* Fault: the comparison with <= holds back every frame. *)
ThrottledInclusively == elapsed <= Throttle

Throttled == elapsed < Throttle

(* decode_jk02_cell_info_, decode_jk04_cell_info_: a throttled frame is    *)
(* dropped before anything is published.                                   *)
decode_cell_info_ ==
  IF Throttled
    THEN UNCHANGED <<elapsed, telemetry, status_notification_received_>>
    ELSE /\ elapsed' = 0
         /\ telemetry' = "live"
         /\ status_notification_received_' = TRUE

(* The other decoders publish settings, device info or log entries only.   *)
decode_(type) ==
  /\ reset_online_status_tracker_
  /\ IF type = "cell_info"
       THEN decode_cell_info_
       ELSE UNCHANGED <<elapsed, telemetry, status_notification_received_>>

assemble(frag) ==
  LET buf == Kept(frag) \o frag IN
  \/ /\ Incomplete(buf)
     /\ frame_buffer_' = buf
     /\ UNCHANGED decoded
  \/ /\ ~Incomplete(buf)
     /\ frame_buffer_' = << >>
     /\ \/ Rejectable(buf) /\ UNCHANGED decoded
        \/ \E type \in AcceptedTypes(buf) : decode_(type)

(***************************************************************************)
(* The GATT events.                                                        *)
(***************************************************************************)
(* The old module has one 0xFFE1 characteristic, the new one writes to     *)
(* handle 3 and notifies from handle 5.                                    *)
BatteryNotifies == IF DeviceHandle = 3 THEN 5 ELSE DeviceHandle

(* Fault: the two handles of the new module mistaken for one. *)
SameHandle(handle) == handle

NotifyHandleOf(handle) == IF handle = 3 THEN 5 ELSE handle

(* ESP_GATTC_SEARCH_CMPL_EVT, once per connection; the characteristic may  *)
(* be missing and the registration may fail, and both are only logged.     *)
SearchCmpl ==
  /\ link = "up" /\ char_handle_ = 0
  /\ char_handle_' = DeviceHandle
  /\ notify_handle_' = NotifyHandleOf(DeviceHandle)
  /\ registration' \in {"none", "pending"}
  /\ UNCHANGED <<link, losses, battery, node_state, frame_buffer_, decoded>>

(* ESP_GATTC_REG_FOR_NOTIFY_EVT: its status and that of the one device     *)
(* info request of the connection are not looked at.                       *)
RegForNotify ==
  /\ registration \in {"pending", "orphaned"}
  /\ registration' = IF registration = "pending" THEN "active" ELSE "none"
  /\ node_state' = "ESTABLISHED"
  /\ status_notification_received_' = FALSE
  /\ write_register("device_info")
  /\ UNCHANGED <<link, frame, sent, intact, char_handle_, notify_handle_,
                 frame_buffer_, elapsed, tracked>>

(* Fault: the handle cleared before the unregistration that tests it. *)
StaysRegistered == registration

Unregistered ==
  IF notify_handle_ = 0 THEN registration
  ELSE IF registration = "pending" THEN "orphaned" ELSE "none"

(* ESP_GATTC_DISCONNECT_EVT, also when a connection attempt fails. *)
Disconnect ==
  /\ link' = "down"
  /\ registration' = Unregistered
  /\ node_state' = "IDLE"
  /\ status_notification_received_' = FALSE
  /\ notify_handle_' = 0
  /\ char_handle_' = 0
  /\ frame_buffer_' = << >>
  /\ heard' = {} /\ owed' = {}
  /\ frame' = NoFrame /\ sent' = 0 /\ intact' = FALSE
  /\ UNCHANGED <<losses, no_response_count_, online, telemetry, elapsed>>

(* ESP_GATTC_NOTIFY_EVT for the next n units, on the handle the battery    *)
(* notifies from; or the fragment gets lost, as it always does while the   *)
(* component is not listening.                                             *)
Listening == registration = "active" /\ notify_handle_ = BatteryNotifies

Leave(n) ==
  /\ link = "up" /\ n <= frame.size - sent
  /\ sent' = sent + n
  /\ UNCHANGED <<link, registration, heard, owed, frame, session>>

Notify(n) ==
  /\ Listening
  /\ Leave(n)
  /\ assemble(Fragment(n))
  /\ UNCHANGED <<intact, losses>>

LoseFragment(n) ==
  /\ Leave(n)
  /\ intact' = FALSE
  /\ Listening => losses < MaxLosses
  /\ losses' = IF Listening THEN losses + 1 ELSE losses
  /\ UNCHANGED <<frame_buffer_, decoded>>

(***************************************************************************)
(* The specification.                                                      *)
(***************************************************************************)
FragmentSizes == 1 .. frame.size

Init ==
  /\ link = "down" /\ registration = "none"
  /\ heard = {} /\ owed = {} /\ losses = 0
  /\ frame = NoFrame /\ sent = 0 /\ intact = FALSE
  /\ node_state = "IDLE" /\ char_handle_ = 0 /\ notify_handle_ = 0
  /\ frame_buffer_ = << >>
  /\ status_notification_received_ = FALSE
  /\ no_response_count_ = 0 /\ elapsed = 0
  /\ online = "unknown" /\ telemetry = "none"

Component ==
  \/ Update
  \/ SearchCmpl
  \/ RegForNotify
  \/ Disconnect
  \/ \E n \in FragmentSizes : Notify(n)
  \/ \E cmd \in ButtonCommands : PressButton(cmd)

Environment ==
  \/ Open
  \/ Tick
  \/ \E type \in FrameTypes, size \in FrameSizes : BeginFrame(type, size)
  \/ \E n \in FragmentSizes : LoseFragment(n)

Next == Component \/ Environment

Spec == Init /\ [][Next]_vars

(* The scheduler polls on, a pending event is delivered, the clock runs,   *)
(* and a battery that may stream sends cell info again and again, whose    *)
(* fragments are delivered or lost.                                        *)
Fairness ==
  /\ WF_vars(Update)
  /\ WF_vars(RegForNotify)
  /\ WF_vars(Tick)
  /\ WF_vars(\E n \in FragmentSizes : Notify(n))
  /\ SF_vars(\E size \in FrameSizes : BeginFrame("cell_info", size))

FairSpec == Spec /\ Fairness

-----------------------------------------------------------------------------
(***************************************************************************)
(* Properties.                                                             *)
(***************************************************************************)
(* Every variable of the component, the link and the battery stays in its  *)
(* type; the handlers of JkBmsBle assign nothing else.                     *)
TypeOK ==
  /\ link \in {"up", "down"} /\ registration \in Registrations
  /\ heard \subseteq Commands /\ owed \subseteq FrameTypes
  /\ frame \in Frames \cup {NoFrame} /\ sent \in 0 .. frame.size
  /\ intact \in BOOLEAN /\ losses \in 0 .. MaxLosses
  /\ node_state \in {"IDLE", "ESTABLISHED"}
  /\ char_handle_ \in {0, DeviceHandle}
  /\ notify_handle_ \in {0, NotifyHandleOf(DeviceHandle)}
  /\ frame_buffer_ \in Seq(Units)
  /\ status_notification_received_ \in BOOLEAN
  /\ no_response_count_ \in RestingCounts /\ elapsed \in 0 .. Throttle
  /\ online \in {"unknown", "online", "offline"}
  /\ telemetry \in {"none", "live", "invalid"}

(* The reassembly buffer never rests at a whole frame or more, whatever is *)
(* lost, mixed or oversized: assemble() decodes or clears it first, so the *)
(* test on MAX_RESPONSE_SIZE at its top never fires.                       *)
BufferBelowMinimum == Len(frame_buffer_) < MinResponseSize

(* What the component knows about a session belongs to the connection that *)
(* is open now: an answered status request and buffered bytes imply a live *)
(* registration on this link, whatever registration event came late.       *)
SessionCoherent ==
  /\ status_notification_received_ =>
       node_state = "ESTABLISHED" /\ registration = "active"
  /\ frame_buffer_ # << >> => registration = "active"
  /\ registration = "active" => link = "up" /\ Reachable(char_handle_)

(* While no fragment of the frame in transit was lost, the buffer holds    *)
(* exactly what was sent of it: leftovers of broken frames or the bytes    *)
(* after the CRC of a long one never get in front of it.                   *)
ReassemblyInStep ==
  intact /\ sent \in 1 .. MinResponseSize - 1 =>
    frame_buffer_ = [i \in 1 .. sent |-> Unit(frame, i)]

(* The fragment that completes a frame none of whose fragments was lost    *)
(* has it decoded in the same step: the device is online, the counter      *)
(* restarts, and an unthrottled cell info frame publishes measurements and *)
(* ends the requests for cell info (assemble(), decode_()).                *)
Completes == intact' /\ sent < MinResponseSize /\ sent' >= MinResponseSize
CompleteFrameIsDecoded ==
  [][Completes =>
       /\ online' = "online" /\ no_response_count_' = 0
       /\ frame_buffer_' = << >>
       /\ frame.type = "cell_info" /\ elapsed >= Throttle =>
            telemetry' = "live" /\ status_notification_received_']_vars

(* An outage is announced once, by the poll that reaches the limit: the    *)
(* counter of track_online_status_ never rests at the limit, it is past it *)
(* exactly while the device is shown offline, and no invalidated sensor    *)
(* shows a measurement then.                                               *)
OutageAnnouncedOnce ==
  /\ no_response_count_ # MaxNoResponse
  /\ no_response_count_ > MaxNoResponse <=> online = "offline"
  /\ telemetry = "live" => online = "online"

(* The component implements the availability contract of Availability.tla: *)
(* its steps, and under FairSpec the fairness of the contract's poll.  The *)
(* code it is about is update(), decode_() and the tracker they share.     *)
A == INSTANCE Availability WITH
       Patience <- MaxNoResponse,
       silence <- IF no_response_count_ > MaxNoResponse THEN MaxNoResponse
                                                        ELSE no_response_count_
KeepsAvailabilityContract == A!Safety
ImplementsAvailability == A!Spec

(* While the battery got what makes it stream apart from the command       *)
(* update() repeats, an established session ends up with a cell info frame *)
(* or loses its link, however many writes and fragments were lost before.  *)
RequestsAreAnswered ==
  (registration = "active" /\ StreamCommands \ {"cell_info"} \subseteq heard)
    ~> (status_notification_received_ \/ link = "down")

=============================================================================
