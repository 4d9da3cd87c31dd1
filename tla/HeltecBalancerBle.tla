-------------------------- MODULE HeltecBalancerBle --------------------------
(***************************************************************************)
(* The session of the heltec_balancer_ble component: the GATT events, the  *)
(* initialisation device info -> settings -> cell info that update() and   *)
(* decode_() drive together, the reassembly by the length field of the     *)
(* header, and the choice of the cell info layout by the settings frame.   *)
(*                                                                         *)
(* As in JkBmsBle an action is one handler of the main loop, the link and  *)
(* the balancer are external, and bytes are grouped into units no fragment *)
(* boundary splits: the first unit of a frame holds the preamble 55 AA and *)
(* the frame type, the second one the length field, the last one the       *)
(* checksum and the end of frame marker.                                   *)
(***************************************************************************)
EXTENDS Naturals, Sequences, FiniteSets, OnlineTracker

CONSTANTS
  HeaderSize,       \* FRAME_HEADER_SIZE, in units
  MinResponseSize,  \* MIN_RESPONSE_SIZE
  MaxResponseSize,  \* MAX_RESPONSE_SIZE
  SizeOf,           \* the size of each frame type the balancer sends
  V2SettingsSize,   \* the size (150 bytes) of the settings of a V2 balancer
  Throttle,         \* throttle_, in clock ticks
  SettlingTime,     \* ticks after the registration without requests (1 s)
  ControlCommands,  \* the commands the configured controls send
  MaxQueued,        \* frames that may share one notification: 1 or 2
  MaxLosses,        \* bound: writes and fragments lost in one behaviour
  MaxForgeries      \* bound: buffers that pass for a frame and are none

(* The command byte of a request is the frame type of its answer.  The     *)
(* register writes of V2 balancers (0x06) are answered by a type decode_() *)
(* does not know.                                                          *)
Commands == {"device_info", "settings", "cell_info", "factory_defaults",
             "write_register", "write_v2_register"}
FrameTypes == Commands
Versions == {"V1", "V2"}
Registrations == {"none", "pending", "active", "orphaned"}
InitStates == {"NEED_DEVICE_INFO", "NEED_SETTINGS", "NEED_CELL_INFO", "READY"}

ASSUME SizesAssumption ==
  /\ HeaderSize \in Nat \ {0} /\ MinResponseSize \in Nat /\ MaxResponseSize \in Nat
  /\ HeaderSize <= MinResponseSize /\ MinResponseSize <= MaxResponseSize
  /\ SizeOf \in [FrameTypes -> MinResponseSize .. MaxResponseSize]
ASSUME ClocksAssumption == Throttle \in Nat /\ SettlingTime \in Nat
ASSUME CommandsAssumption == ControlCommands \subseteq Commands \ {"cell_info"}
ASSUME BoundsAssumption ==
  MaxQueued \in {1, 2} /\ MaxLosses \in Nat /\ MaxForgeries \in Nat

VARIABLES
  (* the BLE stack and the balancer, external *)
  link,         \* "up" between the OPEN and the DISCONNECT event
  registration, \* of notifications; "orphaned" when the link broke while it
                \* was pending, its event still comes
  streaming,    \* the balancer got a cell info request in this connection
  owed,         \* frame types it still has to send in reply
  stream,       \* units it sent that did not arrive yet
  serial,       \* serial number of its next frame
  intact,       \* nothing was lost since the last fragment with a preamble
  losses,       \* lost writes and fragments so far
  forgeries,    \* buffers accepted so far that are no frame
  (* the component *)
  node_state, char_handle_, init_state_, protocol_version_, frame_buffer_,
  no_response_count_,
  connection_age, \* ticks since connection_time_, counted up to SettlingTime
  elapsed,        \* ticks since last_cell_info_, counted up to Throttle
  (* what the entities show: the online status, and the measurements that  *)
  (* publish_device_unavailable_ invalidates                               *)
  online, telemetry

requests == <<streaming, owed, losses>>
session == <<node_state, char_handle_>>
clocks == <<connection_age, elapsed>>
tracked == <<no_response_count_, online, telemetry>>
decoded == <<init_state_, protocol_version_, elapsed, tracked, forgeries>>
vars == <<link, registration, requests, stream, serial, intact, session,
          connection_age, frame_buffer_, decoded>>

(***************************************************************************)
(* Frames and their units.  A lost fragment covers at most one boundary of *)
(* frames, so frames that could meet in the buffer differ in their serial  *)
(* numbers.                                                                *)
(***************************************************************************)
Frames == [type: FrameTypes, serial: 0 .. MaxLosses]
Unit(f, i) == [frame |-> f, pos |-> i]
Units == [frame: Frames, pos: 1 .. MaxResponseSize]

FrameUnits(f) == [i \in 1 .. SizeOf[f.type] |-> Unit(f, i)]
Prefix(f, n) == SubSeq(FrameUnits(f), 1, n)

(***************************************************************************)
(* The link and the balancer.                                              *)
(***************************************************************************)
DeviceHandle == 10
DeviceVersion == IF SizeOf["settings"] = V2SettingsSize THEN "V2" ELSE "V1"

(* send_command: a write without response, which reaches the balancer or   *)
(* does not; the callers in this module do not look at the status.         *)
Reachable == link = "up" /\ char_handle_ = DeviceHandle

CommandHeard(cmd) ==
  /\ owed' = owed \cup {cmd}
  /\ streaming' = (streaming \/ cmd = "cell_info")
  /\ UNCHANGED losses

CommandLost ==
  /\ losses < MaxLosses
  /\ losses' = losses + 1
  /\ UNCHANGED <<owed, streaming>>

send_command(cmd) ==
  \/ Reachable /\ CommandHeard(cmd)
  \/ Reachable /\ CommandLost
  \/ ~Reachable /\ UNCHANGED requests

(* ESP_GATTC_OPEN_EVT: the component does nothing, the link is up.         *)
(* Events are delivered in order, so the one of a registration made in the *)
(* last connection is delivered before the next one opens.                 *)
Open ==
  /\ link = "down" /\ registration # "orphaned"
  /\ link' = "up"
  /\ UNCHANGED <<registration, requests, stream, serial, intact, session,
                 connection_age, frame_buffer_, decoded>>

(* The balancer sends a frame it owes, or streams cell info, behind at     *)
(* most MaxQueued - 1 frames that have not arrived.                        *)
FramesUnderway == Cardinality({i \in 1 .. Len(stream) : i = 1 \/ stream[i].pos = 1})

SendFrame(type) ==
  /\ link = "up" /\ FramesUnderway < MaxQueued
  /\ type \in owed \/ (type = "cell_info" /\ streaming)
  /\ stream' = stream \o FrameUnits([type |-> type, serial |-> serial])
  /\ serial' = (serial + 1) % (MaxLosses + 1)
  /\ owed' = owed \ {type}
  /\ UNCHANGED <<link, registration, streaming, losses, intact, session,
                 connection_age, frame_buffer_, decoded>>

(***************************************************************************)
(* Polling and the online status.                                          *)
(***************************************************************************)
(* Fault: the sensor not published. *)
ResetsCounterOnly == no_response_count_' = 0 /\ UNCHANGED online

reset_online_status_tracker_ ==
  /\ no_response_count_' = 0
  /\ online' = "online"

publish_device_unavailable_ ==
  /\ online' = "offline"
  /\ telemetry' = "invalid"

track_online_status_ ==
  /\ no_response_count_' = Tracked(no_response_count_)
  /\ IF Expires(no_response_count_)
       THEN publish_device_unavailable_
       ELSE UNCHANGED <<online, telemetry>>

(* Fault: the settings skipped. *)
RequestsWithoutSettings ==
  [NEED_DEVICE_INFO |-> {"device_info"}, NEED_SETTINGS |-> {"cell_info"},
   NEED_CELL_INFO |-> {"cell_info"}, READY |-> {}]

(* Fault: the settings left to the request decode_() sends once. *)
RequestsSettingsOnce ==
  [NEED_DEVICE_INFO |-> {"device_info"}, NEED_SETTINGS |-> {},
   NEED_CELL_INFO |-> {"cell_info"}, READY |-> {}]

(* The request update() repeats in each initialisation state, none in      *)
(* READY.                                                                  *)
Requests ==
  [NEED_DEVICE_INFO |-> {"device_info"}, NEED_SETTINGS |-> {"settings"},
   NEED_CELL_INFO |-> {"cell_info"}, READY |-> {}]

Settled == node_state = "ESTABLISHED" /\ connection_age >= SettlingTime

(* Fault: the early return of an unconnected poll before the tracking. *)
UpdateTracksConnectedOnly ==
  /\ IF node_state = "ESTABLISHED" THEN track_online_status_ ELSE UNCHANGED tracked
  /\ LET due == IF Settled THEN Requests[init_state_] ELSE {} IN
       \/ due = {} /\ UNCHANGED requests
       \/ \E cmd \in due : send_command(cmd)
  /\ UNCHANGED <<link, registration, stream, serial, intact, session, clocks,
                 frame_buffer_, init_state_, protocol_version_, forgeries>>

Update ==
  /\ track_online_status_
  /\ LET due == IF Settled THEN Requests[init_state_] ELSE {} IN
       \/ due = {} /\ UNCHANGED requests
       \/ \E cmd \in due : send_command(cmd)
  /\ UNCHANGED <<link, registration, stream, serial, intact, session, clocks,
                 frame_buffer_, init_state_, protocol_version_, forgeries>>

(* A button, switch, number or select is used, whatever the link does.     *)
UseControl(cmd) ==
  /\ send_command(cmd)
  /\ UNCHANGED <<link, registration, stream, serial, intact, session,
                 connection_age, frame_buffer_, decoded>>

(* Time passes; the wrap of the millisecond clock is left out.             *)
Aged(age, limit) == IF age < limit THEN age + 1 ELSE age

Tick ==
  /\ connection_age < SettlingTime \/ elapsed < Throttle
  /\ connection_age' = Aged(connection_age, SettlingTime)
  /\ elapsed' = Aged(elapsed, Throttle)
  /\ UNCHANGED <<link, registration, requests, stream, serial, intact, session,
                 frame_buffer_, init_state_, protocol_version_, tracked, forgeries>>

(***************************************************************************)
(* Decoding.                                                               *)
(***************************************************************************)
Throttled == elapsed < Throttle

(* decode_cell_info_ and decode_cell_info_v2_: a throttled frame publishes *)
(* nothing.                                                                *)
decode_cell_info_ ==
  IF Throttled
    THEN UNCHANGED <<elapsed, telemetry>>
    ELSE elapsed' = 0 /\ telemetry' = "live"

(* The settings frame tells the version of the balancer by its size.       *)
VersionOf(size) == IF size = V2SettingsSize THEN "V2" ELSE "V1"

(* decode_: device info publishes the runtime and the power on count, the  *)
(* types not handled here publish nothing.                                 *)
DecodeDeviceInfo ==
  /\ telemetry' = "live"
  /\ init_state_' = "NEED_SETTINGS"
  /\ send_command("settings")
  /\ UNCHANGED <<protocol_version_, elapsed>>

(* Fault: the settings taken for the end of the initialisation. *)
DecodeSettingsIsReady(size) ==
  /\ protocol_version_' = VersionOf(size)
  /\ init_state_' = "READY"
  /\ send_command("cell_info")
  /\ UNCHANGED <<telemetry, elapsed>>

DecodeSettings(size) ==
  /\ protocol_version_' = VersionOf(size)
  /\ init_state_' = "NEED_CELL_INFO"
  /\ send_command("cell_info")
  /\ UNCHANGED <<telemetry, elapsed>>

DecodeCellInfo ==
  /\ decode_cell_info_
  /\ init_state_' = "READY"
  /\ UNCHANGED <<protocol_version_, requests>>

decode_(type, size) ==
  /\ reset_online_status_tracker_
  /\ \/ type = "device_info" /\ DecodeDeviceInfo
     \/ type = "settings" /\ DecodeSettings(size)
     \/ type = "cell_info" /\ DecodeCellInfo
     \/ /\ type \notin {"device_info", "settings", "cell_info"}
        /\ UNCHANGED <<telemetry, elapsed, init_state_, protocol_version_, requests>>

(***************************************************************************)
(* Reassembly.                                                             *)
(***************************************************************************)
(* Fault: the flush on a preamble forgotten. *)
NeverStartsWithPreamble(frag) == FALSE

StartsWithPreamble(frag) == frag[1].pos = 1

Kept(frag) == IF StartsWithPreamble(frag) THEN << >> ELSE frame_buffer_

(* The length field: of the frame it belongs to, or any number when other  *)
(* bytes are in its place (a new one each time it is looked at, although   *)
(* the bytes stay); 0 stands for every number out of range.                *)
Lengths(buf) ==
  IF buf[HeaderSize].pos = HeaderSize
    THEN {SizeOf[buf[HeaderSize].frame.type]}
    ELSE {0} \cup MinResponseSize .. MaxResponseSize

(* The type byte, in the same way. *)
Types(buf) ==
  IF buf[1].pos = 1 THEN {buf[1].frame.type} ELSE FrameTypes

InRange(size) == MinResponseSize <= size /\ size <= MaxResponseSize

Genuine(buf, size) ==
  size = SizeOf[buf[1].frame.type] /\ SubSeq(buf, 1, size) = FrameUnits(buf[1].frame)

Unaffected == UNCHANGED <<decoded, requests>>

Drop == frame_buffer_' = << >> /\ Unaffected

(* The buffer after the frame was erased from its front. *)
Rest(buf, size) == SubSeq(buf, size + 1, Len(buf))

(* The end marker and the checksum, an 8-bit sum, accept every frame; by   *)
(* chance they accept other bytes too.                                     *)
Accept(buf, size) ==
  /\ frame_buffer_' = Rest(buf, size)
  /\ forgeries' = IF Genuine(buf, size) THEN forgeries ELSE forgeries + 1
  /\ forgeries' <= MaxForgeries
  /\ \E type \in Types(buf) : decode_(type, size)

Wait(buf) == frame_buffer_' = buf /\ Unaffected

assemble(frag) ==
  LET buf == Kept(frag) \o frag IN
  \/ Len(buf) < HeaderSize /\ Wait(buf)
  \/ /\ Len(buf) >= HeaderSize
     /\ \E size \in Lengths(buf) :
          \/ ~InRange(size) /\ Drop
          \/ InRange(size) /\ Len(buf) < size /\ Wait(buf)
          \/ InRange(size) /\ Len(buf) >= size /\ ~Genuine(buf, size) /\ Drop
          \/ InRange(size) /\ Len(buf) >= size /\ Accept(buf, size)

(***************************************************************************)
(* The GATT events.                                                        *)
(***************************************************************************)
(* ESP_GATTC_SEARCH_CMPL_EVT, once per connection; the characteristic may  *)
(* be missing and the registration may fail, and both are only logged.     *)
SearchCmpl ==
  /\ link = "up" /\ char_handle_ = 0
  /\ char_handle_' = DeviceHandle
  /\ registration' \in {"none", "pending"}
  /\ UNCHANGED <<link, requests, stream, serial, intact, node_state,
                 connection_age, frame_buffer_, decoded>>

(* ESP_GATTC_REG_FOR_NOTIFY_EVT; its status is not looked at. *)
RegForNotify ==
  /\ registration \in {"pending", "orphaned"}
  /\ registration' = IF registration = "pending" THEN "active" ELSE "none"
  /\ node_state' = "ESTABLISHED"
  /\ init_state_' = "NEED_DEVICE_INFO"
  /\ connection_age' = 0
  /\ UNCHANGED <<link, requests, stream, serial, intact, char_handle_, elapsed,
                 frame_buffer_, protocol_version_, tracked, forgeries>>

(* Fault: the handle cleared before the unregistration that tests it. *)
StaysRegistered == registration

Unregistered ==
  IF char_handle_ = 0 THEN registration
  ELSE IF registration = "pending" THEN "orphaned" ELSE "none"

(* ESP_GATTC_DISCONNECT_EVT, also when a connection attempt fails: the     *)
(* protocol version outlives the connection.                               *)
Disconnect ==
  /\ link' = "down"
  /\ registration' = Unregistered
  /\ node_state' = "IDLE" /\ init_state_' = "NEED_DEVICE_INFO"
  /\ connection_age' = SettlingTime
  /\ char_handle_' = 0
  /\ frame_buffer_' = << >>
  /\ streaming' = FALSE /\ owed' = {}
  /\ stream' = << >> /\ serial' = 0 /\ intact' = FALSE
  /\ UNCHANGED <<losses, elapsed, protocol_version_, tracked, forgeries>>

(* ESP_GATTC_NOTIFY_EVT for the next n units; or the fragment gets lost,   *)
(* as it always does while the component is not listening.                 *)
Listening == registration = "active" /\ char_handle_ = DeviceHandle

Leave(n) ==
  /\ link = "up" /\ n <= Len(stream)
  /\ stream' = SubSeq(stream, n + 1, Len(stream))
  /\ UNCHANGED <<link, registration, serial, session, connection_age>>

Notify(n) ==
  /\ Listening
  /\ Leave(n)
  /\ assemble(SubSeq(stream, 1, n))
  /\ intact' = (intact \/ stream[1].pos = 1)

LoseFragment(n) ==
  /\ Leave(n)
  /\ intact' = FALSE
  /\ Listening => losses < MaxLosses
  /\ losses' = IF Listening THEN losses + 1 ELSE losses
  /\ UNCHANGED <<frame_buffer_, decoded, streaming, owed>>

(***************************************************************************)
(* The specification.                                                      *)
(***************************************************************************)
Init ==
  /\ link = "down" /\ registration = "none"
  /\ streaming = FALSE /\ owed = {} /\ losses = 0 /\ forgeries = 0
  /\ stream = << >> /\ serial = 0 /\ intact = FALSE
  /\ node_state = "IDLE" /\ char_handle_ = 0
  /\ init_state_ = "NEED_DEVICE_INFO" /\ protocol_version_ = "V1"
  /\ frame_buffer_ = << >>
  /\ connection_age = SettlingTime /\ elapsed = 0
  /\ no_response_count_ = 0 /\ online = "unknown" /\ telemetry = "none"

FragmentSizes == 1 .. Len(stream)

Component ==
  \/ Update
  \/ SearchCmpl
  \/ RegForNotify
  \/ Disconnect
  \/ \E n \in FragmentSizes : Notify(n)
  \/ \E cmd \in ControlCommands : UseControl(cmd)

Environment ==
  \/ Open
  \/ Tick
  \/ \E type \in FrameTypes : SendFrame(type)
  \/ \E n \in FragmentSizes : LoseFragment(n)

Next == Component \/ Environment

Spec == Init /\ [][Next]_vars

(* The scheduler polls on, a pending event is delivered, the clock runs,   *)
(* and the balancer gets to every frame it owes or streams, whose          *)
(* fragments are delivered or lost.                                        *)
Fairness ==
  /\ WF_vars(Update)
  /\ WF_vars(RegForNotify)
  /\ WF_vars(Tick)
  /\ WF_vars(\E n \in FragmentSizes : Notify(n))
  /\ \A type \in FrameTypes : SF_vars(SendFrame(type))

FairSpec == Spec /\ Fairness

-----------------------------------------------------------------------------
(***************************************************************************)
(* Properties.                                                             *)
(***************************************************************************)
(* Every variable of the component, the link and the balancer stays in its *)
(* type; the handlers of HeltecBalancerBle assign nothing else.            *)
TypeOK ==
  /\ link \in {"up", "down"} /\ registration \in Registrations
  /\ streaming \in BOOLEAN /\ owed \subseteq FrameTypes
  /\ stream \in Seq(Units) /\ serial \in 0 .. MaxLosses /\ intact \in BOOLEAN
  /\ losses \in 0 .. MaxLosses /\ forgeries \in 0 .. MaxForgeries
  /\ node_state \in {"IDLE", "ESTABLISHED"} /\ char_handle_ \in {0, DeviceHandle}
  /\ init_state_ \in InitStates /\ protocol_version_ \in Versions
  /\ frame_buffer_ \in Seq(Units)
  /\ connection_age \in 0 .. SettlingTime /\ elapsed \in 0 .. Throttle
  /\ no_response_count_ \in RestingCounts
  /\ online \in {"unknown", "online", "offline"}
  /\ telemetry \in {"none", "live", "invalid"}

(* A settings answer fixes the cell info layout before the balancer is     *)
(* asked to stream: as long as no chance bytes passed for a frame, no cell *)
(* info is on its way or in the buffer while decode_() would read it in    *)
(* the layout of the other version, on no connection and after no retry.   *)
LayoutKnown ==
  forgeries = 0 /\ (\/ streaming
                    \/ \E i \in 1 .. Len(stream) : stream[i].frame.type = "cell_info"
                    \/ \E i \in 1 .. Len(frame_buffer_) :
                         frame_buffer_[i].frame.type = "cell_info")
    => protocol_version_ = DeviceVersion

(* What the component knows about a session belongs to the connection that *)
(* is open now: an initialisation that got anywhere and buffered bytes     *)
(* imply a live registration on this link, whatever event came late.       *)
SessionCoherent ==
  /\ init_state_ # "NEED_DEVICE_INFO" =>
       node_state = "ESTABLISHED" /\ registration = "active"
  /\ frame_buffer_ # << >> => registration = "active"
  /\ registration = "active" => Reachable

(* assemble() keeps the bytes after a frame and has no limit of its own:   *)
(* as long as no chance bytes passed for a frame, the buffer rests at one  *)
(* frame at most, and at one more for every fragment lost.                 *)
BufferBounded ==
  forgeries = 0 => Len(frame_buffer_) <= (1 + losses) * MaxResponseSize

(* When frames do not share notifications and nothing of the frame in      *)
(* transit was lost, the buffer holds exactly what arrived of it, whatever *)
(* length an earlier torso claimed.                                        *)
ReassemblyInStep ==
  MaxQueued = 1 /\ intact /\ stream # << >> /\ stream[1].pos > 1
    => frame_buffer_ = Prefix(stream[1].frame, stream[1].pos - 1)

(* When frames come one by one, the fragment that ends a frame of which    *)
(* nothing was lost has it decoded in the same step, by assemble() and     *)
(* decode_(): the balancer is online, the counter restarts, nothing stays  *)
(* in the buffer, and the initialisation takes the step the frame calls    *)
(* for, the settings telling the layout of the balancer that sent them.    *)
Ends == MaxQueued = 1 /\ intact' /\ stream # << >> /\ stream' = << >>
CompleteFrameIsDecoded ==
  [][Ends =>
       LET type == stream[1].frame.type IN
       /\ online' = "online" /\ no_response_count_' = 0 /\ frame_buffer_' = << >>
       /\ type = "device_info" => init_state_' = "NEED_SETTINGS" /\ telemetry' = "live"
       /\ type = "settings" =>
            init_state_' = "NEED_CELL_INFO" /\ protocol_version_' = DeviceVersion
       /\ type = "cell_info" =>
            init_state_' = "READY" /\ (Throttled \/ telemetry' = "live")]_vars

(* The component implements the availability contract of Availability.tla: *)
(* its steps, and under FairSpec the fairness of the contract's poll.  The *)
(* code it is about is update(), decode_() and the tracker they share.     *)
A == INSTANCE Availability WITH
       Patience <- MaxNoResponse,
       silence <- IF no_response_count_ > MaxNoResponse THEN MaxNoResponse
                                                        ELSE no_response_count_
KeepsAvailabilityContract == A!Safety
ImplementsAvailability == A!Spec

(* The initialisation comes to rest: once a registration stays, update()   *)
(* and decode_() end up in READY for good, although a request that crossed *)
(* its answer makes decode_() go back to NEED_SETTINGS.                    *)
InitializationSettles ==
  <>[](registration = "active") => <>[](init_state_ = "READY")

(* A balancer that is READY streams: its measurements are shown, or the    *)
(* link breaks, since update() never asks again in READY.                  *)
ReadyMeansStreaming ==
  init_state_ = "READY" ~> telemetry = "live" \/ link = "down"

=============================================================================
