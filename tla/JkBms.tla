------------------------------- MODULE JkBms -------------------------------
(***************************************************************************)
(* The jk_bms driver on its jk_modbus bus: the poll with the online        *)
(* tracker, the answers the bus hands over, and a switch that writes a     *)
(* register of the battery.                                                *)
(*                                                                         *)
(* write_register sends the password, waits 150 ms and sends the register: *)
(* the main loop stands still meanwhile, the clock and the line do not.    *)
(***************************************************************************)
EXTENDS JkModbus, OnlineTracker

CONSTANTS
  WriteDelay,  \* delay(150) of write_register, in clock ticks
  MaxWrites    \* bound: writes of the switch

ASSUME WriteAssumption == WriteDelay \in Nat \ {0} /\ MaxWrites \in Nat

VARIABLES
  no_response_count_,
  online,        \* what online_status_binary_sensor_ shows
  telemetry,     \* what the sensors an outage invalidates show
  switch_state,  \* what the switch shows
  writing,       \* the state write_register is called with: {} or {state}
  delay,         \* ticks write_register still has to wait
  writes

tracked == <<no_response_count_, online, telemetry>>
driver == <<tracked, switch_state, writing, delay, writes>>
vars == <<bus, driver>>

Writing == writing # {}

-----------------------------------------------------------------------------
(***************************************************************************)
(* update                                                                  *)
(***************************************************************************)
publish_device_unavailable_ == online' = "offline" /\ telemetry' = "invalid"

track_online_status_ ==
  /\ no_response_count_' = Tracked(no_response_count_)
  /\ IF Expires(no_response_count_)
       THEN publish_device_unavailable_
       ELSE UNCHANGED <<online, telemetry>>

MainLoopFree == ~reading /\ ~Writing

(* Fault: no poll while an answer is outstanding. *)
UpdateAwaitsAnswer ==
  /\ MainLoopFree /\ "read_all" \notin owed
  /\ track_online_status_
  /\ send("read_all")
  /\ UNCHANGED <<register, frame, sent, gap, fit, forgeries, fifo, receiver,
                 switch_state, writing, delay, writes>>

Update ==
  /\ MainLoopFree
  /\ track_online_status_
  /\ send("read_all")
  /\ UNCHANGED <<register, frame, sent, gap, fit, forgeries, fifo, receiver,
                 switch_state, writing, delay, writes>>

(***************************************************************************)
(* write_state of the switch.                                              *)
(***************************************************************************)
BeginWrite(state) ==
  /\ MainLoopFree /\ writes < MaxWrites
  /\ send("password")
  /\ writing' = {state} /\ delay' = WriteDelay
  /\ writes' = writes + 1
  /\ UNCHANGED <<register, frame, sent, gap, fit, forgeries, fifo, receiver,
                 tracked, switch_state>>

(* The switch shows the new state whatever becomes of the request.         *)
EndWrite(state) ==
  /\ writing = {state} /\ delay = 0
  /\ \/ RequestHeard("write_register") /\ register' = state
     \/ RequestLost /\ UNCHANGED register
  /\ switch_state' = state
  /\ writing' = {}
  /\ UNCHANGED <<delay, frame, sent, gap, fit, forgeries, fifo, receiver, tracked, writes>>

(***************************************************************************)
(* on_jk_modbus_data                                                       *)
(***************************************************************************)
(* Fault: the counter is reset, the sensor is not published. *)
ResetsCounterOnly == no_response_count_' = 0 /\ UNCHANGED online

reset_online_status_tracker_ == no_response_count_' = 0 /\ online' = "online"

(* Fault: the switches left out of the status frame. *)
StatusWithoutSwitches(message) ==
  IF message.complete
    THEN telemetry' = "live" /\ UNCHANGED switch_state
    ELSE UNCHANGED <<telemetry, switch_state>>

(* Fault: a short status frame is decoded. *)
DecodesShortStatus(message) ==
  telemetry' = "live" /\ switch_state' = message.value

on_status_data_(message) ==
  IF message.complete
    THEN telemetry' = "live" /\ switch_state' = message.value
    ELSE UNCHANGED <<telemetry, switch_state>>

on_jk_modbus_data(message) ==
  /\ reset_online_status_tracker_
  /\ IF message.function = "read_all"
       THEN on_status_data_(message)
       ELSE UNCHANGED <<telemetry, switch_state>>

Deliver ==
  \E message \in Messages :
    /\ DeliverFrame(message)
    /\ on_jk_modbus_data(message)
    /\ UNCHANGED <<writing, delay, writes>>

(***************************************************************************)
(* The clock.  Bytes of a frame follow one another, and the main loop      *)
(* comes round, faster than rx_timeout_; a pause or a stall that exceeds   *)
(* it is a loss, and write_register makes one of its own.                  *)
(***************************************************************************)
Stalls ==
  /\ age = RxTimeout /\ ~Writing
  /\ (0 < sent /\ FrameUnderway) \/ fifo # << >>

Tick ==
  /\ ~reading
  /\ IF Writing THEN delay > 0 ELSE age <= RxTimeout
  /\ age' = IF age <= RxTimeout THEN age + 1 ELSE age
  /\ delay' = IF Writing THEN delay - 1 ELSE delay
  /\ Stalls => losses < MaxLosses
  /\ losses' = IF Stalls THEN losses + 1 ELSE losses
  /\ UNCHANGED <<battery, gap, fit, forgeries, fifo, rx_buffer_, expected, reading,
                 tracked, switch_state, writing, writes>>

-----------------------------------------------------------------------------
(***************************************************************************)
(* The specification.                                                      *)
(***************************************************************************)
Init ==
  /\ BusInit
  /\ no_response_count_ = 0 /\ online = "unknown" /\ telemetry = "none"
  /\ switch_state = FALSE
  /\ writing = {} /\ delay = 0 /\ writes = 0

EnterLoop == BeginLoop /\ ~Writing /\ UNCHANGED driver

Parse == (KeepByte \/ DropBytes) /\ UNCHANGED driver

Answer(function) == BeginFrame(function) /\ UNCHANGED driver

Transmit == (ByteArrives \/ ByteLost) /\ UNCHANGED driver

Driver ==
  \/ Update
  \/ \E state \in BOOLEAN : BeginWrite(state)
  \/ \E state \in BOOLEAN : EndWrite(state)

Line ==
  \/ \E function \in Functions : Answer(function)
  \/ Transmit

Next == EnterLoop \/ Parse \/ Deliver \/ Driver \/ Line \/ Tick

Spec == Init /\ [][Next]_vars

(* The scheduler polls and comes round to loop(), which reads what is      *)
(* there; a delay ends; time passes; a battery that began an answer sends  *)
(* it.  Whether it answers at all is left open.                            *)
Fairness ==
  /\ SF_vars(Update)
  /\ WF_vars(EnterLoop)
  /\ WF_vars(Parse \/ Deliver)
  /\ WF_vars(\E state \in BOOLEAN : EndWrite(state))
  /\ WF_vars(Tick)
  /\ WF_vars(Transmit)

FairSpec == Spec /\ Fairness

-----------------------------------------------------------------------------
(***************************************************************************)
(* Properties.                                                             *)
(***************************************************************************)
(* Every variable of the line, the bus and the driver stays in its type:   *)
(* what JkModbus and JkBms assign; the buffer holds less than a frame.     *)
TypeOK ==
  /\ register \in BOOLEAN /\ owed \subseteq Functions
  /\ frame \in Messages \cup {NoMessage} /\ sent \in 0 .. FrameSize
  /\ gap \in BOOLEAN /\ fit \in BOOLEAN
  /\ losses \in 0 .. MaxLosses /\ forgeries \in 0 .. MaxForgeries
  /\ fifo \in Seq(Bytes) /\ Len(fifo) <= FifoSize
  /\ rx_buffer_ \in Seq(Bytes)
  /\ expected \in {0} \cup ClaimedSizes \cup {SizeOf[f] : f \in Functions}
  /\ Len(rx_buffer_) > HeaderSize => Len(rx_buffer_) < expected
  /\ age \in 0 .. RxTimeout + 1 /\ reading \in BOOLEAN
  /\ no_response_count_ \in RestingCounts
  /\ online \in {"unknown", "online", "offline"}
  /\ telemetry \in {"none", "live", "invalid"}
  /\ switch_state \in BOOLEAN
  /\ writing \in {{}, {FALSE}, {TRUE}} /\ delay \in 0 .. WriteDelay
  /\ writes \in 0 .. MaxWrites

(* While nothing disturbs a frame that began after a silence, its bytes    *)
(* lie in the UART and in the buffer, in order and with nothing between    *)
(* them, or loop() has yet to clear what was left in the buffer before     *)
(* (loop(), parse_jk_modbus_byte_).                                        *)
ReassemblyInStep ==
  fit => \/ rx_buffer_ \o fifo = Prefix(frame, sent)
         \/ TimeoutPending /\ fifo = Prefix(frame, sent)
         \/ ~FrameUnderway /\ rx_buffer_ \o fifo = << >>

(* The last byte of such a frame has it decoded in the same step: the      *)
(* device is shown online, and a complete status publishes the             *)
(* measurements and the switch it carries (on_jk_modbus_data).             *)
CompleteFrameIsDecoded ==
  [][fit /\ ~FrameUnderway /\ Len(fifo) = 1 /\ fifo' = << >> =>
       /\ online' = "online" /\ no_response_count_' = 0
       /\ frame.function = "read_all" /\ frame.complete =>
            telemetry' = "live" /\ switch_state' = frame.value]_vars

(* Unless other bytes passed for a frame, sensors show measurements again, *)
(* and the switch changes without a write, only by a status frame that     *)
(* holds every field (the size check in on_status_data_).                  *)
PublishesStatus ==
  \/ telemetry # "live" /\ telemetry' = "live"
  \/ switch_state' # switch_state /\ writing' = writing
NothingFromShortStatus ==
  [][PublishesStatus /\ forgeries' = forgeries
       => LET f == rx_buffer_[1].frame IN f.function = "read_all" /\ f.complete]_vars

(* The driver implements the availability contract of Availability.tla:    *)
(* its steps, and under FairSpec the fairness of the contract's poll.  The *)
(* code it is about is update(), on_jk_modbus_data() and the tracker.      *)
A == INSTANCE Availability WITH
       Patience <- MaxNoResponse,
       silence <- IF no_response_count_ > MaxNoResponse THEN MaxNoResponse
                                                        ELSE no_response_count_
KeepsAvailabilityContract == A!Safety
ImplementsAvailability == A!Spec

(* Whatever garbage and half frames came before, a battery that again and  *)
(* again begins a status frame after a silence is shown online again and   *)
(* again: the timeout of loop() gets the parser back into step.            *)
AnswersAfterSilence == fit /\ sent = 0 /\ frame.function = "read_all"
SilenceResynchronises == []<>AnswersAfterSilence => []<>(online = "online")

(* The switch shows what it wrote at once, and a status frame that was     *)
(* underway then shows the old register again.  In the end it shows the    *)
(* register the battery has, whichever of the writes were lost.            *)
SwitchSettles == []<>AnswersAfterSilence => <>[](switch_state = register)

=============================================================================
