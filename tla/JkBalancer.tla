----------------------------- MODULE JkBalancer -----------------------------
(***************************************************************************)
(* The jk_balancer drivers on their jk_balancer_modbus bus, one for each   *)
(* balancer: polls with the online tracker, the answers the bus hands to   *)
(* the driver of their address, and a switch (a number works alike) that   *)
(* writes a setting of the balancer.                                       *)
(***************************************************************************)
EXTENDS JkBalancerModbus, OnlineTracker

CONSTANTS
  Switched,  \* the drivers with a switch configured
  MaxWrites  \* bound: writes of all switches

ASSUME WritesAssumption == Switched \subseteq Devices /\ MaxWrites \in Nat

VARIABLES
  (* of each driver *)
  no_response_count_,
  online,        \* what online_status_binary_sensor_ shows
  telemetry,     \* what the sensors an outage invalidates show
  switch_state,  \* what the switch shows
  writes

tracked == <<no_response_count_, online, telemetry>>
drivers == <<tracked, switch_state, writes>>
vars == <<bus, drivers>>

-----------------------------------------------------------------------------
(***************************************************************************)
(* update                                                                  *)
(***************************************************************************)
(* Fault: the measurements are left as they are. *)
AnnouncesOnly(d) ==
  online' = [online EXCEPT ![d] = "offline"] /\ UNCHANGED telemetry

publish_device_unavailable_(d) ==
  /\ online' = [online EXCEPT ![d] = "offline"]
  /\ telemetry' = [telemetry EXCEPT ![d] = "invalid"]

track_online_status_(d) ==
  /\ no_response_count_' = [no_response_count_ EXCEPT ![d] = Tracked(@)]
  /\ IF Expires(no_response_count_[d])
       THEN publish_device_unavailable_(d)
       ELSE UNCHANGED <<online, telemetry>>

Update(d) ==
  /\ ~reading
  /\ track_online_status_(d)
  /\ send(d, "read_all")
  /\ UNCHANGED <<setting, answer, sent, fit, fifo, receiver, switch_state, writes>>

(* write_state of the switch, which shows the new state whatever becomes   *)
(* of the request; control of a number does the same.                      *)
WriteState(d, state) ==
  /\ d \in Switched /\ ~reading /\ writes < MaxWrites
  /\ \/ /\ RequestHeard(d, "write_register")
        /\ setting' = [setting EXCEPT ![d] = state]
     \/ RequestLost /\ UNCHANGED setting
  /\ switch_state' = [switch_state EXCEPT ![d] = state]
  /\ writes' = writes + 1
  /\ UNCHANGED <<answer, sent, fit, fifo, receiver, tracked>>

(***************************************************************************)
(* on_jk_balancer_modbus_data                                              *)
(***************************************************************************)
reset_online_status_tracker_(d) ==
  /\ no_response_count_' = [no_response_count_ EXCEPT ![d] = 0]
  /\ online' = [online EXCEPT ![d] = "online"]

on_status_data_(d, message) ==
  /\ telemetry' = [telemetry EXCEPT ![d] = "live"]
  /\ switch_state' = IF d \in Switched THEN [switch_state EXCEPT ![d] = message.value]
                                       ELSE switch_state

on_jk_balancer_modbus_data(d, message) ==
  /\ reset_online_status_tracker_(d)
  /\ IF message.function = "read_all"
       THEN on_status_data_(d, message)
       ELSE UNCHANGED <<telemetry, switch_state>>

(* Fault: the frame goes to every driver. *)
Everyone(message) == Devices

Addressed(message) == {d \in Devices : d = message.device}

Deliver ==
  \E message \in Messages :
    /\ DeliverFrame(message)
    /\ \E d \in Addressed(message) : on_jk_balancer_modbus_data(d, message)
    /\ UNCHANGED writes

(***************************************************************************)
(* The clock.  The bytes of a frame follow one another, and the main loop  *)
(* comes round, faster than rx_timeout_; a pause or a stall that exceeds   *)
(* it is a loss.                                                           *)
(***************************************************************************)
Stalls ==
  /\ age = RxTimeout
  /\ fifo # << >> \/ \E d \in Devices : Underway(d) /\ sent[d] > 0

Tick ==
  /\ ~reading /\ age <= RxTimeout
  /\ age' = age + 1
  /\ \/ Stalls /\ Fault
     \/ ~Stalls /\ UNCHANGED faults
  /\ UNCHANGED <<balancers, fit, fifo, rx_buffer_, reading, drivers>>

-----------------------------------------------------------------------------
(***************************************************************************)
(* The specification.                                                      *)
(***************************************************************************)
Init ==
  /\ BusInit
  /\ no_response_count_ = [d \in Devices |-> 0]
  /\ online = [d \in Devices |-> "unknown"] /\ telemetry = [d \in Devices |-> "none"]
  /\ switch_state = [d \in Devices |-> FALSE] /\ writes = 0

EnterLoop == BeginLoop /\ UNCHANGED drivers
Parse == (KeepByte \/ DropBytes) /\ UNCHANGED drivers
Answer(d, function) == BeginAnswer(d, function) /\ UNCHANGED drivers
Transmit(d) == (ByteArrives(d) \/ ByteLost(d)) /\ UNCHANGED drivers

Next ==
  \/ EnterLoop
  \/ Parse
  \/ Deliver
  \/ Tick
  \/ \E d \in Devices :
       \/ Update(d)
       \/ \E state \in BOOLEAN : WriteState(d, state)
       \/ \E function \in Functions : Answer(d, function)
       \/ Transmit(d)

Spec == Init /\ [][Next]_vars

(* The scheduler polls every balancer and comes round to loop(), which     *)
(* reads what is there; time passes; a balancer that began an answer sends *)
(* it.  Whether it answers at all is left open.                            *)
Fairness ==
  /\ WF_vars(EnterLoop)
  /\ WF_vars(Parse \/ Deliver)
  /\ WF_vars(Tick)
  /\ \A d \in Devices : SF_vars(Update(d)) /\ WF_vars(Transmit(d))

FairSpec == Spec /\ Fairness

-----------------------------------------------------------------------------
(***************************************************************************)
(* Properties.                                                             *)
(***************************************************************************)
(* Every variable of the line, the bus and the drivers stays in its type:  *)
(* what JkBalancerModbus and JkBalancer assign; the buffer never holds a   *)
(* whole frame.                                                            *)
TypeOK ==
  /\ setting \in [Devices -> BOOLEAN] /\ owed \in [Devices -> SUBSET Functions]
  /\ answer \in [Devices -> Messages \cup {NoMessage}] /\ sent \in [Devices -> 0 .. FrameSize]
  /\ fit \subseteq Devices /\ faults \in 0 .. MaxFaults
  /\ fifo \in Seq(Bytes) /\ Len(fifo) <= FifoSize
  /\ rx_buffer_ \in Seq(Bytes) /\ Len(rx_buffer_) < FrameSize
  /\ age \in 0 .. RxTimeout + 1 /\ reading \in BOOLEAN
  /\ no_response_count_ \in [Devices -> RestingCounts]
  /\ online \in [Devices -> {"unknown", "online", "offline"}]
  /\ telemetry \in [Devices -> {"none", "live", "invalid"}]
  /\ switch_state \in [Devices -> BOOLEAN] /\ writes \in 0 .. MaxWrites

(* While nothing disturbs an answer that began after a silence, its bytes  *)
(* lie in the buffer and the UART, in order and with nothing between them, *)
(* or loop() has yet to clear what was left in the buffer before (loop(),  *)
(* parse_jk_balancer_modbus_byte_).                                        *)
ReassemblyInStep ==
  \A d \in fit :
    \/ rx_buffer_ \o fifo = Prefix(answer[d], sent[d])
    \/ TimeoutPending /\ fifo = Prefix(answer[d], sent[d])
    \/ ~Underway(d) /\ rx_buffer_ \o fifo = << >>

(* The last byte of an answer that began after a silence and that nothing  *)
(* disturbed has it decoded in the step of loop() that reads it: its own   *)
(* driver is online and counts from zero again, and a status answer shows  *)
(* what the balancer had set when it began to answer.                      *)
CompleteAnswerIsDecoded ==
  [][\A d \in fit :
       ~Underway(d) /\ Len(fifo) = 1 /\ fifo' = << >> =>
         /\ online'[d] = "online" /\ no_response_count_'[d] = 0
         /\ answer[d].function = "read_all" =>
              /\ telemetry'[d] = "live"
              /\ d \in Switched => switch_state'[d] = answer[d].value]_vars

(* Unless other bytes passed for a frame, a driver shows its balancer      *)
(* online again, and the switch changes without a write, only by an answer *)
(* this very balancer began, however the answers of others got in between  *)
(* (the dispatch by address).                                              *)
OwnFramesOnly ==
  [][\A d \in Devices :
       /\ \/ online'[d] = "online" /\ online[d] # "online"
          \/ switch_state'[d] # switch_state[d] /\ writes' = writes
       /\ faults' = faults
       => answer[d] # NoMessage /\ rx_buffer_ = Prefix(rx_buffer_[1].message, FrameSize - 1)
          /\ rx_buffer_[1].message.device = d]_vars

(* Each driver implements the availability contract of Availability.tla,   *)
(* whatever the others on the line do.  The code it is about is update(),  *)
(* on_jk_balancer_modbus_data() and the tracker.                           *)
A(d) == INSTANCE Availability WITH
          Patience <- MaxNoResponse,
          online <- online[d],
          telemetry <- telemetry[d],
          silence <- IF no_response_count_[d] > MaxNoResponse THEN MaxNoResponse
                                                              ELSE no_response_count_[d]
KeepsAvailabilityContract ==
  /\ \A d \in Devices : A(d)!Init
  /\ [][\A d \in Devices : A(d)!Next \/ UNCHANGED A(d)!vars]_vars

(* The switch shows what it wrote at once, and a status frame that was     *)
(* under way then shows the old setting again.  In the end it shows the    *)
(* setting the balancer has, whichever of the writes were lost and however *)
(* the answers of two balancers collided before, provided this one again   *)
(* and again answers after a silence and alone.                            *)
AnswersAlone(d) == d \in fit /\ ~Underway(d)
SwitchSettles ==
  \A d \in Switched :
    []<>(AnswersAlone(d) /\ answer[d].function = "read_all")
      => <>[](switch_state[d] = setting[d])

=============================================================================
