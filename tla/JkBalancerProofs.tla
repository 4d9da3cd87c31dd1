-------------------------- MODULE JkBalancerProofs --------------------------
(***************************************************************************)
(* Theorems about the jk_balancer drivers on their bus, for every set of   *)
(* balancers, timeout, frame size and limit, and any number of faults and  *)
(* writes.                                                                 *)
(***************************************************************************)
EXTENDS JkBalancer, SequenceTheorems, TLAPS

-----------------------------------------------------------------------------
(* A poll takes the no-response counter from one resting value to another; *)
(* it leaves the limit behind exactly when it expires.                     *)
LEMMA TrackedRests ==
  ASSUME NEW n \in RestingCounts
  PROVE  /\ Tracked(n) \in RestingCounts
         /\ Expires(n) <=> n = MaxNoResponse - 1
         /\ Expires(n) => Tracked(n) = MaxNoResponse + 1
         /\ n < MaxNoResponse - 1 => Tracked(n) = n + 1
         /\ n > MaxNoResponse => Tracked(n) = n
  BY MaxNoResponseAssumption, SMT
  DEF RestingCounts, Tracked, Expires, Counted

-----------------------------------------------------------------------------
(***************************************************************************)
(* The conjuncts of TypeOK, in groups.                                     *)
(***************************************************************************)
BalancersOK ==
  /\ setting \in [Devices -> BOOLEAN] /\ owed \in [Devices -> SUBSET Functions]
  /\ answer \in [Devices -> Messages \cup {NoMessage}] /\ sent \in [Devices -> 0 .. FrameSize]

LineOK ==
  /\ fit \subseteq Devices /\ faults \in 0 .. MaxFaults
  /\ fifo \in Seq(Bytes) /\ Len(fifo) <= FifoSize

ReceiverOK ==
  /\ rx_buffer_ \in Seq(Bytes) /\ Len(rx_buffer_) < FrameSize
  /\ age \in 0 .. RxTimeout + 1 /\ reading \in BOOLEAN

TrackedOK ==
  /\ no_response_count_ \in [Devices -> RestingCounts]
  /\ online \in [Devices -> {"unknown", "online", "offline"}]
  /\ telemetry \in [Devices -> {"none", "live", "invalid"}]

SwitchesOK == switch_state \in [Devices -> BOOLEAN] /\ writes \in 0 .. MaxWrites

LEMMA TypeParts ==
  TypeOK <=> BalancersOK /\ LineOK /\ ReceiverOK /\ TrackedOK /\ SwitchesOK
  BY DEF TypeOK, BalancersOK, LineOK, ReceiverOK, TrackedOK, SwitchesOK

LEMMA TypePartsNext ==
  TypeOK' <=> BalancersOK' /\ LineOK' /\ ReceiverOK' /\ TrackedOK' /\ SwitchesOK'
  BY DEF TypeOK, BalancersOK, LineOK, ReceiverOK, TrackedOK, SwitchesOK

(* What a step leaves alone keeps its type.                                *)
LEMMA Untouched ==
  /\ BalancersOK /\ UNCHANGED balancers => BalancersOK'
  /\ LineOK /\ UNCHANGED line => LineOK'
  /\ ReceiverOK /\ UNCHANGED receiver => ReceiverOK'
  /\ TrackedOK /\ UNCHANGED tracked => TrackedOK'
  /\ SwitchesOK /\ UNCHANGED <<switch_state, writes>> => SwitchesOK'
  BY Zenon DEF BalancersOK, LineOK, ReceiverOK, TrackedOK, SwitchesOK,
               balancers, line, receiver, tracked

-----------------------------------------------------------------------------
(***************************************************************************)
(* Lemmas about the operations of the line and the bus.                    *)
(***************************************************************************)
(* A fault is counted up to its bound.                                     *)
LEMMA FaultTypes ==
  ASSUME faults \in 0 .. MaxFaults, Fault \/ UNCHANGED faults
  PROVE  faults' \in 0 .. MaxFaults
  BY BusAssumption, SMT DEF Fault

(* A request changes nothing of the balancers but what they owe.           *)
LEMMA SendTypes ==
  ASSUME BalancersOK, faults \in 0 .. MaxFaults,
         NEW d \in Devices, NEW f \in Functions, RequestHeard(d, f) \/ RequestLost
  PROVE  /\ owed' \in [Devices -> SUBSET Functions]
         /\ faults' \in 0 .. MaxFaults
  <1>1. CASE RequestHeard(d, f)
    BY <1>1 DEF RequestHeard, BalancersOK
  <1>2. CASE RequestLost
    BY <1>2, FaultTypes DEF RequestLost, BalancersOK
  <1>3. QED
    BY <1>1, <1>2

(* Reading a byte leaves less in the UART. *)
LEMMA ReadTypes ==
  ASSUME LineOK, ReadByte, Fault \/ UNCHANGED faults
  PROVE  LineOK' /\ reading' \in BOOLEAN /\ Head(fifo) \in Bytes
  <1>1. fifo \in Seq(Bytes) /\ fifo # << >> /\ Len(fifo) <= FifoSize
    BY DEF LineOK, ReadByte
  <1>2. /\ Head(fifo) \in Bytes /\ Tail(fifo) \in Seq(Bytes)
        /\ Len(Tail(fifo)) = Len(fifo) - 1 /\ Len(fifo) \in Nat
    BY <1>1, HeadTailProperties, LenProperties
  <1>3. Len(Tail(fifo)) <= FifoSize
    BY <1>1, <1>2, BusAssumption, SMT
  <1>4. faults' \in 0 .. MaxFaults
    BY FaultTypes DEF LineOK
  <1>5. QED
    BY <1>2, <1>3, <1>4, Zenon DEF ReadByte, LineOK

(* The buffer that was cleared, or kept a byte, holds less than a frame.   *)
LEMMA ClearedBuffer ==
  ASSUME Clear PROVE rx_buffer_' \in Seq(Bytes) /\ Len(rx_buffer_') < FrameSize
  <1>1. << >> \in Seq(Bytes) /\ Len(<< >>) = 0
    BY EmptySeq
  <1>2. QED
    BY <1>1, BusAssumption, SMT DEF Clear

LEMMA BufferTypes ==
  ASSUME ReceiverOK, Head(fifo) \in Bytes,
         \/ Clear
         \/ AwaitsMore(Parsed, Head(fifo)) /\ rx_buffer_' = Parsed
  PROVE  rx_buffer_' \in Seq(Bytes) /\ Len(rx_buffer_') < FrameSize
  <1>1. CASE Clear
    BY <1>1, ClearedBuffer
  <1>2. CASE AwaitsMore(Parsed, Head(fifo)) /\ rx_buffer_' = Parsed
    <2>1. Parsed \in Seq(Bytes)
      BY AppendProperties DEF Parsed, ReceiverOK
    <2>2. Len(Parsed) \in Nat
      BY <2>1, LenProperties
    <2>3. Len(Parsed) < FrameSize
      BY <1>2, <2>2, BusAssumption, SMT DEF AwaitsMore, Complete
    <2>4. QED
      BY <1>2, <2>1, <2>3
  <1>3. QED
    BY <1>1, <1>2

(* A poll, and a frame, keep the types of what they publish.               *)
LEMMA TrackTypes ==
  ASSUME TrackedOK, NEW d \in Devices, track_online_status_(d)
  PROVE  TrackedOK'
  <1>1. Tracked(no_response_count_[d]) \in RestingCounts
    BY TrackedRests DEF TrackedOK
  <1>2. QED
    BY <1>1 DEF TrackedOK, track_online_status_, publish_device_unavailable_

LEMMA DeliveredTypes ==
  ASSUME TrackedOK, SwitchesOK, NEW d \in Devices, NEW message \in Messages,
         on_jk_balancer_modbus_data(d, message), UNCHANGED writes
  PROVE  TrackedOK' /\ SwitchesOK'
  <1>1. 0 \in RestingCounts
    BY MaxNoResponseAssumption, SMT DEF RestingCounts
  <1>2. message.value \in BOOLEAN
    BY DEF Messages
  <1>3. no_response_count_' \in [Devices -> RestingCounts]
        /\ online' \in [Devices -> {"unknown", "online", "offline"}]
    BY <1>1 DEF TrackedOK, on_jk_balancer_modbus_data, reset_online_status_tracker_
  <1>4. telemetry' \in [Devices -> {"none", "live", "invalid"}]
        /\ switch_state' \in [Devices -> BOOLEAN]
    BY <1>2 DEF TrackedOK, SwitchesOK, on_jk_balancer_modbus_data, on_status_data_
  <1>5. QED
    BY <1>3, <1>4 DEF TrackedOK, SwitchesOK

-----------------------------------------------------------------------------
(***************************************************************************)
(* Type correctness.                                                       *)
(***************************************************************************)
(* However the answers of several balancers mix on the line, the drivers   *)
(* and the line keep their types; the buffer never holds a whole frame.    *)
THEOREM TypeCorrect == Spec => []TypeOK
  <1>1. Init => TypeOK
    <2> SUFFICES ASSUME Init PROVE TypeOK
      OBVIOUS
    <2>1. << >> \in Seq(Bytes) /\ Len(<< >>) = 0
      BY EmptySeq
    <2>2. 0 \in RestingCounts
      BY MaxNoResponseAssumption, SMT DEF RestingCounts
    <2>3. /\ 0 \in 0 .. FrameSize /\ 0 \in 0 .. MaxFaults /\ 0 \in 0 .. MaxWrites
          /\ 0 \in 0 .. RxTimeout + 1 /\ 0 <= FifoSize /\ 0 < FrameSize
      BY BusAssumption, WritesAssumption, SMT
    <2>4. BalancersOK
      BY <2>3 DEF Init, BusInit, BalancersOK
    <2>5. LineOK /\ ReceiverOK
      BY <2>1, <2>3 DEF Init, BusInit, LineOK, ReceiverOK
    <2>6. TrackedOK /\ SwitchesOK
      BY <2>2, <2>3 DEF Init, TrackedOK, SwitchesOK
    <2>7. QED
      BY <2>4, <2>5, <2>6, TypeParts
  <1>2. TypeOK /\ [Next]_vars => TypeOK'
    <2> SUFFICES ASSUME TypeOK, [Next]_vars PROVE TypeOK'
      OBVIOUS
    <2>0. BalancersOK /\ LineOK /\ ReceiverOK /\ TrackedOK /\ SwitchesOK
      BY TypeParts
    <2>1. CASE EnterLoop
      <3> DEFINE intact == {d \in fit : Len(fifo) = sent[d]}
      <3>1. /\ fit' = IF age > RxTimeout THEN intact ELSE fit
            /\ reading' = (fifo # << >>)
            /\ \/ Clear /\ age' = 0
               \/ UNCHANGED <<rx_buffer_, age>>
            /\ UNCHANGED <<balancers, faults, fifo>> /\ UNCHANGED drivers
        BY <2>1, Zenon DEF EnterLoop, BeginLoop
      <3>2. intact \subseteq Devices /\ fit \subseteq Devices
        BY <2>0 DEF LineOK
      <3> HIDE DEF intact
      <3>3. LineOK'
        BY <2>0, <3>1, <3>2 DEF LineOK
      <3>4. ReceiverOK'
        <4>1. rx_buffer_' \in Seq(Bytes) /\ Len(rx_buffer_') < FrameSize
          BY <2>0, <3>1, ClearedBuffer DEF ReceiverOK
        <4>2. age' \in 0 .. RxTimeout + 1 /\ reading' \in BOOLEAN
          BY <2>0, <3>1, BusAssumption DEF ReceiverOK
        <4>3. QED
          BY <4>1, <4>2 DEF ReceiverOK
      <3>5. UNCHANGED <<balancers, tracked, switch_state, writes>>
        BY <3>1 DEF drivers
      <3>6. QED
        BY <2>0, <3>3, <3>4, <3>5, Untouched, TypePartsNext
    <2>2. CASE Parse \/ Deliver
      <3>1. /\ ReadByte /\ (Fault \/ UNCHANGED faults)
            /\ \/ Clear
               \/ AwaitsMore(Parsed, Head(fifo)) /\ rx_buffer_' = Parsed
            /\ age' \in {0, age}
        <4>1. CASE KeepByte
          BY <4>1 DEF KeepByte
        <4>2. CASE DropBytes
          BY <4>2 DEF DropBytes
        <4>3. ASSUME NEW message, DeliverFrame(message)
              PROVE  ReadByte /\ (Fault \/ UNCHANGED faults) /\ Clear /\ UNCHANGED age
          BY <4>3 DEF DeliverFrame, Delivers
        <4>4. QED
          BY <2>2, <4>1, <4>2, <4>3 DEF Parse, Deliver
      <3>2. LineOK' /\ reading' \in BOOLEAN /\ Head(fifo) \in Bytes
        BY <2>0, <3>1, ReadTypes
      <3>3. rx_buffer_' \in Seq(Bytes) /\ Len(rx_buffer_') < FrameSize
        BY <2>0, <3>1, <3>2, BufferTypes
      <3>4. age' \in 0 .. RxTimeout + 1
        BY <2>0, <3>1, BusAssumption, SMT DEF ReceiverOK
      <3>5. ReceiverOK'
        BY <3>2, <3>3, <3>4 DEF ReceiverOK
      <3>6. TrackedOK' /\ SwitchesOK'
        <4>1. CASE Parse
          BY <2>0, <4>1, Untouched DEF Parse, drivers
        <4>2. CASE Deliver
          BY <2>0, <4>2, DeliveredTypes DEF Deliver, Addressed
        <4>3. QED
          BY <2>2, <4>1, <4>2
      <3>7. UNCHANGED balancers
        BY <3>1 DEF ReadByte
      <3>8. QED
        BY <2>0, <3>2, <3>5, <3>6, <3>7, Untouched, TypePartsNext
    <2>3. CASE Tick
      <3>1. faults' \in 0 .. MaxFaults
        BY <2>0, <2>3, FaultTypes DEF Tick, LineOK
      <3>2. LineOK'
        BY <2>0, <2>3, <3>1 DEF Tick, LineOK
      <3>3. age' \in 0 .. RxTimeout + 1
        BY <2>0, <2>3, BusAssumption, SMT DEF Tick, ReceiverOK
      <3>4. ReceiverOK'
        BY <2>0, <2>3, <3>3 DEF Tick, ReceiverOK
      <3>5. UNCHANGED <<balancers, tracked, switch_state, writes>>
        BY <2>3 DEF Tick, drivers
      <3>6. QED
        BY <2>0, <3>2, <3>4, <3>5, Untouched, TypePartsNext
    <2>4. ASSUME NEW d \in Devices, Update(d) PROVE TypeOK'
      <3>1. owed' \in [Devices -> SUBSET Functions] /\ faults' \in 0 .. MaxFaults
        BY <2>0, <2>4, SendTypes DEF Update, send, LineOK, Functions
      <3>2. BalancersOK' /\ LineOK'
        BY <2>0, <2>4, <3>1 DEF Update, BalancersOK, LineOK
      <3>3. TrackedOK'
        BY <2>0, <2>4, TrackTypes DEF Update
      <3>4. UNCHANGED <<receiver, switch_state, writes>>
        BY <2>4 DEF Update
      <3>5. QED
        BY <2>0, <3>2, <3>3, <3>4, Untouched, TypePartsNext
    <2>5. ASSUME NEW d \in Devices, NEW state \in BOOLEAN, WriteState(d, state)
          PROVE  TypeOK'
      <3>1. owed' \in [Devices -> SUBSET Functions] /\ faults' \in 0 .. MaxFaults
        BY <2>0, <2>5, SendTypes DEF WriteState, LineOK, Functions
      <3>2. BalancersOK' /\ LineOK'
        BY <2>0, <2>5, <3>1 DEF WriteState, BalancersOK, LineOK
      <3>3. writes' \in 0 .. MaxWrites
        BY <2>0, <2>5, WritesAssumption, SMT DEF WriteState, SwitchesOK
      <3>4. SwitchesOK'
        BY <2>0, <2>5, <3>3 DEF WriteState, SwitchesOK
      <3>5. UNCHANGED <<receiver, tracked>>
        BY <2>5 DEF WriteState
      <3>6. QED
        BY <2>0, <3>2, <3>4, <3>5, Untouched, TypePartsNext
    <2>6. ASSUME NEW d \in Devices, NEW function \in Functions, Answer(d, function)
          PROVE  TypeOK'
      <3>1. [device |-> d, function |-> function, value |-> setting[d]] \in Messages
        BY <2>0 DEF BalancersOK, Messages
      <3>2. 0 \in 0 .. FrameSize
        BY BusAssumption, SMT
      <3>3. BalancersOK'
        BY <2>0, <2>6, <3>1, <3>2 DEF Answer, BeginAnswer, BalancersOK
      <3>4. LineOK'
        BY <2>0, <2>6 DEF Answer, BeginAnswer, LineOK
      <3>5. UNCHANGED <<receiver, tracked, switch_state, writes>>
        BY <2>6 DEF Answer, BeginAnswer, drivers
      <3>6. QED
        BY <2>0, <3>3, <3>4, <3>5, Untouched, TypePartsNext
    <2>7. ASSUME NEW d \in Devices, Transmit(d) PROVE TypeOK'
      <3>1. answer[d] \in Messages /\ sent[d] + 1 \in 1 .. FrameSize
        BY <2>0, <2>7, BusAssumption, SMT
        DEF Transmit, ByteArrives, ByteLost, Underway, BalancersOK
      <3>2. sent[d] + 1 \in 0 .. FrameSize
        BY <3>1, BusAssumption, SMT
      <3>3. BalancersOK'
        BY <2>0, <2>7, <3>2 DEF Transmit, ByteArrives, ByteLost, BalancersOK
      <3>4. LineOK'
        <4>1. CASE ByteArrives(d)
          <5>1. Byte(answer[d], sent[d] + 1) \in Bytes
            BY <3>1 DEF Byte, Bytes
          <5>2. fifo' \in Seq(Bytes) /\ Len(fifo') = Len(fifo) + 1 /\ Len(fifo) \in Nat
            BY <2>0, <4>1, <5>1, AppendProperties, LenProperties DEF ByteArrives, LineOK
          <5>3. Len(fifo') <= FifoSize
            BY <4>1, <5>2, BusAssumption, SMT DEF ByteArrives
          <5>4. QED
            BY <2>0, <4>1, <5>2, <5>3 DEF ByteArrives, LineOK
        <4>2. CASE ByteLost(d)
          <5>1. faults' \in 0 .. MaxFaults
            BY <2>0, <4>2, FaultTypes DEF ByteLost, LineOK
          <5>2. QED
            BY <2>0, <4>2, <5>1 DEF ByteLost, LineOK
        <4>3. QED
          BY <2>7, <4>1, <4>2 DEF Transmit
      <3>5. UNCHANGED <<receiver, tracked, switch_state, writes>>
        BY <2>7 DEF Transmit, ByteArrives, ByteLost, drivers
      <3>6. QED
        BY <2>0, <3>3, <3>4, <3>5, Untouched, TypePartsNext
    <2>8. CASE UNCHANGED vars
      <3>1. UNCHANGED <<balancers, line, receiver, tracked, switch_state, writes>>
        BY <2>8 DEF vars, bus, drivers
      <3>2. QED
        BY <2>0, <3>1, Untouched, TypePartsNext
    <2>9. QED
      BY <2>1, <2>2, <2>3, <2>4, <2>5, <2>6, <2>7, <2>8 DEF Next
  <1>3. QED
    BY <1>1, <1>2, PTL DEF Spec

-----------------------------------------------------------------------------
(***************************************************************************)
(* The online status.                                                      *)
(***************************************************************************)
(* What a delivered frame does to the status of its driver d.              *)
DecodeStep(d) ==
  /\ reset_online_status_tracker_(d)
  /\ \/ telemetry' = [telemetry EXCEPT ![d] = "live"]
     \/ UNCHANGED telemetry

(* A step touches the status of one driver at most: by its own poll or by  *)
(* a frame with its address, never by those of the others.                 *)
LEMMA StatusSteps ==
  ASSUME [Next]_vars
  PROVE  UNCHANGED tracked \/ \E d \in Devices : track_online_status_(d) \/ DecodeStep(d)
  <1>1. CASE Deliver
    BY <1>1
    DEF Deliver, Addressed, on_jk_balancer_modbus_data, on_status_data_, DecodeStep
  <1>2. CASE EnterLoop \/ Parse \/ Tick \/ UNCHANGED vars
    BY <1>2 DEF EnterLoop, Parse, Tick, drivers, vars
  <1>3. ASSUME NEW d \in Devices, Update(d)
        PROVE  track_online_status_(d)
    BY <1>3 DEF Update
  <1>4. ASSUME NEW d \in Devices, NEW state \in BOOLEAN, WriteState(d, state)
        PROVE  UNCHANGED tracked
    BY <1>4 DEF WriteState
  <1>5. ASSUME NEW d \in Devices, NEW function \in Functions, Answer(d, function)
        PROVE  UNCHANGED tracked
    BY <1>5 DEF Answer, drivers
  <1>6. ASSUME NEW d \in Devices, Transmit(d) PROVE UNCHANGED tracked
    BY <1>6 DEF Transmit, drivers
  <1>7. QED
    BY <1>1, <1>2, <1>3, <1>4, <1>5, <1>6 DEF Next

(* A poll and a frame of one driver, as the others see them.               *)
LEMMA OthersRest ==
  ASSUME TrackedOK, NEW d \in Devices, NEW other \in Devices \ {d},
         track_online_status_(d) \/ DecodeStep(d)
  PROVE  /\ no_response_count_'[other] = no_response_count_[other]
         /\ online'[other] = online[other]
         /\ telemetry'[other] = telemetry[other]
  BY DEF TrackedOK, track_online_status_, publish_device_unavailable_, DecodeStep,
         reset_online_status_tracker_

(* Every driver implements the availability contract, whatever the other   *)
(* drivers and balancers on its line do.                                   *)
THEOREM RefinesAvailability == Spec => KeepsAvailabilityContract
  <1> DEFINE Silence(n) == IF n > MaxNoResponse THEN MaxNoResponse ELSE n
             Contract == \A d \in Devices : A(d)!Next \/ UNCHANGED A(d)!vars
  <1>1. Init => \A d \in Devices : A(d)!Init
    BY MaxNoResponseAssumption, SMT DEF Init, A!Init
  <1>2. TypeOK /\ [Next]_vars => [Contract]_vars
    <2> SUFFICES ASSUME TypeOK, [Next]_vars, NEW me \in Devices
                 PROVE  A(me)!Next \/ UNCHANGED A(me)!vars
      OBVIOUS
    <2>0. TrackedOK /\ no_response_count_[me] \in RestingCounts
      BY TypeParts DEF TrackedOK
    <2>1. CASE UNCHANGED tracked
      BY <2>1 DEF tracked, A!vars
    <2>2. ASSUME NEW d \in Devices \ {me}, track_online_status_(d) \/ DecodeStep(d)
          PROVE  UNCHANGED A(me)!vars
      BY <2>0, <2>2, OthersRest DEF A!vars
    <2>3. CASE track_online_status_(me) /\ Expires(no_response_count_[me])
      <3>1. /\ no_response_count_[me] = MaxNoResponse - 1
            /\ no_response_count_'[me] = MaxNoResponse + 1
        BY <2>0, <2>3, TrackedRests DEF track_online_status_, TrackedOK
      <3>2. Silence(no_response_count_[me]) = MaxNoResponse - 1
            /\ Silence(no_response_count_'[me]) = MaxNoResponse
        BY <3>1, MaxNoResponseAssumption, SMT
      <3>3. online'[me] = "offline" /\ telemetry'[me] = "invalid"
        BY <2>0, <2>3 DEF track_online_status_, publish_device_unavailable_, TrackedOK
      <3>4. A(me)!DeclaredOffline
        BY <3>2, <3>3 DEF A!DeclaredOffline
      <3>5. QED
        BY <3>4 DEF A!Next, A!Poll
    <2>4. CASE track_online_status_(me) /\ ~Expires(no_response_count_[me])
      <3>1. /\ UNCHANGED <<online, telemetry>>
            /\ no_response_count_'[me] = Tracked(no_response_count_[me])
        BY <2>0, <2>4 DEF track_online_status_, TrackedOK
      <3>2. CASE no_response_count_[me] < MaxNoResponse - 1
        <4>1. no_response_count_'[me] = no_response_count_[me] + 1
          BY <2>0, <3>1, <3>2, TrackedRests
        <4>2. /\ Silence(no_response_count_[me]) = no_response_count_[me]
              /\ Silence(no_response_count_'[me]) = no_response_count_[me] + 1
          BY <2>0, <3>2, <4>1, MaxNoResponseAssumption, SMT DEF RestingCounts
        <4>3. A(me)!UnansweredPoll
          BY <3>1, <3>2, <4>2 DEF A!UnansweredPoll
        <4>4. QED
          BY <4>3 DEF A!Next, A!Poll
      <3>3. CASE no_response_count_[me] > MaxNoResponse
        <4>1. no_response_count_'[me] = no_response_count_[me]
          BY <2>0, <3>1, <3>3, TrackedRests
        <4>2. QED
          BY <3>1, <4>1 DEF A!vars
      <3>4. QED
        BY <2>0, <2>4, <3>2, <3>3, TrackedRests, MaxNoResponseAssumption, SMT
        DEF RestingCounts
    <2>5. CASE DecodeStep(me)
      <3>1. /\ no_response_count_'[me] = 0 /\ online'[me] = "online"
            /\ telemetry'[me] \in {telemetry[me], "live"}
        BY <2>0, <2>5 DEF DecodeStep, reset_online_status_tracker_, TrackedOK
      <3>2. Silence(no_response_count_'[me]) = 0
        BY <3>1, MaxNoResponseAssumption, SMT
      <3>3. A(me)!FrameArrives
        BY <3>1, <3>2 DEF A!FrameArrives
      <3>4. QED
        BY <3>3 DEF A!Next
    <2>6. QED
      BY <2>1, <2>2, <2>3, <2>4, <2>5, StatusSteps
  <1>3. QED
    BY <1>1, <1>2, TypeCorrect, PTL DEF Spec, KeepsAvailabilityContract

-----------------------------------------------------------------------------
(***************************************************************************)
(* The reassembly.                                                         *)
(***************************************************************************)
(* Byte by byte: s holds the bytes of the message behind the first n.      *)
Follows(s, message, n) == \A i \in 1 .. Len(s) : s[i] = Byte(message, n + i)

(* The buffer and then the UART hold the bytes that left the balancer, and *)
(* no others.                                                              *)
InStep(d) ==
  /\ Len(rx_buffer_) + Len(fifo) = sent[d]
  /\ Follows(rx_buffer_, answer[d], 0) /\ Follows(fifo, answer[d], Len(rx_buffer_))

(* The three states of an answer that nothing disturbed: in step, about to *)
(* have the buffer cleared, delivered.                                     *)
FitStep(d) ==
  \/ InStep(d)
  \/ TimeoutPending /\ Len(fifo) = sent[d] /\ Follows(fifo, answer[d], 0)
  \/ ~Underway(d) /\ rx_buffer_ = << >> /\ fifo = << >>

(* And it has the line for itself.                                         *)
Alone(d) == \A other \in Devices \ {d} : ~Underway(other)

FitInv == \A d \in fit : answer[d] \in Messages /\ Alone(d) /\ FitStep(d)

(* What TypeOK says of one balancer, and of the sequences.                 *)
LEMMA TypesOf ==
  ASSUME TypeOK, NEW d \in Devices
  PROVE  /\ answer[d] \in Messages \cup {NoMessage}
         /\ sent[d] \in Nat /\ sent[d] <= FrameSize
         /\ rx_buffer_ \in Seq(Bytes) /\ fifo \in Seq(Bytes)
         /\ Len(rx_buffer_) \in Nat /\ Len(fifo) \in Nat
  <1>1. sent[d] \in 0 .. FrameSize /\ answer[d] \in Messages \cup {NoMessage}
        /\ rx_buffer_ \in Seq(Bytes) /\ fifo \in Seq(Bytes)
    BY DEF TypeOK
  <1>2. sent[d] \in Nat /\ sent[d] <= FrameSize
    BY <1>1, BusAssumption, SMT
  <1>3. QED
    BY <1>1, <1>2, LenProperties

LEMMA PrefixProperties ==
  ASSUME NEW f \in Messages, NEW n \in Nat, n <= FrameSize
  PROVE  /\ Prefix(f, n) \in Seq(Bytes) /\ Len(Prefix(f, n)) = n
         /\ \A i \in 1 .. n : Prefix(f, n)[i] = Byte(f, i)
  <1>1. \A i \in 1 .. n : i \in 1 .. FrameSize
    BY BusAssumption, SMT
  <1>2. \A i \in 1 .. n : Byte(f, i) \in Bytes
    BY <1>1 DEF Byte, Bytes
  <1>3. Prefix(f, n) \in [1 .. n -> Bytes]
    BY <1>2 DEF Prefix
  <1>4. Prefix(f, n) \in Seq(Bytes)
    BY <1>3, SeqDef
  <1>5. DOMAIN Prefix(f, n) = 1 .. n
    BY <1>3
  <1>6. Len(Prefix(f, n)) \in Nat /\ DOMAIN Prefix(f, n) = 1 .. Len(Prefix(f, n))
    BY <1>4, LenProperties
  <1>7. Len(Prefix(f, n)) = n
    BY <1>5, <1>6, SMT
  <1>8. QED
    BY <1>4, <1>7 DEF Prefix

(* Two sequences that follow one another are a prefix of the message.      *)
LEMMA JoinedPrefix ==
  ASSUME NEW s \in Seq(Bytes), NEW t \in Seq(Bytes), NEW n \in Nat, n <= FrameSize,
         NEW f \in Messages, Len(s) + Len(t) = n, Follows(s, f, 0), Follows(t, f, Len(s))
  PROVE  s \o t = Prefix(f, n)
  <1> DEFINE whole == Prefix(f, n)
  <1>1. /\ s \o t \in Seq(Bytes) /\ Len(s \o t) = n
        /\ \A i \in 1 .. n : (s \o t)[i] = IF i <= Len(s) THEN s[i] ELSE t[i - Len(s)]
    BY ConcatProperties
  <1>2. /\ whole \in Seq(Bytes) /\ Len(whole) = n
        /\ \A i \in 1 .. n : whole[i] = Byte(f, i)
    BY PrefixProperties
  <1>3. Len(s) \in Nat /\ Len(t) \in Nat
    BY LenProperties
  <1> HIDE DEF whole
  <1>4. ASSUME NEW i \in 1 .. n PROVE (s \o t)[i] = whole[i]
    <2>1. CASE i <= Len(s)
      <3>1. i \in 1 .. Len(s) /\ 0 + i = i
        BY <1>3, <2>1, SMT
      <3>2. s[i] = Byte(f, i)
        BY <3>1 DEF Follows
      <3>3. QED
        BY <1>1, <1>2, <2>1, <3>2
    <2>2. CASE ~(i <= Len(s))
      <3>1. i - Len(s) \in 1 .. Len(t) /\ Len(s) + (i - Len(s)) = i
        BY <1>3, <2>2, SMT
      <3>2. t[i - Len(s)] = Byte(f, i)
        BY <3>1 DEF Follows
      <3>3. QED
        BY <1>1, <1>2, <2>2, <3>2
    <2>3. QED
      BY <2>1, <2>2
  <1>5. s \o t = whole
    BY <1>1, <1>2, <1>4, SeqEqual
  <1>6. QED
    BY <1>5 DEF whole

(* A byte that moves from the UART to the buffer keeps them in step, and   *)
(* makes the buffer a prefix of the message.                               *)
LEMMA MovedByte ==
  ASSUME TypeOK, NEW d \in Devices, answer[d] \in Messages, InStep(d), fifo # << >>,
         NEW buf, buf = Parsed
  PROVE  /\ Len(buf) \in Nat \ {0} /\ Len(buf) <= sent[d]
         /\ Len(buf) + Len(Tail(fifo)) = sent[d]
         /\ Follows(buf, answer[d], 0) /\ Follows(Tail(fifo), answer[d], Len(buf))
         /\ Head(fifo) = Byte(answer[d], Len(buf))
         /\ buf[1] = Byte(answer[d], 1)
         /\ buf = Prefix(answer[d], Len(buf))
  <1> DEFINE f == answer[d]
  <1>0. /\ sent[d] \in Nat /\ sent[d] <= FrameSize
        /\ rx_buffer_ \in Seq(Bytes) /\ fifo \in Seq(Bytes)
        /\ Len(rx_buffer_) \in Nat /\ Len(fifo) \in Nat
    BY TypesOf
  <1>1. /\ Head(fifo) \in Bytes /\ Tail(fifo) \in Seq(Bytes)
        /\ Len(Tail(fifo)) = Len(fifo) - 1
        /\ \A i \in 1 .. Len(Tail(fifo)) : Tail(fifo)[i] = fifo[i + 1]
    BY <1>0, HeadTailProperties
  <1>2. /\ buf \in Seq(Bytes) /\ Len(buf) = Len(rx_buffer_) + 1
        /\ \A i \in 1 .. Len(rx_buffer_) : buf[i] = rx_buffer_[i]
        /\ buf[Len(rx_buffer_) + 1] = Head(fifo)
    BY <1>0, <1>1, AppendProperties DEF Parsed
  <1>3. Len(fifo) > 0 /\ Len(buf) \in Nat \ {0}
    <2>1. Len(Tail(fifo)) \in Nat
      BY <1>1, LenProperties
    <2>2. QED
      BY <1>0, <1>1, <1>2, <2>1, SMT
  <1>4. /\ Len(rx_buffer_) + Len(fifo) = sent[d]
        /\ \A i \in 1 .. Len(rx_buffer_) : rx_buffer_[i] = Byte(f, 0 + i)
        /\ \A i \in 1 .. Len(fifo) : fifo[i] = Byte(f, Len(rx_buffer_) + i)
    BY DEF InStep, Follows
  <1> HIDE DEF f
  <1>5. Len(buf) <= sent[d] /\ Len(buf) + Len(Tail(fifo)) = sent[d]
    <2>1. \A m, n, k \in Nat : m + n = k /\ n > 0 => m + 1 <= k /\ m + 1 + (n - 1) = k
      BY SMT
    <2>2. QED
      BY <1>0, <1>1, <1>2, <1>3, <1>4, <2>1
  <1>6. Head(fifo) = Byte(f, Len(buf))
    <2>1. 1 \in 1 .. Len(fifo)
      BY <1>0, <1>3, SMT
    <2>2. Head(fifo) = fifo[1]
      BY <1>0, <2>1
    <2>3. QED
      BY <1>2, <1>4, <2>1, <2>2
  <1>7. Follows(buf, f, 0)
    <2> SUFFICES ASSUME NEW i \in 1 .. Len(buf) PROVE buf[i] = Byte(f, 0 + i)
      BY DEF Follows
    <2>1. CASE i = Len(buf)
      <3>1. 0 + i = Len(buf) /\ i = Len(rx_buffer_) + 1
        BY <1>0, <1>2, <2>1, SMT
      <3>2. QED
        BY <1>2, <1>6, <3>1
    <2>2. CASE i # Len(buf)
      <3>1. i \in 1 .. Len(rx_buffer_)
        BY <1>0, <1>2, <2>2, SMT
      <3>2. QED
        BY <1>2, <1>4, <3>1
    <2>3. QED
      BY <2>1, <2>2
  <1>8. Follows(Tail(fifo), f, Len(buf))
    <2> SUFFICES ASSUME NEW i \in 1 .. Len(Tail(fifo))
                 PROVE  Tail(fifo)[i] = Byte(f, Len(buf) + i)
      BY DEF Follows
    <2>1. i + 1 \in 1 .. Len(fifo) /\ Len(rx_buffer_) + (i + 1) = Len(buf) + i
      BY <1>0, <1>1, <1>2, SMT
    <2>2. QED
      BY <1>1, <1>4, <2>1
  <1>9. buf[1] = Byte(f, 1)
    <2>1. 1 \in 1 .. Len(buf) /\ 0 + 1 = 1
      BY <1>3, SMT
    <2>2. QED
      BY <1>7, <2>1 DEF Follows
  <1>10. buf = Prefix(f, Len(buf))
    <2>1. << >> \in Seq(Bytes) /\ Len(<< >>) = 0
      BY EmptySeq
    <2>2. Follows(<< >>, f, Len(buf))
      BY <2>1, SMT DEF Follows
    <2>3. Len(buf) + Len(<< >>) = Len(buf) /\ Len(buf) \in Nat /\ Len(buf) <= FrameSize
      BY <1>0, <1>3, <1>5, <2>1, BusAssumption, SMT
    <2>4. f \in Messages
      BY DEF f
    <2>5. buf \o << >> = Prefix(f, Len(buf))
      BY <1>2, <1>7, <2>1, <2>2, <2>3, <2>4, JoinedPrefix
    <2>6. buf \o << >> = buf
      BY <1>2, ConcatEmptySeq
    <2>7. QED
      BY <2>5, <2>6
  <1>11. QED
    BY <1>3, <1>5, <1>6, <1>7, <1>8, <1>9, <1>10 DEF f

(* In step, a buffer as long as a frame is the frame.                      *)
LEMMA WholeInStep ==
  ASSUME TypeOK, NEW d \in Devices, answer[d] \in Messages, InStep(d), fifo # << >>,
         NEW buf, buf = Parsed, Complete(buf)
  PROVE  Genuine(buf) /\ Len(buf) = sent[d] /\ ~Underway(d) /\ buf[1].message = answer[d]
  <1>1. /\ Len(buf) \in Nat \ {0} /\ Len(buf) <= sent[d]
        /\ sent[d] \in Nat /\ sent[d] <= FrameSize
        /\ buf[1] = Byte(answer[d], 1) /\ buf = Prefix(answer[d], Len(buf))
    BY MovedByte, TypesOf
  <1>2. Len(buf) = FrameSize /\ sent[d] = FrameSize
    BY <1>1, BusAssumption, SMT DEF Complete
  <1>3. buf[1].message = answer[d]
    BY <1>1 DEF Byte
  <1>4. Genuine(buf)
    BY <1>1, <1>2, <1>3 DEF Genuine
  <1>5. ~Underway(d)
    BY <1>2, BusAssumption, SMT DEF Underway
  <1>6. QED
    BY <1>2, <1>3, <1>4, <1>5

(* So the parser neither resets nor takes other bytes for a frame: it      *)
(* keeps the byte, or has the whole frame.                                 *)
LEMMA NoResetInStep ==
  ASSUME TypeOK, NEW d \in Devices, answer[d] \in Messages, InStep(d), fifo # << >>,
         Resets(Parsed, Head(fifo))
  PROVE  FALSE
  <1> DEFINE buf == Parsed
  <1>1. Head(fifo) = Byte(answer[d], Len(buf)) /\ (Complete(buf) => Genuine(buf))
    BY MovedByte, WholeInStep
  <1> HIDE DEF buf
  <1>2. IsStart(Head(fifo), Len(buf))
    BY <1>1 DEF Byte, IsStart
  <1>3. ~Resets(buf, Head(fifo))
    BY <1>1, <1>2, Zenon DEF Resets
  <1>4. QED
    BY <1>3 DEF buf

LEMMA DeliveredInStep ==
  ASSUME TypeOK, NEW d \in Devices, answer[d] \in Messages, InStep(d), fifo # << >>,
         NEW message, DeliverFrame(message)
  PROVE  Len(Parsed) = sent[d] /\ ~Underway(d) /\ message = answer[d]
  <1> DEFINE buf == Parsed
  <1>1. Delivers(buf, message) /\ Complete(buf)
    BY DEF DeliverFrame, Delivers
  <1>2. Genuine(buf) /\ Len(buf) = sent[d] /\ ~Underway(d) /\ buf[1].message = answer[d]
    BY <1>1, WholeInStep
  <1> HIDE DEF buf
  <1>3. message = answer[d]
    BY <1>1, <1>2, Zenon DEF Delivers
  <1>4. QED
    BY <1>2, <1>3 DEF buf

(* The line: a byte that arrives of an undisturbed answer is the next one. *)
LEMMA ArrivalInStep ==
  ASSUME TypeOK, FitInv, NEW sender \in Devices, ByteArrives(sender) PROVE FitInv'
  <1>1. /\ Underway(sender) /\ UNCHANGED <<answer, fit, rx_buffer_, age, reading>>
        /\ sent' = [sent EXCEPT ![sender] = @ + 1]
        /\ fifo' = Append(fifo, Byte(answer[sender], sent[sender] + 1))
    BY DEF ByteArrives, receiver
  <1> SUFFICES ASSUME NEW d \in fit
               PROVE  answer[d] \in Messages /\ Alone(d)' /\ FitStep(d)'
    BY <1>1 DEF FitInv
  <1>2. d \in Devices /\ answer[d] \in Messages /\ Alone(d) /\ FitStep(d)
    BY DEF FitInv, TypeOK
  <1>3. sender = d
    BY <1>1, <1>2 DEF Alone
  <1>4. sent'[d] = sent[d] + 1 /\ \A other \in Devices \ {d} : sent'[other] = sent[other]
    BY <1>1, <1>2, <1>3 DEF TypeOK
  <1>5. Alone(d)'
    BY <1>1, <1>2, <1>4 DEF Alone, Underway
  <1>6. /\ sent[d] \in Nat /\ sent[d] < FrameSize /\ fifo \in Seq(Bytes)
        /\ Len(rx_buffer_) \in Nat /\ Len(fifo) \in Nat
    BY <1>1, <1>2, <1>3, TypesOf DEF Underway
  <1>7. /\ Len(fifo') = Len(fifo) + 1
        /\ \A i \in 1 .. Len(fifo) : fifo'[i] = fifo[i]
        /\ fifo'[Len(fifo) + 1] = Byte(answer[d], sent[d] + 1)
    <2> DEFINE next == Byte(answer[d], sent[d] + 1)
    <2>1. sent[d] + 1 \in 1 .. FrameSize
      BY <1>6, BusAssumption, SMT
    <2>2. next \in Bytes
      BY <1>2, <2>1 DEF Byte, Bytes
    <2>3. fifo' = Append(fifo, next)
      BY <1>1, <1>3
    <2> HIDE DEF next
    <2>4. /\ Len(fifo') = Len(fifo) + 1
          /\ \A i \in 1 .. Len(fifo) : fifo'[i] = fifo[i]
          /\ fifo'[Len(fifo) + 1] = next
      BY <1>6, <2>2, <2>3, AppendProperties
    <2>5. QED
      BY <2>4 DEF next
  <1>8. ASSUME NEW n \in Nat, n + Len(fifo) = sent[d], Follows(fifo, answer[d], n)
        PROVE  n + Len(fifo') = sent'[d] /\ Follows(fifo', answer[d], n)
    <2>1. n + Len(fifo') = sent'[d] /\ n + (Len(fifo) + 1) = sent[d] + 1
      BY <1>4, <1>6, <1>7, <1>8, SMT
    <2>2. ASSUME NEW i \in 1 .. Len(fifo') PROVE fifo'[i] = Byte(answer[d], n + i)
      <3>1. CASE i = Len(fifo) + 1
        BY <1>7, <2>1, <3>1
      <3>2. CASE i # Len(fifo) + 1
        <4>1. i \in 1 .. Len(fifo)
          BY <1>6, <1>7, <3>2, SMT
        <4>2. QED
          BY <1>7, <1>8, <4>1 DEF Follows
      <3>3. QED
        BY <3>1, <3>2
    <2>3. QED
      BY <2>1, <2>2 DEF Follows
  <1>9. ASSUME InStep(d) PROVE FitStep(d)'
    <2>1. Len(rx_buffer_) + Len(fifo') = sent'[d] /\ Follows(fifo', answer[d], Len(rx_buffer_))
      BY <1>6, <1>8, <1>9 DEF InStep
    <2>2. QED
      BY <1>1, <1>9, <2>1 DEF InStep, FitStep
  <1>10. ASSUME TimeoutPending, Len(fifo) = sent[d], Follows(fifo, answer[d], 0)
         PROVE  FitStep(d)'
    <2>1. 0 + Len(fifo) = sent[d] /\ 0 + Len(fifo') = Len(fifo')
      BY <1>6, <1>7, <1>10, SMT
    <2>2. Len(fifo') = sent'[d] /\ Follows(fifo', answer[d], 0)
      BY <1>8, <1>10, <2>1
    <2>3. TimeoutPending'
      BY <1>1, <1>10 DEF TimeoutPending
    <2>4. QED
      BY <1>1, <2>2, <2>3 DEF FitStep
  <1>11. QED
    BY <1>1, <1>2, <1>3, <1>5, <1>9, <1>10 DEF FitStep

LEMMA LengthZero ==
  ASSUME NEW s \in Seq(Bytes), Len(s) = 0 PROVE s = << >>
  BY EmptySeq

(* The parser: a byte it takes stays in step, or was the last one.         *)
LEMMA ParseInStep ==
  ASSUME TypeOK, FitInv, Parse \/ Deliver PROVE FitInv'
  <1>1. ReadByte
    BY DEF Parse, Deliver, KeepByte, DropBytes, DeliverFrame
  <1>2. /\ reading /\ fifo # << >> /\ fifo' = Tail(fifo)
        /\ UNCHANGED <<answer, sent, fit>>
    BY <1>1 DEF ReadByte, balancers
  <1> SUFFICES ASSUME NEW d \in fit PROVE FitStep(d)'
    BY <1>2 DEF FitInv, Alone, Underway
  <1>3. d \in Devices /\ answer[d] \in Messages /\ InStep(d)
    BY <1>2 DEF FitInv, FitStep, TimeoutPending, TypeOK
  <1>4. /\ Len(Parsed) + Len(Tail(fifo)) = sent[d]
        /\ Follows(Parsed, answer[d], 0) /\ Follows(Tail(fifo), answer[d], Len(Parsed))
    BY <1>2, <1>3, MovedByte
  <1>5. CASE KeepByte
    <2>1. rx_buffer_' = Parsed
      BY <1>5 DEF KeepByte
    <2>2. InStep(d)'
      BY <1>2, <1>4, <2>1 DEF InStep
    <2>3. QED
      BY <2>2 DEF FitStep
  <1>6. CASE DropBytes
    <2>1. Resets(Parsed, Head(fifo))
      BY <1>6 DEF DropBytes
    <2>2. QED
      BY <1>2, <1>3, <2>1, NoResetInStep
  <1>7. CASE Deliver
    <2>1. PICK message : DeliverFrame(message)
      BY <1>7 DEF Deliver
    <2>2. Len(Parsed) = sent[d] /\ ~Underway(d)
      BY <1>2, <1>3, <2>1, DeliveredInStep
    <2>3. rx_buffer_' = << >>
      BY <2>1 DEF DeliverFrame, Clear
    <2>4. fifo' = << >>
      <3>1. sent[d] \in Nat /\ Tail(fifo) \in Seq(Bytes)
        BY <1>2, <1>3, TypesOf, HeadTailProperties
      <3>2. Len(Tail(fifo)) \in Nat
        BY <3>1, LenProperties
      <3>3. sent[d] + Len(Tail(fifo)) = sent[d]
        BY <1>4, <2>2
      <3>4. Len(Tail(fifo)) = 0
        <4>1. \A m, n \in Nat : m + n = m => n = 0
          BY SMT
        <4>2. QED
          BY <3>1, <3>2, <3>3, <4>1, Zenon
      <3>5. Tail(fifo) = << >>
        BY <3>1, <3>4, LengthZero, Zenon
      <3>6. QED
        BY <1>2, <3>5
    <2>5. ~Underway(d)'
      BY <1>2, <2>2 DEF Underway
    <2>6. QED
      BY <2>3, <2>4, <2>5 DEF FitStep
  <1>8. QED
    BY <1>5, <1>6, <1>7 DEF Parse

(* loop(): a timeout clears the buffer only of what came before the answer. *)
LEMMA LoopInStep ==
  ASSUME TypeOK, FitInv, BeginLoop PROVE FitInv'
  <1>1. /\ UNCHANGED <<answer, sent, fifo>> /\ ~reading
        /\ \/ TimedOut /\ Clear
           \/ ~TimedOut /\ UNCHANGED <<rx_buffer_, age>>
    BY Zenon DEF BeginLoop, balancers
  <1>2. ASSUME NEW d \in fit' PROVE d \in fit /\ (TimedOut => Len(fifo) = sent[d])
    BY <1>2, Zenon DEF BeginLoop, TimedOut
  <1> SUFFICES ASSUME NEW d \in fit, TimedOut => Len(fifo) = sent[d] PROVE FitStep(d)'
    BY <1>1, <1>2 DEF FitInv, Alone, Underway
  <1>3. answer[d] \in Messages /\ FitStep(d) /\ d \in Devices
    BY DEF FitInv, TypeOK
  <1>4. Len(rx_buffer_) \in Nat /\ Len(fifo) \in Nat
    BY <1>3, TypesOf
  <1>5. Underway(d)' = Underway(d)
    BY <1>1 DEF Underway
  <1>6. CASE TimedOut
    <2>1. rx_buffer_' = << >> /\ Len(fifo) = sent[d]
      BY <1>1, <1>6 DEF Clear
    <2>2. Len(rx_buffer_') = 0
      BY <2>1, EmptySeq
    <2>3. ASSUME Follows(fifo, answer[d], 0) PROVE InStep(d)'
      <3>1. Len(rx_buffer_') + Len(fifo) = sent[d]
        BY <1>4, <2>1, <2>2, SMT
      <3>2. Follows(rx_buffer_', answer[d], 0)
        BY <2>2, SMT DEF Follows
      <3>3. Follows(fifo, answer[d], Len(rx_buffer_'))
        BY <2>2, <2>3
      <3>4. QED
        BY <1>1, <3>1, <3>2, <3>3 DEF InStep
    <2>4. CASE InStep(d)
      <3>1. Len(rx_buffer_) = 0
        BY <1>4, <2>1, <2>4, SMT DEF InStep
      <3>2. QED
        BY <2>3, <2>4, <3>1 DEF InStep, FitStep
    <2>5. CASE TimeoutPending /\ Len(fifo) = sent[d] /\ Follows(fifo, answer[d], 0)
      BY <2>3, <2>5 DEF FitStep
    <2>6. CASE ~Underway(d) /\ rx_buffer_ = << >> /\ fifo = << >>
      BY <1>1, <1>5, <2>1, <2>6 DEF FitStep
    <2>7. QED
      BY <1>3, <2>4, <2>5, <2>6 DEF FitStep
  <1>7. CASE ~TimedOut
    <2>1. UNCHANGED rx_buffer_
      BY <1>1, <1>7
    <2>2. CASE InStep(d)
      BY <1>1, <2>1, <2>2 DEF InStep, FitStep
    <2>3. CASE ~Underway(d) /\ rx_buffer_ = << >> /\ fifo = << >>
      BY <1>1, <1>5, <2>1, <2>3 DEF FitStep
    <2>4. ~TimeoutPending
      BY <1>7 DEF TimeoutPending, TimedOut
    <2>5. QED
      BY <1>3, <2>2, <2>3, <2>4 DEF FitStep
  <1>8. QED
    BY <1>6, <1>7

(* A balancer that begins to answer after a silence finds the timeout      *)
(* pending, and the line for itself.                                       *)
LEMMA BeginInStep ==
  ASSUME TypeOK, NEW d \in Devices, NEW function \in Functions, BeginAnswer(d, function)
  PROVE  FitInv'
  <1>1. /\ answer' = [answer EXCEPT ![d] =
                        [device |-> d, function |-> function, value |-> setting[d]]]
        /\ sent' = [sent EXCEPT ![d] = 0]
        /\ fit' = IF Quiet THEN {d} ELSE {}
        /\ UNCHANGED <<fifo, age, reading>>
    BY Zenon DEF BeginAnswer, receiver
  <1>2. answer'[d] \in Messages /\ sent'[d] = 0
        /\ \A other \in Devices \ {d} : answer'[other] = answer[other] /\ sent'[other] = sent[other]
    BY <1>1 DEF Messages, TypeOK
  <1> SUFFICES ASSUME Quiet PROVE Alone(d)' /\ FitStep(d)'
    BY <1>1, <1>2 DEF FitInv
  <1>3. Alone(d)'
    BY <1>2 DEF Quiet, Alone, Underway
  <1>4. Len(fifo') = 0
    BY <1>1, EmptySeq DEF Quiet
  <1>5. Follows(fifo', answer'[d], 0)
    BY <1>4, SMT DEF Follows
  <1>6. TimeoutPending'
    BY <1>1 DEF Quiet, TimeoutPending
  <1>7. QED
    BY <1>2, <1>3, <1>4, <1>5, <1>6 DEF FitStep

(* Polls, writes and the clock leave the answers and the buffer alone.     *)
LEMMA RestInStep ==
  ASSUME FitInv, UNCHANGED <<answer, sent, fit, fifo, rx_buffer_>>,
         TimeoutPending => TimeoutPending'
  PROVE  FitInv'
  <1> SUFFICES ASSUME NEW d \in fit PROVE FitStep(d)'
    BY DEF FitInv, Alone, Underway
  <1>1. Underway(d)' = Underway(d) /\ (InStep(d) => InStep(d)')
        /\ (Follows(fifo, answer[d], 0) => Follows(fifo, answer[d], 0)')
    BY DEF Underway, InStep
  <1>2. QED
    BY <1>1 DEF FitInv, FitStep

(* So the three states are all an answer can be in while nothing disturbs  *)
(* it.                                                                     *)
LEMMA FitInvariant == Spec => []FitInv
  <1>1. Init => FitInv
    BY DEF Init, BusInit, FitInv
  <1>2. TypeOK /\ FitInv /\ [Next]_vars => FitInv'
    <2> SUFFICES ASSUME TypeOK, FitInv, [Next]_vars PROVE FitInv'
      OBVIOUS
    <2>1. CASE EnterLoop
      BY <2>1, LoopInStep DEF EnterLoop
    <2>2. CASE Parse \/ Deliver
      BY <2>2, ParseInStep
    <2>3. ASSUME NEW d \in Devices, Transmit(d) PROVE FitInv'
      <3>1. CASE ByteArrives(d)
        BY <3>1, ArrivalInStep
      <3>2. CASE ByteLost(d)
        BY <3>2 DEF ByteLost, FitInv
      <3>3. QED
        BY <2>3, <3>1, <3>2 DEF Transmit
    <2>4. ASSUME NEW d \in Devices, NEW function \in Functions, Answer(d, function)
          PROVE  FitInv'
      BY <2>4, BeginInStep DEF Answer
    <2>5. CASE Tick
      <3>1. age' >= age
        BY <2>5, SMT DEF Tick, TypeOK
      <3>2. TimeoutPending => TimeoutPending'
        BY <2>5, <3>1, BusAssumption, SMT DEF Tick, TimeoutPending, TypeOK
      <3>3. UNCHANGED <<answer, sent, fit, fifo, rx_buffer_>>
        BY <2>5 DEF Tick, balancers
      <3>4. QED
        BY <3>2, <3>3, RestInStep
    <2>6. ASSUME UNCHANGED <<answer, sent, fit, fifo, rx_buffer_, age, reading>>
          PROVE  FitInv'
      BY <2>6, RestInStep DEF TimeoutPending
    <2>7. ASSUME NEW d \in Devices, Update(d) PROVE FitInv'
      BY <2>6, <2>7 DEF Update, receiver
    <2>8. ASSUME NEW d \in Devices, NEW state \in BOOLEAN, WriteState(d, state) PROVE FitInv'
      BY <2>6, <2>8 DEF WriteState, receiver
    <2>9. CASE UNCHANGED vars
      BY <2>6, <2>9 DEF vars, bus, balancers, line, receiver
    <2>10. QED
      BY <2>1, <2>2, <2>3, <2>4, <2>5, <2>7, <2>8, <2>9, Zenon DEF Next
  <1>3. QED
    BY <1>1, <1>2, TypeCorrect, PTL DEF Spec

(* However the polls, writes, collisions and losses interleave before it:  *)
(* an answer that begins after a silence and is not disturbed lies in the  *)
(* UART and the buffer in order, for every number of balancers, timeout    *)
(* and frame size.                                                         *)
THEOREM FramesStayInStep == Spec => []ReassemblyInStep
  <1>1. TypeOK /\ FitInv => ReassemblyInStep
    <2> SUFFICES ASSUME TypeOK, FitInv, NEW d \in fit
                 PROVE  \/ rx_buffer_ \o fifo = Prefix(answer[d], sent[d])
                        \/ TimeoutPending /\ fifo = Prefix(answer[d], sent[d])
                        \/ ~Underway(d) /\ rx_buffer_ \o fifo = << >>
      BY DEF ReassemblyInStep
    <2>1. answer[d] \in Messages /\ FitStep(d) /\ d \in Devices
      BY DEF FitInv, TypeOK
    <2>2. /\ rx_buffer_ \in Seq(Bytes) /\ fifo \in Seq(Bytes)
          /\ sent[d] \in Nat /\ sent[d] <= FrameSize
      BY <2>1, TypesOf
    <2>3. CASE InStep(d)
      BY <2>1, <2>2, <2>3, JoinedPrefix DEF InStep
    <2>4. CASE TimeoutPending /\ Len(fifo) = sent[d] /\ Follows(fifo, answer[d], 0)
      <3>1. << >> \in Seq(Bytes) /\ Len(<< >>) = 0 /\ << >> \o fifo = fifo
        BY <2>2, EmptySeq, ConcatEmptySeq
      <3>2. /\ Follows(<< >>, answer[d], 0) /\ Follows(fifo, answer[d], Len(<< >>))
            /\ Len(<< >>) + Len(fifo) = sent[d]
        <4>1. Follows(<< >>, answer[d], 0)
          BY <3>1, SMT DEF Follows
        <4>2. 0 + sent[d] = sent[d]
          BY <2>2, SMT
        <4>3. QED
          BY <2>4, <3>1, <4>1, <4>2, Zenon
      <3>3. << >> \o fifo = Prefix(answer[d], sent[d])
        <4> DEFINE none == << >>
        <4>1. none \in Seq(Bytes) /\ Len(none) + Len(fifo) = sent[d]
              /\ Follows(none, answer[d], 0) /\ Follows(fifo, answer[d], Len(none))
          BY <3>1, <3>2
        <4> HIDE DEF none
        <4>2. none \o fifo = Prefix(answer[d], sent[d])
          BY <2>1, <2>2, <4>1, JoinedPrefix, Zenon
        <4>3. QED
          BY <4>2 DEF none
      <3>4. QED
        BY <2>4, <3>1, <3>3
    <2>5. CASE ~Underway(d) /\ rx_buffer_ = << >> /\ fifo = << >>
      <3>1. << >> \o << >> = << >>
        BY <2>2, <2>5, ConcatEmptySeq
      <3>2. QED
        BY <2>5, <3>1
    <2>6. QED
      BY <2>1, <2>3, <2>4, <2>5 DEF FitStep
  <1>2. QED
    BY <1>1, TypeCorrect, FitInvariant, PTL

-----------------------------------------------------------------------------
(***************************************************************************)
(* Whose frames a driver takes for its balancer's.                         *)
(***************************************************************************)
(* Every byte on its way comes from a balancer that began an answer, which *)
(* bears its address.                                                      *)
Heard(s) == \A i \in 1 .. Len(s) : answer[s[i].message.device] # NoMessage

Signed == \A d \in Devices : answer[d] # NoMessage => answer[d].device = d

HeardInv == Signed /\ Heard(fifo) /\ Heard(rx_buffer_)

LEMMA MessageIsSome ==
  ASSUME NEW message \in Messages PROVE message # NoMessage
  BY DEF Messages, NoMessage, Functions

LEMMA HeardAppend ==
  ASSUME NEW s \in Seq(Bytes), NEW byte \in Bytes, Heard(s),
         answer[byte.message.device] # NoMessage
  PROVE  Heard(Append(s, byte))
  <1> DEFINE longer == Append(s, byte)
  <1>1. /\ Len(longer) = Len(s) + 1 /\ Len(s) \in Nat
        /\ \A i \in 1 .. Len(s) : longer[i] = s[i]
        /\ longer[Len(s) + 1] = byte
    BY AppendProperties, LenProperties
  <1> HIDE DEF longer
  <1>2. ASSUME NEW i \in 1 .. Len(longer) PROVE answer[longer[i].message.device] # NoMessage
    <2>1. CASE i = Len(s) + 1
      BY <1>1, <2>1
    <2>2. CASE i # Len(s) + 1
      <3>1. i \in 1 .. Len(s)
        BY <1>1, <2>2, SMT
      <3>2. QED
        BY <1>1, <3>1 DEF Heard
    <2>3. QED
      BY <2>1, <2>2
  <1>3. QED
    BY <1>2 DEF Heard, longer

LEMMA HeardSplit ==
  ASSUME NEW s \in Seq(Bytes), s # << >>, Heard(s)
  PROVE  /\ Head(s) \in Bytes /\ Tail(s) \in Seq(Bytes)
         /\ answer[Head(s).message.device] # NoMessage /\ Heard(Tail(s))
  <1>1. /\ Head(s) \in Bytes /\ Tail(s) \in Seq(Bytes)
        /\ Len(Tail(s)) = Len(s) - 1 /\ Len(s) \in Nat
        /\ \A i \in 1 .. Len(Tail(s)) : Tail(s)[i] = s[i + 1]
    BY HeadTailProperties, LenProperties
  <1>2. Len(Tail(s)) \in Nat
    BY <1>1, LenProperties
  <1>3. 1 \in 1 .. Len(s) /\ \A i \in 1 .. Len(Tail(s)) : i + 1 \in 1 .. Len(s)
    BY <1>1, <1>2, SMT
  <1>4. Head(s) = s[1]
    BY <1>3
  <1>5. answer[Head(s).message.device] # NoMessage
    BY <1>3, <1>4 DEF Heard
  <1>6. Heard(Tail(s))
    BY <1>1, <1>3 DEF Heard
  <1>7. QED
    BY <1>1, <1>5, <1>6

LEMMA HeardLoop ==
  ASSUME TypeOK, HeardInv, ReadByte, rx_buffer_' = Parsed \/ rx_buffer_' = << >>
  PROVE  HeardInv'
  <1>1. fifo # << >> /\ fifo' = Tail(fifo) /\ answer' = answer
    BY DEF ReadByte, balancers
  <1>2. /\ Head(fifo) \in Bytes /\ Tail(fifo) \in Seq(Bytes) /\ rx_buffer_ \in Seq(Bytes)
        /\ answer[Head(fifo).message.device] # NoMessage /\ Heard(Tail(fifo))
    BY <1>1, HeardSplit DEF HeardInv, TypeOK
  <1>3. Heard(Parsed)
    BY <1>2, HeardAppend DEF HeardInv, Parsed
  <1>4. Heard(<< >>)
    <2>1. \A i \in 1 .. 0 : FALSE
      BY SMT
    <2>2. QED
      BY <2>1, EmptySeq DEF Heard
  <1>5. Heard(rx_buffer_')
    BY <1>3, <1>4
  <1>6. QED
    BY <1>1, <1>2, <1>5 DEF HeardInv, Heard, Signed

LEMMA HeardArrival ==
  ASSUME TypeOK, HeardInv, NEW d \in Devices, ByteArrives(d) PROVE HeardInv'
  <1>1. /\ Underway(d) /\ UNCHANGED <<answer, rx_buffer_>>
        /\ fifo' = Append(fifo, Byte(answer[d], sent[d] + 1))
    BY DEF ByteArrives, receiver
  <1>2. answer[d] \in Messages /\ answer[d].device = d /\ sent[d] \in Nat /\ sent[d] < FrameSize
        /\ fifo \in Seq(Bytes)
    BY <1>1, TypesOf DEF Underway, HeardInv, Signed
  <1> DEFINE byte == Byte(answer[d], sent[d] + 1)
  <1>3. sent[d] + 1 \in 1 .. FrameSize
    BY <1>2, BusAssumption, SMT
  <1>4. byte \in Bytes /\ byte.message.device = d
    BY <1>2, <1>3 DEF Byte, Bytes
  <1> HIDE DEF byte
  <1>5. answer[byte.message.device] # NoMessage
    BY <1>1, <1>4 DEF Underway
  <1>6. Heard(Append(fifo, byte))
    BY <1>2, <1>4, <1>5, HeardAppend DEF HeardInv
  <1>7. fifo' = Append(fifo, byte)
    BY <1>1 DEF byte
  <1>8. QED
    BY <1>1, <1>6, <1>7 DEF HeardInv, Heard, Signed

LEMMA HeardBegin ==
  ASSUME TypeOK, HeardInv, NEW d \in Devices, NEW function \in Functions,
         BeginAnswer(d, function)
  PROVE  HeardInv'
  <1> DEFINE message == [device |-> d, function |-> function, value |-> setting[d]]
  <1>1. answer' = [answer EXCEPT ![d] = message] /\ UNCHANGED <<fifo, rx_buffer_>>
    BY Zenon DEF BeginAnswer, receiver
  <1>2. message \in Messages /\ message.device = d
    BY DEF Messages, TypeOK
  <1>3. message # NoMessage
    BY <1>2, MessageIsSome
  <1> HIDE DEF message
  <1>4. DOMAIN answer = Devices
    BY DEF TypeOK
  <1>5. Signed'
    BY <1>1, <1>2, <1>4 DEF HeardInv, Signed
  <1>6. ASSUME NEW s \in Seq(Bytes), Heard(s), NEW i \in 1 .. Len(s)
        PROVE  answer'[s[i].message.device] # NoMessage
    <2>1. s[i] \in Bytes
      BY <1>6, ElementOfSeq
    <2>2. s[i].message.device \in Devices /\ answer[s[i].message.device] # NoMessage
      BY <1>6, <2>1 DEF Heard, Bytes, Messages
    <2>3. QED
      BY <1>1, <1>3, <1>4, <2>2
  <1>7. fifo \in Seq(Bytes) /\ rx_buffer_ \in Seq(Bytes)
    BY DEF TypeOK
  <1>8. Heard(fifo)' /\ Heard(rx_buffer_)'
    BY <1>1, <1>6, <1>7, Zenon DEF HeardInv, Heard
  <1>9. QED
    BY <1>5, <1>8 DEF HeardInv

LEMMA HeardInvariant == Spec => []HeardInv
  <1>1. Init => HeardInv
    <2>1. \A i \in 1 .. 0 : FALSE
      BY SMT
    <2>2. QED
      BY <2>1, EmptySeq DEF Init, BusInit, HeardInv, Heard, Signed
  <1>2. TypeOK /\ HeardInv /\ [Next]_vars => HeardInv'
    <2> SUFFICES ASSUME TypeOK, HeardInv, [Next]_vars PROVE HeardInv'
      OBVIOUS
    <2>1. ASSUME UNCHANGED <<answer, fifo>>, rx_buffer_' = rx_buffer_ \/ rx_buffer_' = << >>
          PROVE  HeardInv'
      <3>1. \A i \in 1 .. 0 : FALSE
        BY SMT
      <3>2. QED
        BY <2>1, <3>1, EmptySeq DEF HeardInv, Heard, Signed
    <2>2. CASE EnterLoop
      BY <2>1, <2>2, Zenon DEF EnterLoop, BeginLoop, Clear, balancers
    <2>3. CASE Parse \/ Deliver
      <3>1. ReadByte /\ (rx_buffer_' = Parsed \/ rx_buffer_' = << >>)
        BY <2>3 DEF Parse, Deliver, KeepByte, DropBytes, DeliverFrame, Clear
      <3>2. QED
        BY <3>1, HeardLoop
    <2>4. CASE Tick
      BY <2>1, <2>4 DEF Tick, balancers
    <2>5. ASSUME NEW d \in Devices, Transmit(d) PROVE HeardInv'
      <3>1. CASE ByteArrives(d)
        BY <3>1, HeardArrival
      <3>2. CASE ByteLost(d)
        BY <2>1, <3>2 DEF ByteLost, receiver
      <3>3. QED
        BY <2>5, <3>1, <3>2 DEF Transmit
    <2>6. ASSUME NEW d \in Devices, NEW function \in Functions, Answer(d, function)
          PROVE  HeardInv'
      BY <2>6, HeardBegin DEF Answer
    <2>7. ASSUME NEW d \in Devices, Update(d) PROVE HeardInv'
      BY <2>1, <2>7 DEF Update, receiver
    <2>8. ASSUME NEW d \in Devices, NEW state \in BOOLEAN, WriteState(d, state) PROVE HeardInv'
      BY <2>1, <2>8 DEF WriteState, receiver
    <2>9. CASE UNCHANGED vars
      BY <2>1, <2>9 DEF vars, bus, balancers, line, receiver
    <2>10. QED
      BY <2>2, <2>3, <2>4, <2>5, <2>6, <2>7, <2>8, <2>9, Zenon DEF Next
  <1>3. QED
    BY <1>1, <1>2, TypeCorrect, PTL DEF Spec

(* The last byte of such an answer has it decoded by its own driver in the *)
(* step that reads it, whichever balancers share the line.                 *)
THEOREM UndisturbedAnswerIsDecoded == Spec => CompleteAnswerIsDecoded
  <1> DEFINE LastByte(d) == ~Underway(d) /\ Len(fifo) = 1 /\ fifo' = << >>
             Decoded(d) ==
               /\ online'[d] = "online" /\ no_response_count_'[d] = 0
               /\ answer[d].function = "read_all" =>
                    /\ telemetry'[d] = "live"
                    /\ d \in Switched => switch_state'[d] = answer[d].value
  <1>1. TypeOK /\ FitInv /\ HeardInv /\ [Next]_vars
          => [\A d \in fit : LastByte(d) => Decoded(d)]_vars
    <2> SUFFICES ASSUME TypeOK, FitInv, HeardInv, Next, NEW d \in fit, LastByte(d)
                 PROVE  Decoded(d)
      OBVIOUS
    <2>1. fifo # << >> /\ fifo' # fifo
      BY EmptySeq
    <2>2. Parse \/ Deliver
      <3>1. CASE EnterLoop
        BY <2>1, <3>1, Zenon DEF EnterLoop, BeginLoop
      <3>2. ASSUME NEW e \in Devices, Update(e) PROVE FALSE
        BY <2>1, <3>2 DEF Update
      <3>3. ASSUME NEW e \in Devices, NEW state \in BOOLEAN, WriteState(e, state) PROVE FALSE
        BY <2>1, <3>3 DEF WriteState
      <3>4. ASSUME NEW e \in Devices, NEW function \in Functions, Answer(e, function)
            PROVE  FALSE
        BY <2>1, <3>4 DEF Answer, BeginAnswer
      <3>5. ASSUME NEW e \in Devices, ByteArrives(e) PROVE FALSE
        <4>1. fifo' = Append(fifo, Byte(answer[e], sent[e] + 1))
          BY <3>5 DEF ByteArrives
        <4>2. fifo \in Seq(Bytes) /\ Len(fifo) \in Nat
          BY <2>1, TypesOf DEF TypeOK
        <4>3. Len(fifo') = Len(fifo) + 1
          BY <4>1
        <4>4. QED
          BY <4>2, <4>3, EmptySeq, SMT
      <3>6. ASSUME NEW e \in Devices, ByteLost(e) PROVE FALSE
        BY <2>1, <3>6 DEF ByteLost
      <3>7. CASE Tick
        BY <2>1, <3>7 DEF Tick
      <3>8. QED
        BY <3>1, <3>2, <3>3, <3>4, <3>5, <3>6, <3>7 DEF Next, Transmit
    <2>3. ReadByte /\ reading
      BY <2>2 DEF Parse, Deliver, KeepByte, DropBytes, DeliverFrame, ReadByte
    <2>4. d \in Devices /\ answer[d] \in Messages /\ InStep(d)
      BY <2>1, <2>3 DEF FitInv, FitStep, TimeoutPending, TypeOK
    <2> DEFINE buf == Parsed
    <2>5. Len(buf) = FrameSize
      <3>1. answer[d] # NoMessage
        BY <2>4, MessageIsSome
      <3>2. sent[d] = FrameSize
        BY <2>4, <3>1, TypesOf, BusAssumption, SMT DEF Underway
      <3>3. Len(buf) + Len(Tail(fifo)) = sent[d] /\ Len(buf) \in Nat
        BY <2>1, <2>4, MovedByte
      <3>4. Len(Tail(fifo)) = 0
        BY <2>3, EmptySeq DEF ReadByte
      <3> HIDE DEF buf
      <3>5. \A n \in Nat : n + 0 = n
        BY SMT
      <3>6. QED
        BY <3>2, <3>3, <3>4, <3>5, Zenon
    <2>6. Complete(buf) /\ ~(Len(buf) <= 2)
      BY <2>5, BusAssumption, SMT DEF Complete
    <2> HIDE DEF buf
    <2>7. ~DropBytes
      BY <2>1, <2>4, NoResetInStep DEF DropBytes
    <2>8. ~KeepByte
      BY <2>6, Zenon DEF KeepByte, AwaitsMore, buf
    <2>9. PICK message \in Messages :
            /\ DeliverFrame(message)
            /\ \E e \in Addressed(message) : on_jk_balancer_modbus_data(e, message)
      BY <2>2, <2>7, <2>8 DEF Parse, Deliver
    <2>10. message = answer[d]
      BY <2>1, <2>4, <2>9, DeliveredInStep
    <2>11. message.device = d
      BY <2>4, <2>10, MessageIsSome DEF HeardInv, Signed
    <2>12. on_jk_balancer_modbus_data(d, message)
      BY <2>9, <2>11 DEF Addressed
    <2>13. QED
      BY <2>4, <2>10, <2>12
      DEF on_jk_balancer_modbus_data, on_status_data_, reset_online_status_tracker_, TypeOK
  <1>2. QED
    BY <1>1, TypeCorrect, FitInvariant, HeardInvariant, PTL
    DEF Spec, CompleteAnswerIsDecoded

(* The buffer before the last byte of a whole frame.                       *)
LEMMA AllButTheLast ==
  ASSUME TypeOK, fifo # << >>, Genuine(Parsed), Complete(Parsed)
  PROVE  /\ Len(rx_buffer_) = FrameSize - 1 /\ rx_buffer_[1].message = Parsed[1].message
         /\ Parsed[1].message \in Messages
         /\ rx_buffer_ = Prefix(rx_buffer_[1].message, FrameSize - 1)
  <1> DEFINE buf == Parsed
             f == buf[1].message
  <1>1. fifo \in Seq(Bytes) /\ rx_buffer_ \in Seq(Bytes) /\ Len(rx_buffer_) < FrameSize
        /\ FrameSize \in Nat /\ FrameSize > 3
    BY BusAssumption DEF TypeOK
  <1>2. Head(fifo) \in Bytes
    BY <1>1, HeadTailProperties
  <1>3. /\ buf \in Seq(Bytes) /\ Len(buf) = Len(rx_buffer_) + 1 /\ Len(rx_buffer_) \in Nat
        /\ \A i \in 1 .. Len(rx_buffer_) : buf[i] = rx_buffer_[i]
    BY <1>1, <1>2, AppendProperties, LenProperties DEF Parsed
  <1>4. Len(buf) >= FrameSize /\ buf = Prefix(f, FrameSize)
    BY DEF Genuine, Complete
  <1> HIDE DEF buf
  <1>5. /\ Len(rx_buffer_) = FrameSize - 1 /\ FrameSize - 1 \in Nat /\ FrameSize - 1 <= FrameSize
        /\ 1 \in 1 .. Len(rx_buffer_) /\ 1 \in 1 .. Len(buf)
        /\ \A i \in 1 .. FrameSize - 1 : i \in 1 .. FrameSize
    BY <1>1, <1>3, <1>4, SMT
  <1>6. f \in Messages
    <2>1. buf[1] \in Bytes
      BY <1>3, <1>5, ElementOfSeq
    <2>2. QED
      BY <2>1 DEF Bytes
  <1>7. rx_buffer_[1] = buf[1]
    BY <1>3, <1>5
  <1> HIDE DEF f
  <1>8. /\ Prefix(f, FrameSize - 1) \in Seq(Bytes) /\ Len(Prefix(f, FrameSize - 1)) = FrameSize - 1
        /\ \A i \in 1 .. FrameSize - 1 : Prefix(f, FrameSize - 1)[i] = Byte(f, i)
    BY <1>5, <1>6, PrefixProperties
  <1>9. \A i \in 1 .. FrameSize : buf[i] = Byte(f, i)
    BY <1>4 DEF Prefix
  <1>10. \A i \in 1 .. Len(rx_buffer_) : rx_buffer_[i] = Prefix(f, FrameSize - 1)[i]
    BY <1>3, <1>5, <1>8, <1>9
  <1>11. rx_buffer_ = Prefix(f, FrameSize - 1)
    BY <1>1, <1>5, <1>8, <1>10, SeqEqual
  <1>12. QED
    BY <1>5, <1>6, <1>7, <1>11 DEF f, buf

(* However the answers of others get in between, a balancer is shown       *)
(* online, and its switch changed without a write, only by a frame it sent *)
(* itself, unless other bytes passed for one.                              *)
THEOREM OthersNeverSpeakForIt == Spec => OwnFramesOnly
  <1> DEFINE Taken(d) == \/ online'[d] = "online" /\ online[d] # "online"
                         \/ switch_state'[d] # switch_state[d] /\ writes' = writes
             Own(d) == answer[d] # NoMessage /\ rx_buffer_ = Prefix(rx_buffer_[1].message, FrameSize - 1)
                       /\ rx_buffer_[1].message.device = d
             OwnStep ==
               \A d \in Devices :
                 /\ \/ online'[d] = "online" /\ online[d] # "online"
                    \/ switch_state'[d] # switch_state[d] /\ writes' = writes
                 /\ faults' = faults
                 => answer[d] # NoMessage /\ rx_buffer_ = Prefix(rx_buffer_[1].message, FrameSize - 1)
                    /\ rx_buffer_[1].message.device = d
  <1>1. ASSUME TypeOK, HeardInv, [Next]_vars, NEW d \in Devices, Taken(d), faults' = faults
        PROVE  Own(d)
    <2>1. ASSUME UNCHANGED drivers PROVE FALSE
      BY <1>1, <2>1 DEF drivers, tracked
    <2>2. ASSUME NEW other \in Devices, Update(other) PROVE FALSE
      <3>1. UNCHANGED <<switch_state, writes>>
        BY <2>2 DEF Update
      <3>2. online' = online \/ online' = [online EXCEPT ![other] = "offline"]
        BY <2>2 DEF Update, track_online_status_, publish_device_unavailable_
      <3>3. online'[d] = online[d] \/ online'[d] = "offline"
        BY <1>1, <3>2 DEF TypeOK
      <3>4. QED
        BY <1>1, <3>1, <3>3
    <2>3. ASSUME NEW other \in Devices, NEW state \in BOOLEAN, WriteState(other, state)
          PROVE  FALSE
      <3>1. UNCHANGED online /\ writes' = writes + 1 /\ writes \in Nat
        BY <1>1, <2>3, WritesAssumption, SMT DEF WriteState, tracked, TypeOK
      <3>2. writes' # writes
        BY <3>1, SMT
      <3>3. QED
        BY <1>1, <3>1, <3>2
    <2>4. Deliver
      BY <1>1, <2>1, <2>2, <2>3, Zenon
      DEF Next, EnterLoop, Parse, Tick, Answer, Transmit, vars
    <2>5. PICK message \in Messages :
            /\ DeliverFrame(message) /\ UNCHANGED writes
            /\ \E other \in Addressed(message) : on_jk_balancer_modbus_data(other, message)
      BY <2>4 DEF Deliver
    <2>6. fifo # << >> /\ Complete(Parsed) /\ Genuine(Parsed) /\ message = Parsed[1].message
      <3>1. ~Fault
        BY <1>1, BusAssumption, SMT DEF Fault, TypeOK
      <3>2. QED
        BY <2>5, <3>1, Zenon DEF DeliverFrame, Delivers, ReadByte
    <2>7. d = message.device
      <3>1. PICK other \in Devices :
              other = message.device /\ on_jk_balancer_modbus_data(other, message)
        BY <2>5 DEF Addressed
      <3>2. /\ online' = [online EXCEPT ![other] = "online"]
            /\ \/ switch_state' = switch_state
               \/ switch_state' = [switch_state EXCEPT ![other] = message.value]
        BY <3>1 DEF on_jk_balancer_modbus_data, reset_online_status_tracker_, on_status_data_
      <3>3. ASSUME d # other PROVE online'[d] = online[d] /\ switch_state'[d] = switch_state[d]
        BY <1>1, <3>2, <3>3 DEF TypeOK
      <3>4. d = other
        BY <1>1, <3>3
      <3>5. QED
        BY <3>1, <3>4
    <2>8. /\ Len(rx_buffer_) = FrameSize - 1 /\ rx_buffer_[1].message = message
          /\ rx_buffer_ = Prefix(rx_buffer_[1].message, FrameSize - 1)
      BY <1>1, <2>6, AllButTheLast
    <2>9. answer[d] # NoMessage
      <3>1. 1 \in 1 .. Len(rx_buffer_)
        BY <2>8, BusAssumption, SMT
      <3>2. QED
        BY <1>1, <2>7, <2>8, <3>1 DEF HeardInv, Heard
    <2>10. QED
      BY <2>7, <2>8, <2>9
  <1>2. TypeOK /\ HeardInv /\ [Next]_vars => [OwnStep]_vars
    <2> SUFFICES ASSUME TypeOK, HeardInv, [Next]_vars, NEW d \in Devices,
                        Taken(d), faults' = faults
                 PROVE  Own(d)
      OBVIOUS
    <2>1. QED
      BY <1>1
  <1>3. QED
    BY <1>2, TypeCorrect, HeardInvariant, PTL DEF Spec, OwnFramesOnly

=============================================================================
