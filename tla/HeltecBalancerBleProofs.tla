----------------------- MODULE HeltecBalancerBleProofs -----------------------
(***************************************************************************)
(* Theorems about the heltec_balancer_ble session, for every frame size,   *)
(* limit, throttle, settling time, set of controls, and number of losses   *)
(* and forgeries.                                                          *)
(***************************************************************************)
EXTENDS HeltecBalancerBle, SequenceTheorems, FiniteSetTheorems, TLAPS

-----------------------------------------------------------------------------
(***************************************************************************)
(* Lemmas about the operators.                                             *)
(***************************************************************************)
(* A poll takes the no-response counter from one resting value to another; *)
(* it leaves the limit behind exactly when it expires.                     *)
LEMMA TrackedRests ==
  ASSUME NEW n \in RestingCounts
  PROVE  /\ Tracked(n) \in RestingCounts
         /\ Expires(n) <=> n = MaxNoResponse - 1
         /\ Expires(n) => Tracked(n) = MaxNoResponse + 1
         /\ n < MaxNoResponse - 1 => Tracked(n) = n + 1
         /\ n > MaxNoResponse => Tracked(n) = n
  BY MaxNoResponseAssumption, SMT
  DEF RestingCounts, Tracked, Expires, Counted

(* The units of a frame form a sequence as long as the frame.              *)
LEMMA FrameUnitsProperties ==
  ASSUME NEW f \in Frames
  PROVE  /\ FrameUnits(f) \in Seq(Units)
         /\ Len(FrameUnits(f)) = SizeOf[f.type]
         /\ \A i \in 1 .. SizeOf[f.type] : FrameUnits(f)[i] = Unit(f, i)
  <1>1. f.type \in FrameTypes /\ SizeOf[f.type] \in MinResponseSize .. MaxResponseSize
    BY SizesAssumption DEF Frames
  <1>2. \A i \in 1 .. SizeOf[f.type] : Unit(f, i) \in Units
    BY <1>1, SizesAssumption, SMT DEF Unit, Units
  <1>3. FrameUnits(f) \in [1 .. SizeOf[f.type] -> Units]
    BY <1>2 DEF FrameUnits
  <1>4. SizeOf[f.type] \in Nat
    BY <1>1, SizesAssumption, SMT
  <1>5. FrameUnits(f) \in Seq(Units)
    BY <1>3, <1>4, SeqDef, SMT
  <1>6. Len(FrameUnits(f)) = SizeOf[f.type]
    BY <1>3, <1>4, <1>5, LenProperties, SMT
  <1>7. QED
    BY <1>5, <1>6 DEF FrameUnits

(* A subsequence of units is a sequence of units.                          *)
LEMMA PartProperties ==
  ASSUME NEW s \in Seq(Units), NEW a \in Nat \ {0}, NEW b \in Nat, b <= Len(s)
  PROVE  /\ SubSeq(s, a, b) \in Seq(Units)
         /\ Len(SubSeq(s, a, b)) = IF a <= b THEN b - a + 1 ELSE 0
         /\ \A i \in 1 .. b - a + 1 : SubSeq(s, a, b)[i] = s[a + i - 1]
  <1>1. a \in Int /\ b \in Int
    BY SMT
  <1>2. \A i \in a .. b : s[i] \in Units
    BY LenProperties, ElementOfSeq, SMT
  <1>3. QED
    BY <1>1, <1>2, SubSeqProperties

(* What assemble() keeps is a sequence of units from the buffer.           *)
LEMMA KeptProperties ==
  ASSUME frame_buffer_ \in Seq(Units), NEW frag
  PROVE  /\ Kept(frag) \in Seq(Units)
         /\ Kept(frag) \in {<< >>, frame_buffer_}
  BY EmptySeq DEF Kept

(* A request changes what the balancer heard and owes within their types.  *)
RequestsTypeOK ==
  streaming \in BOOLEAN /\ owed \subseteq FrameTypes /\ losses \in 0 .. MaxLosses

(* Sending a request keeps these types.                                    *)
LEMMA SendTypes ==
  ASSUME RequestsTypeOK, NEW cmd \in Commands, send_command(cmd)
  PROVE  RequestsTypeOK'
  <1>1. CASE CommandHeard(cmd)
    BY <1>1 DEF CommandHeard, FrameTypes, RequestsTypeOK
  <1>2. CASE CommandLost
    BY <1>2, BoundsAssumption, SMT DEF CommandLost, RequestsTypeOK
  <1>3. CASE UNCHANGED requests
    BY <1>3 DEF requests, RequestsTypeOK
  <1>4. QED
    BY <1>1, <1>2, <1>3 DEF send_command

(* The types of what a decoded frame assigns.                              *)
DecodedTypeOK ==
  /\ init_state_ \in InitStates /\ protocol_version_ \in Versions
  /\ no_response_count_ \in RestingCounts /\ elapsed \in 0 .. Throttle
  /\ online \in {"unknown", "online", "offline"}
  /\ telemetry \in {"none", "live", "invalid"}

(* Decoding a frame of any type and size keeps them.                       *)
LEMMA DecodeTypes ==
  ASSUME DecodedTypeOK, RequestsTypeOK, NEW type, NEW size, decode_(type, size)
  PROVE  DecodedTypeOK' /\ RequestsTypeOK'
  <1>1. no_response_count_' \in RestingCounts /\ online' = "online"
    BY MaxNoResponseAssumption, SMT
    DEF decode_, reset_online_status_tracker_, RestingCounts
  <1>2. CASE DecodeDeviceInfo
    BY <1>1, <1>2, SendTypes
    DEF DecodeDeviceInfo, DecodedTypeOK, Commands, InitStates
  <1>3. CASE DecodeSettings(size)
    BY <1>1, <1>3, SendTypes
    DEF DecodeSettings, VersionOf, DecodedTypeOK, Commands, InitStates, Versions
  <1>4. CASE DecodeCellInfo
    <2>1. elapsed' \in 0 .. Throttle /\ telemetry' \in {"none", "live", "invalid"}
      BY <1>4, ClocksAssumption, SMT
      DEF DecodeCellInfo, decode_cell_info_, DecodedTypeOK
    <2>2. QED
      BY <1>1, <1>4, <2>1
      DEF DecodeCellInfo, DecodedTypeOK, RequestsTypeOK, requests, InitStates
  <1>5. CASE UNCHANGED <<telemetry, elapsed, init_state_, protocol_version_, requests>>
    BY <1>1, <1>5 DEF DecodedTypeOK, RequestsTypeOK, requests
  <1>6. QED
    BY <1>2, <1>3, <1>4, <1>5 DEF decode_

(* Every length assemble() reads out of the buffer is natural, and so is   *)
(* the size of a frame in range.                                           *)
LEMMA LengthsNatural ==
  ASSUME NEW buf \in Seq(Units), Len(buf) >= HeaderSize, NEW size \in Lengths(buf)
  PROVE  size \in Nat
  <1>1. buf[HeaderSize] \in Units
    BY SizesAssumption, ElementOfSeq, LenProperties, SMT
  <1>2. buf[HeaderSize].frame.type \in FrameTypes
    BY <1>1 DEF Units, Frames
  <1>3. SizeOf[buf[HeaderSize].frame.type] \in Nat
    BY <1>2, SizesAssumption, SMT
  <1>4. QED
    BY <1>3, SizesAssumption, SMT DEF Lengths

(* So does whatever assemble() does with a fragment.                       *)
LEMMA AssembleTypes ==
  ASSUME DecodedTypeOK, RequestsTypeOK, forgeries \in 0 .. MaxForgeries,
         frame_buffer_ \in Seq(Units), NEW frag \in Seq(Units), assemble(frag)
  PROVE  /\ DecodedTypeOK' /\ RequestsTypeOK' /\ forgeries' \in 0 .. MaxForgeries
         /\ frame_buffer_' \in Seq(Units)
  <1> DEFINE buf == Kept(frag) \o frag
  <1>1. buf \in Seq(Units)
    BY KeptProperties, ConcatProperties
  <1>2. CASE frame_buffer_' \in {<< >>, buf} /\ Unaffected
    BY <1>1, <1>2, EmptySeq
    DEF Unaffected, decoded, requests, tracked, DecodedTypeOK, RequestsTypeOK
  <1>3. ASSUME Len(buf) >= HeaderSize, NEW size \in Lengths(buf), InRange(size),
               Len(buf) >= size, Accept(buf, size)
        PROVE  /\ DecodedTypeOK' /\ RequestsTypeOK' /\ forgeries' \in 0 .. MaxForgeries
               /\ frame_buffer_' \in Seq(Units)
    <2>1. size \in Nat /\ Len(buf) \in Nat
      BY <1>1, <1>3, LengthsNatural, LenProperties
    <2>2. size + 1 \in Nat \ {0}
      BY <2>1, SMT
    <2>3. frame_buffer_' \in Seq(Units)
      <3> HIDE DEF buf
      <3>1. QED
        BY <1>1, <1>3, <2>1, <2>2, PartProperties DEF Accept, Rest
    <2>4. forgeries' \in 0 .. MaxForgeries
      BY <1>3, BoundsAssumption, SMT DEF Accept
    <2>5. DecodedTypeOK' /\ RequestsTypeOK'
      BY <1>3, DecodeTypes DEF Accept
    <2>6. QED
      BY <2>3, <2>4, <2>5
  <1>4. QED
    BY <1>2, <1>3 DEF assemble, Wait, Drop

(* The fragments of what the balancer sent are nonempty sequences of units.*)
LEMMA FragmentProperties ==
  ASSUME stream \in Seq(Units), NEW n \in FragmentSizes
  PROVE  /\ n \in Nat \ {0} /\ n <= Len(stream)
         /\ SubSeq(stream, 1, n) \in Seq(Units) /\ Len(SubSeq(stream, 1, n)) = n
         /\ SubSeq(stream, n + 1, Len(stream)) \in Seq(Units)
  <1>1. n \in Nat \ {0} /\ n <= Len(stream) /\ Len(stream) \in Nat /\ n + 1 \in Nat \ {0}
    BY LenProperties, SMT DEF FragmentSizes
  <1>2. 1 \in Nat \ {0}
    BY SMT
  <1>3. /\ SubSeq(stream, 1, n) \in Seq(Units)
        /\ Len(SubSeq(stream, 1, n)) = IF 1 <= n THEN n - 1 + 1 ELSE 0
    BY <1>1, <1>2, PartProperties
  <1>4. Len(SubSeq(stream, 1, n)) = n
    BY <1>1, <1>3, SMT
  <1>5. SubSeq(stream, n + 1, Len(stream)) \in Seq(Units)
    BY <1>1, PartProperties
  <1>6. QED
    BY <1>1, <1>3, <1>4, <1>5

-----------------------------------------------------------------------------
(***************************************************************************)
(* Type correctness.                                                       *)
(***************************************************************************)
(* Every reachable state of the session has its type, whatever the sizes,  *)
(* limits, losses and forgeries.                                           *)
THEOREM TypeCorrect == Spec => []TypeOK
  <1>1. Init => TypeOK
    <2> SUFFICES ASSUME Init PROVE TypeOK
      OBVIOUS
    <2>1. stream \in Seq(Units) /\ frame_buffer_ \in Seq(Units)
      BY EmptySeq DEF Init
    <2>2. /\ no_response_count_ \in RestingCounts /\ elapsed \in 0 .. Throttle
          /\ connection_age \in 0 .. SettlingTime
          /\ serial \in 0 .. MaxLosses /\ losses \in 0 .. MaxLosses
          /\ forgeries \in 0 .. MaxForgeries
      BY MaxNoResponseAssumption, ClocksAssumption, BoundsAssumption, SMT
      DEF Init, RestingCounts
    <2>3. QED
      BY <2>1, <2>2 DEF Init, TypeOK, Registrations, InitStates, Versions
  <1>2. TypeOK /\ [Next]_vars => TypeOK'
    <2> SUFFICES ASSUME TypeOK, [Next]_vars PROVE TypeOK'
      OBVIOUS
    <2>0. DecodedTypeOK /\ RequestsTypeOK
      BY DEF TypeOK, DecodedTypeOK, RequestsTypeOK
    <2>1. CASE Update
      <3>1. no_response_count_' \in RestingCounts
        BY <2>1, TrackedRests DEF Update, track_online_status_, TypeOK
      <3>2. online' \in {"unknown", "online", "offline"}
            /\ telemetry' \in {"none", "live", "invalid"}
        BY <2>1 DEF Update, track_online_status_, publish_device_unavailable_, TypeOK
      <3>3. RequestsTypeOK'
        <4>1. ASSUME NEW cmd \in Requests[init_state_], send_command(cmd)
              PROVE  RequestsTypeOK'
          <5>1. cmd \in Commands
            BY <4>1 DEF Requests, Commands, TypeOK, InitStates
          <5>2. QED
            BY <2>0, <4>1, <5>1, SendTypes
        <4>2. CASE UNCHANGED requests
          BY <2>0, <4>2 DEF requests, RequestsTypeOK
        <4>3. QED
          BY <2>1, <4>1, <4>2 DEF Update
      <3>4. QED
        BY <2>1, <3>1, <3>2, <3>3 DEF Update, session, clocks, RequestsTypeOK, TypeOK
    <2>2. CASE SearchCmpl
      BY <2>2 DEF SearchCmpl, requests, decoded, tracked, TypeOK, Registrations
    <2>3. CASE RegForNotify
      <3>1. connection_age' \in 0 .. SettlingTime
        BY <2>3, ClocksAssumption, SMT DEF RegForNotify
      <3>2. QED
        BY <2>3, <3>1
        DEF RegForNotify, requests, tracked, TypeOK, Registrations, InitStates
    <2>4. CASE Disconnect
      <3>1. stream' \in Seq(Units) /\ frame_buffer_' \in Seq(Units)
        BY <2>4, EmptySeq DEF Disconnect
      <3>2. connection_age' \in 0 .. SettlingTime /\ serial' \in 0 .. MaxLosses
        BY <2>4, ClocksAssumption, BoundsAssumption, SMT DEF Disconnect
      <3>3. registration' \in Registrations
        BY <2>4 DEF Disconnect, Unregistered, TypeOK, Registrations
      <3>4. QED
        BY <2>4, <3>1, <3>2, <3>3 DEF Disconnect, tracked, TypeOK, InitStates
    <2>5. ASSUME NEW n \in FragmentSizes, Notify(n) PROVE TypeOK'
      <3>1. SubSeq(stream, 1, n) \in Seq(Units) /\ stream' \in Seq(Units)
        BY <2>5, FragmentProperties DEF Notify, Leave, TypeOK
      <3>2. /\ DecodedTypeOK' /\ RequestsTypeOK' /\ forgeries' \in 0 .. MaxForgeries
            /\ frame_buffer_' \in Seq(Units)
        BY <2>0, <2>5, <3>1, AssembleTypes DEF Notify, TypeOK
      <3>3. intact' \in BOOLEAN
        BY <2>5 DEF Notify, TypeOK
      <3>4. QED
        BY <2>5, <3>1, <3>2, <3>3
        DEF Notify, Leave, session, DecodedTypeOK, RequestsTypeOK, TypeOK
    <2>6. ASSUME NEW cmd \in ControlCommands, UseControl(cmd) PROVE TypeOK'
      <3>1. RequestsTypeOK'
        BY <2>0, <2>6, SendTypes, CommandsAssumption DEF UseControl
      <3>2. QED
        BY <2>6, <3>1
        DEF UseControl, session, decoded, tracked, RequestsTypeOK, TypeOK
    <2>7. CASE Open
      BY <2>7 DEF Open, requests, session, decoded, tracked, TypeOK
    <2>8. CASE Tick
      <3>1. connection_age' \in 0 .. SettlingTime /\ elapsed' \in 0 .. Throttle
        BY <2>8, ClocksAssumption, SMT DEF Tick, Aged, TypeOK
      <3>2. QED
        BY <2>8, <3>1 DEF Tick, requests, session, tracked, TypeOK
    <2>9. ASSUME NEW type \in FrameTypes, SendFrame(type) PROVE TypeOK'
      <3>1. [type |-> type, serial |-> serial] \in Frames
        BY <2>9 DEF Frames, TypeOK
      <3>2. stream' \in Seq(Units)
        BY <2>9, <3>1, FrameUnitsProperties, ConcatProperties DEF SendFrame, TypeOK
      <3>3. serial' \in 0 .. MaxLosses
        BY <2>9, BoundsAssumption, SMT DEF SendFrame, TypeOK
      <3>4. QED
        BY <2>9, <3>2, <3>3 DEF SendFrame, session, decoded, tracked, TypeOK
    <2>10. ASSUME NEW n \in FragmentSizes, LoseFragment(n) PROVE TypeOK'
      <3>1. stream' \in Seq(Units)
        BY <2>10, FragmentProperties DEF LoseFragment, Leave, TypeOK
      <3>2. losses' \in 0 .. MaxLosses
        BY <2>10, BoundsAssumption, SMT DEF LoseFragment, TypeOK
      <3>3. QED
        BY <2>10, <3>1, <3>2
        DEF LoseFragment, Leave, session, decoded, tracked, TypeOK
    <2>11. CASE UNCHANGED vars
      BY <2>11 DEF vars, requests, session, decoded, tracked, TypeOK
    <2>12. QED
      BY <2>1, <2>2, <2>3, <2>4, <2>5, <2>6, <2>7, <2>8, <2>9, <2>10, <2>11
      DEF Next, Component, Environment
  <1>3. QED
    BY <1>1, <1>2, PTL DEF Spec

-----------------------------------------------------------------------------
(***************************************************************************)
(* The session.                                                            *)
(***************************************************************************)
(* SessionCoherent alone is not inductive: it also takes that a pending    *)
(* registration was made on this link, since the disconnect event          *)
(* unregisters only what it has a handle for, and that an active one had   *)
(* its event delivered.                                                    *)
RegistrationMade ==
  /\ registration = "pending" => Reachable
  /\ registration = "active" => node_state = "ESTABLISHED"

SessionInv == SessionCoherent /\ RegistrationMade

(* A step that leaves the session and the link alone, and changes the      *)
(* buffer and the initialisation only with an active registration,         *)
(* preserves it.                                                           *)
LEMMA SessionFrame ==
  ASSUME SessionInv, UNCHANGED <<link, registration, session>>,
         registration = "active" \/ UNCHANGED <<frame_buffer_, init_state_>>
  PROVE  SessionInv'
  BY DEF SessionInv, SessionCoherent, RegistrationMade, Reachable, session

(* No stage of the initialisation and no byte survives its connection.     *)
THEOREM SessionStaysCoherent == Spec => []SessionCoherent
  <1>1. Init => SessionInv
    BY DEF Init, SessionInv, SessionCoherent, RegistrationMade
  <1>2. SessionInv /\ [Next]_vars => SessionInv'
    <2> SUFFICES ASSUME SessionInv, [Next]_vars PROVE SessionInv'
      OBVIOUS
    <2>1. CASE SearchCmpl
      <3>1. registration \notin {"pending", "active"}
        BY <2>1, SMT
        DEF SearchCmpl, SessionInv, SessionCoherent, RegistrationMade, Reachable,
            DeviceHandle
      <3>2. frame_buffer_ = << >> /\ init_state_ = "NEED_DEVICE_INFO"
        BY <3>1 DEF SessionInv, SessionCoherent
      <3>3. QED
        BY <2>1, <3>2
        DEF SearchCmpl, SessionInv, SessionCoherent, RegistrationMade, Reachable,
            decoded
    <2>2. CASE RegForNotify
      <3>1. frame_buffer_' = << >>
        BY <2>2 DEF RegForNotify, SessionInv, SessionCoherent
      <3>2. QED
        BY <2>2, <3>1 DEF RegForNotify, SessionInv, SessionCoherent,
                          RegistrationMade, Reachable
    <2>3. CASE Disconnect
      <3>1. registration' \notin {"pending", "active"}
        BY <2>3, SMT DEF Disconnect, Unregistered, SessionInv, SessionCoherent,
                         RegistrationMade, Reachable, DeviceHandle
      <3>2. QED
        BY <2>3, <3>1 DEF Disconnect, SessionInv, SessionCoherent, RegistrationMade
    <2>4. CASE Open
      <3>1. registration \notin {"pending", "active"}
        BY <2>4
        DEF Open, SessionInv, SessionCoherent, RegistrationMade, Reachable
      <3>2. QED
        BY <2>4, <3>1 DEF Open, session, decoded, SessionInv, SessionCoherent,
                          RegistrationMade, Reachable
    <2>5. ASSUME NEW n \in FragmentSizes, Notify(n) PROVE SessionInv'
      BY <2>5, SessionFrame DEF Notify, Listening, Leave
    <2>6. ASSUME NEW n \in FragmentSizes, LoseFragment(n) PROVE SessionInv'
      BY <2>6, SessionFrame DEF LoseFragment, Leave, decoded
    <2>7. CASE Update
      BY <2>7, SessionFrame DEF Update
    <2>8. ASSUME NEW cmd \in ControlCommands, UseControl(cmd) PROVE SessionInv'
      BY <2>8, SessionFrame DEF UseControl, decoded
    <2>9. CASE Tick
      BY <2>9, SessionFrame DEF Tick
    <2>10. ASSUME NEW type \in FrameTypes, SendFrame(type) PROVE SessionInv'
      BY <2>10, SessionFrame DEF SendFrame, decoded
    <2>11. CASE UNCHANGED vars
      BY <2>11, SessionFrame DEF vars, decoded
    <2>12. QED
      BY <2>1, <2>2, <2>3, <2>4, <2>5, <2>6, <2>7, <2>8, <2>9, <2>10, <2>11
      DEF Next, Component, Environment
  <1>3. SessionInv => SessionCoherent
    BY DEF SessionInv
  <1>4. QED
    BY <1>1, <1>2, <1>3, PTL DEF Spec

-----------------------------------------------------------------------------
(***************************************************************************)
(* The online status.                                                      *)
(***************************************************************************)
(* What a decoded frame does to the online status and the measurements.    *)
DecodeStep ==
  reset_online_status_tracker_ /\ telemetry' \in {telemetry, "live"}

(* Nothing but update() and decode_() touches the online status.           *)
LEMMA StatusSteps ==
  ASSUME [Next]_vars
  PROVE  UNCHANGED tracked \/ track_online_status_ \/ DecodeStep
  <1>1. ASSUME NEW n \in FragmentSizes, Notify(n)
        PROVE  UNCHANGED tracked \/ DecodeStep
    <2>1. ASSUME NEW type, NEW size, decode_(type, size) PROVE DecodeStep
      BY <2>1 DEF decode_, DecodeDeviceInfo, DecodeSettings, DecodeCellInfo,
                  decode_cell_info_, DecodeStep
    <2>2. Unaffected \/ \E type, size : decode_(type, size)
      BY <1>1 DEF Notify, assemble, Wait, Drop, Accept
    <2>3. QED
      BY <2>1, <2>2 DEF Unaffected, decoded
  <1>2. CASE Update
    BY <1>2 DEF Update
  <1>3. CASE UNCHANGED tracked
    BY <1>3
  <1>4. QED
    BY <1>1, <1>2, <1>3
    DEF Next, Component, Environment, SearchCmpl, RegForNotify, Disconnect,
        UseControl, Open, Tick, SendFrame, LoseFragment, vars, decoded, tracked

(* The session implements the availability contract, although its polls    *)
(* also drive the initialisation and frames of every kind reset the count. *)
THEOREM RefinesAvailability == Spec => KeepsAvailabilityContract
  <1> DEFINE Silence(n) == IF n > MaxNoResponse THEN MaxNoResponse ELSE n
  <1>1. Init => A!Init
    BY MaxNoResponseAssumption, SMT DEF Init, A!Init
  <1>2. TypeOK /\ [Next]_vars => [A!Next]_(A!vars)
    <2> SUFFICES ASSUME TypeOK, [Next]_vars PROVE [A!Next]_(A!vars)
      OBVIOUS
    <2>0. no_response_count_ \in RestingCounts
      BY DEF TypeOK
    <2>1. CASE UNCHANGED tracked
      BY <2>1 DEF tracked, A!vars
    <2>2. CASE track_online_status_ /\ Expires(no_response_count_)
      <3>1. /\ no_response_count_ = MaxNoResponse - 1
            /\ no_response_count_' = MaxNoResponse + 1
        BY <2>0, <2>2, TrackedRests DEF track_online_status_
      <3>2. Silence(no_response_count_) = MaxNoResponse - 1
            /\ Silence(no_response_count_') = MaxNoResponse
        BY <3>1, MaxNoResponseAssumption, SMT
      <3>3. A!DeclaredOffline
        BY <2>2, <3>2
        DEF track_online_status_, publish_device_unavailable_, A!DeclaredOffline
      <3>4. QED
        BY <3>3 DEF A!Next, A!Poll
    <2>3. CASE track_online_status_ /\ ~Expires(no_response_count_)
      <3>1. UNCHANGED <<online, telemetry>>
        BY <2>3 DEF track_online_status_
      <3>2. CASE no_response_count_ < MaxNoResponse - 1
        <4>1. no_response_count_' = no_response_count_ + 1
          BY <2>0, <2>3, <3>2, TrackedRests DEF track_online_status_
        <4>2. /\ Silence(no_response_count_) = no_response_count_
              /\ Silence(no_response_count_') = no_response_count_ + 1
          BY <2>0, <3>2, <4>1, MaxNoResponseAssumption, SMT DEF RestingCounts
        <4>3. A!UnansweredPoll
          BY <3>1, <3>2, <4>2 DEF A!UnansweredPoll
        <4>4. QED
          BY <4>3 DEF A!Next, A!Poll
      <3>3. CASE no_response_count_ > MaxNoResponse
        <4>1. UNCHANGED no_response_count_
          BY <2>0, <2>3, <3>3, TrackedRests DEF track_online_status_
        <4>2. QED
          BY <3>1, <4>1 DEF A!vars
      <3>4. QED
        BY <2>0, <2>3, <3>2, <3>3, TrackedRests, MaxNoResponseAssumption, SMT
        DEF RestingCounts
    <2>4. CASE DecodeStep
      <3>1. Silence(no_response_count_') = 0
        BY <2>4, MaxNoResponseAssumption, SMT
        DEF DecodeStep, reset_online_status_tracker_
      <3>2. A!FrameArrives
        BY <2>4, <3>1 DEF DecodeStep, reset_online_status_tracker_, A!FrameArrives
      <3>3. QED
        BY <3>2 DEF A!Next
    <2>5. QED
      BY <2>1, <2>2, <2>3, <2>4, StatusSteps
  <1>3. QED
    BY <1>1, <1>2, TypeCorrect, PTL DEF Spec, KeepsAvailabilityContract, A!Safety

-----------------------------------------------------------------------------
(***************************************************************************)
(* The cell info layout.                                                   *)
(***************************************************************************)
(* LayoutKnown follows cell info from the request update() repeats to the  *)
(* buffer: at every stage it takes that the settings were decoded before.  *)
Carries(s) == \E i \in 1 .. Len(s) : s[i].frame.type = "cell_info"

CellInfoUnderway ==
  \/ init_state_ = "NEED_CELL_INFO"
  \/ streaming
  \/ "cell_info" \in owed
  \/ Carries(stream)
  \/ Carries(frame_buffer_)

LayoutInv == forgeries = 0 /\ CellInfoUnderway => protocol_version_ = DeviceVersion

(* A part of a sequence carries what the sequence does.                    *)
LEMMA PartCarries ==
  ASSUME NEW s \in Seq(Units), NEW a \in Nat \ {0}, NEW b \in Nat, b <= Len(s),
         Carries(SubSeq(s, a, b))
  PROVE  Carries(s)
  <1>1. PICK i \in 1 .. Len(SubSeq(s, a, b)) :
               SubSeq(s, a, b)[i].frame.type = "cell_info"
    BY DEF Carries
  <1>2. i \in 1 .. b - a + 1
    BY PartProperties, SMT
  <1>3. SubSeq(s, a, b)[i] = s[a + i - 1]
    BY <1>2, PartProperties
  <1>4. a + i - 1 \in 1 .. Len(s)
    BY <1>2, LenProperties, SMT
  <1>5. QED
    BY <1>1, <1>3, <1>4 DEF Carries

(* A concatenation carries what one of its parts carries.                 *)
LEMMA ConcatCarries ==
  ASSUME NEW s \in Seq(Units), NEW t \in Seq(Units), Carries(s \o t)
  PROVE  Carries(s) \/ Carries(t)
  <1>1. PICK i \in 1 .. Len(s) + Len(t) : (s \o t)[i].frame.type = "cell_info"
    BY ConcatProperties DEF Carries
  <1>2. CASE i <= Len(s)
    <2>1. i \in 1 .. Len(s) /\ (s \o t)[i] = s[i]
      BY <1>2, ConcatProperties, LenProperties, SMT
    <2>2. QED
      BY <1>1, <2>1 DEF Carries
  <1>3. CASE i > Len(s)
    <2>1. i - Len(s) \in 1 .. Len(t) /\ (s \o t)[i] = t[i - Len(s)]
      BY <1>3, ConcatProperties, LenProperties, SMT
    <2>2. QED
      BY <1>1, <2>1 DEF Carries
  <1>4. QED
    BY <1>2, <1>3, LenProperties, SMT

(* Only a cell info frame carries cell info.                               *)
LEMMA FrameCarries ==
  ASSUME NEW f \in Frames, Carries(FrameUnits(f))
  PROVE  f.type = "cell_info"
  <1>1. PICK i \in 1 .. Len(FrameUnits(f)) : FrameUnits(f)[i].frame.type = "cell_info"
    BY DEF Carries
  <1>2. FrameUnits(f)[i] = Unit(f, i)
    BY <1>1, FrameUnitsProperties
  <1>3. QED
    BY <1>1, <1>2 DEF Unit

(* The empty buffer carries none.                                          *)
LEMMA EmptyCarries == ~Carries(<< >>)
  BY EmptySeq, SMT DEF Carries

(* A request other than cell info puts no cell info under way.             *)
LEMMA OtherRequest ==
  ASSUME NEW cmd, cmd # "cell_info", send_command(cmd)
  PROVE  /\ streaming' => streaming
         /\ "cell_info" \in owed' => "cell_info" \in owed
  <1>1. CASE CommandHeard(cmd)
    <2>1. streaming' => streaming
      BY <1>1, Zenon DEF CommandHeard
    <2>2. QED
      BY <1>1, <2>1 DEF CommandHeard
  <1>2. CASE UNCHANGED <<owed, streaming>>
    BY <1>2
  <1>3. QED
    BY <1>1, <1>2 DEF send_command, CommandLost, requests

(* A genuine frame at the head of the buffer is decoded as what it is.     *)
LEMMA GenuineDecoded ==
  ASSUME NEW buf \in Seq(Units), NEW size \in Nat, size >= HeaderSize,
         Len(buf) >= size, Genuine(buf, size)
  PROVE  /\ Types(buf) = {buf[1].frame.type}
         /\ size = SizeOf[buf[1].frame.type]
         /\ buf[1].frame.type = "cell_info" => Carries(buf)
  <1> DEFINE f == buf[1].frame
  <1>0. 1 \in Nat \ {0} /\ 1 \in 1 .. size - 1 + 1 /\ 1 \in 1 .. Len(buf)
    BY SizesAssumption, LenProperties, SMT
  <1>1. f \in Frames
    <2>1. buf[1] \in Units
      BY <1>0, ElementOfSeq
    <2>2. QED
      BY <2>1 DEF Units
  <1>2. SubSeq(buf, 1, size)[1] = buf[1]
    <2>1. SubSeq(buf, 1, size)[1] = buf[1 + 1 - 1]
      BY <1>0, PartProperties
    <2>2. 1 + 1 - 1 = 1
      BY SMT
    <2>3. QED
      BY <2>1, <2>2
  <1>3. size = SizeOf[f.type] /\ SubSeq(buf, 1, size) = FrameUnits(f)
    BY DEF Genuine
  <1>4. FrameUnits(f)[1] = Unit(f, 1)
    BY <1>0, <1>1, <1>3, FrameUnitsProperties, SMT
  <1>5. buf[1] = Unit(f, 1)
    BY <1>2, <1>3, <1>4
  <1>6. buf[1].pos = 1
    BY <1>5 DEF Unit
  <1>7. QED
    BY <1>0, <1>3, <1>6 DEF Types, Carries

(* A fragment that is assembled brings cell info into the buffer, or the   *)
(* initialisation to the request of cell info, only by what arrived.       *)
LEMMA AssembleLayout ==
  ASSUME TypeOK, LayoutInv, NEW frag \in Seq(Units), assemble(frag),
         Carries(frag) => Carries(stream), Carries(stream') => Carries(stream)
  PROVE  LayoutInv'
  <1> DEFINE buf == Kept(frag) \o frag
  <1>1. buf \in Seq(Units) /\ Kept(frag) \in Seq(Units)
    BY KeptProperties, ConcatProperties DEF TypeOK
  <1>2. Carries(buf) => CellInfoUnderway
    <2>1. Carries(Kept(frag)) => Carries(frame_buffer_)
      BY KeptProperties, EmptyCarries DEF TypeOK
    <2>2. Carries(buf) => Carries(Kept(frag)) \/ Carries(frag)
      BY <1>1, ConcatCarries
    <2>3. QED
      BY <2>1, <2>2 DEF CellInfoUnderway
  <1> HIDE DEF buf
  <1>3. CASE frame_buffer_' \in {<< >>, buf} /\ Unaffected
    BY <1>2, <1>3, EmptyCarries
    DEF Unaffected, decoded, requests, LayoutInv, CellInfoUnderway
  <1>4. ASSUME Len(buf) >= HeaderSize, NEW size \in Lengths(buf), InRange(size),
               Len(buf) >= size, Accept(buf, size)
        PROVE  LayoutInv'
    <2> SUFFICES ASSUME forgeries' = 0, CellInfoUnderway'
                 PROVE  protocol_version_' = DeviceVersion
      BY DEF LayoutInv, DeviceVersion
    <2>1. size \in Nat /\ size + 1 \in Nat \ {0} /\ size >= HeaderSize
          /\ Len(buf) \in Nat
      BY <1>1, <1>4, LengthsNatural, LenProperties, SizesAssumption, SMT DEF InRange
    <2>2. Genuine(buf, size) /\ forgeries = 0
      BY <1>4, SMT DEF Accept, TypeOK
    <2>3. /\ Types(buf) = {buf[1].frame.type}
          /\ size = SizeOf[buf[1].frame.type]
          /\ buf[1].frame.type = "cell_info" => Carries(buf)
      BY <1>1, <1>4, <2>1, <2>2, GenuineDecoded
    <2>4. Carries(frame_buffer_') => CellInfoUnderway
      BY <1>1, <1>2, <1>4, <2>1, PartCarries DEF Accept, Rest
    <2>5. decode_(buf[1].frame.type, size)
      BY <1>4, <2>3 DEF Accept
    <2>6. CASE buf[1].frame.type = "device_info"
      <3>1. /\ UNCHANGED protocol_version_ /\ init_state_' = "NEED_SETTINGS"
            /\ send_command("settings")
        BY <2>5, <2>6 DEF decode_, DecodeDeviceInfo
      <3>2. QED
        BY <2>2, <2>4, <3>1, OtherRequest DEF CellInfoUnderway, LayoutInv
    <2>7. CASE buf[1].frame.type = "settings"
      BY <2>3, <2>5, <2>7 DEF decode_, DecodeSettings, VersionOf, DeviceVersion
    <2>8. CASE buf[1].frame.type = "cell_info"
      BY <1>2, <2>2, <2>3, <2>5, <2>8 DEF decode_, DecodeCellInfo, LayoutInv
    <2>9. CASE buf[1].frame.type \notin {"device_info", "settings", "cell_info"}
      <3>1. UNCHANGED <<init_state_, protocol_version_, requests>>
        BY <2>5, <2>9 DEF decode_
      <3>2. QED
        BY <2>2, <2>4, <3>1 DEF CellInfoUnderway, LayoutInv, requests
    <2>10. QED
      BY <2>6, <2>7, <2>8, <2>9
  <1>5. QED
    BY <1>3, <1>4 DEF assemble, Wait, Drop, buf

(* Cell info is never decoded in the layout of the other version.          *)
THEOREM LayoutStaysKnown == Spec => []LayoutKnown
  <1>1. Init => LayoutInv
    BY EmptyCarries DEF Init, LayoutInv, CellInfoUnderway
  <1>2. TypeOK /\ LayoutInv /\ [Next]_vars => LayoutInv'
    <2> SUFFICES ASSUME TypeOK, LayoutInv, [Next]_vars PROVE LayoutInv'
      OBVIOUS
    <2>1. CASE Update
      <3>1. UNCHANGED <<stream, frame_buffer_, init_state_, protocol_version_, forgeries>>
        BY <2>1 DEF Update
      <3>2. ASSUME NEW cmd \in Requests[init_state_], send_command(cmd)
            PROVE  LayoutInv'
        <4>1. cmd = "cell_info" => init_state_ = "NEED_CELL_INFO"
          BY <3>2 DEF Requests, TypeOK, InitStates
        <4>2. CASE cmd = "cell_info"
          BY <3>1, <4>1, <4>2 DEF LayoutInv, CellInfoUnderway, DeviceVersion
        <4>3. CASE cmd # "cell_info"
          BY <3>1, <3>2, <4>3, OtherRequest
          DEF LayoutInv, CellInfoUnderway, DeviceVersion
        <4>4. QED
          BY <4>2, <4>3
      <3>3. CASE UNCHANGED requests
        BY <3>1, <3>3 DEF requests, LayoutInv, CellInfoUnderway, DeviceVersion
      <3>4. QED
        BY <2>1, <3>2, <3>3 DEF Update
    <2>2. CASE SearchCmpl
      BY <2>2 DEF SearchCmpl, requests, decoded, LayoutInv, CellInfoUnderway,
                  DeviceVersion
    <2>3. CASE RegForNotify
      BY <2>3 DEF RegForNotify, requests, LayoutInv, CellInfoUnderway, DeviceVersion
    <2>4. CASE Disconnect
      BY <2>4, EmptyCarries DEF Disconnect, LayoutInv, CellInfoUnderway
    <2>5. ASSUME NEW n \in FragmentSizes, Notify(n) PROVE LayoutInv'
      <3>1. /\ n \in Nat \ {0} /\ n <= Len(stream)
            /\ SubSeq(stream, 1, n) \in Seq(Units)
        BY FragmentProperties DEF TypeOK
      <3>2. 1 \in Nat \ {0} /\ n + 1 \in Nat \ {0} /\ Len(stream) \in Nat
            /\ Len(stream) <= Len(stream)
        BY <3>1, LenProperties, SMT DEF TypeOK
      <3>3. Carries(SubSeq(stream, 1, n)) => Carries(stream)
        BY <3>1, <3>2, PartCarries DEF TypeOK
      <3>4. Carries(stream') => Carries(stream)
        BY <2>5, <3>2, PartCarries DEF Notify, Leave, TypeOK
      <3>5. QED
        BY <2>5, <3>1, <3>3, <3>4, AssembleLayout DEF Notify
    <2>6. ASSUME NEW cmd \in ControlCommands, UseControl(cmd) PROVE LayoutInv'
      <3>1. cmd # "cell_info"
        BY CommandsAssumption
      <3>2. QED
        BY <2>6, <3>1, OtherRequest
        DEF UseControl, decoded, LayoutInv, CellInfoUnderway, DeviceVersion
    <2>7. CASE Open
      BY <2>7 DEF Open, requests, decoded, LayoutInv, CellInfoUnderway, DeviceVersion
    <2>8. CASE Tick
      BY <2>8 DEF Tick, requests, LayoutInv, CellInfoUnderway, DeviceVersion
    <2>9. ASSUME NEW type \in FrameTypes, SendFrame(type) PROVE LayoutInv'
      <3> DEFINE f == [type |-> type, serial |-> serial]
      <3>1. f \in Frames
        BY DEF Frames, TypeOK
      <3>2. Carries(FrameUnits(f)) => type = "cell_info"
        BY <3>1, FrameCarries
      <3>3. Carries(stream') => Carries(stream) \/ type = "cell_info"
        BY <2>9, <3>1, <3>2, FrameUnitsProperties, ConcatCarries DEF SendFrame, TypeOK
      <3>4. type = "cell_info" => CellInfoUnderway
        BY <2>9 DEF SendFrame, CellInfoUnderway
      <3>5. QED
        BY <2>9, <3>3, <3>4
        DEF SendFrame, decoded, LayoutInv, CellInfoUnderway, DeviceVersion
    <2>10. ASSUME NEW n \in FragmentSizes, LoseFragment(n) PROVE LayoutInv'
      <3>1. n + 1 \in Nat \ {0} /\ Len(stream) \in Nat /\ Len(stream) <= Len(stream)
        BY LenProperties, FragmentProperties, SMT DEF TypeOK
      <3>2. Carries(stream') => Carries(stream)
        BY <2>10, <3>1, PartCarries DEF LoseFragment, Leave, TypeOK
      <3>3. QED
        BY <2>10, <3>2
        DEF LoseFragment, decoded, LayoutInv, CellInfoUnderway, DeviceVersion
    <2>11. CASE UNCHANGED vars
      BY <2>11 DEF vars, requests, decoded, LayoutInv, CellInfoUnderway, DeviceVersion
    <2>12. QED
      BY <2>1, <2>2, <2>3, <2>4, <2>5, <2>6, <2>7, <2>8, <2>9, <2>10, <2>11
      DEF Next, Component, Environment
  <1>3. LayoutInv => LayoutKnown
    BY DEF LayoutInv, LayoutKnown, CellInfoUnderway, Carries
  <1>4. QED
    BY <1>1, <1>2, <1>3, TypeCorrect, PTL DEF Spec

-----------------------------------------------------------------------------
(***************************************************************************)
(* Reassembly.                                                             *)
(***************************************************************************)
(* What is on its way is the end of one frame, of which k units left.      *)
Behind(f, k) ==
  /\ k + Len(stream) = SizeOf[f.type]
  /\ \A i \in 1 .. Len(stream) : stream[i] = Unit(f, k + i)

OneFrame == stream = << >> \/ \E f \in Frames : \E k \in Nat : Behind(f, k)

OneFrameInv == MaxQueued = 1 => OneFrame

LEMMA SizesNatural ==
  ASSUME NEW f \in Frames
  PROVE  SizeOf[f.type] \in Nat /\ SizeOf[f.type] >= HeaderSize /\ InRange(SizeOf[f.type])
  <1>1. SizeOf[f.type] \in MinResponseSize .. MaxResponseSize
    BY SizesAssumption DEF Frames
  <1>2. QED
    BY <1>1, SizesAssumption, SMT DEF InRange

LEMMA SomeUnits ==
  ASSUME NEW s \in Seq(Units), s # << >> PROVE Len(s) \in Nat \ {0} /\ 1 \in 1 .. Len(s)
  <1>1. Len(s) \in Nat /\ Len(s) # 0
    BY EmptySeq, LenProperties
  <1>2. QED
    BY <1>1, SMT

(* Where a frame begins among the units on their way.                      *)
Begins == {i \in 1 .. Len(stream) : i = 1 \/ stream[i].pos = 1}

LEMMA BeginsFinite ==
  ASSUME TypeOK PROVE IsFiniteSet(Begins) /\ Cardinality(Begins) \in Nat
  <1>1. Len(stream) \in Nat
    BY LenProperties DEF TypeOK
  <1>2. IsFiniteSet(1 .. Len(stream))
    BY <1>1, FS_Interval, SMT
  <1>3. Begins \subseteq 1 .. Len(stream)
    BY DEF Begins
  <1>4. IsFiniteSet(Begins)
    BY <1>2, <1>3, FS_Subset
  <1>5. QED
    BY <1>4, FS_CardinalityType

(* A balancer that queues no second frame sends one only behind the last.  *)
LEMMA SendsAlone ==
  ASSUME TypeOK, MaxQueued = 1, FramesUnderway < MaxQueued PROVE stream = << >>
  <1> SUFFICES ASSUME stream # << >> PROVE FALSE
    OBVIOUS
  <1>1. 1 \in Begins
    BY SomeUnits DEF TypeOK, Begins
  <1>2. Cardinality(Begins) # 0
    BY <1>1, BeginsFinite, FS_EmptySet
  <1>3. Cardinality(Begins) < 1
    BY DEF FramesUnderway, Begins
  <1>4. QED
    BY <1>2, <1>3, BeginsFinite, SMT

(* What is left of the units on their way when n of them leave.            *)
LEMMA RestUnits ==
  ASSUME TypeOK, NEW n \in FragmentSizes, stream' = SubSeq(stream, n + 1, Len(stream))
  PROVE  /\ n \in Nat \ {0} /\ n <= Len(stream) /\ Len(stream) \in Nat
         /\ Len(stream') = Len(stream) - n /\ Len(stream') \in Nat
         /\ \A i \in 1 .. Len(stream') : n + i \in 1 .. Len(stream) /\ stream'[i] = stream[n + i]
  <1> DEFINE rest == SubSeq(stream, n + 1, Len(stream))
  <1>1. stream \in Seq(Units) /\ n \in Nat \ {0} /\ n <= Len(stream) /\ Len(stream) \in Nat
    BY FragmentProperties, LenProperties DEF TypeOK
  <1>2. n + 1 \in Nat \ {0} /\ Len(stream) <= Len(stream)
    BY <1>1, SMT
  <1>3. /\ Len(rest) = IF n + 1 <= Len(stream) THEN Len(stream) - (n + 1) + 1 ELSE 0
        /\ \A i \in 1 .. Len(stream) - (n + 1) + 1 : rest[i] = stream[n + 1 + i - 1]
    BY <1>1, <1>2, PartProperties
  <1>4. stream' = rest
    OBVIOUS
  <1> HIDE DEF rest
  <1>5. Len(rest) = Len(stream) - n /\ Len(rest) \in Nat
    BY <1>1, <1>3, SMT
  <1>6. ASSUME NEW i \in 1 .. Len(rest)
        PROVE  n + i \in 1 .. Len(stream) /\ rest[i] = stream[n + i]
    <2>1. /\ i \in 1 .. Len(stream) - (n + 1) + 1 /\ n + 1 + i - 1 = n + i
          /\ n + i \in 1 .. Len(stream)
      BY <1>1, <1>5, SMT
    <2>2. QED
      BY <1>3, <2>1
  <1>7. QED
    BY <1>1, <1>4, <1>5, <1>6

(* Whatever leaves of one frame, the rest is still its end.                *)
LEMMA RestBehind ==
  ASSUME TypeOK, NEW f \in Frames, NEW k \in Nat, Behind(f, k),
         NEW n \in FragmentSizes, stream' = SubSeq(stream, n + 1, Len(stream))
  PROVE  Behind(f, k + n)' /\ k + n \in Nat
  <1>1. /\ n \in Nat \ {0} /\ n <= Len(stream) /\ Len(stream) \in Nat
        /\ Len(stream') = Len(stream) - n
        /\ \A i \in 1 .. Len(stream') : n + i \in 1 .. Len(stream) /\ stream'[i] = stream[n + i]
    BY RestUnits
  <1>2. k + n \in Nat /\ n \in Nat
    BY <1>1, SMT
  <1>3. k + n + Len(stream') = k + Len(stream)
    <2>1. \A a, b, c \in Nat : c <= b => a + c + (b - c) = a + b
      BY SMT
    <2>2. k + n + (Len(stream) - n) = k + Len(stream)
      BY <1>1, <1>2, <2>1, Zenon
    <2>3. QED
      BY <1>1, <2>2, Zenon
  <1>4. ASSUME NEW i \in 1 .. Len(stream') PROVE stream'[i] = Unit(f, k + n + i)
    <2>1. k + (n + i) = k + n + i
      BY <1>2, SMT
    <2>2. QED
      BY <1>1, <2>1 DEF Behind
  <1>5. QED
    BY <1>2, <1>3, <1>4 DEF Behind

LEMMA OneFrameInvariant == Spec => []OneFrameInv
  <1>1. Init => OneFrameInv
    BY DEF Init, OneFrameInv, OneFrame
  <1>2. TypeOK /\ OneFrameInv /\ [Next]_vars => OneFrameInv'
    <2> SUFFICES ASSUME TypeOK, OneFrameInv, [Next]_vars, MaxQueued = 1 PROVE OneFrame'
      BY DEF OneFrameInv
    <2>1. ASSUME NEW n \in FragmentSizes, Leave(n) PROVE OneFrame'
      <3>1. stream' = SubSeq(stream, n + 1, Len(stream)) /\ stream # << >>
        BY <2>1, EmptySeq, SMT DEF Leave, FragmentSizes
      <3>2. PICK f \in Frames : \E k \in Nat : Behind(f, k)
        BY <3>1 DEF OneFrameInv, OneFrame
      <3>3. PICK k \in Nat : Behind(f, k)
        BY <3>2
      <3>4. Behind(f, k + n)' /\ k + n \in Nat
        BY <3>1, <3>3, RestBehind
      <3>5. QED
        BY <3>4 DEF OneFrame
    <2>2. ASSUME NEW type \in FrameTypes, SendFrame(type) PROVE OneFrame'
      <3>1. PICK f \in Frames : f = [type |-> type, serial |-> serial]
        BY DEF Frames, TypeOK
      <3>2. /\ FrameUnits(f) \in Seq(Units) /\ Len(FrameUnits(f)) = SizeOf[f.type]
            /\ \A i \in 1 .. SizeOf[f.type] : FrameUnits(f)[i] = Unit(f, i)
        BY <3>1, FrameUnitsProperties
      <3>3. stream = << >> /\ stream' = stream \o FrameUnits(f)
        BY <2>2, <3>1, SendsAlone DEF SendFrame
      <3>4. stream' = FrameUnits(f)
        BY <3>2, <3>3, ConcatEmptySeq
      <3>5. SizeOf[f.type] \in Nat
        BY <3>1, SizesNatural
      <3>6. 0 + SizeOf[f.type] = SizeOf[f.type] /\ \A i \in 1 .. SizeOf[f.type] : 0 + i = i
        BY <3>5, SMT
      <3>7. Behind(f, 0)'
        BY <3>2, <3>4, <3>6 DEF Behind
      <3>8. QED
        BY <3>1, <3>7 DEF OneFrame
    <2>3. CASE stream' = << >>
      BY <2>3 DEF OneFrame
    <2>4. CASE UNCHANGED stream
      BY <2>4 DEF OneFrameInv, OneFrame, Behind
    <2>5. QED
      BY <2>1, <2>2, <2>3, <2>4
      DEF Next, Component, Environment, Update, SearchCmpl, RegForNotify, Disconnect,
          Notify, UseControl, Open, Tick, LoseFragment, vars
  <1>3. QED
    BY <1>1, <1>2, TypeCorrect, PTL DEF Spec

(* What a prefix of a frame is made of.                                    *)
LEMMA PrefixProperties ==
  ASSUME NEW f \in Frames, NEW n \in Nat, n <= SizeOf[f.type]
  PROVE  /\ Prefix(f, n) \in Seq(Units) /\ Len(Prefix(f, n)) = n
         /\ \A i \in 1 .. n : Prefix(f, n)[i] = Unit(f, i)
  <1>1. /\ FrameUnits(f) \in Seq(Units) /\ Len(FrameUnits(f)) = SizeOf[f.type]
        /\ \A i \in 1 .. SizeOf[f.type] : FrameUnits(f)[i] = Unit(f, i)
        /\ SizeOf[f.type] \in Nat
    BY FrameUnitsProperties, SizesNatural
  <1>2. 1 \in Nat \ {0}
    BY SMT
  <1>3. /\ SubSeq(FrameUnits(f), 1, n) \in Seq(Units)
        /\ Len(SubSeq(FrameUnits(f), 1, n)) = IF 1 <= n THEN n - 1 + 1 ELSE 0
        /\ \A i \in 1 .. n - 1 + 1 :
             SubSeq(FrameUnits(f), 1, n)[i] = FrameUnits(f)[1 + i - 1]
    BY <1>1, <1>2, PartProperties
  <1>4. Len(Prefix(f, n)) = n
    BY <1>3, SMT DEF Prefix
  <1>5. ASSUME NEW i \in 1 .. n PROVE Prefix(f, n)[i] = Unit(f, i)
    <2>1. i \in 1 .. n - 1 + 1 /\ 1 + i - 1 = i /\ i \in 1 .. SizeOf[f.type]
      BY <1>1, SMT
    <2>2. QED
      BY <1>1, <1>3, <2>1 DEF Prefix
  <1>6. QED
    BY <1>3, <1>4, <1>5 DEF Prefix

(* A fragment that arrives in step extends the prefix in the buffer.       *)
LEMMA FragmentExtendsPrefix ==
  ASSUME TypeOK, NEW f \in Frames, NEW k \in Nat, Behind(f, k), NEW n \in FragmentSizes,
         k > 0 => frame_buffer_ = Prefix(f, k)
  PROVE  LET frag == SubSeq(stream, 1, n) IN
         Kept(frag) \o frag = Prefix(f, k + n) /\ k + n \in Nat /\ k + n <= SizeOf[f.type]
  <1> DEFINE frag == SubSeq(stream, 1, n)
             kept == Kept(frag)
  <1>1. /\ n \in Nat \ {0} /\ n <= Len(stream) /\ Len(stream) \in Nat
        /\ frag \in Seq(Units) /\ Len(frag) = n
    BY FragmentProperties, LenProperties DEF TypeOK
  <1>2. SizeOf[f.type] \in Nat /\ k + Len(stream) = SizeOf[f.type]
    BY SizesNatural DEF Behind
  <1>3. k + n \in Nat /\ k + n <= SizeOf[f.type] /\ k <= SizeOf[f.type]
    BY <1>1, <1>2, SMT
  <1>4. ASSUME NEW i \in 1 .. n PROVE frag[i] = Unit(f, k + i)
    <2>1. i \in 1 .. n - 1 + 1 /\ 1 + i - 1 = i /\ i \in 1 .. Len(stream) /\ 1 \in Nat \ {0}
      BY <1>1, SMT
    <2>2. frag[i] = stream[i]
      BY <1>1, <2>1, PartProperties DEF TypeOK
    <2>3. QED
      BY <2>1, <2>2 DEF Behind
  <1>5. frag[1].pos = k + 1
    <2>1. 1 \in 1 .. n
      BY <1>1, SMT
    <2>2. frag[1] = Unit(f, k + 1)
      BY <1>4, <2>1
    <2> HIDE DEF frag
    <2>3. QED
      BY <2>2 DEF Unit
  <1> HIDE DEF frag
  <1>6. kept \in Seq(Units) /\ Len(kept) = k /\ \A i \in 1 .. k : kept[i] = Unit(f, i)
    <2>1. CASE k = 0
      <3>1. kept = << >>
        BY <1>5, <2>1, SMT DEF Kept, StartsWithPreamble
      <3>2. QED
        BY <2>1, <3>1, EmptySeq, SMT
    <2>2. CASE k > 0
      <3>1. kept = frame_buffer_
        BY <1>5, <2>2, SMT DEF Kept, StartsWithPreamble
      <3>2. QED
        BY <1>3, <2>2, <3>1, PrefixProperties
    <2>3. QED
      BY <2>1, <2>2, SMT
  <1> HIDE DEF kept
  <1>7. /\ kept \o frag \in Seq(Units) /\ Len(kept \o frag) = k + n
        /\ \A i \in 1 .. k + n :
             (kept \o frag)[i] = IF i <= k THEN kept[i] ELSE frag[i - k]
    BY <1>1, <1>6, ConcatProperties
  <1>8. /\ Prefix(f, k + n) \in Seq(Units) /\ Len(Prefix(f, k + n)) = k + n
        /\ \A i \in 1 .. k + n : Prefix(f, k + n)[i] = Unit(f, i)
    BY <1>3, PrefixProperties
  <1>9. ASSUME NEW i \in 1 .. k + n PROVE (kept \o frag)[i] = Prefix(f, k + n)[i]
    <2>1. CASE i <= k
      <3>1. i \in 1 .. k
        BY <2>1, SMT
      <3>2. QED
        BY <1>6, <1>7, <1>8, <2>1, <3>1
    <2>2. CASE ~(i <= k)
      <3>1. i - k \in 1 .. n /\ k + (i - k) = i
        BY <1>1, <2>2, SMT
      <3>2. frag[i - k] = Unit(f, i)
        BY <1>4, <3>1
      <3>3. QED
        BY <1>7, <1>8, <2>2, <3>2
    <2>3. QED
      BY <2>1, <2>2
  <1>10. kept \o frag = Prefix(f, k + n)
    BY <1>7, <1>8, <1>9, SeqEqual
  <1>11. QED
    BY <1>3, <1>10 DEF kept, frag

(* A prefix that is not the whole frame is kept: its length field is right.*)
LEMMA PrefixIsKept ==
  ASSUME NEW f \in Frames, NEW m \in Nat, m < SizeOf[f.type], NEW frag,
         Kept(frag) \o frag = Prefix(f, m), assemble(frag)
  PROVE  frame_buffer_' = Prefix(f, m)
  <1> DEFINE buf == Prefix(f, m)
  <1>1. /\ Len(buf) = m /\ \A i \in 1 .. m : buf[i] = Unit(f, i)
        /\ SizeOf[f.type] \in Nat /\ InRange(SizeOf[f.type]) /\ m <= SizeOf[f.type]
    <2>1. SizeOf[f.type] \in Nat /\ InRange(SizeOf[f.type])
      BY SizesNatural
    <2>2. m <= SizeOf[f.type]
      BY <2>1, SMT
    <2>3. QED
      BY <2>1, <2>2, PrefixProperties
  <1> HIDE DEF buf
  <1>2. CASE Len(buf) < HeaderSize
    <2>1. ~(Len(buf) >= HeaderSize)
      BY <1>1, <1>2, SizesAssumption, SMT
    <2>2. QED
      BY <1>2, <2>1 DEF assemble, Wait, buf
  <1>3. CASE ~(Len(buf) < HeaderSize)
    <2>1. HeaderSize \in 1 .. m
      BY <1>1, <1>3, SizesAssumption, SMT
    <2>2. Lengths(buf) = {SizeOf[f.type]}
      BY <1>1, <2>1 DEF Lengths, Unit
    <2>3. ~(Len(buf) >= SizeOf[f.type])
      BY <1>1, SMT
    <2>4. QED
      BY <1>1, <1>3, <2>2, <2>3 DEF assemble, Wait, buf
  <1>4. QED
    BY <1>2, <1>3 DEF buf

(* When frames come one by one, what is buffered of a frame is what        *)
(* arrived of it, whatever length an earlier torso claimed.                *)
THEOREM ReassemblyStaysInStep == Spec => []ReassemblyInStep
  <1>1. Init => ReassemblyInStep
    BY DEF Init, ReassemblyInStep
  <1>2. TypeOK /\ TypeOK' /\ OneFrameInv /\ OneFrameInv' /\ ReassemblyInStep /\ [Next]_vars
          => ReassemblyInStep'
    <2> SUFFICES ASSUME TypeOK, TypeOK', OneFrameInv, OneFrameInv', ReassemblyInStep,
                        [Next]_vars, MaxQueued = 1, intact', stream' # << >>,
                        stream'[1].pos > 1
                 PROVE  frame_buffer_' = Prefix(stream'[1].frame, stream'[1].pos - 1)
      BY DEF ReassemblyInStep, Prefix, FrameUnits
    <2>1. ASSUME NEW n \in FragmentSizes, Notify(n)
          PROVE  frame_buffer_' = Prefix(stream'[1].frame, stream'[1].pos - 1)
      <3>1. /\ stream # << >> /\ stream \in Seq(Units)
            /\ stream' = SubSeq(stream, n + 1, Len(stream))
        BY <2>1, EmptySeq, SMT DEF Notify, Leave, FragmentSizes, TypeOK
      <3>2. PICK f \in Frames : \E k \in Nat : Behind(f, k)
        BY <3>1 DEF OneFrameInv, OneFrame
      <3>3. PICK k \in Nat : Behind(f, k)
        BY <3>2
      <3>4. stream[1] = Unit(f, k + 1)
        BY <3>1, <3>3, SomeUnits DEF Behind
      <3>5. Behind(f, k + n)' /\ k + n \in Nat
        BY <3>1, <3>3, RestBehind
      <3>6. stream'[1] = Unit(f, k + n + 1) /\ Len(stream') \in Nat \ {0}
        BY <3>5, SomeUnits DEF Behind, TypeOK
      <3>7. stream'[1].frame = f /\ stream'[1].pos - 1 = k + n
        BY <3>5, <3>6, SMT DEF Unit
      <3>8. k + n < SizeOf[f.type]
        <4>1. SizeOf[f.type] \in Nat /\ k + n + Len(stream') = SizeOf[f.type]
          BY <3>5, SizesNatural DEF Behind
        <4>2. QED
          BY <3>5, <3>6, <4>1, SMT
      <3>9. ASSUME k > 0 PROVE frame_buffer_ = Prefix(f, k)
        <4>1. stream[1].frame = f /\ stream[1].pos > 1 /\ stream[1].pos # 1
              /\ stream[1].pos - 1 = k
          BY <3>4, <3>9, SMT DEF Unit
        <4>2. intact
          BY <2>1, <4>1 DEF Notify
        <4>3. QED
          BY <3>1, <4>1, <4>2 DEF ReassemblyInStep
      <3> DEFINE frag == SubSeq(stream, 1, n)
      <3>10. Kept(frag) \o frag = Prefix(f, k + n)
        BY <3>3, <3>9, FragmentExtendsPrefix
      <3>11. assemble(frag)
        BY <2>1 DEF Notify
      <3> HIDE DEF frag
      <3>12. frame_buffer_' = Prefix(f, k + n)
        BY <3>5, <3>8, <3>10, <3>11, PrefixIsKept
      <3>13. QED
        BY <3>7, <3>12
    <2>2. ASSUME NEW type \in FrameTypes, SendFrame(type) PROVE FALSE
      <3>0. PICK f \in Frames : f = [type |-> type, serial |-> serial]
        BY DEF Frames, TypeOK
      <3>1. f \in Frames /\ stream = << >> /\ stream' = stream \o FrameUnits(f)
        BY <2>2, <3>0, SendsAlone DEF SendFrame
      <3>2. /\ FrameUnits(f) \in Seq(Units)
            /\ \A i \in 1 .. SizeOf[f.type] : FrameUnits(f)[i] = Unit(f, i)
        BY <3>1, FrameUnitsProperties
      <3>3. stream' = FrameUnits(f)
        BY <3>1, <3>2, ConcatEmptySeq
      <3>4. 1 \in 1 .. SizeOf[f.type]
        BY <3>1, SizesNatural, SizesAssumption, SMT
      <3>5. stream'[1].pos = 1
        <4>1. stream'[1] = Unit(f, 1)
          BY <3>2, <3>3, <3>4
        <4>2. QED
          BY <4>1 DEF Unit
      <3>6. QED
        BY <3>5, SMT
    <2>3. CASE UNCHANGED <<intact, stream, frame_buffer_>>
      BY <2>3 DEF ReassemblyInStep, Prefix, FrameUnits
    <2>4. QED
      BY <2>1, <2>2, <2>3
      DEF Next, Component, Environment, Update, SearchCmpl, RegForNotify, Disconnect,
          UseControl, Open, Tick, LoseFragment, vars
  <1>3. QED
    BY <1>1, <1>2, TypeCorrect, OneFrameInvariant, PTL DEF Spec

(* The units of a whole frame at the head of the buffer are taken for what *)
(* they are: one length, one type, and nothing left behind them.           *)
LEMMA WholeFrameDecoded ==
  ASSUME NEW f \in Frames, NEW frag, Kept(frag) \o frag = Prefix(f, SizeOf[f.type]),
         assemble(frag)
  PROVE  frame_buffer_' = << >> /\ decode_(f.type, SizeOf[f.type])
  <1> DEFINE size == SizeOf[f.type]
             buf == Prefix(f, size)
  <1>1. size \in Nat /\ size >= HeaderSize /\ InRange(size) /\ size <= size
    BY SizesNatural, SMT
  <1>2. buf \in Seq(Units) /\ Len(buf) = size /\ \A i \in 1 .. size : buf[i] = Unit(f, i)
    BY <1>1, PrefixProperties
  <1>3. /\ 1 \in 1 .. size /\ HeaderSize \in 1 .. size
        /\ size + 1 \in Nat \ {0} /\ ~(size + 1 <= size)
        /\ ~(size < HeaderSize) /\ ~(size < size)
    BY <1>1, SizesAssumption, SMT
  <1>4. SubSeq(buf, 1, size) = FrameUnits(f)
    <2>1. FrameUnits(f) \in Seq(Units) /\ Len(FrameUnits(f)) = size
          /\ \A i \in 1 .. size : FrameUnits(f)[i] = Unit(f, i)
      BY FrameUnitsProperties
    <2>2. 1 \in Nat \ {0} /\ (IF 1 <= size THEN size - 1 + 1 ELSE 0) = size
          /\ size - 1 + 1 = size
      BY <1>1, SMT
    <2>3. /\ SubSeq(buf, 1, size) \in Seq(Units) /\ Len(SubSeq(buf, 1, size)) = size
          /\ \A i \in 1 .. size : SubSeq(buf, 1, size)[i] = buf[1 + i - 1]
      BY <1>1, <1>2, <2>2, PartProperties
    <2>4. ASSUME NEW i \in 1 .. size PROVE SubSeq(buf, 1, size)[i] = FrameUnits(f)[i]
      <3>1. 1 + i - 1 = i
        BY SMT
      <3>2. QED
        BY <1>2, <2>1, <2>3, <3>1
    <2> HIDE DEF buf, size
    <2>5. QED
      BY <2>1, <2>3, <2>4, SeqEqual
  <1>5. Len(Rest(buf, size)) = 0 /\ Rest(buf, size) \in Seq(Units)
    <2>1. Len(buf) <= Len(buf) /\ Len(buf) \in Nat
      BY <1>1, <1>2
    <2>2. QED
      BY <1>2, <1>3, <2>1, PartProperties DEF Rest
  <1>6. Rest(buf, size) = << >>
    BY <1>5, EmptySeq
  <1>7. /\ Lengths(buf) = {size} /\ Types(buf) = {f.type} /\ buf[1].frame = f
    <2> HIDE DEF buf
    <2>1. buf[HeaderSize] = Unit(f, HeaderSize) /\ buf[1] = Unit(f, 1)
      BY <1>2, <1>3
    <2>2. QED
      BY <2>1 DEF Lengths, Types, Unit, size
  <1>8. Genuine(buf, size)
    BY <1>4, <1>7 DEF Genuine
  <1> HIDE DEF buf, size
  <1>9. Accept(buf, size)
    <2>1. Kept(frag) \o frag = buf
      BY DEF buf, size
    <2>2. QED
      BY <1>1, <1>2, <1>3, <1>7, <1>8, <2>1 DEF assemble
  <1>10. QED
    BY <1>6, <1>7, <1>9 DEF Accept, size

(* When frames come one by one, the last fragment of a frame of which      *)
(* nothing was lost has it decoded in the same step.                       *)
THEOREM DecodesCompleteFrames == Spec => CompleteFrameIsDecoded
  <1> DEFINE Decoded ==
               LET type == stream[1].frame.type IN
               /\ online' = "online" /\ no_response_count_' = 0 /\ frame_buffer_' = << >>
               /\ type = "device_info" =>
                    init_state_' = "NEED_SETTINGS" /\ telemetry' = "live"
               /\ type = "settings" =>
                    init_state_' = "NEED_CELL_INFO" /\ protocol_version_' = DeviceVersion
               /\ type = "cell_info" =>
                    init_state_' = "READY" /\ (Throttled \/ telemetry' = "live")
  <1>1. TypeOK /\ OneFrameInv /\ ReassemblyInStep /\ [Next]_vars => [Ends => Decoded]_vars
    <2> SUFFICES ASSUME TypeOK, OneFrameInv, ReassemblyInStep, Next, Ends
                 PROVE  Decoded
      OBVIOUS
    <2>1. PICK n \in FragmentSizes : Notify(n)
      <3>1. ASSUME NEW type \in FrameTypes, SendFrame(type) PROVE FALSE
        BY <3>1, SendsAlone DEF SendFrame, Ends
      <3>2. QED
        BY <3>1
        DEF Next, Component, Environment, Update, SearchCmpl, RegForNotify, Disconnect,
            UseControl, Open, Tick, LoseFragment, Ends
    <2>2. /\ stream # << >> /\ stream \in Seq(Units) /\ stream' = << >>
          /\ stream' = SubSeq(stream, n + 1, Len(stream))
      BY <2>1 DEF Notify, Leave, TypeOK, Ends
    <2>3. PICK f \in Frames : \E k \in Nat : Behind(f, k)
      BY <2>2 DEF OneFrameInv, OneFrame, Ends
    <2>4. PICK k \in Nat : Behind(f, k)
      BY <2>3
    <2>5. stream[1].frame = f /\ stream[1].pos = k + 1
      <3>1. stream[1] = Unit(f, k + 1)
        BY <2>2, <2>4, SomeUnits DEF Behind
      <3>2. QED
        BY <3>1 DEF Unit
    <2>6. k + n = SizeOf[f.type]
      <3>1. n \in Nat /\ Len(stream) \in Nat /\ Len(stream') = Len(stream) - n
        BY <2>2, RestUnits
      <3>2. Len(stream') = 0
        BY <2>2, EmptySeq
      <3>3. n = Len(stream)
        BY <3>1, <3>2, SMT
      <3>4. QED
        BY <2>4, <3>3 DEF Behind
    <2>7. ASSUME k > 0 PROVE frame_buffer_ = Prefix(f, k)
      <3>1. /\ stream[1].frame = f /\ stream[1].pos > 1 /\ stream[1].pos # 1
            /\ stream[1].pos - 1 = k
        BY <2>5, <2>7, SMT
      <3>2. intact /\ MaxQueued = 1
        BY <2>1, <3>1 DEF Notify, Ends
      <3>3. QED
        BY <2>2, <3>1, <3>2 DEF ReassemblyInStep
    <2> DEFINE frag == SubSeq(stream, 1, n)
    <2>8. Kept(frag) \o frag = Prefix(f, SizeOf[f.type])
      BY <2>4, <2>6, <2>7, FragmentExtendsPrefix
    <2>9. assemble(frag)
      BY <2>1 DEF Notify
    <2> HIDE DEF frag
    <2>10. frame_buffer_' = << >> /\ decode_(f.type, SizeOf[f.type])
      BY <2>8, <2>9, WholeFrameDecoded
    <2>11. QED
      BY <2>5, <2>10
      DEF decode_, reset_online_status_tracker_, DecodeDeviceInfo, DecodeSettings,
          DecodeCellInfo, decode_cell_info_, VersionOf, DeviceVersion
  <1>2. QED
    BY <1>1, TypeCorrect, OneFrameInvariant, ReassemblyStaysInStep, PTL
    DEF Spec, CompleteFrameIsDecoded

-----------------------------------------------------------------------------
(***************************************************************************)
(* The size of the buffer.                                                 *)
(***************************************************************************)
(* At most two frames are on their way: the end of f, of which k units     *)
(* left and m did not, and maybe all of g.                                 *)
Queued(f, k, m, g) ==
  /\ k + m = SizeOf[f.type] /\ m > 0
  /\ Len(stream) = m \/ Len(stream) = m + SizeOf[g.type]
  /\ \A i \in 1 .. m : stream[i] = Unit(f, k + i)
  /\ Len(stream) # m => \A i \in 1 .. SizeOf[g.type] : stream[m + i] = Unit(g, i)

QueueInv ==
  stream = << >> \/ \E f, g \in Frames : \E k, m \in Nat : Queued(f, k, m, g)

(* What is left after n units left is queued in the same way.              *)
LEMMA RestQueued ==
  ASSUME TypeOK, TypeOK', NEW f \in Frames, NEW g \in Frames, NEW k \in Nat, NEW m \in Nat,
         Queued(f, k, m, g), NEW n \in FragmentSizes,
         stream' = SubSeq(stream, n + 1, Len(stream))
  PROVE  QueueInv'
  <1> DEFINE size == SizeOf[g.type]
  <1>1. /\ n \in Nat /\ n > 0 /\ n <= Len(stream) /\ Len(stream) \in Nat
        /\ Len(stream') = Len(stream) - n /\ Len(stream') \in Nat
        /\ \A i \in 1 .. Len(stream') : n + i \in 1 .. Len(stream) /\ stream'[i] = stream[n + i]
    <2>1. n \in Nat \ {0}
      BY RestUnits
    <2>2. n \in Nat /\ n > 0
      BY <2>1, SMT
    <2>3. QED
      BY <2>2, RestUnits
  <1>2. /\ k + m = SizeOf[f.type] /\ m > 0
        /\ Len(stream) = m \/ Len(stream) = m + size
        /\ \A i \in 1 .. m : stream[i] = Unit(f, k + i)
        /\ Len(stream) # m => \A i \in 1 .. size : stream[m + i] = Unit(g, i)
    BY DEF Queued
  <1>3. size \in Nat
    BY SizesNatural
  <1> HIDE DEF size
  <1>4. CASE Len(stream') = 0
    BY <1>4, EmptySeq DEF QueueInv, TypeOK
  <1>5. CASE n < m
    <2>1. PICK k1 \in Nat, m1 \in Nat : k1 = k + n /\ n + m1 = m
      <3>1. k + n \in Nat /\ m - n \in Nat /\ n + (m - n) = m
        BY <1>1, <1>5, SMT
      <3>2. QED
        BY <3>1
    <2>2. /\ k1 + m1 = SizeOf[f.type] /\ m1 > 0
          /\ Len(stream') = m1 \/ Len(stream') = m1 + size
          /\ Len(stream') # m1 => Len(stream) # m
      <3>1. k1 + m1 = k + m /\ m1 > 0
        BY <1>1, <1>5, <2>1, SMT
      <3>2. Len(stream) = m <=> Len(stream') = m1
        BY <1>1, <2>1, SMT
      <3>3. Len(stream) = m + size => Len(stream') = m1 + size
        BY <1>1, <1>3, <2>1, SMT
      <3>4. QED
        BY <1>2, <3>1, <3>2, <3>3
    <2>3. ASSUME NEW i \in 1 .. m1 PROVE stream'[i] = Unit(f, k1 + i)
      <3>1. PICK j \in 1 .. m : j = n + i /\ k + j = k1 + i
        BY <1>1, <2>1, SMT
      <3>2. i \in 1 .. Len(stream')
        BY <1>1, <1>3, <2>1, <2>2, SMT
      <3>3. stream'[i] = stream[j]
        BY <1>1, <3>1, <3>2
      <3>4. stream[j] = Unit(f, k + j)
        BY <1>2, <3>1
      <3>5. QED
        BY <3>1, <3>3, <3>4
    <2>4. ASSUME Len(stream') # m1, NEW i \in 1 .. size PROVE stream'[m1 + i] = Unit(g, i)
      <3>1. stream[m + i] = Unit(g, i)
        BY <1>2, <2>2, <2>4
      <3>2. PICK j \in 1 .. Len(stream') : j = m1 + i /\ n + j = m + i
        BY <1>1, <1>3, <2>1, <2>2, <2>4, SMT
      <3>3. stream'[j] = stream[n + j]
        BY <1>1
      <3>4. QED
        BY <3>1, <3>2, <3>3
    <2>5. Queued(f, k1, m1, g)'
      BY <2>2, <2>3, <2>4 DEF Queued, size
    <2>6. QED
      BY <2>1, <2>5 DEF QueueInv
  <1>6. CASE ~(n < m) /\ Len(stream') # 0
    <2>1. /\ Len(stream) = m + size /\ Len(stream) # m
          /\ \E j, r \in Nat : n = m + j /\ j + r = size
      <3>1. Len(stream) = m + size /\ Len(stream) # m
        BY <1>1, <1>2, <1>3, <1>6, SMT
      <3>2. /\ n - m \in Nat /\ m + size - n \in Nat
            /\ n = m + (n - m) /\ n - m + (m + size - n) = size
        BY <1>1, <1>3, <1>6, <3>1, SMT
      <3>3. QED
        BY <3>1, <3>2
    <2>2. PICK j \in Nat, r \in Nat : n = m + j /\ j + r = size
      BY <2>1
    <2>3. Len(stream') = r /\ r > 0
      BY <1>1, <1>3, <1>6, <2>1, <2>2, SMT
    <2>4. ASSUME NEW i \in 1 .. r PROVE stream'[i] = Unit(g, j + i)
      <3>1. PICK x \in 1 .. size : x = j + i /\ n + i = m + x
        BY <1>3, <2>2, SMT
      <3>2. stream'[i] = stream[n + i]
        BY <1>1, <2>3
      <3>3. stream[m + x] = Unit(g, x)
        BY <1>2, <2>1
      <3>4. QED
        BY <3>1, <3>2, <3>3
    <2>5. Queued(g, j, r, g)'
      BY <2>2, <2>3, <2>4 DEF Queued, size
    <2>6. QED
      BY <2>2, <2>5 DEF QueueInv
  <1>7. QED
    BY <1>4, <1>5, <1>6

(* A frame is sent behind one frame at most.                               *)
LEMMA SendQueued ==
  ASSUME TypeOK, QueueInv, NEW h \in Frames, FramesUnderway < MaxQueued,
         stream' = stream \o FrameUnits(h)
  PROVE  QueueInv'
  <1> DEFINE units == FrameUnits(h)
             size == SizeOf[h.type]
  <1>1. /\ units \in Seq(Units) /\ Len(units) = size
        /\ \A i \in 1 .. size : units[i] = Unit(h, i)
        /\ size \in Nat /\ size > 0
        /\ stream \in Seq(Units) /\ Len(stream) \in Nat
    <2>1. size \in Nat /\ size > 0
      BY SizesNatural, SizesAssumption, SMT
    <2>2. QED
      BY <2>1, FrameUnitsProperties, LenProperties DEF TypeOK
  <1>2. stream' = stream \o units
    OBVIOUS
  <1> HIDE DEF units
  <1>3. CASE stream = << >>
    <2>1. stream' = units
      BY <1>1, <1>2, <1>3, ConcatEmptySeq
    <2>2. 0 + size = size /\ 0 \in Nat /\ \A i \in 1 .. size : 0 + i = i
      BY <1>1, SMT
    <2>3. Queued(h, 0, size, h)'
      BY <1>1, <2>1, <2>2 DEF Queued
    <2>4. QED
      BY <1>1, <2>2, <2>3 DEF QueueInv
  <1>4. CASE stream # << >>
    <2>1. PICK f \in Frames, g \in Frames, k \in Nat, m \in Nat : Queued(f, k, m, g)
      BY <1>4 DEF QueueInv
    <2>2. /\ k + m = SizeOf[f.type] /\ m > 0
          /\ Len(stream) = m \/ Len(stream) = m + SizeOf[g.type]
          /\ \A i \in 1 .. m : stream[i] = Unit(f, k + i)
          /\ Len(stream) # m => \A i \in 1 .. SizeOf[g.type] : stream[m + i] = Unit(g, i)
      BY <2>1 DEF Queued
    <2>3. Len(stream) = m
      <3> SUFFICES ASSUME Len(stream) # m PROVE FALSE
        OBVIOUS
      <3>1. SizeOf[g.type] \in Nat /\ SizeOf[g.type] > 0
        BY SizesNatural, SizesAssumption, SMT
      <3>2. /\ m + 1 \in 1 .. Len(stream) /\ m + 1 # 1 /\ 1 \in 1 .. SizeOf[g.type]
            /\ 1 \in 1 .. Len(stream)
        BY <2>2, <3>1, SMT
      <3>3. stream[m + 1] = Unit(g, 1)
        BY <2>2, <3>2
      <3>4. 1 \in Begins /\ m + 1 \in Begins
        BY <3>2, <3>3 DEF Begins, Unit
      <3>5. Cardinality(Begins) # 0 /\ Cardinality(Begins) # 1
        BY <3>2, <3>4, BeginsFinite, FS_EmptySet, FS_Singleton
      <3>6. Cardinality(Begins) < MaxQueued
        BY DEF FramesUnderway, Begins
      <3>7. QED
        BY <3>5, <3>6, BeginsFinite, BoundsAssumption, SMT
    <2>4. /\ Len(stream') = m + size
          /\ \A i \in 1 .. m + size : stream'[i] = IF i <= m THEN stream[i] ELSE units[i - m]
      <3> DEFINE longer == stream \o units
      <3>1. /\ Len(longer) = Len(stream) + Len(units)
            /\ \A i \in 1 .. Len(stream) + Len(units) :
                 longer[i] = IF i <= Len(stream) THEN stream[i] ELSE units[i - Len(stream)]
        BY <1>1, ConcatProperties
      <3>2. stream' = longer /\ Len(units) = size
        BY <1>1, <1>2
      <3> HIDE DEF longer, size
      <3>3. QED
        BY <2>3, <3>1, <3>2
    <2>5. ASSUME NEW i \in 1 .. m PROVE stream'[i] = Unit(f, k + i)
      <3>1. i \in 1 .. m + size /\ i <= m
        BY <1>1, SMT
      <3>2. QED
        BY <2>2, <2>4, <3>1
    <2>6. ASSUME NEW i \in 1 .. size PROVE stream'[m + i] = Unit(h, i)
      <3>1. PICK j \in 1 .. m + size : j = m + i /\ ~(j <= m) /\ j - m = i
        BY <1>1, SMT
      <3>2. QED
        BY <1>1, <2>4, <3>1
    <2>7. Queued(f, k, m, h)'
      BY <2>2, <2>4, <2>5, <2>6 DEF Queued
    <2>8. QED
      BY <2>7 DEF QueueInv
  <1>5. QED
    BY <1>3, <1>4

LEMMA QueueInvariant == Spec => []QueueInv
  <1>1. Init => QueueInv
    BY DEF Init, QueueInv
  <1>2. TypeOK /\ TypeOK' /\ QueueInv /\ [Next]_vars => QueueInv'
    <2> SUFFICES ASSUME TypeOK, TypeOK', QueueInv, [Next]_vars PROVE QueueInv'
      OBVIOUS
    <2>1. ASSUME NEW n \in FragmentSizes, Leave(n) PROVE QueueInv'
      <3>1. stream' = SubSeq(stream, n + 1, Len(stream)) /\ stream # << >>
        BY <2>1, EmptySeq, SMT DEF Leave, FragmentSizes
      <3>2. PICK f \in Frames, g \in Frames, k \in Nat, m \in Nat : Queued(f, k, m, g)
        BY <3>1 DEF QueueInv
      <3>3. QED
        BY <3>1, <3>2, RestQueued
    <2>2. ASSUME NEW type \in FrameTypes, SendFrame(type) PROVE QueueInv'
      <3>1. PICK h \in Frames : h = [type |-> type, serial |-> serial]
        BY DEF Frames, TypeOK
      <3>2. FramesUnderway < MaxQueued /\ stream' = stream \o FrameUnits(h)
        BY <2>2, <3>1 DEF SendFrame
      <3>3. QED
        BY <3>2, SendQueued
    <2>3. CASE stream' = << >>
      BY <2>3 DEF QueueInv
    <2>4. CASE UNCHANGED stream
      <3>1. CASE stream # << >>
        <4>1. PICK f \in Frames, g \in Frames, k \in Nat, m \in Nat : Queued(f, k, m, g)
          BY <3>1 DEF QueueInv
        <4>2. Queued(f, k, m, g)'
          BY <2>4, <4>1 DEF Queued
        <4>3. QED
          BY <4>2 DEF QueueInv
      <3>2. QED
        BY <2>4, <3>1 DEF QueueInv
    <2>5. QED
      BY <2>1, <2>2, <2>3, <2>4
      DEF Next, Component, Environment, Update, SearchCmpl, RegForNotify, Disconnect,
          Notify, UseControl, Open, Tick, LoseFragment, vars
  <1>3. QED
    BY <1>1, <1>2, TypeCorrect, PTL DEF Spec

(* Behind the end of a frame is nothing or all of another one.             *)
LEMMA BehindFrameEnd ==
  ASSUME TypeOK, QueueInv, NEW j \in 1 .. Len(stream), NEW f \in Frames,
         stream[j] = Unit(f, SizeOf[f.type])
  PROVE  \/ j = Len(stream)
         \/ \E g \in Frames : /\ Len(stream) = j + SizeOf[g.type]
                              /\ \A i \in 1 .. SizeOf[g.type] : stream[j + i] = Unit(g, i)
  <1>1. stream # << >> /\ Len(stream) \in Nat
    BY EmptySeq, LenProperties, SMT DEF TypeOK
  <1>2. PICK e \in Frames, g \in Frames, k \in Nat, m \in Nat : Queued(e, k, m, g)
    BY <1>1 DEF QueueInv
  <1> DEFINE size == SizeOf[g.type]
             whole == SizeOf[f.type]
             first == SizeOf[e.type]
  <1>3. /\ k + m = first /\ m > 0
        /\ Len(stream) = m \/ Len(stream) = m + size
        /\ \A i \in 1 .. m : stream[i] = Unit(e, k + i)
        /\ Len(stream) # m => \A i \in 1 .. size : stream[m + i] = Unit(g, i)
    BY <1>2 DEF Queued
  <1>4. size \in Nat /\ whole \in Nat
    BY SizesNatural
  <1>5. CASE j \in 1 .. m
    <2>1. Unit(f, whole) = Unit(e, k + j)
      BY <1>3, <1>5
    <2>2. f = e /\ whole = k + j
      BY <2>1 DEF Unit
    <2>3. j = m
      BY <1>3, <1>5, <2>2, SMT
    <2>4. QED
      BY <1>3, <2>3
  <1>6. CASE j \notin 1 .. m
    <2>1. Len(stream) # m /\ Len(stream) = m + size
      BY <1>1, <1>3, <1>6, SMT
    <2>2. PICK x \in 1 .. size : j = m + x
      <3> HIDE DEF size
      <3>1. j - m \in 1 .. size /\ j = m + (j - m)
        BY <1>4, <1>6, <2>1, SMT
      <3>2. QED
        BY <3>1
    <2>3. Unit(f, whole) = Unit(g, x)
      BY <1>3, <2>1, <2>2
    <2>4. f = g /\ whole = x
      BY <2>3 DEF Unit
    <2>5. QED
      BY <2>1, <2>2, <2>4
  <1>7. QED
    BY <1>5, <1>6

(* The buffer begins with all of f. *)
Whole(buf, f) ==
  /\ SizeOf[f.type] <= Len(buf)
  /\ \A i \in 1 .. SizeOf[f.type] : buf[i] = Unit(f, i)

(* A frame that arrived whole lies in the buffer alone, and while nothing  *)
(* was lost the next fragment begins with the preamble that clears it.     *)
Alone(f) ==
  /\ Len(frame_buffer_) = SizeOf[f.type]
  /\ losses = 0 /\ stream # << >> => stream[1].pos = 1

BufferInv ==
  forgeries = 0 =>
    /\ Len(frame_buffer_) <= (1 + losses) * MaxResponseSize
    /\ \A f \in Frames : Whole(frame_buffer_, f) => Alone(f)

LEMMA BoundGrows ==
  ASSUME NEW a \in Nat, NEW b \in Nat, a <= b, NEW c \in Nat PROVE a * c <= b * c
  <1>1. PICK d \in Nat : b = a + d
    <2>1. b - a \in Nat /\ b = a + (b - a)
      BY SMT
    <2>2. QED
      BY <2>1
  <1>2. b * c = a * c + d * c
    BY <1>1, SMT
  <1>3. a * c \in Nat /\ d * c \in Nat
    BY SMT
  <1>4. QED
    BY <1>2, <1>3, SMT

LEMMA SizeBounds ==
  /\ MaxResponseSize \in Nat
  /\ \A f \in Frames : SizeOf[f.type] \in Nat /\ SizeOf[f.type] > 0
                       /\ SizeOf[f.type] <= MaxResponseSize
  <1>1. ASSUME NEW f \in Frames
        PROVE  SizeOf[f.type] \in Nat /\ SizeOf[f.type] > 0
               /\ SizeOf[f.type] <= MaxResponseSize
    BY SizesNatural, SizesAssumption, SMT DEF InRange
  <1>2. QED
    BY <1>1, SizesAssumption

(* One frame fits in any case, two as soon as something was lost, and what *)
(* fits goes on to fit.                                                    *)
LEMMA Fits ==
  ASSUME NEW c \in Nat, NEW x \in Nat,
         x <= MaxResponseSize \/ (c # 0 /\ x <= MaxResponseSize + MaxResponseSize)
  PROVE  x <= (1 + c) * MaxResponseSize
  <1>1. 1 + c \in Nat /\ 1 \in Nat /\ 2 \in Nat /\ MaxResponseSize \in Nat
    BY SizesAssumption, SMT
  <1>2. CASE x <= MaxResponseSize
    <2>1. 1 <= 1 + c /\ 1 * MaxResponseSize = MaxResponseSize
      BY <1>1, SMT
    <2>2. 1 * MaxResponseSize <= (1 + c) * MaxResponseSize
      BY <1>1, <2>1, BoundGrows
    <2>3. (1 + c) * MaxResponseSize \in Nat
      BY <1>1, SMT
    <2>4. QED
      BY <1>1, <1>2, <2>1, <2>2, <2>3, SMT
  <1>3. CASE c # 0 /\ x <= MaxResponseSize + MaxResponseSize
    <2>1. 2 <= 1 + c /\ 2 * MaxResponseSize = MaxResponseSize + MaxResponseSize
      BY <1>1, <1>3, SMT
    <2>2. 2 * MaxResponseSize <= (1 + c) * MaxResponseSize
      BY <1>1, <2>1, BoundGrows
    <2>3. (1 + c) * MaxResponseSize \in Nat
      BY <1>1, SMT
    <2>4. QED
      BY <1>1, <1>3, <2>1, <2>2, <2>3, SMT
  <1>4. QED
    BY <1>2, <1>3

LEMMA StillFits ==
  ASSUME NEW c \in Nat, NEW d \in Nat, c <= d, NEW x \in Nat, x <= (1 + c) * MaxResponseSize
  PROVE  x <= (1 + d) * MaxResponseSize
  <1>1. 1 + c \in Nat /\ 1 + d \in Nat /\ 1 + c <= 1 + d /\ MaxResponseSize \in Nat
    BY SizesAssumption, SMT
  <1>2. (1 + c) * MaxResponseSize <= (1 + d) * MaxResponseSize
    BY <1>1, BoundGrows
  <1>3. (1 + c) * MaxResponseSize \in Nat /\ (1 + d) * MaxResponseSize \in Nat
    BY <1>1, SMT
  <1>4. \A a, b \in Nat : x <= a /\ a <= b => x <= b
    BY SMT
  <1>5. QED
    BY <1>2, <1>3, <1>4, Zenon

(* The units of a fragment, of two sequences in a row, and of what is left *)
(* behind a frame.                                                         *)
LEMMA FragmentUnits ==
  ASSUME TypeOK, NEW n \in FragmentSizes
  PROVE  LET frag == SubSeq(stream, 1, n) IN
         /\ frag \in Seq(Units) /\ Len(frag) = n /\ n \in Nat /\ n > 0 /\ n <= Len(stream)
         /\ \A i \in 1 .. n : frag[i] = stream[i]
  <1> DEFINE frag == SubSeq(stream, 1, n)
  <1>1. /\ n \in Nat \ {0} /\ n <= Len(stream) /\ frag \in Seq(Units) /\ Len(frag) = n
        /\ stream \in Seq(Units)
    BY FragmentProperties DEF TypeOK
  <1>2. 1 \in Nat \ {0} /\ n \in Nat /\ n > 0
    BY <1>1, SMT
  <1>3. \A i \in 1 .. n - 1 + 1 : frag[i] = stream[1 + i - 1]
    BY <1>1, <1>2, PartProperties
  <1>4. ASSUME NEW i \in 1 .. n PROVE frag[i] = stream[i]
    <2>1. i \in 1 .. n - 1 + 1 /\ 1 + i - 1 = i
      BY <1>2, SMT
    <2>2. QED
      BY <1>3, <2>1
  <1>5. QED
    BY <1>1, <1>2, <1>4

LEMMA RowUnits ==
  ASSUME NEW s \in Seq(Units), NEW t \in Seq(Units)
  PROVE  /\ s \o t \in Seq(Units) /\ Len(s \o t) = Len(s) + Len(t)
         /\ \A i \in 1 .. Len(s) : (s \o t)[i] = s[i]
         /\ \A i \in 1 .. Len(t) : (s \o t)[Len(s) + i] = t[i]
  <1> DEFINE row == s \o t
  <1>1. /\ row \in Seq(Units) /\ Len(row) = Len(s) + Len(t)
        /\ \A i \in 1 .. Len(s) + Len(t) : row[i] = IF i <= Len(s) THEN s[i] ELSE t[i - Len(s)]
        /\ Len(s) \in Nat /\ Len(t) \in Nat
    BY ConcatProperties, LenProperties
  <1> HIDE DEF row
  <1>2. ASSUME NEW i \in 1 .. Len(s) PROVE row[i] = s[i]
    <2>1. i \in 1 .. Len(s) + Len(t) /\ i <= Len(s)
      BY <1>1, SMT
    <2>2. QED
      BY <1>1, <2>1
  <1>3. ASSUME NEW i \in 1 .. Len(t) PROVE row[Len(s) + i] = t[i]
    <2>1. /\ Len(s) + i \in 1 .. Len(s) + Len(t)
          /\ ~(Len(s) + i <= Len(s)) /\ Len(s) + i - Len(s) = i
      BY <1>1, SMT
    <2>2. PICK j \in 1 .. Len(s) + Len(t) : j = Len(s) + i
      BY <2>1
    <2>3. ~(j <= Len(s)) /\ j - Len(s) = i
      BY <2>1, <2>2
    <2>4. QED
      BY <1>1, <2>2, <2>3
  <1>4. QED
    BY <1>1, <1>2, <1>3 DEF row

LEMMA UnitsBehind ==
  ASSUME NEW buf \in Seq(Units), NEW size \in Nat, size <= Len(buf)
  PROVE  /\ Rest(buf, size) \in Seq(Units) /\ Len(Rest(buf, size)) \in Nat
         /\ size + Len(Rest(buf, size)) = Len(buf)
         /\ \A i \in 1 .. Len(Rest(buf, size)) : Rest(buf, size)[i] = buf[size + i]
  <1> DEFINE rest == Rest(buf, size)
  <1>1. size + 1 \in Nat \ {0} /\ Len(buf) \in Nat /\ Len(buf) <= Len(buf)
    BY LenProperties, SMT
  <1>2. /\ rest \in Seq(Units)
        /\ Len(rest) = IF size + 1 <= Len(buf) THEN Len(buf) - (size + 1) + 1 ELSE 0
        /\ \A i \in 1 .. Len(buf) - (size + 1) + 1 : rest[i] = buf[size + 1 + i - 1]
    BY <1>1, PartProperties DEF Rest
  <1> HIDE DEF rest
  <1>3. Len(rest) \in Nat /\ size + Len(rest) = Len(buf) /\ Len(rest) = Len(buf) - (size + 1) + 1
    BY <1>1, <1>2, SMT
  <1>4. ASSUME NEW i \in 1 .. Len(rest) PROVE rest[i] = buf[size + i]
    <2>1. i \in 1 .. Len(buf) - (size + 1) + 1 /\ size + 1 + i - 1 = size + i
      BY <1>3, SMT
    <2>2. QED
      BY <1>2, <2>1
  <1>5. QED
    BY <1>2, <1>3, <1>4 DEF rest

(* A buffer that waits for more is below one frame, and no frame begins it.*)
LEMMA WaitingBuffer ==
  ASSUME NEW buf \in Seq(Units),
         \/ Len(buf) < HeaderSize
         \/ /\ Len(buf) >= HeaderSize
            /\ \E size \in Lengths(buf) : InRange(size) /\ Len(buf) < size
  PROVE  Len(buf) <= MaxResponseSize /\ \A f \in Frames : ~Whole(buf, f)
  <1>1. Len(buf) \in Nat
    BY LenProperties
  <1>2. CASE Len(buf) < HeaderSize
    <2>1. Len(buf) <= MaxResponseSize
      BY <1>1, <1>2, SizesAssumption, SMT
    <2>2. ASSUME NEW f \in Frames PROVE ~(SizeOf[f.type] <= Len(buf))
      BY <1>1, <1>2, SizesNatural, SizesAssumption, SMT
    <2>3. QED
      BY <2>1, <2>2 DEF Whole
  <1>3. CASE Len(buf) >= HeaderSize
    <2>0. ~(Len(buf) < HeaderSize)
      BY <1>1, <1>3, SizesAssumption, SMT
    <2>1. PICK size \in Lengths(buf) : InRange(size) /\ Len(buf) < size
      BY <2>0
    <2>2. size \in Nat
      BY <1>3, LengthsNatural
    <2>3. Len(buf) <= MaxResponseSize
      BY <1>1, <2>1, <2>2, SizesAssumption, SMT DEF InRange
    <2>4. ASSUME NEW f \in Frames, Whole(buf, f) PROVE FALSE
      <3>1. HeaderSize \in 1 .. SizeOf[f.type]
        BY SizesNatural, SizesAssumption, SMT
      <3>2. buf[HeaderSize] = Unit(f, HeaderSize)
        BY <2>4, <3>1 DEF Whole
      <3>3. Lengths(buf) = {SizeOf[f.type]}
        BY <3>2 DEF Lengths, Unit
      <3>4. size <= Len(buf)
        BY <2>1, <2>4, <3>3 DEF Whole
      <3>5. QED
        BY <1>1, <2>1, <2>2, <3>4, SMT
    <2>5. QED
      BY <2>3, <2>4
  <1>4. QED
    BY <1>2, <1>3

(* A whole frame meets a fragment that does not clear it only when         *)
(* something was lost.                                                     *)
LEMMA KeptWhole ==
  ASSUME TypeOK, BufferInv, forgeries = 0, NEW n \in FragmentSizes, NEW f \in Frames,
         Whole(Kept(SubSeq(stream, 1, n)), f)
  PROVE  /\ Len(Kept(SubSeq(stream, 1, n))) = SizeOf[f.type] /\ losses # 0
         /\ stream[1].pos # 1
  <1> DEFINE frag == SubSeq(stream, 1, n)
  <1>1. Kept(frag) # << >>
    <2>1. ~(SizeOf[f.type] <= 0)
      BY SizeBounds, SMT
    <2>2. Len(<< >>) = 0
      BY EmptySeq
    <2>3. QED
      BY <2>1, <2>2 DEF Whole
  <1>2. Kept(frag) = frame_buffer_ /\ frag[1].pos # 1
    BY <1>1 DEF Kept, StartsWithPreamble
  <1>3. frag[1] = stream[1] /\ stream # << >>
    <2>1. 1 \in 1 .. n /\ Len(stream) # 0
      BY FragmentUnits, SMT DEF FragmentSizes
    <2>2. QED
      BY <2>1, FragmentUnits, EmptySeq
  <1>4. Alone(f)
    BY <1>2 DEF BufferInv
  <1>5. QED
    BY <1>2, <1>3, <1>4 DEF Alone

(* What is left behind a genuine frame: with nothing lost the beginning of *)
(* the next frame, or all of it when nothing comes after it.               *)
LEMMA BehindGenuine ==
  ASSUME TypeOK, TypeOK', QueueInv, BufferInv, forgeries = 0, NEW n \in FragmentSizes,
         stream' = SubSeq(stream, n + 1, Len(stream)),
         NEW f \in Frames, Whole(Kept(SubSeq(stream, 1, n)) \o SubSeq(stream, 1, n), f)
  PROVE  LET rest == Rest(Kept(SubSeq(stream, 1, n)) \o SubSeq(stream, 1, n), SizeOf[f.type])
         IN  /\ \/ Len(rest) <= MaxResponseSize
                \/ losses # 0 /\ Len(rest) <= MaxResponseSize + MaxResponseSize
             /\ \A h \in Frames : Whole(rest, h) => Len(rest) = SizeOf[h.type] /\ stream' = << >>
  <1> DEFINE frag == SubSeq(stream, 1, n)
             kept == Kept(frag)
             buf == kept \o frag
             size == SizeOf[f.type]
             rest == Rest(buf, size)
  <1>1. /\ frag \in Seq(Units) /\ Len(frag) = n /\ n \in Nat /\ n > 0 /\ n <= Len(stream)
        /\ \A i \in 1 .. n : frag[i] = stream[i]
        /\ stream \in Seq(Units) /\ Len(stream) \in Nat
    BY FragmentUnits, LenProperties DEF TypeOK
  <1>2. kept \in Seq(Units) /\ Len(kept) \in Nat
    <2>1. kept \in Seq(Units)
      BY KeptProperties DEF TypeOK
    <2>2. QED
      BY <2>1, LenProperties
  <1>3. /\ buf \in Seq(Units) /\ Len(buf) = Len(kept) + n
        /\ \A i \in 1 .. Len(kept) : buf[i] = kept[i]
        /\ \A i \in 1 .. n : buf[Len(kept) + i] = frag[i]
    <2>1. frag \in Seq(Units) /\ Len(frag) = n
      BY <1>1
    <2> HIDE DEF frag, kept
    <2>2. /\ buf \in Seq(Units) /\ Len(buf) = Len(kept) + Len(frag)
          /\ \A i \in 1 .. Len(kept) : buf[i] = kept[i]
          /\ \A i \in 1 .. Len(frag) : buf[Len(kept) + i] = frag[i]
      BY <1>2, <2>1, RowUnits
    <2> HIDE DEF buf
    <2>3. QED
      BY <2>1, <2>2
  <1>4. size \in Nat /\ size > 0 /\ size <= Len(buf) /\ \A i \in 1 .. size : buf[i] = Unit(f, i)
    BY SizeBounds DEF Whole
  <1>5. /\ rest \in Seq(Units) /\ Len(rest) \in Nat /\ size + Len(rest) = Len(buf)
        /\ \A i \in 1 .. Len(rest) : rest[i] = buf[size + i]
    BY <1>3, <1>4, UnitsBehind
  <1>6. ASSUME NEW h \in Frames, Whole(rest, h)
        PROVE  Len(rest) >= 1 /\ SizeOf[h.type] <= Len(rest) /\ rest[1] = Unit(h, 1)
    <2>1. SizeOf[h.type] <= Len(rest) /\ \A i \in 1 .. SizeOf[h.type] : rest[i] = Unit(h, i)
      BY <1>6 DEF Whole
    <2>2. 1 \in 1 .. SizeOf[h.type] /\ Len(rest) >= 1
      BY <1>5, <2>1, SizeBounds, SMT
    <2>3. QED
      BY <2>1, <2>2
  <1> HIDE DEF frag, rest
  <1>7. CASE size <= Len(kept)
    <2>1. Whole(kept, f)
      <3>1. ASSUME NEW i \in 1 .. size PROVE i \in 1 .. Len(kept)
        BY <1>2, <1>4, <1>7, SMT
      <3>2. QED
        BY <1>3, <1>4, <1>7, <3>1 DEF Whole
    <2>2. Len(kept) = size /\ losses # 0 /\ stream[1].pos # 1
      BY <2>1, KeptWhole DEF frag
    <2> HIDE DEF kept, buf, size
    <2>3. Len(rest) = n
      BY <1>1, <1>2, <1>3, <1>4, <1>5, <2>2, SMT
    <2>4. Len(stream) <= MaxResponseSize + MaxResponseSize
      <3>1. stream # << >>
        BY <1>1, EmptySeq, SMT
      <3>2. PICK e \in Frames, g \in Frames, k \in Nat, m \in Nat : Queued(e, k, m, g)
        BY <3>1 DEF QueueInv
      <3>3. k + m = SizeOf[e.type] /\ (Len(stream) = m \/ Len(stream) = m + SizeOf[g.type])
        BY <3>2 DEF Queued
      <3>4. /\ SizeOf[e.type] \in Nat /\ SizeOf[e.type] <= MaxResponseSize
            /\ SizeOf[g.type] \in Nat /\ SizeOf[g.type] <= MaxResponseSize
            /\ MaxResponseSize \in Nat
        BY SizeBounds
      <3>5. QED
        BY <1>1, <3>3, <3>4, SMT
    <2>5. Len(rest) <= MaxResponseSize + MaxResponseSize
      BY <1>1, <2>3, <2>4, SizeBounds, SMT
    <2>6. rest[1] = stream[1]
      <3>1. 1 \in 1 .. n /\ 1 \in 1 .. Len(rest)
        BY <1>1, <2>3, SMT
      <3>2. QED
        BY <1>1, <1>3, <1>5, <2>2, <3>1
    <2>7. ASSUME NEW h \in Frames, Whole(rest, h) PROVE FALSE
      <3>1. rest[1] = Unit(h, 1)
        BY <1>6, <2>7
      <3>2. stream[1].pos = 1
        BY <2>6, <3>1 DEF Unit
      <3>3. QED
        BY <2>2, <3>2
    <2>8. QED
      BY <2>2, <2>5, <2>7 DEF rest, buf, kept, frag, size
  <1>8. CASE ~(size <= Len(kept))
    <2>1. PICK j \in 1 .. n : size = Len(kept) + j
      <3> HIDE DEF kept, buf, size
      <3>1. size - Len(kept) \in 1 .. n /\ size = Len(kept) + (size - Len(kept))
        BY <1>1, <1>2, <1>3, <1>4, <1>8, SMT
      <3>2. QED
        BY <3>1
    <2>2. stream[j] = Unit(f, size)
      <3>1. size \in 1 .. size
        BY <1>4, SMT
      <3>2. QED
        BY <1>1, <1>3, <1>4, <2>1, <3>1
    <2>3. \/ j = Len(stream)
          \/ \E g \in Frames : /\ Len(stream) = j + SizeOf[g.type]
                               /\ \A i \in 1 .. SizeOf[g.type] : stream[j + i] = Unit(g, i)
      <3>1. j \in 1 .. Len(stream)
        BY <1>1, SMT
      <3>2. QED
        BY <2>2, <3>1, BehindFrameEnd
    <2> HIDE DEF kept, buf, size
    <2>4. j + Len(rest) = n
      BY <1>1, <1>2, <1>3, <1>5, <2>1, SMT
    <2>5. CASE j = Len(stream)
      <3>1. Len(rest) = 0
        BY <1>1, <1>5, <2>4, <2>5, SMT
      <3>2. Len(rest) <= MaxResponseSize /\ ~(Len(rest) >= 1)
        BY <3>1, SizeBounds, SMT
      <3>3. QED
        BY <1>6, <3>2 DEF rest, buf, kept, frag, size
    <2>6. ASSUME NEW g \in Frames, Len(stream) = j + SizeOf[g.type],
                 \A i \in 1 .. SizeOf[g.type] : stream[j + i] = Unit(g, i)
          PROVE  /\ Len(rest) <= MaxResponseSize
                 /\ \A h \in Frames :
                      Whole(rest, h) => Len(rest) = SizeOf[h.type] /\ stream' = << >>
      <3>1. Len(rest) <= SizeOf[g.type] /\ SizeOf[g.type] \in Nat
        <4>1. SizeOf[g.type] \in Nat
          BY SizeBounds
        <4>2. QED
          BY <1>1, <1>5, <2>4, <2>6, <4>1, SMT
      <3>2. Len(rest) <= MaxResponseSize
        <4>1. SizeOf[g.type] <= MaxResponseSize /\ MaxResponseSize \in Nat
          BY SizeBounds
        <4>2. QED
          BY <1>5, <3>1, <4>1, SMT
      <3>3. ASSUME NEW h \in Frames, Whole(rest, h)
            PROVE  Len(rest) = SizeOf[h.type] /\ stream' = << >>
        <4>1. Len(rest) >= 1 /\ SizeOf[h.type] <= Len(rest) /\ rest[1] = Unit(h, 1)
          BY <1>6, <3>3
        <4>2. 1 \in 1 .. Len(rest) /\ 1 \in 1 .. SizeOf[g.type] /\ j + 1 \in 1 .. n
          BY <1>1, <1>5, <2>4, <3>1, <4>1, SMT
        <4>3. rest[1] = stream[j + 1]
          <5>1. rest[1] = buf[size + 1]
            BY <1>5, <4>2
          <5>2. PICK x \in 1 .. n : x = j + 1
            BY <4>2
          <5>3. Len(kept) + x = size + 1
            BY <1>1, <1>2, <2>1, <5>2, SMT
          <5>4. QED
            BY <1>1, <1>3, <5>1, <5>2, <5>3
        <4>4. Unit(h, 1) = Unit(g, 1)
          BY <2>6, <4>1, <4>2, <4>3
        <4>5. h = g
          BY <4>4 DEF Unit
        <4>6. Len(rest) = SizeOf[g.type]
          BY <1>5, <3>1, <4>1, <4>5, SMT
        <4>7. Len(stream') = 0
          <5>1. n = Len(stream)
            BY <2>4, <2>6, <4>6
          <5>2. Len(stream') = Len(stream) - n
            BY RestUnits
          <5>3. QED
            BY <1>1, <5>1, <5>2, SMT
        <4>8. QED
          BY <4>5, <4>6, <4>7, EmptySeq DEF TypeOK
      <3>4. QED
        BY <3>2, <3>3
    <2>7. QED
      BY <2>3, <2>5, <2>6 DEF rest, buf, kept, frag, size
  <1>9. QED
    BY <1>7, <1>8 DEF rest, frag

(* Losses are never taken back.                                            *)
LEMMA LossesGrow ==
  ASSUME TypeOK, NEW frag, assemble(frag) PROVE losses' \in Nat /\ losses <= losses'
  <1>1. losses \in Nat
    BY BoundsAssumption, SMT DEF TypeOK
  <1>2. losses' \in {losses, losses + 1}
    <2>1. ASSUME NEW cmd, send_command(cmd) PROVE losses' \in {losses, losses + 1}
      BY <2>1 DEF send_command, CommandHeard, CommandLost, requests
    <2>2. ASSUME NEW type, NEW size, decode_(type, size)
          PROVE  losses' \in {losses, losses + 1}
      BY <2>1, <2>2 DEF decode_, DecodeDeviceInfo, DecodeSettings, DecodeCellInfo, requests
    <2>3. CASE Unaffected
      BY <2>3 DEF Unaffected, requests
    <2>4. QED
      BY <2>2, <2>3 DEF assemble, Wait, Drop, Accept
  <1>3. QED
    BY <1>1, <1>2, SMT

(* An empty buffer needs no bound.                                         *)
LEMMA EmptyBuffer ==
  ASSUME TypeOK', frame_buffer_' = << >> PROVE BufferInv'
  <1>1. Len(<< >>) = 0 /\ losses' \in Nat /\ 0 \in Nat /\ 0 <= MaxResponseSize
    BY EmptySeq, SizesAssumption, BoundsAssumption, SMT DEF TypeOK
  <1>2. 0 <= (1 + losses') * MaxResponseSize
    BY <1>1, Fits
  <1>3. ASSUME NEW f \in Frames PROVE ~(SizeOf[f.type] <= 0)
    BY SizeBounds, SMT
  <1>4. QED
    BY <1>1, <1>2, <1>3 DEF BufferInv, Whole, Frames, Unit

(* Whatever assemble() does with a fragment, the buffer stays bounded.     *)
LEMMA AssembleBounded ==
  ASSUME TypeOK, TypeOK', QueueInv, BufferInv, NEW n \in FragmentSizes,
         stream' = SubSeq(stream, n + 1, Len(stream)), assemble(SubSeq(stream, 1, n))
  PROVE  BufferInv'
  <1> SUFFICES ASSUME forgeries' = 0
               PROVE  /\ Len(frame_buffer_') <= (1 + losses') * MaxResponseSize
                      /\ \A f \in Frames : Whole(frame_buffer_', f) => Alone(f)'
    BY DEF BufferInv, Whole, Unit, Frames
  <1> DEFINE frag == SubSeq(stream, 1, n)
             buf == Kept(frag) \o frag
  <1>1. /\ losses \in Nat /\ losses' \in Nat /\ losses <= losses'
        /\ MaxResponseSize \in Nat
    BY LossesGrow, SizeBounds, BoundsAssumption, SMT DEF TypeOK
  <1>2. buf \in Seq(Units) /\ Len(buf) \in Nat
    <2>1. Kept(frag) \in Seq(Units) /\ frag \in Seq(Units)
      BY KeptProperties, FragmentUnits DEF TypeOK
    <2>2. QED
      BY <2>1, ConcatProperties, LenProperties
  <1>3. ASSUME NEW buffer \in Seq(Units),
               \/ Len(buffer) <= MaxResponseSize
               \/ losses # 0 /\ Len(buffer) <= MaxResponseSize + MaxResponseSize
        PROVE  Len(buffer) <= (1 + losses') * MaxResponseSize
    <2>1. Len(buffer) \in Nat
      BY LenProperties
    <2>2. losses # 0 => losses' # 0
      BY <1>1, SMT
    <2>3. QED
      BY <1>1, <1>3, <2>1, <2>2, Fits
  <1> HIDE DEF frag, buf
  <1>4. CASE frame_buffer_' = << >>
    BY <1>4, EmptyBuffer DEF BufferInv, Whole, Unit, Frames
  <1>5. ASSUME \/ Len(buf) < HeaderSize
               \/ /\ Len(buf) >= HeaderSize
                  /\ \E size \in Lengths(buf) : InRange(size) /\ Len(buf) < size,
               frame_buffer_' = buf
        PROVE  /\ Len(frame_buffer_') <= (1 + losses') * MaxResponseSize
               /\ \A f \in Frames : Whole(frame_buffer_', f) => Alone(f)'
    BY <1>2, <1>3, <1>5, WaitingBuffer
  <1>6. ASSUME Len(buf) >= HeaderSize, NEW size \in Lengths(buf), InRange(size),
               Len(buf) >= size, Accept(buf, size)
        PROVE  /\ Len(frame_buffer_') <= (1 + losses') * MaxResponseSize
               /\ \A f \in Frames : Whole(frame_buffer_', f) => Alone(f)'
    <2>1. Genuine(buf, size) /\ forgeries = 0
      BY <1>6, SMT DEF Accept, TypeOK
    <2>2. size \in Nat /\ size > 0 /\ 1 \in 1 .. Len(buf) /\ size <= Len(buf)
      BY <1>2, <1>6, LengthsNatural, SizesAssumption, SMT DEF InRange
    <2>3. PICK f \in Frames : f = buf[1].frame
      <3>1. buf[1] \in Units
        BY <1>2, <2>2, ElementOfSeq
      <3>2. QED
        BY <3>1 DEF Units
    <2>4. size = SizeOf[f.type] /\ SubSeq(buf, 1, size) = FrameUnits(f)
      BY <2>1, <2>3 DEF Genuine
    <2>5. Whole(buf, f)
      <3>1. ASSUME NEW i \in 1 .. size PROVE buf[i] = Unit(f, i)
        <4>1. 1 \in Nat \ {0} /\ i \in 1 .. size - 1 + 1 /\ 1 + i - 1 = i
          BY <2>2, SMT
        <4>2. SubSeq(buf, 1, size)[i] = buf[1 + i - 1]
          BY <1>2, <2>2, <4>1, PartProperties
        <4>3. FrameUnits(f)[i] = Unit(f, i)
          BY <2>4, FrameUnitsProperties
        <4>4. QED
          BY <2>4, <4>1, <4>2, <4>3
      <3>2. QED
        BY <2>2, <2>4, <3>1 DEF Whole
    <2>6. frame_buffer_' = Rest(buf, SizeOf[f.type])
      BY <1>6, <2>4 DEF Accept
    <2>7. /\ \/ Len(frame_buffer_') <= MaxResponseSize
             \/ losses # 0 /\ Len(frame_buffer_') <= MaxResponseSize + MaxResponseSize
          /\ \A h \in Frames :
               Whole(frame_buffer_', h) => Len(frame_buffer_') = SizeOf[h.type] /\ stream' = << >>
      BY <2>1, <2>5, <2>6, BehindGenuine DEF buf, frag
    <2>8. frame_buffer_' \in Seq(Units)
      BY DEF TypeOK
    <2>9. QED
      BY <1>3, <2>7, <2>8 DEF Alone
  <1>7. QED
    BY <1>4, <1>5, <1>6 DEF assemble, Wait, Drop, buf, frag

(* As long as no chance bytes passed for a frame, the buffer rests at one  *)
(* frame at most, and at one more for every fragment lost.                 *)
THEOREM BufferStaysBounded == Spec => []BufferBounded
  <1>1. Init => BufferInv
    <2> SUFFICES ASSUME Init PROVE BufferInv
      OBVIOUS
    <2>1. Len(<< >>) = 0 /\ losses = 0 /\ MaxResponseSize \in Nat
      BY EmptySeq, SizeBounds DEF Init
    <2>2. 0 <= (1 + losses) * MaxResponseSize
      BY <2>1, SMT
    <2>3. ASSUME NEW f \in Frames PROVE ~(SizeOf[f.type] <= 0)
      BY SizeBounds, SMT
    <2>4. QED
      BY <2>1, <2>2, <2>3 DEF Init, BufferInv, Whole
  <1>2. TypeOK /\ TypeOK' /\ SessionCoherent /\ QueueInv /\ BufferInv /\ [Next]_vars
          => BufferInv'
    <2> SUFFICES ASSUME TypeOK, TypeOK', SessionCoherent, QueueInv, BufferInv, [Next]_vars
                 PROVE  BufferInv'
      OBVIOUS
    <2>1. ASSUME NEW n \in FragmentSizes, Notify(n) PROVE BufferInv'
      BY <2>1, AssembleBounded DEF Notify, Leave
    <2>2. ASSUME frame_buffer_' = frame_buffer_, forgeries' = forgeries,
                 losses <= losses',
                 losses' = 0 /\ stream' # << >> =>
                   losses = 0 /\ (stream = << >> \/ stream[1].pos = 1 => stream'[1].pos = 1)
          PROVE  BufferInv'
      <3>1. losses \in Nat /\ losses' \in Nat
        BY BoundsAssumption, SMT DEF TypeOK
      <3>2. Len(frame_buffer_) \in Nat
        BY LenProperties DEF TypeOK
      <3>3. ASSUME forgeries = 0 PROVE Len(frame_buffer_) <= (1 + losses') * MaxResponseSize
        BY <2>2, <3>1, <3>2, <3>3, StillFits DEF BufferInv
      <3>4. ASSUME forgeries = 0, NEW f \in Frames, Whole(frame_buffer_, f) PROVE Alone(f)'
        BY <2>2, <3>4 DEF BufferInv, Alone
      <3>5. QED
        BY <2>2, <3>3, <3>4 DEF BufferInv, Whole, Unit, Frames
    <2>3. ASSUME NEW type \in FrameTypes, SendFrame(type) PROVE BufferInv'
      <3>0. PICK h \in Frames : h = [type |-> type, serial |-> serial]
        BY DEF Frames, TypeOK
      <3>1. /\ stream' = stream \o FrameUnits(h) /\ losses' = losses
            /\ frame_buffer_' = frame_buffer_ /\ forgeries' = forgeries
        BY <2>3, <3>0 DEF SendFrame, decoded
      <3>2. losses <= losses'
        BY <3>1, BoundsAssumption, SMT DEF TypeOK
      <3>3. FrameUnits(h) \in Seq(Units) /\ stream \in Seq(Units)
            /\ FrameUnits(h)[1] = Unit(h, 1)
        <4>1. 1 \in 1 .. SizeOf[h.type]
          BY SizeBounds, SMT
        <4>2. QED
          BY <4>1, FrameUnitsProperties DEF TypeOK
      <3>4. CASE stream = << >>
        <4>1. stream' = FrameUnits(h)
          BY <3>1, <3>3, <3>4, ConcatEmptySeq
        <4>2. stream'[1].pos = 1
          BY <3>3, <4>1 DEF Unit
        <4>3. QED
          BY <2>2, <3>1, <3>2, <4>2
      <3>5. CASE stream # << >>
        <4>1. 1 \in 1 .. Len(stream)
          BY <3>3, <3>5, SomeUnits
        <4>2. stream'[1] = stream[1]
          BY <3>1, <3>3, <4>1, RowUnits
        <4>3. QED
          BY <2>2, <3>1, <3>2, <3>5, <4>2
      <3>6. QED
        BY <3>4, <3>5
    <2>4. ASSUME NEW n \in FragmentSizes, LoseFragment(n) PROVE BufferInv'
      <3>1. CASE Listening
        <4>1. losses' = losses + 1 /\ losses \in Nat
          BY <2>4, <3>1, BoundsAssumption, SMT DEF LoseFragment, TypeOK
        <4>2. losses <= losses' /\ losses' # 0
          BY <4>1, SMT
        <4>3. QED
          BY <2>2, <2>4, <4>2 DEF LoseFragment, decoded
      <3>2. CASE ~Listening
        BY <2>4, <3>2, EmptyBuffer
        DEF LoseFragment, SessionCoherent, Listening, Reachable
      <3>3. QED
        BY <3>1, <3>2
    <2>5. ASSUME UNCHANGED <<stream, frame_buffer_, forgeries>>, losses' \in {losses, losses + 1}
          PROVE  BufferInv'
      <3>1. losses <= losses' /\ (losses' = 0 => losses = 0)
        BY <2>5, BoundsAssumption, SMT DEF TypeOK
      <3>2. QED
        BY <2>2, <2>5, <3>1
    <2>6. CASE Disconnect
      BY <2>6, EmptyBuffer DEF Disconnect
    <2>7. ASSUME NEW cmd, send_command(cmd) PROVE losses' \in {losses, losses + 1}
      BY <2>7 DEF send_command, CommandHeard, CommandLost, requests
    <2>8. CASE Update \/ \E cmd \in ControlCommands : UseControl(cmd)
      BY <2>5, <2>7, <2>8 DEF Update, UseControl, requests, decoded
    <2>9. CASE SearchCmpl \/ RegForNotify \/ Open \/ Tick \/ UNCHANGED vars
      BY <2>5, <2>9 DEF SearchCmpl, RegForNotify, Open, Tick, vars, requests, decoded
    <2>10. QED
      BY <2>1, <2>3, <2>4, <2>6, <2>8, <2>9 DEF Next, Component, Environment
  <1>3. BufferInv => BufferBounded
    BY DEF BufferInv, BufferBounded
  <1>4. QED
    BY <1>1, <1>2, <1>3, TypeCorrect, SessionStaysCoherent, QueueInvariant, PTL DEF Spec

=============================================================================
