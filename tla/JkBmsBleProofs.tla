--------------------------- MODULE JkBmsBleProofs ---------------------------
(***************************************************************************)
(* Theorems about the jk_bms_ble session, for every frame size, limit,     *)
(* throttle, handle and number of losses.                                  *)
(***************************************************************************)
EXTENDS JkBmsBle, SequenceTheorems, TLAPS

-----------------------------------------------------------------------------
(***************************************************************************)
(* Lemmas about the operators.                                             *)
(***************************************************************************)
(* A poll takes the no-response counter from one resting value to another; *)
(* it leaves the limit behind exactly when it expires.                     *)
LEMMA TrackedRests ==
  ASSUME NEW n \in RestingCounts
  PROVE  /\ Tracked(n) \in RestingCounts
         /\ Expires(n) <=> n = MaxNoResponse - 1
         /\ Expires(n) => Tracked(n) = MaxNoResponse + 1
         /\ n < MaxNoResponse - 1 => Tracked(n) = n + 1
         /\ n > MaxNoResponse => Tracked(n) = n
  BY MaxNoResponseAssumption, SMT
  DEF RestingCounts, Tracked, Expires, Counted

(* Serial numbers stay in their range. *)
LEMMA SerialInRange ==
  ASSUME NEW s \in Nat
  PROVE  (s + 1) % (MaxLosses + 2) \in 0 .. MaxLosses + 1
  BY LossAssumption, SMT

(* The numbers of the current frame are natural. *)
LEMMA FrameNumbers ==
  ASSUME TypeOK
  PROVE  frame.size \in Nat /\ frame.serial \in Nat /\ sent \in Nat
  <1>1. CASE frame \in Frames
    <2>1. frame.size \in Nat
      BY <1>1, SizesAssumption DEF Frames
    <2>2. frame.serial \in Nat
      BY <1>1, LossAssumption, SMT DEF Frames
    <2>3. QED
      BY <2>1, <2>2, SMT DEF TypeOK
  <1>2. CASE frame = NoFrame
    BY <1>2, SMT DEF NoFrame, TypeOK
  <1>3. QED
    BY <1>1, <1>2 DEF TypeOK

(* The next n units of the current frame form a sequence of n units.       *)
LEMMA FragmentProperties ==
  ASSUME frame \in Frames \cup {NoFrame}, sent \in Nat,
         NEW n \in Nat \ {0}, n <= frame.size - sent
  PROVE  /\ Fragment(n) \in Seq(Units)
         /\ Len(Fragment(n)) = n
         /\ \A i \in 1 .. n : Fragment(n)[i] = Unit(frame, sent + i)
  <1>1. frame \in Frames
    BY SMT DEF NoFrame
  <1>2. \A i \in 1 .. n : Unit(frame, sent + i) \in Units
    BY <1>1, SMT DEF Unit, Units
  <1>3. Fragment(n) \in [1 .. n -> Units]
    BY <1>2 DEF Fragment
  <1>4. Fragment(n) \in Seq(Units)
    BY <1>3, SeqDef, SMT
  <1>5. Len(Fragment(n)) = n
    BY <1>3, <1>4, LenProperties, SMT
  <1>6. QED
    BY <1>4, <1>5 DEF Fragment

(* What assemble() keeps is a sequence of units no longer than the buffer. *)
LEMMA KeptProperties ==
  ASSUME frame_buffer_ \in Seq(Units), NEW frag
  PROVE  /\ Kept(frag) \in Seq(Units)
         /\ Kept(frag) \in {<< >>, frame_buffer_}
  BY EmptySeq DEF Kept

(* A write changes what the battery heard and owes within their types.     *)
LEMMA WriteTypes ==
  ASSUME TypeOK, NEW cmd \in Commands, write_register(cmd)
  PROVE  heard' \subseteq Commands /\ owed' \subseteq FrameTypes
         /\ losses' \in 0 .. MaxLosses
  <1>1. Reply[cmd] \in FrameTypes
    BY DEF Reply, Commands, FrameTypes
  <1>2. CASE Reachable(char_handle_) /\ WriteHeard(cmd)
    BY <1>1, <1>2 DEF WriteHeard, TypeOK
  <1>3. CASE Reachable(char_handle_) /\ WriteLost
    BY <1>3, LossAssumption, SMT DEF WriteLost, TypeOK
  <1>4. CASE UNCHANGED <<heard, owed, losses>>
    BY <1>4 DEF TypeOK
  <1>5. QED
    BY <1>2, <1>3, <1>4 DEF write_register

(* The types of what a decoded frame assigns.                              *)
DecodedTypeOK ==
  /\ status_notification_received_ \in BOOLEAN
  /\ no_response_count_ \in RestingCounts /\ elapsed \in 0 .. Throttle
  /\ online \in {"unknown", "online", "offline"}
  /\ telemetry \in {"none", "live", "invalid"}

(* Decoding a frame of any type keeps them.                                *)
LEMMA DecodeTypes ==
  ASSUME DecodedTypeOK, NEW type, decode_(type)
  PROVE  DecodedTypeOK'
  <1>1. no_response_count_' \in RestingCounts /\ online' = "online"
    BY MaxNoResponseAssumption, SMT
    DEF decode_, reset_online_status_tracker_, RestingCounts
  <1>2. CASE UNCHANGED <<elapsed, telemetry, status_notification_received_>>
    BY <1>1, <1>2 DEF DecodedTypeOK
  <1>3. CASE /\ elapsed' = 0 /\ telemetry' = "live"
             /\ status_notification_received_' = TRUE
    BY <1>1, <1>3, ThrottleAssumption, SMT DEF DecodedTypeOK
  <1>4. QED
    BY <1>2, <1>3 DEF decode_, decode_cell_info_

(* Assembling a fragment keeps them, and ends below the minimum.           *)
LEMMA AssembleTypes ==
  ASSUME DecodedTypeOK, frame_buffer_ \in Seq(Units),
         NEW frag \in Seq(Units), assemble(frag)
  PROVE  DecodedTypeOK' /\ frame_buffer_' \in Seq(Units)
         /\ Len(frame_buffer_') < MinResponseSize
  <1> DEFINE buf == Kept(frag) \o frag
  <1>1. buf \in Seq(Units)
    BY KeptProperties, ConcatProperties
  <1>2. CASE Incomplete(buf) /\ frame_buffer_' = buf /\ UNCHANGED decoded
    BY <1>1, <1>2 DEF Incomplete, decoded, tracked, DecodedTypeOK
  <1>3. CASE /\ frame_buffer_' = << >>
             /\ \/ UNCHANGED decoded
                \/ \E type \in AcceptedTypes(buf) : decode_(type)
    <2>1. frame_buffer_' \in Seq(Units) /\ Len(frame_buffer_') < MinResponseSize
      BY <1>3, EmptySeq, SizesAssumption, SMT
    <2>2. CASE UNCHANGED decoded
      BY <2>1, <2>2 DEF decoded, tracked, DecodedTypeOK
    <2>3. CASE \E type \in AcceptedTypes(buf) : decode_(type)
      BY <2>1, <2>3, DecodeTypes
    <2>4. QED
      BY <1>3, <2>2, <2>3
  <1>4. QED
    BY <1>2, <1>3 DEF assemble

-----------------------------------------------------------------------------
(***************************************************************************)
(* Type correctness.                                                       *)
(***************************************************************************)
USE DEF Registrations

(* Every reachable state of the session has its type, whatever the sizes,  *)
(* limits and losses.                                                      *)
THEOREM TypeCorrect == Spec => []TypeOK
  <1>1. Init => TypeOK
    <2> SUFFICES ASSUME Init PROVE TypeOK
      OBVIOUS
    <2>1. frame \in Frames \cup {NoFrame} /\ sent \in 0 .. frame.size
      BY SMT DEF Init, NoFrame
    <2>2. frame_buffer_ \in Seq(Units)
      BY EmptySeq DEF Init
    <2>3. no_response_count_ \in RestingCounts /\ elapsed \in 0 .. Throttle
          /\ losses \in 0 .. MaxLosses
      BY MaxNoResponseAssumption, ThrottleAssumption, LossAssumption, SMT
      DEF Init, RestingCounts
    <2>4. QED
      BY <2>1, <2>2, <2>3 DEF Init, TypeOK
  <1>2. TypeOK /\ [Next]_vars => TypeOK'
    <2> SUFFICES ASSUME TypeOK, [Next]_vars PROVE TypeOK'
      OBVIOUS
    <2>0. DecodedTypeOK
      BY DEF TypeOK, DecodedTypeOK
    <2>1. CASE Update
      <3>1. no_response_count_' \in RestingCounts
        BY <2>1, TrackedRests DEF Update, track_online_status_, TypeOK
      <3>2. online' \in {"unknown", "online", "offline"}
            /\ telemetry' \in {"none", "live", "invalid"}
        BY <2>1 DEF Update, track_online_status_, publish_device_unavailable_, TypeOK
      <3>3. heard' \subseteq Commands /\ owed' \subseteq FrameTypes
            /\ losses' \in 0 .. MaxLosses
        <4>1. CASE write_register("cell_info")
          BY <4>1, WriteTypes DEF Commands
        <4>2. CASE UNCHANGED <<heard, owed, losses>>
          BY <4>2 DEF TypeOK
        <4>3. QED
          BY <2>1, <4>1, <4>2 DEF Update
      <3>4. QED
        BY <2>1, <3>1, <3>2, <3>3 DEF Update, session, TypeOK
    <2>2. CASE SearchCmpl
      BY <2>2 DEF SearchCmpl, battery, decoded, tracked, TypeOK
    <2>3. CASE RegForNotify
      <3>1. heard' \subseteq Commands /\ owed' \subseteq FrameTypes
            /\ losses' \in 0 .. MaxLosses
        BY <2>3, WriteTypes DEF RegForNotify, Commands
      <3>2. QED
        BY <2>3, <3>1 DEF RegForNotify, tracked, TypeOK
    <2>4. CASE Disconnect
      <3>1. frame' \in Frames \cup {NoFrame} /\ sent' \in 0 .. frame'.size
        BY <2>4, SMT DEF Disconnect, NoFrame
      <3>2. frame_buffer_' \in Seq(Units)
        BY <2>4, EmptySeq DEF Disconnect
      <3>3. registration' \in Registrations
        BY <2>4 DEF Disconnect, Unregistered, TypeOK
      <3>4. QED
        BY <2>4, <3>1, <3>2, <3>3 DEF Disconnect, TypeOK
    <2>5. ASSUME NEW n \in FragmentSizes, Notify(n) PROVE TypeOK'
      <3>1. n \in Nat \ {0} /\ n <= frame.size - sent /\ sent \in Nat
        BY <2>5, FrameNumbers, SMT DEF FragmentSizes, Notify, Leave
      <3>2. Fragment(n) \in Seq(Units)
        BY <3>1, FragmentProperties DEF TypeOK
      <3>3. DecodedTypeOK' /\ frame_buffer_' \in Seq(Units)
        BY <2>0, <2>5, <3>2, AssembleTypes DEF Notify, TypeOK
      <3>4. sent' \in 0 .. frame'.size
        BY <2>5, <3>1, FrameNumbers, SMT DEF Notify, Leave, session
      <3>5. QED
        BY <2>5, <3>3, <3>4 DEF Notify, Leave, session, DecodedTypeOK, TypeOK
    <2>6. ASSUME NEW cmd \in ButtonCommands, PressButton(cmd) PROVE TypeOK'
      <3>1. heard' \subseteq Commands /\ owed' \subseteq FrameTypes
            /\ losses' \in 0 .. MaxLosses
        BY <2>6, WriteTypes, CommandsAssumption DEF PressButton
      <3>2. QED
        BY <2>6, <3>1 DEF PressButton, session, decoded, tracked, TypeOK
    <2>7. CASE Open
      BY <2>7 DEF Open, battery, session, decoded, tracked, TypeOK
    <2>8. CASE Tick
      <3>1. elapsed' \in 0 .. Throttle
        BY <2>8, ThrottleAssumption, SMT DEF Tick, TypeOK
      <3>2. QED
        BY <2>8, <3>1 DEF Tick, battery, session, tracked, TypeOK
    <2>9. ASSUME NEW type \in FrameTypes, NEW size \in FrameSizes,
                 BeginFrame(type, size)
          PROVE TypeOK'
      <3>1. frame.serial \in Nat
        BY LossAssumption, SMT DEF TypeOK, Frames, NoFrame
      <3>2. frame' \in Frames
        BY <2>9, <3>1, SerialInRange DEF BeginFrame, Frames
      <3>3. sent' \in 0 .. frame'.size
        BY <2>9, SizesAssumption, SMT DEF BeginFrame
      <3>4. QED
        BY <2>9, <3>2, <3>3 DEF BeginFrame, session, decoded, tracked, TypeOK
    <2>10. ASSUME NEW n \in FragmentSizes, LoseFragment(n) PROVE TypeOK'
      <3>1. sent' \in 0 .. frame'.size
        BY <2>10, FrameNumbers, SMT DEF LoseFragment, Leave, FragmentSizes, session
      <3>2. losses' \in 0 .. MaxLosses
        BY <2>10, LossAssumption, SMT DEF LoseFragment, TypeOK
      <3>3. QED
        BY <2>10, <3>1, <3>2 DEF LoseFragment, Leave, session, decoded, tracked, TypeOK
    <2>11. CASE UNCHANGED vars
      BY <2>11 DEF vars, battery, session, decoded, tracked, TypeOK
    <2>12. QED
      BY <2>1, <2>2, <2>3, <2>4, <2>5, <2>6, <2>7, <2>8, <2>9, <2>10, <2>11
      DEF Next, Component, Environment
  <1>3. QED
    BY <1>1, <1>2, PTL DEF Spec

-----------------------------------------------------------------------------
(***************************************************************************)
(* The reassembly buffer.                                                  *)
(***************************************************************************)
(* The buffer is below a frame after every handler: the only handler that  *)
(* fills it ends below the minimum.                                        *)
THEOREM BufferNeverFull == Spec => []BufferBelowMinimum
  <1>1. Init => BufferBelowMinimum
    BY EmptySeq, SizesAssumption, SMT DEF Init, BufferBelowMinimum
  <1>2. TypeOK /\ BufferBelowMinimum /\ [Next]_vars => BufferBelowMinimum'
    <2> SUFFICES ASSUME TypeOK, BufferBelowMinimum, [Next]_vars
                 PROVE  BufferBelowMinimum'
      OBVIOUS
    <2>1. ASSUME NEW n \in FragmentSizes, Notify(n) PROVE BufferBelowMinimum'
      <3>1. n \in Nat \ {0} /\ n <= frame.size - sent /\ sent \in Nat
        BY <2>1, FrameNumbers, SMT DEF FragmentSizes, Notify, Leave
      <3>2. Fragment(n) \in Seq(Units)
        BY <3>1, FragmentProperties DEF TypeOK
      <3>3. Len(frame_buffer_') < MinResponseSize
        BY <2>1, <3>2, AssembleTypes DEF Notify, TypeOK, DecodedTypeOK
      <3>4. QED
        BY <3>3 DEF BufferBelowMinimum
    <2>2. CASE frame_buffer_' = << >>
      BY <2>2, EmptySeq, SizesAssumption, SMT DEF BufferBelowMinimum
    <2>3. CASE UNCHANGED frame_buffer_
      BY <2>3 DEF BufferBelowMinimum
    <2>4. QED
      BY <2>1, <2>2, <2>3
      DEF Next, Component, Environment, Update, SearchCmpl, RegForNotify,
          Disconnect, PressButton, Open, Tick, BeginFrame, LoseFragment, vars
  <1>3. QED
    BY <1>1, <1>2, TypeCorrect, PTL DEF Spec

-----------------------------------------------------------------------------
(***************************************************************************)
(* The session.                                                            *)
(***************************************************************************)
(* SessionCoherent alone is not inductive: it also takes that an active    *)
(* registration had its event delivered, and that a pending one was made   *)
(* on this link, since the disconnect event unregisters only what it has a *)
(* handle for.                                                             *)
RegistrationMade ==
  /\ registration \in {"pending", "active"} =>
       Reachable(char_handle_) /\ notify_handle_ # 0
  /\ registration = "active" => node_state = "ESTABLISHED"

SessionInv == SessionCoherent /\ RegistrationMade

(* A step that leaves the session and the link alone, and changes the      *)
(* buffer and the flag only with an active registration, preserves it.     *)
LEMMA SessionFrame ==
  ASSUME SessionInv, UNCHANGED <<link, registration, session>>,
         \/ registration = "active"
         \/ UNCHANGED <<frame_buffer_, status_notification_received_>>
  PROVE  SessionInv'
  BY DEF SessionInv, SessionCoherent, RegistrationMade, Reachable, session

(* No answered status request and no byte survives its connection.         *)
THEOREM SessionStaysCoherent == Spec => []SessionCoherent
  <1>1. Init => SessionInv
    BY DEF Init, SessionInv, SessionCoherent, RegistrationMade
  <1>2. SessionInv /\ [Next]_vars => SessionInv'
    <2> SUFFICES ASSUME SessionInv, [Next]_vars PROVE SessionInv'
      OBVIOUS
    <2>1. CASE SearchCmpl
      <3>1. NotifyHandleOf(DeviceHandle) # 0
        BY HandleAssumption, SMT DEF NotifyHandleOf
      <3>2. registration \notin {"pending", "active"}
        BY <2>1, HandleAssumption
        DEF SearchCmpl, SessionInv, RegistrationMade, Reachable
      <3>3. frame_buffer_ = << >> /\ ~status_notification_received_
        BY <3>2 DEF SessionInv, SessionCoherent
      <3>4. QED
        BY <2>1, <3>1, <3>3
        DEF SearchCmpl, SessionInv, SessionCoherent, RegistrationMade,
            Reachable, decoded
    <2>2. CASE RegForNotify
      BY <2>2 DEF RegForNotify, SessionInv, SessionCoherent, RegistrationMade,
                  Reachable
    <2>3. CASE Disconnect
      <3>1. registration' \notin {"pending", "active"}
        BY <2>3 DEF Disconnect, Unregistered, SessionInv, RegistrationMade
      <3>2. QED
        BY <2>3, <3>1
        DEF Disconnect, SessionInv, SessionCoherent, RegistrationMade
    <2>4. CASE Open
      <3>1. registration \notin {"pending", "active"}
        BY <2>4 DEF Open, SessionInv, RegistrationMade, Reachable
      <3>2. QED
        BY <2>4, <3>1 DEF Open, session, decoded, SessionInv, SessionCoherent,
                          RegistrationMade, Reachable
    <2>5. ASSUME NEW n \in FragmentSizes, Notify(n) PROVE SessionInv'
      BY <2>5, SessionFrame DEF Notify, Listening, Leave
    <2>6. ASSUME NEW n \in FragmentSizes, LoseFragment(n) PROVE SessionInv'
      BY <2>6, SessionFrame DEF LoseFragment, Leave, decoded
    <2>7. CASE Update
      BY <2>7, SessionFrame DEF Update
    <2>8. ASSUME NEW cmd \in ButtonCommands, PressButton(cmd) PROVE SessionInv'
      BY <2>8, SessionFrame DEF PressButton, decoded
    <2>9. CASE Tick
      BY <2>9, SessionFrame DEF Tick
    <2>10. ASSUME NEW type \in FrameTypes, NEW size \in FrameSizes,
                  BeginFrame(type, size)
           PROVE SessionInv'
      BY <2>10, SessionFrame DEF BeginFrame, decoded
    <2>11. CASE UNCHANGED vars
      BY <2>11, SessionFrame DEF vars, decoded
    <2>12. QED
      BY <2>1, <2>2, <2>3, <2>4, <2>5, <2>6, <2>7, <2>8, <2>9, <2>10, <2>11
      DEF Next, Component, Environment
  <1>3. SessionInv => SessionCoherent
    BY DEF SessionInv
  <1>4. QED
    BY <1>1, <1>2, <1>3, PTL DEF Spec

-----------------------------------------------------------------------------
(***************************************************************************)
(* The online status.                                                      *)
(***************************************************************************)
(* Every step leaves the online status alone, is a poll, or decodes.       *)
PollStep ==
  track_online_status_

DecodeStep ==
  reset_online_status_tracker_ /\ telemetry' \in {telemetry, "live"}

(* Nothing but update() and decode_() touches the online status.           *)
LEMMA StatusSteps ==
  ASSUME [Next]_vars
  PROVE  UNCHANGED tracked \/ PollStep \/ DecodeStep
  <1>1. ASSUME NEW n \in FragmentSizes, Notify(n)
        PROVE  UNCHANGED tracked \/ DecodeStep
    <2>1. ASSUME NEW type, decode_(type) PROVE DecodeStep
      BY <2>1 DEF decode_, decode_cell_info_, DecodeStep
    <2>2. UNCHANGED decoded \/ \E type : decode_(type)
      BY <1>1 DEF Notify, assemble
    <2>3. QED
      BY <2>1, <2>2 DEF decoded
  <1>2. CASE Update
    BY <1>2 DEF Update, PollStep
  <1>3. CASE UNCHANGED tracked
    BY <1>3
  <1>4. QED
    BY <1>1, <1>2, <1>3
    DEF Next, Component, Environment, SearchCmpl, RegForNotify, Disconnect,
        PressButton, Open, Tick, BeginFrame, LoseFragment, vars, decoded, tracked

(* An outage is announced by one poll and undone by the next frame only.   *)
THEOREM OutageOnce == Spec => []OutageAnnouncedOnce
  <1>1. Init => OutageAnnouncedOnce
    BY MaxNoResponseAssumption, SMT DEF Init, OutageAnnouncedOnce
  <1>2. TypeOK /\ OutageAnnouncedOnce /\ [Next]_vars => OutageAnnouncedOnce'
    <2> SUFFICES ASSUME TypeOK, OutageAnnouncedOnce, [Next]_vars
                 PROVE  OutageAnnouncedOnce'
      OBVIOUS
    <2>0. no_response_count_ \in RestingCounts
      BY DEF TypeOK
    <2>1. CASE UNCHANGED tracked
      BY <2>1 DEF tracked, OutageAnnouncedOnce
    <2>2. CASE PollStep /\ Expires(no_response_count_)
      <3>1. no_response_count_' = MaxNoResponse + 1
        BY <2>0, <2>2, TrackedRests DEF PollStep, track_online_status_
      <3>2. QED
        BY <2>2, <3>1, MaxNoResponseAssumption, SMT
        DEF PollStep, track_online_status_, publish_device_unavailable_,
            OutageAnnouncedOnce
    <2>3. CASE PollStep /\ ~Expires(no_response_count_)
      <3>1. /\ no_response_count_' # MaxNoResponse
            /\ no_response_count_' > MaxNoResponse
                 <=> no_response_count_ > MaxNoResponse
        BY <2>0, <2>3, MaxNoResponseAssumption, SMT
        DEF PollStep, track_online_status_, Tracked, Expires, Counted, RestingCounts
      <3>2. QED
        BY <2>3, <3>1 DEF PollStep, track_online_status_, OutageAnnouncedOnce
    <2>4. CASE DecodeStep
      BY <2>4, MaxNoResponseAssumption, SMT
      DEF DecodeStep, reset_online_status_tracker_, OutageAnnouncedOnce
    <2>5. QED
      BY <2>1, <2>2, <2>3, <2>4, StatusSteps
  <1>3. QED
    BY <1>1, <1>2, TypeCorrect, PTL DEF Spec

(* The session implements the availability contract: what the home         *)
(* automation system sees of it is a behaviour of Availability.tla.        *)
THEOREM RefinesAvailability == Spec => KeepsAvailabilityContract
  <1> DEFINE Silence(n) == IF n > MaxNoResponse THEN MaxNoResponse ELSE n
  <1>1. Init => A!Init
    BY MaxNoResponseAssumption, SMT DEF Init, A!Init
  <1>2. TypeOK /\ [Next]_vars => [A!Next]_(A!vars)
    <2> SUFFICES ASSUME TypeOK, [Next]_vars PROVE [A!Next]_(A!vars)
      OBVIOUS
    <2>0. no_response_count_ \in RestingCounts
      BY DEF TypeOK
    <2>1. CASE UNCHANGED tracked
      BY <2>1 DEF tracked, A!vars
    <2>2. CASE PollStep /\ Expires(no_response_count_)
      <3>1. /\ no_response_count_ = MaxNoResponse - 1
            /\ no_response_count_' = MaxNoResponse + 1
        BY <2>0, <2>2, TrackedRests DEF PollStep, track_online_status_
      <3>2. Silence(no_response_count_) = MaxNoResponse - 1
            /\ Silence(no_response_count_') = MaxNoResponse
        BY <3>1, MaxNoResponseAssumption, SMT
      <3>3. A!DeclaredOffline
        BY <2>2, <3>2
        DEF PollStep, track_online_status_, publish_device_unavailable_,
            A!DeclaredOffline
      <3>4. QED
        BY <3>3 DEF A!Next, A!Poll
    <2>3. CASE PollStep /\ ~Expires(no_response_count_)
      <3>1. UNCHANGED <<online, telemetry>>
        BY <2>3 DEF PollStep, track_online_status_
      <3>2. CASE no_response_count_ < MaxNoResponse - 1
        <4>1. no_response_count_' = no_response_count_ + 1
          BY <2>0, <2>3, <3>2, TrackedRests DEF PollStep, track_online_status_
        <4>2. /\ Silence(no_response_count_) = no_response_count_
              /\ Silence(no_response_count_') = no_response_count_ + 1
          BY <2>0, <3>2, <4>1, MaxNoResponseAssumption, SMT DEF RestingCounts
        <4>3. A!UnansweredPoll
          BY <3>1, <3>2, <4>2 DEF A!UnansweredPoll
        <4>4. QED
          BY <4>3 DEF A!Next, A!Poll
      <3>3. CASE no_response_count_ > MaxNoResponse
        <4>1. UNCHANGED no_response_count_
          BY <2>0, <2>3, <3>3, TrackedRests DEF PollStep, track_online_status_
        <4>2. QED
          BY <3>1, <4>1 DEF A!vars
      <3>4. QED
        BY <2>0, <2>3, <3>2, <3>3, TrackedRests, MaxNoResponseAssumption, SMT
        DEF RestingCounts
    <2>4. CASE DecodeStep
      <3>1. Silence(no_response_count_') = 0
        BY <2>4, MaxNoResponseAssumption, SMT
        DEF DecodeStep, reset_online_status_tracker_
      <3>2. A!FrameArrives
        BY <2>4, <3>1 DEF DecodeStep, reset_online_status_tracker_, A!FrameArrives
      <3>3. QED
        BY <3>2 DEF A!Next
    <2>5. QED
      BY <2>1, <2>2, <2>3, <2>4, StatusSteps
  <1>3. QED
    BY <1>1, <1>2, TypeCorrect, PTL DEF Spec, KeepsAvailabilityContract, A!Safety

-----------------------------------------------------------------------------
(***************************************************************************)
(* Reassembly.                                                             *)
(***************************************************************************)
Prefix(k) == [i \in 1 .. k |-> Unit(frame, i)]

(* What a fragment meets in the buffer when nothing of its frame was lost: *)
(* together with the buffer it makes up a longer prefix of the frame.      *)
LEMMA FragmentExtendsPrefix ==
  ASSUME TypeOK, BufferBelowMinimum, ReassemblyInStep,
         intact, sent < MinResponseSize,
         NEW n \in Nat \ {0}, n <= frame.size - sent
  PROVE  /\ Kept(Fragment(n)) \o Fragment(n) = Prefix(sent + n)
         /\ Len(Kept(Fragment(n)) \o Fragment(n)) = sent + n
  <1> DEFINE frag == Fragment(n)
             buf == Kept(frag) \o frag
  <1>1. frag \in Seq(Units) /\ Len(frag) = n
        /\ \A i \in 1 .. n : frag[i] = Unit(frame, sent + i)
    BY FragmentProperties, FrameNumbers DEF TypeOK
  <1>2. frame \in Frames
    BY FrameNumbers, SMT DEF TypeOK, NoFrame
  <1>3. frag[1].pos = sent + 1
    BY <1>1, FrameNumbers, SMT DEF Unit
  <1>4. Len(Kept(frag)) = sent /\ Kept(frag) = Prefix(sent)
    <2>1. CASE sent = 0
      <3>1. Kept(frag) = << >>
        BY <1>3, <2>1 DEF Kept, StartsWithPreamble
      <3>2. Prefix(0) = << >>
        BY SMT DEF Prefix
      <3>3. QED
        BY <2>1, <3>1, <3>2, EmptySeq
    <2>2. CASE sent # 0
      <3>1. Kept(frag) = frame_buffer_
        BY <1>3, <2>2, FrameNumbers, SizesAssumption, SMT
        DEF Kept, StartsWithPreamble, BufferBelowMinimum, TypeOK
      <3>2. frame_buffer_ = Prefix(sent)
        BY <2>2, FrameNumbers, SizesAssumption, SMT DEF ReassemblyInStep, Prefix
      <3>3. Len(frame_buffer_) = sent
        BY <3>2, FrameNumbers, SMT DEF Prefix
      <3>4. QED
        BY <3>1, <3>2, <3>3
    <2>3. QED
      BY <2>1, <2>2
  <1>5. Kept(frag) \in Seq(Units)
    BY KeptProperties DEF TypeOK
  <1>6. /\ buf \in Seq(Units)
        /\ Len(buf) = sent + n
        /\ \A i \in 1 .. sent + n :
             buf[i] = IF i <= sent THEN Kept(frag)[i] ELSE frag[i - sent]
    <2> HIDE DEF frag
    <2>1. /\ Kept(frag) \o frag \in Seq(Units)
          /\ Len(Kept(frag) \o frag) = Len(Kept(frag)) + Len(frag)
          /\ \A i \in 1 .. Len(Kept(frag)) + Len(frag) :
               (Kept(frag) \o frag)[i] = IF i <= Len(Kept(frag)) THEN Kept(frag)[i]
                                         ELSE frag[i - Len(Kept(frag))]
      BY <1>1, <1>5, ConcatProperties
    <2>2. QED
      BY <1>1, <1>4, <2>1
  <1>7. \A i \in 1 .. sent + n : buf[i] = Unit(frame, i)
    <2> SUFFICES ASSUME NEW i \in 1 .. sent + n PROVE buf[i] = Unit(frame, i)
      OBVIOUS
    <2>1. CASE i <= sent
      BY <1>4, <1>6, <2>1, FrameNumbers, SMT DEF Prefix
    <2>2. CASE i > sent
      <3>1. i - sent \in 1 .. n /\ sent + (i - sent) = i
        BY <2>2, FrameNumbers, SMT
      <3>2. buf[i] = frag[i - sent]
        BY <1>6, <2>2, FrameNumbers, SMT
      <3>3. frag[i - sent] = Unit(frame, i)
        <4> HIDE DEF frag
        <4>1. QED
          BY <1>1, <3>1, FrameNumbers, SMT DEF Unit
      <3>4. QED
        <4> HIDE DEF frag, buf
        <4>1. QED
          BY <3>2, <3>3
    <2>3. i <= sent \/ i > sent
      BY FrameNumbers, SMT
    <2>4. QED
      <3> HIDE DEF frag, buf
      <3>1. QED
        BY <2>1, <2>2, <2>3
  <1>8. buf = Prefix(sent + n)
    <2>1. \A i \in 1 .. sent + n : Unit(frame, i) \in Units
      BY <1>2, SMT DEF Unit, Units
    <2>2. Prefix(sent + n) \in Seq(Units) /\ Len(Prefix(sent + n)) = sent + n
      <3>1. Prefix(sent + n) \in [1 .. sent + n -> Units]
        BY <2>1 DEF Prefix
      <3>2. sent + n \in Nat
        BY FrameNumbers, SMT
      <3>3. QED
        BY <3>1, <3>2, SeqDef, LenProperties, SMT
    <2>3. QED
      BY <1>6, <1>7, <2>2, SeqEqual DEF Prefix
  <1>9. QED
    BY <1>6, <1>8

(* While nothing of the frame in transit is lost, the buffer is what was   *)
(* sent of it.                                                             *)
THEOREM ReassemblyStaysInStep == Spec => []ReassemblyInStep
  <1>1. Init => ReassemblyInStep
    BY DEF Init, ReassemblyInStep
  <1>2. TypeOK /\ BufferBelowMinimum /\ ReassemblyInStep /\ [Next]_vars
          => ReassemblyInStep'
    <2> SUFFICES ASSUME TypeOK, BufferBelowMinimum, ReassemblyInStep, [Next]_vars
                 PROVE  ReassemblyInStep'
      OBVIOUS
    <2>1. ASSUME NEW n \in FragmentSizes, Notify(n) PROVE ReassemblyInStep'
      <3> SUFFICES ASSUME intact', sent' \in 1 .. MinResponseSize - 1
                   PROVE  frame_buffer_' = [i \in 1 .. sent' |-> Unit(frame', i)]
        BY DEF ReassemblyInStep
      <3>1. /\ n \in Nat \ {0} /\ n <= frame.size - sent
            /\ sent' = sent + n /\ intact /\ frame' = frame
        BY <2>1, FrameNumbers, SMT DEF FragmentSizes, Notify, Leave
      <3>2. sent < MinResponseSize /\ sent + n < MinResponseSize
        BY <3>1, FrameNumbers, SizesAssumption, SMT
      <3>3. /\ Kept(Fragment(n)) \o Fragment(n) = Prefix(sent + n)
            /\ Len(Kept(Fragment(n)) \o Fragment(n)) = sent + n
        BY <3>1, <3>2, FragmentExtendsPrefix
      <3>4. frame_buffer_' = Prefix(sent + n)
        BY <2>1, <3>2, <3>3 DEF Notify, assemble, Incomplete
      <3>5. QED
        BY <3>1, <3>4 DEF Prefix
    <2>2. CASE UNCHANGED <<intact, sent, frame, frame_buffer_>>
      BY <2>2 DEF ReassemblyInStep
    <2>3. CASE ~intact'
      BY <2>3 DEF ReassemblyInStep
    <2>4. CASE sent' = 0
      BY <2>4, SMT DEF ReassemblyInStep
    <2>5. QED
      BY <2>1, <2>2, <2>3, <2>4
      DEF Next, Component, Environment, Update, SearchCmpl, RegForNotify,
          Disconnect, PressButton, Open, Tick, BeginFrame, LoseFragment, vars, battery
  <1>3. QED
    BY <1>1, <1>2, TypeCorrect, BufferNeverFull, PTL DEF Spec

(* Losses before a frame never cost the frame itself: the fragment that    *)
(* completes it has it decoded.                                            *)
THEOREM DecodesCompleteFrames == Spec => CompleteFrameIsDecoded
  <1> DEFINE Decoded ==
        Completes =>
          /\ online' = "online" /\ no_response_count_' = 0
          /\ frame_buffer_' = << >>
          /\ frame.type = "cell_info" /\ elapsed >= Throttle =>
               telemetry' = "live" /\ status_notification_received_'
  <1>1. TypeOK /\ BufferBelowMinimum /\ ReassemblyInStep /\ [Next]_vars => Decoded
    <2> SUFFICES ASSUME TypeOK, BufferBelowMinimum, ReassemblyInStep, [Next]_vars,
                        Completes
                 PROVE  /\ online' = "online" /\ no_response_count_' = 0
                        /\ frame_buffer_' = << >>
                        /\ frame.type = "cell_info" /\ elapsed >= Throttle =>
                             telemetry' = "live" /\ status_notification_received_'
      OBVIOUS
    <2>1. PICK n \in FragmentSizes : Notify(n)
      <3>1. sent' # sent /\ sent' # 0 /\ intact'
        BY FrameNumbers, SizesAssumption, SMT DEF Completes
      <3>2. QED
        BY <3>1
        DEF Next, Component, Environment, Update, SearchCmpl, RegForNotify,
            Disconnect, PressButton, Open, Tick, BeginFrame, LoseFragment, vars, battery
    <2>2. n \in Nat \ {0} /\ n <= frame.size - sent
          /\ sent' = sent + n /\ intact
      BY <2>1, FrameNumbers, SMT DEF FragmentSizes, Notify, Leave, Completes
    <2> DEFINE buf == Kept(Fragment(n)) \o Fragment(n)
    <2>3. buf = Prefix(sent + n) /\ Len(buf) = sent + n
      BY <2>2, FragmentExtendsPrefix DEF Completes
    <2>4. ~Incomplete(buf)
      BY <2>2, <2>3, FrameNumbers, SizesAssumption, SMT DEF Completes, Incomplete
    <2>5. \A i \in 1 .. MinResponseSize : buf[i] = Unit(frame, i)
      BY <2>2, <2>3, FrameNumbers, SizesAssumption, SMT DEF Completes, Prefix
    <2>6. buf[1].frame = frame
      <3>1. 1 \in 1 .. MinResponseSize
        BY SizesAssumption, SMT
      <3>2. buf[1] = Unit(frame, 1)
        <4> HIDE DEF buf
        <4>1. QED
          BY <2>5, <3>1
      <3>3. QED
        BY <3>2 DEF Unit
    <2>7. Genuine(buf)
      BY <2>5, <2>6 DEF Genuine
    <2>8. frame_buffer_' = << >> /\ decode_(frame.type)
      BY <2>1, <2>4, <2>6, <2>7 DEF Notify, assemble, Rejectable, AcceptedTypes
    <2>9. elapsed >= Throttle => ~Throttled
      BY ThrottleAssumption, SMT DEF TypeOK, Throttled
    <2>10. QED
      BY <2>8, <2>9 DEF decode_, decode_cell_info_, reset_online_status_tracker_
  <1>2. QED
    BY <1>1, TypeCorrect, BufferNeverFull, ReassemblyStaysInStep, PTL
    DEF Spec, CompleteFrameIsDecoded

=============================================================================
