-------------------- MODULE HeltecBalancerBleEntitiesProofs --------------------
(***************************************************************************)
(* Theorems about what the entities of a Heltec balancer show, for every   *)
(* limit of the tracker and every throttle.  The tables of fields are      *)
(* opened for two lemmas only.                                             *)
(***************************************************************************)
EXTENDS HeltecBalancerBleEntities, TLAPS

ShownStates == {"none", "live", "invalid"}

(* The settings have been published, if only once.                         *)
SettingsShown == \A e \in PublishedOf(balancer, "settings") : shown[e] # "none"

(* A step that leaves each entity as it is, publishes it or takes it back. *)
ShownStep ==
  /\ shown' = [e \in DOMAIN shown |-> shown'[e]]
  /\ \A e \in DOMAIN shown : shown'[e] \in {shown[e], "live", "invalid"}

-----------------------------------------------------------------------------
(***************************************************************************)
(* Lemmas about the tables, the only ones to open them.                    *)
(***************************************************************************)
Measured(v) == PublishedOf(v, "cell_info")

(* An outage takes back every measurement of cell info, in both versions.  *)
LEMMA CellInfoIsTakenBack ==
  ASSUME NEW v PROVE Measured(v) \subseteq Invalidated
  <1> DEFINE TakenBack(fields) == \A f \in fields : f.shows \subseteq Invalidated
  <1>1. TakenBack(cell_arrays)
    BY SMT DEF cell_arrays, Value, Field, Invalidated, InvalidatedExceptCurrent, CellStatistics
  <1>2. TakenBack(cell_info_measurements)
    BY SMT DEF cell_info_measurements, OperationStatus, Float, Logged, Value, Field, Invalidated,
               InvalidatedExceptCurrent
  <1>3. TakenBack(cell_info_v2_measurements)
    BY SMT DEF cell_info_v2_measurements, OperationStatus, Floats, Float, Logged, Value, Field,
               Invalidated, InvalidatedExceptCurrent
  <1>4. TakenBack(cell_info_errors) /\ TakenBack(cell_info_v2_errors)
    BY SMT DEF cell_info_errors, cell_info_v2_errors, Errors, Truth, Logged, Value, Field,
               Invalidated, InvalidatedExceptCurrent
  <1>5. \A size : TakenBack(FieldsOf(v, "cell_info", size))
    BY <1>1, <1>2, <1>3, <1>4 DEF FieldsOf
  <1>6. QED
    BY <1>5 DEF Measured, PublishedOf, Published

(* No other frame shows a measurement of cell info; the device info alone  *)
(* shows some of the rest an outage takes back.                            *)
DeviceCounters == {"total_runtime", "power_on_count"}

LEMMA OthersShowNoMeasurement ==
  ASSUME NEW v, NEW type \in FrameTypes, type # "cell_info"
  PROVE  PublishedOf(v, type) \cap Measured(v) = {}
  <1> DEFINE Apart(fields) == \A f \in fields : f.shows \cap Invalidated \subseteq DeviceCounters
  <1>1. Apart(device_info)
    BY SMT DEF device_info, Value, Field, Invalidated, InvalidatedExceptCurrent, CellStatistics,
               DeviceCounters
  <1>2. Apart(settings)
    BY SMT DEF settings, Unsigned, Float, Truth, Value, Field, Invalidated,
               InvalidatedExceptCurrent, CellStatistics
  <1>3. Apart(settings_v2_balancing) /\ Apart(settings_v2_controls)
    BY SMT DEF settings_v2_balancing, settings_v2_controls, Unsigned, Float, Truth, Value, Field,
               Invalidated, InvalidatedExceptCurrent, CellStatistics
  <1>4. Apart(settings_v2_voltages) /\ Apart(settings_v2_temperatures)
    BY SMT DEF settings_v2_voltages, settings_v2_temperatures, Float, Field, Invalidated,
               InvalidatedExceptCurrent, CellStatistics
  <1>5. Apart(settings_v2_currents)
    BY SMT DEF settings_v2_currents, Unsigned, Float, Field, Invalidated,
               InvalidatedExceptCurrent, CellStatistics
  <1>6. \A size : Apart(factory_defaults(size))
    BY SMT DEF factory_defaults, Floats, Logged, Value, Field
  <1>7. \A size : Apart(FieldsOf(v, type, size))
    BY <1>1, <1>2, <1>3, <1>4, <1>5, <1>6 DEF FieldsOf, FrameTypes
  <1>8. PublishedOf(v, type) \cap Invalidated \subseteq DeviceCounters
    BY <1>7 DEF PublishedOf, Published
  <1>9. DeviceCounters \cap Measured(v) = {}
    <2> DEFINE NoCounter(fields) == \A f \in fields : f.shows \cap DeviceCounters = {}
    <2>1. NoCounter(cell_arrays)
      BY SMT DEF cell_arrays, Value, Field, CellStatistics, DeviceCounters
    <2>2. NoCounter(cell_info_measurements)
      BY SMT DEF cell_info_measurements, OperationStatus, Float, Logged, Value, Field,
                 DeviceCounters
    <2>3. NoCounter(cell_info_v2_measurements)
      BY SMT DEF cell_info_v2_measurements, OperationStatus, Floats, Float, Logged, Value, Field,
                 DeviceCounters
    <2>4. NoCounter(cell_info_errors) /\ NoCounter(cell_info_v2_errors)
      BY SMT DEF cell_info_errors, cell_info_v2_errors, Errors, Truth, Logged, Value, Field,
                 DeviceCounters
    <2>5. \A size : NoCounter(FieldsOf(v, "cell_info", size))
      BY <2>1, <2>2, <2>3, <2>4 DEF FieldsOf
    <2>6. QED
      BY <2>5 DEF Measured, PublishedOf, Published
  <1>10. QED
    BY <1>8, <1>9, CellInfoIsTakenBack

-----------------------------------------------------------------------------
(***************************************************************************)
(* Lemmas about the operations.                                            *)
(***************************************************************************)
(* A poll takes the no-response counter from one resting value to another; *)
(* it leaves the limit behind exactly when it expires.                     *)
LEMMA TrackedRests ==
  ASSUME NEW n \in RestingCounts
  PROVE  /\ Tracked(n) \in RestingCounts
         /\ Expires(n) <=> n = MaxNoResponse - 1
         /\ Expires(n) => Tracked(n) = MaxNoResponse + 1
         /\ n < MaxNoResponse - 1 => Tracked(n) = n + 1
         /\ n > MaxNoResponse => Tracked(n) = n
  BY MaxNoResponseAssumption, SMT
  DEF RestingCounts, Tracked, Expires, Counted

(* Every entity of a frame type is one of the entities.                    *)
LEMMA PublishedAreEntities ==
  ASSUME NEW type \in FrameTypes PROVE PublishedOf(balancer, type) \subseteq Entities
  BY Zenon DEF Entities

(* No step makes an entity forget that it has shown something.             *)
LEMMA ShownSteps ==
  ASSUME TypeOK, [Next]_vars PROVE ShownStep
  <1>1. ASSUME NEW type, publish_(type) PROVE ShownStep
    BY <1>1, Zenon DEF publish_, ShownStep
  <1>2. CASE publish_device_unavailable_
    BY <1>2, Zenon DEF publish_device_unavailable_, ShownStep
  <1>3. CASE UNCHANGED shown
    <2>1. shown = [e \in DOMAIN shown |-> shown[e]]
      BY DEF TypeOK
    <2>2. QED
      BY <1>3, <2>1, Zenon DEF ShownStep
  <1>4. CASE Update
    BY <1>2, <1>3, <1>4 DEF Update, track_online_status_
  <1>5. ASSUME NEW type, decode_(type) PROVE ShownStep
    BY <1>1, <1>3, <1>5 DEF decode_, Publishes
  <1>6. CASE Tick \/ Connect \/ Disconnect \/ UNCHANGED vars
    BY <1>3, <1>6 DEF Tick, Connect, Disconnect, vars
  <1>7. ASSUME NEW type, LoseAnswer(type) \/ UseControl(type) PROVE ShownStep
    BY <1>3, <1>7 DEF LoseAnswer, UseControl
  <1>8. QED
    BY <1>4, <1>5, <1>6, <1>7 DEF Next

(* The balancer behind the connection stays the one it is.                 *)
LEMMA BalancerStays ==
  ASSUME [Next]_vars PROVE UNCHANGED balancer /\ Entities' = Entities
  <1>1. UNCHANGED balancer
    BY DEF Next, Update, Tick, Connect, Disconnect, decode_, LoseAnswer, UseControl, vars
  <1>2. QED
    BY <1>1 DEF Entities

(* So the entities keep their type, and shown settings stay shown. *)
LEMMA ShownTypes ==
  ASSUME TypeOK, [Next]_vars
  PROVE  /\ shown' \in [Entities' -> ShownStates]
         /\ SettingsShown => SettingsShown'
  <1>1. ShownStep /\ UNCHANGED balancer /\ Entities' = Entities
    BY ShownSteps, BalancerStays
  <1>2. shown \in [Entities -> ShownStates] /\ DOMAIN shown = Entities
    BY DEF TypeOK, ShownStates
  <1>3. \A e \in Entities : shown'[e] \in ShownStates
    BY <1>1, <1>2 DEF ShownStep, ShownStates
  <1>4. PublishedOf(balancer, "settings") \subseteq Entities
    BY PublishedAreEntities DEF FrameTypes
  <1>5. SettingsShown => SettingsShown'
    BY <1>1, <1>2, <1>4, Zenon DEF ShownStep, SettingsShown
  <1>6. QED
    BY <1>1, <1>2, <1>3, <1>5 DEF ShownStep

(* A settings frame shows every setting.                                   *)
LEMMA SettingsAreShown ==
  ASSUME TypeOK, decode_("settings") PROVE SettingsShown'
  <1>1. PublishedOf(balancer, "settings") \subseteq DOMAIN shown /\ UNCHANGED balancer
    BY PublishedAreEntities DEF FrameTypes, TypeOK, decode_
  <1>2. publish_("settings")
    BY DEF decode_, Publishes
  <1>3. \A e \in PublishedOf(balancer, "settings") : shown'[e] = "live"
    BY <1>1, <1>2, Zenon DEF publish_
  <1>4. QED
    BY <1>1, <1>3, Zenon DEF SettingsShown

-----------------------------------------------------------------------------
(***************************************************************************)
(* Type correctness.                                                       *)
(***************************************************************************)
(* Whatever is asked, lost, published and taken back, every variable keeps *)
(* its type; above all the entities stay the ones the balancer has.        *)
THEOREM TypeCorrect == Spec => []TypeOK
  <1>1. Init => TypeOK
    <2> SUFFICES ASSUME Init PROVE TypeOK
      OBVIOUS
    <2>1. 0 \in RestingCounts /\ 0 \in 0 .. Throttle
      BY MaxNoResponseAssumption, ThrottleAssumption, SMT DEF RestingCounts
    <2>2. shown \in [Entities -> ShownStates]
      BY DEF Init, ShownStates
    <2>3. QED
      BY <2>1, <2>2 DEF Init, TypeOK, InitStates, ShownStates
  <1>2. TypeOK /\ [Next]_vars => TypeOK'
    <2> SUFFICES ASSUME TypeOK, [Next]_vars PROVE TypeOK'
      OBVIOUS
    <2>1. balancer' \in Versions /\ shown' \in [Entities' -> ShownStates]
      BY BalancerStays, ShownTypes DEF TypeOK
    <2> DEFINE LinkOK ==
                 /\ established \in BOOLEAN
                 /\ owed \subseteq FrameTypes /\ init_state_ \in InitStates
               StatusOK ==
                 /\ no_response_count_ \in RestingCounts
                 /\ online \in {"unknown", "online", "offline"}
                 /\ measured \in BOOLEAN
    <2>2. LinkOK /\ StatusOK /\ elapsed \in 0 .. Throttle
      BY DEF TypeOK
    <2>3. CASE Update
      <3>1. Requests \subseteq FrameTypes
        BY <2>2 DEF Requests, InitStates, FrameTypes
      <3>2. LinkOK' /\ elapsed' \in 0 .. Throttle
        BY <2>2, <2>3, <3>1 DEF Update
      <3>3. StatusOK'
        BY <2>2, <2>3, TrackedRests
        DEF Update, track_online_status_, publish_device_unavailable_
      <3>4. QED
        BY <2>1, <3>2, <3>3 DEF TypeOK, ShownStates
    <2>4. ASSUME NEW type \in FrameTypes, decode_(type) PROVE TypeOK'
      <3>1. LinkOK'
        <4>1. NextState(type) \in InitStates
          BY <2>2 DEF NextState, InitStates, FrameTypes
        <4>2. NextCommands(type) \subseteq FrameTypes
          BY DEF NextCommands, FrameTypes
        <4>3. QED
          BY <2>2, <2>4, <4>1, <4>2 DEF decode_
      <3>2. StatusOK'
        <4>1. 0 \in RestingCounts
          BY MaxNoResponseAssumption, SMT DEF RestingCounts
        <4>2. measured' \in BOOLEAN
          BY <2>2, <2>4, Zenon DEF decode_, Publishes, publish_
        <4>3. QED
          BY <2>4, <4>1, <4>2 DEF decode_
      <3>3. elapsed' \in 0 .. Throttle
        BY <2>2, <2>4, ThrottleAssumption DEF decode_, Publishes
      <3>4. QED
        BY <2>1, <3>1, <3>2, <3>3 DEF TypeOK, ShownStates
    <2>5. ASSUME NEW type \in FrameTypes, LoseAnswer(type) \/ UseControl(type)
          PROVE  TypeOK'
      BY <2>1, <2>2, <2>5 DEF LoseAnswer, UseControl, TypeOK, ShownStates
    <2>6. CASE Connect \/ Disconnect
      BY <2>1, <2>2, <2>6 DEF Connect, Disconnect, TypeOK, ShownStates, InitStates
    <2>7. CASE Tick
      <3>1. elapsed' \in 0 .. Throttle
        BY <2>2, <2>7, ThrottleAssumption, SMT DEF Tick
      <3>2. QED
        BY <2>1, <2>2, <2>7, <3>1 DEF Tick, link, TypeOK, ShownStates
    <2>8. CASE UNCHANGED vars
      BY <2>1, <2>2, <2>8 DEF vars, link, TypeOK, ShownStates
    <2>9. QED
      BY <2>3, <2>4, <2>5, <2>6, <2>7, <2>8 DEF Next
  <1>3. QED
    BY <1>1, <1>2, PTL DEF Spec

-----------------------------------------------------------------------------
(***************************************************************************)
(* READY follows the settings.                                             *)
(***************************************************************************)
(* The inductive part: whoever is asked for cell info, in the state that   *)
(* repeats the command or still on its way, has sent its settings before.  *)
CellInfoFollowsSettings ==
  (init_state_ \in {"NEED_CELL_INFO", "READY"} \/ "cell_info" \in owed) => SettingsShown

(* However buttons, lost answers, outages and reconnections interleave     *)
(* with the initialisation, READY is reached only behind a settings frame. *)
THEOREM ReadyAfterSettings == Spec => []ReadyShowsSettings
  <1>1. Init => CellInfoFollowsSettings
    BY DEF Init, CellInfoFollowsSettings
  <1>2. TypeOK /\ CellInfoFollowsSettings /\ [Next]_vars => CellInfoFollowsSettings'
    <2> SUFFICES ASSUME TypeOK, CellInfoFollowsSettings, [Next]_vars
                 PROVE  CellInfoFollowsSettings'
      OBVIOUS
    <2>0. SettingsShown => SettingsShown'
      BY ShownTypes
    <2>1. CASE Update
      BY <2>0, <2>1, Zenon
      DEF Update, Requests, CellInfoFollowsSettings, TypeOK, InitStates
    <2>2. CASE decode_("settings")
      BY <2>2, SettingsAreShown DEF CellInfoFollowsSettings
    <2>3. ASSUME NEW type \in FrameTypes \ {"settings"}, decode_(type)
          PROVE  CellInfoFollowsSettings'
      <3>1. CASE type = "device_info"
        BY <2>0, <2>3, <3>1
        DEF decode_, NextState, NextCommands, CellInfoFollowsSettings
      <3>2. CASE type = "cell_info"
        BY <2>0, <2>3, <3>2
        DEF decode_, NextState, NextCommands, CellInfoFollowsSettings
      <3>3. CASE type \notin {"device_info", "settings", "cell_info"}
        BY <2>0, <2>3, <3>3
        DEF decode_, NextState, NextCommands, CellInfoFollowsSettings
      <3>4. QED
        BY <2>3, <3>1, <3>2, <3>3
    <2>4. ASSUME NEW type, LoseAnswer(type) \/ UseControl(type)
          PROVE  CellInfoFollowsSettings'
      BY <2>0, <2>4 DEF LoseAnswer, UseControl, CellInfoFollowsSettings
    <2>5. CASE Connect \/ Disconnect
      BY <2>0, <2>5 DEF Connect, Disconnect, CellInfoFollowsSettings
    <2>6. CASE Tick \/ UNCHANGED vars
      BY <2>0, <2>6 DEF Tick, vars, link, CellInfoFollowsSettings
    <2>7. QED
      BY <2>1, <2>2, <2>3, <2>4, <2>5, <2>6 DEF Next
  <1>3. CellInfoFollowsSettings => ReadyShowsSettings
    BY DEF CellInfoFollowsSettings, ReadyShowsSettings, SettingsShown
  <1>4. QED
    BY <1>1, <1>2, <1>3, TypeCorrect, PTL DEF Spec

-----------------------------------------------------------------------------
(***************************************************************************)
(* What an outage takes back.                                              *)
(***************************************************************************)
(* No measurement survives an outage, none is taken back by anything else, *)
(* and the first cell info after it shows all of them: the list in         *)
(* publish_device_unavailable_ fits the decoders of both versions.         *)
THEOREM MeasurementsAreFresh == Spec => []MeasurementsFollowFrames
  <1>1. Init => MeasurementsFollowFrames
    <2> SUFFICES ASSUME Init, NEW e \in Measured(balancer)
                 PROVE  shown[e] # "live" /\ ~measured
      BY DEF MeasurementsFollowFrames, Measured, Init
    <2>1. e \in Entities
      BY PublishedAreEntities DEF Measured, FrameTypes
    <2>2. QED
      BY <2>1 DEF Init
  <1>2. TypeOK /\ MeasurementsFollowFrames /\ [Next]_vars => MeasurementsFollowFrames'
    <2> SUFFICES ASSUME TypeOK, MeasurementsFollowFrames, [Next]_vars,
                        NEW e \in Measured(balancer)
                 PROVE  (shown'[e] = "live") <=> measured'
      BY BalancerStays DEF MeasurementsFollowFrames, Measured
    <2>1. e \in DOMAIN shown /\ e \in Invalidated /\ e \in PublishedOf(balancer, "cell_info")
      BY PublishedAreEntities, CellInfoIsTakenBack DEF Measured, FrameTypes, TypeOK
    <2>2. measured \in BOOLEAN /\ ((shown[e] = "live") <=> measured)
      BY DEF MeasurementsFollowFrames, Measured, TypeOK
    <2>3. CASE publish_device_unavailable_
      BY <2>1, <2>3 DEF publish_device_unavailable_
    <2>4. ASSUME NEW type \in FrameTypes, publish_(type)
          PROVE  (shown'[e] = "live") <=> measured'
      <3>1. CASE type = "cell_info"
        BY <2>1, <2>4, <3>1 DEF publish_
      <3>2. CASE type # "cell_info"
        <4>1. e \notin PublishedOf(balancer, type)
          BY <3>2, OthersShowNoMeasurement
        <4>2. shown'[e] = shown[e] /\ measured' = measured
          BY <2>1, <2>2, <2>4, <3>2, <4>1 DEF publish_
        <4>3. QED
          BY <2>2, <4>2
      <3>3. QED
        BY <3>1, <3>2
    <2>5. CASE UNCHANGED <<shown, measured>>
      BY <2>2, <2>5
    <2>6. ASSUME NEW type \in FrameTypes, decode_(type)
          PROVE  publish_(type) \/ UNCHANGED <<shown, measured>>
      BY <2>6 DEF decode_, Publishes
    <2>7. ASSUME NEW type, LoseAnswer(type) \/ UseControl(type) PROVE UNCHANGED <<shown, measured>>
      BY <2>7 DEF LoseAnswer, UseControl
    <2>8. CASE Update
      BY <2>3, <2>5, <2>8 DEF Update, track_online_status_
    <2>9. CASE Tick \/ Connect \/ Disconnect \/ UNCHANGED vars
      BY <2>5, <2>9 DEF Tick, Connect, Disconnect, vars
    <2>10. QED
      BY <2>4, <2>5, <2>6, <2>7, <2>8, <2>9 DEF Next
  <1>3. QED
    BY <1>1, <1>2, TypeCorrect, PTL DEF Spec

(* Every measurement keeps the availability contract, whatever frames come *)
(* and are throttled, from both versions.                                    *)
THEOREM EveryMeasurementKeepsContract == Spec => MeasurementsKeepContract
  <1> DEFINE Silence(n) == IF n > MaxNoResponse THEN MaxNoResponse ELSE n
             Contract == \A e \in Measured(balancer) : A(e)!Next \/ UNCHANGED A(e)!vars
  <1>1. Init => \A e \in Measured(balancer) : A(e)!Init
    <2> SUFFICES ASSUME Init, NEW e \in Measured(balancer) PROVE A(e)!Init
      OBVIOUS
    <2>1. e \in Entities
      BY PublishedAreEntities DEF Measured, FrameTypes
    <2> QED BY <2>1, MaxNoResponseAssumption, SMT DEF Init, A!Init
  <1>2. TypeOK /\ [Next]_vars => [Contract]_vars
    <2> SUFFICES ASSUME TypeOK, [Next]_vars, NEW e \in Measured(balancer)
                 PROVE  A(e)!Next \/ UNCHANGED A(e)!vars
      OBVIOUS
    <2>0. /\ no_response_count_ \in RestingCounts
          /\ e \in DOMAIN shown /\ e \in Invalidated
      BY PublishedAreEntities, CellInfoIsTakenBack DEF Measured, FrameTypes, TypeOK
    <2>1. CASE UNCHANGED <<no_response_count_, online, shown>>
      BY <2>1 DEF A!vars
    <2>2. CASE Update /\ Expires(no_response_count_)
      <3>1. /\ no_response_count_ = MaxNoResponse - 1
            /\ no_response_count_' = MaxNoResponse + 1
        BY <2>0, <2>2, TrackedRests DEF Update, track_online_status_
      <3>2. /\ Silence(no_response_count_) = MaxNoResponse - 1
            /\ Silence(no_response_count_') = MaxNoResponse
        BY <3>1, MaxNoResponseAssumption, SMT
      <3>3. online' = "offline" /\ shown'[e] = "invalid"
        BY <2>0, <2>2 DEF Update, track_online_status_, publish_device_unavailable_
      <3> QED BY <3>2, <3>3 DEF A!DeclaredOffline, A!Next, A!Poll
    <2>3. CASE Update /\ ~Expires(no_response_count_)
      <3>1. /\ UNCHANGED <<online, shown>>
            /\ no_response_count_' = Tracked(no_response_count_)
        BY <2>3 DEF Update, track_online_status_
      <3>2. CASE no_response_count_ < MaxNoResponse - 1
        <4>1. /\ Silence(no_response_count_) = no_response_count_
              /\ Silence(no_response_count_') = no_response_count_ + 1
          BY <2>0, <3>1, <3>2, TrackedRests, MaxNoResponseAssumption, SMT DEF RestingCounts
        <4> QED BY <3>1, <3>2, <4>1 DEF A!UnansweredPoll, A!Next, A!Poll
      <3>3. CASE no_response_count_ > MaxNoResponse
        BY <2>0, <2>1, <3>1, <3>3, TrackedRests
      <3> QED
        BY <2>0, <2>3, <3>2, <3>3, TrackedRests, MaxNoResponseAssumption, SMT DEF RestingCounts
    <2>4. ASSUME NEW type \in FrameTypes, decode_(type)
          PROVE  A(e)!Next
      <3>1. no_response_count_' = 0 /\ online' = "online" /\ Silence(no_response_count_') = 0
        BY <2>4, MaxNoResponseAssumption, SMT DEF decode_
      <3>2. shown'[e] \in {shown[e], "live"}
        BY <2>0, <2>4 DEF decode_, Publishes, publish_
      <3> QED BY <3>1, <3>2 DEF A!FrameArrives, A!Next
    <2> QED BY <2>1, <2>2, <2>3, <2>4 DEF Next, Tick, Connect, Disconnect, LoseAnswer, UseControl,
             link, vars
  <1> QED BY <1>1, <1>2, TypeCorrect, PTL DEF Spec, MeasurementsKeepContract, Measured

=============================================================================
