----------------------- MODULE JkBmsBleEntitiesProofs -----------------------
(***************************************************************************)
(* Theorems about what the entities of a JK BMS show, for every limit of   *)
(* the tracker and every throttle.  The tables of fields are opened for    *)
(* two lemmas only: what an outage takes back is what cell info shows, but *)
(* for the measurements it keeps, and no other frame shows any of it.      *)
(***************************************************************************)
EXTENDS JkBmsBleEntities, TLAPS

ShownStates == {"none", "live", "invalid"}

Measured(v) == Published(FieldsOf(v, "cell_info")) \ KeptMeasurements

-----------------------------------------------------------------------------
(***************************************************************************)
(* Lemmas about the tables.                                                *)
(***************************************************************************)
(* An outage takes back every measurement of cell info but the kept ones,  *)
(* in each version.                                                        *)
LEMMA CellInfoIsTakenBack ==
  ASSUME NEW v PROVE Measured(v) \subseteq Invalidated
  <1> DEFINE TakenBack(fields) == \A f \in fields : f.shows \subseteq Invalidated \cup KeptMeasurements
  <1>1. TakenBack(jk02_cell_arrays(v))
    BY SMT DEF jk02_cell_arrays, Value, Logged, Field, Invalidated, InvalidatedExceptHeating,
               CellStatistics
  <1>2. TakenBack(jk02_cell_sums(v))
    BY SMT DEF jk02_cell_sums, jk02_mosfet_temperature, Value, Logged, Field, Invalidated,
               InvalidatedExceptHeating, KeptMeasurements
  <1>3. TakenBack(jk02_cell_counters(v))
    BY SMT DEF jk02_cell_counters, Value, Logged, Field, Invalidated, InvalidatedExceptHeating,
               KeptMeasurements
  <1>4. TakenBack(jk02_cell_states(v))
    BY SMT DEF jk02_cell_states, Value, Truth, Logged, Field, Invalidated,
               InvalidatedExceptHeating, KeptMeasurements
  <1>5. TakenBack(jk02_cell_extras(v))
    BY SMT DEF jk02_cell_extras, Value, Flag, Field, Invalidated, InvalidatedExceptHeating,
               KeptMeasurements
  <1>6. TakenBack(jk04_cell_arrays)
    BY SMT DEF jk04_cell_arrays, Value, Field, Invalidated, InvalidatedExceptHeating,
               CellStatistics
  <1>7. TakenBack(jk04_cell_states)
    BY SMT DEF jk04_cell_states, Value, Logged, Field, Invalidated, InvalidatedExceptHeating,
               KeptMeasurements
  <1>8. TakenBack(FieldsOf(v, "cell_info"))
    BY <1>1, <1>2, <1>3, <1>4, <1>5, <1>6, <1>7 DEF FieldsOf, Jk02CellInfo
  <1>9. QED
    BY <1>8 DEF Measured, Published

(* No other frame shows anything an outage takes back.                     *)
LEMMA OthersShowNoMeasurement ==
  ASSUME NEW v, NEW type \in FrameTypes, type # "cell_info"
  PROVE  Published(FieldsOf(v, type)) \cap Invalidated = {}
  <1> DEFINE Apart(fields) == \A f \in fields : f.shows \cap Invalidated = {}
  <1>1. Apart(jk02_settings_voltages) /\ Apart(jk02_settings_currents)
    BY SMT DEF jk02_settings_voltages, jk02_settings_currents, Unsigned, Field, Invalidated,
               InvalidatedExceptHeating, CellStatistics
  <1>2. Apart(jk02_settings_temperatures) /\ Apart(jk02_settings_pack)
    BY SMT DEF jk02_settings_temperatures, jk02_settings_pack, Unsigned, Signed, Truth, Field,
               Invalidated, InvalidatedExceptHeating, CellStatistics
  <1>3. Apart(jk02_24s_wire_resistances) /\ Apart(jk02_32s_wire_resistances)
    BY SMT DEF jk02_24s_wire_resistances, jk02_32s_wire_resistances, Logged, Value, Field
  <1>4. Apart(jk02_32s_controls)
    BY SMT DEF jk02_32s_controls, Value, Unsigned, Flag, Field, Invalidated,
               InvalidatedExceptHeating, CellStatistics
  <1>5. Apart(jk02_32s_heating)
    BY SMT DEF jk02_32s_heating, Signed, Unsigned, Logged, Value, Field, Invalidated,
               InvalidatedExceptHeating, CellStatistics
  <1>6. Apart(jk04_settings)
    BY SMT DEF jk04_settings, Logged, Value, Unsigned, Float, Truth, Field, Invalidated,
               InvalidatedExceptHeating, CellStatistics
  <1>7. Apart(device_info_texts)
    BY SMT DEF device_info_texts, Value, Logged, Field, Invalidated, InvalidatedExceptHeating,
               CellStatistics
  <1>8. Apart(device_info_ports) /\ Apart(device_info_charging)
    BY SMT DEF device_info_ports, device_info_charging, Unsigned, Value, Logged, Field,
               Invalidated, InvalidatedExceptHeating, CellStatistics
  <1>9. Apart(logbook_entries)
    BY SMT DEF logbook_entries, Logged, Value, Field
  <1>10. Apart(Jk02Settings(v))
    BY <1>1, <1>2, <1>3, <1>4, <1>5 DEF Jk02Settings
  <1>11. Apart(FieldsOf(v, type))
    BY <1>6, <1>7, <1>8, <1>9, <1>10 DEF FieldsOf, FrameTypes
  <1>12. QED
    BY <1>11 DEF Published

-----------------------------------------------------------------------------
(***************************************************************************)
(* Lemmas about the operations.                                            *)
(***************************************************************************)
(* A poll takes the no-response counter from one resting value to another; *)
(* it leaves the limit behind exactly when it expires.                     *)
LEMMA TrackedRests ==
  ASSUME NEW n \in RestingCounts
  PROVE  /\ Tracked(n) \in RestingCounts
         /\ Expires(n) <=> n = MaxNoResponse - 1
         /\ Expires(n) => Tracked(n) = MaxNoResponse + 1
         /\ n < MaxNoResponse - 1 => Tracked(n) = n + 1
         /\ n > MaxNoResponse => Tracked(n) = n
  BY MaxNoResponseAssumption, SMT
  DEF RestingCounts, Tracked, Expires, Counted

(* Every entity of a frame type is one of the entities.                    *)
LEMMA PublishedAreEntities ==
  ASSUME NEW type \in FrameTypes
  PROVE  Published(FieldsOf(version, type)) \subseteq Entities(version)
  BY Zenon DEF Entities

(* The version is configured; the entities stay the ones it has. *)
LEMMA VersionStays ==
  ASSUME [Next]_vars PROVE UNCHANGED version
  BY DEF Next, Update, decode_, Tick, vars

(* The three ways a step leaves the entities. *)
LEMMA ShownSteps ==
  ASSUME TypeOK, [Next]_vars
  PROVE  \/ publish_device_unavailable_
         \/ \E type \in FrameTypes : publish_(type)
         \/ UNCHANGED <<shown, heard>>
  <1>1. CASE Update
    BY <1>1 DEF Update, track_online_status_
  <1>2. ASSUME NEW type \in FrameTypes, decode_(type)
        PROVE  publish_(type) \/ UNCHANGED <<shown, heard>>
    BY <1>2 DEF decode_, Publishes
  <1>3. CASE Tick \/ UNCHANGED vars
    BY <1>3 DEF Tick, vars
  <1>4. QED
    BY <1>1, <1>2, <1>3 DEF Next

-----------------------------------------------------------------------------
(***************************************************************************)
(* Type correctness.                                                       *)
(***************************************************************************)
(* Polls, frames and the throttle keep every variable in its type.         *)
THEOREM TypeCorrect == Spec => []TypeOK
  <1>1. Init => TypeOK
    <2> SUFFICES ASSUME Init PROVE TypeOK
      OBVIOUS
    <2>1. 0 \in RestingCounts /\ Throttle \in 0 .. Throttle
      BY MaxNoResponseAssumption, ThrottleAssumption, SMT DEF RestingCounts
    <2>2. QED
      BY <2>1 DEF Init, TypeOK
  <1>2. TypeOK /\ [Next]_vars => TypeOK'
    <2> SUFFICES ASSUME TypeOK, [Next]_vars PROVE TypeOK'
      OBVIOUS
    <2>1. version' \in Versions /\ UNCHANGED version
      BY VersionStays DEF TypeOK
    <2>2. shown' \in [Entities(version) -> ShownStates] /\ heard' \subseteq FrameTypes
      <3>1. shown \in [Entities(version) -> ShownStates] /\ heard \subseteq FrameTypes
        BY DEF TypeOK, ShownStates
      <3>2. CASE publish_device_unavailable_
        BY <3>1, <3>2 DEF publish_device_unavailable_, ShownStates
      <3>3. ASSUME NEW type \in FrameTypes, publish_(type)
            PROVE  shown' \in [Entities(version) -> ShownStates] /\ heard' \subseteq FrameTypes
        BY <3>1, <3>3 DEF publish_, ShownStates
      <3>4. QED
        BY <3>1, <3>2, <3>3, ShownSteps
    <2>3. no_response_count_' \in RestingCounts
      <3>1. CASE Update
        BY <3>1, TrackedRests DEF Update, track_online_status_, TypeOK
      <3>2. ASSUME NEW type, decode_(type) PROVE no_response_count_' \in RestingCounts
        BY <3>2, MaxNoResponseAssumption, SMT DEF decode_, RestingCounts
      <3>3. QED
        BY <3>1, <3>2 DEF Next, Tick, vars, TypeOK
    <2>4. online' \in {"unknown", "online", "offline"}
      BY DEF TypeOK, Next, Update, track_online_status_, publish_device_unavailable_, decode_,
             Tick, vars
    <2>5. elapsed' \in 0 .. Throttle
      BY ThrottleAssumption DEF TypeOK, Next, Update, decode_, Publishes, Tick, vars
    <2>6. QED
      BY <2>1, <2>2, <2>3, <2>4, <2>5 DEF TypeOK, ShownStates
  <1>3. QED
    BY <1>1, <1>2, PTL DEF Spec

(***************************************************************************)
(* What an outage takes back.                                              *)
(***************************************************************************)
(* No measurement survives an outage, none is taken back by anything else, *)
(* and the first cell info after it shows all of them: the list in         *)
(* publish_device_unavailable_ fits the decoders of every version.         *)
THEOREM MeasurementsAreFresh == Spec => []MeasurementsFollowFrames
  <1>1. Init => MeasurementsFollowFrames
    <2> SUFFICES ASSUME Init, NEW e \in Measured(version)
                 PROVE  shown[e] # "live" /\ "cell_info" \notin heard
      BY DEF MeasurementsFollowFrames, Measurements, Measured
    <2>1. e \in Entities(version)
      BY PublishedAreEntities DEF Measured, FrameTypes
    <2>2. QED
      BY <2>1 DEF Init
  <1>2. TypeOK /\ MeasurementsFollowFrames /\ [Next]_vars => MeasurementsFollowFrames'
    <2> SUFFICES ASSUME TypeOK, MeasurementsFollowFrames, [Next]_vars,
                        NEW e \in Measured(version)
                 PROVE  (shown'[e] = "live") <=> ("cell_info" \in heard')
      BY VersionStays DEF MeasurementsFollowFrames, Measurements, Measured
    <2>1. e \in DOMAIN shown /\ e \in Invalidated /\ e \in Published(FieldsOf(version, "cell_info"))
      BY PublishedAreEntities, CellInfoIsTakenBack DEF Measured, FrameTypes, TypeOK
    <2>2. (shown[e] = "live") <=> ("cell_info" \in heard)
      BY DEF MeasurementsFollowFrames, Measurements, Measured
    <2>3. CASE publish_device_unavailable_
      BY <2>1, <2>3 DEF publish_device_unavailable_
    <2>4. CASE publish_("cell_info")
      BY <2>1, <2>4 DEF publish_
    <2>5. ASSUME NEW type \in FrameTypes, type # "cell_info", publish_(type)
          PROVE  (shown'[e] = "live") <=> ("cell_info" \in heard')
      <3>1. e \notin Published(FieldsOf(version, type))
        BY <2>1, <2>5, OthersShowNoMeasurement
      <3>2. QED
        BY <2>1, <2>2, <2>5, <3>1 DEF publish_
    <2>6. QED
      BY <2>2, <2>3, <2>4, <2>5, ShownSteps
  <1>3. QED
    BY <1>1, <1>2, TypeCorrect, PTL DEF Spec

(* Every measurement keeps the availability contract, whatever frames come *)
(* and are throttled, in every version.                                    *)
THEOREM EveryMeasurementKeepsContract == Spec => MeasurementsKeepContract
  <1> DEFINE Silence(n) == IF n > MaxNoResponse THEN MaxNoResponse ELSE n
             Contract == \A e \in Measurements : A(e)!Next \/ UNCHANGED A(e)!vars
  <1>1. Init => \A e \in Measurements : A(e)!Init
    <2> SUFFICES ASSUME Init, NEW e \in Measurements PROVE A(e)!Init
      OBVIOUS
    <2>1. e \in Entities(version)
      BY PublishedAreEntities DEF Measurements, FrameTypes
    <2> QED BY <2>1, MaxNoResponseAssumption, SMT DEF Init, A!Init
  <1>2. TypeOK /\ [Next]_vars => [Contract]_vars
    <2> SUFFICES ASSUME TypeOK, [Next]_vars, NEW e \in Measurements
                 PROVE  A(e)!Next \/ UNCHANGED A(e)!vars
      OBVIOUS
    <2>0. /\ no_response_count_ \in RestingCounts
          /\ e \in DOMAIN shown /\ e \in Invalidated
      BY PublishedAreEntities, CellInfoIsTakenBack DEF Measurements, Measured, FrameTypes, TypeOK
    <2>1. CASE UNCHANGED <<no_response_count_, online, shown>>
      BY <2>1 DEF A!vars
    <2>2. CASE Update /\ Expires(no_response_count_)
      <3>1. /\ no_response_count_ = MaxNoResponse - 1
            /\ no_response_count_' = MaxNoResponse + 1
        BY <2>0, <2>2, TrackedRests DEF Update, track_online_status_
      <3>2. /\ Silence(no_response_count_) = MaxNoResponse - 1
            /\ Silence(no_response_count_') = MaxNoResponse
        BY <3>1, MaxNoResponseAssumption, SMT
      <3>3. online' = "offline" /\ shown'[e] = "invalid"
        BY <2>0, <2>2 DEF Update, track_online_status_, publish_device_unavailable_
      <3> QED BY <3>2, <3>3 DEF A!DeclaredOffline, A!Next, A!Poll
    <2>3. CASE Update /\ ~Expires(no_response_count_)
      <3>1. /\ UNCHANGED <<online, shown>>
            /\ no_response_count_' = Tracked(no_response_count_)
        BY <2>3 DEF Update, track_online_status_
      <3>2. CASE no_response_count_ < MaxNoResponse - 1
        <4>1. /\ Silence(no_response_count_) = no_response_count_
              /\ Silence(no_response_count_') = no_response_count_ + 1
          BY <2>0, <3>1, <3>2, TrackedRests, MaxNoResponseAssumption, SMT DEF RestingCounts
        <4> QED BY <3>1, <3>2, <4>1 DEF A!UnansweredPoll, A!Next, A!Poll
      <3>3. CASE no_response_count_ > MaxNoResponse
        BY <2>0, <2>1, <3>1, <3>3, TrackedRests
      <3> QED
        BY <2>0, <2>3, <3>2, <3>3, TrackedRests, MaxNoResponseAssumption, SMT DEF RestingCounts
    <2>4. ASSUME NEW type \in FrameTypes, decode_(type)
          PROVE  A(e)!Next
      <3>1. no_response_count_' = 0 /\ online' = "online" /\ Silence(no_response_count_') = 0
        BY <2>4, MaxNoResponseAssumption, SMT DEF decode_
      <3>2. shown'[e] \in {shown[e], "live"}
        BY <2>0, <2>4 DEF decode_, Publishes, publish_
      <3> QED BY <3>1, <3>2 DEF A!FrameArrives, A!Next
    <2> QED BY <2>1, <2>2, <2>3, <2>4 DEF Next, Tick, vars
  <1> QED BY <1>1, <1>2, TypeCorrect, PTL DEF Spec, MeasurementsKeepContract

=============================================================================
