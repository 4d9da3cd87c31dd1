---------------------------- MODULE JkBmsProofs ----------------------------
(***************************************************************************)
(* Theorems about the jk_bms driver on its bus, for every timeout, frame   *)
(* size, write delay and limit, and any number of losses, forgeries and    *)
(* writes.                                                                 *)
(***************************************************************************)
EXTENDS JkBms, SequenceTheorems, TLAPS

-----------------------------------------------------------------------------
(***************************************************************************)
(* Lemmas about the operators.                                             *)
(***************************************************************************)
(* A poll takes the no-response counter from one resting value to another; *)
(* it leaves the limit behind exactly when it expires.                     *)
LEMMA TrackedRests ==
  ASSUME NEW n \in RestingCounts
  PROVE  /\ Tracked(n) \in RestingCounts
         /\ Expires(n) <=> n = MaxNoResponse - 1
         /\ Expires(n) => Tracked(n) = MaxNoResponse + 1
         /\ n < MaxNoResponse - 1 => Tracked(n) = n + 1
         /\ n > MaxNoResponse => Tracked(n) = n
  BY MaxNoResponseAssumption, SMT
  DEF RestingCounts, Tracked, Expires, Counted

(* The frame the battery is sending is an answer, of a natural size.       *)
LEMMA UnderwayIsMessage ==
  ASSUME frame \in Messages \cup {NoMessage}, sent \in 0 .. FrameSize
  PROVE  /\ FrameSize \in Nat
         /\ FrameUnderway => frame \in Messages
  <1>1. CASE frame = NoMessage
    BY <1>1, SMT DEF FrameSize, FrameUnderway
  <1>2. CASE frame \in Messages
    <2>1. SizeOf[frame.function] \in Nat
      BY <1>2, SizesAssumption DEF Messages
    <2>2. QED
      BY <1>2, <2>1 DEF FrameSize
  <1>3. QED
    BY <1>1, <1>2

(* A first byte and the rest of what waits in the UART are bytes.          *)
LEMMA HeadAndTail ==
  ASSUME fifo \in Seq(Bytes), fifo # << >>
  PROVE  /\ Head(fifo) \in Bytes
         /\ Tail(fifo) \in Seq(Bytes) /\ Len(Tail(fifo)) = Len(fifo) - 1
  BY HeadTailProperties

(* The types of the receive buffer. *)
BufferTypeOK ==
  /\ rx_buffer_ \in Seq(Bytes)
  /\ expected \in {0} \cup ClaimedSizes \cup {SizeOf[f] : f \in Functions}
  /\ Len(rx_buffer_) > HeaderSize => Len(rx_buffer_) < expected

(* Every other step leaves the buffer alone. *)
LEMMA RestTypes ==
  ASSUME BufferTypeOK, UNCHANGED <<rx_buffer_, expected>> PROVE BufferTypeOK'
  BY Zenon DEF BufferTypeOK, HeaderSize

(* An empty buffer is well typed, whatever cleared it.                     *)
LEMMA ClearTypes ==
  ASSUME Clear PROVE BufferTypeOK'
  BY EmptySeq, SMT DEF Clear, BufferTypeOK, HeaderSize

(* A byte the parser keeps leaves less than a frame in the buffer: the     *)
(* byte that would complete it is delivered or clears it.                  *)
LEMMA KeepTypes ==
  ASSUME BufferTypeOK, fifo \in Seq(Bytes), KeepByte
  PROVE  BufferTypeOK'
  <1> DEFINE byte == Head(fifo)
             buf == Append(rx_buffer_, byte)
  <1>1. byte \in Bytes
    BY HeadAndTail DEF KeepByte, ReadByte
  <1>2. rx_buffer_' = buf /\ AwaitsMore(buf, byte)
    BY DEF KeepByte
  <1>3. buf \in Seq(Bytes) /\ Len(buf) = Len(rx_buffer_) + 1 /\ Len(rx_buffer_) \in Nat
    BY <1>1, AppendProperties, LenProperties DEF BufferTypeOK
  <1> HIDE DEF buf, byte
  <1>4. CASE Len(buf) - 1 < 2 /\ UNCHANGED expected
    BY <1>2, <1>3, <1>4, SMT DEF BufferTypeOK, HeaderSize
  <1>5. CASE Len(buf) - 1 = 2 /\ expected' \in LengthsIn(byte)
    <2>1. byte.frame.function \in Functions
      BY <1>1 DEF Bytes, Messages
    <2>2. LengthsIn(byte) \subseteq {0} \cup ClaimedSizes \cup {SizeOf[f] : f \in Functions}
      BY <2>1 DEF LengthsIn
    <2>3. ~(Len(buf) > HeaderSize)
      <3>1. Len(buf) - 1 = 2
        BY <1>5
      <3>2. Len(buf) \in Nat
        BY <1>3, LenProperties
      <3>3. \A n \in Nat : n - 1 = 2 => ~(n > 3)
        BY SMT
      <3>4. QED
        BY <3>1, <3>2, <3>3, Zenon DEF HeaderSize
    <2>4. rx_buffer_' \in Seq(Bytes) /\ ~(Len(rx_buffer_') > HeaderSize)
      BY <1>2, <1>3, <2>3
    <2>5. expected' \in {0} \cup ClaimedSizes \cup {SizeOf[f] : f \in Functions}
      BY <1>5, <2>2
    <2>6. QED
      BY <2>4, <2>5, Zenon DEF BufferTypeOK, HeaderSize
  <1>6. CASE Len(buf) - 1 > 2 /\ ~Complete(buf) /\ UNCHANGED expected
    <2>1. expected \in Nat
      BY SizesAssumption, SMT DEF BufferTypeOK
    <2>2. Len(buf) < expected
      BY <1>3, <1>6, <2>1, SMT DEF Complete, HeaderSize
    <2>3. QED
      BY <1>2, <1>3, <1>6, <2>2 DEF BufferTypeOK
  <1>7. QED
    BY <1>2, <1>4, <1>5, <1>6 DEF AwaitsMore

(* What reading a byte leaves in the UART.                                 *)
LEMMA ReadTypes ==
  ASSUME fifo \in Seq(Bytes), Len(fifo) <= FifoSize, ReadByte
  PROVE  /\ fifo' \in Seq(Bytes) /\ Len(fifo') <= FifoSize /\ reading' \in BOOLEAN
         /\ fifo # << >>
  <1>1. fifo # << >> /\ fifo' = Tail(fifo) /\ reading' = (Tail(fifo) # << >>)
    BY DEF ReadByte
  <1>2. Len(fifo) \in Nat
    BY LenProperties
  <1>3. QED
    BY <1>1, <1>2, HeadAndTail, FifoAssumption, SMT

(* The types of what a poll and a delivered frame publish.                 *)
PublishedTypeOK ==
  /\ no_response_count_ \in RestingCounts
  /\ online \in {"unknown", "online", "offline"}
  /\ telemetry \in {"none", "live", "invalid"}

(* A poll keeps them. *)
LEMMA TrackTypes ==
  ASSUME PublishedTypeOK, track_online_status_
  PROVE  PublishedTypeOK'
  BY TrackedRests
  DEF track_online_status_, publish_device_unavailable_, PublishedTypeOK

(* So does a request, of what the battery owes.                            *)
LEMMA SendTypes ==
  ASSUME owed \subseteq Functions, losses \in 0 .. MaxLosses,
         NEW f \in Functions, send(f)
  PROVE  owed' \subseteq Functions /\ losses' \in 0 .. MaxLosses
  <1>1. CASE RequestHeard(f)
    BY <1>1 DEF RequestHeard
  <1>2. CASE RequestLost
    BY <1>2, BoundsAssumption, SMT DEF RequestLost
  <1>3. QED
    BY <1>1, <1>2 DEF send

-----------------------------------------------------------------------------
(***************************************************************************)
(* Type correctness.                                                       *)
(***************************************************************************)
(* The bytes on the line, in the UART and in the buffer, and what the      *)
(* entities show, keep their types; the buffer holds less than the frame   *)
(* its length field announces.                                             *)
THEOREM TypeCorrect == Spec => []TypeOK
  <1>1. Init => TypeOK
    <2> SUFFICES ASSUME Init PROVE TypeOK
      OBVIOUS
    <2>1. FrameSize = 0
      BY DEF Init, BusInit, FrameSize
    <2>2. fifo \in Seq(Bytes) /\ Len(fifo) = 0 /\ rx_buffer_ \in Seq(Bytes) /\ Len(rx_buffer_) = 0
      BY EmptySeq, SMT DEF Init, BusInit
    <2>3. no_response_count_ \in RestingCounts
      BY MaxNoResponseAssumption, SMT DEF Init, RestingCounts
    <2>4. age \in 0 .. RxTimeout + 1 /\ sent \in 0 .. FrameSize /\ delay \in 0 .. WriteDelay
          /\ losses \in 0 .. MaxLosses /\ forgeries \in 0 .. MaxForgeries /\ writes \in 0 .. MaxWrites
      BY <2>1, TimeoutAssumption, WriteAssumption, BoundsAssumption, SMT DEF Init, BusInit
    <2>5. Len(fifo) <= FifoSize /\ ~(Len(rx_buffer_) > HeaderSize)
      BY <2>2, FifoAssumption, SMT DEF HeaderSize
    <2>6. QED
      BY <2>2, <2>3, <2>4, <2>5 DEF Init, BusInit, TypeOK
  <1>2. TypeOK /\ [Next]_vars => TypeOK'
    <2> SUFFICES ASSUME TypeOK, [Next]_vars PROVE TypeOK'
      OBVIOUS
    <2>0. BufferTypeOK /\ PublishedTypeOK
      BY DEF TypeOK, BufferTypeOK, PublishedTypeOK
    <2>1. CASE EnterLoop
      <3>1. BufferTypeOK'
        BY <2>0, <2>1, ClearTypes DEF EnterLoop, BeginLoop, BufferTypeOK
      <3>2. age' \in 0 .. RxTimeout + 1 /\ reading' \in BOOLEAN
        BY <2>1, TimeoutAssumption, SMT DEF EnterLoop, BeginLoop, TypeOK
      <3>3. fit' \in BOOLEAN
        BY <2>1, Zenon DEF EnterLoop, BeginLoop, TypeOK
      <3>4. QED
        BY <2>1, <3>1, <3>2, <3>3
        DEF EnterLoop, BeginLoop, BufferTypeOK, TypeOK, battery, driver, tracked, FrameSize
    <2>2. CASE Parse
      <3>1. BufferTypeOK'
        BY <2>0, <2>2, ClearTypes, KeepTypes DEF Parse, DropBytes, TypeOK
      <3>2. ReadByte /\ UNCHANGED <<driver, forgeries>>
        BY <2>2 DEF Parse, KeepByte, DropBytes
      <3>3. age' \in {0, age}
        BY <2>2 DEF Parse, KeepByte, DropBytes
      <3>4. age' \in 0 .. RxTimeout + 1
        BY <3>3, TimeoutAssumption, SMT DEF TypeOK
      <3>5. QED
        BY <3>1, <3>2, <3>4, ReadTypes
        DEF ReadByte, BufferTypeOK, TypeOK, battery, driver, tracked, FrameSize
    <2>3. CASE Deliver
      <3>1. PICK message \in Messages : DeliverFrame(message) /\ on_jk_modbus_data(message)
        BY <2>3 DEF Deliver
      <3>2. BufferTypeOK'
        BY <3>1, ClearTypes DEF DeliverFrame
      <3>3. forgeries' \in 0 .. MaxForgeries
        BY <3>1, BoundsAssumption, SMT DEF DeliverFrame, Delivers, TypeOK
      <3>4. PublishedTypeOK' /\ switch_state' \in BOOLEAN
        <4>1. 0 \in RestingCounts
          BY MaxNoResponseAssumption, SMT DEF RestingCounts
        <4>2. message.value \in BOOLEAN
          BY DEF Messages
        <4>3. QED
          BY <2>0, <3>1, <4>1, <4>2
          DEF on_jk_modbus_data, on_status_data_, reset_online_status_tracker_,
              PublishedTypeOK, TypeOK
      <3>5. ReadByte /\ UNCHANGED <<age, writing, delay, writes>>
        BY <2>3, <3>1 DEF Deliver, DeliverFrame
      <3>6. QED
        BY <3>2, <3>3, <3>4, <3>5, ReadTypes
        DEF ReadByte, BufferTypeOK, PublishedTypeOK, TypeOK, battery, FrameSize
    <2>4. CASE Update
      <3>1. owed' \subseteq Functions /\ losses' \in 0 .. MaxLosses
        BY <2>4, SendTypes DEF Update, TypeOK, Functions
      <3>2. PublishedTypeOK'
        BY <2>0, <2>4, TrackTypes DEF Update
      <3>3. QED
        BY <2>4, <3>1, <3>2
        DEF Update, PublishedTypeOK, TypeOK, receiver, FrameSize
    <2>5. ASSUME NEW state \in BOOLEAN, BeginWrite(state) PROVE TypeOK'
      <3>1. owed' \subseteq Functions /\ losses' \in 0 .. MaxLosses
        BY <2>5, SendTypes DEF BeginWrite, TypeOK, Functions
      <3>2. writes' \in 0 .. MaxWrites /\ delay' \in 0 .. WriteDelay
        BY <2>5, WriteAssumption, SMT DEF BeginWrite, TypeOK
      <3>3. writing' \in {{}, {FALSE}, {TRUE}}
        BY <2>5, Zenon DEF BeginWrite
      <3>4. UNCHANGED <<register, frame, sent, gap, fit, forgeries, fifo, receiver,
                        tracked, switch_state>>
        BY <2>5 DEF BeginWrite
      <3>5. BufferTypeOK'
        BY <2>0, <3>4, RestTypes DEF receiver
      <3>6. QED
        BY <3>1, <3>2, <3>3, <3>4, <3>5
        DEF TypeOK, BufferTypeOK, receiver, tracked, FrameSize
    <2>6. ASSUME NEW state \in BOOLEAN, EndWrite(state) PROVE TypeOK'
      <3>1. owed' \subseteq Functions /\ losses' \in 0 .. MaxLosses /\ register' \in BOOLEAN
        <4>1. CASE RequestHeard("write_register") /\ register' = state
          BY <4>1 DEF RequestHeard, TypeOK, Functions
        <4>2. CASE RequestLost /\ UNCHANGED register
          BY <4>2, BoundsAssumption, SMT DEF RequestLost, TypeOK
        <4>3. QED
          BY <2>6, <4>1, <4>2 DEF EndWrite
      <3>2. QED
        BY <2>6, <3>1 DEF EndWrite, TypeOK, receiver, tracked, FrameSize
    <2>7. ASSUME NEW function \in Functions, Answer(function) PROVE TypeOK'
      <3>1. frame' \in Messages
        BY <2>7, StatusAssumption DEF Answer, BeginFrame, Messages, TypeOK
      <3>2. sent' \in 0 .. FrameSize'
        <4>1. SizeOf[frame'.function] \in Nat
          BY <3>1, SizesAssumption DEF Messages
        <4>2. FrameSize' \in Nat
          BY <4>1, SMT DEF FrameSize
        <4>3. QED
          BY <2>7, <4>2, SMT DEF Answer, BeginFrame
      <3>3. fit' \in BOOLEAN /\ owed' \subseteq Functions
        BY <2>7, Zenon DEF Answer, BeginFrame, Quiet, TimeoutPending, TypeOK
      <3>4. QED
        BY <2>7, <3>1, <3>2, <3>3
        DEF Answer, BeginFrame, TypeOK, receiver, driver, tracked
    <2>8. CASE Transmit
      <3>1. FrameUnderway /\ frame \in Messages /\ FrameSize \in Nat
        BY <2>8, UnderwayIsMessage DEF Transmit, ByteArrives, ByteLost, TypeOK
      <3>2. sent' = sent + 1 /\ UNCHANGED frame
        BY <2>8 DEF Transmit, ByteArrives, ByteLost
      <3>3. sent + 1 \in 0 .. FrameSize /\ sent + 1 \in Nat \ {0}
        BY <3>1, SMT DEF TypeOK, FrameUnderway
      <3>4. sent' \in 0 .. FrameSize'
        BY <3>2, <3>3 DEF FrameSize
      <3>5. CASE ByteArrives
        <4>1. Byte(frame, sent + 1, gap /\ sent > 0) \in Bytes
          BY <3>1, <3>3 DEF Byte, Bytes
        <4>2. fifo' \in Seq(Bytes) /\ Len(fifo') = Len(fifo) + 1 /\ Len(fifo) \in Nat
          BY <3>5, <4>1, AppendProperties, LenProperties DEF ByteArrives, TypeOK
        <4>3. Len(fifo') <= FifoSize
          BY <3>5, <4>2, FifoAssumption, SMT DEF ByteArrives
        <4>4. QED
          BY <2>8, <3>4, <3>5, <4>2, <4>3
          DEF Transmit, ByteArrives, TypeOK, receiver, driver, tracked
      <3>6. CASE ByteLost
        <4>1. losses' \in 0 .. MaxLosses
          BY <3>6, BoundsAssumption, SMT DEF ByteLost, TypeOK
        <4>2. QED
          BY <2>8, <3>4, <3>6, <4>1
          DEF Transmit, ByteLost, TypeOK, receiver, driver, tracked
      <3>7. QED
        BY <2>8, <3>5, <3>6 DEF Transmit
    <2>9. CASE Tick
      <3>1. age' \in 0 .. RxTimeout + 1
        BY <2>9, TimeoutAssumption, SMT DEF Tick, TypeOK
      <3>2. delay' \in 0 .. WriteDelay
        BY <2>9, WriteAssumption, SMT DEF Tick, TypeOK
      <3>3. losses' \in 0 .. MaxLosses
        BY <2>9, BoundsAssumption, SMT DEF Tick, TypeOK
      <3>4. UNCHANGED <<battery, gap, fit, forgeries, fifo, rx_buffer_, expected, reading,
                        tracked, switch_state, writing, writes>>
        BY <2>9 DEF Tick
      <3>5. BufferTypeOK'
        BY <2>0, <3>4, RestTypes
      <3>6. QED
        BY <3>1, <3>2, <3>3, <3>4, <3>5
        DEF TypeOK, BufferTypeOK, battery, tracked, FrameSize
    <2>10. CASE UNCHANGED vars
      <3>1. UNCHANGED <<battery, line, receiver, tracked>>
            /\ UNCHANGED <<switch_state, writing, delay, writes>>
        BY <2>10 DEF vars, bus, driver
      <3>2. BufferTypeOK'
        BY <2>0, <3>1, RestTypes DEF receiver
      <3>3. QED
        BY <3>1, <3>2
        DEF battery, line, receiver, tracked, TypeOK, BufferTypeOK, FrameSize
    <2>11. QED
      BY <2>1, <2>2, <2>3, <2>4, <2>5, <2>6, <2>7, <2>8, <2>9, <2>10
      DEF Next, Driver, Line
  <1>3. QED
    BY <1>1, <1>2, PTL DEF Spec

-----------------------------------------------------------------------------
(***************************************************************************)
(* The online status.                                                      *)
(***************************************************************************)
(* What a delivered frame does to the online status and the measurements.  *)
DecodeStep ==
  reset_online_status_tracker_ /\ telemetry' \in {telemetry, "live"}

(* Only update() and on_jk_modbus_data touch the online status: neither    *)
(* the switch, nor a byte that is no frame yet, nor the clock.             *)
LEMMA StatusSteps ==
  ASSUME [Next]_vars
  PROVE  UNCHANGED tracked \/ track_online_status_ \/ DecodeStep
  <1>1. CASE Deliver
    BY <1>1
    DEF Deliver, on_jk_modbus_data, on_status_data_, reset_online_status_tracker_,
        DecodeStep
  <1>2. CASE Update
    BY <1>2 DEF Update
  <1>3. CASE EnterLoop \/ Parse \/ Line
    BY <1>3 DEF EnterLoop, Parse, Line, Answer, Transmit, driver
  <1>4. ASSUME NEW state \in BOOLEAN, BeginWrite(state) \/ EndWrite(state)
        PROVE  UNCHANGED tracked
    BY <1>4 DEF BeginWrite, EndWrite
  <1>5. CASE Tick
    BY <1>5 DEF Tick
  <1>6. CASE UNCHANGED vars
    BY <1>6 DEF vars, driver
  <1>7. QED
    BY <1>1, <1>2, <1>3, <1>4, <1>5, <1>6 DEF Next, Driver

(* The driver implements the availability contract, although answers of    *)
(* all three functions, forged ones among them, reset the count.           *)
THEOREM RefinesAvailability == Spec => KeepsAvailabilityContract
  <1> DEFINE Silence(n) == IF n > MaxNoResponse THEN MaxNoResponse ELSE n
  <1>1. Init => A!Init
    BY MaxNoResponseAssumption, SMT DEF Init, A!Init
  <1>2. TypeOK /\ [Next]_vars => [A!Next]_(A!vars)
    <2> SUFFICES ASSUME TypeOK, [Next]_vars PROVE [A!Next]_(A!vars)
      OBVIOUS
    <2>0. no_response_count_ \in RestingCounts
      BY DEF TypeOK
    <2>1. CASE UNCHANGED tracked
      BY <2>1 DEF tracked, A!vars
    <2>2. CASE track_online_status_ /\ Expires(no_response_count_)
      <3>1. /\ no_response_count_ = MaxNoResponse - 1
            /\ no_response_count_' = MaxNoResponse + 1
        BY <2>0, <2>2, TrackedRests DEF track_online_status_
      <3>2. Silence(no_response_count_) = MaxNoResponse - 1
            /\ Silence(no_response_count_') = MaxNoResponse
        BY <3>1, MaxNoResponseAssumption, SMT
      <3>3. A!DeclaredOffline
        BY <2>2, <3>2
        DEF track_online_status_, publish_device_unavailable_, A!DeclaredOffline
      <3>4. QED
        BY <3>3 DEF A!Next, A!Poll
    <2>3. CASE track_online_status_ /\ ~Expires(no_response_count_)
      <3>1. UNCHANGED <<online, telemetry>>
        BY <2>3 DEF track_online_status_
      <3>2. CASE no_response_count_ < MaxNoResponse - 1
        <4>1. no_response_count_' = no_response_count_ + 1
          BY <2>0, <2>3, <3>2, TrackedRests DEF track_online_status_
        <4>2. /\ Silence(no_response_count_) = no_response_count_
              /\ Silence(no_response_count_') = no_response_count_ + 1
          BY <2>0, <3>2, <4>1, MaxNoResponseAssumption, SMT DEF RestingCounts
        <4>3. A!UnansweredPoll
          BY <3>1, <3>2, <4>2 DEF A!UnansweredPoll
        <4>4. QED
          BY <4>3 DEF A!Next, A!Poll
      <3>3. CASE no_response_count_ > MaxNoResponse
        <4>1. UNCHANGED no_response_count_
          BY <2>0, <2>3, <3>3, TrackedRests DEF track_online_status_
        <4>2. QED
          BY <3>1, <4>1 DEF A!vars
      <3>4. QED
        BY <2>0, <2>3, <3>2, <3>3, TrackedRests, MaxNoResponseAssumption, SMT
        DEF RestingCounts
    <2>4. CASE DecodeStep
      <3>1. Silence(no_response_count_') = 0
        BY <2>4, MaxNoResponseAssumption, SMT
        DEF DecodeStep, reset_online_status_tracker_
      <3>2. A!FrameArrives
        BY <2>4, <3>1 DEF DecodeStep, reset_online_status_tracker_, A!FrameArrives
      <3>3. QED
        BY <3>2 DEF A!Next
    <2>5. QED
      BY <2>1, <2>2, <2>3, <2>4, StatusSteps
  <1>3. QED
    BY <1>1, <1>2, TypeCorrect, PTL DEF Spec, KeepsAvailabilityContract, A!Safety

-----------------------------------------------------------------------------
(***************************************************************************)
(* The reassembly.                                                         *)
(***************************************************************************)
(* Byte by byte: s holds the bytes of the frame behind the first n.        *)
Follows(s, n) == \A i \in 1 .. Len(s) : s[i] = Byte(frame, n + i, FALSE)

(* The buffer and then the UART hold the bytes that left the battery, and  *)
(* no others; what the buffer holds of the length field is its own.        *)
InStep ==
  /\ Len(rx_buffer_) + Len(fifo) = sent
  /\ Follows(rx_buffer_, 0) /\ Follows(fifo, Len(rx_buffer_))
  /\ Len(rx_buffer_) >= HeaderSize => expected = SizeOf[frame.function]

(* The three states of a frame that nothing disturbed: in step, about to   *)
(* have the buffer cleared, delivered.                                     *)
FitStep ==
  \/ InStep
  \/ TimeoutPending /\ Len(fifo) = sent /\ Follows(fifo, 0)
  \/ ~FrameUnderway /\ rx_buffer_ = << >> /\ fifo = << >>

FitInv == fit => frame \in Messages /\ (sent = 0 \/ ~gap) /\ FitStep

LEMMA PrefixProperties ==
  ASSUME NEW f \in Messages, NEW n \in Nat
  PROVE  /\ Prefix(f, n) \in Seq(Bytes) /\ Len(Prefix(f, n)) = n
         /\ \A i \in 1 .. n : Prefix(f, n)[i] = Byte(f, i, FALSE)
  <1>1. \A i \in 1 .. n : Byte(f, i, FALSE) \in Bytes
    BY DEF Byte, Bytes
  <1>2. Prefix(f, n) \in [1 .. n -> Bytes]
    BY <1>1 DEF Prefix
  <1>3. Prefix(f, n) \in Seq(Bytes)
    BY <1>2, SeqDef
  <1>4. DOMAIN Prefix(f, n) = 1 .. n
    BY <1>2
  <1>5. Len(Prefix(f, n)) \in Nat /\ DOMAIN Prefix(f, n) = 1 .. Len(Prefix(f, n))
    BY <1>3, LenProperties
  <1>6. Len(Prefix(f, n)) = n
    BY <1>4, <1>5, SMT
  <1>7. QED
    BY <1>3, <1>6 DEF Prefix

(* So the buffer and the UART joined are a prefix of the frame.            *)
LEMMA JoinedPrefix ==
  ASSUME NEW s \in Seq(Bytes), NEW t \in Seq(Bytes), NEW n \in Nat, frame \in Messages,
         Len(s) + Len(t) = n, Follows(s, 0), Follows(t, Len(s))
  PROVE  s \o t = Prefix(frame, n)
  <1> DEFINE whole == Prefix(frame, n)
  <1>1. /\ s \o t \in Seq(Bytes) /\ Len(s \o t) = n
        /\ \A i \in 1 .. n : (s \o t)[i] = IF i <= Len(s) THEN s[i] ELSE t[i - Len(s)]
    BY ConcatProperties
  <1>2. /\ whole \in Seq(Bytes) /\ Len(whole) = n
        /\ \A i \in 1 .. n : whole[i] = Byte(frame, i, FALSE)
    BY PrefixProperties
  <1>3. Len(s) \in Nat /\ Len(t) \in Nat
    BY LenProperties
  <1> HIDE DEF whole
  <1>4. ASSUME NEW i \in 1 .. n PROVE (s \o t)[i] = whole[i]
    <2>1. CASE i <= Len(s)
      <3>1. i \in 1 .. Len(s) /\ 0 + i = i
        BY <1>3, <2>1, SMT
      <3>2. s[i] = Byte(frame, i, FALSE)
        BY <3>1 DEF Follows
      <3>3. QED
        BY <1>1, <1>2, <2>1, <3>2
    <2>2. CASE ~(i <= Len(s))
      <3>1. i - Len(s) \in 1 .. Len(t) /\ Len(s) + (i - Len(s)) = i
        BY <1>3, <2>2, SMT
      <3>2. t[i - Len(s)] = Byte(frame, i, FALSE)
        BY <3>1 DEF Follows
      <3>3. QED
        BY <1>1, <1>2, <2>2, <3>2
    <2>3. QED
      BY <2>1, <2>2
  <1>5. s \o t = whole
    BY <1>1, <1>2, <1>4, SeqEqual
  <1>6. QED
    BY <1>5 DEF whole

(* A byte that moves from the UART to the buffer keeps them in step, and   *)
(* makes the buffer a prefix of the frame.                                 *)
LEMMA MovedByte ==
  ASSUME rx_buffer_ \in Seq(Bytes), fifo \in Seq(Bytes), fifo # << >>,
         frame \in Messages, sent \in Nat, InStep,
         NEW buf, buf = Append(rx_buffer_, Head(fifo))
  PROVE  /\ buf \in Seq(Bytes) /\ Len(buf) = Len(rx_buffer_) + 1
         /\ Len(rx_buffer_) \in Nat /\ Len(fifo) \in Nat /\ Len(buf) <= sent
         /\ Len(buf) + Len(Tail(fifo)) = sent
         /\ Follows(buf, 0) /\ Follows(Tail(fifo), Len(buf))
         /\ Head(fifo) = Byte(frame, Len(buf), FALSE)
         /\ buf = Prefix(frame, Len(buf))
  <1>1. /\ Head(fifo) \in Bytes /\ Tail(fifo) \in Seq(Bytes)
        /\ Len(Tail(fifo)) = Len(fifo) - 1
        /\ \A i \in 1 .. Len(Tail(fifo)) : Tail(fifo)[i] = fifo[i + 1]
    BY HeadTailProperties
  <1>2. /\ buf \in Seq(Bytes) /\ Len(buf) = Len(rx_buffer_) + 1
        /\ \A i \in 1 .. Len(rx_buffer_) : buf[i] = rx_buffer_[i]
        /\ buf[Len(rx_buffer_) + 1] = Head(fifo)
    BY <1>1, AppendProperties
  <1>3. Len(rx_buffer_) \in Nat /\ Len(fifo) \in Nat /\ Len(Tail(fifo)) \in Nat
    BY <1>1, LenProperties
  <1>4. /\ Len(rx_buffer_) + Len(fifo) = sent
        /\ \A i \in 1 .. Len(rx_buffer_) : rx_buffer_[i] = Byte(frame, 0 + i, FALSE)
        /\ \A i \in 1 .. Len(fifo) : fifo[i] = Byte(frame, Len(rx_buffer_) + i, FALSE)
    BY DEF InStep, Follows
  <1>5. Len(buf) <= sent /\ Len(buf) + Len(Tail(fifo)) = sent
    <2>1. \A m, n, k \in Nat : m + n = k /\ n > 0 => m + 1 <= k /\ m + 1 + (n - 1) = k
      BY SMT
    <2>2. Len(fifo) > 0
      BY <1>1, <1>3, SMT
    <2>3. QED
      BY <1>1, <1>2, <1>3, <1>4, <2>1, <2>2
  <1>6. Head(fifo) = Byte(frame, Len(buf), FALSE)
    <2>1. 1 \in 1 .. Len(fifo)
      BY <1>1, <1>3, SMT
    <2>2. Head(fifo) = fifo[1]
      BY <1>3, <2>1
    <2>3. QED
      BY <1>2, <1>4, <2>1, <2>2
  <1>7. Follows(buf, 0)
    <2> SUFFICES ASSUME NEW i \in 1 .. Len(buf) PROVE buf[i] = Byte(frame, 0 + i, FALSE)
      BY DEF Follows
    <2>1. CASE i = Len(buf)
      <3>1. 0 + i = Len(buf) /\ i = Len(rx_buffer_) + 1
        BY <1>2, <1>3, <2>1, SMT
      <3>2. QED
        BY <1>2, <1>6, <3>1
    <2>2. CASE i # Len(buf)
      <3>1. i \in 1 .. Len(rx_buffer_)
        BY <1>2, <1>3, <2>2, SMT
      <3>2. QED
        BY <1>2, <1>4, <3>1
    <2>3. QED
      BY <2>1, <2>2
  <1>8. Follows(Tail(fifo), Len(buf))
    <2> SUFFICES ASSUME NEW i \in 1 .. Len(Tail(fifo))
                 PROVE  Tail(fifo)[i] = Byte(frame, Len(buf) + i, FALSE)
      BY DEF Follows
    <2>1. i + 1 \in 1 .. Len(fifo) /\ Len(rx_buffer_) + (i + 1) = Len(buf) + i
      BY <1>1, <1>2, <1>3, SMT
    <2>2. QED
      BY <1>1, <1>4, <2>1
  <1>9. buf = Prefix(frame, Len(buf))
    <2>1. << >> \in Seq(Bytes) /\ Len(<< >>) = 0
      BY EmptySeq
    <2>2. Follows(<< >>, Len(buf))
      BY <2>1, SMT DEF Follows
    <2>3. Len(buf) + Len(<< >>) = Len(buf) /\ Len(buf) \in Nat
      BY <1>2, <1>3, <2>1, SMT
    <2>4. buf \o << >> = Prefix(frame, Len(buf))
      BY <1>2, <1>7, <2>1, <2>2, <2>3, JoinedPrefix
    <2>5. buf \o << >> = buf
      BY <1>2, ConcatEmptySeq
    <2>6. QED
      BY <2>4, <2>5
  <1>10. QED
    BY <1>2, <1>3, <1>5, <1>6, <1>7, <1>8, <1>9

(* What the parser sees of a frame in step when it reads the next byte.    *)
LEMMA BufferInStep ==
  ASSUME TypeOK, frame \in Messages, InStep, fifo # << >>,
         NEW buf, buf = Append(rx_buffer_, Head(fifo)),
         NEW size, size = SizeOf[frame.function]
  PROVE  /\ size \in Nat /\ size > HeaderSize /\ FrameSize = size /\ sent \in Nat
         /\ Len(buf) \in Nat \ {0} /\ Len(buf) <= sent /\ sent <= size
         /\ Head(fifo) = Byte(frame, Len(buf), FALSE) /\ buf[1].frame = frame
         /\ Len(buf) - 1 > 2 => expected = size
         /\ Len(buf) - 1 > 2 /\ Complete(buf) =>
              Len(buf) = size /\ sent = size /\ Genuine(buf)
  <1>1. /\ rx_buffer_ \in Seq(Bytes) /\ fifo \in Seq(Bytes)
        /\ sent \in Nat /\ sent <= FrameSize
    <2>1. FrameSize \in Nat /\ sent \in 0 .. FrameSize
      BY UnderwayIsMessage DEF TypeOK
    <2>2. sent \in Nat /\ sent <= FrameSize
      BY <2>1, SMT
    <2>3. QED
      BY <2>2 DEF TypeOK
  <1>2. /\ Len(buf) = Len(rx_buffer_) + 1 /\ Len(rx_buffer_) \in Nat /\ Len(buf) <= sent
        /\ Head(fifo) = Byte(frame, Len(buf), FALSE) /\ buf = Prefix(frame, Len(buf))
        /\ buf \in Seq(Bytes) /\ Follows(buf, 0)
    BY <1>1, MovedByte
  <1>3. Len(buf) \in Nat \ {0}
    BY <1>2, SMT
  <1>4. size \in Nat /\ size > HeaderSize /\ FrameSize = size /\ sent <= size
    <2>1. frame.function \in Functions
      BY DEF Messages
    <2>2. frame # NoMessage
      BY <2>1 DEF NoMessage, Functions
    <2>3. size \in Nat /\ size > HeaderSize
      BY <2>1, SizesAssumption
    <2>4. QED
      BY <1>1, <2>2, <2>3 DEF FrameSize
  <1>5. Len(buf) - 1 > 2 => expected = size
    BY <1>2, SMT DEF InStep, HeaderSize
  <1>6. buf[1].frame = frame
    <2>1. 1 \in 1 .. Len(buf) /\ 0 + 1 = 1
      BY <1>3, SMT
    <2>2. buf[1] = Byte(frame, 1, FALSE)
      BY <1>2, <2>1 DEF Follows
    <2>3. QED
      BY <2>2 DEF Byte
  <1>7. ASSUME Len(buf) - 1 > 2, Complete(buf)
        PROVE  Len(buf) = size /\ sent = size /\ Genuine(buf)
    <2>1. expected = size /\ Len(buf) = size /\ sent = size
      BY <1>1, <1>2, <1>3, <1>4, <1>5, <1>7, SMT DEF Complete
    <2>2. QED
      BY <1>2, <1>6, <2>1 DEF Genuine
  <1>8. QED
    BY <1>1, <1>2, <1>3, <1>4, <1>5, <1>6, <1>7

(* So the parser neither resets nor takes other bytes for a frame: it      *)
(* keeps the byte, or has the whole frame.                                 *)
LEMMA NoResetInStep ==
  ASSUME TypeOK, frame \in Messages, InStep, fifo # << >>,
         Resets(Append(rx_buffer_, Head(fifo)), Head(fifo))
  PROVE  FALSE
  <1> DEFINE buf == Append(rx_buffer_, Head(fifo))
  <1>1. /\ Len(buf) \in Nat \ {0} /\ Head(fifo) = Byte(frame, Len(buf), FALSE)
        /\ ~(Len(buf) - 1 > 2 /\ Complete(buf) /\ ~Genuine(buf))
    BY BufferInStep
  <1> HIDE DEF buf
  <1>2. Head(fifo).pos = Len(buf) /\ Len(buf) - 1 + 1 = Len(buf)
    BY <1>1 DEF Byte
  <1>3. IsStart(Head(fifo), Len(buf) - 1 + 1)
    BY <1>2, Zenon DEF IsStart
  <1>4. ~Resets(buf, Head(fifo))
    BY <1>1, <1>3, Zenon DEF Resets
  <1>5. QED
    BY <1>4 DEF buf

LEMMA KeptInStep ==
  ASSUME TypeOK, frame \in Messages, InStep, fifo # << >>,
         NEW buf, buf = Append(rx_buffer_, Head(fifo)),
         AwaitsMore(buf, Head(fifo))
  PROVE  /\ Len(buf) < SizeOf[frame.function]
         /\ Len(buf) >= HeaderSize => expected' = SizeOf[frame.function]
  <1> DEFINE size == SizeOf[frame.function]
             byte == Head(fifo)
  <1>1. /\ size \in Nat /\ size > HeaderSize /\ Len(buf) \in Nat \ {0}
        /\ byte = Byte(frame, Len(buf), FALSE)
        /\ Len(buf) - 1 > 2 => expected = size
    BY BufferInStep
  <1>2. byte.pos = Len(buf) /\ byte.frame = frame
    BY <1>1 DEF Byte
  <1>3. LengthsIn(byte) = IF byte.pos = HeaderSize THEN {size} ELSE ClaimedSizes
    BY <1>2 DEF LengthsIn
  <1> HIDE DEF size, byte
  <1>4. Len(buf) < size /\ (Len(buf) >= HeaderSize => expected' = size)
    <2>1. CASE Len(buf) - 1 < 2
      BY <1>1, <2>1, SMT DEF HeaderSize
    <2>2. CASE Len(buf) - 1 = 2 /\ expected' \in LengthsIn(byte)
      <3>1. Len(buf) = HeaderSize
        BY <1>1, <2>2, SMT DEF HeaderSize
      <3>2. expected' = size
        BY <1>2, <1>3, <2>2, <3>1
      <3>3. QED
        BY <1>1, <3>1, <3>2, SMT DEF HeaderSize
    <2>3. CASE Len(buf) - 1 > 2 /\ ~Complete(buf) /\ UNCHANGED expected
      <3>1. expected = size
        BY <1>1, <2>3
      <3>2. Len(buf) < size
        BY <1>1, <2>3, <3>1, SMT DEF Complete, HeaderSize
      <3>3. QED
        BY <2>3, <3>1, <3>2
    <2>4. QED
      BY <2>1, <2>2, <2>3 DEF AwaitsMore, byte
  <1>5. QED
    BY <1>4 DEF size

LEMMA DeliveredInStep ==
  ASSUME TypeOK, frame \in Messages, InStep, fifo # << >>,
         NEW message, DeliverFrame(message)
  PROVE  /\ Len(Append(rx_buffer_, Head(fifo))) = sent /\ ~FrameUnderway
         /\ message = frame
  <1> DEFINE buf == Append(rx_buffer_, Head(fifo))
             size == SizeOf[frame.function]
  <1>1. Delivers(buf, message)
    BY DEF DeliverFrame
  <1>2. /\ size \in Nat /\ FrameSize = size /\ Len(buf) \in Nat \ {0} /\ buf[1].frame = frame
        /\ Len(buf) - 1 > 2 /\ Complete(buf) => Len(buf) = size /\ sent = size /\ Genuine(buf)
    BY BufferInStep
  <1> HIDE DEF buf, size
  <1>3. Len(buf) - 1 > 2 /\ Complete(buf)
    BY <1>1, <1>2, SMT DEF Delivers, HeaderSize
  <1>4. Len(buf) = size /\ sent = size /\ Genuine(buf)
    BY <1>2, <1>3
  <1>5. ~FrameUnderway
    BY <1>2, <1>4, SMT DEF FrameUnderway
  <1>6. message = frame
    BY <1>1, <1>2, <1>4, Zenon DEF Delivers
  <1>7. QED
    BY <1>4, <1>5, <1>6 DEF buf

LEMMA LengthZero ==
  ASSUME NEW s \in Seq(Bytes), Len(s) = 0 PROVE s = << >>
  BY EmptySeq

(* The line: a byte that arrives of an undisturbed frame is the next one.  *)
LEMMA ArrivalInStep ==
  ASSUME TypeOK, FitInv, ByteArrives PROVE FitInv'
  <1> SUFFICES ASSUME fit PROVE frame' \in Messages /\ ~gap' /\ FitStep'
    BY Zenon DEF FitInv, ByteArrives
  <1>1. /\ frame \in Messages /\ (sent = 0 \/ ~gap) /\ FitStep
        /\ FrameUnderway /\ sent \in Nat
    <2>1. FrameSize \in Nat /\ sent \in 0 .. FrameSize
      BY UnderwayIsMessage DEF TypeOK
    <2>2. sent \in Nat
      BY <2>1, SMT
    <2>3. QED
      BY <2>2 DEF FitInv, ByteArrives
  <1>2. /\ UNCHANGED <<frame, rx_buffer_, expected, age, reading>> /\ ~gap'
        /\ sent' = sent + 1
        /\ fifo' = Append(fifo, Byte(frame, sent + 1, gap /\ sent > 0))
    BY DEF ByteArrives, receiver
  <1>3. Byte(frame, sent + 1, gap /\ sent > 0) = Byte(frame, sent + 1, FALSE)
    <2>1. ~(gap /\ sent > 0)
      BY <1>1, SMT
    <2>2. QED
      BY <2>1 DEF Byte
  <1>4. /\ Len(fifo) \in Nat /\ Len(fifo') = Len(fifo) + 1
        /\ \A i \in 1 .. Len(fifo) : fifo'[i] = fifo[i]
        /\ fifo'[Len(fifo) + 1] = Byte(frame, sent + 1, FALSE)
    <2> DEFINE next == Byte(frame, sent + 1, FALSE)
    <2>1. next \in Bytes
      BY <1>1 DEF Byte, Bytes
    <2>2. fifo \in Seq(Bytes) /\ fifo' = Append(fifo, next)
      BY <1>2, <1>3 DEF TypeOK
    <2> HIDE DEF next
    <2>3. /\ Len(fifo) \in Nat /\ Len(fifo') = Len(fifo) + 1
          /\ \A i \in 1 .. Len(fifo) : fifo'[i] = fifo[i]
          /\ fifo'[Len(fifo) + 1] = next
      BY <2>1, <2>2, AppendProperties, LenProperties
    <2>4. QED
      BY <2>3 DEF next
  <1>5. ASSUME NEW n \in Nat, n + Len(fifo) = sent, Follows(fifo, n)
        PROVE  n + Len(fifo') = sent' /\ Follows(fifo, n)'
    <2>1. n + Len(fifo') = sent' /\ n + (Len(fifo) + 1) = sent + 1
      BY <1>2, <1>4, <1>5, SMT
    <2>2. ASSUME NEW i \in 1 .. Len(fifo') PROVE fifo'[i] = Byte(frame, n + i, FALSE)
      <3>1. CASE i = Len(fifo) + 1
        BY <1>4, <2>1, <3>1
      <3>2. CASE i # Len(fifo) + 1
        <4>1. i \in 1 .. Len(fifo)
          BY <1>4, <3>2, SMT
        <4>2. QED
          BY <1>4, <1>5, <4>1 DEF Follows
      <3>3. QED
        BY <3>1, <3>2
    <2>3. QED
      BY <1>2, <2>1, <2>2 DEF Follows
  <1>6. CASE InStep
    <2>1. Len(rx_buffer_) \in Nat
      BY LenProperties DEF TypeOK
    <2>2. Len(rx_buffer_) + Len(fifo') = sent' /\ Follows(fifo, Len(rx_buffer_))'
      BY <1>2, <1>5, <1>6, <2>1 DEF InStep, Follows
    <2>3. Follows(rx_buffer_, 0)'
      BY <1>2, <1>6 DEF InStep, Follows
    <2>4. QED
      BY <1>1, <1>2, <1>6, <2>2, <2>3 DEF InStep, FitStep
  <1>7. CASE TimeoutPending /\ Len(fifo) = sent /\ Follows(fifo, 0)
    <2>1. Len(fifo') = sent' /\ Follows(fifo, 0)'
      <3>1. 0 + Len(fifo) = sent
        BY <1>4, <1>7, SMT
      <3>2. 0 + Len(fifo') = Len(fifo')
        BY <1>4, SMT
      <3>3. QED
        BY <1>5, <1>7, <3>1, <3>2
    <2>2. TimeoutPending'
      BY <1>2, <1>7 DEF TimeoutPending
    <2>3. QED
      BY <1>1, <1>2, <2>1, <2>2 DEF FitStep
  <1>8. QED
    BY <1>1, <1>6, <1>7 DEF FitStep

(* The parser: a byte it takes stays in step, or was the last of the frame. *)
LEMMA ParseInStep ==
  ASSUME TypeOK, FitInv, Parse \/ Deliver PROVE FitInv'
  <1> DEFINE buf == Append(rx_buffer_, Head(fifo))
  <1>1. ReadByte
    BY DEF Parse, Deliver, KeepByte, DropBytes, DeliverFrame
  <1>2. /\ reading /\ fifo # << >> /\ fifo' = Tail(fifo)
        /\ UNCHANGED <<frame, sent, gap, fit>>
    BY <1>1 DEF ReadByte, battery
  <1> SUFFICES ASSUME fit PROVE FitStep'
    BY <1>2 DEF FitInv
  <1>3. frame \in Messages /\ InStep
    BY <1>2 DEF FitInv, FitStep, TimeoutPending
  <1>4. rx_buffer_ \in Seq(Bytes) /\ fifo \in Seq(Bytes) /\ sent \in Nat
    <2>1. FrameSize \in Nat /\ sent \in 0 .. FrameSize
      BY UnderwayIsMessage DEF TypeOK
    <2>2. sent \in Nat
      BY <2>1, SMT
    <2>3. QED
      BY <2>2 DEF TypeOK
  <1>5. /\ Len(buf) + Len(Tail(fifo)) = sent
        /\ Follows(buf, 0) /\ Follows(Tail(fifo), Len(buf))
    BY <1>2, <1>3, <1>4, MovedByte
  <1>6. CASE KeepByte
    <2>1. rx_buffer_' = buf /\ AwaitsMore(buf, Head(fifo))
      BY <1>6 DEF KeepByte
    <2>2. Len(buf) >= HeaderSize => expected' = SizeOf[frame.function]
      BY <1>2, <1>3, <2>1, KeptInStep
    <2> HIDE DEF buf
    <2>3. InStep'
      BY <1>2, <1>5, <2>1, <2>2 DEF InStep, Follows
    <2>4. QED
      BY <2>3 DEF FitStep
  <1>7. CASE DropBytes
    <2>1. Resets(buf, Head(fifo))
      BY <1>7 DEF DropBytes
    <2>2. QED
      BY <1>2, <1>3, <2>1, NoResetInStep
  <1>8. CASE Deliver
    <2>1. PICK message : DeliverFrame(message)
      BY <1>8 DEF Deliver
    <2>2. Len(buf) = sent /\ ~FrameUnderway
      BY <1>2, <1>3, <2>1, DeliveredInStep
    <2>3. rx_buffer_' = << >>
      BY <2>1 DEF DeliverFrame, Clear
    <2>4. fifo' = << >>
      <3>1. Tail(fifo) \in Seq(Bytes)
        BY <1>2, <1>4, HeadTailProperties
      <3>2. Len(Tail(fifo)) \in Nat
        BY <3>1, LenProperties
      <3> HIDE DEF buf
      <3>3. sent + Len(Tail(fifo)) = sent
        BY <1>5, <2>2
      <3>4. Len(Tail(fifo)) = 0
        <4>1. \A m, n \in Nat : m + n = m => n = 0
          BY SMT
        <4>2. QED
          BY <1>4, <3>2, <3>3, <4>1, Zenon
      <3>5. Tail(fifo) = << >>
        BY <3>1, <3>4, LengthZero, Zenon
      <3>6. QED
        BY <1>2, <3>5
    <2>5. ~FrameUnderway'
      BY <1>2, <2>2 DEF FrameUnderway, FrameSize
    <2>6. QED
      BY <2>3, <2>4, <2>5 DEF FitStep
  <1>9. QED
    BY <1>6, <1>7, <1>8 DEF Parse

(* loop(): a timeout clears the buffer only of what came before the frame. *)
LEMMA LoopInStep ==
  ASSUME TypeOK, FitInv, BeginLoop PROVE FitInv'
  <1>1. /\ UNCHANGED <<frame, sent, gap, fifo>> /\ ~reading
        /\ fit' = (fit /\ (age > RxTimeout => Len(fifo) = sent))
        /\ IF TimedOut THEN Clear /\ age' = 0 ELSE UNCHANGED <<rx_buffer_, expected, age>>
    BY Zenon DEF BeginLoop, battery
  <1> SUFFICES ASSUME fit, age > RxTimeout => Len(fifo) = sent PROVE FitStep'
    BY <1>1, Zenon DEF FitInv
  <1>2. frame \in Messages /\ FitStep
    BY DEF FitInv
  <1>3. Len(rx_buffer_) \in Nat /\ Len(fifo) \in Nat /\ rx_buffer_ \in Seq(Bytes)
    BY LenProperties DEF TypeOK
  <1>4. FrameUnderway' = FrameUnderway
    BY <1>1 DEF FrameUnderway, FrameSize
  <1>5. CASE TimedOut
    <2>1. rx_buffer_' = << >> /\ Len(fifo) = sent
      BY <1>1, <1>5 DEF Clear, TimedOut
    <2>2. Len(rx_buffer_') = 0
      BY <2>1, EmptySeq
    <2>3. ASSUME Follows(fifo, 0) PROVE InStep'
      <3>1. Len(rx_buffer_') + Len(fifo) = sent /\ ~(Len(rx_buffer_') >= HeaderSize)
        BY <1>3, <2>1, <2>2, SMT DEF HeaderSize
      <3>2. Follows(rx_buffer_, 0)'
        BY <2>2, SMT DEF Follows
      <3>3. Follows(fifo, Len(rx_buffer_))'
        BY <1>1, <2>2, <2>3, Zenon DEF Follows
      <3>4. QED
        BY <1>1, <3>1, <3>2, <3>3, Zenon DEF InStep, HeaderSize
    <2>4. CASE InStep
      <3>1. Len(rx_buffer_) = 0
        BY <1>3, <2>1, <2>4, SMT DEF InStep
      <3>2. QED
        BY <2>3, <2>4, <3>1 DEF InStep, FitStep
    <2>5. CASE TimeoutPending /\ Len(fifo) = sent /\ Follows(fifo, 0)
      BY <2>3, <2>5 DEF FitStep
    <2>6. CASE ~FrameUnderway /\ rx_buffer_ = << >> /\ fifo = << >>
      BY <1>1, <1>4, <2>1, <2>6 DEF FitStep
    <2>7. QED
      BY <1>2, <2>4, <2>5, <2>6 DEF FitStep
  <1>6. CASE ~TimedOut
    <2>1. UNCHANGED <<rx_buffer_, expected, age>>
      BY <1>1, <1>6
    <2>2. CASE InStep
      BY <1>1, <2>1, <2>2 DEF InStep, Follows, FitStep
    <2>3. CASE ~FrameUnderway /\ rx_buffer_ = << >> /\ fifo = << >>
      BY <1>1, <1>4, <2>1, <2>3 DEF FitStep
    <2>4. ~TimeoutPending
      BY <1>6 DEF TimeoutPending, TimedOut
    <2>5. QED
      BY <1>2, <2>2, <2>3, <2>4 DEF FitStep
  <1>7. QED
    BY <1>5, <1>6

(* The battery: a frame that begins after a silence finds the timeout      *)
(* pending.                                                                *)
LEMMA BeginInStep ==
  ASSUME TypeOK, NEW function \in Functions, BeginFrame(function) PROVE FitInv'
  <1>1. frame' \in Messages
    BY StatusAssumption DEF BeginFrame, Messages, TypeOK
  <1>2. /\ sent' = 0 /\ fit' = Quiet /\ UNCHANGED <<fifo, age, reading>>
    BY Zenon DEF BeginFrame, receiver
  <1>3. ASSUME Quiet PROVE FitStep'
    <2>1. Len(fifo') = 0
      BY <1>2, <1>3, EmptySeq DEF Quiet
    <2>2. Follows(fifo, 0)'
      BY <2>1, SMT DEF Follows
    <2>3. TimeoutPending'
      BY <1>2, <1>3 DEF Quiet, TimeoutPending
    <2>4. QED
      BY <1>2, <2>1, <2>2, <2>3 DEF FitStep
  <1>4. QED
    BY <1>1, <1>2, <1>3 DEF FitInv

(* Polls, writes and the clock leave the line and the buffer alone.        *)
LEMMA RestInStep ==
  ASSUME FitInv, UNCHANGED <<frame, sent, gap, fit, fifo, rx_buffer_, expected, reading>>,
         TimeoutPending => TimeoutPending'
  PROVE  FitInv'
  <1>1. FrameUnderway' = FrameUnderway /\ (InStep => InStep')
        /\ (Follows(fifo, 0) => Follows(fifo, 0)')
    BY DEF FrameUnderway, FrameSize, InStep, Follows
  <1>2. FitStep => FitStep'
    BY <1>1 DEF FitStep
  <1>3. QED
    BY <1>2 DEF FitInv

(* So the three states are all a frame can be in while nothing disturbs it. *)
LEMMA FitInvariant == Spec => []FitInv
  <1>1. Init => FitInv
    BY DEF Init, BusInit, FitInv
  <1>2. TypeOK /\ FitInv /\ [Next]_vars => FitInv'
    <2> SUFFICES ASSUME TypeOK, FitInv, [Next]_vars PROVE FitInv'
      OBVIOUS
    <2>1. CASE EnterLoop
      BY <2>1, LoopInStep DEF EnterLoop
    <2>2. CASE Parse \/ Deliver
      BY <2>2, ParseInStep
    <2>3. CASE Transmit
      <3>1. CASE ByteArrives
        BY <3>1, ArrivalInStep
      <3>2. CASE ByteLost
        BY <3>2 DEF ByteLost, FitInv
      <3>3. QED
        BY <2>3, <3>1, <3>2 DEF Transmit
    <2>4. ASSUME NEW function \in Functions, Answer(function) PROVE FitInv'
      BY <2>4, BeginInStep DEF Answer
    <2>5. CASE Tick
      <3>1. age' >= age
        BY <2>5, SMT DEF Tick, TypeOK
      <3>2. TimeoutPending => TimeoutPending'
        BY <2>5, <3>1, TimeoutAssumption, SMT DEF Tick, TimeoutPending, TypeOK
      <3>3. UNCHANGED <<frame, sent, gap, fit, fifo, rx_buffer_, expected, reading>>
        BY <2>5 DEF Tick, battery
      <3>4. QED
        BY <3>2, <3>3, RestInStep
    <2>6. CASE Driver \/ UNCHANGED vars
      <3>1. UNCHANGED <<frame, sent, gap, fit, fifo, rx_buffer_, expected, reading, age>>
        BY <2>6 DEF Driver, Update, BeginWrite, EndWrite, vars, bus, battery, line, receiver
      <3>2. QED
        BY <3>1, RestInStep DEF TimeoutPending
    <2>7. QED
      BY <2>1, <2>2, <2>3, <2>4, <2>5, <2>6 DEF Next, Line
  <1>3. QED
    BY <1>1, <1>2, TypeCorrect, PTL DEF Spec

(* However polls, writes, losses and garbage interleave before it: a frame *)
(* that begins after a silence and is not disturbed lies in the UART and   *)
(* the buffer in order, for every timeout and frame size.                  *)
THEOREM FramesStayInStep == Spec => []ReassemblyInStep
  <1>1. TypeOK /\ FitInv => ReassemblyInStep
    <2> SUFFICES ASSUME TypeOK, FitInv, fit PROVE ReassemblyInStep
      BY DEF ReassemblyInStep
    <2>1. frame \in Messages /\ FitStep
      BY DEF FitInv
    <2>2. rx_buffer_ \in Seq(Bytes) /\ fifo \in Seq(Bytes) /\ sent \in Nat
      <3>1. FrameSize \in Nat /\ sent \in 0 .. FrameSize
        BY UnderwayIsMessage DEF TypeOK
      <3>2. sent \in Nat
        BY <3>1, SMT
      <3>3. QED
        BY <3>2 DEF TypeOK
    <2>3. CASE InStep
      BY <2>1, <2>2, <2>3, JoinedPrefix DEF InStep, ReassemblyInStep
    <2>4. CASE TimeoutPending /\ Len(fifo) = sent /\ Follows(fifo, 0)
      <3>1. << >> \in Seq(Bytes) /\ Len(<< >>) = 0 /\ << >> \o fifo = fifo
        BY <2>2, EmptySeq, ConcatEmptySeq
      <3>2. Follows(<< >>, 0) /\ Follows(fifo, Len(<< >>)) /\ Len(<< >>) + Len(fifo) = sent
        <4>1. Follows(<< >>, 0)
          BY <3>1, SMT DEF Follows
        <4>2. 0 + sent = sent
          BY <2>2, SMT
        <4>3. QED
          BY <2>4, <3>1, <4>1, <4>2, Zenon
      <3>3. fifo = Prefix(frame, sent)
        BY <2>1, <2>2, <3>1, <3>2, JoinedPrefix
      <3>4. QED
        BY <2>4, <3>3 DEF ReassemblyInStep
    <2>5. CASE ~FrameUnderway /\ rx_buffer_ = << >> /\ fifo = << >>
      <3>1. << >> \o fifo = << >>
        BY <2>2, <2>5, ConcatEmptySeq
      <3>2. QED
        BY <2>5, <3>1 DEF ReassemblyInStep
    <2>6. QED
      BY <2>1, <2>3, <2>4, <2>5 DEF FitStep
  <1>2. QED
    BY <1>1, TypeCorrect, FitInvariant, PTL

(* The last byte of an undisturbed frame has it decoded in the same step:  *)
(* no such frame is dropped, and none is left in the buffer.               *)
THEOREM UndisturbedFrameIsDecoded == Spec => CompleteFrameIsDecoded
  <1> DEFINE LastByte == fit /\ ~FrameUnderway /\ Len(fifo) = 1 /\ fifo' = << >>
             Decoded ==
               /\ online' = "online" /\ no_response_count_' = 0
               /\ frame.function = "read_all" /\ frame.complete =>
                    telemetry' = "live" /\ switch_state' = frame.value
             buf == Append(rx_buffer_, Head(fifo))
  <1>1. TypeOK /\ FitInv /\ [Next]_vars => [LastByte => Decoded]_vars
    <2> SUFFICES ASSUME TypeOK, FitInv, Next, LastByte PROVE Decoded
      OBVIOUS
    <2>1. fifo # << >> /\ fifo' # fifo
      BY EmptySeq
    <2>2. Parse \/ Deliver
      <3>1. CASE EnterLoop
        BY <2>1, <3>1, Zenon DEF EnterLoop, BeginLoop
      <3>2. CASE Line
        BY <2>1, <3>2 DEF Line, Answer, BeginFrame, Transmit, ByteArrives, ByteLost
      <3>3. CASE Driver
        BY <2>1, <3>3 DEF Driver, Update, BeginWrite, EndWrite
      <3>4. CASE Tick
        BY <2>1, <3>4 DEF Tick
      <3>5. QED
        BY <3>1, <3>2, <3>3, <3>4 DEF Next
    <2>3. reading
      BY <2>2 DEF Parse, Deliver, KeepByte, DropBytes, DeliverFrame, ReadByte
    <2>4. frame \in Messages /\ InStep
      BY <2>1, <2>3 DEF FitInv, FitStep, TimeoutPending
    <2>5. ~Parse
      <3>1. ~DropBytes
        BY <2>1, <2>4, NoResetInStep DEF DropBytes
      <3>2. ASSUME KeepByte PROVE FALSE
        <4>1. Len(buf) < SizeOf[frame.function]
          BY <2>1, <2>4, <3>2, KeptInStep DEF KeepByte
        <4>2. SizeOf[frame.function] \in Nat /\ FrameSize = SizeOf[frame.function]
          BY <2>4, SizesAssumption DEF Messages, FrameSize, NoMessage, Functions
        <4>3. sent \in Nat /\ sent >= FrameSize
          BY <4>2, SMT DEF TypeOK, FrameUnderway
        <4>4. Len(rx_buffer_) \in Nat /\ Len(rx_buffer_) + 1 = sent
          BY <2>4, LenProperties DEF InStep, TypeOK
        <4>5. Len(buf) = Len(rx_buffer_) + 1
          BY <2>1, HeadAndTail, AppendProperties DEF TypeOK
        <4> HIDE DEF buf
        <4>6. QED
          BY <4>1, <4>2, <4>3, <4>4, <4>5, SMT
      <3>3. QED
        BY <3>1, <3>2 DEF Parse
    <2>6. PICK message \in Messages : DeliverFrame(message) /\ on_jk_modbus_data(message)
      BY <2>2, <2>5 DEF Deliver
    <2>7. message = frame
      BY <2>1, <2>4, <2>6, DeliveredInStep
    <2>8. QED
      BY <2>6, <2>7 DEF on_jk_modbus_data, on_status_data_, reset_online_status_tracker_
  <1>2. QED
    BY <1>1, TypeCorrect, FitInvariant, PTL DEF Spec, CompleteFrameIsDecoded

-----------------------------------------------------------------------------
(***************************************************************************)
(* What short status frames publish.                                       *)
(***************************************************************************)
(* Measurements come back, and the switch moves on its own, only by a      *)
(* status frame that holds every field, unless other bytes passed for one. *)
THEOREM ShortStatusPublishesNothing == Spec => NothingFromShortStatus
  <1> DEFINE Full ==
               LET f == rx_buffer_[1].frame IN f.function = "read_all" /\ f.complete
             buf == Append(rx_buffer_, Head(fifo))
  <1>1. TypeOK /\ [Next]_vars => [PublishesStatus /\ forgeries' = forgeries => Full]_vars
    <2> SUFFICES ASSUME TypeOK, Next, PublishesStatus, forgeries' = forgeries PROVE Full
      OBVIOUS
    <2>1. Deliver
      <3>1. CASE EnterLoop \/ Parse \/ Line \/ Tick
        BY <3>1 DEF EnterLoop, Parse, Line, Answer, Transmit, Tick, driver, tracked,
                    PublishesStatus
      <3>2. CASE Update
        BY <3>2 DEF Update, track_online_status_, publish_device_unavailable_, PublishesStatus
      <3>3. ASSUME NEW state \in BOOLEAN, BeginWrite(state) PROVE FALSE
        BY <3>3 DEF BeginWrite, tracked, PublishesStatus
      <3>4. ASSUME NEW state \in BOOLEAN, EndWrite(state) PROVE FALSE
        BY <3>4 DEF EndWrite, tracked, PublishesStatus
      <3>5. QED
        BY <3>1, <3>2, <3>3, <3>4 DEF Next, Driver
    <2>2. PICK message \in Messages : DeliverFrame(message) /\ on_jk_modbus_data(message)
      BY <2>1 DEF Deliver
    <2>3. message.function = "read_all" /\ message.complete
      BY <2>2 DEF on_jk_modbus_data, on_status_data_, PublishesStatus
    <2>4. /\ Len(buf) > HeaderSize /\ fifo # << >>
          /\ message = buf[1].frame
      <3>1. ReadByte /\ Delivers(buf, message)
        BY <2>2 DEF DeliverFrame
      <3> HIDE DEF buf
      <3>2. forgeries' # forgeries + 1
        BY BoundsAssumption, SMT DEF TypeOK
      <3>3. QED
        BY <3>1, <3>2 DEF ReadByte, Delivers
    <2>5. buf[1] = rx_buffer_[1]
      <3>1. /\ Len(buf) = Len(rx_buffer_) + 1 /\ Len(rx_buffer_) \in Nat
            /\ \A i \in 1 .. Len(rx_buffer_) : buf[i] = rx_buffer_[i]
        BY <2>4, HeadAndTail, AppendProperties, LenProperties DEF TypeOK
      <3> HIDE DEF buf
      <3>2. 1 \in 1 .. Len(rx_buffer_)
        BY <2>4, <3>1, SMT DEF HeaderSize
      <3>3. QED
        BY <3>1, <3>2
    <2>6. QED
      BY <2>3, <2>4, <2>5
  <1>2. QED
    BY <1>1, TypeCorrect, PTL DEF Spec, NothingFromShortStatus

=============================================================================
