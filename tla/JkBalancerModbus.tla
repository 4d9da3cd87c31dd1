-------------------------- MODULE JkBalancerModbus --------------------------
(***************************************************************************)
(* The jk_balancer_modbus bus: one serial line to several balancers, each  *)
(* with an address, and loop() with its byte parser.  Nobody takes turns:  *)
(* the drivers poll on their own schedules, so two balancers may answer at *)
(* once, and the bytes of their frames then arrive mixed.                  *)
(*                                                                         *)
(* Every frame has the same size, and its only length check is the count   *)
(* of bytes.  In the miniature here two start bytes are followed by the    *)
(* address, the rest of the data and the checksum.  loop() runs to its end *)
(* before anything else of the program does; each byte is an action.       *)
(***************************************************************************)
EXTENDS Naturals, Sequences, FiniteSets

CONSTANTS
  Devices,       \* the balancers on the line, by address
  RxTimeout,     \* rx_timeout_, in clock ticks
  FrameSize,     \* bytes of a frame (74)
  FifoSize,      \* bound: bytes that wait in the UART
  MaxFaults      \* bound: lost requests and bytes, stalls, and buffers that
                 \* pass for a frame and are none

ASSUME BusAssumption ==
  /\ RxTimeout \in Nat /\ FrameSize \in Nat /\ FrameSize > 3
  /\ FifoSize \in Nat \ {0} /\ MaxFaults \in Nat

Functions == {"read_all", "write_register"}

VARIABLES
  (* the balancers and the line, external *)
  setting,   \* of each balancer: the setting its switch controls
  owed,      \* the functions it still has to answer
  answer,    \* the frame it is sending or sent last
  sent,      \* bytes of it that left the balancer
  fit,       \* the balancer that began to answer after a silence, while
             \* nothing disturbed it since: a set of one or none
  faults,
  fifo,      \* bytes that arrived in the UART and were not read
  (* the component *)
  rx_buffer_,
  age,       \* ticks since last_jk_balancer_modbus_byte_, up to RxTimeout + 1
  reading    \* loop() is in its while loop

balancers == <<setting, owed, answer, sent>>
line == <<fit, faults, fifo>>
receiver == <<rx_buffer_, age, reading>>
bus == <<balancers, line, receiver>>

Messages == [device: Devices, function: Functions, value: BOOLEAN]
NoMessage == [device |-> "none", function |-> "none", value |-> FALSE]

Byte(message, i) == [message |-> message, pos |-> i]
Bytes == [message: Messages, pos: 1 .. FrameSize]
Prefix(message, n) == [i \in 1 .. n |-> Byte(message, i)]

BusInit ==
  /\ setting = [d \in Devices |-> FALSE] /\ owed = [d \in Devices |-> {}]
  /\ answer = [d \in Devices |-> NoMessage] /\ sent = [d \in Devices |-> 0]
  /\ fit = {} /\ faults = 0 /\ fifo = << >>
  /\ rx_buffer_ = << >> /\ age = 0 /\ reading = FALSE

-----------------------------------------------------------------------------
(***************************************************************************)
(* The balancers and the line.                                             *)
(***************************************************************************)
Underway(d) == answer[d] # NoMessage /\ sent[d] < FrameSize

(* A request of 7 bytes is heard or lost as a whole. *)
RequestHeard(d, function) ==
  owed' = [owed EXCEPT ![d] = @ \cup {function}] /\ UNCHANGED faults

Fault == faults < MaxFaults /\ faults' = faults + 1

RequestLost == Fault /\ UNCHANGED owed

send(d, function) == RequestHeard(d, function) \/ RequestLost

(* Nothing came for longer than rx_timeout_, the next loop() will see it.  *)
TimeoutPending == age > RxTimeout /\ ~reading
Quiet == TimeoutPending /\ fifo = << >> /\ \A d \in Devices : ~Underway(d)

BeginAnswer(d, function) ==
  /\ function \in owed[d] /\ ~Underway(d) /\ ~reading
  /\ answer' = [answer EXCEPT ![d] =
                  [device |-> d, function |-> function, value |-> setting[d]]]
  /\ sent' = [sent EXCEPT ![d] = 0]
  /\ owed' = [owed EXCEPT ![d] = @ \ {function}]
  /\ fit' = IF Quiet THEN {d} ELSE {}
  /\ UNCHANGED <<setting, faults, fifo, receiver>>

(* The next byte arrives, or gets lost. *)
ByteArrives(d) ==
  /\ Underway(d) /\ ~reading /\ Len(fifo) < FifoSize
  /\ sent' = [sent EXCEPT ![d] = @ + 1]
  /\ fifo' = Append(fifo, Byte(answer[d], sent[d] + 1))
  /\ UNCHANGED <<setting, owed, answer, fit, faults, receiver>>

ByteLost(d) ==
  /\ Underway(d) /\ ~reading /\ Fault
  /\ sent' = [sent EXCEPT ![d] = @ + 1]
  /\ fit' = {}
  /\ UNCHANGED <<setting, owed, answer, fifo, receiver>>

(***************************************************************************)
(* loop(): the timeout.                                                    *)
(***************************************************************************)
(* Fault: no timeout. *)
NeverTimesOut == FALSE

TimedOut == age > RxTimeout

Clear == rx_buffer_' = << >>

(* A timeout that hits an answer in the middle makes it unfit. *)
BeginLoop ==
  /\ ~reading
  /\ reading' = (fifo # << >>)
  /\ IF TimedOut THEN Clear /\ age' = 0 ELSE UNCHANGED <<rx_buffer_, age>>
  /\ fit' = IF age > RxTimeout THEN {d \in fit : Len(fifo) = sent[d]} ELSE fit
  /\ UNCHANGED <<balancers, faults, fifo>>

(***************************************************************************)
(* loop(): parse_jk_balancer_modbus_byte_.                                 *)
(***************************************************************************)
(* The start bytes; any byte behind the address may look like one. *)
IsStart(byte, i) == byte.pos = i
MayBeStart(byte, i) == byte.pos = i \/ byte.pos > 3

Complete(buf) == Len(buf) >= FrameSize

Genuine(buf) == buf = Prefix(buf[1].message, FrameSize)

(* The byte is kept, or the buffer is reset, without a frame. *)
AwaitsMore(buf, byte) ==
  \/ Len(buf) <= 2 /\ MayBeStart(byte, Len(buf))
  \/ Len(buf) > 2 /\ ~Complete(buf)

Resets(buf, byte) ==
  \/ Len(buf) <= 2 /\ ~IsStart(byte, Len(buf))
  \/ Complete(buf) /\ ~Genuine(buf)

(* What the buffer passes for: the checksum, a sum of 8 bits, accepts      *)
(* every whole frame; by chance it accepts other bytes too.                *)
Delivers(buf, message) ==
  /\ Complete(buf)
  /\ \/ Genuine(buf) /\ message = buf[1].message /\ UNCHANGED faults
     \/ ~Genuine(buf) /\ Fault

(* read_byte in the while loop; the timestamp moves with every byte kept.  *)
ReadByte ==
  /\ reading /\ fifo # << >>
  /\ fifo' = Tail(fifo)
  /\ reading' = (Tail(fifo) # << >>)
  /\ UNCHANGED <<balancers, fit>>

Parsed == Append(rx_buffer_, Head(fifo))

KeepByte ==
  /\ ReadByte /\ AwaitsMore(Parsed, Head(fifo))
  /\ rx_buffer_' = Parsed /\ age' = 0
  /\ UNCHANGED faults

DropBytes ==
  /\ ReadByte /\ Resets(Parsed, Head(fifo))
  /\ Clear
  /\ UNCHANGED <<age, faults>>

DeliverFrame(message) ==
  /\ ReadByte /\ Delivers(Parsed, message)
  /\ Clear
  /\ UNCHANGED age

=============================================================================
