------------------------------ MODULE JkModbus ------------------------------
(***************************************************************************)
(* The jk_modbus bus: the serial line to a battery management system, the  *)
(* receive buffer of the UART, and loop() with its byte parser.  JkBms     *)
(* composes it with the drivers on the bus.                                *)
(*                                                                         *)
(* The frame is a miniature of the real one: the start bytes 4E and 57,    *)
(* one byte for the length field, the rest of the header and the data, and *)
(* one byte for the checksum.  loop() runs to its end before anything else *)
(* of the program does; each byte it parses is an action, and a byte that  *)
(* arrives while it reads counts as one that arrived before.               *)
(***************************************************************************)
EXTENDS Naturals, Sequences

CONSTANTS
  RxTimeout,      \* rx_timeout_, in clock ticks
  SizeOf,         \* bytes of the frame of each function
  ClaimedSizes,   \* frame sizes other bytes stand for in the length field
  FifoSize,       \* bound: bytes that wait in the UART (the driver asks for 384)
  CompleteStatus, \* whether status frames hold every field: a set of BOOLEAN
  MaxLosses,      \* bound: lost requests and bytes, and stalls
  MaxForgeries    \* bound: buffers that pass for a frame and are none

(* FUNCTION_READ_ALL_REGISTERS, FUNCTION_PASSWORD, FUNCTION_WRITE_REGISTER *)
Functions == {"read_all", "password", "write_register"}

HeaderSize == 3  \* bytes up to and including the length field

ASSUME TimeoutAssumption == RxTimeout \in Nat
ASSUME SizesAssumption ==
  /\ SizeOf \in [Functions -> {n \in Nat : n > HeaderSize}]
  /\ ClaimedSizes \subseteq Nat /\ ClaimedSizes # {}
ASSUME FifoAssumption == FifoSize \in Nat \ {0}
ASSUME StatusAssumption == CompleteStatus \subseteq BOOLEAN
ASSUME BoundsAssumption == MaxLosses \in Nat /\ MaxForgeries \in Nat

VARIABLES
  (* the battery and the line, external *)
  register,  \* the setting of the battery a switch controls
  owed,      \* the functions it still has to answer
  frame,     \* the answer it is sending or sent last
  sent,      \* bytes of it that left the battery
  gap,       \* a byte was lost since the last one that arrived
  fit,       \* frame began after a silence and nothing disturbed it since
  losses, forgeries,
  fifo,      \* bytes that arrived in the UART and were not read
  (* the component *)
  rx_buffer_,
  expected,  \* the frame size the length field in the buffer stands for, or 0
  age,       \* ticks since last_jk_modbus_byte_, counted up to RxTimeout + 1
  reading    \* loop() is in its while loop

battery == <<register, owed, frame, sent>>
line == <<gap, fit, losses, forgeries, fifo>>
receiver == <<rx_buffer_, expected, age, reading>>
bus == <<battery, line, receiver>>

Messages == [function: Functions, value: BOOLEAN, complete: BOOLEAN]
NoMessage == [function |-> "none", value |-> FALSE, complete |-> FALSE]

(* A byte knows the frame it is from, and whether the one before it on the *)
(* line was lost.                                                          *)
Byte(f, i, broken) == [frame |-> f, pos |-> i, broken |-> broken]
Bytes == [frame: Messages, pos: Nat \ {0}, broken: BOOLEAN]

Prefix(f, n) == [i \in 1 .. n |-> Byte(f, i, FALSE)]

BusInit ==
  /\ register = FALSE /\ owed = {} /\ frame = NoMessage /\ sent = 0
  /\ gap = FALSE /\ fit = FALSE /\ losses = 0 /\ forgeries = 0 /\ fifo = << >>
  /\ rx_buffer_ = << >> /\ expected = 0 /\ age = 0 /\ reading = FALSE

-----------------------------------------------------------------------------
(***************************************************************************)
(* The battery and the line.                                               *)
(***************************************************************************)
FrameSize == IF frame = NoMessage THEN 0 ELSE SizeOf[frame.function]
FrameUnderway == sent < FrameSize

(* A request of 21 or 22 bytes is heard or lost as a whole. *)
RequestHeard(function) == owed' = owed \cup {function} /\ UNCHANGED losses

RequestLost == losses < MaxLosses /\ losses' = losses + 1 /\ UNCHANGED owed

send(function) == RequestHeard(function) \/ RequestLost

(* Nothing came for longer than rx_timeout_, the next loop() will see it.  *)
TimeoutPending == age > RxTimeout /\ ~reading
Quiet == TimeoutPending /\ fifo = << >>

BeginFrame(function) ==
  /\ function \in owed /\ ~FrameUnderway /\ ~reading
  /\ \E complete \in CompleteStatus :
       frame' = [function |-> function, value |-> register, complete |-> complete]
  /\ sent' = 0
  /\ fit' = Quiet
  /\ owed' = owed \ {function}
  /\ UNCHANGED <<register, gap, losses, forgeries, fifo, receiver>>

(* The next byte arrives, or gets lost.                                    *)
ByteArrives ==
  /\ FrameUnderway /\ ~reading
  /\ Len(fifo) < FifoSize
  /\ sent' = sent + 1
  /\ fifo' = Append(fifo, Byte(frame, sent + 1, gap /\ sent > 0))
  /\ gap' = FALSE
  /\ UNCHANGED <<register, owed, frame, fit, losses, forgeries, receiver>>

ByteLost ==
  /\ FrameUnderway /\ ~reading
  /\ losses < MaxLosses
  /\ losses' = losses + 1
  /\ sent' = sent + 1
  /\ gap' = TRUE
  /\ fit' = FALSE
  /\ UNCHANGED <<register, owed, frame, forgeries, fifo, receiver>>

(***************************************************************************)
(* loop(): the timeout.                                                    *)
(***************************************************************************)
(* Fault: no timeout. *)
NeverTimesOut == FALSE

TimedOut == age > RxTimeout

Clear == rx_buffer_' = << >> /\ expected' = 0

(* A timeout that hits a frame in the middle makes it unfit.               *)
BeginLoop ==
  /\ ~reading
  /\ reading' = (fifo # << >>)
  /\ IF TimedOut
       THEN Clear /\ age' = 0
       ELSE UNCHANGED <<rx_buffer_, expected, age>>
  /\ fit' = (fit /\ (age > RxTimeout => Len(fifo) = sent))
  /\ UNCHANGED <<battery, gap, losses, forgeries, fifo>>

(***************************************************************************)
(* loop(): parse_jk_modbus_byte_.                                          *)
(***************************************************************************)
(* The start bytes; any byte behind the length field may look like one.    *)
IsStart(byte, i) == byte.pos = i
MayBeStart(byte, i) == byte.pos = i \/ byte.pos > 2

LengthsIn(byte) ==
  IF byte.pos = HeaderSize THEN {SizeOf[byte.frame.function]} ELSE ClaimedSizes

(* Fault: the frame taken for complete one byte early. *)
CompleteEarly(buf) == Len(buf) > HeaderSize /\ Len(buf) + 1 >= expected

Complete(buf) == Len(buf) > HeaderSize /\ Len(buf) >= expected

(* The checksum, a 16-bit sum, accepts every whole frame; by chance it     *)
(* accepts other bytes too.                                                *)
Genuine(buf) ==
  /\ expected = SizeOf[buf[1].frame.function]
  /\ buf = Prefix(buf[1].frame, expected)

(* The byte is kept, or the buffer is reset, without a frame.              *)
AwaitsMore(buf, byte) ==
  LET at == Len(buf) - 1 IN
  \/ at < 2 /\ MayBeStart(byte, at + 1) /\ UNCHANGED expected
  \/ at = 2 /\ expected' \in LengthsIn(byte)
  \/ at > 2 /\ ~Complete(buf) /\ UNCHANGED expected

Resets(buf, byte) ==
  LET at == Len(buf) - 1 IN
  \/ at < 2 /\ ~IsStart(byte, at + 1)
  \/ at > 2 /\ Complete(buf) /\ ~Genuine(buf)

(* What the buffer passes for. *)
Delivers(buf, message) ==
  /\ Len(buf) > HeaderSize /\ Complete(buf)
  /\ \/ /\ Genuine(buf) /\ message = buf[1].frame
        /\ UNCHANGED forgeries
     \/ /\ ~Genuine(buf) /\ forgeries < MaxForgeries
        /\ forgeries' = forgeries + 1

(* read_byte in the while loop; last_jk_modbus_byte_ moves with every byte *)
(* that is kept.                                                           *)
ReadByte ==
  /\ reading /\ fifo # << >>
  /\ fifo' = Tail(fifo)
  /\ reading' = (Tail(fifo) # << >>)
  /\ UNCHANGED <<battery, gap, fit, losses>>

KeepByte ==
  LET byte == Head(fifo)
      buf == Append(rx_buffer_, byte)
  IN /\ ReadByte
     /\ AwaitsMore(buf, byte)
     /\ rx_buffer_' = buf
     /\ age' = 0
     /\ UNCHANGED forgeries

DropBytes ==
  LET byte == Head(fifo)
      buf == Append(rx_buffer_, byte)
  IN /\ ReadByte
     /\ Resets(buf, byte)
     /\ Clear
     /\ UNCHANGED <<age, forgeries>>

DeliverFrame(message) ==
  LET byte == Head(fifo)
      buf == Append(rx_buffer_, byte)
  IN /\ ReadByte
     /\ Delivers(buf, message)
     /\ Clear
     /\ UNCHANGED age

=============================================================================
