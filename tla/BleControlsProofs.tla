------------------------- MODULE BleControlsProofs -------------------------
(***************************************************************************)
(* Proofs about BleControls: every setting has one control, and a control  *)
(* shows what was asked for or what the device had (Setting).  First what  *)
(* a field reads from the bytes of a number, for all numbers; then the     *)
(* tables of the two components, version by version and set of fields by   *)
(* set of fields: which range fits into what is sent and kept of it, and   *)
(* which decoder reads which place; at last the two theorems.              *)
(***************************************************************************)
EXTENDS BleControls, TLAPS

-----------------------------------------------------------------------------
(***************************************************************************)
(* The bytes of a number, and what a field reads from them.                *)
(***************************************************************************)
(* What a number k has to satisfy for a field of width bytes and this kind *)
(* to read it back from n bytes of it.                                     *)
Survives(kind, n, width, k) ==
  \/ /\ kind = "unsigned" /\ 0 <= k
     /\ \/ k < 256 /\ n >= 1
        \/ k < 65536 /\ n >= 2 /\ width >= 2
        \/ k < 2147483648 /\ n = 4 /\ width = 4
  \/ /\ kind \in {"signed", "float"} /\ n >= width
     /\ \/ width = 1 /\ -128 <= k /\ k < 128
        \/ width = 2 /\ -32768 <= k /\ k < 32768
        \/ width = 4 /\ -2147483648 <= k /\ k < 2147483648
  \/ kind \in {"flag", "truth"} /\ n >= 1 /\ k \in {0, 1}

(* The digit of k to the base of 256 that counts p.                        *)
Digit(k, p) == (k \div p) % 256
Powers256 == {1, 256, 65536, 16777216}

(* A digit is a byte.                                                      *)
LEMMA DigitRange == \A k \in Int : \A p \in Powers256 : Digit(k, p) \in 0 .. 255
<1> SUFFICES ASSUME NEW k \in Int, NEW p \in Powers256  PROVE Digit(k, p) \in 0 .. 255
  OBVIOUS
<1>1. CASE p = 1
  BY <1>1 DEF Digit
<1>2. CASE p = 256
  BY <1>2 DEF Digit
<1>3. CASE p = 65536
  BY <1>3 DEF Digit
<1>4. CASE p = 16777216
  BY <1>4 DEF Digit
<1>5. QED
  BY <1>1, <1>2, <1>3, <1>4 DEF Powers256

(* The powers of 256 that four bytes have.                                 *)
LEMMA Powers == 256^0 = 1 /\ 256^1 = 256 /\ 256^2 = 65536 /\ 256^3 = 16777216
  OBVIOUS

(* The bytes of a number are its digits, the lowest first.                 *)
LEMMA Digits ==
  ASSUME NEW k \in Int
  PROVE  /\ Bytes(k)[1] = Digit(k, 1)
         /\ Bytes(k)[2] = Digit(k, 256)
         /\ Bytes(k)[3] = Digit(k, 65536)
         /\ Bytes(k)[4] = Digit(k, 16777216)
<1>1. \A i \in 1 .. 4 : Bytes(k)[i] = Digit(k, 256^(i - 1))
  BY Zenon DEF Bytes, Digit
<1>2. /\ Bytes(k)[1] = Digit(k, 256^0)
      /\ Bytes(k)[2] = Digit(k, 256^1)
      /\ Bytes(k)[3] = Digit(k, 256^2)
      /\ Bytes(k)[4] = Digit(k, 256^3)
  BY <1>1
<1>3. QED
  BY <1>2, Powers

(* What Sum4 makes of no byte, of one and of three.                        *)
LEMMA Sums ==
  ASSUME NEW bytes, \A i \in 1 .. 4 : bytes[i] \in 0 .. 255
  PROVE /\ Sum4(bytes, 0) = 0
        /\ Sum4(bytes, 1) = bytes[1]
        /\ Sum4(bytes, 3) = bytes[1] + 256 * bytes[2] + 65536 * bytes[3]
<1>1. /\ 1 \in 1 .. 4 /\ 2 \in 1 .. 4 /\ 3 \in 1 .. 4 /\ 4 \in 1 .. 4
  OBVIOUS
<1>2. /\ bytes[1] \in Int /\ bytes[2] \in Int /\ bytes[3] \in Int /\ bytes[4] \in Int
  BY <1>1
<1>3. 256^(1 - 1) = 1 /\ 256^(2 - 1) = 256 /\ 256^(3 - 1) = 65536 /\ 256^(4 - 1) = 16777216
  BY Powers
<1>4. Sum4(bytes, 0) = 0
  BY <1>2 DEF Sum4
<1>5. Sum4(bytes, 1) = bytes[1]
  BY <1>2, <1>3 DEF Sum4
<1>6. Sum4(bytes, 3) = bytes[1] + 256 * bytes[2] + 65536 * bytes[3]
  BY <1>2, <1>3 DEF Sum4
<1>7. QED
  BY <1>4, <1>5, <1>6

(* What a field of one byte makes of a content that is of its sort.        *)
LEMMA Reading1 ==
  ASSUME NEW field, NEW content, field.width = 1,
         \A i \in 1 .. 4 : content.bytes[i] \in 0 .. 255,
         content.float = (field.kind = "float")
  PROVE  /\ field.kind = "unsigned" => Reading(field, content) = <<content.bytes[1], field.scale>>
         /\ field.kind \in {"signed", "float"} =>
              Reading(field, content) =
                <<IF content.bytes[1] >= 128 THEN content.bytes[1] - 256
                  ELSE content.bytes[1], field.scale>>
<1> DEFINE b == content.bytes
           up == IF b[1] >= 128 THEN b[1] - 256 ELSE b[1]
<1>1. b[1] \in Int /\ up \in Int
  OBVIOUS
<1>2. Sum4(b, 1 - 1) = 0 /\ 256^(1 - 1) = 1
  BY Sums, Powers
<1>3. 0 + b[1] * 1 = b[1] /\ 0 + up * 1 = up
  BY <1>1
<1>4. field.kind = "unsigned" => Reading(field, content) = <<0 + b[1] * 1, field.scale>>
  BY <1>2 DEF Reading
<1>5. field.kind \in {"signed", "float"} => Reading(field, content) = <<0 + up * 1, field.scale>>
  BY <1>2 DEF Reading
<1>6. QED
  BY <1>3, <1>4, <1>5

(* The same for a field of two bytes.                                      *)
LEMMA Reading2 ==
  ASSUME NEW field, NEW content, field.width = 2,
         \A i \in 1 .. 4 : content.bytes[i] \in 0 .. 255,
         content.float = (field.kind = "float")
  PROVE  /\ field.kind = "unsigned" =>
              Reading(field, content) = <<content.bytes[1] + content.bytes[2] * 256, field.scale>>
         /\ field.kind \in {"signed", "float"} =>
              Reading(field, content) =
                <<content.bytes[1] + (IF content.bytes[2] >= 128 THEN content.bytes[2] - 256
                                      ELSE content.bytes[2]) * 256, field.scale>>
<1>2. Sum4(content.bytes, 2 - 1) = content.bytes[1] /\ 256^(2 - 1) = 256
  BY Sums, Powers
<1>3. QED
  BY <1>2 DEF Reading

(* The same for a field of four bytes.                                     *)
LEMMA Reading4 ==
  ASSUME NEW field, NEW content, field.width = 4,
         \A i \in 1 .. 4 : content.bytes[i] \in 0 .. 255,
         content.float = (field.kind = "float")
  PROVE  LET b == content.bytes
             low == b[1] + 256 * b[2] + 65536 * b[3]
         IN  /\ field.kind = "unsigned" /\ ~(b[4] >= 128) =>
                  Reading(field, content) = <<low + b[4] * 16777216, field.scale>>
             /\ field.kind \in {"signed", "float"} =>
                  Reading(field, content) =
                    <<low + (IF b[4] >= 128 THEN b[4] - 256 ELSE b[4]) * 16777216, field.scale>>
<1>2. /\ Sum4(content.bytes, 4 - 1)
           = content.bytes[1] + 256 * content.bytes[2] + 65536 * content.bytes[3]
      /\ 256^(4 - 1) = 16777216
  BY Sums, Powers
<1>3. QED
  BY <1>2 DEF Reading

(* The bytes of a number of which only the first n were kept.              *)
LEMMA KeptBytes ==
  ASSUME NEW k \in Int, NEW n \in {1, 2, 4}, NEW content,
         \A i \in 1 .. 4 : content.bytes[i] = IF i <= n THEN Bytes(k)[i] ELSE 0
  PROVE  /\ \A i \in 1 .. 4 : content.bytes[i] \in 0 .. 255
         /\ content.bytes[1] = Digit(k, 1)
         /\ content.bytes[2] = IF n >= 2 THEN Digit(k, 256) ELSE 0
         /\ content.bytes[3] = IF n >= 4 THEN Digit(k, 65536) ELSE 0
         /\ content.bytes[4] = IF n >= 4 THEN Digit(k, 16777216) ELSE 0
<1>1. PICK b : b = content.bytes
  OBVIOUS
<1>2. 1 \in 1 .. 4 /\ 2 \in 1 .. 4 /\ 3 \in 1 .. 4 /\ 4 \in 1 .. 4
  OBVIOUS
<1>3. /\ b[1] = IF 1 <= n THEN Bytes(k)[1] ELSE 0
      /\ b[2] = IF 2 <= n THEN Bytes(k)[2] ELSE 0
      /\ b[3] = IF 3 <= n THEN Bytes(k)[3] ELSE 0
      /\ b[4] = IF 4 <= n THEN Bytes(k)[4] ELSE 0
  BY <1>1, <1>2
<1>4. /\ b[1] = Digit(k, 1)
      /\ b[2] = IF n >= 2 THEN Digit(k, 256) ELSE 0
      /\ b[3] = IF n >= 4 THEN Digit(k, 65536) ELSE 0
      /\ b[4] = IF n >= 4 THEN Digit(k, 16777216) ELSE 0
  BY <1>3, Digits
<1>5. /\ Digit(k, 1) \in 0 .. 255 /\ Digit(k, 256) \in 0 .. 255
      /\ Digit(k, 65536) \in 0 .. 255 /\ Digit(k, 16777216) \in 0 .. 255
  BY DigitRange DEF Powers256
<1>6. b[1] \in 0 .. 255 /\ b[2] \in 0 .. 255 /\ b[3] \in 0 .. 255 /\ b[4] \in 0 .. 255
  BY <1>4, <1>5
<1>7. \A i \in 1 .. 4 : i = 1 \/ i = 2 \/ i = 3 \/ i = 4
  OBVIOUS
<1>8. \A i \in 1 .. 4 : b[i] \in 0 .. 255
  BY <1>6, <1>7
<1>9. QED
  BY <1>1, <1>4, <1>8

(* The digits of a number that is not negative add up to it: as many of    *)
(* them as it needs, and the others are 0.                                 *)
LEMMA UnsignedDigits ==
  ASSUME NEW k \in Int, 0 <= k
  PROVE  /\ k < 256 => /\ Digit(k, 1) = k
                       /\ Digit(k, 256) = 0 /\ Digit(k, 65536) = 0 /\ Digit(k, 16777216) = 0
         /\ k < 65536 => /\ Digit(k, 1) + Digit(k, 256) * 256 = k
                         /\ Digit(k, 65536) = 0 /\ Digit(k, 16777216) = 0
         /\ k < 2147483648 =>
              /\ Digit(k, 1) + 256 * Digit(k, 256) + 65536 * Digit(k, 65536)
                   + Digit(k, 16777216) * 16777216 = k
              /\ ~(Digit(k, 16777216) >= 128)
  BY DEF Digit

(* The digits of a number in two's complement do, in one byte, two or four. *)
LEMMA SignedDigits ==
  ASSUME NEW k \in Int
  PROVE  /\ -128 <= k /\ k < 128 =>
             (IF Digit(k, 1) >= 128 THEN Digit(k, 1) - 256 ELSE Digit(k, 1)) = k
         /\ -32768 <= k /\ k < 32768 =>
              Digit(k, 1) + (IF Digit(k, 256) >= 128 THEN Digit(k, 256) - 256
                             ELSE Digit(k, 256)) * 256 = k
         /\ -2147483648 <= k /\ k < 2147483648 =>
              Digit(k, 1) + 256 * Digit(k, 256) + 65536 * Digit(k, 65536)
                + (IF Digit(k, 16777216) >= 128 THEN Digit(k, 16777216) - 256
                   ELSE Digit(k, 16777216)) * 16777216 = k
  BY DEF Digit

(* A number that survives is read back (decode_ after control()).          *)
LEMMA ReadsBack ==
  ASSUME NEW k \in Int, NEW n \in {1, 2, 4}, NEW field, NEW content,
         field.width \in {1, 2, 4},
         \A i \in 1 .. 4 : content.bytes[i] = IF i <= n THEN Bytes(k)[i] ELSE 0,
         content.float = (field.kind = "float"),
         Survives(field.kind, n, field.width, k),
         field.kind \in {"flag", "truth"} => field.scale = 1
  PROVE  Reading(field, content) = <<k, field.scale>>
<1> DEFINE w == field.width
           b == content.bytes
<1>1. /\ \A i \in 1 .. 4 : b[i] \in 0 .. 255
      /\ b[1] = Digit(k, 1)
      /\ b[2] = IF n >= 2 THEN Digit(k, 256) ELSE 0
      /\ b[3] = IF n >= 4 THEN Digit(k, 65536) ELSE 0
      /\ b[4] = IF n >= 4 THEN Digit(k, 16777216) ELSE 0
  BY KeptBytes, SMT
<1>2. b[1] \in Int /\ b[2] \in Int /\ b[3] \in Int /\ b[4] \in Int
  BY <1>1
<1>3. CASE field.kind = "unsigned"
  <2>1. CASE w = 1
    <3>1. b[1] = k
      BY <1>1, <1>3, <2>1, UnsignedDigits DEF Survives
    <3>2. QED
      BY <1>1, <1>3, <2>1, <3>1, Reading1
  <2>2. CASE w = 2
    <3>1. b[1] + b[2] * 256 = k
      BY <1>1, <1>3, <2>2, UnsignedDigits DEF Survives
    <3>2. QED
      BY <1>1, <1>3, <2>2, <3>1, Reading2
  <2>3. CASE w = 4
    <3>1. b[1] + 256 * b[2] + 65536 * b[3] + b[4] * 16777216 = k /\ ~(b[4] >= 128)
      BY <1>1, <1>3, <2>3, UnsignedDigits DEF Survives
    <3>2. QED
      BY <1>1, <1>3, <2>3, <3>1, Reading4
  <2>4. QED
    BY <2>1, <2>2, <2>3
<1>4. CASE field.kind \in {"signed", "float"}
  <2>1. CASE w = 1
    <3>1. (IF b[1] >= 128 THEN b[1] - 256 ELSE b[1]) = k
      BY <1>1, <1>4, <2>1, SignedDigits DEF Survives
    <3>2. QED
      BY <1>1, <1>4, <2>1, <3>1, Reading1
  <2>2. CASE w = 2
    <3>1. b[1] + (IF b[2] >= 128 THEN b[2] - 256 ELSE b[2]) * 256 = k
      BY <1>1, <1>4, <2>2, SignedDigits DEF Survives
    <3>2. QED
      BY <1>1, <1>4, <2>2, <3>1, Reading2
  <2>3. CASE w = 4
    <3>1. b[1] + 256 * b[2] + 65536 * b[3]
            + (IF b[4] >= 128 THEN b[4] - 256 ELSE b[4]) * 16777216 = k
      BY <1>1, <1>4, <2>3, SignedDigits DEF Survives
    <3>2. QED
      BY <1>1, <1>4, <2>3, <3>1, Reading4
  <2>4. QED
    BY <2>1, <2>2, <2>3
<1>5. CASE field.kind \in {"flag", "truth"}
  <2>1. k \in {0, 1} /\ field.scale = 1
    BY <1>5 DEF Survives
  <2>2. b[1] = k /\ b[2] = 0 /\ b[3] = 0 /\ b[4] = 0
    BY <1>1, <2>1, UnsignedDigits
  <2>3. (IF \E i \in 1 .. w : b[i] # 0 THEN 1 ELSE 0) = k
    BY <2>1, <2>2
  <2>4. Reading(field, content) = <<IF \E i \in 1 .. w : b[i] # 0 THEN 1 ELSE 0, 1>>
    BY <1>5 DEF Reading
  <2>5. QED
    BY <2>1, <2>3, <2>4
<1>6. QED
  BY <1>3, <1>4, <1>5 DEF Survives

-----------------------------------------------------------------------------
(***************************************************************************)
(* What the tables of the two components have to satisfy: the range of a   *)
(* control fits into what is sent and kept of it, and a decoder reads it   *)
(* at its place, as the number it was written as.                          *)
(***************************************************************************)
IsFloat(v, c) ==
  IF IsJk(v) THEN v = "JK04" /\ c.kind = "number" /\ c.length = 4 ELSE c.factor = 1000

Room(p) == IF p = NoPlace THEN 4 ELSE p.width

Fits(float, c, room) ==
  /\ c.min \in Int /\ c.max \in Int /\ c.min <= c.max
  /\ c.kind = "switch" => c.min = 0 /\ c.max = 1 /\ c.factor = 1
  /\ \/ /\ room = 4 /\ (c.length = 4 \/ c.address = NoRegister)
        /\ -2147483648 <= c.min /\ c.max < 2147483648
     \/ /\ ~float /\ room \in {1, 2, 4} /\ (c.length \in {1, 2, 4} \/ c.address = NoRegister)
        /\ 0 <= c.min /\ c.max < 256
     \/ ~float /\ room = 2 /\ c.length = 4 /\ 0 <= c.min /\ c.max < 65536
     \/ ~float /\ room = 1 /\ c.length = 1 /\ -128 <= c.min /\ c.max < 128

Decodes(float, c, f, room) ==
  /\ f.scale = c.factor /\ f.width \in {1, 2, 4} /\ (f.kind = "float") = float
  /\ \/ f.kind = "unsigned" /\ 0 <= c.min /\ c.max < 256
     \/ f.kind = "unsigned" /\ f.width = 2 /\ room # 1 /\ 0 <= c.min /\ c.max < 65536
     \/ f.kind = "unsigned" /\ f.width = 4 /\ room = 4 /\ 0 <= c.min
     \/ f.kind \in {"signed", "float"} /\ f.width = 4 /\ room = 4 /\ c.length = 4
     \/ f.kind = "signed" /\ f.width = 1 /\ room = 1 /\ -128 <= c.min /\ c.max < 128
     \/ f.kind \in {"flag", "truth"} /\ f.scale = 1 /\ c.min = 0 /\ c.max = 1

IsAt(type, f, p) == p # NoPlace /\ type = p.type /\ f.at = p.at /\ f.mask = p.mask

(* Whatever field shows a control reads it at its place, as it was written.*)
IsRead(v, type, fields) ==
  \A c \in ControlsOf(v), f \in fields :
    c.name \in f.shows =>
      /\ IsAt(type, f, PlaceOf(v, c.address))
      /\ \/ v = "V2" /\ c.name = "nominal_battery_capacity"
         \/ Decodes(IsFloat(v, c), c, f, Room(PlaceOf(v, c.address)))

(* What holds for two sets of fields holds for both together.              *)
LEMMA ReadTogether ==
  ASSUME NEW v, NEW type, NEW some, NEW more, IsRead(v, type, some), IsRead(v, type, more)
  PROVE  IsRead(v, type, some \cup more)
  BY DEF IsRead

(* No two controls have the same address, but for those that have none.    *)
OneControlEach(controls) ==
  \A c, d \in controls : c.address = d.address /\ c.address # NoRegister => c = d

-----------------------------------------------------------------------------
(***************************************************************************)
(* The tables of jk_bms_ble, opened for each version on its own.           *)
(***************************************************************************)
USE DEF Jk!ControlsOf, Jk!VoltageNumbers, Jk!ChargeNumbers, Jk!ProtectionNumbers,
        Jk!ServiceNumbers, Jk!Switches, Jk!Selects, Jk!Number, Jk!Switch, Jk!Select, Jk!Control,
        Jk!Unsigned, Jk!Signed, Jk!Float, Jk!Value, Jk!Logged, Jk!Truth, Jk!Flag, Jk!Field

(* No two registers of a version are the same, but for those that are 0.   *)
LEMMA Jk04Addresses == OneControlEach(Jk!ControlsOf("JK04"))
  BY DEF OneControlEach, NoRegister

(* The same for JK02_24S.                                                  *)
LEMMA Jk0224SAddresses == OneControlEach(Jk!ControlsOf("JK02_24S"))
  BY DEF OneControlEach, NoRegister

(* The same for JK02_32S.                                                  *)
LEMMA Jk0232SAddresses == OneControlEach(Jk!ControlsOf("JK02_32S"))
  BY DEF OneControlEach, NoRegister

(* The ranges of the controls, in the bytes that are sent and kept: four   *)
(* but in JK02_32S, where some registers have one byte, and one has two.   *)
ByteRegisters == (\h27 .. \h3B) \cup (\hA5 .. \hA6) \cup (\hA8 .. \hAB) \cup (\hB3 .. \hB7)
RoomFor(v, r) ==
  IF v # "JK02_32S" THEN 4 ELSE IF r = \h6B THEN 2 ELSE IF r \in ByteRegisters THEN 1 ELSE 4

JkFloat(v, c) == v = "JK04" /\ c.kind = "number" /\ c.length = 4

RangesFit(v) ==
  \A c \in Jk!ControlsOf(v) :
    /\ c.address[1] \in Nat
    /\ c.name # "smart_sleep_voltage" => Fits(JkFloat(v, c), c, RoomFor(v, c.address[1]))

(* The ranges of JK04 fit.                                                 *)
LEMMA Jk04RangesFit == RangesFit("JK04")
  BY DEF RangesFit, Fits, NoRegister, RoomFor, JkFloat

(* The ranges of JK02_24S fit.                                             *)
LEMMA Jk0224SRangesFit == RangesFit("JK02_24S")
  BY DEF RangesFit, Fits, NoRegister, RoomFor, JkFloat

(* The ranges of JK02_32S fit.                                             *)
LEMMA Jk0232SRangesFit == RangesFit("JK02_32S")
  BY DEF RangesFit, Fits, NoRegister, RoomFor, JkFloat, ByteRegisters

(* The registers of the controls a decoder shows, with the byte and the    *)
(* bit it reads them from.                                                 *)
Reads(v, fields, rows) ==
  \A c \in Jk!ControlsOf(v), f \in fields :
    c.name \in f.shows =>
      /\ Decodes(JkFloat(v, c), c, f, RoomFor(v, c.address[1]))
      /\ <<c.address[1], f.at, f.mask>> \in rows

Settings04 ==
  { <<\h1C, 34, 0>>, <<\h20, 38, 0>>, <<\h44, 74, 0>>, <<\h58, 98, 0>>, <<\h64, 106, 0>>,
    <<\h68, 110, 0>>, <<\h6C, 114, 0>> }
Settings24S ==
  {<<r, 6 + 4 * (r - \h01), 0>> : r \in \h01 .. \h20}
  \cup {<<\h25, 134, 0>>, <<\h26, 138, 0>>}
Settings32S == {<<r, 6 + 4 * (r - \h01), 0>> : r \in \h01 .. \h22}
Bits32S ==
  { <<\h25, 274, 0>>, <<\h27, 282, 1>>, <<\h28, 282, 2>>, <<\h2A, 282, 8>>, <<\h2B, 282, 16>>,
    <<\h2D, 282, 64>>, <<\h2E, 282, 128>>, <<\h2F, 283, 1>>, <<\h30, 283, 2>>, <<\h31, 283, 4>>,
    <<\h32, 283, 8>>, <<\h33, 283, 16>>, <<\h34, 283, 32>>, <<\h35, 283, 64>>, <<\h36, 283, 128>> }
Heating32S ==
  { <<\h37, 284, 0>>, <<\h38, 285, 0>>, <<\h39, 286, 0>>, <<\h3A, 296, 0>>, <<\h3B, 297, 0>> }
Ports32S ==
  { <<\hA5, 184, 0>>, <<\hA6, 185, 0>>, <<\hA8, 218, 0>>, <<\hA9, 234, 0>>, <<\hAA, 235, 0>>,
    <<\hAB, 236, 0>> }
Charging32S ==
  { <<\hB3, 266, 0>>, <<\hB4, 267, 0>>, <<\hB5, 269, 0>>, <<\hB6, 270, 0>>, <<\hB7, 278, 0>> }
Emergency32S == {<<\h6B, 218, 0>>}

(* The settings of JK04 and the places they are read from                  *)
(* (decode_jk04_settings_).                                                *)
LEMMA Jk04Settings == Reads("JK04", Jk!jk04_settings, Settings04)
  BY DEF Reads, Decodes, RoomFor, JkFloat, Settings04, Jk!jk04_settings

(* Those of JK02_24S, table by table (decode_jk02_settings_).              *)
LEMMA Jk0224SSettings ==
  /\ Reads("JK02_24S", Jk!jk02_settings_voltages, Settings24S)
  /\ Reads("JK02_24S", Jk!jk02_settings_currents, Settings24S)
  /\ Reads("JK02_24S", Jk!jk02_settings_temperatures, Settings24S)
  /\ Reads("JK02_24S", Jk!jk02_settings_pack, Settings24S)
  /\ Reads("JK02_24S", Jk!jk02_24s_wire_resistances, {})
<1> USE DEF Reads, Decodes, RoomFor, JkFloat, Settings24S
<1>1. Reads("JK02_24S", Jk!jk02_settings_voltages, Settings24S)
  BY DEF Jk!jk02_settings_voltages
<1>2. Reads("JK02_24S", Jk!jk02_settings_currents, Settings24S)
  BY DEF Jk!jk02_settings_currents
<1>3. Reads("JK02_24S", Jk!jk02_settings_temperatures, Settings24S)
  BY DEF Jk!jk02_settings_temperatures
<1>4. Reads("JK02_24S", Jk!jk02_settings_pack, Settings24S)
  BY DEF Jk!jk02_settings_pack
<1>5. Reads("JK02_24S", Jk!jk02_24s_wire_resistances, {})
  BY DEF Jk!jk02_24s_wire_resistances
<1> HIDE DEF Reads
<1>6. QED
  BY <1>1, <1>2, <1>3, <1>4, <1>5

(* Those of JK02_32S (decode_jk02_settings_).                              *)
LEMMA Jk0232SSettings ==
  /\ Reads("JK02_32S", Jk!jk02_settings_voltages, Settings32S)
  /\ Reads("JK02_32S", Jk!jk02_settings_currents, Settings32S)
  /\ Reads("JK02_32S", Jk!jk02_settings_temperatures, Settings32S)
  /\ Reads("JK02_32S", Jk!jk02_settings_pack, Settings32S)
  /\ Reads("JK02_32S", Jk!jk02_32s_wire_resistances, {})
  /\ Reads("JK02_32S", Jk!jk02_32s_controls, Bits32S)
  /\ Reads("JK02_32S", Jk!jk02_32s_heating, Heating32S)
<1> USE DEF Reads, Decodes, RoomFor, JkFloat, ByteRegisters
<1>1. Reads("JK02_32S", Jk!jk02_settings_voltages, Settings32S)
  BY DEF Jk!jk02_settings_voltages, Settings32S
<1>2. Reads("JK02_32S", Jk!jk02_settings_currents, Settings32S)
  BY DEF Jk!jk02_settings_currents, Settings32S
<1>3. Reads("JK02_32S", Jk!jk02_settings_temperatures, Settings32S)
  BY DEF Jk!jk02_settings_temperatures, Settings32S
<1>4. Reads("JK02_32S", Jk!jk02_settings_pack, Settings32S)
  BY DEF Jk!jk02_settings_pack, Settings32S
<1>5. Reads("JK02_32S", Jk!jk02_32s_wire_resistances, {})
  BY DEF Jk!jk02_32s_wire_resistances
<1>6. Reads("JK02_32S", Jk!jk02_32s_controls, Bits32S)
  BY DEF Jk!jk02_32s_controls, Bits32S
<1>7. Reads("JK02_32S", Jk!jk02_32s_heating, Heating32S)
  BY DEF Jk!jk02_32s_heating, Heating32S
<1> HIDE DEF Reads
<1>8. QED
  BY <1>1, <1>2, <1>3, <1>4, <1>5, <1>6, <1>7

(* The settings JK02_32S has in its device info (decode_device_info_).     *)
LEMMA Jk0232SDeviceInfo ==
  /\ Reads("JK02_32S", Jk!device_info_ports, Ports32S)
  /\ Reads("JK02_32S", Jk!device_info_charging, Charging32S)
<1> USE DEF Reads, Decodes, RoomFor, JkFloat, ByteRegisters
<1>1. Reads("JK02_32S", Jk!device_info_ports, Ports32S)
  BY DEF Jk!device_info_ports, Ports32S
<1>2. Reads("JK02_32S", Jk!device_info_charging, Charging32S)
  BY DEF Jk!device_info_charging, Charging32S
<1> HIDE DEF Reads
<1>3. QED
  BY <1>1, <1>2

(* Of the cell info only the emergency switch is shown by a control, and   *)
(* of the texts and the logbook nothing.                                   *)
LEMMA Jk0232SCellExtras == Reads("JK02_32S", Jk!jk02_cell_extras("JK02_32S"), Emergency32S)
  BY DEF Reads, Decodes, RoomFor, JkFloat, Emergency32S, Jk!jk02_cell_extras,
         Jk!jk02_doubled_offset, Jk!jk02_offset

(* No control shows a measurement, a text or an entry of the logbook.      *)
LEMMA JkMeasurements ==
  ASSUME NEW v \in Jk!Versions
  PROVE  /\ Reads(v, Jk!jk02_cell_arrays(v), {}) /\ Reads(v, Jk!jk02_cell_sums(v), {})
         /\ Reads(v, Jk!jk02_cell_counters(v), {}) /\ Reads(v, Jk!jk02_cell_states(v), {})
         /\ v # "JK02_32S" => Reads(v, Jk!jk02_cell_extras(v), {})
         /\ Reads(v, Jk!jk04_cell_arrays, {}) /\ Reads(v, Jk!jk04_cell_states, {})
         /\ Reads(v, Jk!device_info_texts, {}) /\ Reads(v, Jk!logbook_entries, {})
<1> USE DEF Reads
<1>1. Reads(v, Jk!jk02_cell_arrays(v), {})
  BY DEF Jk!jk02_cell_arrays, Jk!CellStatistics
<1>2. Reads(v, Jk!jk02_cell_sums(v), {})
  BY DEF Jk!jk02_cell_sums, Jk!jk02_mosfet_temperature
<1>3. Reads(v, Jk!jk02_cell_counters(v), {})
  BY DEF Jk!jk02_cell_counters
<1>4. Reads(v, Jk!jk02_cell_states(v), {})
  BY DEF Jk!jk02_cell_states
<1>5. v # "JK02_32S" => Reads(v, Jk!jk02_cell_extras(v), {})
  BY DEF Jk!jk02_cell_extras
<1>6. Reads(v, Jk!jk04_cell_arrays, {})
  BY DEF Jk!jk04_cell_arrays, Jk!CellStatistics
<1>7. Reads(v, Jk!jk04_cell_states, {})
  BY DEF Jk!jk04_cell_states
<1>8. Reads(v, Jk!device_info_texts, {})
  BY DEF Jk!device_info_texts
<1>9. Reads(v, Jk!logbook_entries, {})
  BY DEF Jk!logbook_entries
<1> HIDE DEF Reads
<1>10. QED
  BY <1>1, <1>2, <1>3, <1>4, <1>5, <1>6, <1>7, <1>8, <1>9

HIDE DEF Jk!ControlsOf, Jk!VoltageNumbers, Jk!ChargeNumbers, Jk!ProtectionNumbers,
         Jk!ServiceNumbers, Jk!Switches, Jk!Selects, Jk!Number, Jk!Switch, Jk!Select, Jk!Control,
         Jk!Unsigned, Jk!Signed, Jk!Float, Jk!Value, Jk!Logged, Jk!Truth, Jk!Flag, Jk!Field

(* Where a battery shows these registers, and the room it has for them.    *)
JkPlace(v, r) ==
  IF v = "JK04" THEN Jk!Jk04Place(r)
  ELSE IF v = "JK02_24S" THEN Jk!Jk02_24SPlace(r) ELSE Jk!Jk02_32SPlace(r)

(* The room a battery has for a register.                                  *)
LEMMA JkRooms ==
  ASSUME NEW v \in Jk!Versions, NEW r \in Nat
  PROVE  Room(JkPlace(v, r)) = RoomFor(v, r)
<1> USE DEF Room, RoomFor, JkPlace, Jk!Row, Jk!Place, NoPlace, Jk!NoPlace
<1>1. CASE v = "JK04"
  BY <1>1 DEF Jk!Jk04Place
<1>2. CASE v = "JK02_24S"
  BY <1>2 DEF Jk!Jk02_24SPlace
<1>3. CASE v = "JK02_32S"
  BY <1>3 DEF Jk!Jk02_32SPlace, Jk!DeviceInfoPlace, ByteRegisters
<1>4. QED
  BY <1>1, <1>2, <1>3 DEF Jk!Versions

Shows(v, type, rows) ==
  \A row \in rows :
    LET p == JkPlace(v, row[1])
    IN  p # NoPlace /\ p.type = type /\ p.at = row[2] /\ p.mask = row[3]

(* The places the decoders read are those of the registers.                *)
LEMMA JkPlaces ==
  /\ Shows("JK04", "settings", Settings04)
  /\ Shows("JK02_24S", "settings", Settings24S)
  /\ Shows("JK02_32S", "settings", Settings32S)
  /\ Shows("JK02_32S", "settings", Bits32S)
  /\ Shows("JK02_32S", "settings", Heating32S)
  /\ Shows("JK02_32S", "device_info", Ports32S)
  /\ Shows("JK02_32S", "device_info", Charging32S)
  /\ Shows("JK02_32S", "cell_info", Emergency32S)
<1> USE DEF Shows, JkPlace, Jk!Row, Jk!Place, NoPlace, Jk!NoPlace
<1>1. Shows("JK04", "settings", Settings04)
  BY DEF Jk!Jk04Place, Settings04
<1>2. Shows("JK02_24S", "settings", Settings24S)
  BY DEF Jk!Jk02_24SPlace, Settings24S
<1>3. Shows("JK02_32S", "settings", Settings32S)
  BY DEF Settings32S, Jk!Jk02_32SPlace
<1>4. Shows("JK02_32S", "settings", Bits32S)
  <2> DEFINE P(r) == JkPlace("JK02_32S", r)
  <2>1. P(\h25) = Jk!Place("settings", 274, 4, 0)
    BY DEF Jk!Jk02_32SPlace
  <2>2. /\ P(\h27) = Jk!Place("settings", 282, 1, 1)
        /\ P(\h28) = Jk!Place("settings", 282, 1, 2)
        /\ P(\h2A) = Jk!Place("settings", 282, 1, 8)
        /\ P(\h2B) = Jk!Place("settings", 282, 1, 16)
        /\ P(\h2D) = Jk!Place("settings", 282, 1, 64)
        /\ P(\h2E) = Jk!Place("settings", 282, 1, 128)
    BY DEF Jk!Jk02_32SPlace
  <2>3. /\ P(\h2F) = Jk!Place("settings", 283, 1, 1)
        /\ P(\h30) = Jk!Place("settings", 283, 1, 2)
        /\ P(\h31) = Jk!Place("settings", 283, 1, 4)
        /\ P(\h32) = Jk!Place("settings", 283, 1, 8)
        /\ P(\h33) = Jk!Place("settings", 283, 1, 16)
        /\ P(\h34) = Jk!Place("settings", 283, 1, 32)
        /\ P(\h35) = Jk!Place("settings", 283, 1, 64)
        /\ P(\h36) = Jk!Place("settings", 283, 1, 128)
    BY DEF Jk!Jk02_32SPlace
  <2> HIDE DEF JkPlace
  <2>4. QED
    BY <2>1, <2>2, <2>3 DEF Bits32S
<1>5. Shows("JK02_32S", "settings", Heating32S)
  BY DEF Heating32S, Jk!Jk02_32SPlace
<1>6. Shows("JK02_32S", "device_info", Ports32S)
  <2> DEFINE P(r) == JkPlace("JK02_32S", r)
  <2>1. /\ P(\hA5) = Jk!Place("device_info", 184, 1, 0)
        /\ P(\hA6) = Jk!Place("device_info", 185, 1, 0)
        /\ P(\hA8) = Jk!Place("device_info", 218, 1, 0)
        /\ P(\hA9) = Jk!Place("device_info", 234, 1, 0)
        /\ P(\hAA) = Jk!Place("device_info", 235, 1, 0)
        /\ P(\hAB) = Jk!Place("device_info", 236, 1, 0)
    BY DEF Jk!Jk02_32SPlace, Jk!DeviceInfoPlace
  <2> HIDE DEF JkPlace
  <2>2. QED
    BY <2>1 DEF Ports32S
<1>7. Shows("JK02_32S", "device_info", Charging32S)
  <2> DEFINE P(r) == JkPlace("JK02_32S", r)
  <2>1. /\ P(\hB3) = Jk!Place("device_info", 266, 1, 0)
        /\ P(\hB4) = Jk!Place("device_info", 267, 1, 0)
        /\ P(\hB5) = Jk!Place("device_info", 269, 1, 0)
        /\ P(\hB6) = Jk!Place("device_info", 270, 1, 0)
        /\ P(\hB7) = Jk!Place("device_info", 278, 1, 0)
    BY DEF Jk!Jk02_32SPlace, Jk!DeviceInfoPlace
  <2> HIDE DEF JkPlace
  <2>2. QED
    BY <2>1 DEF Charging32S
<1>8. Shows("JK02_32S", "cell_info", Emergency32S)
  BY DEF Emergency32S, Jk!Jk02_32SPlace
<1> HIDE DEF Shows
<1>9. QED
  BY <1>1, <1>2, <1>3, <1>4, <1>5, <1>6, <1>7, <1>8

(* A battery shows a setting, if it does, in the field its decoder reads.  *)
LEMMA JkVersions ==
  ASSUME NEW v \in Jk!Versions
  PROVE  /\ v \in {"JK04", "JK02_24S", "JK02_32S"} /\ IsJk(v)
         /\ ControlsOf(v) = Jk!ControlsOf(v)
         /\ \A c : IsFloat(v, c) = JkFloat(v, c)
         /\ \A c : PlaceOf(v, c.address) = JkPlace(v, c.address[1])
         /\ \A type : FieldsOf(v, type) = Jk!FieldsOf(v, type)
         /\ \A c \in ControlsOf(v) : Room(PlaceOf(v, c.address)) = RoomFor(v, c.address[1])
<1>1. v \in {"JK04", "JK02_24S", "JK02_32S"} /\ IsJk(v)
  BY DEF Jk!Versions, IsJk
<1>2. /\ ControlsOf(v) = Jk!ControlsOf(v)
      /\ \A c : PlaceOf(v, c.address) = JkPlace(v, c.address[1])
      /\ \A type : FieldsOf(v, type) = Jk!FieldsOf(v, type)
  BY <1>1, Zenon DEF ControlsOf, PlaceOf, FieldsOf, JkPlace, Jk!PlaceOf
<1>3. \A c : IsFloat(v, c) = JkFloat(v, c)
  BY <1>1 DEF IsFloat, JkFloat
<1>4. \A c \in Jk!ControlsOf(v) : c.address[1] \in Nat
  BY <1>1, Jk04RangesFit, Jk0224SRangesFit, Jk0232SRangesFit DEF RangesFit
<1>5. \A c \in ControlsOf(v) : Room(PlaceOf(v, c.address)) = RoomFor(v, c.address[1])
  BY <1>2, <1>4, JkRooms
<1>6. QED
  BY <1>1, <1>2, <1>3, <1>5

(* Fields whose registers are in their places are read as they should be.  *)
LEMMA JkRowsAreRead ==
  ASSUME NEW v \in Jk!Versions, NEW type, NEW fields, NEW rows,
         Reads(v, fields, rows), Shows(v, type, rows)
  PROVE  IsRead(v, type, fields)
<1> SUFFICES ASSUME NEW c \in Jk!ControlsOf(v), NEW f \in fields, c.name \in f.shows
             PROVE  /\ IsAt(type, f, JkPlace(v, c.address[1]))
                    /\ Decodes(JkFloat(v, c), c, f, RoomFor(v, c.address[1]))
  BY JkVersions DEF IsRead
<1>1. /\ Decodes(JkFloat(v, c), c, f, RoomFor(v, c.address[1]))
      /\ <<c.address[1], f.at, f.mask>> \in rows
  BY Zenon DEF Reads
<1>2. LET p == JkPlace(v, c.address[1])
      IN  p # NoPlace /\ p.type = type /\ p.at = f.at /\ p.mask = f.mask
  BY <1>1 DEF Shows
<1>3. QED
  BY <1>1, <1>2 DEF IsAt

(* So are fields that no control shows.                                    *)
LEMMA JkNothingIsRead ==
  ASSUME NEW v \in Jk!Versions, NEW type, NEW fields, Reads(v, fields, {})
  PROVE  IsRead(v, type, fields)
<1>1. Shows(v, type, {})
  BY DEF Shows
<1>2. QED
  BY <1>1, JkRowsAreRead

(* Every setting a settings frame shows is read at its place.              *)
LEMMA JkSettingsAreRead ==
  ASSUME NEW v \in Jk!Versions
  PROVE  IsRead(v, "settings", Jk!FieldsOf(v, "settings"))
<1>1. CASE v = "JK04"
  <2>1. Jk!FieldsOf(v, "settings") = Jk!jk04_settings
    BY <1>1 DEF Jk!FieldsOf
  <2>2. QED
    BY <1>1, <2>1, Jk04Settings, JkPlaces, JkRowsAreRead
<1> DEFINE Common == Jk!jk02_settings_voltages \cup Jk!jk02_settings_currents
                     \cup Jk!jk02_settings_temperatures \cup Jk!jk02_settings_pack
<1>2. CASE v = "JK02_24S"
  <2>1. Jk!FieldsOf(v, "settings") = Common \cup Jk!jk02_24s_wire_resistances
    BY <1>2 DEF Jk!FieldsOf, Jk!Jk02Settings
  <2>2. /\ IsRead(v, "settings", Jk!jk02_settings_voltages)
        /\ IsRead(v, "settings", Jk!jk02_settings_currents)
        /\ IsRead(v, "settings", Jk!jk02_settings_temperatures)
        /\ IsRead(v, "settings", Jk!jk02_settings_pack)
    BY <1>2, Jk0224SSettings, JkPlaces, JkRowsAreRead
  <2>3. IsRead(v, "settings", Common)
    BY <2>2, ReadTogether
  <2>4. IsRead(v, "settings", Jk!jk02_24s_wire_resistances)
    BY <1>2, Jk0224SSettings, JkNothingIsRead
  <2>5. QED
    BY <2>1, <2>3, <2>4, ReadTogether
<1>3. CASE v = "JK02_32S"
  <2> DEFINE Only == Jk!jk02_32s_wire_resistances \cup Jk!jk02_32s_controls \cup Jk!jk02_32s_heating
  <2>1. Jk!FieldsOf(v, "settings") = Common \cup Only
    BY <1>3 DEF Jk!FieldsOf, Jk!Jk02Settings
  <2>2. /\ IsRead(v, "settings", Jk!jk02_settings_voltages)
        /\ IsRead(v, "settings", Jk!jk02_settings_currents)
        /\ IsRead(v, "settings", Jk!jk02_settings_temperatures)
        /\ IsRead(v, "settings", Jk!jk02_settings_pack)
        /\ IsRead(v, "settings", Jk!jk02_32s_controls)
        /\ IsRead(v, "settings", Jk!jk02_32s_heating)
    BY <1>3, Jk0232SSettings, JkPlaces, JkRowsAreRead
  <2>3. IsRead(v, "settings", Jk!jk02_32s_wire_resistances)
    BY <1>3, Jk0232SSettings, JkNothingIsRead
  <2>4. IsRead(v, "settings", Common)
    BY <2>2, ReadTogether
  <2>5. IsRead(v, "settings", Only)
    BY <2>2, <2>3, ReadTogether
  <2> HIDE DEF Common, Only
  <2>6. QED
    BY <2>1, <2>4, <2>5, ReadTogether
<1>4. QED
  BY <1>1, <1>2, <1>3, JkVersions

(* So is what a cell info frame shows, the emergency switch alone.         *)
LEMMA JkCellInfoIsRead ==
  ASSUME NEW v \in Jk!Versions
  PROVE  IsRead(v, "cell_info", Jk!FieldsOf(v, "cell_info"))
<1>1. CASE v = "JK04"
  <2>1. Jk!FieldsOf(v, "cell_info") = Jk!jk04_cell_arrays \cup Jk!jk04_cell_states
    BY <1>1 DEF Jk!FieldsOf
  <2>2. /\ IsRead(v, "cell_info", Jk!jk04_cell_arrays)
        /\ IsRead(v, "cell_info", Jk!jk04_cell_states)
    BY JkMeasurements, JkNothingIsRead
  <2>3. QED
    BY <2>1, <2>2, ReadTogether
<1>2. CASE v # "JK04"
  <2>1. Jk!FieldsOf(v, "cell_info") =
          Jk!jk02_cell_arrays(v) \cup Jk!jk02_cell_sums(v) \cup Jk!jk02_cell_counters(v)
          \cup Jk!jk02_cell_states(v) \cup Jk!jk02_cell_extras(v)
    BY <1>2 DEF Jk!FieldsOf, Jk!Jk02CellInfo
  <2>2. /\ IsRead(v, "cell_info", Jk!jk02_cell_arrays(v))
        /\ IsRead(v, "cell_info", Jk!jk02_cell_sums(v))
        /\ IsRead(v, "cell_info", Jk!jk02_cell_counters(v))
        /\ IsRead(v, "cell_info", Jk!jk02_cell_states(v))
    BY JkMeasurements, JkNothingIsRead
  <2>3. IsRead(v, "cell_info", Jk!jk02_cell_extras(v))
    <3>1. CASE v = "JK02_32S"
      BY <3>1, Jk0232SCellExtras, JkPlaces, JkRowsAreRead
    <3>2. CASE v # "JK02_32S"
      BY <3>2, JkMeasurements, JkNothingIsRead
    <3>3. QED
      BY <3>1, <3>2
  <2>4. IsRead(v, "cell_info", Jk!jk02_cell_arrays(v) \cup Jk!jk02_cell_sums(v)
                               \cup Jk!jk02_cell_counters(v) \cup Jk!jk02_cell_states(v))
    BY <2>2, ReadTogether
  <2>5. QED
    BY <2>1, <2>3, <2>4, ReadTogether
<1>3. QED
  BY <1>1, <1>2

(* And what a device info frame does.                                      *)
LEMMA JkDeviceInfoIsRead ==
  ASSUME NEW v \in Jk!Versions
  PROVE  IsRead(v, "device_info", Jk!FieldsOf(v, "device_info"))
<1>1. IsRead(v, "device_info", Jk!device_info_texts)
  BY JkMeasurements, JkNothingIsRead
<1>2. CASE v = "JK02_32S"
  <2>1. Jk!FieldsOf(v, "device_info") =
          Jk!device_info_texts \cup (Jk!device_info_ports \cup Jk!device_info_charging)
    BY <1>2 DEF Jk!FieldsOf
  <2>2. /\ IsRead(v, "device_info", Jk!device_info_ports)
        /\ IsRead(v, "device_info", Jk!device_info_charging)
    BY <1>2, Jk0232SDeviceInfo, JkPlaces, JkRowsAreRead
  <2>3. IsRead(v, "device_info", Jk!device_info_ports \cup Jk!device_info_charging)
    BY <2>2, ReadTogether
  <2>4. QED
    BY <1>1, <2>1, <2>3, ReadTogether
<1>3. CASE v # "JK02_32S"
  <2>1. Jk!FieldsOf(v, "device_info") = Jk!device_info_texts
    BY <1>3 DEF Jk!FieldsOf
  <2>2. QED
    BY <1>1, <2>1
<1>4. QED
  BY <1>2, <1>3

(* And what any frame of a battery does.                                   *)
LEMMA JkFieldsAreRead ==
  ASSUME NEW v \in Jk!Versions, NEW type \in Jk!FrameTypes
  PROVE  IsRead(v, type, Jk!FieldsOf(v, type))
<1>1. IsRead(v, "logbook", Jk!FieldsOf(v, "logbook"))
  <2>1. Jk!FieldsOf(v, "logbook") = Jk!logbook_entries
    BY DEF Jk!FieldsOf
  <2>2. QED
    BY <2>1, JkMeasurements, JkNothingIsRead
<1>2. QED
  BY <1>1, JkSettingsAreRead, JkCellInfoIsRead, JkDeviceInfoIsRead DEF Jk!FrameTypes

-----------------------------------------------------------------------------
(***************************************************************************)
(* The tables of heltec_balancer_ble, in the same way.                     *)
(***************************************************************************)
USE DEF Heltec!Controls, Heltec!LegacyNumbers, Heltec!V2Numbers, Heltec!Voltage,
        Heltec!Current, Heltec!Delay, Heltec!Temperature, Heltec!FloatNumber,
        Heltec!IntegerNumber, Heltec!Switches, Heltec!Selects, Heltec!Select, Heltec!Control,
        Heltec!Unsigned, Heltec!Float, Heltec!Value, Heltec!Logged, Heltec!Truth, Heltec!Field

(* No two controls have the same command and register.                     *)
LEMMA HeltecAddresses == OneControlEach(Heltec!Controls)
  BY DEF OneControlEach

(* The settings a balancer keeps in one byte and in two.                   *)
LegacyBytes == {\h01, \h0D, \h14, \h15}
DelayRegisters == {\h08, \h09, \h0B, \h0C, \h1F, \h20, \h0D, \h0E}
HeltecRoomFor(v, address) ==
  IF address[1] = 5 THEN IF address[2] \in LegacyBytes THEN 1 ELSE 4
  ELSE IF v = "V2" /\ address[2] \in DelayRegisters THEN 2 ELSE 4

(* The ranges of the controls fit, in both versions.                       *)
LEMMA HeltecRangesFit ==
  ASSUME NEW v \in {"V1", "V2"}
  PROVE  \A c \in Heltec!Controls :
           /\ c.address[1] \in {5, 6} /\ c.address[2] \in Nat
           /\ c.address # NoRegister
           /\ Fits(c.factor = 1000, c, HeltecRoomFor(v, c.address))
  BY DEF Fits, NoRegister, HeltecRoomFor, LegacyBytes, DelayRegisters

HeltecReads(v, fields, rows) ==
  \A c \in Heltec!Controls, f \in fields :
    c.name \in f.shows =>
      /\ (v = "V2" /\ c.name = "nominal_battery_capacity")
         \/ Decodes(c.factor = 1000, c, f, HeltecRoomFor(v, c.address))
      /\ <<c.address[1], c.address[2], f.at>> \in rows /\ f.mask = 0

SettingsV1 ==
  { <<5, \h01, 8>>, <<5, \h02, 9>>, <<5, \h03, 13>>, <<5, \h04, 17>>, <<5, \h0D, 21>>,
    <<5, \h14, 22>>, <<5, \h15, 23>>, <<5, \h16, 24>>, <<5, \h17, 28>>, <<5, \h1A, 33>> }
BalancingV2 ==
  { <<5, \h01, 9>>, <<5, \h16, 10>>, <<5, \h02, 14>>, <<5, \h04, 22>>, <<5, \h17, 26>>,
    <<5, \h03, 30>>, <<5, \h0D, 126>>, <<5, \h14, 127>>, <<5, \h15, 128>> }
VoltagesV2 ==
  { <<6, \h01, 34>>, <<6, \h02, 38>>, <<6, \h04, 42>>, <<6, \h03, 46>>, <<6, \h1B, 50>>,
    <<6, \h1C, 54>>, <<6, \h1D, 58>> }
CurrentsV2 ==
  { <<6, \h07, 62>>, <<6, \h08, 66>>, <<6, \h09, 68>>, <<6, \h0A, 70>>, <<6, \h0B, 74>>,
    <<6, \h0C, 76>>, <<6, \h1E, 78>>, <<6, \h1F, 82>>, <<6, \h20, 84>>, <<6, \h21, 86>>,
    <<6, \h0D, 90>>, <<6, \h0E, 92>> }
TemperaturesV2 ==
  { <<6, \h0F, 94>>, <<6, \h10, 98>>, <<6, \h13, 102>>, <<6, \h14, 106>>, <<6, \h11, 110>>,
    <<6, \h12, 114>>, <<6, \h22, 118>>, <<6, \h23, 122>> }

(* The settings of a V1 balancer and the places they are read from         *)
(* (decode_settings_).                                                     *)
LEMMA HeltecV1Settings == HeltecReads("V1", Heltec!settings, SettingsV1)
  BY DEF HeltecReads, Decodes, HeltecRoomFor, LegacyBytes, SettingsV1, Heltec!settings

(* Those of a V2 balancer, table by table (decode_settings_v2_).           *)
LEMMA HeltecV2Settings ==
  /\ HeltecReads("V2", Heltec!settings_v2_balancing, BalancingV2)
  /\ HeltecReads("V2", Heltec!settings_v2_controls, BalancingV2)
  /\ HeltecReads("V2", Heltec!settings_v2_voltages, VoltagesV2)
  /\ HeltecReads("V2", Heltec!settings_v2_currents, CurrentsV2)
  /\ HeltecReads("V2", Heltec!settings_v2_temperatures, TemperaturesV2)
<1> USE DEF HeltecReads, Decodes, HeltecRoomFor
<1>1. HeltecReads("V2", Heltec!settings_v2_balancing, BalancingV2)
  BY DEF Heltec!settings_v2_balancing, BalancingV2, LegacyBytes
<1>2. HeltecReads("V2", Heltec!settings_v2_controls, BalancingV2)
  BY DEF Heltec!settings_v2_controls, BalancingV2, LegacyBytes
<1>3. HeltecReads("V2", Heltec!settings_v2_voltages, VoltagesV2)
  BY DEF Heltec!settings_v2_voltages, VoltagesV2, DelayRegisters
<1>4. HeltecReads("V2", Heltec!settings_v2_currents, CurrentsV2)
  BY DEF Heltec!settings_v2_currents, CurrentsV2, DelayRegisters
<1>5. HeltecReads("V2", Heltec!settings_v2_temperatures, TemperaturesV2)
  BY DEF Heltec!settings_v2_temperatures, TemperaturesV2, DelayRegisters
<1> HIDE DEF HeltecReads
<1>6. QED
  BY <1>1, <1>2, <1>3, <1>4, <1>5

(* No control shows a measurement, a text or a factory default.            *)
LEMMA HeltecMeasurements ==
  ASSUME NEW v
  PROVE  /\ HeltecReads(v, Heltec!cell_arrays, {})
         /\ HeltecReads(v, Heltec!cell_info_measurements, {})
         /\ HeltecReads(v, Heltec!cell_info_errors, {})
         /\ HeltecReads(v, Heltec!cell_info_v2_measurements, {})
         /\ HeltecReads(v, Heltec!cell_info_v2_errors, {})
         /\ HeltecReads(v, Heltec!device_info, {})
         /\ \A size : HeltecReads(v, Heltec!factory_defaults(size), {})
<1> USE DEF HeltecReads, Heltec!OperationStatus, Heltec!CellStatistics, Heltec!Floats, Heltec!Errors
<1>1. HeltecReads(v, Heltec!cell_arrays, {})
  BY DEF Heltec!cell_arrays
<1>2. HeltecReads(v, Heltec!cell_info_measurements, {})
  BY DEF Heltec!cell_info_measurements
<1>3. HeltecReads(v, Heltec!cell_info_errors, {})
  BY DEF Heltec!cell_info_errors
<1>4. HeltecReads(v, Heltec!cell_info_v2_measurements, {})
  BY DEF Heltec!cell_info_v2_measurements
<1>5. HeltecReads(v, Heltec!cell_info_v2_errors, {})
  BY DEF Heltec!cell_info_v2_errors
<1>6. HeltecReads(v, Heltec!device_info, {})
  BY DEF Heltec!device_info
<1>7. ASSUME NEW size PROVE HeltecReads(v, Heltec!factory_defaults(size), {})
  BY DEF Heltec!factory_defaults
<1> HIDE DEF HeltecReads
<1>8. QED
  BY <1>1, <1>2, <1>3, <1>4, <1>5, <1>6, <1>7

HIDE DEF Heltec!Controls, Heltec!LegacyNumbers, Heltec!V2Numbers, Heltec!Voltage,
         Heltec!Current, Heltec!Delay, Heltec!Temperature, Heltec!FloatNumber,
         Heltec!IntegerNumber, Heltec!Switches, Heltec!Selects, Heltec!Select, Heltec!Control,
         Heltec!Unsigned, Heltec!Float, Heltec!Value, Heltec!Logged, Heltec!Truth, Heltec!Field

HeltecPlace(v, command, r) ==
  IF v = "V1" THEN Heltec!LegacyPlace(command, r)
  ELSE IF command = 5 THEN Heltec!V2CommonPlace(r) ELSE Heltec!V2ProtectionPlace(r)

(* The room a balancer has for a setting.                                  *)
LEMMA HeltecRooms ==
  ASSUME NEW v \in {"V1", "V2"}, NEW address, address[1] \in {5, 6}, address[2] \in Nat
  PROVE  Room(HeltecPlace(v, address[1], address[2])) = HeltecRoomFor(v, address)
<1> USE DEF Room, HeltecRoomFor, LegacyBytes, DelayRegisters, HeltecPlace, Heltec!Row,
            Heltec!Place, Heltec!NoPlace, NoPlace, Jk!NoPlace, Jk!Place
<1>1. CASE v = "V1"
  BY <1>1 DEF Heltec!LegacyPlace
<1>2. CASE v = "V2" /\ address[1] = 5
  BY <1>2 DEF Heltec!V2CommonPlace
<1>3. CASE v = "V2" /\ address[1] = 6
  BY <1>3 DEF Heltec!V2ProtectionPlace
<1>4. QED
  BY <1>1, <1>2, <1>3

HeltecShows(v, rows) ==
  \A row \in rows :
    LET p == HeltecPlace(v, row[1], row[2])
    IN  p # NoPlace /\ p.type = "settings" /\ p.at = row[3] /\ p.mask = 0

(* The places the decoders read are those of the settings.                 *)
LEMMA HeltecPlaces ==
  /\ HeltecShows("V1", SettingsV1) /\ HeltecShows("V2", BalancingV2)
  /\ HeltecShows("V2", VoltagesV2) /\ HeltecShows("V2", CurrentsV2)
  /\ HeltecShows("V2", TemperaturesV2)
<1>1. HeltecShows("V1", SettingsV1)
  BY DEF HeltecShows, HeltecPlace, SettingsV1, Heltec!LegacyPlace, Heltec!Row, Heltec!Place,
         NoPlace, Jk!NoPlace, Jk!Place
<1>2. HeltecShows("V2", BalancingV2)
  <2>1. /\ Heltec!V2CommonPlace(\h01) = Heltec!Place(9, 1)
        /\ Heltec!V2CommonPlace(\h02) = Heltec!Place(14, 4)
        /\ Heltec!V2CommonPlace(\h03) = Heltec!Place(30, 4)
        /\ Heltec!V2CommonPlace(\h04) = Heltec!Place(22, 4)
        /\ Heltec!V2CommonPlace(\h0D) = Heltec!Place(126, 1)
        /\ Heltec!V2CommonPlace(\h14) = Heltec!Place(127, 1)
        /\ Heltec!V2CommonPlace(\h15) = Heltec!Place(128, 1)
        /\ Heltec!V2CommonPlace(\h16) = Heltec!Place(10, 4)
        /\ Heltec!V2CommonPlace(\h17) = Heltec!Place(26, 4)
    BY DEF Heltec!Row, Heltec!V2CommonPlace
  <2>2. QED
    BY <2>1 DEF BalancingV2, HeltecShows, HeltecPlace, Heltec!Place, NoPlace, Jk!NoPlace, Jk!Place
<1>3. HeltecShows("V2", VoltagesV2)
  <2>1. /\ Heltec!V2ProtectionPlace(\h01) = Heltec!Place(34, 4)
        /\ Heltec!V2ProtectionPlace(\h02) = Heltec!Place(38, 4)
        /\ Heltec!V2ProtectionPlace(\h04) = Heltec!Place(42, 4)
        /\ Heltec!V2ProtectionPlace(\h03) = Heltec!Place(46, 4)
        /\ Heltec!V2ProtectionPlace(\h1B) = Heltec!Place(50, 4)
        /\ Heltec!V2ProtectionPlace(\h1C) = Heltec!Place(54, 4)
        /\ Heltec!V2ProtectionPlace(\h1D) = Heltec!Place(58, 4)
    BY DEF Heltec!Row, Heltec!V2ProtectionPlace
  <2>2. QED
    BY <2>1 DEF VoltagesV2, HeltecShows, HeltecPlace, Heltec!Place, NoPlace, Jk!NoPlace, Jk!Place
<1>4. HeltecShows("V2", CurrentsV2)
  <2>1. /\ Heltec!V2ProtectionPlace(\h07) = Heltec!Place(62, 4)
        /\ Heltec!V2ProtectionPlace(\h08) = Heltec!Place(66, 2)
        /\ Heltec!V2ProtectionPlace(\h09) = Heltec!Place(68, 2)
        /\ Heltec!V2ProtectionPlace(\h0A) = Heltec!Place(70, 4)
        /\ Heltec!V2ProtectionPlace(\h0B) = Heltec!Place(74, 2)
        /\ Heltec!V2ProtectionPlace(\h0C) = Heltec!Place(76, 2)
        /\ Heltec!V2ProtectionPlace(\h1E) = Heltec!Place(78, 4)
        /\ Heltec!V2ProtectionPlace(\h1F) = Heltec!Place(82, 2)
        /\ Heltec!V2ProtectionPlace(\h20) = Heltec!Place(84, 2)
        /\ Heltec!V2ProtectionPlace(\h21) = Heltec!Place(86, 4)
        /\ Heltec!V2ProtectionPlace(\h0D) = Heltec!Place(90, 2)
        /\ Heltec!V2ProtectionPlace(\h0E) = Heltec!Place(92, 2)
    BY DEF Heltec!Row, Heltec!V2ProtectionPlace
  <2>2. QED
    BY <2>1 DEF CurrentsV2, HeltecShows, HeltecPlace, Heltec!Place, NoPlace, Jk!NoPlace, Jk!Place
<1>5. HeltecShows("V2", TemperaturesV2)
  <2>1. /\ Heltec!V2ProtectionPlace(\h0F) = Heltec!Place(94, 4)
        /\ Heltec!V2ProtectionPlace(\h10) = Heltec!Place(98, 4)
        /\ Heltec!V2ProtectionPlace(\h13) = Heltec!Place(102, 4)
        /\ Heltec!V2ProtectionPlace(\h14) = Heltec!Place(106, 4)
        /\ Heltec!V2ProtectionPlace(\h11) = Heltec!Place(110, 4)
        /\ Heltec!V2ProtectionPlace(\h12) = Heltec!Place(114, 4)
        /\ Heltec!V2ProtectionPlace(\h22) = Heltec!Place(118, 4)
        /\ Heltec!V2ProtectionPlace(\h23) = Heltec!Place(122, 4)
    BY DEF Heltec!Row, Heltec!V2ProtectionPlace
  <2>2. QED
    BY <2>1 DEF TemperaturesV2, HeltecShows, HeltecPlace, Heltec!Place, NoPlace, Jk!NoPlace,
                Jk!Place
<1>6. QED
  BY <1>1, <1>2, <1>3, <1>4, <1>5

(* What BleControls has for a balancer is what its tables have.            *)
LEMMA HeltecVersions ==
  ASSUME NEW v \in {"V1", "V2"}
  PROVE  /\ ~IsJk(v) /\ ControlsOf(v) = Heltec!Controls
         /\ \A c : IsFloat(v, c) = (c.factor = 1000)
         /\ \A c : PlaceOf(v, c.address) = HeltecPlace(v, c.address[1], c.address[2])
         /\ \A c \in Heltec!Controls :
              Room(PlaceOf(v, c.address)) = HeltecRoomFor(v, c.address)
<1>1. ~IsJk(v)
  BY DEF Jk!Versions, IsJk
<1>2. /\ ControlsOf(v) = Heltec!Controls
      /\ \A c : PlaceOf(v, c.address) = HeltecPlace(v, c.address[1], c.address[2])
  BY <1>1, Zenon DEF ControlsOf, PlaceOf, HeltecPlace, Heltec!PlaceOf
<1>3. \A c : IsFloat(v, c) = (c.factor = 1000)
  BY <1>1 DEF IsFloat
<1>4. \A c \in Heltec!Controls : Room(PlaceOf(v, c.address)) = HeltecRoomFor(v, c.address)
  BY <1>2, HeltecRangesFit, HeltecRooms
<1>5. QED
  BY <1>1, <1>2, <1>3, <1>4

(* Fields whose settings are in their places are read as they should be.   *)
LEMMA HeltecRowsAreRead ==
  ASSUME NEW v \in {"V1", "V2"}, NEW fields, NEW rows,
         HeltecReads(v, fields, rows), HeltecShows(v, rows)
  PROVE  IsRead(v, "settings", fields)
<1> SUFFICES ASSUME NEW c \in Heltec!Controls, NEW f \in fields, c.name \in f.shows
             PROVE  /\ IsAt("settings", f, HeltecPlace(v, c.address[1], c.address[2]))
                    /\ \/ v = "V2" /\ c.name = "nominal_battery_capacity"
                       \/ Decodes(c.factor = 1000, c, f, HeltecRoomFor(v, c.address))
  BY HeltecVersions DEF IsRead
<1>1. /\ \/ v = "V2" /\ c.name = "nominal_battery_capacity"
         \/ Decodes(c.factor = 1000, c, f, HeltecRoomFor(v, c.address))
      /\ <<c.address[1], c.address[2], f.at>> \in rows /\ f.mask = 0
  BY DEF HeltecReads
<1>2. LET p == HeltecPlace(v, c.address[1], c.address[2])
      IN  p # NoPlace /\ p.type = "settings" /\ p.at = f.at /\ p.mask = 0
  BY <1>1 DEF HeltecShows
<1>3. QED
  BY <1>1, <1>2 DEF IsAt

(* So are fields that no control shows.                                    *)
LEMMA HeltecNothingIsRead ==
  ASSUME NEW v \in {"V1", "V2"}, NEW type, NEW fields, HeltecReads(v, fields, {})
  PROVE  IsRead(v, type, fields)
<1>1. \A c \in Heltec!Controls, f \in fields : c.name \notin f.shows
  BY DEF HeltecReads
<1>2. QED
  BY <1>1, HeltecVersions DEF IsRead

(* Every setting a frame of a balancer shows is read at its place.         *)
LEMMA HeltecFieldsAreRead ==
  ASSUME NEW v \in {"V1", "V2"}, NEW type \in Heltec!FrameTypes, NEW size
  PROVE  IsRead(v, type, Heltec!FieldsOf(v, type, size))
<1>1. CASE type = "settings" /\ v = "V1"
  <2>1. Heltec!FieldsOf(v, type, size) = Heltec!settings
    BY <1>1 DEF Heltec!FieldsOf
  <2>2. QED
    BY <1>1, <2>1, HeltecV1Settings, HeltecPlaces, HeltecRowsAreRead
<1>2. CASE type = "settings" /\ v = "V2"
  <2>1. Heltec!FieldsOf(v, type, size) =
          Heltec!settings_v2_balancing \cup Heltec!settings_v2_controls
          \cup Heltec!settings_v2_voltages \cup Heltec!settings_v2_currents
          \cup Heltec!settings_v2_temperatures
    BY <1>2 DEF Heltec!FieldsOf
  <2>2. /\ IsRead(v, type, Heltec!settings_v2_balancing)
        /\ IsRead(v, type, Heltec!settings_v2_controls)
        /\ IsRead(v, type, Heltec!settings_v2_voltages)
        /\ IsRead(v, type, Heltec!settings_v2_currents)
        /\ IsRead(v, type, Heltec!settings_v2_temperatures)
    BY <1>2, HeltecV2Settings, HeltecPlaces, HeltecRowsAreRead
  <2>3. IsRead(v, type, Heltec!settings_v2_balancing \cup Heltec!settings_v2_controls
                        \cup Heltec!settings_v2_voltages)
    BY <2>2, ReadTogether
  <2>4. IsRead(v, type, Heltec!settings_v2_balancing \cup Heltec!settings_v2_controls
                        \cup Heltec!settings_v2_voltages \cup Heltec!settings_v2_currents)
    BY <2>2, <2>3, ReadTogether
  <2>5. QED
    BY <1>2, <2>1, <2>2, <2>4, ReadTogether
<1>3. CASE type = "cell_info"
  <2>1. /\ IsRead(v, type, Heltec!cell_arrays)
        /\ IsRead(v, type, Heltec!cell_info_measurements)
        /\ IsRead(v, type, Heltec!cell_info_errors)
        /\ IsRead(v, type, Heltec!cell_info_v2_measurements)
        /\ IsRead(v, type, Heltec!cell_info_v2_errors)
    BY HeltecMeasurements, HeltecNothingIsRead
  <2>2. /\ IsRead(v, type, Heltec!cell_info_measurements \cup Heltec!cell_info_errors)
        /\ IsRead(v, type, Heltec!cell_info_v2_measurements \cup Heltec!cell_info_v2_errors)
    BY <2>1, ReadTogether
  <2>3. \/ Heltec!FieldsOf(v, type, size) =
             Heltec!cell_arrays \cup (Heltec!cell_info_measurements \cup Heltec!cell_info_errors)
        \/ Heltec!FieldsOf(v, type, size) =
             Heltec!cell_arrays
             \cup (Heltec!cell_info_v2_measurements \cup Heltec!cell_info_v2_errors)
    BY <1>3 DEF Heltec!FieldsOf
  <2>4. QED
    BY <2>1, <2>2, <2>3, ReadTogether
<1>4. CASE type = "device_info"
  <2>1. Heltec!FieldsOf(v, type, size) = Heltec!device_info
    BY <1>4 DEF Heltec!FieldsOf
  <2>2. QED
    BY <2>1, HeltecMeasurements, HeltecNothingIsRead
<1>5. CASE type = "factory_defaults"
  <2>1. Heltec!FieldsOf(v, type, size) = Heltec!factory_defaults(size)
    BY <1>5 DEF Heltec!FieldsOf
  <2>2. QED
    BY <2>1, HeltecMeasurements, HeltecNothingIsRead
<1>6. CASE type = "write_register"
  <2>1. Heltec!FieldsOf(v, type, size) = {}
    BY <1>6 DEF Heltec!FieldsOf
  <2>2. QED
    BY <2>1 DEF IsRead
<1>7. QED
  BY <1>1, <1>2, <1>3, <1>4, <1>5, <1>6 DEF Heltec!FrameTypes

-----------------------------------------------------------------------------
(***************************************************************************)
(* Both components together.                                               *)
(***************************************************************************)
(* Every version is one of five.                                           *)
LEMMA VersionsAre == ASSUME NEW v \in Versions PROVE v \in Jk!Versions \/ v \in {"V1", "V2"}
  BY DEF Versions, Heltec!Versions

(* A control has its address for itself, if it has one.                    *)
LEMMA Addresses == ASSUME NEW v \in Versions PROVE OneControlEach(ControlsOf(v))
<1>1. CASE v \in Jk!Versions
  BY <1>1, JkVersions, Jk04Addresses, Jk0224SAddresses, Jk0232SAddresses
<1>2. CASE v \in {"V1", "V2"}
  BY <1>2, HeltecVersions, HeltecAddresses
<1>3. QED
  BY <1>1, <1>2, VersionsAre

(* The range of a control fits into what is sent and kept of it.           *)
LEMMA Ranges ==
  ASSUME NEW v \in Versions, NEW c \in ControlsOf(v),
         ~(IsJk(v) /\ c.name = "smart_sleep_voltage")
  PROVE  Fits(IsFloat(v, c), c, Room(PlaceOf(v, c.address)))
<1>1. CASE v \in Jk!Versions
  <2>1. /\ v \in {"JK04", "JK02_24S", "JK02_32S"} /\ IsJk(v) /\ c \in Jk!ControlsOf(v)
        /\ IsFloat(v, c) = JkFloat(v, c)
        /\ Room(PlaceOf(v, c.address)) = RoomFor(v, c.address[1])
    BY <1>1, JkVersions
  <2>2. RangesFit(v)
    BY <2>1, Jk04RangesFit, Jk0224SRangesFit, Jk0232SRangesFit
  <2>3. QED
    BY <2>1, <2>2 DEF RangesFit
<1>2. CASE v \in {"V1", "V2"}
  BY <1>2, HeltecVersions, HeltecRangesFit
<1>3. QED
  BY <1>1, <1>2, VersionsAre

(* A decoder that shows a control reads the place of its setting, as the   *)
(* number the setting is, but for nominal_battery_capacity of a V2.        *)
LEMMA ReadsAre ==
  ASSUME NEW v \in Versions, NEW c \in ControlsOf(v), NEW r \in ReadsOf(v, c)
  PROVE  /\ IsAt(r[1], r[2], PlaceOf(v, c.address))
         /\ \/ v = "V2" /\ c.name = "nominal_battery_capacity"
            \/ Decodes(IsFloat(v, c), c, r[2], Room(PlaceOf(v, c.address)))
<1>1. PICK type \in IF IsJk(v) THEN Jk!FrameTypes ELSE Heltec!FrameTypes :
        r \in {type} \X {f \in FieldsOf(v, type) : c.name \in f.shows}
  BY DEF ReadsOf
<1>2. r[1] = type /\ r[2] \in FieldsOf(v, type) /\ c.name \in r[2].shows
  BY <1>1
<1>3. CASE v \in Jk!Versions
  <2>1. IsRead(v, type, FieldsOf(v, type))
    BY <1>1, <1>3, JkVersions, JkFieldsAreRead
  <2>2. QED
    BY <1>2, <2>1 DEF IsRead
<1>4. CASE v \in {"V1", "V2"}
  <2>1. ~IsJk(v)
    BY <1>4, HeltecVersions
  <2>2. PICK size : r[2] \in Heltec!FieldsOf(v, type, size)
    BY <1>2, <2>1 DEF FieldsOf
  <2>3. IsRead(v, type, Heltec!FieldsOf(v, type, size))
    BY <1>1, <1>4, <2>1, HeltecFieldsAreRead
  <2>4. QED
    BY <1>2, <2>2, <2>3 DEF IsRead
<1>5. QED
  BY <1>3, <1>4, VersionsAre

-----------------------------------------------------------------------------
(***************************************************************************)
(* What is kept of a value can be read again.                              *)
(***************************************************************************)
(* The number of bytes kept of a value: as many as there is room for, or   *)
(* as many as a request announced.                                         *)
KeptOf(c, room, n) ==
  \/ n = room
  \/ c.address # NoRegister /\ n = IF c.length <= room THEN c.length ELSE room

KindOf(float, c) ==
  IF float THEN "float" ELSE IF c.min < 0 THEN "signed"
  ELSE IF c.kind = "switch" THEN "truth" ELSE "unsigned"

(* A value in range survives in what is kept of it.                        *)
LEMMA ValuesSurvive ==
  ASSUME NEW float \in BOOLEAN, NEW c, NEW room, NEW n, NEW k \in Int,
         Fits(float, c, room), KeptOf(c, room, n), c.min <= k, k <= c.max
  PROVE  /\ n \in {1, 2, 4} /\ room \in {1, 2, 4}
         /\ Survives(KindOf(float, c), n, room, k)
<1>1. n \in {1, 2, 4} /\ room \in {1, 2, 4}
  BY DEF Fits, KeptOf
<1>2. Survives(KindOf(float, c), n, room, k)
  BY DEF Fits, KeptOf, KindOf, Survives
<1>3. QED
  BY <1>1, <1>2

(* It does for the decoder, whose field may be of another kind or width.   *)
LEMMA DecodedValuesSurvive ==
  ASSUME NEW float \in BOOLEAN, NEW c, NEW f, NEW room, NEW n, NEW k \in Int,
         Fits(float, c, room), Decodes(float, c, f, room), KeptOf(c, room, n),
         c.min <= k, k <= c.max
  PROVE  Survives(f.kind, n, f.width, k)
  BY DEF Fits, KeptOf, Decodes, Survives

-----------------------------------------------------------------------------
(***************************************************************************)
(* The cast that cuts off what a float lies below an integer.              *)
(***************************************************************************)
(* The range of s in RoundsDown, with 2^s and 2^(30 - s).                  *)
Octaves ==
  { <<6, 64, 16777216>>, <<7, 128, 8388608>>, <<8, 256, 4194304>>, <<9, 512, 2097152>>,
    <<10, 1024, 1048576>>, <<11, 2048, 524288>>, <<12, 4096, 262144>>, <<13, 8192, 131072>>,
    <<14, 16384, 65536>>, <<15, 32768, 32768>>, <<16, 65536, 16384>>, <<17, 131072, 8192>>,
    <<18, 262144, 4096>>, <<19, 524288, 2048>>, <<20, 1048576, 1024>>, <<21, 2097152, 512>>,
    <<22, 4194304, 256>>, <<23, 8388608, 128>>, <<24, 16777216, 64>>, <<25, 33554432, 32>>,
    <<26, 67108864, 16>>, <<27, 134217728, 8>>, <<28, 268435456, 4>>, <<29, 536870912, 2>>,
    <<30, 1073741824, 1>> }

(* The powers of two in RoundsDown are those of the table.                 *)
LEMMA OctavesAre == \A s \in 6 .. 30 : <<s, 2^s, 2^(30 - s)>> \in Octaves
<1> DEFINE P(s) == <<s, 2^s, 2^(30 - s)>> \in Octaves
<1>1. /\ P(6) /\ P(7) /\ P(8) /\ P(9) /\ P(10) /\ P(11) /\ P(12) /\ P(13)
      /\ P(14) /\ P(15) /\ P(16) /\ P(17) /\ P(18) /\ P(19) /\ P(20) /\ P(21)
      /\ P(22) /\ P(23) /\ P(24) /\ P(25) /\ P(26) /\ P(27) /\ P(28) /\ P(29)
      /\ P(30)
  BY SMT DEF Octaves
<1> HIDE DEF P
<1>2. \A s \in 6 .. 30 : P(s)
  BY <1>1, SMT
<1>3. QED
  BY <1>2 DEF P

(* The bounds that numbers of jk_bms_ble have in thousandths.              *)
ThousandthBounds ==
  { 0, 3, 300, 1000, 1200, 2000, 3650, 4250, 4350, 15000, 200000, 600100, 1000000, 1200100,
    20000000 }

(* No bound is cut to the value below it.                                  *)
LEMMA BoundsAreKept == \A k \in ThousandthBounds : ~Jk!RoundsDown(k)
<1> SUFFICES ASSUME NEW k \in ThousandthBounds, NEW s \in 6 .. 30,
                    k > 0, k <= 2^(30 - s), k * 2^s >= 1000 * 2^20,
                    (k * 2^s) % 125 \in 33 .. 62
             PROVE  FALSE
  BY DEF Jk!RoundsDown
<1>1. PICK r \in Octaves : r = <<s, 2^s, 2^(30 - s)>>
  BY OctavesAre
<1>2. 1000 * 2^20 = 1048576000
  BY SMT
<1>3. k > 0 /\ k <= r[3] /\ k * r[2] >= 1048576000 /\ (k * r[2]) % 125 \in 33 .. 62
  BY <1>1, <1>2, SMT
<1>4. QED
  BY <1>3, SMT DEF Octaves, ThousandthBounds

(* The bounds of the numbers of jk_bms_ble in thousandths are among them.  *)
LEMMA JkBoundsAreKept ==
  ASSUME NEW v, NEW c \in Jk!ControlsOf(v), c.factor = 1000
  PROVE  ~Jk!RoundsDown(c.min) /\ ~Jk!RoundsDown(c.max)
<1>1. c.min \in ThousandthBounds /\ c.max \in ThousandthBounds
  BY SMT DEF ThousandthBounds, Jk!ControlsOf, Jk!VoltageNumbers, Jk!ChargeNumbers,
       Jk!ProtectionNumbers, Jk!ServiceNumbers, Jk!Switches, Jk!Selects, Jk!Number, Jk!Switch,
       Jk!Select, Jk!Control
<1>2. QED
  BY <1>1, BoundsAreKept

-----------------------------------------------------------------------------
(***************************************************************************)
(* What a request and a device make of a value.                            *)
(***************************************************************************)
(* The bytes are those of k, as many of them as there is room for or as    *)
(* were announced.                                                         *)
Carries(v, c, content, k) ==
  LET room == Room(PlaceOf(v, c.address)) IN
  /\ content.float = IsFloat(v, c) /\ content.width = room
  /\ \E n : /\ KeptOf(c, room, n)
            /\ \A i \in 1 .. 4 : content.bytes[i] = IF i <= n THEN Bytes(k)[i] ELSE 0

IsKept(c, k) == k \in Int /\ (k \in {c.min, c.max} \/ ~Jk!RoundsDown(k))

(* A request carries the bytes of its value, float or integer.             *)
LEMMA Payloads ==
  ASSUME NEW v \in Versions, NEW c \in ControlsOf(v), NEW k, IsKept(c, k)
  PROVE  /\ Payload(v, c, k).float = IsFloat(v, c)
         /\ Payload(v, c, k).bytes = Bytes(k)
<1>1. CASE v \in Jk!Versions
  <2>1. IsJk(v) /\ c \in Jk!ControlsOf(v)
    BY <1>1, JkVersions
  <2>2. Jk!Truncated(k, c.factor) = k
    BY <2>1, JkBoundsAreKept DEF IsKept, Jk!Truncated
  <2>3. Jk!Bytes(k) = Bytes(k)
    BY Zenon DEF Jk!Bytes, Bytes
  <2>4. CASE IsFloat(v, c)
    <3>1. Payload(v, c, k) = Jk!Content(TRUE, 4, Bytes(k))
      BY <2>1, <2>3, <2>4, Zenon DEF Payload, IsFloat, Jk!Payload, Jk!FloatPayload
    <3>2. QED
      BY <2>4, <3>1 DEF Jk!Content
  <2>5. CASE ~IsFloat(v, c)
    <3>1. Payload(v, c, k) = Jk!Content(FALSE, 4, Bytes(k))
      BY <2>1, <2>2, <2>3, <2>5, Zenon DEF Payload, IsFloat, Jk!Payload, Jk!IntegerPayload
    <3>2. IsFloat(v, c) = FALSE
      BY <2>1, <2>5, Zenon DEF IsFloat
    <3>3. Payload(v, c, k).float = FALSE /\ Payload(v, c, k).bytes = Bytes(k)
      BY <3>1 DEF Jk!Content
    <3>4. QED
      BY <3>2, <3>3, Zenon
  <2>6. QED
    BY <2>4, <2>5
<1>2. CASE v \in {"V1", "V2"}
  <2>1. ~IsJk(v)
    BY <1>2, HeltecVersions
  <2>2. Heltec!Bytes(k) = Bytes(k)
    BY Zenon DEF Heltec!Bytes, Bytes
  <2>3. Payload(v, c, k) = Heltec!Content(c.factor = 1000, 4, Bytes(k))
    BY <2>1, <2>2, Zenon DEF Payload, Heltec!Payload
  <2>4. QED
    BY <2>1, <2>3 DEF Heltec!Content, IsFloat
<1>3. QED
  BY <1>1, <1>2, VersionsAre

(* The device keeps of a request as much as can be read again.             *)
LEMMA WrittenCarries ==
  ASSUME NEW v \in Versions, NEW c \in ControlsOf(v), NEW k, IsKept(c, k),
         c.address # NoRegister, ~Unfaithful(Subject(v, c))
  PROVE  Carries(v, c, Written(Subject(v, c), k), k)
<1> DEFINE p == PlaceOf(v, c.address)
           content == Payload(v, c, k)
           kept == Kept(p, content, c.length)
           n == IF c.length <= Room(p) THEN c.length ELSE Room(p)
<1>1. Written(Subject(v, c), k) = kept
  BY DEF Written, Subject
<1>2. content.float = IsFloat(v, c) /\ content.bytes = Bytes(k)
  BY Payloads
<1>3. c.length \in {1, 2, 4} /\ Room(p) \in {1, 2, 4}
  <2>1. Fits(IsFloat(v, c), c, Room(p))
    BY Ranges DEF Unfaithful, Subject
  <2>2. QED
    BY <2>1 DEF Fits
<1>4. /\ kept.float = IsFloat(v, c) /\ kept.width = Room(p)
      /\ \A i \in 1 .. 4 :
           kept.bytes[i] = IF i <= c.length /\ i <= Room(p) THEN Bytes(k)[i] ELSE 0
  BY <1>2 DEF Kept, Content, Room
<1>5. \A i \in 1 .. 4 : kept.bytes[i] = IF i <= n THEN Bytes(k)[i] ELSE 0
  BY <1>3, <1>4
<1>6. KeptOf(c, Room(p), n)
  BY DEF KeptOf
<1>7. QED
  BY <1>1, <1>4, <1>5, <1>6, Zenon DEF Carries

(* So it does of a value it was told by other means.                       *)
LEMMA ExactlyCarries ==
  ASSUME NEW v \in Versions, NEW c \in ControlsOf(v), NEW k, IsKept(c, k),
         ~Unfaithful(Subject(v, c))
  PROVE  Carries(v, c, Exactly(Subject(v, c), k), k)
<1> DEFINE p == PlaceOf(v, c.address)
           content == Content(Payload(v, c, k).float, 4, Bytes(k))
           kept == Kept(p, content, 4)
<1>1. Exactly(Subject(v, c), k) = kept
  BY DEF Exactly, Subject
<1>2. content.float = IsFloat(v, c) /\ content.bytes = Bytes(k)
  BY Payloads DEF Content
<1>3. Room(p) \in {1, 2, 4}
  <2>1. Fits(IsFloat(v, c), c, Room(p))
    BY Ranges DEF Unfaithful, Subject
  <2>2. QED
    BY <2>1 DEF Fits
<1>4. /\ kept.float = IsFloat(v, c) /\ kept.width = Room(p)
      /\ \A i \in 1 .. 4 : kept.bytes[i] = IF i <= 4 /\ i <= Room(p) THEN Bytes(k)[i] ELSE 0
  BY <1>2 DEF Kept, Content, Room
<1>5. \A i \in 1 .. 4 : kept.bytes[i] = IF i <= Room(p) THEN Bytes(k)[i] ELSE 0
  BY <1>3, <1>4
<1>6. KeptOf(c, Room(p), Room(p))
  BY DEF KeptOf
<1>7. QED
  BY <1>1, <1>4, <1>5, <1>6, Zenon DEF Carries

(* The device and the decoder read the same value from what was kept.      *)
LEMMA CarriedIsRead ==
  ASSUME NEW v \in Versions, NEW c \in ControlsOf(v), NEW content, NEW k \in Int,
         ~Unfaithful(Subject(v, c)), c.min <= k, k <= c.max, Carries(v, c, content, k)
  PROVE  /\ Meaning(c, content) = <<k, c.factor>>
         /\ IsPublished(Subject(v, c)) => PublishedValue(Subject(v, c), content) = <<k, c.factor>>
<1> DEFINE p == PlaceOf(v, c.address)
           room == Room(p)
           float == IsFloat(v, c)
<1>1. Fits(float, c, room)
  BY Ranges DEF Unfaithful, Subject
<1>2. float \in BOOLEAN
  BY DEF IsFloat
<1>3. PICK n : /\ KeptOf(c, room, n)
               /\ \A i \in 1 .. 4 : content.bytes[i] = IF i <= n THEN Bytes(k)[i] ELSE 0
  BY DEF Carries
<1>4. content.float = float /\ content.width = room
  BY DEF Carries
<1>5. /\ n \in {1, 2, 4} /\ room \in {1, 2, 4}
      /\ Survives(KindOf(float, c), n, room, k)
  BY <1>1, <1>2, <1>3, ValuesSurvive
<1>6. Meaning(c, content) = <<k, c.factor>>
  <2> DEFINE field == Field(0, room, 0, KindOf(float, c), c.factor, {})
  <2>1. /\ field.width = room /\ field.kind = KindOf(float, c) /\ field.scale = c.factor
    BY DEF Field
  <2>2. float = (field.kind = "float")
    BY <1>2, <2>1 DEF KindOf
  <2>3. field.kind \in {"flag", "truth"} => field.scale = 1
    BY <1>1, <2>1 DEF KindOf, Fits
  <2>4. Meaning(c, content) = Reading(field, content)
    BY <1>4, Zenon DEF Meaning, KindOf
  <2> HIDE DEF field
  <2>5. Reading(field, content) = <<k, field.scale>>
    BY <1>3, <1>4, <1>5, <2>1, <2>2, <2>3, ReadsBack
  <2>6. QED
    BY <2>1, <2>4, <2>5
<1>7. ASSUME IsPublished(Subject(v, c))
      PROVE  PublishedValue(Subject(v, c), content) = <<k, c.factor>>
  <2> DEFINE read == CHOOSE r \in ReadsOf(v, c) : TRUE
  <2>1. /\ Subject(v, c).reads = ReadsOf(v, c) /\ Subject(v, c).place = p
        /\ read \in ReadsOf(v, c)
    BY <1>7 DEF IsPublished, Subject
  <2>2. /\ IsAt(read[1], read[2], p)
        /\ Decodes(float, c, read[2], room)
    BY <2>1, ReadsAre DEF Unfaithful, Subject, IsJk, Jk!Versions
  <2>3. PublishedValue(Subject(v, c), content) = Reading(read[2], content)
    BY <2>1, <2>2 DEF PublishedValue, IsAt
  <2> HIDE DEF read
  <2>4. PICK field : field = read[2]
    OBVIOUS
  <2>5. /\ field.width \in {1, 2, 4} /\ field.scale = c.factor
        /\ float = (field.kind = "float")
        /\ field.kind \in {"flag", "truth"} => field.scale = 1
    BY <1>2, <2>2, <2>4 DEF Decodes
  <2>6. Survives(field.kind, n, field.width, k)
    BY <1>1, <1>2, <1>3, <2>2, <2>4, DecodedValuesSurvive
  <2>7. Reading(field, content) = <<k, field.scale>>
    BY <1>3, <1>4, <1>5, <2>5, <2>6, ReadsBack
  <2>8. QED
    BY <2>3, <2>4, <2>5, <2>7
<1>8. QED
  BY <1>6, <1>7

-----------------------------------------------------------------------------
(***************************************************************************)
(* The controls that are followed.                                         *)
(***************************************************************************)
LEMMA SubjectsAre ==
  ASSUME NEW s \in Subjects
  PROVE  /\ s.version \in Versions /\ s.control \in ControlsOf(s.version)
         /\ s = Subject(s.version, s.control)
<1>1. PICK v \in Versions : s \in {Subject(v, c) : c \in ControlsOf(v)}
  BY SubjectsAssumption, Zenon DEF AllSubjects
<1>2. PICK c \in ControlsOf(v) : s = Subject(v, c)
  BY <1>1, Zenon
<1>3. Subject(v, c).version = v /\ Subject(v, c).control = c
  BY DEF Subject
<1>4. QED
  BY <1>2, <1>3

(* The control that is followed does not change.                           *)
LEMMA SubjectStays == Spec => [](subject \in Subjects)
<1>1. Init => subject \in Subjects
  BY DEF Init
<1>2. subject \in Subjects /\ [Next]_vars => (subject \in Subjects)'
  BY DEF Next, vars, Request, DeviceChanges, AskForFrame, SendFrame, LoseFrame, Decode
<1>3. QED
  BY <1>1, <1>2, PTL DEF Spec

(* A setting has one control, and a control that frames are published to   *)
(* has a setting which the device shows, for all controls of all versions  *)
(* of the two components (NUMBERS, V2_NUMBERS, SWITCHES, SELECTS and the   *)
(* decoders).                                                              *)
THEOREM EverySettingIsOwned == Spec => []OwnsItsSetting
<1>1. ASSUME subject \in Subjects PROVE OwnsItsSetting
  <2>1. /\ version \in Versions /\ control \in ControlsOf(version)
        /\ subject = Subject(version, control)
    BY <1>1, SubjectsAre DEF version, control
  <2>2. ASSUME NEW other \in ControlsOf(version), control.address # NoRegister,
               other.address = control.address
        PROVE  other = control
    BY <2>1, <2>2, Addresses DEF OneControlEach
  <2>3. ASSUME IsPublished(subject)  PROVE place # NoPlace
    <3>1. /\ subject.reads = ReadsOf(version, control)
          /\ place = PlaceOf(version, control.address)
      BY <2>1 DEF place, Subject
    <3>2. PICK r : r \in ReadsOf(version, control)
      BY <2>3, <3>1 DEF IsPublished
    <3>3. QED
      BY <2>1, <3>1, <3>2, ReadsAre DEF IsAt
  <2>4. QED
    BY <2>2, <2>3 DEF OwnsItsSetting
<1>2. QED
  BY <1>1, SubjectStays, PTL

-----------------------------------------------------------------------------
(***************************************************************************)
(* The promise of Setting, kept by every control but the two Unfaithful    *)
(* ones and for all values in range but those that are cut to a lower one. *)
(***************************************************************************)
(* The bytes are those of a value the control can be asked for.            *)
Legible(s, content) ==
  \E k \in RequestsOf(s.control) : Carries(s.version, s.control, content, k)

(* What the device has, and what a frame of it carries, can be read.       *)
SettingInv ==
  /\ subject \in Subjects
  /\ Legible(subject, stored)
  /\ frame = NoFrame \/ Legible(subject, frame)

(* What can be asked for is in the range and not cut.                      *)
LEMMA RequestsAreKept ==
  ASSUME Faithful, NEW s \in Subjects, NEW k \in RequestsOf(s.control)
  PROVE  IsKept(s.control, k) /\ s.control.min <= k /\ k <= s.control.max
<1> DEFINE c == s.control
<1>1. Fits(IsFloat(s.version, c), c, Room(PlaceOf(s.version, c.address)))
  BY SubjectsAre, Ranges DEF Faithful, Unfaithful
<1>2. c.min \in Int /\ c.max \in Int /\ c.min <= c.max
  BY <1>1 DEF Fits
<1>3. k \in {c.min, c.max} \/ (k \in Samples /\ c.min <= k /\ k <= c.max)
  BY DEF RequestsOf
<1>4. k \in Int /\ c.min <= k /\ k <= c.max
  <2> HIDE DEF c
  <2>1. CASE k = c.min
    BY <1>2, <2>1
  <2>2. CASE k = c.max
    BY <1>2, <2>2
  <2>3. CASE k \in Samples /\ c.min <= k /\ k <= c.max
    BY <2>3, SamplesAssumption
  <2>4. QED
    BY <1>3, <2>1, <2>2, <2>3
<1>5. k \in {c.min, c.max} \/ ~Jk!RoundsDown(k)
  BY <1>3, Zenon DEF Faithful
<1>6. QED
  BY <1>4, <1>5 DEF IsKept

(* The invariant holds at first: the device has a value of the range.      *)
LEMMA SettingInvInit == Faithful /\ Init => SettingInv
<1> SUFFICES ASSUME Faithful, Init PROVE SettingInv
  OBVIOUS
<1>1. subject \in Subjects
  BY DEF Init
<1>2. PICK k \in RequestsOf(subject.control) : stored = Exactly(subject, k)
  BY DEF Init, Requests, control
<1>3. Carries(subject.version, subject.control, Exactly(subject, k), k)
  BY <1>1, SubjectsAre, RequestsAreKept, ExactlyCarries DEF Faithful
<1>4. frame = NoFrame
  BY DEF Init
<1>5. QED
  BY <1>1, <1>2, <1>3, <1>4 DEF SettingInv, Legible

(* Every step keeps it: requests and changes leave legible bytes, a frame  *)
(* carries what the device had.                                            *)
LEMMA SettingInvNext == Faithful /\ SettingInv /\ [Next]_vars => SettingInv'
<1> SUFFICES ASSUME Faithful, SettingInv, [Next]_vars PROVE SettingInv'
  OBVIOUS
<1> USE DEF SettingInv
<1>1. ASSUME NEW k \in Requests, NEW heard \in BOOLEAN, Request(k, heard)
      PROVE  SettingInv'
  <2>1. subject' = subject /\ frame' = frame /\ stored' \in {stored, Written(subject, k)}
    BY <1>1 DEF Request
  <2>2. k \in RequestsOf(subject.control) /\ subject.control.address # NoRegister
    BY <1>1 DEF Request, Requests, control
  <2>3. Legible(subject, Written(subject, k))
    <3>1. Carries(subject.version, subject.control, Written(subject, k), k)
      BY <2>2, SubjectsAre, RequestsAreKept, WrittenCarries DEF Faithful
    <3>2. QED
      BY <2>2, <3>1 DEF Legible
  <2>4. QED
    BY <2>1, <2>3
<1>2. ASSUME NEW k \in Requests, DeviceChanges(k)  PROVE SettingInv'
  <2>1. subject' = subject /\ frame' = frame /\ stored' = Exactly(subject, k)
    BY <1>2 DEF DeviceChanges
  <2>2. k \in RequestsOf(subject.control)
    BY DEF Requests, control
  <2>3. Legible(subject, Exactly(subject, k))
    <3>1. Carries(subject.version, subject.control, Exactly(subject, k), k)
      BY <2>2, SubjectsAre, RequestsAreKept, ExactlyCarries DEF Faithful
    <3>2. QED
      BY <2>2, <3>1 DEF Legible
  <2>4. QED
    BY <2>1, <2>3
<1>3. CASE AskForFrame
  BY <1>3 DEF AskForFrame
<1>4. CASE SendFrame
  BY <1>4 DEF SendFrame
<1>5. CASE LoseFrame
  BY <1>5 DEF LoseFrame
<1>6. ASSUME NEW swallowed \in BOOLEAN, Decode(swallowed)  PROVE SettingInv'
  BY <1>6 DEF Decode
<1>7. CASE UNCHANGED vars
  BY <1>7 DEF vars
<1>8. QED
  BY <1>1, <1>2, <1>3, <1>4, <1>5, <1>6, <1>7 DEF Next

(* What a legible content means, and what is shown of it, is one of the    *)
(* values the control can be asked for.                                    *)
LEMMA LegibleMeans ==
  ASSUME Faithful, NEW s \in Subjects, NEW content, Legible(s, content)
  PROVE  /\ Meaning(s.control, content) \in Settings
         /\ Meaning(s.control, content) # Unknown
         /\ IsPublished(s) => PublishedValue(s, content) = Meaning(s.control, content)
<1>1. PICK k \in RequestsOf(s.control) : Carries(s.version, s.control, content, k)
  BY DEF Legible
<1>2. k \in Int /\ s.control.min <= k /\ k <= s.control.max
  BY RequestsAreKept DEF IsKept
<1>3. /\ Meaning(s.control, content) = <<k, s.control.factor>>
      /\ IsPublished(s) => PublishedValue(s, content) = <<k, s.control.factor>>
  BY <1>1, <1>2, SubjectsAre, CarriedIsRead DEF Faithful
<1>4. <<k, s.control.factor>> \in Settings
  BY <1>1 DEF Settings
<1>5. <<k, s.control.factor>> # Unknown
  BY DEF Unknown
<1>6. QED
  BY <1>3, <1>4, <1>5

(* What was asked for and what a report shows is what the device has or    *)
(* had, to the byte, whatever the control, the version and the values: a   *)
(* request in its version's encoding, each report through the decoder of   *)
(* its frame.  Faithful leaves out smart_sleep_voltage, the V2's           *)
(* nominal_battery_capacity and the values a float lies just below.        *)
THEOREM EveryControlKeepsItsSetting == ASSUME Faithful PROVE Spec => KeepsSetting
<1> USE DEF Setting!vars, control
<1>1. Init => Setting!Init
  <2> SUFFICES ASSUME Init PROVE Setting!Init
    OBVIOUS
  <2>1. subject \in Subjects /\ Legible(subject, stored)
    BY SettingInvInit DEF SettingInv
  <2>2. Meaning(control, stored) \in Settings
    BY <2>1, LegibleMeans
  <2>3. QED
    BY <2>2 DEF Init, Setting!Init
<1>2. SettingInv /\ SettingInv' /\ [Next]_vars => [Setting!Next]_Setting!vars
  <2> SUFFICES ASSUME SettingInv, SettingInv', [Next]_vars
               PROVE  [Setting!Next]_Setting!vars
    OBVIOUS
  <2>1. /\ subject \in Subjects /\ Legible(subject, stored)
        /\ frame = NoFrame \/ Legible(subject, frame)
    BY DEF SettingInv
  <2>2. ASSUME NEW k \in Requests, NEW heard \in BOOLEAN, Request(k, heard)
        PROVE  Setting!Ask
    <3>1. /\ subject' = subject /\ frame' = frame /\ shown' = <<k, control.factor>>
          /\ stored' \in {stored, Written(subject, k)}
      BY <2>2 DEF Request
    <3>2. k \in RequestsOf(subject.control) /\ subject.control.address # NoRegister
      BY <2>2 DEF Request, Requests
    <3>3. Meaning(control, Written(subject, k)) = <<k, control.factor>>
      <4>1. Carries(subject.version, subject.control, Written(subject, k), k)
        BY <2>1, <3>2, SubjectsAre, RequestsAreKept, WrittenCarries DEF Faithful
      <4>2. k \in Int /\ subject.control.min <= k /\ k <= subject.control.max
        BY <2>1, <3>2, RequestsAreKept DEF IsKept
      <4>3. QED
        BY <2>1, <4>1, <4>2, SubjectsAre, CarriedIsRead DEF Faithful
    <3>4. <<k, control.factor>> \in Settings
      BY <2>1, <3>2 DEF Settings
    <3>5. QED
      BY <3>1, <3>3, <3>4, Zenon DEF Setting!Ask
  <2>3. ASSUME NEW k \in Requests, DeviceChanges(k)  PROVE Setting!DeviceChanges
    <3>1. subject' = subject /\ frame' = frame /\ shown' = shown
      BY <2>3 DEF DeviceChanges
    <3>2. Meaning(control', stored') \in Settings
      <4>1. subject' \in Subjects /\ Legible(subject', stored')
        BY DEF SettingInv
      <4>2. QED
        BY <4>1, LegibleMeans
    <3>3. QED
      BY <3>1, <3>2 DEF Setting!DeviceChanges
  <2>4. CASE SendFrame
    <3>1. /\ subject' = subject /\ stored' = stored /\ shown' = shown
          /\ frame = NoFrame /\ frame' = stored
      BY <2>4 DEF SendFrame
    <3>2. Setting!Report
      BY <3>1 DEF Setting!Report
    <3>3. QED
      BY <3>2 DEF Setting!Next
  <2>5. CASE LoseFrame
    <3>1. subject' = subject /\ stored' = stored /\ shown' = shown /\ frame' = NoFrame
      BY <2>5 DEF LoseFrame
    <3>2. Setting!ReportLost
      BY <3>1 DEF Setting!ReportLost
    <3>3. QED
      BY <3>2 DEF Setting!Next
  <2>6. ASSUME NEW swallowed \in BOOLEAN, Decode(swallowed)
        PROVE  [Setting!Next]_Setting!vars
    <3>1. /\ subject' = subject /\ stored' = stored
          /\ frame # NoFrame /\ frame' = NoFrame
          /\ shown' = IF IsPublished(subject) /\ ~swallowed
                       THEN PublishedValue(subject, frame) ELSE shown
      BY <2>6 DEF Decode
    <3>2. CASE IsPublished(subject)
      <4>1. Legible(subject, frame)
        BY <2>1, <3>1
      <4>2. /\ Meaning(control, frame) # Unknown
            /\ PublishedValue(subject, frame) = Meaning(control, frame)
        BY <2>1, <3>2, <4>1, LegibleMeans
      <4>3. Setting!ReportArrives
        BY <3>1, <3>2, <4>2 DEF Setting!ReportArrives
      <4>4. QED
        BY <4>3 DEF Setting!Next
    <3>3. CASE ~IsPublished(subject)
      BY <3>1, <3>3
    <3>4. QED
      BY <3>2, <3>3
  <2>7. CASE AskForFrame
    BY <2>7 DEF AskForFrame
  <2>8. CASE UNCHANGED vars
    BY <2>8 DEF vars
  <2>9. QED
    BY <2>2, <2>3, <2>4, <2>5, <2>6, <2>7, <2>8 DEF Next, Setting!Next
<1>3. QED
  BY <1>1, <1>2, SettingInvInit, SettingInvNext, PTL DEF Spec, KeepsSetting, Setting!Safety

=============================================================================
