------------------------------- MODULE Fields -------------------------------
(***************************************************************************)
(* Fields of a frame, the bytes of a setting, and what a decoder reads     *)
(* from them.  The modules with "Frames" in their names list the fields of *)
(* each kind of frame next to the entities they are published to, named    *)
(* after the members of the component without "_sensor" at the end.        *)
(***************************************************************************)
EXTENDS Integers, Sequences, FiniteSets

(***************************************************************************)
(* A field: width bytes from byte at on, or the bit mask of byte at; how a *)
(* number is read from them, and in which fraction of the unit.  A float   *)
(* stands for its thousandths, a truth value for any byte that is not 0.   *)
(* A field that is only logged is read all the same.                       *)
(***************************************************************************)
Field(at, width, mask, kind, scale, shows) ==
  [at |-> at, width |-> width, mask |-> mask, kind |-> kind, scale |-> scale, shows |-> shows]

Value(at, width, shows) == Field(at, width, 0, "unsigned", 1, shows)
Logged(at, width) == Value(at, width, {})
Flag(at, mask, shows) == Field(at, 1, mask, "flag", 1, shows)
Unsigned(at, width, scale, number) == Field(at, width, 0, "unsigned", scale, {number})

(* Fault: a signed number is read as an unsigned one. *)
SignIgnored(at, width, scale, number) == Unsigned(at, width, scale, number)

Signed(at, width, scale, number) == Field(at, width, 0, "signed", scale, {number})

(* Fault: the bytes of a float are taken for an integer. *)
IntegerForFloat(at, number) == Unsigned(at, 4, 1000, number)

Float(at, number) == Field(at, 4, 0, "float", 1000, {number})
Truth(at, shows) == Field(at, 1, 0, "truth", 1, shows)

Published(fields) == UNION {f.shows : f \in fields}
Covers(f, byte) == f.at <= byte /\ byte < f.at + f.width

(* Two fields may share a byte as different bits of it. *)
Compatible(f, g) == f = g \/ (f.mask # g.mask /\ f.mask # 0 /\ g.mask # 0)

-----------------------------------------------------------------------------
(***************************************************************************)
(* The bytes of a setting: whether they are those of a float, how many of  *)
(* the four there is room for, and the bytes, 0 beyond the room.           *)
(***************************************************************************)
Content(float, width, bytes) == [float |-> float, width |-> width, bytes |-> bytes]

(* The four low bytes of a number in two's complement, the lowest first. *)
Bytes(n) == [i \in 1 .. 4 |-> (n \div 256^(i - 1)) % 256]

(* The first width of four bytes as an unsigned number. *)
Sum4(bytes, width) ==
  LET At(i) == IF i <= width THEN bytes[i] * 256^(i - 1) ELSE 0
  IN At(1) + At(2) + At(3) + At(4)

(* What a decoder makes of the bytes at a field: a fraction, or something  *)
(* no entity should show.                                                  *)
Garbled == <<"garbled">>

Reading(field, content) ==
  LET w == field.width
      top == content.bytes[w]
      low == Sum4(content.bytes, w - 1)
  IN IF (field.kind = "float") # content.float THEN Garbled ELSE
     CASE field.kind = "unsigned" ->
            IF w = 4 /\ top >= 128 THEN Garbled
            ELSE <<low + top * 256^(w - 1), field.scale>>
       [] field.kind \in {"signed", "float"} ->
            <<low + (IF top >= 128 THEN top - 256 ELSE top) * 256^(w - 1), field.scale>>
       [] field.kind \in {"flag", "truth"} ->
            <<IF \E i \in 1 .. w : content.bytes[i] # 0 THEN 1 ELSE 0, 1>>

=============================================================================
