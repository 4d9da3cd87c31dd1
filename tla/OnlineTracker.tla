--------------------------- MODULE OnlineTracker ---------------------------
(***************************************************************************)
(* The no-response counter every driver of the repository carries:         *)
(* track_online_status_ runs once per poll, reset_online_status_tracker_   *)
(* once per decoded frame.  The drivers differ in MAX_NO_RESPONSE_COUNT    *)
(* only (10 for the two BLE drivers, 5 for the two UART drivers).          *)
(***************************************************************************)
EXTENDS Naturals

CONSTANT MaxNoResponse  \* MAX_NO_RESPONSE_COUNT

ASSUME MaxNoResponseAssumption == MaxNoResponse \in Nat \ {0}

(***************************************************************************)
(* track_online_status_ counts the poll, and the poll that reaches the     *)
(* limit pushes the counter once more, so that the test on equality fails  *)
(* on every later poll of the same outage.                                 *)
(***************************************************************************)
Counted(n) == IF n < MaxNoResponse THEN n + 1 ELSE n

(* Fault: the test with >= instead of ==. *)
ExpiresOnEveryPoll(n) == Counted(n) >= MaxNoResponse

Expires(n) == Counted(n) = MaxNoResponse

Tracked(n) == IF Expires(n) THEN Counted(n) + 1 ELSE Counted(n)

(***************************************************************************)
(* Every value the counter can rest at.                                    *)
(***************************************************************************)
RestingCounts == (0 .. MaxNoResponse - 1) \cup {MaxNoResponse + 1}

=============================================================================
