------------------------------ MODULE Setting ------------------------------
(***************************************************************************)
(* What an optimistic control promises about one setting of a device.  It  *)
(* shows nothing at first, what the user asked for from the request on,    *)
(* and what the device had when it made a report once this report arrives. *)
(* A request reaches the device as it was made, or not at all; reports and *)
(* requests are not synchronised, so a report may show what was before.    *)
(***************************************************************************)
CONSTANTS
  Values,   \* what the setting can be
  Nothing   \* not a value

VARIABLES
  device,  \* the value the device has
  shown,   \* the value the control shows, or Nothing
  report   \* the report of the device that is under way, or Nothing

vars == <<device, shown, report>>

Init == device \in Values /\ shown = Nothing /\ report = Nothing

Ask ==
  /\ shown' \in Values
  /\ device' \in {device, shown'}
  /\ UNCHANGED report

DeviceChanges == device' \in Values /\ UNCHANGED <<shown, report>>

Report == report' \in {device, Nothing} /\ UNCHANGED <<device, shown>>

ReportArrives ==
  /\ report # Nothing
  /\ shown' \in {shown, report}
  /\ report' = Nothing
  /\ UNCHANGED device

ReportLost == report' = Nothing /\ UNCHANGED <<device, shown>>

Next ==
  \/ Ask
  \/ DeviceChanges
  \/ Report
  \/ ReportArrives
  \/ ReportLost

Safety == Init /\ [][Next]_vars

=============================================================================
