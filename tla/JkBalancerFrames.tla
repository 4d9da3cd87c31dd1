-------------------------- MODULE JkBalancerFrames --------------------------
(***************************************************************************)
(* The status frame of a JK balancer on its serial line, as                *)
(* on_status_data_ of jk_balancer reads it.                                *)
(***************************************************************************)
EXTENDS Fields, TLC

FrameSize == 74

MaxCells == 24

Cells(configured) == IF configured < MaxCells THEN configured ELSE MaxCells

cell_voltage(i) == Value(23 + 2 * i, 2, {"cell_voltage_" \o ToString(i + 1)})

cell_voltages(configured) == {cell_voltage(i) : i \in 0 .. Cells(configured) - 1}

status_measurements ==
  { Value(4, 2, {"total_voltage"}),
    Value(6, 2, {"average_cell_voltage"}),
    Value(8, 1, {"cell_count_detected"}),
    Value(11, 1, {"balancer_status", "balancing_binary"}),
    Value(12, 1, {"errors_bitmask", "errors_text"}),
    Value(15, 2, {"balancing_current"}),
    Field(71, 2, 0, "signed", 10, {"battery_temperature"}) }

status_settings ==
  { Value(17, 2, {"balance_trigger_voltage"}),
    Value(19, 2, {"max_balance_current"}),
    Truth(21, {"balancer_switch"}),
    Value(22, 1, {"cell_count"}) }

Status(configured) == status_measurements \cup status_settings \cup cell_voltages(configured)

=============================================================================
