------------------------------ MODULE MCViewer ------------------------------
(* Viewer with a machine that carries a part, sets it down and faults with the  *)
(* guard open, and a recording that begins with a part that is not yet picked. *)
EXTENDS Viewer

Frame(execution, guard, part, actual, target) ==
    [executionState |-> execution, guardClosed |-> guard, activePart |-> part,
     actual |-> actual, target |-> target]

MachineFrames == {Frame("Ready", TRUE, "none", 0, 0),
                  Frame("Running", TRUE, "attached", 2, 2),
                  Frame("Faulted", FALSE, "loose", 2, 0)}

RecordedFrames == {Frame("Running", TRUE, "loose", 0, 1),
                   Frame("Running", TRUE, "attached", 1, 1)}

=============================================================================
