SPECIFICATION Spec
CONSTANTS
    Flows = {f1, f2}
    None = None
    CloseGrace = 0
    AcceptWindow = 3
    LastStart = 3
    EndOfTime = 5
SYMMETRY FlowSymmetry
INVARIANT LateSuccessAccepted
CHECK_DEADLOCK FALSE
