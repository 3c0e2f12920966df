SPECIFICATION FairSpec
CONSTANTS
    Flows = {f1, f2}
    None = None
    CloseGrace = 0
    AcceptWindow = 2
    LastStart = 2
    EndOfTime = 4
INVARIANTS TypeOK OneInterval SpinnerIsWatched AcceptedUnlessOrphaned
PROPERTIES SignInSpec NoSuccessAfterDismissal SpinnerEnds
CHECK_DEADLOCK FALSE
