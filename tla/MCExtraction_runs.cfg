SPECIFICATION FairSpec
CONSTANTS
    r1 = r1
    r2 = r2
    r3 = r3
    Runs = {r1, r2, r3}
    None = None
    Packets <- ThreeFiles
    Durations <- ThreeDurations
    Interval = 2
INVARIANTS TypeOK HundredIsFinal ResultsAreWhole OnlyOvertakenSurviveReset ResultOnItsWay
PROPERTIES OnlyTheFileGoesBack NothingAfterResult RunsEnd
CHECK_DEADLOCK FALSE
