\* The demo user, an address that is refused and the provider's, which can also
\* be typed and registered; another tab acts once.
CONSTANTS
    Emails = {demo, taken, provider}
    None = None
    Demo = demo
    Provider = provider
    Taken = {taken}
    MaxCalls = 3
    MaxActs = 5
    MaxOthers = 1
SPECIFICATION FairSpec
INVARIANTS TypeOK StepsFollowUser CodeIsVerified GuardDecides
PROPERTIES LeftAlone TicketsBuySessions WaitsEnd
CHECK_DEADLOCK FALSE
