\* Four calls on two e-mails, two providers and two ids of their users; five connections, two
\* attempts each; the strategy gives up after three retries instead of ten.
CONSTANTS
    Calls = {c1, c2, c3, c4}
    Emails = {e1, e2}
    Providers = {google, github}
    ProviderIds = {g1, g2}
    None = None
    MaxConnections = 5
    RetryAttempts = 2
    MaxRetries = 3
SPECIFICATION StoresSpec
SYMMETRY StoresSymmetry
INVARIANTS StoresTypeOK NoOrphanUsers ClientsAccounted
PROPERTY AccountStoreSpec
CHECK_DEADLOCK FALSE
