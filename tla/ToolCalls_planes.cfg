SPECIFICATION FairSpec
CONSTANTS
    read = read
    write = write
    run = run
    Calls = {read, write, run}
    Sensitive = {write, run}
    Planes = {p1, p2}
    Nobody = Nobody
INVARIANTS
    RowsAgree
    OneConsentOneDispatch
    RefusedNeverRuns
PROPERTIES
    ImplementsOneShotConsent
    EveryCallSettles
