\* One warm worker for two tools: three calls, and one worker that crashes, is refreshed or prompts.
SPECIFICATION FairSpec
CONSTANTS
    c1 = c1
    c2 = c2
    c3 = c3
    ask = ask
    fetch = fetch
    None = None
    Calls = {c1, c2, c3}
    Tools = {ask, fetch}
    ToolOf <- TwoAndOne
    MaxWarm = 1
    MaxUpsets = 1
INVARIANTS MapsAgree WarmBounded PooledCountAccurate NoOrphanUnrefreshed
PROPERTIES EveryCallEnds
CHECK_DEADLOCK FALSE
