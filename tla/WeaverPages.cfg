SPECIFICATION Spec
INVARIANTS TypeOK ActiveCountExact InFlightIsBacked FetchIsCovered NoStuckFetching WorkIsInGraph
CONSTANTS
    a = a  b = b  s = s  t = t  H = H  X = X  NotQueued = NotQueued
    URLs = {a, b}
    Hosts = {H}
    HostOf <- MCHostOf
    Searches <- MCSearches
    Links <- MCLinks
    Mentions <- MCMentions
    Redirect <- MCRedirect
    Disallowed <- MCDisallowed
    RobotsDelay <- ShortDelay
    Workers = {w1, w2}
    Seeds <- MCSeeds
    Confs <- TwoConfs
    DefaultDelay = 1
    HostWait = 1
    ApiDelay = 1
    ApiRetry = 1
    MaxBackoff = 1
    Cooldown = 2
    Timeout = 1
SYMMETRY SlotSymmetry
CHECK_DEADLOCK FALSE
