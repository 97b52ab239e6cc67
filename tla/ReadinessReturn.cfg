SPECIFICATION ReadySpec
CONSTANTS
    r1 = r1
    Probes = {r1}
    MaxVer = 2
    MaxObj = 2
    Healthy = {1}
    Failures = {FALSE}
INVARIANTS
    VerdictIsCurrent
