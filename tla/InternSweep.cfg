SPECIFICATION FairSpec
CONSTANTS
    Threads = {t1, t2}
    Addresses = {e0, a1, a2}
    EmptySet = e0
    Ids = {1, 2}
    Fingerprints = {"p"}
    Fingerprint <- Colliding
    Interval = 1
    MaxInserts = 1
INVARIANT OneArcPerValue
INVARIANT MemoSound
PROPERTY GateReopens
