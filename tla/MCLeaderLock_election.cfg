\* Any command may be lost, renewals may be later than the lease, replicas stop and crash.
CONSTANTS
    Instances = {g1, g2}
    NoOwner = NoOwner
    Ghost = Ghost
    TTL = 3
    RenewEvery = 1
    MaxDelay = 3
    Faults = {"acquire", "renew", "release", "late", "crash", "restart", "shutdown", "exit"}
SPECIFICATION FairSpec
CHECK_DEADLOCK FALSE
INVARIANTS TypeOK LeadsOnLease
PROPERTIES AlwaysALeader OwnLeaseOnly
