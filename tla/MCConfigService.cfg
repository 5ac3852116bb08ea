\* Two requests, one after the other, and one reload of the ACME manager, with
\* one failure and one restart of the process anywhere in between.
SPECIFICATION FairSpec
CONSTANTS
    Vlans = {v1}
    Hosts = {none, h1}
    NoHosts = none
    Features <- Everything
    Pages <- SomePages
    Admins = {a1}
    MaxRequests = 2
    MaxReloads = 1
    MaxFaults = 1
    MaxRestarts = 1
INVARIANTS
    TypeOK
    DiskRenderable
    AppliedIsServed
    SidecarsFollowDisk
PROPERTIES
    RequestsAnswered
\* Once the bounds are spent nobody asks for anything any more.
CHECK_DEADLOCK FALSE
