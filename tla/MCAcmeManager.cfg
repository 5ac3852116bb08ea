\* Environment and domain changes, lost writes, failing loads and a process stop
\* anywhere, with certificates that fall due while they are installed.
CONSTANTS
    staging = staging  production = production  home = home  other = other
    Domain = {home, other}
    CA = {staging, production}
    Configs <- Rollout
    Lifetime = 1
    BootLifetime = 1
    RenewBefore = 1
    MaxClock = 1
    MaxEdits = 2
    MaxFaults = 1
    MaxCrashes = 1
SPECIFICATION FairSpec
INVARIANTS TypeOK CacheTruth NotReissuedEarly FilesAgree
PROPERTY Converges
\* Without a Manager nothing happens once the operator is done.
CHECK_DEADLOCK FALSE
