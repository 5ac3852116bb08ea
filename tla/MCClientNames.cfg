\* Clients seen at once, while the queue holds one.
CONSTANTS
    Client = {1, 2, 3}
    V6 = {3}
    VlanOf <- MCVlanOf
    Settings <- MCSettings
    Routed = {}
    HasV4 = {"lan"}
    DefaultRoute = FALSE
    QueueSize = 1
    MaxSaves = 1
SPECIFICATION FairSpec
PROPERTY DroppedIsNamed
CHECK_DEADLOCK FALSE
