\* Two saves while a registration is under way.
CONSTANTS
    Listener = {"plain", "dot"}
    Port = {53}
    MaxSaves = 2
    MaxFails = 1
SPECIFICATION Spec
INVARIANTS SettledIsWanted
CHECK_DEADLOCK FALSE
