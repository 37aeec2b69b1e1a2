SPECIFICATION Spec
CONSTANTS
    Packets = 1
    SnMod = 4
    MaxTries = 3
    MaxFaults = 1
    Flawed = {"slave"}
PROPERTIES ImplementsPairUpdate SlaveLeaves
CHECK_DEADLOCK FALSE
