SPECIFICATION ShipSpec
CONSTANTS
    NoList = NoList
    Pack <- SomePack
    MaxMuts = 1
    MaxFolds = 1
    MaxShips = 1
    MaxRestarts = 0
INVARIANT
    HalfShippedNotServed
CHECK_DEADLOCK FALSE
