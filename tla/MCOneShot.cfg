CONSTANTS
    Inputs <- MCInputs
    Deliveries <- MCDeliveries
    MaxBeats = 1
    MaxSends = 1
    Faults = {"lost", "stall", "reject", "drop"}
    Strays = {2, 12}
    MaxBody = 20
SPECIFICATION FairSpec
INVARIANTS TypeOK HeardAsSaid OkIsStored FramesIntact PanicsAfterCut
PROPERTIES DecodersAgree CallReturns
CHECK_DEADLOCK FALSE
