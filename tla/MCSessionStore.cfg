SPECIFICATION Spec
CONSTANTS
    Handlers = {h1}
    Natives = {n1, n2}
    Drain = drain
    Pump = pump
    Starter = starter
    ChanCap = 2
    MaxOutput = 2
    MaxCommands = 1
SYMMETRY Symmetry
INVARIANTS
    StoreCatchesUp
    RowsExist
    
CHECK_DEADLOCK FALSE
