SPECIFICATION IrqFairSpec
CONSTANTS
    IRQs = {0, 1, 4}
    MaxTick = 1
INVARIANTS NoSelfDeadlock DeliveredToGate
PROPERTY KeyAnswered
