CONSTANTS
    Depth = 4
    Message = {m1, m2}
    NoMessage = none
SPECIFICATION Spec
INVARIANTS TypeOK NoSlotRace GrantHonoured
PROPERTY ImplementsFifo
