SPECIFICATION Spec
CONSTANTS
    Resync = 2
    Refresh = 4
    MaxSession = 25
    TTL = 10
    Second = 2
    Plenty = 10
    Useful = 20
    Busy = 1
    Dial = 1
INVARIANT LeaseHeld
