SPECIFICATION Spec
CONSTANTS
    MinCwnd = 1
    InitCwnd = 2
    SndBuf = 3
    Bandwidths = {1}
    Rtts = {1, 2}
    Extras = {0}
    WinSize = 1
    ProbeTime = 1
    MaxHeld = 1
PROPERTIES
    WindowRestored
    ProbeRttEnds
