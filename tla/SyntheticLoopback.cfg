SPECIFICATION Spec
CONSTANTS
    Scale = 60
    MinEmitted = 5
    MinDetected = 4
    Pulses = 5
    Interval = 5
    Settle = 12
    Tone = 4
    Cooldown = 2
    MaxLatency = 10
    Delays <- MCDelays
    Rtts <- MCRtts
    MaxNoise = 1
    Levels <- DecibelsOrMagnitude
    Silence <- MCSilence
    Null = Null
    Lost = Lost
INVARIANTS
    PairsInOrder
    PassIsMeasured
PROPERTY
    RunEnds
CHECK_DEADLOCK FALSE
