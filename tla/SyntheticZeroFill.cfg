SPECIFICATION Spec
CONSTANTS
    Scale = 60
    MinEmitted = 5
    MinDetected = 4
    Pulses = 5
    Interval = 5
    Settle = 12
    Tone = 4
    Cooldown = 2
    MaxLatency = 10
    Delays <- MCDelays
    Rtts <- MCRtts
    MaxNoise = 0
    Levels <- Decibels
    Silence <- MCSilence
    Null = Null
    Lost = Lost
INVARIANT MissingIsUnavailable
CHECK_DEADLOCK FALSE
