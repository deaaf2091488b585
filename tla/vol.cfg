SPECIFICATION VolSpec
CONSTANTS
    Spots <- SomeSpots
    Size = 3
    Warmup = 2
    MinInterval = 3
    Period = 4
    MaxGap = 8
    Staleness = 10
    MaxFailures = 2
    NoOracle = NoOracle
PROPERTIES
    WindowKept
    StaysWarm
