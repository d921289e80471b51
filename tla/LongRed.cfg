\* A red that outlasts the escape's threshold while the crossing approach is served.
SPECIFICATION KernelSpec
CONSTANTS
    Nets <- MCLongRed
    Need = 2
    MaxLaneHops = 6
    StrandAfter = 10
    MaxInterval = 2
    MaxLag = 1
    MaxDawdles = 0
PROPERTY RedIsNoTrigger
