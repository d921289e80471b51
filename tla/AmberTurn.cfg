SPECIFICATION KernelSpec
CONSTANTS
    Nets <- MCAmber
    Need = 2
    MaxLaneHops = 6
    StrandAfter = 10
    MaxInterval = 2
    MaxLag = 1
    MaxDawdles = 0
INVARIANTS SafeBox
