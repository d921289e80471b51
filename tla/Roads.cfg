\* Nine junction networks; four route networks of six lanes, every destination, two
\* tables after one another.
SPECIFICATION RoadsSpec
CONSTANTS
    Nets <- MCNets
    Need = 2
    MaxLaneHops = 6
    StrandAfter = 10
    MaxInterval = 2
    MaxLag = 1
    MaxDawdles = 2
    NumLanes = 6
    Dests <- MCDests
    RouteNets <- MCRouteNets
    Epochs <- MCEpochs
    MarginFloor = 3
    MarginShare = 15
    Beside <- MCBeside
    ExitLanes <- MCExits
INVARIANTS
    SafeBox NoCrossOverlap MinimalEscape
    SearchIsExact EveryChainArrives GradientLeadsHome
PROPERTIES
    EveryoneLeaves StaysOnRoute
CHECK_DEADLOCK FALSE
