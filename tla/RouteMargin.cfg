SPECIFICATION RoutingSpec
CONSTANTS
    NumLanes = 9
    Dests <- DetourDests
    RouteNets <- DetourNets
    Epochs <- DetourEpochs
    MarginFloor = 30
    MarginShare = 15
    Beside <- MCBeside
    ExitLanes <- MCExits
INVARIANT MarginIsEarned
