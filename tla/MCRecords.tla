----------------------------- MODULE MCRecords ------------------------------
(***************************************************************************)
(* What a run leaves behind: the recording that the player reproduces, and *)
(* the metrics.  The two share no state, so a run checks them side by      *)
(* side: a behaviour is a behaviour of one of them, the other at an        *)
(* initial state.                                                          *)
(***************************************************************************)
EXTENDS Player, Metrics

CONSTANT Parts   \* those the run is about: "recording", "metrics"

MCInputs == {<<>>, <<"a", "b">>}

\* A street that meets a junction: the junction's short lane has the highest
\* index, as netimport orders it, so that vehicles are seen past its end.
MCLaneOrder == <<"in", "out", "beside", "side", "box", "turn">>
MCLaneLen == [in |-> 4, out |-> 2, beside |-> 2, side |-> 3, box |-> 1, turn |-> 1]
MCLaneNext == [in |-> <<"turn", "box">>, out |-> << >>, beside |-> << >>, side |-> << >>,
               box |-> <<"out">>, turn |-> <<"side">>]
MCSideways == [in |-> "none", out |-> "beside", beside |-> "out", side |-> "none",
               box |-> "none", turn |-> "none"]
MCRoute == [side |-> [in |-> "turn", turn |-> "side", box |-> "out"]]
MCGardens == {<<"in", 1>>}
\* A place so near a lane's end that the first tick leads out of the lane.
MCCorner == {<<"in", 3>>}
MCSets == [whole |-> [begin |-> 0, period |-> 2, last |-> 0],
           window |-> [begin |-> 1, period |-> 2, last |-> 2]]

VARIABLE part

RecordsInit ==
  /\ part \in Parts
  /\ Init /\ MetricsInit
  /\ part # "recording" => start = 0
  /\ part # "metrics" => \A o \in OriginLanes : pend[o].due = 1

RecordsNext ==
  /\ UNCHANGED part
  /\ \/ part = "recording" /\ Next /\ UNCHANGED metricVars
     \/ part = "metrics" /\ MetricsNext /\ UNCHANGED vars

RecordsSpec == RecordsInit /\ [][RecordsNext]_<<part, vars, metricVars>>
=============================================================================
