---------------------------- MODULE MCSupervisor ----------------------------
(***************************************************************************)
(* Small sets of calls for Supervisor: a demo, a recording and autostart,  *)
(* against a stop and the final shutdown.                                  *)
(***************************************************************************)
EXTENDS Supervisor

CONSTANTS demo, rec, auto, stop, final

DemoAndRecording == {demo, rec}
ThreeStarts == {demo, rec, auto}
TwoStops == {stop, final}
NoOp == {}
AutoCalls == {auto}
Recordings == {rec}
FinalCalls == {final}
=============================================================================
