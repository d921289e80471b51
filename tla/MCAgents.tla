------------------------------ MODULE MCAgents ------------------------------
(***************************************************************************)
(* The agents that drive a run from outside it: the default driver, the    *)
(* signal controller and the demand director.  They share no state, so a   *)
(* run checks them side by side: a behaviour is a behaviour of one of      *)
(* them, the other two at their initial states.                            *)
(***************************************************************************)
EXTENDS Driver, SignalAgent, DemandQueue

\* Two replicas race for one vehicle; one replica routes two.
MCPopulations == {[drivers |-> {1, 2}, fleet |-> {1}], [drivers |-> {1}, fleet |-> {1, 2}]}
MCSuccessors == 1 :> {2, 4} @@ 2 :> {3} @@ 3 :> {} @@ 4 :> {}
MCDraws == 1 :> <<1, 0>> @@ 2 :> <<0, 1>>

\* Green east, amber east, green north, amber north.
MCProgram == {"J"}
MCLink == {"e", "n"}
MCPhaseOnset == [p \in MCProgram |-> <<0, 3, 5, 8, 10>>]
MCOffset == [p \in MCProgram |-> 1]
MCClearance == [p \in MCProgram |-> 0]
MCLight == [p \in MCProgram |->
  0 :> ("e" :> "green" @@ "n" :> "red") @@ 1 :> ("e" :> "amber" @@ "n" :> "red") @@
  2 :> ("e" :> "red" @@ "n" :> "green") @@ 3 :> ("e" :> "red" @@ "n" :> "amber")]
MCRequestId == 0..16

\* A flow of two arrivals, and one whose origin the kernel does not know.
MCArrivals == [main |-> <<1, 2>>, ghost |-> <<1>>]

VARIABLE agent   \* the agent the behaviour is about

AgentsInit ==
  /\ agent \in {"driver", "controller", "director"}
  /\ DriverInit /\ JunctionInit /\ DemandInit
  /\ agent # "driver" => booting = {1}

AgentsNext ==
  /\ UNCHANGED agent
  /\ \/ agent = "driver" /\ DriverNext /\ UNCHANGED <<junctionVars, demandVars>>
     \/ agent = "controller" /\ JunctionNext /\ UNCHANGED <<driverVars, demandVars>>
     \/ agent = "director" /\ DemandNext /\ UNCHANGED <<driverVars, junctionVars>>

AgentsSpec == AgentsInit /\ [][AgentsNext]_<<agent, driverVars, junctionVars, demandVars>>
=============================================================================
