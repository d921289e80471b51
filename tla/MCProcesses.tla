---------------------------- MODULE MCProcesses -----------------------------
(***************************************************************************)
(* The processes around a run and what they leave on disk: the demo        *)
(* server's supervisor, the serve command and the state files.  They share *)
(* no state, so a run checks them side by side: a behaviour is a behaviour *)
(* of one of them, the other two at an initial state.                      *)
(***************************************************************************)
EXTENDS MCSupervisor, Serve, WarmStart

MCFreeFlow == [fork |-> 1, fast |-> 1, slow |-> 1]

VARIABLE part

ProcessesInit ==
  /\ part \in {"supervisor", "serve", "state files"}
  /\ Init /\ ServeInit /\ WarmInit
  /\ part # "state files" => ~adaptive /\ types = "cars"

ProcessesNext ==
  /\ UNCHANGED part
  /\ \/ part = "supervisor" /\ Next /\ UNCHANGED <<serveVars, warmVars>>
     \/ part = "serve" /\ ServeNext /\ UNCHANGED <<vars, warmVars>>
     \/ part = "state files" /\ WarmNext /\ UNCHANGED <<vars, serveVars>>

ProcessesSpec == ProcessesInit /\ [][ProcessesNext]_<<part, vars, serveVars, warmVars>>
=============================================================================
