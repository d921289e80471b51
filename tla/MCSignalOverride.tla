-------------------------- MODULE MCSignalOverride --------------------------
(***************************************************************************)
(* Small programs for SignalOverride.  The link of program "J" sees amber, *)
(* red and then a second red phase, so that holds can start, end and       *)
(* supersede between phases that show the same light.                      *)
(***************************************************************************)
EXTENDS SignalOverride, TLC

CONSTANTS r1, r2, r3, r4, r5

Ids == {r1, r2, r3, r4, r5}
IdSymmetry == Permutations(RequestId)

OneProgram == {"J"}
OneLink == {"l"}

\* Amber 2 ticks, red 1, red 2; offset 1, so the cycle wraps before tick 1.
MCPhaseOnset == [p \in Program |-> <<0, 2, 3, 5>>]
MCOffset     == [p \in Program |-> 1]
MCClearance  == [p \in Program |-> 2]
MCLight      == [p \in Program |-> (0 :> [l \in Link |-> "amber"])
                                  @@ (1 :> [l \in Link |-> "red"])
                                  @@ (2 :> [l \in Link |-> "red"])]
=============================================================================
