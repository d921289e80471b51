--------------------------- MODULE Routing_proofs ---------------------------
(***************************************************************************)
(* Every table that RouteTable serves leads each of its lanes to the       *)
(* destination over a search that is exact, and a vehicle that follows     *)
(* those tables stays on its route, on every network and for               *)
(* every freeze of travel times.                                           *)
(*                                                                         *)
(* A lane arrives when the destination is in every closed set around it,   *)
(* so the argument never counts hops.  Two lemmas carry it: a search step  *)
(* leaves the chains of finished lanes alone (SettledChains), and a splice *)
(* whose own chain arrives breaks no other (SpliceKeepsArrivals).  The     *)
(* depth search is treated the same way: what leads home from a lane goes  *)
(* on doing so while more lanes are found (AheadStays).                    *)
(***************************************************************************)
EXTENDS RouteFollowing, TLAPS

\* Where a search stands: the lanes it knows have a hop into the finished
\* lanes, which arrive and whose predecessors are known; nothing else is known.
SearchInv ==
    pc \in {"fresh", "static"} =>
        /\ dest \in DOMAIN dist /\ dist[dest] = 0
        /\ DOMAIN hop = DOMAIN dist \ {dest}
        /\ \A i \in DOMAIN hop : hop[i] \in done
        /\ \A i \in done : Arrives(hop, i)
        /\ \A p \in Lane : net.succ[p] \cap done # {} => p \in DOMAIN dist
        /\ DOMAIN dist \subseteq CanReach

\* Tables from finished searches cover exactly the lanes that can reach the
\* destination, and the static one arrives from each.
TablesInv ==
    /\ pc # "fresh" => DOMAIN fresh = CanReach \ {dest}
    /\ memoized => /\ DOMAIN static = CanReach \ {dest}
                   /\ \A i \in DOMAIN static : Arrives(static, i)
    /\ pc \in {"splice", "served"} => memoized

IInv == TypeOK /\ SearchInv /\ TablesInv /\ EveryChainArrives

-----------------------------------------------------------------------------

\* routeDijkstra: a lane that is done keeps its chain, whatever hops the search
\* still gives to lanes that are not.
LEMMA SettledChains ==
    ASSUME NEW old, NEW new, NEW D \in SUBSET Lane, NEW i \in D, dest \in Lane,
           \A x \in D \ {dest} : x \in DOMAIN old =>
               x \in DOMAIN new /\ new[x] = old[x] /\ old[x] \in D,
           Arrives(old, i)
    PROVE  Arrives(new, i)
<1>1. SUFFICES ASSUME NEW S \in SUBSET Lane, i \in S, Closed(S, new)
               PROVE  dest \in S
  BY DEF Arrives, RoadAhead
<1>2. Closed(S \cap D, old)
  BY <1>1 DEF Closed
<1>3. S \cap D \in SUBSET Lane /\ i \in S \cap D
  BY <1>1
<1>4. dest \in S \cap D
  BY <1>2, <1>3 DEF Arrives, RoadAhead
<1> QED
  BY <1>4

\* A lane whose hop arrives arrives.
LEMMA OneHopBefore ==
    ASSUME NEW table, NEW i \in Lane, i = dest \/ (i \in DOMAIN table /\ Arrives(table, table[i])),
           dest \in Lane
    PROVE  Arrives(table, i)
<1>1. SUFFICES ASSUME NEW S \in SUBSET Lane, i \in S, Closed(S, table)
               PROVE  dest \in S
  BY DEF Arrives, RoadAhead
<1>2. CASE i = dest
  BY <1>1, <1>2
<1>3. CASE i # dest
  <2>1. table[i] \in S
    BY <1>1, <1>3 DEF Closed
  <2> QED
    BY <1>1, <1>3, <2>1 DEF Arrives, RoadAhead
<1> QED
  BY <1>2, <1>3

\* rerouteTable: a splice whose own chain arrives, judged with the candidate
\* installed, keeps every chain that arrived.
LEMMA SpliceKeepsArrivals ==
    ASSUME NEW old, NEW new, NEW c \in Lane, NEW i \in Lane, dest \in Lane,
           DOMAIN new = DOMAIN old \cup {c},
           \A x \in DOMAIN old \ {c} : new[x] = old[x],
           Arrives(new, new[c]), Arrives(old, i)
    PROVE  Arrives(new, i)
<1>1. SUFFICES ASSUME NEW S \in SUBSET Lane, i \in S, Closed(S, new)
               PROVE  dest \in S
  BY DEF Arrives, RoadAhead
<1>2. CASE c \in S /\ c # dest
  <2>1. new[c] \in S
    BY <1>1, <1>2 DEF Closed
  <2> QED
    BY <1>1, <2>1 DEF Arrives, RoadAhead
<1>3. CASE c = dest \/ c \notin S
  <2>1. Closed(S, old)
    BY <1>1, <1>3 DEF Closed
  <2> QED
    BY <1>1, <2>1 DEF Arrives, RoadAhead
<1> QED
  BY <1>2, <1>3

\* A search that has just begun knows the destination only.
LEMMA SearchBegins ==
    ASSUME dest \in Lane, hop = NoHops, dist = [i \in {dest} |-> 0], done = {}
    PROVE  SearchInv
<1>1. DOMAIN hop = {} /\ DOMAIN dist = {dest} /\ dist[dest] = 0
  BY DEF NoHops
<1>2. dest \in CanReach
  BY DEF CanReach
<1> QED
  BY <1>1, <1>2 DEF SearchInv

\* A search whose heap is empty has found the lanes that can reach the
\* destination, and each of them arrives.
LEMMA SearchEnds ==
    ASSUME TypeOK, SearchInv, pc \in {"fresh", "static"}, Frontier = {}
    PROVE  /\ DOMAIN hop = CanReach \ {dest}
           /\ \A i \in DOMAIN hop : Arrives(hop, i)
<1>1. done = DOMAIN dist
  BY DEF Frontier, TypeOK
<1>2. \A p \in Lane : net.succ[p] \cap done # {} => p \in done
  BY <1>1 DEF SearchInv
<1>3. done \in SUBSET Lane /\ dest \in done
  BY <1>1 DEF SearchInv, TypeOK
<1>4. CanReach \subseteq done
  BY <1>2, <1>3 DEF CanReach
<1>5. DOMAIN hop = CanReach \ {dest}
  BY <1>1, <1>4 DEF SearchInv
<1>6. \A i \in DOMAIN hop : i \in done
  BY <1>1 DEF SearchInv
<1> QED
  BY <1>5, <1>6 DEF SearchInv

-----------------------------------------------------------------------------

\* The constants' types, as the proofs use them.
LEMMA NetTypes ==
    ASSUME NEW n \in RouteNets
    PROVE  /\ n.succ \in [Lane -> SUBSET Lane]
           /\ n.free \in [Lane -> Nat \ {0}]
           /\ Epochs(n) \subseteq Times
BY NetsAssumption DEF Times

\* The initial states satisfy the invariant.
LEMMA InitIInv == Init => IInv
<1>1. SUFFICES ASSUME Init PROVE IInv
  OBVIOUS
<1>2. dest \in Lane
  BY <1>1, LanesAssumption DEF Init
<1>3. TypeOK
  <2>1. now \in Times
    BY <1>1, NetTypes DEF Init
  <2>2. IsTable(NoHops)
    BY DEF IsTable, NoHops
  <2>3. cand \in 1..(NumLanes + 1)
    BY <1>1, LanesAssumption DEF Init
  <2>4. DOMAIN dist \subseteq Lane /\ dist \in [DOMAIN dist -> Nat] /\ done \subseteq DOMAIN dist
    BY <1>1, <1>2 DEF Init
  <2> QED
    BY <1>1, <1>2, <2>1, <2>2, <2>3, <2>4 DEF Init, TypeOK
<1>4. SearchInv
  BY <1>1, <1>2, SearchBegins DEF Init
<1>5. TablesInv /\ EveryChainArrives
  BY <1>1 DEF Init, TablesInv, EveryChainArrives
<1> QED
  BY <1>3, <1>4, <1>5 DEF IInv

\* Setting one value keeps a table a table.
LEMMA SettingTable ==
    ASSUME NEW f, IsTable(f), NEW S \in SUBSET Lane, NEW v \in Lane
    PROVE  IsTable(Setting(f, S, v))
BY DEF IsTable, Setting

\* A pop finishes the nearest lane and hands it to its predecessors.
LEMMA PopKeepsSearch ==
    ASSUME IInv, NEW u \in Lane, Pop(u)
    PROVE  SearchInv'
<1> DEFINE N == Nearer(u)
<1>1. dest' = dest /\ net' = net /\ pc' = pc /\ CanReach' = CanReach
  BY DEF Pop, CanReach
<1>2. /\ u \in DOMAIN dist /\ u \notin done
      /\ DOMAIN dist \subseteq Lane /\ dist \in [DOMAIN dist -> Nat]
      /\ done \in SUBSET Lane /\ dest \in Lane
      /\ net.succ \in [Lane -> SUBSET Lane]
  BY NetTypes DEF Pop, Nearest, Frontier, IInv, TypeOK
<1>3. /\ pc \in {"fresh", "static"}
      /\ dest \in DOMAIN dist /\ dist[dest] = 0
      /\ DOMAIN hop = DOMAIN dist \ {dest}
      /\ \A i \in DOMAIN hop : hop[i] \in done
      /\ \A i \in done : Arrives(hop, i)
      /\ \A p \in Lane : net.succ[p] \cap done # {} => p \in DOMAIN dist
      /\ DOMAIN dist \subseteq CanReach
  BY DEF Pop, IInv, SearchInv
<1>4. Through(u) \in Nat
  <2>1. Weight(u) \in Nat
    BY NetTypes DEF Weight, IInv, TypeOK, Times
  <2> QED
    BY <1>2, <2>1 DEF Through
<1>5. /\ N \subseteq Lane \ (done \cup {u})
      /\ \A p \in N : u \in net.succ[p]
      /\ \A p \in Lane \ (done \cup {u}) : u \in net.succ[p] => p \in DOMAIN dist \cup N
      /\ dest \notin N
  BY <1>3, <1>4 DEF Nearer
<1>6. /\ done' = done \cup {u}
      /\ DOMAIN dist' = N \cup DOMAIN dist /\ DOMAIN hop' = N \cup DOMAIN hop
      /\ \A p \in DOMAIN dist \ N : dist'[p] = dist[p]
      /\ \A p \in DOMAIN hop \ N : hop'[p] = hop[p]
      /\ \A p \in N : hop'[p] = u
  BY DEF Pop, Setting
<1>7. \A i \in DOMAIN hop' : hop'[i] \in done'
  BY <1>3, <1>6
<1>8. \A i \in done' : Arrives(hop', i)
  <2>1. \A i \in done : Arrives(hop', i)
    <3>1. ASSUME NEW x \in done \ {dest}, x \in DOMAIN hop
          PROVE  x \in DOMAIN hop' /\ hop'[x] = hop[x] /\ hop[x] \in done
      BY <1>3, <1>5, <1>6, <3>1
    <3> QED
      BY <1>2, <1>3, <3>1, SettledChains
  <2>2. Arrives(hop', u)
    <3>1. u # dest => u \in DOMAIN hop' /\ hop'[u] \in done
      BY <1>2, <1>3, <1>5, <1>6
    <3> QED
      BY <1>2, <2>1, <3>1, OneHopBefore
  <2> QED
    BY <1>6, <2>1, <2>2
<1>9. ASSUME NEW p \in Lane, net.succ[p] \cap done' # {}
      PROVE  p \in DOMAIN dist'
  <2>1. CASE net.succ[p] \cap done # {}
    BY <1>3, <1>6, <2>1
  <2>2. CASE u \in net.succ[p]
    <3>1. p \in done \cup {u} => p \in DOMAIN dist
      BY <1>2 DEF IInv, TypeOK
    <3> QED
      BY <1>5, <1>6, <2>2, <3>1
  <2> QED
    BY <1>1, <1>6, <1>9, <2>1, <2>2
<1>10. DOMAIN dist' \subseteq CanReach
  <2>1. ASSUME NEW p \in N PROVE p \in CanReach
    <3>1. u \in CanReach /\ u \in net.succ[p] /\ p \in Lane
      BY <1>2, <1>3, <1>5
    <3> QED
      BY <3>1 DEF CanReach
  <2> QED
    BY <1>3, <1>6, <2>1
<1>11. \A i \in done' : (Arrives(hop, i))'
  BY <1>1, <1>8 DEF Arrives, RoadAhead, Closed
<1>12. dest \in DOMAIN dist' /\ dist'[dest] = 0 /\ DOMAIN hop' = DOMAIN dist' \ {dest}
  BY <1>3, <1>5, <1>6
<1> QED
  BY <1>1, <1>7, <1>9, <1>10, <1>11, <1>12 DEF SearchInv

\* The lanes that can reach the destination depend on the network alone.
LEMMA CanReachStays ==
    ASSUME net' = net, dest' = dest
    PROVE  CanReach' = CanReach
BY DEF CanReach

\* The invariant survives a pop.
LEMMA PopIInv == ASSUME IInv, NEW u \in Lane, Pop(u) PROVE IInv'
<1>1. SearchInv'
  BY PopKeepsSearch
<1>2. TypeOK'
  <2>1. u \in DOMAIN dist /\ Nearer(u) \in SUBSET Lane
    BY DEF Pop, Nearest, Frontier, Nearer
  <2>2. Through(u) \in Nat
    BY <2>1, NetTypes DEF Through, Weight, IInv, TypeOK, Times
  <2>3. IsTable(hop')
    BY <2>1, SettingTable DEF Pop, IInv, TypeOK
  <2>4. DOMAIN dist' \subseteq Lane /\ dist' \in [DOMAIN dist' -> Nat] /\ done' \subseteq DOMAIN dist'
    BY <2>1, <2>2 DEF Pop, Setting, IInv, TypeOK
  <2> QED
    BY <2>3, <2>4 DEF Pop, IInv, TypeOK
<1>3. pc \in {"fresh", "static"} /\ pc' = pc /\ fresh' = fresh /\ static' = static
      /\ memoized' = memoized /\ dest' = dest /\ net' = net
  BY DEF Pop
<1>4. CanReach' = CanReach
  BY <1>3, CanReachStays
<1>5. \A i \in DOMAIN static : (Arrives(static, i))' <=> Arrives(static, i)
  BY <1>3 DEF Arrives, RoadAhead, Closed
<1>6. TablesInv'
  BY <1>3, <1>4, <1>5 DEF IInv, TablesInv
<1>7. EveryChainArrives'
  BY <1>3 DEF EveryChainArrives
<1> QED
  BY <1>1, <1>2, <1>6, <1>7 DEF IInv

\* The invariant survives the end of the fresh search.
LEMMA FreshReadyIInv == ASSUME IInv, FreshReady PROVE IInv'
<1>1. /\ pc = "fresh" /\ fresh' = hop /\ static' = static /\ memoized' = memoized
      /\ dest' = dest /\ net' = net /\ now' = now
  BY DEF FreshReady
<1>2. DOMAIN hop = CanReach \ {dest}
  BY SearchEnds DEF FreshReady, IInv
<1>3. CanReach' = CanReach
  BY <1>1, CanReachStays
<1>4. \A i \in DOMAIN static : (Arrives(static, i))' <=> Arrives(static, i)
  BY <1>1 DEF Arrives, RoadAhead, Closed
<1>5. CASE memoized
  <2>1. /\ pc' = "splice" /\ mixed' = static /\ cand' = 1
        /\ hop' = hop /\ dist' = dist /\ done' = done
    BY <1>5 DEF FreshReady, StartSplices
  <2>2. TypeOK'
    BY <1>1, <2>1, LanesAssumption DEF IInv, TypeOK
  <2>3. SearchInv' /\ TablesInv'
    BY <1>1, <1>2, <1>3, <1>4, <1>5, <2>1 DEF IInv, SearchInv, TablesInv
  <2>4. \A i \in DOMAIN mixed' : (Arrives(mixed, i))'
    BY <1>4, <1>5, <2>1, <1>1 DEF IInv, TablesInv, Arrives, RoadAhead, Closed
  <2>5. EveryChainArrives'
    BY <1>1, <1>3, <1>5, <2>1, <2>4 DEF EveryChainArrives, IInv, TablesInv
  <2> QED
    BY <2>2, <2>3, <2>5 DEF IInv
<1>6. CASE ~memoized
  <2>1. /\ pc' = "static" /\ mixed' = mixed /\ cand' = cand
        /\ hop' = NoHops /\ dist' = [i \in {dest} |-> 0] /\ done' = {}
    BY <1>6 DEF FreshReady, StartSearch
  <2>2. IsTable(NoHops)
    BY DEF IsTable, NoHops
  <2>3. TypeOK'
    BY <1>1, <2>1, <2>2 DEF IInv, TypeOK
  <2>4. SearchInv'
    <3>1. DOMAIN hop' = {} /\ DOMAIN dist' = {dest} /\ dist'[dest] = 0
      BY <2>1 DEF NoHops
    <3>2. dest \in CanReach
      BY DEF CanReach, IInv, TypeOK
    <3> QED
      BY <1>1, <1>3, <2>1, <3>1, <3>2 DEF SearchInv
  <2>5. TablesInv' /\ EveryChainArrives'
    BY <1>1, <1>2, <1>3, <1>6, <2>1 DEF TablesInv, EveryChainArrives
  <2> QED
    BY <2>3, <2>4, <2>5 DEF IInv
<1> QED
  BY <1>5, <1>6

\* The invariant survives the end of the static search.
LEMMA StaticReadyIInv == ASSUME IInv, StaticReady PROVE IInv'
<1>1. /\ pc = "static" /\ pc' = "splice" /\ static' = hop /\ mixed' = hop /\ memoized' = TRUE
      /\ cand' = 1 /\ fresh' = fresh /\ dest' = dest /\ net' = net /\ now' = now
      /\ hop' = hop /\ dist' = dist /\ done' = done
  BY DEF StaticReady, StartSplices
<1>2. DOMAIN hop = CanReach \ {dest} /\ \A i \in DOMAIN hop : Arrives(hop, i)
  BY SearchEnds DEF StaticReady, IInv
<1>3. CanReach' = CanReach
  BY <1>1, CanReachStays
<1>4. \A i \in DOMAIN hop : (Arrives(static, i))' /\ (Arrives(mixed, i))'
  BY <1>1, <1>2 DEF Arrives, RoadAhead, Closed
<1>5. TypeOK'
  BY <1>1, LanesAssumption DEF IInv, TypeOK
<1>6. SearchInv' /\ TablesInv' /\ EveryChainArrives'
  BY <1>1, <1>2, <1>3, <1>4 DEF IInv, SearchInv, TablesInv, EveryChainArrives
<1> QED
  BY <1>5, <1>6 DEF IInv

\* The invariant survives a splice.
LEMMA SpliceIInv == ASSUME IInv, Splice PROVE IInv'
<1>1. /\ pc = "splice" /\ pc' = pc /\ cand \in Lane /\ cand' = cand + 1
      /\ mixed' = With(cand) /\ IsCandidate(cand) /\ Accepted(cand)
      /\ UNCHANGED <<net, dest, now, hop, dist, done, fresh, static, memoized>>
  BY DEF Splice
<1>2. /\ dest \in Lane /\ DOMAIN mixed \subseteq Lane
      /\ cand \in DOMAIN fresh /\ fresh[cand] \in Lane
  BY <1>1 DEF IInv, TypeOK, IsTable, IsCandidate
<1>3. CanReach' = CanReach
  BY <1>1, CanReachStays
<1>4. TypeOK'
  <2>1. IsTable(mixed')
    BY <1>1, <1>2, SettingTable DEF With, IInv, TypeOK
  <2>2. cand' \in 1..(NumLanes + 1)
    BY <1>1, LanesAssumption DEF Lane
  <2> QED
    BY <1>1, <2>1, <2>2 DEF IInv, TypeOK
<1>5. SearchInv' /\ TablesInv'
  <2>1. \A i \in DOMAIN static : (Arrives(static, i))' <=> Arrives(static, i)
    BY <1>1 DEF Arrives, RoadAhead, Closed
  <2> QED
    BY <1>1, <1>3, <2>1 DEF IInv, SearchInv, TablesInv
<1>6. /\ DOMAIN mixed = CanReach \ {dest} /\ cand \in DOMAIN mixed
      /\ \A i \in DOMAIN mixed : Arrives(mixed, i)
  BY <1>1, <1>2 DEF IInv, TablesInv, EveryChainArrives
<1>7. /\ DOMAIN mixed' = DOMAIN mixed \cup {cand}
      /\ \A x \in DOMAIN mixed \ {cand} : mixed'[x] = mixed[x]
      /\ mixed'[cand] = fresh[cand]
  BY <1>1 DEF With, Setting
<1>8. Arrives(mixed', mixed'[cand])
  BY <1>1, <1>7 DEF Accepted
<1>9. \A i \in DOMAIN mixed : Arrives(mixed', i)
  BY <1>1, <1>2, <1>6, <1>7, <1>8, SpliceKeepsArrivals
<1>10. \A i \in DOMAIN mixed : (Arrives(mixed, i))'
  BY <1>1, <1>9 DEF Arrives, RoadAhead, Closed
<1>11. EveryChainArrives'
  BY <1>1, <1>3, <1>6, <1>7, <1>10, <1>2 DEF EveryChainArrives, IInv
<1> QED
  BY <1>4, <1>5, <1>11 DEF IInv

\* The invariant survives the steps that leave every table alone.
LEMMA SameTablesIInv ==
    ASSUME IInv, Keep \/ Serve \/ UNCHANGED vars
    PROVE  IInv'
<1>1. /\ UNCHANGED <<net, dest, now, hop, dist, done, fresh, static, memoized, mixed>>
      /\ pc' = pc \/ (pc = "splice" /\ pc' = "served")
      /\ cand' = cand \/ (cand \in Lane /\ cand' = cand + 1)
  BY DEF Keep, Serve, vars
<1>2. cand' \in 1..(NumLanes + 1)
  BY <1>1, LanesAssumption DEF IInv, TypeOK, Lane
<1>3. TypeOK'
  BY <1>1, <1>2 DEF IInv, TypeOK
<1>4. CanReach' = CanReach
  BY <1>1, CanReachStays
<1>5. /\ \A i \in DOMAIN static : (Arrives(static, i))' <=> Arrives(static, i)
      /\ \A i \in DOMAIN mixed : (Arrives(mixed, i))' <=> Arrives(mixed, i)
      /\ \A i \in done : (Arrives(hop, i))' <=> Arrives(hop, i)
  BY <1>1 DEF Arrives, RoadAhead, Closed
<1>6. SearchInv'
  BY <1>1, <1>4, <1>5 DEF IInv, SearchInv
<1>7. TablesInv' /\ EveryChainArrives'
  BY <1>1, <1>4, <1>5 DEF IInv, TablesInv, EveryChainArrives
<1> QED
  BY <1>3, <1>6, <1>7 DEF IInv

\* The invariant survives the start of an epoch.
LEMMA NewEpochIInv == ASSUME IInv, NewEpoch PROVE IInv'
<1>1. /\ pc = "served" /\ pc' = "fresh" /\ now' \in Epochs(net)
      /\ hop' = NoHops /\ dist' = [i \in {dest} |-> 0] /\ done' = {}
      /\ fresh' = NoHops /\ mixed' = NoHops /\ cand' = 1
      /\ UNCHANGED <<net, dest, static, memoized>>
  BY DEF NewEpoch, StartSearch
<1>2. CanReach' = CanReach
  BY <1>1, CanReachStays
<1>3. TypeOK'
  <2>1. now' \in Times
    BY <1>1, NetTypes DEF IInv, TypeOK
  <2>2. IsTable(NoHops)
    BY DEF IsTable, NoHops
  <2>3. cand' \in 1..(NumLanes + 1)
    BY <1>1, LanesAssumption
  <2>4. DOMAIN dist' \subseteq Lane /\ dist' \in [DOMAIN dist' -> Nat] /\ done' \subseteq DOMAIN dist'
    BY <1>1 DEF IInv, TypeOK
  <2> QED
    BY <1>1, <2>1, <2>2, <2>3, <2>4 DEF IInv, TypeOK
<1>4. SearchInv'
  <2>1. DOMAIN hop' = {} /\ DOMAIN dist' = {dest} /\ dist'[dest] = 0
    BY <1>1 DEF NoHops
  <2>2. dest \in CanReach
    BY DEF CanReach, IInv, TypeOK
  <2> QED
    BY <1>1, <1>2, <2>1, <2>2 DEF SearchInv
<1>5. \A i \in DOMAIN static : (Arrives(static, i))' <=> Arrives(static, i)
  BY <1>1 DEF Arrives, RoadAhead, Closed
<1>6. TablesInv' /\ EveryChainArrives'
  BY <1>1, <1>2, <1>5 DEF IInv, TablesInv, EveryChainArrives
<1> QED
  BY <1>3, <1>4, <1>6 DEF IInv

\* The invariant is inductive.
LEMMA NextIInv == IInv /\ [Next]_vars => IInv'
<1>1. SUFFICES ASSUME IInv, [Next]_vars PROVE IInv'
  OBVIOUS
<1>2. CASE \E u \in Lane : Pop(u)
  BY <1>1, <1>2, PopIInv
<1>3. CASE FreshReady
  BY <1>1, <1>3, FreshReadyIInv
<1>4. CASE StaticReady
  BY <1>1, <1>4, StaticReadyIInv
<1>5. CASE Splice
  BY <1>1, <1>5, SpliceIInv
<1>6. CASE Keep \/ Serve \/ UNCHANGED vars
  BY <1>1, <1>6, SameTablesIInv
<1>7. CASE NewEpoch
  BY <1>1, <1>7, NewEpochIInv
<1> QED
  BY <1>1, <1>2, <1>3, <1>4, <1>5, <1>6, <1>7 DEF Next

-----------------------------------------------------------------------------

\* Every state of the rebuilding of a route table is of its type
\* (engine/routing.go, rerouteTable and routeDijkstra).
THEOREM RouteTypes == Spec => []TypeOK
<1>1. IInv => TypeOK
  BY DEF IInv
<1> QED
  BY <1>1, InitIInv, NextIInv, PTL DEF Spec

\* rerouteTable serves no cycle and no strand: at every moment of the splicing,
\* on every network, for all frozen times and every margin, each lane that can
\* reach the destination has a hop and its chain ends at the destination.
THEOREM ServedTablesArrive == Spec => []EveryChainArrives
<1>1. IInv => EveryChainArrives
  BY DEF IInv
<1> QED
  BY <1>1, InitIInv, NextIInv, PTL DEF Spec

-----------------------------------------------------------------------------
(***************************************************************************)
(* The distances.  Lanes are finished in the order of their distance, so a *)
(* finished lane cannot be reached on a shorter way later.                 *)
(***************************************************************************)

\* Each hop accounts for its lane's distance, no finished successor would be
\* nearer, and nothing still open is nearer than what is finished.
ExactInv ==
    pc \in {"fresh", "static"} =>
        /\ \A i \in DOMAIN hop : hop[i] \in net.succ[i] /\ dist[i] = Through(hop[i])
        /\ \A u \in done, p \in Lane : u \in net.succ[p] => dist[p] <= Through(u)
        /\ \A x \in done, y \in Frontier : dist[x] <= dist[y]

\* A pop finishes the nearest lane: what it relaxes is no nearer than itself.
LEMMA PopKeepsExact ==
    ASSUME IInv, ExactInv, NEW u \in Lane, Pop(u)
    PROVE  ExactInv'
<1> DEFINE N == Nearer(u)
<1>1. /\ pc \in {"fresh", "static"} /\ UNCHANGED <<pc, net, now>>
      /\ u \in Frontier
      /\ \A v \in Frontier : dist[u] < dist[v] \/ (dist[u] = dist[v] /\ u <= v)
      /\ done' = done \cup {u}
  BY DEF Pop, Nearest
<1>2. /\ u \in DOMAIN dist /\ u \notin done
      /\ DOMAIN dist \subseteq Lane /\ dist \in [DOMAIN dist -> Nat]
      /\ done \subseteq DOMAIN dist
      /\ DOMAIN hop = DOMAIN dist \ {dest}
      /\ \A i \in DOMAIN hop : hop[i] \in done
      /\ \A p \in Lane : net.succ[p] \cap done # {} => p \in DOMAIN dist
  BY <1>1 DEF Frontier, IInv, TypeOK, SearchInv
<1>3. \A i \in Lane : Weight(i) \in Nat /\ Weight(i)' = Weight(i)
  BY <1>1, NetTypes DEF Weight, IInv, TypeOK, Times
<1>4. Through(u) \in Nat /\ dist[u] <= Through(u)
  BY <1>2, <1>3 DEF Through
<1>5. /\ DOMAIN dist' = N \cup DOMAIN dist
      /\ \A p \in DOMAIN dist \ N : dist'[p] = dist[p]
      /\ \A p \in N : dist'[p] = Through(u)
      /\ DOMAIN hop' = N \cup DOMAIN hop
      /\ \A p \in DOMAIN hop \ N : hop'[p] = hop[p]
      /\ \A p \in N : hop'[p] = u
  BY DEF Pop, Setting
<1>6. /\ N \subseteq Lane \ (done \cup {u})
      /\ \A p \in N : u \in net.succ[p] /\ (p \in DOMAIN dist => Through(u) < dist[p])
      /\ \A p \in Lane \ (done \cup {u}) :
            u \in net.succ[p] /\ p \notin N => p \in DOMAIN dist /\ ~(Through(u) < dist[p])
  BY DEF Nearer
<1> HIDE DEF N
<1>7. \A v \in done' : v \in DOMAIN dist /\ v \in Lane /\ v \notin N /\ Through(v)' = Through(v)
  BY <1>1, <1>2, <1>3, <1>5, <1>6 DEF Through
<1>8. /\ \A i \in DOMAIN hop : hop[i] \in net.succ[i] /\ dist[i] = Through(hop[i])
      /\ \A v \in done, p \in Lane : v \in net.succ[p] => dist[p] <= Through(v)
      /\ \A x \in done, y \in Frontier : dist[x] <= dist[y]
  BY <1>1 DEF ExactInv
<1>9. ASSUME NEW i \in DOMAIN hop'
      PROVE  hop'[i] \in net'.succ[i] /\ dist'[i] = Through(hop[i])'
  <2>1. ASSUME NEW v \in done', hop'[i] = v PROVE Through(hop[i])' = Through(v)
    <3>1. Through(hop[i])' = Through(v)' BY <2>1 DEF Through, Weight
    <3> QED BY <3>1, <1>7
  <2>2. CASE i \in N
    <3>1. hop'[i] = u /\ u \in done' BY <2>2, <1>1, <1>5
    <3>2. Through(hop[i])' = Through(u) BY <3>1, <2>1
    <3> QED BY <2>2, <3>1, <3>2, <1>1, <1>5, <1>6
  <2>3. CASE i \notin N
    <3>1. i \in DOMAIN hop /\ hop'[i] = hop[i] /\ hop[i] \in done' /\ i \in DOMAIN dist
      BY <2>3, <1>1, <1>2, <1>5
    <3>2. dist'[i] = dist[i] BY <2>3, <3>1, <1>5
    <3>3. Through(hop[i])' = Through(hop[i]) BY <3>1, <2>1
    <3>4. hop[i] \in net.succ[i] /\ dist[i] = Through(hop[i]) BY <3>1, <1>8
    <3> QED BY <3>1, <3>2, <3>3, <3>4, <1>1
  <2> QED BY <2>2, <2>3
<1>10. ASSUME NEW v \in done', NEW p \in Lane, v \in net'.succ[p]
       PROVE  dist'[p] <= Through(v)'
  <2>1. Through(v)' = Through(v) /\ v \in net.succ[p] BY <1>1, <1>7, <1>10
  <2>2. CASE v \in done
    <3>1. p \in DOMAIN dist /\ dist[p] <= Through(v) BY <2>1, <2>2, <1>2, <1>8
    <3>2. dist'[p] = dist[p] \/ (dist'[p] = Through(u) /\ Through(u) < dist[p])
      BY <3>1, <1>5, <1>6
    <3>3. dist[p] \in Nat /\ Through(v) \in Nat
      BY <3>1, <2>2, <1>2, <1>3 DEF Through
    <3> QED BY <3>1, <3>2, <3>3, <2>1, <1>4
  <2>3. CASE v = u
    <3>1. CASE p \in done
      <4>1. dist[p] <= dist[u] BY <3>1, <1>1, <1>8
      <4>2. dist'[p] = dist[p] /\ dist[p] \in Nat /\ dist[u] \in Nat
        BY <3>1, <1>2, <1>5, <1>6
      <4> QED BY <4>1, <4>2, <1>4, <2>1, <2>3
    <3>2. CASE p = u
      <4>1. dist'[u] = dist[u] BY <1>2, <1>5, <1>6
      <4> QED BY <4>1, <3>2, <1>4, <2>1, <2>3
    <3>3. CASE p \in N
      <4>1. dist'[p] = Through(u) BY <3>3, <1>5
      <4> QED BY <4>1, <1>4, <2>1, <2>3
    <3>4. CASE p \notin done \cup {u} /\ p \notin N
      <4>1. p \in DOMAIN dist /\ ~(Through(u) < dist[p]) BY <3>4, <2>1, <2>3, <1>6
      <4>2. dist'[p] = dist[p] /\ dist[p] \in Nat BY <4>1, <3>4, <1>2, <1>5
      <4> QED BY <4>1, <4>2, <1>4, <2>1, <2>3
    <3> QED BY <3>1, <3>2, <3>3, <3>4
  <2> QED BY <2>2, <2>3, <1>1, <1>10
<1>11. ASSUME NEW x \in done', NEW y \in Frontier'
       PROVE  dist'[x] <= dist'[y]
  <2>1. y \in N \cup DOMAIN dist /\ y \notin done /\ y # u
    BY <1>1, <1>5 DEF Frontier
  <2>2. dist'[x] = dist[x] /\ dist[x] \in Nat /\ dist[u] \in Nat BY <1>2, <1>5, <1>7
  <2>3. dist[x] <= dist[u]
    <3>1. CASE x = u BY <3>1, <2>2
    <3>2. CASE x \in done BY <3>2, <1>1, <1>8
    <3> QED BY <3>1, <3>2, <1>1
  <2>4. dist[u] <= dist'[y] /\ dist'[y] \in Nat
    <3>1. CASE y \in N BY <3>1, <1>4, <1>5
    <3>2. CASE y \notin N
      <4>1. y \in Frontier /\ dist'[y] = dist[y] /\ dist[y] \in Nat
        BY <3>2, <2>1, <1>2, <1>5 DEF Frontier
      <4> QED BY <4>1, <2>2, <1>1
    <3> QED BY <3>1, <3>2
  <2> QED BY <2>2, <2>3, <2>4
<1> QED BY <1>9, <1>10, <1>11 DEF ExactInv

\* A search that has just begun has nothing finished and no hops.
LEMMA ExactBegins ==
    ASSUME hop = NoHops, done = {}
    PROVE  ExactInv
BY DEF ExactInv, NoHops

\* The distances stay exact.
LEMMA NextExact ==
    ASSUME IInv, ExactInv, [Next]_vars
    PROVE  ExactInv'
<1>1. ASSUME NEW u \in Lane, Pop(u) PROVE ExactInv'
  BY <1>1, PopKeepsExact
<1>2. CASE FreshReady
  <2>1. CASE memoized BY <1>2, <2>1 DEF FreshReady, StartSplices, ExactInv
  <2>2. CASE ~memoized
    <3>1. hop' = NoHops /\ done' = {} BY <1>2, <2>2 DEF FreshReady, StartSearch
    <3> QED BY <3>1 DEF ExactInv, NoHops
  <2> QED BY <2>1, <2>2
<1>3. CASE StaticReady BY <1>3 DEF StaticReady, StartSplices, ExactInv
<1>4. CASE Splice \/ Keep \/ Serve BY <1>4 DEF Splice, Keep, Serve, ExactInv
<1>5. CASE NewEpoch
  <2>1. hop' = NoHops /\ done' = {} BY <1>5 DEF NewEpoch, StartSearch
  <2> QED BY <2>1 DEF ExactInv, NoHops
<1>6. CASE UNCHANGED vars
  BY <1>6 DEF vars, ExactInv, Frontier, Through, Weight
<1> QED BY <1>1, <1>2, <1>3, <1>4, <1>5, <1>6 DEF Next

\* With the heap empty the finished lanes are those that can reach the
\* destination.
LEMMA ExactAtEnd ==
    ASSUME IInv, ExactInv
    PROVE  SearchIsExact
<1> SUFFICES ASSUME pc \in {"fresh", "static"}, Frontier = {}
             PROVE  /\ DOMAIN dist = CanReach
                    /\ DOMAIN hop = CanReach \ {dest}
                    /\ \A i \in DOMAIN hop :
                          /\ hop[i] \in net.succ[i]
                          /\ dist[i] = Through(hop[i])
                          /\ \A u \in net.succ[i] \cap CanReach : dist[i] <= Through(u)
  BY DEF SearchIsExact
<1>1. DOMAIN hop = CanReach \ {dest} BY SearchEnds DEF IInv
<1>2. /\ DOMAIN dist \subseteq CanReach /\ dest \in DOMAIN dist
      /\ DOMAIN hop = DOMAIN dist \ {dest}
  BY DEF IInv, SearchInv
<1>3. DOMAIN dist = CanReach BY <1>1, <1>2
<1>4. done = CanReach /\ DOMAIN hop \subseteq Lane BY <1>3, <1>2 DEF Frontier, IInv, TypeOK
<1>5. \A i \in DOMAIN hop : \A u \in net.succ[i] \cap CanReach : dist[i] <= Through(u)
  BY <1>4 DEF ExactInv
<1> QED BY <1>1, <1>3, <1>5 DEF ExactInv

\* routeDijkstra: whenever a search is over, it has a distance for exactly the
\* lanes that can reach the destination, and every hop is a nearest one, for any
\* travel times and any network.
THEOREM SearchesAreExact == Spec => []SearchIsExact
<1>1. Init => IInv /\ ExactInv
  <2> SUFFICES ASSUME Init PROVE ExactInv BY InitIInv
  <2> QED BY ExactBegins DEF Init
<1>2. IInv /\ ExactInv /\ [Next]_vars => (IInv /\ ExactInv)'
  BY NextIInv, NextExact
<1>3. IInv /\ ExactInv => SearchIsExact BY ExactAtEnd
<1> QED BY <1>1, <1>2, <1>3, PTL DEF Spec

-----------------------------------------------------------------------------
(***************************************************************************)
(* The depths.  The search goes outwards in layers; what it still has to   *)
(* expand is the only place where a lane may have unseen predecessors or   *)
(* neighbours.                                                             *)
(***************************************************************************)

DepthTypes ==
    /\ stage \in {"drive", "side", "done"}
    /\ DOMAIN depth \subseteq Lane /\ depth \in [DOMAIN depth -> Nat]
    /\ d \in Nat
    /\ dest \in DOMAIN depth /\ depth[dest] = 0
    /\ pos \in Lane \cup {OffRoad}
    /\ pos # OffRoad => stage = "done"

\* The layer and the next one are those of the current depth and the next one.
Layers ==
    /\ layer = {i \in DOMAIN depth : depth[i] = d}
    /\ sown = {i \in DOMAIN depth : depth[i] = d + 1}
    /\ \A i \in DOMAIN depth : depth[i] <= d + 1
    /\ open \subseteq layer
    /\ stage # "side" => sown = {}
    /\ stage = "done" => layer = {}

\* Whoever can drive into lane i needs no more lane changes than i.
DriveIn(i) == \A p \in Lane : i \in net.succ[p] => p \in DOMAIN depth /\ depth[p] <= depth[i]

\* A neighbour of lane i needs at most one more.
SideIn(i) == \A j \in Beside(net)[i] : j \in DOMAIN depth /\ depth[j] <= depth[i] + 1

Expanded ==
    \A i \in DOMAIN depth :
        /\ i \in sown \/ (stage = "drive" /\ i \in open) \/ DriveIn(i)
        /\ \/ i \in sown \/ (stage = "drive" /\ i \in layer) \/ (stage = "side" /\ i \in open)
           \/ SideIn(i)

\* At its own depth a lane leads to the destination or to a lane beside the
\* next layer in.
Home(j, k) == j = dest \/ \E m \in Beside(net)[j] : m \in DOMAIN depth /\ depth[m] = k - 1
Led == \A i \in DOMAIN depth : \E j \in AtDepthAhead(i) : Home(j, depth[i])

\* Depth 0 is given only to lanes from which one can drive to the destination.
Zero == \A i \in DOMAIN depth : depth[i] = 0 => i \in CanReach

RoutingInv == IInv /\ DepthTypes /\ Layers /\ Expanded /\ Led /\ Zero

\* Networks do not change, and lateral links are mutual.
LEMMA Laterals ==
    ASSUME NEW n \in RouteNets
    PROVE  /\ \A i \in Lane : Beside(n)[i] \subseteq Lane
           /\ \A i, j \in Lane : j \in Beside(n)[i] <=> i \in Beside(n)[j]
BY BesideAssumption

LEMMA NetStays == [Next]_vars => net' = net /\ dest' = dest
BY DEF Next, Pop, FreshReady, StaticReady, Splice, Keep, Serve, NewEpoch, vars

-----------------------------------------------------------------------------
(* Roads at one depth. *)

Grows ==
    /\ DOMAIN depth \subseteq DOMAIN depth'
    /\ \A i \in DOMAIN depth : depth'[i] = depth[i]

\* What is ahead of a lane at its depth stays ahead of it while lanes are found.
LEMMA AheadStays ==
    ASSUME Grows, net' = net, NEW i \in DOMAIN depth, NEW j \in AtDepthAhead(i)
    PROVE  j \in AtDepthAhead(i)'
<1>1. j \in DOMAIN depth' BY DEF AtDepthAhead, Grows
<1>2. ASSUME NEW S \in SUBSET DOMAIN depth', i \in S,
             \A x \in S : \A u \in net.succ[x] :
                 (u \in DOMAIN depth' /\ depth'[u] = depth'[i]) => u \in S
      PROVE  j \in S
  <2> DEFINE T == S \cap DOMAIN depth
  <2>1. T \in SUBSET DOMAIN depth /\ i \in T BY <1>2
  <2>2. \A x \in T : \A u \in net.succ[x] : (u \in DOMAIN depth /\ depth[u] = depth[i]) => u \in T
    BY <1>2 DEF Grows
  <2> HIDE DEF T
  <2>3. j \in T BY <2>1, <2>2 DEF AtDepthAhead
  <2> QED BY <2>3 DEF T
<1> QED BY <1>1, <1>2 DEF AtDepthAhead

\* After a step, a lane that drives into another of its depth has ahead of it
\* what that one has, and is led home when that one is.
LEMMA AheadBefore ==
    ASSUME NEW p \in DOMAIN depth', NEW u \in DOMAIN depth',
           u \in net'.succ[p], depth'[p] = depth'[u],
           (\E j \in AtDepthAhead(u) : Home(j, depth[u]))'
    PROVE  (\E j \in AtDepthAhead(p) : Home(j, depth[p]))'
<1>1. PICK j \in AtDepthAhead(u)' : Home(j, depth[u])' OBVIOUS
<1>2. Home(j, depth[p])' BY <1>1 DEF Home
<1>3. j \in DOMAIN depth' BY DEF AtDepthAhead
<1>4. ASSUME NEW S \in SUBSET DOMAIN depth', p \in S,
             \A x \in S : \A v \in net'.succ[x] :
                 (v \in DOMAIN depth' /\ depth'[v] = depth'[p]) => v \in S
      PROVE  j \in S
  <2>1. u \in S BY <1>4
  <2>2. \A x \in S : \A v \in net'.succ[x] :
           (v \in DOMAIN depth' /\ depth'[v] = depth'[u]) => v \in S
    BY <1>4
  <2> QED BY <2>1, <2>2 DEF AtDepthAhead
<1>5. j \in AtDepthAhead(p)' BY <1>3, <1>4 DEF AtDepthAhead
<1> QED BY <1>2, <1>5

\* A lane that was led home still is.
LEMMA LedStays ==
    ASSUME Grows, net' = net, dest' = dest, Led, NEW i \in DOMAIN depth
    PROVE  (\E j \in AtDepthAhead(i) : Home(j, depth[i]))'
<1>1. PICK j \in AtDepthAhead(i) : Home(j, depth[i]) BY DEF Led
<1>2. j \in AtDepthAhead(i)' BY AheadStays
<1>3. depth'[i] = depth[i] BY DEF Grows
<1>4. j = dest' \/ \E m \in Beside(net')[j] : m \in DOMAIN depth' /\ depth'[m] = depth'[i] - 1
  BY <1>1, <1>3 DEF Home, Grows
<1> QED BY <1>2, <1>4 DEF Home

\* What was expanded stays expanded.
LEMMA ExpandedStays ==
    ASSUME Grows, net' = net, NEW i \in DOMAIN depth
    PROVE  /\ DriveIn(i) => DriveIn(i)'
           /\ SideIn(i) => SideIn(i)'
BY DEF Grows, DriveIn, SideIn

-----------------------------------------------------------------------------
(* The search is inductive. *)

DepthInv == DepthTypes /\ Layers /\ Expanded /\ Led /\ Zero

LEMMA DriveKeeps ==
    ASSUME RoutingInv, NEW u \in Lane, Drive(u)
    PROVE  DepthInv'
<1> USE DEF RoutingInv
<1> DEFINE found == {p \in Unseen : u \in net.succ[p]}
<1>1. /\ stage = "drive" /\ u \in open
      /\ depth' = Setting(depth, found, d)
      /\ layer' = layer \cup found /\ open' = (open \ {u}) \cup found
      /\ UNCHANGED <<net, dest, stage, d, sown, pos>>
  BY DEF Drive, vars
<1>2. /\ found \subseteq Lane /\ found \cap DOMAIN depth = {}
      /\ \A p \in found : u \in net.succ[p]
      /\ \A p \in Lane : u \in net.succ[p] => p \in found \cup DOMAIN depth
  BY DEF Unseen
<1>3. /\ DOMAIN depth' = found \cup DOMAIN depth
      /\ \A p \in found : depth'[p] = d
      /\ \A p \in DOMAIN depth : depth'[p] = depth[p]
  BY <1>1, <1>2 DEF Setting
<1> HIDE DEF found
<1>4. Grows BY <1>3 DEF Grows
<1>5. /\ u \in DOMAIN depth /\ depth[u] = d /\ d \in Nat /\ sown = {}
      /\ \A i \in DOMAIN depth : depth[i] \in Nat /\ depth[i] <= d
  <2>1. u \in layer /\ sown = {} BY <1>1 DEF Layers
  <2>2. u \in DOMAIN depth /\ depth[u] = d BY <2>1 DEF Layers
  <2>3. ASSUME NEW i \in DOMAIN depth PROVE depth[i] \in Nat /\ depth[i] <= d
    <3>1. depth[i] \in Nat /\ d \in Nat BY DEF DepthTypes
    <3>2. depth[i] # d + 1 /\ depth[i] <= d + 1 BY <2>1 DEF Layers
    <3> QED BY <3>1, <3>2
  <2> QED BY <2>1, <2>2, <2>3 DEF DepthTypes
<1>6. DepthTypes'
  <2>1. \A i \in DOMAIN depth' : depth'[i] \in Nat BY <1>3, <1>5
  <2>2. depth' \in [DOMAIN depth' -> Nat] BY <2>1, <1>1 DEF Setting
  <2>3. DOMAIN depth' \subseteq Lane BY <1>2, <1>3 DEF DepthTypes
  <2> QED BY <2>2, <2>3, <1>1, <1>3 DEF DepthTypes
<1>7. Layers'
  <2>1. layer' = {i \in DOMAIN depth' : depth'[i] = d} BY <1>1, <1>3 DEF Layers
  <2>2. sown' = {i \in DOMAIN depth' : depth'[i] = d + 1}
    <3>1. \A i \in DOMAIN depth' : depth'[i] # d + 1 BY <1>3, <1>5
    <3> QED BY <3>1, <1>1, <1>5
  <2>3. \A i \in DOMAIN depth' : depth'[i] <= d + 1 BY <1>3, <1>5
  <2>4. open' \subseteq layer' BY <1>1 DEF Layers
  <2> QED BY <2>1, <2>2, <2>3, <2>4, <1>1, <1>5 DEF Layers
<1>8. Expanded'
  <2>1. DriveIn(u)' BY <1>1, <1>2, <1>3, <1>5 DEF DriveIn
  <2>2. ASSUME NEW i \in DOMAIN depth'
        PROVE  /\ i \in open' \/ DriveIn(i)'
               /\ i \in layer' \/ SideIn(i)'
    <3>1. CASE i \in found BY <3>1, <1>1
    <3>2. CASE i = u BY <3>2, <2>1, <1>1 DEF Layers
    <3>3. CASE i \in DOMAIN depth /\ i # u
      <4>1. (i \in open \/ DriveIn(i)) /\ (i \in layer \/ SideIn(i))
        BY <3>3, <1>1, <1>5 DEF Expanded
      <4>2. (DriveIn(i) => DriveIn(i)') /\ (SideIn(i) => SideIn(i)')
        BY <3>3, <1>1, <1>4, ExpandedStays
      <4> QED BY <4>1, <4>2, <3>3, <1>1
    <3> QED BY <3>1, <3>2, <3>3, <1>3
  <2> QED BY <2>2, <1>1 DEF Expanded
<1>9. ASSUME NEW i \in DOMAIN depth'
      PROVE  (\E j \in AtDepthAhead(i) : Home(j, depth[i]))'
  <2>1. CASE i \in DOMAIN depth BY <2>1, <1>1, <1>4, LedStays
  <2>2. CASE i \in found
    <3>1. (\E j \in AtDepthAhead(u) : Home(j, depth[u]))' BY <1>1, <1>4, <1>5, LedStays
    <3>2. /\ i \in DOMAIN depth' /\ u \in DOMAIN depth' /\ u \in net'.succ[i]
          /\ depth'[i] = depth'[u]
      BY <2>2, <1>1, <1>2, <1>3, <1>5
    <3> QED BY <3>1, <3>2, AheadBefore
  <2> QED BY <2>1, <2>2, <1>3
<1>10. Led' BY <1>9 DEF Led
<1>11. Zero'
  <2>1. CanReach' = CanReach BY <1>1, CanReachStays
  <2>2. ASSUME NEW i \in DOMAIN depth', depth'[i] = 0 PROVE i \in CanReach
    <3>1. CASE i \in DOMAIN depth BY <3>1, <2>2, <1>3 DEF Zero
    <3>2. CASE i \in found
      <4>1. d = 0 /\ u \in CanReach BY <3>2, <2>2, <1>3, <1>5 DEF Zero
      <4>2. u \in net.succ[i] /\ i \in Lane BY <3>2, <1>2
      <4> QED BY <4>1, <4>2 DEF CanReach
    <3> QED BY <3>1, <3>2, <2>2, <1>3
  <2> QED BY <2>1, <2>2 DEF Zero
<1> QED BY <1>6, <1>7, <1>8, <1>10, <1>11 DEF DepthInv

\* The layer is closed under driving; its neighbours are next.
LEMMA TurnKeeps == ASSUME RoutingInv, Turn PROVE DepthInv'
<1> USE DEF RoutingInv
<1>1. /\ stage = "drive" /\ open = {} /\ stage' = "side" /\ open' = layer
      /\ UNCHANGED <<net, dest, depth, d, layer, sown, pos>>
  BY DEF Turn, vars
<1>2. DepthTypes' BY <1>1 DEF DepthTypes
<1>3. Layers' BY <1>1 DEF Layers
<1>4. Expanded' BY <1>1 DEF Expanded, DriveIn, SideIn
<1>5. CanReach' = CanReach BY <1>1, CanReachStays
<1>6. Grows BY <1>1 DEF Grows
<1>7. Led' BY <1>1, <1>6, LedStays DEF Led
<1>8. Zero' BY <1>1, <1>5 DEF Zero
<1> QED BY <1>2, <1>3, <1>4, <1>7, <1>8 DEF DepthInv

\* The neighbours of a lane of the layer are one lane change further out, and
\* the way home from them is by that lane.
LEMMA SideKeeps ==
    ASSUME RoutingInv, NEW u \in Lane, Side(u)
    PROVE  DepthInv'
<1> USE DEF RoutingInv
<1> DEFINE found == Beside(net)[u] \cap Unseen
<1>1. /\ stage = "side" /\ u \in open
      /\ depth' = Setting(depth, found, d + 1)
      /\ sown' = sown \cup found /\ open' = open \ {u}
      /\ UNCHANGED <<net, dest, stage, d, layer, pos>>
  BY DEF Side, vars
<1>2. net \in RouteNets BY DEF IInv, TypeOK
<1>3. /\ found \subseteq Lane /\ found \cap DOMAIN depth = {}
      /\ \A j \in found : u \in Beside(net)[j]
      /\ \A j \in Beside(net)[u] : j \in found \cup DOMAIN depth
  BY <1>2, Laterals DEF Unseen
<1>4. /\ DOMAIN depth' = found \cup DOMAIN depth
      /\ \A p \in found : depth'[p] = d + 1
      /\ \A p \in DOMAIN depth : depth'[p] = depth[p]
  BY <1>1, <1>3 DEF Setting
<1> HIDE DEF found
<1>5. Grows BY <1>4 DEF Grows
<1>6. /\ u \in DOMAIN depth /\ depth[u] = d /\ d \in Nat
      /\ \A i \in DOMAIN depth : depth[i] \in Nat /\ depth[i] <= d + 1
  BY <1>1 DEF Layers, DepthTypes
<1>7. DepthTypes'
  <2>1. \A i \in DOMAIN depth' : depth'[i] \in Nat BY <1>4, <1>6
  <2>2. depth' \in [DOMAIN depth' -> Nat] BY <2>1, <1>1 DEF Setting
  <2>3. DOMAIN depth' \subseteq Lane BY <1>3, <1>4 DEF DepthTypes
  <2> QED BY <2>2, <2>3, <1>1, <1>4 DEF DepthTypes
<1>8. Layers'
  <2>1. layer' = {i \in DOMAIN depth' : depth'[i] = d}
    <3>1. \A i \in found : depth'[i] # d BY <1>4, <1>6
    <3> QED BY <3>1, <1>1, <1>4 DEF Layers
  <2>2. sown' = {i \in DOMAIN depth' : depth'[i] = d + 1} BY <1>1, <1>4 DEF Layers
  <2>3. \A i \in DOMAIN depth' : depth'[i] <= d + 1 BY <1>4, <1>6
  <2>4. open' \subseteq layer' BY <1>1 DEF Layers
  <2> QED BY <2>1, <2>2, <2>3, <2>4, <1>1 DEF Layers
<1>9. Expanded'
  <2>1. SideIn(u)' BY <1>1, <1>3, <1>4, <1>6 DEF SideIn
  <2>2. ASSUME NEW i \in DOMAIN depth'
        PROVE  /\ i \in sown' \/ DriveIn(i)'
               /\ i \in sown' \/ i \in open' \/ SideIn(i)'
    <3>1. CASE i \in found BY <3>1, <1>1
    <3>2. CASE i \in DOMAIN depth
      <4>1. (i \in sown \/ DriveIn(i)) /\ (i \in sown \/ i \in open \/ SideIn(i))
        BY <3>2, <1>1 DEF Expanded
      <4>2. (DriveIn(i) => DriveIn(i)') /\ (SideIn(i) => SideIn(i)')
        BY <3>2, <1>1, <1>5, ExpandedStays
      <4> QED BY <4>1, <4>2, <2>1, <1>1
    <3> QED BY <3>1, <3>2, <1>4
  <2> QED BY <2>2, <1>1 DEF Expanded
<1>10. ASSUME NEW i \in DOMAIN depth'
       PROVE  (\E j \in AtDepthAhead(i) : Home(j, depth[i]))'
  <2>1. CASE i \in DOMAIN depth BY <2>1, <1>1, <1>5, LedStays
  <2>2. CASE i \in found
    <3>1. i \in AtDepthAhead(i)' BY DEF AtDepthAhead
    <3>2. u \in Beside(net')[i] /\ u \in DOMAIN depth' /\ depth'[u] = depth'[i] - 1
      BY <2>2, <1>1, <1>3, <1>4, <1>6
    <3>3. Home(i, depth[i])' BY <3>2 DEF Home
    <3> QED BY <3>1, <3>3
  <2> QED BY <2>1, <2>2, <1>4
<1>11. Led' BY <1>10 DEF Led
<1>12. Zero'
  <2>1. CanReach' = CanReach BY <1>1, CanReachStays
  <2>2. \A i \in found : depth'[i] # 0 BY <1>4, <1>6
  <2> QED BY <2>1, <2>2, <1>4 DEF Zero
<1> QED BY <1>7, <1>8, <1>9, <1>11, <1>12 DEF DepthInv

\* A layer is finished; without a next one so is the search.
LEMMA NextLayerKeeps == ASSUME RoutingInv, NextLayer PROVE DepthInv'
<1> USE DEF RoutingInv
<1>1. /\ stage = "side" /\ open = {} /\ d' = d + 1
      /\ stage' = (IF sown = {} THEN "done" ELSE "drive")
      /\ layer' = sown /\ open' = sown /\ sown' = {}
      /\ UNCHANGED <<net, dest, depth, pos>>
  BY DEF NextLayer, vars
<1>2. d \in Nat /\ \A i \in DOMAIN depth : depth[i] \in Nat /\ depth[i] <= d + 1
  BY DEF Layers, DepthTypes
<1>3. DepthTypes' BY <1>1, <1>2 DEF DepthTypes
<1>4. Layers'
  <2>1. layer' = {i \in DOMAIN depth' : depth'[i] = d'} BY <1>1 DEF Layers
  <2>2. \A i \in DOMAIN depth' : depth'[i] <= d' + 1 /\ depth'[i] # d' + 1 BY <1>1, <1>2
  <2>3. sown' = {i \in DOMAIN depth' : depth'[i] = d' + 1} BY <2>2, <1>1
  <2>4. stage' = "done" => layer' = {} BY <1>1
  <2> QED BY <2>1, <2>2, <2>3, <2>4, <1>1 DEF Layers
<1>5. Expanded'
  <2>1. \A i \in DOMAIN depth : i \in sown \/ (DriveIn(i) /\ SideIn(i)) BY <1>1 DEF Expanded
  <2>2. \A i \in DOMAIN depth : (DriveIn(i)' <=> DriveIn(i)) /\ (SideIn(i)' <=> SideIn(i))
    BY <1>1 DEF DriveIn, SideIn
  <2>3. \A i \in sown : stage' = "drive" /\ i \in open' /\ i \in layer' BY <1>1
  <2> QED BY <2>1, <2>2, <2>3, <1>1 DEF Expanded
<1>6. Grows BY <1>1 DEF Grows
<1>7. Led' BY <1>1, <1>6, LedStays DEF Led
<1>8. CanReach' = CanReach BY <1>1, CanReachStays
<1>9. Zero' BY <1>1, <1>8 DEF Zero
<1> QED BY <1>3, <1>4, <1>5, <1>7, <1>9 DEF DepthInv

\* Steps that leave the depths alone: the tables' and the vehicle's.
LEMMA DepthsStay ==
    ASSUME RoutingInv, UNCHANGED depthVars, net' = net, dest' = dest,
           pos' \in Lane \cup {OffRoad}, pos' # OffRoad => stage = "done"
    PROVE  DepthInv'
<1> USE DEF RoutingInv
<1>1. UNCHANGED <<stage, depth, d, layer, open, sown>> BY DEF depthVars
<1>2. DepthTypes' BY <1>1 DEF DepthTypes
<1>3. Layers' BY <1>1 DEF Layers
<1>4. Expanded' BY <1>1 DEF Expanded, DriveIn, SideIn
<1>5. Grows BY <1>1 DEF Grows
<1>6. Led' BY <1>1, <1>5, LedStays DEF Led
<1>7. CanReach' = CanReach BY CanReachStays
<1>8. Zero' BY <1>1, <1>7 DEF Zero
<1> QED BY <1>2, <1>3, <1>4, <1>6, <1>8 DEF DepthInv

\* A move of the vehicle is a move to a lane or away, by finished depths and a
\* served table.
LEMMA MoveShape ==
    ASSUME RoutingInv, NEW u \in Lane, Spawn(u) \/ Cross(u) \/ HeldTurn(u) \/ Hop(u) \/ Recover(u)
    PROVE  pos' = u /\ stage = "done" /\ pc = "served" /\ UNCHANGED <<vars, depthVars>>
BY DEF Spawn, Cross, HeldTurn, Hop, Recover, Enter

LEMMA RoutingInductive == RoutingInv /\ [RoutingNext]_routingVars => RoutingInv'
<1> SUFFICES ASSUME RoutingInv, [RoutingNext]_routingVars PROVE RoutingInv' OBVIOUS
<1>1. [Next]_vars /\ IInv
  BY DEF RoutingInv, RoutingNext, routingVars, Drive, Turn, Side, NextLayer, Spawn, Leave, Cross,
         HeldTurn, Hop, Recover, Enter
<1>2. IInv' /\ net' = net /\ dest' = dest BY <1>1, NextIInv, NetStays
<1>3. DepthInv'
  <2>1. CASE stage = "done" /\ Next /\ UNCHANGED <<depthVars, pos, move>>
    BY <2>1, <1>2, DepthsStay DEF RoutingInv, DepthTypes
  <2>2. CASE Turn BY <2>2, TurnKeeps
  <2>3. CASE NextLayer BY <2>3, NextLayerKeeps
  <2>4. CASE Leave
    <3>1. pos' = OffRoad /\ UNCHANGED depthVars BY <2>4 DEF Leave, Enter
    <3> QED BY <3>1, <1>2, DepthsStay
  <2>5. ASSUME NEW u \in Lane, Drive(u) PROVE DepthInv' BY <2>5, DriveKeeps
  <2>6. ASSUME NEW u \in Lane, Side(u) PROVE DepthInv' BY <2>6, SideKeeps
  <2>7. ASSUME NEW u \in Lane, Spawn(u) \/ Cross(u) \/ HeldTurn(u) \/ Hop(u) \/ Recover(u)
        PROVE  DepthInv'
    <3>1. pos' = u /\ stage = "done" /\ UNCHANGED depthVars BY <2>7, MoveShape
    <3> QED BY <3>1, <1>2, DepthsStay
  <2>8. CASE UNCHANGED routingVars
    BY <2>8, <1>2, DepthsStay DEF routingVars, RoutingInv, DepthTypes
  <2> QED BY <2>1, <2>2, <2>3, <2>4, <2>5, <2>6, <2>7, <2>8 DEF RoutingNext
<1> QED BY <1>2, <1>3 DEF RoutingInv, DepthInv

LEMMA RoutingInitially == RoutingInit => RoutingInv
<1> SUFFICES ASSUME RoutingInit PROVE RoutingInv OBVIOUS
<1>1. IInv BY InitIInv DEF RoutingInit
<1>2. /\ stage = "drive" /\ d = 0 /\ layer = {dest} /\ open = {dest} /\ sown = {} /\ pos = OffRoad
      /\ DOMAIN depth = {dest} /\ depth[dest] = 0 /\ depth = [i \in {dest} |-> 0]
  BY DEF RoutingInit
<1>3. dest \in Lane BY <1>1 DEF IInv, TypeOK
<1>4. DepthTypes BY <1>2, <1>3 DEF DepthTypes
<1>5. Layers BY <1>2 DEF Layers
<1>6. Expanded BY <1>2 DEF Expanded
<1>7. Led BY <1>2 DEF Led, Home, AtDepthAhead
<1>8. Zero BY <1>2, <1>3 DEF Zero, CanReach
<1> QED BY <1>1, <1>4, <1>5, <1>6, <1>7, <1>8 DEF RoutingInv

-----------------------------------------------------------------------------
(* What the depths promise. *)

\* When the search is over, depth 0 is exactly the lanes with a way to the
\* destination, and every bound holds everywhere.
LEMMA DepthsAtEnd ==
    ASSUME RoutingInv, stage = "done"
    PROVE  /\ \A i \in DOMAIN depth : DriveIn(i) /\ SideIn(i)
           /\ \A i \in Lane : LatDist(i) = 0 <=> i \in CanReach
<1> USE DEF RoutingInv
<1>1. sown = {} BY DEF Layers
<1>2. \A i \in DOMAIN depth : DriveIn(i) /\ SideIn(i) BY <1>1 DEF Expanded
<1>3. \A i \in Lane : LatDist(i) = 0 <=> i \in DOMAIN depth /\ depth[i] = 0 BY DEF LatDist
<1> DEFINE zero == {i \in DOMAIN depth : depth[i] = 0}
<1>4. zero \subseteq CanReach BY DEF Zero
<1>5. dest \in zero /\ zero \in SUBSET Lane BY DEF DepthTypes
<1>6. ASSUME NEW p \in Lane, net.succ[p] \cap zero # {} PROVE p \in zero
  <2>1. PICK i \in net.succ[p] : i \in DOMAIN depth /\ depth[i] = 0 BY <1>6
  <2>2. p \in DOMAIN depth /\ depth[p] <= 0 BY <2>1, <1>2 DEF DriveIn
  <2>3. depth[p] \in Nat BY <2>2 DEF DepthTypes
  <2>4. depth[p] = 0 BY <2>2, <2>3
  <2> QED BY <2>2, <2>4
<1> HIDE DEF zero
<1>7. CanReach \subseteq zero BY <1>5, <1>6 DEF CanReach
<1> QED BY <1>2, <1>3, <1>4, <1>7 DEF zero

\* Property GradientLeadsHome: routeLatDist finds depth 0 for exactly the lanes
\* with a way to the destination, and down the depths every other lane is led
\* there, for any network.
THEOREM GradientsLeadHome == RoutingSpec => []GradientLeadsHome
<1>1. ASSUME RoutingInv PROVE GradientLeadsHome
  <2> SUFFICES ASSUME stage = "done"
               PROVE  /\ {i \in Lane : LatDist(i) = 0} = CanReach
                      /\ \A i \in DOMAIN depth : \E j \in AtDepthAhead(i) : Home(j, depth[i])
    BY DEF GradientLeadsHome, Home
  <2>1. CanReach \subseteq Lane BY DEF CanReach
  <2>2. {i \in Lane : LatDist(i) = 0} = CanReach BY <2>1, <1>1, DepthsAtEnd
  <2> QED BY <2>2, <1>1 DEF RoutingInv, Led
<1> QED BY <1>1, RoutingInitially, RoutingInductive, PTL DEF RoutingSpec

-----------------------------------------------------------------------------
(* What the guardrail makes of them. *)

\* The hop of a served table leads to a lane from which the destination can
\* still be reached.
LEMMA HopsStayOnRoute ==
    ASSUME IInv, pc = "served", NEW i \in CanReach, i # dest
    PROVE  i \in DOMAIN mixed /\ mixed[i] \in CanReach
<1>1. EveryChainArrives BY DEF IInv
<1>2. i \in DOMAIN mixed /\ Arrives(mixed, i) BY <1>1 DEF EveryChainArrives
<1>3. mixed[i] \in Lane BY <1>2 DEF IInv, TypeOK, IsTable
<1>4. ASSUME mixed[i] # dest, mixed[i] \notin DOMAIN mixed PROVE FALSE
  <2> DEFINE S == {i, mixed[i]}
  <2>1. S \in SUBSET Lane /\ i \in S BY <1>3 DEF CanReach
  <2>2. Closed(S, mixed) BY <1>4 DEF Closed
  <2>3. dest \notin S BY <1>4
  <2> HIDE DEF S
  <2> QED BY <2>1, <2>2, <2>3, <1>2 DEF Arrives, RoadAhead
<1>5. dest \in CanReach BY DEF CanReach, IInv, TypeOK
<1> QED BY <1>2, <1>4, <1>5, <1>1 DEF EveryChainArrives

LEMMA LatDistTypes == ASSUME DepthTypes, NEW i \in Lane, LatDist(i) >= 0 PROVE LatDist(i) \in Nat
BY DEF LatDist, DepthTypes

\* What StaysOnRoute asks of one step.
RouteKept ==
    pos # OffRoad /\ pos' # OffRoad /\ LatDist(pos) >= 0 =>
        /\ LatDist(pos) = 0 /\ move' # "turn" => LatDist(pos') = 0
        /\ move' = "hop" => LatDist(pos') \in 0..LatDist(pos)
        /\ move' = "recover" /\ pos' # pos => LatDist(pos') = LatDist(pos) - 1

\* pickSuccessor keeps a vehicle on its route on it, whatever the epoch.
LEMMA CrossKeepsRoute == ASSUME RoutingInv, NEW u \in Lane, Cross(u) PROVE RouteKept
<1>1. /\ stage = "done" /\ pc = "served" /\ pos # OffRoad /\ pos # dest
      /\ pos' = u /\ move' = "cross"
      /\ RouteHops(pos) # {} => u \in RouteHops(pos)
  BY DEF Cross, Enter
<1>2. pos \in Lane BY <1>1 DEF RoutingInv, DepthTypes
<1>3. ASSUME LatDist(pos) = 0 PROVE LatDist(u) = 0
  <2>1. pos \in CanReach BY <1>1, <1>2, <1>3, DepthsAtEnd
  <2>2. pos \in DOMAIN mixed /\ mixed[pos] \in CanReach
    BY <1>1, <2>1, HopsStayOnRoute DEF RoutingInv
  <2>3. u = mixed[pos] BY <1>1, <2>2 DEF RouteHops
  <2> QED BY <1>1, <2>2, <2>3, DepthsAtEnd
<1> QED BY <1>1, <1>3 DEF RouteKept

\* routeHopOK lets nobody change lanes away from the route.
LEMMA HopKeepsRoute == ASSUME RoutingInv, NEW u \in Lane, Hop(u) PROVE RouteKept
<1>1. pos # OffRoad /\ pos' = u /\ move' = "hop" /\ RouteHopOK(pos, u) BY DEF Hop, Enter
<1>2. pos \in Lane BY <1>1 DEF RoutingInv, DepthTypes
<1>3. ASSUME LatDist(pos) >= 0
      PROVE  LatDist(u) \in 0..LatDist(pos) /\ (LatDist(pos) = 0 => LatDist(u) = 0)
  <2>1. LatDist(pos) \in Nat BY <1>2, <1>3, LatDistTypes DEF RoutingInv
  <2>2. LatDist(u) >= 0 /\ LatDist(u) <= LatDist(pos) BY <1>1, <2>1 DEF RouteHopOK
  <2>3. LatDist(u) \in Nat BY <2>2, LatDistTypes DEF RoutingInv
  <2> QED BY <2>1, <2>2, <2>3
<1> QED BY <1>1, <1>3 DEF RouteKept

\* tryRouteRecovery cannot skip a layer: lateral links are mutual, so a
\* neighbour's depth is at most one below.
LEMMA RecoverKeepsRoute == ASSUME RoutingInv, NEW u \in Lane, Recover(u) PROVE RouteKept
<1>1. /\ stage = "done" /\ pos # OffRoad /\ pos' = u /\ move' = "recover"
      /\ u \in Beside(net)[pos]
      /\ LatDist(pos) > 0 /\ LatDist(u) >= 0 /\ LatDist(u) < LatDist(pos)
  BY DEF Recover, Enter
<1>2. pos \in Lane /\ net \in RouteNets BY <1>1 DEF RoutingInv, DepthTypes, IInv, TypeOK
<1>3. u \in DOMAIN depth /\ LatDist(u) = depth[u] BY <1>1 DEF LatDist
<1>4. pos \in Beside(net)[u] BY <1>1, <1>2, Laterals
<1>5. pos \in DOMAIN depth /\ depth[pos] <= depth[u] + 1
  <2>1. SideIn(u) BY <1>1, <1>3, DepthsAtEnd
  <2> QED BY <2>1, <1>4 DEF SideIn
<1>6. LatDist(pos) = depth[pos] BY <1>5 DEF LatDist
<1>7. depth[pos] \in Nat /\ depth[u] \in Nat BY <1>3, <1>5 DEF RoutingInv, DepthTypes
<1>8. LatDist(u) = LatDist(pos) - 1 /\ LatDist(pos) # 0 BY <1>1, <1>3, <1>5, <1>6, <1>7
<1> QED BY <1>1, <1>8 DEF RouteKept

LEMMA RouteIsKept == RoutingInv /\ [RoutingNext]_routingVars => RouteKept
<1> SUFFICES ASSUME RoutingInv, [RoutingNext]_routingVars PROVE RouteKept OBVIOUS
<1>1. ASSUME pos' = pos, move' = move PROVE RouteKept
  <2>1. ASSUME pos # OffRoad, LatDist(pos) >= 0 PROVE LatDist(pos) \in 0..LatDist(pos)
    <3>1. LatDist(pos) \in Nat BY <2>1, LatDistTypes DEF RoutingInv, DepthTypes
    <3> QED BY <3>1
  <2> QED BY <1>1, <2>1 DEF RouteKept
<1>2. CASE Leave BY <1>2 DEF Leave, Enter, RouteKept
<1>3. ASSUME NEW u \in Lane, Spawn(u) PROVE RouteKept BY <1>3 DEF Spawn, RouteKept
<1>4. ASSUME NEW u \in Lane, Cross(u) PROVE RouteKept BY <1>4, CrossKeepsRoute
<1>5. ASSUME NEW u \in Lane, HeldTurn(u) PROVE RouteKept BY <1>5 DEF HeldTurn, Enter, RouteKept
<1>6. ASSUME NEW u \in Lane, Hop(u) PROVE RouteKept BY <1>6, HopKeepsRoute
<1>7. ASSUME NEW u \in Lane, Recover(u) PROVE RouteKept BY <1>7, RecoverKeepsRoute
<1>8. CASE UNCHANGED <<pos, move>> BY <1>8, <1>1
<1>9. ASSUME NEW u \in Lane, Drive(u) \/ Side(u) PROVE UNCHANGED <<pos, move>>
  BY <1>9 DEF Drive, Side
<1> QED
  BY <1>2, <1>3, <1>4, <1>5, <1>6, <1>7, <1>8, <1>9 DEF RoutingNext, routingVars, Turn, NextLayer

\* Property StaysOnRoute (ADR-0021's guardrail): without a held turn a vehicle
\* on its route stays on it over every table an epoch puts under it, a lane
\* change never takes it further out and a recovery hop takes it exactly one
\* layer nearer, for any network.
THEOREM VehiclesStayOnRoute == RoutingSpec => StaysOnRoute
<1>1. RoutingInv /\ [RoutingNext]_routingVars => [RouteKept]_routingVars BY RouteIsKept
<1> QED BY <1>1, RoutingInitially, RoutingInductive, PTL DEF RoutingSpec, StaysOnRoute, RouteKept

=============================================================================
