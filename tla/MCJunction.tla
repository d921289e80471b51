----------------------------- MODULE MCJunction -----------------------------
(* Small road networks, each built for one hard case of the gates. *)
EXTENDS Junction

\* A network from its lanes <<length, kind, row, successors>>; the rest given.
Road(lanes, cross, merge, light, cycle, origins, demand, via, dest, cap, bleed) ==
    [lanes |-> DOMAIN lanes,
     len |-> [l \in DOMAIN lanes |-> lanes[l][1]],
     box |-> [l \in DOMAIN lanes |-> lanes[l][2] = "box"],
     exit |-> [l \in DOMAIN lanes |-> lanes[l][2] = "exit"],
     row |-> [l \in DOMAIN lanes |-> lanes[l][3]],
     prevs |-> [l \in DOMAIN lanes |->
                   {p \in DOMAIN lanes : \E i \in DOMAIN lanes[p][4] : lanes[p][4][i] = l}],
     succ |-> [l \in DOMAIN lanes |-> lanes[l][4]],
     cross |-> [l \in DOMAIN lanes |-> UNION {p \ {l} : p \in {q \in cross : l \in q}}],
     merge |-> [l \in DOMAIN lanes |-> UNION {p \ {l} : p \in {q \in merge : l \in q}}],
     light |-> [l \in DOMAIN lanes |-> IF l \in DOMAIN light THEN light[l] ELSE << >>],
     cycle |-> cycle, origins |-> origins, demand |-> demand, via |-> via, dest |-> dest,
     cap |-> cap, bleed |-> bleed]

None == [x \in {} |-> << >>]
Nobody == [v \in 1..4 |-> "none"]

\* Two minor approaches that cross: nobody has priority.
Yield(rowA, rowB) ==
    Road([a |-> <<2, "road", "none", <<"xa">> >>, xa |-> <<1, "box", rowA, <<"oa">> >>,
          oa |-> <<1, "exit", "none", << >> >>,
          b |-> <<2, "road", "none", <<"xb">> >>, xb |-> <<1, "box", rowB, <<"ob">> >>,
          ob |-> <<1, "exit", "none", << >> >>],
         {{"xa", "xb"}}, {}, None, 2, <<"a", "b">>,
         [a |-> <<1, 4>>, b |-> <<2, 3>>], [v \in 1..4 |-> {}], Nobody, 4, 0)

\* A major road and a stop approach merge, behind a stub; a second stop line follows.
StopMerge ==
    Road([a |-> <<1, "road", "none", <<"xa">> >>, xa |-> <<1, "box", "major", <<"m">> >>,
          b |-> <<2, "road", "none", <<"stub">> >>, stub |-> <<1, "road", "none", <<"xb">> >>,
          xb |-> <<1, "box", "stop", <<"m">> >>, m |-> <<2, "road", "none", <<"y">> >>,
          y |-> <<1, "box", "stop", <<"o">> >>, o |-> <<2, "road", "none", << >> >>],
         {}, {{"xa", "xb"}}, None, 2, <<"a", "b">>,
         [a |-> <<1, 4>>, b |-> <<2, 3>>], [v \in 1..4 |-> {}], [v \in 1..4 |-> "o"], 3, 0)

\* A ring of three junctions with side roads: each ring road feeds the next one,
\* and every vehicle leaves at the second junction it meets.
Ring ==
    Road([s1 |-> <<1, "road", "none", <<"k1">> >>, k1 |-> <<1, "box", "minor", <<"r1">> >>,
          r1 |-> <<2, "road", "none", <<"e2", "j2">> >>, j2 |-> <<1, "box", "major", <<"r2">> >>,
          e2 |-> <<1, "box", "major", <<"x2">> >>, x2 |-> <<1, "exit", "none", << >> >>,
          s2 |-> <<1, "road", "none", <<"k2">> >>, k2 |-> <<1, "box", "minor", <<"r2">> >>,
          r2 |-> <<2, "road", "none", <<"e3", "j3">> >>, j3 |-> <<1, "box", "major", <<"r3">> >>,
          e3 |-> <<1, "box", "major", <<"x3">> >>, x3 |-> <<1, "exit", "none", << >> >>,
          s3 |-> <<1, "road", "none", <<"k3">> >>, k3 |-> <<1, "box", "minor", <<"r3">> >>,
          r3 |-> <<2, "road", "none", <<"e1", "j1">> >>, j1 |-> <<1, "box", "major", <<"r1">> >>,
          e1 |-> <<1, "box", "major", <<"x1">> >>, x1 |-> <<1, "exit", "none", << >> >>],
         {{"k1", "e1"}, {"k2", "e2"}, {"k3", "e3"}}, {{"k1", "j1"}, {"k2", "j2"}, {"k3", "j3"}},
         None, 2, <<"s1", "s2", "s3">>, [s1 |-> <<1>>, s2 |-> <<2>>, s3 |-> <<3>>],
         <<{"j2", "e3"}, {"j3", "e1"}, {"j1", "e2"}>>, Nobody, 4, 1)

\* A signalised crossing without an all-red, its lights a and b given.
Crossing(a, b) ==
    Road([a |-> <<2, "road", "none", <<"xa">> >>, xa |-> <<1, "box", "none", <<"oa">> >>,
          oa |-> <<1, "exit", "none", << >> >>,
          b |-> <<2, "road", "none", <<"xb">> >>, xb |-> <<1, "box", "none", <<"ob">> >>,
          ob |-> <<1, "exit", "none", << >> >>],
         {{"xa", "xb"}}, {}, [xa |-> a, xb |-> b], Len(a), <<"a", "b">>,
         [a |-> <<1, 4>>, b |-> <<2, 3>>], [v \in 1..4 |-> {}], Nobody, 4, 0)

\* A box with a stub behind it too short for a vehicle, and a long red after the stub.
RedStub ==
    Road([a |-> <<2, "road", "none", <<"xa">> >>, xa |-> <<1, "box", "none", <<"stub">> >>,
          stub |-> <<1, "road", "none", <<"ya">> >>, ya |-> <<1, "box", "none", <<"oa">> >>,
          oa |-> <<1, "exit", "none", << >> >>],
         {}, {}, [xa |-> [t \in 1..16 |-> "green"],
                  ya |-> [t \in 1..16 |-> IF t < 14 THEN "red" ELSE IF t < 16 THEN "green"
                                          ELSE "amber"]],
         16, <<"a">>, [a |-> <<1>>], [v \in {1} |-> {}], Nobody, 4, 0)

\* Facing permissive greens that cross, one of them against a protected green.
TurnLeft(permissive, protected) ==
    Road([a |-> <<2, "road", "none", <<"xa">> >>, xa |-> <<1, "box", "none", <<"oa">> >>,
          oa |-> <<1, "exit", "none", << >> >>,
          b |-> <<2, "road", "none", <<"xb">> >>, xb |-> <<1, "box", "none", <<"ob">> >>,
          ob |-> <<1, "exit", "none", << >> >>,
          c |-> <<1, "road", "none", <<"xc">> >>, xc |-> <<1, "box", "none", <<"oc">> >>,
          oc |-> <<1, "exit", "none", << >> >>],
         {{"xa", "xb"}, {"xa", "xc"}}, {},
         [xa |-> permissive, xb |-> permissive, xc |-> protected], Len(permissive),
         <<"a", "b", "c">>, [a |-> <<2>>, b |-> <<1, 4>>, c |-> <<3>>],
         [v \in 1..4 |-> {}], Nobody, 4, 0)

\* Two junctions whose boxes end in one funnel, and a seam into a third box.
Funnel ==
    Road([a |-> <<1, "road", "none", <<"xa">> >>, xa |-> <<2, "box", "major", <<"f">> >>,
          b |-> <<1, "road", "none", <<"xb">> >>, xb |-> <<1, "box", "major", <<"f">> >>,
          f |-> <<1, "box", "stop", <<"o">> >>, o |-> <<1, "exit", "none", << >> >>],
         {}, {}, None, 2, <<"a", "b">>, [a |-> <<2, 3>>, b |-> <<1, 4>>],
         [v \in 1..4 |-> {}], Nobody, 4, 0)

MCNets ==
    {Yield("minor", "minor"), Yield("stop", "stop"), Yield("major", "minor"), StopMerge, Ring,
     Crossing(<<"green", "green", "amber", "red", "red", "red">>,
              <<"red", "red", "red", "green", "green", "amber">>),
     RedStub, TurnLeft(<<"permissive", "permissive">>, <<"green", "green">>), Funnel}

\* What the theorems about SafeBox and NoCrossOverlap ask of a network.
ASSUME \A n \in MCNets : Arbitrated(n) /\ MergesInJunctions(n)

\* A red that outlasts the escape's threshold, while vehicles of the other
\* approach, who come from further away, cross on their green.
MCLongRed ==
    {[Crossing([t \in 1..20 |-> IF t < 18 THEN "red" ELSE IF t < 20 THEN "green" ELSE "amber"],
               [t \in 1..20 |-> IF t < 16 THEN "green" ELSE IF t = 16 THEN "amber" ELSE "red"])
         EXCEPT !.len["b"] = 11]}

\* A permissive green that ends in an amber.
MCAmber ==
    {TurnLeft(<<"permissive", "permissive", "amber", "red">>, <<"green", "green", "amber", "red">>)}
=============================================================================
