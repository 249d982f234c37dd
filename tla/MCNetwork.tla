------------------------------- MODULE MCNetwork -------------------------------
\* Small networks, for TLC: two sources that share a switch, a link with two virtual
\* channels and routes of its own, a bus between two sources and two destinations, one with
\* two lanes and a switch behind it, and, for the routing table only, all ways to connect three switches.
EXTENDS Network, FiniteSetsExt

Link(s, d, vcs, bandwidth) == [src |-> s, dst |-> d, vcs |-> vcs, bandwidth |-> bandwidth]

Switch ==
  [nodes |-> <<"A", "B", "D", "S">>,
   kind  |-> [A |-> "end", B |-> "end", D |-> "end", S |-> "switch"],
   links |-> <<Link("A", "S", 1, 2), Link("B", "S", 1, 1), Link("S", "D", 1, 1)>>,
   lanes |-> <<>>, bandwidth |-> [S |-> 1], routes |-> <<>>,
   size  |-> 2, traffic |-> {<<"A", "D">>, <<"B", "D">>}]

Channels2 ==
  [nodes |-> <<"A", "D", "E", "S">>,
   kind  |-> [A |-> "end", D |-> "end", E |-> "end", S |-> "switch"],
   links |-> <<Link("A", "S", 2, 1), Link("S", "D", 1, 1), Link("S", "E", 1, 1)>>,
   lanes |-> <<>>, bandwidth |-> [S |-> 2],
   routes |-> [A |-> [D |-> [next |-> "S", vc |-> 0], E |-> [next |-> "S", vc |-> 1]]],
   size  |-> 2, traffic |-> {<<"A", "D">>, <<"A", "E">>}]

Bus ==
  [nodes |-> <<"A", "B", "D", "E", "U">>,
   kind  |-> [A |-> "end", B |-> "end", D |-> "end", E |-> "end", U |-> "bus"],
   links |-> <<Link("A", "U", 1, 1), Link("B", "U", 1, 1), Link("U", "D", 1, 1), Link("U", "E", 1, 1)>>,
   lanes |-> [U |-> 1], bandwidth |-> [U |-> 1], routes |-> <<>>,
   size  |-> 2, traffic |-> {"A", "B"} \X {"D", "E"}]

TwoLanes ==
  [nodes |-> <<"A", "B", "D", "E", "S", "U">>,
   kind  |-> [A |-> "end", B |-> "end", D |-> "end", E |-> "end", S |-> "switch", U |-> "bus"],
   links |-> <<Link("A", "U", 1, 1), Link("B", "U", 1, 1), Link("U", "S", 1, 1), Link("U", "E", 1, 1),
               Link("S", "D", 1, 2)>>,
   lanes |-> [U |-> 2], bandwidth |-> [S |-> 1, U |-> 1], routes |-> <<>>,
   size  |-> 2, traffic |-> {<<"A", "D">>, <<"A", "E">>, <<"B", "D">>}]

\* Three switches with the links ls among them, an end node on each side, no traffic.
Switches(ls) ==
  [nodes |-> <<"A", "S", "T", "V", "D">>,
   kind  |-> [A |-> "end", D |-> "end", S |-> "switch", T |-> "switch", V |-> "switch"],
   links |-> FoldSet(LAMBDA p, s : Append(s, Link(p[1], p[2], 1, 1)),
                     <<Link("A", "S", 1, 1), Link("V", "D", 1, 1)>>, ls),
   lanes |-> <<>>, bandwidth |-> [S |-> 1, T |-> 1, V |-> 1], routes |-> <<>>,
   size  |-> 2, traffic |-> {}]

Pairs == {p \in {"S", "T", "V"} \X {"S", "T", "V"} : p[1] # p[2]}

MCTopologies ==
  [c \in {<<"switch", {}>>, <<"channels", {}>>, <<"bus", {}>>, <<"two lanes", {}>>}
           \union {<<"graph", ls>> : ls \in SUBSET Pairs} |->
    CASE c[1] = "switch"    -> Switch
      [] c[1] = "channels"  -> Channels2
      [] c[1] = "bus"       -> Bus
      [] c[1] = "two lanes" -> TwoLanes
      [] c[1] = "graph"     -> Switches(c[2])]

=============================================================================
