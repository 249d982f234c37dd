-------------------------------- MODULE Routing --------------------------------
(***************************************************************************)
(* How net_create_from_config (network.c) and routing-table.c turn the       *)
(* description of a network into buffers and a routing table, and how they   *)
(* look for cycles of routes, which "can cause deadlocks".                  *)
(*                                                                         *)
(* A description t has                                                     *)
(*   nodes      all nodes in their order, kind[n]: "end", "switch" or "bus"   *)
(*   links      a sequence of [src, dst, vcs, bandwidth], one for each         *)
(*              direction; a link at a bus is a port of the bus             *)
(*   lanes, bandwidth    of each bus, of each switch and bus                 *)
(*   routes     routes[n][d]: [next, vc] of the Routes section, or <<>>        *)
(* An output or input buffer is known by its link and virtual channel.       *)
(***************************************************************************)
EXTENDS Naturals, Sequences, SequencesExt

CONSTANTS
  Topologies,   \* Topologies[c]: the descriptions
  None

VARIABLES
  topology,   \* the description that is read
  table,      \* routing_table->entries: table[n][d] is the entry of node n for d
  hasCycle,   \* routing_table->has_cycle
  todo,       \* nodes or routes that the loops have still to look at
  phase       \* of net_create_from_config: "table", "routed", and "ready" when it has returned

routing == <<topology, table, hasCycle, todo, phase>>
ready   == phase = "ready"

T == Topologies[topology]

IsBus(t, n) == t.kind[n] = "bus"
Nodes(t)    == ToSet(t.nodes)

\* What net_create_from_config accepts: a bus has no buffers of its own, so its ports have one
\* channel and lead to other nodes, and a virtual channel is no negative number.  Links and
\* listed routes from a node to itself, which no message would use, are left out.
WellFormed(t) ==
  /\ t.nodes \in Seq(Nodes(t)) /\ t.kind \in [Nodes(t) -> {"end", "switch", "bus"}]
  /\ t.links \in Seq([src : Nodes(t), dst : Nodes(t), vcs : Nat \ {0}, bandwidth : Nat \ {0}])
  /\ \A i \in DOMAIN t.links :
       LET l == t.links[i] IN
       /\ l.src # l.dst
       /\ IsBus(t, l.src) \/ IsBus(t, l.dst) => l.vcs = 1 /\ ~(IsBus(t, l.src) /\ IsBus(t, l.dst))
  /\ \A n \in DOMAIN t.routes : \A d \in DOMAIN t.routes[n] :
       n \in Nodes(t) /\ d \in Nodes(t) \ {n} /\ t.routes[n][d].next \in Nodes(t) /\ t.routes[n][d].vc \in Nat

ASSUME RoutingAssumption ==
  \A c \in DOMAIN Topologies :
    /\ WellFormed(Topologies[c])
    /\ None \notin Nodes(Topologies[c]) \union ({"out", "in"} \X Nat \X Nat)

-----------------------------------------------------------------------------
(* Buffers: net_link_create, net_add_bus_port                              *)

\* The buffers of a link on one side: one for each virtual channel.
Side(t, dir, i) == [v \in 1..t.links[i].vcs |-> <<dir, i, v>>]

OutputBuffers(t, n) ==
  FlattenSeq([i \in DOMAIN t.links |-> IF t.links[i].src = n /\ ~IsBus(t, n) THEN Side(t, "out", i) ELSE <<>>])
InputBuffers(t, n) ==
  FlattenSeq([i \in DOMAIN t.links |-> IF t.links[i].dst = n /\ ~IsBus(t, n) THEN Side(t, "in", i) ELSE <<>>])

\* src_buffer_list and dst_buffer_list of a bus
BusSources(t, u) ==
  FlattenSeq([i \in DOMAIN t.links |-> IF t.links[i].dst = u THEN <<<<"out", i, 1>>>> ELSE <<>>])
BusTargets(t, u) ==
  FlattenSeq([i \in DOMAIN t.links |-> IF t.links[i].src = u THEN <<<<"in", i, 1>>>> ELSE <<>>])

Outputs(t) == UNION {ToSet(Side(t, "out", i)) : i \in {i \in DOMAIN t.links : ~IsBus(t, t.links[i].src)}}
Inputs(t)  == UNION {ToSet(Side(t, "in", i)) : i \in {i \in DOMAIN t.links : ~IsBus(t, t.links[i].dst)}}
Owner(t, b) == IF b[1] = "out" THEN t.links[b[2]].src ELSE t.links[b[2]].dst

\* The input buffers that an output buffer can send to, and their nodes.
Targets(t, b) ==
  LET n == t.links[b[2]].dst IN
  IF IsBus(t, n) THEN ToSet(BusTargets(t, n)) ELSE {<<"in", b[2], b[3]>>}
Hops(t, b) == {Owner(t, i) : i \in Targets(t, b)}

-----------------------------------------------------------------------------
(* The routing table                                                       *)

\* net_routing_table_initiate: one-hop connections; of several buffers the last one stays.
Infinity(t) == Len(t.nodes)

Initiated(t) ==
  [n \in Nodes(t) |-> [d \in Nodes(t) |->
     LET outs == OutputBuffers(t, n)
         k    == SelectLastInSeq(outs, LAMBDA b : d \in Hops(t, b))
         fromBus == IsBus(t, n) /\ BusSources(t, n) # <<>> /\ d \in {Owner(t, i) : i \in ToSet(BusTargets(t, n))}
     IN IF n = d THEN [cost |-> 0, next |-> None, out |-> None]
        ELSE IF fromBus THEN [cost |-> 1, next |-> d, out |-> None]
        ELSE IF k > 0 THEN [cost |-> 1, next |-> d, out |-> outs[k]]
        ELSE [cost |-> Infinity(t), next |-> None, out |-> None]]]

\* One round of the Floyd-Warshall algorithm, for the ways over k; it leaves the entries of
\* and for k alone, so that the order of the inner loops does not matter.  BugShorter, off by
\* one, misses the ways of the greatest length.
BugShorter(new, old) == new + 1 < old
Shorter(new, old)    == new < old

Round(k) ==
  table' = [n \in Nodes(T) |-> [d \in Nodes(T) |->
    LET cost == table[n][k].cost + table[k][d].cost IN
    IF Shorter(cost, table[n][d].cost) THEN [table[n][d] EXCEPT !.cost = cost, !.next = k] ELSE table[n][d]]]

\* Then each entry is led back to its first hop, and gets the first output buffer that
\* reaches it.
FirstHop(n, d) ==
  LET hop[x \in {x \in Nodes(T) : table[n][x].next # None}] ==
        IF table[n][x].cost <= 1 THEN x ELSE hop[table[n][x].next]
  IN  hop[d]

FirstHops ==
  table' = [n \in Nodes(T) |-> [d \in Nodes(T) |->
    LET e    == table[n][d]
        h    == FirstHop(n, e.next)
        outs == OutputBuffers(T, n)
    IN  IF e.next = None \/ IsBus(T, n) THEN e
        ELSE [e EXCEPT !.next = h, !.out = outs[SelectInSeq(outs, LAMBDA b : h \in Hops(T, b))]]]]

-----------------------------------------------------------------------------
(* net_routing_table_cycle_detection: a depth-first search over the output   *)
(* buffers.  From b a message for d goes on in the output buffer that the    *)
(* next node has for d.                                                    *)

Onward(t, tab, b, d) ==
  LET e == tab[Owner(t, b)][d] IN IF e.out = b THEN tab[e.next][d].out ELSE None

\* What a visit that comes back to c from b finds: a buffer whose visit has not ended.
\* BugCloses takes a buffer that was left for one that is still visited.
BugCloses(s, b, c) == s.color[c] = "black" /\ s.parent[c] # b
Closes(s, b, c)    == s.color[c] = "gray" /\ s.parent[c] # b

Searches(t) ==
  [color : [Outputs(t) -> {"white", "gray", "black"}], parent : [Outputs(t) -> Outputs(t)], cycle : BOOLEAN]

Visit(t, tab) ==
  LET visit[b \in Outputs(t), s \in Searches(t)] ==
        LET along(r, d) ==
              LET c == Onward(t, tab, b, d) IN
              IF r.cycle \/ c = None THEN r
              ELSE LET w == IF r.color[c] = "white" THEN visit[c, [r EXCEPT !.parent[c] = b]] ELSE r
                   IN  [w EXCEPT !.cycle = @ \/ Closes(w, b, c)]
        IN  [FoldLeft(along, [s EXCEPT !.color[b] = "gray"], t.nodes) EXCEPT !.color[b] = "black"]
  IN  visit

HasCycle(t, tab) ==
  LET start == [color |-> [b \in Outputs(t) |-> "white"], parent |-> [b \in Outputs(t) |-> b], cycle |-> FALSE]
      from(s, b) == IF s.cycle \/ s.color[b] # "white" THEN s ELSE Visit(t, tab)[b, s]
  IN  FoldLeft(from, start, FlattenSeq([i \in DOMAIN t.nodes |-> OutputBuffers(t, t.nodes[i])])).cycle

-----------------------------------------------------------------------------
(* net_create_from_config, after the nodes and links                        *)

ListedRoutes(t) ==
  LET listed(n, d) == IF n \in DOMAIN t.routes /\ d \in DOMAIN t.routes[n] THEN <<<<n, d>>>> ELSE <<>>
  IN  FlattenSeq([i \in DOMAIN t.nodes |-> FlattenSeq([j \in DOMAIN t.nodes |-> listed(t.nodes[i], t.nodes[j])])])

\* The routes of a Routes section count only if strcmp, which compares each with the default
\* value of a missing one, returns just 1 (network.c:96), as it does in some C libraries.
InitRouting ==
  /\ topology \in DOMAIN Topologies
  /\ table = Initiated(T)
  /\ hasCycle = FALSE /\ phase = "table"
  /\ todo \in IF T.routes = <<>> THEN {T.nodes} ELSE {ListedRoutes(T), <<>>}

FloydWarshall ==
  /\ phase = "table" /\ T.routes = <<>>
  /\ \/ /\ todo # <<>>
        /\ Round(Head(todo))
        /\ todo' = Tail(todo) /\ UNCHANGED <<hasCycle, phase>>
     \/ /\ todo = <<>>
        /\ FirstHops
        /\ hasCycle' = HasCycle(T, table')
        /\ phase' = "routed" /\ UNCHANGED todo
  /\ UNCHANGED topology

\* net_routing_table_route_update for each listed route in turn, with a search for cycles
\* after each; has_cycle is never cleared.  It is fatal if no link leads to the next node or
\* the link has no such virtual channel.
ListRoutes ==
  /\ phase = "table" /\ T.routes # <<>>
  /\ IF todo = <<>> THEN phase' = "routed" /\ UNCHANGED <<table, hasCycle, todo>>
     ELSE LET n == Head(todo)[1]
              d == Head(todo)[2]
              r == T.routes[n][d]
              outs == OutputBuffers(T, n)
              k == SelectInSeq(outs, LAMBDA o : r.next \in Hops(T, o))
              b == outs[k]
          IN /\ k > 0 /\ b[3] + r.vc <= T.links[b[2]].vcs
             /\ table' = [table EXCEPT ![n][d] = [@ EXCEPT !.next = r.next, !.out = <<"out", b[2], b[3] + r.vc>>]]
             /\ hasCycle' = (hasCycle \/ HasCycle(T, table'))
             /\ todo' = Tail(todo) /\ UNCHANGED phase
  /\ UNCHANGED topology

Start == phase = "routed" /\ phase' = "ready" /\ UNCHANGED <<topology, table, hasCycle, todo>>

Configure == FloydWarshall \/ ListRoutes \/ Start

-----------------------------------------------------------------------------
\* Without a Routes section the routes are shortest paths: each next hop, which the entry's
\* output buffer reaches, is nearer by one to the destination, no neighbour is nearer still,
\* and there is no route only if no neighbour has one.
ShortestRoutes ==
  phase = "routed" /\ T.routes = <<>> =>
    \A n, d \in {n \in Nodes(T) : ~IsBus(T, n)} :
      LET e == table[n][d] IN
      /\ e.out # None =>
           /\ e.out \in ToSet(OutputBuffers(T, n)) /\ e.next \in Hops(T, e.out)
           /\ e.cost = table[e.next][d].cost + 1
      /\ e.out = None => n = d \/ e.cost = Infinity(T)
      /\ \A b \in ToSet(OutputBuffers(T, n)) : \A h \in Hops(T, b) : e.cost <= table[h][d].cost + 1

\* A circle of output buffers, each with a message for which the next is the way onward.
Circular ==
  \E C \in SUBSET Outputs(T) \ {{}} :
    \A b \in C : \E d \in Nodes(T) : Onward(T, table, b, d) \in C

\* The search for cycles finds one if there is one, and, with the routes all there from the
\* start, only then.
CyclesFound ==
  phase = "routed" =>
    /\ Circular => hasCycle
    /\ hasCycle /\ T.routes = <<>> => Circular

=============================================================================
