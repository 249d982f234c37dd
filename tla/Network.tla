-------------------------------- MODULE Network --------------------------------
(***************************************************************************)
(* The interconnection network (network/message.c): a message is inserted   *)
(* in the output buffer of its source, crosses links and buses to the input  *)
(* buffers of switches and of its destination, and is held there until its   *)
(* receiver calls net_receive.                                             *)
(*                                                                         *)
(* Every handler stalls in one of two ways: it schedules itself again for    *)
(* the cycle in which what is busy gets free, or it enters the wakeup list   *)
(* of a buffer, whose next net_buffer_extract schedules all of its list.     *)
(* The times "busy until cycle x" of the code are kept as the number of       *)
(* cycles left.  All nodes share the clock of the network.                  *)
(*                                                                         *)
(* MaxMessages and Sizes bound the runs.                                    *)
(***************************************************************************)
EXTENDS Integers, Sequences, FiniteSets, SequencesExt, EventList, Routing

CONSTANTS
  MaxMessages, Sizes
  \* Each description of Topologies also has: size, what each of its buffers holds, and
  \* traffic, the pairs of end nodes that exchange messages.

\* A message that is larger than a buffer is fatal.
ASSUME NetworkAssumption ==
  /\ MaxMessages \in Nat /\ Sizes \subseteq Nat \ {0}
  /\ \A c \in DOMAIN Topologies :
       LET t == Topologies[c] IN
       /\ t.size \in Nat /\ (\A z \in Sizes : z <= t.size)
       /\ t.traffic \subseteq Nodes(t) \X Nodes(t)
       /\ t.lanes \in [{n \in Nodes(t) : IsBus(t, n)} -> Nat \ {0}]
       /\ t.bandwidth \in [{n \in Nodes(t) : t.kind[n] # "end"} -> Nat \ {0}]
  /\ \A c \in DOMAIN Topologies : None \notin {"lane"} \X Nodes(Topologies[c]) \X Nat

Messages == 1..MaxMessages

-----------------------------------------------------------------------------
(* The network as it is after net_create_from_config.                       *)

Wire(t, b)   == LET n == t.links[b[2]].dst IN IF IsBus(t, n) THEN <<"bus", n>> ELSE <<"link", b[2]>>
Lanes(t, u)  == [k \in 1..t.lanes[u] |-> <<"lane", u, k>>]
RealLinks(t) == {i \in DOMAIN t.links : ~IsBus(t, t.links[i].src) /\ ~IsBus(t, t.links[i].dst)}

Built(t) ==
  LET outs   == Outputs(t)
      links  == {<<"link", i>> : i \in RealLinks(t)}
      buses  == {n \in Nodes(t) : IsBus(t, n)}
      lanes  == UNION {ToSet(Lanes(t, u)) : u \in buses}
  IN
  [node    |-> [b \in outs \union Inputs(t) |-> Owner(t, b)],
   size    |-> t.size,
   traffic |-> t.traffic,
   inputs  |-> [n \in Nodes(t) |-> InputBuffers(t, n)],
   wire    |-> [b \in outs |-> Wire(t, b)],
   targets |-> [b \in outs |-> Targets(t, b)],
   vcs     |-> [l \in links |-> Side(t, "out", l[2])],
   buses   |-> buses,
   sources |-> [u \in buses |-> BusSources(t, u)],
   lanes   |-> [u \in buses |-> Lanes(t, u)],
   speed   |-> [x \in links \union lanes |->
                  IF x \in links THEN t.links[x[2]].bandwidth ELSE t.bandwidth[x[2]]],
   switch  |-> t.bandwidth]

VARIABLES
  net,        \* buffers, links and buses
  requested,  \* number of messages the memory system has wanted to send
  msg,        \* source, destination, size; at: msg->buffer; busy: cycles until msg->busy ends
  sent,       \* messages sent, in this order
  buf,        \* list, count, wakeup (waiting events), read, write (busy cycles left), and for
              \* an output buffer of a switch its decision of this cycle and the buffer chosen last
  chan,       \* the same of a link or a lane: busy, decided, pick
  last,       \* last[u]: bus_node->last_node_index
  events      \* pending events

vars == <<routing, net, requested, msg, sent, buf, chan, last, events>>

Buffers == DOMAIN net.node
Links   == DOMAIN net.vcs

Init ==
  /\ InitRouting /\ net = Built(T)
  /\ requested = 0 /\ sent = <<>> /\ events = <<>>
  /\ msg = [m \in Messages |-> [src |-> None, dst |-> None, size |-> 0, at |-> None, busy |-> 0]]
  /\ buf = [b \in Buffers |->
              [list |-> <<>>, count |-> 0, wakeup |-> <<>>, read |-> 0, write |-> 0, decided |-> FALSE, pick |-> None]]
  /\ chan = [c \in Links \union UNION {ToSet(net.lanes[u]) : u \in net.buses} |->
              [busy |-> 0, decided |-> FALSE, pick |-> None]]
  /\ last = [u \in net.buses |-> 1]

-----------------------------------------------------------------------------
(* Buffers and handlers.  Definitions named Bug... are mistakes the           *)
(* properties must detect.                                                 *)

Event(ev, m, left) == [ev |-> ev, msg |-> m, left |-> left]
Latency(z, speed)  == (z - 1) \div speed + 1

Fits(z, b) == buf[b].count + z <= net.size

\* BugIsHead is content with any message.
BugIsHead(m) == buf[msg[m].at].list # <<>>
IsHead(m)    == LET b == msg[m].at IN buf[b].list # <<>> /\ Head(buf[b].list) = m

\* The handler of a due event runs.
Handles(ev) == IsDue(events) /\ Head(events).ev = ev
Current     == Head(events).msg

RetryAfter(n) == events' = Scheduled(Tail(events), [Head(events) EXCEPT !.left = n])

\* net_buffer_wait
WaitOn(b) ==
  /\ buf' = [buf EXCEPT ![b].wakeup = Append(@, Head(events))]
  /\ events' = Tail(events)

\* net_buffer_wakeup: the waiting events that are scheduled, and those that stay.  BugWakes
\* wakes only the first, BugKept removes none.
BugWakes(b) == IF buf[b].wakeup = <<>> THEN 0 ELSE 1
Wakes(b)    == Len(buf[b].wakeup)
Woken(b)    == SubSeq(buf[b].wakeup, 1, Wakes(b))
BugKept(b)  == buf[b].wakeup
Kept(b)     == SubSeq(buf[b].wakeup, Wakes(b) + 1, Len(buf[b].wakeup))

\* list_enqueue.  BugEnqueued adds the message at the other end.
BugEnqueued(b, m) == <<m>> \o buf[b].list
Enqueued(b, m)    == Append(buf[b].list, m)

\* net_buffer_extract and net_buffer_insert, and the next event of the message.  The
\* buffers bs are those after the scheduling decision.
Transfer(bs, m, from, to, lat, ev) ==
  /\ buf' = [bs EXCEPT ![from].list = Tail(@), ![from].count = @ - msg[m].size,
                       ![from].wakeup = Kept(from), ![from].read = lat,
                       ![to].list = Enqueued(to, m), ![to].count = @ + msg[m].size, ![to].write = lat]
  /\ msg' = [msg EXCEPT ![m].at = to, ![m].busy = lat]
  /\ events' = ScheduledAll(Tail(events), Append(Woken(from), Event(ev, m, lat)))

\* The i-th place to look at after the one chosen last.  BugTurn stays with that one.
BugTurn(s, pos, i) == pos
Turn(s, pos, i)    == ((pos + i - 1) % Len(s)) + 1

\* The next in turn of the sequence s that is in the set R.
RoundRobin(s, pos, R) ==
  LET turn == [i \in DOMAIN s |-> s[Turn(s, pos, i)]]
      k    == SelectInSeq(turn, LAMBDA x : x \in R)
  IN  IF k = 0 THEN None ELSE turn[k]

Place(s, b) == IF b = None THEN 1 ELSE SelectInSeq(s, LAMBDA x : x = b)

\* The buffers that are ready with a message at the head that is.
HeadsReady ==
  {b \in DOMAIN buf : buf[b].list # <<>> /\ buf[b].read = 0 /\ msg[Head(buf[b].list)].busy = 0}

-----------------------------------------------------------------------------
(* Sending: net_try_send_ev                                                *)

\* net_can_send_ev and EV_NET_SEND, with the events es pending.
TrySend(m, r, es) ==
  LET o == table[r.src][r.dst].out IN
  \/ /\ buf[o].write > 0
     /\ events' = Scheduled(es, Event("try", m, buf[o].write))
     /\ msg' = [msg EXCEPT ![m] = r]
     /\ UNCHANGED <<buf, sent>>
  \/ /\ buf[o].write = 0 /\ ~Fits(r.size, o)
     /\ buf' = [buf EXCEPT ![o].wakeup = Append(@, Event("try", m, 0))]
     /\ msg' = [msg EXCEPT ![m] = r]
     /\ events' = es
     /\ UNCHANGED sent
  \/ /\ buf[o].write = 0 /\ Fits(r.size, o)
     /\ buf' = [buf EXCEPT ![o].list = Enqueued(o, m), ![o].count = @ + r.size, ![o].write = 1]
     /\ msg' = [msg EXCEPT ![m] = [r EXCEPT !.at = o, !.busy = 1]]
     /\ events' = Scheduled(es, Event("output", m, 1))
     /\ sent' = Append(sent, m)

Request(s, d, z) ==
  LET m == requested + 1 IN
  /\ ready /\ m \in Messages /\ table[s][d].out # None
  /\ requested' = m
  /\ TrySend(m, [src |-> s, dst |-> d, size |-> z, at |-> None, busy |-> 0], events)
  /\ UNCHANGED <<routing, net, chan, last>>

Retry ==
  /\ Handles("try")
  /\ TrySend(Current, msg[Current], Tail(events))
  /\ UNCHANGED <<routing, net, requested, chan, last>>

-----------------------------------------------------------------------------
(* EV_NET_OUTPUT_BUFFER                                                    *)

NotHead(ev) ==
  /\ Handles(ev) /\ ~IsHead(Current)
  /\ WaitOn(msg[Current].at)
  /\ UNCHANGED <<routing, net, requested, msg, sent, chan, last>>

\* net_link_arbitrator_vc, once in a cycle
LinkPick(l) ==
  IF chan[l].decided THEN chan[l].pick
  ELSE RoundRobin(net.vcs[l], Place(net.vcs[l], chan[l].pick), HeadsReady)

OverLink ==
  LET m == Current
      b == msg[m].at
      l == net.wire[b]
      in == CHOOSE i \in net.targets[b] : TRUE
      lat == Latency(msg[m].size, net.speed[l])
      busy == IF buf[b].read > 0 THEN buf[b].read ELSE chan[l].busy
      shared == Len(net.vcs[l]) > 1
      pick == IF shared THEN LinkPick(l) ELSE b
      decided == IF shared THEN [chan EXCEPT ![l].decided = TRUE, ![l].pick = pick] ELSE chan
  IN
  /\ Handles("output") /\ IsHead(m) /\ l[1] = "link"
  /\ \/ /\ busy > 0 /\ RetryAfter(busy)
        /\ UNCHANGED <<buf, msg, chan>>
     \/ /\ busy = 0 /\ (pick # b \/ buf[in].write > 0)
        /\ RetryAfter(IF pick # b THEN 1 ELSE buf[in].write)
        /\ chan' = decided /\ UNCHANGED <<buf, msg>>
     \/ /\ busy = 0 /\ pick = b /\ buf[in].write = 0 /\ ~Fits(msg[m].size, in) /\ WaitOn(in)
        /\ chan' = decided /\ UNCHANGED msg
     \/ /\ busy = 0 /\ pick = b /\ buf[in].write = 0 /\ Fits(msg[m].size, in)
        /\ Transfer(buf, m, b, in, lat, "input")
        /\ chan' = [decided EXCEPT ![l].busy = lat]
  /\ UNCHANGED <<routing, net, requested, sent, last>>

\* net_bus_arbiteration_per_lane, once in a cycle.  BugLanePick forgets that the lane is busy.
BugLanePick(u, c, turn) ==
  IF chan[c].decided THEN chan[c].pick ELSE RoundRobin(net.sources[u], turn, HeadsReady)
LanePick(u, c, turn) ==
  IF chan[c].decided THEN chan[c].pick
  ELSE IF chan[c].busy > 0 THEN None ELSE RoundRobin(net.sources[u], turn, HeadsReady)

\* net_bus_arbitration: the first lane that the buffer gets, after the decisions of those
\* before it
Arbitration(u, b) ==
  LET decide(a, c) ==
        IF a.lane # None THEN a
        ELSE LET pick == LanePick(u, c, a.turn) IN
             [lane |-> IF pick = b THEN c ELSE None,
              turn |-> IF chan[c].decided \/ pick = None THEN a.turn ELSE Place(net.sources[u], pick),
              chan |-> [a.chan EXCEPT ![c].decided = TRUE, ![c].pick = pick]]
      after[k \in 0..Len(net.lanes[u])] ==
        IF k = 0 THEN [lane |-> None, turn |-> last[u], chan |-> chan]
        ELSE decide(after[k - 1], net.lanes[u][k])
  IN  after[Len(net.lanes[u])]

\* It is fatal if the bus does not lead to the next node.
OverBus ==
  LET m == Current
      b == msg[m].at
      u == net.wire[b][2]
      hop(i) == net.node[i] = table[net.node[b]][msg[m].dst].next
      in == CHOOSE i \in net.targets[b] : hop(i)
      won == Arbitration(u, b)
  IN
  /\ Handles("output") /\ IsHead(m) /\ net.wire[b][1] = "bus"
  /\ buf[b].read > 0 \/ \E i \in net.targets[b] : hop(i)
  /\ LET busy == IF buf[b].read > 0 THEN buf[b].read ELSE buf[in].write IN
     \/ /\ busy > 0 /\ RetryAfter(busy)
        /\ UNCHANGED <<buf, msg, chan, last>>
     \/ /\ busy = 0 /\ ~Fits(msg[m].size, in) /\ WaitOn(in)
        /\ UNCHANGED <<msg, chan, last>>
     \/ /\ busy = 0 /\ Fits(msg[m].size, in)
        /\ last' = [last EXCEPT ![u] = won.turn]
        /\ \/ /\ won.lane = None /\ RetryAfter(1)
              /\ chan' = won.chan /\ UNCHANGED <<buf, msg>>
           \/ /\ won.lane # None
              /\ LET lat == Latency(msg[m].size, net.speed[won.lane]) IN
                 /\ Transfer(buf, m, b, in, lat, "input")
                 /\ chan' = [won.chan EXCEPT ![won.lane].busy = lat]
  /\ UNCHANGED <<routing, net, requested, sent>>

-----------------------------------------------------------------------------
(* EV_NET_INPUT_BUFFER.  A node without a route, and an end node that is to   *)
(* forward a message, end the program.                                     *)

AtDestination(m) == net.node[msg[m].at] = msg[m].dst

Arrive ==
  /\ Handles("input") /\ IsHead(Current) /\ AtDestination(Current)
  /\ events' = Scheduled(Tail(events), Event("receive", Current, 0))
  /\ UNCHANGED <<routing, net, requested, msg, sent, buf, chan, last>>

\* net_node_schedule, once in a cycle
SwitchPick(o) ==
  LET n == net.node[o]
      mine == {b \in HeadsReady :
        /\ table[n][msg[Head(buf[b].list)].dst].out = o
        /\ Fits(msg[Head(buf[b].list)].size, o)}
  IN IF buf[o].decided THEN buf[o].pick ELSE RoundRobin(net.inputs[n], Place(net.inputs[n], buf[o].pick), mine)

ThroughSwitch ==
  LET m == Current
      b == msg[m].at
      o == table[net.node[b]][msg[m].dst].out
      busy == IF buf[b].read > 0 THEN buf[b].read ELSE buf[o].write
      pick == SwitchPick(o)
      lat == Latency(msg[m].size, net.switch[net.node[b]])
      decided == [buf EXCEPT ![o].decided = TRUE, ![o].pick = pick]
  IN
  /\ Handles("input") /\ IsHead(m) /\ ~AtDestination(m) /\ (buf[b].read > 0 \/ o # None)
  /\ \/ /\ busy > 0 /\ RetryAfter(busy)
        /\ UNCHANGED <<msg, buf>>
     \/ /\ busy = 0 /\ ~Fits(msg[m].size, o) /\ WaitOn(o)
        /\ UNCHANGED msg
     \/ /\ busy = 0 /\ Fits(msg[m].size, o) /\ pick # b /\ RetryAfter(1)
        /\ buf' = decided
        /\ UNCHANGED msg
     \/ /\ busy = 0 /\ Fits(msg[m].size, o) /\ pick = b /\ net.node[b] \in DOMAIN net.switch
        /\ Transfer(decided, m, b, o, lat, "output")
  /\ UNCHANGED <<routing, net, requested, sent, chan, last>>

-----------------------------------------------------------------------------
(* EV_NET_RECEIVE and the receiver                                         *)

\* net_receive
Absorbed(m, es) ==
  LET b == msg[m].at IN
  /\ buf' = [buf EXCEPT ![b].list = Tail(@), ![b].count = @ - msg[m].size, ![b].wakeup = Kept(b)]
  /\ msg' = [msg EXCEPT ![m].at = None]
  /\ events' = ScheduledAll(es, Woken(b))
  /\ UNCHANGED <<routing, net, requested, sent, chan, last>>

\* With a return event the receiver is told; without one the message is absorbed here.
Receive ==
  /\ Handles("receive")
  /\ \/ /\ events' = Scheduled(Tail(events), Event("return", Current, 0))
        /\ UNCHANGED <<routing, net, requested, msg, sent, buf, chan, last>>
     \/ Absorbed(Current, Tail(events))

\* The handler of the return event calls net_receive first of all.
Return ==
  /\ Handles("return")
  /\ Absorbed(Current, Tail(events))

-----------------------------------------------------------------------------
\* The time moves on to the next cycle of the network.
Tick ==
  /\ ready /\ IsQuiet(events)
  /\ events' = Elapsed(events)
  /\ msg' = [m \in Messages |-> [msg[m] EXCEPT !.busy = OneLess(@)]]
  /\ buf' = [b \in DOMAIN buf |-> [buf[b] EXCEPT !.read = OneLess(@), !.write = OneLess(@), !.decided = FALSE]]
  /\ chan' = [c \in DOMAIN chan |-> [chan[c] EXCEPT !.busy = OneLess(@), !.decided = FALSE]]
  /\ UNCHANGED <<routing, net, requested, sent, last>>

Step ==
  \/ Configure /\ UNCHANGED <<net, requested, msg, sent, buf, chan, last, events>>
  \/ Retry
  \/ NotHead("output") \/ OverLink \/ OverBus
  \/ NotHead("input") \/ Arrive \/ ThroughSwitch
  \/ Receive \/ Return
  \/ Tick

Next == Step \/ \E p \in net.traffic, z \in Sizes : Request(p[1], p[2], z)

Spec == Init /\ [][Next]_vars

\* The engine takes its next event or moves the time (EventEngine's Terminates and OnTime):
\* weak fairness of Step, which is always enabled while an event is pending, put without
\* ENABLED.
Idle     == ready /\ events = <<>>
FairSpec == Spec /\ ([]<>Idle \/ []<><<Step>>_vars)

-----------------------------------------------------------------------------
Pick   == Buffers \union {None}
Waits  == [ev : {"try", "output", "input", "receive", "return"}, msg : Messages, left : Nat]
Moving == [src : Nodes(T) \union {None}, dst : Nodes(T) \union {None}, size : Sizes \union {0},
           at : Pick, busy : Nat]
Ports  == [list : Seq(Messages), count : Nat, wakeup : Seq(Waits), read : Nat, write : Nat,
           decided : BOOLEAN, pick : Pick]
Carriers == [busy : Nat, decided : BOOLEAN, pick : Pick]

\* Type invariant: every waiting or pending event is one of a message, the busy times are
\* numbers of cycles, and a decision names a buffer.
TypeOK ==
  /\ requested \in 0..MaxMessages /\ sent \in Seq(Messages) /\ events \in Seq(Waits)
  /\ msg \in [Messages -> Moving]
  /\ buf \in [Buffers -> Ports]
  /\ chan \in [DOMAIN chan -> Carriers]
  /\ last \in [net.buses -> Nat]

InFlight == {m \in Messages : msg[m].at # None}
Received(m) == m \in ToSet(sent) /\ msg[m].at = None
Wanted   == 1..requested \ ToSet(sent)

\* The abstract module: which messages were sent, between which nodes, and which arrived.
Ends         == UNION {Nodes(Topologies[c]) : c \in DOMAIN Topologies}
SentWithEnds == [i \in DOMAIN sent |-> [msg |-> sent[i], src |-> msg[sent[i]].src, dst |-> msg[sent[i]].dst]]
Arrived      == {m \in ToSet(sent) : Received(m)}

\* Between two end nodes messages arrive in the order in which they were sent, each once.
\* The memory system matches requests and answers by message, and its protocol must see no
\* eviction overtaken by a later request of the same cache.
Channels == INSTANCE NetChannels WITH sent <- SentWithEnds, arrived <- Arrived
ImplementsChannels == Channels!Spec

\* The places where the handling of a message goes on.
Pending(m) ==
  {<<<<"events">>, i>> : i \in {i \in DOMAIN events : events[i].msg = m}}
    \union UNION {{<<b, i>> : i \in {i \in DOMAIN buf[b].wakeup : buf[b].wakeup[i].msg = m}} : b \in Buffers}

\* A message on its way, or one that is still to be sent, has exactly one event, pending or
\* in a wakeup list: no stall forgets it and no extraction wakes it twice.
OneContinuation ==
  /\ \A m \in InFlight \union Wanted : Cardinality(Pending(m)) = 1
  /\ \A m \in Messages : Received(m) => Pending(m) = {}

\* A message waits in the wakeup list of a buffer only while it is not the head of that
\* buffer or does not fit in it: a wakeup was never missed, so who waits is woken by an
\* extraction that is still to come.
NoLostWakeup ==
  \A b \in Buffers : \A i \in DOMAIN buf[b].wakeup :
    LET m == buf[b].wakeup[i].msg IN
    IF msg[m].at = b THEN ~IsHead(m) ELSE ~Fits(msg[m].size, b)

\* What the handlers assert: a message is in the buffer it says it is in and has been counted
\* there, no buffer holds more than its size or keeps an event waiting while it is empty, the
\* last transfer of a message is over when it moves on (msg->busy < cycle), and the receiver
\* finds it at the head.
CodeAssertions ==
  /\ \A b \in Buffers :
       /\ \A m \in ToSet(buf[b].list) : msg[m].at = b /\ msg[m].size <= buf[b].count
       /\ buf[b].count <= net.size
       /\ buf[b].wakeup # <<>> => buf[b].count > 0
  /\ \A i \in DOMAIN events :
       LET e == events[i] IN
       /\ e.ev \in {"output", "input"} => e.msg \in InFlight /\ msg[e.msg].busy <= e.left
       /\ e.ev \in {"receive", "return"} => IsHead(e.msg) /\ AtDestination(e.msg)

\* A link carries one message at a time, whatever its virtual channels, a bus as many as it
\* has lanes, a switch one to each of its output buffers.
MovingTo(bs) == {m \in InFlight : msg[m].at \in bs /\ msg[m].busy > 0}
OneTransfer ==
  /\ \A l \in Links : Cardinality(MovingTo(UNION {net.targets[b] : b \in ToSet(net.vcs[l])})) <= 1
  /\ \A u \in net.buses : 
       Cardinality(MovingTo(UNION {net.targets[b] : b \in ToSet(net.sources[u])})) <= Len(net.lanes[u])
  /\ \A b \in Buffers : Cardinality(MovingTo({b})) <= 1

\* Every message that the memory system wants to send is sent and arrives, though senders
\* are overtaken and buffers are full, unless a cycle of routes was reported.
Delivered == \A m \in Messages : requested = m /\ ~hasCycle ~> Received(m)

=============================================================================
