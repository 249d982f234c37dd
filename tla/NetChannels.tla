------------------------------ MODULE NetChannels ------------------------------
(***************************************************************************)
(* What the interconnection network promises to the memory system: between  *)
(* any two end nodes messages arrive in the order in which they were sent,   *)
(* each once, and none is made up.  Network implements this.                *)
(***************************************************************************)
EXTENDS Naturals, Sequences

CONSTANTS Ends, Messages

VARIABLES
  sent,      \* the messages sent, with their ends, in this order
  arrived    \* those that have arrived

vars == <<sent, arrived>>

Init == sent = <<>> /\ arrived = {}

Send(m, s, d) ==
  /\ \A i \in DOMAIN sent : sent[i].msg # m
  /\ sent' = Append(sent, [msg |-> m, src |-> s, dst |-> d])
  /\ UNCHANGED arrived

Receive(i) ==
  /\ sent[i].msg \notin arrived
  /\ \A j \in 1..(i - 1) :
       sent[j].src = sent[i].src /\ sent[j].dst = sent[i].dst => sent[j].msg \in arrived
  /\ arrived' = arrived \union {sent[i].msg}
  /\ UNCHANGED sent

Next ==
  \/ \E m \in Messages : \E s, d \in Ends : Send(m, s, d)
  \/ \E i \in DOMAIN sent : Receive(i)

Spec == Init /\ [][Next]_vars

=============================================================================
