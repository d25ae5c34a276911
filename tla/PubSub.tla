------------------------------- MODULE PubSub -------------------------------
(***************************************************************************)
(* What a Provider promises (server.go 45-73, and the doc comments of Joe's *)
(* Subscribe, Publish and Shutdown, joe.go 121-123, 149-154, 172-175),     *)
(* with every goroutine, channel and loop step abstracted away:            *)
(*                                                                         *)
(*  - a subscription is new, then on (registered for its topics) or off   *)
(*    without ever having been on, and an on subscription goes off once;  *)
(*  - a message is accepted while the provider runs, with a non-empty set *)
(*    of topics;                                                           *)
(*  - an accepted message reaches a subscription that is on and shares a  *)
(*    topic with it, at most once;                                         *)
(*  - stopping the provider turns every subscription off, and nothing is  *)
(*    subscribed or accepted after it.                                    *)
(*                                                                         *)
(* Delivery is not promised here: a sink may fail or a subscription end    *)
(* first.                                                                  *)
(***************************************************************************)
EXTENDS Sequences, Functions

CONSTANTS Clients, Msgs, Topics

VARIABLES
  phase,      \* each subscription: "new", "on" or "off"
  subTopics,  \* the topics each subscription asked for
  accepted,   \* the messages Publish has handed to the provider
  msgTopics,  \* the topics each accepted message was published to
  delivered,  \* the messages each subscription's sink has accepted, in order
  closed      \* the provider has stopped

pvars == <<phase, subTopics, accepted, msgTopics, delivered, closed>>

PInit ==
  /\ phase = [c \in Clients |-> "new"]
  /\ subTopics = [c \in Clients |-> {}]
  /\ accepted = {}
  /\ msgTopics = [m \in Msgs |-> {}]
  /\ delivered = [c \in Clients |-> <<>>]
  /\ closed = FALSE

(* Subscribe registers the sink for its topics while the provider runs.     *)
Subscribe(c, ts) ==
  /\ ~closed
  /\ phase[c] = "new"
  /\ phase' = [phase EXCEPT ![c] = "on"]
  /\ subTopics' = [subTopics EXCEPT ![c] = ts]
  /\ UNCHANGED <<accepted, msgTopics, delivered, closed>>

(* Subscribe ends without registering: the provider is closed or the       *)
(* replay of older messages failed.                                         *)
Refuse(c, ts) ==
  /\ phase[c] = "new"
  /\ phase' = [phase EXCEPT ![c] = "off"]
  /\ subTopics' = [subTopics EXCEPT ![c] = ts]
  /\ UNCHANGED <<accepted, msgTopics, delivered, closed>>

(* The subscription is removed: its context is done or its sink failed.   *)
Unsubscribe(c) ==
  /\ phase[c] = "on"
  /\ phase' = [phase EXCEPT ![c] = "off"]
  /\ UNCHANGED <<subTopics, accepted, msgTopics, delivered, closed>>

(* Publish hands a message with a non-empty set of topics to the running   *)
(* provider.                                                                *)
Publish(m, ts) ==
  /\ ~closed
  /\ m \notin accepted
  /\ ts # {}
  /\ accepted' = accepted \cup {m}
  /\ msgTopics' = [msgTopics EXCEPT ![m] = ts]
  /\ UNCHANGED <<phase, subTopics, delivered, closed>>

(* The sink of a subscription that is on and shares a topic with the      *)
(* message accepts it, once.                                                *)
Deliver(c, m) ==
  /\ m \in accepted
  /\ phase[c] = "on"
  /\ msgTopics[m] \cap subTopics[c] # {}
  /\ m \notin Range(delivered[c])
  /\ delivered' = [delivered EXCEPT ![c] = Append(@, m)]
  /\ UNCHANGED <<phase, subTopics, accepted, msgTopics, closed>>

(* Shutdown: every subscription still on is closed with the provider.     *)
Stop ==
  /\ ~closed
  /\ closed' = TRUE
  /\ phase' = [c \in Clients |-> IF phase[c] = "on" THEN "off" ELSE phase[c]]
  /\ UNCHANGED <<subTopics, accepted, msgTopics, delivered>>

PNext ==
  \/ \E c \in Clients, ts \in SUBSET Topics :
       Subscribe(c, ts) \/ Refuse(c, ts)
  \/ \E c \in Clients : Unsubscribe(c)
  \/ \E m \in Msgs, ts \in SUBSET Topics : Publish(m, ts)
  \/ \E c \in Clients, m \in Msgs : Deliver(c, m)
  \/ Stop

PSpec == PInit /\ [][PNext]_pvars

=============================================================================
