------------------------- MODULE JoeRefinementProofs -------------------------
(***************************************************************************)
(* Proofs that Joe delivers each message at most once and only to its own *)
(* topics (AtMostOnce, TopicIsolation), and that Joe implements the        *)
(* Provider contract PubSub under the mapping of JoeRefinement.            *)
(***************************************************************************)
EXTENDS JoeRefinement, JoeProofs

(* Appending an element that is not yet in an injective sequence keeps it *)
(* injective, and adds exactly that element to its range.                 *)
LEMMA AppendFresh ==
  ASSUME NEW S, NEW s \in Seq(S), NEW x \in S, x \notin Range(s)
  PROVE  /\ IsInjective(s) => IsInjective(Append(s, x))
         /\ Range(Append(s, x)) = Range(s) \cup {x}
<1>1. /\ DOMAIN Append(s, x) = 1..Len(s) + 1
      /\ \A i \in 1..Len(s) : Append(s, x)[i] = s[i]
      /\ Append(s, x)[Len(s) + 1] = x
      /\ DOMAIN s = 1..Len(s)
  OBVIOUS
<1>2. \A i \in 1..Len(s) : s[i] # x
  BY <1>1 DEF Range
<1>3. IsInjective(s) => IsInjective(Append(s, x))
  BY <1>1, <1>2 DEF IsInjective
<1>4. Range(Append(s, x)) = Range(s) \cup {x}
  BY <1>1 DEF Range
<1>. QED
  BY <1>3, <1>4

(* The head and the tail of a non-empty sequence are drawn from its range. *)
LEMMA HeadTailRange ==
  ASSUME NEW S, NEW s \in Seq(S), s # << >>
  PROVE  /\ Head(s) \in Range(s)
         /\ Range(Tail(s)) \subseteq Range(s)
<1>1. Len(s) >= 1 /\ DOMAIN s = 1..Len(s)
  OBVIOUS
<1>2. Head(s) = s[1] /\ 1 \in DOMAIN s
  BY <1>1
<1>3. /\ DOMAIN Tail(s) = 1..Len(s) - 1
      /\ \A i \in 1..Len(s) - 1 : Tail(s)[i] = s[i + 1] /\ i + 1 \in DOMAIN s
  BY <1>1
<1>. QED
  BY <1>2, <1>3 DEF Range

(***************************************************************************)
(* What the loop has delivered.  AtMostOnce and TopicIsolation are not     *)
(* inductive alone: PubDeliver appends pub.msg to the client's history,   *)
(* so the publish case in progress must only hold clients that share a    *)
(* topic with the message and have not had it yet (`seen`), and a          *)
(* message or a client whose topics can still change must not be in any   *)
(* history.                                                                 *)
(***************************************************************************)
(* Every client in the table is under topics of its own subscription.     *)
TopicsSubscribed ==
  \A c \in Clients, t \in Topics : c \in topics[t] => t \in ctopics[c]

(* A Subscribe not yet answered by the loop has had no message.           *)
FreshUndelivered ==
  \A c \in Clients : cpc[c] \in {"idle", "sending"} => delivered[c] = << >>

(* A Publish past its len(topics) check has topics.                        *)
SendingHasTopics == \A m \in Msgs : ppc[m] = "sending" => ptopics[m] # << >>

(* Only messages the loop has taken are delivered.                         *)
DeliveredAccepted == \A c \in Clients : Range(delivered[c]) \subseteq Accepted

(* The publish case in progress: its message was accepted, the topics it  *)
(* has left are the message's, the subscribers it has left share a topic  *)
(* with it, and whoever already has the message is in `seen`.             *)
FanOut ==
  lpc = "publish" =>
    /\ pub.msg \in Accepted
    /\ Range(pub.rest) \subseteq Range(ptopics[pub.msg])
    /\ \A c \in pub.cur : ctopics[c] \cap Range(ptopics[pub.msg]) # {}
    /\ \A c \in Clients : pub.msg \in Range(delivered[c]) => c \in pub.seen

Deliveries ==
  /\ TopicsSubscribed
  /\ FreshUndelivered
  /\ SendingHasTopics
  /\ DeliveredAccepted
  /\ FanOut
  /\ AtMostOnce
  /\ TopicIsolation

RInv == IInv /\ Deliveries

(* Deliveries reads only these variables.                                   *)
dvars == <<topics, lpc, pub, cpc, ctopics, ppc, pres, ptopics, delivered>>

LEMMA DeliveriesFrame ==
  ASSUME Deliveries, UNCHANGED dvars
  PROVE  Deliveries'
  BY DEF Deliveries, dvars, TopicsSubscribed, FreshUndelivered,
         SendingHasTopics, DeliveredAccepted, FanOut, AtMostOnce,
         TopicIsolation, Accepted

(* Facts of IInv the steps below use.                                       *)
LEMMA HandleFacts ==
  ASSUME IInv
  PROVE  /\ TypeOK
         /\ pub.cur \subseteq Registered
         /\ lpc # "publish" => pub.cur = {}
         /\ \A c \in Clients : cpc[c] \in {"idle", "sending"} =>
                                 c \notin Registered
         /\ \A c \in Registered : lpc # "exited" => ~subClosed[c]
  BY DEF IInv, Handles, RegisteredHandleOpen

(* A step that changes only the place of one Subscribe, to a place other  *)
(* than idle and sending or for a client that has had no message, keeps    *)
(* Deliveries.                                                              *)
LEMMA CpcStep ==
  ASSUME Deliveries, NEW c \in Clients,
         cpc'[c] \notin {"idle", "sending"} \/ delivered[c] = << >>,
         \A d \in Clients \ {c} : cpc'[d] = cpc[d],
         UNCHANGED <<topics, lpc, pub, ctopics, ppc, pres, ptopics, delivered>>
  PROVE  Deliveries'
<1>1. FreshUndelivered'
  BY DEF Deliveries, FreshUndelivered
<1>. QED
  BY <1>1 DEF Deliveries, TopicsSubscribed, SendingHasTopics,
     DeliveredAccepted, FanOut, AtMostOnce, TopicIsolation, Accepted

(* A step of the loop that leaves it outside the publish case and changes  *)
(* neither the table, the calls nor the histories keeps Deliveries.         *)
LEMMA LoopStep ==
  ASSUME Deliveries, lpc' # "publish",
         UNCHANGED <<topics, cpc, ctopics, ppc, pres, ptopics, delivered>>
  PROVE  Deliveries'
  BY DEF Deliveries, TopicsSubscribed, FreshUndelivered, SendingHasTopics,
         DeliveredAccepted, FanOut, AtMostOnce, TopicIsolation, Accepted

(* A Publish that returns without the loop taking its message keeps       *)
(* Deliveries: the message was not accepted and is not afterwards.         *)
LEMMA PublishRefusedStep ==
  ASSUME TypeOK, Deliveries, NEW m \in Msgs, ppc[m] \in {"idle", "sending"},
         ppc' = [ppc EXCEPT ![m] = "returned"], pres'[m] # "nil",
         \A n \in Msgs \ {m} : pres'[n] = pres[n],
         UNCHANGED <<topics, lpc, pub, cpc, ctopics, ptopics, delivered>>
  PROVE  Deliveries'
<1>1. Accepted' = Accepted
  BY DEF Accepted, TypeOK
<1>2. SendingHasTopics'
  BY DEF Deliveries, SendingHasTopics, TypeOK
<1>. QED
  BY <1>1, <1>2 DEF Deliveries, TopicsSubscribed, FreshUndelivered,
     DeliveredAccepted, FanOut, AtMostOnce, TopicIsolation

(* PublishStart fixes the topics of a message nobody has received.         *)
LEMMA PublishStartStep ==
  ASSUME TypeOK, Deliveries, NEW m \in Msgs, NEW ts \in Seq(Topics),
         ts # << >>, PublishStart(m, ts)
  PROVE  Deliveries'
<1>1. /\ m \notin Accepted
      /\ ppc' = [ppc EXCEPT ![m] = "sending"]
      /\ ptopics' = [ptopics EXCEPT ![m] = ts]
      /\ UNCHANGED <<topics, lpc, pub, cpc, ctopics, pres, delivered>>
  BY DEF PublishStart, Accepted
<1>2. Accepted' = Accepted
  BY <1>1 DEF Accepted, TypeOK
<1>3. \A n \in Accepted : ptopics'[n] = ptopics[n]
  BY <1>1 DEF Accepted, TypeOK
<1>4. SendingHasTopics'
  BY <1>1 DEF Deliveries, SendingHasTopics, TypeOK
<1>5. TopicIsolation'
  <2>1. \A c \in Clients : \A i \in DOMAIN delivered[c] :
          delivered[c][i] \in Accepted
    BY DEF Deliveries, DeliveredAccepted, Range
  <2>. QED
    BY <1>1, <1>3, <2>1 DEF Deliveries, TopicIsolation
<1>6. FanOut'
  BY <1>1, <1>2, <1>3 DEF Deliveries, FanOut
<1>. QED
  BY <1>1, <1>2, <1>4, <1>5, <1>6 DEF Deliveries, TopicsSubscribed,
     FreshUndelivered, DeliveredAccepted, AtMostOnce

(* The loop takes a subscription: it registers the client under its own  *)
(* topics, or refuses it.                                                  *)
LEMMA SubscriptionStep ==
  ASSUME IInv, Deliveries, NEW c \in Clients, Subscription(c)
  PROVE  Deliveries'
<1>1. /\ cpc[c] = "sending" /\ cpc' = [cpc EXCEPT ![c] = "waiting"]
      /\ lpc = "select"
      /\ UNCHANGED <<lpc, pub, ctopics, ppc, pres, ptopics, delivered>>
  BY DEF Subscription
<1>2. \/ topics' = topics
      \/ topics' = [t \in Topics |-> IF t \in ctopics[c] THEN topics[t] \cup {c}
                                                        ELSE topics[t]]
  BY DEF Subscription
<1>0. TypeOK
  BY HandleFacts
<1>3. TopicsSubscribed'
  <2>1. CASE topics' = topics
    BY <1>1, <2>1 DEF Deliveries, TopicsSubscribed
  <2>2. CASE topics' = [t \in Topics |-> IF t \in ctopics[c]
                                          THEN topics[t] \cup {c}
                                          ELSE topics[t]]
    BY <1>1, <2>2 DEF Deliveries, TopicsSubscribed
  <2>. QED
    BY <1>2, <2>1, <2>2
<1>4. /\ \A d \in Clients \ {c} : cpc'[d] = cpc[d]
      /\ cpc'[c] \notin {"idle", "sending"}
  BY <1>0, <1>1 DEF TypeOK
<1>5. FreshUndelivered'
  BY <1>1, <1>4 DEF Deliveries, FreshUndelivered
<1>. QED
  BY <1>1, <1>3, <1>5 DEF Deliveries, SendingHasTopics, DeliveredAccepted,
     FanOut, AtMostOnce, TopicIsolation, Accepted

(* The loop removes a subscriber from every topic.                         *)
LEMMA RemoveStep ==
  ASSUME TypeOK, Deliveries, NEW c \in Clients,
         topics' = [t \in Topics |-> topics[t] \ {c}],
         \A d \in Clients : cpc'[d] \in {"idle", "sending"} =>
                             cpc[d] \in {"idle", "sending"},
         UNCHANGED <<lpc, ctopics, ppc, pres, ptopics, delivered>>,
         pub'.msg = pub.msg, pub'.rest = pub.rest, pub'.seen = pub.seen,
         pub'.cur \subseteq pub.cur
  PROVE  Deliveries'
<1>1. TopicsSubscribed'
  BY DEF Deliveries, TopicsSubscribed, TypeOK
<1>2. FreshUndelivered'
  BY DEF Deliveries, FreshUndelivered
<1>. QED
  BY <1>1, <1>2 DEF Deliveries, SendingHasTopics,
     DeliveredAccepted, FanOut, AtMostOnce, TopicIsolation, Accepted



(* The loop takes a message: the publish case starts with the accepted    *)
(* message, its topics, no subscriber and an empty `seen`.                 *)
LEMMA PublishAcceptStep ==
  ASSUME TypeOK, Deliveries, NEW m \in Msgs, PublishAccept(m)
  PROVE  Deliveries'
<1>1. /\ ppc[m] = "sending" /\ m \notin Accepted
      /\ ppc' = [ppc EXCEPT ![m] = "returned"]
      /\ pres' = [pres EXCEPT ![m] = "nil"]
      /\ lpc' = "publish"
      /\ pub' = [msg |-> m, rest |-> ptopics[m], cur |-> {}, seen |-> {}]
      /\ UNCHANGED <<topics, cpc, ctopics, ptopics, delivered>>
  BY DEF PublishAccept, Accepted
<1>2. Accepted' = Accepted \cup {m}
  BY <1>1 DEF Accepted, TypeOK
<1>3. SendingHasTopics'
  BY <1>1 DEF Deliveries, SendingHasTopics, TypeOK
<1>4. \A c \in Clients : m \notin Range(delivered[c])
  BY <1>1 DEF Deliveries, DeliveredAccepted
<1>5. FanOut'
  BY <1>1, <1>2, <1>4 DEF FanOut
<1>6. DeliveredAccepted'
  BY <1>1, <1>2 DEF Deliveries, DeliveredAccepted
<1>. QED
  BY <1>1, <1>3, <1>5, <1>6 DEF Deliveries, TopicsSubscribed,
     FreshUndelivered, AtMostOnce, TopicIsolation

(* The publish case moves on to the subscribers of its next topic.         *)
LEMMA PubNextTopicStep ==
  ASSUME TypeOK, Deliveries, PubNextTopic
  PROVE  Deliveries'
<1>1. /\ lpc = "publish" /\ pub.rest # << >> /\ pub.rest \in Seq(Topics)
      /\ pub' = [pub EXCEPT !.cur = topics[Head(pub.rest)],
                            !.rest = Tail(pub.rest)]
      /\ UNCHANGED <<topics, lpc, cpc, ctopics, ppc, pres, ptopics, delivered>>
  BY DEF PubNextTopic, TypeOK
<1>2. /\ Head(pub.rest) \in Range(pub.rest)
      /\ Range(Tail(pub.rest)) \subseteq Range(pub.rest)
  BY <1>1, HeadTailRange
<1>3. Head(pub.rest) \in Topics
  BY <1>1
<1>4. /\ pub'.msg = pub.msg /\ pub'.seen = pub.seen
      /\ pub'.cur = topics[Head(pub.rest)] /\ pub'.rest = Tail(pub.rest)
  BY <1>1 DEF TypeOK
<1>5. \A c \in topics[Head(pub.rest)] :
        ctopics[c] \cap Range(ptopics[pub.msg]) # {}
  BY <1>1, <1>2, <1>3 DEF Deliveries, TopicsSubscribed, FanOut, TypeOK
<1>6. FanOut'
  BY <1>1, <1>2, <1>4, <1>5 DEF Deliveries, FanOut, Accepted
<1>. QED
  BY <1>1, <1>6 DEF Deliveries, TopicsSubscribed, FreshUndelivered,
     SendingHasTopics, DeliveredAccepted, AtMostOnce, TopicIsolation, Accepted

(* A subscriber that succeeds gets the message it did not have, and joins *)
(* `seen`.                                                                  *)
LEMMA PubDeliverStep ==
  ASSUME IInv, Deliveries, NEW c \in Clients, PubDeliver(c)
  PROVE  Deliveries'
<1>0. TypeOK /\ pub.cur \subseteq Registered
      /\ \A d \in Clients : cpc[d] \in {"idle", "sending"} => d \notin Registered
  BY HandleFacts
<1>1. /\ lpc = "publish" /\ c \in pub.cur /\ c \notin pub.seen
      /\ delivered' = [delivered EXCEPT ![c] = Append(@, pub.msg)]
      /\ pub' = [pub EXCEPT !.cur = @ \ {c}, !.seen = @ \cup {c}]
      /\ UNCHANGED <<topics, lpc, cpc, ctopics, ppc, pres, ptopics>>
  BY DEF PubDeliver
<1>2. /\ pub.msg \in Accepted
      /\ ctopics[c] \cap Range(ptopics[pub.msg]) # {}
      /\ pub.msg \notin Range(delivered[c])
  BY <1>1 DEF Deliveries, FanOut
<1>3. /\ delivered[c] \in Seq(Msgs) /\ pub.msg \in Msgs
      /\ cpc[c] \notin {"idle", "sending"}
  BY <1>0, <1>1 DEF TypeOK
<1>4. /\ IsInjective(delivered[c]) => IsInjective(delivered'[c])
      /\ Range(delivered'[c]) = Range(delivered[c]) \cup {pub.msg}
  <2>1. delivered'[c] = Append(delivered[c], pub.msg)
    BY <1>0, <1>1 DEF TypeOK
  <2>. QED
    BY <2>1, <1>2, <1>3, AppendFresh
<1>5. \A d \in Clients \ {c} : delivered'[d] = delivered[d]
  BY <1>0, <1>1 DEF TypeOK
<1>6. /\ pub'.msg = pub.msg /\ pub'.rest = pub.rest
      /\ pub'.cur = pub.cur \ {c} /\ pub'.seen = pub.seen \cup {c}
  BY <1>0, <1>1 DEF TypeOK
<1>7. AtMostOnce'
  BY <1>4, <1>5 DEF Deliveries, AtMostOnce
<1>8. DeliveredAccepted'
  BY <1>1, <1>2, <1>4, <1>5 DEF Deliveries, DeliveredAccepted, Accepted
<1>9. FreshUndelivered'
  BY <1>1, <1>3, <1>5 DEF Deliveries, FreshUndelivered
<1>10. FanOut'
  BY <1>1, <1>4, <1>5, <1>6 DEF Deliveries, FanOut, Accepted
<1>11. TopicIsolation'
  <2>1. SUFFICES ASSUME NEW i \in DOMAIN delivered'[c]
                 PROVE  Range(ptopics[delivered'[c][i]]) \cap ctopics[c] # {}
    BY <1>1, <1>5 DEF Deliveries, TopicIsolation
  <2>2. delivered'[c] = Append(delivered[c], pub.msg)
    BY <1>0, <1>1 DEF TypeOK
  <2>3. CASE i \in DOMAIN delivered[c]
    <3>1. delivered'[c][i] = delivered[c][i]
      BY <2>2, <2>3, <1>3
    <3>. QED
      BY <2>3, <3>1 DEF Deliveries, TopicIsolation
  <2>4. CASE i \notin DOMAIN delivered[c]
    <3>1. delivered'[c][i] = pub.msg
      BY <2>2, <2>4, <1>3
    <3>. QED
      BY <3>1, <1>2
  <2>. QED
    BY <2>3, <2>4
<1>. QED
  BY <1>1, <1>7, <1>8, <1>9, <1>10, <1>11 DEF Deliveries, TopicsSubscribed,
     SendingHasTopics


(* Subscribe enters with its topics: the client is in no topic, in no     *)
(* publish case and has had no message yet.                                *)
LEMMA SubscribeStartStep ==
  ASSUME IInv, Deliveries, NEW c \in Clients, NEW ts \in SUBSET Topics,
         SubscribeStart(c, ts)
  PROVE  Deliveries'
<1>0. TypeOK /\ pub.cur \subseteq Registered
      /\ \A d \in Clients : cpc[d] \in {"idle", "sending"} => d \notin Registered
  BY HandleFacts
<1>1. /\ cpc[c] = "idle"
      /\ cpc' = [cpc EXCEPT ![c] = "sending"]
      /\ ctopics' = [ctopics EXCEPT ![c] = ts]
      /\ UNCHANGED <<topics, lpc, pub, ppc, pres, ptopics, delivered>>
  BY DEF SubscribeStart
<1>2. /\ \A t \in Topics : c \notin topics[t]
      /\ c \notin pub.cur
      /\ delivered[c] = << >>
  BY <1>0, <1>1 DEF Registered, Deliveries, FreshUndelivered
<1>3. \A d \in Clients \ {c} : cpc'[d] = cpc[d] /\ ctopics'[d] = ctopics[d]
  BY <1>0, <1>1 DEF TypeOK
<1>4. TopicsSubscribed'
  BY <1>1, <1>2, <1>3 DEF Deliveries, TopicsSubscribed
<1>5. FreshUndelivered'
  BY <1>1, <1>2, <1>3 DEF Deliveries, FreshUndelivered
<1>6. FanOut'
  BY <1>1, <1>2, <1>3 DEF Deliveries, FanOut, Accepted
<1>7. TopicIsolation'
  BY <1>1, <1>2, <1>3 DEF Deliveries, TopicIsolation
<1>. QED
  BY <1>1, <1>4, <1>5, <1>6, <1>7 DEF Deliveries, SendingHasTopics,
     DeliveredAccepted, AtMostOnce, Accepted

(* Every step keeps Deliveries; IInv of both states is given.               *)
LEMMA DeliveriesStep == IInv /\ IInv' /\ Deliveries /\ [AnyNext]_vars => Deliveries'
<1>. SUFFICES ASSUME IInv, IInv', Deliveries, [AnyNext]_vars PROVE Deliveries'
  OBVIOUS
<1>0. TypeOK
  BY HandleFacts
<1>1. CASE UNCHANGED vars
  BY <1>1, DeliveriesFrame DEF vars, dvars
<1>2. ASSUME NEW c \in Clients, NEW ts \in SUBSET Topics, SubscribeStart(c, ts)
      PROVE  Deliveries'
  BY <1>2, SubscribeStartStep
<1>3. ASSUME NEW c \in Clients,
             SubscribeClosed(c) \/ SubscribeReceive(c) \/ SubscribeCancelled(c)
      PROVE  Deliveries'
  <2>1. /\ cpc'[c] \notin {"idle", "sending"}
        /\ \A d \in Clients \ {c} : cpc'[d] = cpc[d]
        /\ UNCHANGED <<topics, lpc, pub, ctopics, ppc, pres, ptopics, delivered>>
    BY <1>0, <1>3 DEF SubscribeClosed, SubscribeReceive, SubscribeCancelled,
       TypeOK
  <2>. QED
    BY <2>1, CpcStep
<1>4. ASSUME NEW c \in Clients, Subscription(c) PROVE Deliveries'
  BY <1>4, SubscriptionStep
<1>5. ASSUME NEW c \in Clients, Unsubscription(c) PROVE Deliveries'
  <2>1. /\ topics' = [t \in Topics |-> topics[t] \ {c}]
        /\ cpc' = [cpc EXCEPT ![c] = "returned"]
        /\ UNCHANGED <<lpc, pub, ctopics, ppc, pres, ptopics, delivered>>
    BY <1>5 DEF Unsubscription, RemoveSubscriber
  <2>2. \A d \in Clients : cpc'[d] \in {"idle", "sending"} =>
                             cpc[d] \in {"idle", "sending"}
    BY <2>1, <1>0 DEF TypeOK
  <2>. QED
    BY <2>1, <2>2, <1>0, RemoveStep
<1>6. ASSUME NEW c \in Clients, CancelContext(c) PROVE Deliveries'
  BY <1>6, DeliveriesFrame DEF CancelContext, dvars
<1>7. ASSUME NEW m \in Msgs,
             PublishClosed(m) \/ \E ts \in Seq(Topics) : PublishNoTopic(m, ts)
      PROVE  Deliveries'
  <2>1. /\ ppc[m] \in {"idle", "sending"}
        /\ ppc' = [ppc EXCEPT ![m] = "returned"]
        /\ pres'[m] # "nil"
        /\ \A n \in Msgs \ {m} : pres'[n] = pres[n]
        /\ UNCHANGED <<topics, lpc, pub, cpc, ctopics, ptopics, delivered>>
    BY <1>7, <1>0 DEF PublishNoTopic, PublishClosed, TypeOK
  <2>. QED
    BY <2>1, <1>0, PublishRefusedStep
<1>8. ASSUME NEW m \in Msgs, NEW ts \in Seq(Topics), PublishStart(m, ts)
      PROVE  Deliveries'
  <2>1. ts # << >>
    BY <1>8 DEF PublishStart
  <2>. QED
    BY <1>8, <2>1, <1>0, PublishStartStep
<1>9. ASSUME NEW m \in Msgs, PublishAccept(m) PROVE Deliveries'
  BY <1>9, <1>0, PublishAcceptStep
<1>10. ASSUME NEW s \in Stoppers,
              ShutdownStart(s) \/ ShutdownAgain(s) \/ ShutdownReturn(s)
              \/ ShutdownTimeout(s)
       PROVE  Deliveries'
  BY <1>10, DeliveriesFrame DEF ShutdownStart, ShutdownAgain, ShutdownReturn,
     ShutdownTimeout, dvars
<1>11. ASSUME GCStart \/ GCReturn \/ PubEnd \/ LoopStop
       PROVE  Deliveries'
  BY <1>11, LoopStep DEF GCStart, GCReturn, PubEnd, LoopStop
<1>16. CASE Tick
  BY <1>16, DeliveriesFrame DEF Tick, dvars
<1>12. CASE PubNextTopic
  BY <1>12, <1>0, PubNextTopicStep
<1>13. ASSUME NEW c \in Clients, PubSkip(c) PROVE Deliveries'
  <2>1. /\ pub'.cur \subseteq pub.cur /\ pub'.msg = pub.msg
        /\ pub'.rest = pub.rest /\ pub'.seen = pub.seen
        /\ UNCHANGED <<topics, lpc, cpc, ctopics, ppc, pres, ptopics, delivered>>
    BY <1>13, <1>0 DEF PubSkip, TypeOK
  <2>. QED
    BY <2>1 DEF Deliveries, TopicsSubscribed, FreshUndelivered,
       SendingHasTopics, DeliveredAccepted, FanOut, AtMostOnce,
       TopicIsolation, Accepted
<1>14. ASSUME NEW c \in Clients, PubDeliver(c) PROVE Deliveries'
  BY <1>14, PubDeliverStep
<1>15. ASSUME NEW c \in Clients, PubFail(c) PROVE Deliveries'
  <2>1. /\ topics' = [t \in Topics |-> topics[t] \ {c}]
        /\ pub'.cur \subseteq pub.cur /\ pub'.msg = pub.msg
        /\ pub'.rest = pub.rest /\ pub'.seen = pub.seen
        /\ UNCHANGED <<lpc, cpc, ctopics, ppc, pres, ptopics, delivered>>
    BY <1>15, <1>0 DEF PubFail, RemoveSubscriber, TypeOK
  <2>. QED
    BY <2>1, <1>0, RemoveStep
<1>. QED
  BY <1>1, <1>2, <1>3, <1>4, <1>5, <1>6, <1>7, <1>8, <1>9, <1>10, <1>11,
     <1>12, <1>13, <1>14, <1>15, <1>16
  DEF AnyNext, CallersAny, Engine, LoopInternal

(* The initial state has delivered nothing.                                  *)
LEMMA DeliveriesInit == Init => Deliveries
  BY DEF Init, Deliveries, TopicsSubscribed, FreshUndelivered,
     SendingHasTopics, DeliveredAccepted, FanOut, AtMostOnce, TopicIsolation,
     Range, IsInjective

(* RInv holds in every reachable state.                                      *)
THEOREM RInvInvariant == Spec => []RInv
<1>1. Init => RInv
  BY DeliveriesInit, InitType, HandlesInit DEF RInv, IInv
<1>2. IInv /\ [AnyNext]_vars => IInv'
  BY TypeStep, HandlesStep DEF IInv
<1>3. RInv /\ [AnyNext]_vars => RInv'
  BY <1>2, DeliveriesStep DEF RInv
<1>. QED
  BY <1>1, <1>3, NextAny, PTL DEF Spec


(* The `seen` set of the publish case (joe.go 222-228, 239): every client *)
(* receives each message at most once, however many of its topics the      *)
(* message is published to.                                                 *)
THEOREM AtMostOnceInvariant == Spec => []AtMostOnce
<1>1. RInv => AtMostOnce
  BY DEF RInv, Deliveries
<1>. QED
  BY <1>1, RInvInvariant, PTL

(* The loop sends a message only to subscribers registered under one of   *)
(* the topics it was published to (joe.go 224-225, 250-252).               *)
THEOREM TopicIsolationInvariant == Spec => []TopicIsolation
<1>1. RInv => TopicIsolation
  BY DEF RInv, Deliveries
<1>. QED
  BY <1>1, RInvInvariant, PTL

-----------------------------------------------------------------------------
(***************************************************************************)
(* Refinement of PubSub.                                                   *)
(***************************************************************************)
(* A step that moves no Subscribe into or out of its first select, keeps  *)
(* the topics of every answered subscription and of every accepted        *)
(* message, and neither starts nor ends the loop's exit, leaves the mapped *)
(* state alone.                                                             *)
LEMMA MapStutter ==
  ASSUME topics' = topics, delivered' = delivered,
         (lpc' = "exited") = (lpc = "exited"),
         \A c \in Clients : IsNew(c)' = IsNew(c),
         \A c \in Clients : ~IsNew(c) => ctopics'[c] = ctopics[c],
         Accepted' = Accepted,
         \A m \in Accepted : ptopics'[m] = ptopics[m]
  PROVE  UNCHANGED Provider!pvars
<1>1. SubPhase' = SubPhase
  BY DEF SubPhase, IsOn, Registered
<1>2. SubTopicsBar' = SubTopicsBar
  BY DEF SubTopicsBar
<1>3. MsgTopicsBar' = MsgTopicsBar
  BY DEF MsgTopicsBar
<1>. QED
  BY <1>1, <1>2, <1>3 DEF Provider!pvars


(* The loop or j.done answers a Subscribe: the subscription is on if the  *)
(* running loop registered it, and was refused otherwise.                  *)
LEMMA AnswerMap ==
  ASSUME NEW c \in Clients, IsNew(c), ~IsNew(c)', c \notin Registered,
         \A d \in Clients \ {c} : /\ IsNew(d)' = IsNew(d)
                                 /\ (d \in Registered') = (d \in Registered),
         lpc' = lpc, ctopics' = ctopics, delivered' = delivered,
         Accepted' = Accepted, \A m \in Accepted : ptopics'[m] = ptopics[m]
  PROVE  \/ Provider!Subscribe(c, ctopics[c])
         \/ Provider!Refuse(c, ctopics[c])
<1>1. /\ SubPhase[c] = "new"
      /\ SubTopicsBar' = [SubTopicsBar EXCEPT ![c] = ctopics[c]]
      /\ MsgTopicsBar' = MsgTopicsBar
  BY DEF SubPhase, SubTopicsBar, MsgTopicsBar
<1>2. \A d \in Clients \ {c} : SubPhase'[d] = SubPhase[d]
  BY DEF SubPhase, IsOn
<1>3. CASE c \in Registered' /\ lpc # "exited"
  <2>1. SubPhase' = [SubPhase EXCEPT ![c] = "on"]
    BY <1>2, <1>3 DEF SubPhase, IsOn
  <2>. QED
    BY <1>1, <1>3, <2>1 DEF Provider!Subscribe
<1>4. CASE ~(c \in Registered' /\ lpc # "exited")
  <2>1. SubPhase' = [SubPhase EXCEPT ![c] = "off"]
    BY <1>2, <1>4 DEF SubPhase, IsOn
  <2>. QED
    BY <1>1, <1>4, <2>1 DEF Provider!Refuse
<1>. QED
  BY <1>3, <1>4

(* The loop removes a registered subscriber from every topic.               *)
LEMMA RemoveMap ==
  ASSUME NEW c \in Clients, c \in Registered, ~IsNew(c), lpc # "exited",
         topics' = [t \in Topics |-> topics[t] \ {c}],
         \A d \in Clients : IsNew(d)' = IsNew(d),
         lpc' = lpc, ctopics' = ctopics, delivered' = delivered,
         Accepted' = Accepted, \A m \in Accepted : ptopics'[m] = ptopics[m]
  PROVE  Provider!Unsubscribe(c)
<1>1. /\ Registered' = Registered \ {c}
      /\ SubTopicsBar' = SubTopicsBar
      /\ MsgTopicsBar' = MsgTopicsBar
  BY DEF Registered, SubTopicsBar, MsgTopicsBar
<1>2. SubPhase[c] = "on"
  BY DEF SubPhase, IsOn
<1>3. SubPhase' = [SubPhase EXCEPT ![c] = "off"]
  BY <1>1 DEF SubPhase, IsOn
<1>. QED
  BY <1>1, <1>2, <1>3 DEF Provider!Unsubscribe


(* Every step of Joe is a step of PubSub under the mapping, or leaves the  *)
(* mapped state alone; RInv of both states is given.                        *)
LEMMA RefineStep ==
  RInv /\ RInv' /\ [AnyNext]_vars => [Provider!PNext]_Provider!pvars
<1>. SUFFICES ASSUME RInv, RInv', [AnyNext]_vars
              PROVE  [Provider!PNext]_Provider!pvars
  OBVIOUS
<1>0. /\ TypeOK /\ pub.cur \subseteq Registered
      /\ \A c \in Clients : cpc[c] \in {"idle", "sending"} => c \notin Registered
      /\ Deliveries
  BY HandleFacts DEF RInv
<1>1. CASE UNCHANGED vars
  BY <1>1, MapStutter DEF vars, IsNew, Accepted
<1>2. ASSUME UNCHANGED <<topics, lpc, cpc, ctopics, ppc, pres, ptopics,
                        delivered>>
      PROVE  UNCHANGED Provider!pvars
  BY <1>2, MapStutter DEF IsNew, Accepted
<1>3. ASSUME NEW c \in Clients, NEW ts \in SUBSET Topics, SubscribeStart(c, ts)
      PROVE  UNCHANGED Provider!pvars
  <2>1. /\ \A d \in Clients : IsNew(d)' = IsNew(d)
        /\ \A d \in Clients : ~IsNew(d) => ctopics'[d] = ctopics[d]
    BY <1>3, <1>0 DEF SubscribeStart, IsNew, TypeOK
  <2>. QED
    BY <1>3, <2>1, MapStutter DEF SubscribeStart, Accepted
<1>4. ASSUME NEW c \in Clients, SubscribeReceive(c) \/ SubscribeCancelled(c)
      PROVE  UNCHANGED Provider!pvars
  <2>1. \A d \in Clients : IsNew(d)' = IsNew(d)
    BY <1>4, <1>0 DEF SubscribeReceive, SubscribeCancelled, IsNew, TypeOK
  <2>. QED
    BY <1>4, <2>1, MapStutter DEF SubscribeReceive, SubscribeCancelled,
       Accepted
<1>5. ASSUME NEW c \in Clients, SubscribeClosed(c) \/ Subscription(c)
      PROVE  Provider!PNext
  <2>1. /\ IsNew(c) /\ ~IsNew(c)' /\ c \notin Registered
        /\ \A d \in Clients \ {c} : IsNew(d)' = IsNew(d)
        /\ lpc' = lpc /\ ctopics' = ctopics /\ delivered' = delivered
        /\ ppc' = ppc /\ pres' = pres /\ ptopics' = ptopics
    BY <1>5, <1>0 DEF SubscribeClosed, Subscription, IsNew, TypeOK
  <2>2. \A d \in Clients \ {c} : (d \in Registered') = (d \in Registered)
    <3>1. CASE SubscribeClosed(c)
      BY <3>1 DEF SubscribeClosed, Registered
    <3>2. CASE Subscription(c)
      <4>1. \/ topics' = topics
            \/ topics' = [t \in Topics |->
                            IF t \in ctopics[c] THEN topics[t] \cup {c}
                                                 ELSE topics[t]]
        BY <3>2 DEF Subscription
      <4>. QED
        BY <4>1 DEF Registered
    <3>. QED
      BY <1>5, <3>1, <3>2
  <2>3. \/ Provider!Subscribe(c, ctopics[c])
        \/ Provider!Refuse(c, ctopics[c])
    BY <2>1, <2>2, AnswerMap DEF Accepted
  <2>. QED
    BY <2>3, <1>0 DEF Provider!PNext, TypeOK
<1>6. ASSUME NEW c \in Clients, Unsubscription(c)
      PROVE  [Provider!PNext]_Provider!pvars
  <2>1. /\ topics' = [t \in Topics |-> topics[t] \ {c}]
        /\ cpc[c] = "leaving" /\ cpc' = [cpc EXCEPT ![c] = "returned"]
        /\ lpc = "select"
        /\ UNCHANGED <<lpc, ctopics, ppc, pres, ptopics, delivered>>
    BY <1>6 DEF Unsubscription, RemoveSubscriber
  <2>2. /\ \A d \in Clients : IsNew(d)' = IsNew(d)
        /\ ~IsNew(c)
    BY <2>1, <1>0 DEF IsNew, TypeOK
  <2>3. CASE c \in Registered
    <3>1. Provider!Unsubscribe(c)
      BY <2>1, <2>2, <2>3, RemoveMap DEF Accepted
    <3>. QED
      BY <3>1 DEF Provider!PNext
  <2>4. CASE c \notin Registered
    <3>1. topics' = topics
      BY <2>1, <2>4, <1>0 DEF Registered, TypeOK
    <3>. QED
      BY <2>1, <2>2, <3>1, MapStutter DEF Accepted
  <2>. QED
    BY <2>3, <2>4
<1>7. ASSUME NEW m \in Msgs,
             \/ PublishClosed(m)
             \/ \E ts \in Seq(Topics) : PublishNoTopic(m, ts) \/ PublishStart(m, ts)
      PROVE  UNCHANGED Provider!pvars
  <2>1. /\ m \notin Accepted /\ Accepted' = Accepted
        /\ \A n \in Msgs \ {m} : ptopics'[n] = ptopics[n]
        /\ UNCHANGED <<topics, lpc, cpc, ctopics, delivered>>
    BY <1>7, <1>0 DEF PublishNoTopic, PublishClosed, PublishStart, Accepted,
       TypeOK
  <2>2. /\ \A d \in Clients : IsNew(d)' = IsNew(d)
        /\ \A d \in Clients : ~IsNew(d) => ctopics'[d] = ctopics[d]
        /\ \A n \in Accepted : ptopics'[n] = ptopics[n]
    BY <2>1 DEF IsNew, Accepted
  <2>. QED
    BY <2>1, <2>2, MapStutter
<1>8. ASSUME NEW m \in Msgs, PublishAccept(m) PROVE Provider!PNext
  <2>1. /\ ppc[m] = "sending" /\ m \notin Accepted /\ lpc = "select"
        /\ Accepted' = Accepted \cup {m}
        /\ lpc' = "publish"
        /\ UNCHANGED <<topics, cpc, ctopics, ptopics, delivered>>
    BY <1>8, <1>0 DEF PublishAccept, Accepted, TypeOK
  <2>2. /\ ptopics[m] \in Seq(Topics) /\ ptopics[m] # << >>
    BY <2>1, <1>0 DEF Deliveries, SendingHasTopics, TypeOK
  <2>3. Range(ptopics[m]) # {} /\ Range(ptopics[m]) \in SUBSET Topics
    <3>1. Head(ptopics[m]) \in Range(ptopics[m])
      BY <2>2, HeadTailRange
    <3>2. Range(ptopics[m]) \subseteq Topics
      BY <2>2 DEF Range
    <3>. QED
      BY <3>1, <3>2
  <2>4. MsgTopicsBar' = [MsgTopicsBar EXCEPT ![m] = Range(ptopics[m])]
    BY <2>1 DEF MsgTopicsBar
  <2>5. SubPhase' = SubPhase /\ SubTopicsBar' = SubTopicsBar
    BY <2>1 DEF SubPhase, SubTopicsBar, IsOn, IsNew, Registered
  <2>6. Provider!Publish(m, Range(ptopics[m]))
    BY <2>1, <2>3, <2>4, <2>5 DEF Provider!Publish
  <2>. QED
    BY <2>3, <2>6 DEF Provider!PNext
<1>9. ASSUME PubNextTopic \/ PubEnd \/ GCStart \/ GCReturn
             \/ \E c \in Clients : PubSkip(c)
      PROVE  UNCHANGED Provider!pvars
  BY <1>9, MapStutter DEF PubNextTopic, PubEnd, GCStart, GCReturn, PubSkip,
     IsNew, Accepted
<1>10. ASSUME NEW c \in Clients, PubDeliver(c) PROVE Provider!PNext
  <2>1. /\ lpc = "publish" /\ c \in pub.cur /\ c \notin pub.seen
        /\ delivered' = [delivered EXCEPT ![c] = Append(@, pub.msg)]
        /\ UNCHANGED <<topics, lpc, cpc, ctopics, ppc, pres, ptopics>>
    BY <1>10 DEF PubDeliver
  <2>2. /\ pub.msg \in Accepted
        /\ ctopics[c] \cap Range(ptopics[pub.msg]) # {}
        /\ pub.msg \notin Range(delivered[c])
        /\ c \in Registered /\ ~IsNew(c) /\ pub.msg \in Msgs
    BY <2>1, <1>0 DEF Deliveries, FanOut, IsNew, TypeOK
  <2>3. /\ SubPhase' = SubPhase /\ SubTopicsBar' = SubTopicsBar
        /\ Accepted' = Accepted /\ MsgTopicsBar' = MsgTopicsBar
    BY <2>1 DEF SubPhase, SubTopicsBar, IsOn, IsNew, Registered, Accepted,
       MsgTopicsBar
  <2>4. /\ SubPhase[c] = "on" /\ SubTopicsBar[c] = ctopics[c]
        /\ MsgTopicsBar[pub.msg] = Range(ptopics[pub.msg])
    BY <2>1, <2>2 DEF SubPhase, SubTopicsBar, IsOn, MsgTopicsBar
  <2>5. pub.msg \notin Provider!Range(delivered[c])
    BY <2>2 DEF Provider!Range, Range
  <2>6. Provider!Deliver(c, pub.msg)
    BY <2>1, <2>2, <2>3, <2>4, <2>5 DEF Provider!Deliver
  <2>. QED
    BY <2>2, <2>6 DEF Provider!PNext
<1>11. ASSUME NEW c \in Clients, PubFail(c) PROVE Provider!PNext
  <2>1. /\ lpc = "publish" /\ c \in pub.cur
        /\ topics' = [t \in Topics |-> topics[t] \ {c}]
        /\ UNCHANGED <<lpc, cpc, ctopics, ppc, pres, ptopics, delivered>>
    BY <1>11 DEF PubFail, RemoveSubscriber
  <2>2. c \in Registered /\ ~IsNew(c)
    BY <2>1, <1>0 DEF IsNew
  <2>3. Provider!Unsubscribe(c)
    BY <2>1, <2>2, RemoveMap DEF IsNew, Accepted
  <2>. QED
    BY <2>3 DEF Provider!PNext
<1>12. ASSUME LoopStop PROVE Provider!PNext
  <2>1. /\ lpc = "select" /\ lpc' = "exited"
        /\ UNCHANGED <<topics, cpc, ctopics, ppc, pres, ptopics, delivered>>
    BY <1>12 DEF LoopStop
  <2>2. SubPhase' = [d \in Clients |-> IF SubPhase[d] = "on" THEN "off"
                                                          ELSE SubPhase[d]]
    BY <2>1 DEF SubPhase, IsOn, IsNew, Registered
  <2>3. SubTopicsBar' = SubTopicsBar /\ Accepted' = Accepted
        /\ MsgTopicsBar' = MsgTopicsBar
    BY <2>1 DEF SubTopicsBar, IsNew, Accepted, MsgTopicsBar
  <2>. QED
    BY <2>1, <2>2, <2>3 DEF Provider!PNext, Provider!Stop
<1>13. ASSUME NEW c \in Clients, CancelContext(c) PROVE UNCHANGED Provider!pvars
  BY <1>13, <1>2 DEF CancelContext
<1>14. ASSUME NEW s \in Stoppers,
              ShutdownStart(s) \/ ShutdownAgain(s) \/ ShutdownReturn(s)
              \/ ShutdownTimeout(s)
       PROVE  UNCHANGED Provider!pvars
  BY <1>14, <1>2 DEF ShutdownStart, ShutdownAgain, ShutdownReturn,
     ShutdownTimeout
<1>15. CASE Tick
  BY <1>15, <1>2 DEF Tick
<1>. QED
  BY <1>1, <1>3, <1>4, <1>5, <1>6, <1>7, <1>8, <1>9, <1>10, <1>11, <1>12,
     <1>13, <1>14, <1>15
  DEF AnyNext, CallersAny, Engine, LoopInternal

(* Joe's initial state is PubSub's.                                         *)
LEMMA RefineInit == Init => Provider!PInit
  BY DEF Init, Provider!PInit, SubPhase, SubTopicsBar, Accepted, MsgTopicsBar,
     IsNew, IsOn, Registered

(* Joe implements the Provider contract (server.go 45-73): every behaviour *)
(* of the loop and its facades, read through the mapping of JoeRefinement, *)
(* is a behaviour of PubSub.                                                *)
THEOREM Refinement == Spec => ImplementsProvider
<1>1. RInv /\ RInv' /\ [Next]_vars => [Provider!PNext]_Provider!pvars
  BY RefineStep, NextAny
<1>. QED
  BY <1>1, RefineInit, RInvInvariant, PTL
  DEF Spec, ImplementsProvider, Provider!PSpec

=============================================================================
