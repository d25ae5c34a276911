--------------------------- MODULE JoeFanOutProofs ---------------------------
(***************************************************************************)
(* Proof that the publish case of the loop (joe.go 220-242) reaches every  *)
(* client registered under one of the message's topics (PublishReachesAll): *)
(* the `seen` set suppresses repeats, and never a client that has not had  *)
(* the message yet.                                                          *)
(***************************************************************************)
EXTENDS JoeRefinementProofs

(* Every client in `seen` has had the message of the publish case.         *)
SeenDelivered ==
  lpc = "publish" => \A c \in pub.seen : pub.msg \in Range(delivered[c])

(* Every client still registered under a topic the publish case has left  *)
(* behind has had the message, or is a subscriber of the current topic     *)
(* that is still to be visited.                                             *)
TopicsLeftReached ==
  lpc = "publish" =>
    \A t \in Range(ptopics[pub.msg]) \ Range(pub.rest) :
      \A c \in topics[t] : c \in pub.cur \/ pub.msg \in Range(delivered[c])

Reached == SeenDelivered /\ TopicsLeftReached

FInv == RInv /\ Reached

-----------------------------------------------------------------------------
(* Appending x to a sequence adds x to its range.                          *)
LEMMA AppendRange ==
  ASSUME NEW S, NEW s \in Seq(S), NEW x \in S
  PROVE  Range(Append(s, x)) = Range(s) \cup {x}
<1>1. /\ DOMAIN Append(s, x) = 1..Len(s) + 1
      /\ \A i \in 1..Len(s) : Append(s, x)[i] = s[i]
      /\ Append(s, x)[Len(s) + 1] = x
      /\ DOMAIN s = 1..Len(s)
  OBVIOUS
<1>. QED
  BY <1>1 DEF Range

(* The range of a non-empty sequence is its head and the range of its tail. *)
LEMMA RangeHeadTail ==
  ASSUME NEW S, NEW s \in Seq(S), s # << >>
  PROVE  Range(s) = {Head(s)} \cup Range(Tail(s))
<1>1. /\ Len(s) >= 1 /\ DOMAIN s = 1..Len(s) /\ Head(s) = s[1]
      /\ DOMAIN Tail(s) = 1..Len(s) - 1
      /\ \A i \in 1..Len(s) - 1 : Tail(s)[i] = s[i + 1]
  OBVIOUS
<1>2. Range(s) \subseteq {Head(s)} \cup Range(Tail(s))
  <2>1. SUFFICES ASSUME NEW i \in 1..Len(s)
                 PROVE  s[i] \in {Head(s)} \cup Range(Tail(s))
    BY <1>1 DEF Range
  <2>2. CASE i = 1
    BY <1>1, <2>2
  <2>3. CASE i > 1
    <3>1. i - 1 \in 1..Len(s) - 1 /\ Tail(s)[i - 1] = s[i]
      BY <1>1, <2>3
    <3>. QED
      BY <1>1, <3>1 DEF Range
  <2>. QED
    BY <2>2, <2>3
<1>. QED
  BY <1>2, HeadTailRange

(* A step that leaves the publish case, or enters none, keeps Reached.     *)
LEMMA ReachedLeave ==
  ASSUME lpc' # "publish"
  PROVE  Reached'
  BY DEF Reached, SeenDelivered, TopicsLeftReached

(* A step that touches neither the table, the loop, the publish case, the  *)
(* histories nor the topics of the message in flight keeps Reached.        *)
LEMMA ReachedFrame ==
  ASSUME Reached, UNCHANGED <<topics, lpc, pub, delivered>>,
         ptopics'[pub.msg] = ptopics[pub.msg]
  PROVE  Reached'
  BY DEF Reached, SeenDelivered, TopicsLeftReached


(* The message of the publish case was accepted, so no Publish can still   *)
(* change its topics.                                                       *)
LEMMA MsgSettled ==
  ASSUME TypeOK, FanOut, lpc = "publish"
  PROVE  ppc[pub.msg] = "returned"
  BY DEF FanOut, Accepted

(* The next topic: its subscribers become the ones left to visit.           *)
LEMMA PubNextTopicReached ==
  ASSUME TypeOK, Reached, PubNextTopic
  PROVE  Reached'
<1>1. /\ lpc = "publish" /\ pub.cur = {} /\ pub.rest # << >>
      /\ pub'.cur = topics[Head(pub.rest)] /\ pub'.rest = Tail(pub.rest)
      /\ pub'.msg = pub.msg /\ pub'.seen = pub.seen
      /\ UNCHANGED <<topics, lpc, ptopics, delivered>>
  BY DEF PubNextTopic, TypeOK
<1>2. Range(pub.rest) = {Head(pub.rest)} \cup Range(Tail(pub.rest))
  BY <1>1, RangeHeadTail DEF TypeOK
<1>3. SeenDelivered'
  BY <1>1 DEF Reached, SeenDelivered
<1>4. TopicsLeftReached'
  <2>1. SUFFICES ASSUME NEW t \in Range(ptopics[pub.msg]) \ Range(Tail(pub.rest)),
                        NEW c \in topics[t]
                 PROVE  c \in pub'.cur \/ pub.msg \in Range(delivered[c])
    BY <1>1 DEF TopicsLeftReached
  <2>2. CASE t = Head(pub.rest)
    BY <1>1, <2>2
  <2>3. CASE t # Head(pub.rest)
    <3>1. t \notin Range(pub.rest)
      BY <1>2, <2>3
    <3>. QED
      BY <1>1, <3>1 DEF Reached, TopicsLeftReached
  <2>. QED
    BY <2>2, <2>3
<1>. QED
  BY <1>3, <1>4 DEF Reached

(* A seen client is passed over: it has had the message already.            *)
LEMMA PubSkipReached ==
  ASSUME TypeOK, Reached, NEW c \in Clients, PubSkip(c)
  PROVE  Reached'
<1>1. /\ lpc = "publish" /\ c \in pub.seen
      /\ pub'.cur = pub.cur \ {c} /\ pub'.rest = pub.rest
      /\ pub'.msg = pub.msg /\ pub'.seen = pub.seen
      /\ UNCHANGED <<topics, lpc, ptopics, delivered>>
  BY DEF PubSkip, TypeOK
<1>2. pub.msg \in Range(delivered[c])
  BY <1>1 DEF Reached, SeenDelivered
<1>. QED
  BY <1>1, <1>2 DEF Reached, SeenDelivered, TopicsLeftReached

(* Send and Flush succeed: the client gets the message and joins `seen`.   *)
LEMMA PubDeliverReached ==
  ASSUME TypeOK, Reached, NEW c \in Clients, PubDeliver(c)
  PROVE  Reached'
<1>1. /\ lpc = "publish"
      /\ delivered' = [delivered EXCEPT ![c] = Append(@, pub.msg)]
      /\ pub'.cur = pub.cur \ {c} /\ pub'.rest = pub.rest
      /\ pub'.msg = pub.msg /\ pub'.seen = pub.seen \cup {c}
      /\ UNCHANGED <<topics, lpc, ptopics>>
  BY DEF PubDeliver, TypeOK
<1>2. /\ Range(delivered'[c]) = Range(delivered[c]) \cup {pub.msg}
      /\ \A d \in Clients \ {c} : delivered'[d] = delivered[d]
  <2>1. delivered'[c] = Append(delivered[c], pub.msg)
    BY <1>1 DEF TypeOK
  <2>2. delivered[c] \in Seq(Msgs) /\ pub.msg \in Msgs
    BY DEF TypeOK
  <2>. QED
    BY <1>1, <2>1, <2>2, AppendRange DEF TypeOK
<1>3. \A d \in Clients :
        pub.msg \in Range(delivered[d]) => pub.msg \in Range(delivered'[d])
  BY <1>2
<1>4. SeenDelivered'
  BY <1>1, <1>2, <1>3 DEF Reached, SeenDelivered, TypeOK
<1>5. TopicsLeftReached'
  <2>1. SUFFICES ASSUME NEW t \in Range(ptopics[pub.msg]) \ Range(pub.rest),
                        NEW d \in topics[t]
                 PROVE  d \in pub'.cur \/ pub.msg \in Range(delivered'[d])
    BY <1>1 DEF TopicsLeftReached
  <2>2. t \in Topics
    BY DEF TypeOK, Range
  <2>3. d \in Clients
    BY <2>2 DEF TypeOK
  <2>. QED
    BY <1>1, <1>2, <1>3, <2>3 DEF Reached, TopicsLeftReached
<1>. QED
  BY <1>4, <1>5 DEF Reached

(* Send or Flush fails: the client leaves every topic and the cursor.       *)
LEMMA PubFailReached ==
  ASSUME TypeOK, Reached, NEW c \in Clients, PubFail(c)
  PROVE  Reached'
<1>1. /\ lpc = "publish"
      /\ topics' = [t \in Topics |-> topics[t] \ {c}]
      /\ pub'.cur = pub.cur \ {c} /\ pub'.rest = pub.rest
      /\ pub'.msg = pub.msg /\ pub'.seen = pub.seen
      /\ UNCHANGED <<lpc, ptopics, delivered>>
  BY DEF PubFail, RemoveSubscriber, TypeOK
<1>2. Range(ptopics[pub.msg]) \subseteq Topics
  BY DEF TypeOK, Range
<1>. QED
  BY <1>1, <1>2 DEF Reached, SeenDelivered, TopicsLeftReached

(* Every step keeps Reached; RInv of the first state is given.              *)
LEMMA ReachedStep == RInv /\ Reached /\ [AnyNext]_vars => Reached'
<1>. SUFFICES ASSUME RInv, Reached, [AnyNext]_vars PROVE Reached'
  OBVIOUS
<1>0. TypeOK /\ FanOut
  BY HandleFacts DEF RInv, Deliveries
<1>1. CASE UNCHANGED vars
  BY <1>1, ReachedFrame DEF vars
<1>2. ASSUME NEW c \in Clients,
             \/ \E ts \in SUBSET Topics : SubscribeStart(c, ts)
             \/ SubscribeClosed(c) \/ SubscribeReceive(c)
             \/ SubscribeCancelled(c) \/ CancelContext(c)
      PROVE  Reached'
  BY <1>2, ReachedFrame DEF SubscribeStart, SubscribeClosed, SubscribeReceive,
     SubscribeCancelled, CancelContext
<1>3. ASSUME NEW c \in Clients, Subscription(c) \/ Unsubscription(c)
      PROVE  Reached'
  BY <1>3, ReachedLeave DEF Subscription, Unsubscription
<1>4. ASSUME NEW m \in Msgs,
             \/ PublishClosed(m)
             \/ \E ts \in Seq(Topics) : PublishNoTopic(m, ts)
      PROVE  Reached'
  BY <1>4, ReachedFrame DEF PublishClosed, PublishNoTopic
<1>5. ASSUME NEW m \in Msgs, NEW ts \in Seq(Topics), PublishStart(m, ts)
      PROVE  Reached'
  <2>1. CASE lpc = "publish"
    <3>1. m # pub.msg
      BY <1>5, <2>1, <1>0, MsgSettled DEF PublishStart
    <3>. QED
      BY <1>5, <3>1, ReachedFrame DEF PublishStart
  <2>3. CASE lpc # "publish"
    BY <1>5, <2>3, ReachedLeave DEF PublishStart
  <2>. QED
    BY <2>1, <2>3
<1>6. ASSUME NEW m \in Msgs, PublishAccept(m) PROVE Reached'
  <2>1. /\ pub'.rest = ptopics[m] /\ pub'.msg = m /\ pub'.seen = {}
        /\ ptopics' = ptopics
    BY <1>6 DEF PublishAccept
  <2>. QED
    BY <2>1 DEF Reached, SeenDelivered, TopicsLeftReached
<1>7. ASSUME NEW s \in Stoppers,
             ShutdownStart(s) \/ ShutdownAgain(s) \/ ShutdownReturn(s)
             \/ ShutdownTimeout(s)
      PROVE  Reached'
  BY <1>7, ReachedFrame DEF ShutdownStart, ShutdownAgain, ShutdownReturn,
     ShutdownTimeout
<1>8. ASSUME GCStart \/ GCReturn \/ PubEnd \/ LoopStop PROVE Reached'
  BY <1>8, ReachedLeave DEF GCStart, GCReturn, PubEnd, LoopStop
<1>9. CASE Tick
  BY <1>9, ReachedFrame DEF Tick
<1>10. CASE PubNextTopic
  BY <1>10, <1>0, PubNextTopicReached
<1>11. ASSUME NEW c \in Clients, PubSkip(c) PROVE Reached'
  BY <1>11, <1>0, PubSkipReached
<1>12. ASSUME NEW c \in Clients, PubDeliver(c) PROVE Reached'
  BY <1>12, <1>0, PubDeliverReached
<1>13. ASSUME NEW c \in Clients, PubFail(c) PROVE Reached'
  BY <1>13, <1>0, PubFailReached
<1>. QED
  BY <1>1, <1>2, <1>3, <1>4, <1>5, <1>6, <1>7, <1>8, <1>9, <1>10, <1>11,
     <1>12, <1>13
  DEF AnyNext, CallersAny, Engine, LoopInternal

(* FInv is kept by every step of AnyNext.                                   *)
LEMMA FInvStep == FInv /\ [AnyNext]_vars => FInv'
<1>1. RInv /\ [AnyNext]_vars => RInv'
  BY TypeStep, HandlesStep, DeliveriesStep DEF RInv, IInv
<1>. QED
  BY <1>1, ReachedStep DEF FInv

(* The initial state is outside the publish case.                           *)
LEMMA FInvInit == Init => FInv
<1>1. Init => lpc # "publish"
  BY DEF Init
<1>. QED
  BY <1>1, DeliveriesInit, InitType, HandlesInit
  DEF FInv, RInv, IInv, Reached, SeenDelivered, TopicsLeftReached

(* FInv holds in every reachable state of Joe.                              *)
THEOREM FInvInvariant == Spec => []FInv
<1>1. [Next]_vars => [AnyNext]_vars
  BY NextAny
<1>. QED
  BY <1>1, FInvInit, FInvStep, PTL DEF Spec

(* Only PubEnd leaves the publish case.                                     *)
LEMMA PublishExit ==
  ASSUME [AnyNext]_vars, lpc = "publish", lpc' # "publish"
  PROVE  PubEnd
<1>1. ASSUME ~PubEnd PROVE FALSE
  <2>1. ~UNCHANGED vars
    BY DEF vars
  <2>2. ~\E c \in Clients :
           \/ \E ts \in SUBSET Topics : SubscribeStart(c, ts)
           \/ SubscribeClosed(c) \/ SubscribeReceive(c)
           \/ SubscribeCancelled(c) \/ CancelContext(c)
           \/ Subscription(c) \/ Unsubscription(c)
           \/ PubSkip(c) \/ PubDeliver(c) \/ PubFail(c)
    BY DEF SubscribeStart, SubscribeClosed, SubscribeReceive,
       SubscribeCancelled, CancelContext, Subscription, Unsubscription,
       PubSkip, PubDeliver, PubFail, RemoveSubscriber
  <2>3. ~\E m \in Msgs :
           \/ PublishClosed(m) \/ PublishAccept(m)
           \/ \E ts \in Seq(Topics) : PublishNoTopic(m, ts) \/ PublishStart(m, ts)
    BY DEF PublishClosed, PublishAccept, PublishNoTopic, PublishStart
  <2>4. ~\E s \in Stoppers :
           ShutdownStart(s) \/ ShutdownAgain(s) \/ ShutdownReturn(s)
           \/ ShutdownTimeout(s)
    BY DEF ShutdownStart, ShutdownAgain, ShutdownReturn, ShutdownTimeout
  <2>5. ~(GCStart \/ GCReturn \/ LoopStop \/ Tick \/ PubNextTopic)
    BY DEF GCStart, GCReturn, LoopStop, Tick, PubNextTopic
  <2>. QED
    BY <1>1, <2>1, <2>2, <2>3, <2>4, <2>5
    DEF AnyNext, CallersAny, Engine, LoopInternal
<1>. QED
  BY <1>1

(* The publish case of the loop (joe.go 224-242) reaches every client      *)
(* registered under one of the message's topics before it returns to the   *)
(* select: the `continue` on a seen subscriber skips only clients that     *)
(* have had the message, and a failed Send removes only its own client.    *)
THEOREM PublishReachesAllHolds == Spec => PublishReachesAll
<1>1. FInv /\ [AnyNext]_vars =>
        [lpc = "publish" /\ lpc' = "select" =>
           \A c \in Subscribers(ptopics[pub.msg]) :
             pub.msg \in Range(delivered[c])]_vars
  <2>. SUFFICES ASSUME FInv, [AnyNext]_vars, lpc = "publish", lpc' = "select",
                       NEW c \in Subscribers(ptopics[pub.msg])
                PROVE  pub.msg \in Range(delivered[c])
    OBVIOUS
  <2>1. pub.cur = {} /\ pub.rest = << >>
    BY PublishExit DEF PubEnd
  <2>2. PICK t \in Range(ptopics[pub.msg]) : c \in topics[t]
    BY DEF Subscribers
  <2>3. t \notin Range(pub.rest)
    BY <2>1 DEF Range
  <2>. QED
    BY <2>1, <2>2, <2>3 DEF FInv, Reached, TopicsLeftReached
<1>2. [Next]_vars => [AnyNext]_vars
  BY NextAny
<1>. QED
  BY <1>1, <1>2, FInvInvariant, PTL DEF Spec, PublishReachesAll

=============================================================================
