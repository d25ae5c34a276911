----------------------------- MODULE JoeProofs -----------------------------
(***************************************************************************)
(* Proofs about the Joe provider, for every value of the constants that   *)
(* satisfies JoeAssumption.                                                 *)
(***************************************************************************)
EXTENDS Joe, TLAPS

(* Every topics slice the model enumerates is a sequence of topics.       *)
LEMMA TopicSeqsType ==
  ASSUME NEW lo \in Nat
  PROVE  TopicSeqs(lo) \subseteq Seq(Topics)
<1>1. SUFFICES ASSUME NEW n \in lo..MaxTopics, NEW f \in [1..n -> Topics]
               PROVE  f \in Seq(Topics)
  BY DEF TopicSeqs
<1>2. n \in Nat
  BY JoeAssumption
<1>. QED
  BY <1>2

(* Next with the callers' arguments widened to any set of topics and any  *)
(* topics slice: the Joe steps that Server.tla takes as well.              *)
CallersAny ==
  \/ \E c \in Clients, ts \in SUBSET Topics : SubscribeStart(c, ts)
  \/ \E m \in Msgs, ts \in Seq(Topics) :
       PublishNoTopic(m, ts) \/ PublishStart(m, ts)

AnyNext == ~panicked /\ (CallersAny \/ Engine)

(* Every step of Joe is a step of AnyNext.                                  *)
LEMMA NextAny == [Next]_vars => [AnyNext]_vars
<1>1. TopicSeqs(0) \subseteq Seq(Topics)
  BY TopicSeqsType
<1>. QED
  BY <1>1 DEF Next, Callers, AnyNext, CallersAny

-----------------------------------------------------------------------------
(***************************************************************************)
(* Type correctness: every step of every goroutine keeps each variable in *)
(* its type.                                                                *)
(***************************************************************************)
LEMMA TypeStep == TypeOK /\ [AnyNext]_vars => TypeOK'
<1>. USE JoeAssumption DEF TypeOK, Errors
<1>1. ASSUME TypeOK, UNCHANGED vars PROVE TypeOK'
  BY <1>1 DEF vars
<1>2. ASSUME TypeOK, PubNextTopic PROVE TypeOK'
  <2>1. /\ pub.rest \in Seq(Topics) /\ pub.rest # << >>
        /\ Head(pub.rest) \in Topics /\ Tail(pub.rest) \in Seq(Topics)
    BY <1>2 DEF PubNextTopic
  <2>2. pub' \in [msg : Msgs, rest : Seq(Topics), cur : SUBSET Clients,
                  seen : SUBSET Clients]
    BY <1>2, <2>1 DEF PubNextTopic
  <2>. QED
    BY <1>2, <2>2 DEF PubNextTopic
<1>3. ASSUME TypeOK, PubEnd PROVE TypeOK'
  BY <1>3 DEF PubEnd
<1>4. ASSUME TypeOK, GCStart PROVE TypeOK'
  BY <1>4 DEF GCStart
<1>5. ASSUME TypeOK, GCReturn PROVE TypeOK'
  BY <1>5 DEF GCReturn
<1>6. ASSUME TypeOK, LoopStop PROVE TypeOK'
  BY <1>6 DEF LoopStop
<1>7. ASSUME TypeOK, NEW c \in Clients, PubSkip(c) PROVE TypeOK'
  BY <1>7 DEF PubSkip
<1>8. ASSUME TypeOK, NEW c \in Clients, PubDeliver(c) PROVE TypeOK'
  <2>1. pub' \in [msg : Msgs, rest : Seq(Topics), cur : SUBSET Clients,
                  seen : SUBSET Clients]
    BY <1>8 DEF PubDeliver
  <2>2. delivered' \in [Clients -> Seq(Msgs)]
    BY <1>8 DEF PubDeliver
  <2>. QED
    BY <1>8, <2>1, <2>2 DEF PubDeliver
<1>9. ASSUME TypeOK, NEW c \in Clients, PubFail(c) PROVE TypeOK'
  <2>1. pub' \in [msg : Msgs, rest : Seq(Topics), cur : SUBSET Clients,
                  seen : SUBSET Clients]
    BY <1>9 DEF PubFail
  <2>2. topics' \in [Topics -> SUBSET Clients]
    BY <1>9 DEF PubFail, RemoveSubscriber
  <2>3. subBuf' \in [Clients -> {"none", "sinkErr", "replayErr"}]
    BY <1>9 DEF PubFail
  <2>4. \/ subClosed' = [subClosed EXCEPT ![c] = TRUE] /\ panicked' = panicked
        \/ subClosed' = subClosed /\ panicked' = TRUE
    BY <1>9 DEF PubFail, RemoveSubscriber
  <2>5. subClosed' \in [Clients -> BOOLEAN] /\ panicked' \in BOOLEAN
    BY <1>9, <2>4
  <2>6. /\ lpc' = lpc /\ done' = done /\ cpc' = cpc /\ ctopics' = ctopics
        /\ ctx' = ctx /\ cres' = cres /\ ppc' = ppc /\ ptopics' = ptopics
        /\ pres' = pres /\ spc' = spc /\ sres' = sres /\ tick' = tick
        /\ tickerStopped' = tickerStopped /\ ticks' = ticks
        /\ gcErr' = gcErr /\ delivered' = delivered
    BY <1>9 DEF PubFail
  <2>. QED
    BY <1>9, <2>1, <2>2, <2>3, <2>5, <2>6
<1>10. ASSUME TypeOK, Tick PROVE TypeOK'
  BY <1>10 DEF Tick
<1>11. ASSUME TypeOK, NEW c \in Clients, NEW ts \in SUBSET Topics,
              SubscribeStart(c, ts)
       PROVE TypeOK'
  BY <1>11 DEF SubscribeStart
<1>12. ASSUME TypeOK, NEW c \in Clients, SubscribeClosed(c) PROVE TypeOK'
  BY <1>12 DEF SubscribeClosed, Errors
<1>13. ASSUME TypeOK, NEW c \in Clients, Subscription(c) PROVE TypeOK'
  <2>1. PICK r \in ReplayOutcomes :
              \/ /\ r = "replayErr"
                 /\ subBuf' = [subBuf EXCEPT ![c] = r]
                 /\ subClosed' = [subClosed EXCEPT ![c] = TRUE]
                 /\ UNCHANGED topics
              \/ /\ r = "nil"
                 /\ topics' = [t \in Topics |->
                                 IF t \in ctopics[c] THEN topics[t] \cup {c}
                                                      ELSE topics[t]]
                 /\ UNCHANGED <<subBuf, subClosed>>
    BY <1>13 DEF Subscription
  <2>2. topics' \in [Topics -> SUBSET Clients]
    <3>1. [t \in Topics |-> IF t \in ctopics[c] THEN topics[t] \cup {c}
                                               ELSE topics[t]]
            \in [Topics -> SUBSET Clients]
      BY <1>13
    <3>. QED
      BY <2>1, <3>1, <1>13, Zenon
  <2>3. subClosed' \in [Clients -> BOOLEAN]
    BY <1>13, <2>1
  <2>4. subBuf' \in [Clients -> {"none", "sinkErr", "replayErr"}]
    BY <1>13, <2>1
  <2>5. cpc' \in [Clients -> {"idle", "sending", "waiting", "leaving",
                              "returned"}]
    BY <1>13 DEF Subscription
  <2>6. /\ lpc' = lpc /\ pub' = pub /\ done' = done /\ ctopics' = ctopics
        /\ ctx' = ctx /\ cres' = cres /\ ppc' = ppc /\ ptopics' = ptopics
        /\ pres' = pres /\ spc' = spc /\ sres' = sres /\ tick' = tick
        /\ tickerStopped' = tickerStopped /\ ticks' = ticks
        /\ gcErr' = gcErr /\ delivered' = delivered /\ panicked' = panicked
    BY <1>13 DEF Subscription
  <2>. QED
    BY <1>13, <2>2, <2>3, <2>4, <2>5, <2>6
<1>14. ASSUME TypeOK, NEW c \in Clients, SubscribeReceive(c) PROVE TypeOK'
  BY <1>14 DEF SubscribeReceive, Errors
<1>15. ASSUME TypeOK, NEW c \in Clients, SubscribeCancelled(c) PROVE TypeOK'
  BY <1>15 DEF SubscribeCancelled
<1>16. ASSUME TypeOK, NEW c \in Clients, Unsubscription(c) PROVE TypeOK'
  BY <1>16 DEF Unsubscription, RemoveSubscriber, Errors
<1>17. ASSUME TypeOK, NEW c \in Clients, CancelContext(c) PROVE TypeOK'
  BY <1>17 DEF CancelContext
<1>18. ASSUME TypeOK, NEW m \in Msgs, NEW ts \in Seq(Topics),
              PublishNoTopic(m, ts)
       PROVE TypeOK'
  BY <1>18 DEF PublishNoTopic, Errors
<1>19. ASSUME TypeOK, NEW m \in Msgs, NEW ts \in Seq(Topics),
              PublishStart(m, ts)
       PROVE TypeOK'
  BY <1>19 DEF PublishStart
<1>20. ASSUME TypeOK, NEW m \in Msgs, PublishClosed(m) PROVE TypeOK'
  BY <1>20 DEF PublishClosed, Errors
<1>21. ASSUME TypeOK, NEW m \in Msgs, PublishAccept(m) PROVE TypeOK'
  BY <1>21 DEF PublishAccept, Errors
<1>22. ASSUME TypeOK, NEW s \in Stoppers, ShutdownStart(s) PROVE TypeOK'
  BY <1>22 DEF ShutdownStart
<1>23. ASSUME TypeOK, NEW s \in Stoppers, ShutdownAgain(s) PROVE TypeOK'
  BY <1>23 DEF ShutdownAgain, Errors
<1>24. ASSUME TypeOK, NEW s \in Stoppers, ShutdownReturn(s) PROVE TypeOK'
  BY <1>24 DEF ShutdownReturn, Errors
<1>25. ASSUME TypeOK, NEW s \in Stoppers, ShutdownTimeout(s) PROVE TypeOK'
  BY <1>25 DEF ShutdownTimeout, Errors
<1>26. ASSUME TypeOK, LoopInternal PROVE TypeOK'
  BY <1>26, <1>2, <1>3, <1>4, <1>5, <1>6, <1>7, <1>8, <1>9 DEF LoopInternal
<1>. QED
  BY Zenon, <1>1, <1>26, <1>10, <1>11, <1>12, <1>13, <1>14, <1>15, <1>16,
     <1>17, <1>18, <1>19, <1>20, <1>21, <1>22, <1>23, <1>24, <1>25
  DEF AnyNext, CallersAny, Engine

(* Init, the state init() leaves (joe.go 280-308), is well typed.         *)
LEMMA InitType == Init => TypeOK
<1>. SUFFICES ASSUME Init PROVE TypeOK OBVIOUS
<1>1. topics \in [Topics -> SUBSET Clients]
  BY DEF Init
<1>2. pub \in [msg : Msgs, rest : Seq(Topics), cur : SUBSET Clients,
              seen : SUBSET Clients]
  BY JoeAssumption DEF Init
<1>3. subBuf \in [Clients -> {"none", "sinkErr", "replayErr"}]
  BY DEF Init
<1>4. subClosed \in [Clients -> BOOLEAN] /\ ctx \in [Clients -> BOOLEAN]
  BY DEF Init
<1>5. cpc \in [Clients -> {"idle", "sending", "waiting", "leaving", "returned"}]
  BY DEF Init
<1>6. ctopics \in [Clients -> SUBSET Topics]
  BY DEF Init
<1>7. /\ cres \in [Clients -> Errors \cup {"none"}]
      /\ pres \in [Msgs -> Errors \cup {"none"}]
      /\ sres \in [Stoppers -> Errors \cup {"none"}]
  BY DEF Init
<1>8. /\ ppc \in [Msgs -> {"idle", "sending", "returned"}]
      /\ spc \in [Stoppers -> {"idle", "waiting", "returned"}]
  BY DEF Init
<1>9. ptopics \in [Msgs -> Seq(Topics)] /\ delivered \in [Clients -> Seq(Msgs)]
  BY DEF Init
<1>10. tickerStopped \in BOOLEAN /\ ticks \in 0..MaxTicks
  BY JoeAssumption DEF Init
<1>11. /\ lpc \in {"select", "publish", "gc", "exited"}
       /\ done \in BOOLEAN /\ tick \in BOOLEAN /\ gcErr \in BOOLEAN
       /\ panicked \in BOOLEAN
  BY DEF Init
<1>. QED
  BY <1>1, <1>2, <1>3, <1>4, <1>5, <1>6, <1>7, <1>8, <1>9, <1>10, <1>11
  DEF TypeOK

(* The type invariant TypeOK holds in every reachable state.               *)
THEOREM TypeCorrect == Spec => []TypeOK
<1>1. Init => TypeOK
  BY InitType
<1>. QED
  BY <1>1, TypeStep, NextAny, PTL DEF Spec

-----------------------------------------------------------------------------
(***************************************************************************)
(* The handles the loop holds.  RegisteredHandleOpen and                  *)
(* SinkReleasedOnReturn are not inductive alone: a step can register a     *)
(* client only if its channel is still open (it has not yet been handed   *)
(* to the loop), and the publish case only walks clients that are still  *)
(* registered, since it is the only goroutine that changes the table.     *)
(***************************************************************************)
Handles ==
  /\ RegisteredHandleOpen
  /\ SinkReleasedOnReturn
  /\ lpc # "publish" => pub.cur = {}
  /\ pub.cur \subseteq Registered
  /\ \A c \in Clients :
       cpc[c] \in {"idle", "sending"} =>
         /\ ~subClosed[c] /\ subBuf[c] = "none"
         /\ c \notin Registered

IInv == TypeOK /\ Handles

(* Handles depends only on these variables.                                 *)
hvars == <<topics, lpc, pub, subBuf, subClosed, cpc>>

LEMMA HandlesFrame ==
  ASSUME Handles, UNCHANGED hvars
  PROVE  Handles'
  BY DEF Handles, hvars, RegisteredHandleOpen, SinkReleasedOnReturn, Registered

(* The topic table holds only clients.                                     *)
LEMMA RegisteredType ==
  ASSUME TypeOK
  PROVE  Registered \subseteq Clients
  BY DEF TypeOK, Registered

(* The initial state holds no handle.                                        *)
LEMMA HandlesInit == Init => Handles
  BY DEF Init, Handles, RegisteredHandleOpen, SinkReleasedOnReturn, Registered

(* Every step keeps the handles invariant; the type invariant of both     *)
(* states is given.                                                         *)
LEMMA HandlesStep == TypeOK /\ TypeOK' /\ Handles /\ [AnyNext]_vars => Handles'
<1>. USE DEF Handles, RegisteredHandleOpen, SinkReleasedOnReturn, Registered
<1>1. ASSUME Handles, UNCHANGED vars PROVE Handles'
  BY <1>1, HandlesFrame DEF vars, hvars
<1>2. ASSUME TypeOK, TypeOK', Handles, NEW c \in Clients, CancelContext(c)
       PROVE Handles'
  BY <1>2, HandlesFrame DEF CancelContext, hvars
<1>3. ASSUME TypeOK, TypeOK', Handles, NEW m \in Msgs, NEW ts \in Seq(Topics),
             PublishNoTopic(m, ts)
       PROVE Handles'
  BY <1>3, HandlesFrame DEF PublishNoTopic, hvars
<1>4. ASSUME TypeOK, TypeOK', Handles, NEW m \in Msgs, NEW ts \in Seq(Topics),
             PublishStart(m, ts)
       PROVE Handles'
  BY <1>4, HandlesFrame DEF PublishStart, hvars
<1>5. ASSUME TypeOK, TypeOK', Handles, NEW m \in Msgs, PublishClosed(m)
       PROVE Handles'
  BY <1>5, HandlesFrame DEF PublishClosed, hvars
<1>6. ASSUME TypeOK, TypeOK', Handles, Tick
       PROVE Handles'
  BY <1>6, HandlesFrame DEF Tick, hvars
<1>7. ASSUME TypeOK, TypeOK', Handles, GCReturn
       PROVE Handles'
  BY <1>7, HandlesFrame DEF GCReturn, hvars
<1>8. ASSUME TypeOK, TypeOK', Handles, NEW s \in Stoppers, ShutdownStart(s)
       PROVE Handles'
  BY <1>8, HandlesFrame DEF ShutdownStart, hvars
<1>9. ASSUME TypeOK, TypeOK', Handles, NEW s \in Stoppers, ShutdownAgain(s)
       PROVE Handles'
  BY <1>9, HandlesFrame DEF ShutdownAgain, hvars
<1>10. ASSUME TypeOK, TypeOK', Handles, NEW s \in Stoppers, ShutdownReturn(s)
       PROVE Handles'
  BY <1>10, HandlesFrame DEF ShutdownReturn, hvars
<1>11. ASSUME TypeOK, TypeOK', Handles, NEW s \in Stoppers, ShutdownTimeout(s)
       PROVE Handles'
  BY <1>11, HandlesFrame DEF ShutdownTimeout, hvars
<1>12. ASSUME TypeOK, TypeOK', Handles, GCStart
       PROVE Handles'
  BY <1>12 DEF GCStart
<1>13. ASSUME TypeOK, TypeOK', Handles, NEW m \in Msgs, PublishAccept(m)
       PROVE Handles'
  BY <1>13 DEF PublishAccept
<1>14. ASSUME TypeOK, TypeOK', Handles, PubEnd
       PROVE Handles'
  BY <1>14 DEF PubEnd
<1>15. ASSUME TypeOK, TypeOK', Handles, NEW c \in Clients,
              NEW ts \in SUBSET Topics, SubscribeStart(c, ts)
       PROVE Handles'
  BY <1>15 DEF SubscribeStart
<1>16. ASSUME TypeOK, TypeOK', Handles, NEW c \in Clients, SubscribeCancelled(c)
       PROVE Handles'
  BY <1>16 DEF SubscribeCancelled
<1>17. ASSUME TypeOK, TypeOK', Handles, NEW c \in Clients, SubscribeClosed(c)
       PROVE Handles'
  BY <1>17 DEF SubscribeClosed
<1>18. ASSUME TypeOK, TypeOK', Handles, NEW c \in Clients, SubscribeReceive(c)
       PROVE Handles'
  BY <1>18 DEF SubscribeReceive, Ready
<1>19. ASSUME TypeOK, TypeOK', Handles, NEW c \in Clients, Subscription(c)
       PROVE Handles'
  <2>1. /\ c \notin Registered /\ ~subClosed[c] /\ subBuf[c] = "none"
        /\ cpc'[c] = "waiting" /\ lpc' = lpc /\ pub' = pub
        /\ \A d \in Clients \ {c} : cpc'[d] = cpc[d]
    BY <1>19 DEF Subscription, TypeOK
  <2>2. PICK r \in ReplayOutcomes :
              \/ /\ r = "replayErr"
                 /\ subBuf' = [subBuf EXCEPT ![c] = r]
                 /\ subClosed' = [subClosed EXCEPT ![c] = TRUE]
                 /\ UNCHANGED topics
              \/ /\ r = "nil"
                 /\ topics' = [t \in Topics |->
                                 IF t \in ctopics[c] THEN topics[t] \cup {c}
                                                      ELSE topics[t]]
                 /\ UNCHANGED <<subBuf, subClosed>>
    BY <1>19 DEF Subscription
  <2>3. CASE r = "replayErr"
    <3>0. /\ subBuf' = [subBuf EXCEPT ![c] = "replayErr"]
          /\ subClosed' = [subClosed EXCEPT ![c] = TRUE]
          /\ topics' = topics
      BY <1>19, <2>2, <2>3
    <3>1. /\ topics' = topics /\ Registered \subseteq Clients
          /\ \A d \in Clients \ {c} : /\ subClosed'[d] = subClosed[d]
                                     /\ subBuf'[d] = subBuf[d]
      <4>1. Registered \subseteq Clients
        BY <1>19, RegisteredType
      <4>2. \A d \in Clients \ {c} : subClosed'[d] = subClosed[d]
        BY <1>19, <3>0 DEF TypeOK
      <4>3. \A d \in Clients \ {c} : subBuf'[d] = subBuf[d]
        BY <1>19, <3>0 DEF TypeOK
      <4>. QED
        BY <1>19, <3>0, <4>1, <4>2, <4>3
    <3>2. RegisteredHandleOpen'
      BY <1>19, <2>1, <3>1
    <3>3. SinkReleasedOnReturn'
      BY <1>19, <2>1, <3>1
    <3>4. \A d \in Clients :
            cpc'[d] \in {"idle", "sending"} =>
              /\ ~subClosed'[d] /\ subBuf'[d] = "none" /\ d \notin Registered'
      BY <1>19, <2>1, <3>1
    <3>. QED
      BY <1>19, <2>1, <3>1, <3>2, <3>3, <3>4
  <2>4. CASE r = "nil"
    <3>1. /\ Registered \subseteq Registered'
          /\ Registered' \subseteq Registered \cup {c}
      BY <1>19, <2>2, <2>4
    <3>. QED
      BY <1>19, <2>1, <2>2, <2>4, <3>1
  <2>. QED
    BY <1>19, <2>3, <2>4, <2>2
<1>20. ASSUME TypeOK, TypeOK', Handles, NEW c \in Clients, Unsubscription(c)
       PROVE Handles'
  <2>1. Registered' = Registered \ {c}
    BY <1>20 DEF Unsubscription, RemoveSubscriber
  <2>2. \A d \in Clients \ {c} : subClosed'[d] = subClosed[d]
    BY <1>20 DEF Unsubscription, RemoveSubscriber, TypeOK
  <2>3. /\ lpc' = "select" /\ lpc = "select" /\ pub' = pub /\ pub.cur = {}
        /\ subBuf' = subBuf /\ cpc'[c] = "returned"
        /\ \A d \in Clients \ {c} : cpc'[d] = cpc[d]
        /\ Registered \subseteq Clients
    BY <1>20, RegisteredType DEF Unsubscription, TypeOK
  <2>4. RegisteredHandleOpen'
    BY <1>20, <2>1, <2>2, <2>3
  <2>5. SinkReleasedOnReturn'
    BY <1>20, <2>1, <2>3
  <2>6. \A d \in Clients :
          cpc'[d] \in {"idle", "sending"} =>
            /\ ~subClosed'[d] /\ subBuf'[d] = "none" /\ d \notin Registered'
    BY <1>20, <2>1, <2>2, <2>3
  <2>. QED
    BY <1>20, <2>1, <2>3, <2>4, <2>5, <2>6
<1>21. ASSUME TypeOK, TypeOK', Handles, PubNextTopic
       PROVE Handles'
  <2>1. Head(pub.rest) \in Topics
    BY <1>21 DEF PubNextTopic, TypeOK
  <2>2. /\ pub'.cur = topics[Head(pub.rest)] /\ lpc' = lpc /\ lpc = "publish"
        /\ topics' = topics /\ cpc' = cpc /\ subBuf' = subBuf
        /\ subClosed' = subClosed
    BY <1>21 DEF PubNextTopic
  <2>3. pub'.cur \subseteq Registered
    BY <1>21, <2>1, <2>2
  <2>. QED
    BY <1>21, <2>2, <2>3
<1>22. ASSUME TypeOK, TypeOK', Handles, NEW c \in Clients, PubSkip(c)
       PROVE Handles'
  BY <1>22 DEF PubSkip
<1>23. ASSUME TypeOK, TypeOK', Handles, NEW c \in Clients, PubDeliver(c)
       PROVE Handles'
  BY <1>23 DEF PubDeliver
<1>24. ASSUME TypeOK, TypeOK', Handles, NEW c \in Clients, PubFail(c)
       PROVE Handles'
  <2>1. c \in Registered /\ ~subClosed[c] /\ lpc = "publish"
    BY <1>24 DEF PubFail
  <2>2. subClosed' = [subClosed EXCEPT ![c] = TRUE]
    BY <1>24, <2>1 DEF PubFail, RemoveSubscriber
  <2>3. Registered' = Registered \ {c}
    BY <1>24 DEF PubFail, RemoveSubscriber
  <2>4. /\ pub'.cur = pub.cur \ {c} /\ lpc' = lpc /\ cpc' = cpc
        /\ subBuf' = [subBuf EXCEPT ![c] = "sinkErr"]
    BY <1>24 DEF PubFail
  <2>. QED
    BY <1>24, <2>1, <2>2, <2>3, <2>4
<1>25. ASSUME TypeOK, TypeOK', Handles, LoopStop
       PROVE Handles'
  <2>1. /\ lpc' = "exited" /\ pub' = pub /\ pub.cur = {} /\ topics' = topics
        /\ cpc' = cpc /\ subBuf' = subBuf
    BY <1>25 DEF LoopStop
  <2>2. \A d \in Clients : d \notin Registered => subClosed'[d] = subClosed[d]
    BY <1>25 DEF LoopStop, TypeOK
  <2>. QED
    BY <1>25, <2>1, <2>2
<1>26. ASSUME TypeOK, TypeOK', Handles, LoopInternal PROVE Handles'
  BY <1>26, <1>21, <1>14, <1>12, <1>7, <1>25, <1>22, <1>23, <1>24
  DEF LoopInternal
<1>. QED
  BY <1>1, <1>26, <1>2, <1>3, <1>4, <1>5, <1>6, <1>8, <1>9, <1>10, <1>11,
     <1>13, <1>15, <1>16, <1>17, <1>18, <1>19, <1>20
     DEF AnyNext, CallersAny, Engine


(* IInv holds in every reachable state: the type invariant and the handle *)
(* invariants together are inductive.                                       *)
THEOREM IInvInvariant == Spec => []IInv
<1>1. Init => IInv
  BY InitType, HandlesInit DEF IInv
<1>2. IInv /\ [AnyNext]_vars => IInv'
  BY TypeStep, HandlesStep DEF IInv
<1>. QED
  BY <1>1, <1>2, NextAny, PTL DEF Spec

(* While the loop runs, every channel in the topic table is open with an  *)
(* empty buffer: the publish case's `done <- err` (joe.go 236) cannot block *)
(* and its removeSubscriber (208) cannot close a channel twice.             *)
THEOREM RegisteredHandleOpenInvariant == Spec => []RegisteredHandleOpen
<1>1. IInv => RegisteredHandleOpen
  BY DEF IInv, Handles
<1>. QED
  BY <1>1, IInvInvariant, PTL

(* Once Subscribe has returned, the running loop holds no reference to the *)
(* client's sink (joe.go 141-146, 203-209, 224-241).                        *)
THEOREM SinkReleasedOnReturnInvariant == Spec => []SinkReleasedOnReturn
<1>1. IInv => SinkReleasedOnReturn
  BY DEF IInv, Handles
<1>. QED
  BY <1>1, IInvInvariant, PTL

-----------------------------------------------------------------------------
(***************************************************************************)
(* After Shutdown, no Subscribe is stranded.  ExitReleasesWaiting is not   *)
(* inductive alone: a Subscribe the loop has taken must be registered, so  *)
(* that closeSubscribers reaches it, or have a closed channel already, and *)
(* registration needs the non-empty topics Subscribe is called with.        *)
(***************************************************************************)
Waiting ==
  /\ \A c \in Clients : cpc[c] # "idle" => ctopics[c] # {}
  /\ \A c \in Clients : cpc[c] \in {"waiting", "leaving"} =>
                         c \in Registered \/ subClosed[c]
  /\ lpc = "exited" => \A c \in Registered : subClosed[c]

WInv == IInv /\ Waiting

(* A step that changes none of the table, the Subscribe calls and the      *)
(* channels, and does not make the loop exit, keeps Waiting.               *)
LEMMA WaitingFrame ==
  ASSUME Waiting, UNCHANGED <<topics, subClosed, cpc, ctopics>>,
         lpc' = "exited" => lpc = "exited"
  PROVE  Waiting'
  BY DEF Waiting, Registered

(* removeSubscriber takes one client out of the table and closes its       *)
(* channel, or finds it closed (and panics): the others keep their place   *)
(* and every channel closed before stays closed.                            *)
LEMMA RemoveKeeps ==
  ASSUME TypeOK, NEW c \in Clients, RemoveSubscriber(c)
  PROVE  /\ \A d \in Clients \ {c} : d \in Registered => d \in Registered'
         /\ subClosed'[c]
         /\ \A d \in Clients : subClosed[d] => subClosed'[d]
<1>1. \A d \in Clients \ {c} : d \in Registered => d \in Registered'
  BY DEF RemoveSubscriber, Registered
<1>2. subClosed'[c] /\ \A d \in Clients : subClosed[d] => subClosed'[d]
  <2>1. CASE ~subClosed[c] /\ subClosed' = [subClosed EXCEPT ![c] = TRUE]
    BY <2>1 DEF TypeOK
  <2>2. CASE subClosed[c] /\ UNCHANGED subClosed
    BY <2>2
  <2>. QED
    BY <2>1, <2>2 DEF RemoveSubscriber
<1>. QED
  BY <1>1, <1>2

(* Every step of Joe keeps Waiting.                                         *)
LEMMA WaitingStep == IInv /\ Waiting /\ [Next]_vars => Waiting'
<1>. SUFFICES ASSUME IInv, Waiting, [Next]_vars PROVE Waiting'
  OBVIOUS
<1>0. TypeOK
  BY DEF IInv
<1>1. CASE UNCHANGED vars
  BY <1>1, WaitingFrame DEF vars
<1>2. ASSUME NEW c \in Clients, NEW ts \in (SUBSET Topics) \ {{}},
             SubscribeStart(c, ts)
      PROVE  Waiting'
  <2>0. ts # {}
    OBVIOUS
  <2>1. /\ cpc' = [cpc EXCEPT ![c] = "sending"]
        /\ ctopics' = [ctopics EXCEPT ![c] = ts]
        /\ UNCHANGED <<topics, lpc, subClosed>>
    BY <1>2 DEF SubscribeStart
  <2>. QED
    BY <2>0, <2>1, <1>0 DEF Waiting, Registered, TypeOK
<1>3. ASSUME NEW c \in Clients,
             SubscribeClosed(c) \/ SubscribeReceive(c) \/ SubscribeCancelled(c)
      PROVE  Waiting'
  <2>1. /\ cpc[c] # "idle"
        /\ cpc'[c] \in {"returned", "leaving"}
        /\ cpc'[c] = "leaving" => cpc[c] = "waiting"
        /\ \A d \in Clients \ {c} : cpc'[d] = cpc[d]
        /\ UNCHANGED <<topics, lpc, subClosed, ctopics>>
    BY <1>3, <1>0 DEF SubscribeClosed, SubscribeReceive, SubscribeCancelled,
       TypeOK
  <2>. QED
    BY <2>1 DEF Waiting, Registered
<1>4. ASSUME NEW c \in Clients, Subscription(c) PROVE Waiting'
  <2>1. /\ cpc[c] = "sending" /\ lpc = "select"
        /\ cpc' = [cpc EXCEPT ![c] = "waiting"]
        /\ UNCHANGED <<lpc, ctopics>>
    BY <1>4 DEF Subscription
  <2>2. c \in Registered' \/ subClosed'[c]
    <3>1. ctopics[c] # {} /\ ctopics[c] \subseteq Topics
      BY <2>1, <1>0 DEF Waiting, TypeOK
    <3>. QED
      BY <1>4, <3>1, <1>0 DEF Subscription, Registered, TypeOK
  <2>3. /\ \A d \in Clients : d \in Registered => d \in Registered'
        /\ \A d \in Clients : subClosed[d] => subClosed'[d]
    <3>1. PICK r \in ReplayOutcomes :
            \/ /\ subClosed' = [subClosed EXCEPT ![c] = TRUE]
               /\ UNCHANGED topics
            \/ /\ topics' = [t \in Topics |->
                              IF t \in ctopics[c] THEN topics[t] \cup {c}
                                                   ELSE topics[t]]
               /\ UNCHANGED subClosed
      BY <1>4 DEF Subscription
    <3>2. CASE subClosed' = [subClosed EXCEPT ![c] = TRUE] /\ UNCHANGED topics
      BY <3>2, <1>0 DEF Registered, TypeOK
    <3>3. CASE /\ topics' = [t \in Topics |->
                               IF t \in ctopics[c] THEN topics[t] \cup {c}
                                                    ELSE topics[t]]
               /\ UNCHANGED subClosed
      <4>1. \A t \in Topics : topics[t] \subseteq topics'[t]
        BY <3>3
      <4>. QED
        BY <3>3, <4>1 DEF Registered
    <3>. QED
      BY <3>1, <3>2, <3>3
  <2>. QED
    BY <2>1, <2>2, <2>3, <1>0 DEF Waiting, TypeOK
<1>5. ASSUME NEW c \in Clients, Unsubscription(c) \/ PubFail(c)
      PROVE  Waiting'
  <2>1. /\ RemoveSubscriber(c) /\ lpc' = lpc /\ lpc # "exited"
        /\ ctopics' = ctopics
        /\ \A d \in Clients \ {c} : cpc'[d] = cpc[d]
        /\ cpc'[c] = cpc[c] \/ cpc[c] = "leaving"
    BY <1>5, <1>0 DEF Unsubscription, PubFail, TypeOK
  <2>2. /\ \A d \in Clients \ {c} : d \in Registered => d \in Registered'
        /\ subClosed'[c]
        /\ \A d \in Clients : subClosed[d] => subClosed'[d]
    BY <2>1, <1>0, RemoveKeeps
  <2>3. \A d \in Clients : cpc'[d] # "idle" => ctopics'[d] # {}
    BY <2>1 DEF Waiting
  <2>4. \A d \in Clients : cpc'[d] \in {"waiting", "leaving"} =>
                             d \in Registered' \/ subClosed'[d]
    BY <2>1, <2>2 DEF Waiting
  <2>. QED
    BY <2>1, <2>3, <2>4 DEF Waiting
<1>6. CASE LoopStop
  <2>1. /\ subClosed' = [d \in Clients |-> subClosed[d] \/ d \in Registered]
        /\ UNCHANGED <<topics, cpc, ctopics>>
    BY <1>6 DEF LoopStop
  <2>2. \A c \in Clients : subClosed[c] => subClosed'[c]
    BY <2>1
  <2>3. \A c \in Registered : subClosed'[c]
    BY <2>1, <1>0, RegisteredType
  <2>. QED
    BY <2>1, <2>2, <2>3, <1>0, RegisteredType DEF Waiting, Registered
<1>7. ASSUME NEW c \in Clients, CancelContext(c) PROVE Waiting'
  BY <1>7, WaitingFrame DEF CancelContext
<1>8. ASSUME NEW m \in Msgs,
             \/ PublishClosed(m) \/ PublishAccept(m)
             \/ \E ts \in TopicSeqs(0) : PublishNoTopic(m, ts) \/ PublishStart(m, ts)
      PROVE  Waiting'
  BY <1>8, WaitingFrame DEF PublishClosed, PublishAccept, PublishNoTopic,
     PublishStart
<1>9. ASSUME NEW s \in Stoppers,
             ShutdownStart(s) \/ ShutdownAgain(s) \/ ShutdownReturn(s)
             \/ ShutdownTimeout(s)
      PROVE  Waiting'
  BY <1>9, WaitingFrame DEF ShutdownStart, ShutdownAgain, ShutdownReturn,
     ShutdownTimeout
<1>10. ASSUME Tick \/ GCStart \/ GCReturn \/ PubNextTopic \/ PubEnd
       PROVE  Waiting'
  BY <1>10, WaitingFrame DEF Tick, GCStart, GCReturn, PubNextTopic, PubEnd
<1>11. ASSUME NEW c \in Clients, PubSkip(c) \/ PubDeliver(c)
       PROVE  Waiting'
  BY <1>11, WaitingFrame DEF PubSkip, PubDeliver
<1>. QED
  BY <1>1, <1>2, <1>3, <1>4, <1>5, <1>6, <1>7, <1>8, <1>9, <1>10, <1>11
  DEF Next, Callers, Engine, LoopInternal

(* WInv holds in every reachable state.                                      *)
THEOREM WInvInvariant == Spec => []WInv
<1>1. Init => WInv
  BY InitType, HandlesInit DEF Init, WInv, IInv, Waiting, Registered
<1>2. IInv /\ [Next]_vars => IInv'
  BY TypeStep, HandlesStep, NextAny DEF IInv
<1>3. WInv /\ [Next]_vars => WInv'
  BY <1>2, WaitingStep DEF WInv
<1>. QED
  BY <1>1, <1>3, PTL DEF Spec

(* Shutdown strands no Subscribe (the Provider doc, server.go 63-65): once *)
(* the loop has exited, every Subscribe blocked in its second or third     *)
(* select has a closed channel to receive from.                             *)
THEOREM ExitReleasesWaitingInvariant == Spec => []ExitReleasesWaiting
<1>1. WInv => ExitReleasesWaiting
  BY DEF WInv, Waiting, ExitReleasesWaiting
<1>. QED
  BY <1>1, WInvInvariant, PTL

(* Shutdown's deferred recover and the open handles of the table leave one *)
(* step that can end the process: the unsubscription case closing the      *)
(* already closed channel of a cancelled Subscribe.  A failed send cannot, *)
(* since the publish case only walks registered, open channels.             *)
THEOREM PanicOnlyOnUnsubscribeHolds == Spec => PanicOnlyOnUnsubscribe
<1>1. IInv /\ [Next]_vars =>
        [~panicked /\ panicked' =>
           \E c \in Clients : /\ cpc[c] = "leaving" /\ cpc'[c] = "returned"
                              /\ subClosed[c]]_vars
  <2>. SUFFICES ASSUME IInv, Next, ~panicked, panicked'
                PROVE  \E c \in Clients : /\ cpc[c] = "leaving"
                                          /\ cpc'[c] = "returned"
                                          /\ subClosed[c]
    BY DEF vars
  <2>0. TypeOK
    BY DEF IInv
  <2>1. ASSUME NEW c \in Clients, Unsubscription(c)
        PROVE  \E d \in Clients : /\ cpc[d] = "leaving"
                                  /\ cpc'[d] = "returned"
                                  /\ subClosed[d]
    <3>1. subClosed[c]
      BY <2>1 DEF Unsubscription, RemoveSubscriber
    <3>. QED
      BY <2>1, <3>1, <2>0 DEF Unsubscription, TypeOK
  <2>2. ASSUME NEW c \in Clients, PubFail(c) PROVE FALSE
    <3>1. c \in Registered /\ lpc = "publish"
      BY <2>2 DEF PubFail, IInv, Handles
    <3>2. ~subClosed[c]
      BY <3>1 DEF IInv, Handles, RegisteredHandleOpen
    <3>. QED
      BY <2>2, <3>2 DEF PubFail, RemoveSubscriber
  <2>3. ASSUME NEW c \in Clients,
               \/ SubscribeClosed(c) \/ Subscription(c) \/ SubscribeReceive(c)
               \/ SubscribeCancelled(c) \/ CancelContext(c)
               \/ PubSkip(c) \/ PubDeliver(c)
               \/ \E ts \in (SUBSET Topics) \ {{}} : SubscribeStart(c, ts)
        PROVE  FALSE
    BY <2>3 DEF SubscribeClosed, Subscription, SubscribeReceive,
       SubscribeCancelled, CancelContext, PubSkip, PubDeliver, SubscribeStart
  <2>4. ASSUME NEW m \in Msgs,
               \/ PublishClosed(m) \/ PublishAccept(m)
               \/ \E ts \in TopicSeqs(0) : PublishNoTopic(m, ts) \/ PublishStart(m, ts)
        PROVE  FALSE
    BY <2>4 DEF PublishClosed, PublishAccept, PublishNoTopic, PublishStart
  <2>5. ASSUME NEW s \in Stoppers,
               ShutdownStart(s) \/ ShutdownAgain(s) \/ ShutdownReturn(s)
               \/ ShutdownTimeout(s)
        PROVE  FALSE
    BY <2>5 DEF ShutdownStart, ShutdownAgain, ShutdownReturn, ShutdownTimeout
  <2>6. ASSUME Tick \/ GCStart \/ GCReturn \/ PubNextTopic \/ PubEnd \/ LoopStop
        PROVE  FALSE
    BY <2>6 DEF Tick, GCStart, GCReturn, PubNextTopic, PubEnd, LoopStop
  <2>. QED
    BY <2>1, <2>2, <2>3, <2>4, <2>5, <2>6 DEF Next, Callers, Engine, LoopInternal
<1>. QED
  BY <1>1, IInvInvariant, PTL DEF Spec, PanicOnlyOnUnsubscribe

=============================================================================
