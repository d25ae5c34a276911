---------------------------- MODULE ServerProofs ----------------------------
(***************************************************************************)
(* Proofs about the Server over Joe, for every value of the constants that *)
(* satisfies JoeAssumption and ServerAssumption.  Every step of the Server  *)
(* is a step of Joe with a wider choice of arguments (AnyNext: the topics   *)
(* of an OnSession subscription may be empty) or leaves Joe's state alone,  *)
(* so Joe's invariants and its refinement of PubSub carry over.            *)
(***************************************************************************)
EXTENDS Server, JoeFanOutProofs

(* getTopics never returns an empty slice, and keeps the slice's topics.   *)
LEMMA GetTopicsType ==
  ASSUME NEW ts \in TopicSeqs(0)
  PROVE  GetTopics(ts) \in Seq(Topics) \ {<< >>}
<1>1. ts \in Seq(Topics)
  BY TopicSeqsType
<1>2. << DefaultTopic >> \in Seq(Topics)
  BY ServerAssumption
<1>. QED
  BY <1>1, <1>2 DEF GetTopics

(* On Joe's variables, a step of the Server is a step of AnyNext or none.  *)
LEMMA ServerStepJoe == [ServerNext]_allvars => [AnyNext]_vars
<1>. SUFFICES ASSUME ServerNext PROVE [AnyNext]_vars
  BY DEF allvars
<1>1. CASE Engine /\ UNCHANGED svars
  BY <1>1 DEF ServerNext, AnyNext
<1>2. ASSUME NEW c \in Clients,
             ServeUnsupported(c) \/ ServeInvalid(c) \/ ServeEnd(c)
      PROVE  UNCHANGED vars
  BY <1>2 DEF ServeUnsupported, ServeInvalid, ServeEnd
<1>3. ASSUME NEW c \in Clients, NEW ts \in SessionTopics, ServeSubscribe(c, ts)
      PROVE  AnyNext
  <2>1. ts \in SUBSET Topics
    BY ServerAssumption DEF SessionTopics
  <2>. QED
    BY <1>3, <2>1 DEF ServeSubscribe, ServerNext, AnyNext, CallersAny
<1>4. ASSUME NEW m \in Msgs, NEW ts \in TopicSeqs(0), ServerPublish(m, ts)
      PROVE  AnyNext
  <2>1. GetTopics(ts) \in Seq(Topics) \ {<< >>}
    BY GetTopicsType
  <2>. QED
    BY <1>4, <2>1 DEF ServerPublish, ServerNext, AnyNext, CallersAny
<1>. QED
  BY <1>1, <1>2, <1>3, <1>4 DEF ServerNext

(* RInv holds in every reachable state of the Server.                      *)
LEMMA ServerRInv == ServerSpec => []RInv
<1>1. ServerInit => RInv
  BY DeliveriesInit, InitType, HandlesInit DEF ServerInit, RInv, IInv
<1>2. RInv /\ [AnyNext]_vars => RInv'
  BY TypeStep, HandlesStep, DeliveriesStep DEF RInv, IInv
<1>. QED
  BY <1>1, <1>2, ServerStepJoe, PTL DEF ServerSpec

(* The ServeHTTP part of the type invariant is kept by every step.          *)
LEMMA ServeStep ==
  ASSUME ServerTypeOK, [ServerNext]_allvars
  PROVE  /\ hpc' \in [Clients -> {"idle", "serving", "ended"}]
         /\ hresp' \in [Clients -> {"none", "unsupported", "ok", "error"}]
<1>1. CASE UNCHANGED svars
  BY <1>1 DEF ServerTypeOK, svars
<1>2. ASSUME NEW c \in Clients,
             \/ ServeUnsupported(c) \/ ServeInvalid(c) \/ ServeEnd(c)
             \/ \E ts \in SessionTopics : ServeSubscribe(c, ts)
      PROVE  /\ hpc' \in [Clients -> {"idle", "serving", "ended"}]
             /\ hresp' \in [Clients -> {"none", "unsupported", "ok",
                                        "error"}]
  BY <1>2 DEF ServeUnsupported, ServeInvalid, ServeEnd, ServeSubscribe,
     ServerTypeOK
<1>. QED
  BY <1>1, <1>2 DEF ServerNext, ServerPublish, allvars

(* Type correctness of the Server and Joe: each ServeHTTP call is idle,    *)
(* serving or ended and has written one of the responses of ServeHTTP      *)
(* (server.go, Upgrade failure, Subscribe's error or a clean end), and    *)
(* Joe's goroutines keep their types whatever topics OnSession chooses.   *)
THEOREM ServerTypeCorrect == ServerSpec => []ServerTypeOK
<1>1. ServerInit => ServerTypeOK
  BY InitType DEF ServerInit, ServerTypeOK
<1>2. ServerTypeOK /\ [ServerNext]_allvars => ServerTypeOK'
  <2>. SUFFICES ASSUME ServerTypeOK, [ServerNext]_allvars PROVE ServerTypeOK'
    OBVIOUS
  <2>1. TypeOK'
    BY ServerStepJoe, TypeStep DEF ServerTypeOK
  <2>. QED
    BY <2>1, ServeStep DEF ServerTypeOK
<1>. QED
  BY <1>1, <1>2, PTL DEF ServerSpec

(* The Server keeps the Provider contract (server.go 45-73) over Joe, also *)
(* when an OnSession callback subscribes a session to no topic at all: a   *)
(* session's sink only gets accepted messages of its topics while it is    *)
(* registered, each at most once, and nothing after Shutdown.              *)
THEOREM ServerRefinement == ServerSpec => ImplementsProvider
<1>1. RInv /\ RInv' /\ [ServerNext]_allvars => [Provider!PNext]_Provider!pvars
  BY ServerStepJoe, RefineStep
<1>2. ServerInit => Provider!PInit
  BY RefineInit DEF ServerInit
<1>. QED
  BY <1>1, <1>2, ServerRInv, PTL
  DEF ServerSpec, ImplementsProvider, Provider!PSpec

(* Server.Publish fans a message out as Joe does: every session registered *)
(* under one of its topics, the default topic included, has it once the    *)
(* publish case ends.                                                       *)
THEOREM ServerPublishReachesAll == ServerSpec => PublishReachesAll
<1>1. ServerInit => FInv
  BY FInvInit DEF ServerInit
<1>2. FInv /\ [ServerNext]_allvars => FInv'
  BY ServerStepJoe, FInvStep
<1>3. FInv /\ [ServerNext]_allvars =>
        [lpc = "publish" /\ lpc' = "select" =>
           \A c \in Subscribers(ptopics[pub.msg]) :
             pub.msg \in Range(delivered[c])]_vars
  <2>. SUFFICES ASSUME FInv, [ServerNext]_allvars, lpc = "publish",
                       lpc' = "select", NEW c \in Subscribers(ptopics[pub.msg])
                PROVE  pub.msg \in Range(delivered[c])
    OBVIOUS
  <2>1. [AnyNext]_vars
    BY ServerStepJoe
  <2>2. pub.cur = {} /\ pub.rest = << >>
    BY <2>1, PublishExit DEF PubEnd
  <2>3. PICK t \in Range(ptopics[pub.msg]) : c \in topics[t]
    BY DEF Subscribers
  <2>4. t \notin Range(pub.rest)
    BY <2>2 DEF Range
  <2>. QED
    BY <2>2, <2>3, <2>4 DEF FInv, Reached, TopicsLeftReached
<1>. QED
  BY <1>1, <1>2, <1>3, PTL DEF ServerSpec, PublishReachesAll

=============================================================================
