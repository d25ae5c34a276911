-------------------------------- MODULE Joe --------------------------------
(***************************************************************************)
(* The Joe provider of go-sse (src/joe.go): one event-loop goroutine that  *)
(* owns the topic table, and the goroutines of the callers of Subscribe,   *)
(* Publish and Shutdown that talk to it over unbuffered channels.          *)
(*                                                                         *)
(* A Go select is modelled as an atomic choice among its ready cases; a    *)
(* send on an unbuffered channel is a joint step of the sender and of the  *)
(* loop's select, which runs the whole case body in the same step.  The    *)
(* per-subscription channel `done` (make(chan error, 1)) is the pair       *)
(* subBuf (its one-slot buffer) and subClosed.  Closing a closed channel   *)
(* panics the loop goroutine, which ends the process: `panicked`.          *)
(***************************************************************************)
EXTENDS Naturals, Sequences, FiniteSets, Functions

CONSTANTS
  Clients,        \* the goroutines calling Subscribe, one call each
  Msgs,           \* the messages, each published once by its own goroutine
  Stoppers,       \* the goroutines calling Shutdown, one call each
  Topics,         \* topic identifiers
  MaxTopics,      \* longest topics slice given to Subscribe or Publish
  MaxTicks,       \* bound on the ticks the GC ticker delivers
  HasGC,          \* the replay provider implements ReplayProviderWithGC
                  \* and ReplayGCInterval > 0
  ReplayMayFail   \* the configured replay provider's Replay can fail

ASSUME JoeAssumption ==
  /\ Clients # {} /\ Msgs # {} /\ Stoppers # {} /\ Topics # {}
  /\ MaxTopics \in Nat \ {0}
  /\ MaxTicks \in Nat
  /\ HasGC \in BOOLEAN
  /\ ReplayMayFail \in BOOLEAN

VARIABLES
  topics,         \* j.topics: the subscribers registered under each topic
  lpc,            \* where the loop goroutine (j.start) is
  pub,            \* the publish case in progress: message, topics left,
                  \* subscribers of the current topic left, and `seen`
  done,           \* j.done has been closed (by Shutdown)
  subBuf,         \* the buffered error of each subscription's done channel
  subClosed,      \* each subscription's done channel has been closed
  cpc,            \* where each Subscribe call is
  ctopics,        \* the Topics of each Subscribe's Subscription, as a set:
                  \* registration (joe.go 250-252) depends on nothing else
  ctx,            \* each Subscribe's context is done
  cres,           \* what each Subscribe returned
  ppc,            \* where each Publish call is
  ptopics,        \* the topics each message is published to
  pres,           \* what each Publish returned
  spc,            \* where each Shutdown call is
  sres,           \* what each Shutdown returned
  tick,           \* a tick waits in the ticker's one-slot channel
  tickerStopped,  \* the ticker has been stopped
  ticks,          \* ticks delivered so far (bounded by MaxTicks)
  gcErr,          \* GC has returned an error
  delivered,      \* history: the messages each client's sink accepted
  panicked        \* the loop goroutine panicked, ending the process

vars == <<topics, lpc, pub, done, subBuf, subClosed, cpc, ctopics, ctx, cres,
          ppc, ptopics, pres, spc, sres, tick, tickerStopped, ticks, gcErr,
          delivered, panicked>>

-----------------------------------------------------------------------------
(* Values of the error results; "none" is an empty channel buffer.        *)
Errors == {"nil", "closed", "noTopic", "sinkErr", "replayErr", "ctxErr"}

(* Topics slices of length lo..MaxTopics; duplicates are allowed.          *)
TopicSeqs(lo) == UNION {[1..n -> Topics] : n \in lo..MaxTopics}

(* Every client registered under some topic of the slice ts.               *)
Subscribers(ts) == UNION {topics[t] : t \in Range(ts)}

(* Every client in the topic table (what closeSubscribers iterates).       *)
Registered == UNION {topics[t] : t \in Topics}

(* A receive from the subscription's done channel would not block.        *)
Ready(c) == subBuf[c] # "none" \/ subClosed[c]

(* The errors Replay can return: none for noopReplayProvider.              *)
ReplayOutcomes == IF ReplayMayFail THEN {"nil", "replayErr"} ELSE {"nil"}

(* Mutant of RemoveSubscriber: the subscriber is deleted from one topic   *)
(* only, as if removal used the topic being iterated.                       *)
RemoveSubscriberOneTopic(c) ==
  LET held == {t \in Topics : c \in topics[t]}
  IN /\ topics' = [t \in Topics |->
                     IF held # {} /\ t = CHOOSE x \in held : TRUE
                     THEN topics[t] \ {c} ELSE topics[t]]
     /\ \/ /\ ~subClosed[c]
           /\ subClosed' = [subClosed EXCEPT ![c] = TRUE]
           /\ UNCHANGED panicked
        \/ /\ subClosed[c]
           /\ panicked' = TRUE
           /\ UNCHANGED subClosed

(* j.removeSubscriber: delete from every topic, then close the channel;   *)
(* closing a channel that is already closed panics.                        *)
RemoveSubscriber(c) ==
  /\ topics' = [t \in Topics |-> topics[t] \ {c}]
  /\ \/ /\ ~subClosed[c]
        /\ subClosed' = [subClosed EXCEPT ![c] = TRUE]
        /\ UNCHANGED panicked
     \/ /\ subClosed[c]
        /\ panicked' = TRUE
        /\ UNCHANGED subClosed

-----------------------------------------------------------------------------
Init ==
  /\ topics = [t \in Topics |-> {}]
  /\ lpc = "select"
  /\ pub = [msg |-> CHOOSE m \in Msgs : TRUE, rest |-> <<>>,
            cur |-> {}, seen |-> {}]
  /\ done = FALSE
  /\ subBuf = [c \in Clients |-> "none"]
  /\ subClosed = [c \in Clients |-> FALSE]
  /\ cpc = [c \in Clients |-> "idle"]
  /\ ctopics = [c \in Clients |-> {}]
  /\ ctx = [c \in Clients |-> FALSE]
  /\ cres = [c \in Clients |-> "none"]
  /\ ppc = [m \in Msgs |-> "idle"]
  /\ ptopics = [m \in Msgs |-> <<>>]
  /\ pres = [m \in Msgs |-> "none"]
  /\ spc = [s \in Stoppers |-> "idle"]
  /\ sres = [s \in Stoppers |-> "none"]
  /\ tick = FALSE
  /\ tickerStopped = ~HasGC
  /\ ticks = 0
  /\ gcErr = FALSE
  /\ delivered = [c \in Clients |-> <<>>]
  /\ panicked = FALSE

-----------------------------------------------------------------------------
(***************************************************************************)
(* Subscribe (joe.go 124-147).                                             *)
(***************************************************************************)
SubscribeStart(c, ts) ==
  /\ cpc[c] = "idle"
  /\ cpc' = [cpc EXCEPT ![c] = "sending"]
  /\ ctopics' = [ctopics EXCEPT ![c] = ts]
  /\ UNCHANGED <<topics, lpc, pub, done, subBuf, subClosed, ctx, cres, ppc,
                 ptopics, pres, spc, sres, tick, tickerStopped, ticks, gcErr,
                 delivered, panicked>>

(* First select: j.done is closed.                                          *)
SubscribeClosed(c) ==
  /\ cpc[c] = "sending"
  /\ done
  /\ cpc' = [cpc EXCEPT ![c] = "returned"]
  /\ cres' = [cres EXCEPT ![c] = "closed"]
  /\ UNCHANGED <<topics, lpc, pub, done, subBuf, subClosed, ctopics, ctx, ppc,
                 ptopics, pres, spc, sres, tick, tickerStopped, ticks, gcErr,
                 delivered, panicked>>

(* Mutant of Subscription: the `if err != nil` around Replay's result is   *)
(* dropped: the result is always sent and the channel closed.               *)
SubscriptionNoErrCheck(c) ==
  /\ cpc[c] = "sending"
  /\ lpc = "select"
  /\ cpc' = [cpc EXCEPT ![c] = "waiting"]
  /\ \E r \in ReplayOutcomes :
       /\ subBuf' = [subBuf EXCEPT ![c] = r]
       /\ subClosed' = [subClosed EXCEPT ![c] = TRUE]
  /\ UNCHANGED topics
  /\ UNCHANGED <<lpc, pub, done, ctopics, ctx, cres, ppc, ptopics, pres, spc,
                 sres, tick, tickerStopped, ticks, gcErr, delivered, panicked>>

(* Mutant of Subscription: the client is registered under every topic.     *)
SubscriptionAllTopics(c) ==
  /\ cpc[c] = "sending"
  /\ lpc = "select"
  /\ cpc' = [cpc EXCEPT ![c] = "waiting"]
  /\ \E r \in ReplayOutcomes :
       \/ /\ r = "replayErr"
          /\ subBuf' = [subBuf EXCEPT ![c] = r]
          /\ subClosed' = [subClosed EXCEPT ![c] = TRUE]
          /\ UNCHANGED topics
       \/ /\ r = "nil"
          /\ topics' = [t \in Topics |-> topics[t] \cup {c}]
          /\ UNCHANGED <<subBuf, subClosed>>
  /\ UNCHANGED <<lpc, pub, done, ctopics, ctx, cres, ppc, ptopics, pres, spc,
                 sres, tick, tickerStopped, ticks, gcErr, delivered, panicked>>

(* First select: the loop takes the subscription and runs its case: a      *)
(* failed Replay sends the error and closes the channel, otherwise the     *)
(* client is registered under each of its topics.                          *)
Subscription(c) ==
  /\ cpc[c] = "sending"
  /\ lpc = "select"
  /\ cpc' = [cpc EXCEPT ![c] = "waiting"]
  /\ \E r \in ReplayOutcomes :
       \/ /\ r = "replayErr"
          /\ subBuf' = [subBuf EXCEPT ![c] = r]
          /\ subClosed' = [subClosed EXCEPT ![c] = TRUE]
          /\ UNCHANGED topics
       \/ /\ r = "nil"
          /\ topics' = [t \in Topics |->
                          IF t \in ctopics[c] THEN topics[t] \cup {c}
                                                     ELSE topics[t]]
          /\ UNCHANGED <<subBuf, subClosed>>
  /\ UNCHANGED <<lpc, pub, done, ctopics, ctx, cres, ppc, ptopics, pres, spc,
                 sres, tick, tickerStopped, ticks, gcErr, delivered, panicked>>

(* Second or third select: receive from the done channel.                  *)
SubscribeReceive(c) ==
  /\ cpc[c] \in {"waiting", "leaving"}
  /\ Ready(c)
  /\ cres' = [cres EXCEPT ![c] = IF subBuf[c] = "none" THEN "nil"
                                                       ELSE subBuf[c]]
  /\ subBuf' = [subBuf EXCEPT ![c] = "none"]
  /\ cpc' = [cpc EXCEPT ![c] = "returned"]
  /\ UNCHANGED <<topics, lpc, pub, done, subClosed, ctopics, ctx, ppc, ptopics,
                 pres, spc, sres, tick, tickerStopped, ticks, gcErr, delivered,
                 panicked>>

(* Mutant of SubscribeCancelled: Subscribe returns nil on cancellation    *)
(* without the unsubscription handshake.                                   *)
SubscribeCancelledNoUnsub(c) ==
  /\ cpc[c] = "waiting"
  /\ ctx[c]
  /\ cpc' = [cpc EXCEPT ![c] = "returned"]
  /\ cres' = [cres EXCEPT ![c] = "nil"]
  /\ UNCHANGED <<topics, lpc, pub, done, subBuf, subClosed, ctopics, ctx, ppc,
                 ptopics, pres, spc, sres, tick, tickerStopped, ticks, gcErr,
                 delivered, panicked>>

(* Mutant of SubscribeCancelled: the ctx.Done() case is missing.           *)
SubscribeCancelledIgnored(c) ==
  /\ cpc[c] = "waiting"
  /\ ctx[c]
  /\ UNCHANGED vars

(* Second select: the context is done.                                      *)
SubscribeCancelled(c) ==
  /\ cpc[c] = "waiting"
  /\ ctx[c]
  /\ cpc' = [cpc EXCEPT ![c] = "leaving"]
  /\ UNCHANGED <<topics, lpc, pub, done, subBuf, subClosed, ctopics, ctx, cres,
                 ppc, ptopics, pres, spc, sres, tick, tickerStopped, ticks,
                 gcErr, delivered, panicked>>

(* Third select: the loop takes the channel from j.unsubscription and      *)
(* removes the subscriber; Subscribe returns nil.                           *)
Unsubscription(c) ==
  /\ cpc[c] = "leaving"
  /\ lpc = "select"
  /\ cpc' = [cpc EXCEPT ![c] = "returned"]
  /\ cres' = [cres EXCEPT ![c] = "nil"]
  /\ RemoveSubscriber(c)
  /\ UNCHANGED <<lpc, pub, done, subBuf, ctopics, ctx, ppc, ptopics, pres, spc,
                 sres, tick, tickerStopped, ticks, gcErr, delivered>>

(* The caller's context is cancelled: the environment, at any time.  It is *)
(* read only by the second select, so an earlier cancel is the same as one  *)
(* just before it.                                                          *)
CancelContext(c) ==
  /\ cpc[c] = "waiting"
  /\ ~ctx[c]
  /\ ctx' = [ctx EXCEPT ![c] = TRUE]
  /\ UNCHANGED <<topics, lpc, pub, done, subBuf, subClosed, cpc, ctopics, cres,
                 ppc, ptopics, pres, spc, sres, tick, tickerStopped, ticks,
                 gcErr, delivered, panicked>>

-----------------------------------------------------------------------------
(***************************************************************************)
(* Publish (joe.go 155-170).                                               *)
(***************************************************************************)
(* len(topics) == 0: ErrNoTopic, before anything reaches the loop.         *)
PublishNoTopic(m, ts) ==
  /\ ppc[m] = "idle"
  /\ ts = << >>
  /\ ppc' = [ppc EXCEPT ![m] = "returned"]
  /\ pres' = [pres EXCEPT ![m] = "noTopic"]
  /\ UNCHANGED <<topics, lpc, pub, done, subBuf, subClosed, cpc, ctopics, ctx,
                 cres, ptopics, spc, sres, tick, tickerStopped, ticks, gcErr,
                 delivered, panicked>>

(* Mutant of PublishStart: the len(topics) check is dropped, so an empty   *)
(* slice reaches the loop and replay.Put (joe.go 221, whose doc says it   *)
(* panics without topics).                                                 *)
PublishStartUnchecked(m, ts) ==
  /\ ppc[m] = "idle"
  /\ ppc' = [ppc EXCEPT ![m] = "sending"]
  /\ ptopics' = [ptopics EXCEPT ![m] = ts]
  /\ UNCHANGED <<topics, lpc, pub, done, subBuf, subClosed, cpc, ctopics, ctx,
                 cres, pres, spc, sres, tick, tickerStopped, ticks, gcErr,
                 delivered, panicked>>

(* A non-empty slice: Publish enters its select on j.message and j.done.  *)
PublishStart(m, ts) ==
  /\ ppc[m] = "idle"
  /\ ts # << >>
  /\ ppc' = [ppc EXCEPT ![m] = "sending"]
  /\ ptopics' = [ptopics EXCEPT ![m] = ts]
  /\ UNCHANGED <<topics, lpc, pub, done, subBuf, subClosed, cpc, ctopics, ctx,
                 cres, pres, spc, sres, tick, tickerStopped, ticks, gcErr,
                 delivered, panicked>>

(* Mutant of PublishClosed: Publish lacks the `<-j.done` case that the   *)
(* comment of joe.go 162-163 asks for; once the loop has exited, the send *)
(* on j.message blocks for ever.                                            *)
PublishClosedMissing(m) ==
  /\ ppc[m] = "sending"
  /\ done
  /\ UNCHANGED vars

PublishClosed(m) ==
  /\ ppc[m] = "sending"
  /\ done
  /\ ppc' = [ppc EXCEPT ![m] = "returned"]
  /\ pres' = [pres EXCEPT ![m] = "closed"]
  /\ UNCHANGED <<topics, lpc, pub, done, subBuf, subClosed, cpc, ctopics, ctx,
                 cres, ptopics, spc, sres, tick, tickerStopped, ticks, gcErr,
                 delivered, panicked>>

(* Mutant of PublishAccept: j.message is buffered, so the send completes   *)
(* and Publish returns nil even when the loop has exited and will never   *)
(* receive it.                                                              *)
PublishAcceptBuffered(m) ==
  /\ ppc[m] = "sending"
  /\ lpc \in {"select", "exited"}
  /\ ppc' = [ppc EXCEPT ![m] = "returned"]
  /\ pres' = [pres EXCEPT ![m] = "nil"]
  /\ IF lpc = "select"
       THEN /\ lpc' = "publish"
            /\ pub' = [msg |-> m, rest |-> ptopics[m], cur |-> {}, seen |-> {}]
       ELSE UNCHANGED <<lpc, pub>>
  /\ UNCHANGED <<topics, done, subBuf, subClosed, cpc, ctopics, ctx, cres,
                 ptopics, spc, sres, tick, tickerStopped, ticks, gcErr,
                 delivered, panicked>>

(* The loop takes the message; Put of the replay provider returns the      *)
(* message to dispatch, and the fan-out starts with an empty `seen`.        *)
PublishAccept(m) ==
  /\ ppc[m] = "sending"
  /\ lpc = "select"
  /\ ppc' = [ppc EXCEPT ![m] = "returned"]
  /\ pres' = [pres EXCEPT ![m] = "nil"]
  /\ lpc' = "publish"
  /\ pub' = [msg |-> m, rest |-> ptopics[m], cur |-> {}, seen |-> {}]
  /\ UNCHANGED <<topics, done, subBuf, subClosed, cpc, ctopics, ctx, cres,
                 ptopics, spc, sres, tick, tickerStopped, ticks, gcErr,
                 delivered, panicked>>

-----------------------------------------------------------------------------
(***************************************************************************)
(* The publish case of the loop (joe.go 220-242), one subscriber per step. *)
(* Go ranges over a map in any order: any subscriber left may be next.     *)
(***************************************************************************)
PubNextTopic ==
  /\ lpc = "publish"
  /\ pub.cur = {}
  /\ pub.rest # <<>>
  /\ pub' = [pub EXCEPT !.cur = topics[Head(pub.rest)], !.rest = Tail(pub.rest)]
  /\ UNCHANGED <<topics, lpc, done, subBuf, subClosed, cpc, ctopics, ctx, cres,
                 ppc, ptopics, pres, spc, sres, tick, tickerStopped, ticks,
                 gcErr, delivered, panicked>>

(* Mutant of PubSkip: `break` instead of `continue` on a seen subscriber.   *)
PubSkipBreak(c) ==
  /\ lpc = "publish"
  /\ c \in pub.cur \cap pub.seen
  /\ pub' = [pub EXCEPT !.cur = {}]
  /\ UNCHANGED <<topics, lpc, done, subBuf, subClosed, cpc, ctopics, ctx, cres,
                 ppc, ptopics, pres, spc, sres, tick, tickerStopped, ticks,
                 gcErr, delivered, panicked>>

PubSkip(c) ==
  /\ lpc = "publish"
  /\ c \in pub.cur \cap pub.seen
  /\ pub' = [pub EXCEPT !.cur = @ \ {c}]
  /\ UNCHANGED <<topics, lpc, done, subBuf, subClosed, cpc, ctopics, ctx, cres,
                 ppc, ptopics, pres, spc, sres, tick, tickerStopped, ticks,
                 gcErr, delivered, panicked>>

(* Mutant of PubDeliver: the client is not added to `seen`.                *)
PubDeliverNoSeen(c) ==
  /\ lpc = "publish"
  /\ c \in pub.cur \ pub.seen
  /\ delivered' = [delivered EXCEPT ![c] = Append(@, pub.msg)]
  /\ pub' = [pub EXCEPT !.cur = @ \ {c}]
  /\ UNCHANGED <<topics, lpc, done, subBuf, subClosed, cpc, ctopics, ctx, cres,
                 ppc, ptopics, pres, spc, sres, tick, tickerStopped, ticks,
                 gcErr, panicked>>

(* Send and Flush succeed: the client joins `seen`.                         *)
PubDeliver(c) ==
  /\ lpc = "publish"
  /\ c \in pub.cur \ pub.seen
  /\ delivered' = [delivered EXCEPT ![c] = Append(@, pub.msg)]
  /\ pub' = [pub EXCEPT !.cur = @ \ {c}, !.seen = @ \cup {c}]
  /\ UNCHANGED <<topics, lpc, done, subBuf, subClosed, cpc, ctopics, ctx, cres,
                 ppc, ptopics, pres, spc, sres, tick, tickerStopped, ticks,
                 gcErr, panicked>>

(* Send or Flush fails: `done <- err` (it blocks while the one-slot buffer *)
(* is full), then removeSubscriber.                                          *)
PubFail(c) ==
  /\ lpc = "publish"
  /\ c \in pub.cur \ pub.seen
  /\ subBuf[c] = "none"
  /\ subBuf' = [subBuf EXCEPT ![c] = "sinkErr"]
  /\ RemoveSubscriber(c)
  /\ pub' = [pub EXCEPT !.cur = @ \ {c}]
  /\ UNCHANGED <<lpc, done, cpc, ctopics, ctx, cres, ppc, ptopics, pres, spc,
                 sres, tick, tickerStopped, ticks, gcErr, delivered>>

PubEnd ==
  /\ lpc = "publish"
  /\ pub.cur = {}
  /\ pub.rest = <<>>
  /\ lpc' = "select"
  /\ UNCHANGED <<topics, pub, done, subBuf, subClosed, cpc, ctopics, ctx, cres,
                 ppc, ptopics, pres, spc, sres, tick, tickerStopped, ticks,
                 gcErr, delivered, panicked>>

-----------------------------------------------------------------------------
(***************************************************************************)
(* Replay GC: the ticker (joe.go 310-318, time.Ticker with a one-slot      *)
(* channel that drops a tick while full; Stop does not drain it) and the   *)
(* loop's gcSignal case (255-258).                                          *)
(***************************************************************************)
Tick ==
  /\ ~tickerStopped
  /\ ~tick
  /\ ticks < MaxTicks
  /\ tick' = TRUE
  /\ ticks' = ticks + 1
  /\ UNCHANGED <<topics, lpc, pub, done, subBuf, subClosed, cpc, ctopics, ctx,
                 cres, ppc, ptopics, pres, spc, sres, tickerStopped, gcErr,
                 delivered, panicked>>

GCStart ==
  /\ lpc = "select"
  /\ tick
  /\ tick' = FALSE
  /\ lpc' = "gc"
  /\ UNCHANGED <<topics, pub, done, subBuf, subClosed, cpc, ctopics, ctx, cres,
                 ppc, ptopics, pres, spc, sres, tickerStopped, ticks, gcErr,
                 delivered, panicked>>

GCReturn ==
  /\ lpc = "gc"
  /\ lpc' = "select"
  /\ \/ UNCHANGED <<tickerStopped, gcErr>>
     \/ /\ tickerStopped' = TRUE
        /\ gcErr' = TRUE
  /\ UNCHANGED <<topics, pub, done, subBuf, subClosed, cpc, ctopics, ctx, cres,
                 ppc, ptopics, pres, spc, sres, tick, ticks, delivered,
                 panicked>>

-----------------------------------------------------------------------------
(***************************************************************************)
(* Shutdown (joe.go 176-194) and the loop's exit with its deferred calls   *)
(* (212-216, 259-260, closeSubscribers 265-278).                           *)
(***************************************************************************)
ShutdownStart(s) ==
  /\ spc[s] = "idle"
  /\ ~done
  /\ done' = TRUE
  /\ spc' = [spc EXCEPT ![s] = "waiting"]
  /\ UNCHANGED <<topics, lpc, pub, subBuf, subClosed, cpc, ctopics, ctx, cres,
                 ppc, ptopics, pres, sres, tick, tickerStopped, ticks, gcErr,
                 delivered, panicked>>

(* Mutant of ShutdownAgain: the deferred recover is missing, so closing    *)
(* j.done again panics and ends the process.                                *)
ShutdownAgainNoRecover(s) ==
  /\ spc[s] = "idle"
  /\ done
  /\ panicked' = TRUE
  /\ UNCHANGED <<topics, lpc, pub, done, subBuf, subClosed, cpc, ctopics, ctx,
                 cres, ppc, ptopics, pres, spc, sres, tick, tickerStopped,
                 ticks, gcErr, delivered>>

(* close(j.done) on a closed channel panics; the deferred recover turns it *)
(* into ErrProviderClosed.                                                  *)
ShutdownAgain(s) ==
  /\ spc[s] = "idle"
  /\ done
  /\ spc' = [spc EXCEPT ![s] = "returned"]
  /\ sres' = [sres EXCEPT ![s] = "closed"]
  /\ UNCHANGED <<topics, lpc, pub, done, subBuf, subClosed, cpc, ctopics, ctx,
                 cres, ppc, ptopics, pres, tick, tickerStopped, ticks, gcErr,
                 delivered, panicked>>

ShutdownReturn(s) ==
  /\ spc[s] = "waiting"
  /\ lpc = "exited"
  /\ spc' = [spc EXCEPT ![s] = "returned"]
  /\ sres' = [sres EXCEPT ![s] = "nil"]
  /\ UNCHANGED <<topics, lpc, pub, done, subBuf, subClosed, cpc, ctopics, ctx,
                 cres, ppc, ptopics, pres, tick, tickerStopped, ticks, gcErr,
                 delivered, panicked>>

(* The caller's context expires first: the environment, at any time.        *)
ShutdownTimeout(s) ==
  /\ spc[s] = "waiting"
  /\ spc' = [spc EXCEPT ![s] = "returned"]
  /\ sres' = [sres EXCEPT ![s] = "ctxErr"]
  /\ UNCHANGED <<topics, lpc, pub, done, subBuf, subClosed, cpc, ctopics, ctx,
                 cres, ppc, ptopics, pres, tick, tickerStopped, ticks, gcErr,
                 delivered, panicked>>

(* Mutant of LoopStop: the deferred closeSubscribers is missing.           *)
LoopStopNoClose ==
  /\ lpc = "select"
  /\ done
  /\ lpc' = "exited"
  /\ tickerStopped' = TRUE
  /\ UNCHANGED <<topics, pub, done, subBuf, subClosed, cpc, ctopics, ctx, cres,
                 ppc, ptopics, pres, spc, sres, tick, ticks, gcErr, delivered,
                 panicked>>

(* The loop sees j.done closed and returns: stopGCSignal, closeSubscribers *)
(* (each registered channel once), close(j.closed).                        *)
LoopStop ==
  /\ lpc = "select"
  /\ done
  /\ lpc' = "exited"
  /\ tickerStopped' = TRUE
  /\ subClosed' = [c \in Clients |-> subClosed[c] \/ c \in Registered]
  /\ UNCHANGED <<topics, pub, done, subBuf, cpc, ctopics, ctx, cres, ppc,
                 ptopics, pres, spc, sres, tick, ticks, gcErr, delivered,
                 panicked>>

-----------------------------------------------------------------------------
(* The steps of the loop goroutine that need no other goroutine.            *)
LoopInternal ==
  \/ PubNextTopic \/ PubEnd \/ GCStart \/ GCReturn \/ LoopStop
  \/ \E c \in Clients : PubSkip(c) \/ PubDeliver(c) \/ PubFail(c)

(* The callers entering Subscribe and Publish with their arguments.         *)
Callers ==
  \/ \E c \in Clients, ts \in (SUBSET Topics) \ {{}} : SubscribeStart(c, ts)
  \/ \E m \in Msgs, ts \in TopicSeqs(0) :
       PublishNoTopic(m, ts) \/ PublishStart(m, ts)

(* Every other step: the loop, the ticker, and the facades once entered.    *)
Engine ==
  \/ LoopInternal
  \/ Tick
  \/ \E c \in Clients :
       \/ SubscribeClosed(c) \/ Subscription(c) \/ SubscribeReceive(c)
       \/ SubscribeCancelled(c) \/ Unsubscription(c) \/ CancelContext(c)
  \/ \E m \in Msgs : PublishClosed(m) \/ PublishAccept(m)
  \/ \E s \in Stoppers :
       ShutdownStart(s) \/ ShutdownAgain(s) \/ ShutdownReturn(s)
       \/ ShutdownTimeout(s)

Next == ~panicked /\ (Callers \/ Engine)

(* Goroutines that can run do run; callers, contexts, clocks and the       *)
(* ticker are the environment and owe nothing.                              *)
Fairness ==
  /\ WF_vars(~panicked /\ LoopInternal)
  /\ \A c \in Clients :
       /\ WF_vars(~panicked /\ SubscribeClosed(c))
       /\ WF_vars(~panicked /\ Subscription(c))
       /\ WF_vars(~panicked /\ SubscribeReceive(c))
       /\ WF_vars(~panicked /\ SubscribeCancelled(c))
       /\ WF_vars(~panicked /\ Unsubscription(c))
  /\ \A m \in Msgs :
       WF_vars(~panicked /\ (PublishClosed(m) \/ PublishAccept(m)))
  /\ \A s \in Stoppers : WF_vars(~panicked /\ ShutdownReturn(s))

Spec == Init /\ [][Next]_vars

FairSpec == Spec /\ Fairness

-----------------------------------------------------------------------------
(***************************************************************************)
(* Properties.                                                             *)
(***************************************************************************)
(* Type invariant: every variable of the loop, the facades and the ticker. *)
TypeOK ==
  /\ topics \in [Topics -> SUBSET Clients]
  /\ lpc \in {"select", "publish", "gc", "exited"}
  /\ pub \in [msg : Msgs, rest : Seq(Topics), cur : SUBSET Clients,
              seen : SUBSET Clients]
  /\ done \in BOOLEAN
  /\ subBuf \in [Clients -> {"none", "sinkErr", "replayErr"}]
  /\ subClosed \in [Clients -> BOOLEAN]
  /\ cpc \in [Clients -> {"idle", "sending", "waiting", "leaving", "returned"}]
  /\ ctopics \in [Clients -> SUBSET Topics]
  /\ ctx \in [Clients -> BOOLEAN]
  /\ cres \in [Clients -> Errors \cup {"none"}]
  /\ ppc \in [Msgs -> {"idle", "sending", "returned"}]
  /\ ptopics \in [Msgs -> Seq(Topics)]
  /\ pres \in [Msgs -> Errors \cup {"none"}]
  /\ spc \in [Stoppers -> {"idle", "waiting", "returned"}]
  /\ sres \in [Stoppers -> Errors \cup {"none"}]
  /\ tick \in BOOLEAN
  /\ tickerStopped \in BOOLEAN
  /\ ticks \in 0..MaxTicks
  /\ gcErr \in BOOLEAN
  /\ delivered \in [Clients -> Seq(Msgs)]
  /\ panicked \in BOOLEAN

(* While the loop runs, every channel in the topic table is open and its   *)
(* buffer empty, so the publish case's `done <- err` (joe.go 236) never     *)
(* blocks the loop and never panics, and closeSubscribers never closes a   *)
(* channel twice.                                                           *)
RegisteredHandleOpen ==
  lpc # "exited" =>
    \A c \in Registered : ~subClosed[c] /\ subBuf[c] = "none"

(* Once Subscribe has returned (ServeHTTP then returns and the             *)
(* ResponseWriter must not be used), the running loop holds no reference   *)
(* to the client's sink: it is in no topic and not left to be sent to by   *)
(* the publish in progress.                                                 *)
SinkReleasedOnReturn ==
  lpc # "exited" =>
    \A c \in Clients : cpc[c] = "returned" => c \notin Registered \cup pub.cur

(* Every client receives each message at most once, however many of its   *)
(* topics the message is published to and however often a topic repeats  *)
(* in the slice (the `seen` set of joe.go 222-228).                         *)
AtMostOnce == \A c \in Clients : IsInjective(delivered[c])

(* A client only receives messages published to one of its own topics.    *)
TopicIsolation ==
  \A c \in Clients : \A i \in DOMAIN delivered[c] :
    Range(ptopics[delivered[c][i]]) \cap ctopics[c] # {}

(* When a publish case ends, every client still registered under one of   *)
(* the message's topics has received it: skipping a client already seen   *)
(* under an earlier topic must not skip anyone else.                        *)
PublishReachesAll ==
  [][lpc = "publish" /\ lpc' = "select" =>
       \A c \in Subscribers(ptopics[pub.msg]) :
         pub.msg \in Range(delivered[c])]_vars

(* A Subscribe whose context is cancelled while it waits returns.          *)
CancelReleases ==
  \A c \in Clients :
    (cpc[c] = "waiting" /\ ctx[c]) ~> (cpc[c] = "returned" \/ panicked)

(* The Provider doc (server.go 63-65): after Shutdown all the listener     *)
(* channels are closed.  Once the loop has exited, every Subscribe blocked  *)
(* in its second or third select (joe.go 135-146) has a closed channel to   *)
(* receive from: the loop's deferred closeSubscribers (265-278) reached it, *)
(* or removeSubscriber or a failed Replay closed it before.                 *)
ExitReleasesWaiting ==
  lpc = "exited" =>
    \A c \in Clients : cpc[c] \in {"waiting", "leaving"} => subClosed[c]

(* Once Shutdown closes j.done, the loop exits and every Subscribe that    *)
(* had started returns.                                                     *)
ShutdownReleasesAll ==
  done ~> (panicked \/ (lpc = "exited" /\
                        \A c \in Clients : cpc[c] \in {"idle", "returned"}))

(* Publish and Shutdown block their caller only until the loop answers    *)
(* (joe.go 162-169, 187-191): a Publish that has started returns, by the   *)
(* loop taking the message or by j.done, and so does a Shutdown that closed *)
(* j.done, once the loop has exited or its context expired.                *)
CallsReturn ==
  /\ \A m \in Msgs : ppc[m] = "sending" ~> (ppc[m] = "returned" \/ panicked)
  /\ \A s \in Stoppers : spc[s] = "waiting" ~> (spc[s] = "returned" \/ panicked)

(* spec.md 3: a subscriber handle is closed exactly once; closing it a     *)
(* second time panics the loop goroutine and ends the process.             *)
HandleClosedOnce == ~panicked

(* Shutdown's doc (joe.go 172-175): further calls return                    *)
(* ErrProviderClosed, by the deferred recover of the second close(j.done).   *)
(* No step of a Shutdown, a failed send, a failed Replay or the loop's exit  *)
(* ends the process: the one step that does is the loop's unsubscription    *)
(* case closing, in removeSubscriber (208), the channel of a cancelled      *)
(* Subscribe that the loop had already closed (finding 1).                   *)
PanicOnlyOnUnsubscribe ==
  [][~panicked /\ panicked' =>
       \E c \in Clients : /\ cpc[c] = "leaving" /\ cpc'[c] = "returned"
                          /\ subClosed[c]]_vars

(* spec.md 4.2 and 8: once GC returns an error, GC is not run again.       *)
GCStopsAfterError == lpc = "gc" => ~gcErr

=============================================================================
