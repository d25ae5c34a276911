# TLA+ models of go-sse's server side

This directory holds TLA+ models of the publish/subscribe core of go-sse:

- the `Joe` provider (`src/joe.go`);
- the no-op replay provider (`src/replay_noop.go`);
- the `Server` that puts HTTP sessions on top of it (`src/unnamed/part_001`, which is `server.go`).

TLC model-checks the models on small instances. TLAPS proves the main safety invariants for every instance.

## The system

**Joe** is built around one event-loop goroutine, `j.start` (joe.go 211-263).

- **Who changes the topic table.** The loop owns the topic table `j.topics`. No other goroutine changes it.
- **How callers reach the loop.** Callers talk to the loop over three unbuffered channels: `message`, `subscription` and `unsubscription`. The loop also watches the GC ticker's channel and `j.done`.
- **What a subscription is.** Each subscription is a `done chan error` with a one-slot buffer (line 127). The loop sends a failure on it and closes it (`removeSubscriber`, 203-209).
- **Subscribe** (124-147) blocks in three selects:
  1. it hands the subscription to the loop, or sees `j.done`;
  2. it waits for an error on `done`, or for its context;
  3. after a cancel, it either receives from `done` or hands `done` back on `unsubscription`.
- **Publish** (155-170) rejects an empty topics slice. Otherwise it races the message against `j.done`.
- **Shutdown** (176-194) closes `j.done`. A second close panics, and the deferred `recover` turns that into `ErrProviderClosed`. Then Shutdown waits for `j.closed` or for its own context.
- **The publish case** (220-242) sends the message to every subscriber of every listed topic. It keeps a `seen` set so that a client gets each message once. A failed Send or Flush sends the error and removes the subscriber.
- **The loop's exit.** On exit the loop's deferred calls run in order: they stop the ticker, close every registered channel once (`closeSubscribers`, 265-278) and close `j.closed`.
- **GC.** With a GC-capable replay provider and a positive interval, a `time.Ticker` (310-318) drives the replay provider's GC. An error from GC stops the ticker (255-258).

**Server** (part_001) wraps a provider and defaults to Joe (`init`, 202-209).

- **ServeHTTP** (136-180) upgrades the request. It then takes the subscription from `OnSession` or from `getSubscription`'s default-topic slice, calls `Subscribe`, and writes a 500 for an error.
- **`Server.Publish`** (184-187) replaces an empty topics slice by the default topic (`getTopics`, 233-239).

## Modules

| Module | Models |
|---|---|
| `Joe.tla` | Joe: the loop, the three facades and the GC ticker. |
| `Server.tla` | EXTENDS Joe. Adds the ServeHTTP sessions and `Server.Publish`. |
| `PubSub.tla` | The abstract Provider contract (server.go 45-73 and Joe's doc comments), with no goroutines or channels. |
| `JoeRefinement.tla` | EXTENDS Joe. The refinement mapping from Joe's state to PubSub's, and `ImplementsProvider`. |
| `JoeProofs.tla` | TLAPS proofs about `Joe`: types, the handle invariants and `ExitReleasesWaiting`. |
| `JoeRefinementProofs.tla` | TLAPS proofs of the delivery invariants and of the refinement. |
| `JoeFanOutProofs.tla` | TLAPS proof that the publish case reaches every subscriber (`PublishReachesAll`). |
| `ServerProofs.tla` | TLAPS proofs that the Server over Joe keeps Joe's invariants and the refinement. |
| `MCJoe.tla`, `MCServer.tla`, `MCJoeRefinement.tla` | TLC instances (symmetry sets). `MCServer` also extends JoeRefinement. |

### Joe.tla

**State.** The table is `topics`. The loop's place is `lpc`: `select`, `publish`, `gc` or `exited`. The publish case in progress is `pub`:

- the message;
- the topics left;
- the subscribers of the current topic left;
- `seen`.

Each client has a subscription channel, modelled as `subBuf` (its one-slot buffer) and `subClosed`. `done` is whether `j.done` is closed. Each Subscribe, Publish and Shutdown call has a program counter and a result. The ticker is `tick` (the one-slot channel), `tickerStopped` and `ticks`. `delivered` is a history of what each sink accepted. `panicked` records that a channel was closed twice, which ends the process.

**Atomicity.**

- A Go `select` is one atomic choice among its ready cases.
- A send on an unbuffered channel is one step. In that step the receiver's whole case body runs, because the loop does nothing else until the body ends.
- The publish case is split into one step per subscriber. The order is free, because Go's map iteration order is unspecified.

**Actions, one per code path.**

| Code | Actions |
|---|---|
| Subscribe | `SubscribeStart`, `SubscribeClosed`, `Subscription` (the loop's subscription case, including a failed Replay), `SubscribeReceive`, `SubscribeCancelled`, `Unsubscription` (the third select's send joined with the loop's unsubscription case) |
| The environment | `CancelContext` |
| Publish | `PublishNoTopic`, `PublishStart`, `PublishClosed`, `PublishAccept` |
| The publish case | `PubNextTopic`, `PubSkip`, `PubDeliver`, `PubFail` (which includes `done <- err` and `removeSubscriber`), `PubEnd` |
| The ticker and GC | `Tick`, `GCStart`, `GCReturn` |
| Shutdown | `ShutdownStart`, `ShutdownAgain` (the recovered double close), `ShutdownReturn`, `ShutdownTimeout` |
| The loop's exit | `LoopStop`: the `done` case plus all three deferred calls |

**Inputs.**

- Subscribe takes its topics as a non-empty set. Registration (250-252) depends on nothing else.
- Publish takes a slice of length 0..`MaxTopics`, and duplicates are allowed. The `len(topics) == 0` check is a guard: `PublishNoTopic` takes the empty slice, `PublishStart` the others.
- `ReplayMayFail` says whether Replay can fail. `noopReplayProvider` never fails.
- `HasGC` says whether GC is scheduled.

**Fairness (`FairSpec`).** Weak fairness applies to the loop's internal steps and to each facade step that another goroutine can complete. Nothing is assumed of callers, contexts, timeouts or the ticker. This matches the code: a goroutine that can run does run, and the environment owes nothing.

**Deadlock.** `CHECK_DEADLOCK FALSE` is set everywhere. A library with no caller active is idle, not deadlocked. Hangs are checked as liveness properties instead.

### Server.tla

The Server model adds `hpc` and `hresp` for each ServeHTTP call. It has these actions:

- `ServeUnsupported`: Upgrade fails.
- `ServeInvalid`: OnSession rejects the session.
- `ServeSubscribe`: calls Joe's `SubscribeStart` with the topic set `getSubscription` produces.
- `ServeEnd`: the response after Subscribe returns.
- `ServerPublish`: Joe's `PublishStart` with `getTopics` applied.

Joe's other steps run unchanged. Server.Shutdown and the lazy `init` are the same as Joe's Shutdown and init.

## Runs

| run | cfg | checks | result |
|---|---|---|---|
| fanout | MCJoeFanout | TypeOK, RegisteredHandleOpen, SinkReleasedOnReturn, AtMostOnce, TopicIsolation, PublishReachesAll, ExitReleasesWaiting | pass, about 1.9M states |
| cancel | MCJoeCancel | CancelReleases (under FairSpec) | pass |
| shutdown | MCJoeShutdown | ShutdownReleasesAll (under FairSpec) | pass |
| refinement | MCJoeRefinement | ImplementsProvider: Joe refines PubSub | pass, about 90K states |
| calls_return | MCJoeCalls | CallsReturn: Publish and Shutdown return (under FairSpec); PanicOnlyOnUnsubscribe: only the unsubscription case's second close ends the process | pass |
| double_close | MCJoeDoubleClose | HandleClosedOnce | **violation** |
| gc_after_error | MCJoeGCStop | GCStopsAfterError | **violation** |
| server_shutdown | MCServerShutdown | ServerTypeOK, ShutdownEndsSessions | pass |
| server_sessions | MCServerSessions | ImplementsProvider, with OnSession | pass, about 1.4M states |
| server_onsession | MCServerOnSession | ShutdownEndsSessions, with OnSession | **violation** |

**Bounds.**

- *fanout* has two clients, two messages and two topics, with slices of up to two topics. That is enough for a client on both topics of a message, a topic repeated in a slice, and two clients with different topic sets. It also allows a sink failure during a fan-out, a cancel racing a failure, and a subscribe or publish racing Shutdown.
- *refinement* has two clients on two topics, one message, one Shutdown caller, Replay failures, and no GC. GC touches none of the mapped state, so it adds only stutter steps. The proof covers GC and every size.
- *calls_return* has two messages and two Shutdown callers, so that a Publish races the loop's exit and a second Shutdown hits the recovered close. It also has one GC tick.
- The other liveness runs use one topic and one message. They use two Shutdown callers, so that the second one hits the recovered double close. They also have one GC tick.
- Between them, the passing runs fire every action. The GC steps (`Tick`, `GCStart`, `GCReturn`) fire only in the runs with `HasGC` and ticks: cancel, shutdown, calls_return and the Server runs. fanout and refinement leave GC out, since it touches none of the state their properties are about.

**Mutants.** For each property, a mutant of the code (listed in PROJECT.json) shows that TLC catches the plausible bug it stands for. Examples:

- `break` instead of `continue` on a seen subscriber;
- deleting from only one topic;
- a missing `closeSubscribers`;
- a Shutdown without its deferred `recover`;
- returning on cancel without the handshake;
- `getSubscription` without the default topic;
- Publish without the `len(topics)` check, or without the `<-j.done` case;
- a buffered `j.message`, which makes Publish return nil after the loop has exited.

## Findings

1. **Double close on cancel (code bug).** See joe.go 141-146 with 236-237 and 208. A Subscribe whose context is cancelled reaches its third select. If the loop has already failed to send to this client, `done` holds an error and is closed, so both cases are ready. If Go picks `j.unsubscription <- done`, `removeSubscriber` closes `done` a second time. The loop goroutine then panics, which ends the whole process. Subscribe also returns nil and drops the sink's error. The same happens after a failed Replay (245-246). TLC finds this in 7 steps (run `double_close`).
2. **GC runs after it failed (divergence from spec.md 4.2 and 8).** `stopGCSignal` is `Ticker.Stop`, which does not drain a tick already buffered. This holds before Go 1.23, and `go.mod` is not in this repository. So GC can run once more after it returned an error (run `gc_after_error`).
3. **OnSession without topics (divergence from the Subscription doc, server.go 37-41).** ServeHTTP does not add the default topic to an OnSession subscription. A session with no topics is never registered, gets no message, and is not ended by Shutdown (run `server_onsession`). Once the loop has exited, not even its request context ends it: a cancelled Subscribe then blocks in its third select, where nothing is sent on `done` and no one receives on `j.unsubscription`.

A further point cannot be checked by TLC: `noopReplayProvider` (replay_noop.go 7-8) has `Put(*Message) *Message` and `Replay(Subscription) bool`. Those signatures do not satisfy `ReplayProvider`, yet `init` assigns `noopReplayProvider{}` to one (line 291).

## Proofs (checked by `tlapm` on JoeProofs, JoeRefinementProofs, JoeFanOutProofs and ServerProofs)

The proofs assume only `JoeAssumption`: the sets are non-empty, the bounds are naturals and the flags are Booleans.

The strengthened invariants below (`IInv`, `RInv`, `FInv`, `WInv`) are the proofs' lemmas. Each was model-checked on the fanout instance before its proof was written. They are not kept as runs of their own, because they add only the conjuncts their proofs need to properties the runs already check.

**TypeCorrect: `Spec => []TypeOK`.** `InitType` and `TypeStep` prove it. `TypeStep` has one step per action. The large steps split `TypeOK'` into the variables the action changes and the ones it leaves alone.

**IInvInvariant: `Spec => []IInv`.** Here `IInv == TypeOK /\ Handles`. `Handles` has five conjuncts:

- `RegisteredHandleOpen`;
- `SinkReleasedOnReturn`;
- `pub.cur` is empty outside the publish case;
- `pub.cur \subseteq Registered`;
- a client that is idle or still sending has an open, empty, unregistered channel.

Neither property is inductive alone. Two things hold them up:

- `Subscription` registers a client. That keeps `RegisteredHandleOpen` only because the client's channel has never been touched: this is the last conjunct.
- `PubNextTopic` loads the table's subscribers into the cursor, and `Unsubscription` runs only while the cursor is empty. So a returned client can be in neither: these are the two `pub.cur` conjuncts.

`HandlesFrame` disposes of the ten actions that leave the handle variables alone. The other actions have their own steps. `IInv` was model-checked as an invariant on the fanout instance before the proof was written.

**RegisteredHandleOpenInvariant, SinkReleasedOnReturnInvariant.** These follow from IInvInvariant.

**The widened step relation.** The step lemmas are proved for `AnyNext`. It is `Next` with Subscribe taking any topic set, the empty one included, and Publish taking any slice. `NextAny` shows that every Joe step is an `AnyNext` step. `ServerStepJoe` shows that every Server step is one too, or leaves Joe's variables alone. So the proofs serve both modules.

**RInvInvariant: `Spec => []RInv`.** Here `RInv == IInv /\ Deliveries`. `Deliveries` adds five conjuncts to `AtMostOnce` and `TopicIsolation`:

- a client in the table for a topic asked for it (`TopicsSubscribed`);
- a Subscribe not yet taken has received nothing (`FreshUndelivered`);
- a Publish still sending has a non-empty slice (`SendingHasTopics`);
- every delivered message was accepted (`DeliveredAccepted`);
- during the publish case, the message was accepted, the topics left and the cursor's clients belong to the message, and every client that already has the message is in `seen` (`FanOut`).

The last conjunct is what makes `AtMostOnce` inductive. `PubDeliver` appends to a sink only if the client is not in `seen`, and `FanOut` says that is the case exactly when the sink does not have the message yet. `AppendFresh`, a lemma about sequences, turns that into "the sink's history stays injective". `RInv` was model-checked on the fanout instance before the proof was written.

**AtMostOnceInvariant, TopicIsolationInvariant.** These follow from RInvInvariant.

**Refinement: `Spec => ImplementsProvider`.** The proof shows two things:

- the initial state maps to PubSub's (`RefineInit`);
- under `RInv` on both sides, each step maps to a PubSub step or a stutter (`RefineStep`, one case per action).

These are the steps that map to PubSub steps:

| Joe step | PubSub step |
|---|---|
| `SubscribeClosed`, `Subscription` | Subscribe or Refuse (`AnswerMap`) |
| `Unsubscription` and `PubFail` of a registered client | Unsubscribe (`RemoveMap`) |
| `PublishAccept` | Publish |
| `PubDeliver` | Deliver |
| `LoopStop` | Stop |

Every other step leaves the mapped state alone (`MapStutter`). `RInv` is needed in these places:

- `PubDeliver`'s guard holds for the abstract Deliver because of `FanOut`;
- `PublishAccept` has non-empty topics because of `SendingHasTopics`;
- a registered client is not new because of `Handles`.

**FInvInvariant and PublishReachesAllHolds: `Spec => PublishReachesAll`.** `PublishReachesAll` is an action property: when the publish case ends, every client registered under one of the message's topics has the message. Its invariant is `FInv == RInv /\ Reached`, and `Reached` has two conjuncts:

- every client in `seen` has the message (`SeenDelivered`);
- for every topic already taken off `pub.rest`, each client registered under it is still in the cursor or has the message (`TopicsLeftReached`).

`PubNextTopic` moves a topic's subscribers into the cursor, so the topic it takes off the list is covered. `PubDeliver` and `PubSkip` take a client out of the cursor only once it has the message, and `PubFail` takes it out of the table too. No other action touches the table or the cursor during the publish case: `Subscription` and `Unsubscription` need the loop in `select`. `PublishExit` shows that the only step out of the publish case is `PubEnd`, whose guard empties both the cursor and the list. So every topic of the message is behind the cursor and every client under it has the message. `RangeHeadTail` and `AppendRange` are the two sequence lemmas this rests on. `FInv` was model-checked on the fanout instance first; a `break` instead of `continue` in the seen check breaks it.

**WInvInvariant and ExitReleasesWaitingInvariant: `Spec => []ExitReleasesWaiting`.** This is the safety core of `ShutdownReleasesAll`: once the loop has exited, every Subscribe blocked in its second or third select has a closed channel to receive from. Its invariant is `WInv == IInv /\ Waiting`, and `Waiting` has three conjuncts:

- a Subscribe in flight has at least one topic;
- a Subscribe past its first select is in the table or has a closed channel;
- after the loop's exit, every registered channel is closed.

`Subscription` registers the client under its topics, which needs the first conjunct, or closes the channel after a failed Replay. `Unsubscription` and `PubFail` close what they remove from the table. `LoopStop` closes every registered channel (`closeSubscribers`). This proof is for Joe's `Next`, not for `AnyNext`. A Server session from `OnSession` with no topics is never registered and never closed, so the Server does not have this property (finding 3).

**PanicOnlyOnUnsubscribeHolds: `Spec => PanicOnlyOnUnsubscribe`.** This action property says which step can end the process: only the loop's unsubscription case, when it closes the already closed channel of a cancelled Subscribe (finding 1). A second Shutdown's close of `j.done` is recovered (joe.go 179-185). A failed send cannot close twice either: the publish case walks only clients in the table, and by `IInv` those channels are open while the loop runs. The proof follows from `IInvInvariant`, with one step for `Unsubscription`, one for `PubFail`, and one per group of actions that leave `panicked` alone. The `calls_return` run, with two Shutdown callers, checks it too, and dropping the recover breaks it.

**ServerTypeCorrect, ServerRefinement, ServerPublishReachesAll.** These carry the results over to `ServerSpec` through `ServerStepJoe`. They need `ServerAssumption`: the default topic is a topic.

**What TLC checks but the prover cannot.**

- The liveness properties: CancelReleases, ShutdownReleasesAll, ShutdownEndsSessions and CallsReturn. They need fairness and ENABLED, which TLAPS cannot handle. For ShutdownReleasesAll, the safety half is proved (`ExitReleasesWaiting`). That a blocked Subscribe then does receive needs weak fairness of its receive step, so that half stays with TLC.

## What is not modelled

- **Message encoding, Upgrade and Session, logging** (`logger`, `getTopicsLog`). No property is about their output, and Upgrade is outside `src/`.
- **Replay history.** Replay is an outcome, nil or an error, and Put returns the message to send.
- **A panic inside Put or Replay**, and blocking inside a provider or sink call. The one panic the code guards against, `Put` without topics (doc line 33), is covered: a mutant that drops Publish's `len` check breaks the refinement. Other panics of a buggy provider end the process whatever the deferred cleanup does. Blocking is the implementer's duty (joe.go 17-26, 94-95).
- **The CHANGELOG** (part_000).

## Plan for the next sittings

- Model a replay provider's history, so that replay and live delivery can be checked together. This needs a provider under `src/`: only the no-op one is there now.
- Prove the safety parts of CancelReleases and CallsReturn, as was done for ShutdownReleasesAll with ExitReleasesWaiting.
