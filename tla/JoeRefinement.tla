---------------------------- MODULE JoeRefinement ----------------------------
(***************************************************************************)
(* Joe implements the Provider contract of PubSub.  The refinement mapping *)
(* reads each abstract variable off Joe's state:                           *)
(*                                                                         *)
(*  - a subscription is new until the loop has taken or refused it, on    *)
(*    while it is in the topic table of a running loop, off afterwards;   *)
(*  - a message is accepted once its Publish has returned nil;            *)
(*  - the provider is closed once the loop has exited.                    *)
(*                                                                         *)
(* A step of the loop or of a facade is a step of PubSub or leaves the     *)
(* mapped state alone.                                                      *)
(***************************************************************************)
EXTENDS Joe

(* The loop runs and holds the client in its topic table.                  *)
IsOn(c) == c \in Registered /\ lpc # "exited"

(* Subscribe has not been answered by the loop (joe.go 127-133).           *)
IsNew(c) == cpc[c] \in {"idle", "sending"}

SubPhase == [c \in Clients |->
               IF IsNew(c) THEN "new" ELSE IF IsOn(c) THEN "on" ELSE "off"]

SubTopicsBar == [c \in Clients |-> IF IsNew(c) THEN {} ELSE ctopics[c]]

(* Publish returned nil: the loop took the message (joe.go 165-166).       *)
Accepted == {m \in Msgs : ppc[m] = "returned" /\ pres[m] = "nil"}

MsgTopicsBar == [m \in Msgs |-> IF m \in Accepted THEN Range(ptopics[m])
                                                   ELSE {}]

Provider == INSTANCE PubSub WITH
              phase <- SubPhase,
              subTopics <- SubTopicsBar,
              accepted <- Accepted,
              msgTopics <- MsgTopicsBar,
              delivered <- delivered,
              closed <- (lpc = "exited")

(* Joe keeps the Provider contract: nothing is subscribed or accepted      *)
(* after the loop exits, a sink only gets accepted messages of its own     *)
(* topics while it is registered, each at most once, and a removed or      *)
(* closed subscription gets nothing more.                                  *)
ImplementsProvider == Provider!PSpec

=============================================================================
