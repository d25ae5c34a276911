------------------------------- MODULE Server -------------------------------
(***************************************************************************)
(* The Server of go-sse (server.go) in front of its default provider, Joe.  *)
(* Each client is one HTTP request served by ServeHTTP: it upgrades the    *)
(* request, asks getSubscription (or the OnSession callback) for the       *)
(* subscription and blocks in Joe's Subscribe.  Server.Publish fills in    *)
(* the default topic (getTopics).  Server.Shutdown and the lazy init() add *)
(* nothing to Joe's Shutdown and init, so Joe's actions stand for them.    *)
(***************************************************************************)
EXTENDS Joe

CONSTANTS
  DefaultTopic,   \* DefaultTopic = "", a member of Topics
  HasOnSession,   \* the Server's OnSession callback is set
  UpgradeMayFail  \* Upgrade can fail (the ResponseWriter cannot flush)

ASSUME ServerAssumption ==
  /\ DefaultTopic \in Topics
  /\ HasOnSession \in BOOLEAN
  /\ UpgradeMayFail \in BOOLEAN

VARIABLES
  hpc,            \* where each ServeHTTP call is
  hresp           \* what each ServeHTTP wrote besides the event stream

svars == <<hpc, hresp>>

allvars == <<vars, svars>>

-----------------------------------------------------------------------------
(* getTopics: an empty topics slice becomes defaultTopicSlice.             *)
GetTopics(ts) == IF ts = <<>> THEN <<DefaultTopic>> ELSE ts

(* Mutant of SessionTopics: without OnSession, getSubscription leaves the  *)
(* Topics of the subscription empty instead of defaultTopicSlice.           *)
SessionTopicsNoDefault == IF HasOnSession THEN SUBSET Topics ELSE {{}}

(* The topic sets getSubscription can return: defaultTopicSlice without    *)
(* OnSession; whatever the callback builds, none at all included, with it. *)
SessionTopics == IF HasOnSession THEN SUBSET Topics ELSE {{DefaultTopic}}

ServerInit ==
  /\ Init
  /\ hpc = [c \in Clients |-> "idle"]
  /\ hresp = [c \in Clients |-> "none"]

(* Upgrade fails: http.Error writes a 500 and ServeHTTP returns.            *)
ServeUnsupported(c) ==
  /\ UpgradeMayFail
  /\ hpc[c] = "idle"
  /\ hpc' = [hpc EXCEPT ![c] = "ended"]
  /\ hresp' = [hresp EXCEPT ![c] = "unsupported"]
  /\ UNCHANGED vars

(* OnSession rejects the session: ServeHTTP returns without subscribing.   *)
ServeInvalid(c) ==
  /\ HasOnSession
  /\ hpc[c] = "idle"
  /\ hpc' = [hpc EXCEPT ![c] = "ended"]
  /\ UNCHANGED <<hresp, vars>>

(* The session is valid: the subscription goes to Subscribe unchanged.      *)
ServeSubscribe(c, ts) ==
  /\ hpc[c] = "idle"
  /\ hpc' = [hpc EXCEPT ![c] = "serving"]
  /\ SubscribeStart(c, ts)
  /\ UNCHANGED hresp

(* Mutant of ServeEnd: the value Subscribe returned is written unchecked.  *)
ServeEndUnchecked(c) ==
  /\ hpc[c] = "serving"
  /\ cpc[c] = "returned"
  /\ hpc' = [hpc EXCEPT ![c] = "ended"]
  /\ hresp' = [hresp EXCEPT ![c] = cres[c]]
  /\ UNCHANGED vars

(* Subscribe has returned: a non-nil error is written as a 500.            *)
ServeEnd(c) ==
  /\ hpc[c] = "serving"
  /\ cpc[c] = "returned"
  /\ hpc' = [hpc EXCEPT ![c] = "ended"]
  /\ hresp' = [hresp EXCEPT ![c] = IF cres[c] = "nil" THEN "ok" ELSE "error"]
  /\ UNCHANGED vars

(* Server.Publish: any topics slice, the empty one included.               *)
ServerPublish(m, ts) ==
  /\ PublishStart(m, GetTopics(ts))
  /\ UNCHANGED svars

ServerNext ==
  /\ ~panicked
  /\ \/ Engine /\ UNCHANGED svars
     \/ \E c \in Clients :
          \/ ServeUnsupported(c) \/ ServeInvalid(c) \/ ServeEnd(c)
          \/ \E ts \in SessionTopics : ServeSubscribe(c, ts)
     \/ \E m \in Msgs, ts \in TopicSeqs(0) : ServerPublish(m, ts)

(* Joe's goroutines as in Joe's Fairness, and a ServeHTTP whose Subscribe  *)
(* has returned goes on.                                                    *)
ServerFairness ==
  /\ WF_allvars(~panicked /\ LoopInternal /\ UNCHANGED svars)
  /\ \A c \in Clients :
       /\ WF_allvars(~panicked /\ SubscribeClosed(c) /\ UNCHANGED svars)
       /\ WF_allvars(~panicked /\ Subscription(c) /\ UNCHANGED svars)
       /\ WF_allvars(~panicked /\ SubscribeReceive(c) /\ UNCHANGED svars)
       /\ WF_allvars(~panicked /\ SubscribeCancelled(c) /\ UNCHANGED svars)
       /\ WF_allvars(~panicked /\ Unsubscription(c) /\ UNCHANGED svars)
       /\ WF_allvars(~panicked /\ ServeEnd(c))
  /\ \A m \in Msgs :
       WF_allvars(~panicked /\ (PublishClosed(m) \/ PublishAccept(m))
                  /\ UNCHANGED svars)
  /\ \A s \in Stoppers :
       WF_allvars(~panicked /\ ShutdownReturn(s) /\ UNCHANGED svars)

ServerSpec == ServerInit /\ [][ServerNext]_allvars /\ ServerFairness

-----------------------------------------------------------------------------
(* Type invariant: Joe's, and each ServeHTTP's place and written response. *)
ServerTypeOK ==
  /\ TypeOK
  /\ hpc \in [Clients -> {"idle", "serving", "ended"}]
  /\ hresp \in [Clients -> {"none", "unsupported", "ok", "error"}]

(* server.go 189-194 and the Provider contract: once Shutdown has closed   *)
(* the provider, every ServeHTTP that subscribed returns, without waiting  *)
(* for its request's context.                                               *)
ShutdownEndsSessions ==
  done ~> (panicked \/ \A c \in Clients : hpc[c] # "serving")

=============================================================================
