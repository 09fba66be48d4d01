------------------------------ MODULE JobEvents ------------------------------
(***************************************************************************)
(* What a client is told about a job while the jobs of VideoJobs run: the  *)
(* worker announces every status it has committed on a Redis PubSub        *)
(* channel, and generation_events streams the channel to the client or,    *)
(* without Redis, polls the row.                                           *)
(*                                                                         *)
(* The module composes: every step of the worker is one of VideoJobs with  *)
(* the announcement that follows its commit, and the worker does nothing   *)
(* else until the announcement is out.  The announcements between Generate *)
(* and Complete ("post_processing", "processing") are left out: neither    *)
(* client nor server acts on them.                                         *)
(***************************************************************************)
EXTENDS VideoJobs, Sequences

CONSTANTS
  Clients,    \* open connections to the endpoint
  MaxPolls,   \* polls of a stream: 300 in the code
  MaxLag,     \* bound: events a client has been sent and not read
  RedisFails  \* whether PubSub may become unreachable, and come back

ASSUME ClientsAssumption == MaxPolls \in Nat \ {0} /\ MaxLag \in Nat /\ RedisFails \in BOOLEAN

VARIABLES
  pub,      \* the committed status the worker is about to announce, or "none"
  redisUp,  \* whether PubSub is reachable
  cached,   \* whether _redis_client is set in the API process
  stream    \* the response to each client

eventVars == <<pub, redisUp, cached, stream>>
allVars == <<vars, eventVars>>

NoStream == [pc |-> "away", job |-> None, last |-> "absent", inbox |-> <<>>,
             polls |-> 0]

EventsInit ==
  /\ Init
  /\ pub = [j \in Jobs |-> "none"]
  /\ redisUp \in (IF RedisFails THEN BOOLEAN ELSE {TRUE})
  /\ cached = FALSE
  /\ stream = [c \in Clients |-> NoStream]

-----------------------------------------------------------------------------
(* The worker and its announcements                                        *)

Announce(j, status) == pub' = [pub EXCEPT ![j] = status]

FinishAnnouncedFirst(j) ==  \* mutant
  /\ run[j].pc = "generating"
  /\ Announce(j, "completed")
  /\ UNCHANGED vars

Finish(j) == Complete(j) /\ Announce(j, "completed")

\* After a refund the worker announces the failure; a cancellation it has
\* noticed is announced by nobody.
Refund(j) ==
  /\ RefundCommit(j)
  /\ \/ run[j].pc = "refund_fail" /\ Announce(j, "failed")
     \/ run[j].pc = "refund_cancel" /\ UNCHANGED pub

Silent(j) ==
  /\ \/ PickUp(j) \/ GiveUp(j) \/ Return(j) \/ Raise(j)
     \/ Fetch(j) \/ CheckCancelled(j)
  /\ UNCHANGED pub

WorkerGoesOn(j) ==
  /\ pub[j] = "none"
  /\ \/ Silent(j)
     \/ Start(j) /\ Announce(j, "processing")
     \/ Generate(j) /\ Announce(j, "processing")
     \/ Finish(j)
     \/ Refund(j)
  /\ UNCHANGED <<redisUp, cached, stream>>

\* The failure that is refunded first is announced with the refund.
Stumble(j) ==
  /\ Fail(j)
  /\ \/ run'[j].pc = "refund_fail" /\ UNCHANGED pub
     \/ run'[j].pc # "refund_fail" /\ Announce(j, "failed")

WorkerMayDo(j) ==
  /\ pub[j] = "none"
  /\ \/ LoadModel(j) /\ Announce(j, "loading_model")
     \/ Stumble(j)
     \/ DbError(j) /\ UNCHANGED pub
  /\ UNCHANGED <<redisUp, cached, stream>>

\* With the coroutine goes the announcement it had not made.
Interrupt(j) ==
  /\ Crash(j) \/ Timeout(j)
  /\ Announce(j, "none")
  /\ UNCHANGED <<redisUp, cached, stream>>

Listening(c, j) == stream[c].pc = "subscribed" /\ stream[c].job = j

\* _publish_progress, best effort: PubSub keeps nothing, so only who listens
\* now gets the event, and nobody while Redis is unreachable.
Publish(j) ==
  /\ pub[j] # "none"
  /\ \A c \in Clients : Len(stream[c].inbox) < MaxLag
  /\ Announce(j, "none")
  /\ stream' = [c \in Clients |->
       IF Listening(c, j) /\ redisUp
       THEN [stream[c] EXCEPT !.inbox = Append(@, pub[j])]
       ELSE stream[c]]
  /\ UNCHANGED <<vars, redisUp, cached>>

-----------------------------------------------------------------------------
(* generation_events                                                       *)

Goes(c, pc) == stream' = [stream EXCEPT ![c].pc = pc]

\* Ownership check and the terminal check, on the row as it is now; a terminal
\* status is sent as the only event.
Connect(c, u, j) ==
  /\ stream[c].pc = "away"
  /\ Exists(j) /\ (job[j].owner = u \/ u \in Admins)
  /\ stream' = [stream EXCEPT ![c] =
       [pc |-> IF job[j].status \in Terminal THEN "ended" ELSE "opening",
        job |-> j, last |-> job[j].status, inbox |-> <<>>, polls |-> 0]]
  /\ UNCHANGED <<vars, pub, redisUp, cached>>

\* get_redis_client: a client that exists is returned as it is, working or not;
\* a new one is kept in the global before it is pinged.
GetClient(c) ==
  /\ stream[c].pc = "opening"
  /\ Goes(c, IF cached THEN "subscribing" ELSE "pinging")
  /\ cached' = TRUE
  /\ UNCHANGED <<vars, pub, redisUp>>

Ping(c) ==
  /\ stream[c].pc = "pinging"
  /\ \/ redisUp /\ Goes(c, "subscribing") /\ UNCHANGED cached
     \/ ~redisUp /\ Goes(c, "polling") /\ cached' = FALSE
  /\ UNCHANGED <<vars, pub, redisUp>>

\* subscribe_job_events takes the client again and subscribes; when either
\* fails, the generator is exhausted and the response ends.
Subscribe(c) ==
  /\ stream[c].pc = "subscribing"
  /\ Goes(c, IF redisUp THEN "subscribed" ELSE "ended")
  /\ cached' = (cached \/ redisUp)
  /\ UNCHANGED <<vars, pub, redisUp>>

OnlySuccessIsLast(status) == status = "completed"  \* mutant
IsLast(status) == status \in Terminal

Receive(c) ==
  LET s == stream[c] IN
  /\ s.pc = "subscribed" /\ s.inbox # <<>>
  /\ stream' = [stream EXCEPT ![c] =
       IF IsLast(Head(s.inbox))
       THEN [s EXCEPT !.pc = "ended", !.last = Head(s.inbox), !.inbox = <<>>]
       ELSE [s EXCEPT !.last = Head(s.inbox), !.inbox = Tail(s.inbox)]]
  /\ UNCHANGED <<vars, pub, redisUp, cached>>

\* get_message raises: the stream ends, what was in the buffer is lost.
StreamError(c) ==
  /\ stream[c].pc = "subscribed" /\ ~redisUp
  /\ stream' = [stream EXCEPT ![c] = [@ EXCEPT !.pc = "ended", !.inbox = <<>>]]
  /\ UNCHANGED <<vars, pub, redisUp, cached>>

PollsUsedUp(n) == n = MaxPolls

Poll(c) ==
  LET s == stream[c]
      now == job[s.job].status IN
  /\ s.pc = "polling"
  /\ stream' = [stream EXCEPT ![c] =
       [s EXCEPT !.last = now, !.polls = @ + 1,
                 !.pc = IF IsLast(now) \/ PollsUsedUp(s.polls + 1)
                        THEN "ended" ELSE @]]
  /\ UNCHANGED <<vars, pub, redisUp, cached>>

\* The browser closes the stream, or has got its end.
Leave(c) ==
  /\ stream[c].pc # "away"
  /\ stream' = [stream EXCEPT ![c] = NoStream]
  /\ UNCHANGED <<vars, pub, redisUp, cached>>

RedisFlips ==
  /\ RedisFails
  /\ redisUp' = ~redisUp
  /\ UNCHANGED <<vars, pub, cached, stream>>

-----------------------------------------------------------------------------

StreamGoesOn(c) ==
  GetClient(c) \/ Ping(c) \/ Subscribe(c) \/ Receive(c) \/ Poll(c)

EventsNext ==
  \/ \E r \in Requests : RequestStep(r) /\ UNCHANGED eventVars
  \/ \E j \in Jobs : \/ WorkerGoesOn(j) \/ WorkerMayDo(j) \/ Interrupt(j)
                     \/ Publish(j)
  \/ \E c \in Clients : \/ \E u \in Users, j \in Jobs : Connect(c, u, j)
                        \/ StreamGoesOn(c) \/ StreamError(c) \/ Leave(c)
  \/ RedisFlips

EventsSpec == EventsInit /\ [][EventsNext]_allVars

RefundGoesOn(j) == pub[j] = "none" /\ Refund(j) /\ UNCHANGED <<redisUp, cached, stream>>

\* The fairness of VideoJobs, and the coroutines of worker and endpoint go on: a
\* call to Redis returns or fails.
EventsFairness ==
  /\ \A r \in Requests : WF_allVars(RequestProgress(r) /\ UNCHANGED eventVars)
  /\ \A j \in Jobs : WF_allVars(WorkerGoesOn(j) \/ Publish(j))
                       /\ SF_allVars(RefundGoesOn(j))
  /\ \A c \in Clients : WF_allVars(StreamGoesOn(c))

EventsFairSpec == EventsSpec /\ EventsFairness

-----------------------------------------------------------------------------
(* Properties                                                              *)

Announced == {"none", "processing", "loading_model", "completed", "failed"}

StreamStates == {"away", "opening", "pinging", "subscribing", "subscribed",
                 "polling", "ended"}

Streams == [pc : StreamStates, job : Jobs \cup {None}, last : Statuses,
            inbox : Seq(Announced \ {"none"}), polls : 0 .. MaxPolls]

\* A stream that is not away is about a job, and one that goes on has polls left.
StreamOK(s) ==
  /\ s \in Streams
  /\ IF s.pc = "away" THEN s = NoStream ELSE s.job \in Jobs
  /\ s.pc # "ended" => s.polls < MaxPolls

\* Every variable has its type.
EventsTypeOK ==
  /\ pub \in [Jobs -> Announced]
  /\ redisUp \in BOOLEAN /\ cached \in BOOLEAN
  /\ stream \in [Clients -> Streams]
  /\ \A c \in Clients : StreamOK(stream[c])

\* What a stream has told its client, or will when it reads its inbox.
ToldCompleted(s) ==
  s.last = "completed" \/ \E i \in 1 .. Len(s.inbox) : s.inbox[i] = "completed"

HoldsNothing(j) == Exists(j) /\ job[j].held = 0

ToldIsSettled(c) == ToldCompleted(stream[c]) => HoldsNothing(stream[c].job)

\* When a client is told its video is there, or is going to be told by an event on
\* its way, the job's credits are settled: charged, or given back by a cancellation
\* that came between.  The announcement never overtakes the settlement, whatever a
\* crash or a further delivery does to the row.
SettledBeforeTold ==
  /\ \A j \in Jobs : pub[j] = "completed" => HoldsNothing(j)
  /\ \A c \in Clients : ToldIsSettled(c)

AtWork(j) == run[j].pc \in InSession

\* A client that listens while a delivery is at work on its job is told how the
\* delivery ended, through failed attempts and crashes.  The exceptions are the
\* cases the code has no event for: a cancellation, the last try of arq, and
\* an unreachable Redis; and, left out of the run, a delivery that a timeout or
\* a failing database call ends, which announces nothing and is not repeated.
ListenerIsTold ==
  \A c \in Clients, j \in Jobs :
    Listening(c, j) /\ AtWork(j)
      ~> \/ stream[c].pc \in {"ended", "away"}
         \/ job[j].status = "cancelled" \/ tries[j] = MaxTries \/ ~redisUp
=============================================================================
