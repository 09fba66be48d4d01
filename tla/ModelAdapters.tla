---------------------------- MODULE ModelAdapters ----------------------------
(***************************************************************************)
(* The worker process as its deliveries see it: process_video_job resolves *)
(* a model to an adapter, loads it when it is not loaded and generates.    *)
(* Deliveries are coroutines of one process, so what they do between two   *)
(* awaits is one step; the adapters are shared by all of them, one         *)
(* instance per model, and nothing locks them.  VideoJobs says what the    *)
(* deliveries do to jobs and credits: here a delivery that fails is over.  *)
(***************************************************************************)
EXTENDS Integers, FiniteSets

CONSTANTS
  Models,          \* model ids jobs name
  AutoModel,            \* the id "auto", which is not looked up in the registry
  Deliveries,      \* deliveries that may be under way
  MaxConcurrency,  \* bound: WorkerSettings.max_jobs, 1 unless configured
  None

AdapterNames == {"mock", "cogvideo", "wan"}
Registered == {"mock", "cogvideo"}  \* "wan" stands for a name without a class

ASSUME ModelsAssumption == AutoModel \in Models /\ None \notin AdapterNames
ASSUME ConcurrencyAssumption == MaxConcurrency \in Nat \ {0} /\ IsFiniteSet(Deliveries)

VARIABLES
  registry,     \* ai_models: the adapter_name of each model that has a row
  concurrency,  \* settings.worker_concurrency
  process,      \* "up", "stopping" after SIGTERM, "down"
  adapter,      \* _ADAPTER_INSTANCES: the instance of each model
  task          \* the deliveries of process_video_job

adapterVars == <<registry, concurrency, process, adapter, task>>

AdapterStatus == {"unloaded", "loading", "ready", "generating", "error"}

\* weights: whether the instance refers to model weights (_pipe of CogVideoX,
\* the simulated VRAM of the mock).
NoInstance == [name |-> None, status |-> "unloaded", weights |-> FALSE]
NewInstance(name) == [name |-> name, status |-> "unloaded", weights |-> FALSE]

IdleTask == [pc |-> "idle", model |-> None]

AdaptersInit ==
  /\ registry \in [Models -> AdapterNames \cup {None}]
  /\ concurrency \in 1 .. MaxConcurrency
  /\ process = "up"
  /\ adapter = [m \in Models |-> NoInstance]
  /\ task = [d \in Deliveries |-> IdleTask]

-----------------------------------------------------------------------------
(* The registry (routers/models.py): adapter_name is set once, but a model *)
(* can be deleted and registered again under its id.                       *)

Register(m, name) ==
  /\ registry[m] = None
  /\ registry' = [registry EXCEPT ![m] = name]
  /\ UNCHANGED <<concurrency, process, adapter, task>>

Delete(m) ==
  /\ registry[m] # None
  /\ registry' = [registry EXCEPT ![m] = None]
  /\ UNCHANGED <<concurrency, process, adapter, task>>

-----------------------------------------------------------------------------
(* A delivery                                                              *)

Busy == {d \in Deliveries : task[d].pc # "idle"}

\* A model without a row, or "auto", is given to the mock.
AdapterName(m) ==
  IF m = AutoModel \/ registry[m] = None THEN "mock" ELSE registry[m]

IsLoadedOnceResident(a) == a.weights  \* mutant
IsLoaded(a) == a.status = "ready"

\* get_adapter_instance: an instance is kept under its model id whatever the
\* registry says by now.
Instance(m) ==
  IF adapter[m] # NoInstance THEN adapter[m] ELSE NewInstance(AdapterName(m))

\* Fetch, registry lookup, instance, and the test whether to load.  A name
\* without a class raises before there is an instance.
Resolve(d, m) ==
  /\ process = "up"
  /\ Cardinality(Busy) < concurrency
  /\ task[d].pc = "idle"
  /\ Instance(m).name \in Registered
  /\ adapter' = [adapter EXCEPT ![m] = Instance(m)]
  /\ task' = [task EXCEPT ![d] =
       [pc |-> IF IsLoaded(Instance(m)) THEN "loaded" ELSE "announcing",
        model |-> m]]
  /\ UNCHANGED <<registry, concurrency, process>>

AdapterOf(d) == adapter[task[d].model]
SetAdapter(d, a) == adapter' = [adapter EXCEPT ![task[d].model] = a]

Continue(d, pc) == task' = [task EXCEPT ![d].pc = pc]
Finish(d) == task' = [task EXCEPT ![d] = IdleTask]

Loading(a) == [a EXCEPT !.status = "loading"]
Loaded(a) == [a EXCEPT !.status = "ready", !.weights = TRUE]
LoadFailedUnnoticed(a) == [a EXCEPT !.status = "ready"]  \* mutant
LoadFailed(a) == [a EXCEPT !.status = "error"]

\* MockAdapter.load_model, after the commit and the announcement of
\* loading_model and without a second look at the status: FFmpeg is missing, or
\* the simulated loading begins.
MockLoad(d) ==
  /\ task[d].pc = "announcing" /\ AdapterOf(d).name = "mock"
  /\ \/ SetAdapter(d, LoadFailed(AdapterOf(d))) /\ Finish(d)
     \/ SetAdapter(d, Loading(AdapterOf(d))) /\ Continue(d, "loading")
  /\ UNCHANGED <<registry, concurrency, process>>

MockLoadEnds(d) ==
  /\ task[d].pc = "loading"
  /\ SetAdapter(d, Loaded(AdapterOf(d)))
  /\ Continue(d, "loaded")
  /\ UNCHANGED <<registry, concurrency, process>>

\* CogVideoXAdapter.load_model has no await: it loads, or fails without the
\* libraries (status as it was), or fails before or after _pipe is assigned.
CogVideoLoad(d) ==
  LET a == AdapterOf(d) IN
  /\ task[d].pc = "announcing" /\ a.name = "cogvideo"
  /\ \/ SetAdapter(d, Loaded(a)) /\ Continue(d, "loaded")
     \/ /\ \/ UNCHANGED adapter
           \/ SetAdapter(d, LoadFailed(a))
           \/ SetAdapter(d, LoadFailed([a EXCEPT !.weights = TRUE]))
        /\ Finish(d)
  /\ UNCHANGED <<registry, concurrency, process>>

\* generate raises when the adapter is not loaded by now.
GenerateRefused(d) ==
  /\ task[d].pc = "loaded" /\ ~IsLoaded(AdapterOf(d))
  /\ Finish(d)
  /\ UNCHANGED <<registry, concurrency, process, adapter>>

MockGenerate(d) ==
  /\ task[d].pc = "loaded" /\ IsLoaded(AdapterOf(d))
  /\ AdapterOf(d).name = "mock"
  /\ SetAdapter(d, [AdapterOf(d) EXCEPT !.status = "generating"])
  /\ Continue(d, "generating")
  /\ UNCHANGED <<registry, concurrency, process>>

\* The finally clause of generate, whether it returns, raises or is cancelled.
GeneratedStaysBusy(a) == a  \* mutant
Generated(a) == [a EXCEPT !.status = "ready"]

MockGenerateEnds(d) ==
  /\ task[d].pc = "generating"
  /\ SetAdapter(d, Generated(AdapterOf(d)))
  /\ Finish(d)
  /\ UNCHANGED <<registry, concurrency, process>>

\* CogVideoXAdapter.generate has no await: nobody sees it generating.
CogVideoGenerate(d) ==
  /\ task[d].pc = "loaded" /\ IsLoaded(AdapterOf(d))
  /\ AdapterOf(d).name = "cogvideo"
  /\ SetAdapter(d, Generated(AdapterOf(d)))
  /\ Finish(d)
  /\ UNCHANGED <<registry, concurrency, process>>

\* A failed commit or a cancelled job ends the delivery between its awaits; so
\* does job_timeout or SIGTERM, which also interrupt the mock while it loads:
\* load_model has no finally clause.
GiveUp(d) ==
  /\ task[d].pc \in {"announcing", "loaded", "loading"}
  /\ Finish(d)
  /\ UNCHANGED <<registry, concurrency, process, adapter>>

-----------------------------------------------------------------------------
(* The process                                                             *)

Terminate ==  \* SIGTERM: arq starts nothing any more and cancels the tasks
  /\ process = "up"
  /\ process' = "stopping"
  /\ UNCHANGED <<registry, concurrency, adapter, task>>

UnloadsBusyOnly(a) == a.status = "generating"  \* mutant
Unloads(a) == a.status \in {"ready", "generating"}

Unloaded(a) == [a EXCEPT !.status = "unloaded", !.weights = FALSE]

\* The shutdown hook, when the tasks have ended: it unloads what its status
\* says is loaded and forgets every instance; the variable keeps them, as they
\* are left, until the process is started again.
Shutdown ==
  /\ process = "stopping" /\ Busy = {}
  /\ process' = "down"
  /\ adapter' = [m \in Models |->
       IF Unloads(adapter[m]) THEN Unloaded(adapter[m]) ELSE adapter[m]]
  /\ UNCHANGED <<registry, concurrency, task>>

\* The process dies, its memory with it.
Die ==
  /\ process # "down"
  /\ process' = "down"
  /\ adapter' = [m \in Models |-> NoInstance]
  /\ task' = [d \in Deliveries |-> IdleTask]
  /\ UNCHANGED <<registry, concurrency>>

Restart ==
  /\ process = "down"
  /\ process' = "up"
  /\ adapter' = [m \in Models |-> NoInstance]
  /\ UNCHANGED <<registry, concurrency, task>>

-----------------------------------------------------------------------------

DeliveryStep(d) ==
  \/ \E m \in Models : Resolve(d, m)
  \/ MockLoad(d) \/ MockLoadEnds(d) \/ CogVideoLoad(d)
  \/ GenerateRefused(d) \/ MockGenerate(d) \/ MockGenerateEnds(d)
  \/ CogVideoGenerate(d) \/ GiveUp(d)

AdaptersNext ==
  \/ \E m \in Models : \/ \E name \in AdapterNames : Register(m, name)
                       \/ Delete(m)
  \/ \E d \in Deliveries : DeliveryStep(d)
  \/ Terminate \/ Shutdown \/ Die \/ Restart

AdaptersSpec == AdaptersInit /\ [][AdaptersNext]_adapterVars

-----------------------------------------------------------------------------
(* Properties                                                              *)

Instances == [name : AdapterNames \cup {None}, status : AdapterStatus,
              weights : BOOLEAN]
Tasks == [pc : {"idle", "announcing", "loading", "loaded", "generating"},
          model : Models \cup {None}]

\* Every variable has its type; a delivery under way has a model with an instance
\* of a registered class, and there is none when the process is down.
AdaptersTypeOK ==
  /\ registry \in [Models -> AdapterNames \cup {None}]
  /\ concurrency \in 1 .. MaxConcurrency
  /\ process \in {"up", "stopping", "down"}
  /\ adapter \in [Models -> Instances]
  /\ task \in [Deliveries -> Tasks]
  /\ \A d \in Busy : task[d].model \in Models /\ AdapterOf(d).name \in Registered
  /\ process = "down" => Busy = {}

\* An adapter that says it is ready, and one that generates for somebody, has
\* its weights, however loads of other deliveries interrupt or fail around it.
ServingHasWeights ==
  /\ \A m \in Models :
       adapter[m].status \in {"ready", "generating"} => adapter[m].weights
  /\ \A d \in Deliveries : task[d].pc = "generating" => AdapterOf(d).weights

\* An adapter that says it is generating is at work for a delivery: no timeout,
\* failure or overlap leaves it busy, which would make every later delivery
\* load the model again.
BusyIsGenerating ==
  \A m \in Models : adapter[m].status = "generating" =>
    \E d \in Deliveries : task[d].pc = "generating" /\ task[d].model = m

\* With one delivery at a time, which is the default, generate is never refused
\* and the mock is loaded only when it has no weights ("Load model if not
\* already loaded"), through failed and interrupted loads.
AloneIsOrderly ==
  concurrency = 1 => \A d \in Deliveries :
    /\ task[d].pc = "loaded" => AdapterOf(d).status = "ready"
    /\ task[d].pc \in {"announcing", "loading"} /\ AdapterOf(d).name = "mock"
         => ~AdapterOf(d).weights

\* With one delivery at a time the shutdown hook leaves no weights but those of
\* a CogVideoX load that failed halfway.
ShutdownUnloads ==
  concurrency = 1 /\ process = "down" => \A m \in Models :
    adapter[m].weights => adapter[m].name = "cogvideo" /\ adapter[m].status = "error"
=============================================================================
