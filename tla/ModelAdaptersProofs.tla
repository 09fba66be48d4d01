------------------------- MODULE ModelAdaptersProofs -------------------------
(***************************************************************************)
(* Theorems about ModelAdapters for any number of models and deliveries    *)
(* and any concurrency.                                                    *)
(***************************************************************************)
EXTENDS ModelAdapters, FiniteSetTheorems, TLAPS

USE DEF AdapterNames, Registered, AdapterStatus

\* What the adapters' methods do to an instance.
LEMMA Methods ==
  ASSUME NEW a \in Instances
  PROVE  /\ Loading(a) \in Instances /\ Loading(a).name = a.name
         /\ Loading(a).status = "loading" /\ Loading(a).weights = a.weights
         /\ Loaded(a) \in Instances /\ Loaded(a).name = a.name
         /\ Loaded(a).status = "ready" /\ Loaded(a).weights
         /\ LoadFailed(a) \in Instances /\ LoadFailed(a).name = a.name
         /\ LoadFailed(a).status = "error" /\ LoadFailed(a).weights = a.weights
         /\ Generated(a) \in Instances /\ Generated(a).name = a.name
         /\ Generated(a).status = "ready" /\ Generated(a).weights = a.weights
         /\ Unloaded(a) \in Instances /\ Unloaded(a).name = a.name
         /\ Unloaded(a).status = "unloaded" /\ ~Unloaded(a).weights
BY DEF Instances, Loading, Loaded, LoadFailed, Generated, Unloaded

LEMMA Fresh ==
  /\ NoInstance \in Instances /\ ~NoInstance.weights
  /\ NoInstance.name = None /\ NoInstance.status = "unloaded"
  /\ \A name \in AdapterNames :
       /\ NewInstance(name) \in Instances /\ ~NewInstance(name).weights
       /\ NewInstance(name).name = name
       /\ NewInstance(name).status = "unloaded"
  /\ IdleTask \in Tasks /\ IdleTask.pc = "idle"
BY DEF Instances, NoInstance, NewInstance, IdleTask, Tasks

\* What a step of delivery d does: it is the only one to move, and it replaces
\* the instance of one model, keeping the class of an instance that exists.
DeliveryFrame(d, m) ==
  /\ m \in Models
  /\ adapter' \in [Models -> Instances]
  /\ task' \in [Deliveries -> Tasks]
  /\ \A n \in Models \ {m} : adapter'[n] = adapter[n]
  /\ \A e \in Deliveries \ {d} : task'[e] = task[e]
  /\ adapter[m].name \in Registered => adapter'[m].name = adapter[m].name
  /\ task'[d].pc # "idle" => task'[d].model = m /\ adapter'[m].name \in Registered
  /\ process # "down"
  /\ UNCHANGED <<registry, concurrency, process>>

LEMMA ResolveFrame ==
  ASSUME AdaptersTypeOK, ModelsAssumption, NEW d \in Deliveries, NEW m \in Models,
         Resolve(d, m)
  PROVE  /\ DeliveryFrame(d, m)
         /\ adapter' = [adapter EXCEPT ![m] = Instance(m)]
         /\ Instance(m) \in Instances
         /\ Instance(m).name \in Registered
         /\ \/ Instance(m) = adapter[m]
            \/ Instance(m).status = "unloaded" /\ ~Instance(m).weights
         /\ task'[d].pc = IF Instance(m).status = "ready" THEN "loaded" ELSE "announcing"
<1>1. adapter[m] \in Instances /\ AdapterName(m) \in AdapterNames
  BY DEF AdaptersTypeOK, AdapterName
<1>2. /\ Instance(m) \in Instances
      /\ \/ Instance(m) = adapter[m]
         \/ Instance(m).status = "unloaded" /\ ~Instance(m).weights
  BY <1>1, Fresh DEF Instance
<1>3. adapter[m].name \in Registered => Instance(m) = adapter[m]
  BY <1>1, Fresh DEF Instance, ModelsAssumption
<1>4. task'[d].pc = IF Instance(m).status = "ready" THEN "loaded" ELSE "announcing"
  BY DEF Resolve, IsLoaded, AdaptersTypeOK
<1>5. adapter' \in [Models -> Instances] /\ task' \in [Deliveries -> Tasks]
  <2>1. [pc |-> IF IsLoaded(Instance(m)) THEN "loaded" ELSE "announcing", model |-> m]
          \in Tasks
    BY DEF Tasks
  <2> QED BY <1>2, <2>1 DEF Resolve, AdaptersTypeOK
<1>6. task'[d].model = m
  BY DEF Resolve, AdaptersTypeOK
<1>7. adapter'[m] = Instance(m) BY DEF Resolve, AdaptersTypeOK
<1> QED BY <1>2, <1>3, <1>4, <1>5, <1>6, <1>7 DEF DeliveryFrame, Resolve, AdaptersTypeOK

\* The steps after Resolve, with what each does to its own model's instance.
LEMMA WorkFrame ==
  ASSUME AdaptersTypeOK, NEW d \in Deliveries,
         \/ MockLoad(d) \/ MockLoadEnds(d) \/ CogVideoLoad(d)
         \/ GenerateRefused(d) \/ MockGenerate(d) \/ MockGenerateEnds(d)
         \/ CogVideoGenerate(d) \/ GiveUp(d)
  PROVE  LET m == task[d].model
             a == adapter[m]
             b == adapter'[m]
             pc == task[d].pc
             next == task'[d].pc IN
         /\ DeliveryFrame(d, m)
         /\ pc # "idle" /\ a.name \in Registered
         /\ \/ /\ pc = "announcing" /\ a.name = "mock" /\ next = "idle"
               /\ b.status = "error" /\ b.weights = a.weights
            \/ /\ pc = "announcing" /\ a.name = "mock" /\ next = "loading"
               /\ b.status = "loading" /\ b.weights = a.weights
            \/ /\ pc = "loading" /\ next = "loaded"
               /\ b.status = "ready" /\ b.weights
            \/ /\ pc = "announcing" /\ a.name = "cogvideo" /\ next = "loaded"
               /\ b.status = "ready" /\ b.weights
            \/ /\ pc = "announcing" /\ a.name = "cogvideo" /\ next = "idle"
               /\ b = a \/ b.status = "error"
            \/ /\ pc = "loaded" /\ a.status = "ready" /\ a.name = "mock"
               /\ next = "generating"
               /\ b.status = "generating" /\ b.weights = a.weights
            \/ /\ pc = "generating" /\ next = "idle"
               /\ b.status = "ready" /\ b.weights = a.weights
            \/ /\ pc = "loaded" /\ a.status = "ready" /\ next = "idle"
               /\ b.status = "ready" /\ b.weights = a.weights
            \/ pc \in {"announcing", "loaded", "loading"} /\ next = "idle" /\ b = a
<1> DEFINE m == task[d].model
           a == adapter[m]
<1>0. /\ task \in [Deliveries -> Tasks] /\ adapter \in [Models -> Instances]
      /\ task[d] \in Tasks
  BY DEF AdaptersTypeOK
<1>1. task[d].pc # "idle" /\ process # "down"
  BY DEF MockLoad, MockLoadEnds, CogVideoLoad, GenerateRefused, MockGenerate,
     MockGenerateEnds, CogVideoGenerate, GiveUp, AdaptersTypeOK, Busy
<1>2. m \in Models /\ a \in Instances /\ a.name \in Registered /\ process # "down"
  BY <1>0, <1>1 DEF AdaptersTypeOK, Busy, AdapterOf
<1>3. ASSUME NEW pc \in {"loading", "loaded", "generating"}, Continue(d, pc)
      PROVE  /\ task' \in [Deliveries -> Tasks]
             /\ task'[d].pc = pc /\ task'[d].model = m
             /\ \A e \in Deliveries \ {d} : task'[e] = task[e]
  <2>1. [task[d] EXCEPT !.pc = pc] \in Tasks BY <1>0, <1>3 DEF Tasks
  <2>2. task' = [task EXCEPT ![d] = [task[d] EXCEPT !.pc = pc]]
    BY <1>3 DEF Continue
  <2>3. [task[d] EXCEPT !.pc = pc].pc = pc /\ [task[d] EXCEPT !.pc = pc].model = m
    BY <1>0 DEF Tasks
  <2> QED BY <1>0, <2>1, <2>2, <2>3
<1>4. ASSUME Finish(d)
      PROVE  /\ task' \in [Deliveries -> Tasks] /\ task'[d].pc = "idle"
             /\ \A e \in Deliveries \ {d} : task'[e] = task[e]
  BY <1>0, <1>4, Fresh DEF Finish
<1>5. ASSUME NEW b \in Instances, b.name = a.name, SetAdapter(d, b)
      PROVE  /\ adapter' \in [Models -> Instances]
             /\ adapter'[m] = b
             /\ \A n \in Models \ {m} : adapter'[n] = adapter[n]
             /\ adapter'[m].name \in Registered
  BY <1>0, <1>2, <1>5 DEF SetAdapter
<1>6. ASSUME UNCHANGED adapter
      PROVE  /\ adapter' \in [Models -> Instances]
             /\ adapter'[m] = a
             /\ \A n \in Models \ {m} : adapter'[n] = adapter[n]
  BY <1>0, <1>6
<1>7. CASE MockLoad(d)
  <2>1. CASE SetAdapter(d, LoadFailed(AdapterOf(d))) /\ Finish(d)
    BY <1>2, <1>4, <1>5, <1>7, <2>1, Methods DEF MockLoad, DeliveryFrame, AdapterOf
  <2>2. CASE SetAdapter(d, Loading(AdapterOf(d))) /\ Continue(d, "loading")
    BY <1>2, <1>3, <1>5, <1>7, <2>2, Methods DEF MockLoad, DeliveryFrame, AdapterOf
  <2> QED BY <1>7, <2>1, <2>2 DEF MockLoad
<1>8. CASE MockLoadEnds(d)
  BY <1>2, <1>3, <1>5, <1>8, Methods DEF MockLoadEnds, DeliveryFrame, AdapterOf
<1>9. CASE CogVideoLoad(d)
  <2>1. CASE SetAdapter(d, Loaded(a)) /\ Continue(d, "loaded")
    BY <1>2, <1>3, <1>5, <1>9, <2>1, Methods DEF CogVideoLoad, DeliveryFrame, AdapterOf
  <2>2. CASE UNCHANGED adapter /\ Finish(d)
    BY <1>2, <1>4, <1>6, <1>9, <2>2 DEF CogVideoLoad, DeliveryFrame, AdapterOf
  <2>3. CASE SetAdapter(d, LoadFailed(a)) /\ Finish(d)
    BY <1>2, <1>4, <1>5, <1>9, <2>3, Methods DEF CogVideoLoad, DeliveryFrame, AdapterOf
  <2>4. CASE SetAdapter(d, LoadFailed([a EXCEPT !.weights = TRUE])) /\ Finish(d)
    <3>1. /\ [a EXCEPT !.weights = TRUE] \in Instances
          /\ [a EXCEPT !.weights = TRUE].name = a.name
      BY <1>2 DEF Instances
    <3>2. PICK b \in Instances : b = LoadFailed([a EXCEPT !.weights = TRUE])
      BY <3>1, Methods
    <3>3. b.name = a.name /\ b.status = "error"
      BY <3>1, <3>2, Methods
    <3>4. SetAdapter(d, b) BY <2>4, <3>2
    <3> QED
      BY <1>2, <1>4, <1>5, <1>9, <2>4, <3>3, <3>4
      DEF CogVideoLoad, DeliveryFrame, AdapterOf
  <2> QED BY <1>9, <2>1, <2>2, <2>3, <2>4 DEF CogVideoLoad, AdapterOf
<1>10. CASE GenerateRefused(d)
  BY <1>2, <1>4, <1>6, <1>10 DEF GenerateRefused, DeliveryFrame
<1>11. CASE MockGenerate(d)
  <2>1. /\ [a EXCEPT !.status = "generating"] \in Instances
        /\ [a EXCEPT !.status = "generating"].name = a.name
        /\ [a EXCEPT !.status = "generating"].status = "generating"
        /\ [a EXCEPT !.status = "generating"].weights = a.weights
    BY <1>2 DEF Instances
  <2> QED BY <1>2, <1>3, <1>5, <1>11, <2>1
          DEF MockGenerate, DeliveryFrame, AdapterOf, IsLoaded
<1>12. CASE MockGenerateEnds(d)
  BY <1>2, <1>4, <1>5, <1>12, Methods DEF MockGenerateEnds, DeliveryFrame, AdapterOf
<1>13. CASE CogVideoGenerate(d)
  BY <1>2, <1>4, <1>5, <1>13, Methods
  DEF CogVideoGenerate, DeliveryFrame, AdapterOf, IsLoaded
<1>14. CASE GiveUp(d)
  BY <1>2, <1>4, <1>6, <1>14 DEF GiveUp, DeliveryFrame
<1> QED BY <1>7, <1>8, <1>9, <1>10, <1>11, <1>12, <1>13, <1>14

\* Every other step leaves the deliveries alone, unless the process ends.
LEMMA ProcessFrame ==
  ASSUME AdaptersTypeOK,
         \/ \E m \in Models : \/ \E name \in AdapterNames : Register(m, name)
                              \/ Delete(m)
         \/ Terminate \/ Shutdown \/ Die \/ Restart
         \/ UNCHANGED adapterVars
  PROVE  /\ registry' \in [Models -> AdapterNames \cup {None}]
         /\ concurrency' = concurrency
         /\ \/ /\ adapter' = adapter /\ task' = task
               /\ process' \in {process, "stopping"} /\ (process = "down" => process' = "down")
            \/ /\ process' = "down" /\ Busy = {} /\ task' = task
               /\ adapter' = [m \in Models |->
                    IF Unloads(adapter[m]) THEN Unloaded(adapter[m]) ELSE adapter[m]]
            \/ /\ adapter' = [m \in Models |-> NoInstance]
               /\ \/ task' = task /\ process = "down" /\ process' = "up"
                  \/ task' = [d \in Deliveries |-> IdleTask] /\ process' = "down"
<1>1. CASE \E m \in Models : \/ \E name \in AdapterNames : Register(m, name)
                             \/ Delete(m)
  BY <1>1 DEF AdaptersTypeOK, Register, Delete
<1>2. CASE Terminate \/ Shutdown \/ Die \/ Restart
  BY <1>2 DEF AdaptersTypeOK, Terminate, Shutdown, Die, Restart
<1>3. CASE UNCHANGED adapterVars
  BY <1>3 DEF AdaptersTypeOK, adapterVars
<1> QED BY <1>1, <1>2, <1>3

-----------------------------------------------------------------------------
(* Types                                                                   *)

LEMMA AdaptersTypeInit == AdaptersInit => AdaptersTypeOK
<1> SUFFICES ASSUME AdaptersInit PROVE AdaptersTypeOK
  OBVIOUS
<1>1. adapter \in [Models -> Instances] /\ task \in [Deliveries -> Tasks]
  BY Fresh DEF AdaptersInit
<1>2. Busy = {} BY Fresh DEF AdaptersInit, Busy
<1> QED BY <1>1, <1>2 DEF AdaptersInit, AdaptersTypeOK

LEMMA AdaptersTypeNext ==
  ASSUME ModelsAssumption, AdaptersTypeOK, [AdaptersNext]_adapterVars
  PROVE  AdaptersTypeOK'
<1>1. ASSUME NEW d \in Deliveries, NEW m \in Models, DeliveryFrame(d, m)
      PROVE  AdaptersTypeOK'
  <2>1. ASSUME NEW e \in Deliveries, task'[e].pc # "idle"
        PROVE  task'[e].model \in Models /\ adapter'[task'[e].model].name \in Registered
    <3>1. CASE e = d BY <1>1, <2>1, <3>1 DEF DeliveryFrame
    <3>2. CASE e # d
      <4>1. task'[e] = task[e] BY <1>1, <3>2 DEF DeliveryFrame
      <4>2. task[e].model \in Models /\ adapter[task[e].model].name \in Registered
        BY <2>1, <4>1 DEF AdaptersTypeOK, Busy, AdapterOf
      <4> QED BY <1>1, <4>1, <4>2 DEF DeliveryFrame
    <3> QED BY <3>1, <3>2
  <2> QED BY <1>1, <2>1 DEF AdaptersTypeOK, DeliveryFrame, Busy, AdapterOf
<1>2. ASSUME NEW d \in Deliveries, DeliveryStep(d) PROVE AdaptersTypeOK'
  <2>1. CASE \E m \in Models : Resolve(d, m)
    BY <1>1, <2>1, ResolveFrame
  <2>2. CASE ~ \E m \in Models : Resolve(d, m)
    <3>1. DeliveryFrame(d, task[d].model)
      BY <1>2, <2>2, WorkFrame DEF DeliveryStep
    <3> QED BY <1>1, <3>1 DEF DeliveryFrame
  <2> QED BY <2>1, <2>2
<1>3. CASE ~ \E d \in Deliveries : DeliveryStep(d)
  <2> DEFINE Kept == adapter' = adapter /\ task' = task
             Hook == /\ Busy = {} /\ task' = task
                     /\ adapter' = [m \in Models |->
                          IF Unloads(adapter[m]) THEN Unloaded(adapter[m])
                          ELSE adapter[m]]
             Dropped == /\ adapter' = [m \in Models |-> NoInstance]
                        /\ \/ task' = task /\ Busy = {}
                           \/ task' = [d \in Deliveries |-> IdleTask]
  <2>1. /\ registry' \in [Models -> AdapterNames \cup {None}]
        /\ concurrency' = concurrency
        /\ process' \in {"up", "stopping", "down"}
        /\ (Kept /\ (process' = "down" => process = "down")) \/ Hook \/ Dropped
    BY <1>3, ProcessFrame DEF AdaptersNext, AdaptersTypeOK
  <2>2. CASE Kept /\ (process' = "down" => process = "down")
    BY <2>1, <2>2 DEF AdaptersTypeOK, Busy, AdapterOf
  <2>3. CASE Hook
    <3>1. adapter' \in [Models -> Instances]
      BY <2>3, Methods DEF AdaptersTypeOK
    <3>2. Busy' = {} BY <2>3 DEF Busy
    <3> QED BY <2>1, <2>3, <3>1, <3>2 DEF AdaptersTypeOK
  <2>4. CASE Dropped
    <3>1. adapter' \in [Models -> Instances] /\ task' \in [Deliveries -> Tasks]
      BY <2>4, Fresh DEF AdaptersTypeOK
    <3>2. Busy' = {} BY <2>4, Fresh DEF Busy
    <3> QED BY <2>1, <3>1, <3>2 DEF AdaptersTypeOK
  <2> QED BY <2>1, <2>2, <2>3, <2>4
<1> QED BY <1>2, <1>3

\* Every variable of the worker process keeps its type.
THEOREM AdaptersTypeCorrect == AdaptersSpec => []AdaptersTypeOK
BY ModelsAssumption, AdaptersTypeInit, AdaptersTypeNext, PTL DEF AdaptersSpec

-----------------------------------------------------------------------------
(* Who generates has the weights                                           *)

\* Only a mock is seen loading or generating.
OnlyMockWaits ==
  \A d \in Deliveries :
    task[d].pc \in {"loading", "generating"} => AdapterOf(d).name = "mock"

ServingInv == ServingHasWeights /\ BusyIsGenerating

LEMMA ServingNext ==
  ASSUME ModelsAssumption, AdaptersTypeOK, AdaptersTypeOK', ServingInv, OnlyMockWaits,
         [AdaptersNext]_adapterVars
  PROVE  ServingInv' /\ OnlyMockWaits'
<1>1. ASSUME NEW d \in Deliveries, NEW m \in Models, Resolve(d, m)
      PROVE  ServingInv' /\ OnlyMockWaits'
  <2>1. /\ DeliveryFrame(d, m)
        /\ adapter' = [adapter EXCEPT ![m] = Instance(m)]
        /\ \/ Instance(m) = adapter[m]
           \/ Instance(m).status = "unloaded" /\ ~Instance(m).weights
        /\ task'[d].pc \in {"loaded", "announcing"}
    BY <1>1, ResolveFrame
  <2>2. task[d].pc = "idle" BY <1>1 DEF Resolve
  <2>3. adapter'[m] = Instance(m) BY <2>1 DEF AdaptersTypeOK
  <2>4. ASSUME NEW e \in Deliveries, e # d, task'[e].pc # "idle"
        PROVE  /\ task'[e] = task[e] /\ task[e].model \in Models
               /\ adapter[task[e].model].name \in Registered
               /\ adapter'[task[e].model] = adapter[task[e].model]
    <3>1. task'[e] = task[e] BY <2>1, <2>4 DEF DeliveryFrame
    <3>2. task[e].model \in Models /\ adapter[task[e].model].name \in Registered
      BY <2>4, <3>1 DEF AdaptersTypeOK, Busy, AdapterOf
    <3>3. adapter[m].name \in Registered => Instance(m) = adapter[m]
      BY Fresh DEF Instance, ModelsAssumption
    <3> QED BY <2>1, <2>3, <3>1, <3>2, <3>3 DEF DeliveryFrame
  <2>5. ServingHasWeights'
    <3>1. \A n \in Models : adapter'[n].status \in {"ready", "generating"}
                              => adapter'[n].weights
      BY <2>1, <2>3 DEF ServingInv, ServingHasWeights, DeliveryFrame
    <3>2. \A e \in Deliveries : task'[e].pc = "generating"
                              => adapter'[task'[e].model].weights
      BY <2>1, <2>4 DEF ServingInv, ServingHasWeights, AdapterOf
    <3> QED BY <3>1, <3>2 DEF ServingHasWeights, AdapterOf
  <2>6. BusyIsGenerating'
    <3> SUFFICES ASSUME NEW n \in Models, adapter'[n].status = "generating"
                 PROVE  \E e \in Deliveries : task'[e].pc = "generating" /\ task'[e].model = n
      BY DEF BusyIsGenerating
    <3>1. adapter[n].status = "generating"
      BY <2>1, <2>3 DEF DeliveryFrame
    <3>2. PICK e \in Deliveries : task[e].pc = "generating" /\ task[e].model = n
      BY <3>1 DEF ServingInv, BusyIsGenerating
    <3> QED BY <2>1, <2>2, <3>2 DEF DeliveryFrame
  <2>7. OnlyMockWaits' BY <2>1, <2>4 DEF OnlyMockWaits, AdapterOf
  <2> QED BY <2>5, <2>6, <2>7 DEF ServingInv
<1>2. ASSUME NEW d \in Deliveries, DeliveryStep(d), ~ \E m \in Models : Resolve(d, m)
      PROVE  ServingInv' /\ OnlyMockWaits'
  <2> DEFINE m == task[d].model
             a == adapter[m]
             b == adapter'[m]
             pc == task[d].pc
             next == task'[d].pc
  <2>1. /\ DeliveryFrame(d, m)
        /\ pc # "idle" /\ a.name \in Registered
        /\ \/ /\ pc = "announcing" /\ a.name = "mock" /\ next = "idle"
              /\ b.status = "error" /\ b.weights = a.weights
           \/ /\ pc = "announcing" /\ a.name = "mock" /\ next = "loading"
              /\ b.status = "loading" /\ b.weights = a.weights
           \/ /\ pc = "loading" /\ next = "loaded"
              /\ b.status = "ready" /\ b.weights
           \/ /\ pc = "announcing" /\ a.name = "cogvideo" /\ next = "loaded"
              /\ b.status = "ready" /\ b.weights
           \/ /\ pc = "announcing" /\ a.name = "cogvideo" /\ next = "idle"
              /\ b = a \/ b.status = "error"
           \/ /\ pc = "loaded" /\ a.status = "ready" /\ a.name = "mock"
              /\ next = "generating"
              /\ b.status = "generating" /\ b.weights = a.weights
           \/ /\ pc = "generating" /\ next = "idle"
              /\ b.status = "ready" /\ b.weights = a.weights
           \/ /\ pc = "loaded" /\ a.status = "ready" /\ next = "idle"
              /\ b.status = "ready" /\ b.weights = a.weights
           \/ pc \in {"announcing", "loaded", "loading"} /\ next = "idle" /\ b = a
    BY <1>2, WorkFrame DEF DeliveryStep
  <2>2. m \in Models /\ b.name = a.name BY <2>1 DEF DeliveryFrame
  <2>3. /\ a.status \in {"ready", "generating"} => a.weights
        /\ pc = "generating" => a.weights /\ a.name = "mock"
        /\ pc = "loading" => a.name = "mock"
    BY <2>2 DEF ServingInv, ServingHasWeights, OnlyMockWaits, AdapterOf
  <2>4. /\ b.status \in {"ready", "generating"} => b.weights
        /\ next = "generating" => b.weights
        /\ next \in {"loading", "generating"} => b.name = "mock"
    BY <2>1, <2>2, <2>3
  <2>5. a.name = "mock" /\ a.weights => b.weights
    BY <2>1
  <2>6. next # "idle" => task'[d].model = m
    BY <2>1 DEF DeliveryFrame
  <2>7. ASSUME NEW e \in Deliveries, e # d
        PROVE  task'[e] = task[e]
    BY <2>1, <2>7 DEF DeliveryFrame
  <2>8. \A n \in Models \ {m} : adapter'[n] = adapter[n]
    BY <2>1 DEF DeliveryFrame
  <2>9. ASSUME NEW e \in Deliveries, e # d, task[e].pc # "idle"
        PROVE  /\ task[e].model \in Models
               /\ adapter'[task[e].model].name = adapter[task[e].model].name
               /\ adapter[task[e].model].name = "mock" /\ adapter[task[e].model].weights
                    => adapter'[task[e].model].weights
    <3>1. task[e].model \in Models
      BY <2>9 DEF AdaptersTypeOK, Busy
    <3> QED BY <2>2, <2>5, <2>8, <3>1
  <2>10. ServingHasWeights'
    <3>1. \A n \in Models : adapter'[n].status \in {"ready", "generating"}
                              => adapter'[n].weights
      BY <2>4, <2>8 DEF ServingInv, ServingHasWeights
    <3>2. ASSUME NEW e \in Deliveries, task'[e].pc = "generating"
          PROVE  adapter'[task'[e].model].weights
      <4>1. CASE e = d BY <2>4, <2>6, <3>2, <4>1
      <4>2. CASE e # d
        BY <2>7, <2>9, <3>2, <4>2
        DEF ServingInv, ServingHasWeights, OnlyMockWaits, AdapterOf
      <4> QED BY <4>1, <4>2
    <3> QED BY <3>1, <3>2 DEF ServingHasWeights, AdapterOf
  <2>11. BusyIsGenerating'
    <3> SUFFICES ASSUME NEW n \in Models, adapter'[n].status = "generating"
                 PROVE  \E e \in Deliveries : task'[e].pc = "generating" /\ task'[e].model = n
      BY DEF BusyIsGenerating
    <3>1. CASE n = m
      <4>1. CASE next = "generating" BY <2>6, <3>1, <4>1
      <4>2. CASE next # "generating"
        <5>1. a.status = "generating" /\ pc # "generating"
          BY <2>1, <3>1, <4>2
        <5>2. PICK e \in Deliveries : task[e].pc = "generating" /\ task[e].model = n
          BY <3>1, <5>1, <2>2 DEF ServingInv, BusyIsGenerating
        <5> QED BY <5>1, <5>2, <2>7
      <4> QED BY <4>1, <4>2
    <3>2. CASE n # m
      <4>1. PICK e \in Deliveries : task[e].pc = "generating" /\ task[e].model = n
        BY <2>8, <3>2 DEF ServingInv, BusyIsGenerating
      <4> QED BY <2>7, <3>2, <4>1
    <3> QED BY <3>1, <3>2
  <2>12. OnlyMockWaits'
    <3> SUFFICES ASSUME NEW e \in Deliveries, task'[e].pc \in {"loading", "generating"}
                 PROVE  adapter'[task'[e].model].name = "mock"
      BY DEF OnlyMockWaits, AdapterOf
    <3>1. CASE e = d BY <2>4, <2>6, <3>1
    <3>2. CASE e # d BY <2>7, <2>9, <3>2 DEF OnlyMockWaits, AdapterOf
    <3> QED BY <3>1, <3>2
  <2> QED BY <2>10, <2>11, <2>12 DEF ServingInv
<1>3. CASE ~ \E d \in Deliveries : DeliveryStep(d)
  <2>1. \/ adapter' = adapter /\ task' = task
        \/ /\ Busy = {} /\ task' = task
           /\ adapter' = [m \in Models |->
                IF Unloads(adapter[m]) THEN Unloaded(adapter[m]) ELSE adapter[m]]
        \/ /\ adapter' = [m \in Models |-> NoInstance]
           /\ \/ task' = task /\ Busy = {}
              \/ task' = [d \in Deliveries |-> IdleTask]
    BY <1>3, ProcessFrame DEF AdaptersNext, AdaptersTypeOK
  <2>2. CASE adapter' = adapter /\ task' = task
    BY <2>2 DEF ServingInv, ServingHasWeights, BusyIsGenerating, OnlyMockWaits, AdapterOf
  <2>3. CASE /\ Busy = {} /\ task' = task
             /\ adapter' = [m \in Models |->
                  IF Unloads(adapter[m]) THEN Unloaded(adapter[m]) ELSE adapter[m]]
    <3>1. \A d \in Deliveries : task'[d].pc = "idle" BY <2>3 DEF Busy
    <3>2. \A m \in Models : adapter'[m].status \notin {"ready", "generating"}
      BY <2>3, Methods DEF AdaptersTypeOK, Unloads
    <3> QED BY <3>1, <3>2
            DEF ServingInv, ServingHasWeights, BusyIsGenerating, OnlyMockWaits
  <2>4. CASE /\ adapter' = [m \in Models |-> NoInstance]
             /\ \/ task' = task /\ Busy = {}
                \/ task' = [d \in Deliveries |-> IdleTask]
    <3>1. \A d \in Deliveries : task'[d].pc = "idle" BY <2>4, Fresh DEF Busy
    <3>2. \A m \in Models : adapter'[m].status \notin {"ready", "generating"}
      BY <2>4, Fresh
    <3> QED BY <3>1, <3>2
            DEF ServingInv, ServingHasWeights, BusyIsGenerating, OnlyMockWaits
  <2> QED BY <2>1, <2>2, <2>3, <2>4
<1> QED BY <1>1, <1>2, <1>3 DEF AdaptersNext

LEMMA ServingInit == AdaptersInit => ServingInv /\ OnlyMockWaits
<1> SUFFICES ASSUME AdaptersInit PROVE ServingInv /\ OnlyMockWaits
  OBVIOUS
<1>1. /\ \A m \in Models : adapter[m].status = "unloaded"
      /\ \A d \in Deliveries : task[d].pc = "idle"
  BY Fresh DEF AdaptersInit
<1> QED BY <1>1 DEF ServingInv, ServingHasWeights, BusyIsGenerating, OnlyMockWaits

LEMMA Serving == AdaptersSpec => [](AdaptersTypeOK /\ ServingInv)
<1>1. AdaptersInit => AdaptersTypeOK /\ ServingInv /\ OnlyMockWaits
  BY AdaptersTypeInit, ServingInit
<1>2. /\ AdaptersTypeOK /\ ServingInv /\ OnlyMockWaits
      /\ [AdaptersNext]_adapterVars
      => (AdaptersTypeOK /\ ServingInv /\ OnlyMockWaits)'
  BY ModelsAssumption, AdaptersTypeNext, ServingNext
<1> QED BY <1>1, <1>2, PTL DEF AdaptersSpec

\* Whoever generates, and every adapter that says it is ready, has its weights.
THEOREM ReadyMeansLoaded == AdaptersSpec => []ServingHasWeights
<1>1. ServingInv => ServingHasWeights BY DEF ServingInv
<1> QED BY <1>1, Serving, PTL

\* No failure, timeout or overlap leaves an adapter busy for nobody.
THEOREM BusyAdaptersWork == AdaptersSpec => []BusyIsGenerating
<1>1. ServingInv => BusyIsGenerating BY DEF ServingInv
<1> QED BY <1>1, Serving, PTL

-----------------------------------------------------------------------------
(* One delivery at a time                                                  *)

\* Where the only delivery is, its adapter is in the status that belongs to it;
\* weights are there exactly when the status says so, but for a CogVideoX load
\* that failed after it had assigned _pipe.
WeightsKnown(a) ==
  a.weights => \/ a.status \in {"ready", "generating"}
               \/ a.name = "cogvideo" /\ a.status = "error"

Matches(pc, a) ==
  CASE pc = "announcing" -> a.status \notin {"ready", "generating"}
    [] pc = "loading" -> a.name = "mock" /\ a.status = "loading"
    [] pc = "loaded" -> a.status = "ready"
    [] pc = "generating" -> a.status = "generating"
    [] OTHER -> TRUE

AloneInv ==
  concurrency = 1 =>
    /\ \A d, e \in Busy : d = e
    /\ \A m \in Models : WeightsKnown(adapter[m])
    /\ \A d \in Deliveries : Matches(task[d].pc, AdapterOf(d))

LEMMA AloneInit == AdaptersInit => AloneInv /\ ShutdownUnloads
<1> SUFFICES ASSUME AdaptersInit PROVE AloneInv /\ ShutdownUnloads
  OBVIOUS
<1>1. /\ \A m \in Models : ~adapter[m].weights
      /\ \A d \in Deliveries : task[d].pc = "idle"
  BY Fresh DEF AdaptersInit
<1> QED BY <1>1 DEF AloneInv, ShutdownUnloads, WeightsKnown, Matches, Busy

LEMMA AloneNext ==
  ASSUME ModelsAssumption, ConcurrencyAssumption, AdaptersTypeOK, AdaptersTypeOK',
         ServingInv, AloneInv, ShutdownUnloads, [AdaptersNext]_adapterVars
  PROVE  AloneInv' /\ ShutdownUnloads'
<1>0. concurrency' = concurrency
  <2>1. CASE \E d \in Deliveries, m \in Models : Resolve(d, m)
    BY <2>1 DEF Resolve
  <2>2. CASE \E d \in Deliveries : DeliveryStep(d) /\ ~ \E m \in Models : Resolve(d, m)
    BY <2>2, WorkFrame DEF DeliveryStep, DeliveryFrame
  <2>3. CASE ~ \E d \in Deliveries : DeliveryStep(d)
    BY <2>3, ProcessFrame DEF AdaptersNext
  <2> QED BY <2>1, <2>2, <2>3
<1> SUFFICES ASSUME concurrency = 1 PROVE AloneInv' /\ ShutdownUnloads'
  BY <1>0 DEF AloneInv, ShutdownUnloads
<1>a. /\ \A d, e \in Busy : d = e
      /\ \A m \in Models : WeightsKnown(adapter[m])
      /\ \A d \in Deliveries : Matches(task[d].pc, adapter[task[d].model])
  BY DEF AloneInv, AdapterOf
\* The delivery that moves is the only one that is under way afterwards.
<1>b. ASSUME NEW d \in Deliveries, NEW m \in Models, DeliveryFrame(d, m),
             \A e \in Busy : e = d,
             WeightsKnown(adapter'[m]),
             task'[d].pc # "idle" => Matches(task'[d].pc, adapter'[m])
      PROVE  AloneInv' /\ ShutdownUnloads'
  <2>1. ASSUME NEW e \in Deliveries, e # d PROVE task'[e].pc = "idle"
    BY <1>b, <2>1 DEF DeliveryFrame, Busy
  <2>2. \A n \in Models : WeightsKnown(adapter'[n])
    BY <1>a, <1>b DEF DeliveryFrame
  <2>3. \A e \in Deliveries : Matches(task'[e].pc, adapter'[task'[e].model])
    <3> SUFFICES ASSUME NEW e \in Deliveries
                 PROVE  Matches(task'[e].pc, adapter'[task'[e].model])
      OBVIOUS
    <3>1. CASE task'[e].pc = "idle" BY <3>1 DEF Matches
    <3>2. CASE task'[e].pc # "idle"
      <4>1. e = d BY <2>1, <3>2
      <4> QED BY <1>b, <3>2, <4>1 DEF DeliveryFrame
    <3> QED BY <3>1, <3>2
  <2>4. \A e, f \in Busy' : e = f BY <2>1 DEF Busy
  <2>5. AloneInv' BY <2>2, <2>3, <2>4 DEF AloneInv, AdapterOf
  <2>6. process' # "down" BY <1>b DEF DeliveryFrame
  <2> QED BY <2>5, <2>6 DEF ShutdownUnloads
<1>1. ASSUME NEW d \in Deliveries, NEW m \in Models, Resolve(d, m)
      PROVE  AloneInv' /\ ShutdownUnloads'
  <2>1. Busy = {}
    <3>1. IsFiniteSet(Busy)
      BY ConcurrencyAssumption, FS_Subset DEF Busy, ConcurrencyAssumption
    <3>2. Cardinality(Busy) < 1 BY <1>1 DEF Resolve
    <3> QED BY <3>1, <3>2, FS_EmptySet, FS_CardinalityType
  <2>2. /\ DeliveryFrame(d, m)
        /\ adapter' = [adapter EXCEPT ![m] = Instance(m)]
        /\ Instance(m) \in Instances
        /\ \/ Instance(m) = adapter[m]
           \/ Instance(m).status = "unloaded" /\ ~Instance(m).weights
        /\ task'[d].pc = IF Instance(m).status = "ready" THEN "loaded" ELSE "announcing"
    BY <1>1, ResolveFrame
  <2>3. adapter'[m] = Instance(m) BY <2>2 DEF AdaptersTypeOK
  <2>4. WeightsKnown(adapter'[m]) BY <1>a, <2>2, <2>3 DEF WeightsKnown
  <2>5. adapter[m].status # "generating"
    BY <2>1 DEF ServingInv, BusyIsGenerating, Busy
  <2>6. Matches(task'[d].pc, adapter'[m])
    BY <2>2, <2>3, <2>5 DEF Matches
  <2> QED BY <1>b, <2>1, <2>2, <2>4, <2>6
<1>2. ASSUME NEW d \in Deliveries, DeliveryStep(d), ~ \E m \in Models : Resolve(d, m)
      PROVE  AloneInv' /\ ShutdownUnloads'
  <2> DEFINE m == task[d].model
             a == adapter[m]
             b == adapter'[m]
             pc == task[d].pc
             next == task'[d].pc
  <2>1. /\ DeliveryFrame(d, m)
        /\ pc # "idle" /\ a.name \in Registered
        /\ \/ /\ pc = "announcing" /\ a.name = "mock" /\ next = "idle"
              /\ b.status = "error" /\ b.weights = a.weights
           \/ /\ pc = "announcing" /\ a.name = "mock" /\ next = "loading"
              /\ b.status = "loading" /\ b.weights = a.weights
           \/ /\ pc = "loading" /\ next = "loaded"
              /\ b.status = "ready" /\ b.weights
           \/ /\ pc = "announcing" /\ a.name = "cogvideo" /\ next = "loaded"
              /\ b.status = "ready" /\ b.weights
           \/ /\ pc = "announcing" /\ a.name = "cogvideo" /\ next = "idle"
              /\ b = a \/ b.status = "error"
           \/ /\ pc = "loaded" /\ a.status = "ready" /\ a.name = "mock"
              /\ next = "generating"
              /\ b.status = "generating" /\ b.weights = a.weights
           \/ /\ pc = "generating" /\ next = "idle"
              /\ b.status = "ready" /\ b.weights = a.weights
           \/ /\ pc = "loaded" /\ a.status = "ready" /\ next = "idle"
              /\ b.status = "ready" /\ b.weights = a.weights
           \/ pc \in {"announcing", "loaded", "loading"} /\ next = "idle" /\ b = a
    BY <1>2, WorkFrame DEF DeliveryStep
  <2>2. m \in Models /\ b.name = a.name /\ a \in Instances /\ b \in Instances
    BY <2>1 DEF DeliveryFrame, AdaptersTypeOK
  <2>3. WeightsKnown(a) /\ Matches(pc, a)
    BY <1>a, <2>2
  <2>4. WeightsKnown(b)
    BY <2>1, <2>2, <2>3 DEF WeightsKnown, Matches, Instances
  <2>5. next # "idle" => Matches(next, b)
    BY <2>1, <2>2 DEF Matches
  <2>6. \A e \in Busy : e = d
    BY <1>a, <2>1 DEF Busy
  <2> QED BY <1>b, <2>1, <2>2, <2>4, <2>5, <2>6
<1>3. CASE ~ \E d \in Deliveries : DeliveryStep(d)
  <2>1. \/ adapter' = adapter /\ task' = task /\ (process' = "down" => process = "down")
        \/ /\ Busy = {} /\ task' = task
           /\ adapter' = [m \in Models |->
                IF Unloads(adapter[m]) THEN Unloaded(adapter[m]) ELSE adapter[m]]
        \/ /\ adapter' = [m \in Models |-> NoInstance]
           /\ \/ task' = task /\ Busy = {}
              \/ task' = [d \in Deliveries |-> IdleTask]
    BY <1>3, ProcessFrame DEF AdaptersNext, AdaptersTypeOK
  <2>2. CASE adapter' = adapter /\ task' = task /\ (process' = "down" => process = "down")
    BY <1>0, <2>2 DEF AloneInv, ShutdownUnloads, Busy, AdapterOf
  <2>3. ASSUME \A d \in Deliveries : task'[d].pc = "idle",
               \A m \in Models : adapter'[m].weights =>
                 adapter'[m].name = "cogvideo" /\ adapter'[m].status = "error"
        PROVE  AloneInv' /\ ShutdownUnloads'
    BY <2>3 DEF AloneInv, ShutdownUnloads, WeightsKnown, Matches, Busy
  <2>4. CASE /\ Busy = {} /\ task' = task
             /\ adapter' = [m \in Models |->
                  IF Unloads(adapter[m]) THEN Unloaded(adapter[m]) ELSE adapter[m]]
    <3>1. \A d \in Deliveries : task'[d].pc = "idle" BY <2>4 DEF Busy
    <3>2. ASSUME NEW m \in Models, adapter'[m].weights
          PROVE  adapter'[m].name = "cogvideo" /\ adapter'[m].status = "error"
      <4>1. adapter'[m] = adapter[m] /\ adapter[m].status \notin {"ready", "generating"}
        BY <2>4, <3>2, Methods DEF AdaptersTypeOK, Unloads
      <4> QED BY <1>a, <3>2, <4>1 DEF WeightsKnown
    <3> QED BY <2>3, <3>1, <3>2
  <2>5. CASE /\ adapter' = [m \in Models |-> NoInstance]
             /\ \/ task' = task /\ Busy = {}
                \/ task' = [d \in Deliveries |-> IdleTask]
    <3>1. \A d \in Deliveries : task'[d].pc = "idle" BY <2>5, Fresh DEF Busy
    <3>2. \A m \in Models : ~adapter'[m].weights BY <2>5, Fresh
    <3> QED BY <2>3, <3>1, <3>2
  <2> QED BY <2>1, <2>2, <2>4, <2>5
<1> QED BY <1>1, <1>2, <1>3 DEF AdaptersNext

LEMMA Alone == AdaptersSpec => [](AdaptersTypeOK /\ AloneInv /\ ShutdownUnloads)
<1>1. AdaptersInit => AloneInv /\ ShutdownUnloads BY AloneInit
<1>2. /\ AdaptersTypeOK /\ AdaptersTypeOK' /\ ServingInv
      /\ AloneInv /\ ShutdownUnloads /\ [AdaptersNext]_adapterVars
      => (AloneInv /\ ShutdownUnloads)'
  BY ModelsAssumption, ConcurrencyAssumption, AloneNext
<1> QED BY <1>1, <1>2, Serving, PTL DEF AdaptersSpec

\* One delivery at a time is never refused and loads a mock once.
THEOREM OneAtATimeIsOrderly == AdaptersSpec => []AloneIsOrderly
<1>1. AdaptersTypeOK /\ AloneInv => AloneIsOrderly
  <2> SUFFICES ASSUME AdaptersTypeOK, AloneInv, concurrency = 1, NEW d \in Deliveries
               PROVE  /\ task[d].pc = "loaded" => AdapterOf(d).status = "ready"
                      /\ task[d].pc \in {"announcing", "loading"}
                         /\ AdapterOf(d).name = "mock" => ~AdapterOf(d).weights
    BY DEF AloneIsOrderly
  <2>1. Matches(task[d].pc, AdapterOf(d)) BY DEF AloneInv
  <2>2. task[d].pc # "idle" => WeightsKnown(AdapterOf(d))
    BY DEF AloneInv, AdaptersTypeOK, Busy, AdapterOf
  <2> QED BY <2>1, <2>2 DEF Matches, WeightsKnown
<1> QED BY <1>1, Alone, PTL

\* After one delivery at a time, shutdown leaves no weights that a load had not
\* left behind by failing halfway.
THEOREM ShutdownUnloadsAll == AdaptersSpec => []ShutdownUnloads
BY Alone, PTL
=============================================================================
