-------------------------- MODULE GPUResourceThread --------------------------
(***************************************************************************)
(* The pinned thread that uploads textures and meshes, the ThreadSafeQueue *)
(* in front of it, and the threads that call it:                           *)
(*   src/src/framework/gpu_resource_thread.{h,cpp}                         *)
(*   src/src/core/thread_safe_queue.h                                      *)
(*   Renderer::Renderer, Renderer::shutdown (src/src/framework/renderer.cpp)*)
(*                                                                         *)
(* The main thread constructs the Renderer (which starts the thread), and  *)
(* later shuts it down. The async loader is one enkiTS task: it runs from  *)
(* Renderer::run until it returns, which may be after the shutdown was     *)
(* requested. Both call enqueue. A step of the model is one access to the  *)
(* shared state: the atomics running_ and shutdown_requested_, the queue   *)
(* under its mutex, the condition variable. GPUResourceRequest::process    *)
(* takes two steps, its begin and its end, so that two threads may be seen *)
(* inside it.                                                              *)
(***************************************************************************)
EXTENDS Naturals, Sequences

CONSTANTS Main,          \* the thread that owns the Renderer
          Loader,        \* the worker that runs the async loader's task
          MaxRequests    \* bound: requests each of the two enqueues

ASSUME GRTAssumption ==
    /\ Main # Loader
    /\ MaxRequests \in Nat \ {0}

Clients == {Main, Loader}

\* A request is named by its caller and its position among the caller's calls.
Request == Clients \X (1 .. MaxRequests)

\* The null shared_ptr.
Null == <<Main, 0>>

VARIABLES queue,              \* ThreadSafeQueue::queue_
          running,            \* running_
          shutdownRequested,  \* shutdown_requested_
          schedulerShutdown,  \* enki::TaskScheduler::GetIsShutdownRequested()
          gpuPc,              \* where the pinned thread is in Execute()
          item,               \* the request Execute holds, or Null
          pc,                 \* where each client is in enqueue()
          made,               \* how many calls of enqueue each client has begun
          mainPc,             \* where the main thread is in the Renderer's life
          done,               \* history: requests processed, in order of completion
          early               \* history: requests pushed before the shutdown flag

vars == <<queue, running, shutdownRequested, schedulerShutdown, gpuPc, item,
          pc, made, mainPc, done, early>>

gpuVars == <<gpuPc, item>>
clientVars == <<pc, made>>
flagVars == <<running, shutdownRequested, schedulerShutdown>>

GpuPc == {"none", "wait", "blocking", "blocked", "process", "drain",
          "exiting", "stopped"}
ClientPc == {"idle", "enqueue", "push", "notify", "inline"}
MainPc == {"setup", "run", "flagged", "notified", "joining", "joined"}

Init ==
    /\ queue = <<>>
    /\ running = FALSE
    /\ shutdownRequested = FALSE
    /\ schedulerShutdown = FALSE
    /\ gpuPc = "none"
    /\ item = Null
    /\ pc = [c \in Clients |-> "idle"]
    /\ made = [c \in Clients |-> 0]
    /\ mainPc = "setup"
    /\ done = <<>>
    /\ early = {}

-----------------------------------------------------------------------------
(* The queue. cv_.wait evaluates its predicate and, when it is false,       *)
(* releases the mutex and blocks: only between those two does a thread keep *)
(* the mutex across a step, so the mutex is free in every other state.      *)
MutexFree == gpuPc # "blocking"

\* cv_.notify_one and cv_.notify_all: at most one thread ever waits. Neither
\* takes the mutex; a notification finds a waiter or is lost.
NotifiedGpuPc == IF gpuPc = "blocked" THEN "wait" ELSE gpuPc

should_stop == shutdownRequested \/ schedulerShutdown

-----------------------------------------------------------------------------
(* A client's call of enqueue.                                              *)

Current(c) == <<c, made[c]>>

\* The loader's task is launched by Renderer::run, after the thread's start;
\* the main thread calls enqueue between its own other calls.
MayCall(c) ==
    IF c = Main THEN mainPc \in {"setup", "run"}
                ELSE mainPc \notin {"setup", "joined"}

BeginEnqueue(c) ==
    /\ pc[c] = "idle"
    /\ MayCall(c)
    /\ made[c] < MaxRequests
    /\ made' = [made EXCEPT ![c] = @ + 1]
    /\ pc' = [pc EXCEPT ![c] = "enqueue"]
    /\ UNCHANGED <<queue, flagVars, gpuVars, mainPc, done, early>>

\* Mutant: enqueue stops queueing as soon as the shutdown is requested, while
\* the loop may still be draining.
ReadRunning_TestsShutdown(c) ==
    /\ pc[c] = "enqueue"
    /\ pc' = [pc EXCEPT ![c] =
                 IF running /\ ~should_stop THEN "push" ELSE "inline"]
    /\ UNCHANGED <<queue, flagVars, gpuVars, made, mainPc, done, early>>

\* enqueue reads running_ once; the decision is not repeated under a lock.
ReadRunning(c) ==
    /\ pc[c] = "enqueue"
    /\ pc' = [pc EXCEPT ![c] = IF running THEN "push" ELSE "inline"]
    /\ UNCHANGED <<queue, flagVars, gpuVars, made, mainPc, done, early>>

push(c) ==
    /\ pc[c] = "push"
    /\ MutexFree
    /\ queue' = Append(queue, Current(c))
    /\ early' = IF shutdownRequested THEN early ELSE early \cup {Current(c)}
    /\ pc' = [pc EXCEPT ![c] = "notify"]
    /\ UNCHANGED <<flagVars, gpuVars, made, mainPc, done>>

\* Mutant: push does not notify.
PushNotify_Silent(c) ==
    /\ pc[c] = "notify"
    /\ pc' = [pc EXCEPT ![c] = "idle"]
    /\ UNCHANGED <<queue, flagVars, gpuVars, made, mainPc, done, early>>

PushNotify(c) ==
    /\ pc[c] = "notify"
    /\ gpuPc' = NotifiedGpuPc
    /\ pc' = [pc EXCEPT ![c] = "idle"]
    /\ UNCHANGED <<queue, flagVars, item, made, mainPc, done, early>>

\* The end of request->process() on the caller.
FinishInline(c) ==
    /\ pc[c] = "inline"
    /\ done' = Append(done, Current(c))
    /\ pc' = [pc EXCEPT ![c] = "idle"]
    /\ UNCHANGED <<queue, flagVars, gpuVars, made, mainPc, early>>

-----------------------------------------------------------------------------
(* The pinned thread: GPUResourceThread::Execute.                           *)

\* wait_and_pop finds an item: pops it under the mutex.
WaitPop ==
    /\ gpuPc = "wait"
    /\ queue # <<>>
    /\ item' = Head(queue)
    /\ queue' = Tail(queue)
    /\ gpuPc' = "process"
    /\ UNCHANGED <<flagVars, clientVars, mainPc, done, early>>

\* Mutant: the stop is honoured before the queue is looked at.
WaitStop_LeavesItems ==
    /\ gpuPc = "wait"
    /\ should_stop
    /\ gpuPc' = "exiting"
    /\ UNCHANGED <<queue, flagVars, item, clientVars, mainPc, done, early>>

\* wait_and_pop returns false: stopped with an empty queue. Execute breaks.
WaitStop ==
    /\ gpuPc = "wait"
    /\ queue = <<>>
    /\ should_stop
    /\ gpuPc' = "exiting"
    /\ UNCHANGED <<queue, flagVars, item, clientVars, mainPc, done, early>>

\* The predicate is false: the thread holds the mutex and is about to block.
WaitPredicateFalse ==
    /\ gpuPc = "wait"
    /\ queue = <<>>
    /\ ~should_stop
    /\ gpuPc' = "blocking"
    /\ UNCHANGED <<queue, flagVars, item, clientVars, mainPc, done, early>>

WaitBlock ==
    /\ gpuPc = "blocking"
    /\ gpuPc' = "blocked"
    /\ UNCHANGED <<queue, flagVars, item, clientVars, mainPc, done, early>>

\* std::condition_variable may return without a notification.
SpuriousWakeup ==
    /\ gpuPc = "blocked"
    /\ gpuPc' = "wait"
    /\ UNCHANGED <<queue, flagVars, item, clientVars, mainPc, done, early>>

\* The end of request->process() on the pinned thread.
FinishProcess ==
    /\ gpuPc = "process"
    /\ done' = Append(done, item)
    /\ item' = Null
    /\ gpuPc' = "drain"
    /\ UNCHANGED <<queue, flagVars, clientVars, mainPc, early>>

\* Mutant: front() without pop().
try_pop_Peeks ==
    /\ gpuPc = "drain"
    /\ IF queue = <<>>
       THEN gpuPc' = "wait" /\ UNCHANGED item
       ELSE gpuPc' = "process" /\ item' = Head(queue)
    /\ UNCHANGED <<queue, flagVars, clientVars, mainPc, done, early>>

try_pop ==
    /\ gpuPc = "drain"
    /\ IF queue = <<>>
       THEN /\ gpuPc' = "wait"
            /\ UNCHANGED <<queue, item>>
       ELSE /\ item' = Head(queue)
            /\ queue' = Tail(queue)
            /\ gpuPc' = "process"
    /\ UNCHANGED <<flagVars, clientVars, mainPc, done, early>>

\* running_.store(false) after the loop.
ExecuteReturn ==
    /\ gpuPc = "exiting"
    /\ running' = FALSE
    /\ gpuPc' = "stopped"
    /\ UNCHANGED <<queue, shutdownRequested, schedulerShutdown, item,
                   clientVars, mainPc, done, early>>

-----------------------------------------------------------------------------
(* The main thread: Renderer::Renderer and Renderer::shutdown.              *)

\* start: no other thread exists yet, so its stores are one step.
start ==
    /\ mainPc = "setup"
    /\ pc[Main] = "idle"
    /\ running' = TRUE
    /\ shutdownRequested' = FALSE
    /\ gpuPc' = "wait"
    /\ mainPc' = "run"
    /\ UNCHANGED <<queue, schedulerShutdown, item, clientVars, done, early>>

\* request_shutdown: the store, then the notification. No mutex is taken.
ShutdownStore ==
    /\ mainPc = "run"
    /\ pc[Main] = "idle"
    /\ shutdownRequested' = TRUE
    /\ mainPc' = "flagged"
    /\ UNCHANGED <<queue, running, schedulerShutdown, gpuVars, clientVars,
                   done, early>>

ShutdownNotify ==
    /\ mainPc = "flagged"
    /\ gpuPc' = NotifiedGpuPc
    /\ mainPc' = "notified"
    /\ UNCHANGED <<queue, flagVars, item, clientVars, done, early>>

\* enki::TaskScheduler::WaitforAllAndShutdown sets its flag, then waits for
\* every task: the loader's and the two pinned ones.
WaitforAllCalled ==
    /\ mainPc = "notified"
    /\ schedulerShutdown' = TRUE
    /\ mainPc' = "joining"
    /\ UNCHANGED <<queue, running, shutdownRequested, gpuVars, clientVars,
                   done, early>>

WaitforAllReturns ==
    /\ mainPc = "joining"
    /\ gpuPc = "stopped"
    /\ pc[Loader] = "idle"
    /\ mainPc' = "joined"
    /\ UNCHANGED <<queue, flagVars, gpuVars, clientVars, done, early>>

-----------------------------------------------------------------------------
Enqueue(c) ==
    \/ BeginEnqueue(c)
    \/ ReadRunning(c)
    \/ push(c)
    \/ PushNotify(c)
    \/ FinishInline(c)

wait_and_pop == WaitPop \/ WaitStop \/ WaitPredicateFalse \/ WaitBlock

Execute == wait_and_pop \/ FinishProcess \/ try_pop \/ ExecuteReturn

request_shutdown == ShutdownStore \/ ShutdownNotify

shutdown == request_shutdown \/ WaitforAllCalled \/ WaitforAllReturns

Next ==
    \/ \E c \in Clients : Enqueue(c)
    \/ Execute
    \/ SpuriousWakeup
    \/ start
    \/ shutdown

Spec == Init /\ [][Next]_vars

\* Every thread keeps running inside the calls it has begun; nothing obliges
\* a client to call enqueue again or the main thread to shut down.
Fairness ==
    /\ WF_vars(Execute)
    /\ \A c \in Clients :
         WF_vars(ReadRunning(c) \/ push(c) \/ PushNotify(c) \/ FinishInline(c))
    /\ WF_vars(ShutdownNotify \/ WaitforAllCalled \/ WaitforAllReturns)

FairSpec == Spec /\ Fairness

-----------------------------------------------------------------------------
(* Correctness.                                                             *)

TypeOK ==
    /\ queue \in Seq(Request)
    /\ running \in BOOLEAN
    /\ shutdownRequested \in BOOLEAN
    /\ schedulerShutdown \in BOOLEAN
    /\ gpuPc \in GpuPc
    /\ item \in Request \cup {Null}
    /\ item = Null <=> gpuPc # "process"
    /\ pc \in [Clients -> ClientPc]
    /\ made \in [Clients -> 0 .. MaxRequests]
    /\ mainPc \in MainPc
    /\ done \in Seq(Request)
    /\ early \subseteq Request

\* Of the requests given to enqueue, at most one at a time is inside process(),
\* whether it runs on the caller (before start, after the loop's end) or was
\* queued (create_render_target_texture processes its own without enqueue):
\* the allocator and the registry behind process() rely on it ("Pinned thread
\* that serializes Vulkan texture/mesh uploads").
UploadsSerialized ==
    \A c \in Clients : pc[c] = "inline" =>
        /\ gpuPc # "process"
        /\ \A d \in Clients : pc[d] = "inline" => c = d

\* The requests in process, and the refinement: enqueue and Execute together
\* run the requests one at a time, each at most once, in each client's order,
\* across the queued and the immediate path.
InProcess ==
    {Current(c) : c \in {d \in Clients : pc[d] = "inline"}}
        \cup (IF gpuPc = "process" THEN {item} ELSE {})

Serial == INSTANCE SerialUploads WITH
    asked <- {r \in Request : r[2] <= made[r[1]]},
    active <- InProcess,
    served <- done

ServesInOrder == Serial!SUSpec

\* What was pushed before the shutdown flag is processed before Execute
\* returns: the loop leaves only with an empty queue.
DrainedBeforeStop ==
    gpuPc = "stopped" => \A r \in early : \E i \in 1 .. Len(done) : done[i] = r

\* While no shutdown is requested, every queued request is processed: no push
\* is missed by a thread that is about to block.
QueuedIsProcessed ==
    \A r \in Request :
        (\E i \in 1 .. Len(queue) : queue[i] = r) ~>
            (shutdownRequested \/ \E i \in 1 .. Len(done) : done[i] = r)

\* gpu_resource_thread.h:98 says of request_shutdown "Wake the loop so it can
\* exit on scheduler shutdown": the loop ends once request_shutdown returned.
ShutdownWakesLoop == mainPc = "notified" ~> gpuPc = "stopped"
=============================================================================
