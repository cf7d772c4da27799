---------------------------- MODULE PipelineManager ----------------------------
(***************************************************************************)
(* Pipelines are compiled in the background: PipelineManager, the tasks it *)
(* hands to the scheduler and the pool those tasks come from. The render   *)
(* thread enqueues the pipeline of everything it draws, every frame (its   *)
(* record task runs while it waits, so the two are one actor); the async   *)
(* loader compiles its targets at the same time; workers run the tasks.    *)
(*                                                                         *)
(* One step per critical section of cache_mutex_, pending_mutex_ and the   *)
(* pool's mutex and per device call. Objects are named by what they are    *)
(* made for: a layout is <<shaders, the thread that made it>>, a pipeline  *)
(* is counted under its key. Shader compilation is inside the loader's and *)
(* the task's step that uses the result.                                   *)
(***************************************************************************)
EXTENDS Naturals, FiniteSets

CONSTANTS Keys,       \* PipelineCacheKey: pipeline state and render pass
          Unresolved, \* the key whose shaders are InvalidUI64
          Shaders,    \* the shader pair of each other key
          Drawn,      \* keys of what the render thread draws
          Targets,    \* the loader's graphics targets, as keys
          ComputeTargets, \* and its compute targets
          Workers,    \* threads of the scheduler that run tasks
          Render, Loader

ASSUME PMKeys == /\ Unresolved \in Keys /\ ComputeTargets \cap Keys = {}
                 /\ Drawn \subseteq Keys /\ Targets \subseteq Keys
                 /\ DOMAIN Shaders = Keys \ {Unresolved}

ASSUME PMThreads == /\ Render # Loader
                    /\ {Render, Loader} \cap Workers = {}

VARIABLES initialized,
          pipelines,  \* pipelines_: key -> the layout the pipeline was made with
          layouts,    \* pipeline_layouts_: shader pair -> layout
          pending,    \* pending_keys_
          owned,      \* how many task objects exist: 1..owned
          free,       \* free_
          releasing,  \* pending_release_
          target,     \* what each task given to the scheduler and not yet
                      \* complete was initialized for
          pipe,       \* of these, the tasks no thread has picked up
          live_layouts, live_pipelines, \* the device's objects
          pc, job,    \* each thread: its step; its target, task and layout
          todo        \* what the frame and the loader still have to ask for

cache == <<pipelines, layouts, live_layouts, live_pipelines>>
pool == <<owned, free, releasing>>
sched == <<target, pipe>>
pmVars == <<initialized, cache, pending, pool, sched, pc, job, todo>>

Requesters == {Render, Loader}
PMThread == Requesters \cup Workers
Compiled == Keys \ {Unresolved}
AllTargets == Keys \cup ComputeTargets
ShaderPairs == {Shaders[k] : k \in Compiled}
Layouts == ShaderPairs \X PMThread
NoLayout == <<>>
running == DOMAIN target

NoJob == [target |-> Unresolved, task |-> 0, layout |-> NoLayout]

Put(f, x, v) == [y \in DOMAIN f \cup {x} |-> IF y = x THEN v ELSE f[y]]
Go(th, step) == pc' = [pc EXCEPT ![th] = step]

PMInit ==
    /\ initialized = TRUE
    /\ pipelines = <<>> /\ layouts = <<>>
    /\ pending = {}
    /\ owned = 0 /\ free = {} /\ releasing = {}
    /\ target = <<>> /\ pipe = {}
    /\ live_layouts = {} /\ live_pipelines = [k \in Keys |-> 0]
    /\ pc = [th \in PMThread |-> IF th = Loader THEN "layouts" ELSE "idle"]
    /\ job = [th \in PMThread |-> NoJob]
    /\ todo = [th \in Requesters |-> IF th = Loader THEN Targets ELSE {}]

-----------------------------------------------------------------------------
(* The task pool.                                                          *)

\* Mutant: every task counts as complete once ExecuteRange has released it.
GetIsComplete_Early(t) == t \notin running \/ t \in releasing

\* External: enkiTS sets a task set complete after ExecuteRange returned.
GetIsComplete(t) == t \notin running

reclaim ==
    /\ free' = free \cup {t \in releasing : GetIsComplete(t)}
    /\ releasing' = {t \in releasing : ~GetIsComplete(t)}
    /\ UNCHANGED owned

\* Acquire calls reclaim first; each takes the mutex for itself.
Acquire_reclaim(th) ==
    /\ pc[th] = "acquire" /\ reclaim /\ Go(th, "take")
    /\ UNCHANGED <<initialized, cache, pending, sched, job, todo>>

\* Mutant: a bounded pool, and the request is dropped when it is empty.
Acquire_Bounded(th) ==
    /\ pc[th] = "take"
    /\ \/ \E t \in free :
            /\ free' = free \ {t} /\ job' = [job EXCEPT ![th].task = t]
            /\ Go(th, "submit") /\ UNCHANGED owned
       \/ /\ free = {}
          /\ IF owned = 0 THEN owned' = 1 /\ job' = [job EXCEPT ![th].task = 1] /\ Go(th, "submit")
             ELSE Go(th, "idle") /\ UNCHANGED <<owned, job>>
          /\ UNCHANGED free
    /\ UNCHANGED <<initialized, cache, pending, releasing, sched, todo>>

First(S) == CHOOSE t \in S : \A u \in S : t <= u

\* A task of free_ that turned out not to be complete would go back to
\* pending_release_; which of the complete ones is taken does not matter, the
\* model takes the oldest object.
Acquire(th) ==
    /\ pc[th] = "take"
    /\ LET ready == {t \in free : GetIsComplete(t)} IN
       \/ /\ ready # {}
          /\ free' = free \ {First(ready)} /\ UNCHANGED <<owned, releasing>>
          /\ job' = [job EXCEPT ![th].task = First(ready)]
       \/ /\ ready = {}
          /\ free' = {} /\ releasing' = releasing \cup free
          /\ owned' = owned + 1
          /\ job' = [job EXCEPT ![th].task = owned + 1]
    /\ Go(th, "submit")
    /\ UNCHANGED <<initialized, cache, pending, sched, todo>>

-----------------------------------------------------------------------------
(* Requests: enqueue on the render thread, compile_targets on the loader.   *)

\* A frame draws everything visible; update() reclaims first.
BeginFrame ==
    /\ initialized /\ pc[Render] = "idle" /\ todo[Render] = {}
    /\ reclaim
    /\ todo' = [todo EXCEPT ![Render] = Drawn]
    /\ UNCHANGED <<initialized, cache, pending, sched, pc, job>>

Idle(th) == IF th = Loader THEN "targets" ELSE "idle"

\* has_pipeline, for enqueue and for a graphics target of the loader; a compute
\* target goes straight to the pool.
Request(th, x) ==
    /\ pc[th] = Idle(th) /\ x \in todo[th]
    /\ todo' = [todo EXCEPT ![th] = @ \ {x}]
    /\ job' = [job EXCEPT ![th] = [NoJob EXCEPT !.target = x]]
    /\ Go(th, IF x \in ComputeTargets THEN "acquire"
              ELSE IF x \in DOMAIN pipelines THEN Idle(th) ELSE "mark")
    /\ UNCHANGED <<initialized, cache, pending, pool, sched>>

try_mark_pending(th) ==
    /\ pc[th] = "mark"
    /\ pending' = pending \cup {job[th].target}
    /\ Go(th, IF job[th].target \in pending THEN Idle(th) ELSE "acquire")
    /\ UNCHANGED <<initialized, cache, pool, sched, job, todo>>

\* Initialize and AddTaskSetToPipe, on a task only this thread knows.
Submit(th) ==
    /\ pc[th] = "submit"
    /\ target' = Put(target, job[th].task, job[th].target)
    /\ pipe' = pipe \cup {job[th].task}
    /\ job' = [job EXCEPT ![th] = NoJob]
    /\ Go(th, Idle(th))
    /\ UNCHANGED <<initialized, cache, pending, pool, todo>>

LoaderSubmits ==
    /\ pc[Loader] = "layouts" /\ todo[Loader] = {}
    /\ todo' = [todo EXCEPT ![Loader] = Targets \cup ComputeTargets]
    /\ Go(Loader, "targets")
    /\ UNCHANGED <<initialized, cache, pending, pool, sched, job>>

-----------------------------------------------------------------------------
(* create_and_cache_pipeline_layout, on the loader and on workers.         *)

pair(th) == Shaders[job[th].target]
LayoutDone(th, l) ==
    /\ job' = [job EXCEPT ![th] = IF th = Loader THEN NoJob ELSE [@ EXCEPT !.layout = l]]
    /\ Go(th, IF th = Loader THEN "layouts" ELSE "pipeline")

find_layout(w) ==
    /\ pc[w] = "layout"
    /\ IF pair(w) \in DOMAIN layouts THEN LayoutDone(w, layouts[pair(w)])
       ELSE Go(w, "make_layout") /\ UNCHANGED job
    /\ UNCHANGED <<initialized, cache, pending, pool, sched, todo>>

\* compile_targets makes the layouts of all its graphics entries before it asks
\* for a pipeline; without shaders there is nothing to make.
LoaderLayout(k) ==
    /\ pc[Loader] = "layouts" /\ k \in todo[Loader]
    /\ todo' = [todo EXCEPT ![Loader] = @ \ {k}]
    /\ IF k = Unresolved \/ Shaders[k] \in DOMAIN layouts THEN UNCHANGED <<pc, job>>
       ELSE job' = [job EXCEPT ![Loader].target = k] /\ Go(Loader, "make_layout")
    /\ UNCHANGED <<initialized, cache, pending, pool, sched>>

\* build_pipeline_layout_desc and the device's create_pipeline_layout.
create_pipeline_layout(th) ==
    /\ pc[th] = "make_layout"
    /\ live_layouts' = live_layouts \cup {<<pair(th), th>>}
    /\ Go(th, "publish")
    /\ UNCHANGED <<initialized, pipelines, layouts, live_pipelines, pending, pool,
                   sched, job, todo>>

\* Mutant: the loser of the race uses the layout it has just destroyed.
publish_layout_UsesOwn(th) ==
    /\ pc[th] = "publish"
    /\ IF pair(th) \in DOMAIN layouts
       THEN live_layouts' = live_layouts \ {<<pair(th), th>>} /\ UNCHANGED layouts
       ELSE layouts' = Put(layouts, pair(th), <<pair(th), th>>) /\ UNCHANGED live_layouts
    /\ LayoutDone(th, <<pair(th), th>>)
    /\ UNCHANGED <<initialized, pipelines, live_pipelines, pending, pool, sched, todo>>

\* Mutant: the loser of the race does not destroy what it made.
publish_layout_Leaks(th) ==
    /\ pc[th] = "publish"
    /\ layouts' = IF pair(th) \in DOMAIN layouts THEN layouts
                  ELSE Put(layouts, pair(th), <<pair(th), th>>)
    /\ UNCHANGED live_layouts
    /\ LayoutDone(th, layouts'[pair(th)])
    /\ UNCHANGED <<initialized, pipelines, live_pipelines, pending, pool, sched, todo>>

\* emplace under the mutex: the thread that comes second destroys its own
\* layout and takes the cached one.
publish_layout(th) ==
    /\ pc[th] = "publish"
    /\ IF pair(th) \in DOMAIN layouts
       THEN live_layouts' = live_layouts \ {<<pair(th), th>>} /\ UNCHANGED layouts
       ELSE layouts' = Put(layouts, pair(th), <<pair(th), th>>) /\ UNCHANGED live_layouts
    /\ LayoutDone(th, layouts'[pair(th)])
    /\ UNCHANGED <<initialized, pipelines, live_pipelines, pending, pool, sched, todo>>

-----------------------------------------------------------------------------
(* A compile task on a worker.                                             *)

\* Mutant: whoever marked the key compiles it, without a second look.
NeedsPipeline_NoRecheck(x) == x \in Compiled

\* The scheduler (external) gives a task of its pipe to a thread. A compute
\* target and a key without shaders are finished at once, and so is one whose
\* pipeline was cached since it was asked for.
NeedsPipeline(x) == x \in Compiled \ DOMAIN pipelines

ExecuteRange(w, t) ==
    /\ pc[w] = "idle" /\ t \in pipe
    /\ pipe' = pipe \ {t}
    /\ job' = [job EXCEPT ![w] = [NoJob EXCEPT !.target = target[t], !.task = t]]
    /\ Go(w, IF NeedsPipeline(target[t]) THEN "layout" ELSE "finish")
    /\ UNCHANGED <<initialized, cache, pending, pool, target, todo>>

create_pipeline(w) ==
    /\ pc[w] = "pipeline"
    /\ live_pipelines' = [live_pipelines EXCEPT ![job[w].target] = @ + 1]
    /\ Go(w, "insert")
    /\ UNCHANGED <<initialized, pipelines, layouts, live_layouts, pending, pool, sched,
                   job, todo>>

insert_pipeline_cache(w) ==
    /\ pc[w] = "insert"
    /\ pipelines' = IF job[w].target \in DOMAIN pipelines THEN pipelines
                    ELSE Put(pipelines, job[w].target, job[w].layout)
    /\ Go(w, "finish")
    /\ UNCHANGED <<initialized, layouts, live_layouts, live_pipelines, pending, pool,
                   sched, job, todo>>

\* Mutant: only a task that made a pipeline takes its mark back.
on_compile_task_finished_OnSuccess(w) ==
    /\ pc[w] = "finish"
    /\ pending' = IF job[w].layout # NoLayout THEN pending \ {job[w].target} ELSE pending
    /\ Go(w, "release")
    /\ UNCHANGED <<initialized, cache, pool, sched, job, todo>>

\* The pipeline state of a compute target has no shaders: it unmarks that key.
on_compile_task_finished(w) ==
    /\ pc[w] = "finish"
    /\ pending' = pending \ {IF job[w].target \in Keys THEN job[w].target ELSE Unresolved}
    /\ Go(w, "release")
    /\ UNCHANGED <<initialized, cache, pool, sched, job, todo>>

\* Release, from within ExecuteRange.
Release(w) ==
    /\ pc[w] = "release"
    /\ releasing' = releasing \cup {job[w].task}
    /\ Go(w, "return")
    /\ UNCHANGED <<initialized, cache, pending, owned, free, sched, job, todo>>

\* External: ExecuteRange has returned and the scheduler completes the task.
Complete(w) ==
    /\ pc[w] = "return"
    /\ target' = [t \in running \ {job[w].task} |-> target[t]]
    /\ job' = [job EXCEPT ![w] = NoJob]
    /\ Go(w, "idle")
    /\ UNCHANGED <<initialized, cache, pending, pool, pipe, todo>>

-----------------------------------------------------------------------------
(* Renderer::shutdown, after the scheduler has waited for every task.      *)

Quiet == /\ running = {} /\ todo[Render] = {} /\ todo[Loader] = {}
         /\ pc[Loader] = "targets" /\ \A th \in PMThread \ {Loader} : pc[th] = "idle"

\* clear_cache destroys what is cached; clear deletes every task object.
shutdown ==
    /\ initialized /\ Quiet
    /\ initialized' = FALSE
    /\ pending' = {} /\ pipelines' = <<>> /\ layouts' = <<>>
    /\ live_pipelines' = [k \in Keys |-> live_pipelines[k] - (IF k \in DOMAIN pipelines THEN 1 ELSE 0)]
    /\ live_layouts' = live_layouts \ {layouts[p] : p \in DOMAIN layouts}
    /\ owned' = 0 /\ free' = {} /\ releasing' = {}
    /\ UNCHANGED <<sched, pc, job, todo>>

Requester(th) ==
    \/ \E x \in AllTargets : Request(th, x)
    \/ try_mark_pending(th) \/ Acquire_reclaim(th) \/ Acquire(th) \/ Submit(th)

LayoutSteps(th) == create_pipeline_layout(th) \/ publish_layout(th)

RenderStep == BeginFrame \/ Requester(Render)

LoaderStep ==
    \/ \E k \in Keys : LoaderLayout(k)
    \/ LoaderSubmits \/ Requester(Loader) \/ LayoutSteps(Loader)

WorkerStep(w) ==
    \/ \E t \in pipe : ExecuteRange(w, t)
    \/ find_layout(w) \/ LayoutSteps(w) \/ create_pipeline(w)
    \/ insert_pipeline_cache(w) \/ on_compile_task_finished(w)
    \/ Release(w) \/ Complete(w)

PMNext == RenderStep \/ LoaderStep \/ (\E w \in Workers : WorkerStep(w)) \/ shutdown

\* The three loops run as long as they have something to do, and a thread that
\* is free takes a task. Nothing forces the shutdown.
PMSpec == /\ PMInit /\ [][PMNext]_pmVars
          /\ WF_pmVars(RenderStep) /\ WF_pmVars(LoaderStep)
          /\ \A w \in Workers : WF_pmVars(WorkerStep(w))

-----------------------------------------------------------------------------
\* A key's pipeline is made at most once, although the mark is taken back after
\* the pipeline was cached and enqueue looked before it marked the key: the look
\* in create_layouts_and_pipeline is what a late task relies on.
CompiledOnce == \A k \in Keys : live_pipelines[k] <= 1

\* What a thread is about to build a pipeline with, and what every cached
\* pipeline was built with, is the cached layout of its shaders, and alive.
LayoutsInUseLive ==
    /\ \A k \in DOMAIN pipelines :
         /\ pipelines[k] \in live_layouts
         /\ Shaders[k] \in DOMAIN layouts /\ pipelines[k] = layouts[Shaders[k]]
    /\ \A w \in Workers : pc[w] \in {"pipeline", "insert"} =>
         /\ job[w].layout \in live_layouts
         /\ pair(w) \in DOMAIN layouts /\ job[w].layout = layouts[pair(w)]

\* Every layout and pipeline of the device is cached or in the hands of the one
\* thread that just made it; so shutdown leaves none behind.
NothingLeaks ==
    /\ \A l \in live_layouts :
         \/ l[1] \in DOMAIN layouts /\ layouts[l[1]] = l
         \/ pc[l[2]] = "publish" /\ pair(l[2]) = l[1]
    /\ \A k \in Keys : live_pipelines[k] > 0 =>
         \/ k \in DOMAIN pipelines
         \/ \E w \in Workers : pc[w] = "insert" /\ job[w].target = k

\* Where a task object is.
Holders(t) == {th \in Requesters : pc[th] = "submit" /\ job[th].task = t}
Runners(t) == {w \in Workers : pc[w] \notin {"idle", "return"} /\ job[w].task = t}
Places(t) ==
    Cardinality(Holders(t)) + Cardinality(Runners(t))
    + Cardinality({s \in {<<"free", free>>, <<"releasing", releasing>>, <<"pipe", pipe>>} : t \in s[2]})

\* "Release() from Execute() is deferred until GetIsComplete()": a task object is
\* in one place at a time, lost nowhere, and complete when it can be acquired.
TasksInOnePlace ==
    initialized => \A t \in 1..owned :
        /\ Places(t) = 1
        /\ t \in free \/ Holders(t) # {} => t \notin running

\* A marked key has a request or a task that will take the mark back; otherwise
\* enqueue would turn every later request for it away.
PendingIsServed ==
    \A k \in pending :
        \/ \E th \in Requesters : pc[th] \in {"acquire", "take", "submit"} /\ job[th].target = k
        \/ \E t \in pipe : target[t] = k
        \/ \E w \in Workers : pc[w] \notin {"idle", "release", "return"} /\ job[w].target = k

\* What is drawn every frame and has shaders gets its pipeline.
EventuallyCompiled ==
    \A k \in Drawn \ {Unresolved} : <>(k \in DOMAIN pipelines \/ ~initialized)
=============================================================================
