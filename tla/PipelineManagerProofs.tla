------------------------- MODULE PipelineManagerProofs -------------------------
(***************************************************************************)
(* Proofs about PipelineManager for any number of workers, keys and        *)
(* targets. A key that has shaders is compiled by one carrier at a time:   *)
(* the requester that marked it, the task in the pipe or the worker that   *)
(* runs the task (Marks). While a worker builds, its key is not cached,    *)
(* which counts the pipelines (Counted). A thread that makes a layout is   *)
(* not the one whose layout is cached (Layered), so the loser of a race    *)
(* destroys its own. A task object has one place (Placed).                 *)
(***************************************************************************)
EXTENDS PipelineManager, FiniteSetTheorems, TLAPS

Job == [target : AllTargets, task : Nat, layout : Layouts \cup {NoLayout}]

RequesterPc == {"mark", "acquire", "take", "submit"}
Making == {"make_layout", "publish"}
Building == {"layout", "pipeline", "insert"} \cup Making
WorkerPc == {"idle", "finish", "release", "return"} \cup Building

AnyPc == {"layouts", "targets"} \cup RequesterPc \cup WorkerPc

PcOf(th) ==
    IF th = Render THEN {"idle"} \cup RequesterPc
    ELSE IF th = Loader THEN {"layouts", "targets"} \cup Making \cup RequesterPc
    ELSE WorkerPc

ThreadTypes ==
    /\ pc \in [PMThread -> AnyPc] /\ \A th \in PMThread : pc[th] \in PcOf(th)
    /\ job \in [PMThread -> Job]
    /\ \A th \in Requesters : pc[th] = "mark" => job[th].target \in Keys
    /\ pc[Loader] \in Making => job[Loader].target \in Compiled
    /\ todo \in [Requesters -> SUBSET AllTargets]

DataTypes ==
    /\ owned \in Nat /\ free \subseteq 1 .. owned /\ releasing \subseteq 1 .. owned
    /\ target \in [running -> AllTargets]
    /\ running \subseteq 1 .. owned /\ pipe \subseteq running
    /\ pending \subseteq Keys
    /\ layouts \in [DOMAIN layouts -> Layouts] /\ DOMAIN layouts \subseteq ShaderPairs
    /\ live_layouts \subseteq Layouts
    /\ DOMAIN pipelines \subseteq Compiled
    /\ live_pipelines \in [Keys -> Nat]

Types == ThreadTypes /\ DataTypes

\* Who compiles k or will: a thread, or a task nobody has picked up.
Carries(th, k) ==
    /\ job[th].target = k
    /\ \/ th \in Requesters /\ pc[th] \in {"acquire", "take", "submit"}
       \/ th \in Workers /\ pc[th] \in Building \cup {"finish"}

Queued(t, k) == t \in pipe /\ target[t] = k

Marks ==
    \A k \in Compiled :
        /\ \A th, u \in PMThread : Carries(th, k) /\ Carries(u, k) => th = u
        /\ \A t, u \in pipe : Queued(t, k) /\ Queued(u, k) => t = u
        /\ \A th \in PMThread, t \in pipe : ~(Carries(th, k) /\ Queued(t, k))
        /\ \A th \in PMThread : Carries(th, k) => k \in pending
        /\ \A t \in pipe : Queued(t, k) => k \in pending

Served ==
    \A k \in pending :
        (\E th \in PMThread : Carries(th, k)) \/ (\E t \in pipe : Queued(t, k))

Inserting(k) == \E w \in Workers : pc[w] = "insert" /\ job[w].target = k

Counted ==
    /\ \A w \in Workers : pc[w] \in Building =>
           job[w].target \in Compiled \ DOMAIN pipelines
    /\ \A k \in Keys : live_pipelines[k] =
           IF k \in DOMAIN pipelines \/ Inserting(k) THEN 1 ELSE 0

Layered ==
    /\ \A p \in DOMAIN layouts : layouts[p] \in live_layouts /\ layouts[p][1] = p
    /\ \A th \in PMThread : pc[th] \in Making /\ pair(th) \in DOMAIN layouts =>
           layouts[pair(th)] # <<pair(th), th>>
    /\ \A th \in PMThread : pc[th] = "publish" => <<pair(th), th>> \in live_layouts
    /\ \A k \in DOMAIN pipelines :
           Shaders[k] \in DOMAIN layouts /\ pipelines[k] = layouts[Shaders[k]]
    /\ \A w \in Workers : pc[w] \in {"pipeline", "insert"} =>
           pair(w) \in DOMAIN layouts /\ job[w].layout = layouts[pair(w)]
    /\ \A l \in live_layouts :
           \/ l[1] \in DOMAIN layouts /\ layouts[l[1]] = l
           \/ pc[l[2]] = "publish" /\ pair(l[2]) = l[1]

\* Where a task object is, besides free, releasing and pipe.
Holds(th, t) == th \in Requesters /\ pc[th] = "submit" /\ job[th].task = t
Runs(w, t) == w \in Workers /\ pc[w] # "idle" /\ job[w].task = t

Placed ==
    /\ free \cap releasing = {} /\ free \cap running = {} /\ releasing \cap pipe = {}
    /\ \A th \in Requesters : pc[th] = "submit" =>
           /\ job[th].task \in (1 .. owned) \ (free \cup releasing \cup running)
           /\ \A u \in Requesters : Holds(u, job[th].task) => u = th
    /\ \A w \in Workers : pc[w] # "idle" =>
           /\ job[w].task \in running \ pipe
           /\ pc[w] = "return" <=> job[w].task \in releasing
           /\ \A u \in Workers : Runs(u, job[w].task) => u = w
    /\ \A t \in 1 .. owned :
           \/ t \in free \cup releasing \cup pipe
           \/ \E th \in Requesters : Holds(th, t)
           \/ \E w \in Workers : Runs(w, t)

PMInv == Types /\ Marks /\ Served /\ Counted /\ Layered /\ Placed

-----------------------------------------------------------------------------
(* Constants, and what the small helpers do.                               *)

LEMMA Threads ==
    /\ Render \in Requesters /\ Loader \in Requesters /\ Render # Loader
    /\ Requesters \cap Workers = {}
    /\ Requesters \subseteq PMThread /\ Workers \subseteq PMThread
BY PMThreads DEF Requesters, PMThread

LEMMA KeysOf ==
    /\ Unresolved \in Keys /\ Compiled \subseteq Keys /\ Keys \subseteq AllTargets
    /\ Unresolved \notin Compiled /\ Keys \cap ComputeTargets = {}
    /\ Drawn \subseteq AllTargets /\ Targets \subseteq AllTargets
    /\ NoJob \in Job
    /\ \A x \in AllTargets : x \notin ComputeTargets => x \in Keys
BY PMKeys DEF Compiled, AllTargets, NoJob, Job

LEMMA PairOf ==
  ASSUME Types, NEW th \in PMThread, job[th].target \in Compiled
  PROVE  pair(th) \in ShaderPairs /\ <<pair(th), th>> \in Layouts
BY DEF pair, ShaderPairs, Layouts

LEMMA OneStep ==
  ASSUME Types, NEW th \in PMThread, NEW s, Go(th, s)
  PROVE  /\ pc'[th] = s
         /\ \A u \in PMThread : u # th => pc'[u] = pc[u]
         /\ s \in AnyPc => pc' \in [PMThread -> AnyPc]
BY DEF Types, ThreadTypes, Go

LEMMA FirstIn == ASSUME NEW n \in Nat, NEW S \in SUBSET (1 .. n), S # {} PROVE First(S) \in S
<1> DEFINE R == {ss \in Nat \X Nat : ss[1] < ss[2]}
<1>1. IsWellFoundedOn(R, Nat)
  BY NatLessThanWellFounded DEF OpToRel
<1>2. S \subseteq Nat
  OBVIOUS
<1>0. \A x, y \in Nat : y < x => <<y, x>> \in R
  OBVIOUS
<1> HIDE DEF R
<1>3. \E x \in S : \A y \in S : ~(<<y, x>> \in R)
  BY <1>1, <1>2, WFMin, Zenon
<1>4. PICK x \in S : \A y \in S : <<y, x>> \notin R
  BY <1>3
<1>5. \A y \in S : x <= y
  <2> SUFFICES ASSUME NEW y \in S PROVE ~(y < x)
    BY <1>2
  <2>1. x \in Nat /\ y \in Nat /\ <<y, x>> \notin R
    BY <1>2, <1>4
  <2> QED
    BY <1>0, <2>1
<1> QED
  BY <1>5 DEF First

\* The steps, by who may take them.
LEMMA Steps ==
  ASSUME [PMNext]_pmVars
  PROVE  \/ UNCHANGED pmVars \/ BeginFrame \/ LoaderSubmits \/ shutdown
         \/ \E th \in Requesters :
               \/ \E x \in AllTargets : Request(th, x)
               \/ try_mark_pending(th) \/ Acquire_reclaim(th) \/ Acquire(th) \/ Submit(th)
         \/ \E k \in Keys : LoaderLayout(k)
         \/ \E th \in Workers \cup {Loader} : create_pipeline_layout(th) \/ publish_layout(th)
         \/ \E w \in Workers :
               \/ \E t \in pipe : ExecuteRange(w, t)
               \/ find_layout(w) \/ create_pipeline(w) \/ insert_pipeline_cache(w)
               \/ on_compile_task_finished(w) \/ Release(w) \/ Complete(w)
BY DEF PMNext, RenderStep, LoaderStep, WorkerStep, Requester, LayoutSteps, Requesters

-----------------------------------------------------------------------------
(* Types.                                                                  *)

LEMMA JobOf ==
  ASSUME Types, NEW th \in PMThread, NEW j \in Job, job' = [job EXCEPT ![th] = j]
  PROVE  /\ job' \in [PMThread -> Job] /\ job'[th] = j
         /\ \A u \in PMThread : u # th => job'[u] = job[u]
BY DEF Types, ThreadTypes

LEMMA TaskOf ==
  ASSUME Types, NEW th \in PMThread, NEW t \in Nat, job' = [job EXCEPT ![th].task = t]
  PROVE  /\ job' \in [PMThread -> Job]
         /\ job'[th].task = t /\ job'[th].target = job[th].target
         /\ \A u \in PMThread : u # th => job'[u] = job[u]
BY DEF Types, ThreadTypes, Job

LEMMA PcOfThreads ==
    /\ \A th \in Requesters : RequesterPc \cup {Idle(th)} \subseteq PcOf(th)
    /\ {"layouts", "targets"} \cup Making \subseteq PcOf(Loader)
    /\ \A w \in Workers : PcOf(w) = WorkerPc
    /\ \A th \in PMThread : PcOf(th) \subseteq AnyPc
<1> USE Threads
<1>1. \A th \in Requesters : RequesterPc \cup {Idle(th)} \subseteq PcOf(th)
  BY DEF PcOf, Idle, Requesters
<1>2. {"layouts", "targets"} \cup Making \subseteq PcOf(Loader)
  BY DEF PcOf
<1>3. \A w \in Workers : PcOf(w) = WorkerPc
  BY DEF PcOf
<1>4. RequesterPc \cup Making \cup WorkerPc \cup {"layouts", "targets"} \subseteq AnyPc
  BY DEF AnyPc, WorkerPc, Building
<1>5. "idle" \in WorkerPc
  BY DEF WorkerPc
<1> QED
  BY <1>1, <1>2, <1>3, <1>4, <1>5 DEF PcOf

LEMMA Moves ==
  ASSUME Types, NEW th \in PMThread, NEW s \in PcOf(th), Go(th, s),
         job' \in [PMThread -> Job], \A u \in PMThread : u # th => job'[u] = job[u],
         th \in Requesters /\ s = "mark" => job'[th].target \in Keys,
         th = Loader /\ s \in Making => job'[th].target \in Compiled,
         todo' \in [Requesters -> SUBSET AllTargets]
  PROVE  ThreadTypes'
<1>1. s \in AnyPc
  BY PcOfThreads
<1>2. /\ pc'[th] = s /\ pc' \in [PMThread -> AnyPc]
      /\ \A u \in PMThread : u # th => pc'[u] = pc[u]
  BY <1>1, OneStep
<1>3. \A u \in PMThread : pc'[u] \in PcOf(u)
  BY <1>2 DEF Types, ThreadTypes
<1>4. \A u \in Requesters : pc'[u] = "mark" => job'[u].target \in Keys
  BY <1>2, Threads DEF Types, ThreadTypes
<1>5. pc'[Loader] \in Making => job'[Loader].target \in Compiled
  BY <1>2, Threads DEF Types, ThreadTypes
<1>6. \A u \in PMThread : pc'[u] \in PcOf(u)'
  BY <1>3 DEF PcOf
<1> QED
  BY <1>2, <1>4, <1>5, <1>6 DEF ThreadTypes

\* The same for a step that leaves the jobs alone.
LEMMA MovesOn ==
  ASSUME Types, NEW th \in PMThread, NEW s \in PcOf(th), Go(th, s), UNCHANGED job,
         th \in Requesters => s # "mark",
         th = Loader /\ s \in Making => pc[th] \in Making,
         todo' \in [Requesters -> SUBSET AllTargets]
  PROVE  ThreadTypes'
<1>1. /\ job' \in [PMThread -> Job] /\ \A u \in PMThread : u # th => job'[u] = job[u]
      /\ th = Loader /\ s \in Making => job'[th].target \in Compiled
  BY DEF Types, ThreadTypes
<1> QED
  BY <1>1, Moves

LEMMA ThreadTypesStep == ASSUME PMInv, [PMNext]_pmVars PROVE ThreadTypes'
<1> USE Threads, KeysOf, PcOfThreads DEF PMInv
<1>0. Types /\ todo \in [Requesters -> SUBSET AllTargets]
  BY DEF Types, ThreadTypes
<1>1. CASE UNCHANGED <<pc, job, todo>>
  BY <1>1 DEF Types, ThreadTypes, PcOf
<1>2. CASE BeginFrame
  <2>1. UNCHANGED <<pc, job>> /\ todo' \in [Requesters -> SUBSET AllTargets]
    BY <1>0, <1>2 DEF BeginFrame
  <2> QED
    BY <2>1 DEF Types, ThreadTypes, PcOf
<1>3. CASE LoaderSubmits
  <2>1. todo' \in [Requesters -> SUBSET AllTargets]
    <3>1. Targets \cup ComputeTargets \in SUBSET AllTargets
      BY DEF AllTargets
    <3> QED
      BY <1>0, <1>3, <3>1 DEF LoaderSubmits
  <2> QED
    BY <1>0, <1>3, <2>1, MovesOn DEF LoaderSubmits, Making
<1>4. ASSUME NEW th \in Requesters, NEW x \in AllTargets, Request(th, x) PROVE ThreadTypes'
  <2> DEFINE j == [NoJob EXCEPT !.target = x]
             s == IF x \in ComputeTargets THEN "acquire"
                  ELSE IF x \in DOMAIN pipelines THEN Idle(th) ELSE "mark"
  <2>1. j \in Job /\ j.target = x
    BY DEF NoJob, Job
  <2>2. job' = [job EXCEPT ![th] = j] /\ Go(th, s) /\ todo' = [todo EXCEPT ![th] = @ \ {x}]
    BY <1>4 DEF Request
  <2>3. s \in RequesterPc \cup {Idle(th)} /\ Idle(th) \in {"idle", "targets"}
    BY DEF Idle, RequesterPc
  <2>4. s = "mark" => j.target \in Keys
    BY <2>1, <2>3
  <2>5. s \notin Making /\ s \in PcOf(th)
    BY <2>3 DEF Making, RequesterPc
  <2> HIDE DEF j, s
  <2>6. job'[th] = j /\ job' \in [PMThread -> Job] /\ \A u \in PMThread : u # th => job'[u] = job[u]
    BY <1>0, <2>1, <2>2, JobOf
  <2>7. todo' \in [Requesters -> SUBSET AllTargets]
    BY <1>0, <2>2
  <2> QED
    BY <1>0, <2>2, <2>4, <2>5, <2>6, <2>7, Moves
<1>5. ASSUME NEW th \in Requesters, try_mark_pending(th) PROVE ThreadTypes'
  <2>1. PICK s \in {Idle(th), "acquire"} : Go(th, s)
    BY <1>5 DEF try_mark_pending
  <2>2. s \in PcOf(th) /\ s # "mark" /\ s \notin Making
    BY <2>1 DEF Idle, Making, RequesterPc
  <2> QED
    BY <1>0, <1>5, <2>1, <2>2, MovesOn DEF try_mark_pending
<1>6. ASSUME NEW th \in Requesters, Acquire_reclaim(th) PROVE ThreadTypes'
  <2>1. "take" \in PcOf(th) /\ "take" \notin Making
    BY DEF RequesterPc, Making
  <2> QED
    BY <1>0, <1>6, <2>1, MovesOn DEF Acquire_reclaim
<1>7. ASSUME NEW th \in Requesters, Acquire(th) PROVE ThreadTypes'
  <2>1. PICK t \in Nat : job' = [job EXCEPT ![th].task = t]
    <3>1. owned \in Nat /\ \A S \in SUBSET free : S # {} => First(S) \in Nat
      BY FirstIn DEF Types, DataTypes
    <3> QED
      BY <1>7, <3>1 DEF Acquire
  <2>2. "submit" \in PcOf(th) /\ "submit" \notin Making
    BY DEF RequesterPc, Making
  <2> QED
    <3>1. /\ job' \in [PMThread -> Job] /\ \A u \in PMThread : u # th => job'[u] = job[u]
          /\ th \in PMThread
      BY <1>0, <2>1, TaskOf
    <3>2. Go(th, "submit") /\ todo' = todo
      BY <1>7 DEF Acquire
    <3> QED
      BY <1>0, <2>2, <3>1, <3>2, Moves
<1>8. ASSUME NEW th \in Requesters, Submit(th) PROVE ThreadTypes'
  <2>1. Idle(th) \in PcOf(th) /\ Idle(th) # "mark" /\ Idle(th) \notin Making
    BY DEF Idle, Making
  <2> QED
    BY <1>0, <1>8, <2>1, JobOf, Moves DEF Submit
<1>9. ASSUME NEW k \in Keys, LoaderLayout(k) PROVE ThreadTypes'
  <2>1. todo' \in [Requesters -> SUBSET AllTargets]
    BY <1>0, <1>9 DEF LoaderLayout
  <2>2. CASE UNCHANGED <<pc, job>>
    BY <2>1, <2>2 DEF Types, ThreadTypes, PcOf
  <2>3. CASE k # Unresolved /\ job' = [job EXCEPT ![Loader].target = k] /\ Go(Loader, "make_layout")
    <3>1. /\ job' \in [PMThread -> Job] /\ job'[Loader].target = k
          /\ \A u \in PMThread : u # Loader => job'[u] = job[u]
      BY <2>3 DEF Types, ThreadTypes, Job
    <3>2. k \in Compiled /\ "make_layout" \in PcOf(Loader)
      BY <2>3 DEF Compiled, Making
    <3> QED
      BY <1>0, <2>1, <2>3, <3>1, <3>2, Moves
  <2> QED
    BY <1>9, <2>2, <2>3 DEF LoaderLayout
<1>10. ASSUME NEW th \in Workers \cup {Loader}, create_pipeline_layout(th) PROVE ThreadTypes'
  <2>1. "publish" \in PcOf(th)
    BY DEF Making, WorkerPc, Building
  <2> QED
    BY <1>0, <1>10, <2>1, MovesOn DEF create_pipeline_layout, Making
<1>11. ASSUME NEW th \in Workers \cup {Loader}, NEW l \in Layouts, LayoutDone(th, l), UNCHANGED todo
       PROVE  ThreadTypes'
  <2> DEFINE j == IF th = Loader THEN NoJob ELSE [job[th] EXCEPT !.layout = l]
             s == IF th = Loader THEN "layouts" ELSE "pipeline"
  <2>1. job[th] \in Job
    BY DEF Types, ThreadTypes
  <2>2. j \in Job
    BY <2>1 DEF Job
  <2>3. job' = [job EXCEPT ![th] = j] /\ Go(th, s)
    BY <1>11, <2>1 DEF LayoutDone, Types, ThreadTypes
  <2>4. s \in PcOf(th) /\ s # "mark" /\ s \notin Making
    BY DEF WorkerPc, Building, Making
  <2> HIDE DEF j, s
  <2> QED
    BY <1>0, <1>11, <2>2, <2>3, <2>4, JobOf, Moves
<1>12. ASSUME NEW th \in Workers \cup {Loader}, publish_layout(th) PROVE ThreadTypes'
  <2>1. layouts'[pair(th)] \in Layouts
    <3>1. /\ pair(th) \in ShaderPairs /\ <<pair(th), th>> \in Layouts
      <4>1. pc[th] \in Making
        BY <1>12 DEF publish_layout, Making
      <4>2. job[th].target \in Compiled
        BY <4>1 DEF Types, ThreadTypes, Counted, Building
      <4> QED
        BY <1>0, <4>2, PairOf
    <3> QED
      BY <1>12, <3>1 DEF publish_layout, Put, Types, DataTypes
  <2>2. LayoutDone(th, layouts'[pair(th)]) /\ UNCHANGED todo
    BY <1>12 DEF publish_layout
  <2> QED
    BY <1>11, <2>1, <2>2
<1>13. ASSUME NEW w \in Workers, find_layout(w) PROVE ThreadTypes'
  <2>1. CASE pair(w) \in DOMAIN layouts
    <3>1. layouts[pair(w)] \in Layouts
      BY <2>1 DEF Types, DataTypes
    <3> QED
      BY <1>11, <1>13, <2>1, <3>1 DEF find_layout
  <2>2. CASE pair(w) \notin DOMAIN layouts
    <3>1. Go(w, "make_layout") /\ UNCHANGED <<job, todo>> /\ w # Loader /\ w \notin Requesters
      BY <1>13, <2>2 DEF find_layout
    <3>2. "make_layout" \in PcOf(w)
      BY DEF WorkerPc, Building, Making
    <3> QED
      BY <1>0, <3>1, <3>2, MovesOn
  <2> QED
    BY <2>1, <2>2
<1>14. ASSUME NEW w \in Workers, NEW t \in pipe, ExecuteRange(w, t) PROVE ThreadTypes'
  <2> DEFINE j == [NoJob EXCEPT !.target = target[t], !.task = t]
             s == IF NeedsPipeline(target[t]) THEN "layout" ELSE "finish"
  <2>1. target[t] \in AllTargets /\ t \in Nat
    BY DEF Types, DataTypes
  <2>2. j \in Job
    BY <2>1 DEF NoJob, Job
  <2>3. job' = [job EXCEPT ![w] = j] /\ Go(w, s) /\ UNCHANGED todo
    BY <1>14 DEF ExecuteRange
  <2>4. s \in PcOf(w) /\ w \notin Requesters /\ w # Loader
    BY DEF WorkerPc, Building
  <2> HIDE DEF j, s
  <2> QED
    BY <1>0, <2>2, <2>3, <2>4, JobOf, Moves
<1>15. ASSUME NEW w \in Workers, NEW s \in WorkerPc, Go(w, s), UNCHANGED <<job, todo>>
       PROVE  ThreadTypes'
  BY <1>0, <1>15, MovesOn
<1>16. ASSUME NEW w \in Workers,
              \/ create_pipeline(w) \/ insert_pipeline_cache(w)
              \/ on_compile_task_finished(w) \/ Release(w)
       PROVE  ThreadTypes'
  BY <1>15, <1>16
  DEF create_pipeline, insert_pipeline_cache, on_compile_task_finished, Release,
      WorkerPc, Building
<1>17. ASSUME NEW w \in Workers, Complete(w) PROVE ThreadTypes'
  <2>1. "idle" \in PcOf(w) /\ w \notin Requesters /\ w # Loader
    BY DEF WorkerPc
  <2> QED
    BY <1>0, <1>17, <2>1, JobOf, Moves DEF Complete
<1> QED
  BY <1>1, <1>2, <1>3, <1>4, <1>5, <1>6, <1>7, <1>8, <1>9, <1>10, <1>12, <1>13, <1>14,
     <1>16, <1>17, Steps DEF pmVars, shutdown

LEMMA DataTypesStep == ASSUME PMInv, [PMNext]_pmVars PROVE DataTypes'
<1> USE Threads, KeysOf DEF PMInv, Types, DataTypes, cache, pool, sched, running
<1>1. CASE UNCHANGED <<owned, free, releasing, target, pipe, pending, layouts, live_layouts,
                       pipelines, live_pipelines>>
  BY <1>1
<1>2. ASSUME NEW th \in PMThread,
             \/ LoaderSubmits \/ \E x \in AllTargets : Request(th, x)
             \/ \E k \in Keys : LoaderLayout(k) \/ find_layout(th)
      PROVE  DataTypes'
  BY <1>1, <1>2 DEF LoaderSubmits, Request, LoaderLayout, find_layout
<1>3. ASSUME reclaim, UNCHANGED <<target, pipe, pending, cache>> PROVE DataTypes'
  BY <1>3 DEF reclaim
<1>4. ASSUME NEW th \in PMThread, BeginFrame \/ Acquire_reclaim(th) PROVE DataTypes'
  BY <1>3, <1>4 DEF BeginFrame, Acquire_reclaim
<1>5. CASE shutdown
  <2>1. live_pipelines' \in [Keys -> Nat]
    <3>1. ASSUME NEW k \in Keys
          PROVE  live_pipelines[k] - (IF k \in DOMAIN pipelines THEN 1 ELSE 0) \in Nat
      BY DEF Counted
    <3> QED
      BY <1>5, <3>1 DEF shutdown
  <2>2. /\ layouts' \in [DOMAIN layouts' -> Layouts] /\ DOMAIN layouts' = {}
        /\ DOMAIN pipelines' = {}
    BY <1>5 DEF shutdown
  <2>3. running' = {} /\ target' \in [running' -> AllTargets] /\ pipe' = {}
    BY <1>5 DEF shutdown, Quiet
  <2> QED
    BY <1>5, <2>1, <2>2, <2>3 DEF shutdown
<1>6. ASSUME NEW th \in Requesters, try_mark_pending(th) PROVE DataTypes'
  BY <1>6 DEF try_mark_pending, ThreadTypes
<1>7. ASSUME NEW th \in Requesters, Acquire(th) PROVE DataTypes'
  <2>1. /\ owned' \in Nat /\ owned <= owned' /\ free' \subseteq free
        /\ releasing' \subseteq releasing \cup free
    BY <1>7 DEF Acquire
  <2>2. free' \subseteq 1 .. owned' /\ releasing' \subseteq 1 .. owned' /\ running \subseteq 1 .. owned'
    BY <2>1
  <2> QED
    BY <1>7, <2>1, <2>2 DEF Acquire
<1>8. ASSUME NEW th \in Requesters, Submit(th) PROVE DataTypes'
  <2>1. job[th].task \in 1 .. owned /\ job[th].target \in AllTargets
    BY <1>8 DEF Submit, Placed, ThreadTypes, Job
  <2> QED
    BY <1>8, <2>1 DEF Submit, Put
<1>9. ASSUME NEW th \in Workers \cup {Loader}, create_pipeline_layout(th) \/ publish_layout(th)
      PROVE  DataTypes'
  <2>1. pc[th] \in Making
    BY <1>9 DEF create_pipeline_layout, publish_layout, Making
  <2>2. job[th].target \in Compiled
    BY <2>1 DEF ThreadTypes, Counted, Building
  <2>3. pair(th) \in ShaderPairs /\ <<pair(th), th>> \in Layouts
    BY <2>2, PairOf
  <2>4. CASE create_pipeline_layout(th)
    BY <2>3, <2>4 DEF create_pipeline_layout
  <2>5. CASE publish_layout(th)
    BY <2>3, <2>5 DEF publish_layout, Put
  <2> QED
    BY <1>9, <2>4, <2>5
<1>10. ASSUME NEW w \in Workers, create_pipeline(w) \/ insert_pipeline_cache(w) PROVE DataTypes'
  <2>1. job[w].target \in Compiled
    BY <1>10 DEF create_pipeline, insert_pipeline_cache, Counted, Building
  <2>2. CASE create_pipeline(w)
    BY <2>1, <2>2 DEF create_pipeline
  <2>3. CASE insert_pipeline_cache(w)
    BY <2>1, <2>3 DEF insert_pipeline_cache, Put
  <2> QED
    BY <1>10, <2>2, <2>3
<1>11. ASSUME NEW w \in Workers, on_compile_task_finished(w) PROVE DataTypes'
  BY <1>11 DEF on_compile_task_finished
<1>12. ASSUME NEW w \in Workers, Release(w) PROVE DataTypes'
  BY <1>12 DEF Release, Placed
<1>13. ASSUME NEW w \in Workers, NEW t \in pipe, ExecuteRange(w, t) PROVE DataTypes'
  BY <1>13 DEF ExecuteRange
<1>14. ASSUME NEW w \in Workers, Complete(w) PROVE DataTypes'
  BY <1>14 DEF Complete, Placed
<1> QED
  BY <1>1, <1>2, <1>4, <1>5, <1>6, <1>7, <1>8, <1>9, <1>10, <1>11, <1>12, <1>13, <1>14, Steps
  DEF pmVars

-----------------------------------------------------------------------------
(* Marks and their carriers.                                               *)

\* A step that changes nobody's part in compiling a key.
LEMMA SameCarriers ==
  ASSUME PMInv, NEW th \in PMThread, UNCHANGED <<pipe, pending>>,
         \A t \in pipe : target'[t] = target[t],
         \A u \in PMThread : u # th => pc'[u] = pc[u] /\ job'[u] = job[u],
         \A k \in Keys : Carries(th, k)' <=> Carries(th, k)
  PROVE  Marks' /\ Served'
<1>1. \A u \in PMThread, k \in Keys : Carries(u, k)' <=> Carries(u, k)
  BY DEF Carries
<1>2. \A t \in pipe', k \in Keys : Queued(t, k)' <=> Queued(t, k)
  BY DEF Queued
<1>3. pending \subseteq Keys /\ Compiled \subseteq Keys
  BY KeysOf DEF PMInv, Types, DataTypes
<1>4. Marks'
  BY <1>1, <1>2, <1>3 DEF PMInv, Marks
<1>5. Served'
  BY <1>1, <1>2, <1>3 DEF PMInv, Served
<1> QED
  BY <1>4, <1>5

\* The steps that only move one thread's pc.
LEMMA SameCarriersPc ==
  ASSUME PMInv, NEW th \in PMThread, NEW s, Go(th, s), UNCHANGED <<job, pipe, target, pending>>,
         th \in Requesters => (s \in {"acquire", "take", "submit"}
                                 <=> pc[th] \in {"acquire", "take", "submit"}),
         th \in Workers => (s \in Building \cup {"finish"}
                                 <=> pc[th] \in Building \cup {"finish"})
  PROVE  Marks' /\ Served'
<1>1. pc'[th] = s /\ \A u \in PMThread : u # th => pc'[u] = pc[u]
  BY OneStep DEF PMInv
<1>2. \A k \in Keys : Carries(th, k)' <=> Carries(th, k)
  BY <1>1 DEF Carries
<1> QED
  BY <1>1, <1>2, SameCarriers

LEMMA MarksStep == ASSUME PMInv, [PMNext]_pmVars PROVE Marks' /\ Served'
<1> USE Threads, KeysOf DEF cache, pool, sched
<1>0. /\ Types /\ pending \subseteq Keys /\ pipe \subseteq running
      /\ \A th \in PMThread : job[th] \in Job
  BY DEF PMInv, Types, DataTypes, ThreadTypes
<1>1. CASE UNCHANGED <<pc, job, pipe, target, pending>>
  BY <1>1 DEF PMInv, Marks, Served, Carries, Queued
<1>2. CASE LoaderSubmits
  BY <1>2, SameCarriersPc DEF LoaderSubmits
<1>3. CASE shutdown
  <2>1. pending' = {} /\ pipe' = {} /\ UNCHANGED <<pc, job>>
    BY <1>0, <1>3 DEF shutdown, Quiet
  <2>2. \A th \in PMThread : pc[th] \in {"idle", "targets"}
    BY <1>3 DEF shutdown, Quiet
  <2>3. \A th \in PMThread, k \in Keys : ~Carries(th, k)'
    BY <2>1, <2>2 DEF Carries, Building, Making
  <2> QED
    BY <2>1, <2>3 DEF Marks, Served
<1>4. ASSUME NEW th \in Requesters, NEW x \in AllTargets, Request(th, x) PROVE Marks' /\ Served'
  <2>1. /\ pc'[th] = (IF x \in ComputeTargets THEN "acquire"
                      ELSE IF x \in DOMAIN pipelines THEN Idle(th) ELSE "mark")
        /\ \A u \in PMThread : u # th => pc'[u] = pc[u]
    BY <1>0, <1>4, OneStep DEF Request
  <2>2. job'[th].target = x /\ \A u \in PMThread : u # th => job'[u] = job[u]
    BY <1>0, <1>4 DEF Request, NoJob, Types, ThreadTypes
  <2>3. pc[th] \in {"idle", "targets"} /\ Idle(th) \in {"idle", "targets"}
    BY <1>4 DEF Request, Idle
  <2>4. \A k \in Keys : ~Carries(th, k) /\ ~Carries(th, k)'
    BY <2>1, <2>2, <2>3 DEF Carries
  <2> QED
    BY <1>4, <2>1, <2>2, <2>4, SameCarriers DEF Request
<1>5. ASSUME NEW th \in Requesters, try_mark_pending(th), job[th].target \in pending
      PROVE  Marks' /\ Served'
  <2>1. Go(th, Idle(th)) /\ Idle(th) \in {"idle", "targets"} /\ UNCHANGED <<job, pipe, target>>
    BY <1>5 DEF try_mark_pending, Idle
  <2>2. pending' = pending /\ pc[th] = "mark"
    BY <1>5 DEF try_mark_pending
  <2> QED
    BY <2>1, <2>2, SameCarriersPc
<1>6. ASSUME NEW th \in Requesters, try_mark_pending(th), job[th].target \notin pending
      PROVE  Marks' /\ Served'
  <2> PICK x \in Keys : x = job[th].target
    BY <1>6 DEF try_mark_pending, PMInv, Types, ThreadTypes
  <2>1. /\ pc[th] = "mark" /\ pc'[th] = "acquire"
        /\ \A u \in PMThread : u # th => pc'[u] = pc[u]
    BY <1>0, <1>6, OneStep DEF try_mark_pending
  <2>2. pending' = pending \cup {x} /\ UNCHANGED <<job, pipe, target>>
    BY <1>6 DEF try_mark_pending
  <2>3. \A u \in PMThread, k \in Keys : u # th => (Carries(u, k)' <=> Carries(u, k))
    BY <2>1, <2>2 DEF Carries
  <2>4. \A k \in Keys : ~Carries(th, k) /\ (Carries(th, k)' <=> k = x)
    BY <2>1, <2>2 DEF Carries
  <2>5. \A t \in pipe, k \in Keys : Queued(t, k)' <=> Queued(t, k)
    BY <2>2 DEF Queued
  <2>6. Marks'
    BY <1>6, <2>2, <2>3, <2>4, <2>5 DEF PMInv, Marks
  <2>7. Served'
    BY <1>0, <1>6, <2>2, <2>3, <2>4, <2>5 DEF PMInv, Served
  <2> QED
    BY <2>6, <2>7
<1>7. ASSUME NEW th \in Requesters, Acquire_reclaim(th) PROVE Marks' /\ Served'
  BY <1>7, SameCarriersPc DEF Acquire_reclaim
<1>8. ASSUME NEW th \in Requesters, Acquire(th) PROVE Marks' /\ Served'
  <2>1. /\ pc[th] = "take" /\ pc'[th] = "submit"
        /\ \A u \in PMThread : u # th => pc'[u] = pc[u]
    BY <1>0, <1>8, OneStep DEF Acquire
  <2>2. job'[th].target = job[th].target /\ \A u \in PMThread : u # th => job'[u] = job[u]
    BY <1>0, <1>8 DEF Acquire, Types, ThreadTypes, Job
  <2>3. \A k \in Keys : Carries(th, k)' <=> Carries(th, k)
    BY <2>1, <2>2 DEF Carries
  <2> QED
    BY <1>8, <2>1, <2>2, <2>3, SameCarriers DEF Acquire
<1>9. ASSUME NEW th \in Requesters, Submit(th) PROVE Marks' /\ Served'
  <2> PICK x, t : x = job[th].target /\ t = job[th].task
    OBVIOUS
  <2>1. /\ pc[th] = "submit" /\ pc'[th] = Idle(th) /\ Idle(th) \in {"idle", "targets"}
        /\ \A u \in PMThread : u # th => pc'[u] = pc[u]
    BY <1>0, <1>9, OneStep DEF Submit, Idle
  <2>2. \A u \in PMThread : u # th => job'[u] = job[u]
    BY <1>0, <1>9 DEF Submit, Types, ThreadTypes
  <2>3. t \notin running
    BY <2>1 DEF PMInv, Placed
  <2>4. /\ pipe' = pipe \cup {t} /\ pending' = pending /\ target'[t] = x
        /\ \A q \in pipe : target'[q] = target[q] /\ q # t
    BY <1>0, <1>9, <2>3 DEF Submit, Put, running
  <2>5. \A u \in PMThread, k \in Keys : u # th => (Carries(u, k)' <=> Carries(u, k))
    BY <2>1, <2>2 DEF Carries
  <2>6. \A k \in Keys : ~Carries(th, k)' /\ (Carries(th, k) <=> k = x)
    BY <2>1 DEF Carries
  <2>7. /\ \A q \in pipe, k \in Keys : Queued(q, k)' <=> Queued(q, k)
        /\ \A k \in Keys : Queued(t, k)' <=> k = x
    BY <2>4 DEF Queued
  <2>8. Marks'
    BY <2>4, <2>5, <2>6, <2>7 DEF PMInv, Marks
  <2>9. Served'
    BY <1>0, <2>4, <2>5, <2>6, <2>7 DEF PMInv, Served
  <2> QED
    BY <2>8, <2>9
<1>10. ASSUME NEW k \in Keys, LoaderLayout(k) PROVE Marks' /\ Served'
  <2>1. /\ pc[Loader] = "layouts" /\ pc'[Loader] \in {"layouts", "make_layout"}
        /\ \A u \in PMThread : u # Loader => pc'[u] = pc[u] /\ job'[u] = job[u]
    BY <1>0, <1>10, OneStep DEF LoaderLayout, Types, ThreadTypes
  <2>2. \A q \in Keys : ~Carries(Loader, q) /\ ~Carries(Loader, q)'
    BY <2>1 DEF Carries
  <2> QED
    BY <1>10, <2>1, <2>2, SameCarriers DEF LoaderLayout
<1>11. ASSUME NEW th \in Workers \cup {Loader}, create_pipeline_layout(th) PROVE Marks' /\ Served'
  BY <1>11, SameCarriersPc DEF create_pipeline_layout, Building, Making
<1>12. ASSUME NEW th \in Workers \cup {Loader}, NEW l, LayoutDone(th, l),
              pc[th] \in {"layout", "publish"}, UNCHANGED <<pipe, target, pending>>
       PROVE  Marks' /\ Served'
  <2>1. /\ pc'[th] = (IF th = Loader THEN "layouts" ELSE "pipeline")
        /\ \A u \in PMThread : u # th => pc'[u] = pc[u]
    BY <1>0, <1>12, OneStep DEF LayoutDone
  <2>2. /\ th # Loader => job'[th].target = job[th].target
        /\ \A u \in PMThread : u # th => job'[u] = job[u]
    BY <1>0, <1>12 DEF LayoutDone, Types, ThreadTypes, Job
  <2>3. \A k \in Keys : Carries(th, k)' <=> Carries(th, k)
    BY <1>12, <2>1, <2>2 DEF Carries, Building, Making
  <2> QED
    BY <1>12, <2>1, <2>2, <2>3, SameCarriers
<1>13. ASSUME NEW th \in Workers \cup {Loader}, publish_layout(th) PROVE Marks' /\ Served'
  BY <1>12, <1>13 DEF publish_layout
<1>14. ASSUME NEW w \in Workers, find_layout(w) PROVE Marks' /\ Served'
  <2>1. CASE pair(w) \in DOMAIN layouts
    BY <1>12, <1>14, <2>1 DEF find_layout
  <2>2. CASE pair(w) \notin DOMAIN layouts
    BY <1>14, <2>2, SameCarriersPc DEF find_layout, Building, Making
  <2> QED
    BY <2>1, <2>2
<1>15. ASSUME NEW w \in Workers, NEW t \in pipe, ExecuteRange(w, t) PROVE Marks' /\ Served'
  <2> DEFINE x == target[t]
  <2>1. /\ pc[w] = "idle" /\ pc'[w] \in {"layout", "finish"}
        /\ \A u \in PMThread : u # w => pc'[u] = pc[u]
    BY <1>0, <1>15, OneStep DEF ExecuteRange
  <2>2. job'[w].target = x /\ \A u \in PMThread : u # w => job'[u] = job[u]
    BY <1>0, <1>15 DEF ExecuteRange, NoJob, Types, ThreadTypes
  <2>3. pipe' = pipe \ {t} /\ UNCHANGED <<target, pending>>
    BY <1>15 DEF ExecuteRange
  <2>4. \A u \in PMThread, k \in Keys : u # w => (Carries(u, k)' <=> Carries(u, k))
    BY <2>1, <2>2 DEF Carries
  <2>5. \A k \in Keys : ~Carries(w, k) /\ (Carries(w, k)' <=> k = x)
    BY <2>1, <2>2 DEF Carries, Building, Making
  <2>6. /\ \A q \in pipe', k \in Keys : Queued(q, k)' <=> Queued(q, k)
        /\ \A k \in Keys : Queued(t, k) <=> k = x
    BY <2>3 DEF Queued
  <2> HIDE DEF x
  <2>7. Marks'
    BY <2>3, <2>4, <2>5, <2>6 DEF PMInv, Marks
  <2>8. Served'
    BY <1>0, <2>3, <2>4, <2>5, <2>6 DEF PMInv, Served
  <2> QED
    BY <2>7, <2>8
<1>16. ASSUME NEW w \in Workers, create_pipeline(w) \/ insert_pipeline_cache(w) \/ Release(w)
       PROVE  Marks' /\ Served'
  BY <1>16, SameCarriersPc
  DEF create_pipeline, insert_pipeline_cache, Release, Building, Making
<1>17. ASSUME NEW w \in Workers, on_compile_task_finished(w) PROVE Marks' /\ Served'
  <2> DEFINE x == job[w].target
  <2>1. /\ pc[w] = "finish" /\ pc'[w] = "release"
        /\ \A u \in PMThread : u # w => pc'[u] = pc[u]
    BY <1>0, <1>17, OneStep DEF on_compile_task_finished
  <2>2. /\ pending' = pending \ {IF x \in Keys THEN x ELSE Unresolved}
        /\ UNCHANGED <<job, pipe, target>>
    BY <1>17 DEF on_compile_task_finished
  <2>3. \A u \in PMThread, k \in Keys : u # w => (Carries(u, k)' <=> Carries(u, k))
    BY <2>1, <2>2 DEF Carries
  <2>4. \A k \in Keys : ~Carries(w, k)' /\ (Carries(w, k) <=> k = x)
    BY <2>1 DEF Carries, Building, Making
  <2>5. \A q \in pipe, k \in Keys : Queued(q, k)' <=> Queued(q, k)
    BY <2>2 DEF Queued
  <2> HIDE DEF x
  <2>6. Marks'
    BY <2>2, <2>3, <2>4, <2>5 DEF PMInv, Marks
  <2>7. Served'
    BY <1>0, <2>2, <2>3, <2>4, <2>5 DEF PMInv, Served
  <2> QED
    BY <2>6, <2>7
<1>18. ASSUME NEW w \in Workers, Complete(w) PROVE Marks' /\ Served'
  <2>1. /\ pc[w] = "return" /\ pc'[w] = "idle"
        /\ \A u \in PMThread : u # w => pc'[u] = pc[u] /\ job'[u] = job[u]
    BY <1>0, <1>18, OneStep DEF Complete, Types, ThreadTypes
  <2>2. \A t \in pipe : target'[t] = target[t]
    BY <1>0, <1>18, <2>1 DEF Complete, PMInv, Placed, running
  <2>3. \A k \in Keys : ~Carries(w, k)' /\ ~Carries(w, k)
    BY <2>1 DEF Carries, Building, Making
  <2> QED
    BY <1>18, <2>1, <2>2, <2>3, SameCarriers DEF Complete
<1> QED
  BY <1>1, <1>2, <1>3, <1>4, <1>5, <1>6, <1>7, <1>8, <1>9, <1>10, <1>11, <1>13, <1>14, <1>15,
     <1>16, <1>17, <1>18, Steps DEF pmVars, BeginFrame

-----------------------------------------------------------------------------
(* How many pipelines the device holds.                                    *)

\* A step that makes no pipeline and moves no worker to or from the insertion.
LEMMA SameCount ==
  ASSUME PMInv, UNCHANGED <<pipelines, live_pipelines>>,
         \A w \in Workers : pc'[w] \in Building => job'[w].target \in Compiled \ DOMAIN pipelines,
         \A w \in Workers : "insert" \in {pc[w], pc'[w]} =>
             pc'[w] = pc[w] /\ job'[w].target = job[w].target
  PROVE  Counted'
<1>1. \A k \in Keys : Inserting(k)' <=> Inserting(k)
  BY DEF Inserting
<1> QED
  BY <1>1 DEF PMInv, Counted

LEMMA SameWorkers ==
  ASSUME PMInv, UNCHANGED <<pipelines, live_pipelines>>,
         \A w \in Workers : pc'[w] = pc[w] /\ job'[w] = job[w]
  PROVE  Counted'
BY SameCount DEF PMInv, Counted

\* A worker at a key: no other one builds it.
LEMMA OneBuilder ==
  ASSUME PMInv, NEW w \in Workers, pc[w] \in Building, NEW u \in Workers, pc[u] \in Building,
         job[u].target = job[w].target
  PROVE  u = w
<1>1. job[w].target \in Compiled
  BY DEF PMInv, Counted
<1>2. Carries(w, job[w].target) /\ Carries(u, job[w].target)
  BY DEF Carries
<1> QED
  BY <1>1, <1>2, Threads DEF PMInv, Marks

LEMMA CountedStep == ASSUME PMInv, [PMNext]_pmVars PROVE Counted'
<1> USE Threads, KeysOf DEF cache, pool, sched
<1>0. /\ Types /\ live_pipelines \in [Keys -> Nat] /\ \A th \in PMThread : job[th] \in Job
      /\ \A w \in Workers : pc[w] \in Building => job[w].target \in Compiled \ DOMAIN pipelines
      /\ \A k \in Keys : live_pipelines[k] = IF k \in DOMAIN pipelines \/ Inserting(k) THEN 1 ELSE 0
  BY DEF PMInv, Types, DataTypes, ThreadTypes, Counted
<1>1. CASE UNCHANGED <<pc, job, pipelines, live_pipelines>>
  BY <1>1, SameWorkers
<1>2. CASE LoaderSubmits
  BY <1>0, <1>2, OneStep, SameWorkers DEF LoaderSubmits
<1>3. CASE shutdown
  <2>1. /\ \A w \in Workers : pc[w] = "idle" /\ pc'[w] = "idle"
        /\ DOMAIN pipelines' = {}
        /\ \A k \in Keys : live_pipelines'[k] = live_pipelines[k]
                             - (IF k \in DOMAIN pipelines THEN 1 ELSE 0)
    BY <1>3 DEF shutdown, Quiet
  <2>2. \A k \in Keys : ~Inserting(k) /\ ~Inserting(k)'
    BY <2>1 DEF Inserting
  <2>3. \A k \in Keys : live_pipelines'[k] = 0
    BY <1>0, <2>1, <2>2
  <2> QED
    BY <2>1, <2>2, <2>3 DEF Counted, Building, Making
<1>4. ASSUME NEW th \in Requesters,
             \/ \E x \in AllTargets : Request(th, x)
             \/ try_mark_pending(th) \/ Acquire_reclaim(th) \/ Acquire(th) \/ Submit(th)
      PROVE  Counted'
  <2>1. \A u \in PMThread : u # th => pc'[u] = pc[u]
    BY <1>0, <1>4, OneStep DEF Request, try_mark_pending, Acquire_reclaim, Acquire, Submit
  <2>2. \A u \in PMThread : u # th => job'[u] = job[u]
    BY <1>0, <1>4 DEF Request, try_mark_pending, Acquire_reclaim, Acquire, Submit, Types, ThreadTypes
  <2>3. UNCHANGED <<pipelines, live_pipelines>>
    BY <1>4 DEF Request, try_mark_pending, Acquire_reclaim, Acquire, Submit
  <2> QED
    BY <2>1, <2>2, <2>3, SameWorkers
<1>5. ASSUME NEW k \in Keys, LoaderLayout(k) PROVE Counted'
  <2>1. \A u \in PMThread : u # Loader => pc'[u] = pc[u] /\ job'[u] = job[u]
    BY <1>0, <1>5, OneStep DEF LoaderLayout, Types, ThreadTypes
  <2> QED
    BY <1>5, <2>1, SameWorkers DEF LoaderLayout
<1>6. ASSUME NEW th \in Workers \cup {Loader}, NEW s \in Building \cup {"layouts", "finish", "release", "return"},
             Go(th, s), th \in Workers /\ s \in Building => pc[th] \in Building,
             th \in Workers => job'[th].target = job[th].target,
             \A u \in PMThread : u # th => job'[u] = job[u],
             "insert" \notin {pc[th], s}, UNCHANGED <<pipelines, live_pipelines>>
      PROVE  Counted'
  <2>1. pc'[th] = s /\ \A u \in PMThread : u # th => pc'[u] = pc[u]
    BY <1>0, <1>6, OneStep
  <2> QED
    BY <1>0, <1>6, <2>1, SameCount
<1>7. ASSUME NEW th \in Workers \cup {Loader}, create_pipeline_layout(th) PROVE Counted'
  BY <1>6, <1>7 DEF create_pipeline_layout, Building, Making
<1>8. ASSUME NEW th \in Workers \cup {Loader}, NEW l, LayoutDone(th, l),
             pc[th] \in {"layout", "publish"}, UNCHANGED <<pipelines, live_pipelines>>
      PROVE  Counted'
  <2>1. /\ th # Loader => job'[th].target = job[th].target
        /\ \A u \in PMThread : u # th => job'[u] = job[u]
    BY <1>0, <1>8 DEF LayoutDone, Types, ThreadTypes, Job
  <2>2. CASE th = Loader
    BY <1>6, <1>8, <2>1, <2>2 DEF LayoutDone, Building, Making
  <2>3. CASE th # Loader
    BY <1>6, <1>8, <2>1, <2>3 DEF LayoutDone, Building, Making
  <2> QED
    BY <2>2, <2>3
<1>9. ASSUME NEW th \in Workers \cup {Loader}, publish_layout(th) PROVE Counted'
  BY <1>8, <1>9 DEF publish_layout
<1>10. ASSUME NEW w \in Workers, find_layout(w) PROVE Counted'
  <2>1. CASE pair(w) \in DOMAIN layouts
    BY <1>8, <1>10, <2>1 DEF find_layout
  <2>2. CASE pair(w) \notin DOMAIN layouts
    BY <1>6, <1>10, <2>2 DEF find_layout, Building, Making
  <2> QED
    BY <2>1, <2>2
<1>11. ASSUME NEW w \in Workers, NEW t \in pipe, ExecuteRange(w, t) PROVE Counted'
  <2>1. /\ pc[w] = "idle" /\ \A u \in PMThread : u # w => pc'[u] = pc[u]
        /\ pc'[w] = IF NeedsPipeline(target[t]) THEN "layout" ELSE "finish"
    BY <1>0, <1>11, OneStep DEF ExecuteRange
  <2>2. job'[w].target = target[t] /\ \A u \in PMThread : u # w => job'[u] = job[u]
    BY <1>0, <1>11 DEF ExecuteRange, NoJob, Types, ThreadTypes
  <2>3. pc'[w] \in Building => job'[w].target \in Compiled \ DOMAIN pipelines
    BY <2>1, <2>2 DEF NeedsPipeline, Building, Making
  <2> QED
    BY <1>0, <1>11, <2>1, <2>2, <2>3, SameCount DEF ExecuteRange
<1>12. ASSUME NEW w \in Workers, create_pipeline(w) PROVE Counted'
  <2> PICK x : x = job[w].target
    OBVIOUS
  <2>1. /\ pc[w] = "pipeline" /\ pc'[w] = "insert" /\ UNCHANGED <<pipelines, job>>
        /\ \A u \in PMThread : u # w => pc'[u] = pc[u]
    BY <1>0, <1>12, OneStep DEF create_pipeline
  <2>2. x \in Compiled \ DOMAIN pipelines /\ live_pipelines' = [live_pipelines EXCEPT ![x] = @ + 1]
    BY <1>0, <1>12, <2>1 DEF create_pipeline, Building
  <2>3. ~Inserting(x) /\ Inserting(x)'
    <3>1. SUFFICES ASSUME NEW u \in Workers, pc[u] = "insert", job[u].target = x PROVE FALSE
      BY <2>1 DEF Inserting
    <3>2. u = w
      BY <2>1, <3>1, OneBuilder DEF Building
    <3> QED
      BY <2>1, <3>1, <3>2
  <2>4. \A k \in Keys \ {x} : Inserting(k)' <=> Inserting(k)
    BY <2>1 DEF Inserting
  <2>5. \A k \in Keys : live_pipelines'[k] =
            IF k \in DOMAIN pipelines' \/ Inserting(k)' THEN 1 ELSE 0
    BY <1>0, <2>1, <2>2, <2>3, <2>4
  <2>6. \A u \in Workers : pc'[u] \in Building => job'[u].target \in Compiled \ DOMAIN pipelines'
    BY <1>0, <2>1, <2>2
  <2> QED
    BY <2>5, <2>6 DEF Counted
<1>13. ASSUME NEW w \in Workers, insert_pipeline_cache(w) PROVE Counted'
  <2> PICK x : x = job[w].target
    OBVIOUS
  <2>1. /\ pc[w] = "insert" /\ pc'[w] = "finish" /\ UNCHANGED <<job, live_pipelines>>
        /\ \A u \in PMThread : u # w => pc'[u] = pc[u]
    BY <1>0, <1>13, OneStep DEF insert_pipeline_cache
  <2>2. x \in Compiled \ DOMAIN pipelines
    BY <1>0, <2>1 DEF Building
  <2>3. DOMAIN pipelines' = DOMAIN pipelines \cup {x}
    BY <1>13, <2>2 DEF insert_pipeline_cache, Put
  <2>4. Inserting(x) /\ \A k \in Keys \ {x} : Inserting(k)' <=> Inserting(k)
    BY <2>1 DEF Inserting
  <2>5. \A k \in Keys : live_pipelines'[k] =
            IF k \in DOMAIN pipelines' \/ Inserting(k)' THEN 1 ELSE 0
    BY <1>0, <2>1, <2>2, <2>3, <2>4
  <2>6. ASSUME NEW u \in Workers, pc'[u] \in Building
        PROVE  job'[u].target \in Compiled \ DOMAIN pipelines'
    <3>1. u # w /\ pc[u] \in Building
      BY <2>1, <2>6 DEF Building, Making
    <3>2. job[u].target # x
      BY <2>1, <3>1, OneBuilder DEF Building
    <3> QED
      BY <1>0, <2>1, <2>3, <3>1, <3>2
  <2> QED
    BY <2>5, <2>6 DEF Counted
<1>14. ASSUME NEW w \in Workers, on_compile_task_finished(w) \/ Release(w) PROVE Counted'
  BY <1>6, <1>14 DEF on_compile_task_finished, Release, Building, Making
<1>15. ASSUME NEW w \in Workers, Complete(w) PROVE Counted'
  <2>1. /\ pc[w] = "return" /\ pc'[w] = "idle"
        /\ \A u \in PMThread : u # w => pc'[u] = pc[u] /\ job'[u] = job[u]
    BY <1>0, <1>15, OneStep DEF Complete, Types, ThreadTypes
  <2> QED
    BY <1>0, <1>15, <2>1, SameCount DEF Complete, Building, Making
<1> QED
  BY <1>1, <1>2, <1>3, <1>4, <1>5, <1>7, <1>9, <1>10, <1>11, <1>12, <1>13, <1>14, <1>15, Steps
  DEF pmVars, BeginFrame

-----------------------------------------------------------------------------
(* Layouts.                                                                *)

\* A step of one thread that leaves the caches and the device's layouts alone.
LEMMA SameLayers ==
  ASSUME PMInv, UNCHANGED <<pipelines, layouts, live_layouts>>, NEW th \in PMThread,
         \A u \in PMThread : u # th => pc'[u] = pc[u] /\ job'[u] = job[u],
         "publish" \notin {pc[th], pc'[th]},
         pc'[th] \in Making => pair(th)' \notin DOMAIN layouts,
         th \in Workers /\ pc'[th] \in {"pipeline", "insert"} =>
             pair(th)' \in DOMAIN layouts /\ job'[th].layout = layouts[pair(th)']
  PROVE  Layered'
<1>1. \A u \in PMThread : u # th => pair(u)' = pair(u)
  BY DEF pair
<1>2. \A l \in live_layouts : l[2] \in PMThread
  BY DEF PMInv, Types, DataTypes, Layouts
<1>3. \A u \in PMThread : pc'[u] \in Making /\ pair(u)' \in DOMAIN layouts =>
          layouts[pair(u)'] # <<pair(u)', u>>
  BY <1>1 DEF PMInv, Layered
<1>4. \A w \in Workers : pc'[w] \in {"pipeline", "insert"} =>
          pair(w)' \in DOMAIN layouts /\ job'[w].layout = layouts[pair(w)']
  BY <1>1, Threads DEF PMInv, Layered
<1>5. \A l \in live_layouts :
           \/ l[1] \in DOMAIN layouts /\ layouts[l[1]] = l
           \/ pc'[l[2]] = "publish" /\ pair(l[2])' = l[1]
  BY <1>1, <1>2 DEF PMInv, Layered
<1>6. \A u \in PMThread : pc'[u] = "publish" => <<pair(u)', u>> \in live_layouts
  BY <1>1 DEF PMInv, Layered
<1> QED
  BY <1>3, <1>4, <1>5, <1>6 DEF PMInv, Layered

LEMMA LayeredStep == ASSUME PMInv, [PMNext]_pmVars PROVE Layered'
<1> USE Threads, KeysOf DEF cache, pool, sched
<1>0. /\ Types /\ Layered /\ \A th \in PMThread : job[th] \in Job
      /\ DOMAIN layouts \subseteq ShaderPairs /\ live_layouts \subseteq Layouts
      /\ pc \in [PMThread -> AnyPc] /\ job \in [PMThread -> Job]
  BY DEF PMInv, Types, DataTypes, ThreadTypes
<1>1. CASE UNCHANGED <<pc, job, pipelines, layouts, live_layouts>>
  BY <1>0, <1>1 DEF Layered, pair
<1>2. CASE LoaderSubmits
  <2>1. pc[Loader] = "layouts" /\ pc'[Loader] = "targets" /\ \A u \in PMThread : u # Loader => pc'[u] = pc[u]
    BY <1>0, <1>2, OneStep DEF LoaderSubmits
  <2> QED
    BY <1>2, <2>1, SameLayers DEF LoaderSubmits, Making
<1>3. CASE shutdown
  <2>1. /\ UNCHANGED <<pc, job>> /\ DOMAIN layouts' = {} /\ DOMAIN pipelines' = {}
        /\ live_layouts' = live_layouts \ {layouts[p] : p \in DOMAIN layouts}
        /\ \A th \in PMThread : pc[th] \in {"idle", "targets"}
    BY <1>3 DEF shutdown, Quiet
  <2>2. live_layouts' = {}
    <3>1. \A l \in live_layouts : l[2] \in PMThread
      BY <1>0 DEF Layouts
    <3>2. \A l \in live_layouts : l[1] \in DOMAIN layouts /\ layouts[l[1]] = l
      BY <1>0, <2>1, <3>1 DEF Layered
    <3> QED
      BY <2>1, <3>2
  <2> QED
    BY <2>1, <2>2 DEF Layered, Making
<1>4. ASSUME NEW th \in Requesters,
             \/ \E x \in AllTargets : Request(th, x)
             \/ try_mark_pending(th) \/ Acquire_reclaim(th) \/ Acquire(th) \/ Submit(th)
      PROVE  Layered'
  <2>1. PICK s \in RequesterPc \cup {"idle", "targets"} : Go(th, s)
    BY <1>4 DEF Request, try_mark_pending, Acquire_reclaim, Acquire, Submit, RequesterPc, Idle
  <2>2. pc'[th] = s /\ \A u \in PMThread : u # th => pc'[u] = pc[u]
    BY <1>0, <2>1, OneStep
  <2>3. \A u \in PMThread : u # th => job'[u] = job[u]
    BY <1>0, <1>4 DEF Request, try_mark_pending, Acquire_reclaim, Acquire, Submit
  <2>4. UNCHANGED <<pipelines, layouts, live_layouts>> /\ pc[th] # "publish"
    BY <1>4 DEF Request, try_mark_pending, Acquire_reclaim, Acquire, Submit, Idle
  <2>5. s \notin Making /\ s # "publish" /\ th \notin Workers
    BY <2>1 DEF RequesterPc, Making
  <2> QED
    BY <2>2, <2>3, <2>4, <2>5, SameLayers
<1>5. ASSUME NEW k \in Keys, LoaderLayout(k) PROVE Layered'
  <2>1. CASE UNCHANGED <<pc, job>>
    BY <1>1, <1>5, <2>1 DEF LoaderLayout
  <2>2. CASE /\ Shaders[k] \notin DOMAIN layouts
             /\ job' = [job EXCEPT ![Loader].target = k] /\ Go(Loader, "make_layout")
    <3>1. pc'[Loader] = "make_layout" /\ \A u \in PMThread : u # Loader => pc'[u] = pc[u]
      BY <1>0, <2>2, OneStep
    <3>2. job'[Loader].target = k /\ \A u \in PMThread : u # Loader => job'[u] = job[u]
      BY <1>0, <2>2 DEF Job
    <3>3. pair(Loader)' \notin DOMAIN layouts
      BY <2>2, <3>2 DEF pair
    <3> QED
      BY <1>5, <3>1, <3>2, <3>3, SameLayers DEF LoaderLayout
  <2> QED
    BY <1>5, <2>1, <2>2 DEF LoaderLayout
<1>6. ASSUME NEW th \in Workers \cup {Loader}, create_pipeline_layout(th) PROVE Layered'
  <2>1. /\ pc[th] = "make_layout" /\ pc'[th] = "publish" /\ UNCHANGED <<job, layouts, pipelines>>
        /\ \A u \in PMThread : u # th => pc'[u] = pc[u]
        /\ live_layouts' = live_layouts \cup {<<pair(th), th>>}
    BY <1>0, <1>6, OneStep DEF create_pipeline_layout
  <2>2. \A u : pair(u)' = pair(u)
    BY <2>1 DEF pair
  <2>3. \A l \in live_layouts : l[2] \in PMThread
    BY <1>0 DEF Layouts
  <2>4. \A l \in live_layouts' :
           \/ l[1] \in DOMAIN layouts /\ layouts[l[1]] = l
           \/ pc'[l[2]] = "publish" /\ pair(l[2]) = l[1]
    <3>1. \A l \in live_layouts :
             \/ l[1] \in DOMAIN layouts /\ layouts[l[1]] = l
             \/ pc'[l[2]] = "publish" /\ pair(l[2]) = l[1]
      BY <1>0, <2>1, <2>3 DEF Layered
    <3>2. <<pair(th), th>>[1] = pair(th) /\ <<pair(th), th>>[2] = th
      OBVIOUS
    <3> QED
      BY <2>1, <3>1, <3>2
  <2>5. \A u \in PMThread : pc'[u] \in Making /\ pair(u) \in DOMAIN layouts =>
            layouts[pair(u)] # <<pair(u), u>>
    BY <1>0, <2>1 DEF Layered, Making
  <2>6. \A w \in Workers : pc'[w] \in {"pipeline", "insert"} =>
            pair(w) \in DOMAIN layouts /\ job[w].layout = layouts[pair(w)]
    BY <1>0, <2>1 DEF Layered
  <2>7. \A u \in PMThread : pc'[u] = "publish" => <<pair(u), u>> \in live_layouts'
    BY <1>0, <2>1 DEF Layered
  <2>8. /\ \A p \in DOMAIN layouts : layouts[p] \in live_layouts' /\ layouts[p][1] = p
        /\ \A k \in DOMAIN pipelines :
               Shaders[k] \in DOMAIN layouts /\ pipelines[k] = layouts[Shaders[k]]
    BY <1>0, <2>1 DEF Layered
  <2> QED
    BY <2>1, <2>2, <2>4, <2>5, <2>6, <2>7, <2>8 DEF Layered
<1>7. ASSUME NEW th \in Workers \cup {Loader}, NEW l, LayoutDone(th, l)
      PROVE  /\ pc'[th] = (IF th = Loader THEN "layouts" ELSE "pipeline")
             /\ \A u \in PMThread : u # th => pc'[u] = pc[u] /\ job'[u] = job[u]
             /\ th # Loader => pair(th)' = pair(th) /\ job'[th].layout = l
  <2>1. /\ pc'[th] = (IF th = Loader THEN "layouts" ELSE "pipeline")
        /\ \A u \in PMThread : u # th => pc'[u] = pc[u]
    BY <1>0, <1>7, OneStep DEF LayoutDone
  <2>2. /\ th # Loader => job'[th].target = job[th].target /\ job'[th].layout = l
        /\ \A u \in PMThread : u # th => job'[u] = job[u]
    BY <1>0, <1>7 DEF LayoutDone, Job
  <2> QED
    BY <2>1, <2>2 DEF pair
<1>8. ASSUME NEW w \in Workers, find_layout(w) PROVE Layered'
  <2>1. CASE pair(w) \in DOMAIN layouts
    BY <1>7, <1>8, <2>1, SameLayers DEF find_layout, Making
  <2>2. CASE pair(w) \notin DOMAIN layouts
    <3>1. pc'[w] = "make_layout" /\ \A u \in PMThread : u # w => pc'[u] = pc[u]
      BY <1>0, <1>8, <2>2, OneStep DEF find_layout
    <3>2. pair(w)' = pair(w)
      BY <1>8, <2>2 DEF find_layout, pair
    <3> QED
      BY <1>8, <2>2, <3>1, <3>2, SameLayers DEF find_layout
  <2> QED
    BY <2>1, <2>2
<1>9. ASSUME NEW th \in Workers \cup {Loader}, publish_layout(th) PROVE Layered'
  <2> PICK l : l = <<pair(th), th>>
    OBVIOUS
  <2> PICK p : p = pair(th)
    OBVIOUS
  <2>1. /\ pc[th] = "publish" /\ UNCHANGED pipelines /\ l[1] = p /\ l[2] = th
        /\ p \in DOMAIN layouts' /\ p \in ShaderPairs
    <3>1. job[th].target \in Compiled
      BY <1>9 DEF publish_layout, PMInv, Types, ThreadTypes, Counted, Making, Building
    <3> QED
      BY <1>0, <1>9, <3>1, PairOf DEF publish_layout, Put
  <2>2. LayoutDone(th, layouts'[p])
    BY <1>9 DEF publish_layout
  <2>3. /\ pc'[th] = (IF th = Loader THEN "layouts" ELSE "pipeline")
        /\ \A u \in PMThread : u # th => pc'[u] = pc[u] /\ job'[u] = job[u]
        /\ th # Loader => pair(th)' = p /\ job'[th].layout = layouts'[p]
    BY <1>7, <2>2
  <2>4. \A u \in PMThread : u # th => pair(u)' = pair(u)
    BY <2>3 DEF pair
  <2>5. /\ \A q \in DOMAIN layouts : q \in DOMAIN layouts' /\ layouts'[q] = layouts[q]
        /\ \A q \in DOMAIN layouts' : q \in DOMAIN layouts \/ (q = p /\ layouts'[p] = l)
        /\ \A q \in DOMAIN layouts' : layouts'[q] \in live_layouts' /\ layouts'[q][1] = q
        /\ \A m \in live_layouts' : m \in live_layouts /\ (m = l => layouts'[p] = l)
    <3>1. CASE p \in DOMAIN layouts
      <4>1. layouts' = layouts /\ live_layouts' = live_layouts \ {l}
        BY <1>9, <3>1 DEF publish_layout
      <4>2. layouts[p] # l
        BY <1>0, <2>1, <3>1 DEF Layered, Making
      <4>3. \A q \in DOMAIN layouts : layouts[q] # l
        BY <1>0, <2>1, <4>2 DEF Layered
      <4> QED
        BY <1>0, <4>1, <4>3, <3>1 DEF Layered
    <3>2. CASE p \notin DOMAIN layouts
      <4>1. live_layouts' = live_layouts /\ layouts' = Put(layouts, p, l)
        BY <1>9, <3>2 DEF publish_layout
      <4>2. l \in live_layouts
        BY <1>0, <2>1 DEF Layered
      <4> QED
        BY <1>0, <2>1, <3>2, <4>1, <4>2 DEF Layered, Put
    <3> QED
      BY <3>1, <3>2
  <2>6. \A m \in live_layouts' :
           \/ m[1] \in DOMAIN layouts' /\ layouts'[m[1]] = m
           \/ pc'[m[2]] = "publish" /\ pair(m[2])' = m[1]
    <3> SUFFICES ASSUME NEW m \in live_layouts', m # l
                 PROVE  \/ m[1] \in DOMAIN layouts' /\ layouts'[m[1]] = m
                        \/ pc'[m[2]] = "publish" /\ pair(m[2])' = m[1]
      BY <2>1, <2>5
    <3>1. m \in Layouts /\ m \in live_layouts
      BY <1>0, <2>5
    <3>2. m = <<m[1], m[2]>> /\ m[2] \in PMThread
      BY <3>1 DEF Layouts
    <3>3. CASE m[1] \in DOMAIN layouts /\ layouts[m[1]] = m
      BY <2>5, <3>3
    <3>4. CASE pc[m[2]] = "publish" /\ pair(m[2]) = m[1]
      <4>1. m[2] # th
        BY <3>2, <3>4
      <4> QED
        BY <2>3, <2>4, <3>2, <3>4, <4>1
    <3> QED
      BY <1>0, <3>1, <3>3, <3>4 DEF Layered
  <2>7. \A u \in PMThread : pc'[u] \in Making /\ pair(u)' \in DOMAIN layouts' =>
            layouts'[pair(u)'] # <<pair(u)', u>>
    BY <1>0, <2>1, <2>3, <2>4, <2>5 DEF Layered, Making
  <2>8. \A k \in DOMAIN pipelines :
            Shaders[k] \in DOMAIN layouts' /\ pipelines[k] = layouts'[Shaders[k]]
    BY <1>0, <2>5 DEF Layered
  <2>9. \A w \in Workers : pc'[w] \in {"pipeline", "insert"} =>
            pair(w)' \in DOMAIN layouts' /\ job'[w].layout = layouts'[pair(w)']
    BY <1>0, <2>1, <2>3, <2>4, <2>5 DEF Layered
  <2>10. \A u \in PMThread : pc'[u] = "publish" => <<pair(u)', u>> \in live_layouts'
    <3> SUFFICES ASSUME NEW u \in PMThread, pc'[u] = "publish"
                 PROVE  <<pair(u), u>> \in live_layouts'
      BY <2>3, <2>4
    <3>1. u # th /\ <<pair(u), u>> \in live_layouts
      BY <1>0, <2>3 DEF Layered
    <3>2. <<pair(u), u>> # l
      BY <2>1, <3>1
    <3> QED
      BY <1>9, <3>1, <3>2 DEF publish_layout
  <2> QED
    BY <2>1, <2>5, <2>6, <2>7, <2>8, <2>9, <2>10 DEF Layered
<1>10. ASSUME NEW w \in Workers, NEW s, NEW j \in Job, pc[w] # "publish",
              s \notin Making \cup {"pipeline", "insert"},
              Go(w, s), job' = [job EXCEPT ![w] = j], UNCHANGED <<pipelines, layouts, live_layouts>>
       PROVE  Layered'
  <2>1. /\ pc'[w] = s /\ \A u \in PMThread : u # w => pc'[u] = pc[u] /\ job'[u] = job[u]
        /\ "publish" \notin {pc[w], pc'[w]}
    BY <1>0, <1>10, OneStep DEF Making
  <2> QED
    BY <1>10, <2>1, SameLayers
<1>11. ASSUME NEW w \in Workers, NEW t \in pipe, ExecuteRange(w, t) PROVE Layered'
  <2> DEFINE j == [NoJob EXCEPT !.target = target[t], !.task = t]
  <2>1. target[t] \in AllTargets /\ t \in Nat
    BY DEF PMInv, Types, DataTypes
  <2>2. j \in Job
    BY <2>1 DEF NoJob, Job
  <2>3. PICK s \in {"layout", "finish"} : Go(w, s)
    BY <1>11 DEF ExecuteRange
  <2>4. job' = [job EXCEPT ![w] = j] /\ pc[w] = "idle" /\ UNCHANGED <<pipelines, layouts, live_layouts>>
    BY <1>11 DEF ExecuteRange
  <2> HIDE DEF j
  <2> QED
    BY <1>10, <2>2, <2>3, <2>4 DEF Making
<1>12. ASSUME NEW w \in Workers, on_compile_task_finished(w) \/ Release(w) PROVE Layered'
  <2>1. PICK s \in {"release", "return"} : Go(w, s)
    BY <1>12 DEF on_compile_task_finished, Release
  <2>2. pc'[w] = s /\ UNCHANGED job /\ \A u \in PMThread : u # w => pc'[u] = pc[u]
    BY <1>0, <1>12, <2>1, OneStep DEF on_compile_task_finished, Release
  <2>3. /\ UNCHANGED <<pipelines, layouts, live_layouts>> /\ "publish" \notin {pc[w], pc'[w]}
        /\ pc'[w] \notin Making \cup {"pipeline", "insert"}
    BY <1>12, <2>2 DEF on_compile_task_finished, Release, Making
  <2> QED
    BY <2>2, <2>3, SameLayers
<1>13. ASSUME NEW w \in Workers, Complete(w) PROVE Layered'
  BY <1>10, <1>13 DEF Complete, Making
<1>14. ASSUME NEW w \in Workers, create_pipeline(w) PROVE Layered'
  <2>1. pc[w] = "pipeline" /\ pc'[w] = "insert" /\ \A u \in PMThread : u # w => pc'[u] = pc[u]
    BY <1>0, <1>14, OneStep DEF create_pipeline
  <2>2. UNCHANGED <<job, pipelines, layouts, live_layouts>>
    BY <1>14 DEF create_pipeline
  <2>3. pair(w)' = pair(w) /\ pair(w) \in DOMAIN layouts /\ job[w].layout = layouts[pair(w)]
    BY <1>0, <2>1, <2>2 DEF Layered, pair
  <2> QED
    BY <2>1, <2>2, <2>3, SameLayers DEF Making
<1>15. ASSUME NEW w \in Workers, insert_pipeline_cache(w) PROVE Layered'
  <2>1. pc[w] = "insert" /\ pc'[w] = "finish" /\ \A u \in PMThread : u # w => pc'[u] = pc[u]
    BY <1>0, <1>15, OneStep DEF insert_pipeline_cache
  <2>2. UNCHANGED <<job, layouts, live_layouts>>
    BY <1>15 DEF insert_pipeline_cache
  <2>3. \A u : pair(u)' = pair(u)
    BY <2>2 DEF pair
  <2>4. pair(w) \in DOMAIN layouts /\ job[w].layout = layouts[pair(w)]
    BY <1>0, <2>1 DEF Layered
  <2>5. \A k \in DOMAIN pipelines' :
            Shaders[k] \in DOMAIN layouts /\ pipelines'[k] = layouts[Shaders[k]]
    BY <1>0, <1>15, <2>4 DEF insert_pipeline_cache, Put, pair, Layered
  <2>6. \A l \in live_layouts : l[2] \in PMThread
    BY <1>0 DEF Layouts
  <2>7. \A l \in live_layouts :
           \/ l[1] \in DOMAIN layouts /\ layouts[l[1]] = l
           \/ pc'[l[2]] = "publish" /\ pair(l[2]) = l[1]
    BY <1>0, <2>1, <2>6 DEF Layered
  <2>8. /\ \A u \in PMThread : pc'[u] \in Making => pc[u] = pc'[u]
        /\ \A u \in Workers : pc'[u] \in {"pipeline", "insert"} => pc[u] = pc'[u]
    BY <2>1 DEF Making
  <2>9. /\ \A p \in DOMAIN layouts : layouts[p] \in live_layouts /\ layouts[p][1] = p
        /\ \A u \in PMThread : pc'[u] \in Making /\ pair(u) \in DOMAIN layouts =>
               layouts[pair(u)] # <<pair(u), u>>
        /\ \A u \in PMThread : pc'[u] = "publish" => <<pair(u), u>> \in live_layouts
        /\ \A u \in Workers : pc'[u] \in {"pipeline", "insert"} =>
               pair(u) \in DOMAIN layouts /\ job[u].layout = layouts[pair(u)]
    BY <1>0, <2>1, <2>8 DEF Layered
  <2> QED
    BY <2>2, <2>3, <2>5, <2>7, <2>9 DEF Layered
<1> QED
  BY <1>1, <1>2, <1>3, <1>4, <1>5, <1>6, <1>8, <1>9, <1>11, <1>12, <1>13, <1>14, <1>15, Steps
  DEF pmVars, BeginFrame

-----------------------------------------------------------------------------
(* Places of the task objects.                                             *)

\* A step of one thread that passes no task object on.
LEMMA SamePlaces ==
  ASSUME PMInv, UNCHANGED <<owned, free, releasing, pipe, running>>, NEW th \in PMThread,
         \A u \in PMThread : u # th => pc'[u] = pc[u] /\ job'[u] = job[u],
         th \in Requesters => "submit" \notin {pc[th], pc'[th]},
         th \in Workers => /\ "idle" \notin {pc[th], pc'[th]} /\ job'[th].task = job[th].task
                           /\ pc'[th] = "return" <=> pc[th] = "return"
  PROVE  Placed'
<1> USE Threads
<1>1. \A u, t : (Holds(u, t)' <=> Holds(u, t)) /\ (Runs(u, t)' <=> Runs(u, t))
  BY DEF Holds, Runs
<1>2. \A u \in Requesters : pc'[u] = "submit" => pc[u] = "submit" /\ job'[u] = job[u]
  OBVIOUS
<1>3. \A u \in Workers : /\ pc'[u] # "idle" => pc[u] # "idle" /\ job'[u].task = job[u].task
                         /\ pc'[u] = "return" <=> pc[u] = "return"
  OBVIOUS
<1> QED
  BY <1>1, <1>2, <1>3 DEF PMInv, Placed

LEMMA Reclaimed ==
  ASSUME PMInv, reclaim, UNCHANGED <<target, pipe, job>>,
         \A th \in Requesters : pc'[th] = "submit" <=> pc[th] = "submit",
         \A w \in Workers : pc'[w] = pc[w]
  PROVE  Placed'
<1> USE DEF PMInv, Placed, reclaim, GetIsComplete, running
<1>1. \A u, t : (Holds(u, t)' <=> Holds(u, t)) /\ (Runs(u, t)' <=> Runs(u, t))
  BY DEF Holds, Runs
<1>2. free' \cup releasing' = free \cup releasing /\ free' \cap releasing' = {}
  OBVIOUS
<1>3. \A w \in Workers : pc[w] # "idle" => (job[w].task \in releasing' <=> job[w].task \in releasing)
  OBVIOUS
<1> QED
  BY <1>1, <1>2, <1>3

LEMMA PlacedStep == ASSUME PMInv, [PMNext]_pmVars PROVE Placed'
<1> USE Threads, KeysOf DEF cache, pool, sched
<1>0. /\ Types /\ Placed /\ \A th \in PMThread : job[th] \in Job
      /\ owned \in Nat /\ free \subseteq 1 .. owned /\ releasing \subseteq 1 .. owned
      /\ running \subseteq 1 .. owned /\ pipe \subseteq running
      /\ job \in [PMThread -> Job]
  BY DEF PMInv, Types, DataTypes, ThreadTypes
<1>1. CASE UNCHANGED <<pc, job, owned, free, releasing, pipe, target>>
  BY <1>0, <1>1 DEF Placed, Holds, Runs, running
<1>2. ASSUME NEW th \in Requesters, NEW s \in AnyPc \ {"submit"}, Go(th, s), pc[th] # "submit",
             \A u \in PMThread : u # th => job'[u] = job[u],
             UNCHANGED <<owned, free, releasing, pipe, target>>
      PROVE  Placed'
  <2>1. pc'[th] = s /\ \A u \in PMThread : u # th => pc'[u] = pc[u]
    BY <1>0, <1>2, OneStep
  <2>2. running' = running
    BY <1>2 DEF running
  <2> QED
    BY <1>2, <2>1, <2>2, SamePlaces
<1>3. ASSUME NEW th \in Requesters,
             \/ LoaderSubmits /\ th = Loader
             \/ \E k \in Keys : LoaderLayout(k) /\ th = Loader
             \/ \E x \in AllTargets : Request(th, x)
             \/ try_mark_pending(th)
      PROVE  Placed'
  <2>1. CASE UNCHANGED <<pc, job, owned, free, releasing, pipe, target>>
    BY <1>1, <2>1
  <2>2. CASE \E s \in {"targets", "make_layout", "acquire", "mark", "idle"} : Go(th, s)
    <3>1. PICK s \in {"targets", "make_layout", "acquire", "mark", "idle"} : Go(th, s)
      BY <2>2
    <3>2. /\ UNCHANGED <<owned, free, releasing, pipe, target>> /\ pc[th] # "submit"
          /\ \A u \in PMThread : u # th => job'[u] = job[u]
      BY <1>0, <1>3 DEF LoaderSubmits, LoaderLayout, Request, try_mark_pending, Idle
    <3>3. s \in AnyPc \ {"submit"}
      BY DEF AnyPc, RequesterPc, WorkerPc, Building, Making
    <3> QED
      BY <1>2, <3>1, <3>2, <3>3
  <2> QED
    BY <1>3, <2>1, <2>2 DEF LoaderSubmits, LoaderLayout, Request, try_mark_pending, Idle
<1>4. CASE BeginFrame
  BY <1>4, Reclaimed DEF BeginFrame
<1>5. ASSUME NEW th \in Requesters, Acquire_reclaim(th) PROVE Placed'
  <2>1. pc[th] = "acquire" /\ pc'[th] = "take" /\ \A u \in PMThread : u # th => pc'[u] = pc[u]
    BY <1>0, <1>5, OneStep DEF Acquire_reclaim
  <2> QED
    BY <1>5, <2>1, Reclaimed DEF Acquire_reclaim
<1>6. ASSUME NEW th \in Requesters, Acquire(th) PROVE Placed'
  <2>1. /\ pc[th] = "take" /\ pc'[th] = "submit" /\ UNCHANGED <<pipe, target>> /\ running' = running
        /\ \A u \in PMThread : u # th => pc'[u] = pc[u]
    BY <1>0, <1>6, OneStep DEF Acquire, running
  <2>2. {t \in free : GetIsComplete(t)} = free
    BY <1>0 DEF Placed, GetIsComplete
  <2>3. PICK t \in Nat : /\ job' = [job EXCEPT ![th].task = t]
                         /\ \/ /\ t \in free /\ free' = free \ {t}
                               /\ UNCHANGED <<owned, releasing>>
                            \/ /\ free = {} /\ free' = {} /\ releasing' = releasing
                               /\ owned' = owned + 1 /\ t = owned + 1
    <3>1. free # {} => First(free) \in free
      BY <1>0, FirstIn
    <3>2. CASE free # {}
      BY <1>0, <1>6, <2>2, <3>1, <3>2 DEF Acquire
    <3>3. CASE free = {}
      BY <1>0, <1>6, <2>2, <3>3 DEF Acquire
    <3> QED
      BY <3>2, <3>3
  <2>4. job'[th].task = t /\ \A u \in PMThread : u # th => job'[u] = job[u]
    BY <1>0, <2>3, TaskOf
  <2>5. \A u, q : Runs(u, q)' <=> Runs(u, q)
    BY <2>1, <2>4 DEF Runs
  <2>6. \A u, q : Holds(u, q)' <=> (Holds(u, q) \/ (u = th /\ q = t))
    BY <2>1, <2>4 DEF Holds
  <2>7. /\ t \notin free' \cup releasing' \cup running' /\ t \in 1 .. owned'
        /\ free' \subseteq free /\ releasing' = releasing
        /\ \A q : q \in 1 .. owned' <=> (q \in 1 .. owned \/ q = t)
        /\ \A q \in free : q = t \/ q \in free'
    BY <1>0, <2>1, <2>3 DEF Placed
  <2>8. \A u \in Requesters : ~Holds(u, t)
    BY <1>0, <2>3 DEF Placed, Holds
  <2>9. \A u \in Requesters : pc'[u] = "submit" =>
           /\ job'[u].task \in (1 .. owned') \ (free' \cup releasing' \cup running')
           /\ \A v \in Requesters : Holds(v, job[u].task)' => v = u
    <3> SUFFICES ASSUME NEW u \in Requesters, pc'[u] = "submit"
                 PROVE  /\ job'[u].task \in (1 .. owned') \ (free' \cup releasing' \cup running')
                        /\ \A v \in Requesters : Holds(v, job[u].task)' => v = u
      OBVIOUS
    <3>1. CASE u = th
      BY <2>4, <2>6, <2>7, <2>8, <3>1
    <3>2. CASE u # th
      <4>1. pc[u] = "submit" /\ job'[u].task = job[u].task /\ Holds(u, job[u].task)
        BY <2>1, <2>4, <3>2 DEF Holds
      <4>2. job[u].task # t
        BY <2>8, <4>1
      <4> QED
        BY <1>0, <2>1, <2>6, <2>7, <4>1, <4>2 DEF Placed
    <3> QED
      BY <3>1, <3>2
  <2>10. \A w \in Workers : pc'[w] # "idle" =>
           /\ job'[w].task \in running' \ pipe'
           /\ pc'[w] = "return" <=> job'[w].task \in releasing'
           /\ \A u \in Workers : Runs(u, job[w].task)' => u = w
    BY <1>0, <2>1, <2>4, <2>5, <2>7 DEF Placed
  <2>11. \A q \in 1 .. owned' :
           \/ q \in free' \cup releasing' \cup pipe'
           \/ \E u \in Requesters : Holds(u, q)'
           \/ \E w \in Workers : Runs(w, q)'
    BY <1>0, <2>1, <2>5, <2>6, <2>7 DEF Placed
  <2>12. free' \cap releasing' = {} /\ free' \cap running' = {} /\ releasing' \cap pipe' = {}
    BY <1>0, <2>1, <2>7 DEF Placed
  <2> QED
    BY <2>9, <2>10, <2>11, <2>12 DEF Placed
<1>7. ASSUME NEW th \in Requesters, Submit(th) PROVE Placed'
  <2> PICK t : t = job[th].task
    OBVIOUS
  <2>1. /\ pc[th] = "submit" /\ pc'[th] = Idle(th) /\ Idle(th) \in {"idle", "targets"}
        /\ \A u \in PMThread : u # th => pc'[u] = pc[u] /\ job'[u] = job[u]
    BY <1>0, <1>7, OneStep DEF Submit, Idle
  <2>2. /\ UNCHANGED <<owned, free, releasing>> /\ pipe' = pipe \cup {t}
        /\ running' = running \cup {t}
    BY <1>7 DEF Submit, Put, running
  <2>3. /\ t \in (1 .. owned) \ (free \cup releasing \cup running)
        /\ \A u \in Requesters : Holds(u, t) <=> u = th
    BY <1>0, <2>1 DEF Placed, Holds
  <2>4. \A u, q : Runs(u, q)' <=> Runs(u, q)
    BY <2>1 DEF Runs
  <2>5. \A u, q : Holds(u, q)' <=> (Holds(u, q) /\ u # th)
    BY <2>1 DEF Holds
  <2>6. \A u \in Requesters : pc'[u] = "submit" =>
           /\ job'[u].task \in (1 .. owned') \ (free' \cup releasing' \cup running')
           /\ \A v \in Requesters : Holds(v, job[u].task)' => v = u
    <3> SUFFICES ASSUME NEW u \in Requesters, pc'[u] = "submit"
                 PROVE  /\ job'[u].task \in (1 .. owned') \ (free' \cup releasing' \cup running')
                        /\ \A v \in Requesters : Holds(v, job[u].task)' => v = u
      OBVIOUS
    <3>1. u # th /\ job'[u] = job[u] /\ pc[u] = "submit" /\ Holds(u, job[u].task)
      BY <2>1 DEF Holds
    <3>2. job[u].task # t
      BY <2>3, <3>1
    <3> QED
      BY <1>0, <2>2, <2>5, <3>1, <3>2 DEF Placed
  <2>7. \A w \in Workers : pc'[w] # "idle" =>
           /\ job'[w].task \in running' \ pipe'
           /\ pc'[w] = "return" <=> job'[w].task \in releasing'
           /\ \A u \in Workers : Runs(u, job[w].task)' => u = w
    BY <1>0, <2>1, <2>2, <2>3, <2>4 DEF Placed
  <2>8. \A q \in 1 .. owned' :
           \/ q \in free' \cup releasing' \cup pipe'
           \/ \E u \in Requesters : Holds(u, q)'
           \/ \E w \in Workers : Runs(w, q)'
    <3>1. \A q, u : Holds(u, q) => Holds(u, q)' \/ q = t
      BY <2>5 DEF Holds
    <3> QED
      BY <1>0, <2>2, <2>4, <3>1 DEF Placed
  <2>9. free' \cap releasing' = {} /\ free' \cap running' = {} /\ releasing' \cap pipe' = {}
    BY <1>0, <2>2, <2>3 DEF Placed
  <2> QED
    BY <2>6, <2>7, <2>8, <2>9 DEF Placed
<1>8. ASSUME NEW th \in PMThread, th \notin Workers => pc[th] # "submit",
             th \in Workers => pc[th] \notin {"idle", "return"} /\ job'[th].task = job[th].task,
             NEW s \in AnyPc \ {"submit", "idle", "return"}, Go(th, s),
             \A u \in PMThread : u # th => job'[u] = job[u],
             UNCHANGED <<owned, free, releasing, pipe, target>>
      PROVE  Placed'
  <2>1. pc'[th] = s /\ \A u \in PMThread : u # th => pc'[u] = pc[u]
    BY <1>0, <1>8, OneStep
  <2> QED
    BY <1>8, <2>1, SamePlaces DEF running
<1>9. ASSUME NEW th \in Workers \cup {Loader}, NEW l, LayoutDone(th, l),
             pc[th] \in {"layout", "publish"}, UNCHANGED <<owned, free, releasing, pipe, target>>
      PROVE  Placed'
  <2>1. /\ th # Loader => job'[th].task = job[th].task
        /\ \A u \in PMThread : u # th => job'[u] = job[u]
    BY <1>0, <1>9 DEF LayoutDone, Job
  <2>2. {"layouts", "pipeline"} \subseteq AnyPc \ {"submit", "idle", "return"}
    BY DEF AnyPc, WorkerPc, Building
  <2>3. PICK s \in {"layouts", "pipeline"} : Go(th, s)
    BY <1>9 DEF LayoutDone
  <2> QED
    BY <1>8, <1>9, <2>1, <2>2, <2>3
<1>10. ASSUME NEW th \in Workers \cup {Loader},
              \/ create_pipeline_layout(th) \/ publish_layout(th)
              \/ th \in Workers /\ (\/ find_layout(th) \/ create_pipeline(th)
                                    \/ insert_pipeline_cache(th) \/ on_compile_task_finished(th))
       PROVE  Placed'
  <2>1. CASE \E l : LayoutDone(th, l) /\ pc[th] \in {"layout", "publish"}
    BY <1>9, <1>10, <2>1
    DEF find_layout, publish_layout, create_pipeline_layout, create_pipeline,
        insert_pipeline_cache, on_compile_task_finished
  <2>2. CASE /\ \E s \in {"make_layout", "publish", "insert", "finish", "release"} : Go(th, s)
             /\ pc[th] \in {"layout", "make_layout", "pipeline", "insert", "finish"}
             /\ UNCHANGED <<owned, free, releasing, pipe, target, job>>
    <3>1. {"make_layout", "publish", "insert", "finish", "release"}
             \subseteq AnyPc \ {"submit", "idle", "return"}
      BY DEF AnyPc, WorkerPc, Building, Making
    <3>2. PICK s \in {"make_layout", "publish", "insert", "finish", "release"} : Go(th, s)
      BY <2>2
    <3> QED
      BY <1>8, <2>2, <3>1, <3>2
  <2> QED
    BY <1>10, <2>1, <2>2
    DEF find_layout, publish_layout, create_pipeline_layout, create_pipeline,
        insert_pipeline_cache, on_compile_task_finished
<1>11. ASSUME NEW w \in Workers, NEW t \in pipe, ExecuteRange(w, t) PROVE Placed'
  <2>1. /\ pc[w] = "idle" /\ pc'[w] \notin {"idle", "return"} /\ job'[w].task = t
        /\ \A u \in PMThread : u # w => pc'[u] = pc[u] /\ job'[u] = job[u]
    BY <1>0, <1>11, OneStep DEF ExecuteRange, NoJob
  <2>2. /\ UNCHANGED <<owned, free, releasing, target>> /\ pipe' = pipe \ {t} /\ running' = running
        /\ t \in running /\ t \notin releasing
    BY <1>0, <1>11 DEF ExecuteRange, running, Placed
  <2>3. \A u, q : Holds(u, q)' <=> Holds(u, q)
    BY <2>1 DEF Holds
  <2>4. \A u, q : Runs(u, q)' <=> (Runs(u, q) \/ (u = w /\ q = t))
    BY <2>1 DEF Runs
  <2>5. \A u \in Workers : ~Runs(u, t)
    BY <1>0 DEF Placed, Runs
  <2>6. \A u \in Requesters : pc'[u] = "submit" =>
           /\ job'[u].task \in (1 .. owned') \ (free' \cup releasing' \cup running')
           /\ \A v \in Requesters : Holds(v, job[u].task)' => v = u
    BY <1>0, <2>1, <2>2, <2>3 DEF Placed
  <2>7. \A v \in Workers : pc'[v] # "idle" =>
           /\ job'[v].task \in running' \ pipe'
           /\ pc'[v] = "return" <=> job'[v].task \in releasing'
           /\ \A u \in Workers : Runs(u, job[v].task)' => u = v
    <3> SUFFICES ASSUME NEW v \in Workers, pc'[v] # "idle"
                 PROVE  /\ job'[v].task \in running' \ pipe'
                        /\ pc'[v] = "return" <=> job'[v].task \in releasing'
                        /\ \A u \in Workers : Runs(u, job[v].task)' => u = v
      OBVIOUS
    <3>1. CASE v = w
      BY <2>1, <2>2, <2>4, <2>5, <3>1
    <3>2. CASE v # w
      <4>1. pc[v] # "idle" /\ job'[v] = job[v] /\ Runs(v, job[v].task)
        BY <2>1, <3>2 DEF Runs
      <4>2. job[v].task # t
        BY <2>5, <4>1
      <4> QED
        BY <1>0, <2>1, <2>2, <2>4, <3>2, <4>1, <4>2 DEF Placed
    <3> QED
      BY <3>1, <3>2
  <2>8. \A q \in 1 .. owned' :
           \/ q \in free' \cup releasing' \cup pipe'
           \/ \E u \in Requesters : Holds(u, q)'
           \/ \E v \in Workers : Runs(v, q)'
    BY <1>0, <2>2, <2>3, <2>4 DEF Placed
  <2>9. free' \cap releasing' = {} /\ free' \cap running' = {} /\ releasing' \cap pipe' = {}
    BY <1>0, <2>2 DEF Placed
  <2> QED
    BY <2>6, <2>7, <2>8, <2>9 DEF Placed
<1>12. ASSUME NEW w \in Workers, Release(w) PROVE Placed'
  <2> PICK t : t = job[w].task
    OBVIOUS
  <2>1. /\ pc[w] = "release" /\ pc'[w] = "return" /\ UNCHANGED job
        /\ \A u \in PMThread : u # w => pc'[u] = pc[u]
    BY <1>0, <1>12, OneStep DEF Release
  <2>2. /\ UNCHANGED <<owned, free, pipe, target>> /\ releasing' = releasing \cup {t}
        /\ running' = running
    BY <1>12 DEF Release, running
  <2>3. /\ t \in running \ pipe /\ t \notin free
        /\ \A u \in Workers : Runs(u, t) => u = w
    BY <1>0, <2>1 DEF Placed
  <2>4. \A u, q : (Holds(u, q)' <=> Holds(u, q)) /\ (Runs(u, q)' <=> Runs(u, q))
    BY <2>1 DEF Holds, Runs
  <2>5. \A v \in Workers : pc'[v] # "idle" =>
           /\ job'[v].task \in running' \ pipe'
           /\ pc'[v] = "return" <=> job'[v].task \in releasing'
           /\ \A u \in Workers : Runs(u, job[v].task)' => u = v
    <3> SUFFICES ASSUME NEW v \in Workers, pc'[v] # "idle"
                 PROVE  /\ job'[v].task \in running' \ pipe'
                        /\ pc'[v] = "return" <=> job'[v].task \in releasing'
                        /\ \A u \in Workers : Runs(u, job[v].task)' => u = v
      OBVIOUS
    <3>1. CASE v = w
      BY <2>1, <2>2, <2>3, <2>4, <3>1
    <3>2. CASE v # w
      <4>1. job[v].task # t
        BY <2>1, <2>3, <3>2 DEF Runs
      <4> QED
        BY <1>0, <2>1, <2>2, <2>4, <3>2, <4>1 DEF Placed
    <3> QED
      BY <3>1, <3>2
  <2>6. \A u \in Requesters : pc'[u] = "submit" =>
           /\ job'[u].task \in (1 .. owned') \ (free' \cup releasing' \cup running')
           /\ \A v \in Requesters : Holds(v, job[u].task)' => v = u
    BY <1>0, <2>1, <2>2, <2>3, <2>4 DEF Placed
  <2>7. \A q \in 1 .. owned' :
           \/ q \in free' \cup releasing' \cup pipe'
           \/ \E u \in Requesters : Holds(u, q)'
           \/ \E v \in Workers : Runs(v, q)'
    BY <1>0, <2>2, <2>4 DEF Placed
  <2>8. free' \cap releasing' = {} /\ free' \cap running' = {} /\ releasing' \cap pipe' = {}
    <3>1. free \cap releasing = {} /\ free \cap running = {} /\ releasing \cap pipe = {}
      BY <1>0 DEF Placed
    <3> QED
      BY <2>2, <2>3, <3>1
  <2> QED
    BY <2>5, <2>6, <2>7, <2>8 DEF Placed
<1>13. ASSUME NEW w \in Workers, Complete(w) PROVE Placed'
  <2> PICK t : t = job[w].task
    OBVIOUS
  <2>1. /\ pc[w] = "return" /\ pc'[w] = "idle"
        /\ \A u \in PMThread : u # w => pc'[u] = pc[u] /\ job'[u] = job[u]
    BY <1>0, <1>13, OneStep DEF Complete
  <2>2. UNCHANGED <<owned, free, releasing, pipe>> /\ running' = running \ {t}
    BY <1>13 DEF Complete, running
  <2>3. /\ t \in running \ pipe /\ t \in releasing
        /\ \A u \in Workers : Runs(u, t) => u = w
    BY <1>0, <2>1 DEF Placed
  <2>4. \A u, q : Holds(u, q)' <=> Holds(u, q)
    BY <2>1 DEF Holds
  <2>5. \A u, q : Runs(u, q)' <=> (Runs(u, q) /\ u # w)
    BY <2>1 DEF Runs
  <2>6. \A u \in Requesters : pc'[u] = "submit" =>
           /\ job'[u].task \in (1 .. owned') \ (free' \cup releasing' \cup running')
           /\ \A v \in Requesters : Holds(v, job[u].task)' => v = u
    BY <1>0, <2>1, <2>2, <2>4 DEF Placed
  <2>7. \A v \in Workers : pc'[v] # "idle" =>
           /\ job'[v].task \in running' \ pipe'
           /\ pc'[v] = "return" <=> job'[v].task \in releasing'
           /\ \A u \in Workers : Runs(u, job[v].task)' => u = v
    <3> SUFFICES ASSUME NEW v \in Workers, pc'[v] # "idle"
                 PROVE  /\ job'[v].task \in running' \ pipe'
                        /\ pc'[v] = "return" <=> job'[v].task \in releasing'
                        /\ \A u \in Workers : Runs(u, job[v].task)' => u = v
      OBVIOUS
    <3>1. v # w /\ pc[v] # "idle" /\ job'[v] = job[v] /\ Runs(v, job[v].task)
      BY <2>1 DEF Runs
    <3>2. job[v].task # t
      BY <2>3, <3>1
    <3> QED
      BY <1>0, <2>1, <2>2, <2>5, <3>1, <3>2 DEF Placed
  <2>8. \A q \in 1 .. owned' :
           \/ q \in free' \cup releasing' \cup pipe'
           \/ \E u \in Requesters : Holds(u, q)'
           \/ \E v \in Workers : Runs(v, q)'
    <3>1. \A q, u : Runs(u, q) => Runs(u, q)' \/ q = t
      BY <2>5 DEF Runs
    <3> QED
      BY <1>0, <2>2, <2>3, <2>4, <3>1 DEF Placed
  <2> QED
    BY <1>0, <2>2, <2>6, <2>7, <2>8 DEF Placed
<1>14. CASE shutdown
  <2>1. /\ owned' = 0 /\ free' = {} /\ releasing' = {}
        /\ \A th \in PMThread : pc'[th] \in {"idle", "targets"}
        /\ \A w \in Workers : pc'[w] = "idle"
    BY <1>14 DEF shutdown, Quiet
  <2>2. /\ \A th \in Requesters : pc'[th] # "submit"
        /\ \A t \in 1 .. owned' : FALSE
    BY <2>1
  <2>3. releasing' \cap pipe' = {} /\ free' \cap running' = {} /\ free' \cap releasing' = {}
    BY <2>1
  <2> QED
    BY <2>1, <2>2, <2>3 DEF Placed
<1> QED
  BY <1>1, <1>3, <1>4, <1>5, <1>6, <1>7, <1>10, <1>11, <1>12, <1>13, <1>14, Steps DEF pmVars

-----------------------------------------------------------------------------
(* The invariant, and what follows from it.                                *)

LEMMA PMInitInv == ASSUME PMInit PROVE PMInv
<1> USE Threads, KeysOf DEF PMInit
<1>1. ThreadTypes
  <2>1. pc \in [PMThread -> AnyPc] /\ \A th \in PMThread : pc[th] \in PcOf(th)
    BY DEF AnyPc, PcOf, WorkerPc
  <2>2. /\ \A th \in Requesters : pc[th] # "mark" /\ pc[th] \notin Making
        /\ todo \in [Requesters -> SUBSET AllTargets]
    BY DEF Making
  <2> QED
    BY <2>1, <2>2 DEF ThreadTypes
<1>2. DataTypes
  BY DEF DataTypes, running
<1>3. \A th \in PMThread : /\ pc[th] \in {"idle", "layouts"} /\ pc[th] \notin Building \cup Making
                           /\ th \in Workers => pc[th] = "idle"
  BY DEF Building, Making
<1>4. Marks /\ Served
  BY <1>3 DEF Marks, Served, Carries, Queued
<1>5. Counted
  BY <1>3 DEF Counted, Inserting
<1>6. Layered
  BY <1>3 DEF Layered
<1>7. Placed
  BY <1>3 DEF Placed, running
<1> QED
  BY <1>1, <1>2, <1>4, <1>5, <1>6, <1>7 DEF PMInv, Types

LEMMA PMInvStep == ASSUME PMInv, [PMNext]_pmVars PROVE PMInv'
BY ThreadTypesStep, DataTypesStep, MarksStep, CountedStep, LayeredStep, PlacedStep
DEF PMInv, Types

\* What every reachable state satisfies, for any workers, keys and targets.
THEOREM Invariance == PMSpec => []PMInv
<1>1. PMInit => PMInv
  BY PMInitInv
<1>2. PMInv /\ [PMNext]_pmVars => PMInv'
  BY PMInvStep
<1> QED
  BY <1>1, <1>2, PTL DEF PMSpec

\* A key's pipeline is made at most once: a worker that makes one is the only
\* one at its key, and the key is not cached.
THEOREM PipelinesCompiledOnce == PMSpec => []CompiledOnce
<1>1. PMInv => CompiledOnce
  BY DEF PMInv, Counted, CompiledOnce
<1> QED
  BY <1>1, Invariance, PTL

\* A pipeline is built with, and cached with, the cached layout of its shaders,
\* which no thread has destroyed.
THEOREM LayoutsLive == PMSpec => []LayoutsInUseLive
<1>1. PMInv => LayoutsInUseLive
  BY DEF PMInv, Layered, LayoutsInUseLive
<1> QED
  BY <1>1, Invariance, PTL

\* The device holds nothing that is neither cached nor in the hands of the
\* thread that made it, so shutdown leaves nothing behind.
THEOREM NoLeaks == PMSpec => []NothingLeaks
<1>1. ASSUME PMInv PROVE NothingLeaks
  <2>1. \A k \in Keys : live_pipelines[k] > 0 => k \in DOMAIN pipelines \/ Inserting(k)
    BY <1>1 DEF PMInv, Counted
  <2> QED
    BY <1>1, <2>1 DEF PMInv, Layered, Inserting, NothingLeaks
<1> QED
  BY <1>1, Invariance, PTL

\* A marked key always has somebody who will take the mark back.
THEOREM MarksAreServed == PMSpec => []PendingIsServed
<1>1. ASSUME PMInv PROVE PendingIsServed
  <2> SUFFICES ASSUME NEW k \in pending
               PROVE  \/ \E th \in Requesters : pc[th] \in {"acquire", "take", "submit"} /\ job[th].target = k
                      \/ \E t \in pipe : target[t] = k
                      \/ \E w \in Workers : pc[w] \notin {"idle", "release", "return"} /\ job[w].target = k
    BY DEF PendingIsServed
  <2>1. CASE \E t \in pipe : Queued(t, k)
    BY <2>1 DEF Queued
  <2>2. CASE \E th \in PMThread : Carries(th, k)
    BY <2>2 DEF Carries, Building, Making
  <2> QED
    BY <1>1, <2>1, <2>2 DEF PMInv, Served
<1> QED
  BY <1>1, Invariance, PTL

\* At most one element, at most one place.
LEMMA One ==
  ASSUME NEW S, NEW x \in S, \A y \in S : y = x
  PROVE  IsFiniteSet(S) /\ Cardinality(S) = 1
<1>1. S = {x}
  OBVIOUS
<1> QED
  BY <1>1, FS_Singleton

\* A task object of the pool is in one place at a time and none is lost; what
\* can be acquired, or was just acquired, is complete.
THEOREM TasksPlaced == PMSpec => []TasksInOnePlace
<1>1. ASSUME PMInv, NEW t \in 1 .. owned
      PROVE  Places(t) = 1 /\ (t \in free \/ Holders(t) # {} => t \notin running)
  <2> DEFINE pools == {<<"free", free>>, <<"releasing", releasing>>, <<"pipe", pipe>>}
             In == {s \in pools : t \in s[2]}
  <2>1. /\ \A th \in Holders(t) : th \in Requesters /\ Holds(th, t)
        /\ \A th \in Requesters : Holds(th, t) => th \in Holders(t)
    BY DEF Holders, Holds
  <2>2. /\ \A w \in Runners(t) : w \in Workers /\ Runs(w, t) /\ t \notin releasing
        /\ \A w \in Workers : Runs(w, t) /\ t \notin releasing => w \in Runners(t)
    BY <1>1 DEF Runners, Runs, PMInv, Placed
  <2>3. Placed /\ pipe \subseteq running
    BY <1>1 DEF PMInv, Types, DataTypes
  <2>4. /\ \A th, u \in Holders(t) : th = u
        /\ \A w, v \in Runners(t) : w = v
    BY <2>1, <2>2, <2>3 DEF Placed, Holds, Runs
  <2>5. /\ Holders(t) # {} => t \notin free \cup releasing \cup running
        /\ Runners(t) # {} => t \in running \ pipe /\ t \notin releasing
    BY <2>1, <2>2, <2>3 DEF Placed, Holds, Runs
  <2>6. \/ t \in free \cup releasing \cup pipe \/ Holders(t) # {} \/ Runners(t) # {}
    BY <1>1, <2>1, <2>2, <2>3 DEF Placed
  <2>7. /\ free \cap releasing = {} /\ free \cap running = {} /\ releasing \cap pipe = {}
    BY <2>3 DEF Placed
  <2>8. Cardinality({}) = 0
    BY FS_EmptySet
  <2>9. /\ t \in free \cup releasing \cup pipe => Cardinality(In) = 1
        /\ t \notin free \cup releasing \cup pipe => In = {}
    <3>1. \A s \in In : \/ s = <<"free", free>> /\ t \in free
                        \/ s = <<"releasing", releasing>> /\ t \in releasing
                        \/ s = <<"pipe", pipe>> /\ t \in pipe
      OBVIOUS
    <3>2. /\ t \in free => <<"free", free>> \in In
          /\ t \in releasing => <<"releasing", releasing>> \in In
          /\ t \in pipe => <<"pipe", pipe>> \in In
      OBVIOUS
    <3> HIDE DEF In
    <3>3. \A s, r \in In : s = r
      BY <2>3, <2>7, <3>1
    <3>4. ASSUME t \in free \cup releasing \cup pipe PROVE Cardinality(In) = 1
      <4>1. PICK s \in In : TRUE
        BY <3>2, <3>4
      <4> QED
        BY <3>3, <4>1, One
    <3> QED
      BY <3>1, <3>4
  <2>10. /\ Holders(t) # {} => Cardinality(Holders(t)) = 1
         /\ Runners(t) # {} => Cardinality(Runners(t)) = 1
    BY <2>4, One
  <2>11. Places(t) = Cardinality(Holders(t)) + Cardinality(Runners(t)) + Cardinality(In)
    BY DEF Places
  <2> HIDE DEF In
  <2>12. Places(t) = 1
    <3>1. CASE t \in free \cup releasing \cup pipe
      <4>1. Holders(t) = {} /\ Runners(t) = {}
        BY <2>3, <2>5, <2>7, <3>1
      <4> QED
        BY <2>8, <2>9, <2>11, <3>1, <4>1
    <3>2. CASE t \notin free \cup releasing \cup pipe
      <4>1. Cardinality(In) = 0
        BY <2>8, <2>9, <3>2
      <4>2. Holders(t) = {} \/ Runners(t) = {}
        BY <2>5
      <4> QED
        BY <2>6, <2>8, <2>10, <2>11, <3>2, <4>1, <4>2
    <3> QED
      BY <3>1, <3>2
  <2> QED
    BY <2>5, <2>7, <2>12
<1>2. PMInv => TasksInOnePlace
  BY <1>1 DEF TasksInOnePlace
<1> QED
  BY <1>2, Invariance, PTL
=============================================================================
