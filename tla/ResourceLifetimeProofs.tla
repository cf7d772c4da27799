------------------------ MODULE ResourceLifetimeProofs ------------------------
(***************************************************************************)
(* Proofs about ResourceLifetime and two of the components it extends.     *)
(*                                                                         *)
(* GPUResourceThread, for every bound on the requests: types, serialised   *)
(* uploads, the drain before the stop, and the order of SerialUploads.     *)
(* MeshBufferAllocator, for every vertex size, page size and mesh shape:   *)
(* what PageAllocatorProofs shows of one allocator is taken for vertices   *)
(* and for indices. ResourceLifetime itself: its steps are steps of the    *)
(* two, and what only the composition says about frames and the teardown.  *)
(***************************************************************************)
EXTENDS ResourceLifetime, SequenceTheorems, TLAPS

-----------------------------------------------------------------------------
(* GPUResourceThread.                                                      *)

\* What the proofs need of requests: Null is none, and the caller's position
\* among its calls names one.
LEMMA RequestFacts ==
    /\ Null \notin Request
    /\ \A c \in Clients, n \in 1 .. MaxRequests : <<c, n>> \in Request
<1>1. Null \notin Request
  BY DEF Null, Request
<1>2. \A c \in Clients, n \in 1 .. MaxRequests : <<c, n>> \in Request
  BY DEF Request
<1> QED
  BY <1>1, <1>2

\* The first item of a queue, and what its removal leaves.
LEMMA PopTypes ==
  ASSUME NEW S, NEW q \in Seq(S), q # <<>>
  PROVE  Head(q) \in S /\ Tail(q) \in Seq(S)
BY HeadTailProperties

\* The phases of the threads: the flags agree with the main thread's progress
\* and with the loop's, and an immediate upload happens only where the loop
\* cannot: the main thread's before start, the loader's after the loop's end.
Phases ==
    /\ mainPc = "setup" <=> gpuPc = "none"
    /\ running <=> gpuPc \notin {"none", "stopped"}
    /\ shutdownRequested <=> mainPc \notin {"setup", "run"}
    /\ schedulerShutdown => shutdownRequested
    /\ gpuPc \in {"exiting", "stopped"} => shutdownRequested
    /\ pc[Main] # "idle" => mainPc \in {"setup", "run"}
    /\ pc[Loader] # "idle" => mainPc # "setup"
    /\ pc[Main] = "inline" => mainPc = "setup"
    /\ pc[Loader] = "inline" => gpuPc = "stopped"

\* A client inside enqueue is making its first call or a later one.
Calling == \A c \in Clients : pc[c] # "idle" => made[c] \in 1 .. MaxRequests

TypeInv == TypeOK /\ Calling /\ Phases

LEMMA TypeInit == Init => TypeInv
<1> SUFFICES ASSUME Init PROVE TypeInv
  OBVIOUS
<1>1. /\ queue \in Seq(Request) /\ done \in Seq(Request)
      /\ early \subseteq Request
  BY DEF Init
<1>2. /\ running \in BOOLEAN /\ shutdownRequested \in BOOLEAN
      /\ schedulerShutdown \in BOOLEAN
  BY DEF Init
<1>3. /\ gpuPc \in GpuPc /\ mainPc \in MainPc
      /\ item \in Request \cup {Null}
      /\ item = Null <=> gpuPc # "process"
  BY DEF Init, GpuPc, MainPc
<1>4. pc \in [Clients -> ClientPc] /\ made \in [Clients -> 0 .. MaxRequests]
  BY GRTAssumption DEF Init, ClientPc, GRTAssumption
<1>5. Calling
  BY DEF Init, Calling
<1>6. Phases
  BY GRTAssumption DEF Init, Phases, Clients, GRTAssumption
<1> QED
  BY <1>1, <1>2, <1>3, <1>4, <1>5, <1>6 DEF TypeInv, TypeOK

LEMMA TypeStep == TypeInv /\ [Next]_vars => TypeInv'
<1> SUFFICES ASSUME TypeInv, [Next]_vars PROVE TypeInv'
  OBVIOUS
<1> USE GRTAssumption DEF GRTAssumption, TypeInv, TypeOK, Calling, Phases,
        Clients, GpuPc, ClientPc, MainPc, flagVars, gpuVars, clientVars
<1>1. ASSUME NEW c \in Clients, BeginEnqueue(c) PROVE TypeInv'
  BY <1>1 DEF BeginEnqueue, MayCall
<1>2. ASSUME NEW c \in Clients, ReadRunning(c) PROVE TypeInv'
  BY <1>2 DEF ReadRunning
<1>3. ASSUME NEW c \in Clients, push(c) PROVE TypeInv'
  <2>1. Current(c) \in Request
    BY <1>3, RequestFacts DEF push, Current
  <2> QED
    BY <1>3, <2>1 DEF push
<1>4. ASSUME NEW c \in Clients, PushNotify(c) PROVE TypeInv'
  BY <1>4 DEF PushNotify, NotifiedGpuPc
<1>5. ASSUME NEW c \in Clients, FinishInline(c) PROVE TypeInv'
  <2>1. Current(c) \in Request
    BY <1>5, RequestFacts DEF FinishInline, Current
  <2> QED
    BY <1>5, <2>1 DEF FinishInline
<1>6. CASE WaitPop
  <2>1. Head(queue) \in Request /\ Tail(queue) \in Seq(Request)
    BY <1>6, PopTypes DEF WaitPop
  <2> QED
    BY <1>6, <2>1, RequestFacts DEF WaitPop
<1>7. CASE WaitStop \/ WaitPredicateFalse \/ WaitBlock \/ SpuriousWakeup
  BY <1>7 DEF WaitStop, WaitPredicateFalse, WaitBlock, SpuriousWakeup,
              should_stop
<1>8. CASE FinishProcess
  <2>1. item \in Request
    BY <1>8 DEF FinishProcess
  <2> QED
    BY <1>8, <2>1 DEF FinishProcess
<1>9. CASE try_pop
  <2>1. CASE queue = <<>>
    BY <1>9, <2>1 DEF try_pop
  <2>2. CASE queue # <<>>
    <3>1. Head(queue) \in Request /\ Tail(queue) \in Seq(Request)
      BY <2>2, PopTypes
    <3> QED
      BY <1>9, <2>2, <3>1, RequestFacts DEF try_pop
  <2> QED
    BY <2>1, <2>2
<1>10. CASE ExecuteReturn
  BY <1>10 DEF ExecuteReturn
<1>11. CASE start
  BY <1>11 DEF start
<1>12. CASE shutdown
  <2>1. CASE ShutdownStore
    BY <2>1 DEF ShutdownStore
  <2>2. CASE ShutdownNotify
    BY <2>2 DEF ShutdownNotify, NotifiedGpuPc
  <2>3. CASE WaitforAllCalled
    BY <2>3 DEF WaitforAllCalled
  <2>4. CASE WaitforAllReturns
    BY <2>4 DEF WaitforAllReturns
  <2> QED
    BY <1>12, <2>1, <2>2, <2>3, <2>4 DEF shutdown, request_shutdown
<1>13. CASE UNCHANGED vars
  BY <1>13 DEF vars
<1> QED
  BY <1>1, <1>2, <1>3, <1>4, <1>5, <1>6, <1>7, <1>8, <1>9, <1>10, <1>11,
     <1>12, <1>13 DEF Next, Enqueue, Execute, wait_and_pop

\* The types of every variable, and that Execute holds a request exactly while
\* it is inside process(): it never blocks or exits with one in its hand.
THEOREM RequestTypesCorrect == Spec => []TypeOK
<1>1. Spec => []TypeInv
  BY TypeInit, TypeStep, PTL DEF Spec
<1>2. TypeInv => TypeOK
  BY DEF TypeInv
<1> QED
  BY <1>1, <1>2, PTL

\* Uploads never overlap, whatever the interleaving of the two callers, the
\* loop and the shutdown: the phases leave each kind of upload its own time.
THEOREM UploadsAreSerialized == Spec => []UploadsSerialized
<1>1. Spec => []TypeInv
  BY TypeInit, TypeStep, PTL DEF Spec
<1>2. TypeInv => UploadsSerialized
  BY DEF TypeInv, Phases, UploadsSerialized, Clients
<1> QED
  BY <1>1, <1>2, PTL

-----------------------------------------------------------------------------
(* The drain: a request pushed before the shutdown flag is in the queue, in  *)
(* the loop's hand or done, and only the last when the loop is leaving.      *)

In(r, s) == \E i \in 1 .. Len(s) : s[i] = r

Kept == \A r \in early : In(r, queue) \/ item = r \/ In(r, done)

Leaving == gpuPc \in {"exiting", "stopped"} => \A r \in early : In(r, done)

LEMMA InAppend ==
  ASSUME NEW S, NEW s \in Seq(S), NEW x \in S
  PROVE  /\ In(x, Append(s, x))
         /\ \A r : In(r, s) => In(r, Append(s, x))
BY DEF In

LEMMA InTail ==
  ASSUME NEW S, NEW s \in Seq(S), s # <<>>, NEW r, In(r, s)
  PROVE  r = Head(s) \/ In(r, Tail(s))
<1>1. PICK i \in 1 .. Len(s) : s[i] = r
  BY DEF In
<1>2. CASE i = 1
  BY <1>1, <1>2
<1>3. CASE i # 1
  <2>1. i - 1 \in 1 .. Len(Tail(s)) /\ Tail(s)[i - 1] = s[i]
    BY <1>3, HeadTailProperties
  <2> QED
    BY <1>1, <2>1 DEF In
<1> QED
  BY <1>2, <1>3

LEMMA DrainStep ==
  TypeInv /\ Kept /\ Leaving /\ [Next]_vars => (Kept /\ Leaving)'
<1> SUFFICES ASSUME TypeInv, Kept, Leaving, [Next]_vars
             PROVE  Kept' /\ Leaving'
  OBVIOUS
<1> USE DEF TypeInv, TypeOK, flagVars, gpuVars, clientVars
<1>1. ASSUME NEW c \in Clients, push(c) PROVE Kept' /\ Leaving'
  <2>1. Current(c) \in Request
    BY <1>1, RequestFacts DEF push, Current, Calling
  <2>2. Kept'
    BY <1>1, <2>1, InAppend DEF push, Kept
  <2>3. Leaving'
    BY <1>1 DEF push, Leaving, Phases
  <2> QED
    BY <2>2, <2>3
<1>2. ASSUME NEW c \in Clients, FinishInline(c) PROVE Kept' /\ Leaving'
  <2>1. Current(c) \in Request
    BY <1>2, RequestFacts DEF FinishInline, Current, Calling
  <2> QED
    BY <1>2, <2>1, InAppend DEF FinishInline, Kept, Leaving
<1>3. CASE WaitPop
  BY <1>3, InTail, RequestFacts DEF WaitPop, Kept, Leaving
<1>4. CASE FinishProcess
  <2>1. item \in Request
    BY <1>4 DEF FinishProcess
  <2> QED
    BY <1>4, <2>1, InAppend DEF FinishProcess, Kept, Leaving
<1>5. CASE try_pop
  BY <1>5, InTail, RequestFacts DEF try_pop, Kept, Leaving
<1>6. CASE WaitStop
  <2>1. \A r \in early : In(r, done)
    BY <1>6, RequestFacts DEF WaitStop, Kept, In
  <2> QED
    BY <1>6, <2>1 DEF WaitStop, Kept, Leaving
<1>7. ASSUME UNCHANGED <<queue, item, done, early>>,
             gpuPc' \in {"exiting", "stopped"} =>
                 gpuPc \in {"exiting", "stopped"}
      PROVE  Kept' /\ Leaving'
  BY <1>7 DEF Kept, Leaving
<1>8. ASSUME NEW c \in Clients,
             BeginEnqueue(c) \/ ReadRunning(c) \/ PushNotify(c)
      PROVE  Kept' /\ Leaving'
  BY <1>7, <1>8 DEF BeginEnqueue, ReadRunning, PushNotify, NotifiedGpuPc
<1>9. CASE WaitPredicateFalse \/ WaitBlock \/ SpuriousWakeup \/ ExecuteReturn
  BY <1>7, <1>9 DEF WaitPredicateFalse, WaitBlock, SpuriousWakeup, ExecuteReturn
<1>10. CASE start \/ shutdown
  BY <1>7, <1>10 DEF start, shutdown, request_shutdown, ShutdownStore,
     ShutdownNotify, WaitforAllCalled, WaitforAllReturns, NotifiedGpuPc
<1>11. CASE UNCHANGED vars
  BY <1>7, <1>11 DEF vars
<1> QED
  BY <1>1, <1>2, <1>3, <1>4, <1>5, <1>6, <1>8, <1>9, <1>10, <1>11
     DEF Next, Enqueue, Execute, wait_and_pop

\* What was pushed before request_shutdown stored its flag is processed before
\* the loop returns, for any number of requests.
THEOREM DrainsBeforeStop == Spec => []DrainedBeforeStop
<1>1. Init => Kept /\ Leaving
  BY DEF Init, Kept, Leaving
<1>2. Spec => [](TypeInv /\ Kept /\ Leaving)
  BY <1>1, TypeInit, TypeStep, DrainStep, PTL DEF Spec
<1>3. Leaving => DrainedBeforeStop
  BY DEF Leaving, DrainedBeforeStop, In
<1> QED
  BY <1>2, <1>3, PTL

-----------------------------------------------------------------------------
(* The order: a client's requests pass through its call, the queue, the loop  *)
(* and done one behind the other, except that a request the loop left in the  *)
(* queue when it ended may be overtaken: it is never served.                  *)

Ahead(q, r) == q[1] = r[1] => q[2] < r[2]

Asked == {r \in Request : r[2] <= made[r[1]]}

\* The call has not queued or processed its request yet.
Waiting(c) == pc[c] \in {"enqueue", "push", "inline"}

Order ==
    /\ \A n \in DOMAIN done : done[n] \in Asked
    /\ \A n \in DOMAIN queue : queue[n] \in Asked
    /\ gpuPc = "process" => item \in Asked
    /\ \A n \in DOMAIN done :
           /\ gpuPc = "process" => Ahead(done[n], item)
           /\ gpuPc # "stopped" => \A k \in DOMAIN queue : Ahead(done[n], queue[k])
           /\ \A c \in Clients : Waiting(c) => Ahead(done[n], Current(c))
    /\ gpuPc = "process" =>
           /\ \A k \in DOMAIN queue : Ahead(item, queue[k])
           /\ \A c \in Clients : Waiting(c) => Ahead(item, Current(c))
    /\ \A j, k \in DOMAIN queue : j < k => Ahead(queue[j], queue[k])
    /\ \A c \in Clients : Waiting(c) => \A k \in DOMAIN queue : Ahead(queue[k], Current(c))
    /\ gpuPc = "none" => queue = <<>> /\ \A c \in Clients : pc[c] \notin {"push", "notify"}

LEMMA TailOf ==
  ASSUME NEW S, NEW q \in Seq(S), q # <<>>
  PROVE  /\ Head(q) \in S /\ Tail(q) \in Seq(S)
         /\ 1 \in DOMAIN q /\ Head(q) = q[1]
         /\ \A k \in DOMAIN Tail(q) : k \in Nat \ {0} /\ k + 1 \in DOMAIN q /\ Tail(q)[k] = q[k + 1]
BY HeadTailProperties

LEMMA AppendOf ==
  ASSUME NEW S, NEW q \in Seq(S), NEW x \in S
  PROVE  /\ DOMAIN Append(q, x) = DOMAIN q \cup {Len(q) + 1} /\ Append(q, x) \in Seq(S)
         /\ \A k \in DOMAIN q : k < Len(q) + 1 /\ Append(q, x)[k] = q[k]
         /\ Append(q, x)[Len(q) + 1] = x
OBVIOUS

LEMMA CurrentOf ==
  ASSUME TypeInv, NEW c \in Clients
  PROVE  /\ pc[c] # "idle" => Current(c) \in Request /\ Current(c) \in Asked
         /\ \A d \in Clients \ {c} : Ahead(Current(c), Current(d))
BY DEF TypeInv, TypeOK, Calling, Current, Asked, Request, Ahead

\* A step that passes no request on.
LEMMA OrderKept ==
  ASSUME Order, UNCHANGED <<queue, done, made>>,
         \A c \in Clients : Waiting(c)' => Waiting(c),
         gpuPc' = "process" => gpuPc = "process" /\ item' = item,
         gpuPc = "stopped" => gpuPc' = "stopped",
         gpuPc' = "none" => gpuPc = "none" /\ \A c \in Clients : pc'[c] \notin {"push", "notify"}
  PROVE  Order'
<1>1. Asked' = Asked /\ \A c : Current(c)' = Current(c)
  BY DEF Asked, Current
<1>2. \A q, r : Ahead(q, r)' <=> Ahead(q, r)
  BY DEF Ahead
<1> HIDE DEF Ahead, Waiting, Asked, Current
<1>3. /\ \A n \in DOMAIN done' : done'[n] \in Asked'
      /\ \A n \in DOMAIN queue' : queue'[n] \in Asked'
      /\ gpuPc' = "process" => item' \in Asked'
  BY <1>1 DEF Order
<1>4. \A n \in DOMAIN done' :
         /\ gpuPc' = "process" => Ahead(done'[n], item')
         /\ gpuPc' # "stopped" => \A k \in DOMAIN queue' : Ahead(done'[n], queue'[k])
         /\ \A c \in Clients : Waiting(c)' => Ahead(done'[n], Current(c)')
  BY <1>1 DEF Order
<1>5. gpuPc' = "process" =>
         /\ \A k \in DOMAIN queue' : Ahead(item', queue'[k])
         /\ \A c \in Clients : Waiting(c)' => Ahead(item', Current(c)')
  BY <1>1 DEF Order
<1>6. /\ \A j, k \in DOMAIN queue' : j < k => Ahead(queue'[j], queue'[k])
      /\ \A c \in Clients : Waiting(c)' => \A k \in DOMAIN queue' : Ahead(queue'[k], Current(c)')
      /\ gpuPc' = "none" => queue' = <<>> /\ \A c \in Clients : pc'[c] \notin {"push", "notify"}
  BY <1>1 DEF Order
<1> QED
  BY <1>2, <1>3, <1>4, <1>5, <1>6 DEF Order, Ahead

LEMMA OrderStep == ASSUME TypeInv, TypeInv', Order, [Next]_vars PROVE Order'
<1>0. /\ queue \in Seq(Request) /\ done \in Seq(Request) /\ pc \in [Clients -> ClientPc]
      /\ made \in [Clients -> 0 .. MaxRequests] /\ Main \in Clients /\ Loader \in Clients
      /\ Clients = {Main, Loader} /\ Main # Loader
  BY GRTAssumption DEF TypeInv, TypeOK, Clients, GRTAssumption
<1>1. CASE UNCHANGED vars
  BY <1>1, OrderKept DEF vars, gpuVars, clientVars, flagVars, Waiting, Order
<1>2. CASE \E c \in Clients : ReadRunning(c) \/ PushNotify(c)
  <2>1. PICK c \in Clients : ReadRunning(c) \/ PushNotify(c)
    BY <1>2
  <2>2. \A d \in Clients : Waiting(d)' => Waiting(d)
    BY <1>0, <2>1 DEF ReadRunning, PushNotify, Waiting
  <2>3. gpuPc' = "none" => gpuPc = "none" /\ \A d \in Clients : pc'[d] \notin {"push", "notify"}
    BY <1>0, <2>1 DEF ReadRunning, PushNotify, NotifiedGpuPc, gpuVars, flagVars, Order, TypeInv, Phases
  <2> QED
    BY <2>1, <2>2, <2>3, OrderKept
    DEF ReadRunning, PushNotify, NotifiedGpuPc, gpuVars, flagVars, clientVars
<1>3. CASE \/ WaitStop \/ WaitPredicateFalse \/ WaitBlock \/ SpuriousWakeup \/ ExecuteReturn
           \/ (try_pop /\ queue = <<>>)
           \/ start \/ ShutdownStore \/ ShutdownNotify \/ WaitforAllCalled \/ WaitforAllReturns
  <2>1. UNCHANGED <<queue, done, made, pc, item>>
    BY <1>3 DEF WaitStop, WaitPredicateFalse, WaitBlock, SpuriousWakeup, ExecuteReturn, try_pop,
       start, ShutdownStore, ShutdownNotify, WaitforAllCalled, WaitforAllReturns,
       gpuVars, clientVars, flagVars
  <2>2. /\ gpuPc' = "process" => gpuPc = "process"
        /\ gpuPc = "stopped" => gpuPc' = "stopped"
        /\ gpuPc' = "none" => gpuPc = "none"
    BY <1>3 DEF WaitStop, WaitPredicateFalse, WaitBlock, SpuriousWakeup, ExecuteReturn, try_pop,
       start, ShutdownStore, ShutdownNotify, WaitforAllCalled, WaitforAllReturns,
       NotifiedGpuPc, gpuVars, TypeInv, Phases
  <2> QED
    BY <2>1, <2>2, OrderKept DEF Waiting, Order
<1>4. ASSUME NEW c \in Clients, BeginEnqueue(c) PROVE Order'
  <2>1. /\ UNCHANGED <<queue, done, item, gpuPc>>
        /\ pc[c] = "idle" /\ pc'[c] = "enqueue" /\ made'[c] = made[c] + 1
        /\ \A d \in Clients \ {c} : pc'[d] = pc[d] /\ made'[d] = made[d]
    BY <1>0, <1>4 DEF BeginEnqueue, gpuVars
  <2>2. /\ \A d \in Clients \ {c} : Current(d)' = Current(d) /\ (Waiting(d)' <=> Waiting(d))
        /\ Current(c)' = <<c, made[c] + 1>>
    BY <2>1 DEF Current, Waiting
  <2>3. Asked \subseteq Asked' /\ \A r \in Asked : Ahead(r, Current(c)')
    BY <1>0, <2>1, <2>2 DEF Asked, Ahead, Request
  <2>4. \A d \in Clients : pc'[d] \in {"push", "notify"} => pc[d] = pc'[d]
    BY <2>1
  <2>5. \A r \in Asked : (\A d \in Clients : Waiting(d) => Ahead(r, Current(d)))
                            => \A d \in Clients : Waiting(d)' => Ahead(r, Current(d)')
    BY <2>2, <2>3
  <2>6. \A q, r : Ahead(q, r)' <=> Ahead(q, r)
    BY DEF Ahead
  <2> QED
    BY <2>1, <2>3, <2>4, <2>5 DEF Order, Ahead
<1>5. ASSUME NEW c \in Clients, push(c) PROVE Order'
  <2>1. /\ UNCHANGED <<done, item, gpuPc, made>> /\ queue' = Append(queue, Current(c))
        /\ pc[c] = "push" /\ pc'[c] = "notify" /\ \A d \in Clients \ {c} : pc'[d] = pc[d]
    BY <1>0, <1>5 DEF push, gpuVars
  <2>2. /\ Asked' = Asked /\ \A d : Current(d)' = Current(d)
        /\ \A d \in Clients : Waiting(d)' <=> Waiting(d) /\ d # c
    BY <2>1 DEF Asked, Current, Waiting
  <2>3. /\ Waiting(c) /\ Current(c) \in Asked /\ Current(c) \in Request
        /\ \A d \in Clients \ {c} : Ahead(Current(c), Current(d))
    BY <2>1, CurrentOf DEF Waiting
  <2>4. gpuPc # "none"
    BY <2>1 DEF Order
  <2> DEFINE n == Len(queue) + 1
  <2>5. /\ DOMAIN queue' = DOMAIN queue \cup {n} /\ queue'[n] = Current(c)
        /\ \A k \in DOMAIN queue : k < n /\ ~(n < k) /\ queue'[k] = queue[k]
        /\ ~(n < n)
    BY <1>0, <2>1, <2>3, AppendOf
  <2> HIDE DEF n
  <2>6. /\ \A k \in DOMAIN queue' : queue'[k] \in Asked
        /\ gpuPc = "process" => \A k \in DOMAIN queue' : Ahead(item, queue'[k])
        /\ \A m \in DOMAIN done :
              gpuPc # "stopped" => \A k \in DOMAIN queue' : Ahead(done[m], queue'[k])
    BY <2>3, <2>5 DEF Order
  <2>7. \A j, k \in DOMAIN queue' : j < k => Ahead(queue'[j], queue'[k])
    BY <2>3, <2>5 DEF Order
  <2>8. \A d \in Clients : Waiting(d)' => \A k \in DOMAIN queue' : Ahead(queue'[k], Current(d))
    BY <2>2, <2>3, <2>5 DEF Order
  <2> QED
    BY <2>1, <2>2, <2>4, <2>6, <2>7, <2>8 DEF Order, Ahead
<1>6. ASSUME NEW x, x \in Asked, done' = Append(done, x), UNCHANGED <<queue, made>>,
             gpuPc' # "process", gpuPc = "stopped" => gpuPc' = "stopped",
             gpuPc' = "none" => gpuPc = "none" /\ \A c \in Clients : pc'[c] \notin {"push", "notify"},
             gpuPc' # "stopped" => \A k \in DOMAIN queue : Ahead(x, queue[k]),
             \A c \in Clients : Waiting(c)' => Waiting(c) /\ Ahead(x, Current(c))
      PROVE  Order'
  <2>1. Asked' = Asked /\ \A d : Current(d)' = Current(d)
    BY <1>6 DEF Asked, Current
  <2> DEFINE n == Len(done) + 1
  <2>2. /\ DOMAIN done' = DOMAIN done \cup {n} /\ done'[n] = x
        /\ \A k \in DOMAIN done : done'[k] = done[k]
    BY <1>0, <1>6, AppendOf DEF Asked
  <2> HIDE DEF n
  <2>3. \A k \in DOMAIN done' :
           /\ done'[k] \in Asked
           /\ gpuPc' # "stopped" => \A j \in DOMAIN queue : Ahead(done'[k], queue[j])
           /\ \A c \in Clients : Waiting(c)' => Ahead(done'[k], Current(c))
    BY <1>6, <2>2 DEF Order
  <2>4. /\ \A k \in DOMAIN queue : queue[k] \in Asked
        /\ \A j, k \in DOMAIN queue : j < k => Ahead(queue[j], queue[k])
        /\ \A c \in Clients : Waiting(c)' => \A k \in DOMAIN queue : Ahead(queue[k], Current(c))
    BY <1>6 DEF Order
  <2> QED
    BY <1>6, <2>1, <2>3, <2>4 DEF Order, Ahead
<1>7. ASSUME NEW c \in Clients, FinishInline(c) PROVE Order'
  <2>1. /\ UNCHANGED <<queue, made, gpuPc>> /\ done' = Append(done, Current(c))
        /\ pc[c] = "inline" /\ pc'[c] = "idle" /\ \A d \in Clients \ {c} : pc'[d] = pc[d]
    BY <1>0, <1>7 DEF FinishInline, gpuVars
  <2>2. Current(c) \in Asked /\ \A d \in Clients \ {c} : Ahead(Current(c), Current(d))
    BY <2>1, CurrentOf
  <2>3. \/ gpuPc = "none" /\ queue = <<>>
        \/ gpuPc = "stopped"
    BY <1>0, <2>1 DEF TypeInv, Phases, Order
  <2>4. \A d \in Clients : Waiting(d)' => Waiting(d) /\ d # c
    BY <2>1 DEF Waiting
  <2>5. \A d \in Clients : pc'[d] \in {"push", "notify"} => pc[d] = pc'[d]
    BY <2>1
  <2> QED
    BY <1>6, <2>1, <2>2, <2>3, <2>4, <2>5 DEF Order
<1>8. CASE FinishProcess
  <2>1. /\ UNCHANGED <<queue, made, pc>> /\ done' = Append(done, item)
        /\ gpuPc = "process" /\ gpuPc' = "drain"
    BY <1>8 DEF FinishProcess, clientVars
  <2>2. \A d \in Clients : Waiting(d)' <=> Waiting(d)
    BY <2>1 DEF Waiting
  <2> QED
    BY <1>6, <2>1, <2>2 DEF Order
<1>9. CASE WaitPop \/ (try_pop /\ queue # <<>>)
  <2>1. /\ UNCHANGED <<done, made, pc>> /\ queue # <<>> /\ item' = Head(queue)
        /\ queue' = Tail(queue) /\ gpuPc \in {"wait", "drain"} /\ gpuPc' = "process"
    BY <1>9 DEF WaitPop, try_pop, clientVars
  <2>2. Asked' = Asked /\ \A d : Current(d)' = Current(d) /\ (Waiting(d)' <=> Waiting(d))
    BY <2>1 DEF Asked, Current, Waiting
  <2>3. /\ 1 \in DOMAIN queue /\ item' = queue[1]
        /\ \A k \in DOMAIN queue' :
              k \in Nat \ {0} /\ 1 < k + 1 /\ k + 1 \in DOMAIN queue /\ queue'[k] = queue[k + 1]
    BY <1>0, <2>1, TailOf
  <2>4. \A j, k \in DOMAIN queue' : j < k => j + 1 < k + 1
    BY <2>3
  <2>5. /\ item' \in Asked /\ \A k \in DOMAIN queue' : queue'[k] \in Asked
        /\ \A k \in DOMAIN queue' : Ahead(item', queue'[k])
        /\ \A j, k \in DOMAIN queue' : j < k => Ahead(queue'[j], queue'[k])
    BY <2>3, <2>4 DEF Order
  <2>6. \A m \in DOMAIN done : Ahead(done[m], item')
                               /\ \A k \in DOMAIN queue' : Ahead(done[m], queue'[k])
    BY <2>1, <2>3 DEF Order
  <2>7. \A d \in Clients : Waiting(d) =>
           /\ Ahead(item', Current(d)) /\ \A k \in DOMAIN queue' : Ahead(queue'[k], Current(d))
           /\ \A m \in DOMAIN done : Ahead(done[m], Current(d))
    BY <2>3 DEF Order
  <2>8. \A m \in DOMAIN done : done[m] \in Asked
    BY DEF Order
  <2> QED
    BY <2>1, <2>2, <2>5, <2>6, <2>7, <2>8 DEF Order, Ahead
<1> QED
  BY <1>1, <1>2, <1>3, <1>4, <1>5, <1>7, <1>8, <1>9
  DEF Next, Enqueue, Execute, wait_and_pop, shutdown, request_shutdown

\* Who is inside process(), and that it is at most one thread.
LEMMA Alone ==
  ASSUME TypeInv
  PROVE  /\ \A c \in Clients : pc[c] = "inline" => InProcess = {Current(c)} /\ gpuPc # "process"
         /\ gpuPc = "process" => InProcess = {item} /\ \A c \in Clients : pc[c] # "inline"
         /\ gpuPc # "process" /\ (\A c \in Clients : pc[c] # "inline") => InProcess = {}
<1>1. \A c, d \in Clients : pc[c] = "inline" => gpuPc # "process" /\ (pc[d] = "inline" => c = d)
  BY DEF TypeInv, Phases, Clients
<1> QED
  BY <1>1 DEF InProcess

\* A step of the thread or of a caller is a step of SerialUploads, or none.
LEMMA SerialStep ==
  ASSUME TypeInv, TypeInv', Order, [Next]_vars
  PROVE  [Serial!SUNext]_(Serial!suVars)
<1> USE DEF Serial!suVars
<1>0. /\ queue \in Seq(Request) /\ done \in Seq(Request) /\ pc \in [Clients -> ClientPc]
      /\ made \in [Clients -> 0 .. MaxRequests] /\ Main \in Clients /\ Loader \in Clients
      /\ Clients = {Main, Loader} /\ Main # Loader
  BY GRTAssumption DEF TypeInv, TypeOK, Clients, GRTAssumption
<1>1. ASSUME UNCHANGED <<made, done>>, InProcess' = InProcess
      PROVE  UNCHANGED Serial!suVars
  BY <1>1
<1>2. ASSUME NEW r \in Asked, r \in Request, UNCHANGED <<made, done>>, InProcess = {}, InProcess' = {r},
             \A n \in DOMAIN done : Ahead(done[n], r)
      PROVE  Serial!SUNext
  <2>1. \A q \in Serial!Served : Ahead(q, r)
    BY <1>0, <1>2 DEF Serial!Served
  <2>2. r[2] \in Nat
    BY <1>2 DEF Request
  <2>3. r \notin Serial!Served
    BY <2>1, <2>2 DEF Ahead
  <2>4. \A q \in Serial!Served : ~Serial!Later(q, r)
    <3> SUFFICES ASSUME NEW q \in Serial!Served, q[1] = r[1] PROVE ~(q[2] > r[2])
      BY DEF Serial!Later
    <3>1. q \in Request
      BY <1>0 DEF Serial!Served
    <3> QED
      BY <2>1, <2>2, <3>1 DEF Ahead, Request
  <2>5. r \in {q \in Request : q[2] <= made[q[1]]}
    BY <1>2 DEF Asked
  <2>6. Serial!Begin(r)
    BY <1>2, <2>3, <2>4, <2>5 DEF Serial!Begin
  <2> QED
    BY <1>2, <2>6 DEF Serial!SUNext
<1>3. ASSUME NEW r \in Request, made' = made, done' = Append(done, r), InProcess = {r}, InProcess' = {}
      PROVE  Serial!SUNext
  BY <1>3 DEF Serial!SUNext, Serial!Finish
<1>4. ASSUME NEW c \in Clients, BeginEnqueue(c) PROVE Serial!SUNext
  <2> PICK r : r = <<c, made[c] + 1>>
    OBVIOUS
  <2>1. /\ r \in Request /\ r[1] = c /\ r[2] = made[c] + 1
    <3>1. made[c] + 1 \in 1 .. MaxRequests
      BY <1>0, <1>4, GRTAssumption DEF BeginEnqueue, GRTAssumption
    <3> QED
      BY <3>1 DEF Request
  <2>2. /\ UNCHANGED done /\ made'[c] = made[c] + 1
        /\ \A d \in Clients \ {c} : made'[d] = made[d]
    BY <1>0, <1>4 DEF BeginEnqueue
  <2>3. {q \in Request : q[2] <= made'[q[1]]} = {q \in Request : q[2] <= made[q[1]]} \cup {r}
    <3>1. \A q \in Request : q[1] \in Clients /\ q[2] \in Nat /\ q = <<q[1], q[2]>>
      BY DEF Request
    <3>2. \A q \in Request : q[2] <= made'[q[1]] <=> (q[2] <= made[q[1]] \/ q = r)
      BY <1>0, <2>1, <2>2, <3>1
    <3> QED
      BY <2>1, <3>2
  <2>4. InProcess' = InProcess
    <3>1. UNCHANGED <<item, gpuPc>> /\ \A d \in Clients : pc'[d] = "inline" <=> pc[d] = "inline"
      BY <1>0, <1>4 DEF BeginEnqueue, gpuVars
    <3>2. \A d \in Clients : pc[d] = "inline" => Current(d)' = Current(d)
      BY <1>0, <1>4, <2>2 DEF BeginEnqueue, Current
    <3> QED
      BY <3>1, <3>2 DEF InProcess
  <2>5. Serial!Ask(r)
    <3>1. r \notin {q \in Request : q[2] <= made[q[1]]}
      BY <1>0, <2>1
    <3>2. ASSUME NEW q \in {x \in Request : x[2] <= made[x[1]]} PROVE ~Serial!Later(q, r)
      BY <1>0, <2>1, <3>2 DEF Serial!Later, Request
    <3> QED
      BY <2>2, <2>3, <2>4, <3>1, <3>2 DEF Serial!Ask
  <2> QED
    BY <2>1, <2>5 DEF Serial!SUNext
<1>5. ASSUME NEW c \in Clients, ReadRunning(c) PROVE [Serial!SUNext]_(Serial!suVars)
  <2>1. /\ UNCHANGED <<queue, done, made, item, gpuPc, running>> /\ pc[c] = "enqueue"
        /\ pc'[c] = (IF running THEN "push" ELSE "inline")
        /\ \A d \in Clients \ {c} : pc'[d] = pc[d]
        /\ \A d : Current(d)' = Current(d)
    BY <1>0, <1>5 DEF ReadRunning, gpuVars, flagVars, Current
  <2>2. CASE running
    <3>1. InProcess' = InProcess
      BY <2>1, <2>2 DEF InProcess
    <3> QED
      BY <1>1, <2>1, <3>1
  <2>3. CASE ~running
    <3>1. pc'[c] = "inline"
      BY <2>1, <2>3
    <3>2. InProcess' = {Current(c)} /\ gpuPc' # "process"
          /\ \A d \in Clients : pc'[d] = "inline" => d = c
      <4>1. gpuPc' # "process" /\ \A d \in Clients : pc'[d] = "inline" => d = c
        BY <1>0, <3>1 DEF TypeInv, Phases
      <4> QED
        BY <2>1, <3>1, <4>1 DEF InProcess
    <3>3. InProcess = {}
      BY <2>1, <3>2, Alone
    <3>4. Current(c) \in Asked /\ Current(c) \in Request
      BY <2>1, CurrentOf
    <3>5. \A n \in DOMAIN done : Ahead(done[n], Current(c))
      BY <2>1 DEF Order, Waiting
    <3> QED
      BY <1>2, <2>1, <3>2, <3>3, <3>4, <3>5
  <2> QED
    BY <2>2, <2>3
<1>6. ASSUME NEW c \in Clients, push(c) \/ PushNotify(c) PROVE [Serial!SUNext]_(Serial!suVars)
  <2>1. /\ UNCHANGED <<done, made, item>> /\ (gpuPc' = "process" <=> gpuPc = "process")
        /\ \A d \in Clients : pc'[d] = "inline" <=> pc[d] = "inline"
    BY <1>0, <1>6 DEF push, PushNotify, NotifiedGpuPc, gpuVars
  <2> QED
    BY <1>1, <2>1 DEF InProcess, Current
<1>7. ASSUME NEW c \in Clients, FinishInline(c) PROVE Serial!SUNext
  <2>1. /\ UNCHANGED <<made, item, gpuPc>> /\ done' = Append(done, Current(c)) /\ pc[c] = "inline"
        /\ pc'[c] = "idle" /\ \A d \in Clients \ {c} : pc'[d] = pc[d]
    BY <1>0, <1>7 DEF FinishInline, gpuVars
  <2>2. InProcess = {Current(c)} /\ gpuPc # "process" /\ \A d \in Clients \ {c} : pc[d] # "inline"
    BY <1>0, <2>1, Alone DEF TypeInv, Phases
  <2>3. InProcess' = {}
    BY <2>1, <2>2 DEF InProcess
  <2> QED
    BY <1>3, <2>1, <2>2, <2>3, CurrentOf
<1>8. CASE FinishProcess
  <2>1. /\ UNCHANGED <<made, pc>> /\ done' = Append(done, item) /\ gpuPc = "process" /\ gpuPc' = "drain"
    BY <1>8 DEF FinishProcess, clientVars
  <2>2. InProcess = {item} /\ item \in Request /\ \A c \in Clients : pc[c] # "inline"
    BY <2>1, Alone DEF TypeInv, TypeOK
  <2>3. InProcess' = {}
    BY <2>1, <2>2 DEF InProcess
  <2> QED
    BY <1>3, <2>1, <2>2, <2>3
<1>9. CASE WaitPop \/ (try_pop /\ queue # <<>>)
  <2>1. /\ UNCHANGED <<done, made, pc>> /\ queue # <<>> /\ item' = Head(queue)
        /\ gpuPc \in {"wait", "drain"} /\ gpuPc' = "process"
    BY <1>9 DEF WaitPop, try_pop, clientVars
  <2>2. 1 \in DOMAIN queue /\ item' = queue[1] /\ item' \in Request
    BY <1>0, <2>1, TailOf
  <2>3. \A c \in Clients : pc[c] # "inline"
    BY <2>1 DEF TypeInv, Phases, Clients
  <2>4. InProcess = {} /\ InProcess' = {item'}
    BY <2>1, <2>3, Alone DEF InProcess
  <2>5. item' \in Asked /\ \A n \in DOMAIN done : Ahead(done[n], item')
    BY <2>1, <2>2 DEF Order
  <2> QED
    BY <1>2, <2>1, <2>2, <2>4, <2>5
<1>10. CASE \/ WaitStop \/ WaitPredicateFalse \/ WaitBlock \/ SpuriousWakeup \/ ExecuteReturn
            \/ (try_pop /\ queue = <<>>)
            \/ start \/ ShutdownStore \/ ShutdownNotify \/ WaitforAllCalled \/ WaitforAllReturns
            \/ UNCHANGED vars
  <2>1. UNCHANGED <<done, made, pc, item>>
    BY <1>10 DEF WaitStop, WaitPredicateFalse, WaitBlock, SpuriousWakeup, ExecuteReturn, try_pop,
       start, ShutdownStore, ShutdownNotify, WaitforAllCalled, WaitforAllReturns,
       gpuVars, clientVars, flagVars, vars
  <2>2. gpuPc' = "process" <=> gpuPc = "process"
    BY <1>10 DEF WaitStop, WaitPredicateFalse, WaitBlock, SpuriousWakeup, ExecuteReturn, try_pop,
       start, ShutdownStore, ShutdownNotify, WaitforAllCalled, WaitforAllReturns,
       NotifiedGpuPc, gpuVars, vars, TypeInv, Phases
  <2> QED
    BY <1>1, <2>1, <2>2 DEF InProcess, Current
<1> QED
  BY <1>4, <1>5, <1>6, <1>7, <1>8, <1>9, <1>10
  DEF Next, Enqueue, Execute, wait_and_pop, shutdown, request_shutdown

LEMMA OrderInvariance == Spec => [](TypeInv /\ Order)
<1>1. ASSUME Init PROVE Order
  <2>1. /\ queue = <<>> /\ done = <<>> /\ gpuPc = "none" /\ \A c \in Clients : pc[c] = "idle"
    BY <1>1 DEF Init
  <2> QED
    BY <2>1 DEF Order, Waiting
<1>2. TypeInv /\ Order /\ [Next]_vars => TypeInv' /\ Order'
  BY TypeStep, OrderStep
<1> QED
  BY <1>1, <1>2, TypeInit, PTL DEF Spec

\* Whoever runs the requests, they run one at a time, each at most once, and a
\* client's in the order in which it made them: the queue, the immediate path
\* before the start and the one after the loop's end do not overtake each other.
THEOREM UploadsInOrder == Spec => ServesInOrder
<1>1. ASSUME Init PROVE Serial!SUInit
  <2>1. /\ done = <<>> /\ gpuPc = "none" /\ \A c \in Clients : pc[c] = "idle" /\ made[c] = 0
    BY <1>1 DEF Init
  <2>2. \A r \in Request : r[1] \in Clients /\ r[2] \in 1 .. MaxRequests
    BY DEF Request
  <2>3. {r \in Request : r[2] <= made[r[1]]} = {}
    BY <2>1, <2>2
  <2>4. InProcess = {}
    BY <2>1 DEF InProcess
  <2> QED
    BY <2>1, <2>3, <2>4 DEF Serial!SUInit
<1>2. TypeInv /\ Order /\ [Next]_vars => [Serial!SUNext]_(Serial!suVars)
  BY TypeStep, SerialStep
<1> QED
  BY <1>1, <1>2, OrderInvariance, PTL DEF Spec, ServesInOrder, Serial!SUSpec

-----------------------------------------------------------------------------
(* MeshBufferAllocator.                                                    *)

VP == INSTANCE PageAllocatorProofs WITH
    Unit <- BytesPerVertex, PageBytes <- VertexPageBytes,
    pages <- vertexPages, ranges <- vertexRanges

IP == INSTANCE PageAllocatorProofs WITH
    Unit <- IndexBytes, PageBytes <- default_index_page_bytes,
    pages <- indexPages, ranges <- indexRanges

LEMMA VertexParameters == VP!PAParameters
BY MBAAssumption DEF MBAAssumption, VP!PAParameters

LEMMA OneVertexFits ==
  ASSUME NEW u \in Nat \ {0}, NEW bytes \in Nat, u <= bytes
  PROVE  bytes \div u \in Nat \ {0}
BY SMTT(20)

LEMMA TripleBytes ==
  ASSUME NEW k \in Nat \ {0}, NEW b \in Nat \ {0}
  PROVE  k * 3 * b \in Nat /\ b <= k * 3 * b
BY SMTT(20)

\* An index page holds at least one index, because a vertex page holds at
\* least one vertex.
LEMMA IndexParameters == IP!PAParameters
<1> DEFINE k == VertexPageBytes \div BytesPerVertex
<1>1. k \in Nat \ {0}
  BY MBAAssumption, OneVertexFits DEF MBAAssumption
<1>2. IndexBytes \in Nat \ {0}
  BY MBAAssumption DEF MBAAssumption
<1> HIDE DEF k
<1>3. k * 3 * IndexBytes \in Nat /\ IndexBytes <= k * 3 * IndexBytes
  BY <1>1, <1>2, TripleBytes
<1> QED
  BY <1>2, <1>3 DEF IP!PAParameters, default_index_page_bytes, k

(* The inductive invariant: that of each allocator, and one slice of each   *)
(* per upload.                                                              *)
MInv ==
    /\ device \in BOOLEAN
    /\ VP!PAInv
    /\ IP!PAInv
    /\ Len(vertexRanges) = Len(indexRanges)

LEMMA MInvInit == MBAInit => MInv
<1> SUFFICES ASSUME MBAInit PROVE MInv
  OBVIOUS
<1>1. VP!PAInit /\ IP!PAInit
  BY DEF MBAInit, Vertices!PAInit, Indices!PAInit, VP!PAInit, IP!PAInit
<1>2. VP!PAInv /\ IP!PAInv
  BY <1>1, VP!PAInvInit, IP!PAInvInit
<1> QED
  BY <1>1, <1>2 DEF MBAInit, MInv, VP!PAInit, IP!PAInit

\* What upload does to the ranges: each allocator appends one.
LEMMA UploadAppends ==
  ASSUME MInv, NEW shape \in MeshShapes, upload(shape)
  PROVE  /\ VP!PAInv' /\ IP!PAInv'
         /\ \E v : vertexRanges' = Append(vertexRanges, v)
         /\ \E i : indexRanges' = Append(indexRanges, i)
<1>1. shape[1] \in Nat \ {0} /\ shape[2] \in Nat \ {0}
  BY MBAAssumption DEF MBAAssumption
<1>2. Vertices!allocate(shape[1]) /\ Indices!allocate(shape[2])
  BY DEF upload
<1>3. VP!PANext /\ IP!PANext
  BY <1>1, <1>2 DEF VP!PANext, IP!PANext, Vertices!allocate, VP!allocate,
     Indices!allocate, IP!allocate, Vertices!Reuse, VP!Reuse, Indices!Reuse,
     IP!Reuse, Vertices!AddPage, VP!AddPage, Indices!AddPage, IP!AddPage,
     Vertices!FirstFit, VP!FirstFit, Indices!FirstFit, IP!FirstFit,
     Vertices!remaining_bytes, VP!remaining_bytes, Indices!remaining_bytes,
     IP!remaining_bytes, Vertices!create_page, VP!create_page,
     Indices!create_page, IP!create_page
<1>4. VP!PAInv'
  BY <1>3, VertexParameters, VP!PAInvStep DEF MInv
<1>5. IP!PAInv'
  BY <1>3, IndexParameters, IP!PAInvStep DEF MInv
<1>6. \E v : vertexRanges' = Append(vertexRanges, v)
  BY <1>2 DEF Vertices!allocate, Vertices!Reuse, Vertices!AddPage
<1>7. \E i : indexRanges' = Append(indexRanges, i)
  BY <1>2 DEF Indices!allocate, Indices!Reuse, Indices!AddPage
<1> QED
  BY <1>4, <1>5, <1>6, <1>7

LEMMA MInvStep == MInv /\ [MBANext]_mbaVars => MInv'
<1> SUFFICES ASSUME MInv, [MBANext]_mbaVars PROVE MInv'
  OBVIOUS
<1>1. ASSUME NEW shape \in MeshShapes, upload(shape) PROVE MInv'
  <2>1. /\ VP!PAInv' /\ IP!PAInv'
        /\ \E v : vertexRanges' = Append(vertexRanges, v)
        /\ \E i : indexRanges' = Append(indexRanges, i)
    BY <1>1, UploadAppends
  <2>2. /\ \E S : vertexRanges \in Seq(S)
        /\ \E S : indexRanges \in Seq(S)
    BY DEF MInv, VP!PAInv, IP!PAInv, VP!PATypeOK, IP!PATypeOK
  <2>3. Len(vertexRanges') = Len(vertexRanges) + 1
    BY <2>1, <2>2
  <2>4. Len(indexRanges') = Len(indexRanges) + 1
    BY <2>1, <2>2
  <2> QED
    BY <1>1, <2>1, <2>3, <2>4 DEF MInv, upload
<1>2. CASE cleanup
  <2>1. VP!PAInit' /\ IP!PAInit' /\ Len(vertexRanges') = Len(indexRanges')
    BY <1>2 DEF cleanup, Vertices!cleanup, Indices!cleanup, VP!PAInit, IP!PAInit
  <2>2. VP!PAInv' /\ IP!PAInv'
    BY <1>2 DEF cleanup, Vertices!cleanup, Indices!cleanup, VP!PAInv, IP!PAInv,
       VP!PATypeOK, IP!PATypeOK, VP!PagesWhole, IP!PagesWhole, VP!RangesUsed,
       IP!RangesUsed, VP!RangesOrdered, IP!RangesOrdered
  <2> QED
    BY <1>2, <2>1, <2>2 DEF MInv, cleanup
<1>3. CASE UNCHANGED mbaVars
  <2>1. /\ vertexPages' = vertexPages /\ vertexRanges' = vertexRanges
        /\ indexPages' = indexPages /\ indexRanges' = indexRanges
    BY <1>3 DEF mbaVars, vertexVars, indexVars
  <2>2. VP!PAInv' /\ IP!PAInv'
    BY <2>1 DEF MInv, VP!PAInv, IP!PAInv,
       VP!PATypeOK, IP!PATypeOK, VP!PagesWhole, IP!PagesWhole, VP!RangesUsed,
       IP!RangesUsed, VP!RangesOrdered, IP!RangesOrdered
  <2> QED
    BY <1>3, <2>1, <2>2 DEF MInv, mbaVars
<1>4. CASE initialize
  <2>1. /\ vertexPages' = vertexPages /\ vertexRanges' = vertexRanges
        /\ indexPages' = indexPages /\ indexRanges' = indexRanges
    BY <1>4 DEF initialize, vertexVars, indexVars
  <2>2. VP!PAInv' /\ IP!PAInv'
    BY <2>1 DEF MInv, VP!PAInv, IP!PAInv,
       VP!PATypeOK, IP!PATypeOK, VP!PagesWhole, IP!PagesWhole, VP!RangesUsed,
       IP!RangesUsed, VP!RangesOrdered, IP!RangesOrdered
  <2> QED
    BY <1>4, <2>1, <2>2 DEF MInv, initialize
<1> QED
  BY <1>1, <1>2, <1>3, <1>4 DEF MBANext

LEMMA InvImpliesSlices == MInv => MBATypeOK /\ SlicesDisjoint /\ SlicesInside
<1> SUFFICES ASSUME MInv PROVE MBATypeOK /\ SlicesDisjoint /\ SlicesInside
  OBVIOUS
<1>1. VP!PATypeOK /\ IP!PATypeOK /\ Len(vertexRanges) = Len(indexRanges)
  BY DEF MInv, VP!PAInv, IP!PAInv
<1>2. MBATypeOK
  BY <1>1 DEF MInv, MBATypeOK, VP!PATypeOK, IP!PATypeOK, Vertices!PATypeOK,
     Indices!PATypeOK, VP!Page, IP!Page, Vertices!Page, Indices!Page,
     VP!RangeRec, IP!RangeRec, Vertices!RangeRec, Indices!RangeRec
<1>3. VP!RangesDisjoint /\ IP!RangesDisjoint
  BY VP!InvImpliesDisjoint, IP!InvImpliesDisjoint DEF MInv
<1>4. SlicesDisjoint
  BY <1>3 DEF SlicesDisjoint, VP!RangesDisjoint, IP!RangesDisjoint,
     Vertices!RangesDisjoint, Indices!RangesDisjoint,
     VP!Overlap, IP!Overlap, Vertices!Overlap, Indices!Overlap
<1>5. VP!RangesInside
  BY VertexParameters, VP!InvImpliesInside DEF MInv
<1>6. IP!RangesInside
  BY IndexParameters, IP!InvImpliesInside DEF MInv
<1>7. SlicesInside
  BY <1>5, <1>6 DEF SlicesInside, VP!RangesInside, IP!RangesInside,
     Vertices!RangesInside, Indices!RangesInside,
     VP!capacity, IP!capacity, Vertices!capacity, Indices!capacity
<1> QED
  BY <1>2, <1>4, <1>7

\* Types, and that every upload has one range of each kind.
THEOREM MeshTypesCorrect == MBASpec => []MBATypeOK
<1>1. MInv => MBATypeOK
  BY InvImpliesSlices
<1> QED
  BY MInvInit, MInvStep, <1>1, PTL DEF MBASpec

\* No two meshes ever share a vertex or an index of a page.
THEOREM MeshesDoNotOverlap == MBASpec => []SlicesDisjoint
<1>1. MInv => SlicesDisjoint
  BY InvImpliesSlices
<1> QED
  BY MInvInit, MInvStep, <1>1, PTL DEF MBASpec

\* Every slice fits its pages' buffers, for a mesh of any size.
THEOREM MeshesFitTheirPages == MBASpec => []SlicesInside
<1>1. MInv => SlicesInside
  BY InvImpliesSlices
<1> QED
  BY MInvInit, MInvStep, <1>1, PTL DEF MBASpec

(* What a mesh draws from is what its upload wrote: the new slice's places   *)
(* are disjoint from those of every earlier slice.                          *)

LEMMA UnitsDisjoint ==
  ASSUME NEW kind, NEW r, NEW s, ~Vertices!Overlap(r, s),
         r.page \in Nat, r.offset \in Nat, r.count \in Nat,
         s.page \in Nat, s.offset \in Nat, s.count \in Nat
  PROVE  Units(kind, r) \cap Units(kind, s) = {}
<1> SUFFICES ASSUME NEW u \in r.offset .. r.offset + r.count - 1,
                    NEW w \in s.offset .. s.offset + s.count - 1,
                    r.page = s.page, u = w
             PROVE  FALSE
  BY DEF Units
<1> QED
  BY DEF Vertices!Overlap

LEMMA KindsDisjoint ==
  ASSUME NEW r, NEW s
  PROVE  Units("vertex", r) \cap Units("index", s) = {}
BY DEF Units

PlacesApart ==
    \A m, n \in DOMAIN vertexRanges \cap DOMAIN indexRanges :
        m # n =>
            (Units("vertex", vertexRanges[m]) \cup Units("index", indexRanges[m]))
                \cap Targets(vertexRanges[n], indexRanges[n]) = {}

\* The places of a slice are disjoint from those of every other one.
LEMMA InvImpliesApart == MInv => PlacesApart
<1> SUFFICES ASSUME MInv, NEW m \in DOMAIN vertexRanges \cap DOMAIN indexRanges,
                    NEW n \in DOMAIN vertexRanges \cap DOMAIN indexRanges, m # n
             PROVE  (Units("vertex", vertexRanges[m])
                         \cup Units("index", indexRanges[m]))
                        \cap Targets(vertexRanges[n], indexRanges[n]) = {}
  BY DEF PlacesApart
<1>1. /\ vertexRanges \in Seq(VP!RangeRec) /\ indexRanges \in Seq(IP!RangeRec)
      /\ SlicesDisjoint
  BY InvImpliesSlices DEF MInv, VP!PAInv, IP!PAInv, VP!PATypeOK, IP!PATypeOK
<1>2. /\ ~Vertices!Overlap(vertexRanges[m], vertexRanges[n])
      /\ ~Vertices!Overlap(indexRanges[m], indexRanges[n])
  BY <1>1 DEF SlicesDisjoint, Vertices!RangesDisjoint, Indices!RangesDisjoint,
     Vertices!Overlap, Indices!Overlap
<1>3. \A k \in {m, n} : /\ vertexRanges[k] \in VP!RangeRec
                        /\ indexRanges[k] \in IP!RangeRec
  BY <1>1
<1>4. \A k \in {m, n} :
        /\ vertexRanges[k].page \in Nat /\ vertexRanges[k].offset \in Nat
        /\ vertexRanges[k].count \in Nat
        /\ indexRanges[k].page \in Nat /\ indexRanges[k].offset \in Nat
        /\ indexRanges[k].count \in Nat
  BY <1>3 DEF VP!RangeRec, IP!RangeRec
<1>5. Units("vertex", vertexRanges[m]) \cap Units("vertex", vertexRanges[n]) = {}
  BY <1>2, <1>4, UnitsDisjoint
<1>6. Units("index", indexRanges[m]) \cap Units("index", indexRanges[n]) = {}
  BY <1>2, <1>4, UnitsDisjoint
<1>7. Units("vertex", vertexRanges[m]) \cap Units("index", indexRanges[n]) = {}
  BY KindsDisjoint
<1>8. Units("vertex", vertexRanges[n]) \cap Units("index", indexRanges[m]) = {}
  BY KindsDisjoint
<1> QED
  BY <1>5, <1>6, <1>7, <1>8 DEF Targets

LEMMA GeometryStep ==
  ASSUME MInv, MInv', GeometryIntact, [MBANext]_mbaVars
  PROVE  GeometryIntact'
<1>1. ASSUME NEW shape \in MeshShapes, upload(shape) PROVE GeometryIntact'
  <2> DEFINE new == Len(vertexRanges')
             places == Targets(vertexRanges'[new], indexRanges'[new])
  <2>0. PlacesApart'
    BY InvImpliesApart, PTL
  <2>1. \A p \in DOMAIN written \cup places :
            /\ p \in DOMAIN written'
            /\ written'[p] = IF p \in places THEN new ELSE written[p]
    BY <1>1 DEF upload
  <2>2. /\ \E v : vertexRanges' = Append(vertexRanges, v)
        /\ \E i : indexRanges' = Append(indexRanges, i)
    BY <1>1, UploadAppends
  <2>3. /\ \E S : vertexRanges \in Seq(S)
        /\ \E S : indexRanges \in Seq(S)
        /\ Len(vertexRanges) = Len(indexRanges)
    BY DEF MInv, VP!PAInv, IP!PAInv, VP!PATypeOK, IP!PATypeOK
  <2>4. /\ new = Len(vertexRanges) + 1 /\ Len(vertexRanges) \in Nat
        /\ DOMAIN vertexRanges = 1 .. Len(vertexRanges)
        /\ DOMAIN vertexRanges' = 1 .. Len(vertexRanges) + 1
        /\ \A m \in DOMAIN vertexRanges : vertexRanges'[m] = vertexRanges[m]
    BY <2>2, <2>3
  <2>5. /\ DOMAIN indexRanges' = 1 .. Len(vertexRanges) + 1
        /\ \A m \in DOMAIN vertexRanges : indexRanges'[m] = indexRanges[m]
    BY <2>2, <2>3
  <2> SUFFICES ASSUME NEW m \in DOMAIN vertexRanges',
                      NEW p \in Units("vertex", vertexRanges'[m])
                                    \cup Units("index", indexRanges'[m])
               PROVE  p \in DOMAIN written' /\ written'[p] = m
    BY DEF GeometryIntact
  <2>6. CASE m = new
    <3>1. p \in places
      BY <2>6 DEF Targets
    <3> QED
      BY <2>1, <2>6, <3>1
  <2>7. CASE m \in DOMAIN vertexRanges
    <3>1. p \in DOMAIN written /\ written[p] = m
      BY <2>4, <2>5, <2>7 DEF GeometryIntact
    <3>2. m # new /\ new \in DOMAIN vertexRanges' /\ new \in DOMAIN indexRanges'
          /\ m \in DOMAIN indexRanges'
      BY <2>4, <2>5, <2>7
    <3>3. p \notin places
      <4>1. (Units("vertex", vertexRanges'[m]) \cup Units("index", indexRanges'[m]))
                \cap Targets(vertexRanges'[new], indexRanges'[new]) = {}
        BY <3>2, <2>0 DEF PlacesApart
      <4> QED
        BY <4>1
    <3> QED
      BY <2>1, <3>1, <3>3
  <2> QED
    BY <2>4, <2>6, <2>7
<1>2. CASE cleanup
  BY <1>2 DEF cleanup, Vertices!cleanup, Indices!cleanup, GeometryIntact
<1>3. CASE UNCHANGED mbaVars
  BY <1>3 DEF mbaVars, vertexVars, indexVars, GeometryIntact, Units
<1>4. CASE initialize
  BY <1>4 DEF initialize, vertexVars, indexVars, GeometryIntact, Units
<1> QED
  BY <1>1, <1>2, <1>3, <1>4 DEF MBANext

\* Every place a mesh draws from holds what the mesh's own upload wrote there,
\* whatever is uploaded after it.
THEOREM GeometryStaysIntact == MBASpec => []GeometryIntact
<1> DEFINE GInv == MInv /\ GeometryIntact
<1>1. MBAInit => GInv
  BY MInvInit DEF MBAInit, Vertices!PAInit, GeometryIntact
<1>2. GInv /\ [MBANext]_mbaVars => GInv'
  BY MInvStep, GeometryStep
<1> QED
  BY <1>1, <1>2, PTL DEF MBASpec

-----------------------------------------------------------------------------
(* ResourceLifetime. Its steps are steps of the two components, so what was  *)
(* shown of them holds of it.                                               *)

LEMMA LTQueueStep == [LTNext]_ltVars => [Next]_vars
<1> USE DEF Next, Enqueue, Execute, shutdown
<1>1. CASE Create
  BY <1>1 DEF Create, upload_mesh, create_texture_miss, insert_lost, insert, Ask
<1>2. CASE Process
  BY <1>2 DEF Process
<1>3. CASE Queue
  BY <1>3 DEF Queue
<1>4. CASE run \/ render_one_frame \/ FramesComplete \/ RenderReturn
  BY <1>4 DEF run, render_one_frame, FramesComplete, RenderReturn
<1>5. CASE JoinTasks
  BY <1>5 DEF JoinTasks
<1>6. CASE shutdown_device \/ cleanup_storage \/ cleanup_meshes \/ cleanup_done
  BY <1>6 DEF shutdown_device, cleanup_storage, cleanup_meshes, cleanup_done
<1>7. ASSUME NEW t \in Textures, cleanup_texture(t) PROVE UNCHANGED vars
  BY <1>7 DEF cleanup_texture
<1>8. CASE UNCHANGED ltVars
  BY <1>8 DEF ltVars
<1> QED
  BY <1>1, <1>2, <1>3, <1>4, <1>5, <1>6, <1>7, <1>8 DEF LTNext, Teardown

LEMMA LTMeshStep == [LTNext]_ltVars => [MBANext]_mbaVars
<1> USE DEF MBANext, resources
<1>1. CASE Create
  BY <1>1 DEF Create, upload_mesh, create_texture_miss, insert_lost, insert, Ask
<1>2. ASSUME NEW r, process(r) PROVE [MBANext]_mbaVars
  <2>1. r \in Meshes => Shape[r] \in MeshShapes
    BY AssetsAreRequests DEF AssetsAreRequests
  <2> QED
    BY <1>2, <2>1 DEF process
<1>3. CASE Process
  BY <1>2, <1>3 DEF Process
<1>4. CASE Queue
  BY <1>4 DEF Queue
<1>5. CASE run \/ render_one_frame \/ FramesComplete \/ RenderReturn
  BY <1>5 DEF run, render_one_frame, FramesComplete, RenderReturn
<1>6. CASE JoinTasks \/ shutdown_device \/ cleanup_storage \/ cleanup_meshes \/ cleanup_done
  BY <1>6 DEF JoinTasks, shutdown_device, cleanup_storage, cleanup_meshes, cleanup_done
<1>7. ASSUME NEW t \in Textures, cleanup_texture(t) PROVE UNCHANGED mbaVars
  BY <1>7 DEF cleanup_texture
<1>8. CASE UNCHANGED ltVars
  BY <1>8 DEF ltVars
<1> QED
  BY <1>1, <1>3, <1>4, <1>5, <1>6, <1>7, <1>8 DEF LTNext, Teardown

LEMMA LTImplementsSpec == LTSpec => Spec
<1>1. LTInit => Init
  BY DEF LTInit
<1> QED
  BY <1>1, LTQueueStep, PTL DEF LTSpec, Spec

\* The renderer's uploads, frames and teardown around the queue do not disturb
\* it: uploads stay serialised in the composition.
THEOREM LifetimeSerialized == LTSpec => []UploadsSerialized
BY LTImplementsSpec, UploadsAreSerialized, PTL

\* Nor the drain before the loop's end.
THEOREM LifetimeDrains == LTSpec => []DrainedBeforeStop
BY LTImplementsSpec, DrainsBeforeStop, PTL

\* Nor the order: the composition refines SerialUploads.
THEOREM LifetimeInOrder == LTSpec => ServesInOrder
BY LTImplementsSpec, UploadsInOrder, PTL

LEMMA MeshInvariance == LTSpec => [](MInv /\ GeometryIntact)
<1>1. ASSUME LTInit PROVE MInv /\ GeometryIntact
  <2>1. VP!PAInit /\ IP!PAInit
    BY <1>1 DEF LTInit, Vertices!PAInit, Indices!PAInit, VP!PAInit, IP!PAInit
  <2>2. VP!PAInv /\ IP!PAInv
    BY <2>1, VP!PAInvInit, IP!PAInvInit
  <2>3. MInv
    BY <1>1, <2>1, <2>2 DEF LTInit, MInv, VP!PAInit, IP!PAInit
  <2>4. GeometryIntact
    BY <2>1 DEF VP!PAInit, GeometryIntact
  <2> QED
    BY <2>3, <2>4
<1>2. MInv /\ GeometryIntact /\ [LTNext]_ltVars => (MInv /\ GeometryIntact)'
  BY LTMeshStep, MInvStep, GeometryStep
<1> QED
  BY <1>1, <1>2, PTL DEF LTSpec

\* Meshes that are uploaded by different threads before, during and after the
\* loop share no vertex and no index and stay inside their pages.
THEOREM LifetimeSlices == LTSpec => [](SlicesDisjoint /\ SlicesInside)
<1>1. MInv => SlicesDisjoint /\ SlicesInside
  BY InvImpliesSlices
<1> QED
  BY MeshInvariance, <1>1, PTL

\* And what each of them draws from stays as its upload left it.
THEOREM LifetimeGeometry == LTSpec => []GeometryIntact
BY MeshInvariance, PTL

(* The life of an asset: it is uploaded once, from CPU_Loaded to GPU_Ready,  *)
(* between the call that makes it and the end of the threads.               *)

Life ==
    /\ state \in [Request -> {"none", "CPU_Loaded", "GPU_Ready", "deleted"}]
    /\ mainPc # "joined" =>
           /\ \A r \in Request \ Asked : state[r] = "none"
           /\ \A c \in Clients : Waiting(c) => state[Current(c)] = "CPU_Loaded"
           /\ \A k \in DOMAIN queue : state[queue[k]] = "CPU_Loaded"
           /\ gpuPc = "process" => state[item] = "CPU_Loaded"

\* The teardown goes on in an empty house.
TakenDown ==
    /\ mainPc = "joined" =>
           /\ gpuPc = "stopped" /\ rendering # "running"
           /\ \A c \in Clients : pc[c] = "idle" /\ ~Creating(c)
    /\ Creating(Main) => mainPc \in {"setup", "run"}
    /\ teardown # "none" => mainPc = "joined" /\ gpuReads = {}
    /\ device <=> teardown \in {"none", "device"}

\* What frames may draw has been uploaded to pages that exist.
Drawn ==
    /\ \A r \in gpuReads : r \in Request /\ state[r] = "GPU_Ready"
    /\ device => \A r \in Meshes : state[r] = "GPU_Ready" =>
                     r \in DOMAIN slice /\ slice[r] \in DOMAIN vertexRanges

\* An entry of the cache is of a request that was made, and who is inside
\* create_texture is about to make one for a texture.
Entries ==
    /\ DOMAIN textures \subseteq Asked
    /\ \A c \in DOMAIN creating : c \in Clients /\ <<c, made[c] + 1>> \in Textures
    /\ teardown = "cleaned" => textures = << >>

LTInv == Life /\ TakenDown /\ Drawn /\ Entries

LEMMA LTInitInv == LTInit => LTInv
<1> SUFFICES ASSUME LTInit PROVE LTInv
  OBVIOUS
<1>1. /\ queue = <<>> /\ gpuPc = "none" /\ mainPc = "setup"
      /\ \A c \in Clients : pc[c] = "idle"
      /\ state = [r \in Request |-> "none"]
      /\ textures = << >> /\ creating = << >> /\ gpuReads = {} /\ teardown = "none" /\ device = TRUE
  BY DEF LTInit, Init
<1>2. Life
  BY <1>1 DEF Life, Waiting
<1>3. TakenDown /\ Entries
  <2>1. DOMAIN textures = {} /\ DOMAIN creating = {}
    BY <1>1
  <2> QED
    BY <1>1, <2>1 DEF TakenDown, Entries, Creating
<1>4. Drawn
  <2>1. \A r \in Meshes : r \in Request
    BY AssetsAreRequests DEF AssetsAreRequests
  <2> QED
    BY <1>1, <2>1 DEF Drawn
<1> QED
  BY <1>2, <1>3, <1>4 DEF LTInv

\* A step that makes no request and uploads nothing.
LEMMA LifeKept ==
  ASSUME Life, UNCHANGED <<state, made>>,
         mainPc' # "joined" => mainPc # "joined",
         \A c \in Clients : Waiting(c)' => Waiting(c),
         \A k \in DOMAIN queue' :
             \/ \E n \in DOMAIN queue : queue'[k] = queue[n]
             \/ \E c \in Clients : Waiting(c) /\ queue'[k] = Current(c),
         gpuPc' = "process" =>
             \/ gpuPc = "process" /\ item' = item
             \/ \E n \in DOMAIN queue : item' = queue[n]
  PROVE  Life'
<1>1. Asked' = Asked /\ \A c : Current(c)' = Current(c)
  BY DEF Asked, Current
<1> HIDE DEF Asked, Current, Waiting
<1>2. ASSUME mainPc' # "joined"
      PROVE  /\ \A r \in Request \ Asked : state[r] = "none"
             /\ \A c \in Clients : Waiting(c) => state[Current(c)] = "CPU_Loaded"
             /\ \A k \in DOMAIN queue : state[queue[k]] = "CPU_Loaded"
             /\ gpuPc = "process" => state[item] = "CPU_Loaded"
  BY <1>2 DEF Life
<1>3. ASSUME mainPc' # "joined"
      PROVE  /\ \A r \in Request \ Asked' : state'[r] = "none"
             /\ \A c \in Clients : Waiting(c)' => state'[Current(c)'] = "CPU_Loaded"
             /\ \A k \in DOMAIN queue' : state'[queue'[k]] = "CPU_Loaded"
             /\ gpuPc' = "process" => state'[item'] = "CPU_Loaded"
  BY <1>1, <1>2, <1>3
<1>4. state' \in [Request -> {"none", "CPU_Loaded", "GPU_Ready", "deleted"}]
  BY DEF Life
<1> QED
  BY <1>3, <1>4 DEF Life

LEMMA QueueLife == ASSUME TypeInv, Life, Queue PROVE Life'
<1>0. /\ queue \in Seq(Request) /\ pc \in [Clients -> ClientPc]
      /\ UNCHANGED state
  BY DEF TypeInv, TypeOK, Queue, resources
<1>1. ASSUME NEW c \in Clients, ReadRunning(c) \/ PushNotify(c) PROVE Life'
  <2>1. \A d \in Clients : Waiting(d)' => Waiting(d)
    BY <1>0, <1>1 DEF ReadRunning, PushNotify, Waiting
  <2> QED
    BY <1>0, <1>1, <2>1, LifeKept
    DEF ReadRunning, PushNotify, NotifiedGpuPc, gpuVars, flagVars
<1>2. ASSUME NEW c \in Clients, push(c) PROVE Life'
  <2>1. \A d \in Clients : Waiting(d)' => Waiting(d)
    BY <1>0, <1>2 DEF push, Waiting
  <2>2. Waiting(c) /\ Current(c) \in Request
    BY <1>2, CurrentOf DEF push, Waiting
  <2>3. \A k \in DOMAIN queue' :
            \/ \E n \in DOMAIN queue : queue'[k] = queue[n]
            \/ \E d \in Clients : Waiting(d) /\ queue'[k] = Current(d)
    BY <1>0, <1>2, <2>2, AppendOf DEF push
  <2> QED
    BY <1>0, <1>2, <2>1, <2>3, LifeKept DEF push, gpuVars
<1>3. ASSUME queue # <<>>, item' = Head(queue), queue' = Tail(queue), UNCHANGED <<pc, made, mainPc>>
      PROVE  Life'
  <2>1. /\ \E n \in DOMAIN queue : item' = queue[n]
        /\ \A k \in DOMAIN queue' : \E n \in DOMAIN queue : queue'[k] = queue[n]
    BY <1>0, <1>3, TailOf
  <2> QED
    BY <1>0, <1>3, <2>1, LifeKept DEF Waiting
<1>4. CASE WaitPop \/ (try_pop /\ queue # <<>>)
  BY <1>3, <1>4 DEF WaitPop, try_pop, clientVars
<1>5. CASE \/ WaitStop \/ WaitPredicateFalse \/ WaitBlock \/ SpuriousWakeup \/ ExecuteReturn
           \/ (try_pop /\ queue = <<>>)
           \/ start \/ ShutdownStore \/ ShutdownNotify \/ WaitforAllCalled
  <2>1. UNCHANGED <<queue, made, pc>> /\ (mainPc' # "joined" => mainPc # "joined")
    BY <1>5 DEF WaitStop, WaitPredicateFalse, WaitBlock, SpuriousWakeup, ExecuteReturn, try_pop,
       start, ShutdownStore, ShutdownNotify, WaitforAllCalled, clientVars, gpuVars, flagVars
  <2>2. gpuPc' = "process" => gpuPc = "process" /\ item' = item
    BY <1>5 DEF WaitStop, WaitPredicateFalse, WaitBlock, SpuriousWakeup, ExecuteReturn, try_pop,
       start, ShutdownStore, ShutdownNotify, WaitforAllCalled, clientVars, gpuVars, flagVars,
       NotifiedGpuPc
  <2> QED
    BY <1>0, <2>1, <2>2, LifeKept DEF Waiting
<1> QED
  BY <1>1, <1>2, <1>4, <1>5 DEF Queue, wait_and_pop, request_shutdown

\* The request a call makes is a new one.
LEMMA AskFacts ==
  ASSUME TypeInv, NEW c \in Clients, Ask(c)
  PROVE  /\ Current(c)' = <<c, made[c] + 1>> /\ Current(c)' \in Request \ Asked
         /\ Current(c)' \in Asked' /\ Asked \subseteq Asked' /\ Asked' \subseteq Asked \cup {Current(c)'}
         /\ \A d \in Clients \ {c} : Current(d)' = Current(d) /\ (Waiting(d)' <=> Waiting(d))
         /\ mainPc # "joined" /\ UNCHANGED <<queue, gpuPc, item, mainPc>>
         /\ state' = [state EXCEPT ![Current(c)'] = "CPU_Loaded"]
         /\ UNCHANGED <<mbaVars, slice, frames, teardown>>
<1>0. /\ pc \in [Clients -> ClientPc] /\ made \in [Clients -> 0 .. MaxRequests] /\ Main \in Clients
      /\ BeginEnqueue(c) /\ MaxRequests \in Nat
  BY GRTAssumption DEF TypeInv, TypeOK, Ask, Clients, GRTAssumption
<1>1. /\ made' = [made EXCEPT ![c] = @ + 1] /\ pc' = [pc EXCEPT ![c] = "enqueue"]
      /\ made[c] < MaxRequests /\ MayCall(c) /\ UNCHANGED <<queue, gpuPc, item, mainPc>>
  BY <1>0 DEF BeginEnqueue, gpuVars
<1>2. made[c] \in Nat /\ made'[c] = made[c] + 1 /\ \A d \in Clients \ {c} : made'[d] = made[d] /\ pc'[d] = pc[d]
  BY <1>0, <1>1
<1>3. mainPc # "joined"
  BY <1>1 DEF MayCall
<1>4. Current(c)' = <<c, made[c] + 1>> /\ Current(c)' \in Request
  BY <1>0, <1>1, <1>2, RequestFacts DEF Current
<1>5. \A r \in Request : r[1] \in Clients /\ r[2] \in Nat /\ r = <<r[1], r[2]>>
  BY <1>0 DEF Request
<1>6. Current(c)' \notin Asked /\ Current(c)' \in Asked'
  BY <1>2, <1>4, <1>5 DEF Asked
<1>7. Asked \subseteq Asked'
  <2>1. \A d \in Clients : made[d] \in Nat /\ made'[d] >= made[d] /\ made'[d] \in Nat
    BY <1>0, <1>1, <1>2
  <2> QED
    BY <1>5, <2>1 DEF Asked
<1>8. Asked' \subseteq Asked \cup {Current(c)'}
  <2> SUFFICES ASSUME NEW r \in Request, r[2] <= made'[r[1]], ~(r[2] <= made[r[1]])
               PROVE  r = <<c, made[c] + 1>>
    BY <1>4 DEF Asked
  <2>1. r[1] = c
    BY <1>2, <1>5
  <2>2. r[2] = made[c] + 1
    BY <1>2, <1>5, <2>1
  <2> QED
    BY <1>5, <2>1, <2>2
<1>9. \A d \in Clients \ {c} : Current(d)' = Current(d) /\ (Waiting(d)' <=> Waiting(d))
  BY <1>2 DEF Current, Waiting
<1>10. /\ state' = [state EXCEPT ![Current(c)'] = "CPU_Loaded"]
       /\ UNCHANGED <<mbaVars, slice, frames, teardown>>
  BY DEF Ask
<1> QED
  BY <1>1, <1>3, <1>4, <1>6, <1>7, <1>8, <1>9, <1>10

LEMMA AskLife == ASSUME TypeInv, Order, Life, NEW c \in Clients, Ask(c) PROVE Life'
<1> PICK r : r = <<c, made[c] + 1>>
  OBVIOUS
<1>1. /\ Current(c)' = r /\ r \in Request \ Asked /\ r \in Asked' /\ Asked \subseteq Asked'
      /\ \A d \in Clients \ {c} : Current(d)' = Current(d) /\ (Waiting(d)' <=> Waiting(d))
      /\ mainPc # "joined" /\ UNCHANGED <<queue, gpuPc, item, mainPc>>
      /\ state' = [state EXCEPT ![r] = "CPU_Loaded"]
  BY AskFacts
<1>2. state' = [state EXCEPT ![r] = "CPU_Loaded"] /\ state \in [Request -> {"none", "CPU_Loaded", "GPU_Ready", "deleted"}]
  BY <1>1 DEF Life
<1>3. \A x \in Asked : x # r /\ x \in Request /\ state'[x] = state[x]
  BY <1>1, <1>2 DEF Asked
<1>4. \A x \in Request \ Asked' : state'[x] = "none"
  BY <1>1, <1>2 DEF Life
<1>5. ASSUME NEW d \in Clients, Waiting(d)' PROVE state'[Current(d)'] = "CPU_Loaded"
  <2>1. CASE d = c
    BY <1>1, <1>2, <2>1
  <2>2. CASE d # c
    <3>1. Waiting(d) /\ Current(d)' = Current(d) /\ state[Current(d)] = "CPU_Loaded"
      BY <1>1, <1>5, <2>2 DEF Life
    <3>2. Current(d) \in Asked
      BY <3>1, CurrentOf DEF Waiting
    <3> QED
      BY <1>3, <3>1, <3>2
  <2> QED
    BY <2>1, <2>2
<1>6. ASSUME NEW k \in DOMAIN queue PROVE state'[queue'[k]] = "CPU_Loaded"
  <2>1. queue[k] \in Asked /\ state[queue[k]] = "CPU_Loaded"
    BY <1>1, <1>6 DEF Order, Life
  <2> QED
    BY <1>1, <1>3, <2>1
<1>7. ASSUME gpuPc = "process" PROVE state'[item'] = "CPU_Loaded"
  <2>1. item \in Asked /\ state[item] = "CPU_Loaded"
    BY <1>1, <1>7 DEF Order, Life
  <2> QED
    BY <1>1, <1>3, <2>1
<1>8. state' \in [Request -> {"none", "CPU_Loaded", "GPU_Ready", "deleted"}]
  BY <1>2
<1> QED
  BY <1>1, <1>4, <1>5, <1>6, <1>7, <1>8 DEF Life

\* process() finishes the request that was waiting at its head: no other that
\* is under way is the same one.
LEMMA ProcessFacts ==
  ASSUME TypeInv, Order, Process
  PROVE  \E r \in Asked :
           /\ process(r) /\ r \in InProcess
           /\ \A k \in DOMAIN queue : queue[k] # r
           /\ \A c \in Clients : Waiting(c)' => Waiting(c) /\ Current(c) # r
           /\ gpuPc' # "process"
           /\ UNCHANGED <<queue, made, mainPc, frames, teardown>>
<1>0. /\ pc \in [Clients -> ClientPc] /\ queue \in Seq(Request) /\ \A x \in Request : x[2] \in Nat
      /\ UNCHANGED <<frames, teardown>>
  BY GRTAssumption DEF TypeInv, TypeOK, GRTAssumption, Request, Process
<1>1. \A x \in Asked : x \in Request /\ ~Ahead(x, x)
  BY <1>0 DEF Asked, Ahead
<1>2. ASSUME NEW c \in Clients, FinishInline(c), process(Current(c))
      PROVE  /\ Current(c) \in Asked /\ Current(c) \in InProcess
             /\ \A k \in DOMAIN queue : queue[k] # Current(c)
             /\ \A d \in Clients : Waiting(d)' => Waiting(d) /\ Current(d) # Current(c)
             /\ gpuPc' # "process" /\ UNCHANGED <<queue, made, mainPc>>
  <2>1. Waiting(c) /\ pc[c] = "inline" /\ pc' = [pc EXCEPT ![c] = "idle"]
        /\ UNCHANGED <<queue, gpuPc, made, mainPc>>
    BY <1>2 DEF FinishInline, Waiting, gpuVars
  <2>2. Current(c) \in Asked
    BY <2>1, CurrentOf
  <2>3. Current(c) \in InProcess /\ gpuPc # "process"
    BY <2>1, Alone
  <2>4. \A k \in DOMAIN queue : Ahead(queue[k], Current(c))
    BY <2>1 DEF Order
  <2>5. \A d \in Clients : Waiting(d)' => d # c /\ Waiting(d)
    BY <1>0, <2>1 DEF Waiting
  <2>6. \A d \in Clients : d # c => Current(d) # Current(c)
    BY DEF Current
  <2> QED
    BY <1>1, <2>1, <2>2, <2>3, <2>4, <2>5, <2>6
<1>3. ASSUME FinishProcess, process(item)
      PROVE  /\ item \in Asked /\ item \in InProcess
             /\ \A k \in DOMAIN queue : queue[k] # item
             /\ \A d \in Clients : Waiting(d)' => Waiting(d) /\ Current(d) # item
             /\ gpuPc' # "process" /\ UNCHANGED <<queue, made, mainPc>>
  <2>1. gpuPc = "process" /\ gpuPc' = "drain" /\ UNCHANGED <<queue, pc, made, mainPc>>
    BY <1>3 DEF FinishProcess, clientVars
  <2>2. /\ item \in Asked /\ \A k \in DOMAIN queue : Ahead(item, queue[k])
        /\ \A d \in Clients : Waiting(d) => Ahead(item, Current(d))
    BY <2>1 DEF Order
  <2>3. item \in InProcess
    BY <2>1 DEF InProcess
  <2>4. \A d \in Clients : Waiting(d)' => Waiting(d)
    BY <2>1 DEF Waiting
  <2> QED
    BY <1>1, <2>1, <2>2, <2>3, <2>4
<1> QED
  BY <1>0, <1>2, <1>3 DEF Process

LEMMA ProcessLife == ASSUME TypeInv, Order, Life, Process PROVE Life'
<1> PICK r \in Asked :
           /\ process(r) /\ r \in InProcess
           /\ \A k \in DOMAIN queue : queue[k] # r
           /\ \A c \in Clients : Waiting(c)' => Waiting(c) /\ Current(c) # r
           /\ gpuPc' # "process"
           /\ UNCHANGED <<queue, made, mainPc, frames, teardown>>
  BY ProcessFacts
<1>1. Asked' = Asked /\ \A c : Current(c)' = Current(c)
  BY DEF Asked, Current
<1>2. state' = [state EXCEPT ![r] = "GPU_Ready"] /\ state \in [Request -> {"none", "CPU_Loaded", "GPU_Ready", "deleted"}]
  BY DEF process, Life
<1>3. \A x \in Request : x # r => state'[x] = state[x]
  BY <1>2
<1>4. \A c \in Clients : Waiting(c) => Current(c) \in Request
  BY CurrentOf DEF Waiting
<1>5. queue \in Seq(Request) /\ \A k \in DOMAIN queue : queue[k] \in Request
  BY DEF TypeInv, TypeOK
<1>6. mainPc # "joined" =>
         /\ \A x \in Request \ Asked : state'[x] = "none"
         /\ \A c \in Clients : Waiting(c)' => state'[Current(c)] = "CPU_Loaded"
         /\ \A k \in DOMAIN queue : state'[queue[k]] = "CPU_Loaded"
  BY <1>3, <1>4, <1>5 DEF Life
<1>7. state' \in [Request -> {"none", "CPU_Loaded", "GPU_Ready", "deleted"}]
  BY <1>2
<1> QED
  BY <1>1, <1>6, <1>7 DEF Life

LEMMA LifeStep == ASSUME TypeInv, Order, LTInv, [LTNext]_ltVars PROVE Life'
<1>0. Life /\ TakenDown
  BY DEF LTInv
<1>2. CASE Process
  BY <1>0, <1>2, ProcessLife
<1>3. CASE Queue
  BY <1>0, <1>3, QueueLife
<1>4. ASSUME UNCHANGED <<vars, state>> PROVE Life'
  BY <1>0, <1>4, LifeKept DEF vars, Waiting
<1>1. CASE Create
  <2>1. ASSUME NEW c \in Clients, upload_mesh(c) \/ insert(c) PROVE Life'
    BY <1>0, <2>1, AskLife DEF upload_mesh, insert
  <2>2. ASSUME NEW c, NEW k, create_texture_miss(c, k) \/ insert_lost(c) PROVE Life'
    BY <1>4, <2>2 DEF create_texture_miss, insert_lost
  <2> QED
    BY <1>1, <2>1, <2>2 DEF Create
<1>5. CASE run \/ render_one_frame \/ FramesComplete \/ RenderReturn \/ UNCHANGED ltVars
  BY <1>4, <1>5 DEF run, render_one_frame, FramesComplete, RenderReturn, resources, ltVars
<1>6. CASE shutdown_device \/ cleanup_storage \/ cleanup_done
  BY <1>4, <1>6 DEF shutdown_device, cleanup_storage, cleanup_done, resources
<1>7. ASSUME mainPc' = "joined",
             state' \in [Request -> {"none", "CPU_Loaded", "GPU_Ready", "deleted"}]
      PROVE  Life'
  BY <1>7 DEF Life
<1>8. CASE JoinTasks
  BY <1>0, <1>7, <1>8 DEF JoinTasks, WaitforAllReturns, resources, Life
<1>9. CASE cleanup_meshes
  BY <1>0, <1>7, <1>9 DEF cleanup_meshes, vars, TakenDown, Life
<1>10. ASSUME NEW t \in Textures, cleanup_texture(t) PROVE Life'
  BY <1>0, <1>7, <1>10 DEF cleanup_texture, Destroy, vars, TakenDown, Life
<1> QED
  BY <1>1, <1>2, <1>3, <1>5, <1>6, <1>8, <1>9, <1>10 DEF LTNext, Teardown

LEMMA TakenDownStep == ASSUME TypeInv, LTInv, [LTNext]_ltVars PROVE TakenDown'
<1>0. TakenDown /\ Phases /\ pc \in [Clients -> ClientPc] /\ Clients = {Main, Loader}
  BY DEF LTInv, TypeInv, TypeOK, Clients
<1>1. ASSUME UNCHANGED <<teardown, device, rendering, gpuReads, mainPc>>,
             mainPc = "joined" => UNCHANGED <<gpuPc, pc>>,
             \A c \in Clients : Creating(c)' => Creating(c)
      PROVE  TakenDown'
  BY <1>0, <1>1 DEF TakenDown
<1>2. CASE Create
  <2>1. ASSUME NEW c \in Clients, upload_mesh(c) \/ insert(c) PROVE TakenDown'
    <3>1. Ask(c) /\ DOMAIN creating' \subseteq DOMAIN creating
      BY <2>1 DEF upload_mesh, insert, cache, Drop
    <3>2. /\ UNCHANGED <<teardown, device, rendering, gpuReads, mainPc>> /\ mainPc # "joined"
          /\ \A d \in Clients : Creating(d)' => Creating(d)
      BY <3>1 DEF Ask, BeginEnqueue, MayCall, mbaVars, frames, Creating
    <3> QED
      BY <1>1, <3>2
  <2>2. ASSUME NEW c \in Clients, insert_lost(c) PROVE TakenDown'
    <3>1. DOMAIN creating' \subseteq DOMAIN creating
      BY <2>2 DEF insert_lost, Drop
    <3>2. \A d \in Clients : Creating(d)' => Creating(d)
      BY <3>1 DEF Creating
    <3> QED
      BY <1>1, <2>2, <3>2 DEF insert_lost, vars, mbaVars, frames
  <2>3. ASSUME NEW c \in Clients, NEW k, create_texture_miss(c, k) PROVE TakenDown'
    <3>1. DOMAIN creating' = DOMAIN creating \cup {c}
      BY <2>3 DEF create_texture_miss, Put
    <3>2. /\ UNCHANGED <<teardown, device, rendering, gpuReads, mainPc>>
          /\ mainPc # "joined" /\ (c = Main => mainPc \in {"setup", "run"})
      BY <2>3 DEF create_texture_miss, MayCall, vars, mbaVars, frames
    <3>3. Creating(Main)' => mainPc' \in {"setup", "run"}
      BY <1>0, <3>1, <3>2 DEF TakenDown, Creating
    <3> QED
      BY <1>0, <3>2, <3>3 DEF TakenDown
  <2> QED
    BY <1>2, <2>1, <2>2, <2>3 DEF Create
<1>3. CASE Process
  <2>1. ASSUME NEW r, process(r)
        PROVE  device' = device /\ \A c \in Clients : Creating(c)' => Creating(c)
    BY <2>1 DEF process, upload, mbaVars, cache, Creating
  <2>2. FinishProcess \/ \E c \in Clients : FinishInline(c)
    BY <1>3 DEF Process
  <2>3. mainPc' = mainPc /\ mainPc # "joined"
    BY <1>0, <2>2 DEF FinishProcess, FinishInline, TakenDown
  <2> QED
    BY <1>1, <1>3, <2>1, <2>3 DEF Process, frames
<1>4. CASE Queue
  <2>1. UNCHANGED <<teardown, device, rendering, gpuReads, creating>>
    BY <1>4 DEF Queue, frames, resources, mbaVars, cache
  <2>0. \A c \in Clients : Creating(c)' <=> Creating(c)
    BY <2>1 DEF Creating
  <2>2. ASSUME NEW c \in Clients, ReadRunning(c) \/ push(c) \/ PushNotify(c)
        PROVE  mainPc' = mainPc /\ mainPc # "joined"
    BY <1>0, <2>2 DEF ReadRunning, push, PushNotify, TakenDown
  <2>3. ASSUME wait_and_pop \/ try_pop \/ ExecuteReturn \/ SpuriousWakeup
        PROVE  mainPc' = mainPc /\ mainPc # "joined"
    BY <1>0, <2>3 DEF wait_and_pop, WaitPop, WaitStop, WaitPredicateFalse, WaitBlock, try_pop,
       ExecuteReturn, SpuriousWakeup, TakenDown, clientVars
  <2>4. ASSUME mainPc # "joined", mainPc' # "joined", mainPc' = mainPc \/ ~Creating(Main)
        PROVE  TakenDown'
    BY <1>0, <2>1, <2>0, <2>4 DEF TakenDown
  <2>5. CASE ~Creating(Main) /\ (start \/ request_shutdown \/ WaitforAllCalled)
    BY <2>4, <2>5 DEF start, request_shutdown, ShutdownStore, ShutdownNotify, WaitforAllCalled
  <2> QED
    BY <1>4, <2>2, <2>3, <2>4, <2>5 DEF Queue
<1>5. CASE run
  BY <1>0, <1>5 DEF run, vars, resources, mbaVars, cache, Creating, TakenDown
<1>6. CASE render_one_frame
  BY <1>0, <1>6 DEF render_one_frame, vars, resources, mbaVars, cache, Creating, TakenDown
<1>7. CASE FramesComplete \/ RenderReturn
  BY <1>0, <1>7 DEF FramesComplete, RenderReturn, vars, resources, mbaVars, cache, Creating, TakenDown
<1>8. CASE JoinTasks
  <2>1. \A c \in Clients : pc[c] = "idle" /\ ~Creating(c)
    BY <1>0, <1>8 DEF JoinTasks, WaitforAllReturns, Phases, TakenDown
  <2>2. UNCHANGED creating
    BY <1>8 DEF JoinTasks, resources, cache
  <2>3. \A c \in Clients : ~Creating(c)'
    BY <2>1, <2>2 DEF Creating
  <2> QED
    BY <1>0, <1>8, <2>1, <2>3
    DEF JoinTasks, WaitforAllReturns, resources, mbaVars, frames, gpuVars, clientVars, TakenDown
<1>9. CASE shutdown_device \/ cleanup_storage \/ cleanup_meshes \/ cleanup_done
  BY <1>0, <1>9 DEF shutdown_device, cleanup_storage, cleanup, cleanup_meshes, cleanup_done, vars,
     resources, mbaVars, cache, Creating, frames, TakenDown
<1>10. ASSUME NEW t \in Textures, cleanup_texture(t) PROVE TakenDown'
  BY <1>1, <1>10 DEF cleanup_texture, Destroy, vars, mbaVars, frames, Creating
<1>11. CASE UNCHANGED ltVars
  BY <1>1, <1>11 DEF ltVars, vars, resources, mbaVars, cache, frames, Creating
<1> QED
  BY <1>2, <1>3, <1>4, <1>5, <1>6, <1>7, <1>8, <1>9, <1>10, <1>11 DEF LTNext, Teardown

LEMMA DrawnStep == ASSUME TypeInv, Order, MInv, LTInv, [LTNext]_ltVars PROVE Drawn'
<1>0. Drawn /\ TakenDown /\ Life
  BY DEF LTInv
<1>1. ASSUME UNCHANGED <<gpuReads, state, slice, device, vertexRanges>> PROVE Drawn'
  BY <1>0, <1>1 DEF Drawn
<1>2. ASSUME NEW c \in Clients, Ask(c) PROVE Drawn'
  <2> PICK r : r = Current(c)'
    OBVIOUS
  <2>1. /\ r \in Request \ Asked /\ mainPc # "joined"
        /\ state' = [state EXCEPT ![r] = "CPU_Loaded"]
        /\ UNCHANGED <<gpuReads, slice, device, vertexRanges>>
    BY <1>2, AskFacts DEF frames, mbaVars, vertexVars
  <2>2. state[r] = "none" /\ DOMAIN state = Request
    BY <1>0, <2>1 DEF Life
  <2>3. \A x : x \in Meshes => x \in Request
    BY AssetsAreRequests DEF AssetsAreRequests
  <2> QED
    BY <1>0, <2>1, <2>2, <2>3 DEF Drawn
<1>11. CASE Create
  <2>1. ASSUME NEW c, NEW k, create_texture_miss(c, k) \/ insert_lost(c) PROVE Drawn'
    BY <1>1, <2>1 DEF create_texture_miss, insert_lost, frames, mbaVars, vertexVars
  <2> QED
    BY <1>2, <1>11, <2>1 DEF Create, upload_mesh, insert
<1>3. CASE Process
  <2> PICK r \in Asked : process(r) /\ r \in InProcess /\ UNCHANGED <<frames, teardown>>
    BY <1>3, ProcessFacts
  <2>1. r \in Request /\ state' = [state EXCEPT ![r] = "GPU_Ready"] /\ DOMAIN state = Request
        /\ UNCHANGED gpuReads
    BY <1>0 DEF Asked, process, Life, frames
  <2>2. \A x : x \in Meshes => x \in Request /\ Shape[x] \in MeshShapes
    BY AssetsAreRequests DEF AssetsAreRequests
  <2>3. CASE r \in Meshes
    <3>1. upload(Shape[r]) /\ slice' = Put(slice, r, Len(vertexRanges'))
      BY <2>3 DEF process
    <3>2. \E v : vertexRanges' = Append(vertexRanges, v)
      BY <2>2, <2>3, <3>1, UploadAppends
    <3>3. \E S : vertexRanges \in Seq(S)
      BY DEF MInv, VP!PAInv, VP!PATypeOK
    <3>4. /\ DOMAIN vertexRanges \subseteq DOMAIN vertexRanges'
          /\ Len(vertexRanges') \in DOMAIN vertexRanges'
      BY <3>2, <3>3
    <3>5. \A x \in DOMAIN slice \cup {r} :
             x \in DOMAIN slice' /\ slice'[x] = IF x = r THEN Len(vertexRanges') ELSE slice[x]
      BY <3>1 DEF Put
    <3>6. device' = device
      BY <3>1 DEF upload
    <3>7. \A x \in gpuReads : x \in Request /\ state'[x] = "GPU_Ready"
      BY <1>0, <2>1 DEF Drawn
    <3>8. ASSUME device, NEW x \in Meshes, state'[x] = "GPU_Ready"
          PROVE  x \in DOMAIN slice' /\ slice'[x] \in DOMAIN vertexRanges'
      <4>1. CASE x = r
        BY <3>4, <3>5, <4>1
      <4>2. CASE x # r
        <5>1. state[x] = "GPU_Ready"
          BY <2>1, <2>2, <3>8, <4>2
        <5>2. x \in DOMAIN slice /\ slice[x] \in DOMAIN vertexRanges
          BY <1>0, <3>8, <5>1 DEF Drawn
        <5> QED
          BY <3>4, <3>5, <4>2, <5>2
      <4> QED
        BY <4>1, <4>2
    <3> QED
      BY <2>1, <3>6, <3>7, <3>8 DEF Drawn
  <2>4. CASE r \notin Meshes
    <3>1. UNCHANGED <<slice, device, vertexRanges>>
      BY <2>4 DEF process, mbaVars, vertexVars
    <3> QED
      BY <1>0, <2>1, <2>2, <2>4, <3>1 DEF Drawn
  <2> QED
    BY <2>3, <2>4
<1>4. CASE Queue
  BY <1>1, <1>4 DEF Queue, frames, resources, mbaVars, vertexVars
<1>5. CASE render_one_frame
  BY <1>0, <1>5 DEF render_one_frame, resources, mbaVars, vertexVars, Drawn
<1>6. CASE FramesComplete
  BY <1>0, <1>6 DEF FramesComplete, resources, mbaVars, vertexVars, Drawn
<1>7. CASE run \/ RenderReturn \/ JoinTasks \/ shutdown_device \/ cleanup_done \/ UNCHANGED ltVars
  BY <1>1, <1>7 DEF run, RenderReturn, JoinTasks, shutdown_device, cleanup_done, ltVars, resources,
     frames, mbaVars, vertexVars
<1>8. ASSUME gpuReads = {}, UNCHANGED gpuReads, ~device' PROVE Drawn'
  BY <1>8 DEF Drawn
<1>9. CASE cleanup_storage \/ cleanup_meshes
  BY <1>0, <1>8, <1>9 DEF cleanup_storage, cleanup, cleanup_meshes, frames, mbaVars, TakenDown
<1>10. ASSUME NEW t \in Textures, cleanup_texture(t) PROVE Drawn'
  BY <1>0, <1>8, <1>10 DEF cleanup_texture, frames, mbaVars, TakenDown
<1> QED
  BY <1>11, <1>3, <1>4, <1>5, <1>6, <1>7, <1>9, <1>10 DEF LTNext, Teardown

\* The steps that leave the cache, the slots and the calls alone.
LEMMA CacheKept ==
  ASSUME \/ Queue
         \/ run \/ render_one_frame \/ FramesComplete \/ RenderReturn
         \/ JoinTasks \/ shutdown_device \/ cleanup_storage \/ cleanup_meshes \/ cleanup_done
         \/ UNCHANGED ltVars
  PROVE  /\ UNCHANGED <<btrVars, cache, made>>
         /\ mainPc' # "joined" => mainPc # "joined"
<1>1. CASE Queue
  BY <1>1 DEF Queue, resources, ReadRunning, push, PushNotify, wait_and_pop, WaitPop, WaitStop,
     WaitPredicateFalse, WaitBlock, try_pop, ExecuteReturn, SpuriousWakeup, start,
     request_shutdown, ShutdownStore, ShutdownNotify, WaitforAllCalled, clientVars
<1>2. CASE \/ run \/ render_one_frame \/ FramesComplete \/ RenderReturn
           \/ JoinTasks \/ shutdown_device \/ cleanup_storage \/ cleanup_meshes \/ cleanup_done
           \/ UNCHANGED ltVars
  BY <1>2 DEF run, render_one_frame, FramesComplete, RenderReturn, JoinTasks, WaitforAllReturns,
     shutdown_device, cleanup_storage, cleanup_meshes, cleanup_done, ltVars, vars, resources,
     clientVars
<1> QED
  BY <1>1, <1>2

LEMMA EntriesStep == ASSUME TypeInv, LTInv, [LTNext]_ltVars PROVE Entries'
<1>0. Entries /\ TakenDown
  BY DEF LTInv
<1>1. ASSUME UNCHANGED <<textures, creating, made>>, teardown' = "cleaned" => textures = << >>
      PROVE  Entries'
  BY <1>0, <1>1 DEF Entries, Asked
<1>2. CASE Create
  <2>0. mainPc # "joined" /\ teardown' = teardown /\ teardown # "cleaned"
    BY <1>0, <1>2 DEF Create, upload_mesh, create_texture_miss, insert_lost, insert, Ask,
       BeginEnqueue, MayCall, TakenDown
  <2>1. ASSUME NEW c \in Clients, upload_mesh(c) PROVE Entries'
    <3>1. /\ Asked \subseteq Asked' /\ UNCHANGED <<textures, creating>>
          /\ c \notin DOMAIN creating /\ \A d \in Clients \ {c} : made'[d] = made[d]
      BY <2>1, AskFacts DEF upload_mesh, Creating, cache, Current
    <3> QED
      BY <1>0, <2>0, <3>1 DEF Entries
  <2>2. ASSUME NEW c \in Clients, insert_lost(c) PROVE Entries'
    <3>1. /\ UNCHANGED <<textures, made>> /\ creating' = Drop(creating, c)
      BY <2>2 DEF insert_lost, vars
    <3> QED
      BY <1>0, <2>0, <3>1 DEF Entries, Asked, Put, Drop
  <2>3. ASSUME NEW c \in Clients, insert(c) PROVE Entries'
    <3>1. /\ Asked \subseteq Asked' /\ Current(c)' \in Asked'
          /\ textures' = Put(textures, Current(c)', creating[c].index)
          /\ creating' = Drop(creating, c)
          /\ \A d \in Clients \ {c} : made'[d] = made[d]
      BY <2>3, AskFacts DEF insert, Current
    <3>2. DOMAIN textures' \subseteq Asked'
      BY <1>0, <3>1 DEF Entries, Put, Drop
    <3>3. \A d \in DOMAIN creating' : d \in DOMAIN creating /\ d # c
      BY <3>1 DEF Put, Drop
    <3> QED
      BY <1>0, <2>0, <3>1, <3>2, <3>3 DEF Entries
  <2>4. ASSUME NEW c \in Clients, NEW k, create_texture_miss(c, k) PROVE Entries'
    <3>1. /\ UNCHANGED <<textures, made>> /\ <<c, made[c] + 1>> \in Textures
          /\ \E v : creating' = Put(creating, c, v)
      BY <2>4 DEF create_texture_miss, vars
    <3>2. DOMAIN creating' = DOMAIN creating \cup {c}
      BY <3>1 DEF Put, Drop
    <3> QED
      BY <1>0, <2>0, <3>1, <3>2 DEF Entries, Asked
  <2> QED
    BY <1>2, <2>1, <2>2, <2>3, <2>4 DEF Create
<1>3. CASE Process
  <2>1. ASSUME NEW r, process(r) PROVE UNCHANGED <<textures, creating>>
    BY <2>1 DEF process, cache
  <2>2. UNCHANGED <<made, teardown>>
    BY <1>3 DEF Process, FinishInline, FinishProcess, clientVars
  <2> QED
    BY <1>0, <1>1, <1>3, <2>1, <2>2 DEF Process, Entries
<1>4. CASE \/ Queue
           \/ run \/ render_one_frame \/ FramesComplete \/ RenderReturn
           \/ JoinTasks \/ shutdown_device \/ cleanup_storage \/ cleanup_meshes \/ cleanup_done
           \/ UNCHANGED ltVars
  <2>1. UNCHANGED <<textures, creating, made>>
    BY <1>4, CacheKept DEF cache
  <2>2. teardown' = "cleaned" => textures = << >>
    BY <1>0, <1>4 DEF Queue, run, render_one_frame, FramesComplete, RenderReturn, JoinTasks,
       shutdown_device, cleanup_storage, cleanup_meshes, cleanup_done, ltVars, Entries
  <2> QED
    BY <1>1, <2>1, <2>2
<1>5. ASSUME NEW t \in Textures, cleanup_texture(t) PROVE Entries'
  <2>1. /\ textures' = Drop(textures, t) /\ teardown' = "textures" /\ UNCHANGED <<creating, made>>
    BY <1>5 DEF cleanup_texture, Destroy, vars
  <2>2. DOMAIN textures' \subseteq DOMAIN textures
    BY <2>1 DEF Put, Drop
  <2> QED
    BY <1>0, <2>1, <2>2 DEF Entries, Asked
<1> QED
  BY <1>2, <1>3, <1>4, <1>5 DEF LTNext, Teardown

LEMMA LifetimeInvariance == LTSpec => [](TypeInv /\ Order /\ MInv /\ GeometryIntact /\ LTInv)
<1>1. LTSpec => [](TypeInv /\ Order)
  BY LTImplementsSpec, OrderInvariance, PTL
<1>2. TypeInv /\ Order /\ MInv /\ LTInv /\ [LTNext]_ltVars => LTInv'
  BY LifeStep, TakenDownStep, DrawnStep, EntriesStep DEF LTInv
<1> QED
  BY <1>1, <1>2, MeshInvariance, LTInitInv, PTL DEF LTSpec

\* Nothing is uploaded into a deleted mesh, twice, or without a device: every
\* request in process() is for an asset that waits for its upload, whoever
\* processes it, also while the renderer is being taken down.
THEOREM UploadsHaveTargets == LTSpec => []UploadsTargetLive
<1>1. TypeInv /\ LTInv => UploadsTargetLive
  <2> SUFFICES ASSUME TypeInv, LTInv, NEW r \in InProcess
               PROVE  state[r] = "CPU_Loaded" /\ device
    BY DEF UploadsTargetLive
  <2>1. mainPc # "joined"
    BY DEF InProcess, LTInv, TakenDown
  <2>2. device
    BY <2>1 DEF LTInv, TakenDown
  <2>3. \/ \E c \in Clients : pc[c] = "inline" /\ r = Current(c)
        \/ gpuPc = "process" /\ r = item
    BY DEF InProcess
  <2> QED
    BY <2>1, <2>2, <2>3 DEF LTInv, Life, Waiting
<1> QED
  BY <1>1, LifetimeInvariance, PTL

\* What a submitted frame reads stays uploaded, in its place and unchanged
\* until the GPU has read it, for any meshes, textures, frames and shutdown.
THEOREM FramesReadLiveData == LTSpec => []GpuReadsLive
<1>1. GeometryIntact /\ LTInv => GpuReadsLive
  <2> SUFFICES ASSUME GeometryIntact, LTInv, NEW r \in gpuReads
               PROVE  /\ state[r] = "GPU_Ready"
                      /\ r \in Meshes =>
                            /\ slice[r] \in DOMAIN vertexRanges
                            /\ \A p \in Places(r) : p \in DOMAIN written /\ written[p] = slice[r]
    BY DEF GpuReadsLive
  <2>1. state[r] = "GPU_Ready" /\ device
    BY DEF LTInv, Drawn, TakenDown
  <2>2. r \in Meshes => slice[r] \in DOMAIN vertexRanges
    BY <2>1 DEF LTInv, Drawn
  <2> QED
    BY <2>1, <2>2 DEF GeometryIntact, Places
<1> QED
  BY <1>1, LifetimeInvariance, PTL

(* The renderer is a client of the registry that keeps to its contract, so   *)
(* that what TextureUploadsProofs shows of BTRSpec holds of it too.          *)

\* The slot of a call and of an entry is taken until the cleanup gives the latter
\* back, and the registry knows the texture by no other.
Registered ==
    /\ texture_order \in Seq(Textures \cup {None}) /\ free_indices \in Seq(DOMAIN texture_order)
    /\ taken \subseteq DOMAIN texture_order
    /\ \A t \in DOMAIN textures :
           \/ textures[t] \in taken
           \/ mainPc = "joined" /\ \E j \in DOMAIN free_indices : free_indices[j] = textures[t]
    /\ mainPc # "joined" =>
           /\ free_indices = <<>>
           /\ \A c \in DOMAIN creating : creating[c].index \in taken
           /\ \A r \in Asked \ Meshes : r \in Textures /\ r \in DOMAIN textures
           /\ \A t \in Textures : texture_to_index[t] # 0 =>
                  t \in DOMAIN textures /\ texture_to_index[t] = textures[t]

\* Before the cleanup no slot is free to be reused: the array grows.
LEMMA RegisteredTake ==
  ASSUME Registered, mainPc # "joined", NEW i, allocate_slot(i), taken' = taken \cup {i}
  PROVE  /\ texture_order' \in Seq(Textures \cup {None}) /\ free_indices' = <<>>
         /\ taken' \subseteq DOMAIN texture_order' /\ i \notin taken
         /\ texture_to_index' = texture_to_index
<1>1. TakeSlot(i, None) /\ UNCHANGED texture_to_index
  BY DEF allocate_slot
<1>2. /\ texture_order \in Seq(Textures \cup {None}) /\ free_indices = <<>>
      /\ taken \subseteq DOMAIN texture_order
  BY DEF Registered
<1>3. /\ i = Len(texture_order) + 1 /\ texture_order' = Append(texture_order, None)
      /\ free_indices' = <<>>
  BY <1>1, <1>2 DEF TakeSlot
<1>4. /\ texture_order' \in Seq(Textures \cup {None})
      /\ DOMAIN texture_order' = DOMAIN texture_order \cup {i} /\ i \notin DOMAIN texture_order
  BY <1>2, <1>3
<1> QED
  BY <1>1, <1>2, <1>3, <1>4

LEMMA RegisteredRelease ==
  ASSUME Registered, NEW i \in DOMAIN texture_order, release_index(i), taken' = taken \ {i}
  PROVE  /\ texture_order' \in Seq(Textures \cup {None}) /\ free_indices' \in Seq(DOMAIN texture_order')
         /\ taken' \subseteq DOMAIN texture_order'
         /\ \E j \in DOMAIN free_indices' : free_indices'[j] = i
         /\ \A j \in DOMAIN free_indices : j \in DOMAIN free_indices' /\ free_indices'[j] = free_indices[j]
<1>1. /\ texture_order' = [texture_order EXCEPT ![i] = None]
      /\ \/ free_indices' = free_indices /\ \E j \in DOMAIN free_indices : free_indices[j] = i
         \/ free_indices' = Append(free_indices, i)
  BY DEF release_index
<1>2. texture_order' \in Seq(Textures \cup {None}) /\ DOMAIN texture_order' = DOMAIN texture_order
  BY <1>1 DEF Registered
<1>3. free_indices \in Seq(DOMAIN texture_order)
  BY DEF Registered
<1>4. CASE free_indices' = free_indices /\ \E j \in DOMAIN free_indices : free_indices[j] = i
  BY <1>2, <1>3, <1>4 DEF Registered
<1>5. CASE free_indices' = Append(free_indices, i)
  <2>1. free_indices' \in Seq(DOMAIN texture_order)
    BY <1>3, <1>5
  <2>2. /\ Len(free_indices) + 1 \in DOMAIN free_indices'
        /\ free_indices'[Len(free_indices) + 1] = i
        /\ \A j \in DOMAIN free_indices : j \in DOMAIN free_indices' /\ free_indices'[j] = free_indices[j]
    BY <1>3, <1>5
  <2> QED
    BY <1>2, <2>1, <2>2 DEF Registered
<1> QED
  BY <1>1, <1>4, <1>5

\* What process() is to bind has its slot, and no other.
LEMMA BindKeepsContract ==
  ASSUME TakenDown, Registered, NEW r \in Asked, r \in InProcess, process(r), r \notin Meshes
  PROVE  /\ r \in Textures /\ r \in DOMAIN textures /\ textures[r] \in taken
         /\ texture_to_index[r] \in {0, textures[r]}
         /\ bind_texture(textures[r], r) /\ UNCHANGED <<taken, textures, creating>>
<1>1. mainPc # "joined"
  BY DEF InProcess, TakenDown
<1> QED
  BY <1>1 DEF Registered, process, cache

LEMMA RegisteredKept ==
  ASSUME Registered, UNCHANGED <<btrVars, textures, creating, made>>,
         mainPc' # "joined" => mainPc # "joined"
  PROVE  Registered'
BY DEF Registered, btrVars, Asked

LEMMA RegisteredCreate ==
  ASSUME TypeInv, TakenDown, Entries, Registered, Create
  PROVE  Registered' /\ [BTRNext]_btrVars
<1>1. ASSUME NEW c \in Clients, NEW k, create_texture_miss(c, k)
      PROVE  Registered' /\ [BTRNext]_btrVars
  <2>1. PICK i \in Slots : /\ allocate_slot(i) /\ taken' = taken \cup {i}
                           /\ creating' = Put(creating, c, [key |-> k, index |-> i])
    BY <1>1 DEF create_texture_miss
  <2>2. UNCHANGED <<textures, made, mainPc>> /\ mainPc # "joined"
    BY <1>1 DEF create_texture_miss, vars, MayCall
  <2>3. /\ texture_order' \in Seq(Textures \cup {None}) /\ free_indices' = <<>>
        /\ taken' \subseteq DOMAIN texture_order'
        /\ texture_to_index' = texture_to_index
    BY <2>1, <2>2, RegisteredTake
  <2>4. /\ DOMAIN creating' = DOMAIN creating \cup {c}
        /\ creating'[c] = [key |-> k, index |-> i]
        /\ \A d \in DOMAIN creating : d # c => creating'[d] = creating[d]
    BY <2>1 DEF Put, Drop
  <2>5. \A d \in DOMAIN creating' : creating'[d].index \in taken'
    BY <2>1, <2>2, <2>4 DEF Registered
  <2>6. Asked' = Asked
    BY <2>2 DEF Asked
  <2>7. free_indices' \in Seq(DOMAIN texture_order')
    BY <2>3
  <2>8. Registered'
    BY <2>1, <2>2, <2>3, <2>5, <2>6, <2>7 DEF Registered
  <2> QED
    BY <2>1, <2>8 DEF AllocateSlot, BTRNext
<1>2. ASSUME NEW c \in Clients, insert_lost(c) PROVE Registered' /\ [BTRNext]_btrVars
  <2>1. UNCHANGED <<btrVars, textures, made, mainPc>> /\ creating' = Drop(creating, c)
    BY <1>2 DEF insert_lost, vars
  <2>2. \A d \in DOMAIN creating' : d \in DOMAIN creating /\ creating'[d] = creating[d]
    BY <2>1 DEF Put, Drop
  <2> QED
    BY <2>1, <2>2 DEF Registered, btrVars, Asked
<1>3. ASSUME NEW c \in Clients, upload_mesh(c) PROVE Registered' /\ [BTRNext]_btrVars
  <2>1. /\ Current(c)' \in Meshes /\ Asked' \subseteq Asked \cup {Current(c)'}
        /\ UNCHANGED <<btrVars, textures, creating, mainPc>>
    BY <1>3, AskFacts DEF upload_mesh, cache
  <2> QED
    BY <2>1 DEF Registered, btrVars
<1>4. ASSUME NEW c \in Clients, insert(c) PROVE Registered' /\ [BTRNext]_btrVars
  <2> PICK r : r = Current(c)'
    OBVIOUS
  <2>1. /\ r = <<c, made[c] + 1>> /\ r \notin Asked /\ Asked' \subseteq Asked \cup {r}
        /\ mainPc # "joined" /\ UNCHANGED <<btrVars, mainPc>>
        /\ c \in DOMAIN creating
        /\ textures' = Put(textures, r, creating[c].index) /\ creating' = Drop(creating, c)
    BY <1>4, AskFacts DEF insert, Creating
  <2>2. r \in Textures /\ r \notin DOMAIN textures
    BY <2>1 DEF Entries
  <2>3. /\ DOMAIN textures' = DOMAIN textures \cup {r} /\ textures'[r] = creating[c].index
        /\ \A t \in DOMAIN textures : textures'[t] = textures[t]
    BY <2>1, <2>2 DEF Put, Drop
  <2>4. \A d \in DOMAIN creating' : d \in DOMAIN creating /\ creating'[d] = creating[d]
    BY <2>1 DEF Put, Drop
  <2>5. \A t \in DOMAIN textures' : textures'[t] \in taken
    BY <2>1, <2>3 DEF Registered
  <2>6. \A x \in Asked' \ Meshes : x \in Textures /\ x \in DOMAIN textures'
    BY <2>1, <2>2, <2>3 DEF Registered
  <2>7. \A t \in Textures : texture_to_index[t] # 0 =>
            t \in DOMAIN textures' /\ texture_to_index[t] = textures'[t]
    BY <2>1, <2>3 DEF Registered
  <2> QED
    BY <2>1, <2>4, <2>5, <2>6, <2>7 DEF Registered, btrVars
<1> QED
  BY <1>1, <1>2, <1>3, <1>4 DEF Create

LEMMA RegisteredProcess ==
  ASSUME TypeInv, Order, TakenDown, Registered, Process
  PROVE  Registered' /\ [BTRNext]_btrVars
<1> PICK r \in Asked : process(r) /\ r \in InProcess /\ UNCHANGED <<made, mainPc>>
  BY ProcessFacts
<1>1. CASE r \in Meshes
  <2>1. UNCHANGED <<btrVars, textures, creating>>
    BY <1>1 DEF process, cache
  <2> QED
    BY <2>1, RegisteredKept
<1>2. CASE r \notin Meshes
  <2> PICK i : i = textures[r]
    OBVIOUS
  <2>1. /\ r \in Textures /\ r \in DOMAIN textures /\ i \in taken
        /\ texture_to_index[r] \in {0, i}
        /\ bind_texture(i, r) /\ UNCHANGED <<taken, textures, creating>>
    BY <1>2, BindKeepsContract
  <2>2. mainPc # "joined" /\ i \in DOMAIN texture_order
    BY <2>1 DEF InProcess, TakenDown, Registered
  <2>3. /\ texture_order' = [texture_order EXCEPT ![i] = r]
        /\ texture_to_index' = [x \in Textures |->
                IF x = r THEN i ELSE IF x = texture_order[i] THEN 0 ELSE texture_to_index[x]]
        /\ free_indices' = free_indices
    BY <2>1, <2>2 DEF bind_texture
  <2>4. texture_order' \in Seq(Textures \cup {None}) /\ DOMAIN texture_order' = DOMAIN texture_order
    BY <2>1, <2>2, <2>3 DEF Registered
  <2>5. \A t \in Textures : texture_to_index'[t] # 0 =>
            t \in DOMAIN textures /\ texture_to_index'[t] = textures[t]
    BY <2>1, <2>2, <2>3 DEF Registered
  <2>6. Asked' = Asked
    BY DEF Asked
  <2>7. Registered'
    BY <2>1, <2>2, <2>3, <2>4, <2>5, <2>6 DEF Registered
  <2>8. BindTexture(r)
    BY <2>1 DEF BindTexture
  <2> QED
    BY <2>1, <2>7, <2>8 DEF BTRNext
<1> QED
  BY <1>1, <1>2

LEMMA RegisteredCleanup ==
  ASSUME TakenDown, Registered, NEW t \in Textures, cleanup_texture(t)
  PROVE  Registered' /\ [BTRNext]_btrVars
<1> PICK i : i = textures[t]
  OBVIOUS
<1>1. /\ t \in DOMAIN textures /\ release_index(i) /\ taken' = taken \ {i}
      /\ textures' = Drop(textures, t)
      /\ mainPc = "joined" /\ mainPc' = mainPc
  BY DEF cleanup_texture, Destroy, TakenDown, vars
<1>2. i \in taken \/ \E j \in DOMAIN free_indices : free_indices[j] = i
  BY <1>1 DEF Registered
<1>3. i \in DOMAIN texture_order
  BY <1>2 DEF Registered
<1>4. /\ texture_order' \in Seq(Textures \cup {None}) /\ free_indices' \in Seq(DOMAIN texture_order')
      /\ taken' \subseteq DOMAIN texture_order'
      /\ \E j \in DOMAIN free_indices' : free_indices'[j] = i
      /\ \A j \in DOMAIN free_indices : j \in DOMAIN free_indices' /\ free_indices'[j] = free_indices[j]
  BY <1>1, <1>3, RegisteredRelease
<1>5. ASSUME NEW x \in DOMAIN textures'
      PROVE  textures'[x] \in taken' \/ \E j \in DOMAIN free_indices' : free_indices'[j] = textures'[x]
  <2>1. x \in DOMAIN textures /\ textures'[x] = textures[x]
    BY <1>1, <1>5 DEF Put, Drop
  <2>2. textures[x] \in taken \/ \E j \in DOMAIN free_indices : free_indices[j] = textures[x]
    BY <2>1 DEF Registered
  <2> QED
    BY <1>1, <1>4, <2>1, <2>2
<1>6. Registered'
  BY <1>1, <1>4, <1>5 DEF Registered
<1>7. ReleaseIndex
  BY <1>1, <1>2 DEF ReleaseIndex
<1> QED
  BY <1>6, <1>7 DEF BTRNext

LEMMA RegisteredStep ==
  ASSUME TypeInv, Order, LTInv, Registered, [LTNext]_ltVars
  PROVE  Registered' /\ [BTRNext]_btrVars
<1>0. TakenDown /\ Entries
  BY DEF LTInv
<1>1. CASE Create
  BY <1>0, <1>1, RegisteredCreate
<1>2. CASE Process
  BY <1>0, <1>2, RegisteredProcess
<1>3. CASE \/ Queue
           \/ run \/ render_one_frame \/ FramesComplete \/ RenderReturn
           \/ JoinTasks \/ shutdown_device \/ cleanup_storage \/ cleanup_meshes \/ cleanup_done
           \/ UNCHANGED ltVars
  <2>1. /\ UNCHANGED <<btrVars, textures, creating, made>>
        /\ mainPc' # "joined" => mainPc # "joined"
    BY <1>3, CacheKept DEF cache
  <2> QED
    BY <2>1, RegisteredKept
<1>4. ASSUME NEW t \in Textures, cleanup_texture(t) PROVE Registered' /\ [BTRNext]_btrVars
  BY <1>0, <1>4, RegisteredCleanup
<1> QED
  BY <1>1, <1>2, <1>3, <1>4 DEF LTNext, Teardown

LEMMA RegisteredInit == LTInit => Registered
<1> SUFFICES ASSUME LTInit PROVE Registered
  OBVIOUS
<1>1. /\ texture_order = <<>> /\ free_indices = <<>> /\ taken = {} /\ textures = << >> /\ creating = << >>
      /\ texture_to_index = [t \in Textures |-> 0]
      /\ made = [c \in Clients |-> 0]
  BY DEF LTInit, BTRInit, RegistryInit, Init
<1>2. Asked = {} /\ DOMAIN textures = {} /\ DOMAIN creating = {}
  BY <1>1 DEF Asked, Request
<1> QED
  BY <1>1, <1>2 DEF Registered

LEMMA RegisteredInvariance == LTSpec => [](TypeInv /\ Order /\ LTInv /\ Registered)
<1>1. LTSpec => [](TypeInv /\ Order /\ LTInv)
  BY LifetimeInvariance, PTL
<1>2. TypeInv /\ Order /\ LTInv /\ Registered /\ [LTNext]_ltVars => Registered'
  BY RegisteredStep
<1> QED
  BY <1>1, <1>2, RegisteredInit, PTL DEF LTSpec

\* From create_texture over process() to the cleanup, each on its own thread,
\* the renderer uses the registry as its header asks: the composition
\* implements BTRSpec, and with it MapsAgree and SlotsAccounted hold of it.
THEOREM LifetimeKeepsContract == LTSpec => BTRSpec
<1>1. LTInit => BTRInit
  BY DEF LTInit
<1>2. TypeInv /\ Order /\ LTInv /\ Registered /\ [LTNext]_ltVars => [BTRNext]_btrVars
  BY RegisteredStep
<1> QED
  BY <1>1, <1>2, RegisteredInvariance, PTL DEF LTSpec, BTRSpec

(* Whose a slot is: an entry's, a call's, or nobody's any more.             *)

Owned ==
    /\ \A i \in taken : \/ \E t \in DOMAIN textures : textures[t] = i
                        \/ \E c \in DOMAIN creating : creating[c].index = i
                        \/ i \in lost
    /\ lost \subseteq taken
    /\ \A t \in DOMAIN textures : textures[t] \notin lost
    /\ \A c \in DOMAIN creating :
           /\ creating[c].index \notin lost
           /\ \A t \in DOMAIN textures : textures[t] # creating[c].index
           /\ \A d \in DOMAIN creating : creating[d].index = creating[c].index => d = c

LEMMA OwnedKept ==
  ASSUME Owned, UNCHANGED <<taken, textures, creating, lost>> PROVE Owned'
BY DEF Owned

LEMMA OwnedStep ==
  ASSUME TypeInv, LTInv, Registered, Owned, [LTNext]_ltVars PROVE Owned'
<1>0. TakenDown /\ Entries
  BY DEF LTInv
<1>1. ASSUME NEW c \in Clients, NEW k, create_texture_miss(c, k) PROVE Owned'
  <2>1. PICK i \in Slots : /\ allocate_slot(i) /\ taken' = taken \cup {i}
                           /\ creating' = Put(creating, c, [key |-> k, index |-> i])
    BY <1>1 DEF create_texture_miss
  <2>2. UNCHANGED <<textures, lost>> /\ mainPc # "joined" /\ c \notin DOMAIN creating
    BY <1>1 DEF create_texture_miss, MayCall, Creating
  <2>3. i \notin taken
    BY <2>1, <2>2, RegisteredTake
  <2>4. /\ DOMAIN creating' = DOMAIN creating \cup {c}
        /\ creating'[c] = [key |-> k, index |-> i]
        /\ \A d \in DOMAIN creating : creating'[d] = creating[d]
    BY <2>1, <2>2 DEF Put, Drop
  <2>5. /\ creating'[c].index = i /\ i \notin lost
        /\ \A t \in DOMAIN textures : textures[t] # i
        /\ \A d \in DOMAIN creating : creating[d].index # i
    BY <2>2, <2>3, <2>4 DEF Owned, Registered
  <2> QED
    BY <2>1, <2>2, <2>4, <2>5 DEF Owned
<1>2. ASSUME NEW c \in Clients, insert_lost(c) PROVE Owned'
  <2>1. /\ UNCHANGED <<textures, taken>> /\ creating' = Drop(creating, c)
        /\ lost' = lost \cup {creating[c].index} /\ c \in DOMAIN creating /\ mainPc # "joined"
    BY <1>0, <1>2 DEF insert_lost, btrVars, Creating, TakenDown
  <2>2. /\ DOMAIN creating' = DOMAIN creating \ {c}
        /\ \A d \in DOMAIN creating' : creating'[d] = creating[d]
    BY <2>1 DEF Put, Drop
  <2> QED
    BY <2>1, <2>2 DEF Owned, Registered
<1>3. ASSUME NEW c \in Clients, insert(c) PROVE Owned'
  <2> PICK r : r = Current(c)'
    OBVIOUS
  <2>1. /\ r \notin Asked /\ UNCHANGED <<taken, lost>> /\ c \in DOMAIN creating
        /\ textures' = Put(textures, r, creating[c].index) /\ creating' = Drop(creating, c)
    BY <1>3, AskFacts DEF insert, Creating, btrVars
  <2>2. r \notin DOMAIN textures
    BY <1>0, <2>1 DEF Entries
  <2>3. /\ DOMAIN textures' = DOMAIN textures \cup {r} /\ textures'[r] = creating[c].index
        /\ \A t \in DOMAIN textures : textures'[t] = textures[t]
    BY <2>1, <2>2 DEF Put, Drop
  <2>4. /\ DOMAIN creating' = DOMAIN creating \ {c}
        /\ \A d \in DOMAIN creating' : creating'[d] = creating[d]
    BY <2>1 DEF Put, Drop
  <2> QED
    BY <2>1, <2>3, <2>4 DEF Owned
<1>4. ASSUME NEW c \in Clients, upload_mesh(c) PROVE Owned'
  BY <1>4, OwnedKept DEF upload_mesh, btrVars, cache
<1>5. CASE Process
  <2>1. ASSUME NEW r, process(r) PROVE UNCHANGED <<taken, textures, creating, lost>>
    BY <2>1 DEF process, btrVars, cache
  <2> QED
    BY <1>5, <2>1, OwnedKept DEF Process
<1>6. CASE \/ Queue
           \/ run \/ render_one_frame \/ FramesComplete \/ RenderReturn
           \/ JoinTasks \/ shutdown_device \/ cleanup_storage \/ cleanup_meshes \/ cleanup_done
           \/ UNCHANGED ltVars
  BY <1>6, CacheKept, OwnedKept DEF btrVars, cache
<1>7. ASSUME NEW t \in Textures, cleanup_texture(t) PROVE Owned'
  <2>1. /\ t \in DOMAIN textures /\ textures' = Drop(textures, t)
        /\ taken' = taken \ {textures[t]} /\ UNCHANGED <<creating, lost>>
    BY <1>7 DEF cleanup_texture, Destroy
  <2>2. /\ DOMAIN textures' = DOMAIN textures \ {t}
        /\ \A u \in DOMAIN textures' : textures'[u] = textures[u]
    BY <2>1 DEF Put, Drop
  <2> QED
    BY <2>1, <2>2 DEF Owned
<1> QED
  BY <1>1, <1>2, <1>3, <1>4, <1>5, <1>6, <1>7 DEF LTNext, Create, Teardown

\* After the cleanup the slots still taken are exactly those of the calls of
\* create_texture that lost the race for their key: the slot of every entry is
\* given back, also of a texture whose request nobody processed, and nobody is
\* given a lost one.
THEOREM CleanupLeavesLostSlots == LTSpec => []OnlyLostSlotsStay
<1>1. LTInit => Owned
  <2> SUFFICES ASSUME LTInit PROVE Owned
    OBVIOUS
  <2>1. taken = {} /\ lost = {} /\ textures = << >> /\ creating = << >>
    BY DEF LTInit, BTRInit
  <2>2. DOMAIN textures = {} /\ DOMAIN creating = {}
    BY <2>1
  <2> QED
    BY <2>1, <2>2 DEF Owned
<1>2. TypeInv /\ Order /\ LTInv /\ Registered /\ Owned /\ [LTNext]_ltVars => Owned'
  BY OwnedStep
<1>3. LTInv /\ Owned => OnlyLostSlotsStay
  <2> SUFFICES ASSUME LTInv, Owned, teardown = "cleaned" PROVE taken = lost
    BY DEF OnlyLostSlotsStay
  <2>1. mainPc = "joined" /\ textures = << >>
    BY DEF LTInv, TakenDown, Entries
  <2>2. DOMAIN textures = {}
    BY <2>1
  <2>3. \A c \in DOMAIN creating : c \in Clients /\ ~Creating(c)
    BY <2>1 DEF LTInv, TakenDown, Entries
  <2>4. DOMAIN creating = {}
    BY <2>3 DEF Creating
  <2> QED
    BY <2>2, <2>4 DEF Owned
<1> QED
  BY <1>1, <1>2, <1>3, RegisteredInvariance, PTL DEF LTSpec
=============================================================================
