---------------------------- MODULE SerialUploads ----------------------------
(***************************************************************************)
(* What the GPU resource thread promises its callers, without saying who   *)
(* runs a request: requests run one at a time, each at most once, and the  *)
(* requests of one client in the order the client made them. A request may *)
(* stay unserved.                                                          *)
(***************************************************************************)
EXTENDS Naturals, Sequences

CONSTANT Request   \* <<client, position among the client's calls>>

VARIABLES asked,   \* the requests made so far
          active,  \* the requests being processed
          served   \* the requests processed, in order

suVars == <<asked, active, served>>

Served == {served[i] : i \in 1 .. Len(served)}

\* r comes after q in the program order of their client.
Later(r, q) == r[1] = q[1] /\ r[2] > q[2]

SUInit == asked = {} /\ active = {} /\ served = <<>>

Ask(r) ==
    /\ r \notin asked
    /\ \A q \in asked : ~Later(q, r)
    /\ asked' = asked \cup {r}
    /\ UNCHANGED <<active, served>>

Begin(r) ==
    /\ active = {}
    /\ r \in asked \ Served
    /\ \A q \in Served : ~Later(q, r)
    /\ active' = {r}
    /\ UNCHANGED <<asked, served>>

Finish(r) ==
    /\ active = {r}
    /\ active' = {}
    /\ served' = Append(served, r)
    /\ UNCHANGED asked

SUNext == \E r \in Request : Ask(r) \/ Begin(r) \/ Finish(r)

SUSpec == SUInit /\ [][SUNext]_suVars
=============================================================================
