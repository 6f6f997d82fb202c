--------------------------- MODULE GracefulShutdown ---------------------------
(***************************************************************************)
(* What a program that shuts down with a closed channel and a WaitGroup    *)
(* promises of its jobs: they start before the signal and end only after   *)
(* it, each runs once, and main is past WG.Wait only when all have ended,  *)
(* from where on nothing can fail any more.  A failure leaves the jobs     *)
(* that ran where they were.                                               *)
(***************************************************************************)
CONSTANT Jobs

VARIABLES
    stage,    \* "running", "draining" from the signal on, "over", or "failed"
    working   \* the jobs whose goroutine runs

vars == <<stage, working>>

Init ==
    /\ stage = "running"
    /\ working = {}

Start(j) ==
    /\ stage = "running"
    /\ j \notin working
    /\ working' = working \cup {j}
    /\ UNCHANGED stage

Signal ==
    /\ stage = "running"
    /\ stage' = "draining"
    /\ UNCHANGED working

Stop(j) ==
    /\ stage = "draining"
    /\ j \in working
    /\ working' = working \ {j}
    /\ UNCHANGED stage

Exit ==
    /\ stage = "draining"
    /\ working = {}
    /\ stage' = "over"
    /\ UNCHANGED working

Fail ==
    /\ stage \in {"running", "draining"}
    /\ stage' = "failed"
    /\ UNCHANGED working

Next ==
    \/ \E j \in Jobs : Start(j) \/ Stop(j)
    \/ Signal \/ Exit \/ Fail

Spec == Init /\ [][Next]_vars
=============================================================================
