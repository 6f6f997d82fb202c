------------------------- MODULE BlockPolling_proofs -------------------------
(***************************************************************************)
(* Proofs about the block poller, for every chain length and every lowest  *)
(* height the node may report.                                             *)
(*                                                                         *)
(* NoGap is not inductive: it says nothing of the cursor between two polls *)
(* or of the batch under way.  IInv adds that a batch lies just above the  *)
(* cursor and below the head, that no goroutine outlives its batch, and    *)
(* that before the first batch the cursor is 0, or stuck at the wrapped    *)
(* value, which no head can exceed.                                        *)
(***************************************************************************)
EXTENDS BlockPolling, TLAPS

\* How the batch under way relates to the cursor and the chain.
BatchInv ==
    /\ pc # "wait" => fetching = {}
    /\ pc = "wait" =>
        /\ first # 0
        /\ last < latest
        /\ latest <= head
        /\ \A b \in fetching : last < b /\ b <= latest

\* Where the cursor is, before and after the first batch.
CursorInv ==
    /\ first = 0 => last \in {0, MaxUint}
    /\ first # 0 =>
        /\ first <= last + 1
        /\ last <= head
        /\ pc # "wait" => first <= last

\* Every block of the range handed out was handed out exactly once.
AttemptsInv ==
    \A b \in Blocks :
        attempts[b] = IF first # 0 /\ first <= b /\ b <= Frontier THEN 1 ELSE 0

IInv == TypeOK /\ BatchInv /\ CursorInv /\ AttemptsInv

-----------------------------------------------------------------------------

\* The invariant holds before the first poll.
LEMMA InitIInv == Init => IInv
<1> SUFFICES ASSUME Init
             PROVE  IInv
  OBVIOUS
<1>1. attempts \in [Blocks -> Nat]
  BY DEF Init
<1>2. TypeOK
  <2>1. /\ head \in MinHead .. MaxHead
        /\ last \in 0 .. MaxHead \cup {MaxUint}
        /\ latest \in 0 .. MaxHead
        /\ first \in 0 .. MaxHead
    BY PollingAssumption DEF Init
  <2>2. fetching \subseteq Blocks /\ fetched \subseteq Blocks
    BY DEF Init
  <2>3. pc \in {"select", "header", "wait", "exited"}
    BY DEF Init
  <2> QED
    BY <1>1, <2>1, <2>2, <2>3 DEF Init, TypeOK
<1>3. BatchInv /\ CursorInv
  BY DEF Init, BatchInv, CursorInv
<1>4. AttemptsInv
  BY DEF Init, AttemptsInv
<1> QED
  BY <1>2, <1>3, <1>4 DEF IInv

\* What StartPoint returns to a poll that finds something new: the cursor,
\* or on the first poll the block before the head.
LEMMA StartPointValue ==
    ASSUME IInv, NEW h \in MinHead .. head, h > StartPoint(h), pc = "header"
    PROVE  /\ StartPoint(h) \in Nat
           /\ h \in Blocks
           /\ last <= StartPoint(h)
           /\ first = 0 => last = 0 /\ StartPoint(h) = h - 1
           /\ first # 0 => StartPoint(h) = last /\ first <= last
  BY PollingAssumption DEF IInv, TypeOK, BatchInv, CursorInv, StartPoint,
        Predecessor, Blocks

\* A poll that finds something new starts a batch right above the cursor.
LEMMA SpawnIInv ==
    ASSUME IInv, NEW h \in MinHead .. head, SpawnWorkers(h)
    PROVE  IInv'
<1> USE PollingAssumption
<1>1. /\ pc = "header"
      /\ h > StartPoint(h)
      /\ last' = StartPoint(h)
      /\ latest' = h
      /\ fetching' = StartPoint(h) + 1 .. h
      /\ first' = IF first = 0 THEN StartPoint(h) + 1 ELSE first
      /\ attempts' = [b \in Blocks |->
                        attempts[b] + IF b \in StartPoint(h) + 1 .. h THEN 1 ELSE 0]
      /\ pc' = "wait"
      /\ UNCHANGED <<head, tick, shutdown, hasTarget, crashed, fetched>>
  BY DEF SpawnWorkers, NewBlocks, env
<1>2. /\ StartPoint(h) \in Nat
      /\ h \in Blocks
      /\ last <= StartPoint(h)
      /\ first = 0 => last = 0 /\ StartPoint(h) = h - 1
      /\ first # 0 => StartPoint(h) = last /\ first <= last
  BY <1>1, StartPointValue
<1>3. /\ head \in Nat /\ head <= MaxHead /\ h <= head /\ h \in Nat
      /\ first \in 0 .. MaxHead
      /\ attempts \in [Blocks -> Nat]
  BY DEF IInv, TypeOK
<1>4. TypeOK'
  <2>1. last' \in 0 .. MaxHead /\ latest' \in 0 .. MaxHead /\ fetching' \subseteq Blocks
        /\ first' \in 0 .. MaxHead
    BY <1>1, <1>2, <1>3 DEF Blocks
  <2>2. attempts' \in [Blocks -> Nat]
    BY <1>1, <1>3
  <2> QED
    BY <2>1, <2>2, <1>1 DEF IInv, TypeOK, Blocks
<1>5. BatchInv'
  BY <1>1, <1>2, <1>3 DEF BatchInv
<1>6. CursorInv'
  BY <1>1, <1>2, <1>3 DEF CursorInv
<1>7. AttemptsInv'
  <2> SUFFICES ASSUME NEW b \in Blocks
               PROVE  attempts'[b] = IF first' # 0 /\ first' <= b /\ b <= h
                                     THEN 1 ELSE 0
    BY <1>1 DEF AttemptsInv, Frontier
  <2>1. attempts'[b] = attempts[b] + IF b \in StartPoint(h) + 1 .. h THEN 1 ELSE 0
    BY <1>1
  <2>2. attempts[b] = IF first # 0 /\ first <= b /\ b <= last THEN 1 ELSE 0
    BY <1>1 DEF IInv, AttemptsInv, Frontier
  <2>3. b \in Nat /\ b >= 1
    BY DEF Blocks
  <2>4. CASE first = 0
    <3>1. first' = StartPoint(h) + 1 /\ StartPoint(h) + 1 = h /\ h \in Nat
      BY <2>4, <1>1, <1>2, <1>3
    <3>2. attempts[b] = 0
      BY <2>2, <2>4
    <3> QED
      BY <3>1, <3>2, <2>1, <2>3, <1>2, <1>3
  <2>5. CASE first # 0
    <3>1. first' = first /\ StartPoint(h) = last /\ first <= last
      BY <2>5, <1>1, <1>2
    <3>2. CASE b \in StartPoint(h) + 1 .. h
      BY <3>1, <3>2, <2>1, <2>2, <2>3, <2>5, <1>2, <1>3
    <3>3. CASE b \notin StartPoint(h) + 1 .. h
      BY <3>1, <3>3, <2>1, <2>2, <2>3, <2>5, <1>1, <1>2, <1>3
    <3> QED
      BY <3>2, <3>3
  <2> QED
    BY <2>4, <2>5
<1> QED
  BY <1>4, <1>5, <1>6, <1>7 DEF IInv

\* A fetch that ends, well or not, takes its goroutine out of the batch.
LEMMA FetchIInv ==
    ASSUME IInv, NEW b \in Blocks, FetchReply(b)
    PROVE  IInv'
<1>1. CASE FetchError(b)
  BY <1>1 DEF FetchError, IInv, TypeOK, BatchInv, CursorInv, AttemptsInv,
        Frontier, env, hist
<1>2. CASE FetchOK(b)
  <2>1. /\ fetching' = fetching \ {b}
        /\ fetched' = fetched \cup {b}
        /\ UNCHANGED <<env, pc, last, latest, crashed, first, attempts>>
    BY <1>2 DEF FetchOK
  <2> QED
    BY <1>2, <2>1 DEF IInv, TypeOK, BatchInv, CursorInv, AttemptsInv, Frontier, env
<1>3. CASE FetchPanic(b)
  BY <1>3 DEF FetchPanic, IInv, TypeOK, BatchInv, CursorInv, AttemptsInv,
        Frontier, env, hist
<1> QED
  BY <1>1, <1>2, <1>3 DEF FetchReply

\* A poll that finds nothing new leaves the cursor where StartPoint has it.
LEMMA NothingNewIInv ==
    ASSUME IInv, NEW h \in MinHead .. head, NothingNew(h)
    PROVE  IInv'
<1>1. /\ first # 0 => last' = last
      /\ first = 0 => last' \in {0, MaxUint}
  BY PollingAssumption
     DEF NothingNew, IInv, TypeOK, CursorInv, StartPoint, Predecessor
<1> QED
  BY <1>1, PollingAssumption
     DEF NothingNew, IInv, TypeOK, BatchInv, CursorInv, AttemptsInv, Frontier,
         Blocks, env, hist

\* Every step of the poller and of its environment preserves the invariant.
LEMMA NextIInv == IInv /\ [Next]_vars => IInv'
<1> SUFFICES ASSUME IInv, [Next]_vars
             PROVE  IInv'
  OBVIOUS
<1> USE PollingAssumption
<1>1. CASE GrowChain
  BY <1>1 DEF GrowChain, IInv, TypeOK, BatchInv, CursorInv, AttemptsInv,
        Frontier, hist
<1>2. CASE Tick
  BY <1>2 DEF Tick, IInv, TypeOK, BatchInv, CursorInv, AttemptsInv,
        Frontier, hist
<1>3. CASE CloseShutdown
  BY <1>3 DEF CloseShutdown, IInv, TypeOK, BatchInv, CursorInv, AttemptsInv,
        Frontier, hist
<1>4. CASE SelectTick
  BY <1>4 DEF SelectTick, IInv, TypeOK, BatchInv, CursorInv, AttemptsInv,
        Frontier, hist
<1>5. CASE SelectShutdown
  BY <1>5 DEF SelectShutdown, IInv, TypeOK, BatchInv, CursorInv, AttemptsInv,
        Frontier, env, hist
<1>6. CASE HeaderError
  BY <1>6 DEF HeaderError, IInv, TypeOK, BatchInv, CursorInv, AttemptsInv,
        Frontier, env, hist
<1>7. CASE \E h \in MinHead .. head : HeaderReply(h)
  BY <1>7, NothingNewIInv, SpawnIInv DEF HeaderReply
<1>8. CASE Advance
  BY <1>8 DEF Advance, IInv, TypeOK, BatchInv, CursorInv, AttemptsInv,
        Frontier, Blocks, env, hist
<1>9. CASE \E b \in Blocks : FetchReply(b)
  BY <1>9, FetchIInv
<1>10. CASE UNCHANGED vars
  BY <1>10 DEF vars, IInv, TypeOK, BatchInv, CursorInv, AttemptsInv, Frontier
<1> QED
  BY <1>1, <1>2, <1>3, <1>4, <1>5, <1>6, <1>7, <1>8, <1>9, <1>10
     DEF Next, Stopped

\* The inductive invariant of the poller, for every MinHead and MaxHead.
THEOREM Invariant == Spec => []IInv
  BY InitIInv, NextIInv, PTL DEF Spec

-----------------------------------------------------------------------------

\* Type correctness of the poller.
THEOREM TypeCorrect == Spec => []TypeOK
<1>1. IInv => TypeOK
  BY DEF IInv
<1> QED
  BY <1>1, Invariant, PTL

\* No block is ever handed to two goroutines.
THEOREM NoBlockTwiceHolds == Spec => []NoBlockTwice
<1>1. IInv => NoBlockTwice
  BY DEF IInv, AttemptsInv, NoBlockTwice
<1> QED
  BY <1>1, Invariant, PTL

\* The blocks handed out are an unbroken range.
THEOREM NoGapHolds == Spec => []NoGap
<1>1. IInv => NoGap
  <2> SUFFICES ASSUME IInv
               PROVE  NoGap
    OBVIOUS
  <2>1. first # 0 => first \in Blocks /\ Frontier \in Nat /\ Frontier <= MaxHead
    BY PollingAssumption DEF IInv, TypeOK, BatchInv, CursorInv, Frontier, Blocks
  <2>2. \A b \in Blocks : b \in Attempted <=> first # 0 /\ first <= b /\ b <= Frontier
    BY DEF IInv, AttemptsInv, Attempted
  <2>3. Attempted \subseteq Blocks
    BY DEF Attempted
  <2>4. CASE first = 0
    BY <2>2, <2>3, <2>4 DEF NoGap
  <2>5. CASE first # 0
    <3>1. \A n : n \in Attempted <=> n \in Blocks /\ first <= n /\ n <= Frontier
      BY <2>2, <2>3, <2>5
    <3>2. \A n : n \in first .. Frontier <=> n \in Blocks /\ first <= n /\ n <= Frontier
      BY <2>1, <2>5, PollingAssumption DEF Blocks
    <3> QED
      BY <3>1, <3>2, <2>5 DEF NoGap
  <2> QED
    BY <2>4, <2>5
<1> QED
  BY <1>1, Invariant, PTL

\* Every goroutine of a batch works on a block above the cursor.
THEOREM CursorBehindWorkersHolds == Spec => []CursorBehindWorkers
<1>1. IInv => CursorBehindWorkers
  BY DEF IInv, BatchInv, CursorBehindWorkers
<1> QED
  BY <1>1, Invariant, PTL

\* On a node that never reports height 0 the cursor stays on the chain.
THEOREM CursorOnChainHolds ==
    ASSUME MinHead > 0
    PROVE  Spec => []CursorOnChain
<1> DEFINE J == IInv /\ last # MaxUint
<1>1. Init => J
  BY InitIInv, PollingAssumption DEF Init
<1>2. J /\ [Next]_vars => J'
  <2> SUFFICES ASSUME J, [Next]_vars
               PROVE  J'
    OBVIOUS
  <2>1. IInv'
    BY NextIInv
  <2>2. last' # MaxUint
    <3>1. ASSUME NEW h \in MinHead .. head, HeaderReply(h)
          PROVE  last' # MaxUint
      BY <3>1, PollingAssumption
         DEF HeaderReply, NothingNew, SpawnWorkers, StartPoint, Predecessor,
             IInv, TypeOK
    <3>2. CASE Advance
      BY <3>2, PollingAssumption DEF Advance, IInv, TypeOK
    <3>3. CASE UNCHANGED last
      BY <3>3
    <3> QED
      BY <3>1, <3>2, <3>3
         DEF Next, GrowChain, Tick, CloseShutdown, SelectTick, SelectShutdown,
             HeaderError, FetchReply, FetchError, FetchOK, FetchPanic,
             Stopped, vars
  <2> QED
    BY <2>1, <2>2
<1>3. J => CursorOnChain
  BY PollingAssumption DEF IInv, TypeOK, CursorInv, CursorOnChain
<1> QED
  BY <1>1, <1>2, <1>3, PTL DEF Spec

\* lastProcessedBlock never moves back.
THEOREM CursorMonotoneHolds == Spec => CursorMonotone
<1>1. IInv /\ [Next]_vars => [last' >= last]_vars
  <2> SUFFICES ASSUME IInv, [Next]_vars
               PROVE  last' >= last
    OBVIOUS
  <2>0. last \in Nat
    BY PollingAssumption DEF IInv, TypeOK
  <2>1. ASSUME NEW h \in MinHead .. head, HeaderReply(h)
        PROVE  last' >= last
    BY <2>1, <2>0, PollingAssumption
       DEF HeaderReply, NothingNew, SpawnWorkers, StartPoint, Predecessor,
           IInv, TypeOK
  <2>2. CASE Advance
    BY <2>2, <2>0 DEF Advance, IInv, TypeOK, BatchInv
  <2>3. CASE UNCHANGED last
    BY <2>3, <2>0
  <2> QED
    BY <2>1, <2>2, <2>3
       DEF Next, GrowChain, Tick, CloseShutdown, SelectTick, SelectShutdown,
           HeaderError, FetchReply, FetchError, FetchOK, FetchPanic,
           Stopped, vars
<1> QED
  BY <1>1, Invariant, PTL DEF Spec, CursorMonotone

-----------------------------------------------------------------------------
(* What the poller does guarantee where NoBlockMissed fails: a block at or *)
(* below the cursor was asked for exactly once, and the answer is in.      *)

CoveredOnce ==
    \A b \in Blocks :
        (first # 0 /\ first <= b /\ b <= last) =>
            attempts[b] = 1 /\ b \notin fetching

\* A poller that has returned leaves no goroutine behind and no block half
\* done: everything it ever handed out lies at or below the cursor.
NothingLeftBehind ==
    pc = "exited" =>
        /\ fetching = {}
        /\ \A b \in Attempted : b <= last

\* Every block the cursor has passed since the first one was handed to one
\* goroutine, once, and that goroutine has ended: the only way to lose a
\* block is the error answer of processBlockReceipts, which is not retried.
THEOREM CoveredOnceHolds == Spec => []CoveredOnce
<1>1. IInv => CoveredOnce
  <2> SUFFICES ASSUME IInv, NEW b \in Blocks, first # 0, first <= b, b <= last
               PROVE  attempts[b] = 1 /\ b \notin fetching
    BY DEF CoveredOnce
  <2>1. last \in Nat /\ latest \in Nat /\ b \in Nat
    BY PollingAssumption DEF IInv, TypeOK, Blocks
  <2>2. b <= Frontier
    BY <2>1 DEF IInv, BatchInv, Frontier
  <2>3. attempts[b] = 1
    BY <2>2 DEF IInv, AttemptsInv
  <2>4. b \notin fetching
    BY <2>1 DEF IInv, BatchInv
  <2> QED
    BY <2>3, <2>4
<1> QED
  BY <1>1, Invariant, PTL

\* The return of StartBlockPolling drops no batch under way: the select is
\* only reached again after wg.Wait and the move of the cursor.
THEOREM NothingLeftBehindHolds == Spec => []NothingLeftBehind
<1>1. IInv => NothingLeftBehind
  <2> SUFFICES ASSUME IInv, pc = "exited"
               PROVE  fetching = {} /\ \A b \in Attempted : b <= last
    BY DEF NothingLeftBehind
  <2>1. fetching = {}
    BY DEF IInv, BatchInv
  <2>2. ASSUME NEW b \in Attempted
        PROVE  b <= last
    <3>1. b \in Blocks /\ attempts[b] > 0
      BY DEF Attempted
    <3> QED
      BY <3>1 DEF IInv, AttemptsInv, Frontier
  <2> QED
    BY <2>1, <2>2
<1> QED
  BY <1>1, Invariant, PTL
-----------------------------------------------------------------------------
(* The refinement.  The abstract set of finished blocks is Done: handed to *)
(* a goroutine that has ended since.                                       *)

Done == Attempted \ fetching

\* A poll that spawns a batch joins the chain, or is a stutter.
LEMMA SpawnRefines ==
    ASSUME IInv, NEW h \in MinHead .. head, SpawnWorkers(h)
    PROVE  Cursor!Next \/ (last' = last /\ Done' = Done)
<1> USE PollingAssumption
<1>1. /\ pc = "header"
      /\ h > StartPoint(h)
      /\ last' = StartPoint(h)
      /\ fetching' = StartPoint(h) + 1 .. h
      /\ attempts' = [b \in Blocks |->
                        attempts[b] + IF b \in StartPoint(h) + 1 .. h THEN 1 ELSE 0]
  BY DEF SpawnWorkers, NewBlocks
<1>2. /\ StartPoint(h) \in Nat
      /\ h \in Blocks
      /\ first = 0 => last = 0 /\ StartPoint(h) = h - 1
      /\ first # 0 => StartPoint(h) = last /\ first <= last
  BY <1>1, StartPointValue
<1>3. fetching = {}
  BY <1>1 DEF IInv, BatchInv
<1>4. attempts \in [Blocks -> Nat]
  BY DEF IInv, TypeOK
<1>5. Done' = Done
  <2>1. ASSUME NEW b \in Blocks
        PROVE  attempts'[b] > 0 /\ b \notin fetching' <=> attempts[b] > 0
    <3>1. attempts'[b] = attempts[b] + IF b \in StartPoint(h) + 1 .. h THEN 1 ELSE 0
      BY <1>1
    <3>2. CASE b \in StartPoint(h) + 1 .. h
      <4>1. attempts[b] = 0
        BY <3>2, <1>1, <1>2, PollingAssumption
           DEF IInv, TypeOK, AttemptsInv, Frontier, Blocks
      <4> QED
        BY <4>1, <3>2, <1>1
    <3>3. CASE b \notin StartPoint(h) + 1 .. h
      BY <3>1, <3>3, <1>1, <1>4
    <3> QED
      BY <3>2, <3>3
  <2> QED
    BY <2>1, <1>3 DEF Done, Attempted
<1>6. CASE first # 0
  BY <1>1, <1>2, <1>5, <1>6
<1>7. CASE first = 0 /\ h = 1
  BY <1>1, <1>2, <1>5, <1>7
<1>8. CASE first = 0 /\ h # 1
  <2>1. Done = {}
    BY <1>8, <1>3, <1>4 DEF IInv, AttemptsInv, Done, Attempted
  <2>2. h - 1 \in 1 .. MaxHead
    BY <1>2, <1>8 DEF Blocks
  <2>3. Cursor!Join(h - 1)
    BY <1>1, <1>2, <1>5, <1>8, <2>1 DEF Cursor!Join, Done
  <2> QED
    BY <2>2, <2>3 DEF Cursor!Next
<1> QED
  BY <1>6, <1>7, <1>8

\* A poll that finds nothing leaves the abstract state alone, unless the
\* node reports height 0 and the cursor wraps: that joins at MaxUint.
LEMMA NothingNewRefines ==
    ASSUME IInv, NEW h \in MinHead .. head, NothingNew(h)
    PROVE  Cursor!Next \/ (last' = last /\ Done' = Done)
<1>1. Done' = Done /\ last' = StartPoint(h) /\ fetching = {}
  BY DEF NothingNew, Done, Attempted, hist, IInv, BatchInv
<1>2. CASE StartPoint(h) = last
  BY <1>1, <1>2
<1>3. CASE StartPoint(h) # last
  <2>1. last = 0 /\ StartPoint(h) = MaxUint /\ first = 0
    BY <1>3, PollingAssumption
       DEF NothingNew, StartPoint, Predecessor, IInv, TypeOK, CursorInv, BatchInv
  <2>2. Done = {}
    BY <2>1 DEF IInv, TypeOK, AttemptsInv, Done, Attempted
  <2>3. Cursor!Join(MaxUint)
    BY <1>1, <2>1, <2>2 DEF Cursor!Join, Done
  <2> QED
    BY <2>3 DEF Cursor!Next
<1> QED
  BY <1>2, <1>3

\* A fetch that ends finishes its block; a panic changes nothing abstract.
LEMMA FetchRefines ==
    ASSUME IInv, NEW b \in Blocks, FetchReply(b)
    PROVE  Cursor!Next \/ (last' = last /\ Done' = Done)
<1>1. CASE FetchError(b) \/ FetchOK(b)
  <2>1. /\ b \in fetching
        /\ fetching' = fetching \ {b}
        /\ last' = last
        /\ attempts' = attempts
    BY <1>1 DEF FetchError, FetchOK, hist
  <2>2. last < b /\ b \in Attempted
    <3>1. /\ pc = "wait"
          /\ first # 0
          /\ last < b
          /\ b <= latest
          /\ first <= last + 1
      BY <2>1 DEF IInv, BatchInv, CursorInv
    <3>2. last \in Nat /\ first \in Nat /\ b \in Nat
      BY PollingAssumption DEF IInv, TypeOK, Blocks
    <3>3. attempts[b] = 1
      BY <3>1, <3>2 DEF IInv, AttemptsInv, Frontier
    <3> QED
      BY <3>1, <3>3 DEF Attempted
  <2>3. Done' = Done \cup {b} /\ b \notin Done
    BY <2>1, <2>2 DEF Done, Attempted
  <2> QED
    BY <2>1, <2>2, <2>3 DEF Cursor!Next, Cursor!Finish, Done, Blocks
<1>2. CASE FetchPanic(b)
  BY <1>2 DEF FetchPanic, Done, Attempted, hist
<1> QED
  BY <1>1, <1>2 DEF FetchReply

\* wg.Wait makes the move of the cursor an abstract Advance.
LEMMA AdvanceRefines == IInv /\ Advance => Cursor!Next
<1> SUFFICES ASSUME IInv, Advance
             PROVE  Cursor!Next
  OBVIOUS
<1>1. /\ fetching = {} /\ fetching' = {}
      /\ last' = latest
      /\ attempts' = attempts
      /\ pc = "wait"
  BY DEF Advance, hist
<1>2. /\ first # 0
      /\ last < latest
      /\ latest \in Blocks
      /\ first <= last + 1
      /\ last \in Nat
      /\ first \in Nat
  BY <1>1, PollingAssumption DEF IInv, TypeOK, BatchInv, CursorInv, Blocks
<1>3. \A b \in Blocks : b \in Done <=> first <= b /\ b <= latest
  BY <1>1, <1>2 DEF IInv, AttemptsInv, Frontier, Done, Attempted
<1>4. last + 1 .. latest \subseteq Done
  BY <1>2, <1>3, PollingAssumption DEF Blocks
<1>5. \A b \in Done : b <= latest
  BY <1>3 DEF Done, Attempted
<1>6. Done' = Done
  BY <1>1 DEF Done, Attempted
<1>7. Cursor!Advance(latest)
  BY <1>1, <1>2, <1>4, <1>5, <1>6 DEF Cursor!Advance, Done
<1> QED
  BY <1>2, <1>7 DEF Cursor!Next, Blocks

\* The poller implements the abstract cursor.
THEOREM Refinement == Spec => CursorSpec
<1>1. Init => Cursor!Init
  BY DEF Init, Cursor!Init, Attempted
<1>2. IInv /\ [Next]_vars => [Cursor!Next]_(Cursor!vars)
  <2> SUFFICES ASSUME IInv, [Next]_vars
               PROVE  Cursor!Next \/ (last' = last /\ Done' = Done)
    BY DEF Cursor!vars, Done
  <2>1. CASE \E h \in MinHead .. head : HeaderReply(h)
    BY <2>1, SpawnRefines, NothingNewRefines DEF HeaderReply
  <2>2. CASE Advance
    BY <2>2, AdvanceRefines
  <2>3. CASE \E b \in Blocks : FetchReply(b)
    BY <2>3, FetchRefines
  <2>4. CASE UNCHANGED <<last, attempts, fetching>>
    BY <2>4 DEF Done, Attempted
  <2> QED
    BY <2>1, <2>2, <2>3, <2>4
       DEF Next, GrowChain, Tick, CloseShutdown, SelectTick, SelectShutdown,
           HeaderError, Stopped, vars, env, hist
<1> QED
  BY <1>1, <1>2, Invariant, PTL DEF Spec, CursorSpec, Cursor!Spec
=============================================================================
