--------------------------- MODULE Listening_proofs ---------------------------
(***************************************************************************)
(* Proofs about the listeners, for any number of targets, callers,         *)
(* addresses and logs.                                                     *)
(*                                                                         *)
(* Three invariants that do not depend on each other: ClaimInv is about    *)
(* the entries of tokenSubs, RowInv about the rows the handlers write, and *)
(* IInv about WG, which counts the goroutines through every hand-over.     *)
(***************************************************************************)
EXTENDS Listening, FiniteSetTheorems, TLAPS

\* A caller that subscribes, or has a goroutine.
Claims(c) == caller[c] = "subscribe" \/ loop[c] # "none"

ClaimInv ==
    /\ caller \in [Callers -> {"idle", "subscribe", "done"}]
    /\ loop \in [Callers -> {"none", "up", "sleep", "down"}]
    /\ \A c \in Callers : caller[c] \in {"idle", "subscribe"} => loop[c] = "none"
    /\ \A c \in Callers : Claims(c) => token[c] \in tokenSubs
    /\ \A c, d \in Callers : token[c] = token[d] /\ Claims(c) /\ Claims(d) => c = d

\* Every step of a caller's own goroutines.
CallerStep ==
    \E c \in Callers :
        \/ ClaimToken(c) \/ TokenLoop(c) \/ TokenConnectionLost(c)

\* main, and the goroutines it starts besides the listeners.
MainStep ==
    \/ StartPoller \/ StartMonitor \/ Signal \/ Exit
    \/ \E j \in Others : OtherEnds(j)

\* The rest leaves callers, their goroutines and the entries alone.
LEMMA OtherSteps ==
    ASSUME [Next]_vars
    PROVE  \/ CallerStep
           \/ UNCHANGED <<token, caller, loop, tokenSubs>>
<1>1. CASE \E l \in Logs : Emit(l)
  BY <1>1 DEF Emit, world, loops
<1>2. ASSUME NEW g \in Targets, Listen(g) \/ ConnectionLost(g)
      PROVE  UNCHANGED <<token, caller, loop, tokenSubs>>
  BY <1>2 DEF Listen, Subscribed, SubscribeFails, Reconnect, OldReturns,
              ListenerStops, ConnectionLost, world, loops
<1>3. ASSUME NEW g \in Targets, NEW l \in Logs, Receive(g, l) \/ HandleEvent(g, l)
      PROVE  UNCHANGED <<token, caller, loop, tokenSubs>>
  BY <1>3 DEF Receive, HandleEvent, Dispatch, Save, world, loops
<1>4. ASSUME NEW c \in Callers, NEW l \in Logs, TokenReceive(c, l)
      PROVE  UNCHANGED <<token, caller, loop, tokenSubs>>
  BY <1>4 DEF TokenReceive, world, loops
<1>5. CASE MainStep \/ Gone \/ UNCHANGED vars
  BY <1>5 DEF MainStep, StartPoller, StartMonitor, OtherEnds, Signal, Exit, Gone, world,
              loops, vars
<1> QED
  BY <1>1, <1>2, <1>3, <1>4, <1>5 DEF Next, MainStep, CallerStep

LEMMA InitClaimInv == Init => ClaimInv
  BY DEF Init, ClaimInv, Claims

LEMMA NextClaimInv == ClaimInv /\ [Next]_vars => ClaimInv'
<1> SUFFICES ASSUME ClaimInv, [Next]_vars
             PROVE  ClaimInv'
  OBVIOUS
<1>1. ASSUME NEW c \in Callers, ClaimToken(c)
      PROVE  ClaimInv'
  <2>1. /\ caller[c] = "idle"
        /\ caller' = [caller EXCEPT ![c] =
                        IF token[c] \in tokenSubs THEN "done" ELSE "subscribe"]
        /\ tokenSubs' = tokenSubs \cup {token[c]}
        /\ loop' = loop
        /\ token' = token
    BY <1>1 DEF ClaimToken, world
  <2>2. loop[c] = "none"
    BY <2>1 DEF ClaimInv
  <2>3. CASE token[c] \in tokenSubs
    BY <2>1, <2>2, <2>3 DEF ClaimInv, Claims
  <2>4. CASE token[c] \notin tokenSubs
    <3>1. \A d \in Callers : Claims(d) => token[d] # token[c]
      BY <2>4 DEF ClaimInv
    <3>2. caller' = [caller EXCEPT ![c] = "subscribe"]
      BY <2>1, <2>4
    <3>3. \A d \in Callers : d # c => (Claims(d)' <=> Claims(d))
      BY <2>1, <3>2 DEF ClaimInv, Claims
    <3> QED
      BY <2>1, <2>2, <3>1, <3>2, <3>3 DEF ClaimInv, Claims
  <2> QED
    BY <2>3, <2>4
<1>2. ASSUME NEW c \in Callers, TokenLoop(c) \/ TokenConnectionLost(c)
      PROVE  ClaimInv'
  <2>1. /\ Claims(c)
        /\ token' = token /\ tokenSubs' = tokenSubs
        /\ \/ caller' = [caller EXCEPT ![c] = "done"]
           \/ caller' = caller /\ caller[c] = "done"
        /\ loop' = loop \/ \E s \in {"up", "sleep", "down"} : loop' = [loop EXCEPT ![c] = s]
    BY <1>2 DEF TokenLoop, TokenSubscribed, TokenSubscribeFails, TokenReconnect,
                TokenStops, TokenConnectionLost, ClaimInv, Claims, world
  <2> QED
    BY <2>1 DEF ClaimInv, Claims
<1>3. CASE UNCHANGED <<token, caller, loop, tokenSubs>>
  BY <1>3 DEF ClaimInv, Claims
<1> QED
  BY <1>1, <1>2, <1>3, OtherSteps DEF CallerStep

\* An address is subscribed once, however many goroutines ask for it: check
\* and entry are one step under tokenSubsMu.
THEOREM OneSubscriptionHolds == Spec => []OneSubscriptionPerAddress
<1>1. ClaimInv => OneSubscriptionPerAddress
  BY DEF ClaimInv, Claims, OneSubscriptionPerAddress
<1> QED
  BY <1>1, InitClaimInv, NextClaimInv, PTL DEF Spec

-----------------------------------------------------------------------------
\* TriggeredIsRecorded speaks of buys only, and a step that starts one would
\* have to know that its handler has not returned.  The rows of all handled
\* events, and the inserts that failed, are easier to keep track of.
RowInv ==
    /\ \A x \in buys : Recorded(x[2])
    /\ \A x \in handled :
           Recorded(x[2]) => x \in lost \/ \E r \in rows : r[1] = tx[x[2]]

LEMMA SaveKeepsRows ==
    ASSUME NEW st, NEW l \in Logs, SaveTxRecord(st, l)
    PROVE  /\ rows \subseteq rows' /\ lost \subseteq lost'
           /\ <<st, l>> \in lost' \/ \E r \in rows' : r[1] = tx[l]
<1>1. CASE \E r \in rows : r[1] = tx[l]
  BY <1>1 DEF SaveTxRecord
<1>2. CASE ~ \E r \in rows : r[1] = tx[l]
  <2>1. <<tx[l], topic[l]>>[1] = tx[l]
    OBVIOUS
  <2>2. CASE rows' = rows \cup {<<tx[l], topic[l]>>} /\ lost' = lost
    BY <2>1, <2>2
  <2>3. CASE rows' = rows /\ lost' = lost \cup {<<st, l>>}
    BY <2>3
  <2> QED
    BY <1>2, <2>2, <2>3 DEF SaveTxRecord
<1> QED
  BY <1>1, <1>2

LEMMA NextRowInv == RowInv /\ [Next]_vars => RowInv'
<1> SUFFICES ASSUME RowInv, [Next]_vars
             PROVE  RowInv'
  OBVIOUS
<1>1. topic' = topic /\ tx' = tx
  <2>1. ASSUME NEW l \in Logs, Emit(l)
        PROVE  UNCHANGED <<topic, tx>>
    BY <2>1 DEF Emit, world
  <2>2. ASSUME NEW g \in Targets, Listen(g) \/ ConnectionLost(g)
        PROVE  UNCHANGED <<topic, tx>>
    BY <2>2 DEF Listen, Subscribed, SubscribeFails, Reconnect, OldReturns,
                ListenerStops, ConnectionLost, world
  <2>3. ASSUME NEW g \in Targets, NEW l \in Logs, Receive(g, l) \/ HandleEvent(g, l)
        PROVE  UNCHANGED <<topic, tx>>
    BY <2>3 DEF Receive, HandleEvent, Dispatch, Save, world
  <2>4. ASSUME NEW c \in Callers, ClaimToken(c) \/ TokenLoop(c) \/ TokenConnectionLost(c)
        PROVE  UNCHANGED <<topic, tx>>
    BY <2>4 DEF ClaimToken, TokenLoop, TokenSubscribed, TokenSubscribeFails,
                TokenReconnect, TokenStops, TokenConnectionLost, world
  <2>5. ASSUME NEW c \in Callers, NEW l \in Logs, TokenReceive(c, l)
        PROVE  UNCHANGED <<topic, tx>>
    BY <2>5 DEF TokenReceive, world
  <2>6. CASE MainStep \/ Gone \/ UNCHANGED vars
    BY <2>6 DEF MainStep, StartPoller, StartMonitor, OtherEnds, Signal, Exit, Gone, vars,
                world
  <2> QED
    BY <2>1, <2>2, <2>3, <2>4, <2>5, <2>6 DEF Next, MainStep
<1>2. ASSUME NEW g \in Targets, NEW l \in Logs, Dispatch(g, l)
      PROVE  RowInv'
  <2>1. /\ rows' = rows /\ lost' = lost
        /\ buys' = IF Triggers(g, l) THEN buys \cup {<<g, l>>} ELSE buys
        /\ handled' = IF Recorded(l) THEN handled ELSE handled \cup {<<g, l>>}
    BY <1>2 DEF Dispatch, table
  <2>2. Triggers(g, l) => Recorded(l)
    BY Zenon DEF Triggers, Recorded
  <2>3. <<g, l>>[2] = l
    OBVIOUS
  <2> QED
    BY <1>1, <2>1, <2>2, <2>3 DEF RowInv, Recorded
<1>3. ASSUME NEW g \in Targets, NEW l \in Logs, Save(g, l)
      PROVE  RowInv'
  <2>1. /\ SaveTxRecord(g, l)
        /\ buys' = buys
        /\ handled' = handled \cup {<<g, l>>}
    BY <1>3 DEF Save
  <2>2. <<g, l>>[2] = l
    OBVIOUS
  <2> QED
    BY <1>1, <2>1, <2>2, SaveKeepsRows DEF RowInv, Recorded
<1>4. ASSUME NEW c \in Callers, NEW l \in Logs, TokenReceive(c, l)
      PROVE  RowInv'
  <2>1. /\ SaveTxRecord(c, l)
        /\ buys' = buys
        /\ handled' = handled \cup {<<c, l>>}
    BY <1>4 DEF TokenReceive
  <2>2. <<c, l>>[2] = l
    OBVIOUS
  <2> QED
    BY <1>1, <2>1, <2>2, SaveKeepsRows DEF RowInv, Recorded
<1>5. CASE UNCHANGED <<buys, handled, table>>
  BY <1>1, <1>5 DEF RowInv, Recorded, table
<1>6. \/ \E g \in Targets, l \in Logs : Dispatch(g, l) \/ Save(g, l)
      \/ \E c \in Callers, l \in Logs : TokenReceive(c, l)
      \/ UNCHANGED <<buys, handled, table>>
  <2>1. ASSUME NEW l \in Logs, Emit(l)
        PROVE  UNCHANGED <<buys, handled, table>>
    BY <2>1 DEF Emit, handlers
  <2>2. ASSUME NEW g \in Targets, Listen(g) \/ ConnectionLost(g)
        PROVE  UNCHANGED <<buys, handled, table>>
    BY <2>2 DEF Listen, Subscribed, SubscribeFails, Reconnect, OldReturns,
                ListenerStops, ConnectionLost, handlers
  <2>3. ASSUME NEW g \in Targets, NEW l \in Logs, Receive(g, l)
        PROVE  UNCHANGED <<buys, handled, table>>
    BY <2>3 DEF Receive
  <2>4. ASSUME NEW c \in Callers, ClaimToken(c) \/ TokenLoop(c) \/ TokenConnectionLost(c)
        PROVE  UNCHANGED <<buys, handled, table>>
    BY <2>4 DEF ClaimToken, TokenLoop, TokenSubscribed, TokenSubscribeFails,
                TokenReconnect, TokenStops, TokenConnectionLost, handlers
  <2>5. CASE MainStep \/ Gone \/ UNCHANGED vars
    BY <2>5 DEF MainStep, StartPoller, StartMonitor, OtherEnds, Signal, Exit, Gone,
                handlers, vars
  <2> QED
    BY <2>1, <2>2, <2>3, <2>4, <2>5 DEF Next, MainStep, HandleEvent
<1> QED
  BY <1>2, <1>3, <1>4, <1>5, <1>6

\* No event starts a buy and goes unrecorded but by a failing insert: the
\* record is saved whatever the switch did, and a transaction that already
\* has a row keeps it.
THEOREM TriggeredIsRecordedHolds == Spec => []TriggeredIsRecorded
<1>1. Init => RowInv
  BY DEF Init, RowInv
<1>2. RowInv => TriggeredIsRecorded
  BY DEF RowInv, TriggeredIsRecorded
<1> QED
  BY <1>1, <1>2, NextRowInv, PTL DEF Spec

-----------------------------------------------------------------------------
(* The goroutines WG counts: that of a target while it is up, asleep or    *)
(* subscribes again, those that have handed over and not returned, that of *)
(* a caller, the poller and the monitor.  Each is a triple, the ones that  *)
(* leave are numbered.                                                     *)

Triples == {"listener", "old", "loop", "other"} \X (Streams \cup Others) \X Nat

Runs(w) ==
    \/ /\ w[1] = "listener" /\ w[3] = 0
       /\ w[2] \in Targets /\ listener[w[2]] \in Live
    \/ /\ w[1] = "old"
       /\ w[2] \in Targets /\ w[3] \in 1 .. leaving[w[2]]
    \/ /\ w[1] = "loop" /\ w[3] = 0
       /\ w[2] \in Callers /\ loop[w[2]] \in {"up", "sleep"}
    \/ w[1] = "other" /\ w[3] = 0 /\ w[2] \in others

Workers == {w \in Triples : Runs(w)}

CountInv ==
    /\ IsFiniteSet(Workers)
    /\ wg = Cardinality(Workers)

\* StartAllListeners has started all of them; who exits has waited for WG.
StageInv ==
    /\ phase \in {"running", "draining", "exited"} \/ others # {} =>
           \A g \in Targets : listener[g] # "off"
    /\ phase = "exited" => wg = 0

IInv == TypeOK /\ CountInv /\ StageInv

\* What a step may do to the goroutines and to WG.
Adds(w)  == w \notin Workers /\ Workers' = Workers \cup {w} /\ wg' = wg + 1
Drops(w) == w \in Workers /\ Workers' = Workers \ {w} /\ wg' = wg - 1
Keeps    == Workers' = Workers /\ wg' = wg

LEMMA Counting ==
    ASSUME CountInv, Keeps \/ \E w : Adds(w) \/ Drops(w)
    PROVE  CountInv' /\ wg' \in Nat
<1>1. CASE Keeps
  BY <1>1, FS_CardinalityType DEF CountInv, Keeps
<1>2. ASSUME NEW w, Adds(w)
      PROVE  CountInv' /\ wg' \in Nat
  <2>1. IsFiniteSet(Workers') /\ Cardinality(Workers') = Cardinality(Workers) + 1
    BY <1>2, FS_AddElement DEF CountInv, Adds
  <2> QED
    BY <1>2, <2>1, FS_CardinalityType DEF CountInv, Adds
<1>3. ASSUME NEW w, Drops(w)
      PROVE  CountInv' /\ wg' \in Nat
  <2>1. IsFiniteSet(Workers') /\ Cardinality(Workers') = Cardinality(Workers) - 1
    BY <1>3, FS_RemoveElement DEF CountInv, Drops
  <2> QED
    BY <1>3, <2>1, FS_CardinalityType DEF CountInv, Drops
<1> QED
  BY <1>1, <1>2, <1>3

\* The goroutine of a target begins, hands over, ends or returns.
LEMMA ListenCounts ==
    ASSUME TypeOK, NEW g \in Targets, Listen(g) \/ ConnectionLost(g)
    PROVE  Keeps \/ \E w : Adds(w) \/ Drops(w)
<1> USE DEF TypeOK, Streams, Live, process
<1> DEFINE mine == <<"listener", g, 0>>
<1>1. CASE Subscribed(g) /\ listener[g] = "off"
  <2>1. mine \in Triples
    BY DEF Triples
  <2>2. \A w \in Triples : Runs(w)' <=> (Runs(w) \/ w = mine)
    BY <1>1 DEF Subscribed, Triples, Runs
  <2>3. ~Runs(mine) /\ wg' = wg + 1
    BY <1>1 DEF Subscribed, Runs
  <2>4. Adds(mine)
    BY <2>1, <2>2, <2>3 DEF Workers, Adds
  <2> QED
    BY <2>4
<1>2. CASE Subscribed(g) /\ listener[g] = "resubscribe"
  <2> DEFINE old == <<"old", g, leaving[g] + 1>>
  <2>1. old \in Triples
    BY DEF Triples
  <2>2. \A w \in Triples : Runs(w)' <=> (Runs(w) \/ w = old)
    BY <1>2 DEF Subscribed, Triples, Runs
  <2>3. ~Runs(old) /\ wg' = wg + 1
    BY <1>2 DEF Subscribed, Runs
  <2>4. Adds(old)
    BY <2>1, <2>2, <2>3 DEF Workers, Adds
  <2> QED
    BY <2>4
<1>3. CASE SubscribeFails(g) \/ Reconnect(g) \/ ConnectionLost(g)
  <2>1. \A w \in Triples : Runs(w)' <=> Runs(w)
    BY <1>3 DEF SubscribeFails, Reconnect, ConnectionLost, loops, Triples, Runs
  <2> QED
    BY <1>3, <2>1 DEF SubscribeFails, Reconnect, ConnectionLost, Workers, Keeps
<1>4. CASE OldReturns(g)
  <2> DEFINE old == <<"old", g, leaving[g]>>
  <2>1. old \in Triples
    BY DEF Triples
  <2>2. \A w \in Triples : Runs(w)' <=> (Runs(w) /\ w # old)
    BY <1>4 DEF OldReturns, Triples, Runs
  <2>3. Runs(old) /\ wg' = wg - 1
    BY <1>4 DEF OldReturns, Runs
  <2>4. Drops(old)
    BY <2>1, <2>2, <2>3 DEF Workers, Drops
  <2> QED
    BY <2>4
<1>5. CASE ListenerStops(g)
  <2>1. mine \in Triples
    BY DEF Triples
  <2>2. \A w \in Triples : Runs(w)' <=> (Runs(w) /\ w # mine)
    BY <1>5 DEF ListenerStops, Triples, Runs
  <2>3. Runs(mine) /\ wg' = wg - 1
    BY <1>5 DEF ListenerStops, Runs
  <2>4. Drops(mine)
    BY <2>1, <2>2, <2>3 DEF Workers, Drops
  <2> QED
    BY <2>4
<1> QED
  BY <1>1, <1>2, <1>3, <1>4, <1>5 DEF Listen, Subscribed

\* The same of a caller's goroutine.
LEMMA CallerCounts ==
    ASSUME TypeOK, \A c \in Callers : caller[c] = "subscribe" => loop[c] = "none",
           NEW c \in Callers, ClaimToken(c) \/ TokenLoop(c) \/ TokenConnectionLost(c)
    PROVE  Keeps \/ \E w : Adds(w) \/ Drops(w)
<1> USE DEF TypeOK, Streams, process
<1> DEFINE mine == <<"loop", c, 0>>
<1>1. mine \in Triples
  BY DEF Triples
<1>2. CASE TokenSubscribed(c)
  <2>1. \A w \in Triples : Runs(w)' <=> (Runs(w) \/ w = mine)
    BY <1>2 DEF TokenSubscribed, Triples, Runs
  <2>2. ~Runs(mine) /\ wg' = wg + 1
    BY <1>2 DEF TokenSubscribed, Runs
  <2>3. Adds(mine)
    BY <1>1, <2>1, <2>2 DEF Workers, Adds
  <2> QED
    BY <2>3
<1>3. CASE TokenReconnect(c) \/ TokenStops(c)
  <2>1. \A w \in Triples : Runs(w)' <=> (Runs(w) /\ w # mine)
    BY <1>3 DEF TokenReconnect, TokenStops, Triples, Runs
  <2>2. Runs(mine) /\ wg' = wg - 1
    BY <1>3 DEF TokenReconnect, TokenStops, Runs
  <2>3. Drops(mine)
    BY <1>1, <2>1, <2>2 DEF Workers, Drops
  <2> QED
    BY <2>3
<1>4. CASE ClaimToken(c) \/ TokenSubscribeFails(c) \/ TokenConnectionLost(c)
  <2>1. \A w \in Triples : Runs(w)' <=> Runs(w)
    BY <1>4 DEF ClaimToken, TokenSubscribeFails, TokenConnectionLost, Triples, Runs
  <2> QED
    BY <1>4, <2>1 DEF ClaimToken, TokenSubscribeFails, TokenConnectionLost, Workers,
                      Keeps
<1> QED
  BY <1>2, <1>3, <1>4 DEF TokenLoop

\* The same of the poller and the monitor.
LEMMA MainCounts ==
    ASSUME TypeOK, MainStep
    PROVE  Keeps \/ \E w : Adds(w) \/ Drops(w)
<1> USE DEF TypeOK, Others, loops
<1>1. ASSUME NEW j \in Others, j \notin others, others' = others \cup {j},
             wg' = wg + 1, UNCHANGED loops
      PROVE  \E w : Adds(w)
  <2> DEFINE mine == <<"other", j, 0>>
  <2>1. mine \in Triples
    BY DEF Triples
  <2>2. \A w \in Triples : Runs(w)' <=> (Runs(w) \/ w = mine)
    BY <1>1 DEF Triples, Runs
  <2>3. ~Runs(mine)
    BY <1>1 DEF Runs
  <2>4. Adds(mine)
    BY <1>1, <2>1, <2>2, <2>3 DEF Workers, Adds
  <2> QED
    BY <2>4
<1>2. ASSUME NEW j \in Others, OtherEnds(j)
      PROVE  \E w : Drops(w)
  <2> DEFINE mine == <<"other", j, 0>>
  <2>1. mine \in Triples
    BY DEF Triples
  <2>2. \A w \in Triples : Runs(w)' <=> (Runs(w) /\ w # mine)
    BY <1>2 DEF OtherEnds, Triples, Runs
  <2>3. Runs(mine) /\ wg' = wg - 1
    BY <1>2 DEF OtherEnds, Runs
  <2>4. Drops(mine)
    BY <2>1, <2>2, <2>3 DEF Workers, Drops
  <2> QED
    BY <2>4
<1>3. CASE StartPoller
  BY <1>1, <1>3 DEF StartPoller
<1>4. CASE StartMonitor
  <2>1. others' = others \cup {"monitor"} /\ "monitor" \notin others
    BY <1>4 DEF StartMonitor
  <2> QED
    BY <1>1, <1>4, <2>1 DEF StartMonitor
<1>5. CASE Signal \/ Exit
  <2>1. UNCHANGED <<others, wg, loops>>
    BY <1>5 DEF Signal, Exit
  <2> QED
    BY <2>1 DEF Keeps, Workers, Triples, Runs
<1> QED
  BY <1>2, <1>3, <1>4, <1>5 DEF MainStep

-----------------------------------------------------------------------------
(* The invariant of WG.                                                    *)

LEMMA InitIInv == Init => IInv
<1> SUFFICES ASSUME Init
             PROVE  IInv
  OBVIOUS
<1>1. Workers = {}
  BY DEF Init, Workers, Triples, Runs, Live
<1>2. CountInv
  BY <1>1, FS_EmptySet DEF CountInv, Init
<1>3. StageInv
  BY DEF Init, StageInv
<1>4. TypeOK
  <2>1. /\ phase \in {"starting", "running", "draining", "exited", "fatal"}
        /\ failures \in 0 .. MaxFailures
        /\ wg \in Nat
    BY ListeningAssumption DEF Init, ListeningAssumption
  <2>2. /\ listener \in [Targets -> {"off", "down"} \cup Live]
        /\ leaving \in [Targets -> Nat]
        /\ caller \in [Callers -> {"idle", "subscribe", "done"}]
        /\ loop \in [Callers -> {"none", "up", "sleep", "down"}]
    BY DEF Init
  <2> QED
    BY <2>1, <2>2, Zenon DEF Init, TypeOK
<1> QED
  BY <1>2, <1>3, <1>4 DEF IInv

\* What becomes of the counter in any step.
LEMMA NextCounts ==
    ASSUME IInv, ClaimInv, [Next]_vars
    PROVE  CountInv' /\ wg' \in Nat
<1>1. ASSUME UNCHANGED <<wg, loops, process>>
      PROVE  Keeps
  BY <1>1 DEF Keeps, Workers, Triples, Runs, loops, process
<1>2. ASSUME NEW l \in Logs, Emit(l)
      PROVE  Keeps
  BY <1>1, <1>2 DEF Emit
<1>3. ASSUME NEW g \in Targets, Listen(g) \/ ConnectionLost(g)
      PROVE  Keeps \/ \E w : Adds(w) \/ Drops(w)
  BY <1>3, ListenCounts DEF IInv
<1>4. ASSUME NEW g \in Targets, NEW l \in Logs, Receive(g, l) \/ HandleEvent(g, l)
      PROVE  Keeps
  BY <1>1, <1>4 DEF Receive, HandleEvent, Dispatch, Save
<1>5. ASSUME NEW c \in Callers, ClaimToken(c) \/ TokenLoop(c) \/ TokenConnectionLost(c)
      PROVE  Keeps \/ \E w : Adds(w) \/ Drops(w)
  BY <1>5, CallerCounts DEF IInv, ClaimInv
<1>6. ASSUME NEW c \in Callers, NEW l \in Logs, TokenReceive(c, l)
      PROVE  Keeps
  BY <1>1, <1>6 DEF TokenReceive
<1>7. ASSUME UNCHANGED vars
      PROVE  Keeps
  BY <1>1, <1>7 DEF vars
<1>8. Keeps \/ \E w : Adds(w) \/ Drops(w)
  BY <1>2, <1>3, <1>4, <1>5, <1>6, <1>7, MainCounts, Zenon DEF IInv, Next, MainStep, Gone
<1> QED
  BY <1>8, Counting DEF IInv

\* The types of all that is not the counter.
LEMMA NextTypes ==
    ASSUME TypeOK, [Next]_vars, wg' \in Nat
    PROVE  TypeOK'
<1> USE DEF TypeOK, world, feed, process, loops, handlers, table, Streams
<1>1. ASSUME NEW l \in Logs, Emit(l)
      PROVE  TypeOK'
  BY <1>1 DEF Emit
<1>2. ASSUME NEW g \in Targets, Listen(g) \/ ConnectionLost(g)
      PROVE  TypeOK'
  <2>1. CASE Subscribed(g) \/ OldReturns(g)
    BY <1>2, <2>1 DEF Subscribed, OldReturns, Live
  <2>2. CASE SubscribeFails(g)
    BY <1>2, <2>2 DEF SubscribeFails
  <2>3. CASE ConnectionLost(g) \/ Reconnect(g) \/ ListenerStops(g)
    BY <1>2, <2>3, ListeningAssumption
       DEF ConnectionLost, Reconnect, ListenerStops, Live, Emptied, ListeningAssumption
  <2> QED
    BY <1>2, <2>1, <2>2, <2>3 DEF Listen
<1>3. ASSUME NEW g \in Targets, NEW l \in Logs, Receive(g, l)
      PROVE  TypeOK'
  BY <1>3 DEF Receive
<1>4. ASSUME NEW g \in Targets, NEW l \in Logs, HandleEvent(g, l)
      PROVE  TypeOK'
  BY <1>4, ListeningAssumption DEF HandleEvent, Dispatch, Save, SaveTxRecord, ListeningAssumption
<1>5. ASSUME NEW c \in Callers, ClaimToken(c) \/ TokenLoop(c) \/ TokenConnectionLost(c)
      PROVE  TypeOK'
  <2>1. CASE ClaimToken(c)
    BY <1>5, <2>1 DEF ClaimToken
  <2>2. CASE TokenLoop(c)
    BY <1>5, <2>2 DEF TokenLoop, TokenSubscribed, TokenSubscribeFails, TokenReconnect,
                      TokenStops, Emptied
  <2>3. CASE TokenConnectionLost(c)
    BY <1>5, <2>3, ListeningAssumption DEF TokenConnectionLost, Emptied,
                                           ListeningAssumption
  <2> QED
    BY <1>5, <2>1, <2>2, <2>3
<1>6. ASSUME NEW c \in Callers, NEW l \in Logs, TokenReceive(c, l)
      PROVE  TypeOK'
  BY <1>6, ListeningAssumption DEF TokenReceive, SaveTxRecord, ListeningAssumption
<1>7. CASE MainStep \/ UNCHANGED vars
  BY <1>7 DEF MainStep, StartPoller, StartMonitor, OtherEnds, Others, Signal, Exit, vars
<1> QED
  BY <1>1, <1>2, <1>3, <1>4, <1>5, <1>6, <1>7 DEF Next, MainStep, Gone

LEMMA NextStages ==
    ASSUME TypeOK, StageInv, [Next]_vars
    PROVE  StageInv'
<1> USE DEF StageInv, Alive, process, loops
<1>1. ASSUME NEW g \in Targets, Listen(g) \/ ConnectionLost(g)
      PROVE  StageInv'
  <2>1. CASE SubscribeFails(g)
    BY <2>1 DEF SubscribeFails
  <2>2. CASE OldReturns(g)
    BY <2>2 DEF OldReturns
  <2>3. ASSUME NEW new \in Live \cup {"down"}, Alive,
               listener' = [listener EXCEPT ![g] = new], UNCHANGED process
        PROVE  StageInv'
    BY <2>3 DEF TypeOK, Live
  <2>4. CASE Subscribed(g) \/ Reconnect(g) \/ ListenerStops(g) \/ ConnectionLost(g)
    BY <2>3, <2>4 DEF Subscribed, Reconnect, ListenerStops, ConnectionLost, Live
  <2> QED
    BY <1>1, <2>1, <2>2, <2>4 DEF Listen
<1>2. ASSUME NEW c \in Callers, ClaimToken(c) \/ TokenLoop(c) \/ TokenConnectionLost(c)
      PROVE  StageInv'
  BY <1>2 DEF ClaimToken, TokenLoop, TokenSubscribed, TokenSubscribeFails,
              TokenReconnect, TokenStops, TokenConnectionLost
<1>3. ASSUME NEW l \in Logs,
             \/ Emit(l)
             \/ \E g \in Targets : Receive(g, l) \/ HandleEvent(g, l)
             \/ \E c \in Callers : TokenReceive(c, l)
      PROVE  StageInv'
  BY <1>3 DEF Emit, Receive, HandleEvent, Dispatch, Save, TokenReceive
<1>4. CASE MainStep \/ UNCHANGED vars
  BY <1>4 DEF MainStep, StartPoller, StartMonitor, OtherEnds, Signal, Exit, vars
<1> QED
  BY <1>1, <1>2, <1>3, <1>4 DEF Next, MainStep, Gone

LEMMA NextIInv == IInv /\ ClaimInv /\ [Next]_vars => IInv'
  BY NextCounts, NextTypes, NextStages DEF IInv

\* WG counts the goroutines of targets and callers.
THEOREM Invariant == Spec => []IInv
<1> QED
  BY InitIInv, NextIInv, InitClaimInv, NextClaimInv, PTL DEF Spec

\* The variables keep their types; of WG that it never drops below 0, where
\* Done would panic.
THEOREM TypeCorrect == Spec => []TypeOK
<1>1. IInv => TypeOK
  BY DEF IInv
<1> QED
  BY <1>1, Invariant, PTL

\* main returns after the last listener of a target, through any number of
\* hand-overs.
THEOREM ExitAfterListenersHolds == Spec => []ExitAfterListeners
<1>1. ASSUME IInv, phase = "exited", NEW g \in Targets
      PROVE  listener[g] = "down"
  <2>1. Workers = {}
    BY <1>1, FS_EmptySet DEF IInv, CountInv, StageInv
  <2>2. <<"listener", g, 0>> \in Triples
    BY DEF Triples, Streams
  <2>3. listener[g] \notin Live
    BY <2>1, <2>2 DEF Workers, Runs
  <2> QED
    BY <1>1, <2>3 DEF IInv, TypeOK, StageInv
<1>2. IInv => ExitAfterListeners
  BY <1>1 DEF ExitAfterListeners
<1> QED
  BY <1>2, Invariant, PTL

-----------------------------------------------------------------------------
(* The refinement of GracefulShutdown by the listeners of the targets.     *)

\* The channel is closed at the signal and the process does not come back.
SignalInv ==
    /\ shutdown => phase \in {"draining", "exited", "fatal"}
    /\ phase = "draining" => shutdown

LEMMA NextSignalInv == SignalInv /\ [Next]_vars => SignalInv'
<1> SUFFICES ASSUME SignalInv, [Next]_vars
             PROVE  SignalInv'
  OBVIOUS
<1> USE DEF SignalInv, process
<1>1. ASSUME NEW g \in Targets, Listen(g) \/ ConnectionLost(g)
      PROVE  SignalInv'
  BY <1>1 DEF Listen, Subscribed, SubscribeFails, Reconnect, OldReturns,
              ListenerStops, ConnectionLost
<1>2. ASSUME NEW c \in Callers, ClaimToken(c) \/ TokenLoop(c) \/ TokenConnectionLost(c)
      PROVE  SignalInv'
  BY <1>2 DEF ClaimToken, TokenLoop, TokenSubscribed, TokenSubscribeFails,
              TokenReconnect, TokenStops, TokenConnectionLost
<1>3. ASSUME NEW l \in Logs,
             \/ Emit(l)
             \/ \E g \in Targets : Receive(g, l) \/ HandleEvent(g, l)
             \/ \E c \in Callers : TokenReceive(c, l)
      PROVE  SignalInv'
  <2>1. UNCHANGED process
    BY <1>3 DEF Emit, Receive, HandleEvent, Dispatch, Save, TokenReceive
  <2> QED
    BY <2>1
<1>4. CASE MainStep \/ UNCHANGED vars
  BY <1>4 DEF MainStep, StartPoller, StartMonitor, OtherEnds, Signal, Exit, vars
<1> QED
  BY <1>1, <1>2, <1>3, <1>4 DEF Next, MainStep, Gone

\* What a step has to do to be one of the abstract program.
Mapped == Shutdown!Next \/ (Stage' = Stage /\ Serving' = Serving)

\* Only the first subscription starts a job, only the signal ends one; the
\* goroutine that serves a target changes hands unseen.
LEMMA ListenRefines ==
    ASSUME IInv, SignalInv, NEW g \in Targets, Listen(g) \/ ConnectionLost(g)
    PROVE  Mapped
<1> USE DEF Mapped, Stage
<1>1. CASE Subscribed(g) /\ listener[g] = "off"
  <2>1. phase \in {"starting", "running"} /\ phase' = phase
    <3>1. phase \notin {"running", "draining", "exited", "fatal"}
      BY <1>1 DEF IInv, StageInv, Subscribed, Alive
    <3> QED
      BY <1>1, <3>1 DEF IInv, TypeOK, Subscribed, process
  <2>2. g \notin Serving /\ Serving' = Serving \cup {g}
    BY <1>1, ListeningAssumption
       DEF ListeningAssumption, IInv, TypeOK, Subscribed, process, Serving, Live
  <2>3. Shutdown!Start(g)
    BY <2>1, <2>2 DEF Shutdown!Start
  <2> QED
    BY <2>3 DEF Shutdown!Next
<1>2. CASE Subscribed(g) /\ listener[g] = "resubscribe"
  <2>1. phase' = phase /\ Serving' = Serving
    BY <1>2 DEF IInv, TypeOK, Subscribed, process, Serving, Live
  <2> QED
    BY <2>1
<1>3. CASE SubscribeFails(g)
  <2>1. Stage \in {"running", "draining"}
    BY <1>3 DEF IInv, TypeOK, SubscribeFails, Alive
  <2>2. Stage' = "failed" /\ Serving' = Serving
    BY <1>3 DEF SubscribeFails, loops, Serving
  <2>3. Shutdown!Fail
    BY <2>1, <2>2 DEF Shutdown!Fail
  <2> QED
    BY <2>3 DEF Shutdown!Next
<1>4. CASE Reconnect(g) \/ ConnectionLost(g) \/ OldReturns(g)
  <2>1. phase' = phase /\ Serving' = Serving
    BY <1>4 DEF IInv, TypeOK, Reconnect, ConnectionLost, OldReturns, process,
                Serving, Live
  <2> QED
    BY <2>1
<1>5. CASE ListenerStops(g)
  <2>1. phase = "draining" /\ phase' = phase
    BY <1>5 DEF ListenerStops, Alive, SignalInv, process
  <2>2. g \in Serving /\ Serving' = Serving \ {g}
    BY <1>5, ListeningAssumption
       DEF ListeningAssumption, IInv, TypeOK, ListenerStops, process, Serving, Live
  <2>3. Shutdown!Stop(g)
    BY <2>1, <2>2 DEF Shutdown!Stop
  <2> QED
    BY <2>3 DEF Shutdown!Next
<1> QED
  BY <1>1, <1>2, <1>3, <1>4, <1>5 DEF Listen, Subscribed

\* WG at 0 is the end of every listener: the counting invariant is what the
\* abstract Exit needs.
LEMMA ExitRefines == IInv /\ Exit => Shutdown!Exit
<1> SUFFICES ASSUME IInv, Exit
             PROVE  Shutdown!Exit
  OBVIOUS
<1>1. wg = 0 /\ phase = "draining" /\ phase' = "exited"
  BY DEF Exit
<1>2. Workers = {}
  BY <1>1, FS_EmptySet DEF IInv, CountInv
<1>3. \A g \in Targets : <<"listener", g, 0>> \in Triples
  BY DEF Triples, Streams
<1>4. Serving = {}
  <2>1. ASSUME NEW g \in Targets, listener[g] \in Live
        PROVE  FALSE
    <3>1. <<"listener", g, 0>> \in Workers
      BY <1>3, <2>1 DEF Workers, Runs
    <3> QED
      BY <1>2, <3>1
  <2>2. ASSUME NEW j \in others
        PROVE  FALSE
    <3>1. <<"other", j, 0>> \in Workers
      BY DEF IInv, TypeOK, Triples, Workers, Runs
    <3> QED
      BY <1>2, <3>1
  <2> QED
    BY <2>1, <2>2 DEF Serving
<1>5. Serving' = Serving
  BY DEF Exit, loops, Serving
<1> QED
  BY <1>1, <1>4, <1>5 DEF Shutdown!Exit, Stage

\* Poller and monitor start once and end on the signal.
LEMMA OtherRefines ==
    ASSUME IInv, SignalInv, StartPoller \/ StartMonitor \/ \E j \in Others : OtherEnds(j)
    PROVE  Mapped
<1> USE DEF Mapped, Shutdown!Next, Stage, Others, loops
<1>1. ASSUME NEW j \in Others
      PROVE  j \in Serving <=> j \in others
  BY ListeningAssumption DEF ListeningAssumption, Serving
<1>2. CASE StartPoller
  <2>1. "poller" \notin Serving /\ Serving' = Serving \cup {"poller"}
    BY <1>1, <1>2 DEF StartPoller, Serving
  <2>2. Shutdown!Start("poller")
    BY <1>2, <2>1 DEF StartPoller, Shutdown!Start
  <2> QED
    BY <2>2
<1>3. CASE StartMonitor
  <2>1. "monitor" \notin Serving /\ Serving' = Serving \cup {"monitor"}
    BY <1>1, <1>3 DEF StartMonitor, Serving
  <2>2. Shutdown!Start("monitor")
    BY <1>3, <2>1 DEF StartMonitor, Shutdown!Start
  <2> QED
    BY <2>2
<1>4. ASSUME NEW j \in Others, OtherEnds(j)
      PROVE  Mapped
  <2>1. phase = "draining" /\ phase' = phase
    BY <1>4 DEF OtherEnds, Alive, SignalInv
  <2>2. j \in Serving /\ Serving' = Serving \ {j}
    BY <1>1, <1>4, ListeningAssumption DEF ListeningAssumption, OtherEnds, Serving
  <2>3. Shutdown!Stop(j)
    BY <2>1, <2>2 DEF Shutdown!Stop
  <2> QED
    BY <2>3
<1> QED
  BY <1>2, <1>3, <1>4

\* Listeners of any number of targets, poller and monitor implement
\* GracefulShutdown.
THEOREM ShutdownRefinement == Spec => ShutdownSpec
<1>1. Init => Shutdown!Init
  BY DEF Init, Shutdown!Init, Stage, Serving, Live
<1>2. Init => SignalInv
  BY DEF Init, SignalInv
<1>3. IInv /\ SignalInv /\ [Next]_vars => [Shutdown!Next]_(Shutdown!vars)
  <2> SUFFICES ASSUME IInv, SignalInv, [Next]_vars
               PROVE  Mapped
    BY DEF Mapped, Shutdown!vars
  <2>1. ASSUME NEW g \in Targets, Listen(g) \/ ConnectionLost(g)
        PROVE  Mapped
    BY <2>1, ListenRefines
  <2>2. CASE UNCHANGED <<phase, listener, others>>
    BY <2>2 DEF Mapped, Stage, Serving
  <2>3. ASSUME NEW c \in Callers, ClaimToken(c) \/ TokenLoop(c) \/ TokenConnectionLost(c)
        PROVE  UNCHANGED <<phase, listener, others>>
    BY <2>3 DEF ClaimToken, TokenLoop, TokenSubscribed, TokenSubscribeFails,
                TokenReconnect, TokenStops, TokenConnectionLost, process
  <2>4. ASSUME NEW l \in Logs,
               \/ Emit(l)
               \/ \E g \in Targets : Receive(g, l) \/ HandleEvent(g, l)
               \/ \E c \in Callers : TokenReceive(c, l)
        PROVE  UNCHANGED <<phase, listener, others>>
    BY <2>4 DEF Emit, Receive, HandleEvent, Dispatch, Save, TokenReceive, process, loops
  <2>5. CASE StartPoller \/ StartMonitor \/ \E j \in Others : OtherEnds(j)
    BY <2>5, OtherRefines
  <2>6. CASE Signal
    <3>1. Stage = "running" /\ Stage' = "draining" /\ Serving' = Serving
      BY <2>6 DEF Signal, Stage, Serving, loops
    <3> QED
      BY <3>1 DEF Mapped, Shutdown!Next, Shutdown!Signal
  <2>7. CASE Exit
    BY <2>7, ExitRefines DEF Mapped, Shutdown!Next
  <2>8. CASE Gone \/ UNCHANGED vars
    BY <2>2, <2>8 DEF Gone, vars, process, loops
  <2> QED
    BY <2>1, <2>2, <2>3, <2>4, <2>5, <2>6, <2>7, <2>8 DEF Next, MainStep
<1>4. Spec => [](IInv /\ ClaimInv)
  BY InitIInv, NextIInv, InitClaimInv, NextClaimInv, PTL DEF Spec
<1> QED
  BY <1>1, <1>2, <1>3, <1>4, NextSignalInv, PTL DEF Spec, ShutdownSpec, Shutdown!Spec

-----------------------------------------------------------------------------
(* The way of an event through its target: channel, switch, save, done.    *)
(* The node delivers it once to each subscription, see Emit.               *)

\* An event is at one place at a time, and none it was not delivered to.
PipeInv ==
    \A g \in Targets, l \in Logs :
        /\ <<g, l>> \in chan =>
            /\ l \in emitted
            /\ <<g, l, "switch">> \notin handling
            /\ <<g, l, "save">> \notin handling
            /\ <<g, l>> \notin handled
        /\ <<g, l, "switch">> \in handling =>
            /\ l \in emitted
            /\ <<g, l, "save">> \notin handling
            /\ <<g, l>> \notin handled
        /\ <<g, l, "save">> \in handling => l \in emitted /\ <<g, l>> \notin handled
        /\ <<g, l>> \in handled => l \in emitted
        /\ <<g, l>> \in buys =>
            /\ l \in emitted
            /\ <<g, l>> \notin chan
            /\ <<g, l, "switch">> \notin handling

\* An event that has started a buy is past the switch for good: it never
\* comes to "go trade.Buy(...)" a second time, through whatever hand-overs
\* of the goroutine that serves its target.
BuyOnce ==
    \A g \in Targets, l \in Logs :
        <<g, l>> \in buys => <<g, l>> \notin chan /\ <<g, l, "switch">> \notin handling

\* Steps that move no event: an event in a channel may be lost.
LEMMA PipeKept ==
    ASSUME PipeInv, UNCHANGED <<emitted, handlers>>, chan' \subseteq chan
    PROVE  PipeInv'
  BY DEF PipeInv, handlers

LEMMA NextPipeInv == PipeInv /\ [Next]_vars => PipeInv'
<1> SUFFICES ASSUME PipeInv, [Next]_vars
             PROVE  PipeInv'
  OBVIOUS
<1>1. ASSUME NEW k \in Logs, Emit(k)
      PROVE  PipeInv'
  <2>1. /\ k \notin emitted /\ emitted' = emitted \cup {k}
        /\ UNCHANGED <<handling, handled, buys>>
    BY <1>1 DEF Emit, handlers
  <2>2. \A g \in Targets, l \in Logs : <<g, l>> \in chan' => <<g, l>> \in chan \/ l = k
    <3>1. PICK on \in SUBSET {c \in Callers : loop[c] = "up" /\ topic[k] = "transfer"} :
            chan' = chan
              \cup {<<g, k>> : g \in {h \in Targets : listener[h] = "up" /\ Matches(h, k)}}
              \cup {<<c, k>> : c \in on}
      BY <1>1 DEF Emit
    <3> QED
      BY <3>1
  <2> SUFFICES ASSUME NEW g \in Targets, NEW l \in Logs
               PROVE  /\ <<g, l>> \in chan' =>
                          /\ l \in emitted'
                          /\ <<g, l, "switch">> \notin handling'
                          /\ <<g, l, "save">> \notin handling'
                          /\ <<g, l>> \notin handled'
                      /\ <<g, l, "switch">> \in handling' =>
                          /\ l \in emitted'
                          /\ <<g, l, "save">> \notin handling'
                          /\ <<g, l>> \notin handled'
                      /\ <<g, l, "save">> \in handling' =>
                          l \in emitted' /\ <<g, l>> \notin handled'
                      /\ <<g, l>> \in handled' => l \in emitted'
                      /\ <<g, l>> \in buys' =>
                          /\ l \in emitted'
                          /\ <<g, l>> \notin chan'
                          /\ <<g, l, "switch">> \notin handling'
    BY Zenon DEF PipeInv
  <2>3. CASE l = k
    <3>1. /\ <<g, l, "switch">> \notin handling
          /\ <<g, l, "save">> \notin handling
          /\ <<g, l>> \notin handled
          /\ <<g, l>> \notin buys
      BY <2>1, <2>3 DEF PipeInv
    <3> QED
      BY <2>1, <2>3, <3>1
  <2>4. CASE l # k
    <3>1. <<g, l>> \in chan' => <<g, l>> \in chan
      BY <2>2, <2>4
    <3> QED
      BY <2>1, <3>1 DEF PipeInv
  <2> QED
    BY <2>3, <2>4
<1>2. ASSUME NEW h \in Targets, Listen(h) \/ ConnectionLost(h)
      PROVE  PipeInv'
  <2>1. UNCHANGED <<emitted, handlers>> /\ chan' \subseteq chan
    BY <1>2 DEF Listen, Subscribed, SubscribeFails, Reconnect, OldReturns,
                ListenerStops, ConnectionLost, Emptied, feed
  <2> QED
    BY <2>1, PipeKept
<1>3. ASSUME NEW h \in Targets, NEW k \in Logs, Receive(h, k)
      PROVE  PipeInv'
  <2>1. /\ <<h, k>> \in chan
        /\ chan' = chan \ {<<h, k>>}
        /\ handling' = handling \cup {<<h, k, "switch">>}
        /\ UNCHANGED <<emitted, handled, buys>>
    BY <1>3 DEF Receive, feed
  <2> QED
    BY <2>1 DEF PipeInv
<1>4. ASSUME NEW h \in Targets, NEW k \in Logs, Dispatch(h, k)
      PROVE  PipeInv'
  <2>1. /\ <<h, k, "switch">> \in handling
        /\ UNCHANGED <<emitted, chan>>
        /\ buys' \subseteq buys \cup {<<h, k>>}
    BY <1>4 DEF Dispatch, feed
  <2>2. CASE Recorded(k)
    <3>1. /\ handling' = (handling \ {<<h, k, "switch">>}) \cup {<<h, k, "save">>}
          /\ handled' = handled
      BY <1>4, <2>2 DEF Dispatch
    <3> QED
      BY <2>1, <3>1 DEF PipeInv
  <2>3. CASE ~Recorded(k)
    <3>1. /\ handling' = handling \ {<<h, k, "switch">>}
          /\ handled' = handled \cup {<<h, k>>}
      BY <1>4, <2>3 DEF Dispatch
    <3> QED
      BY <2>1, <3>1 DEF PipeInv
  <2> QED
    BY <2>2, <2>3
<1>5. ASSUME NEW h \in Targets, NEW k \in Logs, Save(h, k)
      PROVE  PipeInv'
  <2>1. /\ <<h, k, "save">> \in handling
        /\ handling' = handling \ {<<h, k, "save">>}
        /\ handled' = handled \cup {<<h, k>>}
        /\ UNCHANGED <<emitted, chan, buys>>
    BY <1>5 DEF Save, feed
  <2> QED
    BY <2>1 DEF PipeInv
<1>6. ASSUME NEW c \in Callers, ClaimToken(c) \/ TokenLoop(c) \/ TokenConnectionLost(c)
      PROVE  PipeInv'
  <2>1. UNCHANGED <<emitted, handlers>> /\ chan' \subseteq chan
    BY <1>6 DEF ClaimToken, TokenLoop, TokenSubscribed, TokenSubscribeFails,
                TokenReconnect, TokenStops, TokenConnectionLost, Emptied, feed
  <2> QED
    BY <2>1, PipeKept
<1>7. ASSUME NEW c \in Callers, NEW k \in Logs, TokenReceive(c, k)
      PROVE  PipeInv'
  <2>1. /\ chan' \subseteq chan
        /\ handled' = handled \cup {<<c, k>>}
        /\ UNCHANGED <<emitted, handling, buys>>
    BY <1>7 DEF TokenReceive, feed
  <2>2. \A g \in Targets, l \in Logs : <<g, l>> \in handled' => <<g, l>> \in handled
    BY <2>1, ListeningAssumption DEF ListeningAssumption
  <2>3. \A g \in Targets, l \in Logs : <<g, l>> \in handled => <<g, l>> \in handled'
    BY <2>1
  <2> QED
    BY <2>1, <2>2, <2>3 DEF PipeInv
<1>8. CASE MainStep \/ Gone \/ UNCHANGED vars
  <2>1. UNCHANGED <<emitted, chan, handlers>>
    BY <1>8 DEF MainStep, StartPoller, StartMonitor, OtherEnds, Signal, Exit, Gone, vars,
                feed
  <2> QED
    BY <2>1, PipeKept
<1> QED
  BY <1>1, <1>2, <1>3, <1>4, <1>5, <1>6, <1>7, <1>8 DEF Next, MainStep, HandleEvent

\* An event starts one buy per target at most.
THEOREM BuyOnceHolds == Spec => []BuyOnce
<1>1. Init => PipeInv
  BY DEF Init, PipeInv
<1>2. PipeInv => BuyOnce
  BY DEF PipeInv, BuyOnce
<1> QED
  BY <1>1, <1>2, NextPipeInv, PTL DEF Spec
=============================================================================
