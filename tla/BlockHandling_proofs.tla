------------------------ MODULE BlockHandling_proofs ------------------------
(***************************************************************************)
(* Proofs about the handling of blocks, for any blocks, logs, pool size    *)
(* and number of restarts.                                                 *)
(*                                                                         *)
(* The invariant comes in two layers.  WalkInv says where the goroutine    *)
(* of a block may stand and that slots, price requests and keys go with    *)
(* it; RowInv, on top of it, says what the rows of a receipt are while the *)
(* handlers walk its logs.                                                 *)
(***************************************************************************)
EXTENDS BlockHandling, TLAPS

\* The stages of a goroutine that has a receipt in hand.
Working == {"logs", "token", "save"}

StageInv ==
    \A b \in Blocks :
        /\ stage[b] = "idle" => cur[b] = 1 /\ handler[b] = 1 /\ line[b] = 0
        /\ stage[b] \in Working => cur[b] \in 1 .. Len(receipts[b])
        /\ stage[b] \in {"token", "save"} =>
             /\ line[b] \in 1 .. Len(Logs(Receipt(b)))
             /\ Logs(Receipt(b))[line[b]] \in Handlers[handler[b]]
        /\ getter[b] # "idle" <=> stage[b] = "save"

WalkInv == TypeOK /\ StageInv /\ SlotsCoverWorkers

-----------------------------------------------------------------------------
(* Receipts and logs.                                                      *)

LEMMA HandlersFacts ==
    /\ Len(Handlers) = 3
    /\ Handlers[1] = {} /\ Handlers[2] = {"buy", "emptyBuy"}
    /\ Handlers[3] = {"sell", "emptySell"}
  BY DEF Handlers

LEMMA ReceiptTypes ==
    ASSUME TypeOK, NEW b \in Blocks
    PROVE  receipts[b] \in Seq(ReceiptRecords)
  BY HandlingAssumption DEF TypeOK

LEMMA ReceiptFacts ==
    ASSUME TypeOK, NEW b \in Blocks, cur[b] \in 1 .. Len(receipts[b])
    PROVE  /\ Receipt(b) \in Receipts
           /\ Receipt(b)[1] = b /\ Receipt(b)[2] = cur[b]
           /\ Logs(Receipt(b)) = receipts[b][cur[b]].logs
           /\ Logs(Receipt(b)) \in Seq(Kinds)
           /\ receipts[b][cur[b]].shape \in Shapes
<1>1. receipts[b] \in Seq(ReceiptRecords)
  BY ReceiptTypes
<1>2. DOMAIN receipts[b] = 1 .. Len(receipts[b])
  BY <1>1
<1>3. <<b, cur[b]>> \in {b} \X DOMAIN receipts[b]
  BY <1>2
<1>4. Receipt(b) \in Receipts
  BY <1>3 DEF Receipt, Receipts
<1>5. receipts[b][cur[b]] \in ReceiptRecords
  BY <1>1
<1> QED
  BY <1>4, <1>5 DEF Receipt, Logs, ReceiptRecords

-----------------------------------------------------------------------------
(* The first layer.                                                        *)

LEMMA InitWalk == Init => WalkInv
<1> SUFFICES ASSUME Init
             PROVE  WalkInv
  OBVIOUS
<1>1. TypeOK
  BY HandlingAssumption DEF Init, TypeOK, Price!PriceInit, Price!PriceTypeOK, Shapes
<1>2. StageInv
  BY DEF Init, StageInv, Price!PriceInit, Working
<1>3. SlotsCoverWorkers
  BY DEF Init, SlotsCoverWorkers, Shapes
<1> QED
  BY <1>1, <1>2, <1>3 DEF WalkInv

\* A step of the scans keeps the count.
LEMMA ScansWalk ==
    ASSUME WalkInv,
           \/ \E s \in Shapes : Acquire(s) \/ ReturnEarly(s)
           \/ LargeTransfer \/ NonceKnown
    PROVE  WalkInv'
<1>0. /\ slots \in 0 .. MaxConcurrent /\ MaxConcurrent \in Nat
      /\ queued \in [Shapes -> Nat] /\ looking \in [Shapes -> Nat] /\ asking \in Nat
      /\ slots = looking["call"] + looking["transfer"] + asking
      /\ Shapes = {"call", "transfer"}
  BY HandlingAssumption DEF WalkInv, TypeOK, SlotsCoverWorkers, Shapes
<1> DEFINE Kept ==
             /\ UNCHANGED <<receipts, up, restarts, walk, rows, prices, hist>>
             /\ slots' \in 0 .. MaxConcurrent
             /\ queued' \in [Shapes -> Nat]
             /\ looking' \in [Shapes -> Nat]
             /\ asking' \in Nat
             /\ SlotsCoverWorkers'
<1>1. Kept
  <2>1. ASSUME NEW s \in Shapes, Acquire(s)
        PROVE  Kept
    BY <1>0, <2>1 DEF Acquire, SlotsCoverWorkers
  <2>2. ASSUME NEW s \in Shapes, ReturnEarly(s)
        PROVE  Kept
    BY <1>0, <2>2 DEF ReturnEarly, Holding, SlotsCoverWorkers
  <2>3. CASE LargeTransfer
    BY <1>0, <2>3 DEF LargeTransfer, SlotsCoverWorkers
  <2>4. CASE NonceKnown
    BY <1>0, <2>4 DEF NonceKnown, Holding, SlotsCoverWorkers
  <2> QED
    BY <2>1, <2>2, <2>3, <2>4
<1>2. TypeOK'
  BY <1>1 DEF WalkInv, TypeOK, walk, prices, hist, Receipts, Price!PriceTypeOK
<1>3. StageInv'
  BY <1>1 DEF WalkInv, StageInv, walk, prices, Receipt, Logs
<1> QED
  BY <1>1, <1>2, <1>3 DEF WalkInv

\* The process ends, or the price moves: goroutines and scans stay.
LEMMA StillWalk ==
    ASSUME WalkInv,
           \/ \E b \in Blocks : Panic(b)
           \/ NonceUnknown \/ Kill \/ PriceMoves
           \/ UNCHANGED vars
    PROVE  WalkInv'
<1>1. /\ UNCHANGED <<receipts, restarts, walk, scans, rows, getter, hist>>
      /\ up' \in BOOLEAN /\ fresh' \in BOOLEAN
  BY DEF WalkInv, TypeOK, Price!PriceTypeOK, Panic, NonceUnknown, Kill, PriceMoves,
         Price!Expire, Price!Refresh, vars, walk, scans, prices, hist
<1>2. TypeOK'
  BY <1>1 DEF WalkInv, TypeOK, Price!PriceTypeOK, walk, scans, hist, Receipts
<1>3. StageInv' /\ SlotsCoverWorkers'
  BY <1>1 DEF WalkInv, StageInv, SlotsCoverWorkers, walk, scans, Receipt, Logs
<1> QED
  BY <1>2, <1>3 DEF WalkInv

\* A request for the price goes on.
LEMMA AskPriceWalk ==
    ASSUME WalkInv, NEW b \in Blocks, AskPrice(b)
    PROVE  WalkInv'
<1>1. /\ UNCHANGED <<receipts, up, restarts, walk, scans, rows, hist>>
      /\ getter \in [Blocks -> {"idle", "reading", "asking", "storing", "served"}]
      /\ fresh \in BOOLEAN
  BY DEF AskPrice, WalkInv, TypeOK, Price!PriceTypeOK
<1>2. /\ fresh' \in BOOLEAN
      /\ getter[b] # "idle"
      /\ \E g \in {"asking", "storing", "served"} : getter' = [getter EXCEPT ![b] = g]
  BY <1>1 DEF AskPrice, Price!GetterStep, Price!Hit, Price!Miss, Price!Answered,
     Price!Unanswered, Price!Store
<1>3. /\ getter' \in [Blocks -> {"idle", "reading", "asking", "storing", "served"}]
      /\ \A d \in Blocks : getter'[d] # "idle" <=> getter[d] # "idle"
  BY <1>1, <1>2
<1>4. TypeOK'
  BY <1>1, <1>2, <1>3 DEF WalkInv, TypeOK, Price!PriceTypeOK, walk, scans, hist, Receipts
<1>5. StageInv' /\ SlotsCoverWorkers'
  BY <1>1, <1>3 DEF WalkInv, StageInv, SlotsCoverWorkers, walk, scans, Receipt, Logs
<1> QED
  BY <1>4, <1>5 DEF WalkInv

\* A new process has no goroutine.
LEMMA RestartWalk ==
    ASSUME WalkInv, Restart
    PROVE  WalkInv'
<1> USE DEF Restart, Started
<1>1. TypeOK'
  BY HandlingAssumption DEF WalkInv, TypeOK, Price!PriceTypeOK, Receipts, hist, Shapes
<1>2. StageInv'
  BY DEF StageInv, Working
<1>3. SlotsCoverWorkers'
  BY DEF SlotsCoverWorkers, Shapes
<1> QED
  BY <1>1, <1>2, <1>3 DEF WalkInv

\* What is left of the first layer when the goroutine of a block takes a
\* step that leaves the scans' slots alone.
LEMMA GoroutineWalk ==
    ASSUME WalkInv, NEW b \in Blocks,
           UNCHANGED <<receipts, up, restarts, slots, looking, asking>>,
           queued' \in [Shapes -> Nat],
           NEW st \in {"logs", "token", "save", "done"}, Goto(b, st),
           NEW i \in Nat, cur' = [cur EXCEPT ![b] = i],
           NEW h \in 1 .. 3, handler' = [handler EXCEPT ![b] = h],
           NEW l \in Nat, line' = [line EXCEPT ![b] = l],
           st \in Working => i \in 1 .. Len(receipts[b]),
           st \in {"token", "save"} =>
             /\ l \in 1 .. Len(receipts[b][i].logs)
             /\ receipts[b][i].logs[l] \in Handlers[h],
           NEW g \in {"idle", "reading"}, getter' = [getter EXCEPT ![b] = g],
           g # "idle" <=> st = "save",
           UNCHANGED fresh,
           rows' \subseteq [key : Blocks \X Nat \X {0}, receipt : Receipts, line : Nat],
           finished' \subseteq Receipts, failed' \subseteq Receipts
    PROVE  WalkInv'
<1>0. /\ stage \in [Blocks -> {"idle", "logs", "token", "save", "done"}]
      /\ cur \in [Blocks -> Nat] /\ handler \in [Blocks -> 1 .. 3]
      /\ line \in [Blocks -> Nat]
      /\ getter \in [Blocks -> {"idle", "reading", "asking", "storing", "served"}]
      /\ stage' = [stage EXCEPT ![b] = st]
  BY DEF WalkInv, TypeOK, Price!PriceTypeOK, Goto
<1>1. TypeOK'
  <2>1. /\ stage' \in [Blocks -> {"idle", "logs", "token", "save", "done"}]
        /\ cur' \in [Blocks -> Nat] /\ handler' \in [Blocks -> 1 .. 3]
        /\ line' \in [Blocks -> Nat]
        /\ getter' \in [Blocks -> {"idle", "reading", "asking", "storing", "served"}]
    BY <1>0
  <2>2. Receipts' = Receipts
    BY DEF Receipts
  <2> QED
    BY <2>1, <2>2 DEF WalkInv, TypeOK, Price!PriceTypeOK
<1>2. StageInv'
  <2> SUFFICES ASSUME NEW d \in Blocks
               PROVE  /\ stage'[d] = "idle" => cur'[d] = 1 /\ handler'[d] = 1 /\ line'[d] = 0
                      /\ stage'[d] \in Working => cur'[d] \in 1 .. Len(receipts[d])
                      /\ stage'[d] \in {"token", "save"} =>
                            /\ line'[d] \in 1 .. Len(receipts[d][cur'[d]].logs)
                            /\ receipts[d][cur'[d]].logs[line'[d]] \in Handlers[handler'[d]]
                      /\ getter'[d] # "idle" <=> stage'[d] = "save"
    BY DEF StageInv, Receipt, Logs
  <2>1. CASE d = b
    BY <1>0, <2>1
  <2>2. CASE d # b
    <3>1. /\ stage'[d] = stage[d] /\ cur'[d] = cur[d] /\ handler'[d] = handler[d]
          /\ line'[d] = line[d] /\ getter'[d] = getter[d]
      BY <1>0, <2>2
    <3> QED
      BY <3>1 DEF WalkInv, StageInv, Receipt, Logs
  <2> QED
    BY <2>1, <2>2
<1>3. SlotsCoverWorkers'
  BY DEF WalkInv, SlotsCoverWorkers
<1> QED
  BY <1>1, <1>2, <1>3 DEF WalkInv

\* What GoroutineWalk asks of the variables a step leaves alone.
LEMMA Same ==
    ASSUME WalkInv, NEW b \in Blocks
    PROVE  /\ cur = [cur EXCEPT ![b] = cur[b]] /\ cur[b] \in Nat
           /\ handler = [handler EXCEPT ![b] = handler[b]] /\ handler[b] \in 1 .. 3
           /\ line = [line EXCEPT ![b] = line[b]] /\ line[b] \in Nat
           /\ getter = [getter EXCEPT ![b] = getter[b]]
           /\ queued \in [Shapes -> Nat]
           /\ rows \subseteq [key : Blocks \X Nat \X {0}, receipt : Receipts, line : Nat]
           /\ finished \subseteq Receipts /\ failed \subseteq Receipts
  BY DEF WalkInv, TypeOK, Price!PriceTypeOK

LEMMA ReceiveWalk ==
    ASSUME WalkInv, NEW b \in Blocks, Receive(b)
    PROVE  WalkInv'
<1> DEFINE st == IF receipts[b] # <<>> THEN "logs" ELSE "done"
<1>0. Goto(b, st)
  BY DEF Receive
<1>1. /\ stage[b] = "idle"
      /\ UNCHANGED <<receipts, up, restarts, cur, handler, line, scans, rows, prices, hist>>
  BY DEF Receive
<1>2. st = "logs" => cur[b] \in 1 .. Len(receipts[b])
  <2>1. receipts[b] \in Seq(ReceiptRecords) /\ cur[b] = 1
    BY <1>1, ReceiptTypes DEF WalkInv, StageInv
  <2> QED
    BY <2>1
<1>3. getter[b] = "idle"
  BY <1>1 DEF WalkInv, StageInv, TypeOK, Price!PriceTypeOK
<1>4. st \in {"logs", "done"}
  OBVIOUS
<1> HIDE DEF st
<1>7. /\ UNCHANGED <<receipts, up, restarts, slots, looking, asking, fresh>>
      /\ queued' \in [Shapes -> Nat]
      /\ cur' = [cur EXCEPT ![b] = cur[b]] /\ cur[b] \in Nat
      /\ handler' = [handler EXCEPT ![b] = handler[b]] /\ handler[b] \in 1 .. 3
      /\ line' = [line EXCEPT ![b] = line[b]] /\ line[b] \in Nat
      /\ getter' = [getter EXCEPT ![b] = "idle"]
  BY <1>1, <1>3, Same DEF scans, prices
<1>8. /\ rows' \subseteq [key : Blocks \X Nat \X {0}, receipt : Receipts, line : Nat]
      /\ finished' \subseteq Receipts /\ failed' \subseteq Receipts
  BY <1>1, Same DEF hist
<1>5. CASE st = "logs"
  <2>1. Goto(b, "logs")
    BY <1>0, <1>5 DEF Goto
  <2> QED
    BY <1>2, <1>5, <1>7, <1>8, <2>1, GoroutineWalk, ZenonT(60) DEF Working
<1>6. CASE st = "done"
  <2>1. Goto(b, "done")
    BY <1>0, <1>6 DEF Goto
  <2> QED
    BY <1>7, <1>8, <2>1, GoroutineWalk, ZenonT(60) DEF Working
<1> QED
  BY <1>4, <1>5, <1>6

\* The log that Match comes to.
LEMMA MatchFacts ==
    ASSUME WalkInv, NEW b \in Blocks, Match(b)
    PROVE  \E i \in Ahead(b) :
             /\ \A j \in Ahead(b) : i <= j
             /\ line' = [line EXCEPT ![b] = i]
             /\ i \in 1 .. Len(receipts[b][cur[b]].logs)
             /\ receipts[b][cur[b]].logs[i] \in Handlers[handler[b]]
             /\ line[b] < i
<1>1. cur[b] \in 1 .. Len(receipts[b])
  BY DEF Match, WalkInv, StageInv, Working
<1>2. Logs(Receipt(b)) = receipts[b][cur[b]].logs
  BY <1>1, ReceiptFacts DEF WalkInv
<1> QED
  BY <1>2 DEF Match, Ahead

LEMMA MatchWalk ==
    ASSUME WalkInv, NEW b \in Blocks, Match(b)
    PROVE  WalkInv'
<1>1. PICK i \in Nat :
        /\ line' = [line EXCEPT ![b] = i]
        /\ i \in 1 .. Len(receipts[b][cur[b]].logs)
        /\ receipts[b][cur[b]].logs[i] \in Handlers[handler[b]]
  BY MatchFacts DEF Ahead
<1>2. /\ Goto(b, "token") /\ stage[b] = "logs"
      /\ UNCHANGED <<receipts, up, restarts, cur, handler, scans, rows, prices, hist>>
  BY DEF Match
<1>3. getter[b] = "idle" /\ cur[b] \in 1 .. Len(receipts[b])
  BY <1>2 DEF WalkInv, StageInv, Working
<1> QED
  BY <1>1, <1>2, <1>3, Same, GoroutineWalk, ZenonT(60)
  DEF Working, scans, prices, hist

\* A handler returns, from its last log or from a lookup that failed.
LEMMA ReturnsWalk ==
    ASSUME WalkInv, NEW b \in Blocks, stage[b] \in {"logs", "token"},
           HandlerReturns(b), failed' \subseteq Receipts
    PROVE  WalkInv'
<1>1. cur[b] \in 1 .. Len(receipts[b]) /\ getter[b] = "idle"
  BY DEF WalkInv, StageInv, Working
<1>2. /\ Receipt(b) \in Receipts
      /\ receipts[b][cur[b]].shape \in Shapes
  BY <1>1, ReceiptFacts DEF WalkInv
<1>3. queued' \in [Shapes -> Nat]
  BY <1>2, Same DEF HandlerReturns
<1>4. /\ UNCHANGED <<receipts, up, restarts, slots, looking, asking, rows, prices>>
      /\ line' = [line EXCEPT ![b] = 0]
  BY DEF HandlerReturns
<1>5. receipts[b] \in Seq(ReceiptRecords)
  BY ReceiptTypes DEF WalkInv
<1>6. CASE handler[b] < 3
  <2>1. /\ handler' = [handler EXCEPT ![b] = handler[b] + 1]
        /\ UNCHANGED <<cur, finished>>
        /\ Goto(b, "logs")
    BY <1>6, Same, HandlersFacts DEF HandlerReturns
  <2>2. handler[b] + 1 \in 1 .. 3
    BY <1>6, Same
  <2> QED
    BY <1>1, <1>3, <1>4, <2>1, <2>2, Same, GoroutineWalk, ZenonT(60)
    DEF Working, prices
<1>7. CASE ~(handler[b] < 3)
  <2> DEFINE st == IF cur[b] < Len(receipts[b]) THEN "logs" ELSE "done"
             next == cur[b] + 1
  <2>1. /\ handler' = [handler EXCEPT ![b] = 1]
        /\ cur' = [cur EXCEPT ![b] = next]
        /\ finished' = finished \cup {Receipt(b)}
    BY <1>7, Same, HandlersFacts DEF HandlerReturns
  <2>0. Goto(b, st)
    BY <1>7, Same, HandlersFacts DEF HandlerReturns
  <2>2. finished' \subseteq Receipts /\ next \in Nat
    BY <1>2, <2>1, Same
  <2>3. st \in {"logs", "done"}
    OBVIOUS
  <2>4. st = "logs" => next \in 1 .. Len(receipts[b])
    BY <1>1, <1>5
  <2> HIDE DEF st, next
  <2>7. /\ UNCHANGED <<receipts, up, restarts, slots, looking, asking, fresh>>
        /\ getter' = [getter EXCEPT ![b] = "idle"]
        /\ rows' \subseteq [key : Blocks \X Nat \X {0}, receipt : Receipts, line : Nat]
        /\ 1 \in 1 .. 3 /\ 0 \in Nat
    BY <1>1, <1>4, Same DEF prices
  <2>5. CASE st = "logs"
    <3>1. Goto(b, "logs")
      BY <2>0, <2>5 DEF Goto
    <3>2. next \in 1 .. Len(receipts[b])
      BY <2>4, <2>5
    <3> QED
      BY <1>3, <1>4, <2>1, <2>2, <2>7, <3>1, <3>2, GoroutineWalk, ZenonT(60) DEF Working
  <2>6. CASE st = "done"
    <3>1. Goto(b, "done")
      BY <2>0, <2>6 DEF Goto
    <3> QED
      BY <1>3, <1>4, <2>1, <2>2, <2>7, <3>1, GoroutineWalk, ZenonT(60) DEF Working
  <2> QED
    BY <2>3, <2>5, <2>6
<1> QED
  BY <1>6, <1>7

LEMMA TokenKnownWalk ==
    ASSUME WalkInv, NEW b \in Blocks, TokenKnown(b)
    PROVE  WalkInv'
<1>1. /\ Goto(b, "save") /\ stage[b] = "token"
      /\ UNCHANGED <<receipts, up, restarts, cur, handler, line, scans, rows, hist, fresh>>
      /\ getter' = [getter EXCEPT ![b] = "reading"]
  BY DEF TokenKnown, Price!GetPrice
<1>2. /\ cur[b] \in 1 .. Len(receipts[b])
      /\ line[b] \in 1 .. Len(receipts[b][cur[b]].logs)
      /\ receipts[b][cur[b]].logs[line[b]] \in Handlers[handler[b]]
  BY <1>1 DEF WalkInv, StageInv, Working, Receipt, Logs
<1> QED
  BY <1>1, <1>2, Same, GoroutineWalk, ZenonT(60) DEF Working, scans, hist

\* What Save writes.
LEMMA SaveFacts ==
    ASSUME WalkInv, NEW b \in Blocks, Save(b)
    PROVE  LET new == [key |-> Key(Receipt(b)), receipt |-> Receipt(b), line |-> line[b]] IN
           /\ new \in [key : Blocks \X Nat \X {0}, receipt : Receipts, line : Nat]
           /\ \/ /\ rows' = IF \E x \in rows : x.key = new.key THEN rows
                             ELSE rows \cup {new}
                 /\ UNCHANGED failed
              \/ failed' = failed \cup {Receipt(b)} /\ UNCHANGED rows
           /\ stage[b] = "save" /\ cur[b] \in 1 .. Len(receipts[b])
           /\ getter' = [getter EXCEPT ![b] = "idle"] /\ UNCHANGED fresh
<1>1. stage[b] = "save" /\ cur[b] \in 1 .. Len(receipts[b])
  BY DEF Save, WalkInv, StageInv, Working
<1>2. Receipt(b) \in Receipts /\ Receipt(b)[1] = b /\ Receipt(b)[2] = cur[b]
  BY <1>1, ReceiptFacts DEF WalkInv
<1>3. Key(Receipt(b)) \in Blocks \X Nat \X {0}
  BY <1>2, Same DEF Key
<1> QED
  BY <1>1, <1>2, <1>3, Same DEF Save, Price!PriceUsed

LEMMA SaveWalk ==
    ASSUME WalkInv, NEW b \in Blocks, Save(b)
    PROVE  WalkInv'
<1>1. /\ Goto(b, "logs")
      /\ UNCHANGED <<receipts, up, restarts, cur, handler, line, scans, finished>>
  BY DEF Save
<1>2. Receipt(b) \in Receipts
  BY SaveFacts, ReceiptFacts DEF WalkInv
<1>3. /\ rows' \subseteq [key : Blocks \X Nat \X {0}, receipt : Receipts, line : Nat]
      /\ failed' \subseteq Receipts
  <2> DEFINE new == [key |-> Key(Receipt(b)), receipt |-> Receipt(b), line |-> line[b]]
  <2>1. /\ new \in [key : Blocks \X Nat \X {0}, receipt : Receipts, line : Nat]
        /\ rows' \subseteq rows \cup {new}
        /\ failed' \subseteq failed \cup {Receipt(b)}
    BY SaveFacts
  <2> HIDE DEF new
  <2> QED
    BY <1>2, <2>1, Same
<1>4. /\ cur[b] \in 1 .. Len(receipts[b])
      /\ getter' = [getter EXCEPT ![b] = "idle"] /\ UNCHANGED fresh
  BY SaveFacts
<1>5. /\ UNCHANGED <<receipts, up, restarts, slots, looking, asking>>
      /\ queued' \in [Shapes -> Nat] /\ finished' \subseteq Receipts
      /\ cur' = [cur EXCEPT ![b] = cur[b]] /\ cur[b] \in Nat
      /\ handler' = [handler EXCEPT ![b] = handler[b]] /\ handler[b] \in 1 .. 3
      /\ line' = [line EXCEPT ![b] = line[b]] /\ line[b] \in Nat
  BY <1>1, Same DEF scans
<1> QED
  BY <1>1, <1>3, <1>4, <1>5, GoroutineWalk, ZenonT(60) DEF Working

\* Every step preserves the first layer.
LEMMA NextWalk == WalkInv /\ [Next]_vars => WalkInv'
<1> SUFFICES ASSUME WalkInv, [Next]_vars
             PROVE  WalkInv'
  OBVIOUS
<1>1. ASSUME NEW b \in Blocks, LogsDone(b)
      PROVE  WalkInv'
  BY <1>1, Same, ReturnsWalk DEF LogsDone
<1>2. ASSUME NEW b \in Blocks, TokenUnknown(b)
      PROVE  WalkInv'
  <2>1. cur[b] \in 1 .. Len(receipts[b])
    BY <1>2 DEF TokenUnknown, WalkInv, StageInv, Working
  <2>2. Receipt(b) \in Receipts
    BY <2>1, ReceiptFacts DEF WalkInv
  <2> QED
    BY <1>2, <2>2, Same, ReturnsWalk DEF TokenUnknown
<1>3. ASSUME NEW b \in Blocks, Receive(b) \/ Handle(b)
      PROVE  WalkInv'
  BY <1>1, <1>2, <1>3, ReceiveWalk, MatchWalk, TokenKnownWalk, AskPriceWalk, SaveWalk,
     StillWalk DEF Handle
<1>4. CASE Restart
  BY <1>4, RestartWalk
<1>5. CASE \/ \E s \in Shapes : Acquire(s) \/ ReturnEarly(s)
           \/ LargeTransfer \/ NonceKnown
  BY <1>5, ScansWalk
<1>6. CASE NonceUnknown \/ Kill \/ PriceMoves \/ UNCHANGED vars
  BY <1>6, StillWalk
<1> QED
  BY <1>3, <1>4, <1>5, <1>6 DEF Next, Rest

THEOREM Walk == Spec => []WalkInv
  BY InitWalk, NextWalk, PTL DEF Spec

\* Type correctness of the handling of blocks.
THEOREM TypeCorrect == Spec => []TypeOK
<1>1. WalkInv => TypeOK
  BY DEF WalkInv
<1> QED
  BY <1>1, Walk, PTL

\* The slots in use are those of scans at work, whatever the pool's size and
\* the way ParseLog returns.
THEOREM SlotsCoverWorkersHolds == Spec => []SlotsCoverWorkers
<1>1. WalkInv => SlotsCoverWorkers
  BY DEF WalkInv
<1> QED
  BY <1>1, Walk, PTL

-----------------------------------------------------------------------------
(* The second layer: keys, and the rows of a receipt.                      *)

\* The keys are those of the receipts, and keys of a table.
KeyInv ==
    /\ \A x \in rows : x.key = Key(x.receipt)
    /\ \A x, y \in rows : x.key = y.key => x = y

\* The logs that a walk has come past for which one of its handlers is: it
\* is at line l in handler h, and done with that line if st is "logs".
Behind(logs, h, l, st) ==
    {i \in 1 .. Len(logs) :
        \/ \E g \in 1 .. 3 : g < h /\ logs[i] \in Handlers[g]
        \/ logs[i] \in Handlers[h] /\ (i < l \/ (i = l /\ st = "logs"))}

Passed(b) == Behind(Logs(Receipt(b)), handler[b], line[b], stage[b])

HasRow(r) == \E x \in rows : x.receipt = r

\* What a receipt in hand owes the table.
Owed(b) ==
    stage[b] \in Working /\ Receipt(b) \notin failed /\ Passed(b) # {}
        => HasRow(Receipt(b))

RowInv ==
    /\ \A x \in rows : x.receipt \notin failed => x.line \in FirstTrade(x.receipt)
    /\ \A b \in Blocks : Owed(b)
    /\ \A r \in finished \ failed :
          \A i \in DOMAIN Logs(r) : Logs(r)[i] \in {"buy", "sell"} => HasRow(r)

\* Nothing else touches the table.
LEMMA OnlySaveWrites ==
    ASSUME [Next]_vars
    PROVE  rows' = rows \/ \E b \in Blocks : Save(b)
<1>1. CASE \A b \in Blocks : ~Save(b)
  BY <1>1 DEF Next, Handle, Receive, Match, LogsDone, TokenUnknown, HandlerReturns,
     TokenKnown, AskPrice, Panic, Acquire, ReturnEarly, LargeTransfer, NonceKnown,
     NonceUnknown, Kill, Restart, PriceMoves, Rest, vars
<1> QED
  BY <1>1

LEMMA KeyNext == WalkInv /\ KeyInv /\ [Next]_vars => KeyInv'
<1> SUFFICES ASSUME WalkInv, KeyInv, [Next]_vars
             PROVE  KeyInv'
  OBVIOUS
<1>1. CASE rows' = rows
  BY <1>1 DEF KeyInv, Key
<1>2. ASSUME NEW b \in Blocks, Save(b)
      PROVE  KeyInv'
  <2> DEFINE new == [key |-> Key(Receipt(b)), receipt |-> Receipt(b), line |-> line[b]]
  <2>1. rows' = rows \/ (rows' = rows \cup {new} /\ \A x \in rows : x.key # new.key)
    BY <1>2, SaveFacts
  <2>2. new.key = Key(new.receipt)
    OBVIOUS
  <2> HIDE DEF new
  <2>3. \A r : Key(r)' = Key(r)
    BY DEF Key
  <2> QED
    BY <2>1, <2>2, <2>3 DEF KeyInv
<1> QED
  BY <1>1, <1>2, OnlySaveWrites

\* The logs of a receipt do not change while the chain does not.
LEMMA SameLogs ==
    ASSUME receipts' = receipts
    PROVE  \A r : Logs(r)' = Logs(r) /\ FirstTrade(r)' = FirstTrade(r)
<1> SUFFICES ASSUME NEW r
             PROVE  Logs(r)' = Logs(r) /\ FirstTrade(r)' = FirstTrade(r)
  OBVIOUS
<1>1. Logs(r)' = Logs(r)
  BY DEF Logs
<1>2. Trades(r, "buy")' = Trades(r, "buy") /\ Trades(r, "sell")' = Trades(r, "sell")
  BY <1>1, Zenon DEF Trades
<1>3. FirstTrade(r)' = FirstTrade(r)
  BY <1>2, Zenon DEF FirstTrade
<1> QED
  BY <1>1, <1>3

\* A step of one goroutine: what it leaves of the other blocks' debts, and
\* what remains to be shown of its own.
LEMMA RowStep ==
    ASSUME WalkInv, RowInv, NEW b \in Blocks,
           receipts' = receipts,
           \A d \in Blocks \ {b} :
             /\ stage'[d] = stage[d] /\ cur'[d] = cur[d]
             /\ handler'[d] = handler[d] /\ line'[d] = line[d],
           rows \subseteq rows', failed \subseteq failed',
           Owed(b)',
           \A x \in rows' \ rows :
             x.receipt \notin failed' => x.line \in FirstTrade(x.receipt),
           \A r \in finished' \ failed' : r \notin finished =>
             \A i \in DOMAIN Logs(r) : Logs(r)[i] \in {"buy", "sell"} => HasRow(r)
    PROVE  RowInv'
<1>1. \A r : Logs(r)' = Logs(r) /\ FirstTrade(r)' = FirstTrade(r)
  BY SameLogs
<1>2. \A r : HasRow(r) => HasRow(r)'
  BY DEF HasRow
<1>3. \A x \in rows' : x.receipt \notin failed' => x.line \in FirstTrade(x.receipt)'
  BY <1>1 DEF RowInv
<1>4. ASSUME NEW d \in Blocks
      PROVE  Owed(d)'
  <2>1. CASE d = b
    BY <2>1
  <2>2. CASE d # b
    <3>1. Receipt(d)' = Receipt(d)
      BY <2>2 DEF Receipt
    <3>2. Passed(d)' = Passed(d)
      BY <1>1, <2>2, <3>1 DEF Passed, Behind
    <3>3. Owed(d)
      BY DEF RowInv
    <3> QED
      BY <1>2, <2>2, <3>1, <3>2, <3>3 DEF Owed
  <2> QED
    BY <2>1, <2>2
<1>5. ASSUME NEW r \in finished' \ failed'
      PROVE  \A i \in DOMAIN Logs(r)' : Logs(r)'[i] \in {"buy", "sell"} => HasRow(r)'
  BY <1>1, <1>2 DEF RowInv
<1> QED
  BY <1>3, <1>4, <1>5 DEF RowInv

\* A walk at the first handler has come past nothing.
LEMMA NothingBehind ==
    ASSUME NEW logs, NEW l, NEW st
    PROVE  Behind(logs, 1, l, st) = {}
  BY HandlersFacts DEF Behind

LEMMA ReceiveRow ==
    ASSUME WalkInv, RowInv, NEW b \in Blocks, Receive(b)
    PROVE  RowInv'
<1>1. /\ stage[b] = "idle"
      /\ \E st \in {"logs", "done"} : stage' = [stage EXCEPT ![b] = st]
      /\ UNCHANGED <<receipts, cur, handler, line, rows, hist>>
  BY DEF Receive, Goto
<1>2. handler'[b] = 1
  BY <1>1 DEF WalkInv, StageInv
<1>3. Passed(b)' = {}
  BY <1>2, NothingBehind DEF Passed
<1>4. Owed(b)'
  BY <1>3 DEF Owed
<1>5. \A d \in Blocks \ {b} : stage'[d] = stage[d]
  BY <1>1 DEF WalkInv, TypeOK
<1> QED
  BY <1>1, <1>4, <1>5, RowStep DEF hist

LEMMA MatchRow ==
    ASSUME WalkInv, RowInv, NEW b \in Blocks, Match(b)
    PROVE  RowInv'
<1>1. PICK i \in Ahead(b) :
        /\ \A j \in Ahead(b) : i <= j
        /\ line' = [line EXCEPT ![b] = i]
  BY MatchFacts
<1>2. /\ stage[b] = "logs"
      /\ stage' = [stage EXCEPT ![b] = "token"]
      /\ UNCHANGED <<receipts, cur, handler, rows, hist>>
  BY DEF Match, Goto
<1>3. /\ stage'[b] = "token" /\ line'[b] = i
      /\ \A d \in Blocks \ {b} : stage'[d] = stage[d] /\ line'[d] = line[d]
      /\ i \in Nat /\ line[b] \in Nat
  BY <1>1, <1>2 DEF WalkInv, TypeOK, Ahead
<1>4. Receipt(b)' = Receipt(b) /\ Logs(Receipt(b))' = Logs(Receipt(b))
  BY <1>2 DEF Receipt, Logs
<1>5. Passed(b)' \subseteq Passed(b)
  <2> SUFFICES ASSUME NEW j \in Passed(b)', j \notin Passed(b)
               PROVE  FALSE
    OBVIOUS
  <2>1. /\ j \in 1 .. Len(Logs(Receipt(b)))
        /\ Logs(Receipt(b))[j] \in Handlers[handler[b]]
        /\ j < i
    BY <1>2, <1>3, <1>4 DEF Passed, Behind
  <2>2. j > line[b]
    BY <1>2, <1>3, <2>1 DEF Passed, Behind
  <2>3. j \in Ahead(b)
    BY <2>1, <2>2 DEF Ahead
  <2> QED
    BY <1>1, <1>3, <2>1, <2>3
<1>6. Owed(b)'
  BY <1>2, <1>4, <1>5 DEF RowInv, Owed, HasRow, Working, hist
<1> QED
  BY <1>2, <1>3, <1>6, RowStep DEF hist

LEMMA TokenKnownRow ==
    ASSUME WalkInv, RowInv, NEW b \in Blocks, TokenKnown(b)
    PROVE  RowInv'
<1>1. /\ stage[b] = "token"
      /\ stage' = [stage EXCEPT ![b] = "save"]
      /\ UNCHANGED <<receipts, cur, handler, line, rows, hist>>
  BY DEF TokenKnown, Goto
<1>2. /\ stage'[b] = "save"
      /\ \A d \in Blocks \ {b} : stage'[d] = stage[d]
  BY <1>1 DEF WalkInv, TypeOK
<1>3. Receipt(b)' = Receipt(b) /\ Logs(Receipt(b))' = Logs(Receipt(b))
  BY <1>1 DEF Receipt, Logs
<1>4. Passed(b)' = Passed(b)
  BY <1>1, <1>2, <1>3 DEF Passed, Behind
<1>5. Owed(b)'
  BY <1>1, <1>3, <1>4 DEF RowInv, Owed, HasRow, Working, hist
<1> QED
  BY <1>1, <1>2, <1>5, RowStep DEF hist

\* Of a receipt without a row nothing was passed, so what a handler saves is
\* the receipt's first trade.
LEMMA FirstToSave ==
    ASSUME WalkInv, RowInv, NEW b \in Blocks, Save(b),
           Receipt(b) \notin failed, ~HasRow(Receipt(b))
    PROVE  line[b] \in FirstTrade(Receipt(b))
<1> DEFINE logs == Logs(Receipt(b))
           l == line[b]
<1>1. /\ stage[b] = "save" /\ cur[b] \in 1 .. Len(receipts[b])
      /\ logs[l] \notin Empty
  BY SaveFacts DEF Save
<1>2. logs \in Seq(Kinds)
  BY <1>1, ReceiptFacts DEF WalkInv
<1>3. l \in 1 .. Len(logs) /\ logs[l] \in Handlers[handler[b]]
  BY <1>1 DEF WalkInv, StageInv
<1>4. Behind(logs, handler[b], l, "save") = {}
  BY <1>1 DEF RowInv, Owed, Passed, Working
<1>5. handler[b] \in 1 .. 3
  BY Same
<1> HIDE DEF logs, l
<1>6. \A i \in 1 .. Len(logs) :
        /\ \A g \in 1 .. 3 : g < handler[b] => logs[i] \notin Handlers[g]
        /\ i < l => logs[i] \notin Handlers[handler[b]]
  BY <1>4 DEF Behind
<1>7. /\ DOMAIN logs = 1 .. Len(logs) /\ Len(logs) \in Nat
      /\ Trades(Receipt(b), "buy") = {i \in 1 .. Len(logs) : logs[i] = "buy"}
      /\ Trades(Receipt(b), "sell") = {i \in 1 .. Len(logs) : logs[i] = "sell"}
  BY <1>2 DEF Trades, logs
<1>8. CASE handler[b] = 2
  <2>1. logs[l] = "buy"
    BY <1>1, <1>3, <1>8, HandlersFacts DEF logs, l, Empty
  <2>2. \A i \in Trades(Receipt(b), "buy") : l <= i
    BY <1>3, <1>6, <1>7, <1>8, HandlersFacts
  <2> QED
    BY <1>3, <1>7, <2>1, <2>2 DEF FirstTrade, l
<1>9. CASE handler[b] = 3
  <2>1. logs[l] = "sell"
    BY <1>1, <1>3, <1>9, HandlersFacts DEF logs, l, Empty
  <2>2. Trades(Receipt(b), "buy") = {}
    BY <1>6, <1>7, <1>9, HandlersFacts
  <2>3. \A i \in Trades(Receipt(b), "sell") : l <= i
    BY <1>3, <1>6, <1>7, <1>9, HandlersFacts
  <2> QED
    BY <1>3, <1>7, <2>1, <2>2, <2>3 DEF FirstTrade, l
<1>10. handler[b] # 1
  BY <1>3, HandlersFacts
<1> QED
  BY <1>5, <1>8, <1>9, <1>10

LEMMA SaveRow ==
    ASSUME WalkInv, KeyInv, RowInv, NEW b \in Blocks, Save(b)
    PROVE  RowInv'
<1> DEFINE new == [key |-> Key(Receipt(b)), receipt |-> Receipt(b), line |-> line[b]]
<1>1. /\ stage' = [stage EXCEPT ![b] = "logs"]
      /\ UNCHANGED <<receipts, cur, handler, line, finished>>
  BY DEF Save, Goto
<1>2. \/ /\ rows' = IF \E x \in rows : x.key = new.key THEN rows ELSE rows \cup {new}
         /\ UNCHANGED failed
      \/ failed' = failed \cup {Receipt(b)} /\ UNCHANGED rows
  BY SaveFacts
<1>3. stage[b] = "save" /\ cur[b] \in 1 .. Len(receipts[b])
  BY SaveFacts
<1>4. Receipt(b)' = Receipt(b)
  BY <1>1 DEF Receipt
<1>5. new.receipt = Receipt(b) /\ new.key = Key(Receipt(b)) /\ new.line = line[b]
  OBVIOUS
<1> HIDE DEF new
<1>6. \A x \in rows : x.key = Key(Receipt(b)) => x.receipt = Receipt(b)
  <2> SUFFICES ASSUME NEW x \in rows, x.key = Key(Receipt(b))
               PROVE  x.receipt = Receipt(b)
    OBVIOUS
  <2>1. x.receipt \in Receipts /\ x.key = Key(x.receipt)
    BY DEF KeyInv, WalkInv, TypeOK
  <2>2. PICK d \in Blocks : x.receipt \in {d} \X DOMAIN receipts[d]
    BY <2>1 DEF Receipts
  <2>3. x.receipt = <<x.receipt[1], x.receipt[2]>>
    BY <2>2
  <2>4. x.receipt[1] = b /\ x.receipt[2] = cur[b]
    BY <2>1 DEF Key, Receipt
  <2> QED
    BY <2>3, <2>4 DEF Receipt
<1>7. Owed(b)'
  <2>1. CASE Receipt(b) \in failed'
    BY <1>4, <2>1 DEF Owed
  <2>2. CASE Receipt(b) \notin failed'
    <3>1. rows' = IF \E x \in rows : x.key = new.key THEN rows ELSE rows \cup {new}
      BY <1>2, <2>2
    <3>2. \E x \in rows' : x.receipt = Receipt(b)
      BY <1>5, <1>6, <3>1
    <3> QED
      BY <1>4, <3>2 DEF Owed, HasRow
  <2> QED
    BY <2>1, <2>2
<1>8. ASSUME NEW x \in rows' \ rows, x.receipt \notin failed'
      PROVE  x.line \in FirstTrade(x.receipt)
  <2>1. /\ x = new /\ UNCHANGED failed
        /\ \A y \in rows : y.key # new.key
    BY <1>2, <1>8
  <2>2. ~HasRow(Receipt(b))
    BY <1>5, <2>1 DEF HasRow, KeyInv
  <2> QED
    BY <1>5, <1>8, <2>1, <2>2, FirstToSave
<1>9. \A d \in Blocks \ {b} : stage'[d] = stage[d]
  BY <1>1 DEF WalkInv, TypeOK
<1>10. rows \subseteq rows' /\ failed \subseteq failed'
  BY <1>2
<1> QED
  BY <1>1, <1>7, <1>8, <1>9, <1>10, RowStep

\* A handler that has no log ahead has passed all of its logs.
LEMMA AllPassed ==
    ASSUME WalkInv, NEW b \in Blocks, stage[b] = "logs", Ahead(b) = {}
    PROVE  \A i \in 1 .. Len(Logs(Receipt(b))) :
             (\E g \in 1 .. 3 : g <= handler[b] /\ Logs(Receipt(b))[i] \in Handlers[g])
                => i \in Passed(b)
<1> SUFFICES ASSUME NEW i \in 1 .. Len(Logs(Receipt(b))),
                    NEW g \in 1 .. 3, g <= handler[b],
                    Logs(Receipt(b))[i] \in Handlers[g]
             PROVE  i \in Passed(b)
  OBVIOUS
<1>1. handler[b] \in 1 .. 3 /\ line[b] \in Nat
  BY Same
<1>2. CASE g < handler[b]
  BY <1>2 DEF Passed, Behind
<1>3. CASE g = handler[b]
  <2>1. i \notin Ahead(b)
    OBVIOUS
  <2>2. i <= line[b]
    BY <1>1, <1>3, <2>1 DEF Ahead
  <2> QED
    BY <1>1, <1>3, <2>2 DEF Passed, Behind
<1> QED
  BY <1>1, <1>2, <1>3

\* A handler returns: what it passed is what the next one finds passed, and
\* the last one has passed every trade.
LEMMA ReturnsRow ==
    ASSUME WalkInv, RowInv, NEW b \in Blocks, LogsDone(b) \/ TokenUnknown(b)
    PROVE  RowInv'
<1> DEFINE logs == Logs(Receipt(b))
<1>1. /\ HandlerReturns(b)
      /\ stage[b] \in {"logs", "token"}
      /\ \/ stage[b] = "logs" /\ Ahead(b) = {} /\ failed' = failed
         \/ failed' = failed \cup {Receipt(b)}
  BY DEF LogsDone, TokenUnknown
<1>2. /\ UNCHANGED <<receipts, rows>>
      /\ line' = [line EXCEPT ![b] = 0]
  BY <1>1 DEF HandlerReturns
<1>3. failed \subseteq failed' /\ cur[b] \in 1 .. Len(receipts[b])
  BY <1>1 DEF WalkInv, StageInv, Working
<1>4. logs \in Seq(Kinds)
  BY <1>3, ReceiptFacts DEF WalkInv
<1>5. Receipt(b) \notin failed' =>
        \A i \in 1 .. Len(logs) :
          (\E g \in 1 .. 3 : g <= handler[b] /\ logs[i] \in Handlers[g])
             => HasRow(Receipt(b))
  <2> SUFFICES ASSUME Receipt(b) \notin failed', NEW i \in 1 .. Len(logs),
                      \E g \in 1 .. 3 : g <= handler[b] /\ logs[i] \in Handlers[g]
               PROVE  HasRow(Receipt(b))
    OBVIOUS
  <2>1. stage[b] = "logs" /\ Ahead(b) = {} /\ Receipt(b) \notin failed
    BY <1>1
  <2>2. i \in Passed(b)
    BY <2>1, AllPassed
  <2> QED
    BY <2>1, <2>2 DEF RowInv, Owed, Working
<1>6. /\ handler[b] \in 1 .. 3
      /\ \E st : stage' = [stage EXCEPT ![b] = st]
  BY <1>1, Same DEF HandlerReturns, Goto
<1>7. \A d \in Blocks \ {b} : stage'[d] = stage[d] /\ line'[d] = line[d]
  BY <1>2, <1>6 DEF WalkInv, TypeOK
<1> HIDE DEF logs
<1>8. CASE handler[b] < 3
  <2>1. /\ handler' = [handler EXCEPT ![b] = handler[b] + 1]
        /\ UNCHANGED <<cur, finished>>
    BY <1>1, <1>8, HandlersFacts DEF HandlerReturns
  <2>2. /\ handler'[b] = handler[b] + 1 /\ line'[b] = 0
        /\ \A d \in Blocks \ {b} : handler'[d] = handler[d]
    BY <1>2, <2>1 DEF WalkInv, TypeOK
  <2>3. Receipt(b)' = Receipt(b) /\ Logs(Receipt(b))' = logs
    BY <1>2, <2>1 DEF Receipt, Logs, logs
  <2>4. ASSUME NEW i \in Passed(b)'
        PROVE  /\ i \in 1 .. Len(logs)
               /\ \E g \in 1 .. 3 : g <= handler[b] /\ logs[i] \in Handlers[g]
    <3>1. i \in Behind(logs, handler[b] + 1, 0, stage'[b])
      BY <2>2, <2>3, <2>4 DEF Passed
    <3> QED
      BY <1>4, <1>6, <3>1 DEF Behind
  <2>5. Owed(b)'
    BY <1>2, <1>5, <2>3, <2>4 DEF Owed, HasRow
  <2> QED
    BY <1>2, <1>3, <1>7, <2>1, <2>2, <2>5, RowStep
<1>9. CASE ~(handler[b] < 3)
  <2>1. /\ handler' = [handler EXCEPT ![b] = 1]
        /\ cur' = [cur EXCEPT ![b] = @ + 1]
        /\ finished' = finished \cup {Receipt(b)}
    BY <1>1, <1>9, HandlersFacts DEF HandlerReturns
  <2>2. /\ handler'[b] = 1
        /\ \A d \in Blocks \ {b} : handler'[d] = handler[d] /\ cur'[d] = cur[d]
    BY <2>1 DEF WalkInv, TypeOK
  <2>3. Passed(b)' = {}
    BY <2>2, NothingBehind DEF Passed
  <2>4. Owed(b)'
    BY <2>3 DEF Owed
  <2>5. ASSUME NEW r \in finished' \ failed', r \notin finished,
               NEW i \in DOMAIN Logs(r), Logs(r)[i] \in {"buy", "sell"}
        PROVE  HasRow(r)
    <3>1. r = Receipt(b) /\ Receipt(b) \notin failed'
      BY <2>1, <2>5
    <3>2. i \in 1 .. Len(logs) /\ logs[i] \in {"buy", "sell"}
      BY <1>4, <2>5, <3>1 DEF logs
    <3>3. \E g \in 1 .. 3 : g <= handler[b] /\ logs[i] \in Handlers[g]
      BY <1>6, <1>9, <3>2, HandlersFacts
    <3> QED
      BY <1>5, <3>1, <3>2, <3>3
  <2> QED
    BY <1>2, <1>3, <1>7, <2>1, <2>2, <2>4, <2>5, RowStep
<1> QED
  BY <1>8, <1>9

\* Every step preserves the second layer.
LEMMA RowNext == WalkInv /\ KeyInv /\ RowInv /\ [Next]_vars => RowInv'
<1> SUFFICES ASSUME WalkInv, KeyInv, RowInv, [Next]_vars
             PROVE  RowInv'
  OBVIOUS
<1>0. ASSUME receipts' = receipts, rows' = rows
      PROVE  \A r : Logs(r)' = Logs(r) /\ FirstTrade(r)' = FirstTrade(r) /\ (HasRow(r)' <=> HasRow(r))
  BY <1>0, SameLogs DEF HasRow
<1>1. CASE UNCHANGED <<receipts, walk, rows, hist>>
  <2>1. \A b \in Blocks : Receipt(b)' = Receipt(b) /\ Passed(b)' = Passed(b)
    BY <1>0, <1>1 DEF Receipt, Passed, walk
  <2>2. \A b \in Blocks : Owed(b)'
    BY <1>0, <1>1, <2>1 DEF RowInv, Owed, walk, hist
  <2> QED
    BY <1>0, <1>1, <2>2 DEF RowInv, hist
<1>2. CASE Restart
  <2>1. /\ \A b \in Blocks : stage'[b] = "idle"
        /\ UNCHANGED <<receipts, rows, hist>>
    BY <1>2 DEF Restart, Started
  <2>2. \A b \in Blocks : Owed(b)'
    BY <2>1 DEF Owed, Working
  <2> QED
    BY <1>0, <2>1, <2>2 DEF RowInv, hist
<1>3. ASSUME NEW b \in Blocks, Receive(b) \/ Handle(b)
      PROVE  RowInv'
  <2>1. CASE AskPrice(b) \/ Panic(b)
    BY <1>1, <2>1 DEF AskPrice, Panic
  <2> QED
    BY <1>3, <2>1, ReceiveRow, MatchRow, TokenKnownRow, SaveRow, ReturnsRow DEF Handle
<1>4. CASE \E s \in Shapes : Acquire(s) \/ ReturnEarly(s)
  BY <1>1, <1>4 DEF Acquire, ReturnEarly
<1>5. CASE LargeTransfer \/ NonceKnown \/ NonceUnknown \/ Kill \/ PriceMoves \/ UNCHANGED vars
  BY <1>1, <1>5 DEF LargeTransfer, NonceKnown, NonceUnknown, Kill, PriceMoves, vars, walk, hist
<1> QED
  BY <1>2, <1>3, <1>4, <1>5 DEF Next, Rest

THEOREM Rows == Spec => [](KeyInv /\ RowInv)
<1>1. Init => KeyInv /\ RowInv
  BY DEF Init, KeyInv, RowInv, Owed, Working
<1>2. WalkInv /\ KeyInv /\ RowInv /\ [Next]_vars => (KeyInv /\ RowInv)'
  BY KeyNext, RowNext
<1> QED
  BY <1>1, <1>2, Walk, PTL DEF Spec

\* A saved row is the first of its event, as it is of its transaction: rows of
\* the same transaction have the same key.
LEMMA SaveRecords ==
    ASSUME WalkInv, KeyInv, NEW b \in Blocks, Save(b)
    PROVE  [Ledger!Next]_Entries
<1> DEFINE new == [key |-> Key(Receipt(b)), receipt |-> Receipt(b), line |-> line[b]]
           entry == [key |-> Key(Receipt(b)), event |-> <<Receipt(b), line[b]>>]
<1>1. CASE rows' = rows
  BY <1>1 DEF Entries
<1>2. CASE rows' # rows
  <2>1. rows' = rows \cup {new} /\ \A x \in rows : x.key # new.key
    BY <1>2, SaveFacts
  <2>2. \A x \in rows : x.receipt # Receipt(b)
    BY <2>1 DEF KeyInv
  <2>3. Entries' = Entries \cup {entry}
    <3>1. Entries' = Entries \cup {[key |-> new.key, event |-> <<new.receipt, new.line>>]}
      <4> HIDE DEF new
      <4> QED
        BY <2>1, Zenon DEF Entries
    <3> QED
      BY <3>1
  <2>4. \A d \in Entries : d.key # entry.key /\ d.event # entry.event
    BY <2>1, <2>2 DEF Entries
  <2>5. Ledger!Record(entry)
    BY <2>3, <2>4 DEF Ledger!Record, Entries
  <2>6. entry \in Entries'
    BY <2>3
  <2>7. Ledger!Next
    <3> HIDE DEF entry
    <3> QED
      BY <2>5, <2>6, Zenon DEF Ledger!Next
  <2> QED
    BY <2>7
<1> QED
  BY <1>1, <1>2

\* The rows implement the ledger, through restarts and failed inserts, and
\* however often a block is handled.
THEOREM Refinement == Spec => LedgerSpec
<1>1. Init => Ledger!Init
  BY DEF Init, Ledger!Init, Entries
<1>2. WalkInv /\ KeyInv /\ [Next]_vars => [Ledger!Next]_Entries
  <2> SUFFICES ASSUME WalkInv, KeyInv, [Next]_vars
               PROVE  [Ledger!Next]_Entries
    OBVIOUS
  <2>1. ASSUME NEW b \in Blocks, Save(b)
        PROVE  [Ledger!Next]_Entries
    BY <2>1, SaveRecords
  <2>2. CASE rows' = rows
    BY <2>2 DEF Entries
  <2> QED
    BY <2>1, <2>2, OnlySaveWrites
<1> QED
  BY <1>1, <1>2, Walk, Rows, PTL DEF Spec, LedgerSpec, Ledger!Spec

\* A transaction that was handled without a failed request is on record by
\* its first trade, and by trades of its own only, for any logs, blocks and
\* restarts.
THEOREM TradeRowHolds == Spec => []TradeRow
<1>1. WalkInv /\ RowInv => TradeRow
  <2> SUFFICES ASSUME WalkInv, RowInv, NEW r \in finished \ failed
               PROVE  /\ \A i \in FirstTrade(r) :
                           \E y \in rows : y.receipt = r /\ y.line = i
                      /\ \A y \in rows : y.receipt = r =>
                           y.line \in Trades(r, "buy") \cup Trades(r, "sell")
    BY DEF TradeRow
  <2>1. \A y \in rows : y.receipt = r => y.line \in FirstTrade(r)
    BY DEF RowInv
  <2>2. ASSUME NEW i \in FirstTrade(r)
        PROVE  \E y \in rows : y.receipt = r /\ y.line = i
    <3>1. i \in DOMAIN Logs(r) /\ Logs(r)[i] \in {"buy", "sell"}
      BY <2>2 DEF FirstTrade, Trades
    <3>2. PICK y \in rows : y.receipt = r
      BY <3>1 DEF RowInv, HasRow
    <3>3. y.line \in FirstTrade(r)
      BY <2>1, <3>2
    <3>4. DOMAIN Logs(r) \subseteq Nat
      <4>1. r \in Receipts
        BY DEF WalkInv, TypeOK
      <4>2. PICK b \in Blocks : r \in {b} \X DOMAIN receipts[b]
        BY <4>1 DEF Receipts
      <4>3. receipts[b] \in Seq(ReceiptRecords) /\ r[1] = b /\ r[2] \in DOMAIN receipts[b]
        BY <4>2, ReceiptTypes DEF WalkInv
      <4>4. receipts[b][r[2]] \in ReceiptRecords
        BY <4>3
      <4>5. Logs(r) \in Seq(Kinds)
        BY <4>3, <4>4 DEF Logs, ReceiptRecords
      <4> QED
        BY <4>5
    <3>5. i \in Nat /\ y.line \in Nat /\ i <= y.line /\ y.line <= i
      BY <2>2, <3>3, <3>4 DEF FirstTrade, Trades
    <3> QED
      BY <3>2, <3>5
  <2>3. FirstTrade(r) \subseteq Trades(r, "buy") \cup Trades(r, "sell")
    BY DEF FirstTrade
  <2> QED
    BY <2>1, <2>2, <2>3
<1> QED
  BY <1>1, Walk, Rows, PTL

-----------------------------------------------------------------------------
(* The walk of a goroutine over its block.                                 *)

\* The goroutine gets to a later receipt, to a later handler of the same
\* receipt, or to a later log in the same handler.
Onward(b) ==
    \/ cur[b] < cur'[b]
    \/ cur[b] = cur'[b] /\ handler[b] < handler'[b]
    \/ cur[b] = cur'[b] /\ handler[b] = handler'[b] /\ line[b] < line'[b]

\* Within one life of the process a goroutine only walks forward through its
\* block, and whenever it asks for a token it has come to a further log: no
\* handler looks up or saves a log twice, although every error returns to the
\* walk.
WalkOnward ==
    restarts' = restarts =>
        \A b \in Blocks :
            /\ Onward(b) \/ UNCHANGED <<cur[b], handler[b], line[b]>>
            /\ stage[b] # "token" /\ stage'[b] = "token" => Onward(b)

LEMMA MatchOnward ==
    ASSUME TypeOK, NEW b \in Blocks, Match(b)
    PROVE  WalkOnward
<1>1. PICK i \in Ahead(b) : line' = [line EXCEPT ![b] = i]
  BY DEF Match
<1>2. /\ cur' = cur /\ handler' = handler
      /\ stage' = [stage EXCEPT ![b] = "token"]
      /\ i > line[b]
  BY <1>1 DEF Match, Goto, Ahead
<1>3. \A d \in Blocks : d # b => stage'[d] = stage[d] /\ line'[d] = line[d]
  BY <1>1, <1>2 DEF TypeOK
<1>4. line'[b] = i /\ i \in Nat /\ line[b] \in Nat
  BY <1>1 DEF TypeOK, Ahead
<1>5. Onward(b)
  BY <1>2, <1>4 DEF Onward
<1> QED
  BY <1>2, <1>3, <1>5 DEF WalkOnward

LEMMA ReturnsOnward ==
    ASSUME TypeOK, NEW b \in Blocks, HandlerReturns(b)
    PROVE  WalkOnward
<1>1. /\ cur \in [Blocks -> Nat] /\ handler \in [Blocks -> 1 .. 3]
      /\ line \in [Blocks -> Nat]
      /\ stage \in [Blocks -> {"idle", "logs", "token", "save", "done"}]
  BY DEF TypeOK
<1>2. /\ line' = [line EXCEPT ![b] = 0]
      /\ \A d \in Blocks : d # b => cur'[d] = cur[d] /\ handler'[d] = handler[d]
      /\ \A d \in Blocks : stage'[d] = "token" => d # b /\ stage[d] = "token"
  BY <1>1 DEF HandlerReturns, Goto
<1>3. Onward(b)
  <2>1. CASE handler[b] < Len(Handlers)
    <3>1. handler'[b] = handler[b] + 1 /\ cur' = cur
      BY <1>1, <2>1 DEF HandlerReturns
    <3> QED
      BY <1>1, <3>1 DEF Onward
  <2>2. CASE ~(handler[b] < Len(Handlers))
    <3>1. cur'[b] = cur[b] + 1
      BY <1>1, <2>2 DEF HandlerReturns
    <3> QED
      BY <1>1, <3>1 DEF Onward
  <2> QED
    BY <2>1, <2>2
<1> QED
  BY <1>1, <1>2, <1>3 DEF WalkOnward

\* A goroutine takes the logs of its block in order, each at most once per
\* handler: the half of BlockEnds that needs no fairness.
THEOREM WalkOnwardHolds == Spec => [][WalkOnward]_vars
<1>1. WalkInv /\ [Next]_vars => [WalkOnward]_vars
  <2> SUFFICES ASSUME WalkInv, Next
               PROVE  WalkOnward
    BY DEF WalkOnward, vars
  <2>1. TypeOK
    BY DEF WalkInv
  <2>2. ASSUME NEW b \in Blocks, Match(b) \/ LogsDone(b) \/ TokenUnknown(b)
        PROVE  WalkOnward
    BY <2>1, <2>2, MatchOnward, ReturnsOnward DEF LogsDone, TokenUnknown
  <2>3. ASSUME NEW b \in Blocks, Receive(b) \/ TokenKnown(b) \/ Save(b)
        PROVE  WalkOnward
    <3>1. /\ UNCHANGED <<cur, handler, line>>
          /\ \A d \in Blocks : stage'[d] = "token" => stage[d] = "token"
      BY <2>1, <2>3 DEF Receive, TokenKnown, Save, Goto, TypeOK
    <3> QED
      BY <3>1 DEF WalkOnward
  <2>4. CASE UNCHANGED walk
    BY <2>4 DEF walk, WalkOnward
  <2>5. CASE Restart
    BY <2>1, <2>5 DEF Restart, WalkOnward, TypeOK
  <2>6. ASSUME NEW b \in Blocks, AskPrice(b) \/ Panic(b)
        PROVE  UNCHANGED walk
    BY <2>6 DEF AskPrice, Panic
  <2>7. ASSUME NEW s \in Shapes, Acquire(s) \/ ReturnEarly(s)
        PROVE  UNCHANGED walk
    BY <2>7 DEF Acquire, ReturnEarly
  <2>8. ASSUME LargeTransfer \/ NonceKnown \/ NonceUnknown \/ Kill \/ PriceMoves
        PROVE  UNCHANGED walk
    BY <2>8 DEF LargeTransfer, NonceKnown, NonceUnknown, Kill, PriceMoves
  <2>9. Rest => UNCHANGED walk
    BY DEF Rest, vars, walk
  <2> QED
    BY <2>2, <2>3, <2>4, <2>5, <2>6, <2>7, <2>8, <2>9 DEF Next, Handle
<1> QED
  BY <1>1, Walk, PTL DEF Spec
=============================================================================
