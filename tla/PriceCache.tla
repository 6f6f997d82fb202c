----------------------------- MODULE PriceCache -----------------------------
(***************************************************************************)
(* The BNB price cache of client/price_client.go as the goroutines that    *)
(* call GetBNBPriceUSDT see it: one entry under a read-write lock, asked   *)
(* for again by the caller when it is missing or older than the update     *)
(* interval, and stored by a background updater now and then.              *)
(*                                                                         *)
(* What is told apart is whether the entry may be used, not its price: a   *)
(* missing entry and an old one are the same to every caller.              *)
(***************************************************************************)
CONSTANT Getters  \* goroutines that call GetBNBPriceUSDT

VARIABLES
    fresh,   \* the entry has a price and is younger than updateInterval
    getter   \* where the call of a goroutine is

PriceTypeOK ==
    /\ fresh \in BOOLEAN
    /\ getter \in [Getters -> {"idle", "reading", "asking", "storing", "served"}]

\* InitBnbPriceCache has asked once; its outcome is ignored.
PriceInit ==
    /\ fresh \in BOOLEAN
    /\ getter = [g \in Getters |-> "idle"]

\* The read lock is held for the whole call, by a deferred RUnlock.
Readers_Deferred == {g \in Getters : getter[g] \in {"reading", "asking", "storing"}}

\* Who holds the read lock: a caller that looks at the entry.
Readers == {g \in Getters : getter[g] = "reading"}

\* GetBNBPriceUSDT is called and takes the read lock.
GetPrice(g) ==
    /\ getter[g] = "idle"
    /\ getter' = [getter EXCEPT ![g] = "reading"]
    /\ UNCHANGED fresh

Hit(g) ==
    /\ getter[g] = "reading"
    /\ fresh
    /\ getter' = [getter EXCEPT ![g] = "served"]
    /\ UNCHANGED fresh

\* The read lock is given back before the request.
Miss(g) ==
    /\ getter[g] = "reading"
    /\ ~fresh
    /\ getter' = [getter EXCEPT ![g] = "asking"]
    /\ UNCHANGED fresh

Answered(g) ==
    /\ getter[g] = "asking"
    /\ getter' = [getter EXCEPT ![g] = "storing"]
    /\ UNCHANGED fresh

\* The answer is stored under the write lock and read back.
Store(g) ==
    /\ getter[g] = "storing"
    /\ Readers = {}
    /\ fresh' = TRUE
    /\ getter' = [getter EXCEPT ![g] = "served"]

\* No answer, or one without a positive price: the caller gets 800.
Unanswered(g) ==
    /\ getter[g] = "asking"
    /\ getter' = [getter EXCEPT ![g] = "served"]
    /\ UNCHANGED fresh

\* The caller goes on with its price.
PriceUsed(g) ==
    /\ getter[g] = "served"
    /\ getter' = [getter EXCEPT ![g] = "idle"]
    /\ UNCHANGED fresh

\* The ten minutes are over.
Expire ==
    /\ fresh
    /\ fresh' = FALSE
    /\ UNCHANGED getter

\* A request of startPriceUpdater is answered.
Refresh ==
    /\ ~fresh
    /\ Readers = {}
    /\ fresh' = TRUE
    /\ UNCHANGED getter

GetterStep(g) ==
    Hit(g) \/ Miss(g) \/ Answered(g) \/ Unanswered(g) \/ Store(g)
=============================================================================
