-------------------------------- MODULE Fleet --------------------------------
(***************************************************************************)
(* The pairs of the bot on one account: a dispatch runs the cycle of every *)
(* pair in a thread of its own and waits for all of them; the threads meet *)
(* at the limits of the bot (emergency halt, number of open positions,     *)
(* daily loss), at the USDC of the account and at the lock that serialises *)
(* its allocation.                                                         *)
(*                                                                         *)
(* PairCycle has one pair in full.  Of a pair only what the others can see *)
(* is kept here: the coins it holds, at the USDC they cost, the USDC of    *)
(* its sales since its last buy (its capital), whether its stop order is   *)
(* placed, and whether pair_state says it is open.  A sale is whole.  The  *)
(* signals, the out-of-sample gate, the cool-down and the ATR guard decide *)
(* a buy freely; a trade costs no fee, and a buy may take any part of the  *)
(* capital (sizing by risk, rounding and the 2% cushion only lower it).    *)
(*                                                                         *)
(* X__Y is X with the mistake Y.                                           *)
(***************************************************************************)
EXTENDS Integers, FiniteSets, Functions

CONSTANTS
    Pair,
    MaxLong,      \* max_concurrent_long
    LossPct,      \* daily_loss_limit_pct, in percent
    PollEvery,    \* _SL_POLL_INTERVAL
    Capital,      \* USDC of the sales of a pair when the bot starts
    MaxUsdc,      \* bound: USDC of the account
    MaxPnl,       \* bound: a day with this profit sees no other gain
    Nobody        \* the allocation lock is free

ASSUME FleetAssumption ==
    /\ IsFiniteSet(Pair)
    /\ MaxLong \in Nat
    /\ LossPct \in Nat
    /\ PollEvery \in Nat \ {0}
    /\ Capital \in Nat \ {0}
    /\ MaxUsdc \in Nat /\ MaxPnl \in Nat
    /\ Nobody \notin Pair

VARIABLES
    free,       \* USDC of the account
    coin,       \* coin[p]: coins of p on the account, at their cost
    sold,       \* sold[p]: USDC of the sales of p since its last buy
    cost,       \* pair_state: cost of the open position, 0 when there is none
    armed,      \* sl_exchange_placed
    polls,      \* sl_poll_counters
    halted,     \* bot_state['emergency_halt']
    pnl,        \* _daily_pnl_tracker: total_pnl of the day
    opening,    \* _daily_pnl_tracker: starting_equity
    dated,      \* _equity_last_date is today
    lock,       \* holder of _usdc_allocation_lock
    pc,         \* the next thing the thread of p does
    want,       \* USDC the buy asks for
    fresh,      \* history: the balance was read under the lock
    barred      \* history: the limits in force ever since this dispatch began

account == <<free, coin, sold>>
memory == <<cost, armed, polls>>
limits == <<halted, pnl, opening, dated>>
buying == <<lock, want, fresh>>
vars == <<account, memory, limits, buying, pc, barred>>

Labels == {"idle", "gate", "count", "fetch", "zero", "manage", "book",
           "check", "wait", "size", "order", "protect"}
Limits == {"halt", "full", "loss"}

Open == {p \in Pair : cost[p] > 0}
Full == Cardinality(Open) >= MaxLong
Quiet == \A p \in Pair : pc[p] = "idle"
(* USDC and the positions at their entry price *)
Equity == free + SumFunction([p \in Pair |-> IF cost[p] > 0 THEN coin[p] ELSE 0])
Exceeds(loss) == loss * 100 > opening * LossPct
LossReached == Exceeds(-pnl)

Goto(p, l) == pc' = [pc EXCEPT ![p] = l]
Still == barred' = IF LossReached' THEN barred ELSE barred \ {"loss"}
(* What the coins of p may be sold for *)
Receipts(p) == {r \in 1..(MaxUsdc - free) : r > coin[p] => pnl < MaxPnl}
Sold(p, r) == /\ free' = free + r
              /\ coin' = [coin EXCEPT ![p] = 0]
              /\ sold' = [sold EXCEPT ![p] = r]

-----------------------------------------------------------------------------
(* _dispatch_live_parallel and _dispatch_scheduled_parallel: the main loop *)
(* starts a thread per pair and waits for all of them.                     *)

(* ... does not wait for the threads of the last dispatch *)
Dispatch__NotJoined ==
    /\ \E p \in Pair : pc[p] = "idle"
    /\ pc' = [p \in Pair |-> IF pc[p] = "idle" THEN "gate" ELSE pc[p]]
    /\ barred' = {l \in Limits : \/ l = "halt" /\ halted
                                 \/ l = "full" /\ Full
                                 \/ l = "loss" /\ LossReached}
    /\ UNCHANGED <<account, memory, limits, buying>>

Dispatch ==
    /\ Quiet
    /\ pc' = [p \in Pair |-> "gate"]
    /\ barred' = {l \in Limits : \/ l = "halt" /\ halted
                                 \/ l = "full" /\ Full
                                 \/ l = "loss" /\ LossReached}
    /\ UNCHANGED <<account, memory, limits, buying>>

Gate(p) ==
    /\ pc[p] = "gate"
    /\ Goto(p, IF halted THEN "idle" ELSE "count")
    /\ UNCHANGED <<account, memory, limits, buying, barred>>

(* SL-POLL: get_order, every PollEvery-th cycle of an open position *)
Polls(p) == armed[p] /\ cost[p] > 0
Due(p) == Polls(p) /\ polls[p] + 1 = PollEvery
Closed(p) == cost' = [cost EXCEPT ![p] = 0] /\ armed' = [armed EXCEPT ![p] = FALSE]

Poll(p) ==
    /\ polls' = IF Polls(p) THEN [polls EXCEPT ![p] = (@ + 1) % PollEvery] ELSE polls
    /\ \/ Due(p) /\ coin[p] = 0 /\ Closed(p)
       \/ UNCHANGED <<cost, armed>>        \* not due, not filled, or no answer

(* _refresh_starting_equity_if_new_day *)
NewEquity == ~dated /\ opening' = Equity /\ dated' = TRUE

(* ... which may fail; then the number of open positions, the pair's own   *)
(* included; then the poll                                                 *)
Count(p) ==
    /\ pc[p] = "count"
    /\ NewEquity \/ UNCHANGED <<opening, dated>>
    /\ IF Full THEN Goto(p, "idle") /\ UNCHANGED memory
       ELSE Goto(p, "fetch") /\ Poll(p)
    /\ UNCHANGED <<account, halted, pnl, buying>> /\ Still

(* The snapshot of the account, then the side of the last order: a buy the *)
(* bot was not told about opens the position.                              *)
Fetched(p) ==
    /\ pc[p] = "fetch"
    /\ cost' = IF cost[p] = 0 /\ sold[p] = 0 THEN [cost EXCEPT ![p] = coin[p]] ELSE cost
    /\ Goto(p, IF coin[p] > 0 THEN "manage" ELSE IF cost[p] > 0 THEN "zero" ELSE "check")
    /\ UNCHANGED <<account, armed, polls, limits, buying, barred>>

(* return, or an exception that reaches the outer handler *)
Leave(p, here) ==
    /\ pc[p] = here /\ Goto(p, "idle")
    /\ UNCHANGED <<account, memory, limits, buying, barred>>

NotFetched(p) == Leave(p, "fetch")

-----------------------------------------------------------------------------
(* The open position.  Whoever sells it resets pair_state, then adds the   *)
(* profit to the total of the day.                                         *)

Booked(p) == pnl' = pnl + sold[p] - cost[p]

(* ... leaves an empty position to the poll *)
Zero__Poll(p) ==
    /\ pc[p] = "zero" /\ Goto(p, "idle")
    /\ UNCHANGED <<account, memory, limits, buying, barred>>

(* _reconcile_zero_balance_sl: the coins are gone.  The profit is known    *)
(* only if get_order answers that the stop order filled.                   *)
Zero(p) ==
    /\ pc[p] = "zero" /\ Goto(p, "idle")
    /\ Closed(p) /\ (Booked(p) \/ UNCHANGED pnl)
    /\ UNCHANGED <<account, polls, halted, opening, dated, buying>> /\ Still

(* _handle_exchange_sl_fill: the stop order filled after the snapshot *)
Filled(p) ==
    /\ pc[p] = "manage" /\ coin[p] = 0 /\ Goto(p, "idle")
    /\ Closed(p) /\ Booked(p)
    /\ UNCHANGED <<account, polls, halted, opening, dated, buying>> /\ Still

(* A signal or the stop of the bot: the stop order is cancelled first *)
Sell(p) ==
    /\ pc[p] = "manage" /\ coin[p] > 0
    /\ \E r \in Receipts(p) : Sold(p, r)
    /\ armed' = [armed EXCEPT ![p] = FALSE]
    /\ \/ Goto(p, "book")
       \/ Goto(p, "idle")                  \* reported as an error
    /\ UNCHANGED <<cost, polls, limits, buying, barred>>

(* Nothing is sold.  The stop order may have been moved, or cancelled and  *)
(* not placed again.                                                       *)
NotSold(p) ==
    /\ pc[p] = "manage" /\ Goto(p, "idle")
    /\ \E b \in BOOLEAN : /\ b => armed[p] \/ coin[p] > 0
                          /\ armed' = [armed EXCEPT ![p] = b]
    /\ UNCHANGED <<account, cost, polls, limits, buying, barred>>

Book(p) ==
    /\ pc[p] = "book" /\ Goto(p, "idle")
    /\ Closed(p) /\ Booked(p)
    /\ UNCHANGED <<account, polls, halted, opening, dated, buying>> /\ Still

-----------------------------------------------------------------------------
(* _execute_buy *)

(* _validate_buy_preconditions, outside the lock *)
Check(p) ==
    /\ pc[p] = "check"
    /\ cost[p] = 0 /\ sold[p] > 0 /\ ~LossReached
    /\ Goto(p, "wait")
    /\ UNCHANGED <<account, memory, limits, buying, barred>>

NotChecked(p) == Leave(p, "check")

(* ... does not wait for the lock *)
Acquire__Held(p) ==
    /\ pc[p] = "wait"
    /\ lock' = p /\ Goto(p, "size")
    /\ UNCHANGED <<account, memory, limits, want, fresh, barred>>

Acquire(p) ==
    /\ pc[p] = "wait" /\ lock = Nobody
    /\ lock' = p /\ Goto(p, "size")
    /\ UNCHANGED <<account, memory, limits, want, fresh, barred>>

Release(p) == /\ lock' = Nobody
              /\ want' = [want EXCEPT ![p] = 0]
              /\ fresh' = [fresh EXCEPT ![p] = FALSE]

(* The capital and the balance again, then the quantity.  A balance that   *)
(* cannot be read, or is zero, leaves the one the cycle began with, which  *)
(* may be any: then the capital is the only bound.                         *)
Size(p) ==
    /\ pc[p] = "size"
    /\ \E read \in BOOLEAN, q \in 1..sold[p] :
         /\ fresh' = [fresh EXCEPT ![p] = read /\ free > 0]
         /\ fresh'[p] => q <= free
         /\ want' = [want EXCEPT ![p] = q]
    /\ Goto(p, "order")
    /\ UNCHANGED <<account, memory, limits, lock, barred>>

(* ... returns with the lock *)
NotSized__Locked(p) ==
    /\ pc[p] = "size" /\ Goto(p, "idle")
    /\ UNCHANGED <<account, memory, limits, buying, barred>>

(* No capital left, no answer, or less than the smallest order *)
NotSized(p) ==
    /\ pc[p] = "size" /\ Goto(p, "idle") /\ Release(p)
    /\ UNCHANGED <<account, memory, limits, barred>>

(* ... leaves the sales before the buy in the capital *)
Bought__Kept(p) ==
    /\ want[p] <= free
    /\ free' = free - want[p]
    /\ coin' = [coin EXCEPT ![p] = want[p]]
    /\ UNCHANGED sold

(* What an order of want[p] USDC does on the account *)
Bought(p) ==
    /\ want[p] <= free
    /\ free' = free - want[p]
    /\ coin' = [coin EXCEPT ![p] = want[p]]
    /\ sold' = [sold EXCEPT ![p] = 0]

(* _place_buy_and_verify: filled, and pair_state says so *)
Buy(p) ==
    /\ pc[p] = "order" /\ Bought(p)
    /\ cost' = [cost EXCEPT ![p] = want[p]]
    /\ Goto(p, "protect") /\ Release(p)
    /\ UNCHANGED <<armed, polls, limits, barred>>

(* ... filled, and reported as an error *)
BuyUnseen(p) ==
    /\ pc[p] = "order" /\ Bought(p)
    /\ Goto(p, "idle") /\ Release(p)
    /\ UNCHANGED <<memory, limits, barred>>

NotBought(p) ==
    /\ pc[p] = "order" /\ Goto(p, "idle") /\ Release(p)
    /\ UNCHANGED <<account, memory, limits, barred>>

(* _place_sl_after_buy, after the lock: three tries of the stop order, ... *)
Protect(p) ==
    /\ pc[p] = "protect" /\ Goto(p, "idle")
    /\ armed' = [armed EXCEPT ![p] = TRUE]
    /\ UNCHANGED <<account, cost, polls, limits, buying, barred>>

SoldBack(p) == (\E r \in Receipts(p) : Sold(p, r)) \/ UNCHANGED account

(* ... else the position is sold back, whatever the status of the sale, ... *)
Rollback(p) ==
    /\ pc[p] = "protect" /\ Goto(p, "idle")
    /\ SoldBack(p) /\ Closed(p)
    /\ UNCHANGED <<polls, limits, buying, barred>>

(* ... else, if the sale raises, the bot halts *)
Halt(p) ==
    /\ pc[p] = "protect" /\ Goto(p, "idle")
    /\ SoldBack(p) /\ halted' = TRUE
    /\ UNCHANGED <<memory, pnl, opening, dated, buying, barred>>

-----------------------------------------------------------------------------
(* The world *)

(* The exchange triggers the stop order *)
StopFills(p) ==
    /\ armed[p] /\ coin[p] > 0
    /\ \E r \in Receipts(p) : Sold(p, r)
    /\ UNCHANGED <<memory, limits, buying, pc, barred>>

(* 00:00 UTC: nothing is booked under the new date yet *)
NewDay ==
    /\ dated
    /\ pnl' = 0 /\ dated' = FALSE
    /\ UNCHANGED <<account, memory, halted, opening, buying, pc>> /\ Still

Step(p) ==
    \/ Gate(p) \/ Count(p) \/ Fetched(p) \/ NotFetched(p)
    \/ Zero(p) \/ Filled(p) \/ Sell(p) \/ NotSold(p) \/ Book(p)
    \/ Check(p) \/ NotChecked(p) \/ Acquire(p) \/ Size(p) \/ NotSized(p)
    \/ Buy(p) \/ BuyUnseen(p) \/ NotBought(p) \/ Protect(p) \/ Rollback(p) \/ Halt(p)

(* The pairs start flat, after a sale each; the account may hold less USDC *)
(* than they sold for.                                                     *)
Init ==
    /\ free \in 1..MaxUsdc
    /\ coin = [p \in Pair |-> 0] /\ sold = [p \in Pair |-> Capital]
    /\ cost = [p \in Pair |-> 0] /\ armed = [p \in Pair |-> FALSE]
    /\ polls = [p \in Pair |-> 0]
    /\ halted = FALSE /\ pnl = 0 /\ opening = free /\ dated = TRUE
    /\ lock = Nobody /\ want = [p \in Pair |-> 0]
    /\ fresh = [p \in Pair |-> FALSE]
    /\ pc = [p \in Pair |-> "idle"] /\ barred = {}

Next == Dispatch \/ NewDay \/ \E p \in Pair : Step(p) \/ StopFills(p)

Spec == Init /\ [][Next]_vars

(* The threads run, the main loop goes on dispatching, and a pair does not *)
(* miss the account for ever.                                              *)
Fairness ==
    /\ WF_vars(Dispatch)
    /\ \A p \in Pair : WF_vars(Step(p)) /\ SF_vars(Fetched(p))

FairSpec == Spec /\ Fairness

-----------------------------------------------------------------------------
TypeOK ==
    /\ free \in Nat /\ coin \in [Pair -> Nat] /\ sold \in [Pair -> Nat]
    /\ \A p \in Pair : coin[p] = 0 \/ sold[p] = 0
    /\ cost \in [Pair -> Nat] /\ armed \in [Pair -> BOOLEAN]
    /\ polls \in [Pair -> 0..PollEvery - 1]
    /\ halted \in BOOLEAN /\ pnl \in Int /\ dated \in BOOLEAN
    /\ lock \in Pair \cup {Nobody} /\ pc \in [Pair -> Labels]
    /\ want \in [Pair -> Nat]
    /\ fresh \in [Pair -> BOOLEAN] /\ barred \subseteq Limits

(* Two pairs never spend the same USDC: from the reading of the balance    *)
(* under the lock to the order, what the order asks for stays on the       *)
(* account (the critical section of _execute_buy), although stops fill and *)
(* other pairs trade meanwhile.  A balance that could not be read, or was  *)
(* zero, gives no such promise: the exchange refuses the order.            *)
NoOverdraw ==
    \A p \in Pair : pc[p] = "order" /\ fresh[p] => want[p] <= free

(* A limit binds from the next dispatch on: no pair buys in a dispatch     *)
(* that began with the emergency halt set, with the most positions open,   *)
(* or with the loss of the day reached and not undone since.  The limits   *)
(* are read before the lock is waited for, so within the dispatch in which *)
(* one comes into force the other pairs may still buy.                     *)
LimitsBind ==
    [][\A p \in Pair : sold[p] > 0 /\ sold'[p] = 0 => barred = {}]_vars

(* A position whose stop order filled is seen to be closed sooner or       *)
(* later, unless the bot halts or the positions reach their number: both   *)
(* end every cycle before the position is looked at.                       *)
Gone(p) == cost[p] > 0 /\ coin[p] = 0
FillSeen == \A p \in Pair : Gone(p) ~> (~Gone(p) \/ halted \/ Full)

(* A dispatch ends: no thread keeps the lock, none waits for it for ever,  *)
(* and the main loop gets the control back.                                *)
DispatchEnds == (~Quiet) ~> Quiet

(* At most max_concurrent_long positions are open (bot_config.py:110)      *)
NeverMoreThanMax == Cardinality(Open) <= MaxLong

(* The limit on the positions stops buys only: a position whose stop order *)
(* filled is seen to be closed, however many are open.  The plan of the    *)
(* guard counts the other pairs only and returns "sans achat".             *)
FillSeenWhenFull == \A p \in Pair : Gone(p) ~> (~Gone(p) \/ halted)

(* _is_daily_loss_limit_reached: true if the loss of the day exceeds       *)
(* daily_loss_limit_pct of the starting equity.  Between two dispatches,   *)
(* with every fill seen, that is what the account has lost.                *)
LimitSeesLoss ==
    Quiet /\ dated /\ (\A p \in Pair : coin[p] = cost[p]) =>
        (Exceeds(opening - Equity) => LossReached)
=============================================================================
