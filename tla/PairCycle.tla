----------------------------- MODULE PairCycle ------------------------------
(***************************************************************************)
(* One pair of the bot: the cycle that _execute_real_trades_inner runs     *)
(* every two minutes under the lock of the pair, and the functions of      *)
(* order_manager.py it delegates to, against the exchange of SpotPair.     *)
(*                                                                         *)
(* A step is what the code does from one call of the exchange to the next, *)
(* so that stop orders fill, prices move and calls fail in between.  ctx   *)
(* is the snapshot taken at the start of the cycle (_TradeCtx): the code   *)
(* goes on using it after the exchange has moved on.                       *)
(*                                                                         *)
(* Prices are ticks, quantities are units of the coin.  The thresholds of  *)
(* the configuration, percentages and multiples of the ATR in the code,    *)
(* are distances in ticks from the entry price.  MIN_NOTIONAL is taken to  *)
(* block exactly the quantities LOT_SIZE blocks, except for residues.      *)
(*                                                                         *)
(* Of the other pairs only the number of their open positions is kept,     *)
(* others: with it the gate of max_concurrent_long ends the cycle of this  *)
(* pair before it does anything, whether the pair has a position or not.   *)
(*                                                                         *)
(* Left out: the gates that only stop a buy (daily loss, out-of-sample     *)
(* check: NoSignal stands for them), a scenario without partial sales, the *)
(* slippage of the sniper entry, mails, journal and display.  The sale of  *)
(* a remainder at the end of _execute_signal_sell can only be refused and  *)
(* is left out too.                                                        *)
(*                                                                         *)
(* X__Y is X with the mistake Y: with it in place of X, a property of this *)
(* module is checked to fail.                                              *)
(***************************************************************************)
EXTENDS SpotPair

CONSTANTS
    Prices,       \* prices the market visits
    BuyPrices,    \* prices at which a buy signal may occur
    StopDist,     \* atr_stop_multiplier * ATR
    TrailDist,    \* atr_multiplier * ATR
    BeGain,       \* breakeven_trigger_pct
    Gain,         \* Gain[k]: partial_threshold_k
    Pct,          \* Pct[k]: partial_pct_k, in percent
    MaxTries,     \* SL_MAX_RETRIES
    MaxLong,      \* max_concurrent_long
    MaxOthers,    \* bound: open positions of the other pairs
    DustPart,     \* a residue is dust above 1 / DustPart of minQty: 100
    MaxHeld,      \* bound: coins the capital of the pair can buy
    Prompt,       \* has a stop order at or above the price read always filled?
    ResidueSells, \* may a residue be worth more than MIN_NOTIONAL?
    NoId          \* sl_order_id is None

ASSUME CycleAssumption ==
    /\ Prices \subseteq Nat \ {0}
    /\ BuyPrices \subseteq Prices
    /\ StopDist \in Nat \ {0}
    /\ \A p \in BuyPrices : p > StopDist
    /\ TrailDist \in Nat \ {0}
    /\ BeGain \in Nat \ {0}
    /\ Gain \in [1..2 -> Nat \ {0}]
    /\ Pct \in [1..2 -> 0..100]
    /\ MaxTries \in Nat \ {0}
    /\ MaxLong \in Nat \ {0}
    /\ MaxOthers \in Nat
    /\ DustPart \in Nat \ {0}
    /\ MaxHeld \in Nat
    /\ Prompt \in BOOLEAN
    /\ ResidueSells \in BOOLEAN
    /\ NoId \notin StopIds

VARIABLES
    ps,           \* pair_state: the bot's memory of the pair
    cool,         \* _stop_loss_cooldown_until is in the future
    halt,         \* bot_state['emergency_halt']
    ctx,          \* the snapshot of this cycle
    pc,           \* the next thing the cycle does
    job,          \* arguments of the sub-function that is running
    others        \* open positions of the other pairs

botVars == <<ps, cool, halt, ctx, pc, job>>
pairVars == <<exVars, botVars>>
vars == <<pairVars, others>>

Labels == {"idle", "poll", "fetch", "price", "sync", "trail", "even", "trailed",
           "moveCancel", "movePlace", "restore", "partial", "partialNext",
           "partialCancel", "canceledRead", "partialSell", "soldRead",
           "partialPlace", "stop", "zero", "stale", "filled", "guard", "manual",
           "residue", "dustRead", "signal", "signalRead", "signalSell", "buy",
           "protect", "rollback"}
Sides == {"NONE", "BUY", "SELL"}
Pos == 1..2

Larger(a, b) == IF a > b THEN a ELSE b

PairStates == [side : Sides, entry : Int, stopE : Int, stop : Int, act : Int,
               trail : Int, on : BOOLEAN, max : Int, taken : [Pos -> BOOLEAN],
               be : BOOLEAN, slId : StopIds \cup {NoId}, placed : BOOLEAN]
Snapshots == [px : Int, free : Int, locked : Int, tot : Int, newest : BOOLEAN]
Returns == {"idle", "even", "trailed", "filled", "partialNext"}
Jobs == [arg : Int, then : Returns, k : 1..Larger(3, MaxTries)]

(* pair_state; 0 stands for None and is falsy, as in the code *)
Closed == [side |-> "NONE", entry |-> 0, stopE |-> 0, stop |-> 0, act |-> 0,
           trail |-> 0, on |-> FALSE, max |-> 0, taken |-> [k \in Pos |-> FALSE],
           be |-> FALSE, slId |-> NoId, placed |-> FALSE]
Reset(side) == [Closed EXCEPT !.side = side]
NoCtx == [px |-> 0, free |-> 0, locked |-> 0, tot |-> 0, newest |-> FALSE]
NoJob == [arg |-> 0, then |-> "idle", k |-> 1]

Armed == ps.placed /\ ps.slId # NoId
SoftStop(s) == IF s.stop # 0 THEN s.stop ELSE s.stopE
EffectiveStop(s) ==
    IF s.on /\ SoftStop(s) # 0 /\ s.trail > SoftStop(s) THEN s.trail ELSE SoftStop(s)
PartialQty(k, q) == Floor((q * Pct[k]) \div 100)
Thresholds(e) == {k \in Pos : ctx.px >= e + Gain[k]}

Goto(l) == pc' = l
(* The cycle ends: return, or an exception reaching the outer handler *)
EndCycle == pc' = "idle" /\ ctx' = NoCtx /\ job' = NoJob
Keep == UNCHANGED <<cool, halt>>

-----------------------------------------------------------------------------
(* Gates, the check of a position without a confirmed stop (EM-P1-04), and *)
(* the poll of the stop order, every thirtieth cycle (SL-POLL).            *)

(* _open_longs counts every pair whose last_order_side is BUY, this one    *)
(* included                                                                *)
Full == others + (IF ps.side = "BUY" THEN 1 ELSE 0) >= MaxLong

CycleStart ==
    /\ pc = "idle" /\ ~halt /\ ~Full
    /\ IF ps.side = "BUY" /\ ~ps.placed /\ ps.slId # NoId
         THEN \E r \in {"ok", "err"} :
                /\ ReadCall(r)
                /\ ps' = [ps EXCEPT !.placed = (r = "ok" /\ ps.slId \in Live)]
         ELSE UNCHANGED <<ps, faults>>
    /\ Goto("poll")
    /\ UNCHANGED <<free, locked, ord, hist, ctx, job>> /\ Keep

(* A halted bot returns at once, cycle after cycle *)
HaltedCycle == pc = "idle" /\ halt /\ UNCHANGED pairVars

(* ... and so does one with max_concurrent_long open positions *)
FullCycle == pc = "idle" /\ ~halt /\ Full /\ UNCHANGED pairVars

NoPoll ==
    /\ pc = "poll"
    /\ Goto("fetch")
    /\ UNCHANGED <<exVars, ps, ctx, job>> /\ Keep

(* ... does not know a fill older than the cool-down *)
Poll__Young ==
    /\ pc = "poll" /\ ps.side = "BUY" /\ Armed
    /\ \E r \in {"ok", "err"} :
         /\ ReadCall(r)
         /\ IF r = "ok" /\ ord[ps.slId].st = "FILLED"
              THEN ps' = Reset("SELL") /\ cool' = TRUE
              ELSE UNCHANGED <<ps, cool>>
    /\ Goto("fetch")
    /\ UNCHANGED <<free, locked, ord, hist, halt, ctx, job>>

Poll ==
    /\ pc = "poll" /\ ps.side = "BUY" /\ Armed
    /\ \E r \in {"ok", "err"} :
         /\ ReadCall(r)
         /\ IF r = "ok" /\ HasFilled(ps.slId)
              THEN /\ ps' = Reset("SELL")
                   /\ cool' = (cool \/ ord[ps.slId].st = "FILLED")
              ELSE UNCHANGED <<ps, cool>>
    /\ Goto("fetch")
    /\ UNCHANGED <<free, locked, ord, hist, halt, ctx, job>>

(* The balances first, then the filters, the candles and the price *)
FetchBalances ==
    /\ pc = "fetch"
    /\ \E r \in {"ok", "err"} :
         /\ ReadCall(r)
         /\ IF r = "ok"
              THEN /\ ctx' = [NoCtx EXCEPT !.free = free, !.locked = locked, !.tot = Held]
                   /\ Goto("price")
                   /\ UNCHANGED job
              ELSE EndCycle
    /\ UNCHANGED <<free, locked, ord, hist, ps>> /\ Keep

FetchPrice ==
    /\ pc = "price"
    /\ \E r \in {"ok", "err"} :
         /\ ReadCall(r)
         /\ IF r = "ok"
              THEN /\ \E p \in Prices :
                        /\ Prompt => \A i \in Live : ord[i].stop < p
                        /\ ctx' = [ctx EXCEPT !.px = p]
                   /\ Goto("sync")
                   /\ UNCHANGED job
              ELSE EndCycle
    /\ UNCHANGED <<free, locked, ord, hist, ps>> /\ Keep

(* _sync_order_history: the side of the last filled order wins, unless it  *)
(* is a sale and the position is still open.                               *)
SyncedSide(s) ==
    IF hist.side = "SELL" /\ s.side = "BUY" /\ s.entry # 0 THEN s
    ELSE [s EXCEPT !.side = hist.side]

(* ... sets the soft stop at every cycle *)
SyncedEntry__Again(s) ==
    IF hist.side # "BUY" THEN s
    ELSE [s EXCEPT !.entry = IF s.entry = 0 THEN hist.px ELSE s.entry,
                   !.stopE = IF s.stopE = 0 THEN hist.px - StopDist ELSE s.stopE,
                   !.stop = hist.px - StopDist,
                   !.act = IF s.act = 0 THEN hist.px + TrailDist ELSE s.act,
                   !.side = "BUY"]

(* _sync_entry_state: fills what is missing, never what is set *)
SyncedEntry(s) ==
    IF hist.side # "BUY" THEN s
    ELSE [s EXCEPT !.entry = IF s.entry = 0 THEN hist.px ELSE s.entry,
                   !.stopE = IF s.stopE = 0 THEN hist.px - StopDist ELSE s.stopE,
                   !.stop = IF s.stopE = 0 THEN hist.px - StopDist ELSE s.stop,
                   !.act = IF s.act = 0 THEN hist.px + TrailDist ELSE s.act,
                   !.side = "BUY"]

Sync ==
    /\ pc = "sync"
    /\ \E r \in {"ok", "err"} :
         /\ ReadCall(r)
         /\ IF r = "ok"
              THEN /\ ps' = SyncedEntry(SyncedSide(ps))
                   /\ ctx' = [ctx EXCEPT !.newest = hist.newest]
                   /\ Goto("trail")
                   /\ UNCHANGED job
              ELSE EndCycle /\ UNCHANGED ps
    /\ UNCHANGED <<free, locked, ord, hist>> /\ Keep

-----------------------------------------------------------------------------
(* _update_trailing_stop.  The trailing stop, then the break-even stop,    *)
(* each moving the stop order of the exchange when it is raised.           *)

HighWater(s) == Larger(IF s.max # 0 THEN s.max
                       ELSE IF s.entry # 0 THEN s.entry ELSE ctx.px, ctx.px)
Activates(s) == ~s.on /\ s.act # 0 /\ ctx.px >= s.act
BreaksEven(s) == ~s.be /\ s.entry # 0 /\ ctx.px >= s.entry + BeGain

(* Cancel and place again at stop, then go on with l *)
MoveStop(stop, l) ==
    IF Armed /\ ctx.tot > MinQty
    THEN job' = [job EXCEPT !.arg = stop, !.then = l] /\ Goto("moveCancel")
    ELSE job' = job /\ Goto(l)

NoTrailing ==
    /\ pc = "trail" /\ (ps.side # "BUY" \/ ctx.tot <= 0)
    /\ Goto("partial")
    /\ UNCHANGED <<exVars, ps, ctx, job>> /\ Keep

Trail ==
    /\ pc = "trail" /\ ps.side = "BUY" /\ ctx.tot > 0
    /\ LET level == HighWater(ps) - TrailDist
           raised == \/ Activates(ps)
                     \/ ps.on /\ ps.stopE # 0 /\ level > ps.trail
       IN  IF raised
           THEN /\ ps' = [ps EXCEPT !.trail = level]
                /\ IF level > ps.stop THEN MoveStop(level, "even")
                   ELSE job' = job /\ Goto("even")
           ELSE UNCHANGED <<ps, job>> /\ Goto("even")
    /\ UNCHANGED <<exVars, ctx>> /\ Keep

BreakEven ==
    /\ pc = "even"
    /\ IF BreaksEven(ps) /\ ps.entry > ps.stop
         THEN /\ ps' = [ps EXCEPT !.stop = ps.entry]
              /\ MoveStop(ps.entry, "trailed")
         ELSE UNCHANGED <<ps, job>> /\ Goto("trailed")
    /\ UNCHANGED <<exVars, ctx>> /\ Keep

Trailed ==
    /\ pc = "trailed"
    /\ ps' = [ps EXCEPT !.on = ps.on \/ Activates(ps), !.max = HighWater(ps),
                        !.be = ps.be \/ BreaksEven(ps)]
    /\ Goto("partial") /\ job' = NoJob
    /\ UNCHANGED <<exVars, ctx>> /\ Keep

(* ... keeps the identifier until the new order is placed *)
MoveCancel__Kept ==
    /\ pc = "moveCancel"
    /\ \E r \in {"ok", "lost", "err", "rej"} :
         /\ CancelCall(ps.slId, r)
         /\ Goto(IF r = "ok" THEN "movePlace" ELSE "restore")
    /\ UNCHANGED <<ps, ctx, job>> /\ Keep

MoveCancel ==
    /\ pc = "moveCancel"
    /\ \E r \in {"ok", "lost", "err", "rej"} :
         /\ CancelCall(ps.slId, r)
         /\ IF r = "ok"
              THEN ps' = [ps EXCEPT !.slId = NoId, !.placed = FALSE] /\ Goto("movePlace")
              ELSE UNCHANGED ps /\ Goto("restore")
    /\ UNCHANGED <<ctx, job>> /\ Keep

(* The calls that place a stop order, and what the bot keeps of the reply *)
Place(q, price, r) ==
    \E i \in Unused({ps.slId}) :
      /\ PlaceStopCall(i, q, price, r)
      /\ ps' = IF r = "ok" THEN [ps EXCEPT !.slId = i, !.placed = TRUE] ELSE ps

(* ... covers only what was free at the start of the cycle *)
MovePlace__Free ==
    /\ pc = "movePlace"
    /\ \E r \in {"ok", "lost", "err", "rej"} :
         /\ Place(Larger(Floor(ctx.free), MinQty), job.arg, r)
         /\ Goto(IF r = "ok" THEN job.then ELSE "restore")
    /\ UNCHANGED <<ctx, job>> /\ Keep

MovePlace ==
    /\ pc = "movePlace"
    /\ \E r \in {"ok", "lost", "err", "rej"} :
         /\ Place(Larger(Floor(ctx.tot), MinQty), job.arg, r)
         /\ Goto(IF r = "ok" THEN job.then ELSE "restore")
    /\ UNCHANGED <<ctx, job>> /\ Keep

(* _restore_exchange_sl: at the soft stop, errors swallowed *)
Restore ==
    /\ pc = "restore"
    /\ IF ps.placed \/ SoftStop(ps) = 0 \/ ctx.tot <= MinQty
         THEN UNCHANGED <<exVars, ps>>
         ELSE \E r \in {"ok", "lost", "err", "rej"} : Place(Floor(ctx.tot), SoftStop(ps), r)
    /\ Goto(job.then)
    /\ UNCHANGED <<ctx, job>> /\ Keep

-----------------------------------------------------------------------------
(* _execute_partial_sells and _execute_one_partial *)

(* check_partial_exits_from_history: the flags that the quantities sold     *)
(* since the last buy may add, at prices high enough or not                *)
Window == <<[least |-> 45, most |-> 55], [least |-> 25, most |-> 35]>>
LooksPartial(k, i) ==
    /\ 100 * hist.sales[i] >= Window[k].least * hist.bought
    /\ 100 * hist.sales[i] <= Window[k].most * hist.bought
Detectable ==
    LET sold == DOMAIN hist.sales
        first == {i \in sold : LooksPartial(1, i)}
    IN  {k \in Pos : \E i \in first :
                       k = 2 => \E j \in sold : i < j /\ LooksPartial(2, j)}
Detected == {{}, Detectable \cap {1}, Detectable}

PartialSync ==
    /\ pc = "partial"
    /\ IF ps.side # "BUY" \/ ctx.free <= 0 \/ ps.entry = 0
         THEN UNCHANGED ps /\ Goto("stop")
         ELSE /\ \E d \in Detected :
                   ps' = [ps EXCEPT !.taken = [k \in Pos |-> ps.taken[k] \/ k \in d]]
              /\ Goto("partialNext")
    /\ UNCHANGED <<exVars, ctx, job>> /\ Keep

(* job.k is the partial sale to consider: 1, then 2, then none *)
PartialNext ==
    /\ pc = "partialNext"
    /\ IF job.k \notin Pos
         THEN job' = NoJob /\ Goto("stop")
         ELSE IF ~ps.taken[job.k] /\ job.k \in Thresholds(ps.entry) /\ ctx.tot > 0
         THEN job' = [job EXCEPT !.then = "partialNext"] /\ Goto("partialCancel")
         ELSE job' = [job EXCEPT !.k = @ + 1] /\ Goto("partialNext")
    /\ UNCHANGED <<exVars, ps, ctx>> /\ Keep

(* _cancel_exchange_sl: a failure goes on with failed, a success with the  *)
(* new reading of the balances                                             *)
CancelForSale(done, failed) ==
    /\ IF ps.slId = NoId THEN UNCHANGED <<exVars, ps>> /\ Goto(failed)
       ELSE \E r \in {"ok", "lost", "err", "rej"} :
              /\ CancelCall(ps.slId, r)
              /\ IF r = "ok"
                   THEN /\ ps' = [ps EXCEPT !.slId = NoId, !.placed = FALSE]
                        /\ Goto(done)
                   ELSE UNCHANGED ps /\ Goto(failed)
    /\ UNCHANGED <<ctx, job>> /\ Keep

(* get_account: when it fails, the old balances stay in the snapshot *)
Reread(done, failed) ==
    /\ \E r \in {"ok", "err"} :
         /\ ReadCall(r)
         /\ IF r = "ok"
              THEN /\ ctx' = [ctx EXCEPT !.free = free, !.locked = locked, !.tot = Held]
                   /\ Goto(done)
              ELSE UNCHANGED ctx /\ Goto(failed)
    /\ UNCHANGED <<free, locked, ord, hist, ps, job>> /\ Keep

PartialCancel == pc = "partialCancel" /\ CancelForSale("canceledRead", "partialSell")
CanceledRead == pc = "canceledRead" /\ Reread("partialSell", "partialSell")

PartialSell ==
    /\ pc = "partialSell"
    /\ LET q == PartialQty(job.k, ctx.tot)
           flagged == [ps EXCEPT !.taken[job.k] = TRUE]
       IN  IF q < MinQty
           THEN /\ ps' = flagged
                /\ Goto("restore")
                /\ UNCHANGED exVars
           ELSE \E r \in {"ok", "lost", "err", "rej", "unfilled"} :
                  /\ MarketSellCall(q, r)
                  /\ ps' = IF r = "ok" THEN flagged ELSE ps
                  /\ Goto(IF r = "ok" THEN "soldRead" ELSE "restore")
    /\ job' = [job EXCEPT !.k = @ + 1]
    /\ UNCHANGED ctx /\ Keep

(* ... goes on without placing the stop order again *)
SoldRead__Bare == pc = "soldRead" /\ Reread("partialNext", "restore")
SoldRead == pc = "soldRead" /\ Reread("partialPlace", "restore")

(* ... places the stop of the entry, break-even or not *)
PartialPlace__Entry ==
    /\ pc = "partialPlace"
    /\ IF SoftStop(ps) = 0 \/ ctx.tot <= MinQty
         THEN UNCHANGED <<exVars, ps>>
         ELSE \E r \in {"ok", "lost", "err", "rej"} : Place(Floor(ctx.tot), ps.stopE, r)
    /\ Goto("partialNext")
    /\ UNCHANGED <<ctx, job>> /\ Keep

PartialPlace ==
    /\ pc = "partialPlace"
    /\ IF SoftStop(ps) = 0 \/ ctx.tot <= MinQty
         THEN UNCHANGED <<exVars, ps>>
         ELSE \E r \in {"ok", "lost", "err", "rej"} : Place(Floor(ctx.tot), SoftStop(ps), r)
    /\ Goto("partialNext")
    /\ UNCHANGED <<ctx, job>> /\ Keep

-----------------------------------------------------------------------------
(* _check_and_execute_stop_loss and the handlers it dispatches to *)

Stopped == EffectiveStop(ps) # 0 /\ ctx.px <= EffectiveStop(ps)

StopCheck ==
    /\ pc = "stop"
    /\ Goto(IF ps.side # "BUY" THEN "residue"
            ELSE IF ctx.tot <= 0 THEN "zero"
            ELSE IF ~Stopped THEN "residue"
            ELSE IF ctx.free >= MinQty THEN "guard"
            ELSE IF EffectiveStop(ps) > ps.stopE /\ Armed THEN "stale" ELSE "filled")
    /\ UNCHANGED <<exVars, ps, ctx, job>> /\ Keep

(* _reconcile_zero_balance_sl: no coins are left.  The flags of the        *)
(* partial sales are not among the fields it clears.                       *)
ZeroBalance ==
    /\ pc = "zero"
    /\ ps' = [Reset("SELL") EXCEPT !.taken = ps.taken]
    /\ IF ps.slId = NoId THEN cool' = TRUE /\ UNCHANGED faults
       ELSE \E r \in {"ok", "err"} :
              /\ ReadCall(r)
              /\ cool' = (r = "ok" /\ ord[ps.slId].st = "OLD" => cool)
    /\ EndCycle
    /\ UNCHANGED <<free, locked, ord, hist, halt>>

(* The stop was raised above the one on the exchange: take the coins back *)
StaleCancel ==
    /\ pc = "stale"
    /\ \E r \in {"ok", "lost", "err", "rej"} :
         /\ CancelCall(ps.slId, r)
         /\ IF r = "ok"
              THEN /\ ps' = [ps EXCEPT !.slId = NoId, !.placed = FALSE]
                   /\ ctx' = [ctx EXCEPT !.free = ctx.tot]
                   /\ job' = [job EXCEPT !.then = "filled"]
                   /\ Goto("guard")
              ELSE UNCHANGED <<ps, ctx, job>> /\ Goto("filled")
    /\ Keep

(* _handle_exchange_sl_fill: the coins are locked, or were *)
FilledCheck ==
    /\ pc = "filled"
    /\ \/ /\ ps.slId # NoId
          /\ \E r \in {"ok", "err"} :
               /\ ReadCall(r)
               /\ IF r = "ok" /\ HasFilled(ps.slId)
                    THEN ps' = Reset("SELL") /\ cool' = TRUE
                    ELSE UNCHANGED <<ps, cool>>
       \/ /\ ps.slId = NoId
          /\ IF ctx.locked < MinQty
               THEN ps' = Reset("SELL") /\ cool' = TRUE
               ELSE UNCHANGED <<ps, cool>>
          /\ UNCHANGED faults
    /\ EndCycle
    /\ UNCHANGED <<free, locked, ord, hist, halt>>

(* ... forgets the stop order without cancelling it *)
GuardCancel__Forgets ==
    /\ pc = "guard"
    /\ ps' = IF Armed THEN [ps EXCEPT !.slId = NoId, !.placed = FALSE] ELSE ps
    /\ Goto("manual")
    /\ UNCHANGED <<exVars, ctx, job>> /\ Keep

(* _handle_manual_sl_trigger: the guard forgets the stop order whether or  *)
(* not it could be cancelled, then the coins free at the snapshot are sold *)
GuardCancel ==
    /\ pc = "guard"
    /\ IF Armed
         THEN /\ \E r \in {"ok", "lost", "err", "rej"} : CancelCall(ps.slId, r)
              /\ ps' = [ps EXCEPT !.slId = NoId, !.placed = FALSE]
         ELSE UNCHANGED <<exVars, ps>>
    /\ Goto("manual")
    /\ UNCHANGED <<ctx, job>> /\ Keep

ManualSell ==
    /\ pc = "manual"
    /\ IF Floor(ctx.free) < MinQty
         THEN EndCycle /\ UNCHANGED <<exVars, ps, cool>>
         ELSE \E r \in {"ok", "lost", "err", "rej", "unfilled"} :
                /\ MarketSellCall(Floor(ctx.free), r)
                /\ IF r = "ok"
                     THEN ps' = Reset("SELL") /\ cool' = TRUE /\ EndCycle
                     ELSE /\ UNCHANGED <<ps, cool>>
                          /\ IF r # "unfilled" /\ job.then = "filled"
                               THEN Goto("filled") /\ UNCHANGED <<ctx, job>>
                               ELSE EndCycle
    /\ UNCHANGED halt

-----------------------------------------------------------------------------
(* _handle_dust_cleanup, _execute_signal_sell, _execute_buy *)

(* The coins the clean-up sees: a crumb below 1 / DustPart of the minimum  *)
(* is not among them                                                       *)
Residue == DustPart * ctx.tot > MinQty /\ ctx.tot <= MinQty /\ ctx.locked < MinQty
StaleEntry == ps.entry # 0 \/ ps.stopE # 0 \/ ps.side = "BUY"

DustReset ==
    /\ pc = "residue" /\ Residue /\ StaleEntry
    /\ ps' = Reset("SELL")
    /\ EndCycle
    /\ UNCHANGED exVars /\ Keep

DustSell ==
    /\ pc = "residue" /\ Residue /\ ResidueSells
    /\ \E r \in {"ok", "lost", "err", "rej", "unfilled"} :
         /\ MarketSellCall(ctx.tot, r)
         /\ ps' = IF r = "ok" THEN Reset("SELL") ELSE ps
         /\ Goto(IF r = "ok" THEN "dustRead" ELSE "buy")
    /\ UNCHANGED <<ctx, job>> /\ Keep

(* The sale leaves no more than a residue *)
DustRead == pc = "dustRead" /\ Reread("buy", "buy")

(* ... overlooks the coins that are locked *)
NoDust__Free ==
    /\ pc = "residue" /\ (Residue => ~StaleEntry)
    /\ Goto(IF ctx.free > MinQty THEN "signal" ELSE "buy")
    /\ UNCHANGED <<exVars, ps, ctx, job>> /\ Keep

NoDust ==
    /\ pc = "residue" /\ (Residue => ~StaleEntry)
    /\ Goto(IF ctx.tot > MinQty THEN "signal" ELSE "buy")
    /\ UNCHANGED <<exVars, ps, ctx, job>> /\ Keep

NoSignal ==
    /\ pc \in {"signal", "buy"}
    /\ EndCycle
    /\ UNCHANGED <<exVars, ps>> /\ Keep

SellSignal == pc = "signal" /\ CancelForSale("signalRead", "signalSell")
SignalRead == pc = "signalRead" /\ Reread("signalSell", "signalSell")

(* After the sale the identifier of the stop order is left as it is; after *)
(* a sale that did not go through no stop order is placed again.           *)
SignalSell ==
    /\ pc = "signalSell"
    /\ IF Floor(ctx.tot) < MinQty THEN UNCHANGED <<exVars, ps>>
       ELSE \E r \in {"ok", "lost", "err", "rej", "unfilled"} :
              /\ MarketSellCall(Floor(ctx.tot), r)
              /\ ps' = IF r = "ok"
                       THEN [Closed EXCEPT !.slId = ps.slId, !.placed = ps.placed]
                       ELSE ps
    /\ EndCycle /\ Keep

(* _validate_buy_preconditions, and the capital of _execute_buy, which is  *)
(* what was sold since the last buy.  The signal, the size, the daily loss *)
(* limit and the out-of-sample gate belong to other components: any of     *)
(* them may stop a buy, which is NoSignal.                                 *)
MayBuy == ps.side # "BUY" /\ ~cool /\ ~ctx.newest /\ hist.sales # <<>>

(* _place_buy_and_verify *)
Bought(px) ==
    [ps EXCEPT !.side = "BUY", !.entry = px, !.stopE = px - StopDist,
               !.stop = px - StopDist, !.act = px + TrailDist, !.max = px, !.on = FALSE,
               !.taken = [k \in Pos |-> FALSE], !.be = FALSE]

Buy ==
    /\ pc = "buy" /\ MayBuy /\ ctx.px \in BuyPrices
    /\ \E q \in BuyQtys, r \in {"ok", "lost", "err", "unfilled"} :
         /\ Held + q <= MaxHeld
         /\ MarketBuyCall(q, ctx.px, r)
         /\ IF r = "ok"
              THEN /\ ps' = Bought(ctx.px)
                   /\ job' = [NoJob EXCEPT !.arg = Floor(q)]
                   /\ Goto("protect") /\ UNCHANGED ctx
              ELSE UNCHANGED ps /\ EndCycle
    /\ Keep

(* ... tries once more than SL_MAX_RETRIES *)
Protect__Once ==
    /\ pc = "protect"
    /\ \E r \in {"ok", "lost", "err", "rej"} :
         /\ Place(job.arg, ps.stopE, r)
         /\ IF r = "ok" THEN EndCycle
            ELSE /\ job' = [job EXCEPT !.k = @ + 1]
                 /\ Goto(IF job.k > MaxTries THEN "rollback" ELSE "protect")
                 /\ UNCHANGED ctx
    /\ Keep

(* _place_sl_after_buy: job.arg holds actual_qty_str, job.k the attempt *)
Protect ==
    /\ pc = "protect"
    /\ \E r \in {"ok", "lost", "err", "rej"} :
         /\ Place(job.arg, ps.stopE, r)
         /\ IF r = "ok" THEN EndCycle
            ELSE /\ job' = [job EXCEPT !.k = IF @ = MaxTries THEN 1 ELSE @ + 1]
                 /\ Goto(IF job.k = MaxTries THEN "rollback" ELSE "protect")
                 /\ UNCHANGED ctx
    /\ Keep

(* ... halts the bot whatever became of the sale *)
Rollback__Halts ==
    /\ pc = "rollback"
    /\ \E r \in {"ok", "lost", "err", "rej", "unfilled"} : MarketSellCall(job.arg, r)
    /\ halt' = TRUE
    /\ EndCycle
    /\ UNCHANGED <<ps, cool>>

(* _rollback_on_sl_failure: only an exception counts as a failed sale *)
Rollback ==
    /\ pc = "rollback"
    /\ \E r \in {"ok", "lost", "err", "rej", "unfilled"} :
         /\ MarketSellCall(job.arg, r)
         /\ IF r \in {"ok", "unfilled"}
              THEN /\ ps' = [ps EXCEPT !.entry = 0, !.side = "SELL",
                                       !.slId = NoId, !.placed = FALSE]
                   /\ UNCHANGED halt
              ELSE halt' = TRUE /\ UNCHANGED ps
    /\ EndCycle
    /\ UNCHANGED cool

-----------------------------------------------------------------------------
(* The cool-down runs from the fill of the stop order, or from later *)
CoolDownEnds ==
    /\ cool /\ cool' = FALSE
    /\ \A i \in StopIds : ord[i].st # "FILLED"
    /\ UNCHANGED <<exVars, ps, halt, ctx, pc, job>>

Market ==
    /\ \E i \in StopIds : StopFills(i) \/ FillAges(i)
    /\ UNCHANGED botVars

Init ==
    /\ ExInit
    /\ ps = Closed
    /\ cool = FALSE
    /\ halt = FALSE
    /\ ctx = NoCtx
    /\ pc = "idle"
    /\ job = NoJob
    /\ others \in 0..MaxOthers

Cycle ==
    \/ CycleStart \/ HaltedCycle \/ FullCycle
    \/ NoPoll \/ Poll \/ FetchBalances \/ FetchPrice \/ Sync
    \/ NoTrailing \/ Trail \/ BreakEven \/ Trailed
    \/ MoveCancel \/ MovePlace \/ Restore
    \/ PartialSync \/ PartialNext \/ PartialCancel \/ CanceledRead
    \/ PartialSell \/ SoldRead \/ PartialPlace
    \/ StopCheck \/ ZeroBalance \/ StaleCancel \/ FilledCheck
    \/ GuardCancel \/ ManualSell
    \/ DustReset \/ DustSell \/ DustRead \/ NoDust
    \/ NoSignal \/ SellSignal \/ SignalRead \/ SignalSell
    \/ Buy \/ Protect \/ Rollback

PairNext == Cycle \/ CoolDownEnds \/ Market

(* The other pairs open and close their positions *)
OthersTrade == others' \in (0..MaxOthers) \ {others} /\ UNCHANGED pairVars

Alone == GivesFresh({ps.slId}) /\ UNCHANGED others
Next == (PairNext /\ Alone) \/ OthersTrade

Spec == Init /\ [][Next]_vars

-----------------------------------------------------------------------------
(* What the bot promises about a pair.                                     *)

Resting == pc = "idle" /\ ~halt
OpenAndHeld == ps.side = "BUY" /\ Held > MinQty
SamePosition == ps.side = "BUY" /\ ps'.side = "BUY" /\ ps.entry # 0 /\ ps.entry = ps'.entry
Buys == pc = "buy" /\ pc' = "protect"

(* The variables stay in their ranges: of the balances, that the free one  *)
(* never goes below zero, and of the retries of _place_sl_after_buy, that  *)
(* they stop at SL_MAX_RETRIES.                                            *)
PairTypeOK ==
    /\ ExTypeOK
    /\ ps \in PairStates
    /\ cool \in BOOLEAN
    /\ halt \in BOOLEAN
    /\ ctx \in Snapshots
    /\ job \in Jobs
    /\ pc \in Labels
TypeOK == PairTypeOK /\ others \in 0..MaxOthers

(* When no call fails, a position is never left without its stop order     *)
(* between two cycles: the order the bot names covers all but a residue,   *)
(* or it has just filled.  Trailing, break-even, partial sales and their   *)
(* failure paths all take the order away and put it back.                  *)
Protected ==
    Resting /\ faults = 0 /\ OpenAndHeld =>
        Armed /\ (HasFilled(ps.slId) \/ (ps.slId \in Live /\ free < MinQty + Step))

(* When no call fails, no stop order stays on the exchange that the bot    *)
(* does not know of: it would sell coins of a later position.              *)
NoOrphanStop ==
    Resting /\ faults = 0 => \A i \in Live : ps.side = "BUY" /\ i = ps.slId

(* Whatever fails, there are never two stop orders on the exchange. *)
AtMostOneStop == \A i, j \in Live : i = j

(* When no call fails, the order on the exchange is at the stop of the     *)
(* entry, or at break-even once that is reached: no path places it lower.  *)
StopAtLeastSoft ==
    Resting /\ faults = 0 /\ OpenAndHeld /\ ps.slId \in Live =>
        ord[ps.slId].stop >= SoftStop(ps)

(* The order on the exchange is never moved back below the stop the bot    *)
(* applies, trailing included ("pour ne jamais reculer").                  *)
StopAtEffective ==
    Resting /\ faults = 0 /\ OpenAndHeld /\ ps.slId \in Live =>
        ord[ps.slId].stop >= EffectiveStop(ps)

(* When no call fails, a position the bot has closed is gone: what is left *)
(* is dust from before the buy and the rounding of one sale.               *)
ClosedMeansFlat ==
    Resting /\ faults = 0 /\ ps.side # "BUY" => Held < MinQty + Step

(* sl_exchange_placed means what it says: the order named by sl_order_id   *)
(* is on the exchange, or it has filled.                                   *)
ArmedMeansLive ==
    Resting /\ OpenAndHeld /\ Armed => ps.slId \in Live \/ HasFilled(ps.slId)

(* A price at the first threshold takes the first partial profit before    *)
(* the stop is looked at (_execute_partial_sells).                         *)
PartialTaken ==
    pc = "stop" /\ faults = 0 /\ ps.side = "BUY" /\ ps.entry # 0
        /\ 1 \in Thresholds(ps.entry) /\ ctx.tot > 0 => ps.taken[1]

(* A partial sale is one that check_partial_exits_from_history would find  *)
(* again in the order history.                                             *)
SaleIsDetectable ==
    pc = "soldRead" /\ ps.entry = hist.px => (job.k - 1) \in Detectable

(* A closed position leaves nothing behind in pair_state. *)
ClosedIsReset == Resting /\ faults = 0 /\ ps.side = "SELL" => ps = Reset("SELL")

(* When no call fails, the step that closes a position leaves no more than *)
(* that in the account.  _handle_manual_sl_trigger sells what was free at  *)
(* the snapshot: it leaves the coins counted as locked there besides, and  *)
(* no others, however the balances moved since.                            *)
LeftBehind == IF pc = "manual" THEN ctx.tot - ctx.free ELSE 0
ClosesFlat ==
    [][ps.side = "BUY" /\ ps'.side # "BUY" /\ faults' = 0
       => Held' < MinQty + Step + LeftBehind]_pairVars

(* The stop the bot applies to a position never goes down. *)
EffectiveStopNeverFalls ==
    [][SamePosition => EffectiveStop(ps') >= EffectiveStop(ps)]_pairVars

(* No buy within the cool-down of a stop order that filled. *)
CoolDownRespected == [][Buys => \A i \in StopIds : ord[i].st # "FILLED"]_pairVars

(* The bot buys only when it holds no more than a residue, however old the *)
(* snapshot of the balances is by then and whatever failed before.         *)
BuysOnlyWhenFlat == [][Buys => Held <= MinQty]_pairVars

(* The emergency halt is raised only for a position without a stop order. *)
HaltOnlyExposed == [][halt' /\ ~halt => (Live = {} /\ Held > MinQty)']_pairVars

(* The cycles go on, unless the gate ends them at once, and the counter    *)
(* of the poll brings it about in every thirtieth cycle that could poll.   *)
(* Nothing else is promised: not that the price moves, that other pairs    *)
(* make room, or that a signal comes.                                      *)
Fairness == WF_vars(Cycle /\ Alone) /\ SF_vars(Poll /\ Alone)
FairSpec == Spec /\ Fairness

(* A position whose stop order filled behind the back of the bot is found  *)
(* closed in the end, though a residue of it may be left in the account,   *)
(* or a crumb the clean-up does not see, unless the bot is halted or       *)
(* max_concurrent_long positions are open.                                 *)
DeadPositionCloses ==
    (ps.side = "BUY" /\ Live = {} /\ Held <= MinQty) ~> (ps.side # "BUY" \/ halt \/ Full)
=============================================================================
