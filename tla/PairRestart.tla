---------------------------- MODULE PairRestart -----------------------------
(***************************************************************************)
(* A pair of PairCycle whose process may die at any step, and the start-up *)
(* that follows: load_bot_state, wal_replay, the reconciliation of         *)
(* position_reconciler.py, and the saves that decide what is found again.  *)
(*                                                                         *)
(* The state of every pair is one file, and a save by any pair writes them *)
(* all: disk may catch up with the memory at any time.  An unforced save   *)
(* may always be skipped (another one less than five seconds earlier), so  *)
(* only a forced one is awaited, by due: it is a step of its own, and the  *)
(* process may die before it.                                              *)
(*                                                                         *)
(* Left out: the other keys of bot_state, the daily loss, the equity.      *)
(***************************************************************************)
EXTENDS PairCycle

CONSTANTS
    MaxCrashes,       \* bound: deaths of the process in one behaviour
    MaxSaveFailures,  \* MAX_SAVE_FAILURES
    ReconcileMin      \* coins that reach both reconcile_min_qty and
                      \* reconcile_min_notional of the configuration

ASSUME RestartAssumption ==
    /\ MaxCrashes \in Nat
    /\ MaxSaveFailures \in Nat \ {0}
    /\ ReconcileMin \in Nat

VARIABLES
    boot,         \* the next thing the start-up does; "run" once it is over
    seen,         \* what the reconciliation has read
    disk,         \* the state file
    due,          \* a forced save is the next thing to do
    failed,       \* save_failure_count
    wal,          \* operations in the write-ahead log since it was cleared
    crashes,      \* deaths so far
    calm          \* history: no call has failed since this start-up began

bootVars == <<boot, seen, disk, due, failed, wal, crashes, calm>>
ownVars == <<pairVars, bootVars>>
allVars == <<ownVars, others>>

Boots == {"down", "load", "account", "ticker", "filters", "decide", "orphan", "gone",
          "known", "place", "unknown", "finish", "clear", "run"}
Readings == [tot : Int, priced : BOOLEAN, filtered : BOOLEAN]
WalOps == {"BUY_INTENT", "BUY_CONFIRMED", "SL_PLACED"}

Memory == [ps |-> ps, cool |-> cool, halt |-> halt]
Empty == [ps |-> Closed, cool |-> FALSE, halt |-> FALSE]
Nothing == [tot |-> 0, priced |-> FALSE, filtered |-> FALSE]

Remember(s) == ps' = s.ps /\ cool' = s.cool /\ halt' = s.halt
Calm == calm' = (calm /\ faults' = faults)
BootGoes(l) == boot' = l

-----------------------------------------------------------------------------
(* The running bot, and the saves *)

(* The steps of the cycle that end in save_bot_state(force=True) *)
Forced ==
    \/ pc \in {"poll", "zero", "filled"} /\ ps' # ps
    \/ pc = "residue" /\ pc' = "idle"
    \/ pc = "idle" /\ ps'.placed /\ ~ps.placed
    \/ Buys
    \/ halt' /\ ~halt

(* wal_write: before the order is sent, after it filled, once the stop is  *)
(* on the exchange                                                         *)
WalWritten ==
    IF Buys THEN wal \cup {"BUY_INTENT", "BUY_CONFIRMED"}
    ELSE IF pc = "buy" /\ faults' # faults THEN wal \cup {"BUY_INTENT"}
    ELSE IF pc = "protect" /\ pc' = "idle" THEN wal \cup {"SL_PLACED"}
    ELSE wal

(* A new stop order has an identifier that neither the memory nor the file *)
(* names                                                                   *)
FreshForAll == GivesFresh({ps.slId, disk.ps.slId})

BotStep ==
    /\ boot = "run" /\ ~due
    /\ Cycle /\ FreshForAll
    /\ due' = Forced /\ wal' = WalWritten
    /\ Calm
    /\ UNCHANGED <<boot, seen, disk, crashes, failed>>

(* ... allows one failure too many *)
SaveFails__Late ==
    /\ faults < MaxFaults /\ faults' = faults + 1
    /\ failed' = failed + 1
    /\ halt' = (halt \/ failed' > MaxSaveFailures)
    /\ UNCHANGED <<disk, free, locked, ord, hist, ps, cool>>

(* save_bot_state: the file is replaced at once or not at all; after       *)
(* MAX_SAVE_FAILURES failures in a row the bot halts                       *)
Saved == disk' = Memory /\ failed' = 0 /\ UNCHANGED <<exVars, ps, cool, halt>>
SaveFails ==
    /\ faults < MaxFaults /\ faults' = faults + 1
    /\ failed' = failed + 1
    /\ halt' = (halt \/ failed' >= MaxSaveFailures)
    /\ UNCHANGED <<disk, free, locked, ord, hist, ps, cool>>

ForcedSave ==
    /\ due /\ due' = FALSE
    /\ Saved \/ SaveFails
    /\ Calm
    /\ UNCHANGED <<ctx, pc, job, boot, seen, wal, crashes>>

(* An unforced save of this pair, or any save of another one *)
OtherSave ==
    /\ boot \notin {"down", "load"} /\ ~due /\ disk # Memory
    /\ Saved \/ SaveFails
    /\ Calm
    /\ UNCHANGED <<ctx, pc, job, boot, seen, due, wal, crashes>>

(* The process dies between any two steps, the memory with it *)
Crash ==
    /\ boot # "down" /\ crashes < MaxCrashes
    /\ crashes' = crashes + 1
    /\ BootGoes("down") /\ seen' = Nothing /\ due' = FALSE /\ failed' = 0
    /\ Remember(Empty)
    /\ EndCycle
    /\ UNCHANGED <<exVars, disk, wal, calm>>

-----------------------------------------------------------------------------
(* Start-up: the state file, then _check_pair_vs_exchange *)

Boot(l) == boot = l /\ ~due /\ UNCHANGED <<ctx, pc, job, crashes>>

StartUp ==
    /\ Boot("down")
    /\ BootGoes("load") /\ calm' = TRUE
    /\ UNCHANGED <<exVars, ps, cool, halt, seen, disk, due, failed, wal>>

(* load_bot_state: an exception leaves the bot with an empty state; the    *)
(* copy .bak is never read.  wal_replay only logs what it finds.           *)
Load ==
    /\ Boot("load")
    /\ \E r \in {"ok", "err"} :
         /\ ReadCall(r)
         /\ Remember(IF r = "ok" THEN disk ELSE Empty)
    /\ BootGoes("account") /\ Calm
    /\ UNCHANGED <<free, locked, ord, hist, seen, disk, due, failed, wal>>

(* ... overlooks the coins locked in the stop order *)
Account__Free ==
    /\ Boot("account")
    /\ \E r \in {"ok", "err"} :
         /\ ReadCall(r)
         /\ seen' = IF r = "ok" THEN [Nothing EXCEPT !.tot = free] ELSE Nothing
         /\ BootGoes(IF r = "ok" THEN "ticker" ELSE "finish")
    /\ Calm
    /\ UNCHANGED <<free, locked, ord, hist, ps, cool, halt, disk, due, failed, wal>>

(* A balance that cannot be read ends the reconciliation of the pair ...   *)
Account ==
    /\ Boot("account")
    /\ \E r \in {"ok", "err"} :
         /\ ReadCall(r)
         /\ seen' = IF r = "ok" THEN [Nothing EXCEPT !.tot = Held] ELSE Nothing
         /\ BootGoes(IF r = "ok" THEN "ticker" ELSE "finish")
    /\ Calm
    /\ UNCHANGED <<free, locked, ord, hist, ps, cool, halt, disk, due, failed, wal>>

(* ... a price that cannot be read makes the balance worth nothing *)
Ticker ==
    /\ Boot("ticker")
    /\ \E r \in {"ok", "err"} :
         ReadCall(r) /\ seen' = [seen EXCEPT !.priced = (r = "ok")]
    /\ BootGoes("filters") /\ Calm
    /\ UNCHANGED <<free, locked, ord, hist, ps, cool, halt, disk, due, failed, wal>>

(* ... and filters that cannot be read leave the minima of the             *)
(* configuration, which are those of no pair                               *)
Filters ==
    /\ Boot("filters")
    /\ \E r \in {"ok", "err"} :
         ReadCall(r) /\ seen' = [seen EXCEPT !.filtered = (r = "ok")]
    /\ BootGoes("decide") /\ Calm
    /\ UNCHANGED <<free, locked, ord, hist, ps, cool, halt, disk, due, failed, wal>>

(* has_real_balance: minQty itself is enough if it is worth MIN_NOTIONAL *)
Real ==
    /\ seen.priced
    /\ IF seen.filtered THEN seen.tot > MinQty \/ (seen.tot = MinQty /\ ResidueSells)
       ELSE seen.tot >= ReconcileMin

(* ... sees no difference in a balance it does not know of *)
Decide__NoOrphan ==
    /\ Boot("decide")
    /\ BootGoes(IF ~Real /\ ps.side = "BUY" THEN "gone"
                ELSE IF ps.side = "BUY" THEN "known" ELSE "unknown")
    /\ UNCHANGED <<pairVars, seen, disk, due, failed, wal, calm>>

Decide ==
    /\ Boot("decide")
    /\ BootGoes(IF Real /\ ps.side # "BUY" THEN "orphan"
                ELSE IF ~Real /\ ps.side = "BUY" THEN "gone"
                ELSE IF ps.side = "BUY" THEN "known" ELSE "unknown")
    /\ UNCHANGED <<pairVars, seen, disk, due, failed, wal, calm>>

-----------------------------------------------------------------------------
(* _handle_pair_discrepancy *)

(* A balance the state does not know of is adopted, without its stops *)
Orphan ==
    /\ Boot("orphan")
    /\ \E r \in {"ok", "err"} :
         /\ ReadCall(r)
         /\ ps' = [ps EXCEPT !.side = "BUY",
                             !.entry = IF r = "ok" /\ hist.px # 0 THEN hist.px ELSE @]
    /\ due' = TRUE /\ BootGoes("finish") /\ Calm
    /\ UNCHANGED <<free, locked, ord, hist, cool, halt, seen, disk, failed, wal>>

(* A position without a balance is closed; the cool-down runs from the     *)
(* fill of the stop order, if that is what closed it                       *)
Gone ==
    /\ Boot("gone")
    /\ IF ps.slId = NoId THEN UNCHANGED <<faults, cool>>
       ELSE \E r \in {"ok", "err"} :
              /\ ReadCall(r)
              /\ cool' = (cool \/ (r = "ok" /\ ord[ps.slId].st = "FILLED"))
    /\ ps' = Reset("SELL")
    /\ due' = TRUE /\ BootGoes("finish") /\ Calm
    /\ UNCHANGED <<free, locked, ord, hist, halt, seen, disk, failed, wal>>

(* ... trusts the identifier in the state *)
Known__Trusts ==
    /\ Boot("known")
    /\ IF ps.stopE = 0 \/ Armed
         THEN BootGoes("finish") /\ UNCHANGED <<faults, ps, due>>
         ELSE \E r \in {"ok", "err"} :
                /\ ReadCall(r)
                /\ \/ /\ r = "err" \/ Live = {}
                      /\ BootGoes(IF r = "ok" THEN "place" ELSE "finish")
                      /\ UNCHANGED <<ps, due>>
                   \/ /\ r = "ok"
                      /\ \E i \in Live : ps' = [ps EXCEPT !.slId = i, !.placed = TRUE]
                      /\ due' = TRUE /\ BootGoes("finish")
    /\ Calm
    /\ UNCHANGED <<free, locked, ord, hist, cool, halt, seen, disk, failed, wal>>

(* A balance and a position (C-11): is there a stop order?  The first one  *)
(* found becomes the one the bot names.                                    *)
Known ==
    /\ Boot("known")
    /\ IF ps.stopE = 0
         THEN BootGoes("finish") /\ UNCHANGED <<faults, ps, due>>
         ELSE \E r \in {"ok", "err"} :
                /\ ReadCall(r)
                /\ \/ /\ r = "err" \/ Live = {}
                      /\ BootGoes(IF r = "ok" THEN "place" ELSE "finish")
                      /\ UNCHANGED <<ps, due>>
                   \/ /\ r = "ok"
                      /\ \E i \in Live : ps' = [ps EXCEPT !.slId = i, !.placed = TRUE]
                      /\ due' = TRUE /\ BootGoes("finish")
    /\ Calm
    /\ UNCHANGED <<free, locked, ord, hist, cool, halt, seen, disk, failed, wal>>

(* None: one is placed at the stop of the entry, for the whole balance *)
PlaceMissing ==
    /\ Boot("place")
    /\ \E r \in {"ok", "lost", "err", "rej"} :
         /\ Place(Floor(seen.tot), ps.stopE, r)
         /\ due' = (r = "ok")
    /\ FreshForAll
    /\ BootGoes("finish") /\ Calm
    /\ UNCHANGED <<cool, halt, seen, disk, failed, wal>>

(* Neither: a cool-down older than the last sale says is lifted, and what  *)
(* is left of an entry is cleared                                          *)
Unknown ==
    /\ Boot("unknown")
    /\ IF ~cool THEN UNCHANGED <<faults, cool>>
       ELSE \E r \in {"ok", "err"}, c \in BOOLEAN :
              /\ ReadCall(r)
              /\ ~c => r = "ok" /\ \A i \in StopIds : ord[i].st # "FILLED"
              /\ cool' = c
    /\ ps' = IF ps.entry # 0 \/ ps.stopE # 0 THEN Reset(ps.side) ELSE ps
    /\ due' = (ps' # ps \/ cool' # cool)
    /\ BootGoes("finish") /\ Calm
    /\ UNCHANGED <<free, locked, ord, hist, halt, seen, disk, failed, wal>>

(* The state is saved, then the log cleared: no call that failed on the    *)
(* way has raised an exception up to here                                  *)
Finish ==
    /\ Boot("finish")
    /\ BootGoes("clear") /\ seen' = Nothing /\ due' = TRUE
    /\ UNCHANGED <<pairVars, disk, failed, wal, calm>>

ClearLog ==
    /\ Boot("clear")
    /\ \E r \in {"ok", "err"} : ReadCall(r) /\ wal' = IF r = "ok" THEN {} ELSE wal
    /\ BootGoes("run") /\ Calm
    /\ UNCHANGED <<free, locked, ord, hist, ps, cool, halt, seen, disk, due, failed>>

-----------------------------------------------------------------------------
(* The world: stop orders fill and age, a cool-down on the disk runs out   *)
World ==
    /\ CoolDownEnds \/ Market
    /\ UNCHANGED bootVars

DiskCools ==
    /\ disk.cool /\ disk' = [disk EXCEPT !.cool = FALSE]
    /\ \A i \in StopIds : ord[i].st # "FILLED"
    /\ UNCHANGED <<pairVars, boot, seen, due, failed, wal, crashes, calm>>

RestartInit ==
    /\ Init
    /\ boot = "down"
    /\ seen = Nothing
    /\ disk = Empty
    /\ due = FALSE
    /\ failed = 0
    /\ wal = {}
    /\ crashes = 0
    /\ calm = TRUE

Reconcile ==
    \/ Account \/ Ticker \/ Filters \/ Decide
    \/ Orphan \/ Gone \/ Known \/ PlaceMissing \/ Unknown
StartsUp == StartUp \/ Load \/ Reconcile \/ Finish \/ ClearLog
OwnNext ==
    \/ BotStep \/ ForcedSave \/ OtherSave \/ Crash \/ StartsUp \/ World \/ DiskCools
(* The other pairs trade meanwhile: their number may change with any step. *)
RestartNext == OwnNext /\ others' \in 0..MaxOthers

RestartSpec == RestartInit /\ [][RestartNext]_allVars

-----------------------------------------------------------------------------
(* What a restart may not lose.                                            *)

(* The variables stay in their ranges, and a bot that has failed to save   *)
(* its state MAX_SAVE_FAILURES times in a row is halted.                   *)
BootTypeOK ==
    /\ PairTypeOK
    /\ boot \in Boots
    /\ seen \in Readings
    /\ disk \in [ps : PairStates, cool : BOOLEAN, halt : BOOLEAN]
    /\ failed \in Nat /\ (failed >= MaxSaveFailures => halt)
    /\ wal \subseteq WalOps
    /\ crashes \in 0..MaxCrashes
    /\ due \in BOOLEAN /\ calm \in BOOLEAN
RestartTypeOK == BootTypeOK /\ others \in 0..MaxOthers

(* Wherever the process dies, whatever state it finds again and whatever   *)
(* fails at start-up, the bot buys only when it holds no more than a       *)
(* residue: a position it has forgotten is never doubled.                  *)
NeverDoubled == [][Buys => Held <= MinQty]_ownVars

(* After a start-up in which no call failed, a balance above a residue is  *)
(* a position the bot knows of, even if it died between a buy and its save *)
(* or in the middle of a partial sale.                                     *)
KnownAfterBoot ==
    [][boot = "clear" /\ boot' = "run" /\ calm /\ Held > MinQty => ps.side = "BUY"]_ownVars

(* C-11: when no call failed, a position that was found in the state file  *)
(* with its stop leaves start-up with a stop order on the exchange, and    *)
(* the bot names that one, however old the saved identifier.               *)
StopAfterBoot ==
    [][/\ boot \in {"known", "place"} /\ boot' = "finish" /\ calm'
       /\ ps.stopE # 0 /\ Held' >= MinQty + Step
       => (Armed /\ ps.slId \in Live)']_ownVars

(* When no call failed, the reconciliation closes no position whose coins  *)
(* are still in the account.                                               *)
ClosedIsGone == [][boot = "gone" /\ boot' = "finish" /\ calm' => Held <= MinQty]_ownVars

(* Nor does it when a call failed: a pair whose data cannot be fetched is  *)
(* left alone ("Retourne None si les données ne peuvent pas être           *)
(* récupérées").                                                           *)
UnreadIsKept == [][boot = "gone" /\ boot' = "finish" => Held <= MinQty]_ownVars

(* A position the bot bought and forgot is one wal_replay names ("détecte  *)
(* les intents sans confirmation").                                        *)
Named ==
    \/ "BUY_INTENT" \in wal /\ "BUY_CONFIRMED" \notin wal
    \/ "BUY_CONFIRMED" \in wal /\ "SL_PLACED" \notin wal
ForgottenIsNamed ==
    [][boot = "load" /\ boot' = "account" /\ calm' /\ Held > MinQty
       => ps'.side = "BUY" \/ Named]_ownVars
=============================================================================
