------------------------- MODULE PairRestart_proofs -------------------------
(***************************************************************************)
(* Theorems of PairRestart, for every value of the constants: the          *)
(* invariant of PairCycle_proofs outlives the process.                     *)
(***************************************************************************)
EXTENDS PairRestart, PairCycle_proofs

USE DEF Ended, Unused

(* What the other pairs do changes nothing of this one. *)
LEMMA OwnSteps == RestartSpec => RestartInit /\ [][OwnNext]_ownVars
<1>1. [RestartNext]_allVars => [OwnNext]_ownVars
  BY DEF RestartNext, allVars, ownVars
<1> QED BY <1>1, PTL DEF RestartSpec

(* The cycle does nothing until the start-up is over. *)
AtRest == boot # "run" => pc = "idle"

(* A new process has saved nothing yet. *)
Fresh == boot \in {"down", "load"} => failed = 0 /\ due = FALSE
RestartInv == BootTypeOK /\ JobPos /\ FlatInv /\ AtRest /\ Fresh

(* Between two cycles nothing is left of the snapshot to be wrong about. *)
LEMMA IdleIsFlat ==
    ASSUME pc' = "idle" PROVE JobPos' /\ FlatInv'
BY DEF JobPos, FlatInv, CoinsCovered, ResidueOnly

LEMMA MemoryTypes ==
    ASSUME PairTypeOK
    PROVE  /\ Memory \in [ps : PairStates, cool : BOOLEAN, halt : BOOLEAN]
           /\ Empty \in [ps : PairStates, cool : BOOLEAN, halt : BOOLEAN]
           /\ Nothing \in Readings
BY ConstantTypes DEF Memory, Empty, Nothing, Readings, PairTypeOK

(* No step of the cycle lifts a halt. *)
LEMMA HaltStays ==
    ASSUME Cycle PROVE halt' = halt \/ halt' = TRUE
<1> USE DEF Keep
<1>1. CASE \/ CycleStart \/ HaltedCycle \/ FullCycle \/ NoPoll \/ Poll
           \/ FetchBalances \/ FetchPrice \/ Sync
  BY <1>1 DEF CycleStart, HaltedCycle, FullCycle, NoPoll, Poll, FetchBalances, FetchPrice, Sync,
              pairVars, botVars
<1>2. CASE NoTrailing \/ Trail \/ BreakEven \/ Trailed \/ MoveCancel \/ MovePlace \/ Restore
  BY <1>2 DEF NoTrailing, Trail, BreakEven, Trailed, MoveCancel, MovePlace, Restore
<1>3. CASE PartialSync \/ PartialNext \/ PartialCancel \/ CanceledRead \/ PartialSell
           \/ SoldRead \/ PartialPlace
  BY <1>3 DEF PartialSync, PartialNext, PartialCancel, CanceledRead, PartialSell, SoldRead,
              PartialPlace, CancelForSale, Reread
<1>4. CASE StopCheck \/ ZeroBalance \/ StaleCancel \/ FilledCheck \/ GuardCancel \/ ManualSell
  BY <1>4 DEF StopCheck, ZeroBalance, StaleCancel, FilledCheck, GuardCancel, ManualSell
<1>5. CASE DustReset \/ DustSell \/ DustRead \/ NoDust \/ NoSignal \/ SellSignal
           \/ SignalRead \/ SignalSell
  BY <1>5 DEF DustReset, DustSell, DustRead, NoDust, NoSignal, SellSignal, SignalRead,
              SignalSell, CancelForSale, Reread
<1>6. CASE Buy \/ Protect \/ Rollback BY <1>6 DEF Buy, Protect, Rollback
<1> QED BY <1>1, <1>2, <1>3, <1>4, <1>5, <1>6 DEF Cycle

LEMMA BotStepKeeps == ASSUME RestartInv, BotStep PROVE RestartInv'
<1>0. PairTypeOK /\ PairNext /\ boot = "run" /\ boot' = boot
  BY DEF RestartInv, BootTypeOK, BotStep, PairNext
<1>1. PairTypeOK' /\ JobPos' /\ FlatInv'
  BY <1>0, NextTypes, NextJobPos, NextFlat DEF RestartInv
<1>2. due' \in BOOLEAN /\ calm' \in BOOLEAN
  BY DEF BotStep, Forced, Calm, Buys
<1>3. wal' \subseteq WalOps
  BY DEF BotStep, WalWritten, WalOps, RestartInv, BootTypeOK
<1>4. failed' \in Nat /\ (failed' >= MaxSaveFailures => halt')
  <2>1. halt' = halt \/ halt' = TRUE BY HaltStays DEF BotStep
  <2> QED BY <2>1 DEF BotStep, RestartInv, BootTypeOK
<1> QED BY <1>0, <1>1, <1>2, <1>3, <1>4 DEF RestartInv, BootTypeOK, AtRest, Fresh, BotStep

(* A save changes nothing but the file, the count and the halt. *)
LEMMA SaveKeeps ==
    ASSUME RestartInv, boot \notin {"down", "load"}, Saved \/ SaveFails,
           UNCHANGED <<ctx, pc, job, boot, seen, wal, crashes>>, due' \in BOOLEAN, Calm
    PROVE  RestartInv'
<1>1. PairTypeOK /\ failed \in Nat BY DEF RestartInv, BootTypeOK
<1>2. /\ UNCHANGED <<free, locked, ord, hist, ps, cool>>
      /\ faults' \in 0..MaxFaults /\ halt' \in BOOLEAN
  <2>1. faults \in 0..MaxFaults /\ MaxFaults \in Nat
    BY <1>1, SpotAssumption DEF PairTypeOK, ExTypeOK
  <2>2. CASE Saved BY <1>1, <2>1, <2>2 DEF Saved, exVars, PairTypeOK
  <2>3. CASE SaveFails
    <3>1. faults' \in 0..MaxFaults BY <2>1, <2>3 DEF SaveFails
    <3>2. halt' \in BOOLEAN BY <1>1, <2>3 DEF SaveFails, PairTypeOK
    <3> QED BY <2>3, <3>1, <3>2 DEF SaveFails
  <2> QED BY <2>2, <2>3
<1>3. PairTypeOK' BY <1>1, <1>2 DEF PairTypeOK, ExTypeOK
<1>4. JobPos' /\ FlatInv'
  BY <1>2 DEF RestartInv, JobPos, FlatInv, CoinsCovered, ResidueOnly, Held
<1>5. disk' \in [ps : PairStates, cool : BOOLEAN, halt : BOOLEAN]
  BY <1>1, MemoryTypes DEF Saved, SaveFails, RestartInv, BootTypeOK
<1>6. failed' \in Nat /\ (failed' >= MaxSaveFailures => halt')
  <2>1. MaxSaveFailures \in Nat \ {0} BY RestartAssumption
  <2>2. CASE Saved BY <2>1, <2>2 DEF Saved
  <2>3. CASE SaveFails
    <3>1. failed' \in Nat BY <1>1, <2>3 DEF SaveFails
    <3>2. halt' = (halt \/ failed' >= MaxSaveFailures) BY <2>3, Zenon DEF SaveFails
    <3>3. failed' >= MaxSaveFailures => halt' BY <3>2, Zenon
    <3> QED BY <3>1, <3>3
  <2> QED BY <2>2, <2>3
<1>7. calm' \in BOOLEAN BY DEF Calm
<1> QED BY <1>3, <1>4, <1>5, <1>6, <1>7 DEF RestartInv, BootTypeOK, AtRest, Fresh

LEMMA CrashKeeps == ASSUME RestartInv, Crash PROVE RestartInv'
<1>1. PairTypeOK /\ crashes \in 0..MaxCrashes BY DEF RestartInv, BootTypeOK
<1>2. Empty.ps \in PairStates /\ Empty.cool \in BOOLEAN /\ Empty.halt \in BOOLEAN
  BY ConstantTypes DEF Empty
<1>3. PairTypeOK'
  BY <1>1, <1>2, EndCycleType DEF Crash, Remember, exVars, PairTypeOK, ExTypeOK
<1>4. pc' = "idle" BY DEF Crash, EndCycle
<1>5. crashes' \in 0..MaxCrashes BY <1>1, RestartAssumption DEF Crash
<1>6. /\ boot' \in Boots /\ due' = FALSE /\ failed' = 0
      /\ seen' \in Readings
  BY <1>1, MemoryTypes DEF Crash, BootGoes, Boots
<1>7. failed' \in Nat /\ ~(failed' >= MaxSaveFailures) BY <1>6, RestartAssumption
<1>8. UNCHANGED <<disk, wal>> /\ calm' = calm BY DEF Crash
<1> QED
  BY <1>3, <1>4, <1>5, <1>6, <1>7, <1>8, IdleIsFlat
     DEF RestartInv, BootTypeOK, AtRest, Fresh

(* A step of the start-up: what it may change, and what that preserves. *)
LEMMA BootKeeps ==
    ASSUME RestartInv, boot # "run", UNCHANGED <<ctx, pc, job, crashes>>,
           ExTypeOK', ps' \in PairStates, cool' \in BOOLEAN, halt' \in BOOLEAN,
           boot' \in Boots, seen' \in Readings,
           due' \in BOOLEAN, calm' \in BOOLEAN, wal' \subseteq WalOps,
           disk' = disk, failed' = failed, failed >= MaxSaveFailures => halt', Fresh'
    PROVE  RestartInv'
<1>1. pc' = "idle" BY DEF RestartInv, AtRest
<1>2. PairTypeOK' BY DEF RestartInv, BootTypeOK, PairTypeOK
<1> QED BY <1>1, <1>2, IdleIsFlat DEF RestartInv, BootTypeOK, AtRest

LEMMA StartUpKeeps ==
    ASSUME RestartInv, StartUp \/ Load \/ Finish \/ ClearLog PROVE RestartInv'
<1> USE DEF BootGoes, Boots
<1>0. PairTypeOK /\ BootTypeOK BY DEF RestartInv, BootTypeOK
<1>1. CASE StartUp \/ Finish
  <2>1. ExTypeOK' /\ ps' \in PairStates /\ cool' \in BOOLEAN /\ halt' \in BOOLEAN
    BY <1>0, <1>1 DEF StartUp, Finish, pairVars, exVars, botVars, PairTypeOK, ExTypeOK
  <2>2. seen' \in Readings
    BY <1>0, <1>1, MemoryTypes DEF StartUp, Finish, BootTypeOK
  <2> QED
    BY <1>0, <1>1, <2>1, <2>2, BootKeeps
       DEF StartUp, Finish, Boot, BootTypeOK, RestartInv, Fresh, WalOps, pairVars, botVars
<1>2. CASE Load
  <2>1. ExTypeOK' BY <1>0, <1>2, ReadCallType DEF Load, PairTypeOK
  <2>2. ps' \in PairStates /\ cool' \in BOOLEAN /\ halt' \in BOOLEAN
    BY <1>0, <1>2, MemoryTypes DEF Load, Remember, BootTypeOK
  <2>3. ~(failed >= MaxSaveFailures)
    BY <1>2, RestartAssumption DEF Load, Boot, RestartInv, Fresh
  <2> QED
    BY <1>0, <1>2, <2>1, <2>2, <2>3, BootKeeps DEF Load, Boot, Calm, BootTypeOK, Fresh
<1>3. CASE ClearLog
  <2>1. ExTypeOK' BY <1>0, <1>3, ReadCallType DEF ClearLog, PairTypeOK
  <2>2. wal' \subseteq WalOps BY <1>0, <1>3 DEF ClearLog, BootTypeOK
  <2>3. /\ UNCHANGED <<ps, cool, halt, seen, disk, due, failed>> /\ Calm
        /\ boot = "clear" /\ boot' = "run" /\ UNCHANGED <<ctx, pc, job, crashes>>
    BY <1>3 DEF ClearLog, Boot
  <2> QED
    BY <1>0, <2>1, <2>2, <2>3, BootKeeps DEF Calm, RestartInv, BootTypeOK, PairTypeOK, Fresh
<1> QED BY <1>1, <1>2, <1>3

LEMMA CheckKeeps ==
    ASSUME RestartInv, Account \/ Ticker \/ Filters \/ Decide PROVE RestartInv'
<1> USE DEF BootGoes, Boots, Fresh, BootTypeOK, Boot
<1>0. PairTypeOK /\ BootTypeOK /\ Held \in Int
  BY DEF RestartInv, PairTypeOK, ExTypeOK, Held
<1>1. CASE Account
  <2>1. ExTypeOK' BY <1>0, <1>1, ReadCallType DEF Account, PairTypeOK
  <2>2. seen' \in Readings
    BY <1>0, <1>1, MemoryTypes DEF Account, Nothing, Readings
  <2>3. /\ UNCHANGED <<ps, cool, halt>> /\ boot' \in {"ticker", "finish"}
        /\ UNCHANGED <<disk, due, failed, wal>> /\ Calm
    BY <1>1 DEF Account
  <2> QED
    BY <1>0, <1>1, <2>1, <2>2, <2>3, BootKeeps DEF Account, Calm, RestartInv, PairTypeOK
<1>2. CASE Ticker
  <2>1. ExTypeOK' BY <1>0, <1>2, ReadCallType DEF Ticker, PairTypeOK
  <2>2. seen' \in Readings BY <1>0, <1>2 DEF Ticker, Readings
  <2> QED
    BY <1>0, <1>2, <2>1, <2>2, BootKeeps DEF Ticker, Calm, RestartInv, PairTypeOK
<1>3. CASE Filters
  <2>1. ExTypeOK' BY <1>0, <1>3, ReadCallType DEF Filters, PairTypeOK
  <2>2. seen' \in Readings BY <1>0, <1>3 DEF Filters, Readings
  <2> QED
    BY <1>0, <1>3, <2>1, <2>2, BootKeeps DEF Filters, Calm, RestartInv, PairTypeOK
<1>4. CASE Decide
  <2>1. ExTypeOK' BY <1>0, <1>4 DEF Decide, pairVars, exVars, PairTypeOK, ExTypeOK
  <2>2. boot' \in {"orphan", "gone", "known", "unknown"} BY <1>4 DEF Decide
  <2> QED
    BY <1>0, <1>4, <2>1, <2>2, BootKeeps DEF Decide, RestartInv, PairTypeOK, pairVars, botVars
<1> QED BY <1>1, <1>2, <1>3, <1>4

LEMMA DiscrepancyKeeps ==
    ASSUME RestartInv, Orphan \/ Gone \/ Known \/ PlaceMissing \/ Unknown
    PROVE  RestartInv'
<1> USE DEF BootGoes, Boots, Fresh, BootTypeOK, Boot
<1>0. PairTypeOK /\ BootTypeOK /\ ps \in PairStates /\ hist.px \in Int
  BY DEF RestartInv, PairTypeOK, ExTypeOK
<1>1. CASE Orphan
  <2>1. ExTypeOK' BY <1>0, <1>1, ReadCallType DEF Orphan, PairTypeOK
  <2>2. ps' \in PairStates BY <1>0, <1>1 DEF Orphan, PairStates, Sides
  <2> QED
    BY <1>0, <1>1, <2>1, <2>2, BootKeeps DEF Orphan, Calm, RestartInv, PairTypeOK
<1>2. CASE Gone
  <2>1. ExTypeOK'
    BY <1>0, <1>2, ReadCallType DEF Gone, PairTypeOK, ExTypeOK
  <2>2. ps' \in PairStates BY <1>0, <1>2, ConstantTypes DEF Gone, Reset, Closed, PairStates, Sides
  <2>3. cool' \in BOOLEAN BY <1>0, <1>2 DEF Gone, PairTypeOK
  <2> QED
    BY <1>0, <1>2, <2>1, <2>2, <2>3, BootKeeps DEF Gone, Calm, RestartInv, PairTypeOK
<1>3. CASE Known
  <2>1. ExTypeOK'
    BY <1>0, <1>3, ReadCallType DEF Known, PairTypeOK, ExTypeOK
  <2>2. due' \in BOOLEAN /\ boot' \in {"place", "finish"}
    BY <1>0, <1>3 DEF Known
  <2>3. ps' = ps \/ \E i \in StopIds : ps' = [ps EXCEPT !.slId = i, !.placed = TRUE]
    BY <1>3 DEF Known, Live
  <2>4. ps' \in PairStates BY <1>0, <2>3 DEF PairStates
  <2> QED
    BY <1>0, <1>3, <2>1, <2>2, <2>4, BootKeeps DEF Known, Calm, RestartInv, PairTypeOK
<1>4. CASE PlaceMissing
  <2>1. Floor(seen.tot) \in Int /\ ps.stopE \in Int BY <1>0, FloorType DEF PairStates, Readings
  <2>2. ExTypeOK' /\ ps' \in PairStates
    BY <1>0, <1>4, <2>1, PlaceType DEF PlaceMissing
  <2> QED
    BY <1>0, <1>4, <2>2, BootKeeps DEF PlaceMissing, Calm, RestartInv, PairTypeOK
<1>5. CASE Unknown
  <2>1. ExTypeOK'
    BY <1>0, <1>5, ReadCallType DEF Unknown, PairTypeOK, ExTypeOK
  <2>2. Reset(ps.side) \in PairStates
    BY <1>0, ConstantTypes DEF Reset, Closed, PairStates
  <2>3. ps' \in PairStates /\ cool' \in BOOLEAN /\ due' \in BOOLEAN
    BY <1>0, <1>5, <2>2 DEF Unknown, PairTypeOK
  <2> QED
    BY <1>0, <1>5, <2>1, <2>3, BootKeeps DEF Unknown, Calm, RestartInv, PairTypeOK
<1> QED BY <1>1, <1>2, <1>3, <1>4, <1>5

(* The world moves on whether the bot runs or not. *)
LEMMA WorldKeeps == ASSUME RestartInv, World \/ DiskCools PROVE RestartInv'
<1>1. CASE World
  <2>1. PairTypeOK /\ JobPos /\ FlatInv /\ PairNext
    BY <1>1 DEF World, PairNext, RestartInv, BootTypeOK
  <2>2. PairTypeOK' /\ JobPos' /\ FlatInv' BY <2>1, NextTypes, NextJobPos, NextFlat
  <2>3. pc' = pc /\ halt' = halt BY <1>1 DEF World, CoolDownEnds, Market, botVars
  <2> QED
    BY <1>1, <2>2, <2>3 DEF World, bootVars, RestartInv, BootTypeOK, AtRest, Fresh
<1>2. CASE DiskCools
  <2>1. PairTypeOK' /\ JobPos' BY <1>2, StutterTypes DEF DiskCools, RestartInv, BootTypeOK
  <2>2. FlatInv' /\ pc' = pc /\ halt' = halt
    BY <1>2 DEF DiskCools, pairVars, exVars, botVars, RestartInv, FlatInv, CoinsCovered,
                ResidueOnly, Held
  <2> QED
    BY <1>2, <2>1, <2>2 DEF DiskCools, RestartInv, BootTypeOK, AtRest, Fresh
<1> QED BY <1>1, <1>2

(* Every step of the process, its start-up and the world. *)
LEMMA NextRestart == ASSUME RestartInv, [OwnNext]_ownVars PROVE RestartInv'
<1>1. CASE BotStep BY <1>1, BotStepKeeps
<1>2. CASE ForcedSave
  <2>1. boot \notin {"down", "load"} BY <1>2 DEF ForcedSave, RestartInv, Fresh
  <2> QED BY <1>2, <2>1, SaveKeeps DEF ForcedSave
<1>3. CASE OtherSave
  <2>1. due' \in BOOLEAN BY <1>3 DEF OtherSave, RestartInv, BootTypeOK
  <2> QED BY <1>3, <2>1, SaveKeeps DEF OtherSave
<1>4. CASE Crash BY <1>4, CrashKeeps
<1>5. CASE StartsUp
  BY <1>5, StartUpKeeps, CheckKeeps, DiscrepancyKeeps DEF StartsUp, Reconcile
<1>6. CASE World \/ DiskCools BY <1>6, WorldKeeps
<1>7. CASE UNCHANGED ownVars
  <2>1. PairTypeOK' /\ JobPos' BY <1>7, StutterTypes DEF ownVars, RestartInv, BootTypeOK
  <2>2. FlatInv'
    BY <1>7 DEF ownVars, pairVars, exVars, botVars, RestartInv, FlatInv, CoinsCovered,
                ResidueOnly, Held
  <2> QED
    BY <1>7, <2>1, <2>2
       DEF ownVars, pairVars, botVars, bootVars, RestartInv, BootTypeOK, AtRest, Fresh
<1> QED BY <1>1, <1>2, <1>3, <1>4, <1>5, <1>6, <1>7 DEF OwnNext

LEMMA InvariantRestart == RestartSpec => []RestartInv
<1>1. RestartInit => RestartInv
  <2> SUFFICES ASSUME RestartInit PROVE RestartInv OBVIOUS
  <2>1. PairTypeOK /\ JobPos BY InitTypes DEF RestartInit
  <2>2. pc = "idle" BY DEF RestartInit, Init
  <2>3. ~(0 >= MaxSaveFailures) /\ 0 \in 0..MaxCrashes BY RestartAssumption
  <2>4. FlatInv BY <2>2 DEF FlatInv, CoinsCovered, ResidueOnly
  <2> QED
    BY <2>1, <2>2, <2>3, <2>4, MemoryTypes
       DEF RestartInit, RestartInv, BootTypeOK, AtRest, Fresh, Boots
<1>2. RestartInv /\ [OwnNext]_ownVars => RestartInv' BY NextRestart
<1> QED BY <1>1, <1>2, OwnSteps, PTL

(* All variables stay in their ranges through any number of deaths, and a  *)
(* bot that could not save its state MAX_SAVE_FAILURES times in a row is   *)
(* halted.                                                                 *)
THEOREM RestartTyping == RestartSpec => []RestartTypeOK
<1>1. RestartInv => BootTypeOK BY DEF RestartInv
<1> DEFINE InBounds == others \in 0..MaxOthers
<1>2. RestartInit => InBounds BY DEF RestartInit, Init
<1>3. InBounds /\ [RestartNext]_allVars => InBounds'
  BY DEF RestartNext, allVars
<1>4. RestartSpec => []InBounds
  <2> HIDE DEF InBounds
  <2> QED BY <1>2, <1>3, PTL DEF RestartSpec
<1> QED BY <1>1, <1>4, InvariantRestart, PTL DEF RestartTypeOK

(* However often the process dies, whatever it forgets and whatever fails  *)
(* while it starts, no buy is made on top of a position.                   *)
THEOREM NoDoubleAcrossRestarts == RestartSpec => NeverDoubled
<1>1. ASSUME PairTypeOK, FlatInv PROVE Buys => Held <= MinQty
  <2>1. Held \in Int /\ ctx.tot \in Int /\ MinQty \in Int
    BY <1>1, SpotAssumption DEF PairTypeOK, ExTypeOK, Held, Snapshots
  <2> QED BY <1>1, <2>1 DEF FlatInv, CoinsCovered, ResidueOnly, Buys
<1>2. RestartInv => [Buys => Held <= MinQty]_ownVars
  BY <1>1 DEF RestartInv, BootTypeOK
<1> QED BY <1>2, InvariantRestart, PTL DEF NeverDoubled

-----------------------------------------------------------------------------
(* The reconciliation of a pair.  Coins may only leave the account while   *)
(* it runs, so what it has read bounds what there is; and as long as no    *)
(* call has failed, each label says what was found on the way to it.       *)

Decided == {"orphan", "gone", "known", "place", "unknown"}
Checking == Decided \cup {"ticker", "filters", "decide"}

(* No coins come in; no call failed; what each branch was taken for.       *)
Counted == boot \in Checking => Held <= seen.tot
Priced ==
    /\ calm /\ boot \in Checking \ {"ticker"} => seen.priced
    /\ calm /\ boot \in Checking \ {"ticker", "filters"} => seen.filtered
Sorted ==
    /\ boot \in {"known", "place"} => ps.side = "BUY"
    /\ calm /\ boot \in {"gone", "unknown"} => Held <= MinQty
    /\ calm /\ boot \in {"finish", "clear"} /\ Held > MinQty => ps.side = "BUY"
FoundInv == Counted /\ Priced /\ Sorted

(* What the proofs below compute with. *)
LEMMA RestartQuantities ==
    ASSUME RestartInv
    PROVE  /\ Held \in Int /\ seen.tot \in Int /\ faults \in Int /\ free \in Nat /\ locked \in Int
           /\ MinQty \in Nat \ {0} /\ Step \in Nat \ {0} /\ Step <= MinQty
           /\ ps \in PairStates /\ ps.stopE \in Int /\ Floor(seen.tot) \in Int
           /\ ord \in [StopIds -> [st : StopStates, qty : Nat, stop : Int, late : BOOLEAN]]
<1>1. ExTypeOK /\ ps \in PairStates /\ seen \in Readings
  BY DEF RestartInv, BootTypeOK, PairTypeOK
<1>2. seen.tot \in Int /\ ps.stopE \in Int BY <1>1 DEF PairStates, Readings
<1>3. Floor(seen.tot) \in Int BY <1>2, FloorType
<1> QED BY <1>1, <1>2, <1>3, SpotAssumption DEF ExTypeOK, Held

(* A read that fails ends the calm. *)
LEMMA CalmReads ==
    ASSUME faults \in Int, NEW r, ReadCall(r), Calm, calm'
    PROVE  r = "ok" /\ calm /\ faults' = faults
<1>1. calm /\ faults' = faults BY Zenon DEF Calm
<1>2. r \in {"ok", "err"} /\ faults' = IF r \in Faulty THEN faults + 1 ELSE faults
  BY DEF ReadCall, Answered
<1> QED BY <1>1, <1>2 DEF Faulty

(* The market only takes coins and orders away. *)
LEMMA WorldTakes ==
    ASSUME RestartInv, World
    PROVE  /\ UNCHANGED <<bootVars, ps, halt, ctx, pc, job>>
           /\ Held' <= Held /\ Live' \subseteq Live
<1>0. ExTypeOK /\ Held \in Int BY RestartQuantities DEF RestartInv, BootTypeOK, PairTypeOK
<1>1. CASE CoolDownEnds
  BY <1>0, <1>1 DEF World, CoolDownEnds, exVars, Held, Live
<1>2. CASE Market
  <2>1. PICK i \in StopIds : StopFills(i) \/ FillAges(i) BY <1>2 DEF Market
  <2>2. ord[i].qty \in Nat BY <1>0 DEF ExTypeOK
  <2>3. Held' <= Held BY <1>0, <2>1, <2>2 DEF StopFills, FillAges, Held, ExTypeOK
  <2>4. Live' \subseteq Live
    <3>1. \E s \in {"FILLED", "OLD"} : ord' = [ord EXCEPT ![i] = Ended(s)]
      BY <2>1 DEF StopFills, FillAges
    <3>2. \A j \in StopIds : ord'[j].st = "LIVE" => ord'[j] = ord[j]
      BY <1>0, <3>1 DEF ExTypeOK
    <3> QED BY <3>2 DEF Live
  <2> QED BY <1>2, <2>3, <2>4 DEF World, Market, botVars
<1> QED BY <1>1, <1>2 DEF World

(* Steps that leave the start-up where it is, or not at it. *)
LEMMA ElsewhereFound ==
    ASSUME RestartInv, FoundInv, BotStep \/ ForcedSave \/ OtherSave \/ Crash \/ StartUp \/ Load
                                   \/ World \/ DiskCools \/ UNCHANGED ownVars
    PROVE  FoundInv'
<1> USE DEF FoundInv, Counted, Priced, Sorted, Checking, Decided, BootGoes
<1>0. Held \in Int /\ Held' \in Int /\ seen.tot \in Int /\ MinQty \in Int
  <2>1. RestartInv' BY NextRestart DEF OwnNext, StartsUp
  <2>2. Held' \in Int BY <2>1 DEF RestartInv, BootTypeOK, PairTypeOK, ExTypeOK, Held
  <2> QED BY <2>2, RestartQuantities
<1>1. CASE BotStep BY <1>1 DEF BotStep
<1>2. CASE Crash \/ StartUp \/ Load BY <1>2 DEF Crash, StartUp, Load
<1>3. CASE ForcedSave \/ OtherSave \/ DiskCools \/ UNCHANGED ownVars
  <2>1. UNCHANGED <<boot, seen, ps, free, locked>>
    BY <1>3 DEF ForcedSave, OtherSave, DiskCools, Saved, SaveFails, ownVars, pairVars, exVars,
                botVars, bootVars
  <2>2. calm' => calm
    BY <1>3, Zenon DEF ForcedSave, OtherSave, DiskCools, Calm, ownVars, bootVars
  <2> QED BY <2>1, <2>2 DEF Held
<1>4. CASE World BY <1>0, <1>4, WorldTakes DEF bootVars
<1> QED BY <1>1, <1>2, <1>3, <1>4

(* Reading the balance and the price, and comparing them with the memory. *)
LEMMA ReadsFound ==
    ASSUME RestartInv, FoundInv, Account \/ Ticker \/ Filters \/ Decide
    PROVE  FoundInv'
<1> USE DEF FoundInv, Counted, Priced, Sorted, Checking, Decided, BootGoes, Boot
<1>0. /\ Held \in Int /\ seen.tot \in Int /\ faults \in Int /\ MinQty \in Int
      /\ seen \in Readings
  BY RestartQuantities DEF RestartInv, BootTypeOK
<1>a. UNCHANGED <<free, locked>> /\ ps' = ps
  BY DEF Account, Ticker, Filters, Decide, pairVars, exVars, botVars
<1>b. Held' = Held BY <1>a DEF Held
<1>1. CASE Account
  <2>1. PICK r : /\ ReadCall(r)
                 /\ seen' = IF r = "ok" THEN [Nothing EXCEPT !.tot = Held] ELSE Nothing
                 /\ boot' = IF r = "ok" THEN "ticker" ELSE "finish"
    BY <1>1 DEF Account
  <2>2. calm' => r = "ok" BY <1>0, <1>1, <2>1, CalmReads DEF Account
  <2>3. r = "ok" => seen'.tot = Held BY <2>1 DEF Nothing
  <2> QED BY <1>0, <1>b, <2>1, <2>2, <2>3
<1>2. CASE Ticker
  <2>1. PICK r : ReadCall(r) /\ seen' = [seen EXCEPT !.priced = (r = "ok")]
    BY <1>2 DEF Ticker
  <2>2. calm' => r = "ok" BY <1>0, <1>2, <2>1, CalmReads DEF Ticker
  <2>3. seen'.tot = seen.tot /\ seen'.priced = (r = "ok") BY <1>0, <2>1 DEF Readings
  <2>4. boot = "ticker" /\ boot' = "filters" BY <1>2 DEF Ticker
  <2>5. calm' => seen'.priced BY <2>2, <2>3
  <2> QED BY <1>b, <2>3, <2>4, <2>5
<1>3. CASE Filters
  <2>1. PICK r : ReadCall(r) /\ seen' = [seen EXCEPT !.filtered = (r = "ok")]
    BY <1>3 DEF Filters
  <2>2. calm' => r = "ok" /\ calm BY <1>0, <1>3, <2>1, CalmReads DEF Filters
  <2>3. seen'.tot = seen.tot /\ seen'.priced = seen.priced /\ seen'.filtered = (r = "ok")
    BY <1>0, <2>1 DEF Readings
  <2>4. boot = "filters" /\ boot' = "decide" BY <1>3 DEF Filters
  <2>5. calm' => seen'.priced /\ seen'.filtered BY <2>2, <2>3, <2>4
  <2> QED BY <1>b, <2>3, <2>4, <2>5
<1>4. CASE Decide
  <2>1. /\ boot = "decide" /\ seen' = seen /\ calm' = calm
        /\ boot' = IF Real /\ ps.side # "BUY" THEN "orphan"
                   ELSE IF ~Real /\ ps.side = "BUY" THEN "gone"
                   ELSE IF ps.side = "BUY" THEN "known" ELSE "unknown"
    BY <1>4 DEF Decide
  <2>2. calm /\ ~Real => Held <= MinQty
    BY <1>0, <2>1 DEF Real
  <2> QED BY <1>a, <1>b, <2>1, <2>2
<1> QED BY <1>1, <1>2, <1>3, <1>4

(* What is done about the difference, and the end of the start-up. *)
LEMMA MendsFound ==
    ASSUME RestartInv, FoundInv,
           Orphan \/ Gone \/ Known \/ PlaceMissing \/ Unknown \/ Finish \/ ClearLog
    PROVE  FoundInv'
<1> USE DEF FoundInv, Counted, Priced, Sorted, Checking, Decided, BootGoes, Boot
<1>0. /\ Held \in Int /\ seen.tot \in Int /\ faults \in Int /\ MinQty \in Int
      /\ ps \in PairStates /\ Floor(seen.tot) \in Int /\ ps.stopE \in Int /\ free \in Nat
      /\ locked \in Int
  BY RestartQuantities
<1>a. calm' => calm
  BY Zenon DEF Orphan, Gone, Known, PlaceMissing, Unknown, Finish, ClearLog, Calm
<1>b. ~PlaceMissing => Held' = Held
  BY DEF Orphan, Gone, Known, Unknown, Finish, ClearLog, pairVars, exVars, Held
<1>1. CASE Orphan
  <2>1. PICK r : ReadCall(r) /\ ps' = [ps EXCEPT !.side = "BUY",
                                         !.entry = IF r = "ok" /\ hist.px # 0 THEN hist.px ELSE @]
    BY <1>1 DEF Orphan
  <2>2. ps'.side = "BUY" BY <1>0, <2>1 DEF PairStates
  <2> QED BY <1>1, <2>2 DEF Orphan
<1>2. CASE Gone
  <2>1. boot = "gone" /\ boot' = "finish" /\ Held' = Held BY <1>2, <1>b DEF Gone, PlaceMissing
  <2> QED BY <1>0, <1>a, <2>1
<1>3. CASE Known
  <2>1. ps' = ps \/ \E i \in Live : ps' = [ps EXCEPT !.slId = i, !.placed = TRUE]
    BY <1>3 DEF Known
  <2>2. ps'.side = ps.side BY <1>0, <2>1 DEF PairStates
  <2>3. /\ boot = "known" /\ boot' \in {"place", "finish"} /\ seen' = seen
        /\ Held' = Held
    BY <1>3, <1>b DEF Known, PlaceMissing
  <2> QED BY <1>a, <2>2, <2>3
<1>4. CASE PlaceMissing
  <2>1. PICK r : Place(Floor(seen.tot), ps.stopE, r) BY <1>4 DEF PlaceMissing
  <2>2. ps' = ps \/ \E i \in StopIds : ps' = [ps EXCEPT !.slId = i, !.placed = TRUE]
    BY <2>1 DEF Place
  <2>3. ps'.side = ps.side BY <1>0, <2>2 DEF PairStates
  <2> QED BY <1>4, <2>3 DEF PlaceMissing
<1>5. CASE Unknown
  <2>1. boot = "unknown" /\ boot' = "finish" /\ Held' = Held
    BY <1>5, <1>b DEF Unknown, PlaceMissing
  <2> QED BY <1>0, <1>a, <2>1
<1>6. CASE Finish
  <2>1. boot = "finish" /\ boot' = "clear" /\ ps' = ps /\ Held' = Held
    BY <1>6, <1>b DEF Finish, PlaceMissing, pairVars, botVars
  <2> QED BY <1>a, <2>1
<1>7. CASE ClearLog BY <1>7 DEF ClearLog
<1> QED BY <1>1, <1>2, <1>3, <1>4, <1>5, <1>6, <1>7

(* Every step keeps what was found. *)
LEMMA NextFound ==
    ASSUME RestartInv, FoundInv, [OwnNext]_ownVars
    PROVE  FoundInv'
BY ElsewhereFound, ReadsFound, MendsFound DEF OwnNext, StartsUp, Reconcile

(* What was found stays true until the start-up is over. *)
LEMMA InvariantFound == RestartSpec => [](RestartInv /\ FoundInv)
<1>1. RestartInit => FoundInv
  BY DEF RestartInit, FoundInv, Counted, Priced, Sorted, Checking, Decided
<1>2. RestartInv /\ FoundInv /\ [OwnNext]_ownVars => FoundInv' BY NextFound
<1> QED BY <1>1, <1>2, InvariantRestart, OwnSteps, PTL

(* Whatever the crash left behind, after a start-up in which no call       *)
(* failed a balance above a residue is a position the bot knows of.        *)
THEOREM BalanceIsKnown == RestartSpec => KnownAfterBoot
<1>1. RestartInv /\ FoundInv =>
        (boot = "clear" /\ boot' = "run" /\ calm /\ Held > MinQty => ps.side = "BUY")
  BY DEF FoundInv, Sorted
<1>2. RestartInv /\ FoundInv =>
        [boot = "clear" /\ boot' = "run" /\ calm /\ Held > MinQty => ps.side = "BUY"]_ownVars
  BY <1>1
<1> QED BY <1>2, InvariantFound, PTL DEF KnownAfterBoot

(* As long as no call fails, the reconciliation closes no position whose   *)
(* coins are still there, whatever the state file says and whatever stop   *)
(* order fills meanwhile.                                                  *)
THEOREM OnlyGoneIsClosed == RestartSpec => ClosedIsGone
<1>1. RestartInv /\ FoundInv /\ [OwnNext]_ownVars =>
        [boot = "gone" /\ boot' = "finish" /\ calm' => Held <= MinQty]_ownVars
  <2> SUFFICES ASSUME RestartInv, FoundInv, OwnNext, boot = "gone", boot' = "finish", calm'
               PROVE  Held <= MinQty
    OBVIOUS
  <2>1. calm' => calm
    <3>1. Gone
      BY DEF OwnNext, StartsUp, Reconcile, BotStep, ForcedSave, OtherSave, Crash, StartUp,
             Load, Account, Ticker, Filters, Decide, Orphan, Known, PlaceMissing, Unknown, Finish,
             ClearLog, World, DiskCools, Boot, BootGoes, bootVars
    <3> QED BY <3>1, Zenon DEF Gone, Calm
  <2> QED BY <2>1 DEF FoundInv, Sorted
<1> QED BY <1>1, InvariantFound, OwnSteps, PTL DEF ClosedIsGone

-----------------------------------------------------------------------------
(* The stop order of a position that was found again.  What makes start-up *)
(* place an order the exchange accepts is that nothing can have been sold  *)
(* behind its back but all of the position: a stop order always covers all *)
(* but a residue, so when the balance is no longer the one that was read,  *)
(* no more than a residue is left.                                         *)

(* No residue is worth selling, nor taken for a position when the filters  *)
(* of the pair cannot be read.                                             *)
Worthless == ~ResidueSells /\ ReconcileMin > MinQty

(* The balance is the one that was read, or all but a residue was sold.    *)
CoinsSeen ==
    boot \in Checking =>
        \/ Held = seen.tot
        \/ Live = {} /\ Held < MinQty + Step /\ Held + Step <= seen.tot

(* A position that is kept is worth an order, and one is placed only when  *)
(* there is none.                                                          *)
Weighed ==
    /\ boot \in {"known", "place"} => seen.tot > MinQty
    /\ boot = "place" => Live = {}
BookInv == OneStopInv /\ Covering /\ CoinsSeen /\ Weighed

(* A start-up that finds the pair with the order it is about to place. *)
LEMMA RoomAtBoot ==
    ASSUME RestartInv, BookInv, boot = "place"
    PROVE  /\ RoomFor(Floor(seen.tot)) /\ Fits(Floor(seen.tot))
           /\ Live = {} /\ Held = free
           /\ Held >= MinQty + Step => Floor(seen.tot) >= MinQty /\ Floor(seen.tot) <= free
<1>0. /\ seen.tot \in Int /\ free \in Nat /\ locked \in Int /\ MinQty \in Nat \ {0}
      /\ Step \in Nat \ {0} /\ Step <= MinQty /\ Held \in Int
  BY RestartQuantities
<1>1. Live = {} /\ Held = free
  BY <1>0 DEF BookInv, Weighed, OneStopInv, OneLive, Held
<1>2. /\ Floor(seen.tot) \in Int /\ Floor(seen.tot) <= seen.tot
      /\ seen.tot < Floor(seen.tot) + Step
  BY <1>0, FloorType, FloorBounds
<1>3. seen.tot > MinQty BY DEF BookInv, Weighed
<1>4. Held = seen.tot \/ (Held < MinQty + Step /\ Held + Step <= seen.tot)
  BY DEF BookInv, CoinsSeen, Checking, Decided
<1>5. RoomFor(Floor(seen.tot)) BY <1>0, <1>1, <1>2, <1>3, <1>4 DEF RoomFor
<1>6. Fits(Floor(seen.tot)) BY <1>0, <1>1, <1>2, <1>3, <1>4 DEF Fits
<1>7. ASSUME Held >= MinQty + Step PROVE Floor(seen.tot) >= MinQty /\ Floor(seen.tot) <= free
  BY <1>0, <1>1, <1>2, <1>4, <1>7
<1> QED BY <1>1, <1>5, <1>6, <1>7

(* A step that leaves the account alone while no cycle runs. *)
LEMMA RestKeepsBook ==
    ASSUME OneStopInv, Covering, UNCHANGED <<free, locked, ord>>, pc' = "idle"
    PROVE  OneStopInv' /\ Covering'
BY DEF OneStopInv, OneLive, SnapshotExact, MovesEnough, ProtectsAll, Covering, Live

(* The running bot keeps its single order, as it does without restarts. *)
LEMMA CycleKeepsBook ==
    ASSUME RestartInv, BookInv, BigBuys, PairNext
    PROVE  OneStopInv' /\ Covering'
<1>1. PairTypeOK /\ JobPos /\ FlatInv /\ OneStopInv /\ Covering
  BY DEF RestartInv, BootTypeOK, BookInv
<1> QED
  BY <1>1, NextOneLive, NextSnapshotExact, NextMovesEnough, NextProtectsAll, NextCovering
     DEF OneStopInv

(* When the market fills the stop order, a residue is left. *)
LEMMA WorldKeepsBook ==
    ASSUME RestartInv, BookInv, BigBuys, World
    PROVE  BookInv'
<1>0. /\ Held \in Int /\ seen.tot \in Int /\ free \in Nat /\ locked \in Int
      /\ MinQty \in Nat \ {0} /\ Step \in Nat \ {0} /\ Step <= MinQty
      /\ ord \in [StopIds -> [st : StopStates, qty : Nat, stop : Int, late : BOOLEAN]]
  BY RestartQuantities
<1>1. OneStopInv' /\ Covering' BY CycleKeepsBook DEF World, PairNext
<1>2. UNCHANGED <<boot, seen>> /\ Live' \subseteq Live BY WorldTakes DEF bootVars
<1>3. CoinsSeen'
  <2>1. CASE UNCHANGED <<free, locked>>
    BY <1>2, <2>1 DEF BookInv, CoinsSeen, Held
  <2>2. ASSUME NEW i \in StopIds, StopFills(i) PROVE CoinsSeen'
    <3>1. /\ i \in Live /\ ord' = [ord EXCEPT ![i] = Ended("FILLED")]
          /\ locked' = locked - ord[i].qty /\ free' = free
      BY <2>2 DEF StopFills
    <3>2. Live = {i} /\ locked = ord[i].qty /\ locked >= MinQty /\ free < MinQty + Step
      BY <3>1 DEF BookInv, OneStopInv, OneLive, Covering
    <3>3. Live' = {}
      <4>1. ord'[i].st = "FILLED" BY <1>0, <3>1
      <4> QED BY <1>2, <3>2, <4>1 DEF Live
    <3>4. Held' = free /\ Held = free + locked BY <1>0, <3>1, <3>2 DEF Held
    <3>5. boot \in Checking => Held = seen.tot BY <3>1 DEF BookInv, CoinsSeen
    <3> QED BY <1>0, <1>2, <3>2, <3>3, <3>4, <3>5 DEF CoinsSeen
  <2> QED BY <2>1, <2>2 DEF World, CoolDownEnds, Market, FillAges, exVars
<1>4. Weighed' BY <1>2 DEF BookInv, Weighed
<1> QED BY <1>1, <1>3, <1>4 DEF BookInv

(* Every step of the process, its start-up and the world. *)
LEMMA NextBook ==
    ASSUME RestartInv, BookInv, BigBuys, Worthless, [OwnNext]_ownVars
    PROVE  BookInv'
<1> USE DEF BootGoes, Boot
<1>0. /\ seen \in Readings /\ PairTypeOK /\ OneStopInv /\ Covering /\ OneLive
      /\ ps.stopE \in Int /\ Floor(seen.tot) \in Int /\ ExTypeOK
  BY RestartQuantities DEF RestartInv, BootTypeOK, BookInv, OneStopInv, PairTypeOK
<1>a. boot # "run" => pc = "idle" BY DEF RestartInv, AtRest
<1>1. CASE BotStep
  <2>1. PairNext /\ boot' = "run" BY <1>1 DEF BotStep, PairNext
  <2> QED BY <2>1, CycleKeepsBook DEF BookInv, CoinsSeen, Weighed, Checking, Decided
<1>2. CASE ForcedSave \/ OtherSave \/ DiskCools \/ UNCHANGED ownVars
  <2>1. UNCHANGED <<free, locked, ord, ctx, pc, job, boot, seen>>
    BY <1>2 DEF ForcedSave, OtherSave, DiskCools, Saved, SaveFails, ownVars, pairVars, exVars,
                botVars, bootVars
  <2> QED
    BY <2>1 DEF BookInv, OneStopInv, OneLive, SnapshotExact, MovesEnough, ProtectsAll, Covering,
                CoinsSeen, Weighed, Live, Held
<1>3. CASE Crash \/ StartUp \/ Load \/ Finish \/ ClearLog
  <2>1. UNCHANGED <<free, locked, ord>> /\ boot' \notin Checking /\ pc' = "idle"
    BY <1>3, <1>a
       DEF Crash, StartUp, Load, Finish, ClearLog, EndCycle, pairVars, exVars, botVars,
           Checking, Decided
  <2> QED BY <1>0, <2>1, RestKeepsBook DEF BookInv, CoinsSeen, Weighed, Checking, Decided
<1>4. CASE Account \/ Ticker \/ Filters \/ Decide \/ Orphan \/ Gone \/ Known \/ Unknown
  <2>1. UNCHANGED <<free, locked, ord>> /\ pc' = "idle"
    BY <1>4, <1>a
       DEF Account, Ticker, Filters, Decide, Orphan, Gone, Known, Unknown, pairVars, exVars, botVars
  <2>2. OneStopInv' /\ Covering' BY <1>0, <2>1, RestKeepsBook
  <2>3. Held' = Held /\ Live' = Live BY <2>1 DEF Held, Live
  <2>4. CoinsSeen' /\ Weighed'
    <3>1. CASE Account
      <4>1. boot' = "finish" \/ (boot' = "ticker" /\ seen'.tot = Held)
        BY <3>1 DEF Account, Nothing
      <4> QED BY <2>3, <4>1 DEF CoinsSeen, Weighed, Checking, Decided
    <3>2. CASE Ticker
      <4>1. boot = "ticker" /\ boot' = "filters" /\ seen'.tot = seen.tot
        BY <1>0, <3>2 DEF Ticker, Readings
      <4> QED BY <2>3, <4>1 DEF BookInv, CoinsSeen, Weighed, Checking, Decided
    <3>6. CASE Filters
      <4>1. boot = "filters" /\ boot' = "decide" /\ seen'.tot = seen.tot
        BY <1>0, <3>6 DEF Filters, Readings
      <4> QED BY <2>3, <4>1 DEF BookInv, CoinsSeen, Weighed, Checking, Decided
    <3>3. CASE Decide
      <4>1. /\ boot = "decide" /\ seen' = seen /\ boot' \in {"orphan", "gone", "known", "unknown"}
            /\ boot' = "known" => Real
        BY <3>3 DEF Decide
      <4>2. Real => seen.tot > MinQty
        <5>1. ReconcileMin \in Nat /\ ReconcileMin > MinQty /\ ~ResidueSells /\ MinQty \in Nat
          BY RestartAssumption, SpotAssumption DEF Worthless
        <5> QED BY <1>0, <5>1 DEF Real, Readings
      <4> QED BY <2>3, <4>1, <4>2 DEF BookInv, CoinsSeen, Weighed, Checking, Decided
    <3>4. CASE Orphan \/ Gone \/ Unknown
      BY <3>4 DEF Orphan, Gone, Unknown, CoinsSeen, Weighed, Checking, Decided
    <3>5. CASE Known
      <4>1. boot = "known" /\ seen' = seen
            /\ (boot' = "finish" \/ (boot' = "place" /\ Live = {}))
        BY <3>5 DEF Known
      <4> QED BY <2>3, <4>1 DEF BookInv, CoinsSeen, Weighed, Checking, Decided
    <3> QED BY <1>4, <3>1, <3>2, <3>3, <3>4, <3>5, <3>6
  <2> QED BY <2>2, <2>4 DEF BookInv
<1>5. CASE PlaceMissing
  <2>1. PICK r : Place(Floor(seen.tot), ps.stopE, r) BY <1>5 DEF PlaceMissing
  <2>2. RoomFor(Floor(seen.tot)) /\ Fits(Floor(seen.tot)) BY <1>5, RoomAtBoot DEF PlaceMissing
  <2>3. OneLive' BY <1>0, <2>1, <2>2, PlaceKeepsOneLive
  <2>4. Covering' BY <1>0, <2>1, <2>2, PlaceCovers
  <2>5. pc' = "idle" /\ boot' = "finish" BY <1>5, <1>a DEF PlaceMissing
  <2> QED
    BY <2>3, <2>4, <2>5
       DEF BookInv, OneStopInv, SnapshotExact, MovesEnough, ProtectsAll, CoinsSeen, Weighed,
           Checking, Decided
<1>6. CASE World BY <1>6, WorldKeepsBook
<1> QED
  BY <1>1, <1>2, <1>3, <1>4, <1>5, <1>6 DEF OwnNext, StartsUp, Reconcile

(* The orders and the coins, through any number of deaths. *)
LEMMA InvariantBook ==
    ASSUME BigBuys, Worthless
    PROVE  RestartSpec => [](RestartInv /\ BookInv)
<1>1. RestartInit => BookInv
  <2> SUFFICES ASSUME RestartInit PROVE BookInv OBVIOUS
  <2>1. Live = {} /\ locked = 0 /\ pc = "idle" /\ boot = "down"
    BY DEF RestartInit, Init, ExInit, Live, NoStop
  <2> QED
    BY <2>1 DEF BookInv, OneStopInv, OneLive, SnapshotExact, MovesEnough, ProtectsAll, Covering,
                CoinsSeen, Weighed, Checking, Decided
<1>2. RestartInv /\ BookInv /\ [OwnNext]_ownVars => BookInv' BY NextBook
<1> QED BY <1>1, <1>2, InvariantRestart, OwnSteps, PTL

(* However often the process dies, whatever it forgets and whatever reply  *)
(* is lost, the bot never has two stop orders on the exchange, when no buy *)
(* is close to the minimum, a residue is not worth selling and the minimum *)
(* of the configuration is above that of the pair.                         *)
THEOREM OneStopAcrossRestarts ==
    ASSUME BigBuys, Worthless
    PROVE  RestartSpec => []AtMostOneStop
<1>1. BookInv => AtMostOneStop BY DEF BookInv, OneStopInv, OneLive, AtMostOneStop
<1> QED BY <1>1, InvariantBook, PTL

(* C-11: when no call fails, a position that was found in the state file   *)
(* with its stop leaves the start-up with a stop order on the exchange     *)
(* that the bot names, wherever the process died and whatever fills while  *)
(* the reconciliation looks.                                               *)
THEOREM StopIsBackAfterBoot ==
    ASSUME BigBuys, Worthless
    PROVE  RestartSpec => StopAfterBoot
<1>1. ASSUME RestartInv, FoundInv, BookInv, OwnNext,
             boot \in {"known", "place"}, boot' = "finish", calm', ps.stopE # 0,
             Held' >= MinQty + Step
      PROVE  (Armed /\ ps.slId \in Live)'
  <2>0. /\ ps \in PairStates /\ faults \in Int /\ NoId \notin StopIds /\ Floor(seen.tot) \in Int
        /\ Held \in Int /\ free \in Nat /\ ps.stopE \in Int /\ locked \in Int
        /\ ord \in [StopIds -> [st : StopStates, qty : Nat, stop : Int, late : BOOLEAN]]
    BY RestartQuantities, CycleAssumption, <1>1
  <2>1. Known \/ PlaceMissing
    BY <1>1 DEF OwnNext, StartsUp, Reconcile, BotStep, ForcedSave, OtherSave, Crash, StartUp,
           Load, Account, Ticker, Filters, Decide, Orphan, Gone, Unknown, Finish, ClearLog,
           World, DiskCools,
           Boot, BootGoes, bootVars
  <2>2. CASE Known
    <3>1. Calm /\ \E r : /\ ReadCall(r)
                         /\ \/ r # "ok"
                            \/ \E i \in Live : ps' = [ps EXCEPT !.slId = i, !.placed = TRUE]
      BY <1>1, <2>2 DEF Known, BootGoes
    <3>2. PICK i \in Live : ps' = [ps EXCEPT !.slId = i, !.placed = TRUE]
      BY <1>1, <2>0, <3>1, CalmReads
    <3>3. i \in StopIds /\ Live' = Live BY <2>2 DEF Known, Live
    <3>4. ps'.slId = i /\ ps'.placed BY <2>0, <3>2 DEF PairStates
    <3> QED BY <2>0, <3>2, <3>3, <3>4 DEF Armed
  <2>3. CASE PlaceMissing
    <3>1. PICK r : Place(Floor(seen.tot), ps.stopE, r) BY <2>3 DEF PlaceMissing
    <3>2. PICK i \in StopIds : /\ PlaceStopCall(i, Floor(seen.tot), ps.stopE, r)
                               /\ ps' = IF r = "ok" THEN [ps EXCEPT !.slId = i, !.placed = TRUE]
                                        ELSE ps
      BY <3>1 DEF Place
    <3>3. faults' = faults /\ calm BY <1>1, <2>3, Zenon DEF PlaceMissing, Calm
    <3>4. r \notin Faulty BY <2>0, <3>2, <3>3 DEF PlaceStopCall, Answered
    <3>5. r # "ok" => Held' = Held
      BY <3>2, <3>4 DEF PlaceStopCall, Answered, Faulty, Effective, Held
    <3>6. Held >= MinQty + Step => Floor(seen.tot) >= MinQty /\ Floor(seen.tot) <= free
      BY <1>1, <2>3, RoomAtBoot DEF PlaceMissing, Boot
    <3>7. r = "ok"
      BY <1>1, <3>2, <3>4, <3>5, <3>6 DEF PlaceStopCall, Answered, Faulty
    <3>8. /\ ps' = [ps EXCEPT !.slId = i, !.placed = TRUE]
          /\ ord' = [ord EXCEPT ![i] = [st |-> "LIVE", qty |-> Floor(seen.tot),
                                        stop |-> ps.stopE, late |-> TRUE]]
      BY <3>2, <3>7 DEF PlaceStopCall, Effective
    <3>9. ps'.slId = i /\ ps'.placed BY <2>0, <3>8 DEF PairStates
    <3>10. i \in Live' BY <2>0, <3>8 DEF Live
    <3> QED BY <2>0, <3>9, <3>10 DEF Armed
  <2> QED BY <2>1, <2>2, <2>3
<1>2. RestartInv /\ FoundInv /\ BookInv /\ [OwnNext]_ownVars =>
        [/\ boot \in {"known", "place"} /\ boot' = "finish" /\ calm'
         /\ ps.stopE # 0 /\ Held' >= MinQty + Step
         => (Armed /\ ps.slId \in Live)']_ownVars
  BY <1>1
<1> QED BY <1>2, InvariantFound, InvariantBook, OwnSteps, PTL DEF StopAfterBoot
=============================================================================
