----------------------------- MODULE WalkForward -----------------------------
(***************************************************************************)
(* How a pair's configuration is validated out of sample (walk_forward.py, *)
(* as start-up and the hourly job call it).  A study first looks for the   *)
(* configuration that does best on the training parts of its timeframe's   *)
(* folds, and audits it on the test parts.  If that fails, the best        *)
(* configurations of the full sample are run on the test parts, one after  *)
(* the other, and the best of those that pass is returned.                 *)
(*                                                                         *)
(* A backtest is its Sharpe ratio, in tenths, and its win rate.  Left out: *)
(* indicators, the optimiser behind the study (any timeframe may win), the *)
(* pass rate and the other figures of the report.                          *)
(***************************************************************************)
EXTENDS Integers, Sequences, FiniteSets

CONSTANTS
    Frames, Daily,         \* timeframes, and those with the override of "1d"
    Configs,               \* results of the full-sample backtests
    FrameOf,               \* the timeframe of each
    Chosen,                \* stands for the study's configuration
    BarCounts,             \* lengths a dataset may have
    MinTrain, DailyTrain, MinTest, NFolds,
    Percents,              \* the adaptive share of the first training part
    StudyPercent, DailyPercent,
    Scores, WinRates,      \* outcomes of a backtest
    FullScores,            \* ... of the full sample
    SharpeMin, WinRateMin,
    DecayFloor, DecayMin,  \* full-sample Sharpe from which the decay counts; percent
    TopN

ASSUME WalkAssumption ==
    /\ Daily \subseteq Frames /\ FrameOf \in [Configs -> Frames] /\ IsFiniteSet(Configs)
    /\ BarCounts \subseteq Nat
    /\ {MinTest, NFolds} \subseteq Nat \ {0} /\ {MinTrain, DailyTrain} \subseteq Nat
    /\ Percents \subseteq 0..100 /\ {StudyPercent, DailyPercent} \subseteq 0..100
    /\ Scores \subseteq Int /\ FullScores \subseteq Int /\ WinRates \subseteq Nat
    /\ {SharpeMin, WinRateMin, DecayFloor, DecayMin, TopN} \subseteq Nat

VARIABLES
    bars, full,     \* the data: length of each dataset, full-sample Sharpe of each result
    way,            \* "study" or "grid"
    pc,
    queue,          \* results yet to be validated
    frame, config,  \* what is being validated
    start, window,  \* split_walk_forward_folds: next test part, length of one
    folds,          \* ... the test parts; each is preceded by its training part
    next,           \* fold to be tested
    tested, sharpe, wins, trained,  \* folds tested, sums over them
    results, best

data == <<bars, full>>
split == <<start, window, folds>>
sums == <<next, tested, sharpe, wins, trained>>
vars == <<data, way, pc, queue, frame, config, split, sums, results, best>>

Smaller(a, b) == IF a < b THEN a ELSE b
Larger(a, b) == IF a > b THEN a ELSE b

-----------------------------------------------------------------------------
(* split_walk_forward_folds *)

TrainOf(f) == IF f \in Daily THEN Smaller(MinTrain, DailyTrain) ELSE MinTrain
ShareOf(f, percent) == IF f \in Daily THEN Smaller(percent, DailyPercent) ELSE percent

(* int(n * share): an exact product may come out one too small *)
Truncated(n, share) ==
    {(n * share) \div 100} \cup
        IF n > 0 /\ share > 0 /\ (n * share) % 100 = 0 THEN {(n * share) \div 100 - 1} ELSE {}

(* The first test part starts after the first training part; data that are *)
(* too short leave no room for one                                         *)
Begin(f, percent) ==
    /\ frame' = f
    /\ \E t \in Truncated(bars[f], ShareOf(f, percent)) :
          LET first == Larger(t, TrainOf(f))
              room == bars[f] - first
          IN  /\ start' = first
              /\ window' = IF bars[f] < TrainOf(f) + MinTest \/ room < MinTest THEN 0
                           ELSE Larger(room \div NFolds, MinTest)
    /\ folds' = <<>> /\ next' = 1
    /\ tested' = 0 /\ sharpe' = 0 /\ wins' = 0 /\ trained' = 0
    /\ pc' = "split"

(* ... takes a shorter last part too *)
AddFold__Short ==
    /\ pc = "split"
    /\ Len(folds) < NFolds /\ start < bars[frame]
    /\ folds' = Append(folds, [from |-> start, to |-> Smaller(start + window, bars[frame])])
    /\ start' = start + window
    /\ UNCHANGED <<data, way, pc, queue, frame, config, window, sums, results, best>>

AddFold ==
    /\ pc = "split"
    /\ LET to == Smaller(start + window, bars[frame])
       IN  /\ Len(folds) < NFolds /\ to - start >= MinTest
           /\ folds' = Append(folds, [from |-> start, to |-> to])
    /\ start' = start + window
    /\ UNCHANGED <<data, way, pc, queue, frame, config, window, sums, results, best>>

CanAdd == Len(folds) < NFolds /\ Smaller(start + window, bars[frame]) - start >= MinTest

(* The locals of one validation, which the next one starts anew *)
Forgotten ==
    /\ start' = 0 /\ window' = 0 /\ folds' = <<>> /\ config' = Chosen
    /\ next' = 1 /\ tested' = 0 /\ sharpe' = 0 /\ wins' = 0 /\ trained' = 0

-----------------------------------------------------------------------------
(* run_walk_forward_optuna *)

Study ==
    /\ pc = "study"
    /\ \E f \in Frames : Begin(f, StudyPercent)
    /\ config' = Chosen
    /\ UNCHANGED <<data, way, queue, results, best>>

(* Not installed, no folds, or no trial that runs *)
NoStudy ==
    /\ pc = "study"
    /\ way' = "grid" /\ pc' = "rank"
    /\ UNCHANGED <<data, queue, frame, config, split, sums, results, best>>

(* An exception, of the preparation or of the optimiser, ends the study:   *)
(* the caller passes over the grid too and goes on without a validation    *)
StudyFails ==
    /\ pc = "study"
    /\ pc' = "failed"
    /\ UNCHANGED <<data, way, queue, frame, config, split, sums, results, best>>

-----------------------------------------------------------------------------
(* The backtests of both ways, fold by fold *)

(* ... needs no second fold *)
SplitDone__Single ==
    /\ pc = "split" /\ ~CanAdd
    /\ IF Len(folds) >= 1
       THEN pc' = "test" /\ UNCHANGED <<way, config, split, sums>>
       ELSE pc' = (IF way = "grid" THEN "next" ELSE "rank") /\ way' = "grid" /\ Forgotten
    /\ UNCHANGED <<data, queue, frame, results, best>>

(* The grid validates with two folds or more, the study with any *)
SplitDone ==
    /\ pc = "split" /\ ~CanAdd
    /\ IF Len(folds) >= (IF way = "grid" THEN 2 ELSE 1)
       THEN pc' = "test" /\ UNCHANGED <<way, config, split, sums>>
       ELSE pc' = (IF way = "grid" THEN "next" ELSE "rank") /\ way' = "grid" /\ Forgotten
    /\ UNCHANGED <<data, queue, frame, results, best>>

Test ==
    /\ pc = "test" /\ next <= Len(folds)
    /\ next' = next + 1 /\ tested' = tested + 1
    /\ \E s \in Scores, w \in WinRates, t \in Scores :
          /\ sharpe' = sharpe + s /\ wins' = wins + w
          /\ trained' = IF way = "study" THEN trained + t ELSE trained
    /\ UNCHANGED <<data, way, pc, queue, frame, config, split, results, best>>

(* The audit passes over a fold whose backtest fails *)
TestFails ==
    /\ pc = "test" /\ next <= Len(folds) /\ way = "study"
    /\ next' = next + 1
    /\ UNCHANGED <<data, way, pc, queue, frame, config, split, tested, sharpe, wins, trained,
                   results, best>>

(* ... the grid does not: its caller goes on without a validation *)
GridFails ==
    /\ pc = "test" /\ next <= Len(folds) /\ way = "grid"
    /\ pc' = "failed" /\ Forgotten
    /\ UNCHANGED <<data, way, queue, frame, results, best>>

Outcome(passed) ==
    [config |-> config, frame |-> frame, folds |-> Len(folds), tested |-> tested,
     sharpe |-> sharpe, passed |-> passed]

(* The audit of the study's choice: at least the minima *)
Audit ==
    /\ pc = "test" /\ next > Len(folds) /\ way = "study"
    /\ LET passed == /\ tested > 0
                     /\ sharpe >= SharpeMin * tested /\ wins >= WinRateMin * tested
                     /\ trained > 0 /\ 100 * sharpe >= DecayMin * trained
       IN  IF passed
           THEN best' = Outcome(TRUE) /\ pc' = "done" /\ UNCHANGED way
           ELSE way' = "grid" /\ pc' = "rank" /\ UNCHANGED best
    /\ Forgotten
    /\ UNCHANGED <<data, queue, frame, results>>

-----------------------------------------------------------------------------
(* run_walk_forward_validation *)

(* The best results of the full sample, at most two of a timeframe *)
Leads(S, T) == \A c \in S, d \in T \ S : full[c] >= full[d]
Taken(S, T, k) == S \subseteq T /\ Leads(S, T) /\ Cardinality(S) = Smaller(k, Cardinality(T))
OfFrame(f) == {c \in Configs : FrameOf[c] = f}

(* ... whatever their timeframe *)
Rank__NoCap ==
    /\ pc = "rank"
    /\ \E S \in SUBSET Configs : Taken(S, Configs, TopN) /\ queue' = S
    /\ pc' = "next"
    /\ UNCHANGED <<data, way, frame, config, split, sums, results, best>>

Rank ==
    /\ pc = "rank"
    /\ \E S, T \in SUBSET Configs :
          /\ \A f \in Frames : Taken(S \cap OfFrame(f), OfFrame(f), 2)
          /\ Taken(T, S, TopN)
          /\ queue' = T
    /\ pc' = "next"
    /\ UNCHANGED <<data, way, frame, config, split, sums, results, best>>

(* The next result, the best first *)
Pick ==
    /\ pc = "next"
    /\ \E c \in queue, percent \in Percents :
          /\ Leads({c}, queue)
          /\ queue' = queue \ {c} /\ config' = c
          /\ Begin(FrameOf[c], percent)
    /\ UNCHANGED <<data, way, results, best>>

(* Above both minima, on average, and no collapse from the full sample *)
Judge ==
    /\ pc = "test" /\ next > Len(folds) /\ way = "grid"
    /\ LET passed == /\ sharpe > SharpeMin * tested /\ wins > WinRateMin * tested
                     /\ full[config] > DecayFloor
                           => 100 * sharpe >= DecayMin * full[config] * tested
       IN  results' = results \cup {Outcome(passed)}
    /\ pc' = "next" /\ Forgotten
    /\ UNCHANGED <<data, way, queue, frame, best>>

Passed == {r \in results : r.passed}
Beats(r, o) == r.sharpe * o.tested >= o.sharpe * r.tested

(* The best average of those that pass, or nothing *)
Choose ==
    /\ pc = "next" /\ queue = {}
    /\ best' \in IF Passed = {} THEN {best} ELSE {r \in Passed : \A o \in Passed : Beats(r, o)}
    /\ pc' = "done"
    /\ UNCHANGED <<data, way, queue, frame, config, split, sums, results>>

NoResult == [config |-> Chosen, passed |-> FALSE]

Init ==
    /\ bars \in [Frames -> BarCounts] /\ full \in [Configs -> FullScores]
    /\ way = "study" /\ pc = "study"
    /\ queue = {} /\ frame \in Frames /\ config = Chosen
    /\ start = 0 /\ window = 0 /\ folds = <<>>
    /\ next = 1 /\ tested = 0 /\ sharpe = 0 /\ wins = 0 /\ trained = 0
    /\ results = {} /\ best = NoResult

Next ==
    \/ Study \/ NoStudy \/ StudyFails \/ AddFold \/ SplitDone
    \/ Test \/ TestFails \/ GridFails \/ Audit
    \/ Rank \/ Pick \/ Judge \/ Choose

Spec == Init /\ [][Next]_vars

-----------------------------------------------------------------------------
(* What a validation is worth.                                             *)

(* The folds never look ahead: each test part follows all of its training  *)
(* part, which holds at least the minimum of bars, has at least its own    *)
(* minimum, lies inside the data and overlaps no other test part.          *)
FoldsInOrder ==
    /\ Len(folds) <= NFolds
    /\ \A i \in 1..Len(folds) :
          /\ folds[i].from >= TrainOf(frame)
          /\ folds[i].to - folds[i].from >= MinTest
          /\ folds[i].to <= bars[frame]
          /\ \A j \in 1..(i - 1) : folds[j].to <= folds[i].from

(* No timeframe is left out: one with results and with data for two folds, *)
(* whatever the share of the first training part, has been validated when  *)
(* the grid ends.  This rests on a TopN that leaves room for it.           *)
Splits(f) ==
    \A percent \in Percents :
        LET first == Larger((bars[f] * ShareOf(f, percent)) \div 100, TrainOf(f))
        IN  bars[f] - first >= 2 * Larger((bars[f] - first) \div NFolds, MinTest)
EveryFrameHeard ==
    pc = "done" /\ way = "grid" =>
        \A f \in Frames : Splits(f) /\ OfFrame(f) # {} => \E r \in results : r.frame = f

(* What is returned was better out of sample than everything else that     *)
(* was judged fit, and did not collapse from what the full sample showed.  *)
BestHolds ==
    pc = "done" /\ way = "grid" /\ best.passed =>
        /\ best.folds = best.tested /\ best.folds >= 2
        /\ full[best.config] > DecayFloor
               => 100 * best.sharpe >= DecayMin * full[best.config] * best.tested
        /\ \A r \in results : r.passed => Beats(best, r)

(* A validation rests on two folds at least ("1 seul fold =                *)
(* statistiquement invalide").                                             *)
ValidatedTwice == best.passed => best.tested >= 2
=============================================================================
