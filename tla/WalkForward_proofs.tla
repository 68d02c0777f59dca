-------------------------- MODULE WalkForward_proofs --------------------------
(***************************************************************************)
(* Theorems of WalkForward, for any data, any shares of the training parts *)
(* and any minima.                                                         *)
(***************************************************************************)
EXTENDS WalkForward, FiniteSetTheorems, TLAPS

Window == [from : Int, to : Int]

(* What the loop of split_walk_forward_folds keeps: the next test part     *)
(* starts no earlier than the last one ends and never inside the first     *)
(* training part.                                                          *)
FoldInv ==
    /\ bars \in [Frames -> Nat] /\ frame \in Frames /\ queue \subseteq Configs
    /\ start \in Int /\ window \in Nat
    /\ folds \in Seq(Window)
    /\ pc = "split" => /\ start >= TrainOf(frame)
                       /\ \A i \in 1..Len(folds) : folds[i].to <= start
    /\ FoldsInOrder

LEMMA Quotient == ASSUME NEW a \in Int, NEW b \in Nat \ {0} PROVE a \div b \in Int
OBVIOUS

LEMMA Trains == \A f \in Frames : TrainOf(f) \in Nat
BY WalkAssumption DEF TrainOf, Smaller

(* The first test part, wherever the truncation falls. *)
LEMMA BeginFits ==
    ASSUME FoldInv, NEW f \in Frames, NEW percent \in 0..100, Begin(f, percent), UNCHANGED bars,
           queue' \subseteq Configs
    PROVE  FoldInv'
<1> USE WalkAssumption
<1>1. PICK t \in Truncated(bars[f], ShareOf(f, percent)) :
          start' = Larger(t, TrainOf(f))
          /\ window' = IF bars[f] < TrainOf(f) + MinTest \/ bars[f] - Larger(t, TrainOf(f)) < MinTest
                       THEN 0
                       ELSE Larger((bars[f] - Larger(t, TrainOf(f))) \div NFolds, MinTest)
  BY DEF Begin
<1>2. t \in Int
  <2>1. ShareOf(f, percent) \in Nat BY DEF ShareOf, Smaller
  <2>2. bars[f] \in Nat BY DEF FoldInv
  <2> HIDE DEF FoldInv
  <2>3. bars[f] * ShareOf(f, percent) \in Nat BY <2>1, <2>2
  <2> QED BY <1>1, <2>3 DEF Truncated
<1>3. start' \in Int /\ start' >= TrainOf(f) BY <1>1, <1>2, Trains DEF Larger
<1>4. window' \in Nat
  <2>1. CASE window' = 0 BY <2>1
  <2>2. CASE window' # 0
    <3> DEFINE first == Larger(t, TrainOf(f))
    <3>4. /\ start' = first
          /\ window' = IF bars[f] < TrainOf(f) + MinTest \/ bars[f] - first < MinTest THEN 0
                       ELSE Larger((bars[f] - first) \div NFolds, MinTest)
      BY ONLY <1>1
    <3> HIDE DEF first
    <3>1. window' = Larger((bars[f] - start') \div NFolds, MinTest)
      BY ONLY <3>4, <2>2
    <3>2. CASE window' = MinTest BY <3>2
    <3>3. CASE window' # MinTest
      <4>1. window' = (bars[f] - start') \div NFolds /\ window' > MinTest
        BY <3>1, <3>3 DEF Larger
      <4>2. (bars[f] - start') \div NFolds \in Int
        <5>1. bars[f] - start' \in Int BY <1>3 DEF FoldInv
        <5>2. NFolds \in Nat \ {0} OBVIOUS
        <5>3. \A a \in Int, b \in Nat \ {0} : a \div b \in Int BY ONLY Quotient
        <5> QED BY ONLY <5>1, <5>2, <5>3
      <4>3. MinTest \in Nat OBVIOUS
      <4> DEFINE q == (bars[f] - start') \div NFolds
      <4>4. q \in Int /\ q > MinTest /\ window' = q BY <4>1, <4>2
      <4> HIDE DEF q
      <4> QED BY ONLY <4>3, <4>4
    <3> QED BY <3>2, <3>3
  <2> QED BY <2>1, <2>2
<1>5. frame' = f /\ folds' = <<>> BY DEF Begin
<1>6. FoldsInOrder' BY <1>5 DEF FoldsInOrder
<1>7. folds' \in Seq(Window) /\ \A i \in 1..Len(folds') : folds'[i].to <= start' BY ONLY <1>5
<1>8. bars' \in [Frames -> Nat] /\ frame' \in Frames /\ queue' \subseteq Configs
  BY <1>5 DEF FoldInv
<1>9. start' >= TrainOf(frame)' BY <1>3, <1>5, Trains
<1> HIDE DEF FoldsInOrder, Begin
<1> QED BY ONLY <1>3, <1>4, <1>6, <1>7, <1>8, <1>9 DEF FoldInv

LEMMA AddFits == ASSUME FoldInv, AddFold PROVE FoldInv'
<1> DEFINE to == Smaller(start + window, bars[frame])
           fold == [from |-> start, to |-> to]
<1> USE DEF FoldInv, FoldsInOrder
<1>1. /\ start \in Int /\ window \in Nat /\ bars[frame] \in Nat /\ MinTest \in Nat \ {0}
      /\ TrainOf(frame) \in Nat /\ NFolds \in Nat
  BY WalkAssumption, Trains
<1>2. /\ pc = "split" /\ Len(folds) < NFolds /\ to - start >= MinTest
      /\ folds' = Append(folds, fold) /\ start' = start + window
      /\ UNCHANGED <<bars, pc, frame, queue, window>>
  BY DEF AddFold, data, to, fold
<1>3. to \in Int /\ to <= start + window /\ to <= bars[frame] BY <1>1 DEF Smaller
<1>4. fold \in Window BY <1>1, <1>3 DEF Window
<1> HIDE DEF to, fold
<1>5. /\ folds' \in Seq(Window) /\ Len(folds') = Len(folds) + 1
      /\ folds'[Len(folds) + 1] = fold
      /\ \A i \in 1..Len(folds) : folds'[i] = folds[i]
  BY ONLY <1>2, <1>4, folds \in Seq(Window)
<1>6. fold.from = start /\ fold.to = to BY DEF fold
<1>7. start <= start' /\ to <= start' BY <1>1, <1>2, <1>3
<1>8. \A i \in 1..Len(folds) : folds[i].to <= start' /\ folds[i].to \in Int
  <2> TAKE i \in 1..Len(folds)
  <2>1. folds[i] \in Window BY ONLY folds \in Seq(Window), i \in 1..Len(folds)
  <2>2. folds[i].to \in Int /\ folds[i].to <= start BY <1>2, <2>1 DEF Window
  <2> QED BY <1>1, <1>2, <2>2
<1>9. \A i \in 1..Len(folds') : folds'[i].to <= start'
  BY <1>5, <1>6, <1>7, <1>8
<1>10. ASSUME NEW i \in 1..Len(folds')
       PROVE  /\ folds'[i].from >= TrainOf(frame) /\ folds'[i].to - folds'[i].from >= MinTest
              /\ folds'[i].to <= bars[frame]
              /\ \A j \in 1..(i - 1) : folds'[j].to <= folds'[i].from
  <2>1. CASE i \in 1..Len(folds)
    <3>1. folds'[i] = folds[i] /\ \A j \in 1..(i - 1) : folds'[j] = folds[j]
      BY <1>5, <2>1
    <3> QED BY <2>1, <3>1
  <2>2. CASE i = Len(folds) + 1
    <3>1. folds'[i] = fold BY <1>5, <2>2
    <3>2. \A j \in 1..(i - 1) : folds'[j].to <= start BY <1>2, <1>5, <2>2
    <3>3. start >= TrainOf(frame) BY <1>2
    <3> QED BY <1>2, <1>3, <1>6, <3>1, <3>2, <3>3
  <2> QED BY <1>5, <2>1, <2>2
<1>11. FoldsInOrder'
  <2>1. Len(folds') <= NFolds BY <1>1, <1>2, <1>5
  <2> QED BY <1>2, <1>10, <2>1 DEF FoldsInOrder, TrainOf
<1>12. TrainOf(frame)' = TrainOf(frame) BY <1>2 DEF TrainOf
<1>13. start' >= TrainOf(frame) BY <1>1, <1>2, <1>7
<1> QED BY <1>1, <1>2, <1>5, <1>9, <1>11, <1>12, <1>13

LEMMA ForgottenFits ==
    ASSUME FoldInv, Forgotten, UNCHANGED <<bars, frame>>, queue' \subseteq Configs, pc' # "split" PROVE FoldInv'
BY WalkAssumption DEF FoldInv, FoldsInOrder, Forgotten, Window

(* Steps that leave the split alone, and do not start one. *)
LEMMA RestFits ==
    ASSUME FoldInv, UNCHANGED <<bars, frame, split>>, queue' \subseteq Configs, pc' = "split" => pc = "split"
    PROVE  FoldInv'
BY DEF FoldInv, FoldsInOrder, split, TrainOf

LEMMA StepFits == ASSUME FoldInv, [Next]_vars PROVE FoldInv'
<1> queue \subseteq Configs BY DEF FoldInv
<1>1. CASE Study
  <2>1. PICK f \in Frames : Begin(f, StudyPercent) BY <1>1 DEF Study
  <2> QED BY <1>1, <2>1, BeginFits, WalkAssumption DEF Study, data
<1>2. CASE AddFold BY <1>2, AddFits
<1>3. CASE SplitDone
  <2>1. CASE Forgotten /\ pc' # "split"
    BY <1>3, <2>1, ForgottenFits DEF SplitDone, data
  <2>2. CASE pc' = "test" /\ UNCHANGED <<way, config, split, sums>>
    BY <1>3, <2>2, RestFits DEF SplitDone, data
  <2> QED BY <1>3, <2>1, <2>2 DEF SplitDone
<1>4. CASE Pick
  <2>1. PICK c \in queue, percent \in Percents : Begin(FrameOf[c], percent)
    BY <1>4 DEF Pick
  <2>2. FrameOf[c] \in Frames /\ percent \in 0..100 BY WalkAssumption DEF FoldInv
  <2>3. UNCHANGED bars /\ queue' \subseteq Configs BY <1>4 DEF Pick, data, FoldInv
  <2> QED BY <2>1, <2>2, <2>3, BeginFits
<1>5. CASE Audit BY <1>5, ForgottenFits DEF Audit, data
<1>6. CASE Judge BY <1>6, ForgottenFits DEF Judge, data
<1>7. CASE NoStudy BY <1>7, RestFits DEF NoStudy, data
<1>8. CASE Test BY <1>8, RestFits DEF Test, data
<1>9. CASE TestFails BY <1>9, RestFits DEF TestFails, data
<1>10. CASE Rank BY <1>10, RestFits DEF Rank, data
<1>11. CASE Choose BY <1>11, RestFits DEF Choose, data
<1>13. CASE GridFails BY <1>13, ForgottenFits DEF GridFails, data
<1>14. CASE StudyFails BY <1>14, RestFits DEF StudyFails, data
<1>12. CASE UNCHANGED vars BY <1>12, RestFits DEF vars, data
<1> QED BY <1>1, <1>2, <1>3, <1>4, <1>5, <1>6, <1>7, <1>8, <1>9, <1>10, <1>11, <1>12, <1>13,
           <1>14
   DEF Next

LEMMA FoldsAtFirst == Init => FoldInv
<1> SUFFICES ASSUME Init PROVE FoldInv OBVIOUS
<1>1. bars \in [Frames -> Nat] BY WalkAssumption DEF Init
<1>2. folds = <<>> /\ pc # "split" /\ start = 0 /\ window = 0 BY DEF Init
<1>3. FoldsInOrder BY <1>2, WalkAssumption DEF FoldsInOrder
<1> QED BY <1>1, <1>2, <1>3 DEF Init, FoldInv

(* Whatever the length of the data and the share of the training part, no  *)
(* test part looks ahead, is too short or is used twice.                   *)
THEOREM NoLookAhead == Spec => []FoldsInOrder
<1>1. Init => FoldInv BY FoldsAtFirst
<1>2. FoldInv /\ [Next]_vars => FoldInv' BY StepFits
<1>3. FoldInv => FoldsInOrder BY DEF FoldInv
<1> QED BY <1>1, <1>2, <1>3, PTL DEF Spec

-----------------------------------------------------------------------------
(* What the grid returns.  A result that passed was run on every one of    *)
(* two folds or more: the fold to be tested and the number tested go       *)
(* together, which the audit of the study, passing over the folds that     *)
(* fail, does not keep.  Nothing is returned before the end.               *)
Fit(r) ==
    /\ r.folds = r.tested /\ r.folds >= 2
    /\ full[r.config] > DecayFloor
           => 100 * r.sharpe >= DecayMin * full[r.config] * r.tested

BestInv ==
    /\ folds \in Seq(Window)
    /\ pc # "done" => best = NoResult
    /\ pc = "split" => next = 1 /\ tested = 0
    /\ pc = "test" /\ way = "grid" =>
          /\ next \in Nat /\ tested = next - 1 /\ next <= Len(folds) + 1
          /\ Len(folds) >= 2
    /\ \A r \in results : r.passed => Fit(r)
    /\ BestHolds

(* A step that touches neither the results nor the best of them, and does  *)
(* not end the search, has only the test at hand to keep.                  *)
LEMMA SameResults ==
    ASSUME BestInv, UNCHANGED <<full, results, best>>, pc # "done", pc' # "done",
           folds' \in Seq(Window), pc' = "split" => next' = 1 /\ tested' = 0,
           pc' = "test" /\ way' = "grid" =>
               /\ next' \in Nat /\ tested' = next' - 1 /\ next' <= Len(folds') + 1
               /\ Len(folds') >= 2
    PROVE  BestInv'
BY DEF BestInv, BestHolds, Fit, NoResult

(* An audited choice is returned by the study, not by the grid; a search   *)
(* that forgets a validation starts no test.                               *)
LEMMA Forgets ==
    ASSUME BestInv, Forgotten, UNCHANGED <<full, results, best>>, pc # "done",
           pc' \notin {"done", "split", "test"}
    PROVE  BestInv'
BY SameResults DEF Forgotten

LEMMA NextBest == ASSUME BestInv, FoldInv', [Next]_vars PROVE BestInv'
<1>0. folds' \in Seq(Window) BY DEF FoldInv
<1>1. CASE Study
  BY <1>0, <1>1, SameResults DEF Study, Begin, data
<1>2. CASE NoStudy \/ StudyFails
  BY <1>0, <1>2, SameResults DEF NoStudy, StudyFails, data
<1>3. CASE AddFold
  BY <1>0, <1>3, SameResults DEF AddFold, data, sums, BestInv
<1>4. CASE SplitDone
  <2>1. CASE Len(folds) >= (IF way = "grid" THEN 2 ELSE 1)
    <3>1. /\ pc' = "test" /\ UNCHANGED <<full, results, best, way, folds, next, tested>>
          /\ pc = "split"
      BY <1>4, <2>1 DEF SplitDone, data, split, sums
    <3>2. next = 1 /\ tested = 0 /\ Len(folds) \in Nat BY <3>1 DEF BestInv
    <3>3. way = "grid" => Len(folds) >= 2 BY <2>1
    <3> QED BY <1>0, <3>1, <3>2, <3>3, SameResults
  <2>2. CASE ~(Len(folds) >= (IF way = "grid" THEN 2 ELSE 1))
    BY <1>4, <2>2, Forgets DEF SplitDone, data
  <2> QED BY <2>1, <2>2
<1>5. CASE Test
  <2>1. /\ pc = "test" /\ next <= Len(folds) /\ next' = next + 1 /\ tested' = tested + 1
        /\ UNCHANGED <<full, results, best, way, pc, folds>>
    BY <1>5 DEF Test, data, split
  <2>2. Len(folds) \in Nat BY DEF BestInv
  <2>3. way = "grid" => next \in Nat /\ tested = next - 1 /\ Len(folds) >= 2
    BY <2>1 DEF BestInv
  <2> QED BY <1>0, <2>1, <2>2, <2>3, SameResults
<1>6. CASE TestFails
  BY <1>0, <1>6, SameResults DEF TestFails, data
<1>7. CASE GridFails
  BY <1>7, Forgets DEF GridFails, data
<1>8. CASE Audit
  <2>1. CASE pc' = "rank" /\ UNCHANGED best
    BY <1>8, <2>1, Forgets DEF Audit, data
  <2>2. CASE pc' = "done" /\ UNCHANGED way
    <3>1. way' = "study" /\ UNCHANGED <<full, results>> BY <1>8, <2>2 DEF Audit, data
    <3> QED BY <1>0, <2>2, <3>1 DEF BestInv, BestHolds, Fit
  <2> QED BY <1>8, <2>1, <2>2 DEF Audit
<1>9. CASE Rank
  BY <1>0, <1>9, SameResults DEF Rank, data
<1>10. CASE Pick
  <2>1. PICK c \in queue, percent \in Percents : Begin(FrameOf[c], percent)
    BY <1>10 DEF Pick
  <2> QED BY <1>0, <1>10, <2>1, SameResults DEF Pick, Begin, data
<1>11. CASE Judge
  <2>1. /\ pc = "test" /\ next > Len(folds) /\ way = "grid" /\ pc' = "next"
        /\ UNCHANGED <<full, best>>
    BY <1>11 DEF Judge, data
  <2>2. Len(folds) = tested /\ Len(folds) >= 2
    <3>1. /\ next \in Nat /\ tested = next - 1 /\ next <= Len(folds) + 1
          /\ Len(folds) >= 2 /\ Len(folds) \in Nat
      BY <2>1 DEF BestInv
    <3> QED BY <2>1, <3>1
  <2>3. ASSUME NEW r \in results', r.passed PROVE Fit(r)'
    <3>1. CASE r \in results BY <2>1, <2>3, <3>1 DEF BestInv, Fit
    <3>2. CASE r \notin results
      <4>1. /\ r.folds = Len(folds) /\ r.tested = tested /\ r.sharpe = sharpe
            /\ r.config = config
            /\ full[config] > DecayFloor
                   => 100 * sharpe >= DecayMin * full[config] * tested
        BY <1>11, <2>3, <3>2 DEF Judge, Outcome
      <4> QED BY <2>1, <2>2, <4>1 DEF Fit
    <3> QED BY <3>1, <3>2
  <2> QED BY <1>0, <2>1, <2>3 DEF BestInv, BestHolds
<1>12. CASE Choose
  <2>1. /\ pc = "next" /\ pc' = "done" /\ UNCHANGED <<full, results, folds>>
    BY <1>12 DEF Choose, data, split
  <2>2. CASE best' = best
    <3>1. ~best'.passed BY <2>1, <2>2 DEF BestInv, NoResult
    <3> QED BY <1>0, <2>1, <3>1 DEF BestInv, BestHolds, Fit
  <2>3. CASE best' \in {r \in Passed : \A o \in Passed : Beats(r, o)}
    <3>1. Fit(best') /\ \A o \in results : o.passed => Beats(best', o)
      BY <2>3 DEF BestInv, Passed
    <3>2. BestHolds' BY <2>1, <3>1 DEF BestHolds, Fit, Beats
    <3> QED BY <1>0, <2>1, <3>2 DEF BestInv, Fit
  <2> QED BY <1>12, <2>2, <2>3 DEF Choose
<1>13. CASE UNCHANGED vars
  BY <1>13 DEF vars, data, split, sums, BestInv, BestHolds, Fit, Beats
<1> QED BY <1>1, <1>2, <1>3, <1>4, <1>5, <1>6, <1>7, <1>8, <1>9, <1>10, <1>11, <1>12,
           <1>13 DEF Next

(* What the grid returns was run on two folds or more, all of them, did    *)
(* not collapse from the full sample, and beats all that passed.           *)
THEOREM TheBestIsReturned == Spec => []BestHolds
<1>1. Init => FoldInv BY FoldsAtFirst
<1>2. FoldInv /\ [Next]_vars => FoldInv' BY StepFits
<1>3. Init => BestInv
  BY DEF Init, BestInv, BestHolds, NoResult, Fit
<1>4. BestInv /\ FoldInv' /\ [Next]_vars => BestInv' BY NextBest
<1>5. BestInv => BestHolds BY DEF BestInv
<1> QED BY <1>1, <1>2, <1>3, <1>4, <1>5, PTL DEF Spec

-----------------------------------------------------------------------------
(* No timeframe is left out.  First the ranking: two results of each       *)
(* timeframe have room among the TopN.                                     *)
RoomForTwo ==
    \A S \in SUBSET Configs :
        (\A f \in Frames : Cardinality(S \cap OfFrame(f)) <= 2) => Cardinality(S) <= TopN

LEMMA OfTwo ==
    ASSUME NEW a, NEW b, a # b
    PROVE  IsFiniteSet({a, b}) /\ Cardinality({a, b}) = 2
<1>1. IsFiniteSet({a}) /\ Cardinality({a}) = 1 BY FS_Singleton
<1>2. {a} \cup {b} = {a, b} /\ b \notin {a} OBVIOUS
<1> QED BY ONLY <1>1, <1>2, FS_AddElement

(* Three different results are more than two. *)
LEMMA NotThree ==
    ASSUME NEW S, IsFiniteSet(S), Cardinality(S) <= 2, NEW a \in S, NEW b \in S, NEW c \in S,
           a # b, a # c
    PROVE  b = c
<1> SUFFICES ASSUME b # c PROVE FALSE OBVIOUS
<1>3. IsFiniteSet({a, b}) /\ Cardinality({a, b}) = 2 BY OfTwo
<1>4. Cardinality({a, b, c}) = 3
  <2>1. {a, b} \cup {c} = {a, b, c} /\ c \notin {a, b} OBVIOUS
  <2> QED BY ONLY <1>3, <2>1, FS_AddElement
<1>5. {a, b, c} \in SUBSET S OBVIOUS
<1>6. Cardinality({a, b, c}) <= Cardinality(S) BY ONLY <1>5, FS_Subset, IsFiniteSet(S)
<1>7. Cardinality(S) \in Nat BY ONLY FS_CardinalityType, IsFiniteSet(S)
<1> QED BY <1>4, <1>6, <1>7

(* Twice as many places as there are timeframes are enough (fifteen for    *)
(* the timeframes the bot trades): the result kept of each timeframe and   *)
(* the other one number a set of two for each.                             *)
LEMMA TwiceIsEnough ==
    ASSUME IsFiniteSet(Frames), 2 * Cardinality(Frames) <= TopN
    PROVE  RoomForTwo
<1> SUFFICES ASSUME NEW S \in SUBSET Configs,
                    \A f \in Frames : Cardinality(S \cap OfFrame(f)) <= 2
             PROVE  Cardinality(S) <= TopN
  BY DEF RoomForTwo
<1> DEFINE kept(f) == CHOOSE c \in S \cap OfFrame(f) : TRUE
           place == [c \in S |-> <<FrameOf[c], IF c = kept(FrameOf[c]) THEN 1 ELSE 2>>]
           Places == Frames \X {1, 2}
<1>1. \A c \in S : FrameOf[c] \in Frames /\ c \in S \cap OfFrame(FrameOf[c])
  BY WalkAssumption DEF OfFrame
<1>2. place \in [S -> Places] BY <1>1
<1>3. ASSUME NEW c \in S, NEW d \in S, place[c] = place[d] PROVE c = d
  <2> DEFINE f == FrameOf[c]
  <2>1. FrameOf[d] = f /\ (c = kept(f) <=> d = kept(f)) BY <1>3
  <2>2. c \in S \cap OfFrame(f) /\ d \in S \cap OfFrame(f) /\ f \in Frames BY <1>1, <2>1
  <2>3. kept(f) \in S \cap OfFrame(f) BY <2>2
  <2>4. IsFiniteSet(S \cap OfFrame(f)) /\ Cardinality(S \cap OfFrame(f)) <= 2
    <3>1. S \cap OfFrame(f) \in SUBSET Configs /\ IsFiniteSet(Configs)
      BY WalkAssumption DEF OfFrame
    <3> QED BY <2>2, <3>1, FS_Subset
  <2> HIDE DEF kept, f, place
  <2>5. CASE c = kept(f) BY <2>1, <2>5
  <2>6. CASE c # kept(f)
    <3> DEFINE two == S \cap OfFrame(f)
    <3>1. /\ IsFiniteSet(two) /\ Cardinality(two) <= 2
          /\ kept(f) \in two /\ c \in two /\ d \in two /\ kept(f) # c /\ kept(f) # d
      BY <2>1, <2>2, <2>3, <2>4, <2>6
    <3> HIDE DEF two
    <3> QED BY ONLY <3>1, NotThree
  <2> QED BY <2>5, <2>6
<1> HIDE DEF place
<1>4. place \in Injection(S, Places)
  BY <1>2, <1>3 DEF Injection, IsInjective
<1>5. IsFiniteSet(Places) /\ Cardinality(Places) = Cardinality(Frames) * 2
  <2>1. 1 # 2 OBVIOUS
  <2>2. IsFiniteSet({1, 2}) /\ Cardinality({1, 2}) = 2 BY ONLY <2>1, OfTwo, Zenon
  <2> QED BY <2>2, FS_Product
<1> HIDE DEF Places
<1>6. Cardinality(S) <= Cardinality(Places) BY ONLY <1>4, <1>5, FS_Injection
<1>7. Cardinality(Frames) \in Nat BY FS_CardinalityType
<1>8. IsFiniteSet(S) BY FS_Subset, WalkAssumption
<1>9. Cardinality(S) \in Nat BY <1>8, FS_CardinalityType
<1> QED BY <1>5, <1>6, <1>7, <1>9, WalkAssumption

(* Then the split: data that hold two windows after the first training     *)
(* part get two folds.  TwoLeft is the room for the folds to come.         *)
TwoLeft ==
    Len(folds) >= 2 \/ /\ NFolds >= 2 /\ window >= MinTest
                       /\ start + (2 - Len(folds)) * window <= bars[frame]

LEMMA HalfAtMost == ASSUME NEW x \in Nat, NEW n \in Nat, n >= 2 PROVE 2 * (x \div n) <= x
<1>1. n * (x \div n) <= x OBVIOUS
<1>2. x \div n \in Int /\ x \div n >= 0 OBVIOUS
<1>3. n * (x \div n) >= 2 * (x \div n) BY <1>2
<1> QED BY <1>1, <1>2, <1>3

(* A product that was rounded down to one too few leaves one bar more.     *)
LEMMA RoomSplits ==
    ASSUME NEW n \in Nat \ {0}, NEW m \in Nat \ {0}, NEW b \in Nat, NEW a \in Int, NEW first \in Int,
           first = a \/ first = a - 1, first <= b,
           b - a >= 2 * Larger((b - a) \div n, m)
    PROVE  n >= 2 /\ b - first >= 2 * m /\ b - first >= 2 * Larger((b - first) \div n, m)
<1> DEFINE q == (b - a) \div n
           r == b - first
<1>1. q \in Int BY Quotient
<1>2. Larger(q, m) >= q /\ Larger(q, m) >= m /\ Larger(q, m) \in Int BY <1>1 DEF Larger
<1>3. b - a >= 2 * m /\ b - a >= 2 * q BY <1>1, <1>2
<1>4. n >= 2
  <2> SUFFICES ASSUME n = 1 PROVE FALSE OBVIOUS
  <2>1. q = b - a OBVIOUS
  <2> QED BY <1>3, <2>1
<1>5. r \in Nat /\ r >= 2 * m BY <1>3
<1>6. 2 * (r \div n) <= r BY ONLY <1>4, <1>5, HalfAtMost, n \in Nat
<1>7. r \div n \in Int BY <1>5, Quotient
<1> HIDE DEF q, r
<1>8. r >= 2 * Larger(r \div n, m) BY <1>5, <1>6, <1>7 DEF Larger
<1> QED BY <1>4, <1>5, <1>8 DEF r

LEMMA MoveOver == \A x, y, z \in Int : x - y >= z => y + z <= x
OBVIOUS

LEMMA RoomForTest ==
    \A x, y, z \in Int, m \in Nat :
        x - y >= 2 * m /\ y >= z => ~(x < z + m) /\ ~(x - y < m)
OBVIOUS

LEMMA BeginLeavesRoom ==
    ASSUME FoldInv, NEW f \in Frames, NEW percent \in Percents, Begin(f, percent), UNCHANGED bars,
           Splits(f)
    PROVE  TwoLeft'
<1> DEFINE p == (bars[f] * ShareOf(f, percent)) \div 100
           a == Larger(p, TrainOf(f))
           b == bars[f]
<1>1. PICK t \in Truncated(bars[f], ShareOf(f, percent)) :
          start' = Larger(t, TrainOf(f))
          /\ window' = IF bars[f] < TrainOf(f) + MinTest \/ bars[f] - Larger(t, TrainOf(f)) < MinTest
                       THEN 0
                       ELSE Larger((bars[f] - Larger(t, TrainOf(f))) \div NFolds, MinTest)
  BY DEF Begin
<1>2. b \in Nat /\ TrainOf(f) \in Nat BY Trains DEF FoldInv
<1>3. p \in Int
  <2>1. ShareOf(f, percent) \in Nat BY WalkAssumption DEF ShareOf, Smaller
  <2>2. bars[f] * ShareOf(f, percent) \in Nat BY <1>2, <2>1
  <2> QED BY <2>2
<1>4. t = p \/ t = p - 1 BY <1>1 DEF Truncated
<1>5. b - a >= 2 * Larger((b - a) \div NFolds, MinTest) BY DEF Splits
<1>6. NFolds \in Nat \ {0} /\ MinTest \in Nat \ {0} BY WalkAssumption
<1>7. frame' = f /\ folds' = <<>> /\ bars' = bars BY DEF Begin
<1>8. a = p \/ a = TrainOf(f) BY DEF Larger
<1>9. a \in Int BY <1>2, <1>3, <1>8
<1>10. start' \in Int /\ (start' = a \/ start' = a - 1) /\ start' >= TrainOf(f)
  <2> HIDE DEF p
  <2> QED BY <1>1, <1>2, <1>3, <1>4 DEF Larger
<1>11. window' = IF b < TrainOf(f) + MinTest \/ b - start' < MinTest THEN 0
                 ELSE Larger((b - start') \div NFolds, MinTest)
  BY <1>1
<1> HIDE DEF p, a, b
<1>12. a < b
  <2>1. (b - a) \div NFolds \in Int BY <1>2, <1>6, <1>9, Quotient
  <2>2. Larger((b - a) \div NFolds, MinTest) >= MinTest
    BY <1>6, <2>1 DEF Larger
  <2>3. Larger((b - a) \div NFolds, MinTest) \in Int BY <1>6, <2>1 DEF Larger
  <2> QED BY <1>2, <1>5, <1>6, <1>9, <2>2, <2>3
<1>13. NFolds >= 2 /\ b - start' >= 2 * MinTest
       /\ b - start' >= 2 * Larger((b - start') \div NFolds, MinTest)
  <2>1. start' <= b BY <1>2, <1>9, <1>10, <1>12
  <2> QED BY ONLY <1>2, <1>5, <1>6, <1>9, <1>10, <2>1, RoomSplits
<1>14. window' = Larger((b - start') \div NFolds, MinTest)
  <2>1. b - start' >= 2 * MinTest /\ start' >= TrainOf(f) BY <1>10, <1>13
  <2>2. b \in Int /\ start' \in Int /\ TrainOf(f) \in Int /\ MinTest \in Nat
    BY <1>2, <1>6, <1>10
  <2>3. ~(b < TrainOf(f) + MinTest) /\ ~(b - start' < MinTest)
    BY ONLY <2>1, <2>2, RoomForTest
  <2> QED BY ONLY <1>11, <2>3
<1>15. (b - start') \div NFolds \in Int BY <1>2, <1>6, <1>10, Quotient
<1>16. window' >= MinTest /\ window' \in Int /\ b - start' >= 2 * window'
  BY <1>6, <1>13, <1>14, <1>15 DEF Larger
<1>17. Len(folds') = 0 /\ bars'[frame'] = b BY <1>7 DEF b
<1>18. start' + (2 - Len(folds')) * window' <= bars'[frame']
  <2>1. (2 - Len(folds')) * window' = 2 * window' BY ONLY <1>16, <1>17
  <2> HIDE DEF b
  <2>2. start' + 2 * window' <= b
    <3>1. b \in Int /\ start' \in Int /\ window' \in Int BY <1>2, <1>10, <1>16
    <3>2. b - start' >= 2 * window' BY <1>16
    <3>3. 2 * window' \in Int BY <3>1
    <3> QED BY ONLY <3>1, <3>2, <3>3, MoveOver
  <2> QED BY ONLY <1>17, <2>1, <2>2
<1> QED BY <1>6, <1>13, <1>16, <1>18 DEF TwoLeft

LEMMA OneTwoMore == \A n \in Nat : n >= 2 \/ n = 1 \/ n = 0
OBVIOUS

(* A fold takes its window, and leaves room for the next one ... *)
LEMMA AddLeavesRoom == ASSUME FoldInv, AddFold, TwoLeft PROVE TwoLeft'
<1>1. /\ start' = start + window /\ Len(folds') = Len(folds) + 1
      /\ UNCHANGED <<bars, frame, window>>
  BY DEF AddFold, data, FoldInv
<1>2. Len(folds) \in Nat /\ start \in Int /\ window \in Nat BY DEF FoldInv
<1>3. CASE Len(folds) >= 2 BY <1>1, <1>2, <1>3 DEF TwoLeft
<1>4. CASE Len(folds) = 1 BY <1>1, <1>2, <1>4 DEF TwoLeft
<1>5. CASE Len(folds) = 0
  <2>1. start + 2 * window <= bars[frame] BY <1>2, <1>5 DEF TwoLeft
  <2>2. start' + (2 - Len(folds')) * window' <= bars'[frame']
    BY <1>1, <1>2, <1>5, <2>1
  <2> QED BY <1>1, <1>5, <2>2 DEF TwoLeft
<1>6. Len(folds) >= 2 \/ Len(folds) = 1 \/ Len(folds) = 0
  <2>1. Len(folds) \in Nat BY <1>2
  <2> QED BY ONLY <2>1, OneTwoMore
<1> QED BY ONLY <1>3, <1>4, <1>5, <1>6

(* ... so that a split which ends has two of them. *)
LEMMA TwoFolds == ASSUME FoldInv, TwoLeft, ~CanAdd PROVE Len(folds) >= 2
<1> SUFFICES ASSUME Len(folds) < 2 PROVE FALSE BY DEF FoldInv
<1>1. /\ Len(folds) \in Nat /\ start \in Int /\ window \in Nat /\ bars[frame] \in Nat
      /\ MinTest \in Nat \ {0} /\ NFolds \in Nat
  BY WalkAssumption DEF FoldInv
<1>2. NFolds >= 2 /\ window >= MinTest BY <1>1 DEF TwoLeft
<1>3. start + window <= bars[frame]
  <2>1. CASE Len(folds) = 0 BY <1>1, <2>1 DEF TwoLeft
  <2>2. CASE Len(folds) = 1 BY <1>1, <2>2 DEF TwoLeft
  <2>3. Len(folds) = 0 \/ Len(folds) = 1 
    <3>1. Len(folds) \in Nat /\ ~(Len(folds) >= 2) BY <1>1
    <3> QED BY ONLY <3>1, OneTwoMore
  <2> QED BY ONLY <2>1, <2>2, <2>3
<1>4. Smaller(start + window, bars[frame]) = start + window BY <1>1, <1>3 DEF Smaller
<1> QED BY <1>1, <1>2, <1>4 DEF CanAdd

(* The ranking keeps a result of each timeframe that has one: at most two  *)
(* of each are ranked, and with room for two of each none is dropped.      *)
LEMMA RankKeepsFrames ==
    ASSUME RoomForTwo, Rank, NEW f \in Frames, OfFrame(f) # {}
    PROVE  \E c \in queue' : FrameOf[c] = f
<1>1. PICK S \in SUBSET Configs, T \in SUBSET Configs :
          /\ \A g \in Frames : Taken(S \cap OfFrame(g), OfFrame(g), 2)
          /\ Taken(T, S, TopN)
          /\ queue' = T
  BY DEF Rank
<1>2. \A g \in Frames : IsFiniteSet(OfFrame(g)) /\ Cardinality(OfFrame(g)) \in Nat
  <2> TAKE g \in Frames
  <2>1. OfFrame(g) \in SUBSET Configs /\ IsFiniteSet(Configs)
    BY WalkAssumption DEF OfFrame
  <2>2. IsFiniteSet(OfFrame(g)) BY ONLY <2>1, FS_Subset
  <2> QED BY ONLY <2>2, FS_CardinalityType
<1>3. \A g \in Frames : Cardinality(S \cap OfFrame(g)) = Smaller(2, Cardinality(OfFrame(g)))
  BY <1>1 DEF Taken
<1>4. Cardinality(S) <= TopN
  <2>1. \A g \in Frames : Cardinality(S \cap OfFrame(g)) <= 2 BY <1>2, <1>3 DEF Smaller
  <2> QED BY <2>1 DEF RoomForTwo
<1>5. IsFiniteSet(S) /\ Cardinality(S) \in Nat
  <2>1. IsFiniteSet(S) BY WalkAssumption, FS_Subset
  <2> QED BY <2>1, FS_CardinalityType
<1>6. T = S
  <2>1. T \in SUBSET S /\ Cardinality(T) = Smaller(TopN, Cardinality(S)) BY <1>1 DEF Taken
  <2>2. Cardinality(T) = Cardinality(S)
    <3>1. TopN \in Nat BY WalkAssumption
    <3> QED BY <1>4, <1>5, <2>1, <3>1 DEF Smaller
  <2> QED BY ONLY <1>5, <2>1, <2>2, FS_Subset
<1>7. S \cap OfFrame(f) # {}
  <2>1. Cardinality(OfFrame(f)) # 0 BY <1>2, FS_EmptySet
  <2>2. Cardinality(S \cap OfFrame(f)) # 0 BY <1>2, <1>3, <2>1 DEF Smaller
  <2> QED BY <2>2, FS_EmptySet
<1> QED BY <1>1, <1>6, <1>7 DEF OfFrame

(* A timeframe whose data split is judged, is being validated or waits in  *)
(* the queue, from the ranking to the end.                                 *)
Awaited(f) ==
    \/ \E r \in results : r.frame = f
    \/ \E c \in queue : FrameOf[c] = f
    \/ pc \in {"split", "test"} /\ frame = f

HeardInv ==
    /\ pc = "study" => way = "study"
    /\ pc = "split" /\ way = "grid" /\ Splits(frame) => TwoLeft
    /\ pc \in {"next", "split", "test", "done"} /\ way = "grid" =>
          \A f \in Frames : Splits(f) /\ OfFrame(f) # {} => Awaited(f)
    /\ pc = "done" /\ way = "grid" => queue = {}

(* A step that does not begin a validation and ends none keeps all of it. *)
LEMMA StillAwaited ==
    ASSUME HeardInv, FoldInv, UNCHANGED <<bars, way, queue, results, frame>>,
           pc \in {"split", "test"}, pc' \in {"split", "test"},
           pc' = "split" /\ Splits(frame)' /\ TwoLeft => TwoLeft',
           pc' = "split" => pc = "split"
    PROVE  HeardInv'
<1>1. \A f : Splits(f)' <=> Splits(f) BY DEF Splits
<1>2. \A f : OfFrame(f)' = OfFrame(f) BY DEF OfFrame
<1> QED BY <1>1, <1>2 DEF HeardInv, Awaited

LEMMA NextHeard == ASSUME HeardInv, FoldInv, FoldInv', RoomForTwo, [Next]_vars PROVE HeardInv'
<1>0. UNCHANGED bars => \A f : Splits(f)' <=> Splits(f) BY DEF Splits
<1>1. CASE Study
  BY <1>1 DEF Study, Begin, HeardInv
<1>2. CASE NoStudy \/ StudyFails
  BY <1>2 DEF NoStudy, StudyFails, HeardInv
<1>3. CASE AddFold
  BY <1>3, AddLeavesRoom, StillAwaited DEF AddFold, data
<1>4. CASE SplitDone
  <2>1. CASE Len(folds) >= (IF way = "grid" THEN 2 ELSE 1)
    BY <1>4, <2>1, StillAwaited DEF SplitDone, data
  <2>2. CASE ~(Len(folds) >= (IF way = "grid" THEN 2 ELSE 1)) /\ way = "grid"
    <3>1. /\ pc = "split" /\ ~CanAdd /\ pc' = "next" /\ way' = "grid"
          /\ UNCHANGED <<bars, queue, frame, results>>
      BY <1>4, <2>2 DEF SplitDone, data
    <3>2. ~Splits(frame)
      <4> SUFFICES ASSUME Splits(frame) PROVE FALSE OBVIOUS
      <4>1. TwoLeft BY <2>2, <3>1 DEF HeardInv
      <4> QED BY <2>2, <3>1, <4>1, TwoFolds
    <3>3. ASSUME NEW f \in Frames, Splits(f), OfFrame(f) # {} PROVE Awaited(f)'
      BY <2>2, <3>1, <3>2, <3>3 DEF HeardInv, Awaited
    <3> QED BY <1>0, <3>1, <3>3 DEF HeardInv, OfFrame
  <2>3. CASE ~(Len(folds) >= (IF way = "grid" THEN 2 ELSE 1)) /\ way # "grid"
    BY <1>4, <2>3 DEF SplitDone, HeardInv
  <2> QED BY <2>1, <2>2, <2>3
<1>5. CASE Test
  BY <1>5, StillAwaited DEF Test, data
<1>6. CASE TestFails
  BY <1>6, StillAwaited DEF TestFails, data
<1>7. CASE GridFails
  BY <1>7 DEF GridFails, HeardInv
<1>8. CASE Audit
  BY <1>8 DEF Audit, HeardInv
<1>9. CASE Rank
  <2>1. pc' = "next" BY <1>9 DEF Rank
  <2>2. \A f \in Frames : OfFrame(f) # {} => Awaited(f)'
    BY <1>9, RankKeepsFrames DEF Awaited
  <2> QED BY <2>1, <2>2 DEF HeardInv, OfFrame
<1>10. CASE Pick
  <2>1. PICK c \in queue, percent \in Percents :
            queue' = queue \ {c} /\ Begin(FrameOf[c], percent)
    BY <1>10 DEF Pick
  <2>2. pc = "next" /\ pc' = "split" /\ frame' = FrameOf[c] /\ UNCHANGED <<bars, way, results>>
    BY <1>10, <2>1 DEF Pick, Begin, data
  <2>3. FrameOf[c] \in Frames BY WalkAssumption DEF FoldInv
  <2>4. Splits(frame)' => TwoLeft'
    <3> SUFFICES ASSUME Splits(FrameOf[c]) PROVE TwoLeft'
      BY <2>2 DEF Splits
    <3> QED BY <2>1, <2>2, <2>3, BeginLeavesRoom
  <2>5. ASSUME way = "grid", NEW f \in Frames, Splits(f), OfFrame(f) # {} PROVE Awaited(f)'
    BY <2>1, <2>2, <2>5 DEF HeardInv, Awaited
  <2> QED BY <1>0, <2>2, <2>4, <2>5 DEF HeardInv, OfFrame
<1>11. CASE Judge
  <2>1. /\ pc = "test" /\ pc' = "next" /\ UNCHANGED <<bars, way, queue>>
        /\ \E r \in results' : r.frame = frame
        /\ results \subseteq results'
    <3>1. PICK passed \in BOOLEAN : results' = results \cup {Outcome(passed)}
      BY <1>11 DEF Judge
    <3>2. Outcome(passed).frame = frame BY DEF Outcome
    <3> QED BY <1>11, <3>1, <3>2 DEF Judge, data
  <2>2. ASSUME way = "grid", NEW f \in Frames, Splits(f), OfFrame(f) # {} PROVE Awaited(f)'
    BY <2>1, <2>2 DEF HeardInv, Awaited
  <2> QED BY <1>0, <2>1, <2>2 DEF HeardInv, OfFrame
<1>12. CASE Choose
  <2>1. /\ pc = "next" /\ pc' = "done" /\ UNCHANGED <<bars, way, queue, results>> /\ queue = {}
    BY <1>12 DEF Choose, data
  <2>2. ASSUME way = "grid", NEW f \in Frames, Splits(f), OfFrame(f) # {} PROVE Awaited(f)'
    BY <2>1, <2>2 DEF HeardInv, Awaited
  <2> QED BY <1>0, <2>1, <2>2 DEF HeardInv, OfFrame
<1>13. CASE UNCHANGED vars
  BY <1>0, <1>13 DEF vars, data, split, HeardInv, Awaited, TwoLeft, OfFrame
<1> QED BY <1>1, <1>2, <1>3, <1>4, <1>5, <1>6, <1>7, <1>8, <1>9, <1>10, <1>11, <1>12,
           <1>13 DEF Next

(* Every timeframe with results and with data for two folds is validated   *)
(* before the grid ends, when the ranking has room for two of each.        *)
THEOREM NoFrameForgotten == ASSUME RoomForTwo PROVE Spec => []EveryFrameHeard
<1>1. Init => FoldInv BY FoldsAtFirst
<1>2. FoldInv /\ [Next]_vars => FoldInv' BY StepFits
<1>3. Init => HeardInv BY DEF Init, HeardInv
<1>4. HeardInv /\ FoldInv /\ FoldInv' /\ [Next]_vars => HeardInv' BY NextHeard
<1>5. HeardInv => EveryFrameHeard BY DEF HeardInv, EveryFrameHeard, Awaited
<1> QED BY <1>1, <1>2, <1>3, <1>4, <1>5, PTL DEF Spec
=============================================================================
