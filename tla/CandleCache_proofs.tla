-------------------------- MODULE CandleCache_proofs --------------------------
(***************************************************************************)
(* Theorems of CandleCache, for any window, lookback, ages and crashes.    *)
(***************************************************************************)
EXTENDS CandleCache, TLAPS

(* Candles without a gap, all but the last one whole *)
Whole(f, from, to) ==
    /\ Known(f) = from..to
    /\ \A c \in from..to : c # to => f[c] = "whole"

Fetched == {"lock", "replace", "unlock", "done"}

(* A trading cycle never meets the file on its way to the candles. *)
TradeInv ==
    /\ now \in Nat /\ asked \in Nat
    /\ pc \in {"idle", "read", "update", "download"} \cup Fetched
    /\ pc # "idle" => asked <= now
    /\ job = "trade" => pc \notin {"read", "update"}
    /\ job = "trade" /\ pc \in Fetched =>
          \/ frame = NoCandles
          \/ \E from, to \in Nat : from <= to /\ asked <= to /\ Whole(frame, from, to)

LEMMA NewestIs ==
    ASSUME NEW f, NEW from \in Nat, NEW to \in Nat, from <= to, Known(f) = from..to
    PROVE  Newest(f) = to
<1>1. to \in Known(f) /\ \A d \in Known(f) : d <= to OBVIOUS
<1>2. \A c \in Known(f) : (\A d \in Known(f) : d <= c) => c = to OBVIOUS
<1> QED BY <1>1, <1>2 DEF Newest

(* What a download brings *)
LEMMA AskedIs ==
    ASSUME now \in Nat
    PROVE  Oldest \in Nat /\ Oldest <= now /\ Whole(Asked(Oldest), Oldest, now)
<1>1. Oldest \in Nat /\ Oldest <= now BY CacheAssumption DEF Oldest
<1> QED BY <1>1 DEF Asked, Whole, Known

LEMMA StepKeeps == ASSUME TradeInv, [Next]_vars PROVE TradeInv'
<1> USE DEF TradeInv, Fetched
<1>1. ASSUME NEW j \in Jobs, Start(j) PROVE TradeInv'
  BY <1>1 DEF Start, Jobs
<1>2. CASE Read \/ ReadFails \/ Update \/ UpdateFails
  BY <1>2 DEF Read, ReadFails, Update, UpdateFails
<1>3. CASE Download
  <2>1. Oldest \in Nat /\ Oldest <= now /\ Whole(frame', Oldest, now)
    BY <1>3, AskedIs DEF Download
  <2> QED BY <1>3, <2>1 DEF Download
<1>4. CASE DownloadFails
  <2>1. CASE frame' = NoCandles BY <1>4, <2>1 DEF DownloadFails
  <2>2. CASE frame' = Asked(Oldest)
    <3>1. Oldest \in Nat /\ Oldest <= now /\ Whole(frame', Oldest, now)
      BY <2>2, AskedIs
    <3> QED BY <1>4, <3>1 DEF DownloadFails
  <2> QED BY <1>4, <2>1, <2>2 DEF DownloadFails
<1>5. CASE Lock \/ GiveUp \/ Replace \/ Unlock
  BY <1>5 DEF Lock, GiveUp, Replace, Unlock
<1>6. CASE Done \/ Crash BY <1>6 DEF Done, Crash
<1>7. CASE CleanUp BY <1>7 DEF CleanUp
<1>8. CASE CandleCloses
  <2>1. now' \in Nat /\ now <= now' BY <1>8 DEF CandleCloses
  <2> QED BY <1>8, <2>1 DEF CandleCloses
<1>9. CASE UNCHANGED vars BY <1>9 DEF vars
<1> QED BY <1>1, <1>2, <1>3, <1>4, <1>5, <1>6, <1>7, <1>8, <1>9 DEF Next, Step

(* Whatever the cache file holds, a trading cycle decides on candles that  *)
(* are complete and current.                                               *)
THEOREM TradesOnWhole == Spec => []TradedIsWhole
<1>1. Init => TradeInv BY DEF Init, TradeInv, Fetched
<1>2. TradeInv /\ [Next]_vars => TradeInv' BY StepKeeps
<1>3. TradeInv => TradedIsWhole
  <2> SUFFICES ASSUME TradeInv, pc = "done", job = "trade", frame # NoCandles
               PROVE  /\ Contiguous(frame) /\ AllButLastWhole(frame)
                      /\ Newest(frame) >= asked
    BY DEF TradedIsWhole
  <2>1. PICK from, to \in Nat : from <= to /\ asked <= to /\ Whole(frame, from, to)
    BY DEF TradeInv, Fetched
  <2>2. Newest(frame) = to BY <2>1, NewestIs DEF Whole
  <2> QED BY <2>1, <2>2 DEF Whole, Contiguous, AllButLastWhole, TradeInv
<1> QED BY <1>1, <1>2, <1>3, PTL DEF Spec

-----------------------------------------------------------------------------
(* The file.  Only one job at a time handles the pair, so the file is the  *)
(* one that was read until the candles that replace it are written.        *)

InWindow(f) == {c \in Known(f) : c >= Oldest}

(* What is written has all of the file that the window still wants. *)
GrowInv ==
    /\ now \in Nat
    /\ Known(file) \subseteq 0..now /\ Known(frame) \subseteq 0..now
    /\ pc = "update" => frame = file
    /\ pc \in {"lock", "replace"} => InWindow(file) \subseteq Known(frame)

(* The window only moves forward. *)
LEMMA OldestGrows ==
    ASSUME now \in Nat, now' \in Nat, now <= now'
    PROVE  Oldest \in Nat /\ Oldest' \in Nat /\ Oldest <= Oldest'
BY CacheAssumption DEF Oldest

(* What a fetch or an update knows of is not in the future. *)
LEMMA KnownCandles ==
    ASSUME now \in Nat
    PROVE  /\ Known(NoCandles) = {} /\ Known(Asked(Oldest)) = Oldest..now
           /\ Known(Recent) \subseteq 0..now
<1>1. Lookback \in Nat \ {0} BY CacheAssumption
<1>2. CASE now + 1 >= Lookback
  <2>1. Known(Recent) = (now + 1 - Lookback)..now BY <1>2 DEF Recent, Asked, Known
  <2>2. now + 1 - Lookback >= 0 BY <1>1, <1>2
  <2> QED BY <1>1, <2>1, <2>2 DEF NoCandles, Asked, Known
<1>3. CASE ~(now + 1 >= Lookback)
  <2>1. Known(Recent) = 0..now BY <1>3 DEF Recent, Asked, Known
  <2> QED BY <2>1 DEF NoCandles, Asked, Known
<1> QED BY <1>2, <1>3

LEMMA GrowKeeps == ASSUME GrowInv, [Next]_vars PROVE GrowInv'
<1> USE DEF GrowInv
<1>0. Oldest \in Nat /\ Oldest <= now BY AskedIs
<1>1. ASSUME NEW j \in Jobs, Start(j) PROVE GrowInv'
  BY <1>1 DEF Start, InWindow, Oldest
<1>2. CASE Read BY <1>2 DEF Read
<1>3. CASE ReadFails BY <1>3, KnownCandles DEF ReadFails
<1>4. CASE Update
  <2>1. Known(frame') = Known(frame) \cup Newer BY <1>4 DEF Update, Known
  <2>2. Newer \subseteq 0..now BY KnownCandles DEF Newer
  <2>3. frame = file BY <1>4 DEF Update
  <2> QED BY <1>4, <2>1, <2>2, <2>3 DEF Update, InWindow
<1>5. CASE UpdateFails BY <1>5 DEF UpdateFails, InWindow
<1>6. CASE Download
  <2>1. Known(frame') = Oldest..now BY <1>6, KnownCandles DEF Download
  <2>2. InWindow(file) \subseteq Oldest..now BY <1>0 DEF InWindow
  <2> QED BY <1>0, <1>6, <2>1, <2>2 DEF Download, InWindow, Oldest
<1>7. CASE DownloadFails
  <2>1. Known(frame') \subseteq 0..now BY <1>0, <1>7, KnownCandles DEF DownloadFails
  <2> QED BY <1>7, <2>1 DEF DownloadFails
<1>8. CASE Lock BY <1>8 DEF Lock, InWindow, Oldest
<1>9. CASE Replace BY <1>9 DEF Replace
<1>10. CASE GiveUp \/ Unlock BY <1>10 DEF GiveUp, Unlock
<1>11. CASE Done \/ Crash BY <1>11, KnownCandles DEF Done, Crash
<1>12. CASE CleanUp BY <1>12, KnownCandles DEF CleanUp
<1>13. CASE CandleCloses
  <2>1. now' \in Nat /\ now <= now' /\ UNCHANGED <<file, frame, pc>>
    BY <1>13 DEF CandleCloses
  <2>2. InWindow(file)' \subseteq InWindow(file)
    <3>1. Oldest \in Nat /\ Oldest' \in Nat /\ Oldest <= Oldest' BY <2>1, OldestGrows
    <3>2. Known(file) \subseteq Nat OBVIOUS
    <3> QED BY <2>1, <3>1, <3>2 DEF InWindow
  <2> QED BY <2>1, <2>2
<1>14. CASE UNCHANGED vars BY <1>14 DEF vars, InWindow, Oldest
<1> QED
  BY <1>1, <1>2, <1>3, <1>4, <1>5, <1>6, <1>7, <1>8, <1>9, <1>10, <1>11, <1>12, <1>13, <1>14
     DEF Next, Step

(* However the calls fail, and wherever the process dies, the file never   *)
(* loses a candle of the window to an update or a download.                *)
THEOREM FileOnlyGrows == Spec => OnlyGrows
<1>1. Init => GrowInv
  <2> SUFFICES ASSUME Init PROVE GrowInv OBVIOUS
  <2>1. now = 0 /\ file = NoCandles /\ frame = NoCandles /\ pc = "idle" BY DEF Init
  <2>2. Known(file) = {} /\ Known(frame) = {} BY <2>1, KnownCandles
  <2> QED BY <2>1, <2>2 DEF GrowInv
<1>2. GrowInv /\ [Next]_vars => GrowInv' BY GrowKeeps
<1>3. GrowInv /\ [Next]_vars => [file' = NoCandles \/ InWindow(file) \subseteq Known(file')]_vars
  <2> SUFFICES ASSUME GrowInv, Next, file' # file, file' # NoCandles
               PROVE  InWindow(file) \subseteq Known(file')
    BY DEF InWindow
  <2>1. Replace
    BY DEF Next, Step, Start, Read, ReadFails, Update, UpdateFails, Download, DownloadFails, Lock,
           GiveUp, Unlock, Done, CleanUp, CandleCloses, Crash
  <2> QED BY <2>1 DEF Replace, GrowInv
<1> QED BY <1>1, <1>2, <1>3, PTL DEF Spec, OnlyGrows, InWindow
=============================================================================
