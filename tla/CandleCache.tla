----------------------------- MODULE CandleCache -----------------------------
(***************************************************************************)
(* The candles of one pair and timeframe: fetch_historical_data and the    *)
(* cache file behind it (data_fetcher.py, cache_manager.py).  A trading    *)
(* cycle downloads them; a backtest takes the file, completes it with the  *)
(* latest candles and writes it back.  One job handles a pair at a time.   *)
(*                                                                         *)
(* Candles are numbered, and the last one is still forming: what is known  *)
(* of it is "part" of it.  Calls take time, so that a candle may close at  *)
(* any step.  Left out: prices, the hash that spares an equal rewrite all  *)
(* but its effect on the file's age, and the temporary file, which nothing *)
(* reads.                                                                  *)
(***************************************************************************)
EXTENDS Naturals, FiniteSets

CONSTANTS
    Window,     \* candles from the start date to the present
    Lookback,   \* candles an update asks for
    MinLength,  \* a shorter file is thrown away
    MaxAge,     \* ... and so is an older one
    LastCandle, MaxCrashes  \* bounds of the model

ASSUME CacheAssumption ==
    /\ {Window, Lookback, MinLength} \subseteq Nat \ {0}
    /\ {MaxAge, LastCandle, MaxCrashes} \subseteq Nat

VARIABLES
    now,    \* the candle that is forming
    file,   \* what the cache file holds; nothing at all when it is missing
    age,    \* time since it was written
    lock,   \* the lock file: missing, naming a live process or a dead one
    pc, job,
    frame,  \* the candles of the job
    asked,  \* history: the candle that was forming when the job began
    crashes

vars == <<now, file, age, lock, pc, job, frame, asked, crashes>>

NoCandles == [c \in {} |-> "part"]
Known(f) == DOMAIN f
Newest(f) == CHOOSE c \in Known(f) : \A d \in Known(f) : d <= c
Oldest == IF now >= Window THEN now - Window ELSE 0
Asked(from) == [c \in from..now |-> IF c = now THEN "part" ELSE "whole"]

-----------------------------------------------------------------------------
(* ... whoever asks *)
Start__Cached(j) ==
    /\ pc = "idle"
    /\ job' = j /\ asked' = now
    /\ pc' = "read"
    /\ UNCHANGED <<now, file, age, lock, frame, crashes>>

(* A backtest looks at the file first *)
Start(j) ==
    /\ pc = "idle"
    /\ job' = j /\ asked' = now
    /\ pc' = IF j = "trade" THEN "download" ELSE "read"
    /\ UNCHANGED <<now, file, age, lock, frame, crashes>>

(* safe_cache_read *)
Missing == file = NoCandles
Bad == age > MaxAge \/ Cardinality(Known(file)) < MinLength

Read ==
    /\ pc = "read" /\ ~Missing /\ ~Bad
    /\ frame' = file /\ pc' = "update"
    /\ UNCHANGED <<now, file, age, lock, job, asked, crashes>>

(* No file, a bad one, or one that cannot be read: it is thrown away, or,  *)
(* when that fails, stays as it is                                         *)
ReadFails ==
    /\ pc = "read"
    /\ \/ UNCHANGED <<file, age>>
       \/ file' = NoCandles /\ age' = 0
    /\ pc' = "download"
    /\ UNCHANGED <<now, lock, job, frame, asked, crashes>>

(* update_cache_with_recent_data *)
Recent == Asked(IF now + 1 >= Lookback THEN now + 1 - Lookback ELSE 0)
Newer == {c \in Known(Recent) : c > Newest(frame)}

(* ... keeps the latest candles only *)
Update__Recent ==
    /\ pc = "update"
    /\ frame' = IF Newer = {} THEN frame ELSE Recent
    /\ pc' = "lock"
    /\ UNCHANGED <<now, file, age, lock, job, asked, crashes>>

(* Only the candles after the last known one are added *)
Update ==
    /\ pc = "update"
    /\ frame' = [c \in Known(frame) \cup Newer |->
                    IF c \in Newer THEN Recent[c] ELSE frame[c]]
    /\ pc' = "lock"
    /\ UNCHANGED <<now, file, age, lock, job, asked, crashes>>

UpdateFails ==
    /\ pc = "update" /\ pc' = "lock"
    /\ UNCHANGED <<now, file, age, lock, job, frame, asked, crashes>>

Download ==
    /\ pc = "download"
    /\ frame' = Asked(Oldest)
    /\ pc' = "lock"
    /\ UNCHANGED <<now, file, age, lock, job, asked, crashes>>

(* Once the network is back the candles are asked for again, and not kept; *)
(* any other failure yields no candles                                     *)
DownloadFails ==
    /\ pc = "download"
    /\ frame' \in {Asked(Oldest), NoCandles}
    /\ pc' = "done"
    /\ UNCHANGED <<now, file, age, lock, job, asked, crashes>>

-----------------------------------------------------------------------------
(* safe_cache_write *)

(* The lock of a dead process counts for nothing *)
Lock ==
    /\ pc = "lock" /\ lock # "live"
    /\ lock' = "live" /\ pc' = "replace"
    /\ UNCHANGED <<now, file, age, job, frame, asked, crashes>>

(* After ten seconds the candles are used without being kept; so are they  *)
(* when the lock file cannot be written                                    *)
GiveUp ==
    /\ pc = "lock"
    /\ pc' = "done"
    /\ UNCHANGED <<now, file, age, lock, job, frame, asked, crashes>>

(* An equal file is left as it is, and a failure leaves the old one *)
Replace ==
    /\ pc = "replace"
    /\ \/ frame # file /\ file' = frame /\ age' = 0
       \/ UNCHANGED <<file, age>>
    /\ pc' = "unlock"
    /\ UNCHANGED <<now, lock, job, frame, asked, crashes>>

Unlock ==
    /\ pc = "unlock"
    /\ lock' \in {"none", lock}
    /\ pc' = "done"
    /\ UNCHANGED <<now, file, age, job, frame, asked, crashes>>

Done ==
    /\ pc = "done"
    /\ pc' = "idle" /\ frame' = NoCandles
    /\ UNCHANGED <<now, file, age, lock, job, asked, crashes>>

-----------------------------------------------------------------------------
(* cleanup_expired_cache *)
CleanUp ==
    /\ pc = "idle" /\ age > MaxAge
    /\ file' = NoCandles /\ age' = 0
    /\ UNCHANGED <<now, lock, pc, job, frame, asked, crashes>>

CandleCloses ==
    /\ now < LastCandle
    /\ now' = now + 1
    /\ age' = IF Missing THEN 0 ELSE age + 1
    /\ UNCHANGED <<file, lock, pc, job, frame, asked, crashes>>

(* The process dies; its number may be another's when the lock is looked at *)
Crash ==
    /\ crashes < MaxCrashes /\ crashes' = crashes + 1
    /\ lock' \in {lock, IF lock = "live" THEN "dead" ELSE lock}
    /\ pc' = "idle" /\ frame' = NoCandles
    /\ UNCHANGED <<now, file, age, job, asked>>

Init ==
    /\ now = 0 /\ file = NoCandles /\ age = 0 /\ lock = "none"
    /\ pc = "idle" /\ job = "trade" /\ frame = NoCandles /\ asked = 0 /\ crashes = 0

Jobs == {"trade", "backtest"}
Step ==
    \/ Read \/ ReadFails \/ Update \/ UpdateFails \/ Download \/ DownloadFails
    \/ Lock \/ GiveUp \/ Replace \/ Unlock \/ Done
Next == (\E j \in Jobs : Start(j)) \/ Step \/ CleanUp \/ CandleCloses \/ Crash

Spec == Init /\ [][Next]_vars

-----------------------------------------------------------------------------
(* What the candles are good for.                                          *)

Contiguous(f) == \A c \in Known(f) : \A d \in c..Newest(f) : d \in Known(f)
AllButLastWhole(f) == \A c \in Known(f) \ {Newest(f)} : f[c] = "whole"

(* A trading cycle decides on candles without a gap, all of them closed    *)
(* but the last, and no older than the cycle, whatever state the file is   *)
(* in; or it has none and does nothing.                                    *)
TradedIsWhole ==
    pc = "done" /\ job = "trade" /\ frame # NoCandles =>
        Contiguous(frame) /\ AllButLastWhole(frame) /\ Newest(frame) >= asked

(* The file only grows: neither a crash, a failed call nor an update makes *)
(* it lose a candle of the window, unless the whole file goes.             *)
OnlyGrows ==
    [][file' = NoCandles \/ {c \in Known(file) : c >= Oldest} \subseteq Known(file')]_vars

(* The candles of a backtest have no gap ("Checks: ... temporal gaps").    *)
BacktestedHasNoGap == pc = "done" /\ frame # NoCandles => Contiguous(frame)

(* ... and are those the exchange has, the forming one excepted ("Mise à   *)
(* jour intelligente du cache avec les dernières bougies").                *)
BacktestedIsFinal == pc = "done" /\ frame # NoCandles => AllButLastWhole(frame)
=============================================================================
