----------------------------- MODULE MarketData -----------------------------
(***************************************************************************)
(* Bars for the analysis engine (mae/_runtime.py, get_closed_bars) and for *)
(* its macro context (mae/_data/macro.py): the cache file that several     *)
(* processes share (mae/_data/cache.py), the providers behind it           *)
(* (kraken.py, alpaca_data.py, yfinance) and their retry and token bucket  *)
(* (mae/_data/ratelimit.py).                                               *)
(*                                                                         *)
(* Time is a count of ticks and bar b opens at tick b * Width.  A bar is   *)
(* told by how many of its ticks had passed when the venue answered, so    *)
(* that Width is its final value and 0 no bar at all.  A call reads the    *)
(* local clock once, before it asks anybody; the venue goes by its own.    *)
(***************************************************************************)
EXTENDS Integers, FiniteSets, FiniteSetsExt

CONSTANTS
  Callers,     \* processes that share cache.db
  Width,       \* TIMEFRAME_SECONDS, in ticks
  Lookback,    \* bars asked for; the lookback is a whole number of bars
  PageSize,    \* bars in a page of Alpaca's answer
  MaxPages,    \* _MAX_PAGES
  MaxAttempts, \* max_attempts of call_with_retry
  Capacity,    \* of the bucket, with one token a tick
  MaxTime,     \* bound: the venue's clock
  MaxTrouble   \* bound: requests that fail, cache files deleted, clock steps

Sources == {"kraken", "alpaca", "yfinance"}

Bars == 0 .. MaxTime \div Width

NoBars == [b \in Bars |-> 0]

Final(b, at) == (b + 1) * Width <= at

VARIABLES
  source,  \* the provider of the symbol
  now,     \* the venue's clock
  drift,   \* the local clock is that much ahead of it
  cache,   \* [Bars -> value], the rows of the symbol in cache.db
  call,    \* [Callers -> the call under way, or the last one]
  trouble,
  fast     \* the local clock was ahead when some call read it

vars == <<source, now, drift, cache, call, trouble, fast>>

Idle == [step |-> "idle", end |-> 0, got |-> NoBars, from |-> 0, pages |-> 0, attempt |-> 0,
         tokens |-> Capacity, checked |-> 0, began |-> 0, stale |-> FALSE]

TypeOK ==
  /\ source \in Sources /\ now \in 0 .. MaxTime /\ drift \in -1 .. 1
  /\ cache \in [Bars -> 0 .. Width]
  /\ call \in [Callers -> [step : {"idle", "read", "acquire", "request", "store", "answered", "raised"},
                           end : 0 .. MaxTime + 1, got : [Bars -> 0 .. Width], from : Nat,
                           pages : 0 .. MaxPages, attempt : 0 .. MaxAttempts,
                           tokens : 0 .. Capacity, checked : 0 .. MaxTime, began : 0 .. MaxTime,
                           stale : BOOLEAN]]
  /\ trouble \in 0 .. MaxTrouble /\ fast \in BOOLEAN

Init == /\ source \in Sources
        /\ now = Lookback * Width + 1 /\ drift = 0
        /\ cache = NoBars /\ call = [c \in Callers |-> Idle]
        /\ trouble = 0 /\ fast = FALSE

At(c, step) == call[c].step = step

Troubles == trouble < MaxTrouble /\ trouble' = trouble + 1

Start(c) == call[c].end - Lookback * Width

(* The bars of the range [start, end).                                     *)
InRange(c) == {b \in Bars : Start(c) <= b * Width /\ b * Width < call[c].end}

-----------------------------------------------------------------------------
Tick == /\ now < MaxTime /\ now' = now + 1
        /\ UNCHANGED <<source, drift, cache, call, trouble, fast>>

(* The host's clock is stepped.                                            *)
ClockStep == /\ Troubles /\ drift' \in -1 .. 1
             /\ UNCHANGED <<source, now, cache, call, fast>>

(* Every operation opens the file anew, and makes it when it is gone.      *)
DeleteCache == /\ Troubles /\ cache' = NoBars
               /\ UNCHANGED <<source, now, drift, call, fast>>

(* One clock reading for a call, and a provider with a full bucket of its  *)
(* own.                                                                    *)
Ask(c) ==
  /\ call[c].step \in {"idle", "answered", "raised"}
  /\ now + drift >= Lookback * Width
  /\ call' = [call EXCEPT ![c] = [Idle EXCEPT !.step = "read", !.end = now + drift,
                                              !.checked = now, !.began = now]]
  /\ fast' = (fast \/ drift > 0)
  /\ UNCHANGED <<source, now, drift, cache, trouble>>

(* get_or_fetch.  The range is a whole number of bars, so it is taken for  *)
(* fully closed; the rows expected in the cache open at the start and a    *)
(* width apart, which are rows of the cache only when the clock was read   *)
(* at the very opening of a bar.                                           *)
Hit(c) == Start(c) % Width = 0 /\ \A b \in InRange(c) : cache[b] # 0

ReadCache(c) ==
  /\ At(c, "read")
  /\ call' = [call EXCEPT ![c] =
                IF Hit(c)
                THEN [@ EXCEPT !.step = "answered",
                               !.got = [b \in Bars |-> IF b \in InRange(c) THEN cache[b] ELSE 0]]
                ELSE [@ EXCEPT !.step = "acquire", !.from = Min(InRange(c) \union {Max(Bars) + 1})]]
  /\ UNCHANGED <<source, now, drift, cache, trouble, fast>>

-----------------------------------------------------------------------------
(* try_acquire: what the bucket gained since it was last looked at, then   *)
(* one token; a caller without one sleeps for as long as it takes.  Each   *)
(* page takes a token, a retry of it none; yfinance has no bucket.         *)
RefilledForever(c) == Min({Capacity, call[c].tokens + (now - call[c].began)})

Refilled(c) == Min({Capacity, call[c].tokens + (now - call[c].checked)})

Acquire(c) ==
  /\ At(c, "acquire")
  /\ source # "yfinance" => Refilled(c) >= 1
  /\ call' = [call EXCEPT ![c].step = "request", ![c].attempt = 0,
                          ![c].tokens = IF source = "yfinance" THEN @ ELSE Refilled(c) - 1,
                          ![c].checked = now]
  /\ UNCHANGED <<source, now, drift, cache, trouble, fast>>

(* The bars of one answer, as the venue has them at this moment.           *)
Page(c) ==
  LET wanted == {b \in InRange(c) : b >= call[c].from /\ b * Width < now} IN
  IF source = "alpaca" THEN {b \in wanted : b < call[c].from + PageSize} ELSE wanted

ValueNow(b) == Min({Width, now - b * Width})

Served(c) ==
  /\ At(c, "request")
  /\ LET page == Page(c)
         more == source = "alpaca" /\ page # {} /\ \E b \in InRange(c) : b > Max(page) /\ b * Width < now
         capped == more /\ call[c].pages + 1 >= MaxPages
     IN call' = [call EXCEPT
          ![c].got = [b \in Bars |-> IF b \in page THEN ValueNow(b) ELSE @[b]],
          ![c].pages = Min({@ + 1, MaxPages}),
          ![c].from = IF page = {} THEN @ ELSE Max(page) + 1,
          ![c].step = IF capped THEN "raised" ELSE IF more THEN "acquire" ELSE "store"]
  /\ UNCHANGED <<source, now, drift, cache, trouble, fast>>

(* Macro context never raises: what the cache has, marked stale.           *)
Fails(c) ==
  call' = [call EXCEPT ![c] =
             IF source = "yfinance"
             THEN [@ EXCEPT !.step = "answered", !.got = cache, !.stale = TRUE]
             ELSE [@ EXCEPT !.step = "raised"]]

(* 5xx and timeouts are tried again, a 4xx, a body that makes no sense and *)
(* a broken connection are not; yfinance is tried once.                    *)
Busy(c) ==
  /\ At(c, "request") /\ Troubles
  /\ IF source = "yfinance" \/ call[c].attempt + 1 >= MaxAttempts
     THEN Fails(c)
     ELSE call' = [call EXCEPT ![c].attempt = @ + 1]
  /\ UNCHANGED <<source, now, drift, cache, fast>>

Refused(c) ==
  /\ At(c, "request") /\ Troubles
  /\ Fails(c)
  /\ UNCHANGED <<source, now, drift, cache, fast>>

-----------------------------------------------------------------------------
(* _upsert_closed: the bars that had closed when the call read the clock.  *)
ClosedAtStore(c, b) == Final(b, now + drift)

ClosedByEnd(c, b) == Final(b, call[c].end)

Upsert(c) == [b \in Bars |-> IF call[c].got[b] # 0 /\ ClosedByEnd(c, b) THEN call[c].got[b] ELSE cache[b]]

(* get_closed_bars strips the live bar from its answer, get_macro_bars     *)
(* does not.                                                               *)
Stripped(c) == [b \in Bars |-> IF source = "yfinance" \/ ClosedByEnd(c, b) THEN call[c].got[b] ELSE 0]

Store(c) ==
  /\ At(c, "store")
  /\ cache' = Upsert(c)
  /\ call' = [call EXCEPT ![c].step = "answered", ![c].got = Stripped(c)]
  /\ UNCHANGED <<source, now, drift, trouble, fast>>

Next ==
  \/ Tick \/ ClockStep \/ DeleteCache
  \/ \E c \in Callers : Ask(c) \/ ReadCache(c) \/ Acquire(c) \/ Served(c) \/ Busy(c) \/ Refused(c) \/ Store(c)

Spec == Init /\ [][Next]_vars

-----------------------------------------------------------------------------
(* Unless a call was made on a clock that ran ahead of the venue's: a bar  *)
(* of the cache is never a live one, whoever stored it; and an answer is   *)
(* each bar of the lookback that had closed when the call began, no bar    *)
(* that had not, all at their final value, over retries, pages, deleted    *)
(* cache files and the calls of other processes.                           *)
CacheIsFinal == \A b \in Bars : cache[b] \in {0, Width}

Complete(c) == \A b \in InRange(c) : Final(b, call[c].end) => call[c].got[b] = Width

NothingLive(c) == \A b \in Bars : call[c].got[b] # 0 => Final(b, call[c].end) /\ call[c].got[b] = Width

BarsAreFinal ==
  fast \/ /\ CacheIsFinal
          /\ \A c \in Callers :
               At(c, "answered") =>
                 /\ ~call[c].stale => Complete(c)
                 /\ source # "yfinance" => NothingLive(c)
                 /\ call[c].stale => \A b \in Bars : call[c].got[b] \in {0, Width}

(* One call never asks for more pages than its bucket's burst and a page a *)
(* tick since it began.                                                    *)
PagesArePolite ==
  source = "alpaca" =>
    \A c \in Callers : call[c].pages <= Capacity + (now - call[c].began)

-----------------------------------------------------------------------------
(* What BarsAreFinal and PagesArePolite rest on.  A call under way asked    *)
(* for nothing the venue had not closed, has every bar before the one its   *)
(* next page begins with, and that one is of its range while any is left;   *)
(* what it got of a bar that had closed is final.                           *)
UnderWay(c) == call[c].step \in {"read", "acquire", "request", "store"}

Caught(c) ==
  /\ UnderWay(c) => call[c].end <= now /\ ~call[c].stale
  /\ call[c].step \in {"acquire", "request"} =>
       \A b \in InRange(c) : IF b < call[c].from THEN Final(b, call[c].end) => call[c].got[b] = Width
                                                 ELSE call[c].from \in InRange(c)
  /\ At(c, "store") => Complete(c)
  /\ UnderWay(c) => \A b \in Bars : Final(b, call[c].end) => call[c].got[b] \in {0, Width}

(* A page is paid for by a token when it is asked for, and a token by a     *)
(* tick since the bucket was full.                                          *)
Paid(c) ==
  /\ call[c].began <= call[c].checked /\ call[c].checked <= now
  /\ source # "yfinance" =>
       call[c].tokens + call[c].pages + (IF At(c, "request") THEN 1 ELSE 0)
         <= Capacity + (call[c].checked - call[c].began)

IInv == /\ TypeOK /\ BarsAreFinal
        /\ \A c \in Callers : Paid(c) /\ (fast \/ Caught(c))
=============================================================================
