----------------------------- MODULE TapePoller -----------------------------
(***************************************************************************)
(* The Binance.US trade poller (scripts/collect_trades_binance_us.py): a   *)
(* scheduled pass reads its cursor, the highest trade id in the newest day *)
(* directory, pages the venue's tape from there and flushes what it got,   *)
(* one part file an hour.  A pass dies on any error of the network or the  *)
(* disk, and can be killed anywhere; the next one starts from the disk.    *)
(* The compaction of closed hours is left to TickArchive.                  *)
(***************************************************************************)
EXTENDS Naturals, FiniteSets, FiniteSetsExt

CONSTANTS
  NTrades,     \* bound: trades on the venue's tape, numbered in order
  PerHour,     \* trades stamped in one hour
  HoursPerDay,
  PageLimit,   \* PAGE_LIMIT
  MaxDeaths    \* bound: passes that die

Trades == 1 .. NTrades

HourOf(t) == (t - 1) \div PerHour

DayOf(t) == HourOf(t) \div HoursPerDay

VARIABLES
  made,    \* trades the venue made so far
  dirs,    \* day directories that exist
  copies,  \* [Trades -> Nat], copies of each trade in the archive
  step,    \* of the pass: "idle", "fetch" or "flush"
  cursor,  \* the id the next page starts from, 0 on a cold start
  batch,   \* rows in the sink
  deaths,
  husk     \* a cursor was read from a day directory without a row

pass == <<step, cursor, batch>>
vars == <<made, dirs, copies, step, cursor, batch, deaths, husk>>

TypeOK ==
  /\ made \in 0 .. NTrades /\ deaths \in 0 .. MaxDeaths /\ husk \in BOOLEAN
  /\ dirs \subseteq {DayOf(t) : t \in Trades}
  /\ copies \in [Trades -> 0 .. 2]
  /\ step \in {"idle", "fetch", "flush"} /\ cursor \in 0 .. NTrades + 1
  /\ batch \subseteq 1 .. made

Init == /\ made = 0 /\ dirs = {} /\ copies = [t \in Trades |-> 0]
        /\ step = "idle" /\ cursor = 0 /\ batch = {}
        /\ deaths = 0 /\ husk = FALSE

Stored == {t \in Trades : copies[t] > 0}

-----------------------------------------------------------------------------
Trade == /\ made < NTrades /\ made' = made + 1
         /\ UNCHANGED <<dirs, copies, pass, deaths, husk>>

(* last_stored_id: only the newest day directory is read.                  *)
Newest == {t \in Stored : DayOf(t) = Max(dirs)}

LastStored == IF dirs = {} \/ Newest = {} THEN 0 ELSE Max(Newest)

BeginAtLast ==
  /\ step = "idle" /\ step' = "fetch"
  /\ cursor' = LastStored
  /\ husk' = (husk \/ (dirs # {} /\ Newest = {}))
  /\ UNCHANGED <<made, dirs, copies, batch, deaths>>

Begin ==
  /\ step = "idle" /\ step' = "fetch"
  /\ cursor' = IF LastStored = 0 THEN 0 ELSE LastStored + 1
  /\ husk' = (husk \/ (dirs # {} /\ Newest = {}))
  /\ UNCHANGED <<made, dirs, copies, batch, deaths>>

(* fetch_agg_trades: a cold start takes the latest trade alone; otherwise  *)
(* pages follow until one is not full.                                     *)
FetchSeed ==
  /\ step = "fetch" /\ cursor = 0
  /\ batch' = IF made = 0 THEN {} ELSE {made}
  /\ step' = "flush"
  /\ UNCHANGED <<made, dirs, copies, cursor, deaths, husk>>

FetchPage ==
  /\ step = "fetch" /\ cursor # 0
  /\ LET page == {t \in cursor .. made : t < cursor + PageLimit}
         full == Cardinality(page) = PageLimit
     IN /\ batch' = batch \union page
        /\ cursor' = IF full THEN Max(page) + 1 ELSE cursor
        /\ step' = IF full THEN "fetch" ELSE "flush"
  /\ UNCHANGED <<made, dirs, copies, deaths, husk>>

(* flush: the rows of an hour are one part file, the hours in the order    *)
(* their first row came; the directory is made before the file is there.   *)
AnyGroup == {HourOf(t) : t \in batch}

Groups == {h \in {HourOf(t) : t \in batch} : h = Min({HourOf(t) : t \in batch})}

MakeDir(h) ==
  /\ step = "flush" /\ h \in Groups
  /\ h \div HoursPerDay \notin dirs
  /\ dirs' = dirs \union {h \div HoursPerDay}
  /\ UNCHANGED <<made, copies, pass, deaths, husk>>

WritePart(h) ==
  /\ step = "flush" /\ h \in Groups
  /\ h \div HoursPerDay \in dirs
  /\ LET rows == {t \in batch : HourOf(t) = h} IN
       /\ copies' = [t \in Trades |-> IF t \in rows THEN copies[t] + 1 ELSE copies[t]]
       /\ batch' = batch \ rows
  /\ UNCHANGED <<made, dirs, step, cursor, deaths, husk>>

Finish == /\ step = "flush" /\ batch = {}
          /\ step' = "idle" /\ cursor' = 0
          /\ UNCHANGED <<made, dirs, copies, batch, deaths, husk>>

(* The process is killed, or a request or a write raises: nothing catches  *)
(* it, and the rows in memory are gone.                                    *)
Die == /\ step # "idle" /\ deaths < MaxDeaths
       /\ deaths' = deaths + 1
       /\ step' = "idle" /\ cursor' = 0 /\ batch' = {}
       /\ UNCHANGED <<made, dirs, copies, husk>>

Next ==
  \/ Trade \/ Begin \/ FetchSeed \/ FetchPage
  \/ \E h \in {HourOf(t) : t \in Trades} : MakeDir(h) \/ WritePart(h)
  \/ Finish \/ Die

Spec == Init /\ [][Next]_vars

-----------------------------------------------------------------------------
(* Over passes that die anywhere, no trade is stored twice, and from the   *)
(* first one on none is skipped, unless a pass took its cursor from a day  *)
(* directory that a dead one had only made.                                *)
TapeOnce == \A t \in Trades : copies[t] <= 1

TapeWhole == husk \/ \A t \in Trades : (\E a, b \in Stored : a < t /\ t < b) => t \in Stored

TapeFollowed == TapeOnce /\ TapeWhole
-----------------------------------------------------------------------------
(* Why: the sink holds what comes right after the archive, in the order it *)
(* is flushed; a directory is made for rows there are; and the cursor is   *)
(* past all that is stored or in the sink, with nothing left out below it. *)
Placed ==
  /\ \A t \in Stored : t <= made /\ DayOf(t) \in dirs
  /\ \A d \in dirs : \E t \in 1 .. made : DayOf(t) = d
  /\ \A t \in batch, s \in Stored : s < t
  /\ step = "idle" => batch = {}

(* Of what is stored or in hand, nothing between two trades is left out.   *)
InHand == Stored \union batch

NoHole(S) == \A a, b \in S : \A t \in Trades : a < t /\ t < b => t \in S

Ahead ==
  step = "fetch" =>
    /\ cursor = 0 => batch = {} /\ (husk \/ Stored = {}) /\ \A s \in Stored : s < made
    /\ cursor # 0 => /\ \A t \in InHand : t < cursor
                     /\ husk \/ \A a \in InHand, t \in Trades : a < t /\ t < cursor => t \in InHand

IInv == TypeOK /\ Placed /\ (husk \/ NoHole(InHand)) /\ Ahead /\ TapeFollowed
=============================================================================
