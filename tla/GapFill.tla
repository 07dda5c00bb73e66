------------------------------- MODULE GapFill -------------------------------
(***************************************************************************)
(* The REST backfill of trade hours the Kraken collector missed (scripts/  *)
(* backfill_ticks.py), for one pair: an inventory of the hours without a   *)
(* file, pages of the venue's tape over each gap, and one file an hour.    *)
(* The collector is still running: rows it holds land as part files at     *)
(* any moment.  The fill dies on any error, and leaves what it had opened. *)
(***************************************************************************)
EXTENDS Naturals, FiniteSets, FiniteSetsExt

CONSTANTS
  Hours,     \* 0 .. n, the last one still in progress
  PerHour,   \* trades the venue made in each hour
  PageLimit, \* trades the venue answers at most
  Anchor,    \* the earliest hour with a book file
  MaxDeaths  \* bound: fills that die

Trades == 1 .. PerHour * Cardinality(Hours)

HourOf(t) == (t - 1) \div PerHour

Of(h) == {t \in Trades : HourOf(t) = h}

Current == Max(Hours)

VARIABLES
  collected, \* rows of the pair in the collector's files
  held,      \* rows still in the collector's memory
  filled,    \* rows in files the fill wrote
  torn,      \* hours whose file the fill opened and did not finish
  step,      \* "idle", "page", "check" or "write"
  todo,      \* missing hours of this fill
  span,      \* the hours of the gap under way
  next,      \* the trade the next page starts from
  pending,   \* rows of the gap
  target,    \* the hour being written
  deaths,
  overtaken, \* hours of which rows landed after the fill found none
  overshot   \* hours written with what a page brought past the end of its gap

fill == <<step, todo, span, next, pending, target>>
vars == <<collected, held, filled, torn, step, todo, span, next, pending, target, deaths, overtaken, overshot>>

TypeOK ==
  /\ collected \subseteq Trades /\ held \subseteq Trades /\ filled \subseteq Trades
  /\ torn \subseteq Hours /\ todo \subseteq Hours /\ span \subseteq Hours /\ overtaken \subseteq Hours
  /\ overshot \subseteq Hours
  /\ step \in {"idle", "page", "check", "write"}
  /\ next \in 1 .. Cardinality(Trades) + 1 /\ pending \subseteq Trades /\ target \in Hours
  /\ deaths \in 0 .. MaxDeaths

Init == /\ collected \in SUBSET Trades
        /\ held \in SUBSET (Trades \ collected) /\ Cardinality(held) <= 1
        /\ filled = {} /\ torn = {}
        /\ step = "idle" /\ todo = {} /\ span = {} /\ next = 1 /\ pending = {} /\ target = 0
        /\ deaths = 0 /\ overtaken = {} /\ overshot = {}

(* _present_hours_in_dir: a file of the hour, by its name alone.           *)
Present(h) == h \in torn \/ (collected \union filled) \intersect Of(h) # {}

-----------------------------------------------------------------------------
(* The sink flushes the rows it held of an hour.                           *)
Land(h) ==
  /\ held \intersect Of(h) # {}
  /\ collected' = collected \union (held \intersect Of(h))
  /\ held' = held \ Of(h)
  /\ overtaken' = IF filled \intersect Of(h) # {} \/ h \in torn \/ (step = "write" /\ target = h)
                  THEN overtaken \union {h} ELSE overtaken
  /\ UNCHANGED <<filled, torn, fill, deaths, overshot>>

(* inventory and missing_hours: from the first hour with trades, or from   *)
(* the anchor when there never were any, up to the current hour.           *)
Missing ==
  LET present == {h \in Hours : Present(h)}
      first == IF present = {} THEN Anchor ELSE Min(present)
  IN {h \in Hours : first <= h /\ h < Current /\ h \notin present}

(* gap_spans: the first run of consecutive missing hours.                  *)
FirstSpan(hs) ==
  {h \in hs : \A g \in Min(hs) .. h : g \in hs}

Inventory ==
  /\ step = "idle" /\ Missing # {}
  /\ todo' = Missing /\ span' = FirstSpan(Missing)
  /\ next' = Min(Of(Min(Missing)))
  /\ pending' = {} /\ step' = "page"
  /\ UNCHANGED <<collected, held, filled, torn, target, deaths, overtaken, overshot>>

(* One page of the tape.  The rows of missing hours are set aside; paging  *)
(* ends once the cursor is past the gap.                                   *)
PastStart(cursor) == cursor > Min(Of(Max(span)))

Past(cursor) == cursor > Max(Of(Max(span)))

Page ==
  /\ step = "page"
  /\ LET page == {t \in Trades : next <= t /\ t < next + PageLimit} IN
       /\ pending' = pending \union {t \in page : HourOf(t) \in todo}
       /\ next' = next + Cardinality(page)
       /\ step' = IF page = {} \/ Past(next') THEN "check" ELSE "page"
  /\ UNCHANGED <<collected, held, filled, torn, todo, span, target, deaths, overtaken, overshot>>

(* write_hour: collected data wins.  The check and the write are two       *)
(* steps, and the file is written in place.                                *)
Check ==
  /\ step = "check" /\ pending # {}
  /\ LET h == Min({HourOf(t) : t \in pending}) IN
       IF Present(h)
       THEN pending' = pending \ Of(h) /\ UNCHANGED <<target, step>>
       ELSE target' = h /\ step' = "write" /\ UNCHANGED pending
  /\ UNCHANGED <<collected, held, filled, torn, todo, span, next, deaths, overtaken, overshot>>

OpenFile ==
  /\ step = "write" /\ target \notin torn
  /\ torn' = torn \union {target}
  /\ UNCHANGED <<collected, held, filled, fill, deaths, overtaken, overshot>>

CloseFile ==
  /\ step = "write" /\ target \in torn
  /\ torn' = torn \ {target}
  /\ filled' = filled \union (pending \intersect Of(target))
  /\ pending' = pending \ Of(target)
  /\ overshot' = IF target \in span THEN overshot ELSE overshot \union {target}
  /\ step' = "check"
  /\ UNCHANGED <<collected, held, todo, span, next, target, deaths, overtaken>>

NextSpan ==
  /\ step = "check" /\ pending = {}
  /\ todo' = todo \ span
  /\ IF todo' = {}
     THEN step' = "idle" /\ UNCHANGED <<span, next>>
     ELSE step' = "page" /\ span' = FirstSpan(todo') /\ next' = Min(Of(Min(todo')))
  /\ UNCHANGED <<collected, held, filled, torn, pending, target, deaths, overtaken, overshot>>

Die ==
  /\ step # "idle" /\ deaths < MaxDeaths
  /\ deaths' = deaths + 1 /\ step' = "idle" /\ pending' = {}
  /\ UNCHANGED <<collected, held, filled, torn, todo, span, next, target, overtaken, overshot>>

Next == (\E h \in Hours : Land(h)) \/ Inventory \/ Page \/ Check \/ OpenFile \/ CloseFile \/ NextSpan \/ Die

Spec == Init /\ [][Next]_vars

-----------------------------------------------------------------------------
(* An hour the fill wrote while it filled the gap of that hour holds every *)
(* trade of it, over deaths and pages of any size; and an hour the         *)
(* collector has rows of is left to it, unless they landed after the fill  *)
(* had looked.                                                             *)
FilledWhole ==
  \A h \in Hours :
    filled \intersect Of(h) # {} =>
      /\ Of(h) \subseteq filled \/ h \in overshot
      /\ collected \intersect Of(h) = {} \/ h \in overtaken
-----------------------------------------------------------------------------
(* Why: the trades of the gap before the cursor are all set aside, so that  *)
(* once paging has ended each hour of the gap is there whole; and an hour   *)
(* being written was left empty by the collector, or is overtaken.          *)
Paged ==
  step = "page" =>
    /\ span # {} /\ span \subseteq todo
    /\ \A t \in Trades : HourOf(t) \in span /\ t < next => t \in pending

Whole ==
  step \in {"check", "write"} =>
    \A h \in span : pending \intersect Of(h) # {} => Of(h) \subseteq pending

Unclaimed == step = "write" => collected \intersect Of(target) = {} \/ target \in overtaken

IInv == TypeOK /\ Paged /\ Whole /\ Unclaimed /\ FilledWhole
=============================================================================
