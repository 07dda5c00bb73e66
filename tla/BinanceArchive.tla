--------------------------- MODULE BinanceArchive ---------------------------
(***************************************************************************)
(* The pull of Binance's public archive (scripts/                          *)
(* backfill_binance_archive.py) for one symbol and one datatype: a pool of *)
(* workers takes the periods of the request one by one; each asks for the  *)
(* checksum and the zip, verifies, files the rows and leaves a marker that *)
(* makes later runs skip the period.  A task may raise at any step, the    *)
(* process is killed anywhere and started again.                           *)
(*                                                                         *)
(* The venue publishes the zip and its checksum of a period at different   *)
(* times.  A download may come back damaged.                               *)
(***************************************************************************)
EXTENDS Naturals, FiniteSets

CONSTANTS
  Periods,  \* days of the request
  Chunks,   \* part files the rows of a period are written to
  Refused,  \* those validate_request refuses
  Workers,  \* MAX_CONCURRENCY
  MaxKills, \* bound: processes killed
  MaxNoise  \* bound: tasks that raise and downloads that come back damaged

VARIABLES
  zips, sums, \* periods of which the venue has the zip, the checksum
  todo,       \* tasks of this run that no worker has taken yet
  work,       \* [Workers -> the task]
  copies,     \* [Periods -> [Chunks -> Nat]], times those rows were filed
  marker,     \* [Periods -> status of the .done file], "none" without one
  kills, noise,
  torn,       \* periods whose task ended between its first rows and the marker
  damaged,    \* periods whose rows came from a damaged zip
  unsummed    \* periods whose checksum was asked for before it was published

remote == <<zips, sums>>
history == <<torn, damaged, unsummed>>
vars == <<zips, sums, todo, work, copies, marker, kills, noise, torn, damaged, unsummed>>

NoTask == [step |-> "idle", period |-> CHOOSE p \in Periods : TRUE, sum |-> FALSE, good |-> TRUE, landed |-> {}]

Task(step, p, sum, good) == [step |-> step, period |-> p, sum |-> sum, good |-> good, landed |-> {}]

Statuses == {"none", "missing", "empty", "written"}

TypeOK ==
  /\ zips \subseteq Periods /\ sums \subseteq Periods /\ todo \subseteq Periods
  /\ work \in [Workers -> [step : {"idle", "sum", "zip", "read", "file", "mark"}, period : Periods,
                           sum : BOOLEAN, good : BOOLEAN, landed : SUBSET Chunks]]
  /\ copies \in [Periods -> [Chunks -> Nat]] /\ marker \in [Periods -> Statuses]
  /\ kills \in 0 .. MaxKills /\ noise \in 0 .. MaxNoise
  /\ torn \subseteq Periods /\ damaged \subseteq Periods /\ unsummed \subseteq Periods

Init == /\ zips \in SUBSET Periods /\ sums \in SUBSET zips
        /\ todo = Periods /\ work = [w \in Workers |-> NoTask]
        /\ copies = [p \in Periods |-> [c \in Chunks |-> 0]] /\ marker = [p \in Periods |-> "none"]
        /\ kills = 0 /\ noise = 0
        /\ torn = {} /\ damaged = {} /\ unsummed = {}

Publish(p) ==
  /\ \/ p \notin zips /\ zips' = zips \union {p} /\ UNCHANGED sums
     \/ p \notin sums /\ sums' = sums \union {p} /\ UNCHANGED zips
  /\ UNCHANGED <<todo, work, copies, marker, kills, noise, history>>

-----------------------------------------------------------------------------
(* process_one, step by step.  A marker of any status ends the period.     *)
Done(w) == work' = [work EXCEPT ![w] = NoTask]

Goes(w, task) == work' = [work EXCEPT ![w] = task]

At(w, step) == work[w].step = step

Take(w, p) ==
  /\ At(w, "idle") /\ p \in todo
  /\ todo' = todo \ {p}
  /\ IF marker[p] # "none" \/ p \in Refused THEN UNCHANGED work ELSE Goes(w, Task("sum", p, FALSE, TRUE))
  /\ UNCHANGED <<remote, copies, marker, kills, noise, history>>

(* A 404 of the checksum is no checksum; the zip is asked for anyway.      *)
FetchSum(w) ==
  /\ At(w, "sum")
  /\ LET p == work[w].period IN
       /\ Goes(w, Task("zip", p, p \in sums, TRUE))
       /\ unsummed' = IF p \in sums THEN unsummed ELSE unsummed \union {p}
  /\ UNCHANGED <<remote, todo, copies, marker, kills, noise, torn, damaged>>

(* Whatever goes wrong ends the task without a marker: a network error, a  *)
(* zip without a CSV, a column nobody expects, a number or a timestamp     *)
(* that is none, a part file, a compaction or a marker that cannot be      *)
(* written.  The rows it filed stay; the other tasks of the pool go on.    *)
Raises(w) ==
  /\ ~At(w, "idle") /\ noise < MaxNoise
  /\ noise' = noise + 1
  /\ torn' = IF work[w].landed = {} THEN torn ELSE torn \union {work[w].period}
  /\ Done(w)
  /\ UNCHANGED <<remote, todo, copies, marker, kills, damaged, unsummed>>

ZipMissing(w) ==
  /\ At(w, "zip") /\ work[w].period \notin zips
  /\ marker' = [marker EXCEPT ![work[w].period] = "missing"]
  /\ Done(w)
  /\ UNCHANGED <<remote, todo, copies, kills, noise, history>>

(* The bytes are compared with the checksum when there is one; a mismatch  *)
(* ends the task without a marker, so that a later run tries again.        *)
RejectsNothing(sum, good) == FALSE

Rejects(sum, good) == sum /\ ~good

FetchZip(w, good) ==
  /\ At(w, "zip") /\ work[w].period \in zips
  /\ good \/ noise < MaxNoise
  /\ noise' = IF good THEN noise ELSE noise + 1
  /\ IF Rejects(work[w].sum, good) THEN Done(w) ELSE Goes(w, Task("read", work[w].period, work[w].sum, good))
  /\ UNCHANGED <<remote, todo, copies, marker, kills, history>>

(* parse_csv, with a header or without, and normalize_row by row (one of   *)
(* another width is dropped); a damaged zip may read as well as any.       *)
Read(w) ==
  /\ At(w, "read")
  /\ Goes(w, [work[w] EXCEPT !.step = "file"])
  /\ UNCHANGED <<remote, todo, copies, marker, kills, noise, history>>

NoRows(w) ==
  /\ At(w, "read")
  /\ marker' = [marker EXCEPT ![work[w].period] = "empty"]
  /\ Done(w)
  /\ UNCHANGED <<remote, todo, copies, kills, noise, history>>

(* write_rows: the sink lands one part file after the other; then each     *)
(* hour is compacted, which files nothing; the marker comes last.          *)
FileRows(w, c) ==
  /\ At(w, "file") /\ c \notin work[w].landed
  /\ LET p == work[w].period IN
       /\ copies' = [copies EXCEPT ![p][c] = @ + 1]
       /\ damaged' = IF work[w].good THEN damaged ELSE damaged \union {p}
  /\ Goes(w, [work[w] EXCEPT !.landed = @ \union {c}])
  /\ UNCHANGED <<remote, todo, marker, kills, noise, torn, unsummed>>

RowsLanded(w) == At(w, "file") /\ work[w].landed = Chunks

Compact(w) ==
  /\ RowsLanded(w)
  /\ Goes(w, [work[w] EXCEPT !.step = "mark"])
  /\ UNCHANGED <<remote, todo, copies, marker, kills, noise, history>>

Mark(w) ==
  /\ At(w, "mark")
  /\ marker' = [marker EXCEPT ![work[w].period] = "written"]
  /\ Done(w)
  /\ UNCHANGED <<remote, todo, copies, kills, noise, history>>

-----------------------------------------------------------------------------
Kill ==
  /\ kills < MaxKills /\ \E w \in Workers : ~At(w, "idle")
  /\ kills' = kills + 1
  /\ torn' = torn \union {work[w].period : w \in {v \in Workers : work[v].landed # {}}}
  /\ todo' = {} /\ work' = [w \in Workers |-> NoTask]
  /\ UNCHANGED <<remote, copies, marker, noise, damaged, unsummed>>

(* The same request, run again.                                            *)
Rerun ==
  /\ todo = {} /\ \A w \in Workers : At(w, "idle")
  /\ todo' = Periods
  /\ UNCHANGED <<remote, work, copies, marker, kills, noise, history>>

Next ==
  \/ \E p \in Periods : Publish(p)
  \/ \E w \in Workers :
       \/ \E p \in Periods : Take(w, p)
       \/ FetchSum(w) \/ Raises(w) \/ ZipMissing(w)
       \/ \E good \in BOOLEAN : FetchZip(w, good)
       \/ Read(w) \/ NoRows(w) \/ \E c \in Chunks : FileRows(w, c)
       \/ Compact(w) \/ Mark(w)
  \/ Kill \/ Rerun

Spec == Init /\ [][Next]_vars

-----------------------------------------------------------------------------
(* Over any number of runs, failures and kills: no row of a period is      *)
(* filed twice, unless a task ended between its first rows and the marker; *)
(* a period marked written has all its rows; and a damaged download is     *)
(* filed only when the checksum was not there to compare it with.          *)
PulledOnce ==
  /\ \A p \in Periods, c \in Chunks : copies[p][c] <= 1 \/ p \in torn
  /\ \A p \in Periods, c \in Chunks : marker[p] = "written" => copies[p][c] >= 1
  /\ damaged \subseteq unsummed

(* What the module says of every file: verified before any write.          *)
Verified == damaged = {}
-----------------------------------------------------------------------------
(* Why: at most one worker has a period in hand, and while one does, or    *)
(* the period is still to be taken, its rows are filed only if a task left *)
(* them; what a worker says landed is there; and a download that nothing   *)
(* was compared with had no checksum.                                      *)
Busy(w) == ~At(w, "idle")

OneEach ==
  /\ \A v, w \in Workers : v # w /\ Busy(v) /\ Busy(w) => work[v].period # work[w].period
  /\ \A w \in Workers : Busy(w) => work[w].period \notin todo

Filing(p, c) == \E w \in Workers : work[w].period = p /\ c \in work[w].landed

FiledIsKnown ==
  /\ \A p \in Periods, c \in Chunks : copies[p][c] >= 1 => p \in torn \/ marker[p] # "none" \/ Filing(p, c)
  /\ \A w \in Workers : Busy(w) => marker[work[w].period] = "none"
  /\ \A w \in Workers : \A c \in work[w].landed : copies[work[w].period][c] >= 1
  /\ \A w \in Workers : work[w].landed # {} => work[w].step \in {"file", "mark"}
  /\ \A w \in Workers : At(w, "mark") => work[w].landed = Chunks

UnverifiedIsKnown ==
  \A w \in Workers : work[w].step # "idle" =>
    /\ work[w].step # "sum" /\ ~work[w].sum => work[w].period \in unsummed
    /\ work[w].sum => work[w].good

IInv == TypeOK /\ OneEach /\ FiledIsKnown /\ UnverifiedIsKnown /\ PulledOnce
=============================================================================
