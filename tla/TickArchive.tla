----------------------------- MODULE TickArchive -----------------------------
(***************************************************************************)
(* One stream of one symbol in the tick archive: the sink that buffers     *)
(* rows and lands them in numbered part files (scripts/collector_core.py,  *)
(* PartitionedParquetSink), the compaction that merges the parts of a      *)
(* closed hour into its hourly file (compact_hour, compact_batch.py) under *)
(* a lock file, and the two kinds of collector that feed the sink: a       *)
(* socket (run_ws_collector) and the equities poller, whose cursor is the  *)
(* newest row it finds in the archive (collect_equities_alpaca.py).        *)
(*                                                                         *)
(* A row is its number on the venue's tape; RowsPerHour of them are        *)
(* stamped in each hour.  A file is the rows it holds; an hourly file may  *)
(* hold one twice.  Collectors and compactors are processes: any of them   *)
(* is killed between two steps on the disk, and any read of a file fails.  *)
(***************************************************************************)
EXTENDS Naturals, FiniteSets, FiniteSetsExt, Functions

CONSTANTS
  NRows,        \* bound: rows on the venue's tape
  RowsPerHour,  \* rows stamped in one hour
  HoursPerDay,  \* 24
  Lookback,     \* max_lookback_days, in hours
  MaxParts,     \* bound: part numbers of an hour
  Compactors,   \* processes running compact_batch.py --execute, without --force
  MaxFaults     \* bound: processes killed, and reads, writes and requests that fail

ASSUME ArchiveAssumption ==
  /\ NRows \in Nat \ {0} /\ RowsPerHour \in Nat \ {0} /\ HoursPerDay \in Nat \ {0}
  /\ Lookback \in Nat /\ MaxParts \in Nat \ {0} /\ MaxFaults \in Nat
  /\ IsFiniteSet(Compactors) /\ Compactors # {}
  /\ {"absent", "blank", "dead"} \cap Compactors = {}

Rows == 1 .. NRows

HourOf(r) == (r - 1) \div RowsPerHour

DayOf(h) == h \div HoursPerDay

Hours == 0 .. HourOf(NRows) + 1   \* all closed but the last one

Indexes == 0 .. MaxParts - 1

Unseeded == MaxParts + 1   \* no entry in _part_seq yet

VARIABLES
  feed,         \* "socket" or "poller"
  crew,         \* the compactors that are ever started
  hour,         \* the wall clock
  parts,        \* [Hours -> [Indexes -> SUBSET Rows]], {} when there is no such file
  hourly,       \* [Hours -> [Rows -> Nat]], copies of each row in the hourly file
  buffer,       \* rows in the sink's memory
  seq,          \* [Hours -> next part number], _part_seq
  landed,       \* rows the sink ever renamed into place
  gone,         \* rows that were in memory when a collector was killed
  poll,         \* the poller's pass
  comp,         \* [Compactors -> the process]
  lock,         \* .compact-batch.lock: absent, of a process, or what a dead one left,
                \* with its pid in it ("dead") or without one ("blank")
  faults,       \* of them so far
  cut,          \* hours whose compaction ended after the rename with parts left
  raced,        \* a cursor was read that is not the newest row stored
  warned,       \* rows of the parts a compaction could not read: WARN, skipped
  skipped,      \* rows older than the lookback when the poller came to them
  contested     \* a takeover unlinked the lock of a live process

clock == <<feed, crew, hour>>
disk == <<parts, hourly>>
memory == <<buffer, seq>>
told == <<landed, warned, skipped>>
history == <<told, gone, faults, cut, raced, contested>>
vars == <<clock, disk, memory, poll, comp, lock, history>>

NoFile == [i \in Indexes |-> {}]

NoRows == [r \in Rows |-> 0]

Idle == [step |-> "idle", now |-> 0, hour |-> 0, merging |-> {}, merged |-> NoRows]

NoPass == [step |-> "idle", hour |-> 0, names |-> {}, whole |-> FALSE]

Working == {"units", "read", "rename", "unlink", "between"}

CompSteps == Working \cup {"idle", "create", "takeover", "recreate", "pid"}

TypeOK ==
  /\ feed \in {"socket", "poller"} /\ crew \in SUBSET Compactors /\ hour \in Hours
  /\ parts \in [Hours -> [Indexes -> SUBSET Rows]]
  /\ hourly \in [Hours -> [Rows -> Nat]]
  /\ buffer \subseteq Rows /\ landed \subseteq Rows /\ gone \subseteq Rows
  /\ seq \in [Hours -> Indexes \cup {MaxParts, Unseeded}]
  /\ poll \in [step : {"idle", "names", "flush"}, hour : Hours, names : SUBSET Indexes,
              whole : BOOLEAN]
  /\ comp \in [Compactors -> [step : CompSteps, now : Hours, hour : Hours,
                              merging : SUBSET Indexes, merged : [Rows -> Nat]]]
  /\ lock \in {"absent", "blank", "dead"} \cup Compactors
  /\ lock \in Compactors => comp[lock].step \in Working \cup {"pid"}
  /\ faults \in 0 .. MaxFaults /\ cut \subseteq Hours /\ raced \in BOOLEAN
  /\ warned \subseteq Rows /\ skipped \subseteq Rows /\ contested \in BOOLEAN

Init ==
  /\ feed \in {"socket", "poller"}
  /\ crew \in {{CHOOSE c \in Compactors : TRUE}} \cup (IF feed = "socket" THEN {Compactors} ELSE {})
  /\ hour = 0
  /\ parts = [h \in Hours |-> NoFile]
  /\ hourly = [h \in Hours |-> NoRows]
  /\ buffer = {} /\ seq = [h \in Hours |-> Unseeded]
  /\ poll = NoPass
  /\ comp = [c \in Compactors |-> Idle]
  /\ lock = "absent"
  /\ landed = {} /\ gone = {} /\ faults = 0 /\ cut = {} /\ raced = FALSE
  /\ warned = {} /\ skipped = {} /\ contested = FALSE
-----------------------------------------------------------------------------
(* What is on the disk. *)

PartsOf(h) == {i \in Indexes : parts[h][i] # {}}

Copies(r) == LET h == HourOf(r)
             IN  hourly[h][r] + Cardinality({i \in Indexes : r \in parts[h][i]})

Stored == {r \in Rows : Copies(r) > 0}

Fault == faults < MaxFaults /\ faults' = faults + 1
-----------------------------------------------------------------------------
(* The sink. *)

Stamped(h) == {r \in buffer : HourOf(r) = h}

(* Faulty: the counter of a new sink starts at 0. *)
SeedPartAtZero(h) ==
  /\ Stamped(h) # {} /\ seq[h] = Unseeded
  /\ seq' = [seq EXCEPT ![h] = 0]
  /\ UNCHANGED <<clock, disk, buffer, poll, comp, lock, history>>

(* _next_part of an hour met for the first time: one past the numbers on    *)
(* the disk.                                                                *)
SeedPart(h) ==
  /\ Stamped(h) # {} /\ seq[h] = Unseeded
  /\ seq' = [seq EXCEPT ![h] = IF PartsOf(h) = {} THEN 0 ELSE Max(PartsOf(h)) + 1]
  /\ UNCHANGED <<clock, disk, buffer, poll, comp, lock, history>>

(* Faulty: the groups are flushed in any order. *)
TurnAny(h) == h \in Hours

(* The groups of a poller's buffer are flushed in the order of the tape. *)
Turn(h) == feed = "poller" => \A r \in buffer : HourOf(r) >= h

(* One group of flush(): the temp file is renamed to part seq[h] and its    *)
(* rows leave the buffer.                                                   *)
LandPart(h) ==
  /\ Stamped(h) # {} /\ seq[h] \in Indexes /\ Turn(h)
  /\ feed = "poller" => poll.step = "flush"
  /\ parts' = [parts EXCEPT ![h][seq[h]] = Stamped(h)]
  /\ landed' = landed \cup Stamped(h)
  /\ buffer' = buffer \ Stamped(h)
  /\ seq' = [seq EXCEPT ![h] = @ + 1]
  /\ UNCHANGED <<clock, hourly, poll, comp, lock, warned, skipped, gone, faults, cut, raced,
                 contested>>

(* The write raises: the number is spent, the rows stay; a poller dies of   *)
(* it (CollectorKilled).                                                    *)
LandFails(h) ==
  /\ Fault
  /\ Stamped(h) # {} /\ seq[h] \in Indexes /\ seq[h] < MaxParts - 1 /\ feed = "socket"
  /\ seq' = [seq EXCEPT ![h] = @ + 1]
  /\ UNCHANGED <<clock, disk, buffer, poll, comp, lock, told, gone, cut, raced, contested>>

(* The collector dies; the watchdog starts another one with a new sink. *)
CollectorKilled ==
  /\ Fault
  /\ buffer # {} \/ \E h \in Hours : seq[h] # Unseeded
  /\ gone' = gone \cup buffer
  /\ buffer' = {} /\ seq' = [h \in Hours |-> Unseeded]
  /\ poll' = NoPass
  /\ UNCHANGED <<clock, disk, comp, lock, told, cut, raced, contested>>
-----------------------------------------------------------------------------
(* The collectors. *)

(* A frame brings a row, perhaps late, never twice. *)
Frame(r) ==
  /\ feed = "socket" /\ HourOf(r) <= hour
  /\ r \notin buffer \cup landed \cup gone
  /\ buffer' = buffer \cup {r}
  /\ UNCHANGED <<clock, disk, seq, poll, comp, lock, history>>

(* last_stored_cursor, 1: the files of the newest hour that has any. *)
NewestHour(h) == /\ PartsOf(h) # {} \/ hourly[h] # NoRows
                 /\ \A k \in Hours : k > h => PartsOf(k) = {} /\ hourly[k] = NoRows

PollNames ==
  /\ feed = "poller" /\ poll.step = "idle" /\ buffer = {}
  /\ seq' = [h \in Hours |-> Unseeded]
  /\ \/ \E h \in Hours :
          /\ NewestHour(h)
          /\ poll' = [step |-> "names", hour |-> h, names |-> PartsOf(h),
                      whole |-> hourly[h] # NoRows]
     \/ /\ \A h \in Hours : ~NewestHour(h)
        /\ poll' = [NoPass EXCEPT !.step = "names"]
  /\ UNCHANGED <<clock, disk, buffer, comp, lock, history>>

(* The rows the listed files still hold; a file that is gone, or that the   *)
(* read fails on, is passed over.                                           *)
Held(names, whole) ==
  (UNION {parts[poll.hour][i] : i \in names})
  \cup (IF whole THEN {r \in Rows : hourly[poll.hour][r] > 0} ELSE {})

(* Faulty: the boundary row is fetched again and kept. *)
CursorBefore(held) == Max({1} \cup held) - 1

(* The newest row held, or that of an earlier day; 0 when there is none.    *)
Cursor(held) ==
  Max({0} \cup IF held # {} THEN held
               ELSE {r \in Stored : DayOf(HourOf(r)) < DayOf(poll.hour)})

(* The floor, end - max_lookback_days, in whole hours. *)
Reached(r) == HourOf(r) + Lookback >= hour

(* 2: the files are read, and everything past both the cursor and the floor *)
(* is fetched, or as much of it as comes before a page is refused (403).    *)
(* The venue gives the boundary row again; it is dropped.                   *)
PollFetch ==
  /\ poll.step = "names"
  /\ \E names \in SUBSET poll.names, whole \in {poll.whole, FALSE}, last \in Rows :
       LET held == Held(names, whole)
           past == {r \in Rows : r > Cursor(held) /\ HourOf(r) <= hour}
       IN  /\ IF names = poll.names /\ whole = poll.whole /\ last = NRows
                THEN UNCHANGED faults ELSE Fault
           /\ buffer' = {r \in past : Reached(r) /\ r <= last}
           /\ skipped' = skipped \cup {r \in past : ~Reached(r)}
           /\ raced' = (raced \/ (Stored # {} /\ Max(Stored) \notin held))
  /\ poll' = [NoPass EXCEPT !.step = "flush"]
  /\ UNCHANGED <<clock, disk, seq, comp, lock, landed, warned, gone, cut, contested>>

PollDone ==
  /\ poll.step = "flush" /\ buffer = {}
  /\ poll' = NoPass
  /\ UNCHANGED <<clock, disk, memory, comp, lock, history>>

HourPasses ==
  /\ hour + 1 \in Hours
  /\ hour' = hour + 1
  /\ UNCHANGED <<feed, crew, disk, memory, poll, comp, lock, history>>
-----------------------------------------------------------------------------
(* Compaction. *)

Step(c, from, to) == comp[c].step = from /\ comp' = [comp EXCEPT ![c].step = to]

(* An hour is done with. *)
Between(c) == [Idle EXCEPT !.step = "between", !.now = comp[c].now]

(* compact_batch.py: the clock is read once, before the lock is taken. *)
Start(c) ==
  /\ c \in crew /\ comp[c].step = "idle"
  /\ comp' = [comp EXCEPT ![c] = [Idle EXCEPT !.step = "create", !.now = hour]]
  /\ UNCHANGED <<clock, disk, memory, poll, lock, history>>

(* Faulty: the lock is created whether or not there is one. *)
CreateAnyway(c) ==
  /\ Step(c, "create", "pid")
  /\ lock' = c
  /\ UNCHANGED <<clock, disk, memory, poll, history>>

(* archive_lock: O_CREAT | O_EXCL ... *)
Create(c) ==
  /\ lock = "absent" /\ Step(c, "create", "pid")
  /\ lock' = c
  /\ UNCHANGED <<clock, disk, memory, poll, history>>

(* ... or its holder is looked at: alive or not known, the run ends.        *)
LockHeld(c) ==
  /\ lock \notin {"absent", "dead"} /\ Step(c, "create", "idle")
  /\ UNCHANGED <<clock, disk, memory, poll, lock, history>>

(* Faulty: a lock file is a lock file. *)
HolderAssumedAlive(c) ==
  /\ lock = "dead" /\ Step(c, "create", "idle")
  /\ UNCHANGED <<clock, disk, memory, poll, lock, history>>

HolderDead(c) ==
  /\ lock = "dead" /\ Step(c, "create", "takeover")
  /\ UNCHANGED <<clock, disk, memory, poll, lock, history>>

(* Whatever lock file is there by now is unlinked: it may be that of        *)
(* another run that took over in between.                                   *)
TakeOver(c) ==
  /\ Step(c, "takeover", "recreate")
  /\ lock' = "absent"
  /\ contested' = (contested \/ lock \in Compactors)
  /\ UNCHANGED <<clock, disk, memory, poll, told, gone, faults, cut, raced>>

Recreate(c) ==
  /\ \/ lock = "absent" /\ Step(c, "recreate", "pid") /\ lock' = c
     \/ lock # "absent" /\ Step(c, "recreate", "idle") /\ UNCHANGED lock
  /\ UNCHANGED <<clock, disk, memory, poll, history>>

(* The pid goes into the file it created, wherever that is by now. *)
WritePid(c) ==
  /\ Step(c, "pid", "units")
  /\ UNCHANGED <<clock, disk, memory, poll, lock, history>>

(* iter_compaction_units: an hour with parts, other than the one that was   *)
(* current when the run began.                                              *)
Unit(c, h) == PartsOf(h) # {} /\ h # comp[c].now

NextUnit(c, h) ==
  /\ comp[c].step \in {"units", "between"} /\ Unit(c, h)
  /\ \A k \in Hours : k < h => ~Unit(c, k)
  /\ comp' = [comp EXCEPT ![c].step = "read", ![c].hour = h]
  /\ UNCHANGED <<clock, disk, memory, poll, lock, history>>

(* compact_hour: the parts are listed and read with the hourly file; those  *)
(* of the parts that cannot be read are skipped, and nothing is left to do  *)
(* when that leaves none and there is no hourly file ...                    *)
Read(c) ==
  /\ comp[c].step = "read"
  /\ LET h == comp[c].hour
         listed == PartsOf(h)
     IN  \E bad \in SUBSET listed :
           LET good == listed \ bad
               merged == [r \in Rows |-> hourly[h][r] + Cardinality({i \in good : r \in parts[h][i]})]
           IN  /\ IF bad = {} THEN UNCHANGED faults ELSE Fault
               /\ warned' = warned \cup UNION {parts[h][i] : i \in bad}
               /\ comp' = [comp EXCEPT ![c] =
                              IF good = {} /\ (listed = {} \/ hourly[h] = NoRows) THEN Between(c)
                              ELSE [@ EXCEPT !.step = "rename", !.merging = listed,
                                             !.merged = merged]]
  /\ UNCHANGED <<clock, disk, memory, poll, lock, landed, skipped, gone, cut, raced, contested>>

(* ... the merged file is renamed over the hourly one ... *)
Rename(c) ==
  /\ comp[c].step = "rename"
  /\ comp' = [comp EXCEPT ![c].step = "unlink", ![c].merged = NoRows]
  /\ hourly' = [hourly EXCEPT ![comp[c].hour] = comp[c].merged]
  /\ UNCHANGED <<clock, parts, memory, poll, lock, history>>

(* Faulty: every part of the hour goes, also one that landed since. *)
UnlinkAll(c) ==
  /\ comp[c].step = "unlink"
  /\ parts' = [parts EXCEPT ![comp[c].hour] = NoFile]
  /\ comp' = [comp EXCEPT ![c] = Between(c)]
  /\ UNCHANGED <<clock, hourly, memory, poll, lock, history>>

(* ... and the parts that were listed are unlinked one by one, those that   *)
(* were skipped too.                                                        *)
Unlink(c) ==
  /\ comp[c].step = "unlink"
  /\ LET i == Min(comp[c].merging)
         left == comp[c].merging \ {i}
     IN  /\ parts' = [parts EXCEPT ![comp[c].hour][i] = {}]
         /\ comp' = [comp EXCEPT ![c] = IF left = {} THEN Between(c)
                                                    ELSE [@ EXCEPT !.merging = left]]
  /\ UNCHANGED <<clock, hourly, memory, poll, lock, history>>

(* No unit left, or the budget of time or units is spent between two; the   *)
(* lock file goes, whoever's it is.                                         *)
Finish(c) ==
  /\ \/ comp[c].step = "between"
     \/ comp[c].step = "units" /\ \A h \in Hours : ~Unit(c, h)
  /\ comp' = [comp EXCEPT ![c] = Idle]
  /\ lock' = "absent"
  /\ UNCHANGED <<clock, disk, memory, poll, history>>

(* Where a run ends between the rename and the last unlink, parts stay      *)
(* beside the hourly file they are in.                                      *)
CutShort(c) == cut' = IF comp[c].step = "unlink" THEN cut \cup {comp[c].hour} ELSE cut

(* An exception leaves compact_hour: the hourly file cannot be read, the    *)
(* merged one not written, a part not unlinked.  The lock file goes.        *)
CompactorRaises(c) ==
  /\ Fault
  /\ comp[c].step \in {"read", "rename", "unlink"}
  /\ CutShort(c)
  /\ lock' = "absent"
  /\ comp' = [comp EXCEPT ![c] = Idle]
  /\ UNCHANGED <<clock, disk, memory, poll, told, gone, raced, contested>>

(* A reboot or a kill: the lock file stays. *)
CompactorKilled(c) ==
  /\ Fault
  /\ comp[c].step # "idle"
  /\ CutShort(c)
  /\ lock' = IF lock # c THEN lock ELSE IF comp[c].step = "pid" THEN "blank" ELSE "dead"
  /\ comp' = [comp EXCEPT ![c] = Idle]
  /\ UNCHANGED <<clock, disk, memory, poll, told, gone, raced, contested>>
-----------------------------------------------------------------------------
Collect == \/ \E h \in Hours : SeedPart(h) \/ LandPart(h) \/ LandFails(h)
           \/ \E r \in Rows : Frame(r)
           \/ PollNames \/ PollFetch \/ PollDone

CompactStep(c) == \/ Start(c) \/ Create(c) \/ LockHeld(c) \/ HolderDead(c) \/ TakeOver(c)
                  \/ Recreate(c) \/ WritePid(c)
                  \/ \E h \in Hours : NextUnit(c, h)
                  \/ Read(c) \/ Rename(c) \/ Unlink(c) \/ Finish(c)

Next == \/ Collect \/ CollectorKilled \/ HourPasses
        \/ \E c \in Compactors : CompactStep(c) \/ CompactorRaises(c) \/ CompactorKilled(c)

Spec == Init /\ [][Next]_vars

(* The daily task starts a compaction over and over and lets it run. *)
FairSpec == Spec /\ \A c \in Compactors : WF_vars(CompactStep(c))
-----------------------------------------------------------------------------
(* Properties. *)

(* What landed stays: whatever restarts, compactions and faults come, every *)
(* row the sink renamed into place is in a part or in its hourly file, but  *)
(* for those a compaction warned that it skips, and as long as no takeover  *)
(* unlinked the lock of a live run.                                         *)
NothingLost == ~contested => landed \subseteq Stored \cup warned

(* A row is stored twice only where a compaction ended between its rename   *)
(* and its last unlink, or where the poller's cursor was not the newest row *)
(* stored: a file was replaced, or could not be read.                       *)
OnceUnlessCut == ~raced => \A r \in Rows : Copies(r) > 1 =>
  \/ HourOf(r) \in cut
  \/ \E c \in Compactors : comp[c].step = "unlink" /\ comp[c].hour = HourOf(r)

(* The gaps of a polled tape: before a row stored, every row of the venue's *)
(* tape is stored, wherever the passes died ("no gap, no duplicate",        *)
(* last_stored_cursor), or was older than the lookback when a pass came to  *)
(* it, or in a part that could not be read.                                 *)
NoGap == feed = "poller" =>
  \A r \in Stored : \A s \in Rows : s < r => s \in Stored \cup skipped \cup warned

(* What the archive holds is the tape: no row twice, none left out.         *)
TapeWhole == ~contested => OnceUnlessCut /\ NoGap

(* archive_lock: "Exclusive whole-archive lock for the duration of the      *)
(* block".                                                                  *)
Exclusive ==
  \A c, d \in Compactors : comp[c].step \in Working /\ comp[d].step \in Working => c = d

(* Kills and exceptions leave one compactor at work at most, and the lock   *)
(* file is its own, as long as no takeover unlinks the lock of a live run.  *)
OneCompactor ==
  /\ TypeOK
  /\ ~contested => Exclusive /\ \A c \in Compactors : comp[c].step \in Working => lock = c

(* A lock file without a pid in it, and nobody left to write one: no run    *)
(* takes that one over.                                                     *)
Blocked == lock = "blank"

(* A closed hour's parts are merged in the end, past every kill, unless the *)
(* lock file was left blank: again and again no closed hour has any.        *)
ClosedHourMerges ==
  []<>(Blocked \/ \A h \in Hours : h < hour => PartsOf(h) = {})
=============================================================================
