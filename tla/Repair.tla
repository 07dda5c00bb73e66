-------------------------------- MODULE Repair --------------------------------
(***************************************************************************)
(* The offline repair of one stream of one symbol: repartition_archive.py  *)
(* re-files every row into the hour its own time names, downsample_book.py *)
(* thins a day to one row per interval.  Both read a whole day, write the  *)
(* hourly files one by one and then remove the files that became no        *)
(* target; both take the lock file of the tree, which only the operator    *)
(* removes when its holder was killed.  The compaction of closed hours     *)
(* (compact_batch.py) works on the same files under another lock.          *)
(*                                                                         *)
(* Places are hours in a row, HoursPerDay of them a day.  A file is the    *)
(* copies it holds of each row; rows are numbered in the order of their    *)
(* time, one apart.                                                        *)
(***************************************************************************)
EXTENDS Naturals, FiniteSets, FiniteSetsExt

CONSTANTS
  Rows,        \* 1 .. n
  Places,      \* 0 .. n, the hours
  HoursPerDay,
  FirstOpen,   \* the first hour at the cutoff: a collector owns it and the later ones
  Early,       \* how many hours before its own a row may have been filed
  Wholes, Parts, \* bound: the hours that start with rows, compacted and not
  Interval,    \* interval_s of the downsampling
  Tools,       \* repair processes
  MaxKills     \* bound: repair processes that die

Unknown == Max(Places) + 1   \* the place of a row whose time is unreadable

Files == Places \X {"hour", "part"}

HourFile(p) == <<p, "hour">>

Day(p) == p \div HoursPerDay

LastDay == Day(FirstOpen) - 1

Copies == [Rows -> Nat]

None == [r \in Rows |-> 0]

VARIABLES
  own,     \* [Rows -> the place the row's time names]
  where,   \* [Rows -> the file the row was first written to]
  bad,     \* the file a kill left without a footer, if any
  disk,    \* [Files -> copies of each row]
  torn,    \* unreadable files
  tool,    \* [Tools -> the repair process]
  lock,    \* "free", the holder, or "stale"
  comp,    \* the compaction
  kills,
  cut,     \* the rows a repair that died was rewriting, and those it had nowhere else
  thinned, \* rows the downsampling dropped
  crossed, \* a compaction overlapped a repair of a day
  refiled  \* a whole repartition has ended and skipped nothing

tape == <<own, where, bad>>
vars == <<own, where, bad, disk, torn, tool, lock, comp, kills, cut, thinned, crossed, refiled>>

NoTool == [step |-> "idle", kind |-> "repartition", day |-> 0, skipped |-> FALSE,
           merged |-> [p \in Places |-> None], left |-> {}, drop |-> {}]

NoMerge == [step |-> "idle", place |-> 0, rows |-> None]

Repairs == [step : {"idle", "read", "write", "unlink"}, kind : {"repartition", "thin"}, day : Nat,
            skipped : BOOLEAN, merged : [Places -> Copies], left : SUBSET Places, drop : SUBSET Files]

Merges == [step : {"idle", "rename", "unlink"}, place : Places, rows : Copies]

TypeOK ==
  /\ own \in [Rows -> Places \union {Unknown}] /\ where \in [Rows -> Files] /\ bad \subseteq Files
  /\ disk \in [Files -> Copies] /\ torn \subseteq Files
  /\ tool \in [Tools -> Repairs] /\ lock \in Tools \union {"free", "stale"} /\ comp \in Merges
  /\ kills \in 0 .. MaxKills /\ cut \in [rewritten : SUBSET Rows, lost : SUBSET Rows]
  /\ thinned \subseteq Rows
  /\ crossed \in BOOLEAN /\ refiled \in BOOLEAN

Init == /\ own \in [Rows -> Places \union {Unknown}]
        /\ where \in [Rows -> Files]
        /\ \A r \in Rows : where[r] \in (Wholes \X {"hour"}) \union (Parts \X {"part"})
        /\ \A r \in Rows : own[r] = Unknown \/ own[r] <= where[r][1] + Early
        /\ \A q, r \in Rows : q < r /\ own[q] # Unknown => own[q] <= own[r]
        /\ \A r \in Rows : FirstOpen <= where[r][1] => where[r][2] = "part"
        /\ bad \in {{}} \union {{f} : f \in {g \in Files : g[1] < FirstOpen}}
        /\ \A r \in Rows : where[r] \notin bad
        /\ disk = [f \in Files |-> [r \in Rows |-> IF where[r] = f THEN 1 ELSE 0]]
        /\ torn = bad
        /\ tool = [t \in Tools |-> NoTool] /\ lock = "free" /\ comp = NoMerge
        /\ kills = 0 /\ cut = [rewritten |-> {}, lost |-> {}] /\ thinned = {} /\ crossed = FALSE /\ refiled = FALSE

Exists(f) == f \in torn \/ disk[f] # None

(* hour_files: the files of the day, compacted or parts.                   *)
Sources(d) == {f \in Files : Day(f[1]) = d /\ Exists(f)}

Held(d) == {r \in Rows : \E f \in Sources(d) : disk[f][r] > 0}

(* Of all the copies of a row in the files of S.                           *)
CopiesIn(S, r) == Cardinality(UNION {{f} \X (1 .. disk[f][r]) : f \in S})

Busy(t) == tool[t].step \in {"write", "unlink"}

-----------------------------------------------------------------------------
(* tree_lock: refused while the lock file exists, whoever left it.         *)
TakeLock(t) == lock = "free" /\ lock' = t

Start(t, kind) ==
  /\ tool[t].step = "idle"
  /\ TakeLock(t)
  /\ tool' = [tool EXCEPT ![t] = [NoTool EXCEPT !.step = "read", !.kind = kind]]
  /\ UNCHANGED <<tape, disk, torn, comp, kills, cut, thinned, crossed, refiled>>

(* The operator deletes the lock of a run that is gone.                    *)
DeleteLock ==
  /\ lock = "stale" /\ lock' = "free"
  /\ UNCHANGED <<tape, disk, torn, tool, comp, kills, cut, thinned, crossed, refiled>>

PlacementAnyDay(f, r) == IF own[r] = Unknown THEN f[1] ELSE own[r]

(* _placement: rows without a readable time, or of a day that is still     *)
(* open, stay where they are.                                              *)
Placement(f, r) == IF own[r] = Unknown \/ own[r] >= FirstOpen THEN f[1] ELSE own[r]

(* _repartition_unit up to the first write: the hours that get rows, their *)
(* files that exist in other days, and what a row is gathered from.        *)
Targets(d) == {p \in Places : \E f \in Sources(d), r \in Rows : disk[f][r] > 0 /\ Placement(f, r) = p}

Outside(d) == {HourFile(p) : p \in Targets(d)} \ Sources(d)

From(d, p, r) == {f \in Sources(d) : Placement(f, r) = p} \union (Outside(d) \intersect {HourFile(p)})

(* A file it cannot read, or nothing to do, or the files to write.         *)
Unit(d) ==
  [skip |-> (Sources(d) \union Outside(d)) \intersect torn # {},
   idle |-> \A f \in Sources(d) : f[2] = "hour" /\ \A r \in Rows : disk[f][r] > 0 => Placement(f, r) = f[1],
   targets |-> Targets(d),
   merged |-> [p \in Places |-> [r \in Rows |-> CopiesIn(From(d, p, r), r)]]]

(* _keep_indices: of the rows S, those without a time, and each an         *)
(* interval or more after the last one kept.                               *)
Keeps(kept, S) ==
  \A r \in S : r \in kept <=>
    own[r] = Unknown \/ \A q \in kept : own[q] # Unknown /\ q < r => r - q >= Interval

(* _downsample_unit up to the first write: a kept row goes to the hour of  *)
(* its time, in this day; one without a time to the first hour.            *)
Home(d, r) == d * HoursPerDay + (IF own[r] = Unknown THEN 0 ELSE own[r] % HoursPerDay)

KeptCopies(d, kept, r) ==
  IF r \notin kept THEN 0 ELSE IF own[r] = Unknown THEN CopiesIn(Sources(d), r) ELSE 1

ThinUnit(d, kept) ==
  [skip |-> Sources(d) \intersect torn # {},
   idle |-> \A r \in Rows : KeptCopies(d, kept, r) = CopiesIn(Sources(d), r),
   targets |-> {Home(d, r) : r \in kept},
   merged |-> [p \in Places |-> [r \in Rows |-> IF Home(d, r) = p THEN KeptCopies(d, kept, r) ELSE 0]]]

Units(kind, d) ==
  IF kind = "thin" THEN {ThinUnit(d, kept) : kept \in {K \in SUBSET Held(d) : Keeps(K, Held(d))}}
  ELSE {Unit(d)}

Read(t) ==
  /\ tool[t].step = "read" /\ tool[t].day <= LastDay
  /\ \E unit \in Units(tool[t].kind, tool[t].day) :
       IF unit.skip \/ unit.idle
       THEN /\ tool' = [tool EXCEPT ![t].day = @ + 1, ![t].skipped = @ \/ unit.skip]
            /\ UNCHANGED <<thinned, crossed>>
       ELSE /\ tool' = [tool EXCEPT ![t].step = "write", ![t].merged = unit.merged, ![t].left = unit.targets,
                                    ![t].drop = Sources(tool[t].day) \ {HourFile(p) : p \in unit.targets}]
            /\ thinned' = thinned \union {r \in Held(tool[t].day) :
                                            tool[t].kind = "thin" /\ \A p \in Places : unit.merged[p][r] = 0}
            /\ crossed' = (crossed \/ comp.step # "idle")
  /\ UNCHANGED <<tape, disk, torn, lock, comp, kills, cut, refiled>>

(* One hourly file, under a temporary name and renamed: the downsampling   *)
(* hour by hour, the repartition as it came upon the hours.                *)
Write(t, p) ==
  /\ tool[t].step = "write" /\ p \in tool[t].left
  /\ tool[t].kind = "thin" => \A q \in tool[t].left : p <= q
  /\ disk' = [disk EXCEPT ![HourFile(p)] = tool[t].merged[p]]
  /\ torn' = torn \ {HourFile(p)}
  /\ tool' = [tool EXCEPT ![t].left = @ \ {p}, ![t].step = IF tool[t].left = {p} THEN "unlink" ELSE "write"]
  /\ UNCHANGED <<tape, lock, comp, kills, cut, thinned, crossed, refiled>>

(* The sources go once all the targets are there.                          *)
Unlink(t) ==
  /\ tool[t].step = "unlink" /\ tool[t].drop # {}
  /\ \E f \in tool[t].drop :
       /\ disk' = [disk EXCEPT ![f] = None] /\ torn' = torn \ {f}
       /\ tool' = [tool EXCEPT ![t].drop = @ \ {f}]
  /\ UNCHANGED <<tape, lock, comp, kills, cut, thinned, crossed, refiled>>

NextDay(t) ==
  /\ tool[t].step = "unlink" /\ tool[t].drop = {}
  /\ tool' = [tool EXCEPT ![t] = [NoTool EXCEPT !.step = "read", !.kind = tool[t].kind,
                                                !.day = tool[t].day + 1, !.skipped = tool[t].skipped]]
  /\ UNCHANGED <<tape, disk, torn, lock, comp, kills, cut, thinned, crossed, refiled>>

End(t) ==
  /\ tool[t].step = "read" /\ tool[t].day > LastDay
  /\ tool' = [tool EXCEPT ![t] = NoTool] /\ lock' = "free"
  /\ refiled' = (refiled \/ (tool[t].kind = "repartition" /\ ~tool[t].skipped))
  /\ UNCHANGED <<tape, disk, torn, comp, kills, cut, thinned, crossed>>

Gone(r) == \A f \in Files : disk[f][r] = 0

InHand(r) == \E t \in Tools, p \in Places : Busy(t) /\ p \in tool[t].left /\ tool[t].merged[p][r] > 0

(* A repair that dies leaves its files as they are.  Killed, it leaves its *)
(* lock behind; an exception (a full disk) releases it.                    *)
Dies(t, left) ==
  /\ tool[t].step # "idle" /\ kills < MaxKills
  /\ kills' = kills + 1 /\ lock' = left
  /\ tool' = [tool EXCEPT ![t] = NoTool]
  /\ cut' = [rewritten |-> cut.rewritten \union
                {r \in Rows : Busy(t) /\ \E p \in Places : tool[t].merged[p][r] > 0},
             lost |-> cut.lost \union {r \in Rows : Gone(r) /\ InHand(r)}]
  /\ UNCHANGED <<tape, disk, torn, comp, thinned, crossed, refiled>>

Kill(t) == Dies(t, "stale")

Raise(t) == Dies(t, "free")

-----------------------------------------------------------------------------
(* compact_hour, whatever the tree's lock says.                            *)
CompactRead(p) ==
  /\ comp.step = "idle" /\ Exists(<<p, "part">>) /\ {HourFile(p), <<p, "part">>} \intersect torn = {}
  /\ comp' = [step |-> "rename", place |-> p,
              rows |-> [r \in Rows |-> disk[HourFile(p)][r] + disk[<<p, "part">>][r]]]
  /\ crossed' = (crossed \/ \E t \in Tools : Busy(t))
  /\ UNCHANGED <<tape, disk, torn, tool, lock, kills, cut, thinned, refiled>>

CompactRename ==
  /\ comp.step = "rename"
  /\ disk' = [disk EXCEPT ![HourFile(comp.place)] = comp.rows]
  /\ comp' = [comp EXCEPT !.step = "unlink"]
  /\ UNCHANGED <<tape, torn, tool, lock, kills, cut, thinned, crossed, refiled>>

CompactUnlink ==
  /\ comp.step = "unlink"
  /\ disk' = [disk EXCEPT ![<<comp.place, "part">>] = None]
  /\ comp' = NoMerge
  /\ UNCHANGED <<tape, torn, tool, lock, kills, cut, thinned, crossed, refiled>>

Next ==
  \/ \E t \in Tools :
       \/ \E kind \in {"repartition", "thin"} : Start(t, kind)
       \/ Read(t) \/ \E p \in Places : Write(t, p)
       \/ Unlink(t) \/ NextDay(t) \/ End(t) \/ Kill(t) \/ Raise(t)
  \/ DeleteLock
  \/ \E p \in {q \in Places : q < FirstOpen} : CompactRead(p)
  \/ CompactRename \/ CompactUnlink

Spec == Init /\ [][Next]_vars

-----------------------------------------------------------------------------
InClosed(r) == where[r][1] < FirstOpen

NothingLost == \A r \in Rows : Gone(r) => r \in thinned \union cut.lost \/ InHand(r)

(* What thinning leaves: rows without a time, and an earlier row for each  *)
(* row that went.                                                          *)
ThinsBetween ==
  \A r \in thinned : own[r] # Unknown /\ \E q \in Rows : q < r /\ (~Gone(q) \/ q \in cut.lost \/ InHand(q))

(* The days of the collector and a file that cannot be read stay as they   *)
(* are.                                                                    *)
HandsOff ==
  /\ torn = bad
  /\ \A r \in Rows, p \in Places : FirstOpen <= p =>
       disk[HourFile(p)][r] + disk[<<p, "part">>][r] = IF where[r][1] = p THEN 1 ELSE 0

(* Once a whole repartition has ended, a row of a closed day is in the     *)
(* hour of its own time and there only; once, unless a repair died while   *)
(* it rewrote it.                                                          *)
InItsHour ==
  refiled => \A r \in Rows, f \in Files :
    InClosed(r) /\ own[r] < FirstOpen /\ disk[f][r] > 0 =>
      f[1] = own[r] /\ (r \notin cut.rewritten => disk[f][r] = 1)

(* Two repair tools over the same days, killed, failing and run again,     *)
(* lose only rows that one which died had in no file, and file each of the *)
(* others.                                                                 *)
RepairedWhole == HandsOff /\ (~crossed => NothingLost /\ ThinsBetween /\ InItsHour)

(* A lock left behind by a killed run costs one manual delete (the comment *)
(* of tree_lock), and so no row.                                           *)
OneManualDelete == lock = "stale" /\ ~crossed => cut.lost = {}

-----------------------------------------------------------------------------
(* The inductive invariant.                                                *)
(* Whoever holds the lock is at work, and nobody else is.                  *)
Locked == \A t \in Tools : tool[t].step # "idle" <=> lock = t

(* What is to be written or removed is of a closed day and readable.       *)
Rewrites(t) == {HourFile(p) : p \in tool[t].left} \union tool[t].drop

KeepsToClosed ==
  /\ \A t \in Tools : Busy(t) => \A f \in Rewrites(t) : f[1] < FirstOpen /\ f \notin torn
  /\ comp.step # "idle" => comp.place < FirstOpen

Gathers(t, r) == \E p \in Places : tool[t].merged[p][r] > 0

(* No repair of a day and no merge at the same time.                       *)
Apart == comp.step = "idle" \/ \A t \in Tools : ~Busy(t)

PartFile == <<comp.place, "part">>

MergeHolds ==
  /\ comp.step = "rename" =>
       \A r \in Rows : comp.rows[r] = disk[HourFile(comp.place)][r] + disk[PartFile][r]
  /\ comp.step = "unlink" =>
       \A r \in Rows : disk[PartFile][r] > 0 => disk[HourFile(comp.place)][r] > 0

(* What is gathered and no longer to be written is in its file, which      *)
(* stays; what is neither gathered nor dropped is in no file to go.        *)
RepairHolds == \A t \in Tools : Busy(t) =>
  /\ tool[t].step = "unlink" => tool[t].left = {}
  /\ \A p \in Places, r \in Rows : tool[t].merged[p][r] > 0 =>
       HourFile(p) \notin tool[t].drop /\ (p \notin tool[t].left => disk[HourFile(p)][r] = tool[t].merged[p][r])
  /\ \A r \in Rows \ thinned : ~Gathers(t, r) => \A f \in Rewrites(t) : disk[f][r] = 0

FirstStays == \A r \in thinned : own[r] # Unknown /\ r # 1

(* The copies of a row there would be without the part being merged.       *)
Left(f, r) == IF comp.step = "unlink" /\ f = PartFile THEN 0 ELSE disk[f][r]

(* A row is in one place, once; or it will be.                             *)
Single == \A r \in Rows \ cut.rewritten :
  /\ \A f \in Files : disk[f][r] <= 1
  /\ (\A t \in Tools : Busy(t) => ~Gathers(t, r)) =>
       \A f, g \in Files : Left(f, r) > 0 /\ Left(g, r) > 0 => f = g
  /\ \A t \in Tools : Busy(t) =>
       /\ \A p, q \in Places : tool[t].merged[p][r] > 0 /\ tool[t].merged[q][r] > 0 =>
            p = q /\ tool[t].merged[p][r] = 1
       /\ Gathers(t, r) => \A f \in Files \ Rewrites(t) : disk[f][r] > 0 =>
            \E p \in Places : f = HourFile(p) /\ tool[t].merged[p][r] > 0

(* The days that a repartition has behind it are in order.                 *)
Passed == \A t \in Tools : tool[t].step # "idle" /\ tool[t].kind = "repartition" =>
  \A r \in Rows : own[r] < FirstOpen =>
    /\ ~tool[t].skipped => \A f \in Files :
         f[1] < FirstOpen /\ Day(f[1]) < tool[t].day /\ disk[f][r] > 0 => f[1] = own[r]
    /\ Busy(t) /\ ~tool[t].skipped => \A p \in Places :
         Day(p) <= tool[t].day /\ tool[t].merged[p][r] > 0 => p = own[r]
    /\ Busy(t) /\ ~Gathers(t, r) => \A f \in Files : Day(f[1]) = tool[t].day => disk[f][r] = 0
    /\ Busy(t) => \A f \in Files \ Rewrites(t) : Day(f[1]) = tool[t].day /\ disk[f][r] > 0 =>
         \E p \in Places : f = HourFile(p) /\ tool[t].merged[p][r] > 0

Refiled == refiled => \A r \in Rows : InClosed(r) /\ own[r] < FirstOpen =>
  /\ \A f \in Files : disk[f][r] > 0 => f[1] = own[r]
  /\ \A t \in Tools, p \in Places : Busy(t) /\ tool[t].merged[p][r] > 0 => p = own[r]

Guarded == TypeOK /\ Locked /\ KeepsToClosed /\ HandsOff

Orderly == Apart /\ MergeHolds /\ RepairHolds /\ NothingLost /\ FirstStays /\ Single /\ Passed /\ Refiled

RepairInv == Guarded /\ (~crossed => Orderly)
=============================================================================
