---------------------------- MODULE ArchiveProofs ----------------------------
(***************************************************************************)
(* Theorems about the tick archive and what fills it.                      *)
(*                                                                         *)
(* TickArchive, for any tape, hours of any length, any number of           *)
(* compactors and of faults: type correctness and OneCompactor,            *)
(* NothingLost and TapeWhole.                                              *)
(*                                                                         *)
(* The collectors, the backfills and the repair tools of MCCollectors,     *)
(* each a part of it, for any sizes: CollectorsFollow, BackfillsWhole and  *)
(* ArchiveRepaired, from the inductive invariant of each part's module.    *)
(* There v1, v2, ... are the variables of the part, in the order in which  *)
(* MCCollectors gives them.                                                *)
(***************************************************************************)
EXTENDS TickArchive, MCCollectors, Sequences, FiniteSetTheorems, NaturalsInduction, WellFoundedInduction, TLAPS

Holding == Working \cup {"pid"}

(* Who is at work holds the lock, or is about to put its pid into it. *)
LockHolder == \A c \in Compactors : comp[c].step \in Holding => lock = c

(* A file of an hour holds rows of that hour, and a numbered part is never  *)
(* landed on.                                                               *)
Filed ==
  /\ \A h \in Hours : \A i \in Indexes : \A r \in parts[h][i] : HourOf(r) = h
  /\ \A h \in Hours : \A r \in Rows : hourly[h][r] > 0 => HourOf(r) = h
  /\ \A h \in Hours : \A i \in PartsOf(h) : i < seq[h]

HoldsPart(h, r, I) == {i \in I : r \in parts[h][i]}

(* What a compactor merges is still there when it renames, and in the       *)
(* hourly file when it unlinks, but for the parts it has warned of.         *)
Carried == \A c \in Compactors :
  /\ comp[c].step \in {"rename", "unlink"} =>
       comp[c].merging # {} /\ comp[c].merging \subseteq PartsOf(comp[c].hour)
  /\ comp[c].step = "rename" => \A r \in Rows :
       /\ hourly[comp[c].hour][r] <= comp[c].merged[r]
       /\ comp[c].merged[r] <= hourly[comp[c].hour][r]
                               + Cardinality(HoldsPart(comp[c].hour, r, comp[c].merging))
       /\ \A i \in comp[c].merging : r \in parts[comp[c].hour][i] =>
            comp[c].merged[r] > 0 \/ r \in warned
  /\ comp[c].step = "unlink" => \A i \in comp[c].merging : \A r \in parts[comp[c].hour][i] :
       hourly[comp[c].hour][r] > 0 \/ r \in warned

(* Stored without the count. *)
Kept(r) == \/ hourly[HourOf(r)][r] > 0
           \/ \E i \in Indexes : r \in parts[HourOf(r)][i]

LandedIsKept == /\ \A r \in Rows : Kept(r) => r \in landed
                /\ \A r \in landed : Kept(r) \/ r \in warned

(* Parts of the hour that no compactor is about to unlink. *)
Fresh(h) == {i \in Indexes : \A c \in Compactors :
               comp[c].step = "unlink" /\ comp[c].hour = h => i \notin comp[c].merging}

Once(r) == LET h == HourOf(r) IN
  /\ hourly[h][r] <= 1
  /\ \A i \in Fresh(h) : r \in parts[h][i] => hourly[h][r] = 0
  /\ \A i, j \in Fresh(h) : r \in parts[h][i] /\ r \in parts[h][j] => i = j

NeverTwice == ~raced => /\ \A r \in buffer : ~Kept(r)
                        /\ \A r \in Rows : HourOf(r) \notin cut => Once(r)

(* The tape up to each row the poller landed has landed, and up to each row *)
(* it buffers has landed or is buffered, but for what it passed over.       *)
Prefix == feed = "poller" =>
  /\ poll.step # "flush" => buffer = {}
  /\ \A r \in landed : \A s \in Rows : s < r => s \in landed \cup skipped
  /\ \A r \in buffer : \A s \in Rows : s < r => s \in landed \cup skipped \cup buffer

Good == LockHolder /\ Filed /\ Carried /\ LandedIsKept /\ NeverTwice /\ Prefix

IInv == TypeOK /\ (~contested => Good)
-----------------------------------------------------------------------------
(* A set of numbers that is not empty has a least one. *)
LEMMA LeastOf ==
  ASSUME NEW S \in SUBSET Nat, S # {}
  PROVE  \E n \in S : \A m \in S : n <= m
<1> DEFINE R == {ss \in Nat \X Nat : ss[1] < ss[2]}
<1>1. IsWellFoundedOn(R, Nat)
  BY ONLY NatLessThanWellFounded, Zenon DEF OpToRel
<1>2. S \subseteq Nat
  OBVIOUS
<1>3. \A x, y \in Nat : (<<y, x>> \in R) <=> y < x
  OBVIOUS
<1> HIDE DEF R
<1>4. \E x \in S : \A y \in S : ~ (<<y, x>> \in R)
  BY ONLY <1>1, <1>2, S # {}, WFMin, Zenon
<1>5. PICK x \in S : \A y \in S : ~ (<<y, x>> \in R)
  BY <1>4
<1>6. ASSUME NEW y \in S PROVE x <= y
  <2>1. ~ (y < x)
    BY <1>2, <1>3, <1>5
  <2> QED BY <2>1, <1>2
<1> QED BY <1>6

(* Max of numbers that are bounded is one of them, and bounds them. *)
LEMMA MaxOf ==
  ASSUME NEW N \in Nat, NEW S \in SUBSET (0 .. N), S # {}
  PROVE  Max(S) \in S /\ \A m \in S : m <= Max(S)
<1> DEFINE T == {N - m : m \in S}
<1>1. T \in SUBSET Nat /\ T # {}
  <2>1. \A m \in S : m \in Int /\ m <= N
    OBVIOUS
  <2>2. T \subseteq Nat
    BY <2>1
  <2>3. T # {}
    OBVIOUS
  <2> QED BY <2>2, <2>3
<1> HIDE DEF T
<1>2. PICK n \in T : \A m \in T : n <= m
  BY <1>1, LeastOf
<1>3. \E x \in S : \A y \in S : x >= y
  <2>1. PICK x \in S : n = N - x
    BY <1>2 DEF T
  <2>2. ASSUME NEW y \in S PROVE x >= y
    <3>1. N - y \in T
      BY DEF T
    <3>2. n <= N - y
      BY <3>1, <1>2
    <3> QED BY <3>2, <2>1
  <2> QED BY <2>2
<1>4. Max(S) \in S /\ \A y \in S : Max(S) >= y
  BY <1>3 DEF Max
<1> QED BY <1>4

(* Min is one of them. *)
LEMMA MinOf ==
  ASSUME NEW S \in SUBSET Nat, S # {}
  PROVE  Min(S) \in S
BY LeastOf DEF Min

LEMMA HoursAreNumbers ==
  /\ Hours \subseteq Nat /\ 0 \in Hours
  /\ \A r \in Rows : HourOf(r) \in Hours
  /\ \A r, s \in Rows : r <= s => HourOf(r) <= HourOf(s)
<1>1. \A a, b \in Nat : a <= b => a \div RowsPerHour <= b \div RowsPerHour
  BY ArchiveAssumption
<1>2. \A a \in Nat : a \div RowsPerHour \in Nat
  BY ArchiveAssumption
<1>3. \A r, s \in Rows : r <= s => HourOf(r) <= HourOf(s)
  BY <1>1 DEF Rows, HourOf
<1>4. \A r \in Rows : HourOf(r) \in Nat
  BY <1>2 DEF Rows, HourOf
<1>5. NRows \in Rows /\ \A r \in Rows : r <= NRows
  BY ArchiveAssumption DEF Rows
<1> QED BY <1>3, <1>4, <1>5 DEF Hours

LEMMA IndexesAreFinite == \A I \in SUBSET Indexes : IsFiniteSet(I) /\ Cardinality(I) \in Nat
<1>1. IsFiniteSet(Indexes)
  BY FS_Interval, ArchiveAssumption DEF Indexes
<1> QED BY <1>1, FS_Subset, FS_CardinalityType

LEMMA NoneOrMore == \A I \in SUBSET Indexes : Cardinality(I) = 0 <=> I = {}
BY IndexesAreFinite, FS_EmptySet

(* Two copies are in two places. *)
LEMMA AtMostOne ==
  ASSUME NEW I \in SUBSET Indexes, \A i, j \in I : i = j
  PROVE  Cardinality(I) <= 1
<1>1. CASE I = {}
  BY <1>1, NoneOrMore
<1>2. ASSUME NEW i \in I PROVE Cardinality(I) <= 1
  <2>1. I = {i}
    BY <1>2
  <2> QED BY <2>1, FS_Singleton
<1> QED BY <1>1, <1>2

LEMMA StoredIsKept == TypeOK => Stored = {r \in Rows : Kept(r)}
<1> SUFFICES ASSUME TypeOK, NEW r \in Rows PROVE Copies(r) > 0 <=> Kept(r)
  BY DEF Stored
<1> DEFINE I == {i \in Indexes : r \in parts[HourOf(r)][i]}
<1>1. Cardinality(I) \in Nat /\ (Cardinality(I) = 0 <=> I = {})
  BY IndexesAreFinite, NoneOrMore
<1>2. hourly[HourOf(r)][r] \in Nat
  <2>1. HourOf(r) \in Hours /\ hourly \in [Hours -> [Rows -> Nat]]
    BY HoursAreNumbers DEF TypeOK
  <2>2. hourly[HourOf(r)] \in [Rows -> Nat]
    BY <2>1
  <2> QED BY <2>2
<1>3. Copies(r) = hourly[HourOf(r)][r] + Cardinality(I)
  BY DEF Copies
<1> HIDE DEF I
<1>4. Copies(r) > 0 <=> hourly[HourOf(r)][r] > 0 \/ I # {}
  BY <1>1, <1>2, <1>3
<1> QED BY <1>4 DEF Kept, I

-----------------------------------------------------------------------------
(* Types. *)

Pass == [step : {"idle", "names", "flush"}, hour : Hours, names : SUBSET Indexes, whole : BOOLEAN]

Process == [step : CompSteps, now : Hours, hour : Hours, merging : SUBSET Indexes,
            merged : [Rows -> Nat]]

LEMMA IdleIsProcess == Idle \in Process /\ Idle.step = "idle"
BY HoursAreNumbers DEF Idle, Process, CompSteps, NoRows

LEMMA NoPassIsPass ==
  /\ NoPass \in Pass /\ NoPass.step = "idle"
  /\ \A step \in {"idle", "names", "flush"} :
       [NoPass EXCEPT !.step = step] \in Pass /\ [NoPass EXCEPT !.step = step].step = step
BY HoursAreNumbers DEF NoPass, Pass

(* Process c goes on as p. *)
Moves(c, p) == p \in Process /\ comp' = [comp EXCEPT ![c] = p]

LEMMA MovesFacts ==
  ASSUME TypeOK, NEW c \in Compactors, NEW p, Moves(c, p)
  PROVE  /\ comp' \in [Compactors -> Process] /\ comp'[c] = p
         /\ \A d \in Compactors : d # c => comp'[d] = comp[d]
BY DEF Moves, TypeOK, Process

LEMMA BetweenIsProcess ==
  ASSUME TypeOK, NEW c \in Compactors
  PROVE  Between(c) \in Process /\ Between(c).step = "between"
BY IdleIsProcess DEF TypeOK, Between, Idle, Process, CompSteps, Working

LEMMA StepMoves ==
  ASSUME TypeOK, NEW c \in Compactors, NEW from, NEW to \in CompSteps, Step(c, from, to)
  PROVE  /\ comp[c].step = from
         /\ Moves(c, [comp[c] EXCEPT !.step = to])
         /\ [comp[c] EXCEPT !.step = to].step = to
BY DEF TypeOK, Process, Step, Moves

LEMMA StepNames ==
  {"idle", "create", "takeover", "recreate", "pid", "units", "read", "rename", "unlink", "between"}
    \subseteq CompSteps
BY DEF CompSteps, Working

(* A lock file that names a process names one that holds it. *)
LEMMA LockIsTyped ==
  ASSUME TypeOK, NEW c \in Compactors, NEW p, Moves(c, p),
         \/ lock' \in {"absent", "blank", "dead"}
         \/ lock' = lock /\ (lock = c => p.step \in Holding)
         \/ lock' = c /\ p.step \in Holding
  PROVE  /\ lock' \in {"absent", "blank", "dead"} \cup Compactors
         /\ lock' \in Compactors => comp'[lock'].step \in Holding
<1>1. /\ comp'[c] = p
      /\ \A d \in Compactors : d # c => comp'[d] = comp[d]
  BY MovesFacts
<1> QED BY <1>1, ArchiveAssumption DEF TypeOK, Holding

LEMMA OneMoreFault == TypeOK /\ Fault => faults' \in 0 .. MaxFaults
BY ArchiveAssumption DEF TypeOK, Fault

LEMMA RowsAreNumbers == NRows \in Nat /\ 0 \notin Rows /\ Rows \in SUBSET (0 .. NRows)
BY ArchiveAssumption DEF Rows

LEMMA SeqNumbers == Indexes \cup {MaxParts, Unseeded} = 0 .. MaxParts + 1
BY ArchiveAssumption DEF Indexes, Unseeded

LEMMA SeqIsTyped ==
  ASSUME TypeOK, NEW h \in Hours
  PROVE  LET next == IF PartsOf(h) = {} THEN 0 ELSE Max(PartsOf(h)) + 1
         IN  next \in 0 .. MaxParts /\ \A i \in PartsOf(h) : i < next
<1>1. MaxParts - 1 \in Nat /\ PartsOf(h) \in SUBSET (0 .. (MaxParts - 1))
  BY ArchiveAssumption DEF PartsOf, Indexes
<1>2. CASE PartsOf(h) = {}
  BY <1>2, ArchiveAssumption
<1>3. CASE PartsOf(h) # {}
  <2>1. Max(PartsOf(h)) \in PartsOf(h) /\ \A m \in PartsOf(h) : m <= Max(PartsOf(h))
    BY <1>1, <1>3, MaxOf
  <2>2. Max(PartsOf(h)) \in 0 .. (MaxParts - 1)
    BY <1>1, <2>1
  <2>3. Max(PartsOf(h)) + 1 \in 0 .. MaxParts
    BY <1>1, <2>2, ArchiveAssumption
  <2>4. \A i \in PartsOf(h) : i < Max(PartsOf(h)) + 1
    BY <1>1, <2>1, <2>2
  <2> QED BY <1>3, <2>3, <2>4
<1> QED BY <1>2, <1>3

(* What a compaction merges of an hour. *)
LEMMA MergedIsTyped ==
  ASSUME TypeOK, NEW h \in Hours, NEW I \in SUBSET Indexes
  PROVE  [r \in Rows |-> hourly[h][r] + Cardinality({i \in I : r \in parts[h][i]})] \in [Rows -> Nat]
<1>1. ASSUME NEW r \in Rows
      PROVE  hourly[h][r] + Cardinality({i \in I : r \in parts[h][i]}) \in Nat
  <2>1. hourly[h] \in [Rows -> Nat]
    BY DEF TypeOK
  <2>2. Cardinality({i \in I : r \in parts[h][i]}) \in Nat
    BY IndexesAreFinite
  <2> QED BY <2>1, <2>2
<1> QED BY <1>1

LEMMA CollectTypes ==
  ASSUME TypeOK, Collect \/ CollectorKilled \/ HourPasses
  PROVE  TypeOK'
<1> USE SeqNumbers, NoPassIsPass, OneMoreFault DEF clock, disk, memory, history, told
<1>0. TypeOK <=> /\ TypeOK /\ poll \in Pass
  BY DEF TypeOK, Pass
<1>1. ASSUME NEW h \in Hours, SeedPart(h) PROVE TypeOK'
  <2> DEFINE next == IF PartsOf(h) = {} THEN 0 ELSE Max(PartsOf(h)) + 1
  <2>1. next \in 0 .. MaxParts + 1
    BY SeqIsTyped, ArchiveAssumption
  <2>2. seq' = [seq EXCEPT ![h] = next] /\ UNCHANGED <<clock, disk, buffer, poll, comp, lock, history>>
    BY <1>1 DEF SeedPart
  <2> HIDE DEF next
  <2> QED BY <2>1, <2>2 DEF TypeOK
<1>2. ASSUME NEW h \in Hours, LandPart(h) PROVE TypeOK'
  <2>1. Stamped(h) \in SUBSET Rows /\ seq[h] \in Indexes /\ seq[h] + 1 \in 0 .. MaxParts + 1
    <3>1. Stamped(h) \in SUBSET Rows
      BY DEF TypeOK, Stamped
    <3>2. seq[h] \in Indexes
      BY <1>2 DEF LandPart
    <3>3. \A n \in Indexes : n + 1 \in 0 .. MaxParts + 1
      BY ArchiveAssumption DEF Indexes
    <3> QED BY <3>1, <3>2, <3>3
  <2>2. parts' \in [Hours -> [Indexes -> SUBSET Rows]] /\ seq' \in [Hours -> 0 .. MaxParts + 1]
    BY <1>2, <2>1 DEF TypeOK, LandPart
  <2> QED BY <1>2, <2>1, <2>2 DEF TypeOK, LandPart
<1>3. ASSUME NEW h \in Hours, LandFails(h) PROVE TypeOK'
  <2>1. seq' \in [Hours -> 0 .. MaxParts + 1]
    BY <1>3, ArchiveAssumption DEF TypeOK, LandFails, Indexes
  <2> QED BY <1>3, <2>1 DEF TypeOK, LandFails
<1>4. ASSUME NEW r \in Rows, Frame(r) PROVE TypeOK'
  BY <1>4 DEF TypeOK, Frame
<1>5. CASE PollNames
  <2>1. \A h \in Hours : PartsOf(h) \subseteq Indexes
    BY DEF PartsOf
  <2>2. poll' \in Pass
    <3>1. CASE \E h \in Hours : poll' = [step |-> "names", hour |-> h, names |-> PartsOf(h),
                                         whole |-> hourly[h] # NoRows]
      BY <2>1, <3>1 DEF Pass
    <3>2. CASE poll' = [NoPass EXCEPT !.step = "names"]
      BY <3>2
    <3> QED BY <1>5, <3>1, <3>2 DEF PollNames
  <2>3. seq' \in [Hours -> 0 .. MaxParts + 1]
    BY <1>5, ArchiveAssumption DEF PollNames, Unseeded
  <2> QED BY <1>5, <2>2, <2>3 DEF TypeOK, Pass, PollNames
<1>6. CASE PollFetch
  <2>1. buffer' \subseteq Rows /\ skipped' \subseteq Rows /\ raced' \in BOOLEAN /\ poll' \in Pass
    BY <1>6 DEF PollFetch, TypeOK
  <2>2. faults' \in 0 .. MaxFaults
    BY <1>6 DEF PollFetch, TypeOK
  <2>3. UNCHANGED <<clock, disk, seq, comp, lock, landed, warned, gone, cut, contested>>
    BY <1>6 DEF PollFetch
  <2> QED BY <2>1, <2>2, <2>3 DEF TypeOK, Pass
<1>7. CASE PollDone
  BY <1>7 DEF TypeOK, PollDone, Pass
<1>8. CASE CollectorKilled
  <2>1. seq' \in [Hours -> 0 .. MaxParts + 1]
    BY <1>8, ArchiveAssumption DEF CollectorKilled, Unseeded
  <2> QED BY <1>8, <2>1 DEF TypeOK, Pass, CollectorKilled
<1>9. CASE HourPasses
  BY <1>9 DEF TypeOK, HourPasses
<1> QED BY <1>1, <1>2, <1>3, <1>4, <1>5, <1>6, <1>7, <1>8, <1>9 DEF Collect

LEMMA CompactTypes ==
  ASSUME TypeOK, NEW c \in Compactors, CompactStep(c) \/ CompactorRaises(c) \/ CompactorKilled(c)
  PROVE  TypeOK'
<1> USE StepNames, IdleIsProcess DEF clock, disk, memory, history, told, Holding, Working
<1>0. comp \in [Compactors -> Process] /\ comp[c] \in Process
  BY DEF TypeOK, Process
<1>1. ASSUME NEW p, Moves(c, p),
             \/ lock' \in {"absent", "blank", "dead"}
             \/ lock' = lock /\ (lock = c => p.step \in Holding)
             \/ lock' = c /\ p.step \in Holding,
             UNCHANGED <<clock, memory, poll, landed, skipped, gone, raced>>,
             parts' \in [Hours -> [Indexes -> SUBSET Rows]], hourly' \in [Hours -> [Rows -> Nat]],
             faults' \in 0 .. MaxFaults, cut' \subseteq Hours, warned' \subseteq Rows,
             contested' \in BOOLEAN
      PROVE  TypeOK'
  BY <1>1, LockIsTyped, MovesFacts DEF TypeOK, Process
<1>2. CASE Start(c)
  <2> DEFINE p == [Idle EXCEPT !.step = "create", !.now = hour]
  <2>1. Moves(c, p) /\ lock # c
    BY <1>2 DEF Start, Moves, TypeOK, Process, Idle
  <2> HIDE DEF p
  <2> QED BY <1>1, <1>2, <2>1 DEF Start, TypeOK
<1>3. CASE Create(c)
  BY <1>1, <1>3, StepMoves DEF Create, TypeOK
<1>4. CASE LockHeld(c) \/ HolderDead(c)
  <2>1. PICK to \in {"idle", "takeover"} : Step(c, "create", to)
    BY <1>4 DEF LockHeld, HolderDead
  <2>2. Moves(c, [comp[c] EXCEPT !.step = to]) /\ lock # c
    BY <2>1, StepMoves DEF TypeOK
  <2> QED BY <1>1, <1>4, <2>2 DEF LockHeld, HolderDead, TypeOK
<1>5. CASE TakeOver(c)
  <2>1. Moves(c, [comp[c] EXCEPT !.step = "recreate"])
    BY <1>5, StepMoves DEF TakeOver
  <2> QED BY <1>1, <1>5, <2>1 DEF TakeOver, TypeOK
<1>6. CASE Recreate(c)
  <2>1. CASE lock = "absent" /\ Step(c, "recreate", "pid") /\ lock' = c
    <3>1. \E p : Moves(c, p) /\ p.step = "pid"
      BY <2>1, StepMoves
    <3> QED BY <1>1, <1>6, <2>1, <3>1 DEF Recreate, TypeOK
  <2>2. CASE Step(c, "recreate", "idle") /\ lock' = lock
    <3>1. Moves(c, [comp[c] EXCEPT !.step = "idle"]) /\ lock # c
      BY <2>2, StepMoves DEF TypeOK
    <3> QED BY <1>1, <1>6, <2>2, <3>1 DEF Recreate, TypeOK
  <2> QED BY <1>6, <2>1, <2>2 DEF Recreate
<1>7. CASE WritePid(c)
  <2>1. \E p : Moves(c, p) /\ p.step = "units"
    BY <1>7, StepMoves DEF WritePid
  <2> QED BY <1>1, <1>7, <2>1 DEF WritePid, TypeOK
<1>8. ASSUME NEW h \in Hours, NextUnit(c, h) PROVE TypeOK'
  <2> DEFINE p == [comp[c] EXCEPT !.step = "read", !.hour = h]
  <2>1. Moves(c, p) /\ p.step = "read"
    BY <1>0, <1>8 DEF NextUnit, Moves, Process
  <2> HIDE DEF p
  <2> QED BY <1>1, <1>8, <2>1 DEF NextUnit, TypeOK
<1>9. CASE Read(c)
  <2> DEFINE h == comp[c].hour
             listed == PartsOf(h)
             merged(good) == [r \in Rows |-> hourly[h][r] + Cardinality({i \in good : r \in parts[h][i]})]
             next(good) == [comp[c] EXCEPT !.step = "rename", !.merging = listed, !.merged = merged(good)]
  <2>1. PICK bad \in SUBSET listed :
          /\ IF bad = {} THEN UNCHANGED faults ELSE Fault
          /\ warned' = warned \cup UNION {parts[h][i] : i \in bad}
          /\ comp' = [comp EXCEPT ![c] =
                         IF listed \ bad = {} /\ (listed = {} \/ hourly[h] = NoRows) THEN Between(c)
                         ELSE next(listed \ bad)]
    BY <1>9 DEF Read
  <2>2. h \in Hours /\ listed \subseteq Indexes
    BY <1>0 DEF Process, PartsOf
  <2>3. merged(listed \ bad) \in [Rows -> Nat]
    BY <2>2, MergedIsTyped
  <2>4. warned' \subseteq Rows /\ faults' \in 0 .. MaxFaults
    <3>1. \A i \in bad : parts[h][i] \subseteq Rows
      BY <2>2 DEF TypeOK
    <3> QED BY <2>1, <3>1, OneMoreFault DEF TypeOK
  <2>5. next(listed \ bad) \in Process /\ next(listed \ bad).step = "rename"
    <3> HIDE DEF merged, listed
    <3> QED BY <1>0, <2>2, <2>3 DEF Process
  <2>6. Between(c) \in Process /\ Between(c).step = "between"
    BY BetweenIsProcess
  <2> HIDE DEF next
  <2>7. \E p : Moves(c, p) /\ p.step \in Working
    BY <2>1, <2>5, <2>6 DEF Moves
  <2> QED BY <1>1, <1>9, <2>4, <2>7 DEF Read, TypeOK
<1>10. CASE Rename(c)
  <2> DEFINE p == [comp[c] EXCEPT !.step = "unlink", !.merged = NoRows]
  <2>1. NoRows \in [Rows -> Nat]
    BY DEF NoRows
  <2>2. Moves(c, p) /\ p.step = "unlink"
    <3>1. comp' = [comp EXCEPT ![c] = p]
      BY <1>10 DEF Rename
    <3>2. p \in Process /\ p.step = "unlink"
      BY <1>0, <2>1 DEF Process
    <3> QED BY <3>1, <3>2 DEF Moves
  <2>3. hourly' \in [Hours -> [Rows -> Nat]]
    BY <1>0, <1>10 DEF Rename, TypeOK, Process
  <2> HIDE DEF p
  <2> QED BY <1>1, <1>10, <2>2, <2>3 DEF Rename, TypeOK
<1>11. CASE Unlink(c)
  <2> DEFINE left == comp[c].merging \ {Min(comp[c].merging)}
             p == IF left = {} THEN Between(c) ELSE [comp[c] EXCEPT !.merging = left]
  <2>1. p \in Process /\ p.step \in Working
    <3>1. left \in SUBSET Indexes /\ comp[c].step = "unlink"
      BY <1>0, <1>11 DEF Process, Unlink
    <3> HIDE DEF left
    <3> QED BY <1>0, <3>1, BetweenIsProcess DEF Process
  <2>2. comp' = [comp EXCEPT ![c] = p]
    BY <1>11 DEF Unlink
  <2>3. parts' \in [Hours -> [Indexes -> SUBSET Rows]]
    BY <1>11 DEF Unlink, TypeOK
  <2> HIDE DEF p
  <2> QED BY <1>1, <1>11, <2>1, <2>2, <2>3 DEF Moves, Unlink, TypeOK
<1>12. CASE Finish(c)
  BY <1>1, <1>12 DEF Finish, Moves, TypeOK
<1>13. CASE CompactorRaises(c) \/ CompactorKilled(c)
  <2>1. Moves(c, Idle) /\ cut' \subseteq Hours
    BY <1>0, <1>13 DEF Moves, CompactorRaises, CompactorKilled, CutShort, TypeOK, Process
  <2>2. lock' \in {"absent", "blank", "dead"} \/ (lock' = lock /\ lock # c)
    BY <1>13 DEF CompactorRaises, CompactorKilled
  <2>3. faults' \in 0 .. MaxFaults
    BY <1>13, OneMoreFault DEF CompactorRaises, CompactorKilled
  <2> QED BY <1>1, <1>13, <2>1, <2>2, <2>3 DEF CompactorRaises, CompactorKilled, TypeOK
<1> QED BY <1>2, <1>3, <1>4, <1>5, <1>6, <1>7, <1>8, <1>9, <1>10, <1>11, <1>12, <1>13
      DEF CompactStep

(* What the files hold is stored, and so is the cursor that is read of it.  *)
LEMMA CursorIsStored ==
  ASSUME TypeOK, Filed, LandedIsKept, NEW names \in SUBSET poll.names, NEW whole \in BOOLEAN
  PROVE  /\ Cursor(Held(names, whole)) \in {0} \cup landed
         /\ \A r \in Held(names, whole) : r <= Cursor(Held(names, whole))
<1> DEFINE held == Held(names, whole)
           S == {0} \cup IF held # {} THEN held
                         ELSE {r \in Stored : DayOf(HourOf(r)) < DayOf(poll.hour)}
<1>1. held \subseteq {r \in Rows : Kept(r)}
  <2>0. poll.hour \in Hours /\ names \subseteq Indexes
    BY DEF TypeOK
  <2>1. ASSUME NEW i \in names, NEW r \in parts[poll.hour][i] PROVE r \in Rows /\ Kept(r)
    BY <2>0 DEF TypeOK, Filed, Kept
  <2>2. ASSUME NEW r \in Rows, hourly[poll.hour][r] > 0 PROVE Kept(r)
    BY <2>0, <2>2 DEF Filed, Kept
  <2>3. ASSUME NEW r \in held PROVE r \in Rows /\ Kept(r)
    <3>1. CASE \E i \in names : r \in parts[poll.hour][i]
      BY <3>1, <2>1
    <3>2. CASE r \in Rows /\ hourly[poll.hour][r] > 0
      BY <3>2, <2>2
    <3>3. r \in UNION {parts[poll.hour][i] : i \in names}
            \/ r \in IF whole THEN {q \in Rows : hourly[poll.hour][q] > 0} ELSE {}
      BY <2>3 DEF Held
    <3>4. r \in UNION {parts[poll.hour][i] : i \in names} => \E i \in names : r \in parts[poll.hour][i]
      OBVIOUS
    <3> QED BY <3>1, <3>2, <3>3, <3>4
  <2> QED BY <2>3
<1>2. Stored \subseteq {r \in Rows : Kept(r)}
  BY StoredIsKept
<1>3. S \subseteq {0} \cup landed /\ S # {} /\ held \subseteq S
  BY <1>1, <1>2 DEF LandedIsKept
<1>4. NRows \in Nat /\ S \in SUBSET (0 .. NRows)
  <2>1. NRows \in Nat /\ Rows \subseteq 0 .. NRows /\ 0 \in 0 .. NRows
    BY ArchiveAssumption DEF Rows
  <2>2. landed \subseteq Rows
    BY DEF TypeOK
  <2> QED BY <1>3, <2>1, <2>2
<1> HIDE DEF S
<1>5. Max(S) \in S /\ \A m \in S : m <= Max(S)
  BY <1>3, <1>4, MaxOf
<1>6. Cursor(held) = Max(S)
  BY DEF S, Cursor
<1> QED BY <1>3, <1>5, <1>6
-----------------------------------------------------------------------------
LEMMA InitIInv == Init => IInv
<1> SUFFICES ASSUME Init PROVE IInv
  OBVIOUS
<1>1. TypeOK
  <2>1. (CHOOSE c \in Compactors : TRUE) \in Compactors
    <3>1. \E c \in Compactors : TRUE
      BY ArchiveAssumption
    <3> QED BY <3>1, Zenon
  <2>2. crew \in SUBSET Compactors
    <3>1. crew = {CHOOSE c \in Compactors : TRUE} \/ crew = Compactors
      BY DEF Init
    <3> QED BY <2>1, <3>1
  <2>3. /\ parts \in [Hours -> [Indexes -> SUBSET Rows]] /\ hourly \in [Hours -> [Rows -> Nat]]
        /\ seq \in [Hours -> Indexes \cup {MaxParts, Unseeded}]
    BY DEF Init, NoFile, NoRows
  <2>4. poll \in Pass /\ comp \in [Compactors -> Process]
    BY IdleIsProcess, NoPassIsPass DEF Init
  <2>5. lock \in {"absent", "blank", "dead"} /\ lock \notin Compactors /\ faults \in 0 .. MaxFaults
    BY ArchiveAssumption DEF Init
  <2> QED BY <2>2, <2>3, <2>4, <2>5, HoursAreNumbers DEF Init, TypeOK, Pass, Process
<1>2. LockHolder
  BY DEF Init, LockHolder, Idle, Holding, Working
<1>3. Filed /\ Carried
  BY DEF Init, Filed, Carried, PartsOf, NoFile, NoRows, Idle
<1>4. LandedIsKept
  BY HoursAreNumbers DEF Init, LandedIsKept, Kept, NoFile, NoRows
<1>5. NeverTwice /\ Prefix
  BY HoursAreNumbers DEF Init, NeverTwice, Once, Fresh, NoFile, NoRows, Prefix
<1> QED BY <1>1, <1>2, <1>3, <1>4, <1>5 DEF IInv, Good

(* Steps of the collectors that land nothing, and of the clock. *)
LEMMA CollectorMoves ==
  ASSUME TypeOK, Good, UNCHANGED <<disk, comp, lock, landed, warned, cut>>, Prefix',
         \A h \in Hours : \A i \in PartsOf(h) : i < seq'[h],
         ~raced' => ~raced /\ \A r \in buffer' : ~Kept(r)
  PROVE  Good'
<1>1. LockHolder' /\ Carried' /\ LandedIsKept'
  BY DEF Good, disk, LockHolder, Carried, HoldsPart, PartsOf, LandedIsKept, Kept
<1>2. Filed'
  BY DEF Good, disk, Filed, PartsOf
<1>3. NeverTwice'
  BY DEF Good, disk, NeverTwice, Once, Fresh, Kept
<1> QED BY <1>1, <1>2, <1>3 DEF Good

(* Steps of a compactor that touch no file and leave it merging nothing; an *)
(* end between rename and unlink is known.                                  *)
LEMMA CompactorMoves ==
  ASSUME TypeOK, Good, NEW c \in Compactors, NEW p, Moves(c, p),
         UNCHANGED <<feed, disk, memory, poll, landed, skipped, raced>>,
         cut \subseteq cut', warned \subseteq warned',
         comp[c].step = "unlink" => comp[c].hour \in cut',
         p.step \notin {"rename", "unlink"},
         p.step \in Holding => lock' = c,
         \A d \in Compactors : d # c /\ comp[d].step \in Holding => lock' = d
  PROVE  Good'
<1>0. /\ comp'[c] = p
      /\ \A d \in Compactors : d # c => comp'[d] = comp[d]
  BY MovesFacts
<1>1. Filed' /\ LandedIsKept' /\ LockHolder'
  BY <1>0 DEF Good, disk, memory, Filed, PartsOf, LandedIsKept, Kept, LockHolder
<1>2. Carried'
  <2>1. ASSUME NEW d \in Compactors, comp'[d].step \in {"rename", "unlink"}
        PROVE  comp'[d] = comp[d] /\ comp[d].step = comp'[d].step
    BY <1>0, <2>1
  <2>2. UNCHANGED <<parts, hourly>> /\ \A h \in Hours : PartsOf(h)' = PartsOf(h)
    BY DEF disk, PartsOf
  <2>3. \A d \in Compactors : comp[d].hour \in Hours
    BY DEF TypeOK
  <2>4. warned \subseteq warned'
    OBVIOUS
  <2> QED BY <2>1, <2>2, <2>3, <2>4 DEF Good, Carried, HoldsPart
<1>3. ASSUME NEW h \in Hours \ cut' PROVE Fresh(h)' = Fresh(h)
  BY <1>0, <1>3 DEF Fresh
<1>4. NeverTwice'
  <2>1. ASSUME NEW r \in Rows, HourOf(r) \notin cut', Once(r) PROVE Once(r)'
    BY <2>1, <1>3, HoursAreNumbers DEF Once, disk
  <2> QED BY <2>1 DEF Good, NeverTwice, memory, disk, Kept
<1>5. Prefix'
  BY DEF Good, Prefix, memory
<1> QED BY <1>1, <1>2, <1>4, <1>5 DEF Good

LEMMA LandStep ==
  ASSUME TypeOK, Good, NEW h \in Hours, LandPart(h)
  PROVE  Good'
<1> DEFINE i == seq[h]
           S == Stamped(h)
<1>1. /\ i \in Indexes /\ parts' = [parts EXCEPT ![h][i] = S]
      /\ landed' = landed \cup S /\ buffer' = buffer \ S
      /\ seq' = [seq EXCEPT ![h] = i + 1]
      /\ UNCHANGED <<clock, hourly, poll, comp, lock, warned, skipped, gone, faults, cut, raced,
                    contested>>
  BY DEF LandPart
<1>2. S \subseteq Rows /\ S \subseteq buffer /\ (\A r \in S : HourOf(r) = h) /\ parts[h][i] = {}
  <2>1. i \notin PartsOf(h)
    BY <1>1, ArchiveAssumption DEF Good, Filed, Indexes
  <2> QED BY <1>1, <2>1 DEF Stamped, PartsOf, TypeOK
<1>3. /\ parts' \in [Hours -> [Indexes -> SUBSET Rows]]
      /\ parts'[h][i] = S
      /\ \A k \in Hours, j \in Indexes : ~(k = h /\ j = i) => parts'[k][j] = parts[k][j]
  BY <1>1, <1>2 DEF TypeOK
<1>4. /\ seq' \in [Hours -> Indexes \cup {MaxParts, Unseeded}] /\ seq'[h] = i + 1
      /\ \A k \in Hours : k # h => seq'[k] = seq[k]
  <2>1. i + 1 \in Indexes \cup {MaxParts, Unseeded}
    BY <1>1, ArchiveAssumption DEF Indexes
  <2> QED BY <1>1, <2>1 DEF TypeOK
<1>5. landed \subseteq Rows /\ buffer \subseteq Rows
  BY DEF TypeOK
<1> HIDE DEF i, S
<1>7. LockHolder'
  BY <1>1 DEF Good, LockHolder
<1>8. Filed'
  <2>1. \A k \in Hours : \A j \in Indexes : \A r \in parts'[k][j] : HourOf(r) = k
    BY <1>2, <1>3 DEF Good, Filed
  <2>2. ASSUME NEW k \in Hours, NEW j \in Indexes, parts'[k][j] # {} PROVE j < seq'[k]
    <3>1. CASE k = h /\ j = i
      BY <1>4, <3>1, ArchiveAssumption DEF Indexes
    <3>2. CASE k # h \/ j # i
      <4>1. j < seq[k]
        BY <1>3, <2>2, <3>2 DEF Good, Filed, PartsOf
      <4>2. CASE k = h
        <5>1. j < i /\ seq'[k] = i + 1
          BY <1>4, <4>1, <4>2 DEF i
        <5> QED BY <1>1, <5>1, ArchiveAssumption DEF Indexes
      <4> QED BY <1>4, <4>1, <4>2
    <3> QED BY <3>1, <3>2
  <2> QED BY <1>1, <2>1, <2>2 DEF Good, Filed, PartsOf
<1>9. Carried'
  <2>1. ASSUME NEW c \in Compactors, comp[c].step \in {"rename", "unlink"}, NEW j \in comp[c].merging
        PROVE  j \in Indexes /\ parts[comp[c].hour][j] # {}
                 /\ parts'[comp[c].hour][j] = parts[comp[c].hour][j]
    <3>1. comp[c].hour \in Hours /\ j \in PartsOf(comp[c].hour)
      BY <2>1 DEF Good, TypeOK, Carried
    <3> QED BY <1>2, <1>3, <3>1 DEF PartsOf
  <2>2. ASSUME NEW c \in Compactors, comp[c].step \in {"rename", "unlink"}
        PROVE  comp[c].merging # {} /\ comp[c].merging \subseteq PartsOf(comp[c].hour)'
    BY <1>1, <2>1, <2>2 DEF PartsOf, Good, Carried
  <2>3. ASSUME NEW c \in Compactors, comp[c].step \in {"rename", "unlink"}, NEW r \in Rows
        PROVE  HoldsPart(comp[c].hour, r, comp[c].merging)' = HoldsPart(comp[c].hour, r, comp[c].merging)
    BY <1>1, <2>1, <2>3 DEF HoldsPart
  <2> QED BY <1>1, <2>1, <2>2, <2>3 DEF Good, Carried
<1>10. ASSUME NEW r \in Rows PROVE Kept(r)' <=> Kept(r) \/ r \in S
  <2>1. HourOf(r) \in Hours
    BY HoursAreNumbers
  <2>2. CASE HourOf(r) = h
    BY <1>1, <1>2, <1>3, <2>1, <2>2 DEF Kept
  <2>3. CASE HourOf(r) # h
    BY <1>1, <1>2, <1>3, <2>1, <2>3 DEF Kept
  <2> QED BY <2>2, <2>3
<1>11. LandedIsKept'
  BY <1>1, <1>2, <1>5, <1>10 DEF Good, LandedIsKept
<1>12. NeverTwice'
  <2>1. \A k \in Hours : Fresh(k)' = Fresh(k) /\ Fresh(k) \subseteq Indexes
    BY <1>1 DEF Fresh
  <2>2. ASSUME ~raced, NEW r \in Rows, HourOf(r) \notin cut PROVE Once(r)'
    <3> DEFINE k == HourOf(r)
    <3>1. k \in Hours /\ Once(r)
      BY <2>2, HoursAreNumbers DEF Good, NeverTwice
    <3>2. CASE r \in S
      <4>1. ~Kept(r) /\ k = h
        BY <1>2, <2>2, <3>2 DEF Good, NeverTwice
      <4>2. (\A j \in Indexes : r \notin parts[k][j]) /\ hourly[k][r] = 0
        <5>1. hourly[k][r] \in Nat
          BY <3>1 DEF TypeOK
        <5> QED BY <4>1, <5>1 DEF Kept
      <4>3. \A j \in Indexes : r \in parts'[k][j] => j = i
        BY <1>3, <3>1, <4>1, <4>2
      <4> QED BY <1>1, <2>1, <3>1, <4>2, <4>3 DEF Once
    <3>3. CASE r \notin S
      <4>1. \A j \in Indexes : r \in parts'[k][j] => r \in parts[k][j]
        BY <1>2, <1>3, <3>1, <3>3
      <4> QED BY <1>1, <2>1, <3>1, <4>1 DEF Once
    <3> QED BY <3>2, <3>3
  <2>3. ASSUME ~raced, NEW r \in buffer' PROVE ~Kept(r)'
    <3>1. r \in buffer /\ r \notin S /\ r \in Rows
      BY <1>1, <1>5, <2>3
    <3> QED BY <1>10, <2>3, <3>1 DEF Good, NeverTwice
  <2> QED BY <1>1, <2>2, <2>3 DEF Good, NeverTwice
<1>13. Prefix'
  <2> SUFFICES ASSUME feed = "poller" PROVE Prefix'
    BY <1>1 DEF Prefix, clock
  <2>1. \A r \in buffer : HourOf(r) >= h
    BY DEF LandPart, Turn
  <2>2. ASSUME NEW r \in S, NEW s \in Rows, s < r PROVE s \in landed' \cup skipped'
    <3>1. CASE s \in buffer
      <4>1. HourOf(s) >= h /\ HourOf(s) <= h /\ HourOf(s) \in Nat /\ h \in Nat
        <5>1. r \in Rows /\ s <= r /\ HourOf(r) = h
          BY <1>2, <2>2 DEF Rows
        <5> QED BY <2>1, <3>1, <5>1, HoursAreNumbers
      <4>2. HourOf(s) = h
        BY <4>1
      <4> QED BY <1>1, <3>1, <4>2 DEF S, Stamped
    <3>2. CASE s \notin buffer
      BY <1>1, <1>2, <2>2, <3>2 DEF Good, Prefix
    <3> QED BY <3>1, <3>2
  <2>3. poll.step = "flush"
    BY DEF LandPart
  <2> QED BY <1>1, <1>2, <2>2, <2>3 DEF Good, Prefix
<1> QED BY <1>7, <1>8, <1>9, <1>11, <1>12, <1>13 DEF Good

LEMMA CollectStep ==
  ASSUME TypeOK, Good, Collect \/ CollectorKilled \/ HourPasses
  PROVE  Good'
<1> USE DEF clock, disk, memory, history, told
<1>0. UNCHANGED <<disk, seq>> => \A h \in Hours : \A i \in PartsOf(h) : i < seq'[h]
  BY DEF Good, Filed
<1>a. ~raced => \A r \in buffer : ~Kept(r)
  BY DEF Good, NeverTwice
<1>1. ASSUME NEW h \in Hours, SeedPart(h) PROVE Good'
  <2> DEFINE next == IF PartsOf(h) = {} THEN 0 ELSE Max(PartsOf(h)) + 1
  <2>1. next \in 0 .. MaxParts /\ \A i \in PartsOf(h) : i < next
    BY SeqIsTyped
  <2>2. seq' = [seq EXCEPT ![h] = next] /\ UNCHANGED <<clock, disk, buffer, poll, comp, lock, history>>
    BY <1>1 DEF SeedPart
  <2> HIDE DEF next
  <2>3. \A k \in Hours : \A i \in PartsOf(k) : i < seq'[k]
    BY <2>1, <2>2 DEF TypeOK, Good, Filed
  <2>4. Prefix'
    BY <2>2 DEF Good, Prefix
  <2> QED BY <1>a, <2>2, <2>3, <2>4, CollectorMoves
<1>2. ASSUME NEW h \in Hours, LandFails(h) PROVE Good'
  <2>1. /\ seq[h] \in Indexes /\ seq' = [seq EXCEPT ![h] = @ + 1] /\ seq[h] < MaxParts - 1
        /\ UNCHANGED <<clock, disk, buffer, poll, comp, lock, told, gone, cut, raced, contested>>
    BY <1>2 DEF LandFails
  <2>2. \A k \in Hours : \A i \in PartsOf(k) : i < seq'[k]
    BY <2>1, ArchiveAssumption DEF Good, TypeOK, Filed, PartsOf, Indexes
  <2>3. Prefix'
    BY <2>1 DEF Good, Prefix
  <2> QED BY <1>a, <2>1, <2>2, <2>3, CollectorMoves
<1>3. ASSUME NEW r \in Rows, Frame(r) PROVE Good'
  <2>1. /\ feed = "socket" /\ r \notin landed /\ buffer' = buffer \cup {r}
        /\ UNCHANGED <<clock, disk, seq, poll, comp, lock, history>>
    BY <1>3 DEF Frame
  <2>2. ~Kept(r)
    BY <2>1 DEF Good, LandedIsKept
  <2>3. Prefix'
    BY <2>1 DEF Good, Prefix
  <2> QED BY <1>0, <1>a, <2>1, <2>2, <2>3, CollectorMoves
<1>4. CASE PollNames
  <2>1. /\ feed = "poller" /\ buffer = {} /\ seq' = [h \in Hours |-> Unseeded]
        /\ UNCHANGED <<clock, disk, buffer, comp, lock, history>>
    BY <1>4 DEF PollNames
  <2>2. \A h \in Hours : \A i \in PartsOf(h) : i < seq'[h]
    BY <2>1, ArchiveAssumption DEF PartsOf, Indexes, Unseeded
  <2>3. Prefix'
    BY <2>1 DEF Good, Prefix
  <2> QED BY <1>a, <2>1, <2>2, <2>3, CollectorMoves
<1>5. CASE PollFetch
  <2> DEFINE past(held) == {r \in Rows : r > Cursor(held) /\ HourOf(r) <= hour}
  <2>1. PICK names \in SUBSET poll.names, whole \in {poll.whole, FALSE}, last \in Rows :
          /\ buffer' = {r \in past(Held(names, whole)) : Reached(r) /\ r <= last}
          /\ skipped' = skipped \cup {r \in past(Held(names, whole)) : ~Reached(r)}
          /\ raced' = (raced \/ (Stored # {} /\ Max(Stored) \notin Held(names, whole)))
    BY <1>5 DEF PollFetch
  <2>2. /\ poll'.step = "flush"
        /\ UNCHANGED <<clock, disk, seq, comp, lock, landed, warned, gone, cut, contested>>
    BY <1>5, NoPassIsPass DEF PollFetch
  <2> DEFINE held == Held(names, whole)
             cursor == Cursor(held)
  <2>3. whole \in BOOLEAN
    BY <2>1 DEF TypeOK
  <2>4. cursor \in {0} \cup landed /\ \A r \in held : r <= cursor
    BY <2>1, <2>3, CursorIsStored DEF Good
  <2> HIDE DEF held, cursor
  <2>5. /\ \A r \in buffer' : r \in Rows /\ r > cursor /\ HourOf(r) <= hour /\ r <= last
        /\ \A r \in Rows : r > cursor /\ HourOf(r) <= hour /\ r <= last => r \in skipped' \cup buffer'
        /\ skipped \subseteq skipped'
    BY <2>1 DEF held, cursor
  <2>6. landed \subseteq Rows /\ cursor \in Nat /\ Rows \subseteq Nat /\ last \in Rows
    BY <2>1, <2>4, RowsAreNumbers DEF TypeOK
  <2>7. ASSUME NEW r \in buffer', NEW s \in Rows, s < r, feed = "poller"
        PROVE  s \in landed \cup skipped' \cup buffer'
    <3>1. r \in Rows /\ r > cursor /\ HourOf(r) <= hour /\ s \in Nat /\ r \in Nat /\ r <= last
      BY <2>5, <2>6, <2>7
    <3>2. CASE s > cursor
      <4>1. HourOf(s) <= HourOf(r) /\ HourOf(s) \in Nat /\ HourOf(r) \in Nat /\ hour \in Nat
        <5>1. hour \in Hours /\ s <= r
          BY <2>7, <3>1 DEF TypeOK
        <5> QED BY <2>7, <3>1, <5>1, HoursAreNumbers
      <4>2. HourOf(s) <= hour /\ s <= last
        BY <2>6, <2>7, <3>1, <4>1
      <4> QED BY <2>5, <2>7, <3>2, <4>2
    <3>3. CASE ~(s > cursor)
      <4>1. cursor \in landed /\ cursor \in Rows /\ s <= cursor
        BY <2>4, <2>6, <3>1, <3>3, RowsAreNumbers
      <4>2. s \in landed \cup skipped
        <5>1. s < cursor \/ s = cursor
          BY <2>6, <3>1, <4>1
        <5> QED BY <2>7, <4>1, <5>1 DEF Good, Prefix
      <4> QED BY <2>5, <4>2
    <3> QED BY <3>2, <3>3
  <2>8. Prefix'
    <3>1. feed' = feed /\ landed' = landed /\ poll'.step = "flush"
      BY <2>2
    <3>2. feed = "poller" => \A r \in landed : \A s \in Rows : s < r => s \in landed \cup skipped'
      BY <2>5 DEF Good, Prefix
    <3> QED BY <2>7, <3>1, <3>2 DEF Prefix
  <2>9. ASSUME ~raced', NEW r \in buffer' PROVE ~Kept(r)
    <3>1. Stored = {q \in Rows : Kept(q)} /\ r \in Rows
      BY <2>5, StoredIsKept
    <3>2. CASE Stored # {}
      <4>1. NRows \in Nat /\ Stored \in SUBSET (0 .. NRows)
        BY <3>1, RowsAreNumbers
      <4>2. Max(Stored) \in Stored /\ \A m \in Stored : m <= Max(Stored)
        BY <3>2, <4>1, MaxOf
      <4>3. Max(Stored) <= cursor /\ Max(Stored) \in Nat
        <5>1. Max(Stored) \in held
          BY <2>1, <2>9, <3>2 DEF held
        <5>2. Max(Stored) <= cursor
          BY <2>4, <5>1
        <5>3. Max(Stored) \in 0 .. NRows
          BY <4>1, <4>2
        <5>4. \A m \in 0 .. NRows : m \in Nat
          BY <4>1
        <5> QED BY <5>2, <5>3, <5>4
      <4>4. r > cursor /\ r \in Nat
        BY <2>5, <2>6
      <4>5. r \notin Stored
        BY <2>6, <4>2, <4>3, <4>4
      <4> QED BY <3>1, <4>5
    <3> QED BY <3>1, <3>2
  <2>10. ~raced' => ~raced
    BY <2>1
  <2> QED BY <1>0, <2>2, <2>8, <2>9, <2>10, CollectorMoves
<1>6. CASE PollDone
  <2>1. /\ buffer = {} /\ poll' = NoPass
        /\ UNCHANGED <<clock, disk, memory, comp, lock, history>>
    BY <1>6 DEF PollDone
  <2>2. Prefix'
    BY <2>1 DEF Good, Prefix
  <2> QED BY <1>0, <1>a, <2>1, <2>2, CollectorMoves
<1>7. CASE CollectorKilled
  <2>1. /\ buffer' = {} /\ seq' = [h \in Hours |-> Unseeded] /\ poll' = NoPass
        /\ UNCHANGED <<clock, disk, comp, lock, told, cut, raced, contested>>
    BY <1>7 DEF CollectorKilled
  <2>2. \A h \in Hours : \A i \in PartsOf(h) : i < seq'[h]
    BY <2>1, ArchiveAssumption DEF PartsOf, Indexes, Unseeded
  <2>3. Prefix'
    BY <2>1 DEF Good, Prefix
  <2> QED BY <2>1, <2>2, <2>3, CollectorMoves
<1>8. CASE HourPasses
  <2>1. UNCHANGED <<feed, crew, disk, memory, poll, comp, lock, history>>
    BY <1>8 DEF HourPasses
  <2>2. Prefix'
    BY <2>1 DEF Good, Prefix
  <2> QED BY <1>0, <1>a, <2>1, <2>2, CollectorMoves
<1>9. ASSUME NEW h \in Hours, LandPart(h) PROVE Good'
  BY <1>9, LandStep
<1> QED BY <1>1, <1>2, <1>3, <1>4, <1>5, <1>6, <1>7, <1>8, <1>9 DEF Collect
-----------------------------------------------------------------------------
(* Steps that create, look at and take over the lock file. *)
LEMMA LockStep ==
  ASSUME TypeOK, Good, ~contested', NEW c \in Compactors,
         \/ Start(c) \/ Create(c) \/ LockHeld(c) \/ HolderDead(c) \/ TakeOver(c)
         \/ Recreate(c) \/ WritePid(c)
  PROVE  Good'
<1> USE StepNames, ArchiveAssumption DEF clock, history, told
<1>1. UNCHANGED <<clock, disk, memory, poll, told, gone, faults, cut, raced>>
  BY DEF Start, Create, LockHeld, HolderDead, TakeOver, Recreate, WritePid, Step
<1>2. ASSUME NEW p, Moves(c, p), comp[c].step \notin Working, p.step \notin {"rename", "unlink"},
             p.step \in Holding => lock' = c,
             \A d \in Compactors : d # c /\ comp[d].step \in Holding => lock' = d
      PROVE  Good'
  BY <1>1, <1>2, CompactorMoves DEF Working
<1>3. ASSUME lock \notin Compactors PROVE \A d \in Compactors : comp[d].step \notin Holding
  BY <1>3 DEF Good, LockHolder
<1>4. ASSUME UNCHANGED lock PROVE \A d \in Compactors : d # c /\ comp[d].step \in Holding => lock' = d
  BY <1>4 DEF Good, LockHolder
<1>5. CASE Start(c)
  <2> DEFINE p == [Idle EXCEPT !.step = "create", !.now = hour]
  <2>1. Moves(c, p) /\ p.step = "create" /\ comp[c].step = "idle"
    BY <1>5, IdleIsProcess DEF Start, Moves, TypeOK, Process, Idle
  <2> HIDE DEF p
  <2> QED BY <1>2, <1>4, <1>5, <2>1 DEF Start, Holding, Working
<1>6. CASE Create(c)
  <2>1. \E p : Moves(c, p) /\ p.step = "pid" /\ comp[c].step = "create"
    BY <1>6, StepMoves DEF Create
  <2> QED BY <1>2, <1>3, <1>6, <2>1 DEF Create, Working
<1>7. CASE LockHeld(c) \/ HolderDead(c)
  <2>1. \E p : Moves(c, p) /\ p.step \in {"idle", "takeover"} /\ comp[c].step = "create"
    BY <1>7, StepMoves DEF LockHeld, HolderDead
  <2>2. UNCHANGED lock
    BY <1>7 DEF LockHeld, HolderDead
  <2> QED BY <1>2, <1>4, <2>1, <2>2 DEF Holding, Working
<1>8. CASE TakeOver(c)
  <2>1. \E p : Moves(c, p) /\ p.step = "recreate" /\ comp[c].step = "takeover"
    BY <1>8, StepMoves DEF TakeOver
  <2>2. lock \notin Compactors
    BY <1>8 DEF TakeOver
  <2> QED BY <1>2, <1>3, <2>1, <2>2 DEF Holding, Working
<1>9. CASE Recreate(c)
  <2>1. CASE lock = "absent" /\ Step(c, "recreate", "pid") /\ lock' = c
    <3>1. \E p : Moves(c, p) /\ p.step = "pid" /\ comp[c].step = "recreate"
      BY <2>1, StepMoves
    <3> QED BY <1>2, <1>3, <2>1, <3>1 DEF Working
  <2>2. CASE Step(c, "recreate", "idle") /\ UNCHANGED lock
    <3>1. \E p : Moves(c, p) /\ p.step = "idle" /\ comp[c].step = "recreate"
      BY <2>2, StepMoves
    <3> QED BY <1>2, <1>4, <2>2, <3>1 DEF Holding, Working
  <2> QED BY <1>9, <2>1, <2>2 DEF Recreate
<1>10. CASE WritePid(c)
  <2>1. \E p : Moves(c, p) /\ p.step = "units" /\ comp[c].step = "pid"
    BY <1>10, StepMoves DEF WritePid
  <2>2. lock = c /\ lock' = lock
    BY <1>10, <2>1 DEF WritePid, Good, LockHolder, Holding
  <2> QED BY <1>2, <1>4, <2>1, <2>2 DEF Working
<1> QED BY <1>5, <1>6, <1>7, <1>8, <1>9, <1>10

(* Who is at work holds the lock, and nobody else does. *)
LEMMA OneHolds ==
  ASSUME Good, NEW c \in Compactors, comp[c].step \in Holding
  PROVE  lock = c /\ \A d \in Compactors : d # c => comp[d].step \notin Holding
BY DEF Good, LockHolder

LEMMA UnitStep ==
  ASSUME TypeOK, Good, NEW c \in Compactors,
         \/ \E h \in Hours : NextUnit(c, h)
         \/ Finish(c) \/ CompactorRaises(c) \/ CompactorKilled(c)
  PROVE  Good'
<1> USE DEF clock, history, told
<1>0. comp \in [Compactors -> Process] /\ comp[c] \in Process
  BY DEF TypeOK, Process
<1>1. ASSUME NEW h \in Hours, NextUnit(c, h) PROVE Good'
  <2> DEFINE p == [comp[c] EXCEPT !.step = "read", !.hour = h]
  <2>1. Moves(c, p) /\ p.step = "read"
    BY <1>0, <1>1, StepNames DEF NextUnit, Moves, Process
  <2> HIDE DEF p
  <2>2. comp[c].step \in {"units", "between"} /\ UNCHANGED <<clock, disk, memory, poll, lock, history>>
    BY <1>1 DEF NextUnit
  <2>3. lock = c /\ \A d \in Compactors : d # c => comp[d].step \notin Holding
    BY <2>2, OneHolds DEF Holding, Working
  <2> QED BY <2>1, <2>2, <2>3, CompactorMoves
<1>2. CASE Finish(c)
  <2>1. /\ Moves(c, Idle) /\ Idle.step = "idle" /\ comp[c].step \in {"units", "between"}
        /\ UNCHANGED <<clock, disk, memory, poll, history>>
    BY <1>2, IdleIsProcess DEF Finish, Moves
  <2>2. \A d \in Compactors : d # c => comp[d].step \notin Holding
    BY <2>1, OneHolds DEF Holding, Working
  <2> QED BY <2>1, <2>2, CompactorMoves DEF Holding, Working
<1>3. CASE CompactorRaises(c) \/ CompactorKilled(c)
  <2>1. /\ Moves(c, Idle) /\ Idle.step = "idle"
        /\ UNCHANGED <<clock, disk, memory, poll, told, gone, raced, contested>>
    BY <1>3, IdleIsProcess DEF CompactorRaises, CompactorKilled, Moves
  <2>2. cut \subseteq cut' /\ (comp[c].step = "unlink" => comp[c].hour \in cut')
    BY <1>3 DEF CompactorRaises, CompactorKilled, CutShort
  <2>3. ASSUME NEW d \in Compactors, d # c, comp[d].step \in Holding PROVE lock' = d
    <3>1. lock = d /\ comp[c].step \notin Holding
      BY <2>3, OneHolds
    <3> QED BY <1>3, <2>3, <3>1 DEF CompactorRaises, CompactorKilled, Holding, Working
  <2> QED BY <2>1, <2>2, <2>3, CompactorMoves DEF Holding, Working
<1> QED BY <1>1, <1>2, <1>3

LEMMA ReadStep ==
  ASSUME TypeOK, Good, NEW c \in Compactors, Read(c)
  PROVE  Good'
<1> DEFINE h == comp[c].hour
           listed == PartsOf(h)
           merged(good) == [r \in Rows |-> hourly[h][r] + Cardinality({i \in good : r \in parts[h][i]})]
           next(good) == [comp[c] EXCEPT !.step = "rename", !.merging = listed, !.merged = merged(good)]
<1>0. comp \in [Compactors -> Process] /\ comp[c] \in Process /\ comp[c].step = "read"
  BY DEF TypeOK, Process, Read
<1>1. PICK bad \in SUBSET listed :
        /\ warned' = warned \cup UNION {parts[h][i] : i \in bad}
        /\ comp' = [comp EXCEPT ![c] =
                       IF listed \ bad = {} /\ (listed = {} \/ hourly[h] = NoRows) THEN Between(c)
                       ELSE next(listed \ bad)]
  BY DEF Read
<1>2. /\ UNCHANGED <<clock, disk, memory, poll, lock, landed, skipped, gone, cut, raced, contested>>
      /\ warned \subseteq warned'
  BY <1>1 DEF Read
<1>3. h \in Hours /\ listed \subseteq Indexes
  BY <1>0 DEF Process, PartsOf
<1>4. lock = c /\ \A d \in Compactors : d # c => comp[d].step \notin Holding
  BY <1>0, OneHolds DEF Holding, Working
<1>5. CASE comp' = [comp EXCEPT ![c] = Between(c)]
  <2>1. Moves(c, Between(c)) /\ Between(c).step = "between"
    BY <1>5, BetweenIsProcess DEF Moves
  <2> QED BY <1>0, <1>2, <1>4, <2>1, CompactorMoves DEF clock
<1>6. CASE listed # {} /\ comp' = [comp EXCEPT ![c] = next(listed \ bad)]
  <2> DEFINE I == listed \ bad
             p == next(I)
  <2>1. merged(I) \in [Rows -> Nat]
    BY <1>3, MergedIsTyped
  <2>2. p \in Process /\ p.step = "rename" /\ p.merging = listed /\ p.merged = merged(I) /\ p.hour = h
    <3> HIDE DEF merged, listed
    <3>1. p \in Process /\ p.step = "rename" /\ p.merging = listed /\ p.merged = merged(I)
      BY <1>0, <1>3, <2>1, StepNames DEF Process
    <3>2. p.hour = h
      BY <1>0 DEF Process
    <3> QED BY <3>1, <3>2
  <2>3. Moves(c, p)
    BY <1>6, <2>2 DEF Moves
  <2>4. /\ comp'[c] = p
        /\ \A d \in Compactors : d # c => comp'[d] = comp[d]
    BY <2>3, MovesFacts
  <2>5. ASSUME NEW r \in Rows
        PROVE  /\ hourly[h][r] <= merged(I)[r]
               /\ merged(I)[r] <= hourly[h][r] + Cardinality(HoldsPart(h, r, listed))
               /\ \A i \in listed : r \in parts[h][i] => merged(I)[r] > 0 \/ r \in warned'
    <3> DEFINE J == {i \in I : r \in parts[h][i]}
    <3>1. hourly[h][r] \in Nat
      <4>1. hourly[h] \in [Rows -> Nat]
        BY <1>3 DEF TypeOK
      <4> QED BY <4>1
    <3>2. /\ IsFiniteSet(HoldsPart(h, r, listed)) /\ J \subseteq HoldsPart(h, r, listed)
          /\ J \in SUBSET Indexes /\ Cardinality(HoldsPart(h, r, listed)) \in Nat
      BY <1>3, IndexesAreFinite DEF HoldsPart
    <3>3. Cardinality(J) \in Nat /\ Cardinality(J) <= Cardinality(HoldsPart(h, r, listed))
      BY <3>2, IndexesAreFinite, FS_Subset
    <3>4. merged(I)[r] = hourly[h][r] + Cardinality(J)
      OBVIOUS
    <3>5. ASSUME NEW i \in listed, r \in parts[h][i] PROVE merged(I)[r] > 0 \/ r \in warned'
      <4>1. CASE i \in bad
        BY <1>1, <3>5, <4>1
      <4>2. CASE i \notin bad
        <5>1. J # {}
          BY <3>5, <4>2
        <5>2. Cardinality(J) # 0
          BY <3>2, <5>1, NoneOrMore
        <5> HIDE DEF J
        <5> QED BY <3>1, <3>3, <3>4, <5>2
      <4> QED BY <4>1, <4>2
    <3>6. hourly[h][r] <= merged(I)[r]
            /\ merged(I)[r] <= hourly[h][r] + Cardinality(HoldsPart(h, r, listed))
      <4>1. \A x, y, z, m \in Nat : y <= z /\ m = x + y => x <= m /\ m <= x + z
        OBVIOUS
      <4>2. merged(I)[r] \in Nat
        BY <2>1
      <4> HIDE DEF J, merged
      <4> QED BY <3>1, <3>2, <3>3, <3>4, <4>1, <4>2
    <3> QED BY <3>5, <3>6
  <2> HIDE DEF p, merged, next
  <2>6. LockHolder'
    BY <1>2, <1>4, <2>4 DEF LockHolder
  <2>7. Filed' /\ LandedIsKept' /\ Prefix'
    BY <1>2 DEF Good, clock, disk, memory, Filed, PartsOf, LandedIsKept, Kept, Prefix
  <2>8. UNCHANGED <<parts, hourly>> /\ \A k \in Hours : PartsOf(k)' = PartsOf(k)
    BY <1>2 DEF disk, PartsOf
  <2>9. Carried'
    <3>1. \A d \in Compactors : d # c => comp'[d].step \notin {"rename", "unlink"}
      BY <1>4, <2>4 DEF Holding, Working
    <3>2. PICK k \in Hours, L \in SUBSET Indexes : k = h /\ L = listed
      BY <1>3
    <3> HIDE DEF h, listed
    <3>3. /\ comp'[c].hour = k /\ comp'[c].merging = L /\ comp'[c].step = "rename"
          /\ comp'[c].merged = merged(I)
      BY <2>2, <2>4, <3>2
    <3>4. L # {} /\ L \subseteq PartsOf(k)
      BY <1>6, <3>2 DEF listed
    <3>5. \A r \in Rows : HoldsPart(k, r, L)' = HoldsPart(k, r, L)
      BY <2>8 DEF HoldsPart
    <3>6. \A r \in Rows :
            /\ hourly[k][r] <= merged(I)[r]
            /\ merged(I)[r] <= hourly[k][r] + Cardinality(HoldsPart(k, r, L))
            /\ \A i \in L : r \in parts[k][i] => merged(I)[r] > 0 \/ r \in warned'
      BY <2>5, <3>2
    <3>7. \A r \in Rows :
            {i \in comp'[c].merging : r \in parts'[comp'[c].hour][i]} = HoldsPart(k, r, L)
      BY <2>8, <3>3 DEF HoldsPart
    <3>8. /\ hourly' = hourly /\ parts' = parts /\ PartsOf(k)' = PartsOf(k)
      BY <2>8
    <3>9. /\ comp'[c].merging # {}
          /\ comp'[c].merging \subseteq {i \in Indexes : parts'[comp'[c].hour][i] # {}}
          /\ \A r \in Rows :
               /\ hourly'[comp'[c].hour][r] <= comp'[c].merged[r]
               /\ comp'[c].merged[r] <= hourly'[comp'[c].hour][r]
                     + Cardinality({i \in comp'[c].merging : r \in parts'[comp'[c].hour][i]})
               /\ \A i \in comp'[c].merging : r \in parts'[comp'[c].hour][i] =>
                    comp'[c].merged[r] > 0 \/ r \in warned'
      <4>1. {i \in Indexes : parts'[comp'[c].hour][i] # {}} = PartsOf(k)
        BY <3>3, <3>8 DEF PartsOf
      <4> QED BY <3>3, <3>4, <3>6, <3>7, <3>8, <4>1
    <3> QED BY <3>1, <3>3, <3>9 DEF Carried, HoldsPart, PartsOf
  <2>10. NeverTwice'
    <3>1. \A k \in Hours : Fresh(k)' = Fresh(k)
      BY <1>0, <2>2, <2>4 DEF Fresh
    <3>2. \A r \in Rows : Once(r)' <=> Once(r)
      BY <2>8, <3>1, HoursAreNumbers DEF Once
    <3> QED BY <1>2, <2>8, <3>2 DEF Good, NeverTwice, Kept, memory
  <2> QED BY <2>6, <2>7, <2>9, <2>10 DEF Good
<1> QED BY <1>1, <1>5, <1>6
(* The merged file holds what the hourly one and the parts did, but for the *)
(* parts it has warned of.                                                  *)
LEMMA RenameStep ==
  ASSUME TypeOK, Good, NEW c \in Compactors, Rename(c)
  PROVE  Good'
<1> DEFINE h == comp[c].hour
           I == comp[c].merging
           merged == comp[c].merged
           p == [comp[c] EXCEPT !.step = "unlink", !.merged = NoRows]
<1>0. comp \in [Compactors -> Process] /\ comp[c] \in Process /\ comp[c].step = "rename"
  BY DEF TypeOK, Process, Rename
<1>1. /\ comp' = [comp EXCEPT ![c] = p] /\ hourly' = [hourly EXCEPT ![h] = merged]
      /\ UNCHANGED <<clock, parts, memory, poll, lock, history>>
  BY DEF Rename
<1>2. h \in Hours /\ I \in SUBSET Indexes /\ merged \in [Rows -> Nat] /\ NoRows \in [Rows -> Nat]
  BY <1>0 DEF Process, NoRows
<1>3. p \in Process /\ p.step = "unlink" /\ p.hour = h /\ p.merging = I
  BY <1>0, <1>2, StepNames DEF Process
<1>4. /\ I # {} /\ I \subseteq PartsOf(h)
      /\ \A r \in Rows : /\ hourly[h][r] <= merged[r]
                         /\ merged[r] <= hourly[h][r] + Cardinality(HoldsPart(h, r, I))
                         /\ \A i \in I : r \in parts[h][i] => merged[r] > 0 \/ r \in warned
  BY <1>0 DEF Good, Carried
<1>a. lock = c /\ \A d \in Compactors : d # c => comp[d].step \notin Holding
  BY <1>0, OneHolds DEF Holding, Working
<1> HIDE DEF h, I, merged, p
<1>5. /\ comp'[c] = p
      /\ \A d \in Compactors : d # c => comp'[d] = comp[d]
  BY <1>1, <1>3, MovesFacts DEF Moves
<1>6. /\ hourly' \in [Hours -> [Rows -> Nat]] /\ hourly'[h] = merged
      /\ \A k \in Hours : k # h => hourly'[k] = hourly[k]
  BY <1>1, <1>2 DEF TypeOK
<1>7. LockHolder'
  BY <1>1, <1>a, <1>5 DEF LockHolder
<1>8. ASSUME NEW r \in Rows
      PROVE  /\ hourly[h][r] \in Nat /\ Cardinality(HoldsPart(h, r, I)) \in Nat
             /\ Cardinality(HoldsPart(h, r, I)) = 0 <=> HoldsPart(h, r, I) = {}
             /\ merged[r] \in Nat
             /\ merged[r] > 0 => hourly[h][r] > 0 \/ HoldsPart(h, r, I) # {}
             /\ hourly[h][r] > 0 => merged[r] > 0
  <2>1. hourly[h] \in [Rows -> Nat]
    BY <1>2 DEF TypeOK
  <2>2. HoldsPart(h, r, I) \in SUBSET Indexes
    BY <1>2 DEF HoldsPart
  <2>3. /\ Cardinality(HoldsPart(h, r, I)) \in Nat
        /\ Cardinality(HoldsPart(h, r, I)) = 0 <=> HoldsPart(h, r, I) = {}
    BY <2>2, IndexesAreFinite, NoneOrMore
  <2>4. merged[r] \in Nat /\ hourly[h][r] \in Nat
    BY <1>2, <2>1
  <2> QED BY <1>4, <2>3, <2>4
<1>9. Filed'
  <2>1. ASSUME NEW r \in Rows, merged[r] > 0 PROVE HourOf(r) = h
    <3>1. CASE hourly[h][r] > 0
      BY <1>2, <3>1 DEF Good, Filed
    <3>2. CASE HoldsPart(h, r, I) # {}
      BY <1>2, <3>2 DEF Good, Filed, HoldsPart
    <3> QED BY <1>8, <2>1, <3>1, <3>2
  <2>2. \A k \in Hours : PartsOf(k)' = PartsOf(k)
    BY <1>1 DEF PartsOf
  <2>3. \A k \in Hours : \A r \in Rows : hourly'[k][r] > 0 => HourOf(r) = k
    BY <1>6, <2>1 DEF Good, Filed
  <2> QED BY <1>1, <2>2, <2>3 DEF Good, Filed, memory
<1>10. Carried'
  <2>1. \A d \in Compactors : d # c => comp'[d].step \notin {"rename", "unlink"}
    BY <1>5, <1>a DEF Holding, Working
  <2>2. parts' = parts /\ \A k \in Hours : PartsOf(k)' = PartsOf(k)
    BY <1>1 DEF PartsOf
  <2>3. ASSUME NEW i \in I, NEW r \in parts[h][i] PROVE merged[r] > 0 \/ r \in warned
    <3>1. r \in Rows
      BY <1>2, <2>3 DEF TypeOK
    <3> QED BY <1>4, <3>1
  <2>4. warned' = warned
    BY <1>1 DEF history, told
  <2> QED BY <1>2, <1>3, <1>4, <1>5, <1>6, <2>1, <2>2, <2>3, <2>4 DEF Carried, PartsOf
<1>11. ASSUME NEW r \in Rows
       PROVE  (Kept(r)' => Kept(r)) /\ (Kept(r) => Kept(r)' \/ r \in warned)
  <2>1. HourOf(r) \in Hours
    BY HoursAreNumbers
  <2>2. CASE HourOf(r) # h
    BY <1>1, <1>6, <2>1, <2>2 DEF Kept
  <2>3. CASE HourOf(r) = h
    BY <1>1, <1>2, <1>6, <1>8, <2>3 DEF Kept, HoldsPart
  <2> QED BY <2>2, <2>3
<1>12. LandedIsKept'
  <2>1. landed \subseteq Rows /\ landed' = landed /\ warned' = warned
    BY <1>1 DEF TypeOK, history, told
  <2> QED BY <1>11, <2>1 DEF Good, LandedIsKept
<1>13. NeverTwice'
  <2>1. \A k \in Hours : k = h => Fresh(k) = Indexes /\ Fresh(k)' = Indexes \ I
    BY <1>0, <1>3, <1>5, <1>a DEF Fresh, Holding, Working
  <2>2. \A k \in Hours : k # h => Fresh(k)' = Fresh(k)
    BY <1>0, <1>3, <1>5 DEF Fresh, h
  <2>3. ASSUME NEW r \in Rows, Once(r) PROVE Once(r)'
    <3>1. HourOf(r) \in Hours
      BY HoursAreNumbers
    <3>2. CASE HourOf(r) # h
      BY <1>1, <1>6, <2>2, <2>3, <3>1, <3>2 DEF Once
    <3>3. CASE HourOf(r) = h
      <4>1. /\ hourly[h][r] <= 1
            /\ \A i \in Indexes : r \in parts[h][i] => hourly[h][r] = 0
            /\ \A i, j \in Indexes : r \in parts[h][i] /\ r \in parts[h][j] => i = j
        BY <1>2, <2>1, <2>3, <3>3 DEF Once
      <4>2. HoldsPart(h, r, I) \in SUBSET Indexes /\ \A i, j \in HoldsPart(h, r, I) : i = j
        BY <1>2, <4>1 DEF HoldsPart
      <4>3. Cardinality(HoldsPart(h, r, I)) <= 1
        BY <4>2, AtMostOne
      <4>4. HoldsPart(h, r, I) # {} => hourly[h][r] = 0
        BY <4>1, <4>2 DEF HoldsPart
      <4>5. merged[r] <= 1
        BY <1>4, <1>8, <4>1, <4>3, <4>4
      <4>6. ASSUME NEW i \in Indexes \ I, r \in parts[h][i] PROVE merged[r] = 0
        <5>1. hourly[h][r] = 0 /\ HoldsPart(h, r, I) = {}
          BY <1>2, <4>1, <4>6 DEF HoldsPart
        <5> QED BY <1>4, <1>8, <5>1
      <4> QED BY <1>1, <1>6, <1>2, <2>1, <3>3, <4>1, <4>5, <4>6 DEF Once
    <3> QED BY <3>2, <3>3
  <2>4. buffer' = buffer /\ buffer \subseteq Rows /\ raced' = raced /\ cut' = cut
    BY <1>1 DEF TypeOK, memory, history
  <2> QED BY <1>11, <2>3, <2>4 DEF Good, NeverTwice
<1>14. Prefix'
  BY <1>1 DEF Good, Prefix, clock, memory, history, told
<1> QED BY <1>7, <1>9, <1>10, <1>12, <1>13, <1>14 DEF Good

(* A part goes whose rows the hourly file holds, or were warned of. *)
LEMMA UnlinkStep ==
  ASSUME TypeOK, Good, NEW c \in Compactors, Unlink(c)
  PROVE  Good'
<1> DEFINE h == comp[c].hour
           I == comp[c].merging
           i == Min(I)
           left == I \ {i}
           p == IF left = {} THEN Between(c) ELSE [comp[c] EXCEPT !.merging = left]
<1>0. comp \in [Compactors -> Process] /\ comp[c] \in Process /\ comp[c].step = "unlink"
  BY DEF TypeOK, Process, Unlink
<1>1. /\ comp' = [comp EXCEPT ![c] = p] /\ parts' = [parts EXCEPT ![h][i] = {}]
      /\ UNCHANGED <<clock, hourly, memory, poll, lock, history>>
  BY DEF Unlink
<1>2. h \in Hours /\ I \in SUBSET Indexes
  BY <1>0 DEF Process
<1>3. /\ I # {} /\ I \subseteq PartsOf(h)
      /\ \A j \in I : \A r \in parts[h][j] : hourly[h][r] > 0 \/ r \in warned
  BY <1>0 DEF Good, Carried
<1>4. i \in I /\ i \in Indexes
  BY <1>2, <1>3, MinOf, ArchiveAssumption DEF Indexes
<1>5. /\ p \in Process
      /\ left = {} => p.step = "between"
      /\ left # {} => p.step = "unlink" /\ p.hour = h /\ p.merging = left
  <2>1. Between(c) \in Process /\ Between(c).step = "between"
    BY BetweenIsProcess
  <2>2. left \in SUBSET Indexes
    BY <1>2
  <2> HIDE DEF left
  <2> QED BY <1>0, <2>1, <2>2 DEF Process
<1>a. lock = c /\ \A d \in Compactors : d # c => comp[d].step \notin Holding
  BY <1>0, OneHolds DEF Holding, Working
<1> HIDE DEF h, I, i, p
<1>7. /\ comp'[c] = p
      /\ \A d \in Compactors : d # c => comp'[d] = comp[d]
  BY <1>1, <1>5, MovesFacts DEF Moves
<1>8. /\ parts' \in [Hours -> [Indexes -> SUBSET Rows]] /\ parts'[h][i] = {}
      /\ \A k \in Hours, j \in Indexes : ~(k = h /\ j = i) => parts'[k][j] = parts[k][j]
  BY <1>1, <1>2, <1>4 DEF TypeOK
<1>9. LockHolder'
  BY <1>1, <1>a, <1>7 DEF LockHolder
<1>10. Filed'
  <2>1. \A k \in Hours, j \in Indexes : parts'[k][j] \subseteq parts[k][j]
    BY <1>8
  <2>2. \A k \in Hours : PartsOf(k)' \subseteq PartsOf(k)
    BY <2>1 DEF PartsOf
  <2> QED BY <1>1, <2>1, <2>2 DEF Good, Filed, memory
<1>11. Carried'
  <2>1. \A d \in Compactors : d # c => comp'[d].step \notin {"rename", "unlink"}
    BY <1>7, <1>a DEF Holding, Working
  <2>2. ASSUME NEW j \in left PROVE j \in Indexes /\ parts'[h][j] = parts[h][j] /\ parts[h][j] # {}
    BY <1>2, <1>3, <1>8 DEF PartsOf
  <2>3. \A k \in Hours : k = h => left \subseteq PartsOf(k)'
    BY <2>2 DEF PartsOf
  <2>4. warned' = warned /\ hourly' = hourly
    BY <1>1 DEF history, told
  <2> QED BY <1>3, <1>5, <1>7, <1>2, <2>1, <2>2, <2>3, <2>4 DEF Carried
<1>12. ASSUME NEW r \in Rows
       PROVE  (Kept(r)' => Kept(r)) /\ (Kept(r) => Kept(r)' \/ r \in warned)
  <2>1. HourOf(r) \in Hours
    BY HoursAreNumbers
  <2>2. CASE r \in parts[h][i]
    <3>1. HourOf(r) = h /\ (hourly[h][r] > 0 \/ r \in warned)
      BY <1>2, <1>3, <1>4, <2>2 DEF Good, Filed
    <3> QED BY <1>1, <1>4, <2>2, <3>1 DEF Kept
  <2>3. CASE r \notin parts[h][i]
    BY <1>1, <1>8, <2>1, <2>3 DEF Kept
  <2> QED BY <2>2, <2>3
<1>13. LandedIsKept'
  <2>1. landed \subseteq Rows /\ landed' = landed /\ warned' = warned
    BY <1>1 DEF TypeOK, history, told
  <2> QED BY <1>12, <2>1 DEF Good, LandedIsKept
<1>14. NeverTwice'
  <2>1. \A k \in Hours : k = h => Fresh(k) = Indexes \ I /\ Fresh(k)' = Indexes \ left
    BY <1>0, <1>5, <1>7, <1>4, <1>a DEF Fresh, Holding, Working, h, I
  <2>2. \A k \in Hours : k # h => Fresh(k)' = Fresh(k)
    BY <1>0, <1>5, <1>7 DEF Fresh, h
  <2>3. ASSUME NEW r \in Rows, Once(r) PROVE Once(r)'
    <3>1. HourOf(r) \in Hours
      BY HoursAreNumbers
    <3>2. CASE HourOf(r) # h
      BY <1>1, <1>8, <2>2, <2>3, <3>1, <3>2 DEF Once, Fresh
    <3>3. CASE HourOf(r) = h
      <4>1. \A j \in Indexes \ left : r \in parts'[h][j] => j \in Fresh(h) /\ r \in parts[h][j]
        BY <1>2, <1>4, <1>8, <2>1
      <4> QED BY <1>1, <1>2, <2>1, <2>3, <3>3, <4>1 DEF Once
    <3> QED BY <3>2, <3>3
  <2>4. buffer' = buffer /\ buffer \subseteq Rows /\ raced' = raced /\ cut' = cut
    BY <1>1 DEF TypeOK, memory, history
  <2> QED BY <1>12, <2>3, <2>4 DEF Good, NeverTwice
<1>15. Prefix'
  BY <1>1 DEF Good, Prefix, clock, memory, history, told
<1> QED BY <1>9, <1>10, <1>11, <1>13, <1>14, <1>15 DEF Good

LEMMA InductiveStep == IInv /\ [Next]_vars => IInv'
<1> SUFFICES ASSUME IInv, [Next]_vars PROVE IInv'
  OBVIOUS
<1>0. TypeOK
  BY DEF IInv
<1>1. CASE UNCHANGED vars
  <2> USE <1>1 DEF vars, clock, disk, memory, history, told
  <2>1. TypeOK' /\ LockHolder' = LockHolder
    BY <1>0 DEF TypeOK, LockHolder
  <2>2. Filed' = Filed /\ Carried' = Carried /\ LandedIsKept' = LandedIsKept
    BY DEF Filed, Carried, PartsOf, HoldsPart, LandedIsKept, Kept
  <2>3. NeverTwice' = NeverTwice /\ Prefix' = Prefix
    BY DEF NeverTwice, Once, Fresh, Kept, Prefix
  <2>4. Good => Good'
    BY <2>1, <2>2, <2>3 DEF Good
  <2> QED BY <2>1, <2>4 DEF IInv
<1>2. CASE Next
  <2>1. TypeOK'
    BY <1>0, <1>2, CollectTypes, CompactTypes DEF Next
  <2>2. ASSUME ~contested' PROVE ~contested
    <3>1. CASE Collect \/ CollectorKilled \/ HourPasses
      BY <2>2, <3>1 DEF Collect, CollectorKilled, HourPasses, SeedPart, LandPart, LandFails, Frame,
         PollNames, PollFetch, PollDone, history
    <3>2. ASSUME NEW c \in Compactors, CompactStep(c) \/ CompactorRaises(c) \/ CompactorKilled(c)
          PROVE  ~contested
      BY <2>2, <3>2 DEF CompactStep, CompactorRaises, CompactorKilled, Start, Create, LockHeld,
         HolderDead, TakeOver, Recreate, WritePid, NextUnit, Read, Rename, Unlink, Finish, history
    <3> QED BY <1>2, <3>1, <3>2 DEF Next
  <2>3. ASSUME ~contested', Good PROVE Good'
    <3>1. CASE Collect \/ CollectorKilled \/ HourPasses
      BY <1>0, <2>3, <3>1, CollectStep
    <3>2. ASSUME NEW c \in Compactors, CompactStep(c) \/ CompactorRaises(c) \/ CompactorKilled(c)
          PROVE  Good'
      BY <1>0, <2>3, <3>2, LockStep, UnitStep, ReadStep, RenameStep, UnlinkStep DEF CompactStep
    <3> QED BY <1>2, <3>1, <3>2 DEF Next
  <2> QED BY <2>1, <2>2, <2>3 DEF IInv
<1> QED BY <1>1, <1>2

THEOREM Invariance == Spec => []IInv
BY InitIInv, InductiveStep, PTL DEF Spec
-----------------------------------------------------------------------------
(* The variables stay in their types, also where runs of the compaction     *)
(* overlap.                                                                 *)
THEOREM TypeCorrect == Spec => []TypeOK
<1>1. IInv => TypeOK
  BY DEF IInv
<1> QED BY <1>1, Invariance, PTL

(* However many compactors run, die and raise, one at most is at work on    *)
(* the archive and the lock file is its own, until a takeover unlinks the   *)
(* lock of a live run.                                                      *)
THEOREM OneCompactorHolds == Spec => []OneCompactor
<1>1. IInv => OneCompactor
  BY DEF IInv, Good, LockHolder, OneCompactor, Exclusive, Holding
<1> QED BY <1>1, Invariance, PTL

(* Every row the sink renamed into place is in a part or in the hourly file *)
(* of its hour, whatever restarts, compactions and faults come, or was in a *)
(* part that a compaction could not read and warned of.                     *)
THEOREM NothingLostHolds == Spec => []NothingLost
<1>1. IInv => NothingLost
  <2> SUFFICES ASSUME IInv, ~contested, NEW r \in landed PROVE r \in Stored \cup warned
    BY DEF NothingLost
  <2>1. r \in Rows /\ Stored = {q \in Rows : Kept(q)}
    BY StoredIsKept DEF IInv, TypeOK
  <2> QED BY <2>1 DEF IInv, Good, LandedIsKept
<1> QED BY <1>1, Invariance, PTL

(* No row is stored twice but where a compaction was cut or a cursor was    *)
(* not the newest row, and a polled tape has no gap but for the rows the    *)
(* poller came to too late and those of unreadable parts.                   *)
THEOREM TapeWholeHolds == Spec => []TapeWhole
<1>1. TypeOK /\ Good => OnceUnlessCut
  <2> SUFFICES ASSUME TypeOK, Good, ~raced, NEW r \in Rows, HourOf(r) \notin cut,
                      \A c \in Compactors : ~(comp[c].step = "unlink" /\ comp[c].hour = HourOf(r))
               PROVE  ~(Copies(r) > 1)
    BY DEF OnceUnlessCut
  <2> DEFINE h == HourOf(r)
             I == {i \in Indexes : r \in parts[h][i]}
  <2>1. h \in Hours /\ hourly \in [Hours -> [Rows -> Nat]]
    BY HoursAreNumbers DEF TypeOK
  <2>2. Fresh(h) = Indexes /\ Once(r)
    BY DEF Fresh, Good, NeverTwice
  <2>3. /\ hourly[h][r] <= 1 /\ I \in SUBSET Indexes
        /\ I # {} => hourly[h][r] = 0
        /\ \A i, j \in I : i = j
    BY <2>2 DEF Once
  <2>4. Copies(r) = hourly[h][r] + Cardinality(I)
    BY DEF Copies
  <2>5. hourly[h][r] \in Nat
    <3>1. hourly[h] \in [Rows -> Nat]
      BY <2>1
    <3> QED BY <3>1
  <2> HIDE DEF h, I
  <2>6. Cardinality(I) \in Nat /\ Cardinality(I) <= 1 /\ (I = {} => Cardinality(I) = 0)
    BY <2>3, IndexesAreFinite, NoneOrMore, AtMostOne
  <2> QED BY <2>3, <2>4, <2>5, <2>6
<1>2. TypeOK /\ Good => NoGap
  <2> SUFFICES ASSUME TypeOK, Good, feed = "poller", NEW r \in Stored, NEW s \in Rows, s < r
               PROVE  s \in Stored \cup skipped \cup warned
    BY DEF NoGap
  <2>1. Stored = {q \in Rows : Kept(q)}
    BY StoredIsKept
  <2>2. s \in landed \cup skipped
    BY <2>1 DEF Good, LandedIsKept, Prefix
  <2> QED BY <2>1, <2>2 DEF Good, LandedIsKept
<1>3. IInv => TapeWhole
  BY <1>1, <1>2 DEF IInv, TapeWhole
<1> QED BY <1>3, Invariance, PTL
-----------------------------------------------------------------------------
(* The sessions of the collectors (Feed).                                  *)
LEMMA FeedConstants ==
  /\ Deadline \in Nat /\ OpenTimeout \in Nat /\ FlushEvery \in Nat /\ Keepalive \in Nat
  /\ Heartbeat \in Nat \ {0} /\ Patience \in Nat \ {0}
  /\ MaxDelay \in Nat \ {0} /\ MaxAge \in Nat \ {0}
BY CollectorsAssumption

LEMMA LesserOfTwo ==
  ASSUME NEW a \in Nat, NEW b \in Nat
  PROVE  Feed!Min({a, b}) \in Nat /\ Feed!Min({a, b}) <= a /\ Feed!Min({a, b}) <= b /\ Feed!Min({a, b}) \in {a, b}
<1>1. {a, b} \in SUBSET Nat /\ {a, b} # {}
  OBVIOUS
<1>2. \E n \in {a, b} : \A m \in {a, b} : n <= m
  BY <1>1, LeastOf
<1>3. Feed!Min({a, b}) \in {a, b} /\ \A m \in {a, b} : Feed!Min({a, b}) <= m
  BY <1>2 DEF Feed!Min
<1> QED BY <1>3

LEMMA FeedBounds ==
  /\ Deadline \in Nat /\ OpenTimeout \in Nat /\ FlushEvery \in Nat /\ Keepalive \in Nat
  /\ Heartbeat \in Nat \ {0} /\ Patience \in Nat \ {0} /\ MaxDelay \in Nat \ {0} /\ MaxAge \in Nat \ {0}
  /\ Feed!Never = Deadline + OpenTimeout + MaxDelay + 1 /\ Feed!Never \in Nat
BY FeedConstants DEF Feed!Never

LEMMA PowerIsPositive == \A n \in Nat : 2 ^ n \in Nat \ {0}
<1> SUFFICES ASSUME NEW n \in Nat PROVE 2 ^ n \in Nat \ {0}
  OBVIOUS
<1>1. IsFiniteSet(1 .. n) /\ Cardinality(1 .. n) = n
  BY FS_Interval
<1>2. IsFiniteSet(SUBSET (1 .. n)) /\ Cardinality(SUBSET (1 .. n)) = 2 ^ n
  BY <1>1, FS_SUBSET
<1>3. SUBSET (1 .. n) # {}
  OBVIOUS
<1>4. Cardinality(SUBSET (1 .. n)) \in Nat /\ Cardinality(SUBSET (1 .. n)) # 0
  BY <1>2, <1>3, FS_CardinalityType, FS_EmptySet
<1> QED BY <1>2, <1>4

(* A backoff takes time, and not too much.                                 *)
LEMMA Delays ==
  ASSUME NEW n \in Nat
  PROVE  Feed!BackoffDelay(n) \in Nat /\ 1 <= Feed!BackoffDelay(n) /\ Feed!BackoffDelay(n) <= MaxDelay
<1>1. 2 ^ n \in Nat \ {0} /\ MaxDelay \in Nat \ {0}
  BY PowerIsPositive, FeedBounds
<1> DEFINE p == 2 ^ n
<1>2. Feed!Min({p, MaxDelay}) \in {p, MaxDelay} /\ Feed!Min({p, MaxDelay}) <= MaxDelay
  BY <1>1, LesserOfTwo
<1>3. Feed!BackoffDelay(n) = Feed!Min({p, MaxDelay})
  BY DEF Feed!BackoffDelay
<1> HIDE DEF p
<1>4. p \in Nat \ {0}
  BY <1>1 DEF p
<1> QED BY <1>1, <1>2, <1>3, <1>4

Sessions == {Feed!BookSession, Feed!LiquidationSession, Feed!OwnSession, Feed!BinanceSession}

LEMMA SessionIs ==
  ASSUME NEW s \in Sessions
  PROVE  /\ s.heartbeat \in Nat /\ 1 <= s.heartbeat /\ s.keepalive \in Nat
         /\ s.own \in BOOLEAN /\ s.rowsFlush \in BOOLEAN
         /\ s.keepalive \div 2 \in Nat
         /\ Feed!Slice(s) \in Nat /\ (s.keepalive # 0 => Feed!Slice(s) <= s.keepalive \div 2)
<1>1. /\ s.heartbeat \in Nat /\ 1 <= s.heartbeat /\ s.keepalive \in Nat
      /\ s.own \in BOOLEAN /\ s.rowsFlush \in BOOLEAN
  <2>1. CASE s = Feed!BookSession
    BY <2>1, FeedBounds DEF Feed!BookSession
  <2>2. CASE s = Feed!LiquidationSession
    BY <2>2, FeedBounds DEF Feed!LiquidationSession
  <2>3. CASE s = Feed!OwnSession
    BY <2>3, FeedBounds DEF Feed!OwnSession
  <2>4. CASE s = Feed!BinanceSession
    BY <2>4, FeedBounds DEF Feed!BinanceSession
  <2> QED BY <2>1, <2>2, <2>3, <2>4 DEF Sessions
<1>2. s.keepalive \div 2 \in Nat
  BY <1>1
<1>3. CASE s.keepalive = 0
  BY <1>1, <1>2, <1>3 DEF Feed!Slice
<1>4. CASE s.keepalive # 0
  <2> DEFINE k == s.keepalive \div 2
  <2>1. Feed!Slice(s) = Feed!Min({s.heartbeat, k})
    BY <1>4 DEF Feed!Slice
  <2>2. k \in Nat
    BY <1>2
  <2> HIDE DEF k
  <2>3. Feed!Min({s.heartbeat, k}) \in Nat /\ Feed!Min({s.heartbeat, k}) <= k
    BY <1>1, <2>2, LesserOfTwo
  <2>4. Feed!Slice(s) \in Nat /\ Feed!Slice(s) <= k
    BY <2>1, <2>3
  <2> QED BY <1>1, <1>2, <2>4 DEF k
<1> QED BY <1>3, <1>4

LEMMA FeedTyped ==
  ASSUME Feed!TypeOK
  PROVE  /\ v1 \in Sessions /\ v3 \in {"connecting", "up", "sleeping", "ended"}
         /\ v2 \in Nat /\ v5 \in Nat /\ v6 \in Nat /\ v7 \in Nat /\ v8 \in Nat
         /\ v9 \in Nat /\ v10 \in Nat /\ v4 \in Nat
         /\ v2 <= Feed!Never /\ v5 <= Feed!Never /\ v6 <= Feed!Never /\ v7 <= Feed!Never
         /\ v8 <= Feed!Never /\ v9 <= Feed!Never /\ v10 <= Feed!Never
         /\ v4 <= Deadline + 1
BY FeedBounds DEF Feed!TypeOK, Sessions

LEMMA FeedTypes ==
  ASSUME v1' \in Sessions, v3' \in {"connecting", "up", "sleeping", "ended"},
         v2' \in 0 .. Feed!Never, v5' \in 0 .. Feed!Never, v6' \in 0 .. Feed!Never, v7' \in 0 .. Feed!Never,
         v8' \in 0 .. Feed!Never, v9' \in 0 .. Feed!Never, v10' \in 0 .. Feed!Never,
         v4' \in 0 .. Deadline + 1
  PROVE  Feed!TypeOK'
BY DEF Feed!TypeOK, Sessions

(* Timely follows from the rest.                                           *)
LEMMA TimelyIs ==
  ASSUME Feed!TypeOK', Feed!Waits', Feed!Polled', Feed!RowsNotHeld'
  PROVE  Feed!Timely'
<1>1. /\ v1' \in Sessions /\ v2' \in Nat /\ v5' \in Nat /\ v6' \in Nat /\ v7' \in Nat
  BY FeedBounds DEF Feed!TypeOK, Sessions
<1> DEFINE s == v1'
           slice == Feed!Slice(v1)'
           half == s.keepalive \div 2
<1>2. s.heartbeat \in Nat /\ slice \in Nat /\ s.keepalive \in Nat /\ half \in Nat
  <2>1. slice = Feed!Slice(s)
    BY DEF Feed!Slice
  <2> QED BY <1>1, <2>1, SessionIs
<1>3. /\ v3' = "up" => /\ v2' <= v5' /\ v5' - v6' < s.heartbeat + slice
                       /\ s.keepalive # 0 => v5' - v7' < s.keepalive + half
  BY DEF Feed!Waits, Feed!Polled
<1>4. /\ Feed!KeptAlive' <=> (v3' = "up" /\ s.keepalive # 0 => v2' - v7' < s.keepalive + half)
      /\ Feed!SilenceNoticed' <=> (v3' = "up" => v2' - v6' < s.heartbeat + slice)
  BY DEF Feed!KeptAlive, Feed!SilenceNoticed
<1> HIDE DEF s, slice, half
<1>5. Feed!KeptAlive' /\ Feed!SilenceNoticed'
  BY <1>1, <1>2, <1>3, <1>4
<1> QED BY <1>5 DEF Feed!Timely

(* The head of the inner loop.                                             *)
LEMMA Waiting ==
  ASSUME Feed!IInv, NEW k \in 0 .. Feed!Never, Feed!Wait(k), v2' = v2, v1' = v1
  PROVE  /\ v2 < Deadline /\ v3' = "up" /\ v5' \in Nat /\ v2 <= v5' /\ v5' <= Deadline
         /\ Feed!Slice(v1) \in Nat /\ v5' - v2 <= Feed!Slice(v1)
         /\ v7' \in {k, v2}
         /\ v1.keepalive # 0 => v5' - v7' < v1.keepalive + v1.keepalive \div 2
<1>1. v2 \in Nat /\ v1 \in Sessions /\ k \in Nat
  BY FeedTyped, FeedBounds DEF Feed!IInv
<1> DEFINE slice == Feed!Slice(v1)
           half == v1.keepalive \div 2
           wait == Feed!Min({slice, Deadline - v2})
<1>2. /\ slice \in Nat /\ v1.keepalive \in Nat /\ half \in Nat
      /\ (v1.keepalive # 0 => slice <= half)
  BY <1>1, SessionIs
<1>3. /\ ~(v2 >= Deadline) /\ v3' = "up" /\ v5' = v2 + wait
      /\ v7' = IF v1.keepalive # 0 /\ v2 - k >= v1.keepalive THEN v2 ELSE k
  BY DEF Feed!Wait, Feed!Over
<1>4. Deadline \in Nat /\ Deadline - v2 \in Nat /\ v2 < Deadline
  BY <1>1, <1>3, FeedBounds
<1>5. wait \in Nat /\ wait <= slice /\ wait <= Deadline - v2
  <2> HIDE DEF slice
  <2> QED BY <1>2, <1>4, LesserOfTwo
<1> HIDE DEF slice, half, wait
<1>6. v5' \in Nat /\ v2 <= v5' /\ v5' <= Deadline /\ v5' - v2 <= slice
  BY <1>1, <1>2, <1>3, <1>4, <1>5
<1>7. v1.keepalive # 0 => v5' - v7' < v1.keepalive + half
  BY <1>1, <1>2, <1>3, <1>5, <1>6
<1> QED BY <1>2, <1>3, <1>4, <1>6, <1>7 DEF slice, half

LEMMA FeedStarts == Feed!Init => Feed!IInv
<1> SUFFICES ASSUME Feed!Init PROVE Feed!IInv
  OBVIOUS
<1>1. /\ v1 \in Sessions /\ v2 = 0 /\ v3 = "connecting" /\ v5 = OpenTimeout /\ v4 = 0
      /\ v6 = 0 /\ v7 = 0 /\ v8 = 0 /\ v9 = 0 /\ v10 = Feed!Never
  BY DEF Feed!Init, Sessions
<1>2. 0 \in 0 .. Feed!Never /\ OpenTimeout \in 0 .. Feed!Never /\ Feed!Never \in 0 .. Feed!Never /\ 0 \in 0 .. Deadline + 1
  BY FeedBounds
<1>3. Feed!TypeOK
  BY <1>1, <1>2 DEF Feed!TypeOK, Sessions
<1>4. Feed!Waits /\ Feed!Polled /\ Feed!Aged
  BY <1>1, FeedBounds DEF Feed!Waits, Feed!Polled, Feed!Aged
<1>5. Feed!Timely
  BY <1>1 DEF Feed!Timely, Feed!KeptAlive, Feed!SilenceNoticed, Feed!RowsNotHeld
<1> QED BY <1>3, <1>4, <1>5 DEF Feed!IInv

(* Another session, or the end.                                            *)
LEMMA GoesAgain ==
  ASSUME Feed!IInv, Feed!Again, v2' = v2, v1' = v1, v3 # "ended",
         UNCHANGED <<v4, v6, v7, v8, v9>>,
         v2 < Deadline => v4 <= v2
  PROVE  Feed!IInv'
<1>1. /\ v1 \in Sessions /\ v2 \in Nat /\ v5 \in Nat /\ v10 \in Nat /\ v4 \in Nat
      /\ v2 <= Feed!Never /\ v5 <= Feed!Never /\ v10 <= Feed!Never /\ v4 <= Deadline + 1
      /\ v6 \in 0 .. Feed!Never /\ v7 \in 0 .. Feed!Never /\ v8 \in 0 .. Feed!Never
      /\ v9 \in 0 .. Feed!Never
  BY FeedTyped, FeedBounds DEF Feed!IInv
<1>2. CASE Feed!Over
  <2>1. v3' = "ended" /\ v10' = Feed!Never /\ v5' = v5
    BY <1>2 DEF Feed!Again, Feed!End
  <2>2. Feed!TypeOK'
    BY <1>1, <2>1, FeedTypes, FeedBounds
  <2>3. Feed!Waits' /\ Feed!Polled' /\ Feed!Aged' /\ Feed!RowsNotHeld'
    BY <2>1 DEF Feed!IInv, Feed!Waits, Feed!Polled, Feed!Aged, Feed!RowsNotHeld
  <2> QED BY <2>2, <2>3, TimelyIs DEF Feed!IInv
<1>3. CASE ~Feed!Over
  <2>1. v3' = "connecting" /\ v10' = v10 /\ v5' = v2 + OpenTimeout /\ v2 < Deadline
    BY <1>1, <1>3, FeedBounds DEF Feed!Again, Feed!Open, Feed!Over
  <2>2. v5' \in 0 .. Feed!Never /\ v2 <= v5' /\ v5' <= Deadline + OpenTimeout
    BY <1>1, <2>1, FeedBounds
  <2>3. Feed!TypeOK'
    BY <1>1, <2>1, <2>2, FeedTypes, FeedBounds
  <2>4. Feed!Waits'
    BY <1>1, <2>1, <2>2, FeedBounds DEF Feed!Waits
  <2>5. Feed!Polled' /\ Feed!Aged' /\ Feed!RowsNotHeld'
    BY <2>1 DEF Feed!IInv, Feed!Polled, Feed!Aged, Feed!Timely, Feed!RowsNotHeld
  <2> QED BY <2>3, <2>4, <2>5, TimelyIs DEF Feed!IInv
<1> QED BY <1>2, <1>3

LEMMA Connects ==
  ASSUME Feed!IInv, Feed!Connect
  PROVE  Feed!IInv'
<1>1. /\ v3 = "connecting" /\ v4' = 0 /\ v6' = v2
      /\ UNCHANGED <<v1, v2, v8, v9>>
  BY DEF Feed!Connect
<1>2. /\ v1 \in Sessions /\ v2 \in Nat /\ v2 <= Feed!Never /\ v5 \in 0 .. Feed!Never /\ v10 \in 0 .. Feed!Never
      /\ v8 \in 0 .. Feed!Never /\ v9 \in 0 .. Feed!Never /\ v7 \in 0 .. Feed!Never
      /\ v2 \in 0 .. Feed!Never /\ 0 \in 0 .. Deadline + 1 /\ Feed!Never \in 0 .. Feed!Never
  BY FeedTyped, FeedBounds DEF Feed!IInv
<1>3. CASE Feed!Over
  <2>1. v3' = "ended" /\ v10' = Feed!Never /\ v5' = v5 /\ v7' = v2
    BY <1>3 DEF Feed!Connect, Feed!End
  <2>2. Feed!TypeOK'
    BY <1>1, <1>2, <2>1, FeedTypes
  <2>3. Feed!Waits' /\ Feed!Polled' /\ Feed!Aged' /\ Feed!RowsNotHeld'
    BY <1>1, <2>1 DEF Feed!IInv, Feed!Waits, Feed!Polled, Feed!Aged, Feed!RowsNotHeld
  <2> QED BY <2>2, <2>3, TimelyIs DEF Feed!IInv
<1>4. CASE ~Feed!Over
  <2>1. Feed!Wait(v2) /\ v10' = v10
    BY <1>4 DEF Feed!Connect
  <2>2. /\ v2 < Deadline /\ v3' = "up" /\ v5' \in Nat /\ v2 <= v5' /\ v5' <= Deadline
        /\ Feed!Slice(v1) \in Nat /\ v5' - v2 <= Feed!Slice(v1)
        /\ v7' \in {v2}
        /\ v1.keepalive # 0 => v5' - v7' < v1.keepalive + v1.keepalive \div 2
    BY <1>1, <1>2, <2>1, Waiting
  <2>3. v5' \in 0 .. Feed!Never
    BY <2>2, FeedBounds
  <2>4. Feed!TypeOK'
    BY <1>1, <1>2, <2>1, <2>2, <2>3, FeedTypes
  <2>5. Feed!Waits'
    BY <1>1, <2>2 DEF Feed!Waits
  <2>6. v1.heartbeat \in Nat /\ 1 <= v1.heartbeat
    BY <1>2, SessionIs
  <2>7. v5' - v6' < v1.heartbeat + Feed!Slice(v1)
    BY <1>1, <1>2, <2>2, <2>6
  <2>8. Feed!Polled'
    BY <1>1, <2>2, <2>7 DEF Feed!Polled, Feed!Slice
  <2>9. Feed!Aged' /\ Feed!RowsNotHeld'
    BY <1>1, <2>1 DEF Feed!IInv, Feed!Aged, Feed!Timely, Feed!RowsNotHeld
  <2> QED BY <2>4, <2>5, <2>8, <2>9, TimelyIs DEF Feed!IInv
<1> QED BY <1>3, <1>4

(* Raised in a session or a connect.                                       *)
LEMMA BacksOff ==
  ASSUME Feed!IInv, Feed!Raise, v3 \in {"connecting", "up"},
         UNCHANGED <<v1, v2, v7, v8, v9, v10>>,
         v6' \in {v6, v2}
  PROVE  Feed!IInv'
<1>1. /\ v1 \in Sessions /\ v2 \in Nat /\ v5 \in Nat /\ v4 \in Nat
      /\ v8 \in 0 .. Feed!Never /\ v9 \in 0 .. Feed!Never /\ v7 \in 0 .. Feed!Never
      /\ v2 \in 0 .. Feed!Never /\ v6 \in 0 .. Feed!Never /\ v10 \in 0 .. Feed!Never
  BY FeedTyped, FeedBounds DEF Feed!IInv
<1>2. v3' = "sleeping" /\ v5' = v2 + Feed!BackoffDelay(v4) /\ v4' = v4 + 1
  BY DEF Feed!Raise
<1>3. v2 <= v5 /\ v5 <= Deadline + OpenTimeout /\ v4 <= v2 /\ v4 <= Deadline
  BY <1>1, FeedBounds DEF Feed!IInv, Feed!Waits
<1>4. /\ v5' \in Nat /\ v2 + 1 <= v5' /\ v5' <= Deadline + OpenTimeout + MaxDelay
      /\ v5' <= Feed!Never
  <2>1. Feed!BackoffDelay(v4) \in Nat /\ 1 <= Feed!BackoffDelay(v4) /\ Feed!BackoffDelay(v4) <= MaxDelay
    BY <1>1, Delays
  <2> QED BY <1>1, <1>2, <1>3, <2>1, FeedBounds
<1>5. v5' \in 0 .. Feed!Never /\ v4' \in 0 .. Deadline + 1
  BY <1>1, <1>2, <1>3, <1>4, FeedBounds
<1>6. Feed!TypeOK'
  BY <1>1, <1>2, <1>5, FeedTypes
<1>7. Feed!Waits'
  BY <1>1, <1>2, <1>3, <1>4 DEF Feed!Waits
<1>8. Feed!Polled' /\ Feed!Aged' /\ Feed!RowsNotHeld'
  BY <1>2 DEF Feed!IInv, Feed!Polled, Feed!Aged, Feed!Timely, Feed!RowsNotHeld
<1> QED BY <1>6, <1>7, <1>8, TimelyIs DEF Feed!IInv

(* What a data frame leaves in the sink, first being the stamp of its      *)
(* oldest row once the frame's is added.                                   *)
LEMMA Flushes ==
  ASSUME Feed!IInv, NEW first \in 0 .. Feed!Never, NEW worth, Feed!Flush(first, worth), v2' = v2, v3 = "up",
         first # Feed!Never => first <= v2 /\ v8 < first + MaxAge
  PROVE  /\ v8' \in 0 .. Feed!Never /\ v9' \in 0 .. Feed!Never /\ v10' \in 0 .. Feed!Never
         /\ Feed!Aged' /\ Feed!RowsNotHeld'
<1>1. /\ v2 \in Nat /\ v8 \in Nat /\ first \in Nat /\ v2 <= Feed!Never /\ v8 <= v2
      /\ FlushEvery \in Nat /\ MaxAge \in Nat /\ Feed!Never \in Nat
  BY FeedTyped, FeedBounds DEF Feed!IInv, Feed!Aged
<1> DEFINE flushes == v2 - v8 >= FlushEvery
<1>2. /\ v8' = IF flushes THEN v2 ELSE v8
      /\ v9' = v2
      /\ v10' = IF Feed!Over \/ (flushes /\ first # Feed!Never /\ Feed!ShouldFlush(first, worth)) THEN Feed!Never ELSE first
  BY DEF Feed!Flush
<1>3. v8' \in 0 .. Feed!Never /\ v9' \in 0 .. Feed!Never /\ v10' \in 0 .. Feed!Never /\ v8' <= v2
  BY <1>1, <1>2
<1>4. CASE v10' = Feed!Never
  BY <1>3, <1>4 DEF Feed!Aged, Feed!RowsNotHeld
<1>5. CASE v10' # Feed!Never
  <2>1. v10' = first /\ first # Feed!Never /\ first <= v2 /\ v8 < first + MaxAge
        /\ (flushes => ~Feed!ShouldFlush(first, worth))
    BY <1>2, <1>5
  <2>2. flushes => ~(v2 - first >= MaxAge)
    BY <2>1 DEF Feed!ShouldFlush
  <2>3. v8' < first + MaxAge /\ v2 < first + MaxAge + FlushEvery
    BY <1>1, <1>2, <2>1, <2>2
  <2> QED BY <1>2, <1>3, <2>1, <2>3 DEF Feed!Aged, Feed!RowsNotHeld
<1> QED BY <1>3, <1>4, <1>5

LEMMA FrameRead ==
  ASSUME Feed!IInv, NEW r \in {"dropped", "kept", "spilled"}, NEW worth, Feed!DataFrame(r, worth)
  PROVE  Feed!IInv'
<1>1. v3 = "up" /\ v6' = v2 /\ UNCHANGED <<v1, v2, v4>>
  BY DEF Feed!DataFrame
<1>2. /\ v1 \in Sessions /\ v2 \in Nat /\ v5 \in 0 .. Feed!Never /\ v4 \in 0 .. Deadline + 1
      /\ v2 \in 0 .. Feed!Never /\ v10 \in 0 .. Feed!Never /\ v10 \in Nat
      /\ v8 \in 0 .. Feed!Never /\ v9 \in 0 .. Feed!Never /\ v7 \in 0 .. Feed!Never
      /\ Feed!Never \in Nat /\ Feed!Never \in 0 .. Feed!Never /\ MaxAge \in Nat /\ 1 <= MaxAge
  BY FeedTyped, FeedBounds DEF Feed!IInv
<1>3. v2 <= v5 /\ v5 <= Deadline /\ v4 = 0 /\ v2 < Feed!Never
  BY <1>1, <1>2, FeedBounds DEF Feed!IInv, Feed!Waits
(* The sink and its clocks.                                                *)
<1>4. /\ v8' \in 0 .. Feed!Never /\ v9' \in 0 .. Feed!Never /\ v10' \in 0 .. Feed!Never
      /\ Feed!Aged' /\ Feed!RowsNotHeld'
  <2>1. CASE v1.rowsFlush /\ r = "dropped"
    <3>1. v10' \in {Feed!Never, v10} /\ UNCHANGED <<v8, v9>>
      BY <2>1 DEF Feed!DataFrame
    <3> QED BY <1>1, <1>2, <3>1 DEF Feed!IInv, Feed!Aged, Feed!Timely, Feed!RowsNotHeld
  <2>2. CASE ~(v1.rowsFlush /\ r = "dropped")
    <3> DEFINE first == CASE r = "dropped" -> v10
                          [] r = "kept" -> Feed!Min({v10, v2})
                          [] r = "spilled" -> Feed!Never
    <3>1. Feed!Flush(first, worth)
      BY <2>2 DEF Feed!DataFrame
    <3>2. first \in 0 .. Feed!Never /\ (first # Feed!Never => first <= v2 /\ v8 < first + MaxAge)
      <4>1. CASE r = "dropped"
        BY <1>2, <4>1 DEF Feed!IInv, Feed!Aged
      <4>2. CASE r = "kept"
        <5>1. /\ Feed!Min({v10, v2}) \in {v10, v2} /\ Feed!Min({v10, v2}) <= v10
              /\ Feed!Min({v10, v2}) <= v2 /\ Feed!Min({v10, v2}) \in Nat
          BY <1>2, LesserOfTwo
        <5>2. first = Feed!Min({v10, v2})
          BY <4>2
        <5>3. v8 \in Nat /\ v8 <= v2
          BY <1>2 DEF Feed!IInv, Feed!Aged
        <5>4. v10 # Feed!Never => v10 <= v2 /\ v8 < v10 + MaxAge
          BY DEF Feed!IInv, Feed!Aged
        <5> HIDE DEF first
        <5> QED BY <1>2, <1>3, <5>1, <5>2, <5>3, <5>4
      <4>3. CASE r = "spilled"
        BY <1>2, <4>3
      <4> QED BY <4>1, <4>2, <4>3
    <3> HIDE DEF first
    <3> QED BY <1>1, <3>1, <3>2, Flushes
  <2> QED BY <2>1, <2>2
<1>5. CASE Feed!Over
  <2>1. v3' = "ended" /\ UNCHANGED <<v5, v7>>
    BY <1>5 DEF Feed!DataFrame
  <2>2. Feed!TypeOK'
    BY <1>1, <1>2, <1>4, <2>1, FeedTypes
  <2>3. Feed!Waits' /\ Feed!Polled'
    BY <2>1 DEF Feed!Waits, Feed!Polled
  <2> QED BY <1>4, <2>2, <2>3, TimelyIs DEF Feed!IInv
<1>6. CASE ~Feed!Over
  <2>1. Feed!Wait(v7)
    BY <1>6 DEF Feed!DataFrame
  <2>2. /\ v2 < Deadline /\ v3' = "up" /\ v5' \in Nat /\ v2 <= v5' /\ v5' <= Deadline
        /\ Feed!Slice(v1) \in Nat /\ v5' - v2 <= Feed!Slice(v1)
        /\ v7' \in {v7, v2}
        /\ v1.keepalive # 0 => v5' - v7' < v1.keepalive + v1.keepalive \div 2
    BY <1>1, <1>2, <2>1, Waiting
  <2>3. v5' \in 0 .. Feed!Never
    BY <2>2, FeedBounds
  <2>4. Feed!TypeOK'
    BY <1>1, <1>2, <1>4, <2>2, <2>3, FeedTypes
  <2>5. Feed!Waits'
    BY <1>1, <1>3, <2>2 DEF Feed!Waits
  <2>6. v1.heartbeat \in Nat /\ 1 <= v1.heartbeat
    BY <1>2, SessionIs
  <2>7. v5' - v6' < v1.heartbeat + Feed!Slice(v1)
    BY <1>1, <1>2, <2>2, <2>6
  <2>8. Feed!Polled'
    BY <1>1, <2>2, <2>7 DEF Feed!Polled, Feed!Slice
  <2> QED BY <1>4, <2>4, <2>5, <2>8, TimelyIs DEF Feed!IInv
<1> QED BY <1>5, <1>6

(* A wait that goes on, after a pong or a slice of silence.                *)
LEMMA WaitsOn ==
  ASSUME Feed!IInv, Feed!Wait(v7), v3 = "up", v10' = v10,
         UNCHANGED <<v1, v2, v4, v8, v9>>,
         v6' \in {v6, v2}, v2 - v6' < v1.heartbeat
  PROVE  Feed!IInv'
<1>1. /\ v1 \in Sessions /\ v2 \in Nat /\ v4 \in 0 .. Deadline + 1 /\ v6' \in 0 .. Feed!Never
      /\ v6' \in Nat /\ v2 \in 0 .. Feed!Never /\ v10 \in 0 .. Feed!Never
      /\ v8 \in 0 .. Feed!Never /\ v9 \in 0 .. Feed!Never /\ v7 \in 0 .. Feed!Never
  BY FeedTyped, FeedBounds DEF Feed!IInv
<1>2. /\ v2 < Deadline /\ v3' = "up" /\ v5' \in Nat /\ v2 <= v5' /\ v5' <= Deadline
      /\ Feed!Slice(v1) \in Nat /\ v5' - v2 <= Feed!Slice(v1)
      /\ v7' \in {v7, v2}
      /\ v1.keepalive # 0 => v5' - v7' < v1.keepalive + v1.keepalive \div 2
  BY <1>1, Waiting
<1>3. v5' \in 0 .. Feed!Never
  BY <1>2, FeedBounds
<1>4. Feed!TypeOK'
  BY <1>1, <1>2, <1>3, FeedTypes
<1>5. Feed!Waits'
  BY <1>2 DEF Feed!IInv, Feed!Waits
<1>6. v1.heartbeat \in Nat
  BY <1>1, SessionIs
<1>7. v5' - v6' < v1.heartbeat + Feed!Slice(v1)
  BY <1>1, <1>2, <1>6
<1>8. Feed!Polled'
  BY <1>2, <1>7 DEF Feed!Polled, Feed!Slice
<1>9. Feed!Aged' /\ Feed!RowsNotHeld'
  BY DEF Feed!IInv, Feed!Aged, Feed!Timely, Feed!RowsNotHeld
<1> QED BY <1>4, <1>5, <1>8, <1>9, TimelyIs DEF Feed!IInv

LEMMA PongRead ==
  ASSUME Feed!IInv, Feed!Pong
  PROVE  Feed!IInv'
<1>1. /\ v3 = "up" /\ v6' = v2 /\ Feed!Wait(v7)
      /\ UNCHANGED <<v1, v2, v4, v8, v9, v10>>
  BY DEF Feed!Pong
<1>2. v2 \in Nat /\ v1.heartbeat \in Nat /\ 1 <= v1.heartbeat
  BY FeedTyped, SessionIs DEF Feed!IInv
<1>3. v2 - v6' < v1.heartbeat
  BY <1>1, <1>2
<1> QED BY <1>1, <1>3, WaitsOn

LEMMA GoesQuiet ==
  ASSUME Feed!IInv, Feed!Quiet
  PROVE  Feed!IInv'
<1>1. v3 = "up" /\ UNCHANGED <<v1, v2, v4, v6, v8, v9>>
  BY DEF Feed!Quiet
<1>2. /\ v2 \in Nat /\ v6 \in Nat /\ v4 = 0 /\ v1.heartbeat \in Nat
      /\ v1 \in Sessions
  BY <1>1, FeedTyped, SessionIs DEF Feed!IInv, Feed!Waits
<1>3. CASE v1.own \/ v2 - v6 >= v1.heartbeat
  <2>1. Feed!Again /\ v7' = v7
    BY <1>3 DEF Feed!Quiet
  <2> QED BY <1>1, <1>2, <2>1, GoesAgain
<1>4. CASE ~(v1.own \/ v2 - v6 >= v1.heartbeat)
  <2>1. v2 - v6 < v1.heartbeat
    BY <1>2, <1>4
  <2>2. CASE ~Feed!Over
    <3>1. Feed!Wait(v7) /\ v10' = v10
      BY <1>4, <2>2 DEF Feed!Quiet
    <3> QED BY <1>1, <2>1, <3>1, WaitsOn
  <2>3. CASE Feed!Over
    <3>1. Feed!End /\ v7' = v7
      BY <1>4, <2>3 DEF Feed!Quiet
    <3>2. Feed!Again
      BY <2>3, <3>1 DEF Feed!Again
    <3> QED BY <1>1, <1>2, <3>1, <3>2, GoesAgain
  <2> QED BY <2>2, <2>3
<1> QED BY <1>3, <1>4

LEMMA WakesOrTimesOut ==
  ASSUME Feed!IInv, Feed!Wake \/ Feed!ConnectTimesOut
  PROVE  Feed!IInv'
<1>1. /\ v3 \in {"sleeping", "connecting"} /\ v2 = v5 /\ Feed!Again
      /\ UNCHANGED <<v1, v2, v4, v6, v7, v8, v9>>
  BY DEF Feed!Wake, Feed!ConnectTimesOut, Feed!timers
<1>2. v4 <= v2
  BY <1>1 DEF Feed!IInv, Feed!Waits
<1> QED BY <1>1, <1>2, GoesAgain

LEMMA FeedTicks ==
  ASSUME Feed!IInv, Feed!Tick
  PROVE  Feed!IInv'
<1>1. /\ v3 # "ended" /\ v2 < v5 /\ v2' = v2 + 1
      /\ UNCHANGED <<v1, v3, v4, v5, v6, v7, v8, v9, v10>>
  BY DEF Feed!Tick, Feed!timers
<1>2. /\ v1 \in Sessions /\ v3 \in {"connecting", "up", "sleeping", "ended"}
      /\ v2 \in Nat /\ v5 \in Nat /\ v5 <= Feed!Never /\ v4 \in 0 .. Deadline + 1 /\ v4 \in Nat
      /\ v6 \in 0 .. Feed!Never /\ v7 \in 0 .. Feed!Never /\ v10 \in 0 .. Feed!Never
      /\ v8 \in 0 .. Feed!Never /\ v9 \in 0 .. Feed!Never
  BY FeedTyped, FeedBounds DEF Feed!IInv
<1>3. v2' \in 0 .. Feed!Never /\ v5 \in 0 .. Feed!Never /\ v2' <= v5 /\ v2 <= v2' /\ v2' \in Nat
  BY <1>1, <1>2, FeedBounds
<1>4. Feed!TypeOK'
  BY <1>1, <1>2, <1>3, FeedTypes
<1>5. Feed!Waits'
  BY <1>1, <1>2, <1>3 DEF Feed!IInv, Feed!Waits
<1>6. Feed!Polled' /\ Feed!RowsNotHeld'
  BY <1>1 DEF Feed!IInv, Feed!Polled, Feed!Slice, Feed!Timely, Feed!RowsNotHeld
<1>7. Feed!Aged'
  BY <1>1, <1>2, <1>3 DEF Feed!IInv, Feed!Aged
<1> QED BY <1>4, <1>5, <1>6, <1>7, TimelyIs DEF Feed!IInv

LEMMA FeedStutters == Feed!IInv /\ UNCHANGED Feed!vars => Feed!IInv'
<1> SUFFICES ASSUME Feed!IInv, UNCHANGED Feed!vars PROVE Feed!IInv'
  OBVIOUS
<1>1. Feed!TypeOK' /\ Feed!Waits'
  BY DEF Feed!IInv, Feed!vars, Feed!TypeOK, Feed!Waits
<1>2. Feed!Polled' /\ Feed!Aged' /\ Feed!Timely'
  BY DEF Feed!IInv, Feed!vars, Feed!Polled, Feed!Aged, Feed!Slice, Feed!Timely, Feed!KeptAlive,
     Feed!SilenceNoticed, Feed!RowsNotHeld
<1> QED BY <1>1, <1>2 DEF Feed!IInv

(* Each step of a session, over any silences and reconnects, keeps the     *)
(* invariant (scripts/collector_core.py).                                  *)
THEOREM FeedStep ==
  ASSUME Feed!IInv, Feed!Next
  PROVE  Feed!IInv'
<1>1. CASE Feed!Connect
  BY <1>1, Connects
<1>2. CASE Feed!ConnectFails
  <2>1. /\ Feed!Raise /\ v3 \in {"connecting", "up"} /\ v6' \in {v6, v2}
        /\ UNCHANGED <<v1, v2, v7, v8, v9, v10>>
    BY <1>2 DEF Feed!ConnectFails, Feed!timers
  <2> QED BY <2>1, BacksOff
<1>3. CASE Feed!Breaks
  <2>1. /\ Feed!Raise /\ v3 \in {"connecting", "up"} /\ v6' \in {v6, v2}
        /\ UNCHANGED <<v1, v2, v7, v8, v9, v10>>
    BY <1>3 DEF Feed!Breaks
  <2> QED BY <2>1, BacksOff
<1>4. CASE \E r \in {"dropped", "kept", "spilled"}, worth \in BOOLEAN : Feed!DataFrame(r, worth)
  BY <1>4, FrameRead
<1>5. CASE Feed!Pong
  BY <1>5, PongRead
<1>6. CASE Feed!Quiet
  BY <1>6, GoesQuiet
<1>7. CASE Feed!Wake \/ Feed!ConnectTimesOut
  BY <1>7, WakesOrTimesOut
<1>8. CASE Feed!Tick
  BY <1>8, FeedTicks
<1>9. CASE Feed!Ended
  BY <1>9, FeedStutters DEF Feed!Ended
<1> QED BY <1>1, <1>2, <1>3, <1>4, <1>5, <1>6, <1>7, <1>8, <1>9 DEF Feed!Next
-----------------------------------------------------------------------------
(* The books and the tapes (Replay).                                       *)
LEMMA ReplayConstants ==
  /\ MaxPrice \in Nat /\ MaxTrades \in Nat /\ ReplayTime \in Nat /\ Interval \in Nat
  /\ MaxWire \in Nat \ {0} /\ Depth \in Nat /\ OkxLevels \in Nat /\ Depth <= OkxLevels
BY CollectorsAssumption

LEMMA ReplayCardinality == \A S : Replay!Cardinality(S) = Cardinality(S)
BY DEF Replay!Cardinality, Cardinality

LEMMA FewerPrices ==
  ASSUME NEW A, NEW B \in SUBSET Replay!Prices, A \subseteq B
  PROVE  /\ Replay!Cardinality(A) \in Nat /\ Replay!Cardinality(B) \in Nat
         /\ Replay!Cardinality(A) <= Replay!Cardinality(B)
<1>1. IsFiniteSet(Replay!Prices)
  BY ReplayConstants, FS_Interval DEF Replay!Prices
<1>2. IsFiniteSet(B)
  BY <1>1, FS_Subset
<1> QED BY <1>2, FS_Subset, FS_CardinalityType, ReplayCardinality

LEMMA ScopeIsPart == \A b : Replay!Scope(b) \subseteq b
BY DEF Replay!Scope, Replay!Best

(* The top of a book the collector holds, and of the venue's.              *)
LEMMA TopFollows ==
  ASSUME NEW b \in SUBSET Replay!Prices, NEW O \in SUBSET Replay!Prices
  PROVE  /\ Replay!Best(Replay!HeldAt(b, O), Depth) \ Replay!Best(b, Depth) \subseteq O
         /\ \A p \in Replay!Best(b, Depth) \ Replay!Best(Replay!HeldAt(b, O), Depth) :
              \E q \in O : q > p
<1> DEFINE S == Replay!Scope(b)
           Above(c, p) == {q \in c : q > p}
<1>1. S \subseteq b /\ Replay!HeldAt(b, O) = S \union O /\ S \union O \subseteq Replay!Prices
  BY ScopeIsPart DEF Replay!HeldAt
<1>2. S = b \/ \E k \in Nat : Depth <= k /\ S = Replay!Best(b, k)
  <2>1. Depth \in Nat /\ Depth <= Depth /\ OkxLevels \in Nat /\ Depth <= OkxLevels
    BY ReplayConstants
  <2>2. S \in {b, Replay!Best(b, OkxLevels), Replay!Best(b, Depth)}
    BY DEF Replay!Scope
  <2> HIDE DEF S
  <2> QED BY <2>1, <2>2
<1>3. Replay!Prices \subseteq Nat
  BY DEF Replay!Prices
<1>4. ASSUME NEW x \in S PROVE Above(b, x) \subseteq S
  <2>1. CASE S = b
    BY <2>1
  <2>2. ASSUME NEW k \in Nat, S = Replay!Best(b, k) PROVE Above(b, x) \subseteq S
    <3>1. ASSUME NEW q \in Above(b, x) PROVE q \in S
      <4>1. Above(b, q) \subseteq Above(b, x) /\ Above(b, x) \subseteq Replay!Prices /\ q \in b
        <5>1. q \in b /\ q > x /\ x \in Nat /\ q \in Nat /\ b \subseteq Nat
          BY <1>1, <1>3, <3>1
        <5>2. \A r \in Nat : r > q => r > x
          BY <5>1
        <5> QED BY <5>1, <5>2
      <4>2. Replay!Cardinality(Above(b, q)) <= Replay!Cardinality(Above(b, x))
            /\ Replay!Cardinality(Above(b, q)) \in Nat /\ Replay!Cardinality(Above(b, x)) \in Nat
        BY <4>1, FewerPrices
      <4>3. Replay!Cardinality(Above(b, x)) < k
        BY <2>2 DEF Replay!Best
      <4>4. Replay!Cardinality(Above(b, q)) < k
        BY <4>2, <4>3
      <4> QED BY <2>2, <4>1, <4>4 DEF Replay!Best
    <3> QED BY <3>1
  <2> QED BY <1>2, <2>1, <2>2
<1>5. ASSUME NEW x \in Replay!Best(S \union O, Depth), x \notin O PROVE x \in Replay!Best(b, Depth)
  <2>1. x \in S /\ x \in b /\ Replay!Cardinality(Above(S \union O, x)) < Depth
    BY <1>1, <1>5 DEF Replay!Best
  <2>2. Above(b, x) \subseteq Above(S \union O, x) /\ Above(S \union O, x) \subseteq Replay!Prices
    BY <1>1, <1>4, <2>1
  <2>3. Replay!Cardinality(Above(b, x)) <= Replay!Cardinality(Above(S \union O, x))
        /\ Replay!Cardinality(Above(b, x)) \in Nat /\ Replay!Cardinality(Above(S \union O, x)) \in Nat
    BY <2>2, FewerPrices
  <2>4. Replay!Cardinality(Above(b, x)) < Depth
    BY <2>1, <2>3, ReplayConstants
  <2> QED BY <2>1, <2>4 DEF Replay!Best
<1>6. ASSUME NEW p \in Replay!Best(b, Depth), \A q \in O : ~(q > p)
      PROVE  p \in Replay!Best(S \union O, Depth)
  <2>1. p \in b /\ Replay!Cardinality(Above(b, p)) < Depth
    BY <1>6 DEF Replay!Best
  <2>2. Above(S \union O, p) \subseteq Above(b, p) /\ Above(b, p) \subseteq Replay!Prices
    BY <1>1, <1>6
  <2>3. Replay!Cardinality(Above(S \union O, p)) <= Replay!Cardinality(Above(b, p))
        /\ Replay!Cardinality(Above(b, p)) \in Nat /\ Replay!Cardinality(Above(S \union O, p)) \in Nat
    BY <2>2, FewerPrices
  <2>4. Replay!Cardinality(Above(S \union O, p)) < Depth
    BY <2>1, <2>3, ReplayConstants
  <2>5. p \in S
    <3>1. ASSUME NEW k \in Nat, Depth <= k PROVE Replay!Cardinality(Above(b, p)) < k
      BY <2>1, <2>3, <3>1, ReplayConstants
    <3> QED BY <1>2, <2>1, <3>1 DEF Replay!Best
  <2> QED BY <2>4, <2>5 DEF Replay!Best
<1> QED BY <1>1, <1>5, <1>6

LEMMA ReplayBounds ==
  /\ MaxPrice \in Nat /\ MaxTrades \in Nat /\ ReplayTime \in Nat /\ Interval \in Nat
  /\ MaxWire \in Nat /\ 1 <= MaxWire /\ Replay!NoneYet \in 0 .. ReplayTime + Interval
BY ReplayConstants DEF Replay!NoneYet

LEMMA NothingSent == Len(<<>>) = 0 /\ Len(<<>>) <= MaxWire /\ <<>> \in Seq(Replay!Frames)
<1>1. Len(<<>>) = 0
  OBVIOUS
<1> QED BY <1>1, ReplayBounds

(* What the venue sends.                                                   *)
LEMMA Sent ==
  /\ \A b \in SUBSET Replay!Prices : Replay!Whole(b) \in Replay!Frames
  /\ \A b, c, left \in SUBSET Replay!Prices : Replay!Change(b, c, left) \in Replay!Frames
  /\ \A k \in {"snapshot", "update"}, ts \in SUBSET (1 .. MaxTrades) :
       Replay!Prints(k, ts) \in Replay!Frames
BY ReplayBounds, ScopeIsPart
DEF Replay!Whole, Replay!Change, Replay!Prints, Replay!Frame, Replay!Frames, Replay!Prices

LEMMA ReplayStarts == Replay!Init => Replay!IInv
<1> SUFFICES ASSUME Replay!Init PROVE Replay!IInv
  OBVIOUS
<1>1. v6 = <<>> /\ Len(v6) = 0
  BY DEF Replay!Init
<1>2. Replay!TypeOK
  <2>1. 0 \in 0 .. ReplayTime /\ 0 \in 0 .. MaxTrades /\ Len(v6) <= MaxWire
    BY <1>1, ReplayBounds
  <2>2. v9 \in [wrote : SUBSET Replay!Prices, was : SUBSET Replay!Prices, out : SUBSET Replay!Prices]
    BY DEF Replay!Init, Replay!NoRow
  <2>3. v10 \in [1 .. MaxTrades -> 0 .. 2]
    BY DEF Replay!Init
  <2> QED BY <2>1, <2>2, <2>3, ReplayBounds DEF Replay!Init, Replay!TypeOK
<1>3. Replay!Sound
  BY <1>1 DEF Replay!Sound
<1>4. Replay!Chained
  BY DEF Replay!Init, Replay!Chained
<1>5. Replay!Unwritten /\ Replay!ArchiveIsTrue
  BY <1>1 DEF Replay!Init, Replay!Unwritten, Replay!ArchiveIsTrue, Replay!RowsFollow,
     Replay!TradesOnce, Replay!NoRow
<1> QED BY <1>2, <1>3, <1>4, <1>5 DEF Replay!IInv

(* A frame more at the end of the wire.                                    *)
LEMMA OneMore ==
  ASSUME NEW f \in Replay!Frames, Replay!IInv, Len(v6) < MaxWire, v6' = Append(v6, f),
         v3' = v3, v3
  PROVE  /\ Len(v6) \in Nat /\ Len(v6') = Len(v6) + 1 /\ Len(v6') <= MaxWire
         /\ \A i \in 1 .. Len(v6) : v6'[i] = v6[i] /\ i \in 1 .. Len(v6')
         /\ v6'[Len(v6')] = f
         /\ \A i \in 1 .. Len(v6') : i = Len(v6') \/ i \in 1 .. Len(v6)
         /\ Replay!Sound'
<1>1. v6 \in Seq(Replay!Frames) /\ Len(v6) \in Nat
  BY DEF Replay!IInv, Replay!Sound
<1>2. /\ v6' \in Seq(Replay!Frames) /\ Len(v6') = Len(v6) + 1 /\ v6'[Len(v6) + 1] = f
      /\ \A i \in 1 .. Len(v6) : v6'[i] = v6[i]
  BY <1>1
<1>3. \A i \in 1 .. Len(v6') : i = Len(v6') \/ i \in 1 .. Len(v6)
  BY <1>1, <1>2
<1>4. Replay!Sound'
  BY <1>2 DEF Replay!Sound
<1> QED BY <1>1, <1>2, <1>3, <1>4, ReplayBounds

(* A change of the book turns what a collector holds before it into what   *)
(* it holds after.                                                         *)
LEMMA ChangeGives ==
  ASSUME NEW b, NEW c, NEW O, O \intersect Replay!Scope(b) = {}
  PROVE  LET left == (O \union (Replay!Scope(b) \intersect c)) \ Replay!Scope(c) IN
           /\ Replay!Gives(Replay!Change(b, c, left), Replay!HeldAt(b, O)) = Replay!HeldAt(c, left)
           /\ left \intersect Replay!Scope(c) = {}
<1> DEFINE S == Replay!Scope(b)
           T == Replay!Scope(c)
           left == (O \union (S \intersect c)) \ T
<1>1. Replay!Gives(Replay!Change(b, c, left), S \union O) = ((S \union O) \union (T \ S)) \ (S \ c)
  BY DEF Replay!Gives, Replay!Change, Replay!Frame
<1>2. T \subseteq c
  BY ScopeIsPart
<1> HIDE DEF S, T
<1>3. ((S \union O) \union (T \ S)) \ (S \ c) = T \union left
  BY <1>2 DEF S
<1> QED BY <1>1, <1>3 DEF Replay!HeldAt, S, T

LEMMA Quoted ==
  ASSUME Replay!IInv, NEW p \in Replay!Prices, Replay!Quote(p)
  PROVE  Replay!IInv'
<1>1. /\ UNCHANGED <<v1, v2, v3, v5, v7, v8, v9, v10>>
      /\ v1 \in Replay!Books
      /\ v4 \in SUBSET Replay!Prices /\ v4' \in SUBSET Replay!Prices
  BY DEF Replay!Quote, Replay!IInv, Replay!TypeOK
<1>2. v11 \in SUBSET Replay!Prices /\ v11' \in SUBSET Replay!Prices
  BY <1>1, ScopeIsPart DEF Replay!Quote, Replay!LeftUnsaid, Replay!IInv, Replay!TypeOK
<1>3. CASE ~(v3 /\ (v1 = "binance book" \/ Replay!Scope(v4') # Replay!Scope(v4)))
  <2>1. v6' = v6 /\ v11' = v11
    BY <1>3 DEF Replay!Quote
  <2>2. Replay!TypeOK' /\ Replay!Sound' /\ Replay!Unwritten' /\ Replay!ArchiveIsTrue'
    BY <1>1, <1>2, <2>1 DEF Replay!IInv, Replay!TypeOK, Replay!Sound, Replay!Unwritten, Replay!Kept,
       Replay!Keeps, Replay!ArchiveIsTrue, Replay!RowsFollow, Replay!TradesOnce
  <2>3. Replay!Chained'
    <3> SUFFICES ASSUME v3 PROVE Replay!Chained'
      BY <1>1 DEF Replay!Chained
    <3>1. Replay!Scope(v4') = Replay!Scope(v4)
      BY <1>3
    <3>2. Replay!Scope(v4)' = Replay!Scope(v4)
      BY <1>1, <3>1 DEF Replay!Scope, Replay!Best
    <3>3. Replay!HeldAt(v4, v11)' = Replay!HeldAt(v4, v11)
      BY <2>1, <3>2 DEF Replay!HeldAt
    <3>4. \A i : Replay!BookAt(i)' = Replay!BookAt(i)
      BY <1>1, <2>1 DEF Replay!BookAt, Replay!HeldAt, Replay!Scope, Replay!Best
    <3> QED BY <1>1, <2>1, <3>2, <3>3, <3>4 DEF Replay!IInv, Replay!Chained, Replay!Gives
  <2> QED BY <2>2, <2>3 DEF Replay!IInv
<1>4. CASE v3 /\ (v1 = "binance book" \/ Replay!Scope(v4') # Replay!Scope(v4))
  <2> DEFINE f == IF v1 = "binance book" THEN Replay!Whole(v4') ELSE Replay!Change(v4, v4', v11')
  <2>1. f \in Replay!Frames /\ v6' = Append(v6, f) /\ Len(v6) < MaxWire
    BY <1>1, <1>2, <1>4, Sent DEF Replay!Quote
  <2>2. f.book = v4' /\ f.trades = {} /\ f.out = v11'
    BY <1>1, <1>4 DEF Replay!Whole, Replay!Change, Replay!Frame, Replay!Quote, Replay!IInv, Replay!Chained
  <2>3. /\ Replay!Gives(f, Replay!HeldAt(v4, v11)) = Replay!HeldAt(v4', v11')
        /\ v11' \intersect Replay!Scope(v4') = {} /\ (v1 = "binance book" => v11' = {})
    <3>1. v11 \intersect Replay!Scope(v4) = {} /\ (v1 = "binance book" => v11 = {})
      BY <1>1, <1>4 DEF Replay!IInv, Replay!Chained
    <3>2. CASE v1 = "binance book"
      <4>1. v11' = {}
        BY <3>1, <3>2 DEF Replay!Quote
      <4> QED BY <3>2, <4>1 DEF Replay!Whole, Replay!Frame, Replay!Gives, Replay!HeldAt
    <3>3. CASE v1 # "binance book"
      <4>1. v11' = (v11 \union (Replay!Scope(v4) \intersect v4')) \ Replay!Scope(v4')
        BY <1>4, <3>3 DEF Replay!Quote, Replay!LeftUnsaid
      <4> QED BY <3>1, <3>3, <4>1, ChangeGives
    <3> QED BY <3>2, <3>3
  <2> HIDE DEF f
  <2>4. /\ Len(v6) \in Nat /\ Len(v6') = Len(v6) + 1 /\ Len(v6') <= MaxWire
        /\ \A i \in 1 .. Len(v6) : v6'[i] = v6[i] /\ i \in 1 .. Len(v6')
        /\ v6'[Len(v6')] = f
        /\ \A i \in 1 .. Len(v6') : i = Len(v6') \/ i \in 1 .. Len(v6)
        /\ Replay!Sound'
    BY <1>1, <1>4, <2>1, OneMore
  <2>5. Replay!TypeOK'
    BY <1>1, <1>2, <2>4 DEF Replay!IInv, Replay!TypeOK
  <2>6. Replay!Chained'
    <3>2. Len(v6') # 0 /\ v6'[Len(v6')].book = v4' /\ v6'[Len(v6')].out = v11'
      BY <2>2, <2>4
    <3>3. (Replay!BookAt(Len(v6)) = Replay!HeldAt(v4, v11))'
      BY <3>2, <1>1 DEF Replay!BookAt, Replay!HeldAt, Replay!Scope, Replay!Best
    <3>4. \A i \in 0 .. Len(v6) : Replay!BookAt(i)' = Replay!BookAt(i)
      <4>1. ASSUME NEW i \in 0 .. Len(v6) PROVE Replay!BookAt(i)' = Replay!BookAt(i)
        <5>1. CASE i = 0
          BY <1>1, <5>1 DEF Replay!BookAt
        <5>2. CASE i # 0
          <6>1. i \in 1 .. Len(v6)
            BY <2>4, <5>2
          <6> QED BY <1>1, <2>4, <5>2, <6>1 DEF Replay!BookAt, Replay!HeldAt, Replay!Scope, Replay!Best
        <5> QED BY <5>1, <5>2
      <4> QED BY <4>1
    <3>5. ASSUME NEW i \in 1 .. Len(v6') PROVE Replay!Gives(v6'[i], Replay!BookAt(i - 1)') = Replay!BookAt(i)'
      <4>1. i - 1 \in 0 .. Len(v6) /\ Len(v6) \in 0 .. Len(v6)
        BY <2>4
      <4>2. Replay!BookAt(i - 1)' = Replay!BookAt(i - 1)
        BY <3>4, <4>1
      <4>3. CASE i \in 1 .. Len(v6)
        <5>1. Replay!BookAt(i)' = Replay!BookAt(i)
          BY <2>4, <3>4, <4>3
        <5> QED BY <1>1, <1>4, <2>4, <4>2, <4>3, <5>1 DEF Replay!IInv, Replay!Chained
      <4>4. CASE i = Len(v6')
        <5>1. i - 1 = Len(v6)
          BY <2>4, <4>4
        <5>2. Replay!BookAt(Len(v6)) = Replay!HeldAt(v4, v11)
          BY <1>1, <1>4 DEF Replay!IInv, Replay!Chained
        <5>3. Replay!BookAt(i)' = Replay!HeldAt(v4', v11')
          BY <1>1, <3>3, <4>4 DEF Replay!HeldAt, Replay!Scope, Replay!Best
        <5> QED BY <2>3, <2>4, <4>2, <4>4, <5>1, <5>2, <5>3
      <4> QED BY <2>4, <4>3, <4>4
    <3>6. (v11 \intersect Replay!Scope(v4) = {} /\ (v1 = "binance book" => v11 = {}))'
      BY <1>1, <2>3 DEF Replay!Scope, Replay!Best
    <3> QED BY <3>3, <3>5, <3>6 DEF Replay!Chained, Replay!Gives
  <2>7. Replay!Unwritten'
    <3>1. \A i \in 1 .. Len(v6') : Replay!Kept(i)' = IF i \in 1 .. Len(v6) THEN Replay!Kept(i) ELSE {}
      <4>1. ASSUME NEW i \in 1 .. Len(v6') PROVE Replay!Kept(i)' = IF i \in 1 .. Len(v6) THEN Replay!Kept(i) ELSE {}
        BY <2>2, <2>4 DEF Replay!Kept, Replay!Keeps
      <4> QED BY <4>1
    <3> QED BY <1>1, <3>1 DEF Replay!IInv, Replay!Unwritten
  <2> QED BY <1>1, <2>4, <2>5, <2>6, <2>7 DEF Replay!IInv, Replay!ArchiveIsTrue,
         Replay!RowsFollow, Replay!TradesOnce
<1> QED BY <1>3, <1>4

LEMMA Printed ==
  ASSUME Replay!IInv, Replay!Trade
  PROVE  Replay!IInv'
<1>1. /\ UNCHANGED <<v1, v2, v3, v4, v7, v8, v9, v10, v11>>
      /\ v1 \notin Replay!Books /\ v5 < MaxTrades /\ v5' = v5 + 1 /\ v5 \in Nat
      /\ MaxTrades \in Nat
  BY ReplayBounds DEF Replay!Trade, Replay!IInv, Replay!TypeOK
<1>2. v5' \in 0 .. MaxTrades /\ v5' \in 1 .. MaxTrades /\ v5 < v5'
      /\ \A t \in 1 .. MaxTrades : t <= v5 => t <= v5' /\ t # v5'
  BY <1>1
<1>3. DOMAIN v10 = 1 .. MaxTrades /\ v10[v5'] = 0
      /\ \A t \in 1 .. MaxTrades : v10[t] \in 0 .. 2
  <2>1. DOMAIN v10 = 1 .. MaxTrades /\ \A t \in 1 .. MaxTrades : v10[t] \in 0 .. 2
    BY DEF Replay!IInv, Replay!TypeOK
  <2>2. ~(v10[v5'] > 0)
    <3>1. ~(v5' <= v5)
      BY <1>1
    <3> QED BY <1>2, <2>1, <3>1 DEF Replay!IInv, Replay!Unwritten
  <2> QED BY <1>2, <2>1, <2>2
<1>4. Replay!Chained' /\ Replay!ArchiveIsTrue'
  BY <1>1 DEF Replay!IInv, Replay!Chained, Replay!ArchiveIsTrue, Replay!RowsFollow,
     Replay!TradesOnce
<1>5. CASE ~v3
  <2>1. v6' = v6
    BY <1>5 DEF Replay!Trade
  <2>2. Replay!TypeOK'
    BY <1>1, <1>2, <2>1 DEF Replay!IInv, Replay!TypeOK
  <2>3. v6 = <<>> /\ Len(v6) = 0
    BY <1>5 DEF Replay!IInv, Replay!Sound
  <2>4. Replay!Unwritten'
    BY <1>1, <1>2, <1>3, <2>1, <2>3 DEF Replay!IInv, Replay!Unwritten
  <2> QED BY <1>1, <1>4, <2>1, <2>2, <2>4 DEF Replay!IInv, Replay!Sound
<1>6. CASE v3
  <2> DEFINE f == Replay!Prints("update", {v5'})
  <2>1. f \in Replay!Frames /\ v6' = Append(v6, f) /\ Len(v6) < MaxWire
    BY <1>2, <1>6, Sent DEF Replay!Trade
  <2>2. Replay!Keeps(f) = {v5'}
    BY DEF Replay!Prints, Replay!Frame, Replay!Keeps
  <2> HIDE DEF f
  <2>3. /\ Len(v6) \in Nat /\ Len(v6') = Len(v6) + 1 /\ Len(v6') <= MaxWire
        /\ \A i \in 1 .. Len(v6) : v6'[i] = v6[i] /\ i \in 1 .. Len(v6')
        /\ v6'[Len(v6')] = f
        /\ \A i \in 1 .. Len(v6') : i = Len(v6') \/ i \in 1 .. Len(v6)
        /\ Replay!Sound'
    BY <1>1, <1>6, <2>1, OneMore
  <2>4. Replay!TypeOK'
    BY <1>1, <1>2, <2>3 DEF Replay!IInv, Replay!TypeOK
  <2>5. ASSUME NEW i \in 1 .. Len(v6') PROVE Replay!Kept(i)' = IF i \in 1 .. Len(v6) THEN Replay!Kept(i) ELSE {v5'}
    <3>1. CASE i \in 1 .. Len(v6)
      BY <2>3, <3>1 DEF Replay!Kept, Replay!Keeps
    <3>2. CASE i \notin 1 .. Len(v6)
      <4>1. v6'[i] = f
        BY <2>3, <3>2
      <4> QED BY <2>2, <3>2, <4>1 DEF Replay!Kept, Replay!Keeps
    <3> QED BY <3>1, <3>2
  <2>6. \A i \in 1 .. Len(v6) : \A t \in Replay!Kept(i) : t \in 1 .. MaxTrades /\ t # v5'
    <3>1. ASSUME NEW i \in 1 .. Len(v6), NEW t \in Replay!Kept(i) PROVE t \in 1 .. MaxTrades
      <4>1. v6[i] \in Replay!Frames
        BY <3>1 DEF Replay!IInv, Replay!Sound
      <4> QED BY <3>1, <4>1 DEF Replay!Kept, Replay!Keeps, Replay!Frames
    <3> QED BY <1>2, <3>1 DEF Replay!IInv, Replay!Unwritten
  <2>7. ASSUME NEW i \in 1 .. Len(v6'), NEW t \in Replay!Kept(i)' PROVE t <= v5' /\ v10[t] = 0
    <3>1. CASE i \in 1 .. Len(v6)
      <4>1. t \in Replay!Kept(i)
        BY <2>5, <2>7, <3>1
      <4> QED BY <1>2, <2>6, <3>1, <4>1 DEF Replay!IInv, Replay!Unwritten
    <3>2. CASE i \notin 1 .. Len(v6)
      <4>1. t = v5'
        BY <2>5, <2>7, <3>2
      <4> QED BY <1>2, <1>3, <4>1
    <3> QED BY <3>1, <3>2
  <2>8. ASSUME NEW i \in 1 .. Len(v6'), NEW j \in 1 .. Len(v6'), i # j
        PROVE Replay!Kept(i)' \cap Replay!Kept(j)' = {}
    <3>1. CASE i \in 1 .. Len(v6) /\ j \in 1 .. Len(v6)
      BY <2>5, <2>8, <3>1 DEF Replay!IInv, Replay!Unwritten
    <3>2. CASE i \in 1 .. Len(v6) /\ j \notin 1 .. Len(v6)
      BY <2>5, <2>6, <3>2
    <3>3. CASE i \notin 1 .. Len(v6)
      <4>1. j \in 1 .. Len(v6)
        BY <2>3, <2>8, <3>3
      <4> QED BY <2>5, <2>6, <3>3, <4>1
    <3> QED BY <3>1, <3>2, <3>3
  <2>9. Replay!Unwritten'
    <3>1. \A t \in DOMAIN v10' : v10'[t] > 0 => t <= v5'
      BY <1>1, <1>2, <1>3 DEF Replay!IInv, Replay!Unwritten
    <3> QED BY <1>1, <2>7, <2>8, <3>1 DEF Replay!Unwritten
  <2> QED BY <1>4, <2>3, <2>4, <2>9 DEF Replay!IInv
<1> QED BY <1>5, <1>6 DEF Replay!IInv, Replay!TypeOK

LEMMA Connected ==
  ASSUME Replay!IInv, Replay!Connect
  PROVE  Replay!IInv'
<1>1. /\ UNCHANGED <<v1, v2, v4, v5, v8, v9, v10>>
      /\ v3' = TRUE /\ v11' = {} /\ v7' \subseteq Replay!Prices /\ v4 \in SUBSET Replay!Prices
      /\ v5 \in 0 .. MaxTrades
  BY DEF Replay!Connect, Replay!IInv, Replay!TypeOK
<1>2. v1 \in Replay!Feeds
  BY DEF Replay!IInv, Replay!TypeOK
<1>3. CASE v1 \in Replay!Books
  <2> DEFINE f == Replay!Whole(v4)
  <2>1. /\ v6' = <<f>> /\ f \in Replay!Frames /\ f.kind = "snapshot"
        /\ f.book = v4 /\ f.sets = Replay!Scope(v4) /\ f.out = {}
    <3>1. v6' = <<f>>
      BY <1>3 DEF Replay!Connect, Replay!Books
    <3> QED BY <1>1, <3>1, Sent DEF Replay!Whole, Replay!Frame
  <2> HIDE DEF f
  <2>2. Len(v6') = 1 /\ v6'[1] = f /\ v6' \in Seq(Replay!Frames) /\ \A i \in 1 .. Len(v6') : i = 1
    BY <2>1
  <2>3. Replay!TypeOK'
    BY <1>1, <2>2, ReplayBounds DEF Replay!IInv, Replay!TypeOK
  <2>4. Replay!Sound'
    BY <1>1, <2>1, <2>2 DEF Replay!Sound
  <2>5. Replay!Chained'
    <3>1. \A b : Replay!Gives(v6'[1], b) = Replay!Scope(v4)
      BY <2>1, <2>2 DEF Replay!Gives
    <3>2. Replay!Scope(v4)' = Replay!Scope(v4)
      BY <1>1 DEF Replay!Scope, Replay!Best
    <3>3. Replay!BookAt(1)' = Replay!Scope(v4) /\ Replay!HeldAt(v4, v11)' = Replay!Scope(v4)
      <4>1. Replay!HeldAt(v4, v11)' = Replay!Scope(v4)
        BY <1>1, <3>2 DEF Replay!HeldAt
      <4>3. v6'[1].book = v4 /\ v6'[1].out = {}
        BY <2>1, <2>2
      <4>4. Replay!BookAt(1)' = Replay!Scope(v4)
        BY <1>1, <4>3 DEF Replay!BookAt, Replay!HeldAt, Replay!Scope, Replay!Best
      <4> QED BY <4>1, <4>4
    <3> QED BY <1>1, <2>2, <3>1, <3>3 DEF Replay!Chained, Replay!Gives
  <2>6. Replay!Unwritten'
    BY <1>1, <2>1, <2>2 DEF Replay!IInv, Replay!Unwritten, Replay!Kept, Replay!Keeps
  <2> QED BY <1>1, <2>3, <2>4, <2>5, <2>6 DEF Replay!IInv, Replay!ArchiveIsTrue,
         Replay!RowsFollow, Replay!TradesOnce
<1>4. CASE v1 = "coinbase trades"
  <2> DEFINE f == Replay!Prints("snapshot", 1 .. v5)
  <2>1. v6' = <<f>> /\ f \in Replay!Frames /\ f.kind = "snapshot" /\ v1 \notin Replay!Books
    <3>1. v6' = <<f>>
      BY <1>4 DEF Replay!Connect, Replay!Books
    <3>2. 1 .. v5 \in SUBSET (1 .. MaxTrades)
      BY <1>1, ReplayBounds
    <3> QED BY <1>4, <3>1, <3>2, Sent DEF Replay!Prints, Replay!Frame, Replay!Books
  <2> HIDE DEF f
  <2>2. Len(v6') = 1 /\ v6'[1] = f /\ v6' \in Seq(Replay!Frames) /\ \A i \in 1 .. Len(v6') : i = 1
    BY <2>1
  <2>3. Replay!TypeOK'
    BY <1>1, <2>2, ReplayBounds DEF Replay!IInv, Replay!TypeOK
  <2>4. Replay!Sound' /\ Replay!Chained'
    BY <1>1, <2>1, <2>2 DEF Replay!Sound, Replay!Chained
  <2>5. Replay!Unwritten'
    BY <1>1, <2>1, <2>2 DEF Replay!IInv, Replay!Unwritten, Replay!Kept, Replay!Keeps
  <2> QED BY <1>1, <2>3, <2>4, <2>5 DEF Replay!IInv, Replay!ArchiveIsTrue, Replay!RowsFollow,
         Replay!TradesOnce
<1>5. CASE v1 = "okx trades"
  <2>1. v6' = <<>> /\ v1 \notin Replay!Books /\ Len(v6') = 0 /\ v6' \in Seq(Replay!Frames)
    <3>1. v1 \notin Replay!Books /\ v1 # "coinbase trades"
      BY <1>5 DEF Replay!Books
    <3>2. v6' = <<>>
      BY <1>5, <3>1 DEF Replay!Connect
    <3> QED BY <3>1, <3>2, NothingSent
  <2>2. Replay!TypeOK'
    <3>1. Len(v6') <= MaxWire
      BY <2>1, NothingSent
    <3> QED BY <1>1, <3>1 DEF Replay!IInv, Replay!TypeOK
  <2>3. Replay!Sound' /\ Replay!Unwritten'
    BY <1>1, <2>1 DEF Replay!IInv, Replay!Sound, Replay!Unwritten
  <2>4. Replay!Chained'
    BY <1>1, <2>1, Zenon DEF Replay!Chained
  <2> QED BY <1>1, <2>2, <2>3, <2>4 DEF Replay!IInv, Replay!ArchiveIsTrue, Replay!RowsFollow,
         Replay!TradesOnce
<1> QED BY <1>2, <1>3, <1>4, <1>5 DEF Replay!Feeds, Replay!Books

LEMMA Dropped ==
  ASSUME Replay!IInv, Replay!Drop
  PROVE  Replay!IInv'
<1>1. /\ UNCHANGED <<v1, v2, v4, v5, v7, v8, v9, v10>> /\ v3' = FALSE /\ v11' = {}
      /\ v6' = <<>> /\ Len(v6') = 0 /\ v6' \in Seq(Replay!Frames)
  BY NothingSent DEF Replay!Drop
<1>2. Replay!TypeOK'
  <2>1. Len(v6') <= MaxWire
    BY <1>1, NothingSent
  <2> QED BY <1>1, <2>1 DEF Replay!IInv, Replay!TypeOK
<1>3. Replay!Sound' /\ Replay!Unwritten'
  BY <1>1 DEF Replay!IInv, Replay!Sound, Replay!Unwritten
<1>4. Replay!Chained'
  BY <1>1, Zenon DEF Replay!Chained
<1> QED BY <1>1, <1>2, <1>3, <1>4 DEF Replay!IInv, Replay!ArchiveIsTrue, Replay!RowsFollow,
       Replay!TradesOnce

(* The first frame is read.                                                *)
LEMMA OneLess ==
  ASSUME Replay!IInv, v6 # <<>>, v6' = Tail(v6), v3' = v3, v3
  PROVE  /\ Len(v6) \in Nat /\ 0 < Len(v6) /\ Len(v6') = Len(v6) - 1 /\ Len(v6') <= MaxWire
         /\ \A i \in 1 .. Len(v6') : v6'[i] = v6[i + 1] /\ i + 1 \in 1 .. Len(v6)
         /\ Head(v6) = v6[1] /\ 1 \in 1 .. Len(v6) /\ v6[1] \in Replay!Frames
         /\ Replay!Sound'
<1>1. v6 \in Seq(Replay!Frames) /\ Len(v6) \in Nat /\ Len(v6) <= MaxWire
  BY DEF Replay!IInv, Replay!Sound, Replay!TypeOK
<1>2. /\ v6' \in Seq(Replay!Frames) /\ 0 < Len(v6) /\ Len(v6') = Len(v6) - 1
      /\ \A i \in 1 .. Len(v6') : v6'[i] = v6[i + 1]
      /\ Head(v6) = v6[1]
  BY <1>1
<1>3. \A i \in 1 .. Len(v6') : i + 1 \in 1 .. Len(v6)
  BY <1>1, <1>2
<1>4. 1 \in 1 .. Len(v6) /\ v6[1] \in Replay!Frames
  BY <1>1, <1>2
<1>5. Replay!Sound'
  BY <1>2, <1>3 DEF Replay!IInv, Replay!Sound
<1> QED BY <1>1, <1>2, <1>3, <1>4, <1>5, ReplayBounds

LEMMA BookRead ==
  ASSUME Replay!IInv, Replay!ReadBook
  PROVE  Replay!IInv'
<1> DEFINE f == Head(v6)
<1>1. /\ UNCHANGED <<v1, v2, v3, v4, v5, v10, v11>> /\ v3 /\ v1 \in Replay!Books
      /\ v6 # <<>> /\ v6' = Tail(v6) /\ v7' = Replay!Patched(f)
      /\ \/ v8' = v2 /\ v9' = [wrote |-> Replay!Best(v7', Depth), was |-> Replay!Best(f.book, Depth), out |-> f.out]
         \/ UNCHANGED <<v8, v9>>
  BY DEF Replay!ReadBook
<1>2. /\ Len(v6) \in Nat /\ 0 < Len(v6) /\ Len(v6') = Len(v6) - 1 /\ Len(v6') <= MaxWire
      /\ \A i \in 1 .. Len(v6') : v6'[i] = v6[i + 1] /\ i + 1 \in 1 .. Len(v6)
      /\ f = v6[1] /\ 1 \in 1 .. Len(v6) /\ v6[1] \in Replay!Frames
      /\ Replay!Sound'
  BY <1>1, OneLess
<1> HIDE DEF f
(* The book is the venue's at that frame, in its scope, and what left it.  *)
<1>3. v7' = Replay!HeldAt(f.book, f.out) /\ v7' = Replay!BookAt(1)
  <2>1. Replay!Gives(v6[1], Replay!BookAt(1 - 1)) = Replay!BookAt(1)
    BY <1>1, <1>2 DEF Replay!IInv, Replay!Chained
  <2>2. Replay!BookAt(1 - 1) = v7 /\ Replay!BookAt(1) = Replay!HeldAt(f.book, f.out)
    BY <1>2 DEF Replay!BookAt
  <2>3. Replay!Gives(f, v7) = Replay!Patched(f)
    BY DEF Replay!Gives, Replay!Patched
  <2> QED BY <1>1, <1>2, <2>1, <2>2, <2>3
<1>4. f.book \in SUBSET Replay!Prices /\ f.out \in SUBSET Replay!Prices
  BY <1>2 DEF Replay!Frames
<1>5. Replay!TypeOK' /\ Replay!RowsFollow'
  <2>1. v7' \subseteq Replay!Prices
    BY <1>3, <1>4, ScopeIsPart DEF Replay!HeldAt
  <2>2. v9' \in [wrote : SUBSET Replay!Prices, was : SUBSET Replay!Prices, out : SUBSET Replay!Prices]
        /\ Replay!RowsFollow'
    <3>1. CASE UNCHANGED v9
      BY <3>1 DEF Replay!IInv, Replay!TypeOK, Replay!ArchiveIsTrue, Replay!RowsFollow
    <3>2. CASE v9' = [wrote |-> Replay!Best(v7', Depth), was |-> Replay!Best(f.book, Depth), out |-> f.out]
      <4>1. Replay!Best(v7', Depth) \subseteq Replay!Prices /\ Replay!Best(f.book, Depth) \subseteq Replay!Prices
        BY <1>4, <2>1 DEF Replay!Best
      <4>2. /\ Replay!Best(v7', Depth) \ Replay!Best(f.book, Depth) \subseteq f.out
            /\ \A p \in Replay!Best(f.book, Depth) \ Replay!Best(v7', Depth) : \E q \in f.out : q > p
        <5>1. v7' = Replay!HeldAt(f.book, f.out)
          BY <1>3
        <5> HIDE DEF f
        <5> DEFINE b == f.book
                   O == f.out
        <5>2. b \in SUBSET Replay!Prices /\ O \in SUBSET Replay!Prices
          BY <1>4
        <5> HIDE DEF b, O
        <5>3. /\ Replay!Best(Replay!HeldAt(b, O), Depth) \ Replay!Best(b, Depth) \subseteq O
              /\ \A p \in Replay!Best(b, Depth) \ Replay!Best(Replay!HeldAt(b, O), Depth) :
                   \E q \in O : q > p
          BY <5>2, TopFollows
        <5> QED BY <5>1, <5>3 DEF b, O
      <4> QED BY <1>4, <3>2, <4>1, <4>2 DEF Replay!RowsFollow
    <3> QED BY <1>1, <3>1, <3>2
  <2>3. v8' \in 0 .. ReplayTime + Interval
    BY <1>1, ReplayBounds DEF Replay!IInv, Replay!TypeOK
  <2> QED BY <1>1, <1>2, <2>1, <2>2, <2>3 DEF Replay!IInv, Replay!TypeOK
<1>6. \A i \in 0 .. Len(v6') : Replay!BookAt(i)' = Replay!BookAt(i + 1)
  <2>1. ASSUME NEW i \in 0 .. Len(v6') PROVE Replay!BookAt(i)' = Replay!BookAt(i + 1)
    <3>1. CASE i = 0
      BY <1>2, <1>3, <3>1 DEF Replay!BookAt
    <3>2. CASE i # 0
      <4>1. i \in 1 .. Len(v6') /\ i + 1 # 0
        BY <1>2, <3>2
      <4> QED BY <1>1, <1>2, <3>2, <4>1 DEF Replay!BookAt, Replay!HeldAt, Replay!Scope, Replay!Best
    <3> QED BY <3>1, <3>2
  <2> QED BY <2>1
<1>7. Replay!Chained'
  <2>1. (Replay!BookAt(Len(v6)) = Replay!HeldAt(v4, v11))'
    <3>1. Len(v6') + 1 = Len(v6) /\ Len(v6') \in 0 .. Len(v6')
      BY <1>2
    <3>2. Replay!BookAt(Len(v6)) = Replay!HeldAt(v4, v11)
      BY <1>1 DEF Replay!IInv, Replay!Chained
    <3>3. Replay!HeldAt(v4, v11)' = Replay!HeldAt(v4, v11)
      BY <1>1 DEF Replay!HeldAt, Replay!Scope, Replay!Best
    <3>4. \A i \in 0 .. Len(v6') : i = Len(v6') => Replay!BookAt(i)' = Replay!BookAt(Len(v6))
      BY <1>6, <3>1
    <3>5. CASE Len(v6') = 0
      <4>1. Replay!BookAt(0)' = Replay!BookAt(Len(v6))
        BY <1>6, <3>1, <3>5
      <4> QED BY <3>2, <3>3, <3>5, <4>1 DEF Replay!BookAt
    <3>6. CASE Len(v6') # 0
      <4>1. \A i \in 0 .. Len(v6') : i # 0 => Replay!BookAt(i)' = Replay!HeldAt(v6'[i].book, v6'[i].out)
        BY <1>1 DEF Replay!BookAt, Replay!HeldAt, Replay!Scope, Replay!Best
      <4>2. Replay!HeldAt(v6'[Len(v6')].book, v6'[Len(v6')].out) = Replay!BookAt(Len(v6))
        BY <3>1, <3>4, <3>6, <4>1
      <4>3. (Replay!BookAt(Len(v6)) = Replay!HeldAt(v6[Len(v6)].book, v6[Len(v6)].out))'
        BY <3>6 DEF Replay!BookAt
      <4>4. (Replay!HeldAt(v6[Len(v6)].book, v6[Len(v6)].out))' = Replay!HeldAt(v6'[Len(v6')].book, v6'[Len(v6')].out)
        BY <1>1 DEF Replay!HeldAt, Replay!Scope, Replay!Best
      <4> QED BY <3>2, <3>3, <4>2, <4>3, <4>4
    <3> QED BY <3>5, <3>6
  <2>2. ASSUME NEW i \in 1 .. Len(v6') PROVE Replay!Gives(v6'[i], Replay!BookAt(i - 1)') = Replay!BookAt(i)'
    <3>1. i - 1 \in 0 .. Len(v6') /\ i \in 0 .. Len(v6') /\ (i - 1) + 1 = i
          /\ i + 1 \in 1 .. Len(v6) /\ (i + 1) - 1 = i
      BY <1>2
    <3>2. Replay!BookAt(i - 1)' = Replay!BookAt(i) /\ Replay!BookAt(i)' = Replay!BookAt(i + 1)
      BY <1>6, <3>1
    <3>3. Replay!Gives(v6[i + 1], Replay!BookAt((i + 1) - 1)) = Replay!BookAt(i + 1)
      BY <1>1, <3>1 DEF Replay!IInv, Replay!Chained
    <3> QED BY <1>2, <3>1, <3>2, <3>3
  <2>3. (v11 \intersect Replay!Scope(v4) = {} /\ (v1 = "binance book" => v11 = {}))'
    BY <1>1 DEF Replay!IInv, Replay!Chained, Replay!Scope, Replay!Best
  <2> QED BY <2>1, <2>2, <2>3 DEF Replay!Chained, Replay!Gives
<1>8. Replay!Unwritten' /\ Replay!TradesOnce'
  <2>1. \A i \in 1 .. Len(v6') : Replay!Kept(i)' = Replay!Kept(i + 1)
    BY <1>2 DEF Replay!Kept, Replay!Keeps
  <2>2. \A i, j \in 1 .. Len(v6') : i # j => i + 1 # j + 1
    OBVIOUS
  <2> QED BY <1>1, <1>2, <2>1, <2>2 DEF Replay!IInv, Replay!Unwritten, Replay!ArchiveIsTrue,
         Replay!TradesOnce
<1> QED BY <1>2, <1>5, <1>7, <1>8 DEF Replay!IInv, Replay!ArchiveIsTrue

LEMMA TapeRead ==
  ASSUME Replay!IInv, Replay!ReadTape
  PROVE  Replay!IInv'
<1>1. /\ UNCHANGED <<v1, v2, v3, v4, v5, v7, v8, v9, v11>> /\ v3 /\ v1 \notin Replay!Books
      /\ v6 # <<>> /\ v6' = Tail(v6)
      /\ v10' = [t \in DOMAIN v10 |->
                   IF t \in Replay!Keeps(Head(v6)) THEN v10[t] + 1 ELSE v10[t]]
  BY DEF Replay!ReadTape
<1>2. /\ Len(v6) \in Nat /\ 0 < Len(v6) /\ Len(v6') = Len(v6) - 1 /\ Len(v6') <= MaxWire
      /\ \A i \in 1 .. Len(v6') : v6'[i] = v6[i + 1] /\ i + 1 \in 1 .. Len(v6)
      /\ Head(v6) = v6[1] /\ 1 \in 1 .. Len(v6) /\ v6[1] \in Replay!Frames
      /\ Replay!Sound'
  BY <1>1, OneLess
<1>3. Replay!Keeps(Head(v6)) = Replay!Kept(1) /\ \A t \in Replay!Kept(1) : t <= v5 /\ v10[t] = 0
  BY <1>2 DEF Replay!Kept, Replay!IInv, Replay!Unwritten
<1>4. DOMAIN v10 = 1 .. MaxTrades /\ \A t \in 1 .. MaxTrades : v10[t] \in 0 .. 2
  BY DEF Replay!IInv, Replay!TypeOK
<1>5. /\ DOMAIN v10' = 1 .. MaxTrades
      /\ \A t \in 1 .. MaxTrades : v10'[t] = IF t \in Replay!Kept(1) THEN 1 ELSE v10[t]
  BY <1>1, <1>3, <1>4
<1>6. v10' \in [1 .. MaxTrades -> 0 .. 2]
  <2>1. \A t \in 1 .. MaxTrades : (IF t \in Replay!Keeps(Head(v6)) THEN v10[t] + 1 ELSE v10[t]) \in 0 .. 2
    BY <1>3, <1>4
  <2> QED BY <1>1, <1>4, <2>1
<1>7. Replay!TypeOK'
  BY <1>1, <1>2, <1>6 DEF Replay!IInv, Replay!TypeOK
<1>8. Replay!ArchiveIsTrue'
  BY <1>1, <1>4, <1>5 DEF Replay!IInv, Replay!ArchiveIsTrue, Replay!RowsFollow, Replay!TradesOnce
<1>9. Replay!Unwritten'
  <2>1. \A i \in 1 .. Len(v6') : Replay!Kept(i)' = Replay!Kept(i + 1) /\ i + 1 # 1
    BY <1>2 DEF Replay!Kept, Replay!Keeps
  <2>2. \A t \in DOMAIN v10' : v10'[t] > 0 => t <= v5'
    BY <1>1, <1>3, <1>4, <1>5 DEF Replay!IInv, Replay!Unwritten
  <2>3. ASSUME NEW i \in 1 .. Len(v6'), NEW t \in Replay!Kept(i)' PROVE t <= v5' /\ v10'[t] = 0
    <3>1. i + 1 \in 1 .. Len(v6) /\ t \in Replay!Kept(i + 1) /\ i + 1 # 1
      BY <1>2, <2>1, <2>3
    <3>2. t <= v5 /\ v10[t] = 0 /\ t \notin Replay!Kept(1)
      BY <1>2, <3>1 DEF Replay!IInv, Replay!Unwritten
    <3>3. t \in 1 .. MaxTrades
      <4>1. v6[i + 1] \in Replay!Frames
        BY <3>1 DEF Replay!IInv, Replay!Sound
      <4> QED BY <3>1, <4>1 DEF Replay!Kept, Replay!Keeps, Replay!Frames
    <3> QED BY <1>1, <1>5, <3>2, <3>3
  <2>4. \A i, j \in 1 .. Len(v6') : i # j => i + 1 # j + 1
    OBVIOUS
  <2>5. ASSUME NEW i \in 1 .. Len(v6'), NEW j \in 1 .. Len(v6'), i # j
        PROVE Replay!Kept(i)' \cap Replay!Kept(j)' = {}
    BY <1>2, <2>1, <2>4, <2>5 DEF Replay!IInv, Replay!Unwritten
  <2> QED BY <2>2, <2>3, <2>5 DEF Replay!Unwritten
<1>10. Replay!Chained'
  BY <1>1 DEF Replay!Chained
<1> QED BY <1>2, <1>7, <1>8, <1>9, <1>10 DEF Replay!IInv

LEMMA ReplayTicks ==
  ASSUME Replay!IInv, Replay!Tick \/ UNCHANGED Replay!vars
  PROVE  Replay!IInv'
<1>1. /\ UNCHANGED <<v1, v3, v4, v5, v6, v7, v8, v9, v10, v11>>
      /\ v2' = v2 \/ (v2 < ReplayTime /\ v2' = v2 + 1)
  BY DEF Replay!Tick, Replay!vars
<1>2. v2' \in 0 .. ReplayTime
  BY <1>1, ReplayBounds DEF Replay!IInv, Replay!TypeOK
<1>3. Replay!TypeOK'
  BY <1>1, <1>2 DEF Replay!IInv, Replay!TypeOK
<1>4. Replay!Sound' /\ Replay!Chained'
  <2>1. Replay!Sound'
    BY <1>1 DEF Replay!IInv, Replay!Sound
  <2>2. Replay!Scope(v4)' = Replay!Scope(v4) /\ Replay!HeldAt(v4, v11)' = Replay!HeldAt(v4, v11)
    BY <1>1 DEF Replay!HeldAt, Replay!Scope, Replay!Best
  <2>3. \A i : Replay!BookAt(i)' = Replay!BookAt(i)
    BY <1>1 DEF Replay!BookAt, Replay!HeldAt, Replay!Scope, Replay!Best
  <2>4. Replay!Chained'
    BY <1>1, <2>2, <2>3 DEF Replay!IInv, Replay!Chained, Replay!Gives
  <2> QED BY <2>1, <2>4
<1>5. Replay!Unwritten' /\ Replay!ArchiveIsTrue'
  BY <1>1 DEF Replay!IInv, Replay!Unwritten, Replay!Kept, Replay!Keeps, Replay!ArchiveIsTrue,
     Replay!RowsFollow, Replay!TradesOnce
<1> QED BY <1>3, <1>4, <1>5 DEF Replay!IInv

(* Each step of a collector that replays a book or a tape keeps the        *)
(* invariant, over any loss of the connection (collector_core.py).         *)
THEOREM ReplayStep ==
  ASSUME Replay!IInv, Replay!Next
  PROVE  Replay!IInv'
<1>1. CASE \E p \in Replay!Prices : Replay!Quote(p)
  BY <1>1, Quoted
<1>2. CASE Replay!Trade
  BY <1>2, Printed
<1>3. CASE Replay!Connect \/ Replay!Drop
  BY <1>3, Connected, Dropped
<1>4. CASE Replay!ReadBook \/ Replay!ReadTape
  BY <1>4, BookRead, TapeRead
<1>5. CASE Replay!Tick
  BY <1>5, ReplayTicks
<1> QED BY <1>1, <1>2, <1>3, <1>4, <1>5 DEF Replay!Next
-----------------------------------------------------------------------------
(* The Hyperliquid collector (Perps).                                      *)
LEMMA PerpsConstants ==
  UniverseSize \in Nat /\ MaxGenerations \in Nat /\ MaxDrops \in Nat
BY CollectorsAssumption

LEMMA PerpsCardinality == \A S : Perps!Cardinality(S) = Cardinality(S)
BY DEF Perps!Cardinality, Cardinality

LEMMA FewHalves == \A c : Perps!Cardinality({}) <= 1 /\ Perps!Cardinality({c}) <= 1
<1>1. Perps!Cardinality({}) = 0
  BY PerpsCardinality, FS_EmptySet
<1>2. ASSUME NEW c PROVE Perps!Cardinality({c}) = 1
  BY PerpsCardinality, FS_Singleton
<1> QED BY <1>1, <1>2

LEMMA PerpsStarts == Perps!Init => Perps!IInv
<1> SUFFICES ASSUME Perps!Init PROVE Perps!IInv
  OBVIOUS
<1>1. Perps!Unheard \in [Coins -> SUBSET Perps!Kinds]
  BY DEF Perps!Unheard
<1>1a. 0 \in 0 .. MaxGenerations /\ 0 \in 0 .. MaxGenerations + 1 /\ 0 \in 0 .. MaxDrops
  BY PerpsConstants
<1>2. Perps!TypeOK
  BY <1>1, <1>1a, FewHalves DEF Perps!Init, Perps!TypeOK
<1> QED BY <1>2 DEF Perps!Init, Perps!IInv, Perps!Tracked, Perps!Aimed, Perps!Pending

(* apply() begins, on a new connection or on one that was quiet.            *)
LEMMA ApplyBegins ==
  ASSUME Perps!IInv, Perps!Start, v3' = TRUE, UNCHANGED <<v1, v2, v10>>,
         \/ ~v3 /\ v4' = {} /\ v5' = 0 /\ v9' = v9
         \/ v3 /\ v6 = "idle" /\ UNCHANGED <<Perps!tracker, v9>>
  PROVE  Perps!IInv'
<1>1. Perps!TypeOK'
  <2>1. v8' = {} /\ Perps!Cardinality(v8') <= 1
    BY FewHalves DEF Perps!Start
  <2>2. v4' \subseteq Coins /\ v5' \in 0 .. MaxGenerations + 1
    BY PerpsConstants DEF Perps!IInv, Perps!TypeOK, Perps!tracker
  <2>3. v9' = v9 /\ v7' \subseteq Coins /\ v6' = "unsub" /\ v11' = FALSE
    BY DEF Perps!IInv, Perps!TypeOK, Perps!Start, Perps!Universes, Perps!tracker
  <2> QED BY <2>1, <2>2, <2>3 DEF Perps!IInv, Perps!TypeOK
<1>2. Perps!Tracked'
  BY DEF Perps!IInv, Perps!Tracked, Perps!Start, Perps!tracker, Perps!Unheard, Perps!Pending
<1>3. Perps!Aimed'
  BY PerpsConstants DEF Perps!IInv, Perps!TypeOK, Perps!Aimed, Perps!Start, Perps!tracker
<1> QED BY <1>1, <1>2, <1>3 DEF Perps!IInv

LEMMA CoinSent ==
  ASSUME Perps!IInv, NEW c \in Coins, Perps!Send(c)
  PROVE  Perps!IInv'
<1>1. /\ v3 /\ v6 \in {"unsub", "sub"} /\ c \in Perps!Pending /\ v8 \in {{}, {c}}
      /\ UNCHANGED <<v1, v2, v3, v5, v6, v7, v10, v11>>
      /\ Perps!TypeOK /\ Perps!Tracked
  BY DEF Perps!IInv, Perps!TypeOK, Perps!Send
<1>2. Perps!Kinds = {"trades", "activeAssetCtx"} /\ "trades" # "activeAssetCtx"
  BY DEF Perps!Kinds
<1> DEFINE before == IF v6 = "unsub" THEN Perps!Kinds ELSE {}
           mid == IF v6 = "unsub" THEN {"activeAssetCtx"} ELSE {"trades"}
           after == IF v6 = "unsub" THEN {} ELSE Perps!Kinds
<1>3. CASE v8 = {}
  <2>1. v9[c] = before
    BY <1>1, <1>3 DEF Perps!Tracked, Perps!Pending
  <2>2. v8' = {c} /\ v4' = v4 /\ v9' = [v9 EXCEPT ![c] = mid]
    BY <1>1, <1>2, <1>3, <2>1 DEF Perps!Send, Perps!TypeOK
  <2>3. Perps!TypeOK'
    BY <1>1, <1>2, <2>2, FewHalves DEF Perps!TypeOK
  <2>4. Perps!Tracked'
    <3>1. Perps!Pending' = Perps!Pending /\ v8' \subseteq Perps!Pending'
      BY <1>1, <2>2 DEF Perps!Pending
    <3>2. \A b \in Coins : v9'[b] = IF b = c THEN mid ELSE v9[b]
      BY <1>1, <2>2 DEF Perps!TypeOK
    <3>3. Perps!HalfSent' = mid
      BY <1>1 DEF Perps!HalfSent
    <3> HIDE DEF mid, before, after
    <3>4. \A b \in Coins : v9'[b] = IF b \in v8' THEN Perps!HalfSent'
                                    ELSE IF b \in v4' THEN Perps!Kinds ELSE {}
      BY <1>1, <1>3, <2>2, <3>2, <3>3 DEF Perps!Tracked
    <3> QED BY <1>1, <2>2, <3>1, <3>4 DEF Perps!Tracked
  <2>5. Perps!Aimed'
    BY <1>1, <2>2 DEF Perps!IInv, Perps!Aimed
  <2> QED BY <2>3, <2>4, <2>5 DEF Perps!IInv
<1>4. CASE v8 = {c}
  <2>0. v8 # {}
    BY <1>4
  <2>1. v9[c] = mid
    BY <1>1, <1>4 DEF Perps!Tracked, Perps!HalfSent
  <2>2. /\ v8' = {} /\ v9' = [v9 EXCEPT ![c] = after]
        /\ v4' = IF v6 = "unsub" THEN v4 \ {c} ELSE v4 \union {c}
    <3>1. v6 = "unsub" => v9[c] \ {"activeAssetCtx"} = {}
      BY <2>1
    <3>2. v6 # "unsub" => v9[c] \union {"activeAssetCtx"} = Perps!Kinds
      BY <1>2, <2>1
    <3> QED BY <1>1, <2>0, <3>1, <3>2 DEF Perps!Send, Perps!TypeOK
  <2>3. Perps!TypeOK'
    BY <1>1, <1>2, <2>2, FewHalves DEF Perps!TypeOK
  <2>4. Perps!Tracked'
    <3>1. \A b \in Coins : v9'[b] = IF b = c THEN after ELSE v9[b]
      BY <1>1, <2>2 DEF Perps!TypeOK
    <3>2. \A b \in Coins : b \in v4' <=> (IF b = c THEN v6 # "unsub" ELSE b \in v4)
      BY <2>2
    <3>3. after = IF v6 # "unsub" THEN Perps!Kinds ELSE {}
      OBVIOUS
    <3> HIDE DEF mid, before, after
    <3>4. \A b \in Coins : v9'[b] = IF b \in v4' THEN Perps!Kinds ELSE {}
      BY <1>1, <1>4, <3>1, <3>2, <3>3 DEF Perps!Tracked
    <3>5. v6' = "sub" => v4' \subseteq v7'
      BY <1>1, <2>2 DEF Perps!Tracked, Perps!Pending
    <3> QED BY <1>1, <2>2, <3>4, <3>5 DEF Perps!Tracked
  <2>5. Perps!Aimed'
    BY <1>1, <2>2 DEF Perps!IInv, Perps!Aimed
  <2> QED BY <2>3, <2>4, <2>5 DEF Perps!IInv
<1> QED BY <1>1, <1>3, <1>4

LEMMA PerpsStutters == Perps!IInv /\ UNCHANGED Perps!vars => Perps!IInv'
BY DEF Perps!IInv, Perps!vars, Perps!tracker, Perps!call, Perps!TypeOK, Perps!Tracked,
   Perps!HalfSent, Perps!Pending, Perps!Aimed

(* Each step of the two tasks, for any coins and universes, keeps the       *)
(* invariant (scripts/collect_perps_hyperliquid.py).                       *)
THEOREM PerpsStep ==
  ASSUME Perps!IInv, Perps!Next
  PROVE  Perps!IInv'
<1>1. CASE Perps!Refresh
  <2>1. v2 + 1 \in 0 .. MaxGenerations /\ v2 + 1 \in Nat /\ v5 \in 0 .. MaxGenerations + 1
    BY <1>1, PerpsConstants DEF Perps!Refresh, Perps!IInv, Perps!TypeOK
  <2>2. Perps!TypeOK'
    BY <1>1, <2>1 DEF Perps!Refresh, Perps!IInv, Perps!TypeOK, Perps!tracker, Perps!call
  <2>3. Perps!Tracked'
    BY <1>1 DEF Perps!Refresh, Perps!IInv, Perps!Tracked, Perps!HalfSent, Perps!Pending,
       Perps!tracker, Perps!call
  <2>4. v3 => v5' # v2' + 1 /\ v5' <= v2' + 1
    BY <1>1, <2>1 DEF Perps!Refresh, Perps!IInv, Perps!TypeOK, Perps!Aimed, Perps!tracker
  <2>5. Perps!Aimed'
    BY <1>1, <2>4 DEF Perps!Refresh, Perps!IInv, Perps!Aimed, Perps!tracker, Perps!call
  <2> QED BY <2>2, <2>3, <2>5 DEF Perps!IInv
<1>2. CASE Perps!Connect \/ Perps!Apply
  BY <1>2, ApplyBegins DEF Perps!Connect, Perps!Apply
<1>3. ASSUME NEW c \in Coins, Perps!Send(c) PROVE Perps!IInv'
  BY <1>3, CoinSent
<1>4. CASE Perps!Unsubscribed
  <2>1. v8 = {} /\ v4 \subseteq v7
    BY <1>4 DEF Perps!Unsubscribed, Perps!IInv, Perps!Tracked, Perps!Pending
  <2>2. Perps!TypeOK'
    BY <1>4 DEF Perps!Unsubscribed, Perps!IInv, Perps!TypeOK, Perps!tracker
  <2>3. Perps!Tracked' /\ Perps!Aimed'
    BY <1>4, <2>1 DEF Perps!Unsubscribed, Perps!IInv, Perps!Tracked, Perps!Aimed, Perps!Pending,
       Perps!tracker
  <2> QED BY <2>2, <2>3 DEF Perps!IInv
<1>5. CASE Perps!Subscribed
  <2>1. v8 = {} /\ v4 = v7
    BY <1>5 DEF Perps!Subscribed, Perps!IInv, Perps!Tracked, Perps!Pending
  <2>2. v2 + 1 \in 0 .. MaxGenerations + 1
    BY PerpsConstants DEF Perps!IInv, Perps!TypeOK
  <2>3. Perps!TypeOK'
    BY <1>5, <2>2 DEF Perps!Subscribed, Perps!IInv, Perps!TypeOK
  <2>4. Perps!Tracked' /\ Perps!Aimed'
    BY <1>5, <2>1, <2>2 DEF Perps!Subscribed, Perps!IInv, Perps!Tracked, Perps!Aimed, Perps!Pending
  <2> QED BY <2>3, <2>4 DEF Perps!IInv
<1>6. CASE Perps!Drop
  <2>1. v10 + 1 \in 0 .. MaxDrops /\ Perps!Unheard \in [Coins -> SUBSET Perps!Kinds]
    BY <1>6, PerpsConstants DEF Perps!Drop, Perps!IInv, Perps!TypeOK, Perps!Unheard
  <2>2. Perps!TypeOK'
    BY <1>6, <2>1, FewHalves DEF Perps!Drop, Perps!IInv, Perps!TypeOK, Perps!tracker
  <2>3. Perps!Tracked' /\ Perps!Aimed'
    BY <1>6 DEF Perps!Drop, Perps!IInv, Perps!Tracked, Perps!Aimed, Perps!Pending
  <2> QED BY <2>2, <2>3 DEF Perps!IInv
<1> QED BY <1>1, <1>2, <1>3, <1>4, <1>5, <1>6 DEF Perps!Next, Perps!Socket

LEMMA FollowedIsTracked == Perps!IInv => Perps!UniverseFollowed
<1> SUFFICES ASSUME Perps!IInv, v3, v6 = "idle", v5 = v2 + 1, ~v11 PROVE Perps!Followed
  BY DEF Perps!UniverseFollowed
<1>1. v8 = {} /\ v4 = v1
  BY DEF Perps!IInv, Perps!Tracked, Perps!Aimed
<1>2. v9 \in [Coins -> SUBSET Perps!Kinds] /\ \A c \in Coins : v9[c] = IF c \in v1 THEN Perps!Kinds ELSE {}
  BY <1>1 DEF Perps!IInv, Perps!TypeOK, Perps!Tracked
<1> QED BY <1>2 DEF Perps!Followed
-----------------------------------------------------------------------------
(* The Binance.US trade poller (TapePoller).                               *)
LEMMA TapeConstants ==
  /\ NTrades \in Nat /\ TapeDeaths \in Nat
  /\ TapePerHour \in Nat \ {0} /\ TapeHoursPerDay \in Nat \ {0} /\ TapePage \in Nat \ {0}
BY CollectorsAssumption

LEMMA TapeCardinality == \A S : Tape!Cardinality(S) = Cardinality(S)
BY DEF Tape!Cardinality, Cardinality

LEMMA TapeMaxOf ==
  ASSUME NEW N \in Nat, NEW S \in SUBSET (0 .. N), S # {}
  PROVE  Tape!Max(S) \in S /\ \A m \in S : m <= Tape!Max(S)
<1>1. Max(S) \in S /\ \A m \in S : m <= Max(S)
  BY MaxOf
<1>2. Tape!Max(S) = Max(S)
  BY DEF Tape!Max, Max
<1> QED BY <1>1, <1>2

LEMMA TapeInOrder ==
  /\ Tape!Trades = 1 .. NTrades /\ NTrades \in Nat
  /\ \A t \in Tape!Trades : Tape!HourOf(t) \in Nat /\ Tape!DayOf(t) \in Nat
  /\ \A s, t \in Tape!Trades : s <= t => Tape!HourOf(s) <= Tape!HourOf(t) /\ Tape!DayOf(s) <= Tape!DayOf(t)
<1>1. \A P \in Nat \ {0} : \A a, b \in Nat : a \div P \in Nat /\ (a <= b => a \div P <= b \div P)
  OBVIOUS
<1>2. TapePerHour \in Nat \ {0} /\ TapeHoursPerDay \in Nat \ {0} /\ NTrades \in Nat
  BY TapeConstants
<1>3. \A t \in Tape!Trades : t \in Nat /\ t - 1 \in Nat
  BY <1>2 DEF Tape!Trades
<1>4. \A t \in Tape!Trades : Tape!HourOf(t) \in Nat
  BY <1>1, <1>2, <1>3 DEF Tape!HourOf
<1>5. \A s, t \in Tape!Trades : s <= t => Tape!HourOf(s) <= Tape!HourOf(t)
  <2>1. ASSUME NEW s \in Tape!Trades, NEW t \in Tape!Trades, s <= t PROVE Tape!HourOf(s) <= Tape!HourOf(t)
    <3>1. s - 1 \in Nat /\ t - 1 \in Nat /\ s - 1 <= t - 1
      BY <1>3, <2>1
    <3> QED BY <1>1, <1>2, <3>1 DEF Tape!HourOf
  <2> QED BY <2>1
<1>6. \A t \in Tape!Trades : Tape!DayOf(t) \in Nat
  BY <1>1, <1>2, <1>4 DEF Tape!DayOf
<1>7. \A s, t \in Tape!Trades : s <= t => Tape!DayOf(s) <= Tape!DayOf(t)
  BY <1>1, <1>2, <1>4, <1>5 DEF Tape!DayOf
<1> QED BY <1>2, <1>4, <1>5, <1>6, <1>7 DEF Tape!Trades

(* Where the cursor comes from.                                            *)
LEMMA NewestDay ==
  ASSUME Tape!IInv, v2 # {}
  PROVE  Tape!Max(v2) \in v2 /\ \A d \in v2 : d <= Tape!Max(v2)
<1>1. NTrades # 0
  BY TapeInOrder DEF Tape!IInv, Tape!TypeOK
<1>2. NTrades \in Tape!Trades /\ \A t \in Tape!Trades : t <= NTrades
  BY <1>1, TapeInOrder
<1>3. v2 \in SUBSET (0 .. Tape!DayOf(NTrades)) /\ Tape!DayOf(NTrades) \in Nat
  BY <1>2, TapeInOrder DEF Tape!IInv, Tape!TypeOK
<1> QED BY <1>3, TapeMaxOf

LEMMA StoredAreTrades == /\ Tape!Stored \subseteq Tape!Trades
                         /\ Tape!TypeOK => v6 \subseteq Tape!Trades /\ Tape!InHand \subseteq Tape!Trades
BY TapeInOrder DEF Tape!Stored, Tape!TypeOK, Tape!InHand

LEMMA LastIsLast ==
  ASSUME Tape!IInv
  PROVE  /\ Tape!LastStored \in 0 .. v1
         /\ Tape!LastStored # 0 => Tape!LastStored \in Tape!Stored /\ \A s \in Tape!Stored : s <= Tape!LastStored
         /\ Tape!LastStored = 0 => /\ Tape!Stored = {} \/ (v2 # {} /\ Tape!Newest = {})
                                   /\ \A s \in Tape!Stored : s < v1
<1>1. CASE v2 = {}
  <2>1. Tape!Stored = {}
    BY <1>1 DEF Tape!IInv, Tape!Placed
  <2> QED BY <1>1, <2>1 DEF Tape!LastStored, Tape!IInv, Tape!TypeOK
<1>2. CASE v2 # {}
  <2>1. Tape!Max(v2) \in v2 /\ \A d \in v2 : d <= Tape!Max(v2)
    BY <1>2, NewestDay
  <2>2. v1 \in Nat /\ v1 <= NTrades
    BY TapeInOrder DEF Tape!IInv, Tape!TypeOK
  <2>3. Tape!Newest \subseteq Tape!Stored /\ Tape!Stored \subseteq Tape!Trades
        /\ \A s \in Tape!Stored : s <= v1 /\ Tape!DayOf(s) \in v2
    BY StoredAreTrades DEF Tape!Newest, Tape!IInv, Tape!Placed
  <2>4. CASE Tape!Newest = {}
    <3>1. PICK t \in 1 .. v1 : Tape!DayOf(t) = Tape!Max(v2)
      BY <2>1 DEF Tape!IInv, Tape!Placed
    <3>2. t \in Tape!Trades /\ t <= v1
      BY <2>2, <3>1, TapeInOrder
    <3>3. ASSUME NEW s \in Tape!Stored PROVE s < v1
      <4>1. Tape!DayOf(s) # Tape!DayOf(t) /\ Tape!DayOf(s) <= Tape!DayOf(t) /\ s \in Tape!Trades
        BY <2>1, <2>3, <2>4, <3>1, <3>3 DEF Tape!Newest
      <4>2. ~(t <= s)
        BY <3>2, <4>1, TapeInOrder
      <4> QED BY <2>2, <3>2, <4>1, <4>2, TapeInOrder
    <3> QED BY <1>2, <2>2, <2>4, <3>3 DEF Tape!LastStored
  <2>5. CASE Tape!Newest # {}
    <3>1. Tape!Newest \in SUBSET (0 .. v1)
      BY <2>2, <2>3, TapeInOrder
    <3>2. Tape!Max(Tape!Newest) \in Tape!Newest /\ \A s \in Tape!Newest : s <= Tape!Max(Tape!Newest)
      BY <2>2, <2>5, <3>1, TapeMaxOf
    <3>3. Tape!LastStored = Tape!Max(Tape!Newest)
      BY <1>2, <2>5 DEF Tape!LastStored
    <3> DEFINE l == Tape!Max(Tape!Newest)
    <3>4. l \in Tape!Stored /\ l \in Tape!Trades /\ Tape!DayOf(l) = Tape!Max(v2) /\ l <= v1
      BY <2>3, <3>2 DEF Tape!Newest
    <3>5. ASSUME NEW s \in Tape!Stored PROVE s <= l
      <4>1. CASE s \in Tape!Newest
        BY <3>2, <4>1
      <4>2. CASE s \notin Tape!Newest
        <5>1. Tape!DayOf(s) # Tape!DayOf(l) /\ Tape!DayOf(s) <= Tape!DayOf(l) /\ s \in Tape!Trades
          BY <2>1, <2>3, <3>4, <3>5, <4>2 DEF Tape!Newest
        <5>2. ~(l <= s)
          BY <3>4, <5>1, TapeInOrder
        <5> QED BY <3>4, <5>1, <5>2, TapeInOrder
      <4> QED BY <4>1, <4>2
    <3> HIDE DEF l
    <3>6. l # 0 /\ l \in 0 .. v1
      BY <2>2, <3>4, TapeInOrder
    <3> QED BY <3>3, <3>4, <3>5, <3>6 DEF l
  <2> QED BY <2>4, <2>5
<1> QED BY <1>1, <1>2

LEMMA TapeStarts == Tape!Init => Tape!IInv
<1> SUFFICES ASSUME Tape!Init PROVE Tape!IInv
  OBVIOUS
<1>1. Tape!Stored = {}
  BY DEF Tape!Init, Tape!Stored
<1>2. NTrades \in Nat /\ TapeDeaths \in Nat
  BY TapeConstants
<1>3. 0 \in 0 .. NTrades /\ 0 \in 0 .. TapeDeaths /\ 0 \in 0 .. NTrades + 1
  BY <1>2
<1>4. v3 \in [Tape!Trades -> 0 .. 2]
  BY DEF Tape!Init
<1>5. Tape!TypeOK
  BY <1>3, <1>4 DEF Tape!Init, Tape!TypeOK
<1> QED BY <1>1, <1>5 DEF Tape!Init, Tape!IInv, Tape!Placed, Tape!NoHole, Tape!InHand,
       Tape!Ahead, Tape!TapeFollowed, Tape!TapeOnce, Tape!TapeWhole

LEMMA PassBegins ==
  ASSUME Tape!IInv, Tape!Begin
  PROVE  Tape!IInv'
<1>1. /\ v4 = "idle" /\ v4' = "fetch" /\ v6 = {} /\ v6' = {}
      /\ UNCHANGED <<v1, v2, v3, v7>>
      /\ v5' = IF Tape!LastStored = 0 THEN 0 ELSE Tape!LastStored + 1
      /\ v8' = (v8 \/ (v2 # {} /\ Tape!Newest = {}))
  BY DEF Tape!Begin, Tape!IInv, Tape!Placed
<1>2. Tape!Stored' = Tape!Stored /\ Tape!InHand' = Tape!Stored /\ Tape!InHand = Tape!Stored
  BY <1>1 DEF Tape!Stored, Tape!InHand
<1>3. /\ Tape!LastStored \in 0 .. v1 /\ v1 \in 0 .. NTrades /\ NTrades \in Nat
      /\ v1 \in Nat /\ Tape!LastStored \in Nat
  BY LastIsLast, TapeInOrder DEF Tape!IInv, Tape!TypeOK
<1>4. Tape!TypeOK'
  BY <1>1, <1>3 DEF Tape!IInv, Tape!TypeOK
<1>5. Tape!Placed' /\ Tape!TapeFollowed' /\ (v8 \/ Tape!NoHole(Tape!InHand))'
  BY <1>1, <1>2 DEF Tape!IInv, Tape!Placed, Tape!TapeFollowed, Tape!TapeOnce, Tape!TapeWhole,
     Tape!NoHole
<1>6. CASE Tape!LastStored = 0
  BY <1>1, <1>2, <1>4, <1>5, <1>6, LastIsLast DEF Tape!IInv, Tape!Ahead
<1>7. CASE Tape!LastStored # 0
  <2>1. Tape!LastStored \in Tape!Stored /\ \A s \in Tape!Stored : s <= Tape!LastStored /\ s \in Tape!Trades
    BY <1>7, LastIsLast, StoredAreTrades
  <2>2. v5' = Tape!LastStored + 1 /\ v5' # 0 /\ \A s \in Tape!Stored : s < v5'
    BY <1>1, <1>3, <1>7, <2>1, TapeInOrder
  <2>3. ASSUME ~v8', NEW a \in Tape!Stored, NEW t \in Tape!Trades, a < t, t < v5' PROVE t \in Tape!Stored
    <3>1. t = Tape!LastStored \/ t < Tape!LastStored
      BY <1>3, <2>2, <2>3, TapeInOrder
    <3>2. Tape!NoHole(Tape!Stored)
      BY <1>1, <1>2, <2>3 DEF Tape!IInv
    <3> QED BY <2>1, <2>3, <3>1, <3>2 DEF Tape!NoHole
  <2>4. Tape!Ahead'
    BY <1>1, <1>2, <2>2, <2>3 DEF Tape!Ahead
  <2> QED BY <1>4, <1>5, <2>4 DEF Tape!IInv
<1> QED BY <1>6, <1>7

LEMMA PassFetches ==
  ASSUME Tape!IInv, Tape!FetchSeed \/ Tape!FetchPage
  PROVE  Tape!IInv'
<1>1. /\ UNCHANGED <<v1, v2, v3, v7, v8>> /\ Tape!Stored' = Tape!Stored /\ v4 = "fetch"
      /\ Tape!Stored \subseteq Tape!Trades /\ Tape!InHand \subseteq Tape!Trades /\ v6 \subseteq 1 .. v1
      /\ v1 \in 0 .. NTrades /\ v1 \in Nat /\ v5 \in 0 .. NTrades + 1
  <2>1. UNCHANGED <<v1, v2, v3, v7, v8>> /\ v4 = "fetch"
    BY DEF Tape!FetchSeed, Tape!FetchPage
  <2>2. Tape!Stored' = Tape!Stored
    BY <2>1 DEF Tape!Stored
  <2>3. v1 \in 0 .. NTrades /\ v5 \in 0 .. NTrades + 1 /\ v6 \subseteq 1 .. v1
    BY DEF Tape!IInv, Tape!TypeOK
  <2>4. Tape!Stored \subseteq Tape!Trades /\ Tape!InHand \subseteq Tape!Trades
    BY StoredAreTrades DEF Tape!IInv
  <2>5. NTrades \in Nat /\ v1 \in Nat
    BY <2>3, TapeInOrder
  <2> QED BY <2>1, <2>2, <2>3, <2>4, <2>5
<1>2. CASE Tape!FetchSeed
  <2>1. /\ v6' = IF v1 = 0 THEN {} ELSE {v1}
        /\ v4' = "flush" /\ v5' = v5
        /\ (v8 \/ Tape!Stored = {}) /\ \A s \in Tape!Stored : s < v1
    BY <1>2 DEF Tape!FetchSeed, Tape!IInv, Tape!Ahead
  <2>2. Tape!TypeOK'
    BY <1>1, <2>1 DEF Tape!IInv, Tape!TypeOK
  <2>3. Tape!Placed'
    BY <1>1, <1>2, <2>1 DEF Tape!IInv, Tape!Placed, Tape!FetchSeed, Tape!Ahead
  <2>4. ~v8 => Tape!NoHole(Tape!InHand')
    <3>1. ~v8 => Tape!InHand' = {} \/ Tape!InHand' = {v1}
      BY <1>1, <2>1 DEF Tape!InHand
    <3> QED BY <1>1, <3>1, TapeInOrder DEF Tape!NoHole
  <2> QED BY <1>1, <2>1, <2>2, <2>3, <2>4 DEF Tape!IInv, Tape!Ahead, Tape!TapeFollowed,
         Tape!TapeOnce, Tape!TapeWhole, Tape!NoHole
<1>3. CASE Tape!FetchPage
  <2> DEFINE page == {t \in v5 .. v1 : t < v5 + TapePage}
             full == Tape!Cardinality(page) = TapePage
  <2>1. /\ v5 # 0 /\ v6' = v6 \union page
        /\ v5' = IF full THEN Tape!Max(page) + 1 ELSE v5
        /\ v4' = IF full THEN "fetch" ELSE "flush"
    BY <1>3 DEF Tape!FetchPage
  <2>2. /\ \A t \in Tape!InHand : t < v5
        /\ ~v8 => \A a \in Tape!InHand, t \in Tape!Trades : a < t /\ t < v5 => t \in Tape!InHand
    BY <1>1, <2>1 DEF Tape!IInv, Tape!Ahead
  <2>3. /\ \A t \in page : t \in Nat /\ v5 <= t /\ t <= v1 /\ t < v5 + TapePage
        /\ \A t \in Tape!Trades : v5 <= t /\ t <= v1 /\ t < v5 + TapePage => t \in page
        /\ page \subseteq 1 .. v1 /\ page \in SUBSET (0 .. v1) /\ page \subseteq Tape!Trades
        /\ TapePage \in Nat \ {0}
    <3>1. TapePage \in Nat \ {0} /\ NTrades \in Nat /\ v5 \in Nat /\ 1 <= v5
      BY <1>1, <2>1, TapeConstants
    <3>2. \A t \in page : t \in Nat /\ v5 <= t /\ t <= v1 /\ t < v5 + TapePage
      BY <1>1, <3>1
    <3>3. \A t \in page : t \in 1 .. v1 /\ t \in 0 .. v1 /\ t \in Tape!Trades
      BY <1>1, <3>1, <3>2 DEF Tape!Trades
    <3>4. \A t \in Tape!Trades : v5 <= t /\ t <= v1 /\ t < v5 + TapePage => t \in page
      BY <1>1, <3>1 DEF Tape!Trades
    <3> QED BY <3>1, <3>2, <3>3, <3>4
  <2>4. full => /\ page # {} /\ Tape!Max(page) \in page /\ \A t \in page : t <= Tape!Max(page)
    <3>1. full => page # {}
      BY <2>3, TapeCardinality, FS_EmptySet
    <3> QED BY <1>1, <2>3, <3>1, TapeMaxOf
  <2> HIDE DEF page, full
  <2>5. Tape!InHand' = Tape!InHand \union page
    BY <1>1, <2>1 DEF Tape!InHand
  <2>6. v5' \in 0 .. NTrades + 1 /\ v5' # 0 /\ v5 <= v5'
    <3>1. CASE full
      <4>1. v5' = Tape!Max(page) + 1 /\ Tape!Max(page) \in page
        BY <2>1, <2>4, <3>1
      <4>2. Tape!Max(page) \in Nat /\ v5 <= Tape!Max(page) /\ Tape!Max(page) <= v1
        BY <2>3, <4>1
      <4> QED BY <1>1, <4>1, <4>2, TapeInOrder
    <3>2. CASE ~full
      BY <1>1, <2>1, <3>2, TapeInOrder
    <3> QED BY <3>1, <3>2
  <2>7. Tape!TypeOK'
    BY <1>1, <2>1, <2>3, <2>6 DEF Tape!IInv, Tape!TypeOK
  <2>8. ASSUME NEW t \in page, NEW s \in Tape!Stored PROVE s < t
    BY <1>1, <2>2, <2>3, <2>8, TapeInOrder DEF Tape!InHand
  <2>9. Tape!Placed'
    BY <1>1, <2>1, <2>8 DEF Tape!IInv, Tape!Placed
  (* Nothing below the last of the page is left out.                        *)
  <2>10. ASSUME ~v8, NEW a \in Tape!InHand', NEW t \in Tape!Trades, a < t,
                NEW b \in Tape!InHand', t < b
         PROVE  t \in Tape!InHand'
    <3>1. CASE t < v5
      <4>1. a \in Tape!InHand
        BY <1>1, <2>3, <2>5, <2>10, <3>1, TapeInOrder
      <4> QED BY <2>2, <2>5, <2>10, <3>1, <4>1
    <3>2. CASE ~(t < v5)
      <4>1. b \in page
        BY <1>1, <2>2, <2>5, <2>10, <3>2, TapeInOrder
      <4>2. t \in page
        BY <1>1, <2>3, <2>10, <3>2, <4>1, TapeInOrder
      <4> QED BY <2>5, <4>2
    <3> QED BY <3>1, <3>2
  <2>11. (v8 \/ Tape!NoHole(Tape!InHand))'
    BY <1>1, <2>10 DEF Tape!NoHole
  <2>12. Tape!Ahead'
    <3>1. CASE ~full
      BY <2>1, <3>1 DEF Tape!Ahead
    <3>2. CASE full
      <4>1. v5' = Tape!Max(page) + 1 /\ Tape!Max(page) \in page /\ Tape!Max(page) \in Nat
        BY <2>1, <2>3, <2>4, <3>2
      <4>2. \A t \in Tape!InHand' : t < v5'
        BY <1>1, <2>2, <2>3, <2>4, <2>5, <3>2, <4>1, TapeInOrder
      <4>3. ASSUME ~v8, NEW a \in Tape!InHand', NEW t \in Tape!Trades, a < t, t < v5'
            PROVE  t \in Tape!InHand'
        <5>1. t = Tape!Max(page) \/ t < Tape!Max(page)
          BY <4>1, <4>3, TapeInOrder
        <5> QED BY <2>5, <2>10, <4>1, <4>3, <5>1
      <4> QED BY <1>1, <2>6, <4>2, <4>3 DEF Tape!Ahead
    <3> QED BY <3>1, <3>2
  <2> QED BY <1>1, <2>7, <2>9, <2>11, <2>12 DEF Tape!IInv, Tape!TapeFollowed, Tape!TapeOnce,
         Tape!TapeWhole
<1> QED BY <1>2, <1>3

LEMMA DirMade ==
  ASSUME Tape!IInv, NEW h, Tape!MakeDir(h)
  PROVE  Tape!IInv'
<1>1. Tape!Stored' = Tape!Stored /\ Tape!InHand' = Tape!InHand
  BY DEF Tape!MakeDir, Tape!Stored, Tape!InHand, Tape!pass
<1>2. PICK t \in v6 : Tape!HourOf(t) = h
  BY DEF Tape!MakeDir, Tape!Groups
<1>3. t \in 1 .. v1 /\ t \in Tape!Trades /\ h \div TapeHoursPerDay = Tape!DayOf(t)
  BY <1>2, StoredAreTrades DEF Tape!IInv, Tape!TypeOK, Tape!DayOf
<1>4. Tape!TypeOK'
  BY <1>3 DEF Tape!IInv, Tape!TypeOK, Tape!MakeDir, Tape!pass
<1>5. Tape!Placed'
  BY <1>1, <1>3 DEF Tape!IInv, Tape!Placed, Tape!MakeDir, Tape!pass
<1> QED BY <1>1, <1>4, <1>5 DEF Tape!IInv, Tape!MakeDir, Tape!pass, Tape!NoHole, Tape!Ahead,
       Tape!TapeFollowed, Tape!TapeOnce, Tape!TapeWhole

LEMMA PartWritten ==
  ASSUME Tape!IInv, NEW h, Tape!WritePart(h)
  PROVE  Tape!IInv'
<1> DEFINE rows == {t \in v6 : Tape!HourOf(t) = h}
<1>1. /\ UNCHANGED <<v1, v2, v4, v5, v7, v8>> /\ v4 = "flush"
      /\ h \in Tape!Groups /\ h \div TapeHoursPerDay \in v2
      /\ v6' = v6 \ rows
      /\ v3' = [t \in Tape!Trades |-> IF t \in rows THEN v3[t] + 1 ELSE v3[t]]
  BY DEF Tape!WritePart
<1>2. v6 \subseteq Tape!Trades /\ Tape!Stored \subseteq Tape!Trades /\ v3 \in [Tape!Trades -> 0 .. 2]
      /\ v6 \subseteq 1 .. v1
  BY StoredAreTrades DEF Tape!IInv, Tape!TypeOK
<1>3. \A t \in Tape!Trades : t \in Tape!Stored <=> v3[t] # 0
  BY <1>2 DEF Tape!Stored
<1>4. \A t \in rows : v3[t] = 0
  <2>1. \A t \in rows : t \in v6 /\ t \in Tape!Trades /\ t \in Nat /\ t \notin Tape!Stored
    BY <1>2, TapeInOrder DEF Tape!IInv, Tape!Placed
  <2> QED BY <1>3, <2>1
<1>5. \A t \in Tape!Trades : v3'[t] = IF t \in rows THEN 1 ELSE v3[t]
  BY <1>1, <1>2, <1>4
<1> HIDE DEF rows
<1>6. Tape!Stored' = Tape!Stored \union rows /\ rows \subseteq v6
  <2>1. rows \subseteq v6 /\ rows \subseteq Tape!Trades
    BY <1>2 DEF rows
  <2>2. Tape!Stored' = {t \in Tape!Trades : v3'[t] > 0}
    BY DEF Tape!Stored
  <2>3. \A t \in Tape!Trades : v3'[t] > 0 <=> t \in rows \/ v3[t] > 0
    BY <1>2, <1>4, <1>5
  <2> QED BY <2>1, <2>2, <2>3 DEF Tape!Stored
<1>7. Tape!InHand' = Tape!InHand
  BY <1>1, <1>6 DEF Tape!InHand
<1>8. \A t \in v6, b \in rows : ~(Tape!HourOf(t) < Tape!HourOf(b)) /\ (Tape!HourOf(t) = Tape!HourOf(b) => t \in rows)
  <2> DEFINE H == {Tape!HourOf(t) : t \in v6}
  <2>1. H \in SUBSET Nat /\ h \in H /\ h = Tape!Min(H)
    BY <1>1, <1>2, TapeInOrder DEF Tape!Groups
  <2>2. \A g \in H : Tape!Min(H) <= g
    <3> HIDE DEF H
    <3> QED BY <2>1, LeastOf DEF Tape!Min
  <2>3. \A t \in v6 : h <= Tape!HourOf(t) /\ Tape!HourOf(t) \in Nat
    BY <1>2, <2>1, <2>2, TapeInOrder
  <2>4. \A b \in rows : Tape!HourOf(b) = h
    BY DEF rows
  <2> QED BY <2>1, <2>3, <2>4 DEF rows
<1>9. ASSUME NEW t \in v6, t \notin rows, NEW b \in rows PROVE b < t
  <2>1. Tape!HourOf(t) \in Nat /\ Tape!HourOf(b) \in Nat /\ t \in Tape!Trades /\ b \in Tape!Trades
    BY <1>2, <1>6, TapeInOrder
  <2>2. ~(Tape!HourOf(t) <= Tape!HourOf(b))
    BY <1>8, <1>9, <2>1
  <2>3. ~(t <= b)
    BY <2>1, <2>2, TapeInOrder
  <2> QED BY <2>1, <2>3, TapeInOrder
<1>10. Tape!TypeOK'
  <2>1. v3' \in [Tape!Trades -> 0 .. 2]
    <3>1. \A t \in Tape!Trades : (IF t \in rows THEN v3[t] + 1 ELSE v3[t]) \in 0 .. 2
      BY <1>2, <1>4
    <3> QED BY <1>1, <3>1
  <2> QED BY <1>1, <2>1 DEF Tape!IInv, Tape!TypeOK
<1>11. \A t \in rows : t <= v1 /\ Tape!DayOf(t) \in v2
  BY <1>1, <1>2, <1>6 DEF Tape!DayOf, rows
<1>12. Tape!Placed'
  BY <1>1, <1>6, <1>9, <1>11 DEF Tape!IInv, Tape!Placed
<1>13. Tape!TapeOnce'
  BY <1>5 DEF Tape!IInv, Tape!TapeFollowed, Tape!TapeOnce
<1>14. ASSUME ~v8, NEW t \in Tape!Trades, NEW a \in Tape!Stored', NEW b \in Tape!Stored', a < t, t < b
       PROVE  t \in Tape!Stored'
  <2>1. t \in Tape!InHand
    BY <1>6, <1>7, <1>14 DEF Tape!IInv, Tape!NoHole, Tape!InHand
  <2>2. CASE t \in v6 /\ t \notin rows
    <3>1. b < t
      BY <1>6, <1>9, <2>2 DEF Tape!IInv, Tape!Placed
    <3> QED BY <1>2, <1>6, <1>14, <3>1, TapeInOrder
  <2> QED BY <1>6, <2>1, <2>2 DEF Tape!InHand
<1>15. Tape!TapeWhole'
  BY <1>1, <1>14 DEF Tape!TapeWhole
<1> QED BY <1>1, <1>7, <1>10, <1>12, <1>13, <1>15 DEF Tape!IInv, Tape!NoHole, Tape!Ahead,
       Tape!TapeFollowed

LEMMA PassEnds ==
  ASSUME Tape!IInv, Tape!Finish \/ Tape!Die
  PROVE  Tape!IInv'
<1>1. /\ UNCHANGED <<v1, v2, v3, v8>> /\ Tape!Stored' = Tape!Stored /\ v6' = {} /\ v4' = "idle"
      /\ v5' = 0 /\ v7' \in 0 .. TapeDeaths
  <2>1. TapeDeaths \in Nat /\ v7 \in 0 .. TapeDeaths
    BY TapeConstants DEF Tape!IInv, Tape!TypeOK
  <2>2. /\ UNCHANGED <<v1, v2, v3, v8>> /\ v4' = "idle" /\ v6' = {} /\ v5' = 0
        /\ v7' = v7 \/ (v7 < TapeDeaths /\ v7' = v7 + 1)
    BY DEF Tape!Finish, Tape!Die
  <2>3. Tape!Stored' = Tape!Stored
    BY <2>2 DEF Tape!Stored
  <2> QED BY <2>1, <2>2, <2>3
<1>2. Tape!TypeOK'
  BY <1>1, TapeInOrder DEF Tape!IInv, Tape!TypeOK
<1>3. Tape!InHand' = Tape!Stored /\ (v8 \/ Tape!NoHole(Tape!Stored))
  BY <1>1 DEF Tape!InHand, Tape!IInv, Tape!TapeFollowed, Tape!TapeWhole, Tape!NoHole
<1> QED BY <1>1, <1>2, <1>3 DEF Tape!IInv, Tape!Placed, Tape!Ahead, Tape!TapeFollowed,
       Tape!TapeOnce, Tape!TapeWhole, Tape!NoHole

LEMMA TradeMade ==
  ASSUME Tape!IInv, Tape!Trade
  PROVE  Tape!IInv'
<1>1. /\ v1 \in Nat /\ v1 < NTrades /\ v1' = v1 + 1 /\ NTrades \in Nat
      /\ UNCHANGED <<v2, v3, Tape!pass, v7, v8>> /\ Tape!Stored' = Tape!Stored /\ Tape!InHand' = Tape!InHand
      /\ Tape!Stored \subseteq Tape!Trades /\ v6 \subseteq 1 .. v1
  BY TapeInOrder, StoredAreTrades DEF Tape!Trade, Tape!IInv, Tape!TypeOK, Tape!Stored,
     Tape!InHand, Tape!pass
<1>2. v1' \in 0 .. NTrades /\ 1 .. v1 \subseteq 1 .. v1'
      /\ \A s \in Tape!Trades : s <= v1 => s <= v1' /\ s < v1'
  BY <1>1, TapeInOrder
<1>3. Tape!TypeOK'
  BY <1>1, <1>2 DEF Tape!IInv, Tape!TypeOK, Tape!pass
<1>4. Tape!Placed'
  BY <1>1, <1>2 DEF Tape!IInv, Tape!Placed, Tape!pass
<1>5. Tape!Ahead'
  BY <1>1, <1>2 DEF Tape!IInv, Tape!Placed, Tape!Ahead, Tape!pass
<1> QED BY <1>1, <1>3, <1>4, <1>5 DEF Tape!IInv, Tape!NoHole, Tape!TapeFollowed, Tape!TapeOnce,
       Tape!TapeWhole, Tape!pass

LEMMA TapeStutters == Tape!IInv /\ UNCHANGED Tape!vars => Tape!IInv'
BY DEF Tape!IInv, Tape!vars, Tape!pass, Tape!TypeOK, Tape!Placed, Tape!Stored, Tape!InHand,
   Tape!NoHole, Tape!Ahead, Tape!TapeFollowed, Tape!TapeOnce, Tape!TapeWhole

(* Each step of the poller, over any passes and deaths, keeps the invariant *)
(* (scripts/collect_trades_binance_us.py).                                 *)
THEOREM TapeStep ==
  ASSUME Tape!IInv, Tape!Next
  PROVE  Tape!IInv'
<1>1. CASE Tape!Trade
  BY <1>1, TradeMade
<1>2. CASE Tape!Begin
  BY <1>2, PassBegins
<1>3. CASE Tape!FetchSeed \/ Tape!FetchPage
  BY <1>3, PassFetches
<1>4. ASSUME NEW h, Tape!MakeDir(h) \/ Tape!WritePart(h) PROVE Tape!IInv'
  BY <1>4, DirMade, PartWritten
<1>5. CASE Tape!Finish \/ Tape!Die
  BY <1>5, PassEnds
<1> QED BY <1>1, <1>2, <1>3, <1>4, <1>5 DEF Tape!Next
-----------------------------------------------------------------------------
(* The pull of the public archive (BinanceArchive).                        *)
LEMMA PullConstants ==
  Periods # {} /\ Chunks # {} /\ MaxKills \in Nat /\ ArchiveNoise \in Nat
BY CollectorsAssumption

Pulls == [step : {"idle", "sum", "zip", "read", "file", "mark"},
          period : Periods, sum : BOOLEAN, good : BOOLEAN, landed : SUBSET Chunks]

LEMMA NoTaskIsOne == Binance!NoTask \in Pulls /\ Binance!NoTask.step = "idle" /\ Binance!NoTask.landed = {}
BY PullConstants DEF Binance!NoTask, Pulls

LEMMA PullStarts == Binance!Init => Binance!IInv
<1> SUFFICES ASSUME Binance!Init PROVE Binance!IInv
  OBVIOUS
<1>1. \A w \in Workers : v4[w] = Binance!NoTask /\ v4[w].step = "idle" /\ v4[w].landed = {}
  BY NoTaskIsOne DEF Binance!Init
<1>2. Binance!TypeOK
  BY NoTaskIsOne, PullConstants DEF Binance!Init, Binance!TypeOK, Pulls, Binance!Statuses
<1>3. Binance!OneEach /\ Binance!FiledIsKnown /\ Binance!UnverifiedIsKnown /\ Binance!PulledOnce
  BY <1>1 DEF Binance!Init, Binance!OneEach, Binance!Busy, Binance!At, Binance!FiledIsKnown,
     Binance!UnverifiedIsKnown, Binance!PulledOnce
<1> QED BY <1>2, <1>3 DEF Binance!IInv

(* What one worker's step does to its task, and leaves of the others'.      *)
LEMMA TaskReplaced ==
  ASSUME Binance!TypeOK, NEW w \in Workers, NEW task \in Pulls, Binance!Goes(w, task)
  PROVE  /\ v4' \in [Workers -> Pulls] /\ v4'[w] = task
         /\ \A v \in Workers : v # w => v4'[v] = v4[v]
BY DEF Binance!TypeOK, Binance!Goes, Pulls

LEMMA TaskDone ==
  ASSUME Binance!TypeOK, NEW w \in Workers, Binance!Done(w)
  PROVE  /\ v4' \in [Workers -> Pulls] /\ v4'[w].step = "idle" /\ v4'[w].landed = {}
         /\ \A v \in Workers : v # w => v4'[v] = v4[v]
BY NoTaskIsOne DEF Binance!TypeOK, Binance!Done, Pulls

(* A worker ends its task: with a marker, without one and no row filed, or  *)
(* without one and the period told as torn.                                *)
LEMMA PullEnds ==
  ASSUME Binance!IInv, NEW w \in Workers, Binance!Busy(w), Binance!Done(w),
         UNCHANGED <<Binance!remote, v3, v5, v7, v10, v11>>, v8' \in 0 .. ArchiveNoise,
         v9 \subseteq v9', v9' \subseteq Periods,
         \/ UNCHANGED v6 /\ (v4[w].landed = {} \/ v4[w].period \in v9')
         \/ \E s \in {"missing", "empty"} : v6' = [v6 EXCEPT ![v4[w].period] = s]
         \/ v4[w].landed = Chunks /\ v6' = [v6 EXCEPT ![v4[w].period] = "written"]
  PROVE  Binance!IInv'
<1> DEFINE p == v4[w].period
<1>1. Binance!TypeOK /\ p \in Periods
  BY DEF Binance!IInv, Binance!TypeOK
<1>2. /\ v4' \in [Workers -> Pulls] /\ v4'[w].step = "idle" /\ v4'[w].landed = {}
      /\ \A v \in Workers : v # w => v4'[v] = v4[v]
  BY <1>1, TaskDone
<1>3. v6[p] = "none" /\ \A c \in v4[w].landed : v5[p][c] >= 1
  BY <1>1 DEF Binance!IInv, Binance!FiledIsKnown
<1>4. /\ v6' \in [Periods -> Binance!Statuses]
      /\ \A q \in Periods : q # p => v6'[q] = v6[q]
      /\ v6'[p] = "written" => v4[w].landed = Chunks
      /\ v4[w].landed = {} \/ p \in v9' \/ v6'[p] # "none"
  BY <1>1, <1>3 DEF Binance!TypeOK, Binance!Statuses
<1>5. Binance!TypeOK'
  BY <1>1, <1>2, <1>4 DEF Binance!TypeOK, Binance!remote, Pulls
<1>6. Binance!OneEach'
  BY <1>1, <1>2 DEF Binance!IInv, Binance!OneEach, Binance!Busy, Binance!At
<1>7. \A v \in Workers : v # w /\ Binance!Busy(v) => v4[v].period # p
  BY <1>1 DEF Binance!IInv, Binance!OneEach
<1>8. Binance!FiledIsKnown'
  <2>1. ASSUME NEW q \in Periods, NEW c \in Chunks, v5'[q][c] >= 1
        PROVE  (q \in v9 \/ v6[q] # "none" \/ Binance!Filing(q, c))'
    <3>1. q \in v9 \/ v6[q] # "none" \/ Binance!Filing(q, c)
      BY <2>1 DEF Binance!IInv, Binance!FiledIsKnown
    <3>2. CASE q \in v9
      BY <3>2
    <3>3. CASE v6[q] # "none"
      BY <3>3, <1>3, <1>4
    <3>4. CASE Binance!Filing(q, c)
      <4>1. PICK v \in Workers : v4[v].period = q /\ c \in v4[v].landed
        BY <3>4 DEF Binance!Filing
      <4>2. CASE v = w
        BY <4>1, <4>2, <1>4
      <4>3. CASE v # w
        BY <4>1, <4>3, <1>2 DEF Binance!Filing
      <4> QED BY <4>2, <4>3
    <3> QED BY <3>1, <3>2, <3>3, <3>4
  <2>2. \A v \in Workers : Binance!Busy(v)' => v # w /\ Binance!Busy(v) /\ v4'[v].period = v4[v].period
    BY <1>2 DEF Binance!Busy, Binance!At
  <2>3. \A v \in Workers : Binance!Busy(v)' => v6'[v4'[v].period] = "none"
    BY <2>2, <1>1, <1>4, <1>7 DEF Binance!IInv, Binance!FiledIsKnown, Binance!TypeOK
  <2>4. \A v \in Workers : /\ \A c \in v4'[v].landed : v5'[v4'[v].period][c] >= 1
                           /\ v4'[v].landed # {} => v4'[v].step \in {"file", "mark"}
                           /\ v4'[v].step = "mark" => v4'[v].landed = Chunks
    BY <1>2 DEF Binance!IInv, Binance!FiledIsKnown, Binance!At
  <2> QED BY <2>1, <2>3, <2>4 DEF Binance!FiledIsKnown, Binance!At
<1>9. Binance!UnverifiedIsKnown'
  BY <1>2 DEF Binance!IInv, Binance!UnverifiedIsKnown
<1>10. Binance!PulledOnce'
  <2>1. \A q \in Periods, c \in Chunks : v5'[q][c] <= 1 \/ q \in v9'
    BY DEF Binance!IInv, Binance!PulledOnce
  <2>2. ASSUME NEW q \in Periods, NEW c \in Chunks, v6'[q] = "written" PROVE v5'[q][c] >= 1
    <3>1. CASE q = p
      BY <2>2, <3>1, <1>3, <1>4
    <3>2. CASE q # p
      BY <2>2, <3>2, <1>4 DEF Binance!IInv, Binance!PulledOnce
    <3> QED BY <3>1, <3>2
  <2> QED BY <2>1, <2>2 DEF Binance!IInv, Binance!PulledOnce
<1> QED BY <1>5, <1>6, <1>8, <1>9, <1>10 DEF Binance!IInv

(* A worker goes on with the period it has in hand, and files nothing.      *)
LEMMA PullGoesOn ==
  ASSUME Binance!IInv, NEW w \in Workers, Binance!Busy(w), NEW task \in Pulls, Binance!Goes(w, task),
         task.period = v4[w].period, task.step # "idle", task.landed = v4[w].landed,
         task.landed # {} => task.step \in {"file", "mark"},
         task.step = "mark" => task.landed = Chunks,
         task.step # "sum" /\ ~task.sum => task.period \in v11',
         task.sum => task.good,
         v11 \subseteq v11', v11' \subseteq Periods, v8' \in 0 .. ArchiveNoise,
         UNCHANGED <<Binance!remote, v3, v5, v6, v7, v9, v10>>
  PROVE  Binance!IInv'
<1>1. Binance!TypeOK
  BY DEF Binance!IInv
<1>2. /\ v4' \in [Workers -> Pulls] /\ v4'[w] = task
      /\ \A v \in Workers : v # w => v4'[v] = v4[v]
  BY <1>1, TaskReplaced
<1>3. Binance!TypeOK'
  BY <1>1, <1>2 DEF Binance!TypeOK, Binance!remote, Pulls
<1>4. \A v \in Workers : /\ Binance!Busy(v)' <=> Binance!Busy(v)
                         /\ v4'[v].period = v4[v].period /\ v4'[v].landed = v4[v].landed
  BY <1>2 DEF Binance!Busy, Binance!At
<1>5. Binance!OneEach'
  BY <1>4 DEF Binance!IInv, Binance!OneEach
<1>6. Binance!FiledIsKnown'
  <2>1. \A q, c : Binance!Filing(q, c)' <=> Binance!Filing(q, c)
    BY <1>4 DEF Binance!Filing
  <2>2. \A v \in Workers : /\ v4'[v].landed # {} => v4'[v].step \in {"file", "mark"}
                           /\ v4'[v].step = "mark" => v4'[v].landed = Chunks
    BY <1>2 DEF Binance!IInv, Binance!FiledIsKnown, Binance!At
  <2> QED BY <1>4, <2>1, <2>2 DEF Binance!IInv, Binance!FiledIsKnown, Binance!At
<1>7. Binance!UnverifiedIsKnown'
  BY <1>2 DEF Binance!IInv, Binance!UnverifiedIsKnown
<1>8. Binance!PulledOnce'
  BY DEF Binance!IInv, Binance!PulledOnce
<1> QED BY <1>3, <1>5, <1>6, <1>7, <1>8 DEF Binance!IInv

LEMMA PullTakes ==
  ASSUME Binance!IInv, NEW w \in Workers, NEW p \in Periods, Binance!Take(w, p)
  PROVE  Binance!IInv'
<1>1. Binance!TypeOK /\ ~Binance!Busy(w) /\ p \in v3
  BY DEF Binance!IInv, Binance!Take, Binance!Busy
<1>2. /\ v4' \in [Workers -> Pulls]
      /\ \A v \in Workers : v # w => v4'[v] = v4[v]
      /\ \/ v4'[w] = v4[w]
         \/ v6[p] = "none" /\ v4'[w] = Binance!Task("sum", p, FALSE, TRUE)
  <2>1. CASE UNCHANGED v4
    BY <2>1, <1>1 DEF Binance!TypeOK, Pulls
  <2>2. CASE v6[p] = "none" /\ Binance!Goes(w, Binance!Task("sum", p, FALSE, TRUE))
    <3>1. Binance!Task("sum", p, FALSE, TRUE) \in Pulls
      BY DEF Binance!Task, Pulls
    <3> QED BY <2>2, <3>1, <1>1, TaskReplaced
  <2> QED BY <2>1, <2>2 DEF Binance!Take
<1>3. Binance!TypeOK'
  BY <1>1, <1>2 DEF Binance!TypeOK, Pulls, Binance!Take, Binance!remote, Binance!history
<1>4. \A v \in Workers : Binance!Busy(v)' => \/ Binance!Busy(v) /\ v4'[v] = v4[v] /\ v # w
                                             \/ v = w /\ v4'[v].period = p /\ v4'[v].step = "sum"
                                                /\ v6[p] = "none"
  BY <1>1, <1>2 DEF Binance!Busy, Binance!At, Binance!Task
<1>5. \A v \in Workers : Binance!Busy(v) => v4[v].period # p
  BY <1>1 DEF Binance!IInv, Binance!OneEach
<1>6. v3' = v3 \ {p}
  BY DEF Binance!Take
<1>7. Binance!OneEach'
  BY <1>4, <1>5, <1>6 DEF Binance!IInv, Binance!OneEach
<1>8. v4[w].landed = {} /\ v4'[w].landed = {} /\ v4'[w].step # "mark"
  BY <1>1, <1>2 DEF Binance!IInv, Binance!FiledIsKnown, Binance!Busy, Binance!At, Binance!Task
<1>9. Binance!FiledIsKnown'
  <2>1. \A q, c : Binance!Filing(q, c) => Binance!Filing(q, c)'
    BY <1>2, <1>8 DEF Binance!Filing
  <2>2. v5' = v5 /\ v6' = v6 /\ v9' = v9
    BY DEF Binance!Take, Binance!history
  <2>3. \A v \in Workers : Binance!Busy(v)' => v6'[v4'[v].period] = "none"
    BY <1>4, <2>2 DEF Binance!IInv, Binance!FiledIsKnown
  <2>4. \A v \in Workers : /\ \A c \in v4'[v].landed : v5'[v4'[v].period][c] >= 1
                           /\ v4'[v].landed # {} => v4'[v].step \in {"file", "mark"}
                           /\ v4'[v].step = "mark" => v4'[v].landed = Chunks
    BY <1>2, <1>8, <2>2 DEF Binance!IInv, Binance!FiledIsKnown, Binance!At
  <2> QED BY <2>1, <2>2, <2>3, <2>4 DEF Binance!IInv, Binance!FiledIsKnown, Binance!At
<1>10. Binance!UnverifiedIsKnown'
  BY <1>1, <1>2 DEF Binance!IInv, Binance!UnverifiedIsKnown, Binance!Take, Binance!history,
     Binance!Task, Binance!Busy, Binance!At
<1>11. Binance!PulledOnce'
  BY DEF Binance!IInv, Binance!PulledOnce, Binance!Take, Binance!history
<1> QED BY <1>3, <1>7, <1>9, <1>10, <1>11 DEF Binance!IInv

LEMMA PullFiles ==
  ASSUME Binance!IInv, NEW w \in Workers, NEW c \in Chunks, Binance!FileRows(w, c)
  PROVE  Binance!IInv'
<1> DEFINE p == v4[w].period
           task == [v4[w] EXCEPT !.landed = @ \union {c}]
<1>1. Binance!TypeOK /\ p \in Periods /\ Binance!Busy(w) /\ v4[w].step = "file" /\ c \notin v4[w].landed
  BY DEF Binance!IInv, Binance!TypeOK, Binance!FileRows, Binance!At, Binance!Busy
<1>2. /\ task \in Pulls /\ task.step = "file" /\ task.period = p
      /\ task.sum = v4[w].sum /\ task.good = v4[w].good /\ task.landed = v4[w].landed \union {c}
  BY <1>1 DEF Binance!TypeOK, Pulls
<1>3. v4' \in [Workers -> Pulls] /\ v4'[w] = task /\ \A v \in Workers : v # w => v4'[v] = v4[v]
  BY <1>1, <1>2, TaskReplaced DEF Binance!FileRows
<1>4. UNCHANGED <<Binance!remote, v3, v6, v7, v8, v9, v11>>
  BY DEF Binance!FileRows
<1> HIDE DEF task
<1>5. /\ v5' \in [Periods -> [Chunks -> Nat]] /\ v5'[p][c] = v5[p][c] + 1
      /\ \A q \in Periods, d \in Chunks : q # p \/ d # c => v5'[q][d] = v5[q][d]
      /\ \A q \in Periods, d \in Chunks : v5[q][d] \in Nat
  <2>1. v5' = [v5 EXCEPT ![p] = [v5[p] EXCEPT ![c] = v5[p][c] + 1]]
    BY DEF Binance!FileRows
  <2>2. v5 \in [Periods -> [Chunks -> Nat]]
    BY <1>1 DEF Binance!TypeOK
  <2>3. [v5[p] EXCEPT ![c] = v5[p][c] + 1] \in [Chunks -> Nat]
    BY <1>1, <2>2
  <2> QED BY <1>1, <2>1, <2>2, <2>3
<1>6. v10' \subseteq Periods /\ v10' \subseteq v11
  BY <1>1 DEF Binance!TypeOK, Binance!FileRows, Binance!IInv, Binance!UnverifiedIsKnown,
     Binance!PulledOnce
<1>7. Binance!TypeOK'
  BY <1>1, <1>3, <1>4, <1>5, <1>6 DEF Binance!TypeOK, Pulls, Binance!remote
<1>8. \A v \in Workers : (Binance!Busy(v)' <=> Binance!Busy(v)) /\ v4'[v].period = v4[v].period
                         /\ v4[v].landed \subseteq v4'[v].landed
  BY <1>1, <1>2, <1>3 DEF Binance!Busy, Binance!At
<1>9. Binance!OneEach'
  BY <1>4, <1>8 DEF Binance!IInv, Binance!OneEach
<1>10. ~Binance!Filing(p, c)
  <2>1. ASSUME NEW v \in Workers, v4[v].period = p, c \in v4[v].landed PROVE FALSE
    <3>1. Binance!Busy(v)
      BY <2>1 DEF Binance!IInv, Binance!FiledIsKnown, Binance!Busy, Binance!At
    <3> QED BY <1>1, <2>1, <3>1 DEF Binance!IInv, Binance!OneEach
  <2> QED BY <2>1 DEF Binance!Filing
<1>11. v5[p][c] = 0 \/ p \in v9
  <2>1. v6[p] = "none"
    BY <1>1 DEF Binance!IInv, Binance!FiledIsKnown
  <2> QED BY <1>1, <1>5, <1>10, <2>1 DEF Binance!IInv, Binance!FiledIsKnown
<1>12. Binance!FiledIsKnown'
  <2>1. \A q, d : Binance!Filing(q, d) => Binance!Filing(q, d)'
    BY <1>8 DEF Binance!Filing
  <2>3. ASSUME NEW q \in Periods, NEW d \in Chunks, v5'[q][d] >= 1
        PROVE  q \in v9' \/ v6'[q] # "none" \/ Binance!Filing(q, d)'
    <3>1. CASE q = p /\ d = c
      BY <1>2, <1>3, <3>1 DEF Binance!Filing
    <3>2. CASE q # p \/ d # c
      <4>1. q \in v9 \/ v6[q] # "none" \/ Binance!Filing(q, d)
        BY <1>5, <2>3, <3>2 DEF Binance!IInv, Binance!FiledIsKnown
      <4> QED BY <1>4, <2>1, <4>1
    <3> QED BY <3>1, <3>2
  <2>4. \A v \in Workers : Binance!Busy(v)' => v6'[v4'[v].period] = "none"
    BY <1>4, <1>8 DEF Binance!IInv, Binance!FiledIsKnown
  <2>5. ASSUME NEW v \in Workers, NEW d \in v4'[v].landed PROVE v5'[v4'[v].period][d] >= 1
    <3>1. d \in Chunks /\ v4'[v].period = v4[v].period /\ v4[v].period \in Periods
      BY <1>1, <1>3, <1>8 DEF Pulls, Binance!TypeOK
    <3>2. CASE v4[v].period = p /\ d = c
      BY <1>1, <1>5, <3>1, <3>2
    <3>3. CASE ~(v4[v].period = p /\ d = c)
      <4>1. d \in v4[v].landed
        BY <1>2, <1>3, <2>5, <3>3
      <4>2. v5[v4[v].period][d] >= 1
        BY <4>1 DEF Binance!IInv, Binance!FiledIsKnown
      <4> QED BY <1>5, <3>1, <3>3, <4>2
    <3> QED BY <3>2, <3>3
  <2>6. \A v \in Workers : /\ v4'[v].landed # {} => v4'[v].step \in {"file", "mark"}
                           /\ v4'[v].step = "mark" => v4'[v].landed = Chunks
    BY <1>2, <1>3 DEF Binance!IInv, Binance!FiledIsKnown, Binance!At
  <2> QED BY <2>3, <2>4, <2>5, <2>6 DEF Binance!FiledIsKnown, Binance!At
<1>13. Binance!UnverifiedIsKnown'
  BY <1>1, <1>2, <1>3, <1>4 DEF Binance!IInv, Binance!UnverifiedIsKnown
<1>14. Binance!PulledOnce'
  <2>1. \A q \in Periods, d \in Chunks : v5'[q][d] <= 1 \/ q \in v9
    BY <1>1, <1>5, <1>11 DEF Binance!IInv, Binance!PulledOnce
  <2>2. \A q \in Periods, d \in Chunks : v6[q] = "written" => v5'[q][d] >= 1
    BY <1>1, <1>5 DEF Binance!IInv, Binance!PulledOnce
  <2> QED BY <1>4, <1>6, <2>1, <2>2 DEF Binance!PulledOnce
<1> QED BY <1>7, <1>9, <1>12, <1>13, <1>14 DEF Binance!IInv

LEMMA PullKilled ==
  ASSUME Binance!IInv, Binance!Kill
  PROVE  Binance!IInv'
<1>1. Binance!TypeOK
  BY DEF Binance!IInv
<1>2. /\ v4' \in [Workers -> Pulls]
      /\ \A w \in Workers : v4'[w].step = "idle" /\ v4'[w].landed = {}
  BY NoTaskIsOne DEF Binance!Kill
<1>3. v9 \subseteq v9' /\ v9' \subseteq Periods
  BY <1>1 DEF Binance!TypeOK, Binance!Kill
<1>4. \A q \in Periods, c \in Chunks : Binance!Filing(q, c) => q \in v9'
  BY DEF Binance!Filing, Binance!Kill
<1>5. v7' \in 0 .. MaxKills
  BY <1>1, PullConstants DEF Binance!TypeOK, Binance!Kill
<1>6. Binance!TypeOK'
  BY <1>1, <1>2, <1>3, <1>5 DEF Binance!TypeOK, Pulls, Binance!Kill, Binance!remote
<1>7. Binance!OneEach' /\ Binance!UnverifiedIsKnown'
  BY <1>2 DEF Binance!OneEach, Binance!UnverifiedIsKnown, Binance!Busy, Binance!At
<1>8. Binance!FiledIsKnown'
  BY <1>2, <1>3, <1>4 DEF Binance!IInv, Binance!FiledIsKnown, Binance!Kill, Binance!Busy, Binance!At
<1>9. Binance!PulledOnce'
  BY <1>3 DEF Binance!IInv, Binance!PulledOnce, Binance!Kill
<1> QED BY <1>6, <1>7, <1>8, <1>9 DEF Binance!IInv

LEMMA PullStutters ==
  ASSUME Binance!IInv, v1' \subseteq Periods, v2' \subseteq Periods, v3' \subseteq Periods,
         UNCHANGED <<v4, v5, v6, v7, v8, Binance!history>>,
         v3' = v3 \/ \A w \in Workers : Binance!At(w, "idle")
  PROVE  Binance!IInv'
<1>1. Binance!TypeOK'
  BY DEF Binance!IInv, Binance!TypeOK, Binance!history
<1>2. Binance!OneEach'
  BY DEF Binance!IInv, Binance!OneEach, Binance!Busy, Binance!At
<1>3. Binance!FiledIsKnown' /\ Binance!UnverifiedIsKnown' /\ Binance!PulledOnce'
  BY DEF Binance!IInv, Binance!FiledIsKnown, Binance!UnverifiedIsKnown, Binance!PulledOnce,
     Binance!Filing, Binance!Busy, Binance!At, Binance!history
<1> QED BY <1>1, <1>2, <1>3 DEF Binance!IInv

(* Each step of the pull, of any periods, workers, kills and noise, keeps   *)
(* its invariant (scripts/backfill_binance_archive.py).                    *)
THEOREM PullStep ==
  ASSUME Binance!IInv, Binance!Next
  PROVE  Binance!IInv'
<1>1. ASSUME NEW p \in Periods, Binance!Publish(p)
      PROVE  Binance!IInv'
  BY <1>1, PullStutters DEF Binance!Publish, Binance!IInv, Binance!TypeOK, Binance!history
<1>2. ASSUME NEW w \in Workers, \E p \in Periods : Binance!Take(w, p)
      PROVE  Binance!IInv'
  BY <1>2, PullTakes
<1>3. ASSUME NEW w \in Workers, Binance!FetchSum(w)
      PROVE  Binance!IInv'
  <2> DEFINE task == Binance!Task("zip", v4[w].period, v4[w].period \in v2, TRUE)
  <2>1. v4[w] \in Pulls /\ v4[w].step = "sum" /\ Binance!Busy(w)
    BY <1>3 DEF Binance!IInv, Binance!TypeOK, Pulls, Binance!FetchSum, Binance!At, Binance!Busy
  <2>2. task \in Pulls /\ Binance!Goes(w, task)
    BY <2>1, <1>3 DEF Pulls, Binance!Task, Binance!FetchSum
  <2>3. /\ task.period = v4[w].period /\ task.step = "zip" /\ task.good = TRUE
        /\ task.sum = (v4[w].period \in v2) /\ task.landed = {} /\ v4[w].landed = {}
    BY <2>1 DEF Binance!Task, Binance!IInv, Binance!FiledIsKnown
  <2>4. /\ v11 \subseteq v11' /\ v11' \subseteq Periods
        /\ ~task.sum => v4[w].period \in v11'
    BY <1>3, <2>1, <2>3 DEF Binance!FetchSum, Binance!IInv, Binance!TypeOK, Pulls
  <2>5. v8' \in 0 .. ArchiveNoise /\ UNCHANGED <<Binance!remote, v3, v5, v6, v7, v9, v10>>
    BY <1>3 DEF Binance!FetchSum, Binance!IInv, Binance!TypeOK
  <2> HIDE DEF task
  <2> QED BY <2>1, <2>2, <2>3, <2>4, <2>5, PullGoesOn
<1>4. ASSUME NEW w \in Workers, Binance!Raises(w)
      PROVE  Binance!IInv'
  <2>1. v8' \in 0 .. ArchiveNoise /\ v9 \subseteq v9' /\ v9' \subseteq Periods
    BY <1>4, PullConstants DEF Binance!Raises, Binance!IInv, Binance!TypeOK
  <2>2. v4[w].landed = {} \/ v4[w].period \in v9'
    BY <1>4 DEF Binance!Raises
  <2> QED BY <1>4, <2>1, <2>2, PullEnds DEF Binance!Raises, Binance!Busy
<1>5. ASSUME NEW w \in Workers, Binance!ZipMissing(w) \/ Binance!NoRows(w) \/ Binance!Mark(w)
      PROVE  Binance!IInv'
  <2>1. v8' \in 0 .. ArchiveNoise /\ v9' = v9 /\ v9 \subseteq Periods
    BY <1>5 DEF Binance!ZipMissing, Binance!NoRows, Binance!Mark, Binance!history,
       Binance!IInv, Binance!TypeOK
  <2>2. Binance!Busy(w) /\ (v4[w].step = "mark" => v4[w].landed = Chunks)
    BY <1>5 DEF Binance!ZipMissing, Binance!NoRows, Binance!Mark, Binance!At, Binance!Busy,
       Binance!IInv, Binance!FiledIsKnown
  <2> QED BY <1>5, <2>1, <2>2, PullEnds DEF Binance!ZipMissing, Binance!NoRows,
         Binance!Mark, Binance!At, Binance!history
<1>6. ASSUME NEW w \in Workers, NEW good \in BOOLEAN, Binance!FetchZip(w, good)
      PROVE  Binance!IInv'
  <2>1. v4[w] \in Pulls /\ v4[w].step = "zip" /\ Binance!Busy(w)
    BY <1>6 DEF Binance!IInv, Binance!TypeOK, Pulls, Binance!FetchZip, Binance!At, Binance!Busy
  <2>2. v8' \in 0 .. ArchiveNoise
    BY <1>6, PullConstants DEF Binance!FetchZip, Binance!IInv, Binance!TypeOK
  <2>2a. v4[w].landed = {}
    BY <2>1 DEF Binance!IInv, Binance!FiledIsKnown
  <2>3. CASE Binance!Rejects(v4[w].sum, good)
    <3>1. v9' = v9 /\ v9 \subseteq Periods
      BY <1>6 DEF Binance!FetchZip, Binance!history, Binance!IInv, Binance!TypeOK
    <3> QED BY <1>6, <2>1, <2>2, <2>2a, <2>3, <3>1, PullEnds DEF Binance!FetchZip, Binance!history
  <2>4. CASE ~Binance!Rejects(v4[w].sum, good)
    <3> DEFINE task == Binance!Task("read", v4[w].period, v4[w].sum, good)
    <3>1. task \in Pulls /\ Binance!Goes(w, task)
      BY <1>6, <2>1, <2>4 DEF Binance!FetchZip, Binance!Task, Pulls
    <3>2. task.period = v4[w].period /\ task.step = "read" /\ task.good = good /\ task.sum = v4[w].sum
          /\ task.landed = {}
      BY DEF Binance!Task
    <3>3. /\ v11 \subseteq v11' /\ v11' \subseteq Periods
          /\ ~task.sum => v4[w].period \in v11'
          /\ task.sum => task.good
      BY <1>6, <2>1, <2>4, <3>2 DEF Binance!FetchZip, Binance!IInv, Binance!TypeOK,
         Binance!UnverifiedIsKnown, Binance!history, Binance!Rejects
    <3>4. UNCHANGED <<Binance!remote, v3, v5, v6, v7, v9, v10>>
      BY <1>6 DEF Binance!FetchZip, Binance!history
    <3> HIDE DEF task
    <3> QED BY <2>1, <2>2, <2>2a, <3>1, <3>2, <3>3, <3>4, PullGoesOn
  <2> QED BY <2>3, <2>4
<1>7. ASSUME NEW w \in Workers, NEW to \in {"file", "mark"}, v4[w].step \in {"read", "file"},
             to = "mark" => v4[w].landed = Chunks, Binance!Goes(w, [v4[w] EXCEPT !.step = to]),
             UNCHANGED <<Binance!remote, v3, v5, v6, v7, v8, Binance!history>>
      PROVE  Binance!IInv'
  <2> DEFINE task == [v4[w] EXCEPT !.step = to]
  <2>1. v4[w] \in Pulls /\ Binance!Busy(w)
    BY <1>7 DEF Binance!IInv, Binance!TypeOK, Pulls, Binance!At, Binance!Busy
  <2>2. /\ task \in Pulls /\ task.step = to /\ task.period = v4[w].period
        /\ task.sum = v4[w].sum /\ task.good = v4[w].good /\ task.landed = v4[w].landed
    BY <2>1 DEF Pulls
  <2>3. /\ v11' = v11 /\ v11 \subseteq Periods /\ v8' \in 0 .. ArchiveNoise
        /\ ~task.sum => task.period \in v11
        /\ task.sum => task.good
    BY <1>7, <2>1, <2>2 DEF Binance!IInv, Binance!TypeOK, Binance!UnverifiedIsKnown, Binance!history
  <2>4. Binance!Goes(w, task) /\ UNCHANGED <<Binance!remote, v3, v5, v6, v7, v9, v10>>
    BY <1>7 DEF Binance!history
  <2>5. task.step \in {"file", "mark"} /\ (task.step = "mark" => task.landed = Chunks)
    BY <1>7, <2>1, <2>2
  <2> HIDE DEF task
  <2> QED BY <2>1, <2>2, <2>3, <2>4, <2>5, PullGoesOn
<1>8. ASSUME NEW w \in Workers, Binance!Read(w) \/ Binance!Compact(w)
      PROVE  Binance!IInv'
  BY <1>7, <1>8 DEF Binance!Read, Binance!Compact, Binance!RowsLanded, Binance!At
<1>9. ASSUME NEW w \in Workers, NEW c \in Chunks, Binance!FileRows(w, c)
      PROVE  Binance!IInv'
  BY <1>9, PullFiles
<1>10. CASE Binance!Kill
  BY <1>10, PullKilled
<1>11. CASE Binance!Rerun
  BY <1>11, PullStutters DEF Binance!Rerun, Binance!IInv, Binance!TypeOK, Binance!remote
<1> QED BY <1>1, <1>2, <1>3, <1>4, <1>5, <1>6, <1>8, <1>9, <1>10, <1>11 DEF Binance!Next
-----------------------------------------------------------------------------
(* The paid pull of order-book hours (ChdPull).                            *)
LEMMA ChdConstants ==
  /\ ChdHours # {} /\ MaxRetries \in Nat /\ MaxTokens \in Nat
  /\ MaxRevokes \in Nat /\ ChdNoise \in Nat
BY CollectorsAssumption

Downloads == [step : {"idle", "token", "return", "post", "ask", "refused"}, hour : ChdHours,
              attempt : 0 .. MaxRetries, bearer : 0 .. MaxTokens]

LEMMA NoWorkIsOne == Chd!NoWork \in Downloads /\ Chd!NoWork.step = "idle"
BY ChdConstants DEF Chd!NoWork, Chd!AnHour, Downloads

LEMMA DownloadStarts == Chd!Init => Chd!IInv
<1> SUFFICES ASSUME Chd!Init PROVE Chd!IInv
  OBVIOUS
<1>1. v4 \in [Workers -> Downloads] /\ v3 \subseteq ChdHours
  BY NoWorkIsOne DEF Chd!Init, Chd!Missing
<1>1a. v8 \in 0 .. MaxTokens /\ v10 \in 0 .. MaxTokens /\ v11 \in 0 .. MaxTokens
  BY ChdConstants DEF Chd!Init, Chd!NoToken
<1>1b. v12 \in 0 .. MaxRevokes /\ v13 \in 0 .. ChdNoise
  BY ChdConstants DEF Chd!Init
<1>1c. Chd!TypeOK
  BY <1>1, <1>1a, <1>1b DEF Chd!Init, Chd!TypeOK, Downloads
<1>2. Chd!Accounted /\ Chd!PulledWhole
  BY DEF Chd!Init, Chd!Accounted, Chd!PulledWhole
<1> QED BY <1>1c, <1>2 DEF Chd!IInv

LEMMA DownloadReplaced ==
  ASSUME Chd!TypeOK, NEW w \in Workers, NEW c \in Downloads, v4' = [v4 EXCEPT ![w] = c]
  PROVE  /\ v4' \in [Workers -> Downloads] /\ v4'[w] = c
         /\ \A v \in Workers : v # w => v4'[v] = v4[v]
BY DEF Chd!TypeOK, Downloads

(* A worker keeps its hour from the check of the token to the answer.       *)
LEMMA DownloadGoesOn ==
  ASSUME Chd!IInv, NEW w \in Workers, v4[w].step # "idle", NEW c \in Downloads,
         v4' = [v4 EXCEPT ![w] = c], c.step # "idle", c.hour = v4[w].hour,
         UNCHANGED <<Chd!vendor, v2, v3, v5, v6, v7>>,
         v8' \in 0 .. MaxTokens, v10' \in 0 .. MaxTokens, v9' \in BOOLEAN,
         v13' \in 0 .. ChdNoise
  PROVE  Chd!IInv'
<1>1. Chd!TypeOK
  BY DEF Chd!IInv
<1>2. /\ v4' \in [Workers -> Downloads] /\ v4'[w] = c
      /\ \A v \in Workers : v # w => v4'[v] = v4[v]
  BY <1>1, DownloadReplaced
<1>3. Chd!TypeOK'
  BY <1>1, <1>2 DEF Chd!TypeOK, Chd!vendor, Downloads
<1>4. \A h \in ChdHours : Chd!InWork(h) => Chd!InWork(h)'
  BY <1>2 DEF Chd!InWork
<1>5. Chd!Accounted' /\ Chd!PulledWhole'
  BY <1>4 DEF Chd!IInv, Chd!Accounted, Chd!PulledWhole, Chd!Missing, Chd!vendor
<1> QED BY <1>3, <1>5 DEF Chd!IInv

(* A run dies, with at most a file more.                                    *)
LEMMA RunDies ==
  ASSUME Chd!IInv, v7' = "died", UNCHANGED <<Chd!vendor, v2, v3, v4, v6>>,
         v5' \subseteq v5, v8' \in 0 .. MaxTokens, v10' = v10, v9' = v9,
         v13' \in 0 .. ChdNoise
  PROVE  Chd!IInv'
<1>1. Chd!TypeOK'
  BY DEF Chd!IInv, Chd!TypeOK, Chd!vendor
<1>2. Chd!Accounted' /\ Chd!PulledWhole'
  BY DEF Chd!IInv, Chd!Accounted, Chd!PulledWhole, Chd!vendor
<1> QED BY <1>1, <1>2 DEF Chd!IInv

LEMMA Retries ==
  ASSUME Chd!IInv, NEW w \in Workers, v4[w].step \in {"ask", "refused"}, Chd!Retry(w), UNCHANGED <<Chd!vendor, v2, v3, v5, v6>>,
         v8' \in 0 .. MaxTokens, UNCHANGED <<v9, v10>>, v13' \in 0 .. ChdNoise
  PROVE  Chd!IInv'
<1>1. Chd!TypeOK /\ v4[w] \in Downloads
  BY DEF Chd!IInv, Chd!TypeOK, Downloads
<1>2. CASE v4[w].attempt + 1 < MaxRetries
  <2> DEFINE c == [v4[w] EXCEPT !.step = "token", !.attempt = @ + 1]
  <2>0. v4[w].attempt + 1 \in 0 .. MaxRetries
    BY <1>1, <1>2, ChdConstants DEF Downloads
  <2>1. c \in Downloads /\ c.step = "token" /\ c.hour = v4[w].hour
    BY <1>1, <2>0 DEF Downloads
  <2>2. v4' = [v4 EXCEPT ![w] = c] /\ v7' = v7
    BY <1>1, <1>2 DEF Chd!Retry, Chd!TypeOK
  <2> HIDE DEF c
  <2> QED BY <1>1, <2>1, <2>2, DownloadGoesOn DEF Chd!TypeOK, Chd!IInv
<1>3. CASE ~(v4[w].attempt + 1 < MaxRetries)
  BY <1>3, RunDies DEF Chd!Retry
<1> QED BY <1>2, <1>3

LEMMA DownloadTakes ==
  ASSUME Chd!IInv, NEW w \in Workers, NEW h \in ChdHours, Chd!Take(w, h)
  PROVE  Chd!IInv'
<1> DEFINE c == [step |-> "token", hour |-> h, attempt |-> 0, bearer |-> 0]
<1>1. Chd!TypeOK
  BY DEF Chd!IInv
<1>2. c \in Downloads
  BY ChdConstants DEF Downloads
<1>3. /\ v4' \in [Workers -> Downloads] /\ v4'[w] = c
      /\ \A v \in Workers : v # w => v4'[v] = v4[v]
  BY <1>1, <1>2, DownloadReplaced DEF Chd!Take
<1>4. Chd!TypeOK'
  BY <1>1, <1>3 DEF Chd!TypeOK, Downloads, Chd!Take, Chd!vendor, Chd!auth
<1>5. Chd!InWork(h)' /\ \A g \in ChdHours : Chd!InWork(g) => Chd!InWork(g)'
  BY <1>3 DEF Chd!InWork, Chd!Take, Chd!At
<1>6. Chd!Accounted' /\ Chd!PulledWhole'
  BY <1>5 DEF Chd!IInv, Chd!Accounted, Chd!PulledWhole, Chd!Missing, Chd!Take, Chd!vendor
<1> QED BY <1>4, <1>6 DEF Chd!IInv

LEMMA DownloadServed ==
  ASSUME Chd!IInv, NEW w \in Workers, Chd!Served(w)
  PROVE  Chd!IInv'
<1>1. Chd!TypeOK /\ v4[w].hour \in ChdHours /\ v4[w].step = "ask"
  BY DEF Chd!IInv, Chd!TypeOK, Chd!Served, Chd!At
<1>2. /\ v4' \in [Workers -> Downloads] /\ v4'[w] = Chd!NoWork
      /\ \A v \in Workers : v # w => v4'[v] = v4[v]
  BY <1>1, NoWorkIsOne, DownloadReplaced DEF Chd!Served
<1>3. Chd!TypeOK'
  BY <1>1, <1>2 DEF Chd!TypeOK, Downloads, Chd!Served, Chd!vendor, Chd!auth
<1>4. /\ v4[w].hour \in v5' \union v6'
      /\ v5 \subseteq v5' /\ v6 \subseteq v6'
      /\ v6' \intersect v1 = {}
  BY DEF Chd!Served, Chd!IInv, Chd!Accounted
<1>5. \A h \in ChdHours : Chd!InWork(h) => Chd!InWork(h)' \/ h = v4[w].hour
  BY <1>2 DEF Chd!InWork
<1>6. Chd!Accounted' /\ Chd!PulledWhole'
  BY <1>4, <1>5 DEF Chd!IInv, Chd!Accounted, Chd!PulledWhole, Chd!Missing, Chd!Served,
     Chd!vendor, Chd!At
<1> QED BY <1>3, <1>6 DEF Chd!IInv

LEMMA DownloadWritten ==
  ASSUME Chd!IInv, NEW h \in ChdHours, Chd!Write(h, FALSE)
  PROVE  Chd!IInv'
<1>0. /\ UNCHANGED <<Chd!vendor, v3, v4, v6, Chd!auth, v7, v13>>
      /\ v2' = [v2 EXCEPT ![h] = "whole"] /\ v5' = v5 \ {h}
  BY DEF Chd!Write
<1>1. Chd!TypeOK'
  BY <1>0 DEF Chd!IInv, Chd!TypeOK, Chd!vendor, Chd!auth
<1>2. \A g \in ChdHours : Chd!InWork(g) => Chd!InWork(g)'
  BY DEF Chd!InWork, Chd!Write
<1>3. /\ v2' \in [ChdHours -> {"none", "torn", "whole"}] /\ v2'[h] = "whole"
      /\ \A g \in ChdHours : g # h => v2'[g] = v2[g]
  BY DEF Chd!IInv, Chd!TypeOK, Chd!Write
<1>4. Chd!Accounted' /\ Chd!PulledWhole'
  BY <1>2, <1>3 DEF Chd!IInv, Chd!Accounted, Chd!PulledWhole, Chd!Missing, Chd!Write, Chd!vendor
<1> QED BY <1>1, <1>4 DEF Chd!IInv

LEMMA RunStarts ==
  ASSUME Chd!IInv, Chd!Rerun
  PROVE  Chd!IInv'
<1>0. /\ v4' \in [Workers -> Downloads] /\ v3' \subseteq ChdHours
      /\ v8' \in 0 .. MaxTokens
  BY NoWorkIsOne, ChdConstants DEF Chd!Rerun, Chd!Fresh, Chd!Missing, Chd!NoToken
<1>1. Chd!TypeOK'
  BY <1>0 DEF Chd!IInv, Chd!TypeOK, Chd!Rerun, Chd!Fresh, Chd!vendor, Downloads
<1>2. Chd!Accounted' /\ Chd!PulledWhole'
  BY DEF Chd!IInv, Chd!Accounted, Chd!PulledWhole, Chd!Rerun, Chd!Fresh, Chd!vendor
<1> QED BY <1>1, <1>2 DEF Chd!IInv

LEMMA RunEnds ==
  ASSUME Chd!IInv, Chd!EndRun
  PROVE  Chd!IInv'
<1>1. Chd!TypeOK'
  BY DEF Chd!IInv, Chd!TypeOK, Chd!EndRun, Chd!vendor, Chd!auth
<1>2. \A h \in ChdHours : v2[h] = "none" => h \in v6
  BY DEF Chd!IInv, Chd!Accounted, Chd!EndRun, Chd!Missing, Chd!InWork
<1>3. Chd!Accounted' /\ Chd!PulledWhole'
  BY <1>2 DEF Chd!IInv, Chd!Accounted, Chd!PulledWhole, Chd!EndRun, Chd!vendor
<1> QED BY <1>1, <1>3 DEF Chd!IInv

LEMMA VendorActs ==
  ASSUME Chd!IInv, Chd!Revoke \/ Chd!Lapse \/ UNCHANGED Chd!vars
  PROVE  Chd!IInv'
<1>0. v12' \in 0 .. MaxRevokes /\ v13' \in 0 .. ChdNoise
  BY ChdConstants DEF Chd!IInv, Chd!TypeOK, Chd!Revoke, Chd!Lapse, Chd!vars, Chd!vendor
<1>0a. v11' \in 0 .. MaxTokens /\ v9' \in BOOLEAN
  BY DEF Chd!IInv, Chd!TypeOK, Chd!Revoke, Chd!Lapse, Chd!vars, Chd!vendor, Chd!auth
<1>0b. UNCHANGED <<v1, v2, v3, v4, v5, v6, v7, v8, v10>>
  BY DEF Chd!Revoke, Chd!Lapse, Chd!vars, Chd!vendor, Chd!auth
<1>1. Chd!TypeOK'
  BY <1>0, <1>0a, <1>0b DEF Chd!IInv, Chd!TypeOK
<1>2. Chd!Accounted' /\ Chd!PulledWhole'
  BY DEF Chd!IInv, Chd!Accounted, Chd!PulledWhole, Chd!Missing, Chd!InWork, Chd!Revoke,
     Chd!Lapse, Chd!vars, Chd!vendor
<1> QED BY <1>1, <1>2 DEF Chd!IInv

(* Each step of the paid pull, of any hours, workers and retries, keeps its *)
(* invariant (scripts/backfill_books_chd.py).                              *)
THEOREM DownloadStep ==
  ASSUME Chd!IInv, Chd!Next
  PROVE  Chd!IInv'
<1> USE ChdConstants
<1>1. Chd!TypeOK
  BY DEF Chd!IInv
<1>2. ASSUME NEW w \in Workers, NEW step \in {"return", "post", "refused", "ask"},
             NEW from \in {"token", "post", "ask"}, Chd!At(w, from), Chd!Goes(w, step),
             UNCHANGED <<Chd!vendor, v2, v3, v5, v6, v7>>,
             v8' \in 0 .. MaxTokens, v10' \in 0 .. MaxTokens, v9' \in BOOLEAN,
             v13' = v13
      PROVE  Chd!IInv'
  <2> DEFINE c == [v4[w] EXCEPT !.step = step]
  <2>1. c \in Downloads /\ c.step = step /\ c.hour = v4[w].hour /\ v4[w].step # "idle"
    BY <1>1, <1>2 DEF Chd!TypeOK, Downloads, Chd!At
  <2>2. v4' = [v4 EXCEPT ![w] = c]
    BY <1>1, <1>2 DEF Chd!Goes, Chd!TypeOK
  <2> HIDE DEF c
  <2> QED BY <1>1, <1>2, <2>1, <2>2, DownloadGoesOn DEF Chd!TypeOK
<1>3. ASSUME NEW w \in Workers, \E h \in ChdHours : Chd!Take(w, h)
      PROVE  Chd!IInv'
  BY <1>3, DownloadTakes
<1>4. ASSUME NEW w \in Workers, Chd!CheckToken(w)
      PROVE  Chd!IInv'
  BY <1>1, <1>2, <1>4 DEF Chd!CheckToken, Chd!auth, Chd!TypeOK
<1>5. ASSUME NEW w \in Workers, Chd!ReturnToken(w)
      PROVE  Chd!IInv'
  <2> DEFINE c == [v4[w] EXCEPT !.step = "ask", !.bearer = v8]
  <2>1. c \in Downloads /\ c.step = "ask" /\ c.hour = v4[w].hour /\ v4[w].step # "idle"
    BY <1>1, <1>5 DEF Chd!TypeOK, Downloads, Chd!At, Chd!ReturnToken
  <2>2. v4' = [v4 EXCEPT ![w] = c]
    BY <1>1, <1>5 DEF Chd!ReturnToken, Chd!TypeOK
  <2> HIDE DEF c
  <2> QED BY <1>1, <1>5, <2>1, <2>2, DownloadGoesOn DEF Chd!TypeOK, Chd!ReturnToken, Chd!auth
<1>6. ASSUME NEW w \in Workers, Chd!PostToken(w)
      PROVE  Chd!IInv'
  <2>1. /\ v8' \in 0 .. MaxTokens /\ v10' \in 0 .. MaxTokens /\ v9' \in BOOLEAN
        /\ Chd!At(w, "post") /\ Chd!Goes(w, "return") /\ v13' = v13
        /\ UNCHANGED <<Chd!vendor, v2, v3, v5, v6, v7>>
    <3>1. v10 \in 0 .. MaxTokens /\ v10 < MaxTokens
      BY <1>1, <1>6 DEF Chd!PostToken, Chd!TypeOK
    <3>2. v10 + 1 \in 0 .. MaxTokens
      BY <3>1
    <3> QED BY <1>6, <3>2 DEF Chd!PostToken
  <2> QED BY <1>2, <2>1
<1>7. ASSUME NEW w \in Workers, Chd!Served(w)
      PROVE  Chd!IInv'
  BY <1>7, DownloadServed
<1>8. ASSUME NEW w \in Workers, Chd!Refused401(w)
      PROVE  Chd!IInv'
  BY <1>1, <1>2, <1>8 DEF Chd!Refused401, Chd!auth, Chd!TypeOK
<1>9. ASSUME NEW w \in Workers, Chd!Invalidate(w)
      PROVE  Chd!IInv'
  BY <1>1, <1>9, Retries DEF Chd!Invalidate, Chd!At, Chd!NoToken, Chd!TypeOK
<1>10. ASSUME NEW w \in Workers, Chd!Busy(w)
       PROVE  Chd!IInv'
  BY <1>1, <1>10, Retries DEF Chd!Busy, Chd!At, Chd!auth, Chd!TypeOK
<1>11. ASSUME NEW w \in Workers, Chd!PostFails(w)
       PROVE  Chd!IInv'
  BY <1>1, <1>11, RunDies DEF Chd!PostFails, Chd!auth, Chd!TypeOK
<1>12. ASSUME NEW h \in ChdHours, Chd!Undecodable(h)
       PROVE  Chd!IInv'
  BY <1>1, <1>12, RunDies DEF Chd!Undecodable, Chd!auth, Chd!TypeOK
<1>13. ASSUME NEW h \in ChdHours, Chd!Write(h, TRUE)
       PROVE  Chd!IInv'
  BY <1>1, <1>13, RunDies DEF Chd!Write, Chd!auth, Chd!TypeOK
<1>14. ASSUME NEW h \in ChdHours, Chd!Write(h, FALSE)
       PROVE  Chd!IInv'
  BY <1>14, DownloadWritten
<1>15. CASE Chd!EndRun \/ Chd!Rerun
  BY <1>15, RunEnds, RunStarts
<1>16. CASE Chd!Revoke \/ Chd!Lapse
  BY <1>16, VendorActs
<1>17. CASE Chd!Step
  BY <1>3, <1>4, <1>5, <1>6, <1>7, <1>8, <1>9, <1>14, <1>15, <1>17 DEF Chd!Step
<1>18. CASE Chd!Trouble
  BY <1>10, <1>11, <1>12, <1>13, <1>16, <1>18 DEF Chd!Trouble
<1> QED BY <1>17, <1>18 DEF Chd!Next
-----------------------------------------------------------------------------
(* The REST backfill of trade hours (GapFill).                             *)
LEMMA GapConstants ==
  /\ GapLast \in Nat /\ MaxDeaths \in Nat
  /\ PerHour \in Nat \ {0} /\ PageLimit \in Nat \ {0}
BY CollectorsAssumption

LEMMA GapCardinality == \A S : Gap!Cardinality(S) = Cardinality(S)
BY DEF Gap!Cardinality, Cardinality

LEMMA GapMaxOf ==
  ASSUME NEW N \in Nat, NEW S \in SUBSET (0 .. N), S # {}
  PROVE  Gap!Max(S) \in S /\ \A m \in S : m <= Gap!Max(S)
<1>1. Max(S) \in S /\ \A m \in S : m <= Max(S)
  BY MaxOf
<1>2. Gap!Max(S) = Max(S)
  BY DEF Gap!Max, Max
<1> QED BY <1>1, <1>2

LEMMA GapMinOf ==
  ASSUME NEW S \in SUBSET Nat, S # {}
  PROVE  Gap!Min(S) \in S
BY LeastOf DEF Gap!Min

LEMMA HoursRun == \E n \in Nat : GapHours = 0 .. n
BY GapConstants DEF GapHours

LEMMA TradesRun ==
  ASSUME NEW n \in Nat, GapHours = 0 .. n
  PROVE  /\ Gap!Cardinality(GapHours) = n + 1 /\ PerHour * (n + 1) \in Nat
         /\ Gap!Trades = 1 .. PerHour * (n + 1) /\ Gap!Cardinality(Gap!Trades) = PerHour * (n + 1)
<1>1. Gap!Cardinality(GapHours) = n + 1
  BY GapCardinality, FS_Interval
<1>2. PerHour * (n + 1) \in Nat
  BY GapConstants
<1>3. Gap!Trades = 1 .. PerHour * (n + 1)
  BY <1>1 DEF Gap!Trades
<1>4. Gap!Cardinality(Gap!Trades) = PerHour * (n + 1)
  BY <1>2, <1>3, GapCardinality, FS_Interval
<1> QED BY <1>1, <1>2, <1>3, <1>4

(* The trades of an hour: there are some, and hours are in the order of     *)
(* their trades.                                                           *)
LEMMA HoursInOrder ==
  /\ \A t \in Gap!Trades : Gap!HourOf(t) \in GapHours
  /\ \A s, t \in Gap!Trades : s <= t => Gap!HourOf(s) <= Gap!HourOf(t)
  /\ \A h \in GapHours : Gap!Of(h) # {}
<1>1. PICK n \in Nat : GapHours = 0 .. n
  BY HoursRun
<1>2. /\ PerHour * (n + 1) \in Nat /\ Gap!Trades = 1 .. PerHour * (n + 1)
      /\ PerHour \in Nat \ {0}
  BY <1>1, TradesRun, GapConstants
<1>3. \A a, b \in Nat : a <= b => a \div PerHour <= b \div PerHour
  BY <1>2
<1>4. \A a \in Nat : a \div PerHour \in Nat
  BY <1>2
<1>5. ASSUME NEW t \in Gap!Trades PROVE Gap!HourOf(t) \in GapHours
  <2>1. t - 1 \in Nat /\ t - 1 < PerHour * (n + 1)
    BY <1>2
  <2>2. (t - 1) \div PerHour < n + 1
    BY <1>2, <2>1
  <2> QED BY <1>1, <1>4, <2>1, <2>2 DEF Gap!HourOf
<1>6. \A s, t \in Gap!Trades : s <= t => Gap!HourOf(s) <= Gap!HourOf(t)
  BY <1>2, <1>3 DEF Gap!HourOf
<1>7. ASSUME NEW h \in GapHours PROVE Gap!Of(h) # {}
  <2>1. h \in Nat /\ h * PerHour \in Nat /\ (n - h) * PerHour \in Nat
    BY <1>1, <1>2
  <2>2. PerHour * (n + 1) = h * PerHour + (n - h) * PerHour + PerHour
    BY <1>1, <1>2
  <2>3. h * PerHour + 1 \in Gap!Trades
    BY <1>2, <2>1, <2>2
  <2>4. Gap!HourOf(h * PerHour + 1) = h
    BY <1>2, <2>1 DEF Gap!HourOf
  <2> QED BY <2>3, <2>4 DEF Gap!Of
<1> QED BY <1>5, <1>6, <1>7

LEMMA TradesAreNumbers ==
  /\ Gap!Trades \in SUBSET Nat /\ 0 \notin Gap!Trades
  /\ \E N \in Nat : N = Gap!Cardinality(Gap!Trades) /\ Gap!Trades = 1 .. N /\ Gap!Trades \in SUBSET (0 .. N)
  /\ \E n \in Nat : GapHours = 0 .. n /\ GapHours \in SUBSET (0 .. n) /\ GapHours \in SUBSET Nat
  /\ 0 \in GapHours
<1>1. PICK n \in Nat : GapHours = 0 .. n
  BY HoursRun
<1>2. PerHour * (n + 1) \in Nat /\ Gap!Trades = 1 .. PerHour * (n + 1)
      /\ Gap!Cardinality(Gap!Trades) = PerHour * (n + 1)
  BY <1>1, TradesRun
<1> QED BY <1>1, <1>2

LEMMA FirstTrade ==
  ASSUME NEW h \in GapHours
  PROVE  Gap!Min(Gap!Of(h)) \in Gap!Of(h) /\ \A t \in Gap!Of(h) : Gap!Min(Gap!Of(h)) <= t
<1>1. Gap!Of(h) \in SUBSET Nat /\ Gap!Of(h) # {}
  BY TradesAreNumbers, HoursInOrder DEF Gap!Of
<1> QED BY <1>1, LeastOf DEF Gap!Min

(* A cursor past the end of a gap is past every trade of it.                *)
LEMMA PastIsPast ==
  ASSUME NEW S \in SUBSET GapHours, S # {}, NEW c \in Nat, c > Gap!Max(Gap!Of(Gap!Max(S)))
  PROVE  \A t \in Gap!Trades : Gap!HourOf(t) \in S => t < c
<1>1. PICK N \in Nat : Gap!Trades = 1 .. N /\ Gap!Trades \in SUBSET (0 .. N)
  BY TradesAreNumbers
<1>2. PICK n \in Nat : GapHours = 0 .. n /\ GapHours \in SUBSET (0 .. n)
  BY TradesAreNumbers
<1>3. Gap!Max(S) \in S /\ \A h \in S : h <= Gap!Max(S)
  BY <1>2, GapMaxOf
<1> DEFINE m == Gap!Max(S)
<1>4. Gap!Of(m) \in SUBSET (0 .. N) /\ Gap!Of(m) # {}
  BY <1>1, <1>3, HoursInOrder DEF Gap!Of
<1>5. Gap!Max(Gap!Of(m)) \in Gap!Of(m) /\ \A t \in Gap!Of(m) : t <= Gap!Max(Gap!Of(m))
  BY <1>4, GapMaxOf
<1> DEFINE x == Gap!Max(Gap!Of(m))
<1>6. x \in Gap!Trades /\ Gap!HourOf(x) = m /\ x < c
  BY <1>5 DEF Gap!Of
<1>7. ASSUME NEW t \in Gap!Trades, Gap!HourOf(t) \in S PROVE t < c
  <2>1. Gap!HourOf(t) <= m /\ Gap!HourOf(t) \in GapHours /\ m \in GapHours
    BY <1>3, <1>7
  <2>2. CASE Gap!HourOf(t) = m
    BY <1>1, <1>5, <1>6, <1>7, <2>2 DEF Gap!Of
  <2>3. CASE Gap!HourOf(t) # m
    <3>1. Gap!HourOf(t) < Gap!HourOf(x)
      BY <1>2, <1>6, <2>1, <2>3
    <3>2. ~(x <= t)
      BY <1>2, <1>6, <1>7, <2>1, <3>1, HoursInOrder
    <3> QED BY <1>1, <1>6, <1>7, <3>2
  <2> QED BY <2>2, <2>3
<1> HIDE DEF m, x
<1> QED BY <1>7

LEMMA HoursApart == \A g, h : g # h => Gap!Of(g) \intersect Gap!Of(h) = {}
BY DEF Gap!Of

LEMMA FillStarts == Gap!Init => Gap!IInv
<1> SUFFICES ASSUME Gap!Init PROVE Gap!IInv
  OBVIOUS
<1>1. 1 \in 1 .. Gap!Cardinality(Gap!Trades) + 1 /\ 0 \in GapHours
  BY TradesAreNumbers
<1>2. Gap!TypeOK
  BY <1>1, GapConstants DEF Gap!Init, Gap!TypeOK
<1> QED BY <1>2 DEF Gap!IInv, Gap!Init, Gap!Paged, Gap!Whole, Gap!Unclaimed, Gap!FilledWhole

(* A gap taken in hand: nothing of it is set aside, nothing of it is before *)
(* the cursor.                                                             *)
LEMMA GapTaken ==
  ASSUME Gap!IInv, NEW hs \in SUBSET GapHours, hs # {}, v6' = hs, v7' = Gap!FirstSpan(hs), v8' = Gap!Min(Gap!Of(Gap!Min(hs))),
         v5' = "page", v9' = {},
         UNCHANGED <<v1, v2, v3, v4, v10, v11, v12, v13>>
  PROVE  Gap!IInv'
<1>1. PICK n \in Nat : GapHours = 0 .. n /\ GapHours \in SUBSET Nat
  BY TradesAreNumbers
<1>2. Gap!Min(hs) \in hs /\ \A h \in hs : Gap!Min(hs) <= h
  BY <1>1, LeastOf DEF Gap!Min
<1> DEFINE m == Gap!Min(hs)
<1>3. m \in GapHours /\ v8' \in Gap!Of(m) /\ \A t \in Gap!Of(m) : v8' <= t
  BY <1>2, FirstTrade
<1>4. v8' \in Gap!Trades /\ Gap!HourOf(v8') = m
  BY <1>3 DEF Gap!Of
<1>5. v8' \in 1 .. Gap!Cardinality(Gap!Trades) + 1
  BY <1>4, TradesAreNumbers
<1>6. v7' \subseteq hs /\ m \in v7'
  <2>1. m \in Nat
    BY <1>1, <1>2
  <2>2. \A g \in m .. m : g = m
    BY <2>1
  <2> QED BY <1>2, <2>2 DEF Gap!FirstSpan
<1>7. ASSUME NEW t \in Gap!Trades, Gap!HourOf(t) \in v7' PROVE ~(t < v8')
  <2>1. Gap!HourOf(t) \in hs /\ Gap!HourOf(t) \in GapHours /\ m <= Gap!HourOf(t)
    BY <1>2, <1>6, <1>7
  <2>2. CASE Gap!HourOf(t) = m
    BY <1>3, <1>4, <1>7, <2>2, TradesAreNumbers DEF Gap!Of
  <2>3. CASE Gap!HourOf(t) # m
    <3>1. ~(Gap!HourOf(t) <= Gap!HourOf(v8'))
      BY <1>1, <1>3, <1>4, <2>1, <2>3
    <3>2. ~(t <= v8')
      BY <1>4, <1>7, <3>1, HoursInOrder
    <3> QED BY <1>4, <1>7, <3>2, TradesAreNumbers
  <2> QED BY <2>2, <2>3
<1> HIDE DEF m
<1>8. Gap!TypeOK'
  BY <1>5, <1>6 DEF Gap!IInv, Gap!TypeOK
<1>9. Gap!Paged'
  BY <1>6, <1>7 DEF Gap!Paged
<1> QED BY <1>8, <1>9 DEF Gap!IInv, Gap!Whole, Gap!Unclaimed, Gap!FilledWhole

LEMMA PageRead ==
  ASSUME Gap!IInv, Gap!Page
  PROVE  Gap!IInv'
<1> DEFINE page == {t \in Gap!Trades : v8 <= t /\ t < v8 + PageLimit}
<1>1. PICK N \in Nat : N = Gap!Cardinality(Gap!Trades) /\ Gap!Trades = 1 .. N
  BY TradesAreNumbers
<1>2. /\ v8 \in 1 .. N + 1 /\ v7 # {} /\ v7 \subseteq v6 /\ v6 \subseteq GapHours
      /\ \A t \in Gap!Trades : Gap!HourOf(t) \in v7 /\ t < v8 => t \in v9
  BY <1>1 DEF Gap!IInv, Gap!TypeOK, Gap!Paged, Gap!Page
<1>3. PageLimit \in Nat \ {0}
  BY GapConstants
<1>3a. v8 \in Nat /\ 1 <= v8 /\ v8 <= N + 1
  BY <1>1, <1>2
<1>3b. \A t : t \in Gap!Trades <=> t \in Nat /\ 1 <= t /\ t <= N
  <2>1. N \in Nat /\ Gap!Trades = 1 .. N
    BY <1>1
  <2> QED BY ONLY <2>1
<1>4. Gap!Cardinality(page) \in Nat /\ Gap!Cardinality(page) <= PageLimit /\ v8 + Gap!Cardinality(page) <= N + 1
  <2>1. page \in SUBSET (v8 .. N) /\ page \in SUBSET (v8 .. v8 + PageLimit - 1)
    BY <1>1, <1>3, <1>3a, <1>3b
  <2>2. /\ IsFiniteSet(v8 .. N)
        /\ Gap!Cardinality(v8 .. N) = IF v8 > N THEN 0 ELSE N - v8 + 1
    <3>1. v8 \in Int /\ N \in Int
      BY <1>1, <1>3a
    <3> QED BY <3>1, GapCardinality, FS_Interval
  <2>3. /\ IsFiniteSet(v8 .. v8 + PageLimit - 1)
        /\ Gap!Cardinality(v8 .. v8 + PageLimit - 1) = PageLimit
    <3>1. v8 \in Int /\ v8 + PageLimit - 1 \in Int /\ ~(v8 > v8 + PageLimit - 1)
          /\ v8 + PageLimit - 1 - v8 + 1 = PageLimit
      BY <1>3, <1>3a
    <3> DEFINE b == v8 + PageLimit - 1
    <3>3. b \in Int /\ ~(v8 > b) /\ b - v8 + 1 = PageLimit
      BY <1>3, <1>3a
    <3> HIDE DEF b
    <3>4. IsFiniteSet(v8 .. b) /\ Gap!Cardinality(v8 .. b) = PageLimit
      BY <3>1, <3>3, GapCardinality, FS_Interval
    <3> QED BY <3>4 DEF b
  <2>4. /\ IsFiniteSet(page) /\ Gap!Cardinality(page) <= Gap!Cardinality(v8 .. N)
        /\ Gap!Cardinality(page) <= Gap!Cardinality(v8 .. v8 + PageLimit - 1)
    BY <2>1, <2>2, <2>3, GapCardinality, FS_Subset
  <2>5. Gap!Cardinality(page) \in Nat
    BY <2>4, GapCardinality, FS_CardinalityType
  <2> QED BY <1>1, <1>2, <2>2, <2>3, <2>4, <2>5
<1>5. /\ v9' = v9 \union {t \in page : Gap!HourOf(t) \in v6}
      /\ v8' = v8 + Gap!Cardinality(page)
      /\ v5' = IF page = {} \/ Gap!Past(v8') THEN "check" ELSE "page"
      /\ UNCHANGED <<v1, v2, v3, v4, v6, v7, v10, v11, v12, v13>>
  BY DEF Gap!Page
<1>6. Gap!TypeOK'
  <2>1. v8' \in 1 .. Gap!Cardinality(Gap!Trades) + 1
    BY <1>1, <1>2, <1>4, <1>5
  <2>2. v9' \subseteq Gap!Trades
    BY <1>5 DEF Gap!IInv, Gap!TypeOK
  <2> QED BY <1>5, <2>1, <2>2 DEF Gap!IInv, Gap!TypeOK
<1>7. ASSUME NEW t \in Gap!Trades, Gap!HourOf(t) \in v7, t < v8' \/ page = {}
      PROVE  t \in v9'
  <2>1. CASE t < v8
    BY <1>2, <1>5, <1>7, <2>1
  <2>2. CASE ~(t < v8)
    <3>1. v8 <= t /\ t \in Nat
      BY <1>1, <1>2, <2>2
    <3>2. page # {}
      <4>1. CASE t < v8 + PageLimit
        BY <3>1, <4>1
      <4>2. CASE ~(t < v8 + PageLimit)
        <5>1. v8 < v8 + PageLimit /\ v8 <= N /\ v8 \in Nat
          BY <1>1, <1>3, <1>3a, <1>3b, <1>7, <3>1
        <5>2. v8 \in Gap!Trades
          BY <1>3a, <1>3b, <5>1
        <5> QED BY <5>1, <5>2
      <4> QED BY <4>1, <4>2
    <3>3. t < v8 + PageLimit
      BY <1>2, <1>3, <1>4, <1>5, <1>7, <3>1, <3>2
    <3> QED BY <1>2, <1>5, <1>7, <3>1, <3>3
  <2> QED BY <2>1, <2>2
<1> HIDE DEF page
<1>8. CASE v5' = "page"
  <2>1. Gap!Paged'
    BY <1>2, <1>5, <1>7 DEF Gap!Paged
  <2> QED BY <1>5, <1>6, <1>8, <2>1 DEF Gap!IInv, Gap!Whole, Gap!Unclaimed, Gap!FilledWhole
<1>9. CASE v5' = "check"
  <2>1. ASSUME NEW t \in Gap!Trades, Gap!HourOf(t) \in v7 PROVE t \in v9'
    <3>1. CASE page = {}
      BY <1>7, <2>1, <3>1
    <3>2. CASE page # {}
      <4>1. v8' > Gap!Max(Gap!Of(Gap!Max(v7))) /\ v7 \in SUBSET GapHours /\ v8' \in Nat
        BY <1>1, <1>2, <1>4, <1>5, <1>9, <3>2 DEF Gap!Past
      <4>2. t < v8'
        BY <1>2, <1>5, <2>1, <4>1, PastIsPast
      <4> QED BY <1>7, <2>1, <4>2
    <3> QED BY <3>1, <3>2
  <2>2. Gap!Whole'
    BY <1>5, <2>1 DEF Gap!Whole, Gap!Of
  <2> QED BY <1>5, <1>6, <1>9, <2>2 DEF Gap!IInv, Gap!Paged, Gap!Unclaimed, Gap!FilledWhole
<1> QED BY <1>5, <1>8, <1>9

LEMMA RowsLand ==
  ASSUME Gap!IInv, NEW h \in GapHours, Gap!Land(h)
  PROVE  Gap!IInv'
<1>1. Gap!TypeOK'
  BY DEF Gap!IInv, Gap!TypeOK, Gap!Land, Gap!fill
<1>2. Gap!Paged' /\ Gap!Whole'
  BY DEF Gap!IInv, Gap!Paged, Gap!Whole, Gap!Land, Gap!fill
<1>3. v12 \subseteq v12' /\ \A g \in GapHours : g # h => v1' \intersect Gap!Of(g) = v1 \intersect Gap!Of(g)
  BY HoursApart DEF Gap!Land
<1>4. Gap!Unclaimed'
  BY <1>3 DEF Gap!IInv, Gap!TypeOK, Gap!Unclaimed, Gap!Land, Gap!fill
<1>5. Gap!FilledWhole'
  BY <1>3 DEF Gap!IInv, Gap!FilledWhole, Gap!Land, Gap!fill
<1> QED BY <1>1, <1>2, <1>4, <1>5 DEF Gap!IInv

LEMMA HourChecked ==
  ASSUME Gap!IInv, Gap!Check
  PROVE  Gap!IInv'
<1> DEFINE S == {Gap!HourOf(t) : t \in v9}
           h == Gap!Min(S)
<1>1. h \in GapHours
  <2>1. v9 \subseteq Gap!Trades /\ v9 # {}
    BY DEF Gap!IInv, Gap!TypeOK, Gap!Check
  <2>2. S \in SUBSET GapHours /\ S # {} /\ GapHours \in SUBSET Nat
    BY <2>1, HoursInOrder, TradesAreNumbers
  <2>3. S \in SUBSET Nat
    BY <2>2
  <2> HIDE DEF S
  <2> QED BY <2>2, <2>3, GapMinOf
<1> HIDE DEF S
<1>2. CASE Gap!Present(h) /\ v9' = v9 \ Gap!Of(h) /\ UNCHANGED <<v10, v5>>
  <2>1. Gap!TypeOK'
    BY <1>2 DEF Gap!IInv, Gap!TypeOK, Gap!Check
  <2>2. Gap!Whole'
    BY <1>2, HoursApart DEF Gap!IInv, Gap!Whole, Gap!Check
  <2> QED BY <1>2, <2>1, <2>2 DEF Gap!IInv, Gap!Check, Gap!Paged, Gap!Unclaimed, Gap!FilledWhole
<1>3. CASE ~Gap!Present(h) /\ v10' = h /\ v5' = "write" /\ UNCHANGED v9
  <2>1. Gap!TypeOK'
    BY <1>1, <1>3 DEF Gap!IInv, Gap!TypeOK, Gap!Check
  <2>2. Gap!Whole' /\ Gap!Paged'
    BY <1>3 DEF Gap!IInv, Gap!Whole, Gap!Paged, Gap!Check
  <2>3. Gap!Unclaimed'
    BY <1>3 DEF Gap!Unclaimed, Gap!Present, Gap!Check
  <2> QED BY <1>3, <2>1, <2>2, <2>3 DEF Gap!IInv, Gap!Check, Gap!FilledWhole
<1> QED BY <1>2, <1>3 DEF Gap!Check, h, S

LEMMA HourWritten ==
  ASSUME Gap!IInv, Gap!CloseFile
  PROVE  Gap!IInv'
<1>1. Gap!TypeOK'
  BY DEF Gap!IInv, Gap!TypeOK, Gap!CloseFile
<1>2. Gap!Whole' /\ Gap!Paged' /\ Gap!Unclaimed'
  BY HoursApart DEF Gap!IInv, Gap!Whole, Gap!Paged, Gap!Unclaimed, Gap!CloseFile
<1>3. ASSUME NEW h \in GapHours, v3' \intersect Gap!Of(h) # {}
      PROVE  /\ Gap!Of(h) \subseteq v3' \/ h \in v13'
             /\ v1' \intersect Gap!Of(h) = {} \/ h \in v12'
  <2>1. CASE h # v10
    BY <1>3, <2>1, HoursApart DEF Gap!IInv, Gap!FilledWhole, Gap!CloseFile
  <2>2. CASE h = v10 /\ v9 \intersect Gap!Of(h) = {}
    BY <1>3, <2>2 DEF Gap!IInv, Gap!FilledWhole, Gap!CloseFile
  <2>3. CASE h = v10 /\ v9 \intersect Gap!Of(h) # {}
    <3>1. h \in v7 => Gap!Of(h) \subseteq v9
      BY <2>3 DEF Gap!IInv, Gap!Whole, Gap!CloseFile
    <3> QED BY <2>3, <3>1 DEF Gap!IInv, Gap!Unclaimed, Gap!CloseFile
  <2> QED BY <2>1, <2>2, <2>3
<1>4. Gap!FilledWhole'
  BY <1>3 DEF Gap!FilledWhole
<1> QED BY <1>1, <1>2, <1>4 DEF Gap!IInv

LEMMA GapStutters == Gap!IInv /\ UNCHANGED Gap!vars => Gap!IInv'
BY DEF Gap!IInv, Gap!vars, Gap!TypeOK, Gap!Paged, Gap!Whole, Gap!Unclaimed, Gap!FilledWhole

(* Each step of the fill and of the collector beside it, for any hours and  *)
(* pages, keeps the invariant (scripts/backfill_ticks.py).                  *)
THEOREM FillStep ==
  ASSUME Gap!IInv, Gap!Next
  PROVE  Gap!IInv'
<1>1. ASSUME NEW h \in GapHours, Gap!Land(h) PROVE Gap!IInv'
  BY <1>1, RowsLand
<1>2. CASE Gap!Inventory
  <2>1. Gap!Missing \in SUBSET GapHours
    BY DEF Gap!Missing
  <2> QED BY <1>2, <2>1, GapTaken DEF Gap!Inventory
<1>3. CASE Gap!Page
  BY <1>3, PageRead
<1>4. CASE Gap!Check
  BY <1>4, HourChecked
<1>5. CASE Gap!OpenFile
  <2>1. Gap!TypeOK'
    BY <1>5 DEF Gap!IInv, Gap!TypeOK, Gap!OpenFile, Gap!fill
  <2> QED BY <1>5, <2>1 DEF Gap!IInv, Gap!OpenFile, Gap!fill, Gap!Paged, Gap!Whole,
         Gap!Unclaimed, Gap!FilledWhole
<1>6. CASE Gap!CloseFile
  BY <1>6, HourWritten
<1>7. CASE Gap!NextSpan
  <2>1. CASE v6' = {}
    <3>1. Gap!TypeOK'
      BY <1>7, <2>1 DEF Gap!IInv, Gap!TypeOK, Gap!NextSpan
    <3> QED BY <1>7, <2>1, <3>1 DEF Gap!IInv, Gap!NextSpan, Gap!Paged, Gap!Whole, Gap!Unclaimed,
           Gap!FilledWhole
  <2>2. CASE v6' # {}
    <3>1. v6' \in SUBSET GapHours
      BY <1>7 DEF Gap!IInv, Gap!TypeOK, Gap!NextSpan
    <3> QED BY <1>7, <2>2, <3>1, GapTaken DEF Gap!NextSpan
  <2> QED BY <2>1, <2>2
<1>8. CASE Gap!Die
  <2>1. Gap!TypeOK'
    BY <1>8, GapConstants DEF Gap!IInv, Gap!TypeOK, Gap!Die
  <2> QED BY <1>8, <2>1 DEF Gap!IInv, Gap!Die, Gap!Paged, Gap!Whole, Gap!Unclaimed, Gap!FilledWhole
<1> QED BY <1>1, <1>2, <1>3, <1>4, <1>5, <1>6, <1>7, <1>8 DEF Gap!Next
-----------------------------------------------------------------------------
(* The repair of closed hours (Repair).                                    *)
LEMMA HoursInRow ==
  /\ Places \subseteq Nat /\ 0 \in Places /\ Repair!Unknown \in Nat /\ FirstOpen \in Nat /\
     FirstOpen <= Repair!Unknown
  /\ \A p \in Places : p < Repair!Unknown
  /\ \A p \in Nat : p < FirstOpen => p \in Places
BY RepairAssumption

LEMMA KillsBounded == MaxKills \in Nat
BY CollectorsAssumption

LEMMA RowsInRow == RepairRows \subseteq Nat /\ \A r \in RepairRows : r >= 1 /\ 1 \in RepairRows
BY RepairAssumption

(* Hours and days. *)
LEMMA DaysInRow ==
  /\ \A p \in Nat : Repair!Day(p) \in Nat /\ p % RepairHoursPerDay \in 0 .. RepairHoursPerDay - 1 /\
     p = Repair!Day(p) * RepairHoursPerDay + (p % RepairHoursPerDay)
  /\ \A p \in Nat : Repair!Day(p) <= Repair!LastDay <=> p < FirstOpen
  /\ \A d \in Nat, x \in 0 .. RepairHoursPerDay - 1 : d * RepairHoursPerDay + x \in Nat /\
     Repair!Day(d * RepairHoursPerDay + x) = d
<1>1. RepairHoursPerDay \in Nat \ {0} /\ FirstOpen \in Nat /\ FirstOpen % RepairHoursPerDay = 0
  BY RepairAssumption, HoursInRow
<1>2. \A p \in Nat : Repair!Day(p) \in Nat /\ p % RepairHoursPerDay \in 0 .. RepairHoursPerDay - 1 /\
      p = Repair!Day(p) * RepairHoursPerDay + (p % RepairHoursPerDay)
  BY <1>1 DEF Repair!Day
<1>3. \A d \in Nat, x \in 0 .. RepairHoursPerDay - 1 : d * RepairHoursPerDay + x \in Nat /\
      Repair!Day(d * RepairHoursPerDay + x) = d
  <2>1. ASSUME NEW d \in Nat, NEW x \in 0 .. RepairHoursPerDay - 1
        PROVE  d * RepairHoursPerDay + x \in Nat /\ Repair!Day(d * RepairHoursPerDay + x) = d
    <3>0. d * RepairHoursPerDay \in Nat
      BY <1>1
    <3>1. d * RepairHoursPerDay + x \in Nat
      BY <1>1, <3>0
    <3> DEFINE e == Repair!Day(d * RepairHoursPerDay + x)
               y == (d * RepairHoursPerDay + x) % RepairHoursPerDay
    <3>2. e \in Nat /\ y \in 0 .. RepairHoursPerDay - 1 /\ d * RepairHoursPerDay + x = e * RepairHoursPerDay + y
      BY <3>1, <1>2
    <3> HIDE DEF e, y
    <3>3. \A H \in Nat \ {0}, a, b \in Nat : a < b => a * H + H <= b * H
      OBVIOUS
    <3>4. e * RepairHoursPerDay \in Nat
      BY <1>1, <3>2
    <3>5. ASSUME e < d PROVE FALSE
      <4>1. e * RepairHoursPerDay + RepairHoursPerDay <= d * RepairHoursPerDay
        BY <1>1, <3>2, <3>3, <3>5
      <4> QED BY <4>1, <3>0, <3>2, <3>4, <1>1
    <3>6. ASSUME d < e PROVE FALSE
      <4>1. d * RepairHoursPerDay + RepairHoursPerDay <= e * RepairHoursPerDay
        BY <1>1, <3>2, <3>3, <3>6
      <4> QED BY <4>1, <3>0, <3>2, <3>4, <1>1
    <3>7. e = d
      BY <3>5, <3>6, <3>2
    <3> QED BY <3>1, <3>7 DEF e
  <2> QED BY <2>1
<1>4. \A p \in Nat : Repair!Day(p) <= Repair!LastDay <=> p < FirstOpen
  <2>1. ASSUME NEW p \in Nat PROVE Repair!Day(p) <= Repair!LastDay <=> p < FirstOpen
    <3> DEFINE k == Repair!Day(FirstOpen)
               e == Repair!Day(p)
               y == p % RepairHoursPerDay
    <3>1. k \in Nat /\ FirstOpen = k * RepairHoursPerDay
      <4>1. k \in Nat /\ FirstOpen = k * RepairHoursPerDay + (FirstOpen % RepairHoursPerDay)
        BY <1>1, <1>2
      <4> HIDE DEF k
      <4>2. k * RepairHoursPerDay \in Nat
        BY <4>1, <1>1
      <4> QED BY <4>1, <4>2, <1>1
    <3>2. e \in Nat /\ y \in 0 .. RepairHoursPerDay - 1 /\ p = e * RepairHoursPerDay + y
      BY <1>2
    <3>3. Repair!LastDay = k - 1
      BY DEF Repair!LastDay
    <3> HIDE DEF k, e, y
    <3>4. \A H \in Nat \ {0}, a, b \in Nat : a < b => a * H + H <= b * H
      OBVIOUS
    <3>5. k * RepairHoursPerDay \in Nat /\ e * RepairHoursPerDay \in Nat
      BY <1>1, <3>1, <3>2
    <3>6. CASE e < k
      <4>1. e * RepairHoursPerDay + RepairHoursPerDay <= k * RepairHoursPerDay
        BY <1>1, <3>1, <3>2, <3>4, <3>6
      <4>2. p < FirstOpen
        BY <4>1, <3>1, <3>2, <3>5, <1>1
      <4>3. e <= k - 1
        BY <3>6, <3>1, <3>2
      <4> QED BY <4>2, <4>3, <3>3 DEF e
    <3>7. CASE k <= e
      <4>1. k = e \/ k * RepairHoursPerDay + RepairHoursPerDay <= e * RepairHoursPerDay
        BY <1>1, <3>1, <3>2, <3>4, <3>7
      <4>2. ~(p < FirstOpen)
        BY <4>1, <3>1, <3>2, <3>5, <1>1
      <4>3. ~(e <= k - 1)
        BY <3>7, <3>1, <3>2
      <4> QED BY <4>2, <4>3, <3>3 DEF e
    <3> QED BY <3>6, <3>7, <3>1, <3>2
  <2> QED BY <2>1
<1> QED BY <1>2, <1>3, <1>4

-----------------------------------------------------------------------------
(* Counting copies. *)
LEMMA FilesAreFinite == IsFiniteSet(Repair!Files)
<1>1. IsFiniteSet(Places)
  BY RepairAssumption, FS_Interval
<1>2. IsFiniteSet({"hour"} \union {"part"}) /\ {"hour"} \union {"part"} = {"hour", "part"}
  BY FS_Singleton, FS_Union
<1> QED BY <1>1, <1>2, FS_Product DEF Repair!Files

LEMMA RepairCardinality == \A S : Repair!Cardinality(S) = Cardinality(S)
BY DEF Repair!Cardinality, Cardinality

LEMMA CopiesCounted ==
  ASSUME Repair!TypeOK, NEW S \in SUBSET Repair!Files, NEW r \in RepairRows
  PROVE  /\ Repair!CopiesIn(S, r) \in Nat
         /\ Repair!CopiesIn(S, r) > 0 <=> \E f \in S : v4[f][r] > 0
         /\ (\A f, g \in S : v4[f][r] > 0 /\ v4[g][r] > 0 => f = g /\ v4[f][r] = 1) =>
              Repair!CopiesIn(S, r) <= 1
<1> DEFINE F == [f \in S |-> {f} \X (1 .. v4[f][r])]
           all == {{f} \X (1 .. v4[f][r]) : f \in S}
           U == UNION all
<1>1. \A f \in S : v4[f][r] \in Nat
  BY DEF Repair!TypeOK, Repair!Copies
<1>2. IsFiniteSet(S)
  BY FilesAreFinite, FS_Subset
<1>3. \A f \in S : IsFiniteSet({f} \X (1 .. v4[f][r]))
  <2>1. ASSUME NEW f \in S PROVE IsFiniteSet({f} \X (1 .. v4[f][r]))
    <3>1. IsFiniteSet(1 .. v4[f][r])
      <4>1. 1 \in Int /\ v4[f][r] \in Int
        BY <1>1, <2>1
      <4> QED BY <4>1, FS_Interval
    <3>2. IsFiniteSet({f})
      BY FS_Singleton
    <3> QED BY <3>1, <3>2, FS_Product
  <2> QED BY <2>1
<1>4. IsFiniteSet(all)
  <2>1. F \in Surjection(S, all)
    BY DEF Surjection
  <2> QED BY <1>2, <2>1, FS_Surjection
<1>5. IsFiniteSet(U)
  <2>1. \A T \in all : IsFiniteSet(T)
    BY <1>3
  <2> QED BY <1>4, <2>1, FS_UNION
<1>6. Repair!CopiesIn(S, r) = Cardinality(U)
  BY RepairCardinality DEF Repair!CopiesIn
<1>7. Cardinality(U) \in Nat /\ (Cardinality(U) = 0 <=> U = {})
  BY <1>5, FS_CardinalityType, FS_EmptySet
<1>8. \A u : u \in U <=> \E f \in S : \E k \in 1 .. v4[f][r] : u = <<f, k>>
  OBVIOUS
<1>9. U # {} <=> \E f \in S : v4[f][r] > 0
  <2>1. ASSUME NEW f \in S, v4[f][r] > 0 PROVE U # {}
    <3>1. 1 \in 1 .. v4[f][r]
      BY <1>1, <2>1
    <3> QED BY <3>1, <1>8
  <2>2. ASSUME U # {} PROVE \E f \in S : v4[f][r] > 0
    <3>1. PICK u : u \in U
      BY <2>2
    <3>2. PICK f \in S : \E k \in 1 .. v4[f][r] : u = <<f, k>>
      BY <3>1, <1>8
    <3> QED BY <3>2, <1>1
  <2> QED BY <2>1, <2>2
<1> HIDE DEF U
<1>10. ASSUME \A f, g \in S : v4[f][r] > 0 /\ v4[g][r] > 0 => f = g /\ v4[f][r] = 1
       PROVE  Cardinality(U) <= 1
  <2>1. CASE U = {}
    BY <2>1, <1>7
  <2>2. CASE U # {}
    <3>1. PICK u : u \in U
      BY <2>2
    <3>2. PICK f \in S : \E k \in 1 .. v4[f][r] : u = <<f, k>>
      BY <3>1, <1>8
    <3>3. ASSUME NEW v \in U PROVE v = u
      <4>1. PICK g \in S : \E j \in 1 .. v4[g][r] : v = <<g, j>>
        BY <3>3, <1>8
      <4>2. v4[f][r] > 0 /\ v4[g][r] > 0
        BY <1>1, <3>2, <4>1
      <4>3. f = g /\ v4[f][r] = 1
        BY <4>2, <1>10
      <4> QED BY <4>1, <4>3, <3>2
    <3>4. U = {u}
      BY <3>1, <3>3
    <3>5. Cardinality({u}) = 1
      BY FS_Singleton
    <3> QED BY <3>4, <3>5
  <2> QED BY <2>1, <2>2
<1> QED BY <1>6, <1>7, <1>9, <1>10
-----------------------------------------------------------------------------
(* What the two units have in common. *)
ToWrite(unit) == {Repair!HourFile(p) : p \in unit.targets}

Gathered(unit, r) == \E p \in Places : unit.merged[p][r] > 0

OneCopy(r) == \A f, g \in Repair!Files : v4[f][r] > 0 /\ v4[g][r] > 0 => f = g /\ v4[f][r] = 1

Planned(unit, kind, d) ==
  /\ unit.targets \subseteq Places /\ \A p \in unit.targets : p < FirstOpen
  /\ unit.merged \in [Places -> Repair!Copies] /\ unit.skip \in BOOLEAN /\ unit.idle \in BOOLEAN
  /\ \A p \in Places, r \in RepairRows : unit.merged[p][r] > 0 => p \in unit.targets
  /\ ~unit.skip => (Repair!Sources(d) \union ToWrite(unit)) \intersect v5 = {}
  /\ \A r \in RepairRows : ~Gathered(unit, r) =>
       \/ \A f \in Repair!Sources(d) \union ToWrite(unit) : v4[f][r] = 0
       \/ kind = "thin" /\ r \in Repair!Held(d) /\ v1[r] # Repair!Unknown /\ r # 1
  /\ \A r \in RepairRows : OneCopy(r) =>
       /\ \A p, q \in Places : unit.merged[p][r] > 0 /\ unit.merged[q][r] > 0 =>
            p = q /\ unit.merged[p][r] = 1
       /\ Gathered(unit, r) => \E f \in Repair!Sources(d) \union ToWrite(unit) : v4[f][r] > 0
  /\ kind = "repartition" => \A r \in RepairRows :
       /\ ~Gathered(unit, r) => \A f \in Repair!Files : Repair!Day(f[1]) = d => v4[f][r] = 0
       /\ v1[r] < FirstOpen => \A p \in Places : unit.merged[p][r] > 0 =>
            p = v1[r] \/ (Repair!Day(p) # d /\ v4[Repair!HourFile(p)][r] > 0)
       /\ unit.idle => \A f \in Repair!Sources(d) : v4[f][r] > 0 => Repair!Placement(f, r) = f[1]
  /\ \A r \in RepairRows : v1[r] < FirstOpen /\ (\A f \in Repair!Files : v4[f][r] > 0 => f[1] = v1[r]) =>
       \A p \in Places : unit.merged[p][r] > 0 => p = v1[r]

LEMMA SourcesAre ==
  ASSUME Repair!TypeOK, NEW d \in Nat
  PROVE  /\ Repair!Sources(d) \subseteq Repair!Files
         /\ \A f \in Repair!Sources(d) : f[1] \in Places /\ Repair!Day(f[1]) = d
         /\ \A f \in Repair!Files : Repair!Day(f[1]) = d /\ f \notin Repair!Sources(d) =>
              f \notin v5 /\ \A r \in RepairRows : v4[f][r] = 0
         /\ \A r \in RepairRows : r \in Repair!Held(d) <=> \E f \in Repair!Sources(d) : v4[f][r] > 0
         /\ \A f \in Repair!Files, r \in RepairRows : v4[f][r] \in Nat
         /\ \A p \in Places : Repair!HourFile(p) \in Repair!Files /\ Repair!HourFile(p)[1] = p
<1>1. Repair!Sources(d) \subseteq Repair!Files /\ \A f \in Repair!Sources(d) :
      f[1] \in Places /\ Repair!Day(f[1]) = d
  BY DEF Repair!Sources, Repair!Files
<1>2. \A f \in Repair!Files : Repair!Day(f[1]) = d /\ f \notin Repair!Sources(d) =>
      f \notin v5 /\ v4[f] = Repair!None
  BY DEF Repair!Sources, Repair!Exists
<1>3. \A r \in RepairRows : Repair!None[r] = 0
  BY DEF Repair!None
<1>4. \A f \in Repair!Files, r \in RepairRows : v4[f][r] \in Nat
  BY DEF Repair!TypeOK, Repair!Copies
<1>5. \A p \in Places : Repair!HourFile(p) \in Repair!Files /\ Repair!HourFile(p)[1] = p
  BY DEF Repair!HourFile, Repair!Files
<1> QED BY <1>1, <1>2, <1>3, <1>4, <1>5 DEF Repair!Held

LEMMA UnitPlanned ==
  ASSUME Repair!TypeOK, NEW d \in Nat, d <= Repair!LastDay
  PROVE  Planned(Repair!Unit(d), "repartition", d)
<1> DEFINE unit == Repair!Unit(d)
<1>1. /\ unit.skip = ((Repair!Sources(d) \union Repair!Outside(d)) \intersect v5 # {})
      /\ unit.idle = (\A f \in Repair!Sources(d) : f[2] = "hour" /\ \A r \in RepairRows : v4[f][r] > 0 =>
           Repair!Placement(f, r) = f[1])
      /\ unit.targets = Repair!Targets(d)
      /\ unit.merged = [p \in Places |-> [r \in RepairRows |-> Repair!CopiesIn(Repair!From(d, p, r), r)]]
  BY DEF Repair!Unit
<1> HIDE DEF unit
<1>2. Repair!Outside(d) \subseteq Repair!Files /\ \A p \in Places, r \in RepairRows :
      Repair!From(d, p, r) \subseteq Repair!Files
  BY SourcesAre DEF Repair!Outside, Repair!From, Repair!Targets
<1>3. \A p \in Places, r \in RepairRows : unit.merged[p][r] \in Nat
                                   /\ (unit.merged[p][r] > 0 <=> \E f \in Repair!From(d, p, r) :
                                        v4[f][r] > 0)
                                   /\ (OneCopy(r) => unit.merged[p][r] <= 1)
  <2>1. ASSUME NEW p \in Places, NEW r \in RepairRows
        PROVE  unit.merged[p][r] \in Nat
               /\ (unit.merged[p][r] > 0 <=> \E f \in Repair!From(d, p, r) : v4[f][r] > 0)
               /\ (OneCopy(r) => unit.merged[p][r] <= 1)
    <3>1. unit.merged[p][r] = Repair!CopiesIn(Repair!From(d, p, r), r) /\
          Repair!From(d, p, r) \in SUBSET Repair!Files
      BY <1>1, <1>2
    <3>2. OneCopy(r) => \A f, g \in Repair!From(d, p, r) : v4[f][r] > 0 /\ v4[g][r] > 0 =>
          f = g /\ v4[f][r] = 1
      BY <3>1 DEF OneCopy
    <3> QED BY <3>1, <3>2, CopiesCounted
  <2> QED BY <2>1
<1>4. unit.merged \in [Places -> Repair!Copies]
  BY <1>1, <1>3 DEF Repair!Copies
<1>5. \A f \in Repair!Sources(d), r \in RepairRows : Repair!Placement(f, r) \in Places /\ Repair!Placement(f, r) < FirstOpen
                                       /\ (Repair!Placement(f, r) = f[1] \/ Repair!Placement(f, r) = v1[r])
                                       /\ (v1[r] < FirstOpen => Repair!Placement(f, r) = v1[r])
  <2>1. ASSUME NEW f \in Repair!Sources(d), NEW r \in RepairRows
        PROVE  Repair!Placement(f, r) \in Places /\ Repair!Placement(f, r) < FirstOpen
               /\ (Repair!Placement(f, r) = f[1] \/ Repair!Placement(f, r) = v1[r])
               /\ (v1[r] < FirstOpen => Repair!Placement(f, r) = v1[r])
    <3>1. f[1] \in Places /\ f[1] \in Nat /\ Repair!Day(f[1]) <= Repair!LastDay
      BY SourcesAre, HoursInRow
    <3>2. f[1] < FirstOpen
      BY <3>1, DaysInRow
    <3>3. v1[r] \in Places \union {Repair!Unknown} /\ v1[r] \in Nat
      BY HoursInRow DEF Repair!TypeOK
    <3> QED BY <3>1, <3>2, <3>3, HoursInRow DEF Repair!Placement
  <2> QED BY <2>1
<1>6. unit.targets \subseteq Places /\ \A p \in unit.targets : p < FirstOpen
  BY <1>1, <1>5, SourcesAre DEF Repair!Targets
<1>7. \A f \in Repair!Sources(d), r \in RepairRows : v4[f][r] > 0 =>
      Repair!Placement(f, r) \in Repair!Targets(d) /\ f \in Repair!From(d, Repair!Placement(f, r), r)
  BY <1>5 DEF Repair!Targets, Repair!From
<1>8. \A p \in Places, r \in RepairRows : unit.merged[p][r] > 0 =>
        /\ p \in unit.targets
        /\ \E f \in Repair!Files : v4[f][r] > 0
             /\ \/ f \in Repair!Sources(d) /\ Repair!Placement(f, r) = p
                \/ f = Repair!HourFile(p) /\ f \notin Repair!Sources(d)
  <2>1. ASSUME NEW p \in Places, NEW r \in RepairRows, unit.merged[p][r] > 0
        PROVE  /\ p \in unit.targets
               /\ \E f \in Repair!Files : v4[f][r] > 0
                    /\ \/ f \in Repair!Sources(d) /\ Repair!Placement(f, r) = p
                       \/ f = Repair!HourFile(p) /\ f \notin Repair!Sources(d)
    <3>1. PICK f \in Repair!From(d, p, r) : v4[f][r] > 0
      BY <1>3, <2>1
    <3>2. f \in Repair!Files
      BY <1>2
    <3>3. CASE f \in Repair!Sources(d) /\ Repair!Placement(f, r) = p
      BY <3>1, <3>2, <3>3, <1>7, <1>1
    <3>4. CASE f \in Repair!Outside(d) /\ f = Repair!HourFile(p)
      <4>1. PICK q \in Repair!Targets(d) : f = Repair!HourFile(q)
        BY <3>4 DEF Repair!Outside
      <4>2. q = p
        BY <4>1, <3>4 DEF Repair!HourFile
      <4> QED BY <3>1, <3>2, <3>4, <4>1, <4>2, <1>1 DEF Repair!Outside
    <3> QED BY <3>1, <3>3, <3>4 DEF Repair!From
  <2> QED BY <2>1
<1>9. ~unit.skip => (Repair!Sources(d) \union ToWrite(unit)) \intersect v5 = {}
  BY <1>1 DEF ToWrite, Repair!Outside
<1>10. ASSUME NEW r \in RepairRows, ~Gathered(unit, r)
       PROVE  \A f \in Repair!Sources(d) \union ToWrite(unit) : v4[f][r] = 0
  <2>1. \A p \in Places : ~(\E f \in Repair!From(d, p, r) : v4[f][r] > 0)
    BY <1>3, <1>10 DEF Gathered
  <2>2. ASSUME NEW f \in Repair!Sources(d) PROVE v4[f][r] = 0
    <3>1. Repair!Placement(f, r) \in Places /\ (v4[f][r] > 0 =>
          f \in Repair!From(d, Repair!Placement(f, r), r))
      BY <1>5, <1>7
    <3>2. v4[f][r] \in Nat
      BY SourcesAre
    <3> QED BY <2>1, <3>1, <3>2
  <2>3. ASSUME NEW p \in Repair!Targets(d), Repair!HourFile(p) \notin Repair!Sources(d) PROVE v4[Repair!HourFile(p)][r] = 0
    <3>1. p \in Places /\ Repair!HourFile(p) \in Repair!From(d, p, r)
      BY <2>3 DEF Repair!From, Repair!Outside, Repair!Targets
    <3>2. v4[Repair!HourFile(p)][r] \in Nat
      BY <3>1, SourcesAre
    <3> QED BY <2>1, <3>1, <3>2
  <2> QED BY <2>2, <2>3, <1>1 DEF ToWrite
<1>11. ASSUME NEW r \in RepairRows, OneCopy(r)
       PROVE  /\ \A p, q \in Places : unit.merged[p][r] > 0 /\ unit.merged[q][r] > 0 => p = q /\ unit.merged[p][r] = 1
              /\ Gathered(unit, r) => \E f \in Repair!Sources(d) \union ToWrite(unit) : v4[f][r] > 0
  <2>1. ASSUME NEW p \in Places, NEW q \in Places, unit.merged[p][r] > 0, unit.merged[q][r] > 0
        PROVE  p = q /\ unit.merged[p][r] = 1
    <3>1. PICK f \in Repair!Files : v4[f][r] > 0 /\ ((f \in Repair!Sources(d) /\ Repair!Placement(f, r) = p)
                                                \/ (f = Repair!HourFile(p) /\ f \notin Repair!Sources(d)))
      BY <1>8, <2>1
    <3>2. PICK g \in Repair!Files : v4[g][r] > 0 /\ ((g \in Repair!Sources(d) /\ Repair!Placement(g, r) = q)
                                                \/ (g = Repair!HourFile(q) /\ g \notin Repair!Sources(d)))
      BY <1>8, <2>1
    <3>3. f = g
      BY <1>11, <3>1, <3>2 DEF OneCopy
    <3>4. p = q
      BY <3>1, <3>2, <3>3 DEF Repair!HourFile
    <3>5. unit.merged[p][r] \in Nat /\ unit.merged[p][r] <= 1
      BY <1>3, <1>11
    <3> QED BY <3>4, <3>5, <2>1
  <2>2. ASSUME Gathered(unit, r) PROVE \E f \in Repair!Sources(d) \union ToWrite(unit) : v4[f][r] > 0
    <3>1. PICK p \in Places : unit.merged[p][r] > 0
      BY <2>2 DEF Gathered
    <3> QED BY <3>1, <1>8 DEF ToWrite
  <2> QED BY <2>1, <2>2
<1>12. ASSUME NEW r \in RepairRows, ~Gathered(unit, r)
       PROVE  \A f \in Repair!Files : Repair!Day(f[1]) = d => v4[f][r] = 0
  BY <1>10, <1>12, SourcesAre
<1>13. ASSUME NEW r \in RepairRows, v1[r] < FirstOpen, NEW p \in Places, unit.merged[p][r] > 0
       PROVE  p = v1[r] \/ (Repair!Day(p) # d /\ v4[Repair!HourFile(p)][r] > 0)
  <2>1. PICK f \in Repair!Files : v4[f][r] > 0 /\ ((f \in Repair!Sources(d) /\ Repair!Placement(f, r) = p)
                                              \/ (f = Repair!HourFile(p) /\ f \notin Repair!Sources(d)))
    BY <1>8, <1>13
  <2>2. CASE f \in Repair!Sources(d) /\ Repair!Placement(f, r) = p
    BY <2>2, <1>5, <1>13
  <2>3. CASE f = Repair!HourFile(p) /\ f \notin Repair!Sources(d)
    <3>1. Repair!Day(p) = d => v4[f][r] = 0
      BY <2>3, SourcesAre
    <3> QED BY <3>1, <2>3, <2>1
  <2> QED BY <2>1, <2>2, <2>3
<1>14. ASSUME NEW r \in RepairRows, v1[r] < FirstOpen, \A f \in Repair!Files : v4[f][r] > 0 => f[1] = v1[r],
              NEW p \in Places, unit.merged[p][r] > 0
       PROVE  p = v1[r]
  BY <1>13, <1>14, SourcesAre
<1>15. ASSUME NEW r \in RepairRows, unit.idle PROVE \A f \in Repair!Sources(d) : v4[f][r] > 0 =>
      Repair!Placement(f, r) = f[1]
  BY <1>1, <1>15
<1>16. unit.skip \in BOOLEAN /\ unit.idle \in BOOLEAN
  BY <1>1
<1>17. \A p \in Places, r \in RepairRows : unit.merged[p][r] > 0 => p \in unit.targets
  BY <1>8
<1> QED BY <1>4, <1>6, <1>9, <1>10, <1>11, <1>12, <1>13, <1>14, <1>15, <1>16, <1>17 DEF Planned, unit

LEMMA ThinPlanned ==
  ASSUME Repair!TypeOK, NEW d \in Nat, d <= Repair!LastDay, NEW kept \in SUBSET Repair!Held(d),
        Repair!Keeps(kept, Repair!Held(d))
  PROVE  Planned(Repair!ThinUnit(d, kept), "thin", d)
<1> DEFINE unit == Repair!ThinUnit(d, kept)
<1>1. /\ unit.skip = (Repair!Sources(d) \intersect v5 # {})
      /\ unit.idle = (\A r \in RepairRows : Repair!KeptCopies(d, kept, r) = Repair!CopiesIn(Repair!Sources(d), r))
      /\ unit.targets = {Repair!Home(d, r) : r \in kept}
      /\ unit.merged = [p \in Places |-> [r \in RepairRows |-> IF Repair!Home(d, r) = p THEN Repair!KeptCopies(d, kept, r) ELSE 0]]
  BY DEF Repair!ThinUnit
<1> HIDE DEF unit
<1>2. kept \subseteq RepairRows /\ kept \subseteq Repair!Held(d) /\ \A r \in kept :
      \E f \in Repair!Sources(d) : v4[f][r] > 0
  BY DEF Repair!Held
<1>3. \A r \in RepairRows : /\ Repair!Home(d, r) \in Places /\ Repair!Home(d, r) < FirstOpen /\ Repair!Day(Repair!Home(d, r)) = d
                            /\ v1[r] \in Nat
                            /\ v1[r] < FirstOpen /\ Repair!Day(v1[r]) = d => Repair!Home(d, r) = v1[r]
  <2>1. ASSUME NEW r \in RepairRows
        PROVE  /\ Repair!Home(d, r) \in Places /\ Repair!Home(d, r) < FirstOpen /\ Repair!Day(Repair!Home(d, r)) = d
               /\ v1[r] \in Nat
               /\ v1[r] < FirstOpen /\ Repair!Day(v1[r]) = d => Repair!Home(d, r) = v1[r]
    <3>1. v1[r] \in Nat
      BY HoursInRow DEF Repair!TypeOK
    <3>2. v1[r] % RepairHoursPerDay \in 0 .. RepairHoursPerDay - 1 /\ 0 \in 0 .. RepairHoursPerDay - 1
          /\ v1[r] = Repair!Day(v1[r]) * RepairHoursPerDay + (v1[r] % RepairHoursPerDay)
      <4>1. 0 \in 0 .. RepairHoursPerDay - 1
        BY RepairAssumption
      <4> QED BY <4>1, <3>1, DaysInRow
    <3>3. Repair!Home(d, r) \in Nat /\ Repair!Day(Repair!Home(d, r)) = d
      BY <3>2, DaysInRow DEF Repair!Home
    <3>4. Repair!Home(d, r) < FirstOpen
      BY <3>3, DaysInRow
    <3>5. v1[r] < FirstOpen /\ Repair!Day(v1[r]) = d => Repair!Home(d, r) = v1[r]
      BY <3>2, <3>1, HoursInRow DEF Repair!Home
    <3> QED BY <3>1, <3>3, <3>4, <3>5, HoursInRow
  <2> QED BY <2>1
<1>4. \A r \in RepairRows : /\ Repair!KeptCopies(d, kept, r) \in Nat /\ (Repair!KeptCopies(d, kept, r) > 0 <=> r \in kept)
                            /\ OneCopy(r) => Repair!KeptCopies(d, kept, r) <= 1
  <2>1. ASSUME NEW r \in RepairRows
        PROVE  /\ Repair!KeptCopies(d, kept, r) \in Nat /\ (Repair!KeptCopies(d, kept, r) > 0 <=> r \in kept)
               /\ OneCopy(r) => Repair!KeptCopies(d, kept, r) <= 1
    <3>1. Repair!Sources(d) \in SUBSET Repair!Files
      BY SourcesAre
    <3>2. OneCopy(r) => \A f, g \in Repair!Sources(d) : v4[f][r] > 0 /\ v4[g][r] > 0 =>
          f = g /\ v4[f][r] = 1
      BY <3>1 DEF OneCopy
    <3>3. /\ Repair!CopiesIn(Repair!Sources(d), r) \in Nat
          /\ Repair!CopiesIn(Repair!Sources(d), r) > 0 <=> \E f \in Repair!Sources(d) : v4[f][r] > 0
          /\ OneCopy(r) => Repair!CopiesIn(Repair!Sources(d), r) <= 1
      BY <3>1, <3>2, CopiesCounted
    <3> QED BY <3>3, <1>2 DEF Repair!KeptCopies
  <2> QED BY <2>1
<1>5. \A p \in Places, r \in RepairRows : unit.merged[p][r] = IF Repair!Home(d, r) = p THEN Repair!KeptCopies(d, kept, r) ELSE 0
  BY <1>1
<1>6. unit.merged \in [Places -> Repair!Copies]
  BY <1>1, <1>4 DEF Repair!Copies
<1>7. \A p \in Places, r \in RepairRows : unit.merged[p][r] > 0 <=> Repair!Home(d, r) = p /\ r \in kept
  BY <1>4, <1>5
<1>8. unit.targets \subseteq Places /\ \A p \in unit.targets : p < FirstOpen /\ Repair!Day(p) = d
  BY <1>1, <1>2, <1>3
<1>9. \A p \in Places, r \in RepairRows : unit.merged[p][r] > 0 => p \in unit.targets
  BY <1>1, <1>7
<1>10. ~unit.skip => (Repair!Sources(d) \union ToWrite(unit)) \intersect v5 = {}
  <2>1. ASSUME ~unit.skip, NEW f \in ToWrite(unit) PROVE f \notin v5
    <3>1. PICK p \in Places : f = Repair!HourFile(p) /\ Repair!Day(p) = d
      BY <2>1, <1>8 DEF ToWrite
    <3>2. f \in Repair!Files /\ Repair!Day(f[1]) = d
      BY <3>1, SourcesAre
    <3>3. f \in Repair!Sources(d) => f \notin v5
      BY <2>1, <1>1
    <3> QED BY <3>2, <3>3, SourcesAre
  <2> QED BY <2>1, <1>1
<1>11. ASSUME NEW r \in RepairRows, ~Gathered(unit, r)
       PROVE  \/ \A f \in Repair!Sources(d) \union ToWrite(unit) : v4[f][r] = 0
              \/ r \in Repair!Held(d) /\ v1[r] # Repair!Unknown /\ r # 1
  <2>1. r \notin kept
    BY <1>3, <1>7, <1>11 DEF Gathered
  <2>2. CASE r \in Repair!Held(d)
    <3>1. v1[r] # Repair!Unknown /\ ~(\A q \in kept : v1[q] # Repair!Unknown /\ q < r => r - q >= Interval)
      BY <2>1, <2>2 DEF Repair!Keeps
    <3>2. r # 1
      BY <3>1, <1>2, RowsInRow
    <3> QED BY <2>2, <3>1, <3>2
  <2>3. CASE r \notin Repair!Held(d)
    <3>1. \A f \in Repair!Sources(d) : v4[f][r] = 0
      BY <2>3, SourcesAre
    <3>2. \A f \in ToWrite(unit) : f \in Repair!Files /\ Repair!Day(f[1]) = d
      BY <1>8, SourcesAre DEF ToWrite
    <3> QED BY <3>1, <3>2, SourcesAre
  <2> QED BY <2>2, <2>3
<1>12. ASSUME NEW r \in RepairRows, OneCopy(r)
       PROVE  /\ \A p, q \in Places : unit.merged[p][r] > 0 /\ unit.merged[q][r] > 0 => p = q /\ unit.merged[p][r] = 1
              /\ Gathered(unit, r) => \E f \in Repair!Sources(d) \union ToWrite(unit) : v4[f][r] > 0
  <2>1. ASSUME NEW p \in Places, NEW q \in Places, unit.merged[p][r] > 0, unit.merged[q][r] > 0
        PROVE  p = q /\ unit.merged[p][r] = 1
    <3>1. Repair!Home(d, r) = p /\ Repair!Home(d, r) = q /\ unit.merged[p][r] = Repair!KeptCopies(d, kept, r)
      BY <2>1, <1>5, <1>7
    <3> QED BY <3>1, <2>1, <1>4, <1>12
  <2>2. ASSUME Gathered(unit, r) PROVE \E f \in Repair!Sources(d) \union ToWrite(unit) : v4[f][r] > 0
    BY <2>2, <1>7, <1>2 DEF Gathered
  <2> QED BY <2>1, <2>2
<1>13. ASSUME NEW r \in RepairRows, v1[r] < FirstOpen, \A f \in Repair!Files : v4[f][r] > 0 => f[1] = v1[r],
              NEW p \in Places, unit.merged[p][r] > 0
       PROVE  p = v1[r]
  <2>1. PICK f \in Repair!Sources(d) : v4[f][r] > 0
    BY <1>13, <1>7, <1>2
  <2>2. Repair!Day(v1[r]) = d
    BY <2>1, <1>13, SourcesAre
  <2> QED BY <2>2, <1>3, <1>7, <1>13
<1>14. unit.skip \in BOOLEAN /\ unit.idle \in BOOLEAN
  BY <1>1
<1> QED BY <1>6, <1>8, <1>9, <1>10, <1>11, <1>12, <1>13, <1>14 DEF Planned, unit

LEMMA UnitsPlanned ==
  ASSUME Repair!TypeOK, NEW kind \in {"repartition", "thin"}, NEW d \in Nat, d <= Repair!LastDay,
        NEW unit \in Repair!Units(kind, d)
  PROVE  Planned(unit, kind, d)
<1>1. CASE kind = "thin"
  <2>1. PICK kept \in SUBSET Repair!Held(d) : Repair!Keeps(kept, Repair!Held(d)) /\
        unit = Repair!ThinUnit(d, kept)
    BY <1>1 DEF Repair!Units
  <2> QED BY <2>1, <1>1, ThinPlanned
<1>2. CASE kind = "repartition"
  BY <1>2, UnitPlanned DEF Repair!Units
<1> QED BY <1>1, <1>2
-----------------------------------------------------------------------------
LEMMA RepairIs ==
  ASSUME Repair!Guarded
  PROVE  /\ \A t \in Tools : /\ v6[t] \in Repair!Repairs /\ v6[t].day \in Nat /\ v6[t].left \subseteq Places
                             /\ v6[t].drop \subseteq Repair!Files /\
                                v6[t].merged \in [Places -> Repair!Copies]
                             /\ v6[t].skipped \in BOOLEAN /\ v6[t].kind \in {"repartition", "thin"}
         /\ \A t \in Tools, p \in Places, r \in RepairRows : v6[t].merged[p][r] \in Nat
         /\ \A t, u \in Tools : v6[t].step # "idle" /\ v6[u].step # "idle" => t = u
         /\ \A t \in Tools : Repair!Busy(t) => v6[t].step # "idle"
         /\ \A f \in Repair!Files, r \in RepairRows : v4[f][r] \in Nat
         /\ \A p \in Places : Repair!HourFile(p) \in Repair!Files /\ <<p, "part">> \in Repair!Files /\
            Repair!HourFile(p)[1] = p
         /\ \A p, q \in Places : Repair!HourFile(p) = Repair!HourFile(q) => p = q
<1>1. \A t \in Tools : /\ v6[t] \in Repair!Repairs /\ v6[t].day \in Nat /\ v6[t].left \subseteq Places
                       /\ v6[t].drop \subseteq Repair!Files /\ v6[t].merged \in [Places -> Repair!Copies]
                       /\ v6[t].skipped \in BOOLEAN /\ v6[t].kind \in {"repartition", "thin"}
  BY DEF Repair!Guarded, Repair!TypeOK, Repair!Repairs
<1>2. \A t \in Tools, p \in Places, r \in RepairRows : v6[t].merged[p][r] \in Nat
  BY <1>1 DEF Repair!Copies
<1>3. \A t, u \in Tools : v6[t].step # "idle" /\ v6[u].step # "idle" => t = u
  BY DEF Repair!Guarded, Repair!Locked
<1>4. \A f \in Repair!Files, r \in RepairRows : v4[f][r] \in Nat
  BY DEF Repair!Guarded, Repair!TypeOK, Repair!Copies
<1> QED BY <1>1, <1>2, <1>3, <1>4 DEF Repair!Busy, Repair!HourFile, Repair!Files

LEMMA RewritesAre == ASSUME Repair!Guarded, NEW t \in Tools PROVE Repair!Rewrites(t) \subseteq Repair!Files
<1>1. v6[t].left \subseteq Places /\ v6[t].drop \subseteq Repair!Files
  BY RepairIs
<1>2. \A p \in Places : Repair!HourFile(p) \in Repair!Files
  BY RepairIs
<1> QED BY <1>1, <1>2 DEF Repair!Rewrites

LEMMA RepairStarts == Repair!Init => Repair!RepairInv
<1> SUFFICES ASSUME Repair!Init PROVE Repair!RepairInv
  OBVIOUS
<1>1. Repair!None \in Repair!Copies /\ Repair!NoTool \in Repair!Repairs /\ Repair!NoMerge \in Repair!Merges
  BY HoursInRow DEF Repair!None, Repair!Copies, Repair!NoTool, Repair!Repairs, Repair!NoMerge, Repair!Merges
<1>2. \A f \in Repair!Files, r \in RepairRows : v4[f][r] = IF v2[r] = f THEN 1 ELSE 0
  BY DEF Repair!Init
<1>3. Repair!TypeOK
  <2>1. v4 \in [Repair!Files -> Repair!Copies]
    BY DEF Repair!Init, Repair!Copies
  <2>2. v3 \subseteq Repair!Files /\ v5 \subseteq Repair!Files
    BY DEF Repair!Init
  <2>3. v6 \in [Tools -> Repair!Repairs] /\ v8 \in Repair!Merges /\ v9 \in 0 .. MaxKills
    BY <1>1, KillsBounded DEF Repair!Init
  <2> QED BY <2>1, <2>2, <2>3 DEF Repair!Init, Repair!TypeOK
<1>4. \A t \in Tools : v6[t].step = "idle" /\ ~Repair!Busy(t)
  BY DEF Repair!Init, Repair!NoTool, Repair!Busy
<1>5. v8.step = "idle" /\ v11 = {} /\ v10 = [rewritten |-> {}, lost |-> {}] /\ v13 = FALSE /\ v5 = v3
  BY DEF Repair!Init, Repair!NoMerge
<1>6. Repair!Locked
  BY <1>4, RepairAssumption DEF Repair!Locked, Repair!Init
<1>7. \A r \in RepairRows : v2[r] \in Repair!Files /\ v2[r] = <<v2[r][1], v2[r][2]>>
  BY DEF Repair!Init, Repair!Files
<1>8. Repair!HandsOff
  <2>1. ASSUME NEW r \in RepairRows, NEW p \in Places, FirstOpen <= p
        PROVE  v4[Repair!HourFile(p)][r] + v4[<<p, "part">>][r] = IF v2[r][1] = p THEN 1 ELSE 0
    <3>1. Repair!HourFile(p) \in Repair!Files /\ <<p, "part">> \in Repair!Files
      BY DEF Repair!Files, Repair!HourFile
    <3>2. v2[r][1] = p => v2[r] = <<p, "part">>
      BY <1>7, <2>1 DEF Repair!Init
    <3> QED BY <1>2, <1>7, <3>1, <3>2 DEF Repair!HourFile
  <2> QED BY <2>1, <1>5 DEF Repair!HandsOff
<1>9. Repair!Guarded
  BY <1>3, <1>4, <1>5, <1>6, <1>8 DEF Repair!Guarded, Repair!KeepsToClosed
<1>10. Repair!NothingLost
  <2>1. \A r \in RepairRows : v4[v2[r]][r] = 1
    BY <1>2, <1>7
  <2> QED BY <2>1, <1>7 DEF Repair!NothingLost, Repair!Gone
<1>11. Repair!Single
  BY <1>2, <1>4, <1>5 DEF Repair!Single, Repair!Left
<1>12. Repair!Orderly
  BY <1>4, <1>5, <1>10, <1>11 DEF Repair!Orderly, Repair!Apart, Repair!MergeHolds, Repair!RepairHolds,
                                  Repair!FirstStays, Repair!Passed, Repair!Refiled
<1> QED BY <1>9, <1>12 DEF Repair!RepairInv

(* Nothing is being rewritten before or after. *)
LEMMA NothingRewritten ==
  ASSUME Repair!Orderly, UNCHANGED <<v1, v2, v4, v8, v10, v11>>,
         \A t \in Tools : ~Repair!Busy(t) /\ ~Repair!Busy(t)'
  PROVE  Repair!Apart' /\ Repair!MergeHolds' /\ Repair!RepairHolds' /\ Repair!NothingLost' /\
        Repair!FirstStays' /\ Repair!Single'
<1>1. Repair!Apart' /\ Repair!MergeHolds' /\ Repair!RepairHolds' /\ Repair!FirstStays'
  BY DEF Repair!Orderly, Repair!Apart, Repair!MergeHolds, Repair!RepairHolds, Repair!FirstStays,
         Repair!PartFile
<1>2. Repair!NothingLost'
  BY DEF Repair!Orderly, Repair!NothingLost, Repair!Gone, Repair!InHand
<1>3. Repair!Single'
  BY DEF Repair!Orderly, Repair!Single, Repair!Left, Repair!PartFile
<1> QED BY <1>1, <1>2, <1>3

LEMMA RepairBegins ==
  ASSUME Repair!RepairInv, NEW t \in Tools, NEW kind \in {"repartition", "thin"}, Repair!Start(t, kind)
  PROVE  Repair!RepairInv'
<1>1. /\ v7 = "free" /\ v7' = t /\ v6[t].step = "idle"
      /\ UNCHANGED <<v1, v2, v3, v4, v5, v8, v9, v10, v11, v12, v13>>
  BY DEF Repair!Start, Repair!TakeLock, Repair!tape
<1> DEFINE next == [Repair!NoTool EXCEPT !.step = "read", !.kind = kind]
<1>2. next \in Repair!Repairs /\ next.step = "read" /\ next.day = 0
  BY HoursInRow DEF Repair!NoTool, Repair!Repairs, Repair!None, Repair!Copies
<1>3. v6' = [v6 EXCEPT ![t] = next]
  BY DEF Repair!Start
<1> HIDE DEF next
<1>4. v6 \in [Tools -> Repair!Repairs] /\ v6' \in [Tools -> Repair!Repairs] /\ v6'[t] = next /\
      \A u \in Tools : u # t => v6'[u] = v6[u]
  BY <1>2, <1>3 DEF Repair!RepairInv, Repair!Guarded, Repair!TypeOK
<1>5. \A u \in Tools : v6[u].step = "idle"
  BY <1>1, RepairAssumption DEF Repair!RepairInv, Repair!Guarded, Repair!Locked
<1>6. \A u \in Tools : ~Repair!Busy(u) /\ ~Repair!Busy(u)'
  BY <1>2, <1>4, <1>5 DEF Repair!Busy
<1>7. Repair!TypeOK'
  BY <1>1, <1>4 DEF Repair!RepairInv, Repair!Guarded, Repair!TypeOK
<1>8. Repair!Locked' /\ Repair!KeepsToClosed' /\ Repair!HandsOff'
  <2>1. Repair!Locked'
    BY <1>1, <1>2, <1>4, <1>5 DEF Repair!Locked
  <2>2. Repair!KeepsToClosed'
    BY <1>1, <1>6 DEF Repair!RepairInv, Repair!Guarded, Repair!KeepsToClosed
  <2>3. Repair!HandsOff'
    BY <1>1 DEF Repair!RepairInv, Repair!Guarded, Repair!HandsOff
  <2> QED BY <2>1, <2>2, <2>3
<1>9. ASSUME ~v12' PROVE Repair!Orderly'
  <2>1. Repair!Orderly
    BY <1>1, <1>9 DEF Repair!RepairInv
  <2>2. Repair!Passed'
    <3>1. \A f \in Repair!Files : f[1] \in Nat
      BY HoursInRow DEF Repair!Files
    <3>2. \A f \in Repair!Files : ~(Repair!Day(f[1]) < 0)
      <4>1. \A f \in Repair!Files : Repair!Day(f[1]) \in Nat
        BY <3>1, DaysInRow
      <4> QED BY <4>1
    <3> QED BY <3>2, <1>2, <1>4, <1>5, <1>6 DEF Repair!Passed
  <2>3. Repair!Refiled'
    BY <2>1, <1>1, <1>6 DEF Repair!Orderly, Repair!Refiled, Repair!InClosed
  <2> QED BY <1>1, <1>6, <2>1, <2>2, <2>3, NothingRewritten DEF Repair!Orderly
<1> QED BY <1>7, <1>8, <1>9 DEF Repair!RepairInv, Repair!Guarded

LEMMA LockDeleted == ASSUME Repair!RepairInv, Repair!DeleteLock PROVE Repair!RepairInv'
<1>1. /\ v7 = "stale" /\ v7' = "free"
      /\ UNCHANGED <<v1, v2, v3, v4, v5, v6, v8, v9, v10, v11, v12, v13>>
  BY DEF Repair!DeleteLock, Repair!tape
<1>2. Repair!TypeOK' /\ Repair!Locked'
  BY <1>1, RepairAssumption DEF Repair!RepairInv, Repair!Guarded, Repair!TypeOK, Repair!Locked
<1>3. Repair!KeepsToClosed' /\ Repair!HandsOff'
  BY <1>1 DEF Repair!RepairInv, Repair!Guarded, Repair!KeepsToClosed, Repair!HandsOff, Repair!Busy,
              Repair!Rewrites
<1>4. ASSUME Repair!Orderly PROVE Repair!Orderly'
  <2>1. Repair!Apart' /\ Repair!MergeHolds' /\ Repair!RepairHolds' /\ Repair!FirstStays'
    BY <1>1, <1>4 DEF Repair!Orderly, Repair!Apart, Repair!MergeHolds, Repair!RepairHolds,
                      Repair!FirstStays, Repair!PartFile, Repair!Busy, Repair!Rewrites, Repair!Gathers
  <2>2. Repair!NothingLost'
    BY <1>1, <1>4 DEF Repair!Orderly, Repair!NothingLost, Repair!Gone, Repair!InHand, Repair!Busy
  <2>3. Repair!Single'
    BY <1>1, <1>4 DEF Repair!Orderly, Repair!Single, Repair!Left, Repair!PartFile, Repair!Busy,
                      Repair!Rewrites, Repair!Gathers
  <2>4. Repair!Passed' /\ Repair!Refiled'
    BY <1>1, <1>4 DEF Repair!Orderly, Repair!Passed, Repair!Refiled, Repair!Busy, Repair!Gathers, Repair!Rewrites,
                      Repair!InClosed
  <2> QED BY <2>1, <2>2, <2>3, <2>4 DEF Repair!Orderly
<1> QED BY <1>1, <1>2, <1>3, <1>4 DEF Repair!RepairInv, Repair!Guarded

(* A day left as it is, and one to be rewritten. *)
RestStands == UNCHANGED <<v1, v2, v3, v4, v5, v7, v8, v9, v10, v13>>

LeavesDay(t, unit) ==
  /\ v6' = [v6 EXCEPT ![t].day = @ + 1, ![t].skipped = @ \/ unit.skip]
  /\ UNCHANGED <<v11, v12>>

TakesDay(t, unit) ==
  /\ v6' = [v6 EXCEPT ![t].step = "write", ![t].merged = unit.merged, ![t].left = unit.targets,
                          ![t].drop = Repair!Sources(v6[t].day) \ {Repair!HourFile(p) : p \in unit.targets}]
  /\ v11' = v11 \union {r \in Repair!Held(v6[t].day) :
                                  v6[t].kind = "thin" /\ \A p \in Places : unit.merged[p][r] = 0}
  /\ v12' = (v12 \/ v8.step # "idle")

LEMMA DayLeft ==
  ASSUME Repair!RepairInv, NEW t \in Tools, v6[t].step = "read", NEW unit,
         Planned(unit, v6[t].kind, v6[t].day), unit.skip \/ unit.idle, LeavesDay(t, unit), RestStands
  PROVE  Repair!RepairInv'
<1> DEFINE d == v6[t].day
           next == [v6[t] EXCEPT !.day = @ + 1, !.skipped = @ \/ unit.skip]
<1>1. /\ next \in Repair!Repairs /\ next.step = "read" /\ next.day = d + 1 /\ next.kind = v6[t].kind
      /\ (~next.skipped => ~v6[t].skipped /\ ~unit.skip)
  <2>1. unit.skip \in BOOLEAN
    BY DEF Planned
  <2>2. v6[t] \in Repair!Repairs /\ v6[t].day \in Nat /\ v6[t].skipped \in BOOLEAN
    BY RepairIs DEF Repair!RepairInv
  <2>3. (v6[t].skipped \/ unit.skip) \in BOOLEAN /\ d + 1 \in Nat
    BY <2>1, <2>2
  <2> QED BY <2>2, <2>3 DEF Repair!Repairs
<1>2. v6' = [v6 EXCEPT ![t] = next] /\ v6 \in [Tools -> Repair!Repairs]
  BY DEF Repair!RepairInv, Repair!Guarded, Repair!TypeOK, LeavesDay
<1> HIDE DEF next
<1>3. v6' \in [Tools -> Repair!Repairs] /\ v6'[t] = next /\ \A u \in Tools : u # t => v6'[u] = v6[u]
  <2>1. next \in Repair!Repairs
    BY <1>1
  <2> QED BY <2>1, <1>2
<1>4. \A u \in Tools : u # t => v6[u].step = "idle"
  BY RepairIs DEF Repair!RepairInv
<1>5. \A u \in Tools : ~Repair!Busy(u) /\ ~Repair!Busy(u)'
  BY <1>1, <1>3, <1>4 DEF Repair!Busy
<1>0. UNCHANGED <<v1, v2, v3, v4, v5, v7, v8, v9, v10, v13, v11, v12>>
  BY DEF RestStands, LeavesDay
<1>6. Repair!TypeOK'
  BY <1>0, <1>3 DEF Repair!RepairInv, Repair!Guarded, Repair!TypeOK
<1>7. Repair!Locked' /\ Repair!KeepsToClosed' /\ Repair!HandsOff'
  <2>1. Repair!Locked'
    BY <1>0, <1>1, <1>3, <1>4 DEF Repair!RepairInv, Repair!Guarded, Repair!Locked
  <2>2. Repair!KeepsToClosed'
    BY <1>0, <1>5 DEF Repair!RepairInv, Repair!Guarded, Repair!KeepsToClosed
  <2>3. Repair!HandsOff'
    BY <1>0 DEF Repair!RepairInv, Repair!Guarded, Repair!HandsOff
  <2> QED BY <2>1, <2>2, <2>3
<1>8. ASSUME ~v12' PROVE Repair!Orderly'
  <2>1. Repair!Orderly
    BY <1>0, <1>8 DEF Repair!RepairInv
  <2>2. Repair!Passed'
    <3> SUFFICES ASSUME v6[t].kind = "repartition", ~next.skipped,
                        NEW r \in RepairRows, v1[r] < FirstOpen,
                        NEW f \in Repair!Files, f[1] < FirstOpen, Repair!Day(f[1]) < d + 1, v4[f][r] > 0
                 PROVE  f[1] = v1[r]
      <4>1. \A u \in Tools : u # t => v6'[u].step = "idle"
        BY <1>3, <1>4
      <4>2. v6'[t].day = d + 1 /\ v6'[t].kind = v6[t].kind /\ v6'[t].skipped = next.skipped
        BY <1>1, <1>3
      <4> QED BY <4>1, <4>2, <1>0, <1>5 DEF Repair!Passed
    <3>1. f[1] \in Nat /\ Repair!Day(f[1]) \in Nat /\ d \in Nat
      <4>1. f[1] \in Nat
        BY HoursInRow DEF Repair!Files
      <4> QED BY <4>1, DaysInRow, RepairIs DEF Repair!RepairInv
    <3>2. CASE Repair!Day(f[1]) < d
      BY <3>2, <2>1, <1>1 DEF Repair!Orderly, Repair!Passed
    <3>3. CASE Repair!Day(f[1]) = d
      <4>1. f \in Repair!Sources(d)
        BY <3>1, <3>3, SourcesAre DEF Repair!RepairInv, Repair!Guarded
      <4>2. Repair!Placement(f, r) = f[1]
        BY <4>1, <1>1 DEF Planned
      <4>3. v1[r] \in Nat /\ v1[r] # Repair!Unknown
        <5>1. v1[r] \in Places \union {Repair!Unknown}
          BY DEF Repair!RepairInv, Repair!Guarded, Repair!TypeOK
        <5>2. Repair!Unknown \in Nat /\ FirstOpen \in Nat /\ FirstOpen <= Repair!Unknown /\
              Places \subseteq Nat
          BY HoursInRow
        <5>3. v1[r] \in Nat
          BY <5>1, <5>2
        <5>4. v1[r] < FirstOpen
          OBVIOUS
        <5> QED BY <5>2, <5>3, <5>4
      <4> QED BY <4>2, <4>3, HoursInRow DEF Repair!Placement
    <3> QED BY <3>1, <3>2, <3>3
  <2>3. Repair!Refiled'
    BY <1>0, <2>1, <1>5 DEF Repair!Orderly, Repair!Refiled, Repair!InClosed
  <2> QED BY <1>0, <1>5, <2>1, <2>2, <2>3, NothingRewritten DEF Repair!Orderly
<1> QED BY <1>6, <1>7, <1>8 DEF Repair!RepairInv, Repair!Guarded

(* A day to be rewritten. *)
LEMMA DayTaken ==
  ASSUME Repair!RepairInv, NEW t \in Tools, v6[t].step = "read", NEW unit,
         Planned(unit, v6[t].kind, v6[t].day), ~unit.skip, v6[t].day <= Repair!LastDay,
         TakesDay(t, unit), RestStands
  PROVE  Repair!RepairInv'
<1> DEFINE d == v6[t].day
           drops == Repair!Sources(d) \ ToWrite(unit)
           next == [v6[t] EXCEPT !.step = "write", !.merged = unit.merged, !.left = unit.targets, !.drop = drops]
<1>0. Repair!TypeOK /\ d \in Nat /\ Repair!Sources(d) \subseteq Repair!Files /\
      \A f \in Repair!Sources(d) : f[1] < FirstOpen
  <2>1. Repair!TypeOK /\ d \in Nat
    BY RepairIs DEF Repair!RepairInv, Repair!Guarded
  <2>2. Repair!Sources(d) \subseteq Repair!Files /\ \A f \in Repair!Sources(d) :
        f[1] \in Nat /\ Repair!Day(f[1]) <= Repair!LastDay
    BY <2>1, SourcesAre, HoursInRow
  <2> QED BY <2>1, <2>2, DaysInRow
<1>1. /\ next \in Repair!Repairs /\ next.step = "write" /\ next.day = d /\ next.kind = v6[t].kind
      /\ next.skipped = v6[t].skipped /\ next.merged = unit.merged /\ next.left = unit.targets /\
         next.drop = drops
  <2>1. unit.merged \in [Places -> Repair!Copies] /\ unit.targets \subseteq Places
    BY DEF Planned
  <2>2. v6[t] \in Repair!Repairs /\ drops \subseteq Repair!Files
    BY <1>0, RepairIs DEF Repair!RepairInv
  <2> HIDE DEF drops
  <2> QED BY <2>1, <2>2 DEF Repair!Repairs
<1>2. v6' = [v6 EXCEPT ![t] = next] /\ v6 \in [Tools -> Repair!Repairs]
  BY <1>0 DEF Repair!TypeOK, ToWrite, TakesDay
<1> HIDE DEF next, drops
<1>3. v6' \in [Tools -> Repair!Repairs] /\ v6'[t] = next /\ \A u \in Tools : u # t => v6'[u] = v6[u]
  <2>1. next \in Repair!Repairs
    BY <1>1
  <2> QED BY <2>1, <1>2
<1>4. \A u \in Tools : u # t => v6[u].step = "idle"
  BY RepairIs DEF Repair!RepairInv
<1>5. /\ \A u \in Tools : ~Repair!Busy(u) /\ (u # t => ~Repair!Busy(u)')
      /\ Repair!Busy(t)' /\ Repair!Rewrites(t)' = Repair!Sources(d) \union ToWrite(unit)
      /\ \A r \in RepairRows : Repair!Gathers(t, r)' <=> Gathered(unit, r)
  BY <1>1, <1>3, <1>4 DEF Repair!Busy, Repair!Rewrites, ToWrite, Repair!Gathers, Gathered, drops
<1>9. /\ UNCHANGED <<v1, v2, v3, v4, v5, v7, v8, v9, v10, v13>>
      /\ v12' = (v12 \/ v8.step # "idle")
      /\ v11' = v11 \union {r \in Repair!Held(d) : v6[t].kind = "thin" /\ \A p \in Places :
           unit.merged[p][r] = 0}
  BY DEF RestStands, TakesDay
<1>6. Repair!TypeOK'
  <2>1. v11' \subseteq RepairRows /\ v12' \in BOOLEAN
    BY <1>0, <1>9 DEF Repair!TypeOK, Repair!Held
  <2> QED BY <2>1, <1>3, <1>0, <1>9 DEF Repair!TypeOK
<1>7. Repair!Locked' /\ Repair!KeepsToClosed' /\ Repair!HandsOff'
  <2>1. Repair!Locked'
    BY <1>9, <1>1, <1>3, <1>4 DEF Repair!RepairInv, Repair!Guarded, Repair!Locked
  <2>2. Repair!KeepsToClosed'
    <3>1. \A f \in Repair!Sources(d) \union ToWrite(unit) : f[1] < FirstOpen /\ f \notin v5
      BY <1>0, SourcesAre DEF Planned, ToWrite
    <3> QED BY <1>9, <3>1, <1>5 DEF Repair!RepairInv, Repair!Guarded, Repair!KeepsToClosed
  <2>3. Repair!HandsOff'
    BY <1>9 DEF Repair!RepairInv, Repair!Guarded, Repair!HandsOff
  <2> QED BY <2>1, <2>2, <2>3
<1>8. ASSUME ~v12' PROVE Repair!Orderly'
  <2>1. Repair!Orderly /\ v8.step = "idle"
    BY <1>9, <1>8 DEF Repair!RepairInv
  <2>2. Repair!Apart' /\ Repair!MergeHolds'
    BY <1>9, <2>1 DEF Repair!Apart, Repair!MergeHolds
  <2>3. \A r \in RepairRows \ v10.rewritten : OneCopy(r)
    <3>1. ASSUME NEW r \in RepairRows \ v10.rewritten PROVE OneCopy(r)
      <4>1. \A f, g \in Repair!Files : v4[f][r] > 0 /\ v4[g][r] > 0 => f = g
        BY <2>1, <1>5 DEF Repair!Orderly, Repair!Single, Repair!Left
      <4>2. \A f \in Repair!Files : v4[f][r] \in Nat /\ v4[f][r] <= 1
        BY <2>1, RepairIs DEF Repair!Orderly, Repair!Single, Repair!RepairInv
      <4> QED BY <4>1, <4>2 DEF OneCopy
    <3> QED BY <3>1
  <2>4. Repair!RepairHolds'
    <3>1. \A p \in Places, r \in RepairRows : unit.merged[p][r] > 0 =>
          Repair!HourFile(p) \notin drops /\ p \in unit.targets
      BY DEF Planned, ToWrite, drops
    <3>2. ASSUME NEW r \in RepairRows \ v11', ~Gathered(unit, r),
                 NEW f \in Repair!Sources(d) \union ToWrite(unit)
          PROVE  v4[f][r] = 0
      <4>1. ~(v6[t].kind = "thin" /\ r \in Repair!Held(d))
        <5>1. \A p \in Places : unit.merged[p][r] \in Nat /\ ~(unit.merged[p][r] > 0)
          BY <3>2 DEF Planned, Repair!Copies, Gathered
        <5> QED BY <5>1, <3>2, <1>9
      <4>2. r \in RepairRows
        BY <3>2
      <4> QED BY <4>1, <4>2, <3>2 DEF Planned
    <3>3. /\ v6'[t].step = "write" /\ v6'[t].left = unit.targets /\ v6'[t].drop = drops
          /\ v6'[t].merged = unit.merged
      BY <1>1, <1>3
    <3> QED BY <3>1, <3>2, <3>3, <1>5, <1>9 DEF Repair!RepairHolds
  <2>5. Repair!NothingLost'
    <3>1. \A r \in RepairRows : Repair!Gone(r)' = Repair!Gone(r) /\ ~Repair!InHand(r)
      BY <1>5, <1>9 DEF Repair!Gone, Repair!InHand
    <3> QED BY <1>9, <3>1, <2>1 DEF Repair!Orderly, Repair!NothingLost
  <2>6. Repair!FirstStays'
    <3>1. ASSUME NEW r \in Repair!Held(d), v6[t].kind = "thin", \A p \in Places : unit.merged[p][r] = 0
          PROVE  v1[r] # Repair!Unknown /\ r # 1
      <4>1. r \in RepairRows /\ ~Gathered(unit, r)
        BY <3>1 DEF Repair!Held, Gathered
      <4>2. PICK f \in Repair!Sources(d) : v4[f][r] > 0
        BY <3>1 DEF Repair!Held
      <4> QED BY <4>1, <4>2 DEF Planned
    <3> QED BY <1>9, <3>1, <2>1 DEF Repair!Orderly, Repair!FirstStays
  <2>7. Repair!Single'
    <3>1. ASSUME NEW r \in RepairRows \ v10.rewritten
          PROVE  /\ \A f \in Repair!Files : v4[f][r] <= 1
                 /\ \A f, g \in Repair!Files : v4[f][r] > 0 /\ v4[g][r] > 0 => f = g
                 /\ \A p, q \in Places : unit.merged[p][r] > 0 /\ unit.merged[q][r] > 0 =>
                      p = q /\ unit.merged[p][r] = 1
                 /\ Gathered(unit, r) => \A f \in Repair!Files \ (Repair!Sources(d) \union ToWrite(unit)) : ~(v4[f][r] > 0)
      <4>1. OneCopy(r)
        BY <2>3
      <4>2. Gathered(unit, r) => \E f \in Repair!Sources(d) \union ToWrite(unit) : v4[f][r] > 0
        BY <4>1 DEF Planned
      <4>3. ToWrite(unit) \subseteq Repair!Files
        BY SourcesAre, <1>0 DEF Planned, ToWrite
      <4>4. Gathered(unit, r) => \A f \in Repair!Files \ (Repair!Sources(d) \union ToWrite(unit)) :
            ~(v4[f][r] > 0)
        BY <4>1, <4>2, <4>3, <1>0 DEF OneCopy
      <4>5. \A p, q \in Places : unit.merged[p][r] > 0 /\ unit.merged[q][r] > 0 =>
            p = q /\ unit.merged[p][r] = 1
        BY <4>1 DEF Planned
      <4> QED BY <4>1, <4>4, <4>5, <2>1 DEF OneCopy, Repair!Orderly, Repair!Single
    <3>2. \A f \in Repair!Files, r \in RepairRows : Repair!Left(f, r)' = v4[f][r]
      BY <1>9, <2>1 DEF Repair!Left
    <3>3. v6'[t].merged = unit.merged
      BY <1>1, <1>3
    <3> QED BY <3>1, <3>2, <3>3, <1>5, <1>9 DEF Repair!Single
  <2>8. Repair!Passed'
    <3> SUFFICES ASSUME v6[t].kind = "repartition", NEW r \in RepairRows, v1[r] < FirstOpen
                 PROVE  /\ ~v6[t].skipped => \A f \in Repair!Files :
                             f[1] < FirstOpen /\ Repair!Day(f[1]) < d /\ v4[f][r] > 0 => f[1] = v1[r]
                        /\ ~v6[t].skipped => \A p \in Places :
                             Repair!Day(p) <= d /\ unit.merged[p][r] > 0 => p = v1[r]
                        /\ ~Gathered(unit, r) => \A f \in Repair!Files : Repair!Day(f[1]) = d =>
                             v4[f][r] = 0
                        /\ \A f \in Repair!Files \ (Repair!Sources(d) \union ToWrite(unit)) :
                             Repair!Day(f[1]) = d => ~(v4[f][r] > 0)
      <4>1. \A u \in Tools : u # t => v6'[u].step = "idle"
        BY <1>3, <1>4
      <4>2. /\ v6'[t].day = d /\ v6'[t].kind = v6[t].kind /\ v6'[t].skipped = v6[t].skipped
            /\ v6'[t].merged = unit.merged
        BY <1>1, <1>3
      <4> QED BY <4>1, <4>2, <1>5, <1>9 DEF Repair!Passed
    <3>1. ~v6[t].skipped => \A f \in Repair!Files :
                             f[1] < FirstOpen /\ Repair!Day(f[1]) < d /\ v4[f][r] > 0 => f[1] = v1[r]
      BY <2>1 DEF Repair!Orderly, Repair!Passed
    <3>2. ASSUME ~v6[t].skipped, NEW p \in Places, Repair!Day(p) <= d, unit.merged[p][r] > 0 PROVE p = v1[r]
      <4>1. p = v1[r] \/ (Repair!Day(p) # d /\ v4[Repair!HourFile(p)][r] > 0)
        BY <3>2 DEF Planned
      <4>2. Repair!Day(p) # d => Repair!Day(p) < d
        <5>1. Repair!Day(p) \in Nat
          BY DaysInRow, HoursInRow
        <5> QED BY <5>1, <3>2, <1>0
      <4>3. p < FirstOpen
        BY <3>2 DEF Planned
      <4> QED BY <4>1, <4>2, <4>3, <3>1, <3>2, SourcesAre, <1>0
    <3>3. ~Gathered(unit, r) => \A f \in Repair!Files : Repair!Day(f[1]) = d => v4[f][r] = 0
      BY DEF Planned
    <3>4. \A f \in Repair!Files \ Repair!Sources(d) : Repair!Day(f[1]) = d => ~(v4[f][r] > 0)
      BY SourcesAre, <1>0
    <3> QED BY <3>1, <3>2, <3>3, <3>4
  <2>9. Repair!Refiled'
    <3> SUFFICES ASSUME v13, NEW r \in RepairRows, Repair!InClosed(r), v1[r] < FirstOpen
                 PROVE  /\ \A f \in Repair!Files : v4[f][r] > 0 => f[1] = v1[r]
                        /\ \A p \in Places : unit.merged[p][r] > 0 => p = v1[r]
      BY <1>1, <1>3, <1>5, <1>9 DEF Repair!Refiled, Repair!InClosed
    <3>1. \A f \in Repair!Files : v4[f][r] > 0 => f[1] = v1[r]
      BY <2>1 DEF Repair!Orderly, Repair!Refiled
    <3> QED BY <3>1 DEF Planned
  <2> QED BY <2>2, <2>4, <2>5, <2>6, <2>7, <2>8, <2>9 DEF Repair!Orderly
<1> QED BY <1>6, <1>7, <1>8 DEF Repair!RepairInv, Repair!Guarded

LEMMA DayRead == ASSUME Repair!RepairInv, NEW t \in Tools, Repair!Read(t) PROVE Repair!RepairInv'
<1>1. PICK unit \in Repair!Units(v6[t].kind, v6[t].day) :
        IF unit.skip \/ unit.idle THEN LeavesDay(t, unit) ELSE TakesDay(t, unit)
  BY DEF Repair!Read, LeavesDay, TakesDay
<1>2. v6[t].step = "read" /\ v6[t].day <= Repair!LastDay /\ RestStands
  BY DEF Repair!Read, Repair!tape, RestStands
<1>3. v6[t].kind \in {"repartition", "thin"} /\ v6[t].day \in Nat /\ Repair!TypeOK
  BY RepairIs DEF Repair!RepairInv, Repair!Guarded
<1>4. Planned(unit, v6[t].kind, v6[t].day)
  BY <1>2, <1>3, UnitsPlanned
<1>5. CASE unit.skip \/ unit.idle
  BY <1>1, <1>2, <1>4, <1>5, DayLeft
<1>6. CASE ~(unit.skip \/ unit.idle)
  BY <1>1, <1>2, <1>4, <1>6, DayTaken
<1> QED BY <1>5, <1>6

LEMMA HourRewritten ==
  ASSUME Repair!RepairInv, NEW t \in Tools, NEW p \in Places, Repair!Write(t, p)
  PROVE  Repair!RepairInv'
<1> DEFINE next == [v6[t] EXCEPT !.left = @ \ {p}, !.step = IF v6[t].left = {p} THEN "unlink" ELSE "write"]
           g == Repair!HourFile(p)
<1>1. /\ v6[t].step = "write" /\ p \in v6[t].left /\ Repair!Busy(t) /\ Repair!Guarded
      /\ v4' = [v4 EXCEPT ![g] = v6[t].merged[p]] /\ v5' = v5 \ {g}
      /\ UNCHANGED <<v1, v2, v3, v7, v8, v9, v10, v11, v12, v13>>
  BY DEF Repair!Write, Repair!tape, Repair!RepairInv, Repair!Busy
<1>2. /\ next \in Repair!Repairs /\ next.step \in {"write", "unlink"} /\ next.day = v6[t].day /\ next.kind = v6[t].kind
      /\ next.skipped = v6[t].skipped /\ next.merged = v6[t].merged
      /\ next.left = v6[t].left \ {p} /\ next.drop = v6[t].drop
      /\ (next.step = "unlink" => next.left = {})
  BY <1>1, RepairIs DEF Repair!Repairs
<1>3. v6' = [v6 EXCEPT ![t] = next] /\ v6 \in [Tools -> Repair!Repairs]
  BY <1>1 DEF Repair!Write, Repair!Guarded, Repair!TypeOK
<1> HIDE DEF next
<1>4. v6' \in [Tools -> Repair!Repairs] /\ v6'[t] = next /\ \A u \in Tools : u # t => v6'[u] = v6[u]
  <2>1. next \in Repair!Repairs
    BY <1>2
  <2> QED BY <2>1, <1>3
<1>5. \A u \in Tools : u # t => v6[u].step = "idle"
  BY <1>1, RepairIs
<1>6. /\ \A u \in Tools : u # t => ~Repair!Busy(u) /\ ~Repair!Busy(u)'
      /\ Repair!Busy(t)' /\ \A r \in RepairRows : Repair!Gathers(t, r)' <=> Repair!Gathers(t, r)
      /\ Repair!Rewrites(t)' = (Repair!Rewrites(t) \ {g}) \union v6[t].drop /\ g \in Repair!Rewrites(t) /\
         Repair!Rewrites(t)' \subseteq Repair!Rewrites(t)
  <2>1. Repair!Rewrites(t) = {Repair!HourFile(q) : q \in v6[t].left} \union v6[t].drop
    BY DEF Repair!Rewrites
  <2>2. Repair!Rewrites(t)' = {Repair!HourFile(q) : q \in v6[t].left \ {p}} \union v6[t].drop
    BY <1>2, <1>4 DEF Repair!Rewrites
  <2>3. Repair!Rewrites(t)' = (Repair!Rewrites(t) \ {g}) \union v6[t].drop /\ g \in Repair!Rewrites(t) /\
        Repair!Rewrites(t)' \subseteq Repair!Rewrites(t)
    BY <2>1, <2>2, <1>1, RepairIs
  <2> QED BY <2>3, <1>2, <1>4, <1>5 DEF Repair!Busy, Repair!Gathers
<1>7. g \in Repair!Files /\ p < FirstOpen /\ g \notin v5 /\ g[1] = p
  BY <1>1, <1>6, RepairIs DEF Repair!Guarded, Repair!KeepsToClosed
<1>8. /\ v4' \in [Repair!Files -> Repair!Copies] /\ v4'[g] = v6[t].merged[p] /\ \A f \in Repair!Files : f # g => v4'[f] = v4[f]
      /\ v5' = v5
  BY <1>1, <1>7, RepairIs DEF Repair!Guarded, Repair!TypeOK
<1>9. Repair!TypeOK'
  BY <1>1, <1>4, <1>8 DEF Repair!Guarded, Repair!TypeOK
<1>10. Repair!Locked' /\ Repair!KeepsToClosed' /\ Repair!HandsOff'
  <2>1. Repair!Locked'
    BY <1>1, <1>2, <1>4, <1>5 DEF Repair!Guarded, Repair!Locked
  <2>2. Repair!KeepsToClosed'
    BY <1>1, <1>6, <1>8 DEF Repair!Guarded, Repair!KeepsToClosed
  <2>3. Repair!HandsOff'
    <3>1. ASSUME NEW r \in RepairRows, NEW q \in Places, FirstOpen <= q
          PROVE  v4'[Repair!HourFile(q)] = v4[Repair!HourFile(q)] /\ v4'[<<q, "part">>] = v4[<<q, "part">>]
      <4>1. Repair!HourFile(q) \in Repair!Files /\ <<q, "part">> \in Repair!Files /\
            Repair!HourFile(q) # g /\ <<q, "part">> # g
        BY <3>1, <1>7, RepairIs, <1>1, HoursInRow DEF Repair!HourFile
      <4> QED BY <4>1, <1>8
    <3> QED BY <3>1, <1>1, <1>8 DEF Repair!Guarded, Repair!HandsOff
  <2> QED BY <2>1, <2>2, <2>3
<1>11. ASSUME ~v12' PROVE Repair!Orderly'
  <2>1. Repair!Orderly /\ v8.step = "idle"
    BY <1>11, <1>1 DEF Repair!RepairInv, Repair!Orderly, Repair!Apart
  <2>2. Repair!Apart' /\ Repair!MergeHolds'
    BY <2>1, <1>1 DEF Repair!Apart, Repair!MergeHolds
  <2>3. \A r \in RepairRows : v4'[g][r] = v6[t].merged[p][r] /\ v6[t].merged[p][r] \in Nat
    BY <1>8, <1>1, RepairIs
  <2>4. Repair!RepairHolds'
    <3>1. ASSUME NEW q \in Places, NEW r \in RepairRows, v6[t].merged[q][r] > 0
          PROVE  /\ Repair!HourFile(q) \notin v6[t].drop
                 /\ q \notin v6[t].left \ {p} => v4'[Repair!HourFile(q)][r] = v6[t].merged[q][r]
      <4>1. Repair!HourFile(q) \notin v6[t].drop /\ (q \notin v6[t].left =>
            v4[Repair!HourFile(q)][r] = v6[t].merged[q][r])
        BY <3>1, <2>1, <1>1 DEF Repair!Orderly, Repair!RepairHolds
      <4>2. q # p => Repair!HourFile(q) # g /\ Repair!HourFile(q) \in Repair!Files
        BY <1>1, RepairIs
      <4> QED BY <4>1, <4>2, <2>3, <1>8
    <3>2. ASSUME NEW r \in RepairRows \ v11, ~Repair!Gathers(t, r),
                 NEW f \in Repair!Rewrites(t) PROVE v4'[f][r] = 0
      <4>1. f \in Repair!Files /\ v4[f][r] = 0
        <5>1. f \in Repair!Files
          BY <3>2, <1>1, RewritesAre
        <5> QED BY <5>1, <3>2, <2>1, <1>1 DEF Repair!Orderly, Repair!RepairHolds
      <4>2. v6[t].merged[p][r] = 0
        BY <3>2, <2>3 DEF Repair!Gathers
      <4> QED BY <4>1, <4>2, <1>8, <2>3
    <3> QED BY <3>1, <3>2, <1>1, <1>2, <1>4, <1>6 DEF Repair!RepairHolds
  <2>5. Repair!NothingLost'
    <3> SUFFICES ASSUME NEW r \in RepairRows \ (v11 \union v10.lost), Repair!Gone(r)' PROVE Repair!InHand(r)'
      BY <1>1 DEF Repair!NothingLost
    <3>1. \A f \in Repair!Files : v4'[f][r] = 0
      BY DEF Repair!Gone
    <3>2. v6[t].merged[p][r] = 0
      BY <3>1, <2>3, <1>7
    <3>3. Repair!Gathers(t, r)
      <4>1. CASE Repair!Gone(r)
        <5>1. Repair!InHand(r)
          BY <4>1, <2>1 DEF Repair!Orderly, Repair!NothingLost
        <5> QED BY <5>1, <1>6 DEF Repair!InHand, Repair!Gathers
      <4>2. CASE ~Repair!Gone(r)
        <5>1. PICK f \in Repair!Files : v4[f][r] # 0
          BY <4>2 DEF Repair!Gone
        <5>2. f = g
          BY <5>1, <3>1, <1>8
        <5> QED BY <5>1, <5>2, <1>1, <1>6, <2>1 DEF Repair!Orderly, Repair!RepairHolds
      <4> QED BY <4>1, <4>2
    <3>4. PICK q \in Places : v6[t].merged[q][r] > 0
      BY <3>3 DEF Repair!Gathers
    <3>5. q # p
      BY <3>2, <3>4
    <3>6. q \in v6[t].left
      <4>1. q \notin v6[t].left => v4[Repair!HourFile(q)][r] = v6[t].merged[q][r]
        BY <3>4, <2>1, <1>1 DEF Repair!Orderly, Repair!RepairHolds
      <4>2. Repair!HourFile(q) # g /\ Repair!HourFile(q) \in Repair!Files
        BY <3>5, <1>1, RepairIs
      <4>3. v4[Repair!HourFile(q)][r] = 0
        BY <4>2, <3>1, <1>8
      <4> QED BY <4>1, <4>3, <3>4
    <3> QED BY <3>4, <3>5, <3>6, <1>2, <1>4, <1>6 DEF Repair!InHand
  <2>6. Repair!FirstStays'
    BY <2>1, <1>1 DEF Repair!Orderly, Repair!FirstStays
  <2>7. Repair!Single'
    <3>1. \A f \in Repair!Files, r \in RepairRows :
          Repair!Left(f, r) = v4[f][r] /\ Repair!Left(f, r)' = v4'[f][r]
      BY <2>1, <1>1 DEF Repair!Left
    <3>2. ASSUME NEW r \in RepairRows \ v10.rewritten
          PROVE  /\ \A f \in Repair!Files : v4'[f][r] <= 1
                 /\ ~Repair!Gathers(t, r) => \A f, h \in Repair!Files : v4'[f][r] > 0 /\ v4'[h][r] > 0 =>
                      f = h
                 /\ \A q, s \in Places : v6[t].merged[q][r] > 0 /\ v6[t].merged[s][r] > 0 =>
                      q = s /\ v6[t].merged[q][r] = 1
                 /\ Repair!Gathers(t, r) => \A f \in Repair!Files \ Repair!Rewrites(t)' : v4'[f][r] > 0 =>
                      \E q \in Places : f = Repair!HourFile(q) /\ v6[t].merged[q][r] > 0
      <4>1. /\ \A f \in Repair!Files : v4[f][r] <= 1
            /\ ~Repair!Gathers(t, r) => \A f, h \in Repair!Files : v4[f][r] > 0 /\ v4[h][r] > 0 => f = h
            /\ \A q, s \in Places : v6[t].merged[q][r] > 0 /\ v6[t].merged[s][r] > 0 =>
                 q = s /\ v6[t].merged[q][r] = 1
            /\ Repair!Gathers(t, r) => \A f \in Repair!Files \ Repair!Rewrites(t) : v4[f][r] > 0 =>
                 \E q \in Places : f = Repair!HourFile(q) /\ v6[t].merged[q][r] > 0
        BY <3>1, <2>1, <1>1, <1>6 DEF Repair!Orderly, Repair!Single
      <4>2. r \in RepairRows
        BY <3>2
      <4>3. v4'[g][r] <= 1 /\ (~Repair!Gathers(t, r) => v4'[g][r] = 0)
        BY <4>1, <4>2, <2>3 DEF Repair!Gathers
      <4>4. \A f \in Repair!Files \ Repair!Rewrites(t)' : f # g => f \notin Repair!Rewrites(t)
        BY <1>6
      <4> QED BY <4>1, <4>2, <4>3, <4>4, <2>3, <1>8
    <3>3. v6'[t].merged = v6[t].merged
      BY <1>2, <1>4
    <3> QED BY <3>1, <3>2, <3>3, <1>1, <1>6 DEF Repair!Single
  <2>8. Repair!Passed'
    <3>1. ASSUME v6[t].kind = "repartition", NEW r \in RepairRows, v1[r] < FirstOpen
          PROVE  /\ ~v6[t].skipped => \A f \in Repair!Files :
                      f[1] < FirstOpen /\ Repair!Day(f[1]) < v6[t].day /\ v4'[f][r] > 0 => f[1] = v1[r]
                 /\ ~v6[t].skipped => \A q \in Places :
                      Repair!Day(q) <= v6[t].day /\ v6[t].merged[q][r] > 0 => q = v1[r]
                 /\ ~Repair!Gathers(t, r) => \A f \in Repair!Files : Repair!Day(f[1]) = v6[t].day =>
                      v4'[f][r] = 0
                 /\ \A f \in Repair!Files \ Repair!Rewrites(t)' : Repair!Day(f[1]) = v6[t].day /\ v4'[f][r] > 0 =>
                      \E q \in Places : f = Repair!HourFile(q) /\ v6[t].merged[q][r] > 0
      <4>1. /\ ~v6[t].skipped => \A f \in Repair!Files :
                 f[1] < FirstOpen /\ Repair!Day(f[1]) < v6[t].day /\ v4[f][r] > 0 => f[1] = v1[r]
            /\ ~v6[t].skipped => \A q \in Places :
                 Repair!Day(q) <= v6[t].day /\ v6[t].merged[q][r] > 0 => q = v1[r]
            /\ ~Repair!Gathers(t, r) => \A f \in Repair!Files : Repair!Day(f[1]) = v6[t].day => v4[f][r] = 0
            /\ \A f \in Repair!Files \ Repair!Rewrites(t) : Repair!Day(f[1]) = v6[t].day /\ v4[f][r] > 0 =>
                 \E q \in Places : f = Repair!HourFile(q) /\ v6[t].merged[q][r] > 0
        BY <3>1, <2>1, <1>1 DEF Repair!Orderly, Repair!Passed
      <4>2. v4'[g][r] = v6[t].merged[p][r] /\ v6[t].merged[p][r] \in Nat /\ Repair!Day(p) \in Nat /\
            v6[t].day \in Nat
        BY <2>3, <1>1, RepairIs, DaysInRow, HoursInRow
      <4>3. ~Repair!Gathers(t, r) => v6[t].merged[p][r] = 0
        BY <4>2 DEF Repair!Gathers
      <4>4. ASSUME NEW f \in Repair!Files \ Repair!Rewrites(t)', Repair!Day(f[1]) = v6[t].day, v4'[f][r] > 0
            PROVE  \E q \in Places : f = Repair!HourFile(q) /\ v6[t].merged[q][r] > 0
        <5>1. CASE f = g
          BY <5>1, <4>2, <4>4
        <5>2. CASE f # g
          BY <5>2, <4>1, <4>4, <1>6, <1>8
        <5> QED BY <5>1, <5>2
      <4>5. /\ ~v6[t].skipped => \A f \in Repair!Files :
                 f[1] < FirstOpen /\ Repair!Day(f[1]) < v6[t].day /\ v4'[f][r] > 0 => f[1] = v1[r]
            /\ ~Repair!Gathers(t, r) => \A f \in Repair!Files : Repair!Day(f[1]) = v6[t].day =>
                 v4'[f][r] = 0
        BY <4>1, <4>2, <4>3, <1>7, <1>8
      <4> QED BY <4>1, <4>4, <4>5
    <3>2. /\ v6'[t].merged = v6[t].merged /\ v6'[t].day = v6[t].day /\ v6'[t].kind = v6[t].kind
          /\ v6'[t].skipped = v6[t].skipped /\ \A u \in Tools : u # t => v6'[u].step = "idle"
      BY <1>2, <1>4, <1>5
    <3> QED BY <3>1, <3>2, <1>1, <1>6 DEF Repair!Passed
  <2>9. Repair!Refiled'
    <3>1. ASSUME v13, NEW r \in RepairRows, Repair!InClosed(r), v1[r] < FirstOpen
          PROVE  /\ \A f \in Repair!Files : v4'[f][r] > 0 => f[1] = v1[r]
                 /\ \A q \in Places : v6[t].merged[q][r] > 0 => q = v1[r]
      <4>1. /\ \A f \in Repair!Files : v4[f][r] > 0 => f[1] = v1[r]
            /\ \A q \in Places : v6[t].merged[q][r] > 0 => q = v1[r]
        BY <3>1, <2>1, <1>1 DEF Repair!Orderly, Repair!Refiled
      <4> QED BY <4>1, <2>3, <1>7, <1>8
    <3>2. v6'[t].merged = v6[t].merged
      BY <1>2, <1>4
    <3> QED BY <3>1, <3>2, <1>1, <1>6 DEF Repair!Refiled, Repair!InClosed
  <2> QED BY <2>2, <2>4, <2>5, <2>6, <2>7, <2>8, <2>9 DEF Repair!Orderly
<1> QED BY <1>9, <1>10, <1>11 DEF Repair!RepairInv, Repair!Guarded

LEMMA SourceUnlinked ==
  ASSUME Repair!RepairInv, NEW t \in Tools, Repair!Unlink(t)
  PROVE  Repair!RepairInv'
<1>0. PICK g \in v6[t].drop : /\ v4' = [v4 EXCEPT ![g] = Repair!None] /\ v5' = v5 \ {g}
                                /\ v6' = [v6 EXCEPT ![t].drop = @ \ {g}]
  BY DEF Repair!Unlink
<1> DEFINE next == [v6[t] EXCEPT !.drop = @ \ {g}]
<1>1. /\ v6[t].step = "unlink" /\ Repair!Busy(t) /\ Repair!Guarded
      /\ UNCHANGED <<v1, v2, v3, v7, v8, v9, v10, v11, v12, v13>>
  BY DEF Repair!Unlink, Repair!tape, Repair!RepairInv, Repair!Busy
<1>2. /\ next \in Repair!Repairs /\ next.step = "unlink" /\ next.day = v6[t].day /\ next.kind = v6[t].kind
      /\ next.skipped = v6[t].skipped /\ next.merged = v6[t].merged
      /\ next.left = v6[t].left /\ next.drop = v6[t].drop \ {g}
  <2>1. v6[t] \in Repair!Repairs /\ v6[t].drop \ {g} \subseteq Repair!Files
    BY <1>1, RepairIs
  <2> QED BY <2>1, <1>1 DEF Repair!Repairs
<1>3. v6' = [v6 EXCEPT ![t] = next] /\ v6 \in [Tools -> Repair!Repairs]
  BY <1>0, <1>1 DEF Repair!Guarded, Repair!TypeOK
<1> HIDE DEF next
<1>4. v6' \in [Tools -> Repair!Repairs] /\ v6'[t] = next /\ \A u \in Tools : u # t => v6'[u] = v6[u]
  <2>1. next \in Repair!Repairs
    BY <1>2
  <2> QED BY <2>1, <1>3
<1>5. \A u \in Tools : u # t => v6[u].step = "idle"
  BY <1>1, RepairIs
<1>6. /\ \A u \in Tools : u # t => ~Repair!Busy(u) /\ ~Repair!Busy(u)'
      /\ Repair!Busy(t)' /\ \A r \in RepairRows : Repair!Gathers(t, r)' <=> Repair!Gathers(t, r)
      /\ g \in Repair!Rewrites(t) /\ Repair!Rewrites(t)' \subseteq Repair!Rewrites(t) /\
         Repair!Rewrites(t) \subseteq Repair!Rewrites(t)' \union {g}
  <2>1. Repair!Rewrites(t) = {Repair!HourFile(q) : q \in v6[t].left} \union v6[t].drop
    BY DEF Repair!Rewrites
  <2>2. Repair!Rewrites(t)' = {Repair!HourFile(q) : q \in v6[t].left} \union (v6[t].drop \ {g})
    BY <1>2, <1>4 DEF Repair!Rewrites
  <2>3. g \in Repair!Rewrites(t) /\ Repair!Rewrites(t)' \subseteq Repair!Rewrites(t) /\
        Repair!Rewrites(t) \subseteq Repair!Rewrites(t)' \union {g}
    BY <2>1, <2>2
  <2> QED BY <2>3, <1>2, <1>4, <1>5 DEF Repair!Busy, Repair!Gathers
<1>7. g \in Repair!Files /\ g[1] < FirstOpen /\ g \notin v5
  BY <1>1, <1>6, RewritesAre DEF Repair!Guarded, Repair!KeepsToClosed
<1>8. /\ v4' \in [Repair!Files -> Repair!Copies] /\ \A r \in RepairRows : v4'[g][r] = 0
      /\ \A f \in Repair!Files : f # g => v4'[f] = v4[f]
      /\ v5' = v5
  BY <1>0, <1>1, <1>7 DEF Repair!Guarded, Repair!TypeOK, Repair!None, Repair!Copies
<1>9. Repair!TypeOK'
  BY <1>1, <1>4, <1>8 DEF Repair!Guarded, Repair!TypeOK
<1>10. Repair!Locked' /\ Repair!KeepsToClosed' /\ Repair!HandsOff'
  <2>1. Repair!Locked'
    BY <1>1, <1>2, <1>4, <1>5 DEF Repair!Guarded, Repair!Locked
  <2>2. Repair!KeepsToClosed'
    BY <1>1, <1>6, <1>8 DEF Repair!Guarded, Repair!KeepsToClosed
  <2>3. Repair!HandsOff'
    <3>1. ASSUME NEW r \in RepairRows, NEW q \in Places, FirstOpen <= q
          PROVE  v4'[Repair!HourFile(q)] = v4[Repair!HourFile(q)] /\ v4'[<<q, "part">>] = v4[<<q, "part">>]
      <4>1. Repair!HourFile(q) \in Repair!Files /\ <<q, "part">> \in Repair!Files /\
            Repair!HourFile(q) # g /\ <<q, "part">> # g
        BY <3>1, <1>7, RepairIs, <1>1, HoursInRow DEF Repair!HourFile
      <4> QED BY <4>1, <1>8
    <3> QED BY <3>1, <1>1, <1>8 DEF Repair!Guarded, Repair!HandsOff
  <2> QED BY <2>1, <2>2, <2>3
<1>11. ASSUME ~v12' PROVE Repair!Orderly'
  <2>1. Repair!Orderly /\ v8.step = "idle"
    BY <1>11, <1>1 DEF Repair!RepairInv, Repair!Orderly, Repair!Apart
  <2>2. Repair!Apart' /\ Repair!MergeHolds'
    BY <2>1, <1>1 DEF Repair!Apart, Repair!MergeHolds
  <2>3. v6[t].left = {} /\ \A q \in Places, r \in RepairRows : v6[t].merged[q][r] > 0 =>
          Repair!HourFile(q) \notin v6[t].drop /\ Repair!HourFile(q) # g /\
                v4[Repair!HourFile(q)][r] = v6[t].merged[q][r]
    BY <2>1, <1>1, <1>0 DEF Repair!Orderly, Repair!RepairHolds
  <2>4. Repair!RepairHolds'
    <3>1. ASSUME NEW q \in Places, NEW r \in RepairRows, v6[t].merged[q][r] > 0
          PROVE  Repair!HourFile(q) \notin v6[t].drop /\ v4'[Repair!HourFile(q)][r] = v6[t].merged[q][r]
      <4>1. Repair!HourFile(q) \in Repair!Files
        BY RepairIs, <1>1
      <4>2. Repair!HourFile(q) \notin v6[t].drop /\ Repair!HourFile(q) # g /\
            v4[Repair!HourFile(q)][r] = v6[t].merged[q][r]
        BY <3>1, <2>3
      <4> QED BY <4>1, <4>2, <1>8
    <3>2. ASSUME NEW r \in RepairRows \ v11, ~Repair!Gathers(t, r),
                 NEW f \in Repair!Rewrites(t) PROVE v4'[f][r] = 0
      <4>1. f \in Repair!Files
        BY <3>2, <1>1, RewritesAre
      <4>2. v4[f][r] = 0
        BY <3>2, <2>1, <1>1 DEF Repair!Orderly, Repair!RepairHolds
      <4> QED BY <4>1, <4>2, <1>8
    <3> QED BY <3>1, <3>2, <2>3, <1>1, <1>2, <1>4, <1>6 DEF Repair!RepairHolds
  <2>5. Repair!NothingLost'
    <3> SUFFICES ASSUME NEW r \in RepairRows \ (v11 \union v10.lost), Repair!Gone(r)' PROVE FALSE
      BY <1>1 DEF Repair!NothingLost
    <3>1. \A f \in Repair!Files : v4'[f][r] = 0
      BY DEF Repair!Gone
    <3>2. ~Repair!InHand(r)
      BY <2>3, <1>6 DEF Repair!InHand
    <3>3. ~Repair!Gone(r)
      BY <3>2, <2>1 DEF Repair!Orderly, Repair!NothingLost
    <3>4. PICK f \in Repair!Files : v4[f][r] # 0
      BY <3>3 DEF Repair!Gone
    <3>5. f = g
      BY <3>4, <3>1, <1>8
    <3>6. Repair!Gathers(t, r)
      BY <3>4, <3>5, <1>1, <1>6, <2>1 DEF Repair!Orderly, Repair!RepairHolds
    <3>7. PICK q \in Places : v6[t].merged[q][r] > 0
      BY <3>6 DEF Repair!Gathers
    <3>8. Repair!HourFile(q) # g /\ v4[Repair!HourFile(q)][r] = v6[t].merged[q][r] /\
          Repair!HourFile(q) \in Repair!Files
      BY <3>7, <2>3, <1>1, RepairIs
    <3> QED BY <3>1, <3>7, <3>8, <1>8
  <2>6. Repair!FirstStays'
    BY <2>1, <1>1 DEF Repair!Orderly, Repair!FirstStays
  <2>7. Repair!Single'
    <3>1. \A f \in Repair!Files, r \in RepairRows :
          Repair!Left(f, r) = v4[f][r] /\ Repair!Left(f, r)' = v4'[f][r]
      BY <2>1, <1>1 DEF Repair!Left
    <3>2. ASSUME NEW r \in RepairRows \ v10.rewritten
          PROVE  /\ \A f \in Repair!Files : v4'[f][r] <= 1
                 /\ ~Repair!Gathers(t, r) => \A f, h \in Repair!Files : v4'[f][r] > 0 /\ v4'[h][r] > 0 =>
                      f = h
                 /\ \A q, s \in Places : v6[t].merged[q][r] > 0 /\ v6[t].merged[s][r] > 0 =>
                      q = s /\ v6[t].merged[q][r] = 1
                 /\ Repair!Gathers(t, r) => \A f \in Repair!Files \ Repair!Rewrites(t)' : v4'[f][r] > 0 =>
                      \E q \in Places : f = Repair!HourFile(q) /\ v6[t].merged[q][r] > 0
      <4>1. /\ \A f \in Repair!Files : v4[f][r] <= 1
            /\ ~Repair!Gathers(t, r) => \A f, h \in Repair!Files : v4[f][r] > 0 /\ v4[h][r] > 0 => f = h
            /\ \A q, s \in Places : v6[t].merged[q][r] > 0 /\ v6[t].merged[s][r] > 0 =>
                 q = s /\ v6[t].merged[q][r] = 1
            /\ Repair!Gathers(t, r) => \A f \in Repair!Files \ Repair!Rewrites(t) : v4[f][r] > 0 =>
                 \E q \in Places : f = Repair!HourFile(q) /\ v6[t].merged[q][r] > 0
        BY <3>1, <2>1, <1>1, <1>6 DEF Repair!Orderly, Repair!Single
      <4>2. r \in RepairRows
        BY <3>2
      <4>4. \A f \in Repair!Files \ Repair!Rewrites(t)' : f # g => f \notin Repair!Rewrites(t)
        BY <1>6
      <4> QED BY <4>1, <4>2, <4>4, <1>8
    <3>3. v6'[t].merged = v6[t].merged
      BY <1>2, <1>4
    <3> QED BY <3>1, <3>2, <3>3, <1>1, <1>6 DEF Repair!Single
  <2>8. Repair!Passed'
    <3>1. ASSUME v6[t].kind = "repartition", NEW r \in RepairRows, v1[r] < FirstOpen
          PROVE  /\ ~v6[t].skipped => \A f \in Repair!Files :
                      f[1] < FirstOpen /\ Repair!Day(f[1]) < v6[t].day /\ v4'[f][r] > 0 => f[1] = v1[r]
                 /\ ~v6[t].skipped => \A q \in Places :
                      Repair!Day(q) <= v6[t].day /\ v6[t].merged[q][r] > 0 => q = v1[r]
                 /\ ~Repair!Gathers(t, r) => \A f \in Repair!Files : Repair!Day(f[1]) = v6[t].day =>
                      v4'[f][r] = 0
                 /\ \A f \in Repair!Files \ Repair!Rewrites(t)' : Repair!Day(f[1]) = v6[t].day /\ v4'[f][r] > 0 =>
                      \E q \in Places : f = Repair!HourFile(q) /\ v6[t].merged[q][r] > 0
      <4>1. /\ ~v6[t].skipped => \A f \in Repair!Files :
                 f[1] < FirstOpen /\ Repair!Day(f[1]) < v6[t].day /\ v4[f][r] > 0 => f[1] = v1[r]
            /\ ~v6[t].skipped => \A q \in Places :
                 Repair!Day(q) <= v6[t].day /\ v6[t].merged[q][r] > 0 => q = v1[r]
            /\ ~Repair!Gathers(t, r) => \A f \in Repair!Files : Repair!Day(f[1]) = v6[t].day => v4[f][r] = 0
            /\ \A f \in Repair!Files \ Repair!Rewrites(t) : Repair!Day(f[1]) = v6[t].day /\ v4[f][r] > 0 =>
                 \E q \in Places : f = Repair!HourFile(q) /\ v6[t].merged[q][r] > 0
        BY <3>1, <2>1, <1>1 DEF Repair!Orderly, Repair!Passed
      <4>2. ASSUME NEW f \in Repair!Files \ Repair!Rewrites(t)', Repair!Day(f[1]) = v6[t].day, v4'[f][r] > 0
            PROVE  \E q \in Places : f = Repair!HourFile(q) /\ v6[t].merged[q][r] > 0
        <5>1. f # g
          BY <4>2, <1>8, <3>1
        <5> QED BY <5>1, <4>1, <4>2, <1>6, <1>8
      <4>3. /\ ~v6[t].skipped => \A f \in Repair!Files :
                 f[1] < FirstOpen /\ Repair!Day(f[1]) < v6[t].day /\ v4'[f][r] > 0 => f[1] = v1[r]
            /\ ~Repair!Gathers(t, r) => \A f \in Repair!Files : Repair!Day(f[1]) = v6[t].day =>
                 v4'[f][r] = 0
        BY <4>1, <1>7, <1>8
      <4> QED BY <4>1, <4>2, <4>3
    <3>2. /\ v6'[t].merged = v6[t].merged /\ v6'[t].day = v6[t].day /\ v6'[t].kind = v6[t].kind
          /\ v6'[t].skipped = v6[t].skipped /\ \A u \in Tools : u # t => v6'[u].step = "idle"
      BY <1>2, <1>4, <1>5
    <3> QED BY <3>1, <3>2, <1>1, <1>6 DEF Repair!Passed
  <2>9. Repair!Refiled'
    <3>1. ASSUME v13, NEW r \in RepairRows, Repair!InClosed(r), v1[r] < FirstOpen
          PROVE  /\ \A f \in Repair!Files : v4'[f][r] > 0 => f[1] = v1[r]
                 /\ \A q \in Places : v6[t].merged[q][r] > 0 => q = v1[r]
      <4>1. /\ \A f \in Repair!Files : v4[f][r] > 0 => f[1] = v1[r]
            /\ \A q \in Places : v6[t].merged[q][r] > 0 => q = v1[r]
        BY <3>1, <2>1, <1>1 DEF Repair!Orderly, Repair!Refiled
      <4> QED BY <4>1, <1>7, <1>8
    <3>2. v6'[t].merged = v6[t].merged
      BY <1>2, <1>4
    <3> QED BY <3>1, <3>2, <1>1, <1>6 DEF Repair!Refiled, Repair!InClosed
  <2> QED BY <2>2, <2>4, <2>5, <2>6, <2>7, <2>8, <2>9 DEF Repair!Orderly
<1> QED BY <1>9, <1>10, <1>11 DEF Repair!RepairInv, Repair!Guarded

(* A day done. *)
LEMMA DayDone ==
  ASSUME Repair!RepairInv, NEW t \in Tools, Repair!NextDay(t)
  PROVE  Repair!RepairInv'
<1> DEFINE d == v6[t].day
           next == [Repair!NoTool EXCEPT !.step = "read", !.kind = v6[t].kind, !.day = v6[t].day + 1,
                                  !.skipped = v6[t].skipped]
<1>1. /\ v6[t].step = "unlink" /\ v6[t].drop = {} /\ Repair!Busy(t) /\ Repair!Guarded
      /\ UNCHANGED <<v1, v2, v3, v4, v5, v7, v8, v9, v10, v11, v12, v13>>
  BY DEF Repair!NextDay, Repair!tape, Repair!RepairInv, Repair!Busy
<1>2. /\ next \in Repair!Repairs /\ next.step = "read" /\ next.day = d + 1 /\ next.kind = v6[t].kind
      /\ next.skipped = v6[t].skipped
  <2>1. d + 1 \in Nat /\ v6[t].kind \in {"repartition", "thin"} /\ v6[t].skipped \in BOOLEAN
    BY <1>1, RepairIs
  <2>2. Repair!NoTool \in Repair!Repairs
    BY DEF Repair!NoTool, Repair!Repairs, Repair!None, Repair!Copies
  <2> QED BY <2>1, <2>2 DEF Repair!Repairs
<1>3. v6' = [v6 EXCEPT ![t] = next] /\ v6 \in [Tools -> Repair!Repairs]
  BY <1>1 DEF Repair!NextDay, Repair!Guarded, Repair!TypeOK
<1> HIDE DEF next
<1>4. v6' \in [Tools -> Repair!Repairs] /\ v6'[t] = next /\ \A u \in Tools : u # t => v6'[u] = v6[u]
  <2>1. next \in Repair!Repairs
    BY <1>2
  <2> QED BY <2>1, <1>3
<1>5. \A u \in Tools : u # t => v6[u].step = "idle"
  BY <1>1, RepairIs
<1>6. (\A u \in Tools : ~Repair!Busy(u)') /\ \A u \in Tools : u # t => ~Repair!Busy(u)
  BY <1>2, <1>4, <1>5 DEF Repair!Busy
<1>7. Repair!TypeOK'
  BY <1>1, <1>4 DEF Repair!Guarded, Repair!TypeOK
<1>8. Repair!Locked' /\ Repair!KeepsToClosed' /\ Repair!HandsOff'
  <2>1. Repair!Locked'
    BY <1>1, <1>2, <1>4, <1>5 DEF Repair!Guarded, Repair!Locked
  <2>2. Repair!KeepsToClosed'
    BY <1>1, <1>6 DEF Repair!Guarded, Repair!KeepsToClosed
  <2>3. Repair!HandsOff'
    BY <1>1 DEF Repair!Guarded, Repair!HandsOff
  <2> QED BY <2>1, <2>2, <2>3
<1>9. ASSUME ~v12' PROVE Repair!Orderly'
  <2>1. Repair!Orderly /\ v8.step = "idle"
    BY <1>9, <1>1 DEF Repair!RepairInv, Repair!Orderly, Repair!Apart
  <2>2. v6[t].left = {} /\ Repair!Rewrites(t) = {}
    BY <2>1, <1>1 DEF Repair!Orderly, Repair!RepairHolds, Repair!Rewrites
  <2>3. Repair!Apart' /\ Repair!MergeHolds' /\ Repair!RepairHolds' /\ Repair!FirstStays'
    BY <2>1, <1>1, <1>6 DEF Repair!Orderly, Repair!Apart, Repair!MergeHolds, Repair!RepairHolds,
                            Repair!FirstStays
  <2>4. Repair!NothingLost'
    BY <2>1, <2>2, <1>1, <1>6 DEF Repair!Orderly, Repair!NothingLost, Repair!Gone, Repair!InHand
  <2>5. ASSUME NEW r \in RepairRows \ v10.rewritten, Repair!Gathers(t, r), NEW f \in Repair!Files, v4[f][r] > 0
        PROVE  \E p \in Places : f = Repair!HourFile(p) /\ v6[t].merged[p][r] > 0
    BY <2>5, <2>1, <2>2, <1>1 DEF Repair!Orderly, Repair!Single
  <2>6. Repair!Single'
    <3>1. \A f \in Repair!Files, r \in RepairRows :
          Repair!Left(f, r) = v4[f][r] /\ Repair!Left(f, r)' = v4[f][r]
      BY <2>1, <1>1 DEF Repair!Left
    <3>2. ASSUME NEW r \in RepairRows \ v10.rewritten, NEW f \in Repair!Files, NEW h \in Repair!Files, v4[f][r] > 0,
                 v4[h][r] > 0
          PROVE  f = h
      <4>1. CASE Repair!Gathers(t, r)
        <5>1. PICK p \in Places : f = Repair!HourFile(p) /\ v6[t].merged[p][r] > 0
          BY <2>5, <3>2, <4>1
        <5>2. PICK q \in Places : h = Repair!HourFile(q) /\ v6[t].merged[q][r] > 0
          BY <2>5, <3>2, <4>1
        <5> QED BY <5>1, <5>2, <2>1, <1>1 DEF Repair!Orderly, Repair!Single
      <4>2. CASE ~Repair!Gathers(t, r)
        BY <4>2, <3>1, <3>2, <2>1, <1>6 DEF Repair!Orderly, Repair!Single
      <4> QED BY <4>1, <4>2
    <3>3. \A r \in RepairRows \ v10.rewritten, f \in Repair!Files : v4[f][r] <= 1
      BY <2>1 DEF Repair!Orderly, Repair!Single
    <3> QED BY <3>1, <3>2, <3>3, <1>1, <1>6 DEF Repair!Single
  <2>7. Repair!Passed'
    <3>1. ASSUME v6[t].kind = "repartition", ~v6[t].skipped, NEW r \in RepairRows, v1[r] < FirstOpen,
                 NEW f \in Repair!Files, f[1] < FirstOpen, Repair!Day(f[1]) < d + 1, v4[f][r] > 0
          PROVE  f[1] = v1[r]
      <4>1. f[1] \in Places /\ Repair!Day(f[1]) \in Nat /\ d \in Nat
        <5>1. f[1] \in Places /\ f[1] \in Nat
          BY HoursInRow DEF Repair!Files
        <5> QED BY <5>1, DaysInRow, RepairIs, <1>1
      <4>2. CASE Repair!Day(f[1]) < d
        BY <4>2, <3>1, <2>1, <1>1 DEF Repair!Orderly, Repair!Passed
      <4>3. CASE Repair!Day(f[1]) = d
        <5>1. f \in Repair!Files \ Repair!Rewrites(t)
          BY <2>2
        <5>2. PICK p \in Places : f = Repair!HourFile(p) /\ v6[t].merged[p][r] > 0
          BY <5>1, <4>3, <3>1, <2>1, <1>1 DEF Repair!Orderly, Repair!Passed
        <5>3. f[1] = p /\ Repair!Day(p) <= d
          <6>1. f[1] = p
            BY <5>2, RepairIs, <1>1
          <6> QED BY <6>1, <4>1, <4>3
        <5> QED BY <5>2, <5>3, <3>1, <2>1, <1>1 DEF Repair!Orderly, Repair!Passed
      <4> QED BY <4>1, <4>2, <4>3, <3>1
    <3>2. /\ v6'[t].day = d + 1 /\ v6'[t].kind = v6[t].kind
          /\ v6'[t].skipped = v6[t].skipped /\ \A u \in Tools : u # t => v6'[u].step = "idle"
      BY <1>2, <1>4, <1>5
    <3> QED BY <3>1, <3>2, <1>1, <1>6 DEF Repair!Passed
  <2>8. Repair!Refiled'
    BY <2>1, <1>1, <1>6 DEF Repair!Orderly, Repair!Refiled, Repair!InClosed
  <2> QED BY <2>3, <2>4, <2>6, <2>7, <2>8 DEF Repair!Orderly
<1> QED BY <1>7, <1>8, <1>9 DEF Repair!RepairInv, Repair!Guarded

LEMMA RepairEnds ==
  ASSUME Repair!RepairInv, NEW t \in Tools, Repair!End(t)
  PROVE  Repair!RepairInv'
<1>1. /\ v6[t].step = "read" /\ v6[t].day > Repair!LastDay /\ Repair!Guarded /\ v7' = "free"
      /\ v13' = (v13 \/ (v6[t].kind = "repartition" /\ ~v6[t].skipped))
      /\ UNCHANGED <<v1, v2, v3, v4, v5, v8, v9, v10, v11, v12>>
  BY DEF Repair!End, Repair!tape, Repair!RepairInv
<1>2. Repair!NoTool \in Repair!Repairs /\ Repair!NoTool.step = "idle"
  BY DEF Repair!NoTool, Repair!Repairs, Repair!None, Repair!Copies
<1>3. v6' = [v6 EXCEPT ![t] = Repair!NoTool] /\ v6 \in [Tools -> Repair!Repairs]
  BY DEF Repair!End, Repair!RepairInv, Repair!Guarded, Repair!TypeOK
<1>4. v6' \in [Tools -> Repair!Repairs] /\ \A u \in Tools : v6'[u].step = "idle"
  BY <1>1, <1>2, <1>3, RepairIs
<1>5. \A u \in Tools : ~Repair!Busy(u) /\ ~Repair!Busy(u)'
  BY <1>1, <1>4, RepairIs DEF Repair!Busy
<1>6. Repair!TypeOK'
  <2>1. v13' \in BOOLEAN
    BY <1>1
  <2> QED BY <2>1, <1>1, <1>4 DEF Repair!Guarded, Repair!TypeOK
<1>7. Repair!Locked' /\ Repair!KeepsToClosed' /\ Repair!HandsOff'
  <2>1. Repair!Locked'
    BY <1>1, <1>4, RepairAssumption DEF Repair!Locked
  <2>2. Repair!KeepsToClosed'
    BY <1>1, <1>5 DEF Repair!Guarded, Repair!KeepsToClosed
  <2>3. Repair!HandsOff'
    BY <1>1 DEF Repair!Guarded, Repair!HandsOff
  <2> QED BY <2>1, <2>2, <2>3
<1>8. ASSUME ~v12' PROVE Repair!Orderly'
  <2>1. Repair!Orderly
    BY <1>1, <1>8 DEF Repair!RepairInv
  <2>2. Repair!Passed'
    BY <1>4 DEF Repair!Passed
  <2>3. Repair!Refiled'
    <3>1. ASSUME v13', NEW r \in RepairRows, Repair!InClosed(r), v1[r] < FirstOpen,
                 NEW f \in Repair!Files, v4[f][r] > 0
          PROVE  f[1] = v1[r]
      <4>1. CASE v13
        BY <4>1, <3>1, <2>1 DEF Repair!Orderly, Repair!Refiled
      <4>2. CASE v6[t].kind = "repartition" /\ ~v6[t].skipped
        <5>1. PICK p \in Places : f[1] = p /\ (f = Repair!HourFile(p) \/ f = <<p, "part">>)
          BY DEF Repair!Files, Repair!HourFile
        <5>2. p < FirstOpen
          <6>1. SUFFICES ASSUME FirstOpen <= p PROVE FALSE
            BY HoursInRow
          <6>2. v4[Repair!HourFile(p)][r] + v4[<<p, "part">>][r] = IF v2[r][1] = p THEN 1 ELSE 0
            BY <6>1, <3>1, <1>1 DEF Repair!Guarded, Repair!HandsOff
          <6>3. v2[r][1] # p
            <7>1. v2[r][1] \in Places
              BY <3>1, <1>1 DEF Repair!Guarded, Repair!TypeOK, Repair!Files
            <7> QED BY <7>1, <6>1, <3>1, HoursInRow DEF Repair!InClosed
          <6>4. v4[Repair!HourFile(p)][r] \in Nat /\ v4[<<p, "part">>][r] \in Nat
            BY <3>1, <1>1, RepairIs
          <6> QED BY <6>2, <6>3, <6>4, <5>1, <3>1
        <5>3. Repair!Day(p) <= Repair!LastDay /\ Repair!Day(p) \in Nat /\ Repair!LastDay \in Int /\
              v6[t].day \in Nat
          <6>1. p \in Nat /\ FirstOpen \in Nat
            BY HoursInRow
          <6>2. Repair!Day(p) <= Repair!LastDay /\ Repair!Day(p) \in Nat /\ Repair!Day(FirstOpen) \in Nat
            BY <6>1, <5>2, DaysInRow
          <6> QED BY <6>2, <1>1, RepairIs DEF Repair!LastDay
        <5>4. Repair!Day(p) < v6[t].day
          BY <5>3, <1>1
        <5> QED BY <5>1, <5>2, <5>4, <4>2, <3>1, <2>1, <1>1 DEF Repair!Orderly, Repair!Passed
      <4> QED BY <4>1, <4>2, <3>1, <1>1
    <3> QED BY <3>1, <1>1, <1>5 DEF Repair!Refiled, Repair!InClosed
  <2> QED BY <1>1, <1>5, <2>1, <2>2, <2>3, NothingRewritten DEF Repair!Orderly
<1> QED BY <1>6, <1>7, <1>8 DEF Repair!RepairInv, Repair!Guarded

LEMMA RepairDies ==
  ASSUME Repair!RepairInv, NEW t \in Tools, NEW left \in {"free", "stale"}, Repair!Dies(t, left)
  PROVE  Repair!RepairInv'
<1>1. /\ v6[t].step # "idle" /\ v9 < MaxKills /\ v9' = v9 + 1 /\ Repair!Guarded /\ v7' = left
      /\ v10' = [rewritten |-> v10.rewritten \union {r \in RepairRows : Repair!Busy(t) /\ Repair!Gathers(t, r)},
                 lost |-> v10.lost \union {r \in RepairRows : Repair!Gone(r) /\ Repair!InHand(r)}]
      /\ UNCHANGED <<v1, v2, v3, v4, v5, v8, v11, v12, v13>>
  BY DEF Repair!Dies, Repair!tape, Repair!RepairInv, Repair!Gathers
<1>2. Repair!NoTool \in Repair!Repairs /\ Repair!NoTool.step = "idle"
  BY DEF Repair!NoTool, Repair!Repairs, Repair!None, Repair!Copies
<1>3. v6' = [v6 EXCEPT ![t] = Repair!NoTool] /\ v6 \in [Tools -> Repair!Repairs]
  BY DEF Repair!Dies, Repair!RepairInv, Repair!Guarded, Repair!TypeOK
<1>4. v6' \in [Tools -> Repair!Repairs] /\ \A u \in Tools : v6'[u].step = "idle"
  BY <1>1, <1>2, <1>3, RepairIs
<1>5. \A u \in Tools : (u # t => ~Repair!Busy(u)) /\ ~Repair!Busy(u)'
  BY <1>1, <1>4, RepairIs DEF Repair!Busy
<1>6. Repair!TypeOK'
  <2>1. v9' \in 0 .. MaxKills /\ v10' \in [rewritten : SUBSET RepairRows, lost : SUBSET RepairRows]
    BY <1>1, KillsBounded DEF Repair!Guarded, Repair!TypeOK
  <2> QED BY <2>1, <1>1, <1>4 DEF Repair!Guarded, Repair!TypeOK
<1>7. Repair!Locked' /\ Repair!KeepsToClosed' /\ Repair!HandsOff'
  <2>1. Repair!Locked'
    BY <1>1, <1>4, RepairAssumption DEF Repair!Locked
  <2>2. Repair!KeepsToClosed'
    BY <1>1, <1>5 DEF Repair!Guarded, Repair!KeepsToClosed
  <2>3. Repair!HandsOff'
    BY <1>1 DEF Repair!Guarded, Repair!HandsOff
  <2> QED BY <2>1, <2>2, <2>3
<1>8. ASSUME ~v12' PROVE Repair!Orderly'
  <2>1. Repair!Orderly
    BY <1>1, <1>8 DEF Repair!RepairInv
  <2>2. Repair!Apart' /\ Repair!MergeHolds' /\ Repair!RepairHolds' /\ Repair!FirstStays' /\ Repair!Passed'
    BY <2>1, <1>1, <1>4, <1>5 DEF Repair!Orderly, Repair!Apart, Repair!MergeHolds, Repair!RepairHolds,
                                  Repair!FirstStays, Repair!Passed, Repair!PartFile
  <2>3. Repair!NothingLost'
    <3>1. ASSUME NEW r \in RepairRows, Repair!Gone(r)' PROVE r \in v11 \union v10'.lost
      <4>1. Repair!Gone(r)
        BY <3>1, <1>1 DEF Repair!Gone
      <4>2. r \in v11 \union v10.lost \/ Repair!InHand(r)
        BY <4>1, <2>1 DEF Repair!Orderly, Repair!NothingLost
      <4> QED BY <4>1, <4>2, <1>1
    <3> QED BY <3>1, <1>1 DEF Repair!NothingLost
  <2>4. Repair!Single'
    <3>1. \A r \in RepairRows \ v10'.rewritten : r \in RepairRows \ v10.rewritten /\ \A u \in Tools : Repair!Busy(u) =>
          ~Repair!Gathers(u, r)
      BY <1>1, <1>5
    <3>2. \A f \in Repair!Files, r \in RepairRows : Repair!Left(f, r)' = Repair!Left(f, r)
      BY <1>1 DEF Repair!Left, Repair!PartFile
    <3> QED BY <3>1, <3>2, <2>1, <1>1, <1>5 DEF Repair!Orderly, Repair!Single
  <2>5. Repair!Refiled'
    BY <2>1, <1>1, <1>5 DEF Repair!Orderly, Repair!Refiled, Repair!InClosed
  <2> QED BY <2>1, <2>2, <2>3, <2>4, <2>5 DEF Repair!Orderly
<1> QED BY <1>6, <1>7, <1>8 DEF Repair!RepairInv, Repair!Guarded

-----------------------------------------------------------------------------
(* The merge of an hour. *)
LEMMA MergeReads ==
  ASSUME Repair!RepairInv, NEW p \in Places, p < FirstOpen, Repair!CompactRead(p)
  PROVE  Repair!RepairInv'
<1>1. /\ v8.step = "idle" /\ Repair!Guarded /\ v12' = (v12 \/ \E t \in Tools : Repair!Busy(t))
      /\ v8' = [step |-> "rename", place |-> p, rows |-> [r \in RepairRows |-> v4[Repair!HourFile(p)][r] + v4[<<p, "part">>][r]]]
      /\ UNCHANGED <<v1, v2, v3, v4, v5, v6, v7, v9, v10, v11, v13>>
  BY DEF Repair!CompactRead, Repair!tape, Repair!RepairInv
<1>2. v8' \in Repair!Merges /\ v8'.step = "rename" /\ v8'.place = p
      /\ \A r \in RepairRows : v8'.rows[r] = v4[Repair!HourFile(p)][r] + v4[<<p, "part">>][r]
  <2>1. Repair!HourFile(p) \in Repair!Files /\ <<p, "part">> \in Repair!Files
    BY <1>1, RepairIs
  <2>2. \A r \in RepairRows : v4[Repair!HourFile(p)][r] + v4[<<p, "part">>][r] \in Nat
    BY <1>1, <2>1, RepairIs
  <2> QED BY <1>1, <2>2 DEF Repair!Merges, Repair!Copies
<1>3. Repair!TypeOK'
  <2>1. v12' \in BOOLEAN
    BY <1>1 DEF Repair!Guarded, Repair!TypeOK
  <2> QED BY <2>1, <1>1, <1>2 DEF Repair!Guarded, Repair!TypeOK
<1>4. Repair!Locked' /\ Repair!KeepsToClosed' /\ Repair!HandsOff'
  BY <1>1, <1>2 DEF Repair!Guarded, Repair!Locked, Repair!KeepsToClosed, Repair!HandsOff, Repair!Busy,
                    Repair!Rewrites
<1>5. ASSUME ~v12' PROVE Repair!Orderly'
  <2>1. Repair!Orderly /\ \A t \in Tools : ~Repair!Busy(t) /\ ~Repair!Busy(t)'
    BY <1>1, <1>5 DEF Repair!RepairInv, Repair!Busy
  <2>2. Repair!Apart' /\ Repair!MergeHolds' /\ Repair!RepairHolds' /\ Repair!FirstStays'
    BY <2>1, <1>1, <1>2 DEF Repair!Orderly, Repair!Apart, Repair!MergeHolds, Repair!RepairHolds,
                            Repair!FirstStays, Repair!PartFile
  <2>3. Repair!NothingLost'
    BY <2>1, <1>1 DEF Repair!Orderly, Repair!NothingLost, Repair!Gone, Repair!InHand
  <2>4. Repair!Single'
    <3>1. \A f \in Repair!Files, r \in RepairRows :
          Repair!Left(f, r) = v4[f][r] /\ Repair!Left(f, r)' = v4[f][r]
      BY <1>1, <1>2 DEF Repair!Left
    <3> QED BY <3>1, <2>1, <1>1 DEF Repair!Orderly, Repair!Single
  <2>5. Repair!Passed' /\ Repair!Refiled'
    BY <2>1, <1>1 DEF Repair!Orderly, Repair!Passed, Repair!Refiled, Repair!InClosed
  <2> QED BY <2>2, <2>3, <2>4, <2>5 DEF Repair!Orderly
<1> QED BY <1>3, <1>4, <1>5 DEF Repair!RepairInv, Repair!Guarded

(* Only the files of one hour change, and no repair is in the way. *)
LEMMA MergeWrites ==
  ASSUME Repair!RepairInv, v8.step # "idle",
         v4' \in [Repair!Files -> Repair!Copies], v8' \in Repair!Merges, v8'.step # "idle" =>
              v8'.place = v8.place,
         \A f \in Repair!Files : f \notin {Repair!HourFile(v8.place), Repair!PartFile} => v4'[f] = v4[f],
         ~v12 => \A r \in RepairRows : v4'[Repair!HourFile(v8.place)][r] > 0 \/ v4'[Repair!PartFile][r] > 0 <=>
                       v4[Repair!HourFile(v8.place)][r] > 0 \/ v4[Repair!PartFile][r] > 0,
         UNCHANGED <<v1, v2, v3, v5, v6, v7, v9, v10, v11, v12, v13>>
  PROVE  /\ Repair!Guarded'
         /\ ~v12 => Repair!Apart' /\ Repair!RepairHolds' /\ Repair!NothingLost' /\ Repair!FirstStays' /\ Repair!Passed' /\ Repair!Refiled'
                        /\ \A t \in Tools : ~Repair!Busy(t) /\ ~Repair!Busy(t)'
<1> DEFINE q == v8.place
           h == Repair!HourFile(v8.place)
<1>1. Repair!Guarded /\ q \in Places /\ q < FirstOpen /\ h \in Repair!Files /\
      Repair!PartFile \in Repair!Files /\ h[1] = q /\ Repair!PartFile[1] = q
  <2>1. Repair!Guarded /\ q \in Places /\ q < FirstOpen
    BY DEF Repair!RepairInv, Repair!Guarded, Repair!TypeOK, Repair!Merges, Repair!KeepsToClosed
  <2> QED BY <2>1, RepairIs DEF Repair!PartFile
<1>2. Repair!TypeOK' /\ Repair!Locked'
  BY <1>1 DEF Repair!Guarded, Repair!TypeOK, Repair!Locked
<1>3. Repair!KeepsToClosed'
  BY <1>1 DEF Repair!Guarded, Repair!KeepsToClosed, Repair!Busy, Repair!Rewrites
<1>4. Repair!HandsOff'
  <2>1. ASSUME NEW r \in RepairRows, NEW p \in Places, FirstOpen <= p
        PROVE  v4'[Repair!HourFile(p)] = v4[Repair!HourFile(p)] /\ v4'[<<p, "part">>] = v4[<<p, "part">>]
    <3>1. Repair!HourFile(p) \in Repair!Files /\ <<p, "part">> \in Repair!Files /\
          Repair!HourFile(p)[1] = p /\ <<p, "part">>[1] = p
      BY <1>1, RepairIs
    <3>2. p # q
      BY <2>1, <1>1, HoursInRow
    <3> QED BY <3>1, <3>2, <1>1
  <2> QED BY <2>1, <1>1 DEF Repair!Guarded, Repair!HandsOff
<1>5. ASSUME ~v12
      PROVE  Repair!Apart' /\ Repair!RepairHolds' /\ Repair!NothingLost' /\ Repair!FirstStays' /\ Repair!Passed' /\ Repair!Refiled'
             /\ \A t \in Tools : ~Repair!Busy(t) /\ ~Repair!Busy(t)'
  <2>1. Repair!Orderly /\ \A t \in Tools : ~Repair!Busy(t) /\ ~Repair!Busy(t)'
    BY <1>5 DEF Repair!RepairInv, Repair!Orderly, Repair!Apart, Repair!Busy
  <2>2. Repair!Apart' /\ Repair!RepairHolds' /\ Repair!FirstStays'
    BY <2>1 DEF Repair!Orderly, Repair!Apart, Repair!RepairHolds, Repair!FirstStays
  <2>3. \A r \in RepairRows, f \in Repair!Files : v4'[f][r] \in Nat /\ v4[f][r] \in Nat
    BY <1>1, RepairIs DEF Repair!Copies
  <2>4. \A r \in RepairRows, f \in Repair!Files : v4'[f][r] > 0 => \E g \in Repair!Files :
        g[1] = f[1] /\ v4[g][r] > 0
    BY <1>1, <1>5
  <2>5. \A r \in RepairRows, f \in Repair!Files : v4[f][r] > 0 => \E g \in Repair!Files : v4'[g][r] > 0
    BY <1>1, <1>5
  <2>6. Repair!NothingLost'
    <3>1. \A r \in RepairRows : ~Repair!InHand(r)
      BY <2>1 DEF Repair!InHand
    <3>2. \A r \in RepairRows : Repair!Gone(r)' => Repair!Gone(r)
      BY <2>3, <2>5 DEF Repair!Gone
    <3> QED BY <3>1, <3>2, <2>1 DEF Repair!Orderly, Repair!NothingLost
  <2>7. Repair!Passed'
    BY <2>1, <2>4 DEF Repair!Orderly, Repair!Passed
  <2>8. Repair!Refiled'
    BY <2>1, <2>4 DEF Repair!Orderly, Repair!Refiled, Repair!InClosed
  <2> QED BY <2>1, <2>2, <2>6, <2>7, <2>8
<1> QED BY <1>1, <1>2, <1>3, <1>4, <1>5 DEF Repair!Guarded

LEMMA MergeRenames == ASSUME Repair!RepairInv, Repair!CompactRename PROVE Repair!RepairInv'
<1> DEFINE h == Repair!HourFile(v8.place)
<1>1. /\ v8.step = "rename" /\ Repair!Guarded /\ v8 \in Repair!Merges /\ v8.place \in Places
      /\ v4' = [v4 EXCEPT ![h] = v8.rows] /\ v8' = [v8 EXCEPT !.step = "unlink"]
      /\ UNCHANGED <<v1, v2, v3, v5, v6, v7, v9, v10, v11, v12, v13>>
  BY DEF Repair!CompactRename, Repair!tape, Repair!RepairInv, Repair!Guarded, Repair!TypeOK, Repair!Merges
<1>2. h \in Repair!Files /\ Repair!PartFile \in Repair!Files /\ h # Repair!PartFile
  BY <1>1, RepairIs DEF Repair!PartFile, Repair!HourFile
<1>3. v4 \in [Repair!Files -> Repair!Copies] /\ v8.rows \in Repair!Copies
  BY <1>1 DEF Repair!Guarded, Repair!TypeOK, Repair!Merges
<1>4. /\ v4' \in [Repair!Files -> Repair!Copies] /\ v4'[h] = v8.rows /\ \A f \in Repair!Files : f # h => v4'[f] = v4[f]
      /\ v8' \in Repair!Merges /\ v8'.step = "unlink" /\ v8'.place = v8.place /\
         Repair!PartFile' = Repair!PartFile
  BY <1>1, <1>2, <1>3 DEF Repair!Merges, Repair!PartFile
<1>5. \A r \in RepairRows, f \in Repair!Files : v4[f][r] \in Nat
  BY <1>1, RepairIs
<1>6. ~v12 => Repair!Orderly /\ \A r \in RepairRows : v4'[h][r] = v4[h][r] + v4[Repair!PartFile][r]
  BY <1>1, <1>4 DEF Repair!RepairInv, Repair!Orderly, Repair!MergeHolds
<1>7. ~v12 => \A r \in RepairRows : v4'[h][r] > 0 \/ v4'[Repair!PartFile][r] > 0 <=>
      v4[h][r] > 0 \/ v4[Repair!PartFile][r] > 0
  BY <1>2, <1>4, <1>5, <1>6
<1>8. /\ Repair!Guarded'
      /\ ~v12 => Repair!Apart' /\ Repair!RepairHolds' /\ Repair!NothingLost' /\ Repair!FirstStays' /\ Repair!Passed' /\ Repair!Refiled'
                     /\ \A t \in Tools : ~Repair!Busy(t) /\ ~Repair!Busy(t)'
  BY <1>1, <1>4, <1>7, MergeWrites
<1>9. ASSUME ~v12' PROVE Repair!Orderly'
  <2>1. ~v12 /\ Repair!Orderly
    BY <1>1, <1>6, <1>9
  <2>2. Repair!MergeHolds'
    BY <2>1, <1>2, <1>4, <1>5, <1>6 DEF Repair!MergeHolds
  <2>3. Repair!Single'
    <3>1. ASSUME NEW r \in RepairRows \ v10.rewritten
          PROVE  /\ \A f \in Repair!Files : v4'[f][r] <= 1
                 /\ \A f, g \in Repair!Files : Repair!Left(f, r)' > 0 /\ Repair!Left(g, r)' > 0 => f = g
      <4>1. /\ \A f \in Repair!Files : v4[f][r] <= 1 /\ v4[f][r] \in Nat
            /\ \A f, g \in Repair!Files : v4[f][r] > 0 /\ v4[g][r] > 0 => f = g
        BY <2>1, <1>1, <1>5, <1>8 DEF Repair!Orderly, Repair!Single, Repair!Left
      <4>2. v4'[h][r] = v4[h][r] + v4[Repair!PartFile][r]
        BY <2>1, <1>6
      <4>3. v4'[h][r] <= 1
        BY <4>1, <4>2, <1>2
      <4>4. \A f \in Repair!Files : Repair!Left(f, r)' = IF f = Repair!PartFile THEN 0 ELSE v4'[f][r]
        BY <1>4 DEF Repair!Left
      <4>5. \A f \in Repair!Files : Repair!Left(f, r)' > 0 =>
              f # Repair!PartFile /\ (v4[f][r] > 0 \/ (f = h /\ v4[Repair!PartFile][r] > 0))
        BY <4>1, <4>2, <4>4, <1>2, <1>4
      <4>6. \A f, g \in Repair!Files : Repair!Left(f, r)' > 0 /\ Repair!Left(g, r)' > 0 => f = g
        BY <4>1, <4>5, <1>2
      <4> QED BY <4>1, <4>3, <4>6, <1>4
    <3> QED BY <3>1, <2>1, <1>1, <1>8 DEF Repair!Single
  <2> QED BY <2>1, <2>2, <2>3, <1>8 DEF Repair!Orderly
<1> QED BY <1>8, <1>9 DEF Repair!RepairInv

LEMMA MergeUnlinks == ASSUME Repair!RepairInv, Repair!CompactUnlink PROVE Repair!RepairInv'
<1> DEFINE h == Repair!HourFile(v8.place)
<1>1. /\ v8.step = "unlink" /\ Repair!Guarded /\ v8 \in Repair!Merges /\ v8.place \in Places
      /\ v4' = [v4 EXCEPT ![Repair!PartFile] = Repair!None] /\ v8' = Repair!NoMerge
      /\ UNCHANGED <<v1, v2, v3, v5, v6, v7, v9, v10, v11, v12, v13>>
  BY DEF Repair!CompactUnlink, Repair!tape, Repair!RepairInv, Repair!Guarded, Repair!TypeOK,
         Repair!Merges, Repair!PartFile
<1>2. h \in Repair!Files /\ Repair!PartFile \in Repair!Files /\ h # Repair!PartFile
  BY <1>1, RepairIs DEF Repair!PartFile, Repair!HourFile
<1>3. v4 \in [Repair!Files -> Repair!Copies] /\ Repair!None \in Repair!Copies
  BY <1>1 DEF Repair!Guarded, Repair!TypeOK, Repair!None, Repair!Copies
<1>4. /\ v4' \in [Repair!Files -> Repair!Copies] /\ \A f \in Repair!Files : f # Repair!PartFile => v4'[f] = v4[f]
      /\ \A r \in RepairRows : v4'[Repair!PartFile][r] = 0
      /\ v8' \in Repair!Merges /\ v8'.step = "idle"
  BY <1>1, <1>2, <1>3, HoursInRow DEF Repair!Merges, Repair!NoMerge, Repair!None
<1>5. \A r \in RepairRows, f \in Repair!Files : v4[f][r] \in Nat
  BY <1>1, RepairIs
<1>6. ~v12 => Repair!Orderly /\ \A r \in RepairRows : v4[Repair!PartFile][r] > 0 => v4[h][r] > 0
  BY <1>1 DEF Repair!RepairInv, Repair!Orderly, Repair!MergeHolds
<1>7. ~v12 => \A r \in RepairRows : v4'[h][r] > 0 \/ v4'[Repair!PartFile][r] > 0 <=>
      v4[h][r] > 0 \/ v4[Repair!PartFile][r] > 0
  BY <1>2, <1>4, <1>5, <1>6
<1>8. /\ Repair!Guarded'
      /\ ~v12 => Repair!Apart' /\ Repair!RepairHolds' /\ Repair!NothingLost' /\ Repair!FirstStays' /\ Repair!Passed' /\ Repair!Refiled'
                     /\ \A t \in Tools : ~Repair!Busy(t) /\ ~Repair!Busy(t)'
  BY <1>1, <1>4, <1>7, MergeWrites
<1>9. ASSUME ~v12' PROVE Repair!Orderly'
  <2>1. ~v12 /\ Repair!Orderly
    BY <1>1, <1>6, <1>9
  <2>2. Repair!MergeHolds'
    BY <1>4 DEF Repair!MergeHolds
  <2>3. Repair!Single'
    <3>1. \A r \in RepairRows, f \in Repair!Files :
          Repair!Left(f, r)' = v4'[f][r] /\ v4'[f][r] = Repair!Left(f, r)
      BY <1>1, <1>2, <1>4 DEF Repair!Left
    <3>2. \A r \in RepairRows, f \in Repair!Files : v4'[f][r] <= v4[f][r]
      BY <1>2, <1>4, <1>5
    <3>3. \A r \in RepairRows \ v10.rewritten, f \in Repair!Files : v4'[f][r] <= 1
      <4>1. \A r \in RepairRows \ v10.rewritten, f \in Repair!Files : v4[f][r] <= 1
        BY <2>1 DEF Repair!Orderly, Repair!Single
      <4> QED BY <4>1, <1>2, <1>4
    <3> QED BY <3>1, <3>3, <2>1, <1>1, <1>8 DEF Repair!Orderly, Repair!Single
  <2> QED BY <2>1, <2>2, <2>3, <1>8 DEF Repair!Orderly
<1> QED BY <1>8, <1>9 DEF Repair!RepairInv

LEMMA RepairStutters == ASSUME Repair!RepairInv, UNCHANGED Repair!vars PROVE Repair!RepairInv'
<1>1. UNCHANGED <<v1, v2, v3, v4, v5, v6, v7, v8, v9, v10, v11, v12, v13>>
  BY DEF Repair!vars, Repair!tape
<1>2. Repair!Guarded'
  BY <1>1 DEF Repair!RepairInv, Repair!Guarded, Repair!TypeOK, Repair!Locked, Repair!KeepsToClosed,
              Repair!HandsOff, Repair!Busy, Repair!Rewrites
<1>3. ASSUME Repair!Orderly PROVE Repair!Orderly'
  <2>1. Repair!Apart' /\ Repair!MergeHolds' /\ Repair!RepairHolds' /\ Repair!FirstStays'
    BY <1>1, <1>3 DEF Repair!Orderly, Repair!Apart, Repair!MergeHolds, Repair!RepairHolds,
                      Repair!FirstStays, Repair!PartFile, Repair!Busy, Repair!Rewrites, Repair!Gathers
  <2>2. Repair!NothingLost'
    BY <1>1, <1>3 DEF Repair!Orderly, Repair!NothingLost, Repair!Gone, Repair!InHand, Repair!Busy
  <2>3. Repair!Single'
    BY <1>1, <1>3 DEF Repair!Orderly, Repair!Single, Repair!Left, Repair!PartFile, Repair!Busy,
                      Repair!Rewrites, Repair!Gathers
  <2>4. Repair!Passed' /\ Repair!Refiled'
    BY <1>1, <1>3 DEF Repair!Orderly, Repair!Passed, Repair!Refiled, Repair!Busy, Repair!Gathers, Repair!Rewrites,
                      Repair!InClosed
  <2> QED BY <2>1, <2>2, <2>3, <2>4 DEF Repair!Orderly
<1> QED BY <1>1, <1>2, <1>3 DEF Repair!RepairInv

LEMMA RepairStep == ASSUME Repair!RepairInv, Repair!Next PROVE Repair!RepairInv'
<1>1. CASE \E t \in Tools, kind \in {"repartition", "thin"} : Repair!Start(t, kind)
  BY <1>1, RepairBegins
<1>2. CASE \E t \in Tools : Repair!Read(t)
  BY <1>2, DayRead
<1>3. CASE \E t \in Tools, p \in Places : Repair!Write(t, p)
  BY <1>3, HourRewritten
<1>4. CASE \E t \in Tools : Repair!Unlink(t)
  BY <1>4, SourceUnlinked
<1>5. CASE \E t \in Tools : Repair!NextDay(t)
  BY <1>5, DayDone
<1>6. CASE \E t \in Tools : Repair!End(t)
  BY <1>6, RepairEnds
<1>7. CASE \E t \in Tools : Repair!Kill(t) \/ Repair!Raise(t)
  BY <1>7, RepairDies DEF Repair!Kill, Repair!Raise
<1>8. CASE Repair!DeleteLock
  BY <1>8, LockDeleted
<1>9. CASE \E p \in {q \in Places : q < FirstOpen} : Repair!CompactRead(p)
  BY <1>9, MergeReads
<1>10. CASE Repair!CompactRename
  BY <1>10, MergeRenames
<1>11. CASE Repair!CompactUnlink
  BY <1>11, MergeUnlinks
<1> QED BY <1>1, <1>2, <1>3, <1>4, <1>5, <1>6, <1>7, <1>8, <1>9, <1>10, <1>11 DEF Repair!Next

LEMMA WholeIsSound == Repair!RepairInv => Repair!TypeOK /\ Repair!RepairedWhole
<1> SUFFICES ASSUME Repair!RepairInv PROVE Repair!TypeOK /\ Repair!RepairedWhole
  OBVIOUS
<1>1. Repair!TypeOK /\ Repair!HandsOff /\ Repair!Guarded
  BY DEF Repair!RepairInv, Repair!Guarded
<1>2. ASSUME ~v12 PROVE Repair!NothingLost /\ Repair!ThinsBetween /\ Repair!InItsHour
  <2>1. Repair!Orderly
    BY <1>2 DEF Repair!RepairInv
  <2>2. Repair!ThinsBetween
    <3>1. ASSUME NEW r \in v11
          PROVE  v1[r] # Repair!Unknown /\ \E q \in RepairRows :
               q < r /\ (~Repair!Gone(q) \/ q \in v10.lost \/ Repair!InHand(q))
      <4>1. v1[r] # Repair!Unknown /\ r # 1 /\ r \in RepairRows
        BY <3>1, <2>1, <1>1 DEF Repair!Orderly, Repair!FirstStays, Repair!TypeOK
      <4>2. 1 \in RepairRows /\ 1 < r
        BY <4>1, RowsInRow
      <4>3. 1 \notin v11
        BY <2>1 DEF Repair!Orderly, Repair!FirstStays
      <4>4. ~Repair!Gone(1) \/ 1 \in v10.lost \/ Repair!InHand(1)
        BY <4>2, <4>3, <2>1 DEF Repair!Orderly, Repair!NothingLost
      <4> QED BY <4>1, <4>2, <4>4
    <3> QED BY <3>1 DEF Repair!ThinsBetween
  <2>3. Repair!InItsHour
    <3>1. ASSUME v13, NEW r \in RepairRows, NEW f \in Repair!Files, Repair!InClosed(r),
                 v1[r] < FirstOpen, v4[f][r] > 0
          PROVE  f[1] = v1[r] /\ (r \notin v10.rewritten => v4[f][r] = 1)
      <4>1. f[1] = v1[r]
        BY <3>1, <2>1 DEF Repair!Orderly, Repair!Refiled
      <4>2. (r \notin v10.rewritten => v4[f][r] <= 1) /\ v4[f][r] \in Nat
        BY <3>1, <2>1, <1>1, RepairIs DEF Repair!Orderly, Repair!Single
      <4> QED BY <4>1, <4>2, <3>1
    <3> QED BY <3>1 DEF Repair!InItsHour
  <2> QED BY <2>1, <2>2, <2>3 DEF Repair!Orderly
<1> QED BY <1>1, <1>2 DEF Repair!RepairedWhole
-----------------------------------------------------------------------------
(* The parts, together: a behaviour of MCCollectors is one of its parts.   *)
FeedsSound ==
  /\ part = "feed" => Feed!IInv
  /\ part = "replay" => Replay!IInv
  /\ part = "perps" => Perps!IInv
  /\ part = "tape" => Tape!IInv

PullsSound ==
  /\ part = "archive" => Binance!IInv
  /\ part = "chd" => Chd!IInv
  /\ part = "gap" => Gap!IInv

LEMMA OnePart ==
  ASSUME [CollectNext]_collectVars
  PROVE  /\ part' = part
         /\ part = "feed" => Feed!Next \/ UNCHANGED Feed!vars
         /\ part = "replay" => Replay!Next \/ UNCHANGED Replay!vars
         /\ part = "perps" => Perps!Next \/ UNCHANGED Perps!vars
         /\ part = "tape" => Tape!Next \/ UNCHANGED Tape!vars
         /\ part = "archive" => Binance!Next \/ UNCHANGED Binance!vars
         /\ part = "chd" => Chd!Next \/ UNCHANGED Chd!vars
         /\ part = "gap" => Gap!Next \/ UNCHANGED Gap!vars
         /\ part = "repair" => Repair!Next \/ UNCHANGED Repair!vars
<1>1. CASE UNCHANGED collectVars
  BY <1>1 DEF collectVars, Feed!vars, Feed!timers, Replay!vars, Perps!vars, Tape!vars, Tape!pass,
              Binance!vars, Chd!vars, Gap!vars, Repair!vars
<1>2. CASE CollectNext
  BY <1>2 DEF CollectNext
<1> QED BY <1>1, <1>2

(* A collector hears a silence in time, sends its keepalives, flushes what *)
(* is old, writes the top of the venue's book but for levels the venue no  *)
(* longer speaks of, and each trade once, follows the universe and leaves  *)
(* no hole in the tape it polls.                                           *)
THEOREM CollectorsFollowHolds == CollectSpec => []CollectorsFollow
<1>1. CollectInit => FeedsSound
  BY FeedStarts, ReplayStarts, PerpsStarts, TapeStarts DEF CollectInit, FeedsSound
<1>2. FeedsSound /\ [CollectNext]_collectVars => FeedsSound'
  <2> SUFFICES ASSUME FeedsSound, [CollectNext]_collectVars PROVE FeedsSound'
    OBVIOUS
  <2>1. part' = part
    BY OnePart
  <2>2. part = "feed" => Feed!IInv'
    BY OnePart, FeedStep, FeedStutters DEF FeedsSound
  <2>3. part = "replay" => Replay!IInv'
    BY OnePart, ReplayStep, ReplayTicks DEF FeedsSound
  <2>4. part = "perps" => Perps!IInv'
    BY OnePart, PerpsStep, PerpsStutters DEF FeedsSound
  <2>5. part = "tape" => Tape!IInv'
    BY OnePart, TapeStep, TapeStutters DEF FeedsSound
  <2> QED BY <2>1, <2>2, <2>3, <2>4, <2>5 DEF FeedsSound
<1>3. FeedsSound => CollectorsFollow
  BY FollowedIsTracked
  DEF FeedsSound, CollectorsFollow, Feed!IInv, Replay!IInv, Perps!IInv, Tape!IInv
<1> QED BY <1>1, <1>2, <1>3, PTL DEF CollectSpec

(* A backfill that says it is done has filed what it was asked for, and    *)
(* twice only what a task that ended half way had left, over kills,        *)
(* failures, refusals, revoked tokens and a collector beside it.           *)
THEOREM BackfillsWholeHolds == CollectSpec => []BackfillsWhole
<1>1. CollectInit => PullsSound
  BY PullStarts, DownloadStarts, FillStarts DEF CollectInit, PullsSound
<1>2. PullsSound /\ [CollectNext]_collectVars => PullsSound'
  <2> SUFFICES ASSUME PullsSound, [CollectNext]_collectVars PROVE PullsSound'
    OBVIOUS
  <2>1. part' = part
    BY OnePart
  <2>2. part = "archive" => Binance!IInv'
    <3>1. ASSUME Binance!IInv, UNCHANGED Binance!vars PROVE Binance!IInv'
      <4>1. /\ UNCHANGED <<v1, v2, v3, v4, v5, v6, v7, v8, Binance!history>>
            /\ v1 \subseteq Periods /\ v2 \subseteq Periods /\ v3 \subseteq Periods
        BY <3>1 DEF Binance!vars, Binance!history, Binance!IInv, Binance!TypeOK
      <4> QED BY <3>1, <4>1, PullStutters
    <3> QED BY <3>1, OnePart, PullStep DEF PullsSound
  <2>3. part = "chd" => Chd!IInv'
    BY OnePart, DownloadStep, VendorActs DEF PullsSound
  <2>4. part = "gap" => Gap!IInv'
    BY OnePart, FillStep, GapStutters DEF PullsSound
  <2> QED BY <2>1, <2>2, <2>3, <2>4 DEF PullsSound
<1>3. PullsSound => BackfillsWhole
  BY DEF PullsSound, BackfillsWhole, Binance!IInv, Chd!IInv, Gap!IInv
<1> QED BY <1>1, <1>2, <1>3, PTL DEF CollectSpec

(* Two repair tools over the same days, killed and run again beside the     *)
(* compaction, leave the collector's hours alone, lose only rows a killed   *)
(* one was rewriting and put each of the others in the hour of its time,    *)
(* once, as long as no compaction overlapped a repair of a day.             *)
THEOREM ArchiveRepairedHolds == CollectSpec => []ArchiveRepaired
<1> DEFINE RepairSound == part = "repair" => Repair!RepairInv
<1>1. CollectInit => RepairSound
  BY RepairStarts DEF CollectInit
<1>2. RepairSound /\ [CollectNext]_collectVars => RepairSound'
  BY OnePart, RepairStep, RepairStutters
<1>3. RepairSound => ArchiveRepaired
  BY WholeIsSound DEF ArchiveRepaired
<1> QED BY <1>1, <1>2, <1>3, PTL DEF CollectSpec
=============================================================================
