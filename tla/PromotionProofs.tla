--------------------------- MODULE PromotionProofs ---------------------------
(***************************************************************************)
(* Theorems about Promotion, for any windows, thresholds, grades and       *)
(* callers: type correctness, LiveIsEarned, ClosedStands and               *)
(* DemotedForCause.  They rest on one fact about series_stats: nothing     *)
(* that is graded or violated once a window has ended changes what it says *)
(* of the window.                                                          *)
(***************************************************************************)
EXTENDS Promotion, FiniteSetTheorems, TLAPS

(* The windows that read as complete, as clean and as earning the tier.     *)
Completed == {s \in Series : Complete(s, now)}

CleanOnes == {s \in Series : Clean(s, now)}

Earning == {s \in Series : Eligible(s, now)}

ViolationsPast == \A v \in violations : v <= now

(* What promotion_status() read a while ago and goes on with is still so.   *)
CallsStand == \A p \in Procs :
  /\ call[p].at <= now
  /\ call[p].eligible => call[p].series \in Earning
  /\ call[p].step \in {"grants", "grant"} => call[p].eligible
  /\ call[p].step = "confirm" => call[p].grant \in 1 .. Len(grants)
  /\ call[p].step \in {"trigger", "demote"} =>
       \E i \in 1 .. Len(confirms) : confirms[i].ts = call[p].since
  /\ call[p].step = "demote" => \E v \in violations : v > call[p].since

GrantsStand == \A g \in 1 .. Len(grants) : grants[g] \in Earning

SeriesClosedStand == \A r \in closed : /\ r.series \in Completed
                                       /\ r.clean <=> r.series \in CleanOnes

IInv == TypeOK /\ ViolationsPast /\ CallsStand /\ GrantsStand /\ SeriesClosedStand /\ DemotedForCause
-----------------------------------------------------------------------------
(* A window that has ended is past: what is stamped now is in a later one.  *)
LEMMA EndedIsPast ==
  ASSUME NEW a \in Nat, NEW s \in Int, a >= WindowEnd(s)
  PROVE  SeriesIndex(a) \in Nat /\ SeriesIndex(a) > s
<1> USE PromotionAssumption
<1> DEFINE q == a \div WindowLen
<1>1. q \in Nat /\ a < WindowLen * q + WindowLen
  OBVIOUS
<1> HIDE DEF q
<1>2. q <= s => WindowLen * q <= WindowLen * s
  BY <1>1
<1>3. a >= WindowLen * s + WindowLen
  BY DEF WindowEnd
<1>4. q > s
  BY <1>1, <1>2, <1>3
<1> QED BY <1>1, <1>4 DEF SeriesIndex, q

LEMMA EndsInOrder ==
  /\ \A s \in Int : WindowEnd(s) \in Int
  /\ \A w, s \in Int : w <= s => WindowEnd(w) <= WindowEnd(s)
BY PromotionAssumption DEF WindowEnd

LEMMA SeriesOfTicks ==
  /\ Series \subseteq Int /\ 0 \in Series
  /\ \A t \in Ticks : SeriesIndex(t) \in Series /\ SeriesIndex(t) - 1 \in Series
<1> USE PromotionAssumption
<1>1. \A t \in Nat : t \div WindowLen \in Nat
  OBVIOUS
<1>2. \A t \in Ticks : t \div WindowLen <= MaxTime \div WindowLen
  BY DEF Ticks
<1> QED BY <1>1, <1>2 DEF Series, SeriesIndex, Ticks

LEMMA LookedBackIsEarlier ==
  ASSUME NEW s \in Int
  PROVE  LookedBack(s) \subseteq Int /\ s \in LookedBack(s) /\ \A w \in LookedBack(s) : w <= s
BY PromotionAssumption DEF LookedBack

LEMMA SeqFacts ==
  ASSUME NEW S, NEW q \in Seq(S)
  PROVE  /\ Len(q) \in Nat /\ \A i \in 1 .. Len(q) : q[i] \in S
         /\ \A e \in S : /\ Append(q, e) \in Seq(S) /\ Len(Append(q, e)) = Len(q) + 1
                         /\ \A i \in 1 .. Len(q) : Append(q, e)[i] = q[i]
OBVIOUS

LEMMA SeqOfMore ==
  ASSUME NEW S, NEW T, S \subseteq T, NEW q \in Seq(S)
  PROVE  q \in Seq(T)
OBVIOUS

(* Counts are numbers. *)
LEMMA CountsAreNumbers ==
  ASSUME TypeOK, NEW s \in Int
  PROVE  GradedCount(s) \in Nat /\ (GradedCount(s) > 0 => s \in Series)
<1>1. Len(graded) \in Nat /\ IsFiniteSet(1 .. Len(graded))
  BY FS_Interval DEF TypeOK
<1>2. NonVoid(s) \in SUBSET (1 .. Len(graded))
  BY DEF NonVoid, InWindow
<1>3. IsFiniteSet(NonVoid(s)) /\ GradedCount(s) \in Nat
  BY <1>1, <1>2, FS_Subset, FS_CardinalityType DEF GradedCount
<1>4. GradedCount(s) > 0 => NonVoid(s) # {}
  BY <1>3, FS_EmptySet DEF GradedCount
<1>5. NonVoid(s) # {} => s \in Series
  <2>1. ASSUME NEW i \in NonVoid(s) PROVE s \in Series
    <3>1. i \in 1 .. Len(graded) /\ SeriesIndex(graded[i].ts) = s
      BY DEF NonVoid, InWindow
    <3>2. graded[i] \in [ts : Ticks, grade : Grades]
      <4>1. graded \in Seq([ts : Ticks, grade : Grades])
        BY DEF TypeOK
      <4> QED BY ONLY <3>1, <4>1, SeqFacts
    <3> QED BY <3>1, <3>2, SeriesOfTicks
  <2> QED BY <2>1
<1> QED BY <1>3, <1>4, <1>5
-----------------------------------------------------------------------------
(* The log as it may grow: a grading or a violation, stamped now. *)
LogGrows ==
  /\ graded' = graded \/ \E grade \in Grades : graded' = Append(graded, [ts |-> now, grade |-> grade])
  /\ violations' \in {violations, violations \cup {now}}

(* series_stats of a window that has ended does not change any more.        *)
LEMMA WindowStays ==
  ASSUME TypeOK, LogGrows, NEW s \in Int, now >= WindowEnd(s)
  PROVE  /\ GradedCount(s)' = GradedCount(s)
         /\ PositiveExpectancy(s)' <=> PositiveExpectancy(s)
         /\ SmallDrawdown(s)' <=> SmallDrawdown(s)
         /\ NoViolation(s)' <=> NoViolation(s)
<1>1. SeriesIndex(now) # s
  BY EndedIsPast, SeriesOfTicks DEF TypeOK, Ticks
<1>2. /\ Len(graded) \in Nat /\ Len(graded') \in Nat /\ Len(graded) <= Len(graded')
      /\ \A i \in 1 .. Len(graded) : graded'[i] = graded[i]
      /\ \A i \in 1 .. Len(graded') : i \in 1 .. Len(graded) \/ graded'[i].ts = now
  <2>1. CASE graded' = graded
    BY <2>1 DEF TypeOK
  <2>2. CASE graded' # graded
    <3> PICK grade \in Grades : graded' = Append(graded, [ts |-> now, grade |-> grade])
      BY <2>2 DEF LogGrows
    <3> DEFINE e == [ts |-> now, grade |-> grade]
    <3>1. e \in [ts : Ticks, grade : Grades] /\ e.ts = now
      BY DEF TypeOK
    <3> HIDE DEF e
    <3>2. graded \in Seq([ts : Ticks, grade : Grades]) /\ graded' = Append(graded, e)
      BY DEF TypeOK, e
    <3>3. Len(graded) \in Nat /\ Len(graded') = Len(graded) + 1
      BY <3>1, <3>2
    <3>4. /\ \A i \in 1 .. Len(graded) : graded'[i] = graded[i]
          /\ graded'[Len(graded) + 1] = e
      BY <3>1, <3>2
    <3> QED BY <3>1, <3>3, <3>4
  <2> QED BY <2>1, <2>2
<1>3. InWindow(s)' = InWindow(s) /\ InWindow(s) \subseteq 1 .. Len(graded)
  BY <1>1, <1>2 DEF InWindow
<1>4. NonVoid(s)' = NonVoid(s) /\ NonVoid(s) \subseteq 1 .. Len(graded)
  BY <1>2, <1>3 DEF NonVoid
<1>5. GradedCount(s)' = GradedCount(s)
  BY <1>4 DEF GradedCount
<1>6. PositiveExpectancy(s)' <=> PositiveExpectancy(s)
  <2> DEFINE M == {i \in NonVoid(s) : graded[i].grade.pnl # None}
             N == {i \in NonVoid(s) : graded'[i].grade.pnl # None}
  <2>1. M = N
    BY <1>2, <1>4
  <2>2. [i \in N |-> graded'[i].grade.pnl] = [i \in M |-> graded[i].grade.pnl]
    BY <1>2, <1>4, <2>1
  <2>3. PositiveExpectancy(s)' <=> SumFunction([i \in N |-> graded'[i].grade.pnl]) > 0
    BY <1>4 DEF PositiveExpectancy
  <2>4. PositiveExpectancy(s) <=> SumFunction([i \in M |-> graded[i].grade.pnl]) > 0
    BY DEF PositiveExpectancy
  <2> QED BY <2>2, <2>3, <2>4
<1>7. \A n \in 0 .. Len(graded) : EquityAfter(n)' = EquityAfter(n)
  <2> SUFFICES ASSUME NEW n \in 0 .. Len(graded) PROVE EquityAfter(n)' = EquityAfter(n)
    OBVIOUS
  <2>1. \A i \in 1 .. n : graded'[i] = graded[i]
    BY <1>2
  <2>2. [i \in 1 .. n |-> IF graded'[i].grade.pnl = None THEN 0 ELSE graded'[i].grade.pnl]
          = [i \in 1 .. n |-> IF graded[i].grade.pnl = None THEN 0 ELSE graded[i].grade.pnl]
    BY <2>1
  <2> QED BY <2>2 DEF EquityAfter
<1>8. SmallDrawdown(s)' <=> SmallDrawdown(s)
  <2> DEFINE walk == InWindow(s) \cup {i - 1 : i \in InWindow(s)}
  <2>1. walk \subseteq 0 .. Len(graded) /\ walk' = walk
    BY <1>2, <1>3
  <2> HIDE DEF walk
  <2>2. SmallDrawdown(s) <=> \A i, j \in walk : i < j /\ EquityAfter(i) > 0 =>
          (EquityAfter(i) - EquityAfter(j)) * 100 < 15 * EquityAfter(i)
    BY DEF SmallDrawdown, walk
  <2>3. SmallDrawdown(s)' <=> \A i, j \in walk' : i < j /\ EquityAfter(i)' > 0 =>
          (EquityAfter(i)' - EquityAfter(j)') * 100 < 15 * EquityAfter(i)'
    BY DEF SmallDrawdown, walk
  <2> QED BY <1>7, <2>1, <2>2, <2>3
<1>9. NoViolation(s)' <=> NoViolation(s)
  BY <1>1 DEF NoViolation, LogGrows
<1> QED BY <1>5, <1>6, <1>8, <1>9

(* What a window is once it has ended, and what rests on it, stays.         *)
LEMMA StatsStand ==
  ASSUME TypeOK, LogGrows, now' \in Ticks, now <= now'
  PROVE  /\ Completed \subseteq Completed' /\ Earning \subseteq Earning'
         /\ \A s \in Completed : s \in CleanOnes <=> s \in CleanOnes'
<1>0. now \in Nat /\ now' \in Nat /\ now <= now'
  BY DEF TypeOK, Ticks
<1>1. ASSUME NEW s \in Int, now > WindowEnd(s)
      PROVE  /\ now' > WindowEnd(s)
             /\ GradedCount(s)' = GradedCount(s)
             /\ Complete(s, now)' <=> Complete(s, now)
             /\ Clean(s, now)' <=> Clean(s, now)
  <2>1. WindowEnd(s) \in Int
    BY EndsInOrder
  <2>2. now' > WindowEnd(s) /\ now >= WindowEnd(s)
    BY <1>0, <1>1, <2>1
  <2> QED BY <1>1, <2>2, WindowStays DEF Clean, Complete
<1>2. Completed \subseteq Completed' /\ \A s \in Completed : s \in CleanOnes <=> s \in CleanOnes'
  BY <1>1, SeriesOfTicks DEF Completed, CleanOnes, Complete
<1>3. ASSUME NEW s \in Series, Eligible(s, now) PROVE Eligible(s, now)'
  <2>1. s \in Int /\ now > WindowEnd(s)
    BY <1>3, SeriesOfTicks DEF Eligible, Clean, Complete
  <2>2. ASSUME NEW w \in LookedBack(s) PROVE w \in Int /\ now > WindowEnd(w)
    BY <1>0, <2>1, EndsInOrder, LookedBackIsEarlier
  <2>3. {w \in LookedBack(s) : Clean(w, now)'} = {w \in LookedBack(s) : Clean(w, now)}
    BY <1>1, <2>2
  <2>4. [w \in LookedBack(s) |-> GradedCount(w)'] = [w \in LookedBack(s) |-> GradedCount(w)]
    BY <1>1, <2>2
  <2>5. Clean(s, now)'
    BY <1>1, <1>3, <2>1 DEF Eligible
  <2> QED BY <1>3, <2>3, <2>4, <2>5 DEF Eligible
<1>4. Earning \subseteq Earning'
  BY <1>3 DEF Earning
<1> QED BY <1>2, <1>4

(* A reading with a clock of a while ago says the same.                     *)
LEMMA ReadingStands ==
  ASSUME TypeOK, NEW at \in Ticks, at <= now, NEW s \in Int, Complete(s, at)
  PROVE  s \in Completed /\ (Clean(s, at) <=> s \in CleanOnes)
<1>1. s \in Series
  BY CountsAreNumbers, PromotionAssumption DEF Complete
<1>2. now > WindowEnd(s)
  BY EndsInOrder DEF Complete, Ticks, TypeOK
<1> QED BY <1>1, <1>2 DEF Complete, Clean, Completed, CleanOnes

LEMMA InitIInv == Init => IInv
<1> SUFFICES ASSUME Init PROVE IInv
  OBVIOUS
<1>1. TypeOK
  <2>1. Idle \in Call
    BY SeriesOfTicks, PromotionAssumption DEF Idle, Call, Ticks
  <2> QED BY <2>1, PromotionAssumption DEF Init, TypeOK, Ticks
<1>2. ViolationsPast /\ CallsStand /\ GrantsStand /\ SeriesClosedStand /\ DemotedForCause
  BY DEF Init, Idle, ViolationsPast, CallsStand, GrantsStand, SeriesClosedStand, DemotedForCause
<1> QED BY <1>1, <1>2 DEF IInv

(* Steps of the rest of the system. *)
LEMMA LogStep ==
  ASSUME IInv, Tick \/ Grade \/ Violate
  PROVE  IInv'
<1>1. /\ LogGrows /\ now' \in Ticks /\ now <= now'
      /\ UNCHANGED <<grants, confirms, demotes, closed, call>> /\ violations \subseteq violations'
  <2>1. now \in Ticks
    BY DEF IInv, TypeOK
  <2>2. now' \in Ticks /\ now <= now'
    BY <2>1, PromotionAssumption DEF Tick, Grade, Violate, Ticks
  <2>3. LogGrows /\ UNCHANGED <<grants, confirms, demotes, closed, call>>
    BY DEF Tick, Grade, Violate, LogGrows
  <2> QED BY <2>2, <2>3 DEF LogGrows
<1>2. TypeOK'
  <2>1. graded' \in Seq([ts : Ticks, grade : Grades])
    <3>1. graded \in Seq([ts : Ticks, grade : Grades])
            /\ \A grade \in Grades : [ts |-> now, grade |-> grade] \in [ts : Ticks, grade : Grades]
      BY DEF IInv, TypeOK
    <3>2. CASE graded' = graded
      BY <3>1, <3>2
    <3>3. CASE graded' # graded
      <4>1. PICK grade \in Grades : graded' = Append(graded, [ts |-> now, grade |-> grade])
        BY <1>1, <3>3 DEF LogGrows
      <4>2. [ts |-> now, grade |-> grade] \in [ts : Ticks, grade : Grades]
        BY <3>1
      <4> QED BY ONLY <3>1, <4>1, <4>2, SeqFacts
    <3> QED BY <3>2, <3>3
  <2>2. violations' \subseteq Ticks
    BY <1>1 DEF LogGrows, IInv, TypeOK
  <2> QED BY <1>1, <2>1, <2>2 DEF IInv, TypeOK
<1>3. /\ Completed \subseteq Completed' /\ Earning \subseteq Earning'
      /\ \A s \in Completed : s \in CleanOnes <=> s \in CleanOnes'
  BY <1>1, StatsStand DEF IInv
<1>4. ViolationsPast'
  <2>1. \A v \in violations' : v \in violations \/ v = now
    BY <1>1 DEF LogGrows
  <2>2. now \in Nat /\ now' \in Nat /\ violations \subseteq Nat
    BY <1>1 DEF IInv, TypeOK, Ticks
  <2> QED BY <1>1, <2>1, <2>2 DEF IInv, ViolationsPast
<1>5. CallsStand'
  <2>1. \A p \in Procs : call[p].at \in Nat /\ now \in Nat /\ now' \in Nat
    BY <1>1 DEF IInv, TypeOK, Call, Ticks
  <2> QED BY <1>1, <1>3, <2>1 DEF IInv, CallsStand
<1>6. GrantsStand' /\ SeriesClosedStand' /\ DemotedForCause'
  BY <1>1, <1>3 DEF IInv, GrantsStand, SeriesClosedStand, DemotedForCause
<1> QED BY <1>2, <1>4, <1>5, <1>6 DEF IInv
-----------------------------------------------------------------------------
(* What CallsStand asks of one call. *)
CallStands(c) ==
  /\ c.at <= now
  /\ c.eligible => c.series \in Earning
  /\ c.step \in {"grants", "grant"} => c.eligible
  /\ c.step = "confirm" => c.grant \in 1 .. Len(grants)
  /\ c.step \in {"trigger", "demote"} => \E i \in 1 .. Len(confirms) : confirms[i].ts = c.since
  /\ c.step = "demote" => \E v \in violations : v > c.since

(* Steps of one caller, which leave the log as it is but for what they append. *)
LEMMA CallMoves ==
  ASSUME IInv, NEW p \in Procs, UNCHANGED <<now, graded, violations>>,
         \E c \in Call : call' = [call EXCEPT ![p] = c] /\ CallStands(c),
         UNCHANGED grants \/ \E s \in Earning : grants' = Append(grants, s),
         UNCHANGED confirms \/ \E g \in 1 .. Len(grants) : confirms' = Append(confirms, [grant |-> g, ts |-> now]),
         closed' \subseteq [series : Series, clean : BOOLEAN],
         \A r \in closed' \ closed : r.series \in Completed /\ (r.clean <=> r.series \in CleanOnes),
         demotes' \subseteq demotes \cup {now},
         demotes' \subseteq demotes \/ \E v \in violations, i \in 1 .. Len(confirms) : confirms[i].ts < v
  PROVE  IInv'
<1>0. now \in Ticks /\ now \in Nat
  BY DEF IInv, TypeOK, Ticks
<1>1. /\ Completed \subseteq Completed' /\ Earning \subseteq Earning'
      /\ \A s \in Completed : s \in CleanOnes <=> s \in CleanOnes'
  BY <1>0, StatsStand DEF IInv, LogGrows
<1>2. /\ grants \in Seq(Series) /\ grants' \in Seq(Series) /\ Len(grants) \in Nat
      /\ Len(grants') \in Nat /\ Len(grants) <= Len(grants')
      /\ \A g \in 1 .. Len(grants') : grants'[g] \in Earning
  <2>1. grants \in Seq(Series) /\ Earning \subseteq Series
          /\ \A g \in 1 .. Len(grants) : grants[g] \in Earning
    BY DEF IInv, TypeOK, GrantsStand, Earning
  <2>2. CASE grants' = grants
    BY <2>1, <2>2
  <2>3. ASSUME NEW s \in Earning, grants' = Append(grants, s)
        PROVE  grants' \in Seq(Series) /\ Len(grants') = Len(grants) + 1
                 /\ \A g \in 1 .. Len(grants') : grants'[g] \in Earning
    <3>1. s \in Series
      BY <2>1
    <3> QED BY ONLY <2>1, <2>3, <3>1, SeqFacts
  <2> QED BY <2>1, <2>2, <2>3
<1>3. /\ confirms' \in Seq([grant : 1 .. Len(grants'), ts : Ticks])
      /\ Len(confirms) \in Nat /\ Len(confirms') \in Nat /\ Len(confirms) <= Len(confirms')
      /\ \A i \in 1 .. Len(confirms) : confirms'[i] = confirms[i]
  <2> DEFINE S == [grant : 1 .. Len(grants'), ts : Ticks]
  <2>1. confirms \in Seq([grant : 1 .. Len(grants), ts : Ticks])
    BY DEF IInv, TypeOK
  <2>2. [grant : 1 .. Len(grants), ts : Ticks] \subseteq S
    BY <1>2
  <2> HIDE DEF S
  <2>3. confirms \in Seq(S) /\ Len(confirms) \in Nat
    BY ONLY <2>1, <2>2, SeqFacts, SeqOfMore
  <2>4. CASE confirms' = confirms
    BY <2>3, <2>4 DEF S
  <2>5. CASE confirms' # confirms
    <3>1. PICK g \in 1 .. Len(grants) : confirms' = Append(confirms, [grant |-> g, ts |-> now])
      BY <2>5
    <3>2. [grant |-> g, ts |-> now] \in S
      BY <1>0, <2>2
    <3>3. /\ confirms' \in Seq(S) /\ Len(confirms') = Len(confirms) + 1
          /\ \A i \in 1 .. Len(confirms) : confirms'[i] = confirms[i]
      BY ONLY <2>3, <3>1, <3>2, SeqFacts
    <3> QED BY <2>3, <3>3 DEF S
  <2> QED BY <2>4, <2>5
<1>4. PICK c \in Call : call' = [call EXCEPT ![p] = c] /\ CallStands(c)
  OBVIOUS
<1>5. TypeOK'
  <2>1. call' \in [Procs -> Call]
    BY <1>4 DEF IInv, TypeOK
  <2> QED BY <1>0, <1>2, <1>3, <2>1 DEF IInv, TypeOK
<1>6. CallsStand'
  <2>1. ASSUME NEW q \in Procs PROVE CallStands(call'[q])
    BY <1>4 DEF CallStands, IInv, TypeOK, CallsStand
  <2>2. ASSUME NEW q \in Procs
        PROVE  /\ call'[q].at <= now
               /\ call'[q].eligible => call'[q].series \in Earning'
               /\ call'[q].step \in {"grants", "grant"} => call'[q].eligible
               /\ call'[q].step = "confirm" => call'[q].grant \in 1 .. Len(grants')
               /\ call'[q].step \in {"trigger", "demote"} =>
                    \E i \in 1 .. Len(confirms') : confirms'[i].ts = call'[q].since
               /\ call'[q].step = "demote" => \E v \in violations : v > call'[q].since
    <3>1. CallStands(call'[q])
      BY <2>1
    <3>2. 1 .. Len(grants) \subseteq 1 .. Len(grants') /\ 1 .. Len(confirms) \subseteq 1 .. Len(confirms')
      BY <1>2, <1>3
    <3> QED BY <1>1, <1>3, <3>1, <3>2 DEF CallStands
  <2> QED BY <2>2 DEF CallsStand
<1>7. GrantsStand' /\ ViolationsPast'
  BY <1>1, <1>2 DEF IInv, GrantsStand, ViolationsPast
<1>8. SeriesClosedStand'
  BY <1>1 DEF IInv, SeriesClosedStand
<1>9. DemotedForCause'
  <2>1. ASSUME NEW d \in demotes' PROVE \E v \in violations, i \in 1 .. Len(confirms) : confirms[i].ts < v /\ v <= d
    BY <2>1 DEF IInv, DemotedForCause, ViolationsPast
  <2> QED BY <1>3, <2>1 DEF DemotedForCause
<1> QED BY <1>5, <1>6, <1>7, <1>8, <1>9 DEF IInv

LEMMA StatusStep ==
  ASSUME IInv, NEW p \in StatusProcs, Status(p)
  PROVE  IInv'
<1> DEFINE c == call[p]
<1>0. /\ p \in Procs /\ c \in Call /\ call \in [Procs -> Call] /\ now \in Ticks /\ now \in Nat
      /\ Idle \in Call /\ Idle.at <= now /\ Idle.step = "idle" /\ ~Idle.eligible
      /\ closed \subseteq [series : Series, clean : BOOLEAN]
  <2>1. Idle \in Call /\ Idle.at = 0 /\ Idle.step = "idle" /\ ~Idle.eligible
    BY SeriesOfTicks, PromotionAssumption DEF Idle, Call, Ticks
  <2> QED BY <2>1 DEF Procs, IInv, TypeOK, Ticks
<1>1. CallStands(Idle) /\ CallStands(c)
  BY <1>0 DEF CallStands, IInv, CallsStand
<1>2. ASSUME ReadStats(p) PROVE IInv'
  <2>1. PICK r016 \in BOOLEAN :
          call' = [call EXCEPT ![p] = [Idle EXCEPT !.step = "close", !.at = now,
                     !.series = EvaluationSeries, !.eligible = Eligible(EvaluationSeries, now) /\ r016]]
    BY <1>2 DEF ReadStats, Set
  <2> DEFINE d == [Idle EXCEPT !.step = "close", !.at = now, !.series = EvaluationSeries,
                               !.eligible = Eligible(EvaluationSeries, now) /\ r016]
  <2>2. EvaluationSeries \in Series
    <3>1. CASE graded = <<>>
      BY <1>0, <3>1, SeriesOfTicks DEF EvaluationSeries
    <3>2. CASE graded # <<>>
      <4>1. graded \in Seq([ts : Ticks, grade : Grades])
        BY DEF IInv, TypeOK
      <4>2. Len(graded) \in 1 .. Len(graded)
        BY ONLY <3>2, <4>1
      <4>3. graded[Len(graded)] \in [ts : Ticks, grade : Grades]
        BY ONLY <4>1, <4>2, SeqFacts
      <4> QED BY <3>2, <4>3, SeriesOfTicks DEF EvaluationSeries
    <3> QED BY <3>1, <3>2
  <2>3. d \in Call /\ d.step = "close" /\ d.at = now /\ d.series = EvaluationSeries
          /\ (d.eligible => Eligible(EvaluationSeries, now))
    BY <1>0, <2>2 DEF Call, Idle
  <2> HIDE DEF d
  <2>4. CallStands(d)
    BY <1>0, <2>2, <2>3 DEF CallStands, Earning
  <2>5. call' = [call EXCEPT ![p] = d]
    BY <2>1 DEF d
  <2> QED BY <1>0, <1>2, <2>3, <2>4, <2>5, CallMoves DEF ReadStats
<1>3. ASSUME CloseSeries(p) PROVE IInv'
  <2> DEFINE due == {s \in LookedBack(c.series) : Complete(s, c.at) /\ \A r \in closed : r.series # s}
             d == [Idle EXCEPT !.step = "tier", !.series = IF c.eligible THEN c.series ELSE 0,
                               !.eligible = c.eligible]
  <2>1. /\ closed' = closed \cup {[series |-> s, clean |-> Clean(s, c.at)] : s \in due}
        /\ call' = [call EXCEPT ![p] = d]
        /\ UNCHANGED <<now, graded, violations, grants, confirms, demotes>>
    BY <1>3 DEF CloseSeries, Set
  <2>2. d \in Call /\ CallStands(d)
    BY <1>0, <1>1, SeriesOfTicks DEF Call, Idle, CallStands
  <2>3. ASSUME NEW s \in due
        PROVE  s \in Series /\ s \in Completed /\ (Clean(s, c.at) <=> s \in CleanOnes)
    <3>1. c.at \in Ticks /\ c.at <= now /\ c.series \in Int
      BY <1>0, <1>1, SeriesOfTicks DEF Call, CallStands
    <3>2. s \in Int /\ Complete(s, c.at)
      BY <3>1, LookedBackIsEarlier
    <3>3. s \in Completed /\ (Clean(s, c.at) <=> s \in CleanOnes)
      BY <3>1, <3>2, ReadingStands DEF IInv
    <3> QED BY <3>3 DEF Completed
  <2> HIDE DEF due, d
  <2>4. \A s \in due : Clean(s, c.at) \in BOOLEAN
    BY DEF Clean, Complete
  <2>5. ASSUME NEW r \in closed' \ closed
        PROVE  /\ r \in [series : Series, clean : BOOLEAN]
               /\ r.series \in Completed /\ (r.clean <=> r.series \in CleanOnes)
    <3>1. PICK s \in due : r = [series |-> s, clean |-> Clean(s, c.at)]
      BY <2>1
    <3>2. r.series = s /\ (r.clean <=> Clean(s, c.at))
      BY <3>1
    <3>3. r \in [series : Series, clean : BOOLEAN]
      BY <2>3, <2>4, <3>1
    <3> QED BY <2>3, <3>2, <3>3
  <2>6. closed' \subseteq [series : Series, clean : BOOLEAN]
    BY <1>0, <2>5
  <2> QED BY <1>0, <2>1, <2>2, <2>5, <2>6, CallMoves
<1>4. ASSUME ReadTier(p) PROVE IInv'
  <2>1. UNCHANGED <<now, graded, violations, grants, confirms, demotes, closed>> /\ c.step = "tier"
    BY <1>4 DEF ReadTier, At
  <2>2. CASE Tier = "T2"
    <3> DEFINE d == [Idle EXCEPT !.step = "trigger", !.since = LastConfirm.ts]
    <3>1. call' = [call EXCEPT ![p] = d]
      BY <1>4, <2>2 DEF ReadTier, Set
    <3>2. Len(confirms) \in 1 .. Len(confirms) /\ LastConfirm.ts \in Ticks
      <4>1. confirms \in Seq([grant : 1 .. Len(grants), ts : Ticks]) /\ confirms # <<>>
        BY <2>2 DEF IInv, TypeOK, Tier
      <4>2. Len(confirms) \in 1 .. Len(confirms)
        BY ONLY <4>1
      <4>3. confirms[Len(confirms)] \in [grant : 1 .. Len(grants), ts : Ticks]
        BY ONLY <4>1, <4>2, SeqFacts
      <4> QED BY <4>2, <4>3 DEF LastConfirm
    <3>3. d \in Call /\ d.at = Idle.at /\ d.step = "trigger" /\ ~d.eligible /\ d.since = LastConfirm.ts
      BY <1>0, <3>2 DEF Call, Idle
    <3> HIDE DEF d
    <3>4. CallStands(d)
      BY <1>0, <3>2, <3>3 DEF CallStands, LastConfirm
    <3> QED BY <1>0, <2>1, <3>1, <3>3, <3>4, CallMoves
  <2>3. CASE Tier # "T2" /\ c.eligible
    <3> DEFINE d == [c EXCEPT !.step = "grants"]
    <3>1. call' = [call EXCEPT ![p] = d]
      BY <1>4, <2>3 DEF ReadTier, Set, Goto
    <3>2. d \in Call /\ CallStands(d)
      BY <1>0, <1>1, <2>3 DEF CallStands, Call
    <3> HIDE DEF d
    <3> QED BY <1>0, <2>1, <3>1, <3>2, CallMoves
  <2>4. CASE Tier # "T2" /\ ~c.eligible
    <3>1. call' = [call EXCEPT ![p] = Idle]
      BY <1>4, <2>4 DEF ReadTier, Set
    <3> QED BY <1>0, <1>1, <2>1, <3>1, CallMoves
  <2> QED BY <2>2, <2>3, <2>4
<1>5. ASSUME CheckGrants(p) PROVE IInv'
  <2> DEFINE d == [c EXCEPT !.step = "grant"]
  <2>1. /\ UNCHANGED <<now, graded, violations, grants, confirms, demotes, closed>> /\ c.step = "grants"
        /\ call' = [call EXCEPT ![p] = d] \/ call' = [call EXCEPT ![p] = Idle]
    BY <1>5 DEF CheckGrants, At, Set, Goto
  <2>2. d \in Call /\ CallStands(d)
    BY <1>0, <1>1, <2>1 DEF CallStands, Call
  <2> HIDE DEF d
  <2> QED BY <1>0, <1>1, <2>1, <2>2, CallMoves
<1>6. ASSUME AppendGranted(p) PROVE IInv'
  <2>1. /\ UNCHANGED <<now, graded, violations, confirms, demotes, closed>> /\ c.step = "grant"
        /\ grants' = Append(grants, c.series) /\ call' = [call EXCEPT ![p] = Idle]
    BY <1>6 DEF AppendGranted, At, Set
  <2>2. c.series \in Earning
    BY <1>1, <2>1 DEF CallStands
  <2> QED BY <1>0, <1>1, <2>1, <2>2, CallMoves
<1>7. ASSUME CheckTrigger(p) PROVE IInv'
  <2> DEFINE d == [c EXCEPT !.step = "demote"]
  <2>1. /\ UNCHANGED <<now, graded, violations, grants, confirms, demotes, closed>> /\ c.step = "trigger"
        /\ \/ call' = [call EXCEPT ![p] = d] /\ Trigger(c.since)
           \/ call' = [call EXCEPT ![p] = Idle]
    BY <1>7 DEF CheckTrigger, At, Set, Goto
  <2>2. d \in Call /\ (Trigger(c.since) => CallStands(d))
    BY <1>0, <1>1, <2>1 DEF CallStands, Call, Trigger
  <2> HIDE DEF d
  <2> QED BY <1>0, <1>1, <2>1, <2>2, CallMoves
<1>8. ASSUME AppendDemoted(p) PROVE IInv'
  <2>1. /\ UNCHANGED <<now, graded, violations, grants, confirms, closed>> /\ c.step = "demote"
        /\ demotes' = demotes \cup {now} /\ call' = [call EXCEPT ![p] = Idle]
    BY <1>8 DEF AppendDemoted, At, Set
  <2>2. \E v \in violations, i \in 1 .. Len(confirms) : confirms[i].ts < v
    BY <1>1, <2>1 DEF CallStands
  <2> QED BY <1>0, <1>1, <2>1, <2>2, CallMoves
<1> QED BY <1>2, <1>3, <1>4, <1>5, <1>6, <1>7, <1>8 DEF Status

LEMMA ConfirmStep ==
  ASSUME IInv, NEW p \in Confirmers, Confirm(p)
  PROVE  IInv'
<1> DEFINE c == call[p]
<1>0. /\ p \in Procs /\ c \in Call /\ call \in [Procs -> Call]
      /\ Idle \in Call /\ Idle.at = 0 /\ Idle.step = "idle" /\ ~Idle.eligible
      /\ now \in Nat /\ closed \subseteq [series : Series, clean : BOOLEAN]
  BY SeriesOfTicks, PromotionAssumption DEF Procs, IInv, TypeOK, Idle, Call, Ticks
<1>1. CallStands(Idle) /\ CallStands(c)
  BY <1>0 DEF CallStands, IInv, CallsStand
<1>2. ASSUME ReadGrants(p) PROVE IInv'
  <2>1. /\ UNCHANGED <<now, graded, violations, grants, confirms, demotes, closed>>
        /\ \E g \in Unconsumed : call' = [call EXCEPT ![p] = [Idle EXCEPT !.step = "confirm", !.grant = g]]
    BY <1>2 DEF ReadGrants, Set
  <2>2. PICK g \in Unconsumed : call' = [call EXCEPT ![p] = [Idle EXCEPT !.step = "confirm", !.grant = g]]
    BY <2>1
  <2> DEFINE d == [Idle EXCEPT !.step = "confirm", !.grant = g]
  <2>3. g \in 1 .. Len(grants) /\ g \in Nat
    BY <2>2 DEF Unconsumed
  <2>4. d \in Call /\ d.at = 0 /\ d.step = "confirm" /\ ~d.eligible /\ d.grant = g
    BY <1>0, <2>3 DEF Call, Idle
  <2>5. call' = [call EXCEPT ![p] = d]
    BY <2>2
  <2> HIDE DEF d
  <2>6. CallStands(d)
    BY <1>0, <2>3, <2>4 DEF CallStands
  <2> QED BY <1>0, <2>1, <2>4, <2>5, <2>6, CallMoves
<1>3. ASSUME AppendConfirmed(p) PROVE IInv'
  <2>1. /\ UNCHANGED <<now, graded, violations, grants, demotes, closed>> /\ c.step = "confirm"
        /\ confirms' = Append(confirms, [grant |-> c.grant, ts |-> now])
        /\ call' = [call EXCEPT ![p] = Idle]
    BY <1>3 DEF AppendConfirmed, At, Set
  <2>2. c.grant \in 1 .. Len(grants)
    BY <1>1, <2>1 DEF CallStands
  <2> QED BY <1>0, <1>1, <2>1, <2>2, CallMoves
<1> QED BY <1>2, <1>3 DEF Confirm

LEMMA InductiveStep == IInv /\ [Next]_vars => IInv'
<1> SUFFICES ASSUME IInv, [Next]_vars PROVE IInv'
  OBVIOUS
<1>1. CASE Tick \/ Grade \/ Violate
  BY <1>1, LogStep
<1>2. ASSUME NEW p \in StatusProcs, Status(p) PROVE IInv'
  BY <1>2, StatusStep
<1>3. ASSUME NEW p \in Confirmers, Confirm(p) PROVE IInv'
  BY <1>3, ConfirmStep
<1>4. CASE UNCHANGED vars
  <2>1. TypeOK' /\ ViolationsPast' /\ GrantsStand' /\ SeriesClosedStand' /\ CallsStand' /\ DemotedForCause'
    <3>1. LogGrows /\ now' \in Ticks /\ now <= now' /\ UNCHANGED vars
      BY <1>4 DEF vars, LogGrows, IInv, TypeOK, Ticks
    <3>2. /\ Completed \subseteq Completed' /\ Earning \subseteq Earning'
          /\ \A s \in Completed : s \in CleanOnes <=> s \in CleanOnes'
      BY <3>1, StatsStand DEF IInv
    <3> QED BY <3>1, <3>2 DEF vars, IInv, TypeOK, ViolationsPast, GrantsStand, SeriesClosedStand,
          CallsStand, DemotedForCause
  <2> QED BY <2>1 DEF IInv
<1> QED BY <1>1, <1>2, <1>3, <1>4 DEF Next

THEOREM Invariance == Spec => []IInv
BY InitIInv, InductiveStep, PTL DEF Spec

(* Clock, log and calls keep their types.                                   *)
THEOREM TypeCorrect == Spec => []TypeOK
<1>1. IInv => TypeOK
  BY DEF IInv
<1> QED BY <1>1, Invariance, PTL
-----------------------------------------------------------------------------
(* A SeriesClosed event says of its window what every later reading of the  *)
(* log says: no late grading, violation, caller or clock changes it.        *)
THEOREM ClosedStandsHolds == Spec => []ClosedStands
<1>1. IInv => ClosedStands
  <2> SUFFICES ASSUME IInv, NEW r \in closed
               PROVE  Complete(r.series, now) /\ r.clean = Clean(r.series, now)
    BY DEF IInv, ClosedStands
  <2>1. r.series \in Series /\ r.clean \in BOOLEAN
    BY DEF IInv, TypeOK
  <2>2. Complete(r.series, now) /\ (r.clean <=> Clean(r.series, now))
    BY <2>1 DEF IInv, SeriesClosedStand, Completed, CleanOnes
  <2>3. Clean(r.series, now) \in BOOLEAN
    BY DEF Clean
  <2> QED BY <2>1, <2>2, <2>3
<1> QED BY <1>1, Invariance, PTL

(* The live tier is only ever held on a series that still earns it.         *)
THEOREM LiveIsEarnedHolds == Spec => []LiveIsEarned
<1>1. IInv => LiveIsEarned
  <2> SUFFICES ASSUME IInv, Tier = "T2" PROVE Eligible(grants[LastConfirm.grant], now)
    BY DEF LiveIsEarned
  <2>1. confirms \in Seq([grant : 1 .. Len(grants), ts : Ticks]) /\ confirms # <<>>
    BY DEF IInv, TypeOK, Tier
  <2>2. Len(confirms) \in 1 .. Len(confirms)
    BY ONLY <2>1
  <2>3. confirms[Len(confirms)] \in [grant : 1 .. Len(grants), ts : Ticks]
    BY ONLY <2>1, <2>2, SeqFacts
  <2>4. grants[LastConfirm.grant] \in Earning
    BY <2>3 DEF IInv, GrantsStand, LastConfirm
  <2> QED BY <2>4 DEF Earning
<1> QED BY <1>1, Invariance, PTL

(* Every demotion answers a violation after a confirmation.                 *)
THEOREM DemotedForCauseHolds == Spec => []DemotedForCause
<1>1. IInv => DemotedForCause
  BY DEF IInv
<1> QED BY <1>1, Invariance, PTL
=============================================================================
