-------------------------- MODULE PolicyGateProofs --------------------------
(***************************************************************************)
(* Theorems about PolicyGate, for any finite sets of theses and processes, *)
(* any dials and any length of days and windows: type correctness,         *)
(* EntriesBounded, GateBounded, BreakerIsWorstFall and LockoutShows.       *)
(***************************************************************************)
EXTENDS PolicyGate, FiniteSetTheorems, NaturalsInduction, WellFoundedInduction, TLAPS

ManualSteps == {"manual.activate", "manual.check"}

(* TypeOK is not inductive: ManualCheck flags the fill the call carries. *)
FillKnown == \A p \in Procs : call[p].step \in ManualSteps => call[p].fill \in 1 .. Len(fills)

(* No first order lies in the future. *)
Timely == \A t \in Theses : entered[t] # None => entered[t] <= Day(now)

IInv == TypeOK /\ FillKnown /\ Timely

(* Calls a rule has let pass and whose order is not submitted yet. *)
InFlight == {p \in Procs : call[p].step = "submit"}
-----------------------------------------------------------------------------
(* Days and calls. *)
LEMMA DaysOrdered == /\ Days \subseteq Nat
                     /\ \A tick \in Ticks : Day(tick) \in Days
                     /\ \A tick \in Nat : Day(tick) \in Nat /\ Day(tick) <= Day(tick + 1)
BY GateAssumption DEF Days, Day, Ticks

LEMMA IdleIsCall == Idle \in Calls /\ Idle.step = "idle"
BY DEF Calls, Idle

LEMMA CallSet ==
  ASSUME TypeOK, NEW p \in Procs, NEW c \in Calls, Set(p, c)
  PROVE  /\ call' \in [Procs -> Calls]
         /\ call'[p] = c
         /\ \A q \in Procs \ {p} : call'[q] = call[q]
BY DEF Set, TypeOK

(* A process inside a call carries a thesis, a side, a time and a number. *)
LEMMA InsideCall ==
  ASSUME TypeOK, NEW p \in Procs, call[p].step # "idle"
  PROVE  call[p] \in [step : Steps, thesis : Theses, side : Sides, at : Ticks, fill : Nat]
BY DEF TypeOK, Calls, Idle

LEMMA CallGoes ==
  ASSUME TypeOK, NEW p \in Procs, call[p].step # "idle", NEW step \in Steps, Goto(p, step)
  PROVE  /\ call' \in [Procs -> Calls]
         /\ call'[p].step = step
         /\ call'[p].fill = call[p].fill
         /\ \A q \in Procs \ {p} : call'[q] = call[q]
<1> DEFINE c == [call[p] EXCEPT !.step = step]
<1>1. c \in Calls /\ c.step = step /\ c.fill = call[p].fill
  BY InsideCall DEF Calls
<1>2. Set(p, c)
  BY DEF Goto
<1> HIDE DEF c
<1> QED BY <1>1, <1>2, CallSet

LEMMA FillRecorded ==
  ASSUME TypeOK, NEW t \in Theses, NEW side \in Sides, NEW ts \in Ticks, RecordFill(t, side, ts)
  PROVE  /\ fills' \in Seq(Fill)
         /\ Len(fills') = Len(fills) + 1
         /\ Len(fills) \in Nat
         /\ held' \subseteq Theses
BY DEF RecordFill, TypeOK, Fill

(* A fill is dated between its order and now. *)
LEMMA FillTimed ==
  ASSUME TypeOK, NEW at \in Ticks PROVE FillTimes(at) \subseteq Ticks
BY GateAssumption DEF FillTimes, Ticks, TypeOK

LEMMA LateCounted ==
  ASSUME TypeOK, NEW n \in Nat, CountLate(n)
  PROVE  late' \in Nat
BY DEF CountLate, TypeOK

LEMMA ThesisActivates ==
  ASSUME TypeOK, NEW t \in Theses, ActivateThesis(t)
  PROVE  stage' \in [Theses -> {"approved", "active", "graded"}]
BY DEF ActivateThesis, TypeOK
-----------------------------------------------------------------------------
(* The inductive invariant. *)
LEMMA FillStaysKnown ==
  ASSUME FillKnown, NEW p \in Procs, \A q \in Procs \ {p} : call'[q] = call[q],
         Len(fills) \in Nat, Len(fills') \in Nat, Len(fills) <= Len(fills'),
         call'[p].step \in ManualSteps => call'[p].fill \in 1 .. Len(fills')
  PROVE  FillKnown'
BY DEF FillKnown

LEMMA LogLength == TypeOK => Len(fills) \in Nat
BY DEF TypeOK, Fill

(* A call that ends or goes on and records nothing. *)
LEMMA CallReplaced ==
  ASSUME IInv, NEW p \in Procs, NEW c \in Calls, c.step \notin ManualSteps, Set(p, c),
         UNCHANGED fills
  PROVE  call' \in [Procs -> Calls] /\ FillKnown'
BY CallSet, FillStaysKnown, LogLength DEF IInv

LEMMA CallGoesOn ==
  ASSUME IInv, NEW p \in Procs, call[p].step # "idle", NEW step \in Steps \ ManualSteps,
         Goto(p, step), UNCHANGED fills
  PROVE  call' \in [Procs -> Calls] /\ FillKnown'
BY CallGoes, FillStaysKnown, LogLength DEF IInv

LEMMA Steady == ASSUME Timely, UNCHANGED <<entered, now>> PROVE Timely'
BY DEF Timely

LEMMA BeginKeeps ==
  ASSUME IInv, NEW p \in Procs, NEW t \in Theses, NEW side \in Sides, Begin(p, t, side)
  PROVE  IInv'
<1> DEFINE c == [step |-> "evaluate", thesis |-> t, side |-> side, at |-> 0, fill |-> 0]
<1>1. 0 \in Ticks /\ "evaluate" \in Steps
  BY GateAssumption DEF Ticks, Steps
<1>2. c \in Calls /\ c.step = "evaluate"
  BY <1>1 DEF Calls
<1>3. Set(p, c) /\ UNCHANGED fills
  BY DEF Begin
<1> HIDE DEF c
<1>4. call' \in [Procs -> Calls] /\ FillKnown'
  BY <1>2, <1>3, CallReplaced DEF ManualSteps
<1>5. Timely'
  BY Steady DEF Begin, IInv
<1> QED BY <1>4, <1>5 DEF IInv, TypeOK, Begin, ladder, manual

LEMMA AllowKeeps == ASSUME IInv, NEW p \in Procs, Allow(p) PROVE IInv'
<1>1. call' \in [Procs -> Calls] /\ FillKnown'
  BY CallGoesOn DEF Allow, At, Steps, ManualSteps
<1>2. Timely'
  BY Steady DEF Allow, IInv
<1> QED BY <1>1, <1>2 DEF IInv, TypeOK, Allow, ladder, manual

LEMMA EndKeeps == ASSUME IInv, NEW p \in Procs, Deny(p) \/ SubmitFails(p) PROVE IInv'
<1>1. call' \in [Procs -> Calls] /\ FillKnown'
  BY CallReplaced, IdleIsCall DEF Deny, SubmitFails, ManualSteps
<1>2. Timely'
  BY Steady DEF Deny, SubmitFails, IInv
<1> QED BY <1>1, <1>2 DEF IInv, TypeOK, Deny, SubmitFails, ladder, manual

(* The first order of a thesis enters it on the current day. *)
LEMMA EntryDated ==
  ASSUME IInv, NEW p \in Procs, OrderSubmitted(p)
  PROVE  /\ entered' \in [Theses -> Days \cup {None}]
         /\ late' \in Nat
         /\ Timely'
         /\ call[p].thesis \in Theses /\ call[p].side \in Sides
<1>1. call[p].thesis \in Theses /\ call[p].side \in Sides
  BY InsideCall DEF OrderSubmitted, At, IInv
<1>2. Day(now) \in Days /\ Day(now) \in Nat
  BY DaysOrdered DEF IInv, TypeOK
<1>3. entered' = [entered EXCEPT ![call[p].thesis] = IF @ = None THEN Day(now) ELSE @]
      /\ UNCHANGED now
  BY DEF OrderSubmitted
<1>4. entered' \in [Theses -> Days \cup {None}]
  BY <1>1, <1>2, <1>3 DEF IInv, TypeOK
<1>5. Timely'
  <2>1. Day(now)' = Day(now)
    BY <1>3 DEF Day
  <2> QED BY <1>1, <1>2, <1>3, <2>1 DEF Timely, IInv, TypeOK
<1>6. late' \in Nat
  BY LateCounted DEF OrderSubmitted, IInv
<1> QED BY <1>1, <1>4, <1>5, <1>6

(* An order the broker takes is polled at once with its time. *)
LEMMA SubmitFills ==
  ASSUME IInv, NEW p \in Procs, Submit(p)
  PROVE  \E c \in Calls : c.step = "fill" /\ Set(p, c)
<1> DEFINE c == [step |-> "fill", thesis |-> call[p].thesis, side |-> call[p].side,
                 at |-> now, fill |-> 0]
<1>1. call[p].thesis \in Theses /\ call[p].side \in Sides
  BY EntryDated DEF Submit
<1>2. now \in Ticks /\ "fill" \in Steps
  BY DEF IInv, TypeOK, Steps
<1>3. c \in Calls /\ c.step = "fill"
  BY <1>1, <1>2 DEF Calls
<1>4. Set(p, c)
  BY DEF Submit
<1> HIDE DEF c
<1> QED BY <1>3, <1>4

LEMMA SubmitKeeps == ASSUME IInv, NEW p \in Procs, SubmitRests(p) \/ Submit(p) PROVE IInv'
<1>0. OrderSubmitted(p)
  BY DEF SubmitRests, Submit
<1>1. call' \in [Procs -> Calls] /\ FillKnown'
  <2>1. CASE SubmitRests(p)
    BY <1>0, <2>1, CallReplaced, IdleIsCall DEF SubmitRests, OrderSubmitted, ManualSteps
  <2>2. CASE Submit(p)
    BY <1>0, <2>2, SubmitFills, CallReplaced DEF OrderSubmitted, ManualSteps
  <2> QED BY <2>1, <2>2
<1>2. resting' \in [Orders -> Nat]
  <2> DEFINE o == <<call[p].thesis, call[p].side, now>>
  <2>1. o \in Orders
    BY <1>0, EntryDated DEF Orders, IInv, TypeOK
  <2>2. resting' = [resting EXCEPT ![o] = @ + 1] \/ resting' = resting
    BY DEF SubmitRests, Submit
  <2>3. resting \in [Orders -> Nat]
    BY DEF IInv, TypeOK
  <2> HIDE DEF o
  <2> QED BY <2>1, <2>2, <2>3
<1>3. UNCHANGED <<kind, now, stage, held, fills, graded, ladder, manual>>
  BY <1>0 DEF OrderSubmitted
<1> QED BY <1>0, <1>1, <1>2, <1>3, EntryDated DEF IInv, TypeOK, ladder, manual

LEMMA FillKeeps == ASSUME IInv, NEW p \in Procs, FillOrder(p) PROVE IInv'
<1>1. /\ fills' \in Seq(Fill) /\ held' \subseteq Theses
      /\ Len(fills') = Len(fills) + 1 /\ Len(fills) \in Nat
  <2>1. call[p].thesis \in Theses /\ call[p].side \in Sides /\ call[p].at \in Ticks
    BY InsideCall DEF FillOrder, At, IInv
  <2>2. PICK ts \in FillTimes(call[p].at) : RecordFill(call[p].thesis, call[p].side, ts)
    BY DEF FillOrder
  <2>3. ts \in Ticks
    BY <2>1, FillTimed DEF IInv
  <2> QED BY <2>1, <2>2, <2>3, FillRecorded DEF IInv
<1>2. /\ call' \in [Procs -> Calls]
      /\ \A q \in Procs \ {p} : call'[q] = call[q]
      /\ call'[p].step \notin ManualSteps
  <2>1. CASE call[p].side = "buy"
    BY <2>1, CallGoes DEF FillOrder, At, IInv, Steps, ManualSteps
  <2>2. CASE call[p].side # "buy"
    BY <2>2, CallSet, IdleIsCall DEF FillOrder, IInv, ManualSteps
  <2> QED BY <2>1, <2>2
<1>3. FillKnown'
  BY <1>1, <1>2, FillStaysKnown DEF IInv
<1>4. Timely'
  BY Steady DEF FillOrder, IInv
<1>5. due' \subseteq 1 .. Len(fills') /\ flagged' \subseteq 1 .. Len(fills')
  BY <1>1 DEF FillOrder, manual, IInv, TypeOK
<1>6. late' \in Nat
  BY LateCounted DEF FillOrder, IInv
<1> QED BY <1>1, <1>2, <1>3, <1>4, <1>5, <1>6 DEF IInv, TypeOK, FillOrder, ladder

LEMMA ActivateKeeps == ASSUME IInv, NEW p \in Procs, Activate(p) PROVE IInv'
<1>1. call' \in [Procs -> Calls] /\ FillKnown'
  BY CallReplaced, IdleIsCall DEF Activate, ManualSteps
<1>2. stage' \in [Theses -> {"approved", "active", "graded"}]
  BY InsideCall, ThesisActivates DEF Activate, At, IInv
<1>3. Timely'
  BY Steady DEF Activate, IInv
<1> QED BY <1>1, <1>2, <1>3 DEF IInv, TypeOK, Activate, ladder, manual

LEMMA PollKeeps ==
  ASSUME IInv, NEW t \in Theses, NEW side \in Sides, NEW at \in Ticks, Poll(t, side, at)
  PROVE  IInv'
<1>1. /\ fills' \in Seq(Fill) /\ held' \subseteq Theses
      /\ Len(fills') = Len(fills) + 1 /\ Len(fills) \in Nat
  <2>1. PICK ts \in FillTimes(at) : RecordFill(t, side, ts)
    BY DEF Poll
  <2>2. ts \in Ticks
    BY FillTimed DEF IInv
  <2> QED BY <2>1, <2>2, FillRecorded DEF IInv
<1>2. resting' \in [Orders -> Nat]
  <2> DEFINE o == <<t, side, at>>
  <2>1. o \in Orders
    BY DEF Orders
  <2>2. resting \in [Orders -> Nat]
    BY DEF IInv, TypeOK
  <2>3. resting' = [resting EXCEPT ![o] = @ - 1] /\ resting[o] > 0
    BY DEF Poll
  <2> HIDE DEF o
  <2> QED BY <2>1, <2>2, <2>3
<1>3. call' \in [Procs -> Calls] /\ FillKnown'
  BY <1>1 DEF Poll, FillKnown, IInv, TypeOK
<1>4. Timely'
  BY Steady DEF Poll, IInv
<1>5. due' \subseteq 1 .. Len(fills') /\ flagged' \subseteq 1 .. Len(fills')
  BY <1>1 DEF Poll, manual, IInv, TypeOK
<1>6. late' \in Nat
  BY LateCounted DEF Poll, IInv
<1> QED BY <1>1, <1>2, <1>3, <1>4, <1>5, <1>6 DEF IInv, TypeOK, Poll, ladder

(* The fill a manual call carries is the one it appended. *)
LEMMA ManualFillKeeps ==
  ASSUME IInv, NEW p \in Procs, NEW t \in Theses, NEW side \in Sides, ManualFill(p, t, side)
  PROVE  IInv'
<1> DEFINE c == [step |-> "manual.activate", thesis |-> t, side |-> side, at |-> now,
                 fill |-> Len(fills) + 1]
<1>1. /\ fills' \in Seq(Fill) /\ held' \subseteq Theses
      /\ Len(fills') = Len(fills) + 1 /\ Len(fills) \in Nat
  BY FillRecorded DEF ManualFill, IInv, TypeOK
<1>2. c \in Calls /\ c.fill \in 1 .. Len(fills')
  BY <1>1 DEF Calls, Steps, IInv, TypeOK
<1>3. Set(p, c)
  BY DEF ManualFill
<1> HIDE DEF c
<1>4. call' \in [Procs -> Calls] /\ FillKnown'
  BY <1>1, <1>2, <1>3, CallSet, FillStaysKnown DEF IInv
<1>5. Timely'
  BY Steady DEF ManualFill, IInv
<1>6. due' \subseteq 1 .. Len(fills') /\ flagged' \subseteq 1 .. Len(fills')
  <2>1. due' \subseteq due \cup {Len(fills) + 1} /\ flagged' = flagged
    BY DEF ManualFill
  <2>2. due \subseteq 1 .. Len(fills) /\ flagged \subseteq 1 .. Len(fills)
    BY DEF IInv, TypeOK
  <2> QED BY <1>1, <2>1, <2>2
<1>7. late' \in Nat
  BY LateCounted DEF ManualFill, IInv
<1> QED BY <1>1, <1>4, <1>5, <1>6, <1>7 DEF IInv, TypeOK, ManualFill, ladder

LEMMA ManualActivateKeeps == ASSUME IInv, NEW p \in Procs, ManualActivate(p) PROVE IInv'
<1>1. call[p].step # "idle" /\ call[p].fill \in 1 .. Len(fills)
  BY DEF ManualActivate, At, ManualSteps, FillKnown, IInv
<1>2. call' \in [Procs -> Calls] /\ FillKnown'
  <2>1. /\ call' \in [Procs -> Calls] /\ call'[p].fill = call[p].fill
        /\ \A q \in Procs \ {p} : call'[q] = call[q]
    BY <1>1, CallGoes DEF ManualActivate, Steps, IInv
  <2> QED BY <1>1, <2>1, FillStaysKnown, LogLength DEF ManualActivate, IInv
<1>3. stage' \in [Theses -> {"approved", "active", "graded"}]
  BY <1>1, InsideCall, ThesisActivates DEF ManualActivate, IInv
<1>4. Timely'
  BY Steady DEF ManualActivate, IInv
<1> QED BY <1>2, <1>3, <1>4 DEF IInv, TypeOK, ManualActivate, ladder, manual

LEMMA ManualCheckKeeps == ASSUME IInv, NEW p \in Procs, ManualCheck(p) PROVE IInv'
<1>1. call[p].fill \in 1 .. Len(fills)
  BY DEF ManualCheck, At, ManualSteps, FillKnown, IInv
<1>2. call' \in [Procs -> Calls] /\ FillKnown'
  BY CallReplaced, IdleIsCall DEF ManualCheck, ManualSteps
<1>3. Timely'
  BY Steady DEF ManualCheck, IInv
<1>4. flagged' \subseteq 1 .. Len(fills')
  BY <1>1 DEF ManualCheck, IInv, TypeOK
<1> QED BY <1>2, <1>3, <1>4 DEF IInv, TypeOK, ManualCheck, ladder

LEMMA GradeKeeps == ASSUME IInv, NEW t \in Theses, Grade(t) PROVE IInv'
<1>1. FillKnown' /\ Timely'
  BY Steady DEF Grade, FillKnown, IInv
<1>2. PICK pnl \in Pnls : graded' = Append(graded, [ts |-> now, pnl |-> pnl])
  BY DEF Grade
<1>3. graded' \in Seq([ts : Ticks, pnl : Pnls])
  BY <1>2 DEF IInv, TypeOK
<1>4. late' \in Nat
  BY LateCounted DEF Grade, IInv
<1> QED BY <1>1, <1>3, <1>4 DEF IInv, TypeOK, Grade, ladder, manual

LEMMA LadderKeeps == ASSUME IInv, Confirm \/ Demote PROVE IInv'
<1>1. FillKnown' /\ Timely'
  BY Steady DEF Confirm, Demote, FillKnown, IInv
<1>2. demoted' \in BOOLEAN
  BY DEF Confirm, Demote
<1>3. confirmed' \in Ticks \cup {None} /\ confirms' \in Nat
  BY DEF Confirm, Demote, IInv, TypeOK
<1>4. late' \in Nat
  BY LateCounted DEF Confirm, Demote, IInv
<1> QED BY <1>1, <1>2, <1>3, <1>4 DEF IInv, TypeOK, Confirm, Demote, manual

LEMMA TickKeeps == ASSUME IInv, Tick PROVE IInv'
<1>1. now \in Nat /\ now' = now + 1 /\ now' \in Ticks
  BY GateAssumption DEF Tick, IInv, TypeOK, Ticks
<1>2. Timely'
  <2>1. Day(now) \in Nat /\ Day(now) <= Day(now + 1) /\ Day(now + 1) \in Nat
    BY <1>1, DaysOrdered
  <2>2. Day(now)' = Day(now + 1)
    BY <1>1 DEF Day
  <2>3. \A t \in Theses : entered[t] # None => entered[t] \in Nat
    BY DaysOrdered DEF IInv, TypeOK
  <2>4. entered' = entered
    BY DEF Tick
  <2> QED BY <2>1, <2>2, <2>3, <2>4 DEF Timely, IInv
<1>3. late' \in Nat
  BY LateCounted DEF Tick, IInv
<1>4. FillKnown'
  BY DEF Tick, FillKnown, IInv
<1> QED BY <1>1, <1>2, <1>3, <1>4 DEF IInv, TypeOK, Tick, ladder, manual

LEMMA InductiveStep == IInv /\ [Next]_vars => IInv'
<1> SUFFICES ASSUME IInv, [Next]_vars PROVE IInv'
  OBVIOUS
<1>1. ASSUME NEW p \in Procs, Continue(p) PROVE IInv'
  BY <1>1, AllowKeeps, EndKeeps, SubmitKeeps, FillKeeps, ActivateKeeps, ManualActivateKeeps,
     ManualCheckKeeps DEF Continue
<1>2. ASSUME NEW p \in Procs, NEW t \in Theses,
             BeginEntry(p, t) \/ BeginExit(p, t) \/ \E side \in Sides : ManualFill(p, t, side)
      PROVE  IInv'
  BY <1>2, BeginKeeps, ManualFillKeeps DEF BeginEntry, BeginExit, Sides
<1>3. CASE UNCHANGED vars
  <2>1. Timely' /\ FillKnown'
    BY <1>3, Steady DEF vars, FillKnown, IInv
  <2> QED BY <1>3, <2>1 DEF IInv, TypeOK, vars, ladder, manual
<1> QED BY <1>1, <1>2, <1>3, GradeKeeps, LadderKeeps, PollKeeps, TickKeeps DEF Next, Done

LEMMA Invariance == Spec => []IInv
<1>1. Init => IInv
  <2>1. Init => TypeOK
    <3> SUFFICES ASSUME Init PROVE TypeOK
      OBVIOUS
    <3>1. now \in Ticks
      BY GateAssumption DEF Init, Ticks
    <3>2. call \in [Procs -> Calls]
      BY IdleIsCall DEF Init
    <3>3. demoted \in BOOLEAN
      BY DEF Init
    <3>4. fills \in Seq(Fill) /\ graded \in Seq([ts : Ticks, pnl : Pnls])
      BY DEF Init
    <3> QED BY <3>1, <3>2, <3>3, <3>4 DEF Init, TypeOK
  <2>2. Init => FillKnown /\ Timely
    BY IdleIsCall DEF Init, FillKnown, Timely, ManualSteps
  <2> QED BY <2>1, <2>2 DEF IInv
<1> QED BY <1>1, InductiveStep, PTL DEF Spec

(* Every reachable state of the gate is well typed: no poll takes an order *)
(* that is not resting, no violation names a fill that was not recorded.   *)
THEOREM TypeCorrect == Spec => []TypeOK
<1>1. IInv => TypeOK
  BY DEF IInv
<1> QED BY <1>1, Invariance, PTL
-----------------------------------------------------------------------------
(* What is counted.  EntriesBounded and GateBounded are not inductive:     *)
(* the calls in flight may each add an order, on this day or a later one.  *)
EntriesCounted ==
  \A day \in Days :
    /\ Cardinality(EnteredOn(day)) <= DailyLimit - 1 + Cardinality(Procs)
    /\ day >= Day(now) =>
         Cardinality(EnteredOn(day)) + Cardinality(InFlight)
           <= DailyLimit - 1 + Cardinality(Procs)

Barred == Spent \/ Tripped(graded, now)

GateCounted == /\ late + Cardinality(InFlight) <= Cardinality(Procs)
               /\ ~Barred => late = 0

(* All that R-002, R-007, R-009 and R-011 read. *)
seen == <<kind, now, entered, fills, graded, confirmed, demoted>>

LEMMA FlightSizes ==
  /\ InFlight \in SUBSET Procs
  /\ InFlight' \in SUBSET Procs
  /\ Cardinality(Procs) \in Nat
  /\ Cardinality(InFlight) \in Nat /\ Cardinality(InFlight) <= Cardinality(Procs)
  /\ Cardinality(InFlight') \in Nat /\ Cardinality(InFlight') <= Cardinality(Procs)
  /\ InFlight' \subseteq InFlight => Cardinality(InFlight') <= Cardinality(InFlight)
  /\ \A p \in InFlight : InFlight' \subseteq InFlight \ {p}
                          => Cardinality(InFlight') + 1 <= Cardinality(InFlight)
<1>1. InFlight \in SUBSET Procs /\ InFlight' \in SUBSET Procs
  BY DEF InFlight
<1>2. ASSUME NEW S \in SUBSET Procs, NEW T \in SUBSET Procs
      PROVE  /\ Cardinality(S) \in Nat /\ Cardinality(T) \in Nat
             /\ S \subseteq T => Cardinality(S) <= Cardinality(T)
             /\ \A p \in T : S \subseteq T \ {p} => Cardinality(S) + 1 <= Cardinality(T)
  <2>1. IsFiniteSet(S) /\ IsFiniteSet(T)
    BY GateAssumption, FS_Subset
  <2>2. Cardinality(S) \in Nat /\ Cardinality(T) \in Nat
    BY <2>1, FS_CardinalityType
  <2>3. S \subseteq T => Cardinality(S) <= Cardinality(T)
    BY <2>1, FS_Subset
  <2>4. ASSUME NEW p \in T, S \subseteq T \ {p} PROVE Cardinality(S) + 1 <= Cardinality(T)
    <3>1. IsFiniteSet(T \ {p}) /\ Cardinality(T \ {p}) = Cardinality(T) - 1
      BY <2>1, FS_RemoveElement
    <3>2. Cardinality(S) <= Cardinality(T \ {p})
      BY <2>4, <3>1, FS_Subset
    <3> QED BY <2>2, <3>1, <3>2
  <2> QED BY <2>2, <2>3, <2>4
<1>3. Procs \in SUBSET Procs
  OBVIOUS
<1>4. Cardinality(Procs) \in Nat
  BY <1>2, <1>3
<1>5. Cardinality(InFlight) \in Nat /\ Cardinality(InFlight) <= Cardinality(Procs)
  BY <1>1, <1>2, <1>3
<1>6. Cardinality(InFlight') \in Nat /\ Cardinality(InFlight') <= Cardinality(Procs)
  BY <1>1, <1>2, <1>3
<1>7. InFlight' \subseteq InFlight => Cardinality(InFlight') <= Cardinality(InFlight)
  BY <1>1, <1>2
<1>8. \A p \in InFlight : InFlight' \subseteq InFlight \ {p}
                          => Cardinality(InFlight') + 1 <= Cardinality(InFlight)
  BY <1>1, <1>2
<1> QED BY <1>1, <1>4, <1>5, <1>6, <1>7, <1>8

LEMMA Lands ==
  ASSUME IInv, NEW p \in Procs, \A q \in Procs \ {p} : call'[q] = call[q],
         call'[p].step # "submit"
  PROVE  InFlight' \subseteq InFlight \ {p}
BY DEF InFlight

LEMMA SetLands ==
  ASSUME IInv, NEW p \in Procs, NEW c \in Calls, c.step # "submit", Set(p, c)
  PROVE  InFlight' \subseteq InFlight \ {p}
BY CallSet, Lands DEF IInv

LEMMA GotoLands ==
  ASSUME IInv, NEW p \in Procs, call[p].step # "idle", NEW step \in Steps \ {"submit"},
         Goto(p, step)
  PROVE  InFlight' \subseteq InFlight \ {p}
BY CallGoes, Lands DEF IInv

(* Neither the log a rule counts nor the flights grow. *)
Quiet == /\ InFlight' \subseteq InFlight
         /\ entered' = entered
         /\ now' = now \/ now' = now + 1
         /\ UNCHANGED <<seen, late>> \/ CountLate(0)

Lift(p) == /\ R002 /\ R007 /\ R009 /\ R011
           /\ UNCHANGED <<seen, late>>

Land(p) == /\ OrderSubmitted(p)
           /\ p \in InFlight
           /\ InFlight' \subseteq InFlight \ {p}

(* A step lifts a call past the rules, lands one, or does neither. *)
LEMMA LiftLandQuiet ==
  ASSUME IInv, [Next]_vars
  PROVE  kind' = kind /\ (Quiet \/ \E p \in Procs : Lift(p) \/ Land(p))
<1>1. ASSUME NEW p \in Procs, Allow(p) PROVE kind' = kind /\ Lift(p)
  BY <1>1 DEF Allow, Lift, seen, ladder
<1>2. ASSUME NEW p \in Procs, SubmitRests(p) \/ Submit(p) PROVE kind' = kind /\ Land(p)
  <2>1. OrderSubmitted(p) /\ p \in InFlight
    BY <1>2 DEF SubmitRests, Submit, OrderSubmitted, At, InFlight
  <2>2. InFlight' \subseteq InFlight \ {p}
    <3>1. CASE SubmitRests(p)
      BY <3>1, SetLands, IdleIsCall DEF SubmitRests
    <3>2. CASE Submit(p)
      BY <3>2, SubmitFills, SetLands
    <3> QED BY <1>2, <3>1, <3>2
  <2> QED BY <2>1, <2>2 DEF Land, OrderSubmitted
<1>3. ASSUME NEW p \in Procs,
             \/ Deny(p) \/ SubmitFails(p) \/ FillOrder(p) \/ Activate(p)
             \/ ManualActivate(p) \/ ManualCheck(p)
      PROVE  kind' = kind /\ Quiet
  <2>1. CASE Deny(p) \/ SubmitFails(p) \/ Activate(p) \/ ManualCheck(p)
    BY <2>1, SetLands, IdleIsCall DEF Deny, SubmitFails, Activate, ManualCheck, Quiet, seen, ladder
  <2>2. CASE FillOrder(p)
    <3>1. InFlight' \subseteq InFlight \ {p}
      <4>1. CASE call[p].side = "buy"
        BY <2>2, <4>1, GotoLands DEF FillOrder, At, Steps
      <4>2. CASE call[p].side # "buy"
        BY <2>2, <4>2, SetLands, IdleIsCall DEF FillOrder
      <4> QED BY <4>1, <4>2
    <3> QED BY <2>2, <3>1 DEF FillOrder, Quiet
  <2>3. CASE ManualActivate(p)
    BY <2>3, GotoLands DEF ManualActivate, At, Steps, Quiet, seen, ladder
  <2> QED BY <1>3, <2>1, <2>2, <2>3
<1>4. ASSUME NEW p \in Procs, NEW t \in Theses, NEW side \in Sides, Begin(p, t, side)
      PROVE  kind' = kind /\ Quiet
  <2> DEFINE c == [step |-> "evaluate", thesis |-> t, side |-> side, at |-> 0, fill |-> 0]
  <2>1. 0 \in Ticks /\ "evaluate" \in Steps
    BY GateAssumption DEF Ticks, Steps
  <2>2. c \in Calls /\ c.step # "submit" /\ Set(p, c)
    BY <1>4, <2>1 DEF Calls, Begin
  <2> HIDE DEF c
  <2> QED BY <1>4, <2>2, SetLands DEF Begin, Quiet, seen, ladder
<1>5. ASSUME NEW p \in Procs, NEW t \in Theses, NEW side \in Sides, ManualFill(p, t, side)
      PROVE  kind' = kind /\ Quiet
  <2> DEFINE c == [step |-> "manual.activate", thesis |-> t, side |-> side, at |-> now,
                   fill |-> Len(fills) + 1]
  <2>1. c \in Calls /\ c.step # "submit"
    BY LogLength DEF Calls, Steps, IInv, TypeOK
  <2>2. Set(p, c)
    BY <1>5 DEF ManualFill
  <2> HIDE DEF c
  <2> QED BY <1>5, <2>1, <2>2, SetLands DEF ManualFill, Quiet
<1>6. ASSUME NEW t \in Theses, Grade(t) \/ \E side \in Sides, at \in Ticks : Poll(t, side, at)
      PROVE  kind' = kind /\ Quiet
  BY <1>6 DEF Grade, Poll, InFlight, Quiet
<1>7. CASE Confirm \/ Demote \/ Tick \/ UNCHANGED vars
  BY <1>7 DEF Confirm, Demote, Tick, vars, InFlight, Quiet, seen, ladder
<1> QED BY <1>1, <1>2, <1>3, <1>4, <1>5, <1>6, <1>7
        DEF Next, Continue, BeginEntry, BeginExit, Done, Sides
-----------------------------------------------------------------------------
(* The day's limit. *)
LEMMA EntrySizes ==
  ASSUME NEW S \in SUBSET Theses, NEW T \in SUBSET Theses, NEW t \in Theses
  PROVE  /\ Cardinality(S) \in Nat /\ Cardinality(T) \in Nat
         /\ S \subseteq T => Cardinality(S) <= Cardinality(T)
         /\ S \subseteq T \cup {t} => Cardinality(S) <= Cardinality(T) + 1
<1>1. IsFiniteSet(S) /\ IsFiniteSet(T)
  BY GateAssumption, FS_Subset
<1>2. Cardinality(S) \in Nat /\ Cardinality(T) \in Nat
  BY <1>1, FS_CardinalityType
<1>3. S \subseteq T => Cardinality(S) <= Cardinality(T)
  BY <1>1, FS_Subset
<1>4. S \subseteq T \cup {t} => Cardinality(S) <= Cardinality(T) + 1
  <2>1. IsFiniteSet(T \cup {t}) /\ Cardinality(T \cup {t}) \in {Cardinality(T), Cardinality(T) + 1}
    BY <1>1, FS_AddElement
  <2>2. S \subseteq T \cup {t} => Cardinality(S) <= Cardinality(T \cup {t})
    BY <2>1, FS_Subset
  <2> QED BY <1>2, <2>1, <2>2
<1> QED BY <1>2, <1>3, <1>4

LEMMA LimitIsPositive ==
  ASSUME NEW day \in Days
  PROVE  /\ DailyLimit \in Nat \ {0} /\ day \in Nat
         /\ EnteredOn(day) \in SUBSET Theses /\ EnteredOn(day)' \in SUBSET Theses
         /\ Cardinality(EnteredOn(day)) \in Nat
<1>1. EnteredOn(day) \in SUBSET Theses /\ EnteredOn(day)' \in SUBSET Theses
  BY DEF EnteredOn
<1>2. Cardinality(EnteredOn(day)) \in Nat
  BY <1>1, GateAssumption, FS_Subset, FS_CardinalityType
<1>3. DailyLimit \in Nat \ {0} /\ day \in Nat
  BY GateAssumption, DaysOrdered DEF DailyLimit
<1> QED BY <1>1, <1>2, <1>3

(* Nothing is entered on a day to come. *)
LEMMA NoneAhead ==
  ASSUME IInv, NEW day \in Days, day > Day(now)
  PROVE  Cardinality(EnteredOn(day)) = 0
<1>1. day \in Nat /\ Day(now) \in Nat
  BY DaysOrdered DEF IInv, TypeOK
<1>2. day # None
  BY <1>1, GateAssumption
<1>3. EnteredOn(day) = {}
  BY <1>1, <1>2 DEF EnteredOn, Timely, IInv
<1> QED BY <1>3, FS_EmptySet

LEMMA QuietKeepsEntries == IInv /\ EntriesCounted /\ Quiet /\ kind' = kind => EntriesCounted'
<1> SUFFICES ASSUME IInv, EntriesCounted, Quiet, kind' = kind, NEW day \in Days
             PROVE  /\ (Cardinality(EnteredOn(day)) <= DailyLimit - 1 + Cardinality(Procs))'
                    /\ (day >= Day(now) => Cardinality(EnteredOn(day)) + Cardinality(InFlight)
                                             <= DailyLimit - 1 + Cardinality(Procs))'
  BY DEF EntriesCounted
<1>1. EnteredOn(day)' = EnteredOn(day) /\ DailyLimit' = DailyLimit
  BY DEF Quiet, EnteredOn, DailyLimit
<1>2. Day(now) \in Nat /\ Day(now)' \in Nat /\ Day(now) <= Day(now)'
  <2>1. now \in Nat
    BY GateAssumption DEF IInv, TypeOK, Ticks
  <2>2. Day(now)' = Day(now) \/ Day(now)' = Day(now + 1)
    BY DEF Quiet, Day
  <2>3. Day(now) \in Nat /\ Day(now + 1) \in Nat /\ Day(now) <= Day(now + 1)
    BY <2>1, DaysOrdered
  <2> QED BY <2>2, <2>3
<1>3. /\ Cardinality(InFlight') <= Cardinality(InFlight)
      /\ Cardinality(InFlight') \in Nat /\ Cardinality(InFlight) \in Nat
      /\ Cardinality(Procs) \in Nat
  BY FlightSizes DEF Quiet
<1>4. Cardinality(EnteredOn(day)) \in Nat
  BY LimitIsPositive
<1>5. /\ Cardinality(EnteredOn(day)) <= DailyLimit - 1 + Cardinality(Procs)
      /\ day >= Day(now) => Cardinality(EnteredOn(day)) + Cardinality(InFlight)
                              <= DailyLimit - 1 + Cardinality(Procs)
  BY DEF EntriesCounted
<1> QED BY <1>1, <1>2, <1>3, <1>4, <1>5, LimitIsPositive

LEMMA LiftKeepsEntries ==
  ASSUME IInv, EntriesCounted, kind' = kind, NEW p \in Procs, Lift(p)
  PROVE  EntriesCounted'
<1> SUFFICES ASSUME NEW day \in Days
             PROVE  /\ (Cardinality(EnteredOn(day)) <= DailyLimit - 1 + Cardinality(Procs))'
                    /\ (day >= Day(now) => Cardinality(EnteredOn(day)) + Cardinality(InFlight)
                                             <= DailyLimit - 1 + Cardinality(Procs))'
  BY DEF EntriesCounted
<1>1. EnteredOn(day)' = EnteredOn(day) /\ DailyLimit' = DailyLimit /\ Day(now)' = Day(now)
  BY DEF Lift, seen, EnteredOn, DailyLimit, Day
<1>2. Cardinality(EnteredOn(day)) <= DailyLimit - 1 + Cardinality(Procs)
  BY DEF EntriesCounted
<1>3. /\ Cardinality(InFlight') \in Nat /\ Cardinality(InFlight') <= Cardinality(Procs)
      /\ Cardinality(Procs) \in Nat
  BY FlightSizes
<1>4. Cardinality(EnteredOn(day)) \in Nat
  BY LimitIsPositive
<1>5. day >= Day(now) => Cardinality(EnteredOn(day)) <= DailyLimit - 1
  <2>1. Day(now) \in Nat /\ day \in Nat /\ DailyLimit \in Nat \ {0}
    BY DaysOrdered, LimitIsPositive DEF IInv, TypeOK
  <2>2. CASE day = Day(now)
    BY <1>4, <2>1, <2>2 DEF Lift, R007
  <2>3. CASE day > Day(now)
    BY <2>1, <2>3, NoneAhead
  <2> QED BY <2>1, <2>2, <2>3
<1> QED BY <1>1, <1>2, <1>3, <1>4, <1>5, LimitIsPositive

LEMMA LandKeepsEntries ==
  ASSUME IInv, EntriesCounted, kind' = kind, NEW p \in Procs, Land(p)
  PROVE  EntriesCounted'
<1> SUFFICES ASSUME NEW day \in Days
             PROVE  /\ (Cardinality(EnteredOn(day)) <= DailyLimit - 1 + Cardinality(Procs))'
                    /\ (day >= Day(now) => Cardinality(EnteredOn(day)) + Cardinality(InFlight)
                                             <= DailyLimit - 1 + Cardinality(Procs))'
  BY DEF EntriesCounted
<1> DEFINE t == call[p].thesis
<1>1. DailyLimit' = DailyLimit /\ Day(now)' = Day(now)
  BY DEF Land, OrderSubmitted, DailyLimit, Day
<1>2. /\ Cardinality(InFlight') + 1 <= Cardinality(InFlight)
      /\ Cardinality(InFlight') \in Nat /\ Cardinality(InFlight) \in Nat
      /\ Cardinality(Procs) \in Nat
  BY FlightSizes DEF Land
<1>3. t \in Theses /\ entered' = [entered EXCEPT ![t] = IF @ = None THEN Day(now) ELSE @]
  BY EntryDated DEF Land, OrderSubmitted
<1> HIDE DEF t
<1>4. /\ EnteredOn(day)' \subseteq EnteredOn(day) \cup {t}
      /\ day # Day(now) => EnteredOn(day)' \subseteq EnteredOn(day)
  BY <1>3 DEF EnteredOn, IInv, TypeOK
<1>5. /\ Cardinality(EnteredOn(day)) \in Nat /\ Cardinality(EnteredOn(day)') \in Nat
      /\ Cardinality(EnteredOn(day)') <= Cardinality(EnteredOn(day)) + 1
      /\ day # Day(now) => Cardinality(EnteredOn(day)') <= Cardinality(EnteredOn(day))
  BY <1>3, <1>4, LimitIsPositive, EntrySizes
<1>6. /\ Cardinality(EnteredOn(day)) <= DailyLimit - 1 + Cardinality(Procs)
      /\ day >= Day(now) => Cardinality(EnteredOn(day)) + Cardinality(InFlight)
                              <= DailyLimit - 1 + Cardinality(Procs)
  BY DEF EntriesCounted
<1>7. Day(now) \in Nat /\ day \in Nat /\ DailyLimit \in Nat \ {0}
  BY DaysOrdered, LimitIsPositive DEF IInv, TypeOK
<1> QED BY <1>1, <1>2, <1>5, <1>6, <1>7

(* R-007, counted before the order is submitted, still bounds the entries  *)
(* of every day: by its limit and one for each process but the last.       *)
THEOREM EntriesBoundedHolds == Spec => []EntriesBounded
<1>1. Init => EntriesCounted
  <2> SUFFICES ASSUME Init, NEW day \in Days
               PROVE  Cardinality(EnteredOn(day)) + Cardinality(InFlight)
                        <= DailyLimit - 1 + Cardinality(Procs)
                      /\ Cardinality(EnteredOn(day)) <= DailyLimit - 1 + Cardinality(Procs)
    BY DEF EntriesCounted
  <2>1. EnteredOn(day) = {}
    BY GateAssumption, DaysOrdered DEF Init, EnteredOn
  <2>2. Cardinality(EnteredOn(day)) = 0
    BY <2>1, FS_EmptySet
  <2>3. DailyLimit \in Nat \ {0}
    BY LimitIsPositive
  <2> QED BY <2>2, <2>3, FlightSizes
<1>2. IInv /\ EntriesCounted /\ [Next]_vars => EntriesCounted'
  BY LiftLandQuiet, QuietKeepsEntries, LiftKeepsEntries, LandKeepsEntries
<1>3. EntriesCounted => EntriesBounded
  BY DEF EntriesCounted, EntriesBounded
<1> QED BY <1>1, <1>2, <1>3, Invariance, PTL DEF Spec
-----------------------------------------------------------------------------
(* The late orders. *)
LEMMA CountedLate ==
  ASSUME IInv, NEW n \in Nat, CountLate(n)
  PROVE  /\ late' \in Nat /\ late' <= late + n /\ late \in Nat
         /\ ~Barred' => late' = 0
BY DEF CountLate, Barred, IInv, TypeOK

LEMMA BarredRead == UNCHANGED seen => Barred' = Barred
BY DEF seen, Barred, Spent, LiveTier, FillsSince, EnteredOn, Day, DailyLimit

(* A call the rules let pass found the account open. *)
LEMMA LiftIsOpen == ASSUME IInv, R002, R007, R009, R011 PROVE ~Barred
<1>1. ~Tripped(graded, now)
  BY DEF R009
<1>2. ~(Cardinality(EnteredOn(Day(now))) >= DailyLimit)
  <2>1. Day(now) \in Days
    BY DaysOrdered DEF IInv, TypeOK
  <2> QED BY <2>1, LimitIsPositive DEF R007
<1>3. kind = "live" => LiveTier /\ ~(Cardinality(FillsSince(confirmed)) >= Budget)
  <2>1. Len(fills) \in Nat
    BY LogLength DEF IInv
  <2>2. IsFiniteSet(1 .. Len(fills))
    BY <2>1, FS_Interval
  <2>3. FillsSince(confirmed) \subseteq 1 .. Len(fills)
    BY DEF FillsSince
  <2>4. Cardinality(FillsSince(confirmed)) \in Nat
    BY <2>2, <2>3, FS_Subset, FS_CardinalityType
  <2> QED BY <2>4, GateAssumption DEF R011, Remaining
<1> QED BY <1>1, <1>2, <1>3 DEF Barred, Spent

LEMMA GateCountedStep == IInv /\ GateCounted /\ [Next]_vars => GateCounted'
<1> SUFFICES ASSUME IInv, GateCounted, [Next]_vars
             PROVE  /\ late' + Cardinality(InFlight') <= Cardinality(Procs)
                    /\ ~Barred' => late' = 0
  BY DEF GateCounted
<1>1. late \in Nat /\ late + Cardinality(InFlight) <= Cardinality(Procs)
  BY DEF GateCounted, IInv, TypeOK
<1>2. CASE Quiet
  <2>1. late' \in Nat /\ late' <= late /\ (~Barred' => late' = 0)
    <3>1. CASE CountLate(0)
      BY <3>1, CountedLate
    <3>2. CASE UNCHANGED <<seen, late>>
      BY <1>1, <3>2, BarredRead DEF GateCounted
    <3> QED BY <1>2, <3>1, <3>2 DEF Quiet
  <2>2. Cardinality(InFlight') <= Cardinality(InFlight)
    BY <1>2, FlightSizes DEF Quiet
  <2> QED BY <1>1, <2>1, <2>2, FlightSizes
<1>3. ASSUME NEW p \in Procs, Lift(p)
      PROVE  /\ late' + Cardinality(InFlight') <= Cardinality(Procs)
             /\ ~Barred' => late' = 0
  <2>1. late' = 0
    BY <1>3, LiftIsOpen DEF Lift, GateCounted
  <2> QED BY <2>1, FlightSizes
<1>4. ASSUME NEW p \in Procs, Land(p)
      PROVE  /\ late' + Cardinality(InFlight') <= Cardinality(Procs)
             /\ ~Barred' => late' = 0
  <2>1. CountLate(1)
    BY <1>4 DEF Land, OrderSubmitted
  <2>2. late' \in Nat /\ late' <= late + 1 /\ (~Barred' => late' = 0)
    BY <2>1, CountedLate
  <2>3. Cardinality(InFlight') + 1 <= Cardinality(InFlight)
    BY <1>4, FlightSizes DEF Land
  <2> QED BY <1>1, <2>2, <2>3, FlightSizes
<1> QED BY <1>2, <1>3, <1>4, LiftLandQuiet

(* However the calls interleave, while the live tier is lost, the budget   *)
(* spent, the day full or the drawdown at the breaker, each process        *)
(* submits at most the order it had been allowed before (evaluate).        *)
THEOREM GateBoundedHolds == Spec => []GateBounded
<1>1. Init => GateCounted
  <2> SUFFICES ASSUME Init PROVE GateCounted
    OBVIOUS
  <2>1. late = 0
    BY DEF Init
  <2> QED BY <2>1, FlightSizes DEF GateCounted
<1>2. IInv /\ GateCounted => GateBounded
  <2> SUFFICES ASSUME IInv, GateCounted PROVE GateBounded
    OBVIOUS
  <2>1. late \in Nat /\ late + Cardinality(InFlight) <= Cardinality(Procs)
    BY DEF GateCounted, IInv, TypeOK
  <2> QED BY <2>1, FlightSizes DEF GateBounded
<1> QED BY <1>1, <1>2, GateCountedStep, Invariance, PTL DEF Spec
-----------------------------------------------------------------------------
(* Recursion along a log. *)

(* A set of numbers that is not empty has a least one. *)
LEMMA LeastOf ==
  ASSUME NEW S \in SUBSET Nat, S # {}
  PROVE  \E n \in S : \A m \in S : n <= m
<1> DEFINE R == {ss \in Nat \X Nat : ss[1] < ss[2]}
<1>1. IsWellFoundedOn(R, Nat)
  BY ONLY NatLessThanWellFounded, Zenon DEF OpToRel
<1>2. S \subseteq Nat
  OBVIOUS
<1>3. \A x, y \in Nat : (<<y, x>> \in R) <=> y < x
  OBVIOUS
<1> HIDE DEF R
<1>4. \E x \in S : \A y \in S : ~ (<<y, x>> \in R)
  BY ONLY <1>1, <1>2, S # {}, WFMin, Zenon
<1>5. PICK x \in S : \A y \in S : ~ (<<y, x>> \in R)
  BY <1>4
<1>6. ASSUME NEW y \in S PROVE x <= y
  <2>1. ~ (y < x)
    BY <1>2, <1>3, <1>5
  <2> QED BY <2>1, <1>2
<1> QED BY <1>6

(* A recursion over the first N numbers has a solution. *)
Solvable(N, S) ==
  \A base \in S, step \in [(1 .. N) \X S -> S] :
    \E f \in [0 .. N -> S] : f[0] = base /\ \A n \in 1 .. N : f[n] = step[<<n, f[n - 1]>>]

LEMMA Recursion ==
  ASSUME NEW N \in Nat, NEW S
  PROVE  Solvable(N, S)
<1> SUFFICES ASSUME NEW base \in S, NEW step \in [(1 .. N) \X S -> S]
             PROVE  \E f \in [0 .. N -> S] :
                      f[0] = base /\ \A n \in 1 .. N : f[n] = step[<<n, f[n - 1]>>]
  BY DEF Solvable
<1> DEFINE Solves(f, k) == f[0] = base /\ \A n \in 1 .. k : f[n] = step[<<n, f[n - 1]>>]
           Bad == {k \in 0 .. N : ~ \E f \in [0 .. k -> S] : Solves(f, k)}
<1>1. SUFFICES ASSUME Bad # {} PROVE FALSE
  OBVIOUS
<1>2. PICK k \in Bad : \A m \in Bad : k <= m
  <2>1. Bad \in SUBSET Nat
    OBVIOUS
  <2> HIDE DEF Bad
  <2> QED BY <1>1, <2>1, LeastOf
<1>3. CASE k = 0
  <2>1. Solves([n \in 0 .. 0 |-> base], 0) /\ [n \in 0 .. 0 |-> base] \in [0 .. 0 -> S]
    OBVIOUS
  <2> QED BY <1>3, <2>1
<1>4. CASE k # 0
  <2>1. k \in 1 .. N /\ k - 1 \in 0 .. N /\ k - 1 \notin Bad
    BY <1>2, <1>4
  <2>2. PICK g \in [0 .. k - 1 -> S] : Solves(g, k - 1)
    BY <2>1
  <2> DEFINE f == [n \in 0 .. k |-> IF n = k THEN step[<<k, g[k - 1]>>] ELSE g[n]]
  <2>3. g[k - 1] \in S /\ step[<<k, g[k - 1]>>] \in S
    BY <2>1
  <2>4. f \in [0 .. k -> S]
    BY <2>1, <2>3
  <2>5. f[0] = base
    BY <2>1, <2>2
  <2>6. ASSUME NEW n \in 1 .. k PROVE f[n] = step[<<n, f[n - 1]>>]
    <3>1. CASE n = k
      BY <2>1, <3>1
    <3>2. CASE n # k
      BY <2>1, <2>2, <3>2
    <3> QED BY <3>1, <3>2
  <2> HIDE DEF f
  <2>7. Solves(f, k)
    BY <2>5, <2>6
  <2> QED BY <1>2, <2>4, <2>7
<1> QED BY <1>3, <1>4

(* A claim that holds of 0 and passes from each number to the next one      *)
(* holds up to N.                                                           *)
LEMMA UpTo ==
  ASSUME NEW N \in Nat, NEW Good \in SUBSET Nat, 0 \in Good,
         \A n \in 1 .. N : n - 1 \in Good => n \in Good
  PROVE  \A n \in 0 .. N : n \in Good
<1> DEFINE Bad == (0 .. N) \ Good
<1>1. SUFFICES ASSUME Bad # {} PROVE FALSE
  OBVIOUS
<1>2. PICK k \in Bad : \A m \in Bad : k <= m
  <2>1. Bad \in SUBSET Nat
    OBVIOUS
  <2> HIDE DEF Bad
  <2> QED BY <1>1, <2>1, LeastOf
<1>3. k \in 1 .. N /\ k - 1 \in 0 .. N /\ k - 1 \notin Bad
  BY <1>2
<1> QED BY <1>2, <1>3
-----------------------------------------------------------------------------
(* The drawdown. *)

Gradings == Seq([ts : Ticks, pnl : Pnls])

Points == [equity : Int, peak : Int, tripped : BOOLEAN]

Start == [equity |-> Equity, peak |-> Equity, tripped |-> FALSE]

CurveStep(log, at, n, c) == IF InWindow(log[n], at) THEN Walk(c, log[n]) ELSE c

LEMMA Elements ==
  ASSUME NEW T, NEW s \in Seq(T)
  PROVE  Len(s) \in Nat /\ \A n \in 1 .. Len(s) : s[n] \in T
OBVIOUS

LEMMA GreaterOf ==
  ASSUME NEW a \in Int, NEW b \in Int
  PROVE  Max({a, b}) \in {a, b} /\ Max({a, b}) >= a /\ Max({a, b}) >= b
<1>1. \E x \in {a, b} : \A y \in {a, b} : x >= y
  OBVIOUS
<1> QED BY <1>1 DEF Max

LEMMA WalkIs ==
  ASSUME NEW c \in Points, NEW g \in [ts : Ticks, pnl : Pnls]
  PROVE  LET d == Walk(c, g)
         IN /\ d \in Points
            /\ d.equity = c.equity + g.pnl
            /\ d.peak \in {c.peak, d.equity} /\ d.peak >= c.peak /\ d.peak >= d.equity
            /\ d.tripped <=> c.tripped \/ Reaches(d.peak, d.equity)
<1> DEFINE equity == c.equity + g.pnl
           peak   == Max({c.peak, equity})
<1>1. c.equity \in Int /\ c.peak \in Int /\ c.tripped \in BOOLEAN /\ g.pnl \in Int
  BY GateAssumption DEF Points
<1>2. equity \in Int /\ peak \in {c.peak, equity} /\ peak >= c.peak /\ peak >= equity
  <2>1. equity \in Int
    BY <1>1
  <2> HIDE DEF equity
  <2> QED BY <1>1, <2>1, GreaterOf
<1>3. Walk(c, g) = [equity |-> equity, peak |-> peak, tripped |-> c.tripped \/ Reaches(peak, equity)]
  BY DEF Walk
<1>4. equity = c.equity + g.pnl
  OBVIOUS
<1> HIDE DEF equity, peak
<1>5. Reaches(peak, equity) \in BOOLEAN
  BY DEF Reaches
<1>6. Walk(c, g) \in Points
  BY <1>1, <1>2, <1>3, <1>5 DEF Points
<1>7. /\ Walk(c, g).equity = equity /\ Walk(c, g).peak = peak
      /\ Walk(c, g).tripped = (c.tripped \/ Reaches(peak, equity))
  BY <1>3
<1> QED BY <1>2, <1>4, <1>6, <1>7

(* The curve starts at the starting equity and walks along the log. *)
LEMMA CurveIs ==
  ASSUME NEW log \in Gradings, NEW at \in Int
  PROVE  /\ Curve(log, at)[0] = Start
         /\ \A n \in 1 .. Len(log) :
              Curve(log, at)[n] = CurveStep(log, at, n, Curve(log, at)[n - 1])
         /\ \A n \in 0 .. Len(log) : Curve(log, at)[n] \in Points
<1> DEFINE N == Len(log)
           body(f) == [n \in 0 .. N |-> IF n = 0 THEN Start ELSE CurveStep(log, at, n, f[n - 1])]
           step == [nc \in (1 .. N) \X Points |-> CurveStep(log, at, nc[1], nc[2])]
<1>0. N \in Nat
  BY Elements DEF Gradings
<1>1. N \in Nat /\ \A n \in 1 .. N : log[n] \in [ts : Ticks, pnl : Pnls]
  BY Elements DEF Gradings
<1>2. Start \in Points
  BY GateAssumption DEF Start, Points
<1>3. \A n \in 1 .. N, c \in Points : CurveStep(log, at, n, c) \in Points
  BY <1>1, WalkIs DEF CurveStep
<1>4. step \in [(1 .. N) \X Points -> Points]
  BY <1>3
<1>5. \A n \in 1 .. N, c \in Points : step[<<n, c>>] = CurveStep(log, at, n, c)
  OBVIOUS
<1> HIDE DEF N, step
<1>6. PICK f \in [0 .. N -> Points] : f[0] = Start /\ \A n \in 1 .. N : f[n] = step[<<n, f[n - 1]>>]
  <2>1. Solvable(N, Points)
    BY <1>0, Recursion
  <2> QED BY <1>2, <1>4, <2>1 DEF Solvable
<1>7. f = body(f)
  <2>1. ASSUME NEW n \in 0 .. N PROVE f[n] = IF n = 0 THEN Start ELSE CurveStep(log, at, n, f[n - 1])
    <3>1. CASE n = 0
      BY <1>6, <3>1
    <3>2. CASE n # 0
      <4>1. n \in 1 .. N /\ n - 1 \in 0 .. N
        BY <1>1, <3>2
      <4> QED BY <1>5, <1>6, <3>2, <4>1
    <3> QED BY <3>1, <3>2
  <2> QED BY <2>1
<1>8. Curve(log, at) = body(Curve(log, at))
  <2>1. Curve(log, at) = CHOOSE c : c = body(c)
    BY DEF Curve, CurveStep, Start, N
  <2> HIDE DEF body
  <2> QED BY <1>7, <2>1
<1> DEFINE c == Curve(log, at)
<1> HIDE DEF c
<1>9. c = body(c)
  BY <1>8 DEF c
<1>10. c[0] = Start
  BY <1>1, <1>9
<1>11. \A n \in 1 .. N : c[n] = CurveStep(log, at, n, c[n - 1])
  <2>1. \A n \in 1 .. N : n \in 0 .. N /\ n # 0
    BY <1>1
  <2> QED BY <1>9, <2>1
<1>12. \A n \in 0 .. N : c[n] \in Points
  <2> DEFINE Good == {n \in Nat : c[n] \in Points}
  <2>1. 0 \in Good
    BY <1>2, <1>10
  <2>2. \A n \in 1 .. N : n - 1 \in Good => n \in Good
    BY <1>1, <1>3, <1>11
  <2>3. Good \in SUBSET Nat
    OBVIOUS
  <2> HIDE DEF Good
  <2>4. \A n \in 0 .. N : n \in Good
    BY <1>1, <2>1, <2>2, <2>3, UpTo
  <2> QED BY <2>4 DEF Good
<1> QED BY <1>10, <1>11, <1>12 DEF c, N

(* The same for the equities the property is stated with. *)
LEMMA EquitiesAre ==
  ASSUME NEW log \in Gradings, NEW at \in Int
  PROVE  /\ Equities(log, at)[0] = Equity
         /\ \A n \in 1 .. Len(log) :
              Equities(log, at)[n] =
                Equities(log, at)[n - 1] + IF InWindow(log[n], at) THEN log[n].pnl ELSE 0
<1> DEFINE N == Len(log)
           gain(n) == IF InWindow(log[n], at) THEN log[n].pnl ELSE 0
           body(f) == [n \in 0 .. N |-> IF n = 0 THEN Equity ELSE f[n - 1] + gain(n)]
           step == [nc \in (1 .. N) \X Int |-> nc[2] + gain(nc[1])]
<1>0. N \in Nat
  BY Elements DEF Gradings
<1>1. N \in Nat /\ \A n \in 1 .. N : log[n].pnl \in Int
  <2>1. \A n \in 1 .. N : log[n] \in [ts : Ticks, pnl : Pnls]
    BY Elements DEF Gradings
  <2> QED BY <1>0, <2>1, GateAssumption
<1>2. Equity \in Int
  BY GateAssumption
<1>3. \A n \in 1 .. N : gain(n) \in Int
  BY <1>1
<1> HIDE DEF N, gain
<1>4. step \in [(1 .. N) \X Int -> Int]
  BY <1>3
<1>5. \A n \in 1 .. N, c \in Int : step[<<n, c>>] = c + gain(n)
  OBVIOUS
<1> HIDE DEF step
<1>6. PICK f \in [0 .. N -> Int] : f[0] = Equity /\ \A n \in 1 .. N : f[n] = step[<<n, f[n - 1]>>]
  <2>1. Solvable(N, Int)
    BY <1>0, Recursion
  <2> QED BY <1>2, <1>4, <2>1 DEF Solvable
<1>7. f = body(f)
  <2>1. ASSUME NEW n \in 0 .. N PROVE f[n] = IF n = 0 THEN Equity ELSE f[n - 1] + gain(n)
    <3>1. CASE n = 0
      BY <1>6, <3>1
    <3>2. CASE n # 0
      <4>1. n \in 1 .. N /\ n - 1 \in 0 .. N
        BY <1>1, <3>2
      <4> QED BY <1>5, <1>6, <3>2, <4>1
    <3> QED BY <3>1, <3>2
  <2> QED BY <2>1
<1>8. Equities(log, at) = body(Equities(log, at))
  <2>1. Equities(log, at) = CHOOSE c : c = body(c)
    BY DEF Equities, N, gain
  <2> HIDE DEF body
  <2> QED BY <1>7, <2>1
<1> DEFINE c == Equities(log, at)
<1> HIDE DEF c
<1>9. c = body(c)
  BY <1>8 DEF c
<1>10. c[0] = Equity
  BY <1>1, <1>9
<1>11. \A n \in 1 .. N : c[n] = c[n - 1] + gain(n)
  <2>1. \A n \in 1 .. N : n \in 0 .. N /\ n # 0
    BY <1>1
  <2> QED BY <1>9, <2>1
<1> QED BY <1>10, <1>11 DEF c, N, gain

(* A fall reaches the breaker from a peak if it does from an earlier value, *)
(* and not moving is not a fall.                                            *)
LEMMA ReachesFrom ==
  ASSUME NEW a \in Int, NEW b \in Int, NEW e \in Int
  PROVE  /\ a <= b /\ Reaches(a, e) => Reaches(b, e)
         /\ ~ Reaches(a, a)
<1>1. BreakerPct \in Int /\ BreakerPct >= 1 /\ 100 - BreakerPct >= 0
  BY GateAssumption
<1>2. ASSUME a <= b, Reaches(a, e) PROVE Reaches(b, e)
  <2>1. a > 0 /\ (a - e) * 100 >= BreakerPct * a
    BY <1>2 DEF Reaches
  <2>2. (b - a) * (100 - BreakerPct) >= 0
    BY <1>1, <1>2
  <2>3. (b - a) * (100 - BreakerPct) = (b - a) * 100 - (BreakerPct * b - BreakerPct * a)
    BY <1>1
  <2>4. (b - e) * 100 = (b - a) * 100 + (a - e) * 100
    OBVIOUS
  <2>5. BreakerPct * b \in Int /\ BreakerPct * a \in Int
    BY <1>1
  <2>6. (b - e) * 100 >= BreakerPct * b
    BY <2>1, <2>2, <2>3, <2>4, <2>5
  <2> QED BY <1>2, <2>1, <2>6 DEF Reaches
<1>3. ASSUME Reaches(a, a) PROVE FALSE
  <2>1. a > 0 /\ 0 >= BreakerPct * a
    BY <1>3 DEF Reaches
  <2>2. BreakerPct * a > 0
    BY <1>1, <2>1
  <2> QED BY <1>1, <2>1, <2>2
<1> QED BY <1>2, <1>3

(* The walk with its running peak finds the worst fall. *)
LEMMA WorstFall ==
  ASSUME NEW log \in Gradings, NEW at \in Int
  PROVE  Tripped(log, at) <=>
           \E i, j \in 0 .. Len(log) :
             i < j /\ Reaches(Equities(log, at)[i], Equities(log, at)[j])
<1> DEFINE N == Len(log)
           c == Curve(log, at)
           E == Equities(log, at)
           Fell(n) == \E i, j \in 0 .. n : i < j /\ Reaches(E[i], E[j])
           Sound(n) == /\ c[n].equity = E[n]
                       /\ \A i \in 0 .. n : E[i] \in Int /\ E[i] <= c[n].peak
                       /\ \E i \in 0 .. n : c[n].peak = E[i]
                       /\ c[n].tripped <=> Fell(n)
<1>1. N \in Nat /\ \A n \in 1 .. N : log[n] \in [ts : Ticks, pnl : Pnls]
  BY Elements DEF Gradings
<1>2. /\ c[0] = Start
      /\ \A n \in 1 .. N : c[n] = CurveStep(log, at, n, c[n - 1])
      /\ \A n \in 0 .. N : c[n] \in Points
  BY CurveIs
<1>3. /\ E[0] = Equity
      /\ \A n \in 1 .. N : E[n] = E[n - 1] + IF InWindow(log[n], at) THEN log[n].pnl ELSE 0
  BY EquitiesAre
<1>4. Tripped(log, at) <=> c[N].tripped
  BY DEF Tripped
<1>5. Equity \in Int
  BY GateAssumption
<1> HIDE DEF N, c, E
<1>6. Sound(0)
  BY <1>2, <1>3, <1>5 DEF Start
<1>7. ASSUME NEW n \in 1 .. N, Sound(n - 1) PROVE Sound(n)
  <2>0. n \in Nat /\ n - 1 \in Nat /\ n - 1 \in 0 .. N /\ n \in 0 .. N
        /\ 0 .. n = (0 .. n - 1) \cup {n} /\ n \notin 0 .. n - 1 /\ n - 1 \in 0 .. n - 1
        /\ \A i \in 0 .. n - 1 : i \in Int /\ i < n
    BY <1>1
  <2>1. c[n] = CurveStep(log, at, n, c[n - 1]) /\ c[n - 1] \in Points /\ c[n] \in Points
    BY <1>2, <2>0
  <2>2. \A i \in 0 .. n - 1 : E[i] \in Int /\ E[i] <= c[n - 1].peak
    BY <1>7
  <2>3. E[n - 1] \in Int /\ c[n - 1].equity = E[n - 1]
    BY <1>7, <2>0
  <2>4. Fell(n) <=> Fell(n - 1) \/ \E i \in 0 .. n - 1 : Reaches(E[i], E[n])
    BY <2>0
  <2>5. CASE ~ InWindow(log[n], at)
    <3>1. E[n] = E[n - 1] /\ c[n] = c[n - 1]
      BY <1>3, <2>1, <2>3, <2>5 DEF CurveStep
    <3>2. ASSUME NEW i \in 0 .. n - 1, Reaches(E[i], E[n]) PROVE Fell(n - 1)
      <4>1. i # n - 1
        BY <2>3, <3>1, <3>2, ReachesFrom
      <4>2. i < n - 1 /\ Reaches(E[i], E[n - 1])
        BY <2>0, <3>1, <3>2, <4>1
      <4> QED BY <2>0, <4>2
    <3>3. Fell(n) <=> Fell(n - 1)
      BY <2>4, <3>2
    <3>4. \A i \in 0 .. n : E[i] \in Int /\ E[i] <= c[n].peak
      BY <2>0, <2>2, <3>1
    <3>5. \E i \in 0 .. n : c[n].peak = E[i]
      BY <1>7, <2>0, <3>1
    <3>6. c[n].tripped <=> Fell(n)
      BY <1>7, <3>1, <3>3
    <3> HIDE DEF Fell
    <3> QED BY <2>3, <3>1, <3>4, <3>5, <3>6
  <2>6. CASE InWindow(log[n], at)
    <3>1. c[n] = Walk(c[n - 1], log[n])
      BY <2>1, <2>6 DEF CurveStep
    <3>2. /\ c[n].equity = c[n - 1].equity + log[n].pnl
          /\ c[n].peak \in {c[n - 1].peak, c[n].equity}
          /\ c[n].peak >= c[n - 1].peak /\ c[n].peak >= c[n].equity
          /\ c[n].tripped <=> c[n - 1].tripped \/ Reaches(c[n].peak, c[n].equity)
      BY <1>1, <2>1, <3>1, WalkIs
    <3>3. c[n].equity \in Int /\ c[n].peak \in Int /\ c[n - 1].peak \in Int
      BY <2>1 DEF Points
    <3>4. E[n] = c[n].equity
      BY <1>3, <2>3, <2>6, <3>2
    <3>5. \A i \in 0 .. n : E[i] \in Int /\ E[i] <= c[n].peak
      BY <2>0, <2>2, <3>2, <3>3, <3>4
    <3>6. PICK i \in 0 .. n : c[n].peak = E[i]
      BY <1>7, <2>0, <3>2, <3>4
    <3>7. Reaches(c[n].peak, E[n]) => \E j \in 0 .. n - 1 : Reaches(E[j], E[n])
      <4>1. Reaches(c[n].peak, E[n]) => i # n
        BY <3>3, <3>4, <3>6, ReachesFrom
      <4> QED BY <2>0, <3>6, <4>1
    <3>8. ASSUME NEW j \in 0 .. n - 1, Reaches(E[j], E[n]) PROVE Reaches(c[n].peak, E[n])
      <4>1. j \in 0 .. n
        BY <2>0
      <4> QED BY <3>3, <3>4, <3>5, <3>8, <4>1, ReachesFrom
    <3>9. c[n].tripped <=> Fell(n)
      BY <1>7, <2>4, <3>2, <3>4, <3>7, <3>8
    <3> HIDE DEF Fell
    <3> QED BY <3>4, <3>5, <3>6, <3>9
  <2> QED BY <2>5, <2>6
<1>8. Sound(N)
  <2> DEFINE Good == {n \in Nat : Sound(n)}
  <2>1. 0 \in Good
    BY <1>6
  <2>2. \A n \in 1 .. N : n - 1 \in Good => n \in Good
    BY <1>1, <1>7
  <2>3. Good \in SUBSET Nat
    OBVIOUS
  <2> HIDE DEF Good
  <2>4. N \in Nat
    BY <1>1
  <2>5. \A n \in 0 .. N : n \in Good
    BY ONLY <2>1, <2>2, <2>3, <2>4, UpTo, Zenon
  <2>6. N \in 0 .. N
    BY <2>4
  <2>7. N \in Good
    BY ONLY <2>5, <2>6
  <2> QED BY <2>7 DEF Good
<1> QED BY <1>4, <1>8 DEF N, E

(* The computation of the breaker, with its running peak, trips exactly     *)
(* when the account fell by the breaker's share from some earlier value of  *)
(* the window, whatever was graded.                                         *)
THEOREM BreakerIsWorstFallHolds == Spec => []BreakerIsWorstFall
<1>1. IInv => graded \in Gradings /\ now \in Int
  BY GateAssumption DEF IInv, TypeOK, Gradings, Ticks
<1>2. IInv => BreakerIsWorstFall
  BY <1>1, WorstFall DEF BreakerIsWorstFall
<1> QED BY <1>2, Invariance, PTL

(* What is graded later does not take the breaker back at an earlier time.  *)
LEMMA StaysTripped ==
  ASSUME NEW log \in Gradings, NEW at \in Int, NEW g \in [ts : Ticks, pnl : Pnls],
         Tripped(log, at)
  PROVE  Tripped(Append(log, g), at)
<1> DEFINE N == Len(log)
           log2 == Append(log, g)
           c == Curve(log, at)
           d == Curve(log2, at)
<1>1. N \in Nat /\ Len(log2) = N + 1 /\ log2 \in Gradings
  BY Elements DEF Gradings
<1>2. \A n \in 1 .. N : log2[n] = log[n]
  BY <1>1 DEF Gradings
<1>3. log2[N + 1] \in [ts : Ticks, pnl : Pnls]
  BY <1>1, Elements DEF Gradings
<1>4. /\ c[0] = Start
      /\ \A n \in 1 .. N : c[n] = CurveStep(log, at, n, c[n - 1])
      /\ \A n \in 0 .. N : c[n] \in Points
  BY CurveIs
<1>5. /\ d[0] = Start
      /\ \A n \in 1 .. N + 1 : d[n] = CurveStep(log2, at, n, d[n - 1])
  BY <1>1, CurveIs
<1>6. c[N].tripped /\ (d[N + 1].tripped => Tripped(log2, at))
  BY <1>1 DEF Tripped
<1> HIDE DEF N, log2, c, d
<1>7. d[N] = c[N]
  <2> DEFINE Good == {n \in Nat : d[n] = c[n]}
  <2>1. 0 \in Good
    BY <1>4, <1>5
  <2>2. ASSUME NEW n \in 1 .. N, n - 1 \in Good PROVE n \in Good
    <3>1. n \in 1 .. N + 1 /\ n \in Nat
      BY <1>1
    <3> QED BY <1>2, <1>4, <1>5, <2>2, <3>1 DEF CurveStep
  <2>3. Good \in SUBSET Nat
    OBVIOUS
  <2> HIDE DEF Good
  <2>4. \A n \in 1 .. N : n - 1 \in Good => n \in Good
    BY <2>2
  <2>5. N \in Good
    BY <1>1, <2>1, <2>3, <2>4, UpTo
  <2> QED BY <2>5 DEF Good
<1>8. d[N + 1] = CurveStep(log2, at, N + 1, c[N]) /\ c[N] \in Points
  BY <1>1, <1>4, <1>5, <1>7
<1>9. d[N + 1].tripped
  BY <1>3, <1>6, <1>8, WalkIs DEF CurveStep
<1> QED BY <1>6, <1>9 DEF log2
-----------------------------------------------------------------------------
(* The lockout.  LockoutShows is not inductive: a call that recorded a fill *)
(* during the lockout must find the breaker tripped when it looks again.    *)
OnlyManual == \A p \in Procs : call[p].fill # 0 => call[p].step \in ManualSteps

WillFlag == \A p \in Procs : call[p].fill \in due => Tripped(graded, call[p].at)

LockInv == OnlyManual /\ WillFlag /\ LockoutShows

(* Nobody's fill or time changes, but for calls that carry no fill. *)
LEMMA LockStays ==
  ASSUME IInv, LockInv, UNCHANGED <<due, flagged>>,
         \A p \in Procs :
            /\ call[p].fill # 0 => call'[p].fill = call[p].fill /\ call'[p].at = call[p].at
            /\ call[p].fill = 0 => call'[p].fill = 0
            /\ call'[p].fill # 0 => call'[p].step \in ManualSteps,
         \A p \in Procs : call[p].fill \in due /\ Tripped(graded, call[p].at)
                            => Tripped(graded', call[p].at)
  PROVE  LockInv'
<1>1. \A i \in due : i # 0
  BY DEF IInv, TypeOK
<1>2. \A p \in Procs, i \in due : call[p].fill = i => call'[p].fill = i
  BY <1>1
<1>3. \A p \in Procs : call'[p].fill \in due => call[p].fill = call'[p].fill /\ call'[p].at = call[p].at
  BY <1>1
<1>4. WillFlag'
  BY <1>3 DEF LockInv, WillFlag
<1>5. LockoutShows'
  BY <1>2 DEF LockInv, LockoutShows
<1> QED BY <1>4, <1>5 DEF LockInv, OnlyManual

(* A call that carries no fill moves. *)
LEMMA LockMoves ==
  ASSUME IInv, LockInv, UNCHANGED <<graded, due, flagged>>,
         NEW p \in Procs, call[p].step \notin ManualSteps,
         call'[p].fill = 0, \A q \in Procs \ {p} : call'[q] = call[q]
  PROVE  LockInv'
<1>1. call[p].fill = 0
  BY DEF LockInv, OnlyManual
<1>2. \A q \in Procs : call[q].fill # 0 => q # p
  BY <1>1
<1>3. \A q \in Procs :
         /\ call[q].fill # 0 => call'[q].fill = call[q].fill /\ call'[q].at = call[q].at
         /\ call[q].fill = 0 => call'[q].fill = 0
         /\ call'[q].fill # 0 => call'[q].step \in ManualSteps
  BY <1>1 DEF LockInv, OnlyManual
<1>4. \A q \in Procs : call[q].fill \in due /\ Tripped(graded, call[q].at)
                        => Tripped(graded', call[q].at)
  OBVIOUS
<1>5. UNCHANGED <<due, flagged>>
  OBVIOUS
<1> QED BY <1>3, <1>4, <1>5, LockStays

LEMMA LockBegins ==
  ASSUME IInv, LockInv, NEW p \in Procs, NEW t \in Theses, BeginEntry(p, t) \/ BeginExit(p, t)
  PROVE  LockInv'
<1>1. PICK side \in Sides : Begin(p, t, side)
  BY DEF BeginEntry, BeginExit, Sides
<1> DEFINE c == [step |-> "evaluate", thesis |-> t, side |-> side, at |-> 0, fill |-> 0]
<1>2. c \in Calls /\ c.fill = 0
  BY GateAssumption DEF Calls, Steps, Ticks
<1>3. Set(p, c) /\ UNCHANGED <<graded, due, flagged>> /\ call[p].step = "idle"
  BY <1>1 DEF Begin, At, manual
<1> HIDE DEF c
<1>4. call'[p].fill = 0 /\ \A q \in Procs \ {p} : call'[q] = call[q]
  BY <1>2, <1>3, CallSet DEF IInv
<1> QED BY <1>3, <1>4, LockMoves DEF ManualSteps

LEMMA LockContinues ==
  ASSUME IInv, LockInv, NEW p \in Procs, Continue(p)
  PROVE  LockInv'
<1>0. Idle \in Calls /\ Idle.fill = 0
  BY IdleIsCall DEF Idle
<1>i. ASSUME call[p].step \notin ManualSteps PROVE call[p].fill = 0
  BY <1>i DEF LockInv, OnlyManual
<1>1. ASSUME Set(p, Idle), call[p].step \notin ManualSteps, UNCHANGED <<graded, due, flagged>>
      PROVE  LockInv'
  <2>1. call'[p].fill = 0 /\ \A q \in Procs \ {p} : call'[q] = call[q]
    BY <1>0, <1>1, CallSet DEF IInv
  <2> QED BY <1>1, <2>1, LockMoves
<1>2. ASSUME NEW step \in Steps, Goto(p, step), call[p].step \notin ManualSteps,
             call[p].step # "idle", UNCHANGED <<graded, due, flagged>>
      PROVE  LockInv'
  <2>1. call'[p].fill = 0 /\ \A q \in Procs \ {p} : call'[q] = call[q]
    BY <1>2, <1>i, CallGoes DEF IInv
  <2> QED BY <1>2, <2>1, LockMoves
<1>3. CASE Allow(p)
  BY <1>3, <1>2 DEF Allow, At, ManualSteps, Steps, manual
<1>4. CASE Deny(p) \/ SubmitFails(p) \/ SubmitRests(p) \/ Activate(p)
  BY <1>4, <1>1 DEF Deny, SubmitFails, SubmitRests, OrderSubmitted, Activate, At, ManualSteps, manual
<1>5. CASE Submit(p)
  <2> DEFINE c == [step |-> "fill", thesis |-> call[p].thesis, side |-> call[p].side,
                   at |-> now, fill |-> 0]
  <2>1. Set(p, c) /\ UNCHANGED <<graded, due, flagged>> /\ call[p].step = "submit"
    BY <1>5 DEF Submit, OrderSubmitted, At, manual
  <2>2. c \in Calls /\ c.fill = 0
    <3>1. call[p].thesis \in Theses /\ call[p].side \in Sides /\ now \in Ticks
      BY <2>1, InsideCall DEF IInv, TypeOK
    <3> QED BY <3>1 DEF Calls, Steps
  <2> HIDE DEF c
  <2>3. call'[p].fill = 0 /\ \A q \in Procs \ {p} : call'[q] = call[q]
    BY <2>1, <2>2, CallSet DEF IInv
  <2> QED BY <2>1, <2>3, LockMoves DEF ManualSteps
<1>6. CASE FillOrder(p)
  <2>1. UNCHANGED <<graded, due, flagged>> /\ call[p].step = "fill"
    BY <1>6 DEF FillOrder, At, manual
  <2>2. Goto(p, "activate") \/ Set(p, Idle)
    BY <1>6 DEF FillOrder
  <2> QED BY <2>1, <2>2, <1>1, <1>2 DEF ManualSteps, Steps
<1>7. CASE ManualActivate(p)
  <2>1. /\ Goto(p, "manual.check") /\ UNCHANGED <<graded, due, flagged>>
        /\ call[p].step = "manual.activate"
    BY <1>7 DEF ManualActivate, At, manual
  <2>2. call[p] \in [step : Steps, thesis : Theses, side : Sides, at : Ticks, fill : Nat]
    BY <2>1, InsideCall DEF IInv
  <2>3. /\ call'[p].step = "manual.check" /\ call'[p].fill = call[p].fill
        /\ \A q \in Procs \ {p} : call'[q] = call[q]
    BY <2>1, CallGoes DEF Steps, IInv
  <2>4. call'[p].at = call[p].at
    BY <2>1, <2>2 DEF Goto, Set, IInv, TypeOK
  <2> QED BY <2>1, <2>3, <2>4, LockStays DEF LockInv, OnlyManual, ManualSteps
<1>8. CASE ManualCheck(p)
  <2>1. /\ Set(p, Idle) /\ UNCHANGED <<graded, due>>
        /\ flagged' = IF Tripped(graded, call[p].at) THEN flagged \cup {call[p].fill} ELSE flagged
    BY <1>8 DEF ManualCheck
  <2>2. call'[p] = Idle /\ \A q \in Procs \ {p} : call'[q] = call[q]
    BY <1>0, <2>1, CallSet DEF IInv
  <2>3. OnlyManual'
    BY <1>0, <2>2 DEF OnlyManual, LockInv
  <2>4. 0 \notin due
    BY DEF IInv, TypeOK
  <2>5. WillFlag'
    BY <1>0, <2>1, <2>2, <2>4 DEF WillFlag, LockInv
  <2>6. ASSUME NEW i \in due, i \notin flagged' PROVE \E q \in Procs : call'[q].fill = i
    <3>1. PICK q \in Procs : call[q].fill = i
      BY <2>1, <2>6 DEF LockInv, LockoutShows
    <3>2. q # p
      BY <2>1, <2>6, <3>1 DEF LockInv, WillFlag
    <3> QED BY <2>2, <3>1, <3>2
  <2>7. LockoutShows'
    BY <2>1, <2>6 DEF LockoutShows
  <2> QED BY <2>3, <2>5, <2>7 DEF LockInv
<1> QED BY <1>3, <1>4, <1>5, <1>6, <1>7, <1>8 DEF Continue

LEMMA LockFills ==
  ASSUME IInv, LockInv, NEW p \in Procs, NEW t \in Theses, NEW side \in Sides,
         ManualFill(p, t, side)
  PROVE  LockInv'
<1> DEFINE i == Len(fills) + 1
           c == [step |-> "manual.activate", thesis |-> t, side |-> side, at |-> now, fill |-> i]
<1>1. /\ Set(p, c) /\ UNCHANGED <<graded, flagged>> /\ call[p].step = "idle"
      /\ due' = IF Tripped(graded, now) THEN due \cup {i} ELSE due
  BY DEF ManualFill, At
<1>2. Len(fills) \in Nat /\ due \subseteq 1 .. Len(fills) /\ now \in Ticks
  BY Elements DEF IInv, TypeOK
<1>3. i \in Nat /\ i > 0 /\ i \notin 1 .. Len(fills)
  BY <1>2
<1> HIDE DEF i
<1>4. c \in Calls /\ c.fill = i /\ c.at = now /\ c.step = "manual.activate"
  BY <1>2, <1>3 DEF Calls, Steps
<1> HIDE DEF c
<1>5. call'[p] = c /\ \A q \in Procs \ {p} : call'[q] = call[q]
  BY <1>1, <1>4, CallSet DEF IInv
<1>6. call[p].fill = 0
  BY <1>1 DEF LockInv, OnlyManual, ManualSteps
<1>7. \A q \in Procs : call[q].fill # i
  <2>1. \A q \in Procs : call[q].fill # 0 => call[q].fill \in 1 .. Len(fills)
    BY DEF LockInv, OnlyManual, IInv, FillKnown
  <2> QED BY <1>3, <2>1
<1>8. OnlyManual'
  BY <1>4, <1>5 DEF OnlyManual, LockInv, ManualSteps
<1>9. WillFlag'
  <2>1. call'[p].fill \in due' => Tripped(graded, now)
    BY <1>1, <1>2, <1>3, <1>4, <1>5
  <2>2. \A q \in Procs \ {p} : call'[q].fill \in due' => call[q].fill \in due
    BY <1>1, <1>5, <1>7
  <2> QED BY <1>1, <1>4, <1>5, <2>1, <2>2 DEF WillFlag, LockInv
<1>10. LockoutShows'
  <2>1. ASSUME NEW j \in due' \ flagged' PROVE \E q \in Procs : call'[q].fill = j
    <3>1. CASE j = i
      BY <1>4, <1>5, <3>1
    <3>2. CASE j # i
      <4>1. PICK q \in Procs : call[q].fill = j
        BY <1>1, <2>1, <3>2 DEF LockInv, LockoutShows
      <4>2. q # p
        BY <1>1, <1>2, <1>6, <2>1, <3>2, <4>1
      <4> QED BY <1>5, <4>1, <4>2
    <3> QED BY <3>1, <3>2
  <2> QED BY <2>1 DEF LockoutShows
<1> QED BY <1>8, <1>9, <1>10 DEF LockInv

LEMMA LockStep == IInv /\ LockInv /\ [Next]_vars => LockInv'
<1> SUFFICES ASSUME IInv, LockInv, [Next]_vars PROVE LockInv'
  OBVIOUS
<1>1. ASSUME UNCHANGED <<graded, due, flagged, call>> PROVE LockInv'
  BY <1>1 DEF LockInv, OnlyManual, WillFlag, LockoutShows
<1>2. ASSUME NEW t \in Theses, NEW side \in Sides, NEW at \in Ticks, Poll(t, side, at)
      PROVE  LockInv'
  BY <1>1, <1>2 DEF Poll, manual
<1>3. CASE Confirm \/ Demote \/ Tick \/ Done \/ UNCHANGED vars
  BY <1>1, <1>3 DEF Confirm, Demote, Tick, Done, vars, manual
<1>4. ASSUME NEW t \in Theses, Grade(t) PROVE LockInv'
  <2>1. PICK pnl \in Pnls : graded' = Append(graded, [ts |-> now, pnl |-> pnl])
    BY <1>4 DEF Grade
  <2>2. UNCHANGED <<due, flagged, call>>
    BY <1>4 DEF Grade, manual
  <2>3. [ts |-> now, pnl |-> pnl] \in [ts : Ticks, pnl : Pnls] /\ graded \in Gradings
    BY DEF IInv, TypeOK, Gradings
  <2>4. \A at \in Int : Tripped(graded, at) => Tripped(graded', at)
    BY <2>1, <2>3, StaysTripped
  <2>5. ASSUME NEW p \in Procs, call[p].fill \in due PROVE call[p].at \in Int
    <3>1. call[p].fill # 0
      BY <2>5 DEF IInv, TypeOK
    <3>2. call[p].step # "idle"
      BY <3>1 DEF LockInv, OnlyManual, ManualSteps
    <3> QED BY <3>2, InsideCall, GateAssumption DEF IInv, Ticks
  <2> QED BY <2>2, <2>4, <2>5, LockStays DEF LockInv, OnlyManual
<1> QED BY <1>2, <1>3, <1>4, LockBegins, LockContinues, LockFills DEF Next

(* A fill recorded by hand during the lockout gets its violation: by the    *)
(* time the call that recorded it is over the breaker is still tripped at   *)
(* the time it began, whatever was graded in between.                       *)
THEOREM LockoutShowsHolds == Spec => []LockoutShows
<1>1. Init => LockInv
  BY DEF Init, Idle, LockInv, OnlyManual, WillFlag, LockoutShows
<1>2. LockInv => LockoutShows
  BY DEF LockInv
<1> QED BY <1>1, <1>2, LockStep, Invariance, PTL DEF Spec
=============================================================================
