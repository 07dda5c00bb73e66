------------------------ MODULE OrderPipelineProofs ------------------------
(***************************************************************************)
(* Theorems about OrderPipeline, for any theses, order ids, quantities and *)
(* any finite number of processes: type correctness, ActiveIsBought,       *)
(* HaltBounded, NeverRefused and, as long as calls come one after the      *)
(* other, the refinement of MoneyContract.                                 *)
(***************************************************************************)
EXTENDS OrderPipeline, FiniteSetTheorems, TLAPS

(* What a call carries from one step to the next: before submit it places   *)
(* an order for its thesis, afterwards it follows an order that stands in   *)
(* the log, and an entry activates the thesis whose order was filled.       *)
CarriedBy(c) ==
  /\ c.step \in {"assemble", "verdict", "verify", "submit"} =>
       c.verb \in {"entry", "exit"} /\ c.thesis \in Theses
  /\ c.order \in Placed \cup {None}
  /\ c.step \in {"fill", "poll", "limitfill", "cancelling", "activate", "activating"} =>
       c.order \in Placed
  /\ c.verb = "entry" /\ c.order # None =>
       orders[c.order].thesis = c.thesis /\ orders[c.order].side = "buy"
  /\ c.step \in {"activate", "activating"} =>
       c.verb = "entry" /\ c.thesis \in Theses /\ fills[c.order] > 0
  /\ c.step = "limitfill" => orders[c.order].limit

Carried == \A p \in Procs : CarriedBy(call[p])

(* TypeOK apart from what is told of the interleaving. *)
PathOK == /\ active \subseteq Theses
          /\ orders \in [OrderIds -> Order \cup {None}]
          /\ fills \in [OrderIds -> Nat]
          /\ recorded \in Nat
          /\ position \in Int
          /\ cancelled \subseteq OrderIds
          /\ halted \in BOOLEAN
          /\ haltFills \in Nat
          /\ refused \subseteq Theses
          /\ superseded \subseteq Procs
          /\ crashes \in Nat
          /\ call \in [Procs -> Call]

IInv == PathOK /\ Carried /\ ActiveIsBought
-----------------------------------------------------------------------------
(* A call record with new fields. *)
LEMMA StepChanges ==
  ASSUME NEW c \in Call, NEW step \in Steps
  PROVE  LET d == [c EXCEPT !.step = step]
         IN /\ d \in Call /\ d.step = step
            /\ d.verb = c.verb /\ d.thesis = c.thesis /\ d.order = c.order
            /\ d.number = c.number /\ d.sawHalt = c.sawHalt
BY DEF Call

LEMMA IdleIsCall == Idle \in Call
BY DEF Idle, Call, Verbs, Steps

(* One process's call is replaced, the others' stay. *)
LEMMA CallReplaced ==
  ASSUME PathOK, NEW p \in Procs, NEW c \in Call, call' = [call EXCEPT ![p] = c]
  PROVE  /\ call' \in [Procs -> Call]
         /\ call'[p] = c
         /\ \A q \in Procs : q # p => call'[q] = call[q]
BY DEF PathOK

(* A step that leaves the book alone keeps the invariant if what it does to *)
(* its own call does.                                                       *)
LEMMA BookStays ==
  ASSUME IInv, UNCHANGED book,
         NEW p \in Procs, NEW c \in Call, CarriedBy(c),
         call' = [call EXCEPT ![p] = c]
  PROVE  Carried' /\ ActiveIsBought'
<1>1. Placed' = Placed
  BY DEF Placed, book
<1>2. \A q \in Procs : CarriedBy(call'[q])
  BY CallReplaced DEF IInv, Carried
<1>3. Carried'
  BY <1>1, <1>2 DEF Carried, CarriedBy, book
<1>4. ActiveIsBought'
  BY <1>1 DEF IInv, ActiveIsBought, Bought, book
<1> QED BY <1>3, <1>4

(* A step that only moves a call. *)
LEMMA CallMoves ==
  ASSUME IInv, UNCHANGED <<book, control, aside>>,
         NEW p \in Procs, NEW c \in Call, CarriedBy(c),
         call' = [call EXCEPT ![p] = c]
  PROVE  IInv'
<1>1. call' \in [Procs -> Call]
  BY CallReplaced DEF IInv
<1>2. PathOK'
  BY <1>1 DEF IInv, PathOK, book, control, aside
<1> QED BY <1>2, BookStays DEF IInv

LEMMA IdleCarried == CarriedBy(Idle)
BY PipelineAssumption DEF CarriedBy, Idle, Placed

LEMMA ReturnKeeps ==
  ASSUME IInv, UNCHANGED <<book, control, aside>>, NEW p \in Procs, Return(p)
  PROVE  IInv'
BY CallMoves, IdleCarried, IdleIsCall DEF Return

LEMMA GotoKeeps ==
  ASSUME IInv, UNCHANGED <<book, control, aside>>,
         NEW p \in Procs, NEW step \in Steps, Goto(p, step),
         CarriedBy([call[p] EXCEPT !.step = step])
  PROVE  IInv'
<1>1. call[p] \in Call
  BY DEF IInv, PathOK
<1> QED BY <1>1, StepChanges, CallMoves DEF Goto
-----------------------------------------------------------------------------
(* The steps of a call. *)

(* RecordFill counts one more fill of an order that stands in the log. *)
LEMMA FillIs ==
  ASSUME IInv, NEW o \in Placed, RecordFill(o)
  PROVE  /\ fills' \in [OrderIds -> Nat]
         /\ fills'[o] > 0
         /\ \A x \in OrderIds : fills[x] > 0 => fills'[x] > 0
         /\ recorded' \in Nat
         /\ position' \in Int
         /\ haltFills' \in Nat
<1>1. o \in OrderIds /\ orders[o] \in Order
  BY DEF IInv, PathOK, Placed
<1>2. Delta(o) \in Int
  BY <1>1, PipelineAssumption DEF Delta, Order
<1> QED BY <1>1, <1>2 DEF IInv, PathOK, RecordFill

(* A fill keeps the invariant if what follows it keeps its own call's part. *)
LEMMA FillKeeps ==
  ASSUME IInv, NEW p \in Procs, NEW o \in Placed, RecordFill(o), UNCHANGED aside,
         NEW c \in Call, call' = [call EXCEPT ![p] = c], CarriedBy(c)'
  PROVE  IInv'
<1>1. call' \in [Procs -> Call]
  BY CallReplaced DEF IInv
<1>2. PathOK'
  BY <1>1, FillIs DEF IInv, PathOK, RecordFill, aside
<1>3. Placed' = Placed /\ Placed \subseteq OrderIds
  BY DEF Placed, RecordFill
<1>4. ASSUME NEW q \in Procs, q # p PROVE CarriedBy(call[q])'
  <2>1. CarriedBy(call[q])
    BY DEF IInv, Carried
  <2>2. call'[q] = call[q]
    BY <1>4, CallReplaced DEF IInv
  <2>3. \A x \in Placed : fills[x] > 0 => fills'[x] > 0
    BY <1>3, FillIs
  <2>4. orders' = orders
    BY DEF RecordFill
  <2> QED BY <1>3, <2>1, <2>2, <2>3, <2>4 DEF CarriedBy
<1>5. Carried'
  BY <1>4, CallReplaced DEF IInv, Carried
<1>6. ActiveIsBought'
  BY <1>3, FillIs DEF IInv, ActiveIsBought, Bought, RecordFill
<1> QED BY <1>2, <1>5, <1>6 DEF IInv

LEMMA InductiveStep == IInv /\ [Next]_vars => IInv'
<1> SUFFICES ASSUME IInv, [Next]_vars PROVE IInv'
  OBVIOUS
<1>1. ASSUME NEW p \in Procs, Begin(p) PROVE IInv'
  <2> USE <1>1
  <2>1. ASSUME NEW t \in Theses, BeginEntry(p, t) PROVE IInv'
    <3> DEFINE c == [Idle EXCEPT !.verb = "entry", !.step = "assemble",
                                 !.thesis = t, !.number = EntryQty]
    <3>1. c \in Call /\ c.step = "assemble" /\ c.order = None /\ c.verb = "entry" /\ c.thesis = t
      <4>1. EntryQty \in Int /\ Idle.order = None
        BY PipelineAssumption DEF Idle
      <4> QED BY <4>1, IdleIsCall DEF Call, Verbs, Steps
    <3>2. CarriedBy(c)
      BY <3>1, PipelineAssumption DEF CarriedBy, Placed
    <3>3. call' = [call EXCEPT ![p] = c] /\ UNCHANGED <<book, control, aside>>
      BY <2>1 DEF BeginEntry, Start
    <3> HIDE DEF c
    <3> QED BY <3>1, <3>2, <3>3, CallMoves
  <2>2. ASSUME NEW t \in Theses, BeginExit(p, t) PROVE IInv'
    <3> DEFINE c == [Idle EXCEPT !.verb = "exit", !.step = "assemble",
                                 !.thesis = t, !.number = position]
    <3>1. c \in Call /\ c.step = "assemble" /\ c.order = None /\ c.verb = "exit" /\ c.thesis = t
      <4>1. position \in Int /\ Idle.order = None
        BY DEF Idle, IInv, PathOK
      <4> QED BY <4>1, IdleIsCall DEF Call, Verbs, Steps
    <3>2. CarriedBy(c)
      BY <3>1, PipelineAssumption DEF CarriedBy, Placed
    <3>3. call' = [call EXCEPT ![p] = c] /\ UNCHANGED <<book, control, aside>>
      BY <2>2 DEF BeginExit, Start
    <3> HIDE DEF c
    <3> QED BY <3>1, <3>2, <3>3, CallMoves
  <2>3. ASSUME NEW o \in OrderIds, NEW verb \in {"status", "cancel"}, Poll(p, verb, o) PROVE IInv'
    <3> DEFINE c == [Idle EXCEPT !.verb = verb, !.step = "poll", !.order = o]
    <3>1. c \in Call /\ c.step = "poll" /\ c.order = o /\ c.verb = verb
      BY IdleIsCall DEF Call, Verbs, Steps
    <3>2. CarriedBy(c)
      BY <2>3, <3>1 DEF CarriedBy, Poll
    <3>3. call' = [call EXCEPT ![p] = c] /\ UNCHANGED <<book, control, aside>>
      BY <2>3 DEF Poll, Start
    <3> HIDE DEF c
    <3> QED BY <3>1, <3>2, <3>3, CallMoves
  <2>4. CASE BeginReconcile(p)
    <3> DEFINE c == [Idle EXCEPT !.verb = "reconcile", !.step = "compare", !.number = recorded]
    <3>1. c \in Call /\ c.step = "compare" /\ c.order = None /\ c.verb = "reconcile"
      <4>1. recorded \in Int /\ Idle.order = None
        BY DEF Idle, IInv, PathOK
      <4> QED BY <4>1, IdleIsCall DEF Call, Verbs, Steps
    <3>2. CarriedBy(c)
      BY <3>1 DEF CarriedBy
    <3>3. call' = [call EXCEPT ![p] = c] /\ UNCHANGED <<book, control, aside>>
      BY <2>4 DEF BeginReconcile, Start
    <3> HIDE DEF c
    <3> QED BY <3>1, <3>2, <3>3, CallMoves
  <2>5. CASE Halt(p)
    BY <2>5 DEF Halt, SetHalt, IInv, PathOK, Carried, CarriedBy, Placed, ActiveIsBought, Bought,
                book, aside
  <2>6. CASE Resume(p)
    BY <2>6 DEF Resume, IInv, PathOK, Carried, CarriedBy, Placed, ActiveIsBought, Bought,
                book, aside
  <2> QED BY <2>1, <2>2, <2>3, <2>4, <2>5, <2>6 DEF Begin
<1>2. ASSUME NEW p \in Procs, Continue(p) PROVE IInv'
  <2>0. call[p] \in Call /\ CarriedBy(call[p])
    BY DEF IInv, PathOK, Carried
  <2>1. CASE Assemble(p)
    <3> DEFINE c == [call[p] EXCEPT !.step = "verdict", !.sawHalt = halted]
    <3>1. /\ c \in Call /\ c.step = "verdict" /\ c.order = call[p].order
          /\ c.verb = call[p].verb /\ c.thesis = call[p].thesis
      BY <2>0 DEF Call, Steps, IInv, PathOK
    <3>2. CarriedBy(c)
      BY <2>0, <2>1, <3>1 DEF CarriedBy, Assemble, At
    <3>3. call' = [call EXCEPT ![p] = c] /\ UNCHANGED <<book, control, aside>>
      BY <2>1 DEF Assemble
    <3> HIDE DEF c
    <3> QED BY <3>1, <3>2, <3>3, CallMoves
  <2>4. CASE Verify(p)
    <3>1. CarriedBy([call[p] EXCEPT !.step = "submit"])
      BY <2>0, <2>4, StepChanges DEF CarriedBy, Verify, At, Steps
    <3> QED BY <2>4, <3>1, GotoKeeps DEF Verify, Steps
  <2>5. CASE VerifyRefuse(p) \/ NoQuote(p) \/ ReconcileMatch(p)
    BY <2>5, ReturnKeeps DEF VerifyRefuse, NoQuote, ReconcileMatch
  <2>6. CASE Allow(p)
    <3> DEFINE c == [call[p] EXCEPT !.step = "verify"]
    <3>0. /\ c \in Call /\ c.step = "verify" /\ c.order = call[p].order
          /\ c.verb = call[p].verb /\ c.thesis = call[p].thesis
      BY <2>0, StepChanges DEF Steps
    <3>1. c \in Call /\ CarriedBy(c)
      BY <2>0, <2>6, <3>0 DEF CarriedBy, Allow, At
    <3>2. call' = [call EXCEPT ![p] = c] /\ UNCHANGED <<book, control, refused, crashes>>
      BY <2>6 DEF Allow, Goto
    <3>3. superseded' \subseteq Procs
      BY <2>6 DEF Allow, IInv, PathOK
    <3> HIDE DEF c
    <3>4. call' \in [Procs -> Call]
      BY <3>1, <3>2, CallReplaced DEF IInv
    <3>5. PathOK'
      BY <3>2, <3>3, <3>4 DEF IInv, PathOK, book, control
    <3> QED BY <3>1, <3>2, <3>5, BookStays DEF IInv
  <2>7. CASE Deny(p)
    <3>1. call' = [call EXCEPT ![p] = Idle] /\ UNCHANGED <<book, control, refused, crashes>>
      BY <2>7 DEF Deny, Return
    <3>2. superseded' \subseteq Procs
      BY <2>7 DEF Deny, TokenHolders, IInv, PathOK
    <3>3. call' \in [Procs -> Call]
      BY <3>1, IdleIsCall, CallReplaced DEF IInv
    <3>4. PathOK'
      BY <3>1, <3>2, <3>3 DEF IInv, PathOK, book, control
    <3> QED BY <3>1, <3>4, IdleIsCall, IdleCarried, BookStays DEF IInv
  <2>8. ASSUME NEW o \in OrderIds, Submit(p, o) PROVE IInv'
    <3>1. PICK c \in Call :
            /\ call' = [call EXCEPT ![p] = c]
            /\ c.step \in {"poll", "fill"} /\ c.order = o
            /\ c.verb = call[p].verb /\ c.thesis = call[p].thesis
      <4> DEFINE step == IF IsLimit(p) THEN "poll" ELSE "fill"
                 d == [call[p] EXCEPT !.order = o, !.step = step]
      <4>1. step \in {"poll", "fill"}
        OBVIOUS
      <4>2. call' = [call EXCEPT ![p] = d]
        BY <2>8 DEF Submit
      <4> HIDE DEF step
      <4>3. /\ d \in Call /\ d.step \in {"poll", "fill"} /\ d.order = o
            /\ d.verb = call[p].verb /\ d.thesis = call[p].thesis
        BY <2>0, <4>1 DEF Call, Steps
      <4> HIDE DEF d
      <4> QED BY <4>2, <4>3
    <3>2. call[p].verb \in {"entry", "exit"} /\ call[p].thesis \in Theses
      BY <2>0, <2>8 DEF CarriedBy, Submit, At
    <3>3. PICK order \in Order :
            /\ orders' = [orders EXCEPT ![o] = order]
            /\ order.thesis = call[p].thesis
            /\ call[p].verb = "entry" => order.side = "buy"
      <4>1. IsLimit(p) \in BOOLEAN /\ call[p].number \in Int
        BY <2>0 DEF IsLimit, Call
      <4> DEFINE side == IF call[p].verb = "entry" THEN "buy" ELSE "sell"
                 d == [thesis |-> call[p].thesis, side |-> side, limit |-> IsLimit(p),
                       qty |-> call[p].number]
      <4>2. orders' = [orders EXCEPT ![o] = d]
        BY <2>8 DEF Submit
      <4>3. side \in {"buy", "sell"} /\ (call[p].verb = "entry" => side = "buy")
        OBVIOUS
      <4> HIDE DEF side
      <4>4. d \in Order /\ d.thesis = call[p].thesis /\ d.side = side
        BY <3>2, <4>1, <4>3 DEF Order
      <4> HIDE DEF d
      <4> QED BY <4>2, <4>3, <4>4
    <3>4. /\ UNCHANGED <<active, fills, recorded, position, cancelled, control, aside>>
          /\ orders[o] = None
      BY <2>8 DEF Submit
    <3>5. orders' \in [OrderIds -> Order \cup {None}]
      BY <3>3 DEF IInv, PathOK
    <3>6. call' \in [Procs -> Call]
      BY <3>1, CallReplaced DEF IInv
    <3>7. PathOK'
      BY <3>4, <3>5, <3>6 DEF IInv, PathOK, control, aside
    <3>8. Placed' = Placed \cup {o} /\ o \notin Placed
      BY <3>3, <3>4, PipelineAssumption DEF Placed, IInv, PathOK
    <3>9. \A x \in Placed : orders'[x] = orders[x]
      BY <3>3, <3>8 DEF Placed, IInv, PathOK
    <3>10. ActiveIsBought'
      BY <3>4, <3>8, <3>9 DEF IInv, ActiveIsBought, Bought
    <3>11. ASSUME NEW q \in Procs, q # p PROVE CarriedBy(call[q])'
      <4>1. call'[q] = call[q] /\ CarriedBy(call[q])
        BY <3>1, <3>11, CallReplaced DEF IInv, Carried
      <4> QED BY <3>4, <3>8, <3>9, <4>1 DEF CarriedBy
    <3>12. CarriedBy(call[p])'
      <4>1. call'[p] = c /\ orders'[o] = order
        BY <3>1, <3>3, CallReplaced DEF IInv, PathOK
      <4> QED BY <3>1, <3>3, <3>8, <4>1 DEF CarriedBy
    <3> QED BY <3>7, <3>10, <3>11, <3>12 DEF IInv, Carried
  <2>9. CASE MarketFill(p)
    <3>1. PICK o \in Placed : o = call[p].order
      BY <2>0, <2>9 DEF CarriedBy, MarketFill, At
    <3>2. RecordFill(o) /\ UNCHANGED aside
      BY <2>9, <3>1 DEF MarketFill
    <3>3. PICK c \in Call :
            /\ call' = [call EXCEPT ![p] = c]
            /\ \/ c = Idle
               \/ /\ c.step = "poll" /\ c.verb = "entry" /\ call[p].verb = "entry"
                  /\ c.order = o /\ c.thesis = call[p].thesis
      <4>1. CASE call[p].verb = "entry"
        <5> DEFINE d == [call[p] EXCEPT !.step = "poll"]
        <5>1. call' = [call EXCEPT ![p] = d]
          BY <2>9, <4>1 DEF MarketFill, Goto
        <5>2. /\ d \in Call /\ d.step = "poll" /\ d.verb = "entry"
              /\ d.order = o /\ d.thesis = call[p].thesis
          BY <2>0, <3>1, <4>1, StepChanges DEF Steps
        <5> HIDE DEF d
        <5> QED BY <4>1, <5>1, <5>2
      <4>2. CASE call[p].verb # "entry"
        BY <2>9, <4>2, IdleIsCall DEF MarketFill, Return
      <4> QED BY <4>1, <4>2
    <3>4. Placed' = Placed /\ UNCHANGED orders
      BY <3>2 DEF RecordFill, Placed
    <3>5. fills'[o] > 0
      BY <3>2, FillIs
    <3>6. call[p].verb = "entry" => orders[o].thesis = call[p].thesis /\ orders[o].side = "buy"
      BY <2>0, <3>1, PipelineAssumption DEF CarriedBy, Placed
    <3>7. orders[o].thesis \in Theses
      BY <3>1 DEF Placed, Order, IInv, PathOK
    <3>8. CASE c = Idle
      <4>1. CarriedBy(c)'
        BY <3>8 DEF CarriedBy, Idle
      <4> QED BY <3>2, <3>3, <4>1, FillKeeps
    <3>9. CASE c # Idle
      <4>1. CarriedBy(c)'
        BY <3>3, <3>4, <3>5, <3>6, <3>7, <3>9 DEF CarriedBy
      <4> QED BY <3>2, <3>3, <4>1, FillKeeps
    <3> QED BY <3>8, <3>9
  <2>10. CASE LimitFill(p)
    <3>1. PICK o \in Placed : o = call[p].order
      BY <2>0, <2>10 DEF CarriedBy, LimitFill, At
    <3>2. RecordFill(o) /\ UNCHANGED aside
      BY <2>10, <3>1 DEF LimitFill
    <3>3. PICK c \in Call :
            /\ call' = [call EXCEPT ![p] = c]
            /\ \/ c = Idle
               \/ /\ c.step = "activate" /\ c.verb = "entry" /\ call[p].verb = "entry"
                  /\ c.order = o /\ c.thesis = call[p].thesis
      <4>1. CASE call[p].verb = "entry"
        <5> DEFINE d == [call[p] EXCEPT !.step = "activate"]
        <5>1. call' = [call EXCEPT ![p] = d]
          BY <2>10, <4>1 DEF LimitFill, AfterFilled, Goto
        <5>2. /\ d \in Call /\ d.step = "activate" /\ d.verb = "entry"
              /\ d.order = o /\ d.thesis = call[p].thesis
          BY <2>0, <3>1, <4>1, StepChanges DEF Steps
        <5> HIDE DEF d
        <5> QED BY <4>1, <5>1, <5>2
      <4>2. CASE call[p].verb # "entry"
        BY <2>10, <4>2, IdleIsCall DEF LimitFill, AfterFilled, Return
      <4> QED BY <4>1, <4>2
    <3>4. Placed' = Placed /\ UNCHANGED orders
      BY <3>2 DEF RecordFill, Placed
    <3>5. fills'[o] > 0
      BY <3>2, FillIs
    <3>6. call[p].verb = "entry" => orders[o].thesis = call[p].thesis /\ orders[o].side = "buy"
      BY <2>0, <3>1, PipelineAssumption DEF CarriedBy, Placed
    <3>7. orders[o].thesis \in Theses
      BY <3>1 DEF Placed, Order, IInv, PathOK
    <3>8. CASE c = Idle
      <4>1. CarriedBy(c)'
        BY <3>8 DEF CarriedBy, Idle
      <4> QED BY <3>2, <3>3, <4>1, FillKeeps
    <3>9. CASE c # Idle
      <4>1. CarriedBy(c)'
        BY <3>3, <3>4, <3>5, <3>6, <3>7, <3>9 DEF CarriedBy
      <4> QED BY <3>2, <3>3, <4>1, FillKeeps
    <3> QED BY <3>8, <3>9
  <2>11. CASE ActivateGuard(p)
    <3>1. CarriedBy([call[p] EXCEPT !.step = "activating"])
      BY <2>0, <2>11, StepChanges DEF CarriedBy, ActivateGuard, At, Steps
    <3> QED BY <2>11, <3>1, GotoKeeps DEF ActivateGuard, Steps
  <2>12. CASE ActivateRefuse(p)
    <3>1. call' = [call EXCEPT ![p] = Idle] /\ UNCHANGED <<book, control, superseded, crashes>>
      BY <2>12 DEF ActivateRefuse, Return
    <3>2. refused' \subseteq Theses
      BY <2>0, <2>12 DEF ActivateRefuse, At, CarriedBy, IInv, PathOK
    <3>3. call' \in [Procs -> Call]
      BY <3>1, IdleIsCall, CallReplaced DEF IInv
    <3>4. PathOK'
      BY <3>1, <3>2, <3>3 DEF IInv, PathOK, book, control
    <3> QED BY <3>1, <3>4, IdleIsCall, IdleCarried, BookStays DEF IInv
  <2>13. CASE Activate(p)
    <3> DEFINE t == call[p].thesis
               o == call[p].order
    <3>1. o \in Placed /\ t \in Theses /\ call[p].verb = "entry" /\ fills[o] > 0
      BY <2>0, <2>13 DEF Activate, At, CarriedBy
    <3>2. orders[o].thesis = t /\ orders[o].side = "buy"
      BY <2>0, <3>1, PipelineAssumption DEF CarriedBy, Placed
    <3>3. Bought(t)
      BY <3>1, <3>2 DEF Bought
    <3>4. /\ active' = active \cup {t}
          /\ call' = [call EXCEPT ![p] = Idle]
          /\ UNCHANGED <<orders, fills, recorded, position, cancelled, control, aside>>
      BY <2>13 DEF Activate, Return
    <3> HIDE DEF o, t
    <3>5. call' \in [Procs -> Call]
      BY <3>4, IdleIsCall, CallReplaced DEF IInv
    <3>6. PathOK'
      BY <3>1, <3>4, <3>5 DEF IInv, PathOK, control, aside
    <3>7. ActiveIsBought'
      BY <3>3, <3>4 DEF IInv, ActiveIsBought, Bought, Placed
    <3>8. Carried'
      <4>1. \A q \in Procs : CarriedBy(call'[q])
        BY <3>4, IdleIsCall, IdleCarried, CallReplaced DEF IInv, Carried
      <4> QED BY <3>4, <4>1 DEF Carried, CarriedBy, Placed
    <3> QED BY <3>6, <3>7, <3>8 DEF IInv
  <2>14. CASE PollFilled(p)
    <3>1. CASE call[p].verb = "entry"
      <4>1. fills[call[p].order] > 0 /\ call[p].order \in Placed
        BY <2>0, <2>14 DEF PollFilled, At, CarriedBy, Placed, IInv, PathOK
      <4>2. call[p].thesis \in Theses
        BY <2>0, <3>1, <4>1, PipelineAssumption DEF CarriedBy, Placed, Order, IInv, PathOK
      <4>3. CarriedBy([call[p] EXCEPT !.step = "activate"])
        BY <2>0, <3>1, <4>1, <4>2, StepChanges DEF CarriedBy, Steps
      <4> QED BY <2>14, <3>1, <4>3, GotoKeeps DEF PollFilled, AfterFilled, Steps
    <3>2. CASE call[p].verb # "entry"
      BY <2>14, <3>2, ReturnKeeps DEF PollFilled, AfterFilled
    <3> QED BY <3>1, <3>2
  <2>15. CASE PollOpen(p)
    <3>1. CASE call[p].verb = "cancel"
      <4>1. CarriedBy([call[p] EXCEPT !.step = "cancelling"])
        BY <2>0, <2>15, StepChanges DEF CarriedBy, PollOpen, At, Steps
      <4> QED BY <2>15, <3>1, <4>1, GotoKeeps DEF PollOpen, AfterOpen, Steps
    <3>2. CASE call[p].verb # "cancel"
      BY <2>15, <3>2, ReturnKeeps DEF PollOpen, AfterOpen
    <3> QED BY <3>1, <3>2
  <2>16. CASE PollTradesThrough(p)
    <3>1. CarriedBy([call[p] EXCEPT !.step = "limitfill"])
      BY <2>0, <2>16, StepChanges DEF CarriedBy, PollTradesThrough, MayEvaluate, At, Steps
    <3> QED BY <2>16, <3>1, GotoKeeps DEF PollTradesThrough, Steps
  <2>17. CASE Cancel(p)
    <3>1. /\ cancelled' = cancelled \cup {call[p].order}
          /\ call' = [call EXCEPT ![p] = Idle]
          /\ UNCHANGED <<active, orders, fills, recorded, position, control, aside>>
      BY <2>17 DEF Cancel, Return
    <3>2. call[p].order \in OrderIds
      BY <2>0, <2>17 DEF Cancel, At, CarriedBy, Placed
    <3>3. call' \in [Procs -> Call]
      BY <3>1, IdleIsCall, CallReplaced DEF IInv
    <3>4. PathOK'
      BY <3>1, <3>2, <3>3 DEF IInv, PathOK, control, aside
    <3>5. ActiveIsBought'
      BY <3>1 DEF IInv, ActiveIsBought, Bought, Placed
    <3>6. Carried'
      <4>1. \A q \in Procs : CarriedBy(call'[q])
        BY <3>1, IdleIsCall, IdleCarried, CallReplaced DEF IInv, Carried
      <4> QED BY <3>1, <4>1 DEF Carried, CarriedBy, Placed
    <3> QED BY <3>4, <3>5, <3>6 DEF IInv
  <2>18. CASE ReconcileMismatch(p)
    <3>1. CarriedBy([call[p] EXCEPT !.step = "mismatch"])
      BY <2>0, <2>18, StepChanges DEF CarriedBy, ReconcileMismatch, At, Steps
    <3> QED BY <2>18, <3>1, GotoKeeps DEF ReconcileMismatch, Steps
  <2>19. CASE ReconcileHalt(p)
    <3>1. call' = [call EXCEPT ![p] = Idle] /\ UNCHANGED <<book, aside>>
      BY <2>19 DEF ReconcileHalt, Return
    <3>2. halted' \in BOOLEAN /\ haltFills' \in Nat
      BY <2>19 DEF ReconcileHalt, SetHalt, IInv, PathOK
    <3>3. call' \in [Procs -> Call]
      BY <3>1, IdleIsCall, CallReplaced DEF IInv
    <3>4. PathOK'
      BY <3>1, <3>2, <3>3 DEF IInv, PathOK, book, aside
    <3> QED BY <3>1, <3>4, IdleIsCall, IdleCarried, BookStays DEF IInv
  <2> QED BY <1>2, <2>1, <2>4, <2>5, <2>6, <2>7, <2>8, <2>9, <2>10, <2>11, <2>12, <2>13, <2>14,
             <2>15, <2>16, <2>17, <2>18, <2>19 DEF Continue
<1>3. ASSUME NEW p \in Procs, Crash(p) PROVE IInv'
  <2>1. /\ call' = [call EXCEPT ![p] = Idle]
        /\ crashes' = crashes + 1
        /\ UNCHANGED <<book, control, refused, superseded>>
    BY <1>3 DEF Crash, Return
  <2>2. call' \in [Procs -> Call]
    BY <2>1, IdleIsCall, CallReplaced DEF IInv
  <2>3. PathOK'
    BY <2>1, <2>2 DEF IInv, PathOK, book, control
  <2> QED BY <2>1, <2>3, IdleIsCall, IdleCarried, BookStays DEF IInv
<1>4. CASE UNCHANGED vars
  BY <1>4 DEF vars, IInv, PathOK, Carried, CarriedBy, Placed, ActiveIsBought, Bought
<1> QED BY <1>1, <1>2, <1>3, <1>4 DEF Next, Run

(* The inductive invariant behind both of the next two theorems: what is    *)
(* bought stays bought, and what a call carries stays true of the log.      *)
THEOREM Invariance == Spec => []IInv
<1>1. Init => IInv
  <2>1. Init => PathOK
    <3> SUFFICES ASSUME Init PROVE PathOK
      OBVIOUS
    <3>1. call \in [Procs -> Call]
      BY IdleIsCall DEF Init
    <3>2. orders \in [OrderIds -> Order \cup {None}]
      BY DEF Init
    <3>3. fills \in [OrderIds -> Nat]
      BY DEF Init
    <3>4. halted \in BOOLEAN
      BY DEF Init
    <3> QED BY <3>1, <3>2, <3>3, <3>4 DEF Init, PathOK
  <2>2. Init => Carried
    BY IdleIsCall DEF Init, Carried, CarriedBy, Idle
  <2>3. Init => ActiveIsBought
    BY DEF Init, ActiveIsBought
  <2> QED BY <2>1, <2>2, <2>3 DEF IInv
<1> QED BY <1>1, InductiveStep, PTL DEF Spec

(* Every reachable state of the money path is well typed.                   *)
THEOREM TypeCorrect == Spec => []TypeOK
<1>1. IInv /\ TypeOK /\ [Next]_vars => TypeOK'
  <2> SUFFICES ASSUME IInv, TypeOK, [Next]_vars PROVE TypeOK'
    OBVIOUS
  <2>1. PathOK'
    BY InductiveStep DEF IInv
  <2>2. overlap' \in BOOLEAN /\ raced' \subseteq Theses
    BY DEF TypeOK, Next, Run, Witness, vars
  <2> QED BY <2>1, <2>2 DEF PathOK, TypeOK
<1>2. IInv /\ Init => TypeOK
  BY DEF Init, IInv, PathOK, TypeOK
<1> QED BY <1>1, <1>2, Invariance, PTL DEF Spec

(* Whatever races, crashes or halts: a thesis is active only behind a fill  *)
(* of an entry order of its own.                                            *)
THEOREM ActiveIsBoughtHolds == Spec => []ActiveIsBought
<1>1. IInv => ActiveIsBought
  BY DEF IInv
<1> QED BY <1>1, Invariance, PTL
-----------------------------------------------------------------------------
(* Halts. *)

(* The processes past their last look at the halt and before their fill. *)
Flying == {"submit", "fill", "limitfill"}

InFlight == {p \in Procs : call[p].step \in Flying}

(* HaltBounded is not inductive: the fills still to come are counted too. *)
HaltCounted == halted => haltFills + Cardinality(InFlight) < Cardinality(Procs)

LEMMA InFlightFinite ==
  /\ IsFiniteSet(InFlight)
  /\ Cardinality(InFlight) \in Nat
  /\ Cardinality(InFlight) <= Cardinality(Procs)
BY PipelineAssumption, FS_Subset, FS_CardinalityType DEF InFlight

(* Only p's call moves, and not into flight. *)
LEMMA FlightShrinks ==
  ASSUME IInv, NEW p \in Procs, NEW c \in Call, call' = [call EXCEPT ![p] = c]
  PROVE  /\ c.step \notin Flying => InFlight' \subseteq InFlight \ {p}
         /\ call[p].step \in Flying => InFlight' \subseteq InFlight
BY CallReplaced DEF IInv, InFlight

LEMMA ReturnShrinks ==
  ASSUME IInv, NEW p \in Procs, Return(p)
  PROVE  InFlight' \subseteq InFlight \ {p}
BY FlightShrinks, IdleIsCall DEF Return, Idle, Flying

LEMMA GotoShrinks ==
  ASSUME IInv, NEW p \in Procs, NEW step \in Steps \ Flying, Goto(p, step)
  PROVE  InFlight' \subseteq InFlight \ {p}
<1>1. call[p] \in Call
  BY DEF IInv, PathOK
<1>2. [call[p] EXCEPT !.step = step] \in Call /\ [call[p] EXCEPT !.step = step].step = step
  BY <1>1, StepChanges
<1> QED BY <1>2, FlightShrinks DEF Goto

(* Under a standing halt nobody takes off, and each fill is a landing. *)
LEMMA HaltedContinue ==
  ASSUME IInv, NEW p \in Procs, Continue(p), halted
  PROVE  \/ haltFills' = haltFills /\ InFlight' \subseteq InFlight
         \/ haltFills' = haltFills + 1 /\ p \in InFlight /\ InFlight' \subseteq InFlight \ {p}
<1>0. call[p] \in Call
  BY DEF IInv, PathOK
<1>1. CASE Assemble(p)
  <2> DEFINE c == [call[p] EXCEPT !.step = "verdict", !.sawHalt = halted]
  <2>1. c \in Call /\ c.step = "verdict"
    BY <1>0 DEF Call, Steps, IInv, PathOK
  <2>2. call' = [call EXCEPT ![p] = c]
    BY <1>1 DEF Assemble
  <2> HIDE DEF c
  <2> QED BY <1>1, <2>1, <2>2, FlightShrinks DEF Assemble, control, Flying
<1>2. CASE Allow(p)
  BY <1>2, GotoShrinks DEF Allow, control, Steps, Flying
<1>3. CASE Deny(p) \/ VerifyRefuse(p) \/ NoQuote(p) \/ ActivateRefuse(p) \/ Activate(p)
             \/ Cancel(p) \/ ReconcileMatch(p)
  BY <1>3, ReturnShrinks
     DEF Deny, VerifyRefuse, NoQuote, ActivateRefuse, Activate, Cancel, ReconcileMatch, control
<1>4. CASE Verify(p) \/ PollTradesThrough(p)
  BY <1>4 DEF Verify, TokenGood, PollTradesThrough, MayEvaluate
<1>5. ASSUME NEW o \in OrderIds, Submit(p, o) PROVE haltFills' = haltFills /\ InFlight' \subseteq InFlight
  <2> DEFINE step == IF IsLimit(p) THEN "poll" ELSE "fill"
             c == [call[p] EXCEPT !.order = o, !.step = step]
  <2>1. call' = [call EXCEPT ![p] = c] /\ haltFills' = haltFills /\ call[p].step \in Flying
    BY <1>5 DEF Submit, At, control, Flying
  <2>2. step \in Steps
    BY DEF Steps
  <2> HIDE DEF step
  <2>3. c \in Call
    BY <1>0, <2>2 DEF Call
  <2> HIDE DEF c
  <2> QED BY <2>1, <2>3, FlightShrinks
<1>6. CASE MarketFill(p) \/ LimitFill(p)
  <2>1. haltFills' = haltFills + 1
    BY <1>6 DEF MarketFill, LimitFill, RecordFill
  <2>2. p \in InFlight
    BY <1>6 DEF MarketFill, LimitFill, At, InFlight, Flying
  <2>3. InFlight' \subseteq InFlight \ {p}
    BY <1>6, GotoShrinks, ReturnShrinks DEF MarketFill, LimitFill, AfterFilled, Steps, Flying
  <2> QED BY <2>1, <2>2, <2>3
<1>7. CASE ActivateGuard(p) \/ PollFilled(p) \/ PollOpen(p) \/ ReconcileMismatch(p)
  BY <1>7, GotoShrinks, ReturnShrinks
     DEF ActivateGuard, PollFilled, AfterFilled, PollOpen, AfterOpen, ReconcileMismatch, control,
         Steps, Flying
<1>8. CASE ReconcileHalt(p)
  BY <1>8, ReturnShrinks DEF ReconcileHalt, SetHalt
<1> QED BY Continue(p), <1>1, <1>2, <1>3, <1>4, <1>5, <1>6, <1>7, <1>8 DEF Continue

LEMMA Landing ==
  ASSUME NEW S \in SUBSET Procs, NEW T \in SUBSET Procs, NEW p \in Procs
  PROVE  /\ Cardinality(S) \in Nat /\ Cardinality(T) \in Nat
         /\ S \subseteq T => Cardinality(S) <= Cardinality(T)
         /\ p \in T /\ S \subseteq T \ {p} => Cardinality(S) + 1 <= Cardinality(T)
<1>1. IsFiniteSet(S) /\ IsFiniteSet(T) /\ IsFiniteSet(T \ {p})
  BY PipelineAssumption, FS_Subset, FS_RemoveElement
<1>2. Cardinality(S) \in Nat /\ Cardinality(T) \in Nat
  BY <1>1, FS_CardinalityType
<1>3. S \subseteq T => Cardinality(S) <= Cardinality(T)
  BY <1>1, FS_Subset
<1>4. p \in T => Cardinality(T \ {p}) = Cardinality(T) - 1
  BY <1>1, FS_RemoveElement
<1>5. S \subseteq T \ {p} => Cardinality(S) <= Cardinality(T \ {p})
  BY <1>1, FS_Subset
<1> QED BY <1>2, <1>3, <1>4, <1>5

(* The process that sets a halt is not in flight itself. *)
LEMMA HaltStarts ==
  ASSUME IInv, NEW p \in Procs, call[p].step \notin Flying,
         InFlight' \subseteq InFlight, SetHalt, HaltCounted
  PROVE  HaltCounted'
<1>1. InFlight \in SUBSET Procs /\ InFlight' \in SUBSET Procs /\ p \notin InFlight
  BY DEF InFlight
<1>2. Cardinality(InFlight') + 1 <= Cardinality(Procs) /\ Cardinality(Procs) \in Nat
  BY <1>1, Landing
<1>3. Cardinality(InFlight') <= Cardinality(InFlight) /\ Cardinality(InFlight') \in Nat
      /\ Cardinality(InFlight) \in Nat
  BY <1>1, Landing
<1>4. haltFills \in Nat
  BY DEF IInv, PathOK
<1> QED BY <1>2, <1>3, <1>4 DEF HaltCounted, SetHalt

LEMMA HaltCountedStep == IInv /\ HaltCounted /\ [Next]_vars => HaltCounted'
<1> SUFFICES ASSUME IInv, HaltCounted, [Next]_vars PROVE HaltCounted'
  OBVIOUS
<1>0. InFlight \in SUBSET Procs /\ InFlight' \in SUBSET Procs /\ haltFills \in Nat
  BY DEF InFlight, IInv, PathOK
<1>1. ASSUME NEW p \in Procs, Begin(p) PROVE HaltCounted'
  <2>1. CASE Halt(p)
    <3>1. InFlight' = InFlight /\ call[p].step \notin Flying /\ SetHalt
      BY <2>1 DEF Halt, InFlight, Idle, Flying
    <3> QED BY <3>1, HaltStarts
  <2>2. CASE Resume(p)
    BY <2>2 DEF Resume, HaltCounted
  <2>3. ASSUME NEW c \in Call, c.step \notin Flying, call' = [call EXCEPT ![p] = c],
               UNCHANGED control
        PROVE  HaltCounted'
    <3>1. InFlight' \subseteq InFlight
      BY <2>3, FlightShrinks
    <3>2. Cardinality(InFlight') <= Cardinality(InFlight)
          /\ Cardinality(InFlight') \in Nat /\ Cardinality(InFlight) \in Nat
          /\ Cardinality(Procs) \in Nat
      BY <1>0, <3>1, Landing
    <3> QED BY <1>0, <2>3, <3>2 DEF HaltCounted, control
  <2>4. ASSUME NEW t \in Theses, BeginEntry(p, t) PROVE HaltCounted'
    <3> DEFINE c == [Idle EXCEPT !.verb = "entry", !.step = "assemble",
                                 !.thesis = t, !.number = EntryQty]
    <3>1. c \in Call /\ c.step = "assemble"
      <4>1. EntryQty \in Int
        BY PipelineAssumption
      <4> QED BY <4>1, IdleIsCall DEF Call, Verbs, Steps
    <3>2. UNCHANGED control /\ call' = [call EXCEPT ![p] = c]
      BY <2>4 DEF BeginEntry, Start
    <3> HIDE DEF c
    <3> QED BY <2>3, <3>1, <3>2 DEF Flying
  <2>7. ASSUME NEW t \in Theses, BeginExit(p, t) PROVE HaltCounted'
    <3> DEFINE c == [Idle EXCEPT !.verb = "exit", !.step = "assemble",
                                 !.thesis = t, !.number = position]
    <3>1. c \in Call /\ c.step = "assemble"
      <4>1. position \in Int
        BY DEF IInv, PathOK
      <4> QED BY <4>1, IdleIsCall DEF Call, Verbs, Steps
    <3>2. UNCHANGED control /\ call' = [call EXCEPT ![p] = c]
      BY <2>7 DEF BeginExit, Start
    <3> HIDE DEF c
    <3> QED BY <2>3, <3>1, <3>2 DEF Flying
  <2>5. ASSUME NEW o \in OrderIds, NEW verb \in {"status", "cancel"}, Poll(p, verb, o)
        PROVE  HaltCounted'
    <3> DEFINE c == [Idle EXCEPT !.verb = verb, !.step = "poll", !.order = o]
    <3>1. c \in Call /\ c.step = "poll"
      BY IdleIsCall DEF Call, Verbs, Steps
    <3>2. UNCHANGED control /\ call' = [call EXCEPT ![p] = c]
      BY <2>5 DEF Poll, Start
    <3> HIDE DEF c
    <3> QED BY <2>3, <3>1, <3>2 DEF Flying
  <2>6. CASE BeginReconcile(p)
    <3> DEFINE c == [Idle EXCEPT !.verb = "reconcile", !.step = "compare", !.number = recorded]
    <3>1. c \in Call /\ c.step = "compare"
      <4>1. recorded \in Int
        BY DEF IInv, PathOK
      <4> QED BY <4>1, IdleIsCall DEF Call, Verbs, Steps
    <3>2. UNCHANGED control /\ call' = [call EXCEPT ![p] = c]
      BY <2>6 DEF BeginReconcile, Start
    <3> HIDE DEF c
    <3> QED BY <2>3, <3>1, <3>2 DEF Flying
  <2> QED BY <1>1, <2>1, <2>2, <2>4, <2>5, <2>6, <2>7 DEF Begin
<1>2. ASSUME NEW p \in Procs, Continue(p) PROVE HaltCounted'
  <2>1. CASE ReconcileHalt(p)
    <3>1. InFlight' \subseteq InFlight /\ call[p].step \notin Flying /\ SetHalt
      BY <2>1, ReturnShrinks DEF ReconcileHalt, At, Flying
    <3> QED BY <3>1, HaltStarts
  <2>2. CASE ~ReconcileHalt(p) /\ halted
    <3>1. /\ Cardinality(InFlight') \in Nat /\ Cardinality(InFlight) \in Nat
          /\ Cardinality(Procs) \in Nat
          /\ InFlight' \subseteq InFlight => Cardinality(InFlight') <= Cardinality(InFlight)
          /\ p \in InFlight /\ InFlight' \subseteq InFlight \ {p} =>
               Cardinality(InFlight') + 1 <= Cardinality(InFlight)
      BY <1>0, Landing
    <3> QED BY <1>0, <1>2, <2>2, <3>1, HaltedContinue DEF HaltCounted
  <2>3. CASE ~ReconcileHalt(p) /\ ~halted
    <3>1. halted' = halted
      BY <1>2, <2>3 DEF Continue, Assemble, Allow, Deny, Verify, VerifyRefuse, NoQuote, Submit,
         MarketFill, ActivateGuard, ActivateRefuse, Activate, PollFilled, PollOpen,
         PollTradesThrough, LimitFill, RecordFill, Cancel, ReconcileMatch, ReconcileMismatch,
         control
    <3> QED BY <2>3, <3>1 DEF HaltCounted
  <2> QED BY <2>1, <2>2, <2>3
<1>3. ASSUME NEW p \in Procs, Crash(p) PROVE HaltCounted'
  <2>1. InFlight' \subseteq InFlight /\ UNCHANGED control
    BY <1>3, ReturnShrinks DEF Crash
  <2>2. /\ Cardinality(InFlight') <= Cardinality(InFlight)
        /\ Cardinality(InFlight') \in Nat /\ Cardinality(InFlight) \in Nat
        /\ Cardinality(Procs) \in Nat
    BY <1>0, <2>1, Landing
  <2> QED BY <1>0, <2>1, <2>2 DEF HaltCounted, control
<1>4. CASE UNCHANGED vars
  BY <1>4 DEF vars, HaltCounted, InFlight
<1> QED BY <1>1, <1>2, <1>3, <1>4 DEF Next, Run

(* However many processes race, a halt lets through fewer fills than there  *)
(* are processes: the ones already past their last check.                   *)
THEOREM HaltBoundedHolds == Spec => []HaltBounded
<1>1. Init => HaltCounted
  BY DEF Init, HaltCounted
<1>2. IInv /\ HaltCounted => HaltBounded
  BY InFlightFinite, PipelineAssumption, FS_CardinalityType DEF HaltBounded, HaltCounted, IInv, PathOK
<1> QED BY <1>1, <1>2, HaltCountedStep, Invariance, PTL DEF Spec
-----------------------------------------------------------------------------
(* One call after the other: the contract of the money path. *)

(* No call but p's is under way. *)
Alone(p) == \A q \in Procs : q # p => call[q] = Idle

(* What the only call knows of the book, since nothing moves while it runs: *)
(* its thesis is still to be activated, its exit sells the whole position,  *)
(* nobody halts between its last check and its fill, and the order it is    *)
(* about to fill has no fill yet.                                           *)
KnownBy(c) ==
  /\ c.verb = "entry" => c.thesis \in Theses \ active
  /\ c.step \in {"assemble", "verdict", "verify", "submit"} =>
       IF c.verb = "entry" THEN c.number = EntryQty ELSE c.number = position /\ position # 0
  /\ c.step \in Flying => ~halted
  /\ c.step \in {"fill", "limitfill"} => fills[c.order] = 0
  /\ c.step = "fill" /\ orders[c.order].side = "sell" =>
       orders[c.order].qty = position /\ position # 0

Known == \A p \in Procs : KnownBy(call[p])

(* Only submitted orders fill, entries buy what the contract says, and only *)
(* entries rest.                                                            *)
BookSound ==
  /\ \A o \in OrderIds : orders[o] = None => fills[o] = 0
  /\ \A o \in Placed : /\ orders[o].side = "buy" => orders[o].qty = EntryQty
                       /\ orders[o].limit => orders[o].side = "buy"

SerialInv == Known /\ BookSound

(* The variables of the contract are functions of these. *)
LEMMA MoneyStays ==
  ASSUME UNCHANGED <<active, halted, orders, fills, position>>
  PROVE  UNCHANGED Money!mvars
BY DEF Money!mvars, Bought, Placed

LEMMA IdleKnown == KnownBy(Idle)
BY DEF KnownBy, Idle, Flying

LEMMA IdleIs == Idle.verb = "none" /\ Idle.step = "idle"
BY DEF Idle

(* A step that only moves the call. *)
LEMMA SerialMoves ==
  ASSUME IInv, SerialInv, NEW p \in Procs, Alone(p), NEW c \in Call,
         call' = [call EXCEPT ![p] = c], UNCHANGED <<book, control>>, KnownBy(c)
  PROVE  SerialInv' /\ UNCHANGED Money!mvars
<1>1. \A q \in Procs : call'[q] \in {c, Idle}
  BY CallReplaced DEF IInv, Alone
<1>2. UNCHANGED <<active, orders, fills, position, halted>>
  BY DEF book, control
<1>3. Known'
  BY <1>1, <1>2, IdleKnown DEF Known, KnownBy
<1>4. BookSound'
  BY <1>2 DEF SerialInv, BookSound, Placed
<1> QED BY <1>2, <1>3, <1>4, MoneyStays DEF SerialInv

LEMMA SerialReturns ==
  ASSUME IInv, SerialInv, NEW p \in Procs, Alone(p), Return(p), UNCHANGED <<book, control>>
  PROVE  SerialInv' /\ UNCHANGED Money!mvars
BY SerialMoves, IdleKnown, IdleIsCall DEF Return

LEMMA SerialGoes ==
  ASSUME IInv, SerialInv, NEW p \in Procs, Alone(p), NEW step \in Steps, Goto(p, step),
         UNCHANGED <<book, control>>, KnownBy([call[p] EXCEPT !.step = step])
  PROVE  SerialInv' /\ UNCHANGED Money!mvars
<1>1. call[p] \in Call
  BY DEF IInv, PathOK
<1> QED BY <1>1, StepChanges, SerialMoves DEF Goto

(* A halt or its end comes while the process is in no call that checked it. *)
LEMMA SerialHalts ==
  ASSUME IInv, SerialInv, UNCHANGED book,
         \A q \in Procs : call'[q] = Idle, halted' \in BOOLEAN
  PROVE  SerialInv' /\ Money!MNext
<1>2. UNCHANGED <<active, orders, fills, position>>
  BY DEF book
<1>3. Known'
  BY <1>2 DEF Known, KnownBy, Idle, Flying
<1>4. BookSound'
  BY <1>2 DEF SerialInv, BookSound, Placed
<1>5. Money!SetHalt(halted')
  BY <1>2 DEF Money!SetHalt, Bought, Placed
<1> QED BY <1>3, <1>4, <1>5 DEF SerialInv, Money!MNext

(* Calls that begin. *)
LEMMA SerialBegins ==
  ASSUME IInv, SerialInv, NEW p \in Procs, Alone(p), Begin(p)
  PROVE  SerialInv' /\ [Money!MNext]_(Money!mvars)
<1>1. ASSUME NEW t \in Theses, BeginEntry(p, t) PROVE SerialInv' /\ UNCHANGED Money!mvars
  <2> DEFINE c == [Idle EXCEPT !.verb = "entry", !.step = "assemble",
                               !.thesis = t, !.number = EntryQty]
  <2>1. c \in Call /\ c.step = "assemble" /\ c.verb = "entry" /\ c.thesis = t /\ c.number = EntryQty
    <3>1. EntryQty \in Int
      BY PipelineAssumption
    <3> QED BY <3>1, IdleIsCall DEF Call, Verbs, Steps
  <2>2. call' = [call EXCEPT ![p] = c] /\ UNCHANGED <<book, control>> /\ t \notin active
    BY <1>1 DEF BeginEntry, Start, aside
  <2> HIDE DEF c
  <2>3. KnownBy(c)
    BY <2>1, <2>2 DEF KnownBy, Flying
  <2> QED BY <2>1, <2>2, <2>3, SerialMoves
<1>2. ASSUME NEW t \in Theses, BeginExit(p, t) PROVE SerialInv' /\ UNCHANGED Money!mvars
  <2> DEFINE c == [Idle EXCEPT !.verb = "exit", !.step = "assemble",
                               !.thesis = t, !.number = position]
  <2>1. c \in Call /\ c.step = "assemble" /\ c.verb = "exit" /\ c.number = position
    <3>1. position \in Int
      BY DEF IInv, PathOK
    <3> QED BY <3>1, IdleIsCall DEF Call, Verbs, Steps
  <2>2. call' = [call EXCEPT ![p] = c] /\ UNCHANGED <<book, control>> /\ position # 0
    BY <1>2 DEF BeginExit, Start, aside
  <2> HIDE DEF c
  <2>3. KnownBy(c)
    BY <2>1, <2>2 DEF KnownBy, Flying
  <2> QED BY <2>1, <2>2, <2>3, SerialMoves
<1>3. ASSUME NEW o \in OrderIds, NEW verb \in {"status", "cancel"}, Poll(p, verb, o)
      PROVE  SerialInv' /\ UNCHANGED Money!mvars
  <2> DEFINE c == [Idle EXCEPT !.verb = verb, !.step = "poll", !.order = o]
  <2>1. c \in Call /\ c.step = "poll" /\ c.verb = verb
    BY IdleIsCall DEF Call, Verbs, Steps
  <2>2. call' = [call EXCEPT ![p] = c] /\ UNCHANGED <<book, control>>
    BY <1>3 DEF Poll, Start, aside
  <2> HIDE DEF c
  <2>3. KnownBy(c)
    BY <2>1 DEF KnownBy, Flying
  <2> QED BY <2>1, <2>2, <2>3, SerialMoves
<1>4. CASE BeginReconcile(p)
  <2> DEFINE c == [Idle EXCEPT !.verb = "reconcile", !.step = "compare", !.number = recorded]
  <2>1. c \in Call /\ c.step = "compare" /\ c.verb = "reconcile"
    <3>1. recorded \in Int
      BY DEF IInv, PathOK
    <3> QED BY <3>1, IdleIsCall DEF Call, Verbs, Steps
  <2>2. call' = [call EXCEPT ![p] = c] /\ UNCHANGED <<book, control>>
    BY <1>4 DEF BeginReconcile, Start, aside
  <2> HIDE DEF c
  <2>3. KnownBy(c)
    BY <2>1 DEF KnownBy, Flying
  <2> QED BY <2>1, <2>2, <2>3, SerialMoves
<1>5. CASE Halt(p) \/ Resume(p)
  <2>1. (\A q \in Procs : call'[q] = Idle) /\ halted' \in BOOLEAN /\ UNCHANGED book
    BY <1>5 DEF Halt, Resume, SetHalt, Alone
  <2> QED BY <2>1, SerialHalts
<1> QED BY <1>1, <1>2, <1>3, <1>4, <1>5 DEF Begin

(* The fill of an order that has none, outside a halt: the contract's Buy   *)
(* or SellAll.                                                              *)
LEMMA SerialFills ==
  ASSUME IInv, SerialInv, NEW p \in Procs, Alone(p), NEW o \in Placed,
         RecordFill(o), ~halted, fills[o] = 0,
         orders[o].side = "sell" => orders[o].qty = position /\ position # 0,
         NEW c \in Call, call' = [call EXCEPT ![p] = c],
         c.step \in {"idle", "poll", "activate"},
         c.verb = "entry" => c.thesis \in Theses \ active
  PROVE  SerialInv' /\ Money!MNext
<1>1. /\ o \in OrderIds /\ orders[o] \in Order
      /\ UNCHANGED <<active, orders, halted>> /\ position' = position + Delta(o)
      /\ fills' = [fills EXCEPT ![o] = @ + 1]
  BY DEF RecordFill, Placed, IInv, PathOK
<1>2. fills'[o] = 1 /\ \A x \in OrderIds \ {o} : fills'[x] = fills[x]
  BY <1>1 DEF IInv, PathOK
<1>3. \A q \in Procs : call'[q] \in {c, Idle}
  BY CallReplaced DEF IInv, Alone
<1>4. Known'
  BY <1>1, <1>3, IdleIs DEF Known, KnownBy, Flying
<1>5. BookSound'
  BY <1>1, <1>2 DEF SerialInv, BookSound, Placed
<1>6. {x \in OrderIds : fills'[x] > 0} = {x \in OrderIds : fills[x] > 0} \cup {o}
  BY <1>1, <1>2
<1>7. Money!Fill(o)
  BY <1>1, <1>6 DEF Money!Fill
<1>8. CASE orders[o].side = "buy"
  <2>1. orders[o].thesis \in Theses /\ orders[o].qty = EntryQty
    BY <1>1, <1>8 DEF Order, SerialInv, BookSound
  <2>2. position' = position + NetQty
    BY <1>1, <1>8, <2>1, PipelineAssumption DEF Delta, NetQty, IInv, PathOK
  <2>3. \A t \in Theses : Bought(t)' <=> Bought(t) \/ t = orders[o].thesis
    BY <1>1, <1>2, <1>8 DEF Bought, Placed
  <2>4. {t \in Theses : Bought(t)}' = {t \in Theses : Bought(t)} \cup {orders[o].thesis}
    BY <2>1, <2>3
  <2>5. Money!Buy(o, orders[o].thesis)
    BY <1>7, <2>2, <2>4 DEF Money!Buy
  <2> QED BY <1>1, <1>4, <1>5, <2>1, <2>5 DEF SerialInv, Money!MNext
<1>9. CASE orders[o].side = "sell"
  <2>1. position' = 0
    BY <1>1, <1>9 DEF Delta, IInv, PathOK
  <2>2. \A t \in Theses : Bought(t)' <=> Bought(t)
    BY <1>1, <1>2, <1>9 DEF Bought, Placed
  <2>3. {t \in Theses : Bought(t)}' = {t \in Theses : Bought(t)}
    BY <2>2
  <2>4. Money!SellAll(o)
    BY <1>7, <1>9, <2>1, <2>3 DEF Money!SellAll
  <2> QED BY <1>1, <1>4, <1>5, <2>4 DEF SerialInv, Money!MNext
<1> QED BY <1>1, <1>8, <1>9 DEF Order

(* Steps inside a call. *)
LEMMA SerialContinues ==
  ASSUME IInv, SerialInv, NEW p \in Procs, Alone(p), Continue(p)
  PROVE  SerialInv' /\ [Money!MNext]_(Money!mvars)
<1>0. call[p] \in Call /\ CarriedBy(call[p]) /\ KnownBy(call[p])
  BY DEF IInv, PathOK, Carried, SerialInv, Known
<1>1. CASE Assemble(p)
  <2> DEFINE c == [call[p] EXCEPT !.step = "verdict", !.sawHalt = halted]
  <2>1. /\ c \in Call /\ c.step = "verdict" /\ c.verb = call[p].verb
        /\ c.thesis = call[p].thesis /\ c.number = call[p].number
    BY <1>0 DEF Call, Steps, IInv, PathOK
  <2>2. call' = [call EXCEPT ![p] = c] /\ UNCHANGED <<book, control>>
    BY <1>1 DEF Assemble, aside
  <2> HIDE DEF c
  <2>3. KnownBy(c)
    BY <1>0, <1>1, <2>1 DEF KnownBy, Assemble, At, Flying
  <2> QED BY <2>1, <2>2, <2>3, SerialMoves
<1>2. CASE Allow(p)
  <2>1. KnownBy([call[p] EXCEPT !.step = "verify"])
    BY <1>0, <1>2, StepChanges DEF KnownBy, Allow, At, Steps, Flying
  <2> QED BY <1>2, <2>1, SerialGoes DEF Allow, Steps
<1>3. CASE Verify(p)
  <2>1. KnownBy([call[p] EXCEPT !.step = "submit"])
    BY <1>0, <1>3, StepChanges DEF KnownBy, Verify, TokenGood, At, Steps, Flying
  <2> QED BY <1>3, <2>1, SerialGoes DEF Verify, Steps, aside
<1>4. CASE Deny(p) \/ VerifyRefuse(p) \/ NoQuote(p) \/ ReconcileMatch(p)
  BY <1>4, SerialReturns DEF Deny, VerifyRefuse, NoQuote, ReconcileMatch, aside
<1>5. ASSUME NEW o \in OrderIds, Submit(p, o) PROVE SerialInv' /\ UNCHANGED Money!mvars
  <2> DEFINE step == IF IsLimit(p) THEN "poll" ELSE "fill"
             c == [call[p] EXCEPT !.order = o, !.step = step]
             side == IF call[p].verb = "entry" THEN "buy" ELSE "sell"
             d == [thesis |-> call[p].thesis, side |-> side, limit |-> IsLimit(p),
                   qty |-> call[p].number]
  <2>1. /\ call' = [call EXCEPT ![p] = c] /\ orders' = [orders EXCEPT ![o] = d]
        /\ orders[o] = None /\ At(p, "submit")
        /\ UNCHANGED <<active, fills, position, halted>>
    BY <1>5 DEF Submit, control, aside
  <2>2. step \in {"poll", "fill"} /\ (side = "buy" <=> call[p].verb = "entry")
    OBVIOUS
  <2> HIDE DEF step, side
  <2>3. /\ c \in Call /\ c.step = step /\ c.verb = call[p].verb /\ c.order = o
        /\ c.thesis = call[p].thesis /\ c.number = call[p].number
    BY <1>0, <2>2 DEF Call, Steps
  <2>4. d.side = side /\ d.qty = call[p].number /\ d.limit = IsLimit(p) /\ d.thesis = call[p].thesis
    OBVIOUS
  <2> HIDE DEF c, d
  <2>5. \A q \in Procs : call'[q] \in {c, Idle}
    BY <2>1, <2>3, CallReplaced DEF IInv, Alone
  <2>6. orders'[o] = d /\ \A x \in OrderIds \ {o} : orders'[x] = orders[x]
    BY <2>1 DEF IInv, PathOK
  <2>7. fills[o] = 0
    BY <2>1 DEF SerialInv, BookSound
  <2>8. Known'
    BY <1>0, <2>1, <2>2, <2>3, <2>4, <2>5, <2>6, <2>7, IdleIs DEF Known, KnownBy, At, Flying
  <2>9. BookSound'
    <3>1. (d.side = "buy" => d.qty = EntryQty) /\ (d.limit => d.side = "buy")
      BY <1>0, <2>1, <2>2, <2>4 DEF KnownBy, At, IsLimit
    <3>2. fills'[o] = 0
      BY <2>1, <2>7
    <3> QED BY <2>1, <2>6, <3>1, <3>2 DEF SerialInv, BookSound, Placed
  <2>10. \A t \in Theses : Bought(t)' <=> Bought(t)
    BY <2>1, <2>6, <2>7 DEF Bought, Placed
  <2>11. {t \in Theses : Bought(t)}' = {t \in Theses : Bought(t)}
    BY <2>10
  <2>12. UNCHANGED Money!mvars
    BY <2>1, <2>11 DEF Money!mvars
  <2> QED BY <2>8, <2>9, <2>12 DEF SerialInv
<1>6. CASE MarketFill(p)
  <2>1. PICK o \in Placed : o = call[p].order
    BY <1>0, <1>6 DEF CarriedBy, MarketFill, At
  <2>2. /\ RecordFill(o) /\ ~halted /\ fills[o] = 0
        /\ orders[o].side = "sell" => orders[o].qty = position /\ position # 0
    BY <1>0, <1>6, <2>1 DEF MarketFill, At, aside, KnownBy, Flying
  <2>3. CASE call[p].verb = "entry"
    <3> DEFINE c == [call[p] EXCEPT !.step = "poll"]
    <3>1. call' = [call EXCEPT ![p] = c]
      BY <1>6, <2>3 DEF MarketFill, Goto
    <3>2. c \in Call /\ c.step = "poll" /\ (c.verb = "entry" => c.thesis \in Theses \ active)
      BY <1>0, StepChanges DEF Steps, KnownBy
    <3> HIDE DEF c
    <3> QED BY <2>2, <3>1, <3>2, SerialFills
  <2>4. CASE call[p].verb # "entry"
    <3>1. call' = [call EXCEPT ![p] = Idle] /\ Idle.step = "idle" /\ Idle.verb # "entry"
      BY <1>6, <2>4 DEF MarketFill, Return, Idle
    <3> QED BY <2>2, <3>1, IdleIsCall, SerialFills
  <2> QED BY <2>3, <2>4
<1>7. CASE LimitFill(p)
  <2>1. PICK o \in Placed : o = call[p].order /\ orders[o].limit
    BY <1>0, <1>7 DEF CarriedBy, LimitFill, At
  <2>2. /\ RecordFill(o) /\ ~halted /\ fills[o] = 0
        /\ orders[o].side # "sell"
    BY <1>0, <1>7, <2>1 DEF LimitFill, At, aside, KnownBy, Flying, SerialInv, BookSound
  <2>3. CASE call[p].verb = "entry"
    <3> DEFINE c == [call[p] EXCEPT !.step = "activate"]
    <3>1. call' = [call EXCEPT ![p] = c]
      BY <1>7, <2>3 DEF LimitFill, AfterFilled, Goto
    <3>2. c \in Call /\ c.step = "activate" /\ (c.verb = "entry" => c.thesis \in Theses \ active)
      BY <1>0, StepChanges DEF Steps, KnownBy
    <3> HIDE DEF c
    <3> QED BY <2>2, <3>1, <3>2, SerialFills
  <2>4. CASE call[p].verb # "entry"
    <3>1. call' = [call EXCEPT ![p] = Idle] /\ Idle.step = "idle" /\ Idle.verb # "entry"
      BY <1>7, <2>4 DEF LimitFill, AfterFilled, Return, Idle
    <3> QED BY <2>2, <3>1, IdleIsCall, SerialFills
  <2> QED BY <2>3, <2>4
<1>8. CASE ActivateGuard(p)
  <2>1. KnownBy([call[p] EXCEPT !.step = "activating"])
    BY <1>0, <1>8, StepChanges DEF KnownBy, ActivateGuard, At, Steps, Flying
  <2> QED BY <1>8, <2>1, SerialGoes DEF ActivateGuard, Steps, aside
<1>9. ~ActivateRefuse(p)
  BY <1>0 DEF ActivateRefuse, At, CarriedBy, KnownBy
<1>10. CASE Activate(p)
  <2> DEFINE t == call[p].thesis
  <2>1. call[p].order \in Placed /\ call[p].order # None /\ call[p].verb = "entry"
        /\ fills[call[p].order] > 0 /\ t \in Theses \ active
    BY <1>0, <1>10, PipelineAssumption DEF Activate, At, CarriedBy, KnownBy, Placed
  <2>2. Bought(t)
    BY <1>0, <2>1 DEF CarriedBy, Bought
  <2>3. /\ active' = active \cup {t} /\ call' = [call EXCEPT ![p] = Idle]
        /\ UNCHANGED <<orders, fills, position, halted>>
    BY <1>10 DEF Activate, Return, control, aside
  <2> HIDE DEF t
  <2>4. \A q \in Procs : call'[q] = Idle
    BY <2>3, IdleIsCall, CallReplaced DEF IInv, Alone
  <2>5. Known'
    BY <2>3, <2>4 DEF Known, KnownBy, Idle, Flying
  <2>6. BookSound'
    BY <2>3 DEF SerialInv, BookSound, Placed
  <2>7. {x \in Theses : Bought(x)}' = {x \in Theses : Bought(x)}
    BY <2>3 DEF Bought, Placed
  <2>8. Money!Activate(t)
    BY <2>1, <2>2, <2>3, <2>7 DEF Money!Activate
  <2> QED BY <2>1, <2>5, <2>6, <2>8 DEF SerialInv, Money!MNext
<1>11. CASE PollFilled(p)
  <2>1. CASE call[p].verb = "entry"
    <3>1. KnownBy([call[p] EXCEPT !.step = "activate"])
      BY <1>0, <1>11, StepChanges DEF KnownBy, PollFilled, At, Steps, Flying
    <3> QED BY <1>11, <2>1, <3>1, SerialGoes DEF PollFilled, AfterFilled, Steps, aside
  <2>2. CASE call[p].verb # "entry"
    BY <1>11, <2>2, SerialReturns DEF PollFilled, AfterFilled, aside
  <2> QED BY <2>1, <2>2
<1>12. CASE PollOpen(p)
  <2>1. CASE call[p].verb = "cancel"
    <3>1. KnownBy([call[p] EXCEPT !.step = "cancelling"])
      BY <1>0, <1>12, StepChanges DEF KnownBy, PollOpen, At, Steps, Flying
    <3> QED BY <1>12, <2>1, <3>1, SerialGoes DEF PollOpen, AfterOpen, Steps, aside
  <2>2. CASE call[p].verb # "cancel"
    BY <1>12, <2>2, SerialReturns DEF PollOpen, AfterOpen, aside
  <2> QED BY <2>1, <2>2
<1>13. CASE PollTradesThrough(p)
  <2>1. KnownBy([call[p] EXCEPT !.step = "limitfill"])
    BY <1>0, <1>13, StepChanges
       DEF KnownBy, PollTradesThrough, MayEvaluate, At, Steps, Flying
  <2> QED BY <1>13, <2>1, SerialGoes DEF PollTradesThrough, Steps, aside
<1>14. CASE Cancel(p)
  <2>1. /\ call' = [call EXCEPT ![p] = Idle]
        /\ UNCHANGED <<active, orders, fills, position, halted>>
    BY <1>14 DEF Cancel, Return, control, aside
  <2>2. \A q \in Procs : call'[q] = Idle
    BY <2>1, IdleIsCall, CallReplaced DEF IInv, Alone
  <2>3. Known'
    BY <2>1, <2>2 DEF Known, KnownBy, Idle, Flying
  <2>4. BookSound'
    BY <2>1 DEF SerialInv, BookSound, Placed
  <2> QED BY <2>1, <2>3, <2>4, MoneyStays DEF SerialInv
<1>15. CASE ReconcileMismatch(p)
  <2>1. KnownBy([call[p] EXCEPT !.step = "mismatch"])
    BY <1>0, <1>15, StepChanges DEF KnownBy, ReconcileMismatch, At, Steps, Flying
  <2> QED BY <1>15, <2>1, SerialGoes DEF ReconcileMismatch, Steps, aside
<1>16. CASE ReconcileHalt(p)
  <2>1. (\A q \in Procs : call'[q] = Idle) /\ halted' \in BOOLEAN /\ UNCHANGED book
    BY <1>16, IdleIsCall, CallReplaced DEF ReconcileHalt, Return, SetHalt, Alone, IInv
  <2> QED BY <2>1, SerialHalts
<1> QED BY <1>1, <1>2, <1>3, <1>4, <1>5, <1>6, <1>7, <1>8, <1>9, <1>10, <1>11, <1>12, <1>13,
           <1>14, <1>15, <1>16 DEF Continue

LEMMA SerialStep ==
  IInv /\ (~overlap => SerialInv) /\ [Next]_vars =>
    (~overlap' => SerialInv') /\ [~overlap' => Money!MNext]_(Money!mvars)
<1> SUFFICES ASSUME IInv, ~overlap => SerialInv, [Next]_vars, ~overlap'
             PROVE  SerialInv' /\ [Money!MNext]_(Money!mvars)
  OBVIOUS
<1>1. CASE UNCHANGED vars
  <2>1. UNCHANGED <<active, orders, fills, position, halted, call, overlap>>
    BY <1>1 DEF vars
  <2> QED BY <2>1, MoneyStays DEF SerialInv, Known, KnownBy, BookSound, Placed
<1>2. ASSUME NEW p \in Procs, Witness(p), Begin(p) \/ Continue(p) \/ Crash(p)
      PROVE  SerialInv' /\ [Money!MNext]_(Money!mvars)
  <2>1. ~overlap /\ Alone(p)
    BY <1>2 DEF Witness, Alone
  <2>2. CASE Crash(p)
    BY <2>1, <2>2, SerialReturns DEF Crash
  <2> QED BY <1>2, <2>1, <2>2, SerialBegins, SerialContinues
<1> QED BY <1>1, <1>2 DEF Next, Run

LEMMA SerialInit == Init => SerialInv /\ Money!MInit
<1> SUFFICES ASSUME Init PROVE SerialInv /\ Money!MInit
  OBVIOUS
<1>1. Known
  BY IdleKnown DEF Init, Known
<1>2. BookSound
  BY DEF Init, BookSound, Placed
<1>3. \A o \in OrderIds : ~ (fills[o] > 0)
  BY DEF Init
<1>4. {o \in OrderIds : fills[o] > 0} = {} /\ {t \in Theses : Bought(t)} = {}
  BY <1>3 DEF Bought, Placed
<1> QED BY <1>1, <1>2, <1>4 DEF Init, SerialInv, Money!MInit

(* As long as calls come one after the other, of whatever process, what     *)
(* they do implements the contract of the money path, step by step: one     *)
(* fill per order, none under a halt, exits to zero, activation behind a    *)
(* fill.                                                                    *)
THEOREM MoneyRefines == Spec => ImplementsMoney
<1>1. Init => (~overlap => SerialInv) /\ Money!MInit
  BY SerialInit
<1> QED BY <1>1, SerialStep, Invariance, PTL DEF Spec, ImplementsMoney
-----------------------------------------------------------------------------
(* Who may be refused. *)

(* Two processes inside an entry of the same thesis are a race for it; an   *)
(* entry of an active thesis began before the activation, which was the     *)
(* other's.                                                                 *)
RaceInv ==
  /\ \A p, q \in Procs : \A t \in Theses :
       p # q /\ Entering(p, t) /\ Entering(q, t) => t \in raced
  /\ \A p \in Procs : \A t \in active : Entering(p, t) => t \in raced
  /\ NeverRefused

(* A step of p's call that neither enters nor activates. *)
LEMMA RaceGoesOn ==
  ASSUME IInv, RaceInv, NEW p \in Procs, NEW c \in Call, call' = [call EXCEPT ![p] = c],
         c.verb = "entry" => c.verb = call[p].verb /\ c.thesis = call[p].thesis,
         Witness(p), UNCHANGED <<active, refused>>
  PROVE  RaceInv'
<1>1. \A q \in Procs : \A t : Entering(q, t)' => Entering(q, t)
  BY CallReplaced DEF IInv, Entering
<1>2. raced \subseteq raced'
  BY DEF Witness
<1> QED BY <1>1, <1>2 DEF RaceInv, NeverRefused

LEMMA RaceStep == IInv /\ RaceInv /\ [Next]_vars => RaceInv'
<1> SUFFICES ASSUME IInv, RaceInv, [Next]_vars PROVE RaceInv'
  OBVIOUS
<1>1. CASE UNCHANGED vars
  BY <1>1 DEF vars, RaceInv, NeverRefused, Entering
<1>2. ASSUME NEW p \in Procs, Witness(p), Begin(p) \/ Continue(p) \/ Crash(p) PROVE RaceInv'
  <2>0. call[p] \in Call /\ Idle \in Call /\ Idle.verb # "entry" /\ raced \subseteq raced'
    BY <1>2, IdleIsCall, IdleIs DEF IInv, PathOK, Witness
  <2>1. ASSUME NEW t \in Theses, BeginEntry(p, t) PROVE RaceInv'
    <3> DEFINE c == [Idle EXCEPT !.verb = "entry", !.step = "assemble",
                                 !.thesis = t, !.number = EntryQty]
    <3>1. c \in Call /\ c.verb = "entry" /\ c.thesis = t
      <4>1. EntryQty \in Int
        BY PipelineAssumption
      <4> QED BY <4>1, IdleIsCall DEF Call, Verbs, Steps
    <3>2. call' = [call EXCEPT ![p] = c] /\ t \notin active /\ UNCHANGED <<active, refused>>
      BY <2>1 DEF BeginEntry, Start, book, aside
    <3> HIDE DEF c
    <3>3. \A q \in Procs : q # p => call'[q] = call[q]
      BY <3>1, <3>2, CallReplaced DEF IInv
    <3>4. \A x : Entering(p, x)' <=> x = t
      BY <3>1, <3>2, CallReplaced DEF IInv, Entering
    <3>5. \A q \in Procs : \A x : q # p => (Entering(q, x)' <=> Entering(q, x))
      BY <3>3 DEF Entering
    <3>6. \A q \in Procs : q # p /\ Entering(q, t) => t \in raced'
      BY <1>2, <3>4 DEF Witness
    <3> QED BY <2>0, <3>2, <3>4, <3>5, <3>6 DEF RaceInv, NeverRefused
  <2>2. CASE Activate(p)
    <3> DEFINE t == call[p].thesis
    <3>1. call' = [call EXCEPT ![p] = Idle] /\ active' = active \cup {t} /\ UNCHANGED refused
      BY <2>2 DEF Activate, Return, aside
    <3>2. t \in Theses /\ Entering(p, t)
      BY <2>2 DEF Activate, At, IInv, Carried, CarriedBy, Entering
    <3> HIDE DEF t
    <3>3. \A q \in Procs : \A x : Entering(q, x)' => q # p /\ Entering(q, x)
      BY <2>0, <3>1, CallReplaced DEF IInv, Entering
    <3> QED BY <2>0, <3>1, <3>2, <3>3 DEF RaceInv, NeverRefused
  <2>3. CASE ActivateRefuse(p)
    <3> DEFINE t == call[p].thesis
    <3>1. /\ call' = [call EXCEPT ![p] = Idle] /\ UNCHANGED active /\ t \in active
          /\ refused' = refused \cup {t}
      BY <2>3 DEF ActivateRefuse, Return, book
    <3>2. Entering(p, t)
      BY <2>3 DEF ActivateRefuse, At, IInv, Carried, CarriedBy, Entering
    <3> HIDE DEF t
    <3>3. \A q \in Procs : \A x : Entering(q, x)' => Entering(q, x)
      BY <2>0, <3>1, CallReplaced DEF IInv, Entering
    <3> QED BY <2>0, <3>1, <3>2, <3>3 DEF RaceInv, NeverRefused
  <2>4. CASE Halt(p) \/ Resume(p)
    BY <2>0, <2>4 DEF Halt, Resume, book, aside, RaceInv, NeverRefused, Entering
  <2>5. CASE \/ \E t \in Theses : BeginExit(p, t)
             \/ \E o \in OrderIds : Poll(p, "status", o) \/ Poll(p, "cancel", o)
             \/ BeginReconcile(p)
    <3>1. PICK c \in Call : /\ call' = [call EXCEPT ![p] = c] /\ c.verb # "entry"
                            /\ UNCHANGED <<active, refused>>
      <4>0. UNCHANGED <<active, refused>>
        BY <2>5 DEF BeginExit, Poll, BeginReconcile, book, aside
      <4>1. ASSUME NEW t \in Theses, BeginExit(p, t)
            PROVE  \E c \in Call : call' = [call EXCEPT ![p] = c] /\ c.verb # "entry"
        <5> DEFINE d == [Idle EXCEPT !.verb = "exit", !.step = "assemble",
                                     !.thesis = t, !.number = position]
        <5>1. call' = [call EXCEPT ![p] = d]
          BY <4>1 DEF BeginExit, Start
        <5>2. d \in Call /\ d.verb # "entry"
          <6>1. position \in Int
            BY DEF IInv, PathOK
          <6> QED BY <6>1, IdleIsCall DEF Call, Verbs, Steps
        <5> HIDE DEF d
        <5> QED BY <5>1, <5>2
      <4>2. ASSUME NEW o \in OrderIds, NEW verb \in {"status", "cancel"}, Poll(p, verb, o)
            PROVE  \E c \in Call : call' = [call EXCEPT ![p] = c] /\ c.verb # "entry"
        <5> DEFINE d == [Idle EXCEPT !.verb = verb, !.step = "poll", !.order = o]
        <5>1. call' = [call EXCEPT ![p] = d]
          BY <4>2 DEF Poll, Start
        <5>2. d \in Call /\ d.verb # "entry"
          BY IdleIsCall DEF Call, Verbs, Steps
        <5> HIDE DEF d
        <5> QED BY <5>1, <5>2
      <4>3. CASE BeginReconcile(p)
        <5> DEFINE d == [Idle EXCEPT !.verb = "reconcile", !.step = "compare",
                                     !.number = recorded]
        <5>1. call' = [call EXCEPT ![p] = d]
          BY <4>3 DEF BeginReconcile, Start
        <5>2. d \in Call /\ d.verb # "entry"
          <6>1. recorded \in Int
            BY DEF IInv, PathOK
          <6> QED BY <6>1, IdleIsCall DEF Call, Verbs, Steps
        <5> HIDE DEF d
        <5> QED BY <4>0, <5>1, <5>2
      <4>4. \E c \in Call : call' = [call EXCEPT ![p] = c] /\ c.verb # "entry"
        BY <2>5, <4>1, <4>2, <4>3
      <4> QED BY <4>0, <4>4
    <3> QED BY <1>2, <3>1, RaceGoesOn
  <2>6. CASE Continue(p) /\ ~Activate(p) /\ ~ActivateRefuse(p)
    <3>1. UNCHANGED <<active, refused>>
      BY <2>6 DEF Continue, Assemble, Allow, Deny, Verify, VerifyRefuse, NoQuote, Submit,
                  MarketFill, RecordFill, ActivateGuard, PollFilled, PollOpen,
                  PollTradesThrough, LimitFill, Cancel, ReconcileMatch, ReconcileMismatch,
                  ReconcileHalt, book, aside
    <3>2. PICK c \in Call :
            /\ call' = [call EXCEPT ![p] = c]
            /\ c.verb = "entry" => c.verb = call[p].verb /\ c.thesis = call[p].thesis
      <4>1. CASE Return(p)
        BY <2>0, <4>1 DEF Return
      <4>2. ASSUME NEW step \in Steps, Goto(p, step)
            PROVE  \E c \in Call : /\ call' = [call EXCEPT ![p] = c]
                                   /\ c.verb = call[p].verb /\ c.thesis = call[p].thesis
        <5> DEFINE d == [call[p] EXCEPT !.step = step]
        <5>1. call' = [call EXCEPT ![p] = d]
          BY <4>2 DEF Goto
        <5>2. d \in Call /\ d.verb = call[p].verb /\ d.thesis = call[p].thesis
          BY <2>0, StepChanges
        <5> HIDE DEF d
        <5> QED BY <5>1, <5>2
      <4>3. CASE Assemble(p)
        <5> DEFINE d == [call[p] EXCEPT !.step = "verdict", !.sawHalt = halted]
        <5>1. call' = [call EXCEPT ![p] = d]
          BY <4>3 DEF Assemble
        <5>2. d \in Call /\ d.verb = call[p].verb /\ d.thesis = call[p].thesis
          BY <2>0 DEF Call, Steps, IInv, PathOK
        <5> HIDE DEF d
        <5> QED BY <5>1, <5>2
      <4>4. ASSUME NEW o \in OrderIds, Submit(p, o)
            PROVE  \E c \in Call : /\ call' = [call EXCEPT ![p] = c]
                                   /\ c.verb = call[p].verb /\ c.thesis = call[p].thesis
        <5> DEFINE step == IF IsLimit(p) THEN "poll" ELSE "fill"
        <5>1. step \in Steps
          BY DEF Steps
        <5> DEFINE d == [call[p] EXCEPT !.order = o, !.step = step]
        <5>2. call' = [call EXCEPT ![p] = d]
          BY <4>4 DEF Submit
        <5> HIDE DEF step
        <5>3. d \in Call /\ d.verb = call[p].verb /\ d.thesis = call[p].thesis
          BY <2>0, <5>1 DEF Call
        <5> HIDE DEF d
        <5> QED BY <5>2, <5>3
      <4> QED BY <2>6, <4>1, <4>2, <4>3, <4>4
              DEF Continue, Allow, Deny, Verify, VerifyRefuse, NoQuote, MarketFill, ActivateGuard,
                  PollFilled, AfterFilled, PollOpen, AfterOpen, PollTradesThrough, LimitFill,
                  Cancel, ReconcileMatch, ReconcileMismatch, ReconcileHalt, Steps
    <3> QED BY <1>2, <3>1, <3>2, RaceGoesOn
  <2>7. CASE Crash(p)
    <3>1. call' = [call EXCEPT ![p] = Idle] /\ UNCHANGED <<active, refused>>
      BY <2>7 DEF Crash, Return, book
    <3> QED BY <1>2, <2>0, <3>1, RaceGoesOn
  <2> QED BY <1>2, <2>1, <2>2, <2>3, <2>4, <2>5, <2>6, <2>7 DEF Begin
<1> QED BY <1>1, <1>2 DEF Next, Run

(* However many processes race, die, halt and poll: a fill whose activation *)
(* is refused was bought by one of two processes executing its thesis at    *)
(* once.                                                                    *)
THEOREM NeverRefusedHolds == Spec => []NeverRefused
<1>1. Init => RaceInv
  <2>1. ASSUME Init PROVE \A p \in Procs : call[p].verb # "entry"
    BY <2>1, IdleIs DEF Init
  <2> QED BY <2>1 DEF Init, RaceInv, NeverRefused, Entering
<1>2. RaceInv => NeverRefused
  BY DEF RaceInv
<1> QED BY <1>1, <1>2, RaceStep, Invariance, PTL DEF Spec
=============================================================================
