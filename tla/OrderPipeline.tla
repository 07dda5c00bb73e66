---------------------------- MODULE OrderPipeline ----------------------------
(***************************************************************************)
(* The money path over one paper account: execute_order, execute_exit,     *)
(* order_status, cancel_order and reconcile (broker/_pipeline.py,          *)
(* broker/_paper.py, broker/_tokens.py) with halt and resume               *)
(* (policy/__init__.py), run by several processes over one ledger.  Every  *)
(* append is its own transaction and every read is a query of its own, so  *)
(* a step here is one append or one read that a later step relies on.      *)
(*                                                                         *)
(* PaperBroker keeps no state: positions, fills and the halt are folds of  *)
(* the log.  `position`, `fills` and `halted` carry those folds along.     *)
(* All theses are long and trade one symbol.  What the policy rules other  *)
(* than R-001 say, whether a closed bar exists and whether one trades      *)
(* through a resting limit are inputs.                                     *)
(***************************************************************************)
EXTENDS Integers, FiniteSets

CONSTANTS
  Theses,       \* approved theses of the account
  LimitTheses,  \* those whose entry is a limit order; the others buy at market
  Procs,        \* processes sharing the ledger file
  OrderIds,     \* bound: the ULIDs available, so the orders modelled
  EntryQty,     \* quantity an entry buys
  Withheld,     \* quantity the venue keeps of a filled buy as its fee
  MaxCrashes,   \* bound: process deaths modelled
  None          \* "no thesis" and "no order"

(* An order as submitted. *)
Order == [thesis : Theses, side : {"buy", "sell"}, limit : BOOLEAN, qty : Int]

ASSUME PipelineAssumption ==
  /\ LimitTheses \subseteq Theses
  /\ IsFiniteSet(Procs)
  /\ None \notin Theses /\ None \notin OrderIds /\ None \notin Order
  /\ EntryQty \in Nat /\ Withheld \in Nat /\ Withheld < EntryQty
  /\ MaxCrashes \in Nat

VARIABLES
  active,     \* theses with a ThesisActivated event; the others are approved
  orders,     \* [OrderIds -> Order or None], the OrderSubmitted events
  fills,      \* [OrderIds -> Nat], the FillRecorded events of each order
  recorded,   \* number of FillRecorded events
  position,   \* positions(): net quantity over all fills
  cancelled,  \* orders with an OrderCancelled event
  halted,     \* is_halted(): the last of HaltSet / HaltCleared was a HaltSet
  haltFills,  \* FillRecorded events since the standing HaltSet
  refused,    \* theses whose activation raised IllegalTransition after a fill
  superseded, \* processes whose token a later deny for its thesis outdates
  crashes,    \* process deaths so far
  call,       \* [Procs -> Call], where each process is
  overlap,    \* a step was taken while another process was inside a call
  raced       \* theses that two processes were executing at once

vars == <<active, orders, fills, recorded, position, cancelled, halted, haltFills,
          refused, superseded, crashes, call, overlap, raced>>

book == <<active, orders, fills, recorded, position, cancelled>>
control == <<halted, haltFills>>
aside == <<refused, superseded, crashes>>

Verbs == {"none", "entry", "exit", "status", "cancel", "reconcile"}

Steps == {"idle", "assemble", "verdict", "verify", "submit", "fill", "poll", "limitfill",
          "activate", "activating", "cancelling", "compare", "mismatch"}

(* `number` is the quantity an exit will sell, or the fills reconcile saw.  *)
Call == [verb : Verbs, step : Steps, thesis : Theses \cup {None},
         order : OrderIds \cup {None}, number : Int, sawHalt : BOOLEAN]

Idle == [verb |-> "none", step |-> "idle", thesis |-> None, order |-> None,
         number |-> 0, sawHalt |-> FALSE]

TypeOK == /\ active \subseteq Theses
          /\ orders \in [OrderIds -> Order \cup {None}]
          /\ fills \in [OrderIds -> Nat]
          /\ recorded \in Nat
          /\ position \in Int
          /\ cancelled \subseteq OrderIds
          /\ halted \in BOOLEAN
          /\ haltFills \in Nat
          /\ refused \subseteq Theses
          /\ superseded \subseteq Procs
          /\ crashes \in Nat
          /\ call \in [Procs -> Call]
          /\ overlap \in BOOLEAN
          /\ raced \subseteq Theses

Init == /\ active = {}
        /\ orders = [o \in OrderIds |-> None]
        /\ fills = [o \in OrderIds |-> 0]
        /\ recorded = 0
        /\ position = 0
        /\ cancelled = {}
        /\ halted = FALSE
        /\ haltFills = 0
        /\ refused = {}
        /\ superseded = {}
        /\ crashes = 0
        /\ call = [p \in Procs |-> Idle]
        /\ overlap = FALSE
        /\ raced = {}
-----------------------------------------------------------------------------
(* Helpers. *)

At(p, step) == call[p].step = step

Start(p, c) == call[p] = Idle /\ call' = [call EXCEPT ![p] = c]

Goto(p, step) == call' = [call EXCEPT ![p] = [@ EXCEPT !.step = step]]

Return(p) == call' = [call EXCEPT ![p] = Idle]

Placed == {o \in OrderIds : orders[o] # None}

(* The bound: a call that may place an order starts only while an id is     *)
(* left for it.                                                             *)
Ordering == {p \in Procs : call[p].verb \in {"entry", "exit"} /\ call[p].order = None}

Room == Cardinality(Placed) + Cardinality(Ordering) < Cardinality(OrderIds)

NetQty == EntryQty - Withheld

(* What a fill of order o adds to the position: a buy arrives net of the    *)
(* fee withheld in kind, a sell leaves gross.                               *)
Delta(o) == IF orders[o].side = "buy" THEN orders[o].qty - Withheld ELSE -orders[o].qty

(* FillRecorded for order o. *)
RecordFill(o) == /\ fills' = [fills EXCEPT ![o] = @ + 1]
                 /\ recorded' = recorded + 1
                 /\ position' = position + Delta(o)
                 /\ haltFills' = IF halted THEN haltFills + 1 ELSE haltFills
                 /\ UNCHANGED <<active, orders, cancelled, halted>>

(* What order_status's caller does with the answer. *)
AfterFilled(p) == IF call[p].verb = "entry" THEN Goto(p, "activate") ELSE Return(p)

(* Faulty: an accepted order activates. *)
AfterOpenActivates(p) == IF call[p].verb = "cancel" THEN Goto(p, "cancelling")
                         ELSE IF call[p].verb = "entry" THEN Goto(p, "activate") ELSE Return(p)

AfterOpen(p) == IF call[p].verb = "cancel" THEN Goto(p, "cancelling") ELSE Return(p)
-----------------------------------------------------------------------------
(* execute_order and execute_exit. *)

(* Faulty: any thesis may be executed again. *)
BeginEntryAnyState(p, t) ==
  /\ Room
  /\ Start(p, [Idle EXCEPT !.verb = "entry", !.step = "assemble",
                           !.thesis = t, !.number = EntryQty])
  /\ UNCHANGED <<book, control, aside>>

(* require_state(approved); the order is transcribed from the contract. *)
BeginEntry(p, t) == /\ Room
                    /\ t \notin active
                    /\ Start(p, [Idle EXCEPT !.verb = "entry", !.step = "assemble",
                                             !.thesis = t, !.number = EntryQty])
                    /\ UNCHANGED <<book, control, aside>>

(* require_state(active); the quantity is the account's position now.  A    *)
(* flat account raises ExitNothingToClose.                                  *)
BeginExit(p, t) == /\ Room
                   /\ t \in active
                   /\ position # 0
                   /\ Start(p, [Idle EXCEPT !.verb = "exit", !.step = "assemble",
                                            !.thesis = t, !.number = position])
                   /\ UNCHANGED <<book, control, aside>>

(* policy.evaluate reads its context first ... *)
Assemble(p) == /\ At(p, "assemble")
               /\ call' = [call EXCEPT ![p] = [@ EXCEPT !.step = "verdict", !.sawHalt = halted]]
               /\ UNCHANGED <<book, control, aside>>

(* ... and appends ActionProposed and VerdictIssued from it.  R-001 denies  *)
(* under a halt; the other rules may deny at any time.                      *)
Allow(p) == /\ At(p, "verdict")
            /\ ~call[p].sawHalt
            /\ Goto(p, "verify")
            /\ superseded' = superseded \ {p}
            /\ UNCHANGED <<book, control, refused, crashes>>

TokenHolders(t) == {q \in Procs : call[q].thesis = t /\ At(q, "verify")}

(* PipelineDenied.  The deny outdates each token minted for the thesis at a *)
(* strictly earlier clock reading; readings may also be equal.              *)
Deny(p) == /\ At(p, "verdict")
           /\ Return(p)
           /\ \E outdated \in SUBSET TokenHolders(call[p].thesis) :
                superseded' = superseded \cup outdated
           /\ UNCHANGED <<book, control, refused, crashes>>

(* verify_token: the halt first, then a newer deny.  The token itself was   *)
(* minted from this call's own verdict.                                     *)
TokenGood(p) == ~halted /\ p \notin superseded

Verify(p) == /\ At(p, "verify")
             /\ TokenGood(p)
             /\ Goto(p, "submit")
             /\ UNCHANGED <<book, control, aside>>

(* BrokerTokenRequired *)
VerifyRefuse(p) == /\ At(p, "verify")
                   /\ ~TokenGood(p)
                   /\ Return(p)
                   /\ UNCHANGED <<book, control, aside>>

IsLimit(p) == call[p].verb = "entry" /\ call[p].thesis \in LimitTheses

(* NoQuoteAvailable: a market order with no closed bar to price it. *)
NoQuote(p) == /\ At(p, "submit")
              /\ ~IsLimit(p)
              /\ Return(p)
              /\ UNCHANGED <<book, control, aside>>

(* OrderSubmitted and OrderAck (which nothing reads).  A market order is    *)
(* filled next, a limit order rests.                                        *)
Submit(p, o) ==
  /\ At(p, "submit")
  /\ orders[o] = None
  /\ orders' = [orders EXCEPT ![o] =
       [thesis |-> call[p].thesis, side |-> IF call[p].verb = "entry" THEN "buy" ELSE "sell",
        limit |-> IsLimit(p), qty |-> call[p].number]]
  /\ call' = [call EXCEPT ![p] = [@ EXCEPT !.order = o,
                                          !.step = IF IsLimit(p) THEN "poll" ELSE "fill"]]
  /\ UNCHANGED <<active, fills, recorded, position, cancelled, control, aside>>

(* The market fill.  An entry polls its order next; an exit is done. *)
MarketFill(p) == /\ At(p, "fill")
                 /\ RecordFill(call[p].order)
                 /\ IF call[p].verb = "entry" THEN Goto(p, "poll") ELSE Return(p)
                 /\ UNCHANGED aside

(* _activate_on_fill: its guard, then its append. *)
ActivateGuard(p) == /\ At(p, "activate")
                    /\ call[p].thesis \notin active
                    /\ Goto(p, "activating")
                    /\ UNCHANGED <<book, control, aside>>

ActivateRefuse(p) == /\ At(p, "activate")
                     /\ call[p].thesis \in active
                     /\ refused' = refused \cup {call[p].thesis}
                     /\ Return(p)
                     /\ UNCHANGED <<book, control, superseded, crashes>>

Activate(p) == /\ At(p, "activating")
               /\ active' = active \cup {call[p].thesis}
               /\ Return(p)
               /\ UNCHANGED <<orders, fills, recorded, position, cancelled, control, aside>>
-----------------------------------------------------------------------------
(* order_status, from the pipeline, from tk order status and from           *)
(* cancel_order alike.                                                      *)

Poll(p, verb, o) == /\ o \in Placed
                    /\ Start(p, [Idle EXCEPT !.verb = verb, !.step = "poll", !.order = o])
                    /\ UNCHANGED <<book, control, aside>>

PollFilled(p) == /\ At(p, "poll")
                 /\ fills[call[p].order] > 0
                 /\ AfterFilled(p)
                 /\ UNCHANGED <<book, control, aside>>

(* Faulty: a filled order may be reported open. *)
PollOpenAnyway(p) == /\ At(p, "poll")
                     /\ AfterOpen(p)
                     /\ UNCHANGED <<book, control, aside>>

(* No fill yet: a market order has nothing further to evaluate, a halt      *)
(* freezes the book, and a limit may not have traded through.               *)
PollOpen(p) == /\ At(p, "poll")
               /\ fills[call[p].order] = 0
               /\ AfterOpen(p)
               /\ UNCHANGED <<book, control, aside>>

(* Faulty: without the halt check, and without the check for a fill. *)
MayEvaluateHalted(o) == fills[o] = 0 /\ orders[o].limit

MayEvaluateFilled(o) == orders[o].limit /\ ~halted

MayEvaluate(o) == fills[o] = 0 /\ orders[o].limit /\ ~halted

PollTradesThrough(p) == /\ At(p, "poll")
                        /\ MayEvaluate(call[p].order)
                        /\ Goto(p, "limitfill")
                        /\ UNCHANGED <<book, control, aside>>

LimitFill(p) == /\ At(p, "limitfill")
                /\ RecordFill(call[p].order)
                /\ AfterFilled(p)
                /\ UNCHANGED aside

(* cancel_order found the order open. *)
Cancel(p) == /\ At(p, "cancelling")
             /\ cancelled' = cancelled \cup {call[p].order}
             /\ Return(p)
             /\ UNCHANGED <<active, orders, fills, recorded, position, control, aside>>
-----------------------------------------------------------------------------
(* halt, resume, reconcile. *)

SetHalt == /\ halted' = TRUE
           /\ haltFills' = IF halted THEN haltFills ELSE 0

Halt(p) == /\ call[p] = Idle
           /\ SetHalt
           /\ UNCHANGED <<book, aside, call>>

Resume(p) == /\ call[p] = Idle
             /\ halted' = FALSE
             /\ haltFills' = 0
             /\ UNCHANGED <<book, aside, call>>

(* reconcile reads the ledger's fills, then the adapter's: for a paper      *)
(* account the same events, read twice.  A fill recorded in between is an   *)
(* "unmatched broker fill".                                                 *)
BeginReconcile(p) == /\ Start(p, [Idle EXCEPT !.verb = "reconcile", !.step = "compare",
                                              !.number = recorded])
                     /\ UNCHANGED <<book, control, aside>>

ReconcileMatch(p) == /\ At(p, "compare")
                     /\ recorded = call[p].number
                     /\ Return(p)
                     /\ UNCHANGED <<book, control, aside>>

(* ReconciliationRun(mismatch), then HaltSet. *)
ReconcileMismatch(p) == /\ At(p, "compare")
                        /\ recorded # call[p].number
                        /\ Goto(p, "mismatch")
                        /\ UNCHANGED <<book, control, aside>>

ReconcileHalt(p) == /\ At(p, "mismatch")
                    /\ SetHalt
                    /\ Return(p)
                    /\ UNCHANGED <<book, aside>>

(* The process dies; what it appended stays. *)
Crash(p) == /\ call[p] # Idle
            /\ crashes < MaxCrashes
            /\ crashes' = crashes + 1
            /\ Return(p)
            /\ UNCHANGED <<book, control, refused, superseded>>
-----------------------------------------------------------------------------
(* What a process does next in the call it is in. *)
Continue(p) == \/ Assemble(p)
               \/ Allow(p)
               \/ Deny(p)
               \/ Verify(p)
               \/ VerifyRefuse(p)
               \/ NoQuote(p)
               \/ \E o \in OrderIds : Submit(p, o)
               \/ MarketFill(p)
               \/ ActivateGuard(p)
               \/ ActivateRefuse(p)
               \/ Activate(p)
               \/ PollFilled(p)
               \/ PollOpen(p)
               \/ PollTradesThrough(p)
               \/ LimitFill(p)
               \/ Cancel(p)
               \/ ReconcileMatch(p)
               \/ ReconcileMismatch(p)
               \/ ReconcileHalt(p)

Begin(p) == \/ \E t \in Theses : BeginEntry(p, t)
            \/ \E t \in Theses : BeginExit(p, t)
            \/ \E o \in OrderIds : Poll(p, "status", o)
            \/ \E o \in OrderIds : Poll(p, "cancel", o)
            \/ BeginReconcile(p)
            \/ Halt(p)
            \/ Resume(p)

Entering(p, t) == call[p].verb = "entry" /\ call[p].thesis = t

(* What a step of p tells of the interleaving; the code keeps none of it.   *)
Witness(p) ==
  /\ overlap' = (overlap \/ \E q \in Procs \ {p} : call[q] # Idle)
  /\ raced' = raced \cup
       {t \in Theses : Entering(p, t)' /\ \E q \in Procs \ {p} : Entering(q, t)}

Run(p) == Continue(p) /\ Witness(p)

Next == \E p \in Procs : Run(p) \/ (Begin(p) /\ Witness(p)) \/ (Crash(p) /\ Witness(p))

Spec == Init /\ [][Next]_vars

(* A process that runs keeps running its call to the end. *)
FairSpec == Spec /\ \A p \in Procs : WF_vars(Run(p))
-----------------------------------------------------------------------------
(* Properties of any number of processes. *)

(* A halt lets through what was past its last halt check when it was set    *)
(* and nothing else: one fill for each process but the one that set it,     *)
(* never one more for the limits resting in the book.                       *)
HaltBounded == halted => haltFills < Cardinality(Procs)

Bought(t) == \E o \in Placed : orders[o].thesis = t /\ orders[o].side = "buy" /\ fills[o] > 0

(* A thesis is active only behind a fill of an entry of its own, even when  *)
(* its activation raced another one or its order was polled by another      *)
(* process.                                                                 *)
ActiveIsBought == \A t \in active : Bought(t)

(* Unless a process dies, a market entry that was filled makes its thesis   *)
(* active, even when two processes race to execute it or a halt falls       *)
(* between the fill and the activation.                                     *)
MarketActivates == \A t \in Theses \ LimitTheses : Bought(t) ~> t \in active \/ crashes > 0

(* The same for every entry, as the lifecycle diagram has it: approved      *)
(* --activate(fill)--> active.                                              *)
FilledActivates == \A t \in Theses : Bought(t) ~> t \in active

(* The IllegalTransition after a fill, which leaves the fill without an     *)
(* activation of its own, takes two processes inside execute_order for the  *)
(* same thesis at once: no sequence of calls, deaths, polls, halts or       *)
(* entries of other theses comes to it.                                     *)
NeverRefused == refused \subseteq raced

(* What the money path promises its callers, the single-threaded MVP: as    *)
(* long as calls come one after the other, of whatever process, order_status, *)
(* submit and cancel_order between them fill an order once across crashes,  *)
(* re-polls and halts; exits sell the position down to zero and never       *)
(* through it with other theses' orders resting on the same symbol.         *)
Money == INSTANCE MoneyContract
           WITH filled <- {o \in OrderIds : fills[o] > 0},
                bought <- {t \in Theses : Bought(t)},
                holdings <- position

ImplementsMoney == Money!MInit /\ [][~overlap' => Money!MNext]_(Money!mvars)
=============================================================================
