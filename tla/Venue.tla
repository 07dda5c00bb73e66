-------------------------------- MODULE Venue --------------------------------
(***************************************************************************)
(* One account at Alpaca, alpaca-paper: or live:, shared by several        *)
(* processes: the adapter's submit, order_status and fills                 *)
(* (broker/_alpaca.py), the routing that refuses a live account            *)
(* (broker/__init__.py), reconcile (broker/_pipeline.py) and halt and      *)
(* resume (policy/__init__.py).                                            *)
(*                                                                         *)
(* The venue is the truth: it may take an order whose answer never         *)
(* arrives, execute it in one trade or in two, or end it, and it lists its *)
(* trades a page at a time.  What any request answers besides - no         *)
(* credentials, a 4xx, a 5xx, a malformed body, no connection - raises     *)
(* with nothing appended: `Unavailable`.                                   *)
(* What policy.evaluate says besides R-001 is OrderPipeline's.             *)
(***************************************************************************)
EXTENDS Naturals, FiniteSets

CONSTANTS
  Theses,     \* theses of the account
  OrderIds,   \* bound: the order ids the venue hands out
  Callers,    \* processes sharing the ledger file
  Page,       \* trades on a page of the venue's list
  MaxDeaths,  \* bound: process deaths
  MaxHalts,   \* bound: halts set by hand
  None

VARIABLES
  live,      \* the account is a live: one
  enabled,   \* live_trading_enabled and both live keys, as they are now
  book,      \* the venue's orders: [state, trades], or None
  submitted, \* the OrderSubmitted events: an order and its thesis
  fills,     \* the FillRecorded events of each order
  active,    \* theses with a ThesisActivated event; the others are approved
  halted,    \* the last of HaltSet and HaltCleared is a HaltSet
  lastLive,  \* live_path of the last HaltSet there is
  call,      \* where each process is
  deaths, halts,
  raced,     \* orders two processes were about to record a fill of
  seen,      \* orders on the page a reconcile that completed was shown
  flagged,   \* orders a reconcile named in its HaltSet
  owed,      \* a live-path halt was set and no manual confirmation came since
  slipped    \* ... and a plain halt was set over it, or a resume was under way

vars == <<live, enabled, book, submitted, fills, active, halted, lastLive, call, deaths, halts,
          raced, seen, flagged, owed, slipped>>

ledger == <<submitted, fills, active, raced>>
halting == <<halted, lastLive, halts, owed, slipped>>
checks == <<seen, flagged>>

Idle == [step |-> "idle", thesis |-> None, order |-> None, orders |-> {}, shown |-> {},
         confirm |-> FALSE]

Init ==
  /\ live \in BOOLEAN /\ enabled \in BOOLEAN
  /\ book = [o \in OrderIds |-> None]
  /\ submitted = {} /\ fills = [o \in OrderIds |-> 0] /\ active = {}
  /\ halted = FALSE /\ lastLive = FALSE
  /\ call = [p \in Callers |-> Idle]
  /\ deaths = 0 /\ halts = 0 /\ raced = {} /\ seen = {} /\ flagged = {}
  /\ owed = FALSE /\ slipped = FALSE

-----------------------------------------------------------------------------
At(p, step) == call[p].step = step

Goto(p, step) == call' = [call EXCEPT ![p].step = step]

Return(p) == call' = [call EXCEPT ![p] = Idle]

Executed == {o \in OrderIds : book[o] # None /\ book[o].trades > 0}

(* get(): a live: account without the dial and the keys is                 *)
(* LiveTradingDisabled, and no adapter exists.                             *)
Get == live => enabled

Start(p, c) == call[p] = Idle /\ Get /\ call' = [call EXCEPT ![p] = c]

(* The dial is turned off, or the keys withdrawn, under the processes.     *)
Configure ==
  /\ live /\ enabled /\ enabled' = FALSE
  /\ UNCHANGED <<live, book, ledger, halting, checks, call, deaths>>

-----------------------------------------------------------------------------
(* execute_order of an approved thesis, its allow-verdict in hand.         *)
Execute(p, t) ==
  /\ ~halted /\ t \notin active
  /\ Start(p, [Idle EXCEPT !.step = "verify", !.thesis = t])
  /\ UNCHANGED <<live, enabled, book, ledger, halting, checks, deaths>>

(* submit verifies the token first, then asks for the credentials.         *)
Verify(p) ==
  /\ At(p, "verify")
  /\ IF halted THEN Return(p) ELSE Goto(p, "post")
  /\ UNCHANGED <<live, enabled, book, ledger, halting, checks, deaths>>

(* The venue takes the order.  Its answer is read, and checked, before     *)
(* anything is appended; when it is lost, or cannot be read, nothing is.   *)
Post(p, o, answered) ==
  /\ At(p, "post") /\ book[o] = None
  /\ book' = [book EXCEPT ![o] = [state |-> "open", trades |-> 0]]
  /\ IF answered THEN call' = [call EXCEPT ![p].step = "submitted", ![p].order = o]
                 ELSE Return(p)
  /\ UNCHANGED <<live, enabled, ledger, halting, checks, deaths>>

OrderSubmitted(p) ==
  /\ At(p, "submitted")
  /\ submitted' = submitted \union {<<call[p].order, call[p].thesis>>}
  /\ Goto(p, "ack")
  /\ UNCHANGED <<live, enabled, book, fills, active, raced, halting, checks, deaths>>

(* OrderAck, which nothing reads; execute_order polls the order once.      *)
OrderAck(p) ==
  /\ At(p, "ack") /\ Goto(p, "status")
  /\ UNCHANGED <<live, enabled, book, ledger, halting, checks, deaths>>

(* tk order status, of any order id: the venue may know an order the       *)
(* ledger has not heard of, or none of that id.                            *)
Status(p, o) ==
  /\ Start(p, [Idle EXCEPT !.step = "status", !.order = o])
  /\ UNCHANGED <<live, enabled, book, ledger, halting, checks, deaths>>

(* The map reads a partial fill as open, a 404 as rejected.  Only a filled *)
(* order goes on.                                                          *)
Filled(o) == book[o] # None /\ book[o].state = "filled"

Answer(p) ==
  /\ At(p, "status")
  /\ IF Filled(call[p].order) THEN Goto(p, "existing") ELSE Return(p)
  /\ UNCHANGED <<live, enabled, book, ledger, halting, checks, deaths>>

(* Faulty: the first observed fill is not told from a later one.           *)
NeverRecorded(o) == TRUE

Unrecorded(o) == fills[o] = 0

(* _existing_fill, a query of its own before the append.                   *)
Existing(p) ==
  /\ At(p, "existing")
  /\ Goto(p, IF Unrecorded(call[p].order) THEN "record" ELSE "activate")
  /\ raced' = IF \E q \in Callers \ {p} : At(q, "record") /\ call[q].order = call[p].order
              THEN raced \union {call[p].order} ELSE raced
  /\ UNCHANGED <<live, enabled, book, submitted, fills, active, halting, checks, deaths>>

(* One FillRecorded for the whole order: its filled_qty, at its filled_at, *)
(* and the thesis of its OrderSubmitted, if there is one.                  *)
FillRecorded(p) ==
  /\ At(p, "record")
  /\ fills' = [fills EXCEPT ![call[p].order] = @ + 1]
  /\ Goto(p, "activate")
  /\ UNCHANGED <<live, enabled, book, submitted, active, raced, halting, checks, deaths>>

(* Only execute_order activates, and only from approved.                   *)
Activate(p) ==
  /\ At(p, "activate")
  /\ active' = active \union ({call[p].thesis} \ {None})
  /\ Return(p)
  /\ UNCHANGED <<live, enabled, book, submitted, fills, raced, halting, checks, deaths>>

(* A request that is not answered, or is refused, raises to the caller.    *)
Unavailable(p) ==
  /\ call[p].step \in {"post", "status", "venue"} /\ Return(p)
  /\ UNCHANGED <<live, enabled, book, ledger, halting, checks, deaths>>

-----------------------------------------------------------------------------
(* The venue executes an open order, in one trade or in two, or ends it.   *)
Trade(o, whole) ==
  /\ book[o] # None /\ book[o].state = "open"
  /\ whole \/ book[o].trades = 0
  /\ book' = [book EXCEPT ![o] = [state |-> IF whole THEN "filled" ELSE "open",
                                  trades |-> @.trades + 1]]
  /\ UNCHANGED <<live, enabled, ledger, halting, checks, call, deaths>>

End(o) ==
  /\ book[o] # None /\ book[o].state = "open"
  /\ book' = [book EXCEPT ![o].state = "ended"]
  /\ UNCHANGED <<live, enabled, ledger, halting, checks, call, deaths>>

-----------------------------------------------------------------------------
(* HaltSet. *)
Resuming == \E p \in Callers : call[p].step \in {"halts", "clear"}

SetHalt(path) ==
  /\ halted' = TRUE /\ lastLive' = path
  /\ owed' = (owed \/ path)
  /\ slipped' = (slipped \/ (path /\ Resuming) \/ (~path /\ owed))

(* policy.halt: never on the live path. *)
Halt ==
  /\ halts < MaxHalts /\ halts' = halts + 1
  /\ SetHalt(FALSE)
  /\ UNCHANGED <<live, enabled, book, ledger, checks, call, deaths>>

(* reconcile reads the ledger's fills, then one page of the venue's        *)
(* trades, whichever those are.  A ledger fill is matched by one trade of  *)
(* its order, its quantity and its time, so one of an order executed in    *)
(* two trades by none; what it misses on the page it takes for a phantom.  *)
Reconcile(p) ==
  /\ Start(p, [Idle EXCEPT !.step = "venue", !.orders = {o \in OrderIds : fills[o] > 0}])
  /\ UNCHANGED <<live, enabled, book, ledger, halting, checks, deaths>>

Trades == {t \in OrderIds \X {1, 2} : book[t[1]] # None /\ t[2] <= book[t[1]].trades}

Pages == {page \in SUBSET Trades : Cardinality(page) <= Page /\ (Cardinality(page) < Page => page = Trades)}

On(page) == {trade[1] : trade \in page}

(* Faulty: only what the ledger holds is looked for at the venue.          *)
PhantomsOnly(recorded, page) == {o \in recorded : o \notin On(page) \/ book[o].trades # 1}

Mismatches(recorded, page) ==
  {o \in recorded \union On(page) : o \notin recorded \/ o \notin On(page) \/ book[o].trades # 1}

Compare(p, page) ==
  /\ At(p, "venue")
  /\ LET wrong == Mismatches(call[p].orders, page) IN
       IF wrong = {}
       THEN /\ Return(p) /\ seen' = seen \union On(page)
       ELSE /\ call' = [call EXCEPT ![p].step = "mismatch", ![p].orders = wrong, ![p].shown = On(page)]
            /\ UNCHANGED seen
  /\ UNCHANGED <<live, enabled, book, ledger, halting, flagged, deaths>>

(* ReconciliationRun(mismatch) is appended; HaltSet is the next append.    *)
Mismatch(p) ==
  /\ At(p, "mismatch") /\ SetHalt(live) /\ Return(p)
  /\ seen' = seen \union call[p].shown
  /\ flagged' = flagged \union call[p].orders
  /\ UNCHANGED <<live, enabled, book, ledger, halts, deaths>>

-----------------------------------------------------------------------------
(* resume: the halt, then the HaltSets, then HaltCleared.  It touches no   *)
(* adapter, so it needs neither the dial nor the keys.                     *)
Resume(p, confirm) ==
  /\ call[p] = Idle
  /\ call' = [call EXCEPT ![p] = [Idle EXCEPT !.step = IF halted /\ ~confirm THEN "halts" ELSE "clear",
                                              !.confirm = confirm]]
  /\ UNCHANGED <<live, enabled, book, ledger, halting, checks, deaths>>

(* Faulty: a live-path halt is resumed like any other.                     *)
AnyHalt == FALSE

NeedsConfirmation == lastLive

(* LiveHaltRequiresManualConfirm *)
LastHalt(p) ==
  /\ At(p, "halts")
  /\ IF NeedsConfirmation THEN Return(p) ELSE Goto(p, "clear")
  /\ UNCHANGED <<live, enabled, book, ledger, halting, checks, deaths>>

HaltCleared(p) ==
  /\ At(p, "clear") /\ halted' = FALSE
  /\ owed' = (owed /\ ~call[p].confirm)
  /\ slipped' = (slipped /\ ~call[p].confirm)
  /\ Return(p)
  /\ UNCHANGED <<live, enabled, book, ledger, checks, lastLive, halts, deaths>>

(* The process dies; what it appended, and what it sent, stays.            *)
Die(p) ==
  /\ call[p] # Idle /\ deaths < MaxDeaths
  /\ deaths' = deaths + 1 /\ Return(p)
  /\ UNCHANGED <<live, enabled, book, ledger, halting, checks>>

Next ==
  \/ Configure \/ Halt
  \/ \E p \in Callers :
       \/ \E t \in Theses : Execute(p, t)
       \/ Verify(p)
       \/ \E o \in OrderIds, answered \in BOOLEAN : Post(p, o, answered)
       \/ OrderSubmitted(p) \/ OrderAck(p)
       \/ \E o \in OrderIds : Status(p, o)
       \/ Answer(p) \/ Existing(p) \/ FillRecorded(p) \/ Activate(p) \/ Unavailable(p)
       \/ Reconcile(p) \/ (\E page \in Pages : Compare(p, page)) \/ Mismatch(p)
       \/ \E confirm \in BOOLEAN : Resume(p, confirm)
       \/ LastHalt(p) \/ HaltCleared(p) \/ Die(p)
  \/ \E o \in OrderIds : (\E whole \in BOOLEAN : Trade(o, whole)) \/ End(o)

Spec == Init /\ [][Next]_vars

-----------------------------------------------------------------------------
Order == [state : {"open", "filled", "ended"}, trades : 0 .. 2]

Steps == {"idle", "verify", "post", "submitted", "ack", "status", "existing", "record", "activate",
          "venue", "mismatch", "halts", "clear"}

Calls == [step : Steps, thesis : Theses \union {None}, order : OrderIds \union {None},
          orders : SUBSET OrderIds, shown : SUBSET OrderIds, confirm : BOOLEAN]

TypeOK ==
  /\ live \in BOOLEAN /\ enabled \in BOOLEAN /\ halted \in BOOLEAN /\ lastLive \in BOOLEAN
  /\ owed \in BOOLEAN /\ slipped \in BOOLEAN
  /\ book \in [OrderIds -> Order \union {None}] /\ fills \in [OrderIds -> Nat]
  /\ submitted \subseteq OrderIds \X Theses
  /\ active \subseteq Theses /\ seen \subseteq OrderIds /\ flagged \subseteq OrderIds
  /\ raced \subseteq OrderIds /\ call \in [Callers -> Calls]

(* What VenueReconciled rests on.  An order is filled by a trade, and has   *)
(* at most one while it is open or ended.                                   *)
BookSound == \A o \in OrderIds : book[o] # None =>
  IF book[o].state = "filled" THEN book[o].trades > 0 ELSE book[o].trades < 2

(* An order is submitted for a thesis; past the answer the order a call     *)
(* follows is filled, and before the activation its fill is recorded.       *)
OrderCarried(c) ==
  /\ c.step \in {"verify", "post", "submitted"} => c.thesis \in Theses
  /\ c.step \in {"submitted", "ack", "status", "existing", "record", "activate"} => c.order \in OrderIds
  /\ c.step \in {"ack", "status", "existing", "record", "activate"} /\ c.thesis # None =>
       <<c.order, c.thesis>> \in submitted
  /\ c.step \in {"existing", "record", "activate"} => Filled(c.order)
  /\ c.step = "activate" => fills[c.order] > 0

(* The fills a reconcile read are still there; what it found to be wrong is *)
(* the rest of what it was shown.                                           *)
ReconcileCarried(c) ==
  /\ c.step = "venue" => \A o \in c.orders : fills[o] > 0
  /\ c.step = "mismatch" => \A o \in c.shown : fills[o] > 0 \/ o \in c.orders

(* A resume that is about to clear has a confirmation, or nothing is owed   *)
(* but by the known gaps.                                                   *)
ResumeCarried(c) == c.step = "clear" /\ ~c.confirm /\ owed => slipped

Carried == \A p \in Callers :
  OrderCarried(call[p]) /\ ReconcileCarried(call[p]) /\ ResumeCarried(call[p])

(* Two calls about to record one order, or one about to record it again.    *)
RacesKnown == \A p \in Callers : At(p, "record") =>
  /\ fills[call[p].order] > 0 => call[p].order \in raced
  /\ \A q \in Callers \ {p} :
       At(q, "record") /\ call[q].order = call[p].order => call[p].order \in raced

LiveHaltIsLast == owed /\ ~slipped => lastLive

(* A trade on the page that a reconcile which completes was shown is in    *)
(* the ledger or named by a halt, those of orders whose answer was lost    *)
(* included; the ledger's claim of a fill is of an order the venue filled, *)
(* and is made once unless two polls of the same order passed each other;  *)
(* an active thesis has a fill of an order submitted for it; and a live    *)
(* account's halt is standing until a person confirms, unless a plain halt *)
(* was set over it or a resume had already looked.                         *)
VenueReconciled ==
  /\ \A o \in seen : fills[o] > 0 \/ o \in flagged
  /\ \A o \in OrderIds : (fills[o] > 0 => Filled(o)) /\ (fills[o] > 1 => o \in raced)
  /\ \A t \in active : \E o \in OrderIds : <<o, t>> \in submitted /\ fills[o] > 0
  /\ owed /\ ~slipped => halted

IInv == TypeOK /\ BookSound /\ Carried /\ RacesKnown /\ LiveHaltIsLast /\ VenueReconciled
=============================================================================
