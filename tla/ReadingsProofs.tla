--------------------------- MODULE ReadingsProofs ---------------------------
(***************************************************************************)
(* Theorems about the components of MCReadings: an account at a venue, the *)
(* bars and the regime an analysis reads, and the verdicts of the rules,   *)
(* for any theses, processes, clocks, sizes and histories.                 *)
(***************************************************************************)
EXTENDS MCReadings, Sequences, FiniteSetTheorems, NaturalsInduction, WellFoundedInduction, TLAPS

-----------------------------------------------------------------------------
(* The venue.  v2 is enabled, v3 the book, v4 submitted, v5 the fills,      *)
(* v6 active, v7 halted, v8 lastLive, v9 the calls, v12 raced, v13 seen,    *)
(* v14 flagged, v15 owed and v16 slipped.                                   *)

(* What a step never takes back: an order filled, its fills and records.    *)
Forward(size) ==
  /\ \A o \in size.orders :
       /\ Venue(size)!Filled(o) => Venue(size)!Filled(o)'
       /\ v5[o] > 0 => v5'[o] > 0
  /\ v4 \subseteq v4'

(* ... and nothing is newly owed, or whoever is about to clear slipped.     *)
Owing(size) ==
  \/ (v15' => v15) /\ (v15' /\ v16 => v16')
  \/ (Venue(size)!Resuming /\ v15' => v16')

(* What a call carries, and that its step leaves the shared state alone,    *)
(* but for a thesis activated on a fill of its order.                       *)
CallSound(size, c) ==
  /\ c \in Venue(size)!Calls /\ Venue(size)!OrderCarried(c)
  /\ Venue(size)!ReconcileCarried(c) /\ Venue(size)!ResumeCarried(c)

Steady(size) ==
  /\ v1' \in BOOLEAN /\ v2' \in BOOLEAN /\ v6' \subseteq size.theses
  /\ \A t \in v6' : t \in v6 \/ \E o \in size.orders : <<o, t>> \in v4 /\ v5[o] > 0
  /\ UNCHANGED <<v3, v4, v5, v7, v8, v12, v13, v14, v15, v16>>

LEMMA MissingIsNoOrder ==
  ASSUME NEW CONSTANT size
  PROVE  None \notin Venue(size)!Order
BY ReadingsAssumption DEF Venue!Order

(* A call is replaced by another, or keeps all but its step.                *)
LEMMA CallReplaced ==
  ASSUME NEW CONSTANT size, Venue(size)!TypeOK, NEW p \in size.callers,
         NEW c \in Venue(size)!Calls, v9' = [v9 EXCEPT ![p] = c]
  PROVE  /\ v9' \in [size.callers -> Venue(size)!Calls]
         /\ v9'[p] = c /\ \A q \in size.callers : q # p => v9'[q] = v9[q]
BY DEF Venue!TypeOK

LEMMA CallGoes ==
  ASSUME NEW CONSTANT size, Venue(size)!TypeOK, NEW p \in size.callers,
         NEW step \in Venue(size)!Steps, Venue(size)!Goto(p, step)
  PROVE  \E c \in Venue(size)!Calls :
           c = [v9[p] EXCEPT !.step = step] /\ v9' = [v9 EXCEPT ![p] = c]
<1>1. v9 \in [size.callers -> Venue(size)!Calls]
  BY DEF Venue!TypeOK
<1>2. [v9[p] EXCEPT !.step = step] \in Venue(size)!Calls
  BY <1>1 DEF Venue!Calls
<1>3. v9' = [v9 EXCEPT ![p] = [v9[p] EXCEPT !.step = step]]
  BY <1>1 DEF Venue!Goto
<1> QED BY <1>2, <1>3

LEMMA IdleIsSound ==
  ASSUME NEW CONSTANT size
  PROVE  CallSound(size, Venue(size)!Idle) /\ Venue(size)!Idle.step = "idle"
BY DEF CallSound, Venue!Idle, Venue!Calls, Venue!Steps, Venue!OrderCarried,
       Venue!ReconcileCarried, Venue!ResumeCarried

(* Nothing that goes forward takes from a call what it carries.             *)
LEMMA CarriedOn ==
  ASSUME NEW CONSTANT size, Venue(size)!TypeOK, Venue(size)!Carried, Forward(size), Owing(size),
         \A q \in size.callers :
           v9'[q] = v9[q] \/ /\ Venue(size)!OrderCarried(v9[q])'
                             /\ Venue(size)!ReconcileCarried(v9[q])'
                             /\ Venue(size)!ResumeCarried(v9[q])'
  PROVE  Venue(size)!Carried'
<1>1. ASSUME NEW q \in size.callers, v9'[q] = v9[q]
      PROVE  /\ Venue(size)!OrderCarried(v9[q])'
             /\ Venue(size)!ReconcileCarried(v9[q])'
             /\ Venue(size)!ResumeCarried(v9[q])'
  <2>1. /\ Venue(size)!OrderCarried(v9[q]) /\ Venue(size)!ReconcileCarried(v9[q])
        /\ Venue(size)!ResumeCarried(v9[q]) /\ v9[q] \in Venue(size)!Calls
    BY DEF Venue!Carried, Venue!TypeOK
  <2>3. Venue(size)!OrderCarried(v9[q])'
    <3>1. (v9[q])' = v9[q]
      BY <1>1
    <3>2. v9[q].step \in {"existing", "record", "activate"} => Venue(size)!Filled(v9[q].order)'
      BY <2>1, <3>1 DEF Venue!OrderCarried, Forward, Venue!Filled
    <3> QED BY <2>1, <3>1, <3>2 DEF Venue!OrderCarried, Forward
  <2>5. Venue(size)!ReconcileCarried(v9[q])'
    BY <1>1, <2>1 DEF Venue!ReconcileCarried, Venue!Calls, Forward
  <2>6. Venue(size)!ResumeCarried(v9[q])'
    BY <1>1, <2>1 DEF Owing, Venue!Resuming, Venue!ResumeCarried
  <2> QED BY <2>3, <2>5, <2>6
<1> QED BY <1>1 DEF Venue!Carried

(* A call that is not about to record a fill knows of no race.              *)
LEMMA RacesKept ==
  ASSUME NEW CONSTANT size, Venue(size)!RacesKnown, v5' = v5, v12 \subseteq v12',
         \A q \in size.callers : v9'[q] = v9[q] \/ v9'[q].step # "record"
  PROVE  Venue(size)!RacesKnown'
BY DEF Venue!RacesKnown, Venue!At

(* One call goes on, and nothing else that is shared changes.               *)
LEMMA Moved ==
  ASSUME NEW CONSTANT size, Venue(size)!IInv, NEW p \in size.callers, NEW c,
         CallSound(size, c), c.step # "record", v9' = [v9 EXCEPT ![p] = c], Steady(size)
  PROVE  Venue(size)!IInv'
<1>0. Venue(size)!TypeOK /\ Venue(size)!Carried /\ Venue(size)!RacesKnown
  BY DEF Venue!IInv
<1>1. /\ v9' \in [size.callers -> Venue(size)!Calls]
      /\ v9'[p] = c /\ \A q \in size.callers : q # p => v9'[q] = v9[q]
  BY <1>0, CallReplaced DEF CallSound
<1>2. Venue(size)!TypeOK'
  BY <1>0, <1>1 DEF Venue!TypeOK, Steady
<1>3. Venue(size)!Carried'
  <2>1. /\ Venue(size)!OrderCarried(v9[p])' /\ Venue(size)!ReconcileCarried(v9[p])'
        /\ Venue(size)!ResumeCarried(v9[p])'
    BY <1>1 DEF CallSound, Steady, Venue!OrderCarried, Venue!ReconcileCarried, Venue!ResumeCarried,
                Venue!Filled
  <2>2. Forward(size) /\ Owing(size)
    BY DEF Steady, Forward, Owing, Venue!Filled
  <2>3. \A q \in size.callers :
           v9'[q] = v9[q] \/ /\ Venue(size)!OrderCarried(v9[q])'
                             /\ Venue(size)!ReconcileCarried(v9[q])'
                             /\ Venue(size)!ResumeCarried(v9[q])'
    BY <1>1, <2>1
  <2> QED BY <1>0, <2>2, <2>3, CarriedOn
<1>4. Venue(size)!RacesKnown'
  BY <1>0, <1>1, RacesKept DEF Steady
<1>5. (Venue(size)!BookSound /\ Venue(size)!LiveHaltIsLast /\ Venue(size)!VenueReconciled)'
  BY DEF Venue!IInv, Steady, Venue!BookSound, Venue!LiveHaltIsLast, Venue!VenueReconciled, Venue!Filled
<1> QED BY <1>2, <1>3, <1>4, <1>5 DEF Venue!IInv

LEMMA Returned ==
  ASSUME NEW CONSTANT size, Venue(size)!IInv, NEW p \in size.callers, Venue(size)!Return(p),
         Steady(size)
  PROVE  Venue(size)!IInv'
<1>1. v9' = [v9 EXCEPT ![p] = Venue(size)!Idle]
  BY DEF Venue!Return
<1> QED BY <1>1, IdleIsSound, Moved

(* The steps of an order's calls that change nothing else.                  *)
LEMMA OrderCallsMove ==
  ASSUME NEW CONSTANT size, Venue(size)!IInv, NEW p \in size.callers,
         \/ \E t \in size.theses : Venue(size)!Execute(p, t)
         \/ Venue(size)!Verify(p) \/ Venue(size)!OrderAck(p)
         \/ \E o \in size.orders : Venue(size)!Status(p, o)
         \/ Venue(size)!Answer(p) \/ Venue(size)!Activate(p) \/ Venue(size)!Unavailable(p)
         \/ Venue(size)!Die(p)
  PROVE  Venue(size)!IInv'
<1>0. /\ Venue(size)!TypeOK /\ v9[p] \in Venue(size)!Calls
      /\ v9[p].step # "clear" => Venue(size)!ResumeCarried(v9[p])
      /\ Venue(size)!OrderCarried(v9[p])
  BY DEF Venue!IInv, Venue!TypeOK, Venue!Carried
<1>1. ASSUME NEW t \in size.theses, Venue(size)!Execute(p, t) PROVE Venue(size)!IInv'
  <2>1. PICK c : c = [Venue(size)!Idle EXCEPT !.step = "verify", !.thesis = t]
    OBVIOUS
  <2>2. CallSound(size, c) /\ c.step # "record"
    BY <2>1, MissingIsNoOrder DEF CallSound, Venue!Idle, Venue!Calls, Venue!Steps,
                Venue!OrderCarried, Venue!ReconcileCarried, Venue!ResumeCarried
  <2>3. v9' = [v9 EXCEPT ![p] = c] /\ Steady(size)
    BY <1>0, <1>1, <2>1 DEF Venue!Execute, Venue!Start, Steady, Venue!TypeOK, Venue!ledger,
                            Venue!halting, Venue!checks
  <2> QED BY <2>2, <2>3, Moved
<1>2. ASSUME NEW o \in size.orders, Venue(size)!Status(p, o) PROVE Venue(size)!IInv'
  <2>1. PICK c : c = [Venue(size)!Idle EXCEPT !.step = "status", !.order = o]
    OBVIOUS
  <2>2. CallSound(size, c) /\ c.step # "record"
    BY <1>2, <2>1 DEF CallSound, Venue!Idle, Venue!Calls, Venue!Steps, Venue!OrderCarried,
                      Venue!ReconcileCarried, Venue!ResumeCarried, Venue!Status
  <2>3. v9' = [v9 EXCEPT ![p] = c] /\ Steady(size)
    BY <1>0, <1>2, <2>1 DEF Venue!Status, Venue!Start, Steady, Venue!TypeOK, Venue!ledger,
                            Venue!halting, Venue!checks
  <2> QED BY <2>2, <2>3, Moved
<1>3. ASSUME NEW step \in {"post", "status", "existing"}, Venue(size)!Goto(p, step),
             step = "post" => v9[p].step = "verify", step = "status" => v9[p].step = "ack",
             step = "existing" => v9[p].step = "status" /\ Venue(size)!Filled(v9[p].order),
             Steady(size)
      PROVE  Venue(size)!IInv'
  <2>1. PICK c \in Venue(size)!Calls :
          c = [v9[p] EXCEPT !.step = step] /\ v9' = [v9 EXCEPT ![p] = c]
    BY <1>0, <1>3, CallGoes DEF Venue!Steps
  <2>2. CallSound(size, c) /\ c.step # "record"
    BY <1>0, <1>3, <2>1 DEF CallSound, Venue!Calls, Venue!OrderCarried, Venue!ReconcileCarried,
                            Venue!ResumeCarried
  <2> QED BY <1>3, <2>1, <2>2, Moved
<1>4. CASE Venue(size)!Verify(p)
  <2>1. Steady(size)
    BY <1>0, <1>4 DEF Venue!Verify, Steady, Venue!TypeOK, Venue!ledger, Venue!halting, Venue!checks
  <2> QED BY <1>3, <1>4, <2>1, Returned DEF Venue!Verify, Venue!At
<1>5. CASE Venue(size)!OrderAck(p)
  <2>1. Steady(size)
    BY <1>0, <1>5 DEF Venue!OrderAck, Steady, Venue!TypeOK, Venue!ledger, Venue!halting, Venue!checks
  <2> QED BY <1>0, <1>3, <1>5, <2>1 DEF Venue!OrderAck, Venue!At, Venue!OrderCarried
<1>6. CASE Venue(size)!Answer(p)
  <2>1. Steady(size)
    BY <1>0, <1>6 DEF Venue!Answer, Steady, Venue!TypeOK, Venue!ledger, Venue!halting, Venue!checks
  <2> QED BY <1>0, <1>3, <1>6, <2>1, Returned DEF Venue!Answer, Venue!At, Venue!OrderCarried
<1>7. CASE Venue(size)!Activate(p)
  <2>1. Steady(size)
    <3>1. /\ v6' = v6 \union ({v9[p].thesis} \ {None}) /\ v9[p].step = "activate"
          /\ UNCHANGED <<v1, v2, v3, v4, v5, v7, v8, v12, v13, v14, v15, v16>>
      BY <1>7 DEF Venue!Activate, Venue!At, Venue!halting, Venue!checks
    <3>2. v9[p].thesis # None => /\ v9[p].thesis \in size.theses /\ v9[p].order \in size.orders
                                 /\ <<v9[p].order, v9[p].thesis>> \in v4 /\ v5[v9[p].order] > 0
      BY <1>0, <3>1 DEF Venue!OrderCarried, Venue!Calls
    <3>3. v6 \subseteq size.theses /\ v1 \in BOOLEAN /\ v2 \in BOOLEAN
      BY <1>0 DEF Venue!TypeOK
    <3> QED BY <3>1, <3>2, <3>3 DEF Steady
  <2> QED BY <1>7, <2>1, Returned DEF Venue!Activate
<1>8. CASE Venue(size)!Unavailable(p)
  <2>1. Steady(size)
    BY <1>0, <1>8 DEF Venue!Unavailable, Steady, Venue!TypeOK, Venue!ledger, Venue!halting,
                      Venue!checks
  <2> QED BY <1>8, <2>1, Returned DEF Venue!Unavailable
<1>9. CASE Venue(size)!Die(p)
  <2>1. Steady(size)
    BY <1>0, <1>9 DEF Venue!Die, Steady, Venue!TypeOK, Venue!ledger, Venue!halting, Venue!checks
  <2> QED BY <1>9, <2>1, Returned DEF Venue!Die
<1> QED BY <1>1, <1>2, <1>4, <1>5, <1>6, <1>7, <1>8, <1>9

(* The steps of a reconcile's and a resume's calls that change nothing else. *)
LEMMA HaltCallsMove ==
  ASSUME NEW CONSTANT size, Venue(size)!IInv, NEW p \in size.callers,
         \/ Venue(size)!Reconcile(p) \/ Venue(size)!LastHalt(p)
         \/ \E confirm \in BOOLEAN : Venue(size)!Resume(p, confirm)
  PROVE  Venue(size)!IInv'
<1>0. /\ Venue(size)!TypeOK /\ v9[p] \in Venue(size)!Calls
      /\ Venue(size)!LiveHaltIsLast /\ Venue(size)!VenueReconciled
  BY DEF Venue!IInv, Venue!TypeOK
<1>1. CASE Venue(size)!Reconcile(p)
  <2>1. PICK c : c = [Venue(size)!Idle EXCEPT !.step = "venue",
                        !.orders = {o \in size.orders : v5[o] > 0}]
    OBVIOUS
  <2>2. CallSound(size, c) /\ c.step # "record"
    BY <2>1 DEF CallSound, Venue!Idle, Venue!Calls, Venue!Steps, Venue!OrderCarried,
                Venue!ReconcileCarried, Venue!ResumeCarried
  <2>3. v9' = [v9 EXCEPT ![p] = c] /\ Steady(size)
    BY <1>0, <1>1, <2>1 DEF Venue!Reconcile, Venue!Start, Steady, Venue!TypeOK, Venue!ledger,
                            Venue!halting, Venue!checks
  <2> QED BY <2>2, <2>3, Moved
<1>2. ASSUME NEW confirm \in BOOLEAN, Venue(size)!Resume(p, confirm) PROVE Venue(size)!IInv'
  <2>1. PICK c : c = [Venue(size)!Idle EXCEPT
                        !.step = IF v7 /\ ~confirm THEN "halts" ELSE "clear",
                        !.confirm = confirm]
    OBVIOUS
  <2>2. CallSound(size, c) /\ c.step # "record"
    <3>1. /\ c \in Venue(size)!Calls /\ c.step \in {"halts", "clear"}
          /\ c.confirm = confirm /\ (c.step = "clear" => ~v7 \/ confirm)
      BY <2>1 DEF Venue!Idle, Venue!Calls, Venue!Steps
    <3>2. Venue(size)!OrderCarried(c) /\ Venue(size)!ReconcileCarried(c)
      BY <3>1 DEF Venue!OrderCarried, Venue!ReconcileCarried
    <3>3. Venue(size)!ResumeCarried(c)
      BY <1>0, <3>1 DEF Venue!ResumeCarried, Venue!VenueReconciled
    <3> QED BY <3>1, <3>2, <3>3 DEF CallSound
  <2>3. v9' = [v9 EXCEPT ![p] = c] /\ Steady(size)
    BY <1>0, <1>2, <2>1 DEF Venue!Resume, Steady, Venue!TypeOK, Venue!ledger,
                            Venue!halting, Venue!checks
  <2> QED BY <2>2, <2>3, Moved
<1>3. CASE Venue(size)!LastHalt(p)
  <2>1. Steady(size)
    BY <1>0, <1>3 DEF Venue!LastHalt, Steady, Venue!TypeOK, Venue!ledger, Venue!halting,
                      Venue!checks
  <2>2. CASE v8
    BY <1>3, <2>1, <2>2, Returned DEF Venue!LastHalt, Venue!NeedsConfirmation
  <2>3. CASE ~v8
    <3>1. Venue(size)!Goto(p, "clear") /\ "clear" \in Venue(size)!Steps
      BY <1>3, <2>3 DEF Venue!LastHalt, Venue!NeedsConfirmation, Venue!Steps
    <3>2. PICK c \in Venue(size)!Calls :
            c = [v9[p] EXCEPT !.step = "clear"] /\ v9' = [v9 EXCEPT ![p] = c]
      BY <1>0, <3>1, CallGoes
    <3>3. CallSound(size, c) /\ c.step # "record"
      BY <1>0, <2>3, <3>2 DEF CallSound, Venue!Calls, Venue!OrderCarried, Venue!ReconcileCarried,
                              Venue!ResumeCarried, Venue!LiveHaltIsLast
    <3> QED BY <2>1, <3>2, <3>3, Moved
  <2> QED BY <2>2, <2>3
<1> QED BY <1>1, <1>2, <1>3

(* What the halt leaves as it is, and what the ledger's orders do.           *)
LEMMA HaltsKept ==
  ASSUME NEW CONSTANT size, Venue(size)!LiveHaltIsLast, Venue(size)!VenueReconciled,
         UNCHANGED <<v7, v8, v15, v16>>
  PROVE  Venue(size)!LiveHaltIsLast' /\ (v15' /\ ~v16' => v7')
BY DEF Venue!LiveHaltIsLast, Venue!VenueReconciled

(* The venue takes an order, executes it or ends it.                        *)
LEMMA VenueActs ==
  ASSUME NEW CONSTANT size, Venue(size)!IInv, NEW o \in size.orders,
         \/ \E p \in size.callers, answered \in BOOLEAN : Venue(size)!Post(p, o, answered)
         \/ \E whole \in BOOLEAN : Venue(size)!Trade(o, whole)
         \/ Venue(size)!End(o)
  PROVE  Venue(size)!IInv'
<1>0. /\ Venue(size)!TypeOK /\ Venue(size)!BookSound /\ Venue(size)!Carried
      /\ Venue(size)!RacesKnown /\ Venue(size)!LiveHaltIsLast /\ Venue(size)!VenueReconciled
  BY DEF Venue!IInv
<1>1. PICK new \in Venue(size)!Order :
        /\ v3' = [v3 EXCEPT ![o] = new]
        /\ IF new.state = "filled" THEN new.trades > 0 ELSE new.trades < 2
        /\ v3[o] # None => v3[o].state = "open" /\ new.trades >= v3[o].trades
  <2>1. CASE \E p \in size.callers, answered \in BOOLEAN : Venue(size)!Post(p, o, answered)
    <3>1. PICK new : new = [state |-> "open", trades |-> 0]
      OBVIOUS
    <3>2. new \in Venue(size)!Order /\ new.state = "open" /\ new.trades = 0
      BY <3>1 DEF Venue!Order
    <3>3. v3' = [v3 EXCEPT ![o] = new] /\ v3[o] = None
      BY <2>1, <3>1 DEF Venue!Post
    <3>4. IF new.state = "filled" THEN new.trades > 0 ELSE new.trades < 2
      BY <3>2
    <3> QED BY <3>2, <3>3, <3>4
  <2>2. ASSUME NEW whole \in BOOLEAN, Venue(size)!Trade(o, whole)
        PROVE  \E new \in Venue(size)!Order :
                 /\ v3' = [v3 EXCEPT ![o] = new]
                 /\ IF new.state = "filled" THEN new.trades > 0 ELSE new.trades < 2
                 /\ v3[o] # None => v3[o].state = "open" /\ new.trades >= v3[o].trades
    <3>1. /\ v3[o] \in Venue(size)!Order /\ v3[o].state = "open"
          /\ v3[o].trades \in {0, 1} /\ (whole \/ v3[o].trades = 0)
      BY <1>0, <2>2 DEF Venue!Trade, Venue!TypeOK, Venue!BookSound, Venue!Order
    <3>2. PICK new : new = [state |-> IF whole THEN "filled" ELSE "open", trades |-> v3[o].trades + 1]
      OBVIOUS
    <3>3. v3' = [v3 EXCEPT ![o] = new] /\ new \in Venue(size)!Order
      BY <1>0, <2>2, <3>1, <3>2 DEF Venue!Trade, Venue!TypeOK, Venue!Order
    <3>4. /\ IF new.state = "filled" THEN new.trades > 0 ELSE new.trades < 2
          /\ v3[o].state = "open" /\ new.trades >= v3[o].trades
      BY <3>1, <3>2
    <3> QED BY <3>3, <3>4
  <2>3. CASE Venue(size)!End(o)
    <3>1. /\ v3[o] \in Venue(size)!Order /\ v3[o].state = "open" /\ v3[o].trades < 2
      BY <1>0, <2>3 DEF Venue!End, Venue!TypeOK, Venue!BookSound
    <3>2. PICK new : new = [v3[o] EXCEPT !.state = "ended"]
      OBVIOUS
    <3>3. v3' = [v3 EXCEPT ![o] = new] /\ new \in Venue(size)!Order
      BY <1>0, <2>3, <3>1, <3>2 DEF Venue!End, Venue!TypeOK, Venue!Order
    <3>4. /\ IF new.state = "filled" THEN new.trades > 0 ELSE new.trades < 2
          /\ v3[o].state = "open" /\ new.trades >= v3[o].trades
      BY <2>3, <3>1, <3>2 DEF Venue!End, Venue!Order
    <3> QED BY <3>3, <3>4
  <2> QED BY <2>1, <2>2, <2>3
<1>2. /\ UNCHANGED <<v1, v2, v4, v5, v6, v7, v8, v12, v13, v14, v15, v16>>
      /\ \/ v9' = v9
         \/ \E p \in size.callers, answered \in BOOLEAN : Venue(size)!Post(p, o, answered)
  BY DEF Venue!Post, Venue!Trade, Venue!End, Venue!ledger, Venue!halting, Venue!checks
<1>3. new # None /\ v3'[o] = new /\ \A q \in size.orders : q # o => v3'[q] = v3[q]
  BY <1>0, <1>1, MissingIsNoOrder DEF Venue!TypeOK
<1>4. Forward(size) /\ Owing(size)
  BY <1>0, <1>1, <1>2, <1>3 DEF Forward, Owing, Venue!TypeOK, Venue!Order, Venue!Filled
<1>5. /\ v9' \in [size.callers -> Venue(size)!Calls]
      /\ \A q \in size.callers :
           v9'[q] = v9[q] \/ /\ Venue(size)!OrderCarried(v9[q])'
                             /\ Venue(size)!ReconcileCarried(v9[q])'
                             /\ Venue(size)!ResumeCarried(v9[q])'
                             /\ v9'[q].step # "record"
  <2>1. CASE v9' = v9
    BY <1>0, <2>1 DEF Venue!TypeOK
  <2>2. ASSUME NEW p \in size.callers, NEW answered \in BOOLEAN, Venue(size)!Post(p, o, answered)
        PROVE  <1>5!1 /\ <1>5!2
    <3>1. v9[p] \in Venue(size)!Calls /\ v9[p].thesis \in size.theses
      BY <1>0, <2>2 DEF Venue!TypeOK, Venue!Carried, Venue!OrderCarried, Venue!Post, Venue!At
    <3>2. PICK c \in Venue(size)!Calls :
            /\ v9' = [v9 EXCEPT ![p] = c] /\ c.step \in {"submitted", "idle"}
            /\ c.step = "submitted" => c.order = o /\ c.thesis \in size.theses
      <4>1. CASE answered
        <5>1. PICK c : c = [v9[p] EXCEPT !.step = "submitted", !.order = o]
          OBVIOUS
        <5>2. c \in Venue(size)!Calls
          BY <3>1, <5>1 DEF Venue!Calls, Venue!Steps
        <5>3. v9' = [v9 EXCEPT ![p] = c]
          BY <1>0, <2>2, <3>1, <4>1, <5>1 DEF Venue!Post, Venue!TypeOK
        <5> QED BY <3>1, <5>1, <5>2, <5>3 DEF Venue!Calls
      <4>2. CASE ~answered
        BY <2>2, <4>2, IdleIsSound DEF Venue!Post, Venue!Return, CallSound
      <4> QED BY <4>1, <4>2
    <3>3. /\ v9' \in [size.callers -> Venue(size)!Calls]
          /\ v9'[p] = c /\ \A q \in size.callers : q # p => v9'[q] = v9[q]
      BY <1>0, <3>2, CallReplaced
    <3>4. /\ Venue(size)!OrderCarried(v9[p])' /\ Venue(size)!ReconcileCarried(v9[p])'
          /\ Venue(size)!ResumeCarried(v9[p])' /\ v9'[p].step # "record"
      BY <1>3, <3>2, <3>3 DEF Venue!OrderCarried, Venue!ReconcileCarried, Venue!ResumeCarried
    <3> QED BY <3>3, <3>4
  <2> QED BY <1>2, <2>1, <2>2
<1>6. Venue(size)!TypeOK'
  BY <1>0, <1>1, <1>2, <1>3, <1>5 DEF Venue!TypeOK
<1>7. Venue(size)!BookSound'
  BY <1>0, <1>1, <1>3 DEF Venue!BookSound
<1>8. Venue(size)!Carried'
  BY <1>0, <1>4, <1>5, CarriedOn
<1>9. Venue(size)!RacesKnown'
  BY <1>0, <1>2, <1>5, RacesKept
<1>10. Venue(size)!VenueReconciled'
  BY <1>0, <1>2, <1>4 DEF Venue!VenueReconciled, Forward
<1>11. Venue(size)!LiveHaltIsLast'
  BY <1>0, <1>2, HaltsKept
<1> QED BY <1>6, <1>7, <1>8, <1>9, <1>10, <1>11 DEF Venue!IInv

(* An order the ledger learns of, and a fill that is about to be recorded.   *)
LEMMA LedgerAppends ==
  ASSUME NEW CONSTANT size, Venue(size)!IInv, NEW p \in size.callers,
         \/ Venue(size)!OrderSubmitted(p) \/ Venue(size)!Existing(p) \/ Venue(size)!FillRecorded(p)
  PROVE  Venue(size)!IInv'
<1>0. /\ Venue(size)!TypeOK /\ Venue(size)!BookSound /\ Venue(size)!Carried
      /\ Venue(size)!RacesKnown /\ Venue(size)!LiveHaltIsLast /\ Venue(size)!VenueReconciled
      /\ v9[p] \in Venue(size)!Calls /\ Venue(size)!OrderCarried(v9[p])
  BY DEF Venue!IInv, Venue!TypeOK, Venue!Carried
<1>1. UNCHANGED <<v1, v2, v3, v6, v7, v8, v13, v14, v15, v16>>
  BY DEF Venue!OrderSubmitted, Venue!Existing, Venue!FillRecorded, Venue!halting, Venue!checks
<1>2. ASSUME NEW step \in {"ack", "record", "activate"}, Venue(size)!Goto(p, step),
             v4' \in SUBSET (size.orders \X size.theses), v4 \subseteq v4',
             v5' \in [size.orders -> Nat], \A o \in size.orders : v5[o] > 0 => v5'[o] > 0,
             v12' \subseteq size.orders,
             v9[p].order \in size.orders, v9[p].thesis # None => <<v9[p].order, v9[p].thesis>> \in v4',
             step # "ack" => Venue(size)!Filled(v9[p].order),
             step = "activate" => v5'[v9[p].order] > 0,
             Venue(size)!RacesKnown', Venue(size)!VenueReconciled'
      PROVE  Venue(size)!IInv'
  <2>1. PICK c \in Venue(size)!Calls :
          c = [v9[p] EXCEPT !.step = step] /\ v9' = [v9 EXCEPT ![p] = c]
    BY <1>0, <1>2, CallGoes DEF Venue!Steps
  <2>2. /\ v9' \in [size.callers -> Venue(size)!Calls]
        /\ v9'[p] = c /\ \A q \in size.callers : q # p => v9'[q] = v9[q]
    BY <1>0, <2>1, CallReplaced
  <2>3. Venue(size)!TypeOK'
    BY <1>0, <1>1, <1>2, <2>2 DEF Venue!TypeOK
  <2>4. c.order = v9[p].order /\ c.thesis = v9[p].thesis /\ c.step = step
    BY <1>0, <2>1 DEF Venue!Calls
  <2>5. /\ Venue(size)!OrderCarried(v9[p])' /\ Venue(size)!ReconcileCarried(v9[p])'
        /\ Venue(size)!ResumeCarried(v9[p])'
    BY <1>0, <1>1, <1>2, <2>2, <2>4 DEF Venue!OrderCarried, Venue!ReconcileCarried,
                                        Venue!ResumeCarried, Venue!Filled
  <2>6. Forward(size) /\ Owing(size)
    BY <1>1, <1>2 DEF Forward, Owing, Venue!Filled
  <2>7. \A q \in size.callers :
           v9'[q] = v9[q] \/ /\ Venue(size)!OrderCarried(v9[q])'
                             /\ Venue(size)!ReconcileCarried(v9[q])'
                             /\ Venue(size)!ResumeCarried(v9[q])'
    BY <2>2, <2>5
  <2>8. Venue(size)!Carried'
    BY <1>0, <2>6, <2>7, CarriedOn
  <2>9. Venue(size)!BookSound' /\ Venue(size)!LiveHaltIsLast'
    BY <1>0, <1>1 DEF Venue!BookSound, Venue!LiveHaltIsLast
  <2> QED BY <1>2, <2>3, <2>8, <2>9 DEF Venue!IInv
<1>3. \A step \in {"ack", "record", "activate"} : Venue(size)!Goto(p, step) =>
        /\ v9'[p].step = step /\ v9'[p].order = v9[p].order
        /\ \A q \in size.callers : q # p => v9'[q] = v9[q]
  BY <1>0 DEF Venue!Goto, Venue!TypeOK, Venue!Calls
<1>4. CASE Venue(size)!OrderSubmitted(p)
  <2>1. /\ v9[p].order \in size.orders /\ v9[p].thesis \in size.theses
        /\ Venue(size)!Goto(p, "ack") /\ v4' = v4 \union {<<v9[p].order, v9[p].thesis>>}
        /\ v5' = v5 /\ v12' = v12
    BY <1>0, <1>4 DEF Venue!OrderSubmitted, Venue!At, Venue!OrderCarried
  <2>2. Venue(size)!RacesKnown'
    BY <1>0, <1>3, <2>1, RacesKept
  <2>3. Venue(size)!VenueReconciled'
    BY <1>0, <1>1, <2>1 DEF Venue!VenueReconciled, Venue!Filled
  <2> QED BY <1>0, <1>2, <2>1, <2>2, <2>3 DEF Venue!TypeOK
<1>5. CASE Venue(size)!Existing(p)
  <2>1. /\ v9[p].order \in size.orders /\ Venue(size)!Filled(v9[p].order) /\ v4' = v4 /\ v5' = v5
        /\ v9[p].thesis # None => <<v9[p].order, v9[p].thesis>> \in v4'
    BY <1>0, <1>5 DEF Venue!Existing, Venue!At, Venue!OrderCarried
  <2>2. PICK step \in {"record", "activate"} :
          /\ Venue(size)!Goto(p, step) /\ (step = "record" => v5[v9[p].order] = 0)
          /\ step = "activate" => v5[v9[p].order] # 0
    BY <1>5 DEF Venue!Existing, Venue!Unrecorded
  <2>3. /\ v12 \subseteq v12' /\ v12' \subseteq v12 \union {v9[p].order}
        /\ \A q \in size.callers \ {p} : v9[q].step = "record" /\ v9[q].order = v9[p].order
              => v9[p].order \in v12'
    BY <1>5 DEF Venue!Existing, Venue!At
  <2>4. Venue(size)!RacesKnown'
    BY <1>0, <1>3, <2>1, <2>2, <2>3 DEF Venue!RacesKnown, Venue!At, Venue!TypeOK
  <2>5. Venue(size)!VenueReconciled'
    BY <1>0, <1>1, <2>1, <2>3 DEF Venue!VenueReconciled, Venue!Filled
  <2>6. \A o \in size.orders : v5[o] \in Nat /\ (v5[o] # 0 => v5[o] > 0)
    BY <1>0 DEF Venue!TypeOK
  <2> QED BY <1>0, <1>2, <2>1, <2>2, <2>3, <2>4, <2>5, <2>6 DEF Venue!TypeOK
<1>6. CASE Venue(size)!FillRecorded(p)
  <2>1. /\ Venue(size)!Filled(v9[p].order) /\ v4' = v4 /\ v12' = v12
        /\ v9[p].thesis # None => <<v9[p].order, v9[p].thesis>> \in v4'
        /\ v9[p].step = "record" /\ v9[p].order \in size.orders
        /\ Venue(size)!Goto(p, "activate")
    BY <1>0, <1>6 DEF Venue!FillRecorded, Venue!At, Venue!OrderCarried, Venue!TypeOK
  <2>2. /\ v5' \in [size.orders -> Nat] /\ v5'[v9[p].order] = v5[v9[p].order] + 1
        /\ \A o \in size.orders : o # v9[p].order => v5'[o] = v5[o]
    BY <1>0, <1>6, <2>1 DEF Venue!FillRecorded, Venue!TypeOK
  <2>3. \A o \in size.orders : v5[o] \in Nat
    BY <1>0 DEF Venue!TypeOK
  <2>4. Venue(size)!RacesKnown'
    <3>1. \A q \in size.callers : v9[q].step = "record" => v9[q].order \in size.orders
      BY <1>0 DEF Venue!Carried, Venue!OrderCarried, Venue!TypeOK
    <3>2. v9'[p].step = "activate" /\ \A q \in size.callers : q # p => v9'[q] = v9[q]
      BY <1>3, <2>1
    <3> QED BY <1>0, <2>1, <2>2, <2>3, <3>1, <3>2 DEF Venue!RacesKnown, Venue!At
  <2>5. v5[v9[p].order] > 0 => v9[p].order \in v12
    BY <1>0, <2>1 DEF Venue!RacesKnown, Venue!At
  <2>6. Venue(size)!VenueReconciled'
    <3>1. \A o \in size.orders : v5[o] > 0 => v5'[o] > 0
      BY <2>2, <2>3
    <3>2. v13' \subseteq size.orders
      BY <1>0, <1>1 DEF Venue!TypeOK
    <3>3. \A o \in v13' : v5'[o] > 0 \/ o \in v14'
      BY <1>0, <1>1, <3>1, <3>2 DEF Venue!VenueReconciled
    <3>4. \A o \in size.orders : v5'[o] > 0 => Venue(size)!Filled(o)'
      <4>1. \A o \in size.orders : Venue(size)!Filled(o)' <=> Venue(size)!Filled(o)
        BY <1>1 DEF Venue!Filled
      <4> QED BY <1>0, <2>1, <2>2, <4>1 DEF Venue!VenueReconciled
    <3>5. \A o \in size.orders : v5'[o] > 1 => o \in v12'
      <4> SUFFICES ASSUME NEW o \in size.orders, v5'[o] > 1 PROVE o \in v12
        BY <2>1
      <4>1. CASE o = v9[p].order
        BY <2>2, <2>3, <2>5, <4>1
      <4>2. CASE o # v9[p].order
        BY <1>0, <2>2, <4>2 DEF Venue!VenueReconciled
      <4> QED BY <4>1, <4>2
    <3>6. \A t \in v6' : \E o \in size.orders : <<o, t>> \in v4' /\ v5'[o] > 0
      BY <1>0, <1>1, <2>1, <3>1 DEF Venue!VenueReconciled
    <3>7. v15' /\ ~v16' => v7'
      BY <1>0, <1>1 DEF Venue!VenueReconciled
    <3> QED BY <3>3, <3>4, <3>5, <3>6, <3>7 DEF Venue!VenueReconciled
  <2>7. \A o \in size.orders : v5[o] > 0 => v5'[o] > 0
    BY <2>2, <2>3
  <2>8. v5'[v9[p].order] > 0
    BY <2>1, <2>2, <2>3
  <2> QED BY <1>0, <1>2, <2>1, <2>2, <2>4, <2>6, <2>7, <2>8 DEF Venue!TypeOK
<1> QED BY <1>4, <1>5, <1>6

(* A halt is set by hand or by a reconcile, is cleared, or is not called for. *)
LEMMA HaltsMove ==
  ASSUME NEW CONSTANT size, Venue(size)!IInv,
         \/ Venue(size)!Halt
         \/ \E p \in size.callers :
              \/ \E page \in Venue(size)!Pages : Venue(size)!Compare(p, page)
              \/ Venue(size)!Mismatch(p) \/ Venue(size)!HaltCleared(p)
  PROVE  Venue(size)!IInv'
<1>0. /\ Venue(size)!TypeOK /\ Venue(size)!BookSound /\ Venue(size)!Carried
      /\ Venue(size)!RacesKnown /\ Venue(size)!LiveHaltIsLast /\ Venue(size)!VenueReconciled
  BY DEF Venue!IInv
<1>1. UNCHANGED <<v1, v2, v3, v4, v5, v6, v12>>
  BY DEF Venue!Halt, Venue!Compare, Venue!Mismatch, Venue!HaltCleared, Venue!ledger
<1>2. ASSUME /\ v7' \in BOOLEAN /\ v8' \in BOOLEAN /\ v15' \in BOOLEAN /\ v16' \in BOOLEAN
             /\ Owing(size) /\ (v15' /\ ~v16' => v7' /\ v8'),
             v13' \subseteq size.orders, v14' \subseteq size.orders,
             \A o \in v13' : v5[o] > 0 \/ o \in v14',
             v9' = v9 \/ \E p \in size.callers, c \in Venue(size)!Calls :
               /\ v9' = [v9 EXCEPT ![p] = c] /\ c.step \in {"idle", "mismatch"}
               /\ c.step = "mismatch" => \A o \in c.shown : v5[o] > 0 \/ o \in c.orders
      PROVE  Venue(size)!IInv'
  <2>1. /\ v9' \in [size.callers -> Venue(size)!Calls]
        /\ \A q \in size.callers :
             v9'[q] = v9[q] \/ /\ Venue(size)!OrderCarried(v9[q])'
                               /\ Venue(size)!ReconcileCarried(v9[q])'
                               /\ Venue(size)!ResumeCarried(v9[q])'
                               /\ v9'[q].step # "record"
    <3>1. CASE v9' = v9
      BY <1>0, <3>1 DEF Venue!TypeOK
    <3>2. ASSUME NEW p \in size.callers, NEW c \in Venue(size)!Calls,
                 v9' = [v9 EXCEPT ![p] = c], c.step \in {"idle", "mismatch"},
                 c.step = "mismatch" => \A o \in c.shown : v5[o] > 0 \/ o \in c.orders
          PROVE  <2>1!1 /\ <2>1!2
      <4>1. /\ v9' \in [size.callers -> Venue(size)!Calls]
            /\ v9'[p] = c /\ \A q \in size.callers : q # p => v9'[q] = v9[q]
        BY <1>0, <3>2, CallReplaced
      <4>2. /\ Venue(size)!OrderCarried(v9[p])' /\ Venue(size)!ReconcileCarried(v9[p])'
            /\ Venue(size)!ResumeCarried(v9[p])' /\ v9'[p].step # "record"
        BY <1>1, <3>2, <4>1 DEF Venue!OrderCarried, Venue!ReconcileCarried, Venue!ResumeCarried
      <4> QED BY <4>1, <4>2
    <3> QED BY <1>2, <3>1, <3>2
  <2>2. Venue(size)!TypeOK' /\ Venue(size)!BookSound'
    BY <1>0, <1>1, <1>2, <2>1 DEF Venue!TypeOK, Venue!BookSound
  <2>3. Forward(size)
    BY <1>1 DEF Forward, Venue!Filled
  <2>4. Venue(size)!Carried'
    BY <1>0, <1>2, <2>1, <2>3, CarriedOn
  <2>5. Venue(size)!RacesKnown'
    BY <1>0, <1>1, <2>1, RacesKept
  <2>6. Venue(size)!VenueReconciled' /\ Venue(size)!LiveHaltIsLast'
    BY <1>0, <1>1, <1>2 DEF Venue!VenueReconciled, Venue!LiveHaltIsLast, Venue!Filled
  <2> QED BY <2>2, <2>4, <2>5, <2>6 DEF Venue!IInv
<1>3. ASSUME NEW path \in BOOLEAN, Venue(size)!SetHalt(path)
      PROVE  /\ v7' \in BOOLEAN /\ v8' \in BOOLEAN /\ v15' \in BOOLEAN /\ v16' \in BOOLEAN
             /\ Owing(size) /\ (v15' /\ ~v16' => v7' /\ v8')
  <2>1. v15 \in BOOLEAN /\ v16 \in BOOLEAN /\ Venue(size)!Resuming \in BOOLEAN
    BY <1>0 DEF Venue!TypeOK, Venue!Resuming
  <2>2. /\ v7' = TRUE /\ v8' = path /\ v15' = (v15 \/ path)
        /\ v16' = (v16 \/ (path /\ Venue(size)!Resuming) \/ (~path /\ v15))
    BY <1>3 DEF Venue!SetHalt
  <2> QED BY <2>1, <2>2, Zenon DEF Owing
<1>4. CASE Venue(size)!Halt
  BY <1>0, <1>2, <1>3, <1>4 DEF Venue!Halt, Venue!checks, Venue!TypeOK, Venue!VenueReconciled
<1>5. ASSUME NEW p \in size.callers, Venue(size)!Return(p)
      PROVE  \E q \in size.callers, c \in Venue(size)!Calls :
               v9' = [v9 EXCEPT ![q] = c] /\ c.step = "idle"
  BY <1>5, IdleIsSound DEF Venue!Return, CallSound
<1>6. ASSUME NEW p \in size.callers
      PROVE  /\ v9[p] \in Venue(size)!Calls
             /\ Venue(size)!ReconcileCarried(v9[p]) /\ Venue(size)!ResumeCarried(v9[p])
  BY <1>0 DEF Venue!TypeOK, Venue!Carried
<1>7. ASSUME NEW p \in size.callers, Venue(size)!Mismatch(p) PROVE Venue(size)!IInv'
  <2>1. /\ Venue(size)!SetHalt(v1) /\ v1 \in BOOLEAN /\ Venue(size)!Return(p)
        /\ v13' = v13 \union v9[p].shown /\ v14' = v14 \union v9[p].orders
        /\ v9[p].step = "mismatch"
    BY <1>0, <1>7 DEF Venue!Mismatch, Venue!At, Venue!TypeOK
  <2>2. /\ v13' \subseteq size.orders /\ v14' \subseteq size.orders
        /\ \A o \in v13' : v5[o] > 0 \/ o \in v14'
    BY <1>0, <1>6, <2>1 DEF Venue!TypeOK, Venue!Calls, Venue!ReconcileCarried,
                            Venue!VenueReconciled
  <2>3. \E q \in size.callers, c \in Venue(size)!Calls :
          v9' = [v9 EXCEPT ![q] = c] /\ c.step = "idle"
    BY <1>5, <2>1
  <2>4. /\ v7' \in BOOLEAN /\ v8' \in BOOLEAN /\ v15' \in BOOLEAN /\ v16' \in BOOLEAN
        /\ Owing(size) /\ (v15' /\ ~v16' => v7' /\ v8')
    BY <1>3, <2>1
  <2> QED BY <1>2, <2>2, <2>3, <2>4
<1>8. ASSUME NEW p \in size.callers, Venue(size)!HaltCleared(p) PROVE Venue(size)!IInv'
  <2>1. /\ v7' = FALSE /\ v8' = v8 /\ v13' = v13 /\ v14' = v14
        /\ v15' = (v15 /\ ~v9[p].confirm) /\ v16' = (v16 /\ ~v9[p].confirm)
        /\ Venue(size)!Return(p) /\ v9[p].step = "clear"
    BY <1>8 DEF Venue!HaltCleared, Venue!At, Venue!checks
  <2>2. \E q \in size.callers, c \in Venue(size)!Calls :
          v9' = [v9 EXCEPT ![q] = c] /\ c.step = "idle"
    BY <1>5, <2>1
  <2>3. /\ v7 \in BOOLEAN /\ v8 \in BOOLEAN /\ v15 \in BOOLEAN /\ v16 \in BOOLEAN
        /\ v13 \subseteq size.orders /\ v14 \subseteq size.orders
    BY <1>0 DEF Venue!TypeOK
  <2>4. v9[p].confirm \in BOOLEAN /\ (~v9[p].confirm /\ v15 => v16)
    BY <1>6, <2>1 DEF Venue!Calls, Venue!ResumeCarried
  <2>5. Owing(size) /\ ~(v15' /\ ~v16') /\ v15' \in BOOLEAN /\ v16' \in BOOLEAN
    BY <2>1, <2>3, <2>4, Zenon DEF Owing
  <2> QED BY <1>0, <1>1, <1>2, <2>1, <2>2, <2>3, <2>5 DEF Venue!VenueReconciled
<1>9. ASSUME NEW p \in size.callers, NEW page \in Venue(size)!Pages, Venue(size)!Compare(p, page)
      PROVE  Venue(size)!IInv'
  <2>1. /\ v9[p].step = "venue" /\ v14' = v14 /\ UNCHANGED <<v7, v8, v15, v16>>
    BY <1>9 DEF Venue!Compare, Venue!At, Venue!halting
  <2> DEFINE wrong == Venue(size)!Mismatches(v9[p].orders, page)
             on == Venue(size)!On(page)
  <2>2. /\ on \subseteq size.orders /\ v9[p].orders \subseteq size.orders
        /\ \A o \in v9[p].orders : v5[o] > 0
    BY <1>6, <2>1 DEF Venue!ReconcileCarried, Venue!Calls, Venue!On, Venue!Pages, Venue!Trades
  <2>3. wrong \subseteq size.orders /\ \A o \in on : v5[o] > 0 \/ o \in wrong
    BY <2>2 DEF Venue!Mismatches
  <2>4. /\ v7' \in BOOLEAN /\ v8' \in BOOLEAN /\ v15' \in BOOLEAN /\ v16' \in BOOLEAN
        /\ Owing(size) /\ (v15' /\ ~v16' => v7' /\ v8')
    BY <1>0, <2>1 DEF Owing, Venue!TypeOK, Venue!LiveHaltIsLast, Venue!VenueReconciled
  <2>5. CASE wrong = {}
    <3>1. Venue(size)!Return(p) /\ v13' = v13 \union on
      BY <1>9, <2>5 DEF Venue!Compare
    <3>2. \E q \in size.callers, c \in Venue(size)!Calls :
            v9' = [v9 EXCEPT ![q] = c] /\ c.step = "idle"
      BY <1>5, <3>1
    <3>3. /\ v13' \subseteq size.orders /\ v14' \subseteq size.orders
          /\ \A o \in v13' : v5[o] > 0 \/ o \in v14'
      BY <1>0, <2>1, <2>2, <2>3, <2>5, <3>1 DEF Venue!TypeOK, Venue!VenueReconciled
    <3> QED BY <1>2, <2>4, <3>2, <3>3
  <2>6. CASE wrong # {}
    <3>1. PICK c : c = [v9[p] EXCEPT !.step = "mismatch", !.orders = wrong, !.shown = on]
      OBVIOUS
    <3>2. c \in Venue(size)!Calls /\ c.step = "mismatch" /\ c.shown = on
          /\ c.orders = wrong
      BY <1>6, <2>2, <2>3, <3>1 DEF Venue!Calls, Venue!Steps
    <3>3. v9' = [v9 EXCEPT ![p] = c] /\ v13' = v13
      BY <1>0, <1>6, <1>9, <2>6, <3>1 DEF Venue!Compare, Venue!TypeOK, Venue!Calls
    <3>4. /\ v13' \subseteq size.orders /\ v14' \subseteq size.orders
          /\ \A o \in v13' : v5[o] > 0 \/ o \in v14'
      BY <1>0, <2>1, <3>3 DEF Venue!TypeOK, Venue!VenueReconciled
    <3>5. \E q \in size.callers, d \in Venue(size)!Calls :
            /\ v9' = [v9 EXCEPT ![q] = d] /\ d.step = "mismatch"
            /\ \A o \in d.shown : v5[o] > 0 \/ o \in d.orders
      BY <2>2, <2>3, <3>2, <3>3
    <3> QED BY <1>2, <2>4, <3>4, <3>5
  <2> QED BY <2>5, <2>6
<1> QED BY <1>4, <1>7, <1>8, <1>9

-----------------------------------------------------------------------------
LEMMA VenueStarts ==
  ASSUME NEW CONSTANT size, Venue(size)!Init
  PROVE  Venue(size)!IInv
<1>1. \A p \in size.callers : v9[p] = Venue(size)!Idle
  BY DEF Venue!Init
<1>2. v9 \in [size.callers -> Venue(size)!Calls] /\ Venue(size)!Carried
  BY <1>1, IdleIsSound DEF Venue!Init, Venue!Carried, CallSound
<1>3. Venue(size)!TypeOK
  BY <1>2 DEF Venue!Init, Venue!TypeOK
<1>4. Venue(size)!RacesKnown
  BY <1>1, IdleIsSound DEF Venue!RacesKnown, Venue!At
<1>5. Venue(size)!BookSound /\ Venue(size)!LiveHaltIsLast /\ Venue(size)!VenueReconciled
  BY DEF Venue!Init, Venue!BookSound, Venue!LiveHaltIsLast, Venue!VenueReconciled
<1> QED BY <1>2, <1>3, <1>4, <1>5 DEF Venue!IInv

LEMMA VenueStutters ==
  ASSUME NEW CONSTANT size, Venue(size)!IInv, v1' \in BOOLEAN, v2' \in BOOLEAN, v9' = v9,
         UNCHANGED <<v3, v4, v5, v6, v7, v8, v12, v13, v14, v15, v16>>
  PROVE  Venue(size)!IInv'
<1>1. v9 \in [size.callers -> Venue(size)!Calls]
  BY DEF Venue!IInv, Venue!TypeOK
<1>2. Forward(size) /\ Owing(size)
  BY DEF Forward, Owing, Venue!Filled
<1>3. Venue(size)!Carried'
  BY <1>2, CarriedOn DEF Venue!IInv
<1>4. Venue(size)!RacesKnown'
  BY RacesKept DEF Venue!IInv
<1>5. Venue(size)!TypeOK'
  BY <1>1 DEF Venue!IInv, Venue!TypeOK
<1>6. Venue(size)!BookSound' /\ Venue(size)!LiveHaltIsLast'
  BY DEF Venue!IInv, Venue!BookSound, Venue!LiveHaltIsLast
<1>7. Venue(size)!VenueReconciled'
  BY DEF Venue!IInv, Venue!VenueReconciled, Venue!Filled
<1> QED BY <1>3, <1>4, <1>5, <1>6, <1>7 DEF Venue!IInv

(* Every step of an account at a venue, of any size, keeps its invariant:   *)
(* no order of steps of submit, order_status, reconcile, halt and resume    *)
(* leads a call to act on what is no longer so (broker/_alpaca.py,          *)
(* broker/_pipeline.py, policy/__init__.py).                                *)
THEOREM VenueStep ==
  ASSUME NEW CONSTANT size, Venue(size)!IInv, Venue(size)!Next
  PROVE  Venue(size)!IInv'
<1>1. CASE Venue(size)!Configure
  <2>1. /\ v1' \in BOOLEAN /\ v2' \in BOOLEAN /\ v9' = v9
        /\ UNCHANGED <<v3, v4, v5, v6, v7, v8, v12, v13, v14, v15, v16>>
    BY <1>1 DEF Venue!Configure, Venue!IInv, Venue!TypeOK, Venue!ledger, Venue!halting, Venue!checks
  <2> QED BY <2>1, VenueStutters
<1>2. CASE Venue(size)!Halt
  BY <1>2, HaltsMove
<1>3. ASSUME NEW p \in size.callers,
             \/ \E t \in size.theses : Venue(size)!Execute(p, t)
             \/ Venue(size)!Verify(p) \/ Venue(size)!OrderAck(p)
             \/ \E o \in size.orders : Venue(size)!Status(p, o)
             \/ Venue(size)!Answer(p) \/ Venue(size)!Activate(p) \/ Venue(size)!Unavailable(p)
             \/ Venue(size)!Die(p)
      PROVE  Venue(size)!IInv'
  BY <1>3, OrderCallsMove
<1>4. ASSUME NEW p \in size.callers,
             \/ Venue(size)!Reconcile(p) \/ Venue(size)!LastHalt(p)
             \/ \E confirm \in BOOLEAN : Venue(size)!Resume(p, confirm)
      PROVE  Venue(size)!IInv'
  BY <1>4, HaltCallsMove
<1>5. ASSUME NEW p \in size.callers,
             \/ Venue(size)!OrderSubmitted(p) \/ Venue(size)!Existing(p)
             \/ Venue(size)!FillRecorded(p)
      PROVE  Venue(size)!IInv'
  BY <1>5, LedgerAppends
<1>6. ASSUME NEW p \in size.callers,
             \/ \E page \in Venue(size)!Pages : Venue(size)!Compare(p, page)
             \/ Venue(size)!Mismatch(p) \/ Venue(size)!HaltCleared(p)
      PROVE  Venue(size)!IInv'
  BY <1>6, HaltsMove
<1>7. ASSUME NEW o \in size.orders,
             \/ \E p \in size.callers, answered \in BOOLEAN : Venue(size)!Post(p, o, answered)
             \/ \E whole \in BOOLEAN : Venue(size)!Trade(o, whole)
             \/ Venue(size)!End(o)
      PROVE  Venue(size)!IInv'
  BY <1>7, VenueActs
<1> QED BY <1>1, <1>2, <1>3, <1>4, <1>5, <1>6, <1>7 DEF Venue!Next

(* An account at the venue, of any theses, orders, processes and halts,     *)
(* keeps what Venue's VenueReconciled says.                                 *)
THEOREM VenueHolds ==
  ASSUME NEW CONSTANT size
  PROVE  Venue(size)!Spec => [](Venue(size)!TypeOK /\ Venue(size)!VenueReconciled)
<1>1. Venue(size)!Init => Venue(size)!IInv
  BY VenueStarts
<1>2. Venue(size)!IInv /\ [Venue(size)!Next]_(Venue(size)!vars) => Venue(size)!IInv'
  <2>1. CASE Venue(size)!Next
    BY <2>1, VenueStep
  <2>2. CASE Venue(size)!IInv /\ UNCHANGED Venue(size)!vars
    <3>1. /\ v1' \in BOOLEAN /\ v2' \in BOOLEAN /\ v9' = v9
          /\ UNCHANGED <<v3, v4, v5, v6, v7, v8, v12, v13, v14, v15, v16>>
      BY <2>2 DEF Venue!vars, Venue!IInv, Venue!TypeOK
    <3> QED BY <2>2, <3>1, VenueStutters
  <2> QED BY <2>1, <2>2
<1>3. Venue(size)!IInv => Venue(size)!TypeOK /\ Venue(size)!VenueReconciled
  BY DEF Venue!IInv
<1> QED BY <1>1, <1>2, <1>3, PTL DEF Venue!Spec

(* The venues of a run: the desk's two processes at one order, and one at   *)
(* two, for any processes and order ids there are.                          *)
VenuesSound ==
  /\ part = "venue" => Venue(OneOrder)!IInv
  /\ part = "two orders" => Venue(TwoOrders)!IInv

THEOREM VenueReconciledHolds == Spec => []VenueReconciled
<1>1. Init => VenuesSound
  BY VenueStarts DEF Init, VenuesSound
<1>2. VenuesSound /\ [Next]_vars => VenuesSound'
  <2> SUFFICES ASSUME VenuesSound, [Next]_vars PROVE VenuesSound'
    OBVIOUS
  <2>1. part' = part
    BY DEF Next, vars
  <2>2. CASE UNCHANGED vars
    <3>1. ASSUME NEW CONSTANT size, Venue(size)!IInv PROVE Venue(size)!IInv'
      <4>1. /\ v1' \in BOOLEAN /\ v2' \in BOOLEAN /\ v9' = v9
            /\ UNCHANGED <<v3, v4, v5, v6, v7, v8, v12, v13, v14, v15, v16>>
        BY <2>2, <3>1 DEF vars, Venue!IInv, Venue!TypeOK
      <4> QED BY <3>1, <4>1, VenueStutters
    <3> QED BY <2>1, <3>1 DEF VenuesSound
  <2>3. CASE part = "venue" /\ Next
    <3>1. Venue(OneOrder)!Next
      BY <2>3 DEF Next
    <3> QED BY <2>1, <2>3, <3>1, VenueStep DEF VenuesSound
  <2>4. CASE part = "two orders" /\ Next
    <3>1. Venue(TwoOrders)!Next
      BY <2>4 DEF Next
    <3> QED BY <2>1, <2>4, <3>1, VenueStep DEF VenuesSound
  <2>5. CASE part \notin {"venue", "two orders"}
    BY <2>1, <2>5 DEF VenuesSound
  <2> QED BY <2>2, <2>3, <2>4, <2>5
<1>3. VenuesSound => VenueReconciled
  BY DEF VenuesSound, VenueReconciled, Venue!IInv
<1> QED BY <1>1, <1>2, <1>3, PTL DEF Spec

-----------------------------------------------------------------------------
(* The regime model.  v1 is the day, v2 and v3 are the files, v4 the calls  *)
(* and v5 the kills.                                                       *)
LEMMA RegimeStarts == Regime!Init => Regime!IInv
<1> SUFFICES ASSUME Regime!Init PROVE Regime!IInv
  OBVIOUS
<1>1. Regime!TypeOK
  BY ReadingsAssumption
  DEF Regime!Init, Regime!TypeOK, Regime!Idle, Regime!Steps,
      Regime!Fits, Regime!Missing, Regime!Fit, Regime!States
<1>2. \A c \in Callers : v4[c].step = "idle"
  BY DEF Regime!Init, Regime!Idle
<1> QED BY <1>1, <1>2 DEF Regime!IInv, Regime!At

(* A call goes on; what it keeps and what it answers is fresh.              *)
RegimeCalls == [step : Regime!Steps, n : Regime!States, now : 0 .. MaxDay,
                model : Regime!Fits, mixed : BOOLEAN,
                method : {"none", "rules", "hmm", "ewma_override"}]

RegimeFresh(r) == r.mixed \/ (r.model.n = r.n /\ r.now - r.model.day <= StaleAfter)

RegimeSound(r) ==
  /\ r \in RegimeCalls
  /\ r.step \in {"cut pkl", "write pkl", "cut json", "write json", "use"} => RegimeFresh(r)
  /\ r.step = "done" /\ r.method # "rules" => RegimeFresh(r)

THEOREM RegimeStep ==
  ASSUME Regime!IInv, Regime!Next
  PROVE  Regime!IInv'
<1>0. /\ v1 \in 0 .. MaxDay /\ v2 \in Regime!Fits /\ v3 \in Regime!Fits
      /\ v4 \in [Callers -> RegimeCalls] /\ v5 \in 0 .. MaxKills
      /\ MaxDay \in Nat /\ MaxKills \in Nat /\ StaleAfter \in Nat
  BY ReadingsAssumption DEF Regime!IInv, Regime!TypeOK, RegimeCalls
<1>1. \A c \in Callers : RegimeSound(v4[c])
  <2> SUFFICES ASSUME NEW c \in Callers PROVE RegimeSound(v4[c])
    OBVIOUS
  <2>1. v4[c] \in RegimeCalls
    BY <1>0
  <2>2. Regime!Fresh(c) => RegimeFresh(v4[c])
    BY DEF Regime!Fresh, RegimeFresh
  <2> QED BY <2>1, <2>2 DEF Regime!IInv, Regime!At, RegimeSound
<1>2. ASSUME v4' \in [Callers -> RegimeCalls], \A c \in Callers : RegimeSound(v4'[c]),
             v1' \in 0 .. MaxDay, v2' \in Regime!Fits, v3' \in Regime!Fits,
             v5' \in 0 .. MaxKills
      PROVE  Regime!IInv'
  <2>1. Regime!TypeOK'
    BY <1>2 DEF Regime!TypeOK, RegimeCalls
  <2> QED BY <1>2, <2>1 DEF Regime!IInv, Regime!At, Regime!Fresh,
                            RegimeFresh, RegimeSound
<1>3. ASSUME NEW c \in Callers, NEW r, RegimeSound(r), v4' = [v4 EXCEPT ![c] = r],
             v1' = v1, v2' \in Regime!Fits, v3' \in Regime!Fits,
             v5' \in 0 .. MaxKills
      PROVE  Regime!IInv'
  <2>1. v4' \in [Callers -> RegimeCalls] /\ \A d \in Callers : RegimeSound(v4'[d])
    BY <1>0, <1>1, <1>3 DEF RegimeSound
  <2> QED BY <1>0, <1>2, <1>3, <2>1
<1>4. CASE Regime!NextDay
  BY <1>0, <1>1, <1>2, <1>4 DEF Regime!NextDay
<1>5. /\ Regime!Missing \in Regime!Fits
      /\ Regime!Torn \in Regime!Fits
      /\ \A n \in Regime!States, d \in 0 .. MaxDay :
           Regime!Fit(n, d) = [n |-> n, day |-> d]
      /\ RegimeSound(Regime!Idle) /\ RegimeSound(Regime!ByRules)
  <2>1. /\ Regime!Missing \in Regime!Fits
        /\ Regime!Torn \in Regime!Fits
    BY DEF Regime!Fits
  <2>2. /\ Regime!Idle \in RegimeCalls /\ Regime!Idle.step = "idle"
        /\ Regime!ByRules \in RegimeCalls /\ Regime!ByRules.method = "rules"
        /\ Regime!ByRules.step = "done"
    <3>1. /\ "idle" \in Regime!Steps /\ "done" \in Regime!Steps
          /\ 2 \in Regime!States /\ 0 \in 0 .. MaxDay
      BY <1>0 DEF Regime!Steps, Regime!States
    <3>2. Regime!Idle \in RegimeCalls /\ Regime!Idle.step = "idle"
      BY <2>1, <3>1 DEF RegimeCalls, Regime!Idle
    <3> QED BY <3>1, <3>2 DEF RegimeCalls, Regime!ByRules
  <2> QED BY <2>1, <2>2 DEF RegimeSound, Regime!Fit
(* A step of a call under way that goes to another of its steps.            *)
<1>6. ASSUME NEW c \in Callers, NEW step \in Regime!Steps \ {"done"},
             step \in {"write pkl", "cut json", "write json", "use"} => RegimeFresh(v4[c]),
             step \in {"cut pkl"} => FALSE,
             Regime!Goes(c, step)
      PROVE  \E r : RegimeSound(r) /\ v4' = [v4 EXCEPT ![c] = r]
  <2>1. PICK r : r = [v4[c] EXCEPT !.step = step]
    OBVIOUS
  <2>2. v4' = [v4 EXCEPT ![c] = r]
    BY <1>0, <1>6, <2>1 DEF Regime!Goes, RegimeCalls
  <2>3. RegimeSound(r)
    BY <1>0, <1>6, <2>1 DEF RegimeSound, RegimeCalls, RegimeFresh
  <2> QED BY <2>2, <2>3
<1>7. ASSUME NEW c \in Callers, NEW n \in Regime!States, NEW enough \in BOOLEAN,
             Regime!Ask(c, n, enough)
      PROVE  Regime!IInv'
  <2>1. PICK r : r = IF enough THEN [Regime!Idle EXCEPT !.step = "model", !.n = n, !.now = v1]
                               ELSE Regime!ByRules
    OBVIOUS
  <2>2. v4' = [v4 EXCEPT ![c] = r]
    BY <1>7, <2>1 DEF Regime!Ask
  <2>3. CASE enough
    <3>1. RegimeSound(r)
      BY <1>0, <1>5, <2>1, <2>3 DEF RegimeSound, RegimeCalls, Regime!Idle,
                                    Regime!Steps
    <3> QED BY <1>0, <1>3, <1>7, <2>2, <3>1 DEF Regime!Ask
  <2>4. CASE ~enough
    BY <1>0, <1>3, <1>5, <1>7, <2>1, <2>2, <2>4 DEF Regime!Ask
  <2> QED BY <2>3, <2>4
<1>8. ASSUME NEW c \in Callers, Regime!LoadModel(c) PROVE Regime!IInv'
  <2>1. CASE Regime!Goes(c, "fit")
    <3>1. \E r : RegimeSound(r) /\ v4' = [v4 EXCEPT ![c] = r]
      BY <1>6, <2>1 DEF Regime!Steps
    <3> QED BY <1>0, <1>3, <1>8, <3>1 DEF Regime!LoadModel
  <2>2. CASE v4' = [v4 EXCEPT ![c].step = "sidecar", ![c].model = v2]
    <3>1. PICK r : r = [v4[c] EXCEPT !.step = "sidecar", !.model = v2]
      OBVIOUS
    <3>2. v4' = [v4 EXCEPT ![c] = r] /\ RegimeSound(r)
      BY <1>0, <2>2, <3>1 DEF RegimeSound, RegimeCalls, Regime!Steps
    <3> QED BY <1>0, <1>3, <1>8, <3>2 DEF Regime!LoadModel
  <2> QED BY <1>8, <2>1, <2>2 DEF Regime!LoadModel
<1>9. ASSUME NEW c \in Callers, Regime!LoadSidecar(c) PROVE Regime!IInv'
  <2> DEFINE usable == /\ Regime!Whole(v3) /\ v3.n = v4[c].n
                       /\ ~Regime!IsStale(v3.day, v4[c].now)
             mixed == usable /\ v3 # v4[c].model
  <2>1. PICK r : r = [v4[c] EXCEPT !.step = IF usable THEN "use" ELSE "fit", !.mixed = mixed]
    OBVIOUS
  <2>2. v4' = [v4 EXCEPT ![c] = r]
    BY <1>0, <1>9, <2>1 DEF Regime!LoadSidecar, RegimeCalls
  <2>3. r \in RegimeCalls
    BY <1>0, <2>1 DEF RegimeCalls, Regime!Steps
  <2>4. CASE ~usable
    <3>1. RegimeSound(r)
      BY <1>0, <2>1, <2>3, <2>4 DEF RegimeSound, RegimeCalls
    <3> QED BY <1>0, <1>3, <1>9, <2>2, <3>1 DEF Regime!LoadSidecar
  <2>5. CASE usable
    <3>1. v3.day \in Int /\ v4[c].now \in Int
      BY <1>0 DEF RegimeCalls, Regime!Fits, Regime!Missing, Regime!Torn,
                  Regime!Fit
    <3>2. r.mixed = (v3 # v4[c].model) /\ r.model = v4[c].model /\ r.n = v4[c].n
          /\ r.now = v4[c].now /\ r.step = "use"
      BY <1>0, <2>1, <2>5 DEF RegimeCalls
    <3>3. RegimeFresh(r)
      <4>1. CASE v3 # v4[c].model
        BY <3>2, <4>1 DEF RegimeFresh
      <4>2. CASE v3 = v4[c].model
        <5>1. v3.n = v4[c].n /\ v4[c].now - v3.day <= StaleAfter
          BY <1>0, <2>5, <3>1 DEF Regime!IsStale
        <5> QED BY <3>2, <4>2, <5>1 DEF RegimeFresh
      <4> QED BY <4>1, <4>2
    <3>4. RegimeSound(r)
      BY <2>3, <3>2, <3>3 DEF RegimeSound
    <3> QED BY <1>0, <1>3, <1>9, <2>2, <3>4 DEF Regime!LoadSidecar
  <2> QED BY <2>4, <2>5
<1>10. ASSUME NEW c \in Callers, NEW converges \in BOOLEAN, Regime!Refit(c, converges)
       PROVE  Regime!IInv'
  <2>1. CASE ~converges
    BY <1>0, <1>3, <1>5, <1>10, <2>1 DEF Regime!Refit
  <2>2. CASE converges
    <3>1. v4[c] \in RegimeCalls /\ v4[c].n \in Regime!States /\ v4[c].now \in 0 .. MaxDay
      BY <1>0 DEF RegimeCalls
    <3>2. PICK f : f = Regime!Fit(v4[c].n, v4[c].now)
      OBVIOUS
    <3>3. f \in Regime!Fits /\ f.n = v4[c].n /\ f.day = v4[c].now
      BY <1>5, <3>1, <3>2 DEF Regime!Fits
    <3>4. PICK r : r = [v4[c] EXCEPT !.step = "cut pkl", !.model = f]
      OBVIOUS
    <3>5. v4' = [v4 EXCEPT ![c] = r]
      BY <1>10, <2>2, <3>2, <3>4 DEF Regime!Refit
    <3>6. r \in RegimeCalls /\ r.step = "cut pkl" /\ r.model = f /\ r.n = v4[c].n /\ r.now = v4[c].now
      BY <3>1, <3>3, <3>4 DEF RegimeCalls, Regime!Steps
    <3>7. RegimeFresh(r)
      <4>1. r.model.n = r.n /\ r.model.day = r.now
        BY <3>3, <3>6
      <4>2. r.now \in Int
        <5>1. r.now \in 0 .. MaxDay
          BY <3>1, <3>6
        <5> QED BY <1>0, <5>1
      <4>3. r.now - r.model.day <= StaleAfter
        BY <1>0, <4>1, <4>2
      <4> QED BY <4>1, <4>3 DEF RegimeFresh
    <3>8. RegimeSound(r)
      BY <3>6, <3>7 DEF RegimeSound
    <3> QED BY <1>0, <1>3, <1>10, <3>5, <3>8 DEF Regime!Refit
  <2> QED BY <2>1, <2>2
<1>11. ASSUME NEW c \in Callers, Regime!PersistModel(c) \/ Regime!PersistSidecar(c)
       PROVE  Regime!IInv'
  <2>1. RegimeFresh(v4[c]) /\ v4[c] \in RegimeCalls
    BY <1>0, <1>1, <1>11 DEF Regime!PersistModel, Regime!PersistSidecar,
                             Regime!At, RegimeSound
  <2>2. PICK step \in {"write pkl", "cut json", "write json", "use"} : Regime!Goes(c, step)
    BY <1>11 DEF Regime!PersistModel, Regime!PersistSidecar
  <2>3. \E r : RegimeSound(r) /\ v4' = [v4 EXCEPT ![c] = r]
    BY <1>6, <2>1, <2>2 DEF Regime!Steps
  <2>4. Regime!Fit(v4[c].n, v4[c].now) \in Regime!Fits
    <3>1. v4[c].n \in Regime!States /\ v4[c].now \in 0 .. MaxDay
      BY <2>1 DEF RegimeCalls
    <3> QED BY <3>1 DEF Regime!Fits, Regime!Fit
  <2>5. /\ v1' = v1 /\ v5' = v5
        /\ v2' \in Regime!Fits /\ v3' \in Regime!Fits
    BY <1>0, <1>5, <1>11, <2>1, <2>4 DEF Regime!PersistModel,
                                         Regime!PersistSidecar, RegimeCalls
  <2> QED BY <1>0, <1>3, <2>3, <2>5
<1>12. ASSUME NEW c \in Callers, NEW override \in BOOLEAN, Regime!Use(c, override)
       PROVE  Regime!IInv'
  <2>1. PICK r : r = Regime!ByModel(v4[c], override)
    OBVIOUS
  <2>2. v4' = [v4 EXCEPT ![c] = r]
    BY <1>12, <2>1 DEF Regime!Use
  <2>3. RegimeFresh(v4[c]) /\ v4[c] \in RegimeCalls
    BY <1>0, <1>1, <1>12 DEF Regime!Use, Regime!At, RegimeSound
  <2>4. /\ r \in RegimeCalls /\ r.step = "done" /\ r.model = v4[c].model /\ r.n = v4[c].n
        /\ r.now = v4[c].now /\ r.mixed = v4[c].mixed
    BY <2>1, <2>3 DEF RegimeCalls, Regime!ByModel, Regime!Steps
  <2>5. RegimeSound(r)
    BY <2>3, <2>4 DEF RegimeSound, RegimeFresh
  <2> QED BY <1>0, <1>3, <1>12, <2>2, <2>5 DEF Regime!Use
<1>13. ASSUME NEW c \in Callers, Regime!Kill(c) PROVE Regime!IInv'
  <2>1. v4' = [v4 EXCEPT ![c] = Regime!Idle] /\ v5' \in 0 .. MaxKills
    BY <1>0, <1>13 DEF Regime!Kill
  <2> QED BY <1>0, <1>3, <1>5, <1>13, <2>1 DEF Regime!Kill
<1> QED BY <1>4, <1>7, <1>8, <1>9, <1>10, <1>11, <1>12, <1>13 DEF Regime!Next

-----------------------------------------------------------------------------
(* The bars.  v1 is the source, v2 the venue's clock, v3 the drift, v4 the  *)
(* cache, v5 the calls, v6 the trouble and v7 says that a clock ran ahead.  *)
LEMMA Times == \A x, y \in Nat : x * y \in Nat
  OBVIOUS

(* Bars of one width keep their order in time.                              *)
LEMMA BarsInTime ==
  ASSUME NEW W \in Nat \ {0}, NEW b \in Int, NEW m \in Int
  PROVE  /\ b < m => (b + 1) * W <= m * W /\ b * W < m * W
         /\ b * W < m * W => b < m
<1>1. ASSUME b < m PROVE (b + 1) * W <= m * W /\ b * W < m * W
  <2>1. (m - (b + 1)) * W \in Nat
    BY <1>1, Times
  <2>2. (m - (b + 1)) * W = m * W - (b + 1) * W /\ (b + 1) * W = b * W + W
    OBVIOUS
  <2> QED BY <2>1, <2>2
<1>2. ASSUME m <= b PROVE m * W <= b * W
  <2>1. (b - m) * W \in Nat
    BY <1>2, Times
  <2>2. (b - m) * W = b * W - m * W
    OBVIOUS
  <2> QED BY <2>1, <2>2
<1> QED BY <1>1, <1>2

LEMMA Multiples ==
  ASSUME NEW W \in Nat \ {0}, NEW t \in Int, t % W = 0
  PROVE  \E m \in Int : t = m * W
<1>1. t = (t \div W) * W + (t % W) /\ t \div W \in Int
  OBVIOUS
<1> QED BY <1>1

LEMMA MinOfTwo ==
  ASSUME NEW a \in Int, NEW b \in Int
  PROVE  Market!Min({a, b}) = IF a <= b THEN a ELSE b
BY DEF Market!Min

LEMMA MinOf ==
  ASSUME NEW S, S \subseteq Nat, S # {}
  PROVE  Market!Min(S) \in S /\ \A x \in S : Market!Min(S) <= x
<1> DEFINE R == {ss \in Nat \X Nat : ss[1] < ss[2]}
<1>1. IsWellFoundedOn(R, Nat)
  BY ONLY NatLessThanWellFounded, Zenon DEF OpToRel
<1>2. \A x, y \in Nat : (<<y, x>> \in R) <=> y < x
  OBVIOUS
<1> HIDE DEF R
<1>3. \E x \in S : \A y \in S : ~ (<<y, x>> \in R)
  BY ONLY <1>1, S \subseteq Nat, S # {}, WFMin, Zenon
<1>4. PICK x \in S : \A y \in S : ~ (<<y, x>> \in R)
  BY <1>3
<1>5. ASSUME NEW y \in S PROVE x <= y
  <2>1. ~ (y < x)
    BY <1>2, <1>4
  <2> QED BY <2>1
<1> QED BY <1>5 DEF Market!Min

(* A set of numbers with a bound has a greatest one.                        *)
LEMMA MaxOf ==
  ASSUME NEW N \in Nat, NEW S, S \subseteq 0 .. N, S # {}
  PROVE  Market!Max(S) \in S /\ \A x \in S : x <= Market!Max(S)
<1> DEFINE T == {N - x : x \in S}
<1>1. T \subseteq Nat /\ T # {}
  <2>1. PICK x : x \in S
    OBVIOUS
  <2>2. N - x \in T
    BY <2>1
  <2> QED BY <2>2
<1>2. Market!Min(T) \in T /\ \A x \in T : Market!Min(T) <= x
  BY ONLY <1>1, MinOf
<1>3. PICK m \in S : Market!Min(T) = N - m
  BY <1>2
<1>4. ASSUME NEW x \in S PROVE x <= m
  <2>1. N - m <= N - x
    BY <1>2, <1>3
  <2> QED BY <2>1
<1> QED BY <1>4 DEF Market!Max

LEMMA MarketSizes ==
  /\ Width \in Nat \ {0} /\ Lookback \in Nat \ {0} /\ PageSize \in Nat \ {0}
  /\ MaxPages \in Nat \ {0} /\ MaxAttempts \in Nat \ {0} /\ Capacity \in Nat \ {0}
  /\ MaxTime \in Nat /\ MaxTrouble \in Nat
  /\ Lookback * Width \in Nat /\ Lookback * Width < MaxTime
  /\ MaxTime \div Width \in Nat /\ Market!Bars = 0 .. (MaxTime \div Width)
<1>1. Width \in Nat \ {0} /\ Lookback \in Nat \ {0} /\ MaxTime \in Nat
  BY ReadingsAssumption
<1>2. Lookback * Width \in Nat /\ MaxTime \div Width \in Nat
  BY <1>1, Times
<1> QED BY <1>1, <1>2, ReadingsAssumption DEF Market!Bars

LEMMA LastBar ==
  Market!Bars \subseteq Nat /\ Market!Max(Market!Bars) \in Nat /\ \A b \in Market!Bars : b <= Market!Max(Market!Bars)
<1>1. PICK n \in Nat : Market!Bars = 0 .. n
  BY MarketSizes
<1>2. Market!Bars \subseteq 0 .. n /\ Market!Bars # {}
  BY <1>1
<1>3. Market!Max(Market!Bars) \in Market!Bars /\ \A b \in Market!Bars : b <= Market!Max(Market!Bars)
  BY ONLY <1>1, <1>2, MaxOf
<1> QED BY <1>1, <1>3

-----------------------------------------------------------------------------
MarketCalls ==
  [step : {"idle", "read", "acquire", "request", "store", "answered", "raised"},
   end : 0 .. MaxTime + 1, got : [Market!Bars -> 0 .. Width], from : Nat,
   pages : 0 .. MaxPages, attempt : 0 .. MaxAttempts,
   tokens : 0 .. Capacity, checked : 0 .. MaxTime, began : 0 .. MaxTime,
   stale : BOOLEAN]

(* What the invariant says of one call.                                     *)
RangeOf(r) == {b \in Market!Bars : r.end - Lookback * Width <= b * Width /\ b * Width < r.end}

CompleteIn(r) == \A b \in RangeOf(r) : Market!Final(b, r.end) => r.got[b] = Width

CaughtIn(r) ==
  /\ r.step \in {"read", "acquire", "request", "store"} =>
       /\ r.end <= v2 /\ ~r.stale
       /\ \A b \in Market!Bars : Market!Final(b, r.end) => r.got[b] \in {0, Width}
  /\ r.step \in {"acquire", "request"} =>
       \A b \in RangeOf(r) : IF b < r.from THEN Market!Final(b, r.end) => r.got[b] = Width
                                           ELSE r.from \in RangeOf(r)
  /\ r.step = "store" => CompleteIn(r)

AnswersIn(r) ==
  r.step = "answered" =>
    /\ ~r.stale => CompleteIn(r)
    /\ v1 # "yfinance" =>
         \A b \in Market!Bars : r.got[b] # 0 => Market!Final(b, r.end) /\ r.got[b] = Width
    /\ r.stale => \A b \in Market!Bars : r.got[b] \in {0, Width}

PaidIn(r) ==
  /\ r.began <= r.checked /\ r.checked <= v2
  /\ v1 # "yfinance" =>
       r.tokens + r.pages + (IF r.step = "request" THEN 1 ELSE 0)
         <= Capacity + (r.checked - r.began)

MarketSound(r) == r \in MarketCalls /\ PaidIn(r) /\ (v7 \/ (CaughtIn(r) /\ AnswersIn(r)))

MarketState ==
  /\ v1 \in Market!Sources /\ v2 \in 0 .. MaxTime /\ v3 \in -1 .. 1
  /\ v4 \in [Market!Bars -> 0 .. Width] /\ v6 \in 0 .. MaxTrouble /\ v7 \in BOOLEAN
  /\ v7 \/ \A b \in Market!Bars : v4[b] \in {0, Width}

LEMMA MarketByCall ==
  Market!IInv => MarketState /\ v5 \in [Callers -> MarketCalls] /\ \A c \in Callers : MarketSound(v5[c])
<1> SUFFICES ASSUME Market!IInv
             PROVE  /\ MarketState /\ v5 \in [Callers -> MarketCalls]
                    /\ \A c \in Callers : MarketSound(v5[c])
  OBVIOUS
<1>1. MarketState /\ v5 \in [Callers -> MarketCalls]
  BY DEF Market!IInv, Market!TypeOK, Market!BarsAreFinal, Market!CacheIsFinal, MarketState,
         MarketCalls
<1>2. ASSUME NEW c \in Callers PROVE MarketSound(v5[c])
  <2>1. Market!InRange(c) = RangeOf(v5[c])
    BY DEF Market!InRange, Market!Start, RangeOf
  <2>2. PaidIn(v5[c])
    BY DEF Market!IInv, Market!Paid, PaidIn, Market!At
  <2>3. v7 \/ CaughtIn(v5[c])
    BY <2>1 DEF Market!IInv, Market!Caught, CaughtIn, Market!At, Market!UnderWay, Market!Complete,
                CompleteIn
  <2>4. v7 \/ AnswersIn(v5[c])
    BY <2>1 DEF Market!IInv, Market!BarsAreFinal, AnswersIn, Market!At, Market!Complete, CompleteIn,
                Market!NothingLive
  <2> QED BY <1>1, <2>2, <2>3, <2>4 DEF MarketSound
<1> QED BY <1>1, <1>2

LEMMA MarketOfCalls ==
  MarketState /\ v5 \in [Callers -> MarketCalls] /\ (\A q \in Callers : MarketSound(v5[q]))
    => Market!IInv
<1> SUFFICES ASSUME MarketState, v5 \in [Callers -> MarketCalls],
                    \A c \in Callers : MarketSound(v5[c])
             PROVE  Market!IInv
  OBVIOUS
<1>1. Market!TypeOK
  BY DEF Market!TypeOK, MarketState, MarketCalls
<1>2. \A c \in Callers : Market!InRange(c) = RangeOf(v5[c])
  BY DEF Market!InRange, Market!Start, RangeOf
<1>3. \A c \in Callers : Market!Paid(c)
  BY DEF MarketSound, Market!Paid, PaidIn, Market!At
<1>4. \A c \in Callers : v7 \/ Market!Caught(c)
  BY <1>2 DEF MarketSound, Market!Caught, CaughtIn, Market!At, Market!UnderWay, Market!Complete,
              CompleteIn
<1>5. Market!BarsAreFinal
  BY <1>2 DEF MarketSound, MarketState, Market!CacheIsFinal, Market!BarsAreFinal, AnswersIn,
              Market!At, Market!Complete,
              CompleteIn, Market!NothingLive
<1> QED BY <1>1, <1>3, <1>4, <1>5 DEF Market!IInv

LEMMA MarketOfCallsNext ==
  (MarketState /\ v5 \in [Callers -> MarketCalls] /\ (\A q \in Callers : MarketSound(v5[q]))
    => Market!IInv)'
BY MarketOfCalls, PTL

(* Nothing but the venue's clock and what is shared changes.                *)
LEMMA MarketStands ==
  ASSUME Market!IInv, MarketState', v5' = v5, v1' = v1, v7 => v7', v2 <= v2'
  PROVE  Market!IInv'
<1>1. \A c \in Callers : MarketSound(v5[c])'
  <2> SUFFICES ASSUME NEW c \in Callers PROVE MarketSound(v5[c])'
    OBVIOUS
  <2>1. MarketSound(v5[c]) /\ v2 \in Int /\ v2' \in Int
    BY MarketByCall, MarketSizes DEF MarketState
  <2> QED BY <2>1 DEF MarketSound, MarketCalls, PaidIn, CaughtIn, AnswersIn, CompleteIn, RangeOf
<1> QED BY <1>1, MarketByCall, MarketOfCallsNext

(* One call goes on.                                                        *)
LEMMA MarketCallGoes ==
  ASSUME Market!IInv, NEW c \in Callers, NEW r, MarketSound(r)', v5' = [v5 EXCEPT ![c] = r],
         MarketState', UNCHANGED <<v1, v2>>, v7 => v7'
  PROVE  Market!IInv'
<1>1. v5' \in [Callers -> MarketCalls] /\ \A q \in Callers : MarketSound(v5[q])'
  <2>1. v5 \in [Callers -> MarketCalls] /\ r \in MarketCalls
    BY MarketByCall DEF MarketSound, MarketCalls
  <2>2. v5'[c] = r /\ \A q \in Callers : q # c => v5'[q] = v5[q]
    BY <2>1
  <2>3. ASSUME NEW q \in Callers, q # c PROVE MarketSound(v5[q])'
    <3>1. MarketSound(v5[q]) /\ v5'[q] = v5[q]
      BY <2>2, <2>3, MarketByCall
    <3> QED BY <3>1 DEF MarketSound, MarketCalls, PaidIn, CaughtIn, AnswersIn, CompleteIn, RangeOf
  <2> QED BY <2>1, <2>2, <2>3
<1> QED BY <1>1, MarketOfCallsNext

LEMMA MarketIdle == Market!Idle \in MarketCalls /\ Market!Idle.step = "idle"
  BY MarketSizes DEF Market!Idle, MarketCalls, Market!NoBars

LEMMA MarketStarts == Market!Init => Market!IInv
<1> SUFFICES ASSUME Market!Init PROVE Market!IInv
  OBVIOUS
<1>1. \A c \in Callers : v5[c] = Market!Idle
  BY DEF Market!Init
<1>2. MarketState
  <2>1. v2 \in 0 .. MaxTime
    BY MarketSizes DEF Market!Init
  <2>2. v4 \in [Market!Bars -> 0 .. Width] /\ \A b \in Market!Bars : v4[b] = 0
    BY MarketSizes DEF Market!Init, Market!NoBars
  <2>3. v1 \in Market!Sources /\ 0 \in -1 .. 1 /\ v3 = 0
    BY DEF Market!Init
  <2>4. v6 \in 0 .. MaxTrouble /\ v7 = FALSE
    BY MarketSizes DEF Market!Init
  <2> QED BY <2>1, <2>2, <2>3, <2>4 DEF MarketState
<1>3. MarketSound(Market!Idle)
  <2>1. PaidIn(Market!Idle)
    BY MarketSizes DEF Market!Init, PaidIn, Market!Idle
  <2> QED BY <2>1, MarketIdle DEF MarketSound, CaughtIn, AnswersIn
<1> QED BY <1>1, <1>2, <1>3, MarketIdle, MarketOfCalls DEF Market!Init

-----------------------------------------------------------------------------
(* The clocks, and the cache that is deleted.                               *)
LEMMA MarketShared ==
  ASSUME Market!IInv, Market!Tick \/ Market!ClockStep \/ Market!DeleteCache
  PROVE  Market!IInv'
<1>1. MarketState'
  <2>0. MarketState
    BY MarketByCall
  <2>1. CASE Market!Tick
    BY <2>0, <2>1, MarketSizes DEF Market!Tick, MarketState
  <2>2. CASE Market!ClockStep
    BY <2>0, <2>2, MarketSizes DEF Market!ClockStep, Market!Troubles, MarketState
  <2>3. CASE Market!DeleteCache
    BY <2>0, <2>3, MarketSizes DEF Market!DeleteCache, Market!Troubles, Market!NoBars, MarketState
  <2> QED BY <2>1, <2>2, <2>3
<1>2. v5' = v5 /\ v1' = v1 /\ (v7 => v7') /\ v2 <= v2'
  BY MarketByCall, MarketSizes DEF Market!Tick, Market!ClockStep, Market!DeleteCache, MarketState
<1> QED BY <1>1, <1>2, MarketStands

LEMMA MarketAsk ==
  ASSUME Market!IInv, NEW c \in Callers, Market!Ask(c)
  PROVE  Market!IInv'
<1>0. MarketState /\ v1' = v1 /\ v2' = v2
  BY MarketByCall DEF Market!Ask
<1>1. PICK r : r = [Market!Idle EXCEPT !.step = "read", !.end = v2 + v3, !.checked = v2, !.began = v2]
  OBVIOUS
<1>2. v5' = [v5 EXCEPT ![c] = r] /\ v7' = (v7 \/ v3 > 0)
  BY <1>1 DEF Market!Ask
<1>3. MarketState'
  BY <1>0, <1>2 DEF Market!Ask, MarketState
<1>4. r \in MarketCalls
  <2>1. v2 \in 0 .. MaxTime /\ v2 + v3 \in 0 .. MaxTime + 1
    <3>1. v2 + v3 >= Lookback * Width
      BY DEF Market!Ask
    <3>2. v2 \in 0 .. MaxTime /\ v3 \in -1 .. 1
      BY <1>0 DEF MarketState
    <3> QED BY <3>1, <3>2, MarketSizes
  <2> QED BY <1>1, <2>1, MarketIdle DEF MarketCalls, Market!Idle
<1>5. /\ r.step = "read" /\ r.end = v2 + v3 /\ r.checked = v2 /\ r.began = v2
      /\ r.tokens = Capacity /\ r.pages = 0 /\ r.stale = FALSE /\ r.got = Market!NoBars
  BY <1>1 DEF Market!Idle
<1>6. PaidIn(r)'
  BY <1>0, <1>5, MarketSizes DEF PaidIn, MarketState
<1>7. v7' \/ CaughtIn(r)'
  <2>1. v2 \in Int /\ v3 \in Int /\ (~v7' => v2 + v3 <= v2)
    <3>1. v2 \in Int /\ v3 \in Int
      BY <1>0, MarketSizes DEF MarketState
    <3>2. ~v7' => ~(v3 > 0)
      BY <1>2
    <3> QED BY <3>1, <3>2
  <2>2. \A b \in Market!Bars : r.got[b] = 0
    BY <1>5 DEF Market!NoBars
  <2> QED BY <1>0, <1>5, <2>1, <2>2 DEF CaughtIn
<1>8. AnswersIn(r)'
  BY <1>5 DEF AnswersIn
<1>9. MarketSound(r)'
  BY <1>4, <1>6, <1>7, <1>8 DEF MarketSound, MarketCalls
<1> QED BY <1>0, <1>2, <1>3, <1>9, MarketCallGoes DEF MarketState

-----------------------------------------------------------------------------
(* A call goes on at one moment.                                            *)
LEMMA MarketCallMoves ==
  ASSUME Market!IInv, NEW c \in Callers, NEW r, MarketSound(r), v5' = [v5 EXCEPT ![c] = r],
         MarketState', UNCHANGED <<v1, v2, v7>>
  PROVE  Market!IInv'
<1>1. MarketSound(r)'
  BY DEF MarketSound, MarketCalls, PaidIn, CaughtIn, AnswersIn, CompleteIn, RangeOf
<1> QED BY <1>1, MarketCallGoes

(* The bars of a range are all the bars between two of them, and each of    *)
(* them has closed by its end when it begins with a bar.                    *)
LEMMA RangeIsWhole ==
  ASSUME NEW r, r.end \in Int, NEW b \in RangeOf(r), NEW d \in RangeOf(r),
         NEW k \in Int, b <= k, k <= d
  PROVE  k \in RangeOf(r)
<1>1. b \in Int /\ d \in Int /\ k \in Market!Bars /\ Width \in Nat \ {0}
  BY MarketSizes DEF RangeOf
<1>2. b * Width <= k * Width /\ k * Width <= d * Width
  BY <1>1, BarsInTime
<1>3. b * Width \in Int /\ k * Width \in Int /\ d * Width \in Int /\ Lookback * Width \in Int
  BY <1>1, MarketSizes
<1> QED BY <1>1, <1>2, <1>3 DEF RangeOf

LEMMA RangeIsClosed ==
  ASSUME NEW r, r.end \in Int, (r.end - Lookback * Width) % Width = 0, NEW b \in RangeOf(r)
  PROVE  Market!Final(b, r.end)
<1>1. Width \in Nat \ {0} /\ Lookback \in Int /\ b \in Int /\ b * Width < r.end
  BY MarketSizes DEF RangeOf
<1>2. PICK m \in Int : r.end - Lookback * Width = m * Width
  <2> DEFINE t == r.end - Lookback * Width
  <2>1. t \in Int /\ t % Width = 0
    BY <1>1, MarketSizes
  <2> HIDE DEF t
  <2>2. \E m \in Int : t = m * Width
    BY ONLY <1>1, <2>1, Multiples
  <2> QED BY <2>2 DEF t
<1>3. r.end = (m + Lookback) * Width
  BY <1>1, <1>2
<1>4. b < m + Lookback
  BY <1>1, <1>3, BarsInTime
<1> QED BY <1>1, <1>3, <1>4, BarsInTime DEF Market!Final

LEMMA MarketReadCache ==
  ASSUME Market!IInv, NEW c \in Callers, Market!ReadCache(c)
  PROVE  Market!IInv'
<1>0. MarketState /\ MarketState' /\ UNCHANGED <<v1, v2, v7>>
  BY MarketByCall DEF Market!ReadCache, MarketState
<1> DEFINE u == v5[c]
<1>1. /\ MarketSound(u) /\ u \in MarketCalls /\ u.step = "read" /\ Market!InRange(c) = RangeOf(u)
      /\ u.end \in Int
  <2>1. MarketSound(u) /\ u \in MarketCalls /\ u.step = "read"
    BY MarketByCall DEF Market!ReadCache, Market!At
  <2>2. u.end \in 0 .. MaxTime + 1
    BY <2>1 DEF MarketCalls
  <2> QED BY <2>1, <2>2, MarketSizes DEF Market!InRange, Market!Start, RangeOf
<1>2. CASE Market!Hit(c)
  <2>1. PICK g : g = [b \in Market!Bars |-> IF b \in RangeOf(u) THEN v4[b] ELSE 0]
    OBVIOUS
  <2>2. PICK r : r = [u EXCEPT !.step = "answered", !.got = g]
    OBVIOUS
  <2>3. v5' = [v5 EXCEPT ![c] = r]
    BY <1>1, <1>2, <2>1, <2>2 DEF Market!ReadCache
  <2>4. g \in [Market!Bars -> 0 .. Width] /\ \A b \in Market!Bars : g[b] = IF b \in RangeOf(u) THEN v4[b] ELSE 0
    BY <1>0, <2>1, MarketSizes DEF MarketState
  <2>5. /\ r \in MarketCalls /\ r.step = "answered" /\ r.got = g /\ r.end = u.end
        /\ r.tokens = u.tokens /\ r.pages = u.pages /\ r.began = u.began /\ r.checked = u.checked
    BY <1>1, <2>2, <2>4 DEF MarketCalls
  <2>6. PaidIn(r)
    BY <1>1, <2>5 DEF MarketSound, PaidIn
  <2>7. \A b \in RangeOf(u) : v4[b] # 0 /\ Market!Final(b, u.end)
    BY <1>1, <1>2, RangeIsClosed DEF Market!Hit, Market!Start
  <2>8. v7 \/ AnswersIn(r)
    <3>1. RangeOf(r) = RangeOf(u) /\ RangeOf(u) \subseteq Market!Bars
      BY <2>5 DEF RangeOf
    <3>2. CASE ~v7
      <4>1. \A b \in Market!Bars : v4[b] \in {0, Width}
        BY <1>0, <3>2 DEF MarketState
      <4>2. \A b \in RangeOf(u) : g[b] = Width
        BY <2>4, <2>7, <3>1, <4>1
      <4>3. \A b \in Market!Bars : g[b] # 0 => Market!Final(b, u.end) /\ g[b] = Width
        BY <2>4, <2>7, <4>2
      <4>4. \A b \in Market!Bars : g[b] \in {0, Width}
        BY <4>3
      <4> QED BY <2>5, <3>1, <4>2, <4>3, <4>4 DEF AnswersIn, CompleteIn
    <3> QED BY <3>2
  <2>9. MarketSound(r)
    BY <2>5, <2>6, <2>8 DEF MarketSound, CaughtIn
  <2> QED BY <1>0, <2>3, <2>9, MarketCallMoves
<1>3. CASE ~Market!Hit(c)
  <2>1. PICK k : k = Market!Min(RangeOf(u) \union {Market!Max(Market!Bars) + 1})
    OBVIOUS
  <2>2. k \in Nat /\ \A b \in RangeOf(u) : k <= b /\ k \in RangeOf(u)
    <3>1. PICK m \in Nat : m = Market!Max(Market!Bars) + 1 /\ \A b \in Market!Bars : b < m
      <4>1. PICK n \in Nat : n = Market!Max(Market!Bars) /\ \A b \in Market!Bars : b \in Nat /\ b <= n
        BY LastBar
      <4> QED BY <4>1
    <3> DEFINE S == RangeOf(u) \union {m}
    <3>2. S \subseteq Nat /\ S # {} /\ \A b \in RangeOf(u) : b \in S /\ b \in Nat /\ b < m
      BY <3>1, LastBar DEF RangeOf
    <3>3. k = Market!Min(S) /\ \A x \in S : x \in RangeOf(u) \/ x = m
      BY <2>1, <3>1
    <3> HIDE DEF S
    <3>4. k \in S /\ \A x \in S : k <= x
      BY ONLY <3>2, <3>3, MinOf
    <3>5. k \in Nat
      BY <3>2, <3>4
    <3>6. \A b \in RangeOf(u) : k <= b /\ k # m
      BY <3>1, <3>2, <3>4, <3>5
    <3> QED BY <3>3, <3>4, <3>5, <3>6
  <2>3. PICK r : r = [u EXCEPT !.step = "acquire", !.from = k]
    OBVIOUS
  <2>4. v5' = [v5 EXCEPT ![c] = r]
    BY <1>1, <1>3, <2>1, <2>3 DEF Market!ReadCache
  <2>5. /\ r \in MarketCalls /\ r.step = "acquire" /\ r.got = u.got /\ r.end = u.end
        /\ r.tokens = u.tokens /\ r.pages = u.pages /\ r.began = u.began /\ r.checked = u.checked
        /\ r.from = k /\ r.stale = u.stale
    BY <1>1, <2>2, <2>3 DEF MarketCalls
  <2>6. PaidIn(r)
    BY <1>1, <2>5 DEF MarketSound, PaidIn
  <2>7. \A b \in RangeOf(u) : ~(b < k) /\ k \in RangeOf(u)
    <3>1. \A b \in RangeOf(u) : b \in Int
      BY MarketSizes DEF RangeOf
    <3> QED BY <2>2, <3>1
  <2>8. RangeOf(r) = RangeOf(u)
    BY <2>5 DEF RangeOf
  <2>9. v7 \/ CaughtIn(r)
    BY <1>1, <2>5, <2>7, <2>8 DEF MarketSound, CaughtIn
  <2>10. MarketSound(r)
    BY <2>5, <2>6, <2>9 DEF MarketSound, AnswersIn
  <2> QED BY <1>0, <2>4, <2>10, MarketCallMoves
<1> QED BY <1>2, <1>3

LEMMA MarketAcquire ==
  ASSUME Market!IInv, NEW c \in Callers, Market!Acquire(c)
  PROVE  Market!IInv'
<1>0. MarketState /\ MarketState' /\ UNCHANGED <<v1, v2, v7>>
  BY MarketByCall DEF Market!Acquire, MarketState
<1> DEFINE u == v5[c]
<1>1. MarketSound(u) /\ u \in MarketCalls /\ u.step = "acquire"
  BY MarketByCall DEF Market!Acquire, Market!At
<1>2. PICK t : t = IF v1 = "yfinance" THEN u.tokens ELSE Market!Refilled(c) - 1
  OBVIOUS
<1>3. PICK r : r = [u EXCEPT !.step = "request", !.attempt = 0, !.tokens = t, !.checked = v2]
  OBVIOUS
<1>4. v5' = [v5 EXCEPT ![c] = r]
  <2>1. v5 \in [Callers -> MarketCalls]
    BY MarketByCall
  <2> QED BY <1>2, <1>3, <2>1 DEF Market!Acquire, MarketCalls
<1>5. /\ v2 \in Int /\ Capacity \in Int /\ u.tokens \in 0 .. Capacity /\ u.checked \in Int
      /\ u.began \in Int /\ u.pages \in Int /\ v2 \in 0 .. MaxTime
  BY <1>0, <1>1, MarketSizes DEF MarketState, MarketCalls
<1>6. u.began <= u.checked /\ u.checked <= v2
  BY <1>1 DEF MarketSound, PaidIn
<1>7. v1 # "yfinance" =>
        /\ t \in Int /\ t >= 0 /\ t + 1 <= Capacity /\ t + 1 <= u.tokens + (v2 - u.checked)
  <2>1. Market!Refilled(c) = IF Capacity <= u.tokens + (v2 - u.checked)
                      THEN Capacity ELSE u.tokens + (v2 - u.checked)
    BY <1>5, MinOfTwo DEF Market!Refilled
  <2>2. v1 # "yfinance" => Market!Refilled(c) >= 1
    BY DEF Market!Acquire
  <2> QED BY <1>2, <1>5, <2>1, <2>2
<1>8. t \in 0 .. Capacity
  BY <1>2, <1>5, <1>7
<1>9. /\ r \in MarketCalls /\ r.step = "request" /\ r.got = u.got /\ r.end = u.end
      /\ r.tokens = t /\ r.pages = u.pages /\ r.began = u.began /\ r.checked = v2
      /\ r.from = u.from /\ r.stale = u.stale
  <2>1. 0 \in 0 .. MaxAttempts
    BY MarketSizes
  <2> QED BY <1>1, <1>3, <1>5, <1>8, <2>1 DEF MarketCalls
<1>10. PaidIn(r)
  <2>1. v1 # "yfinance" => u.tokens + u.pages <= Capacity + (u.checked - u.began)
    BY <1>1, <1>5 DEF MarketSound, PaidIn
  <2>2. v1 # "yfinance" => t + u.pages + 1 <= Capacity + (v2 - u.began)
    BY <1>5, <1>7, <2>1
  <2> QED BY <1>5, <1>6, <1>9, <2>2 DEF PaidIn
<1>11. RangeOf(r) = RangeOf(u)
  BY <1>9 DEF RangeOf
<1>12. v7 \/ CaughtIn(r)
  BY <1>1, <1>9, <1>11 DEF MarketSound, CaughtIn
<1>13. MarketSound(r)
  BY <1>9, <1>10, <1>12 DEF MarketSound, AnswersIn
<1> QED BY <1>0, <1>4, <1>13, MarketCallMoves

(* What the venue answers of a bar that is open is of that bar, and all of   *)
(* it when the bar has closed.                                              *)
LEMMA ServedBar ==
  ASSUME v2 \in Int, NEW b \in Market!Bars, b * Width < v2
  PROVE  /\ Market!ValueNow(b) \in 0 .. Width
         /\ \A e \in Int : e <= v2 /\ Market!Final(b, e) => Market!ValueNow(b) = Width
<1>1. Width \in Nat \ {0} /\ b \in Int /\ b * Width \in Int
  BY MarketSizes
<1>2. Market!ValueNow(b) = IF Width <= v2 - b * Width THEN Width ELSE v2 - b * Width
  BY <1>1, MinOfTwo DEF Market!ValueNow
<1>3. (b + 1) * Width = b * Width + Width
  BY <1>1
<1>4. \A e \in Int : e <= v2 /\ Market!Final(b, e) => Width <= v2 - b * Width
  BY <1>1, <1>3 DEF Market!Final
<1> QED BY <1>1, <1>2, <1>4

LEMMA MarketServed ==
  ASSUME Market!IInv, NEW c \in Callers, Market!Served(c)
  PROVE  Market!IInv'
<1>0. MarketState /\ MarketState' /\ UNCHANGED <<v1, v2, v7>>
  BY MarketByCall DEF Market!Served, MarketState
<1> DEFINE u == v5[c]
           page == Market!Page(c)
           more == /\ v1 = "alpaca" /\ page # {}
                   /\ \E b \in Market!InRange(c) : b > Market!Max(page) /\ b * Width < v2
           capped == more /\ v5[c].pages + 1 >= MaxPages
<1>1. /\ MarketSound(u) /\ u \in MarketCalls /\ u.step = "request" /\ Market!InRange(c) = RangeOf(u)
  BY MarketByCall DEF Market!Served, Market!At, Market!InRange, Market!Start, RangeOf
<1>2. /\ u.end \in Int /\ u.from \in Nat /\ u.pages \in 0 .. MaxPages /\ v2 \in Int
      /\ u.got \in [Market!Bars -> 0 .. Width] /\ u.tokens \in Int /\ u.began \in Int /\ u.checked \in Int
  <2>1. /\ u.end \in 0 .. MaxTime + 1 /\ u.from \in Nat /\ u.pages \in 0 .. MaxPages
        /\ u.got \in [Market!Bars -> 0 .. Width] /\ u.tokens \in 0 .. Capacity
        /\ u.began \in 0 .. MaxTime /\ u.checked \in 0 .. MaxTime
    BY <1>1 DEF MarketCalls
  <2>2. v2 \in 0 .. MaxTime
    BY <1>0 DEF MarketState
  <2> HIDE DEF u
  <2> QED BY <2>1, <2>2, MarketSizes
<1>3. PICK g : g = [b \in Market!Bars |-> IF b \in page THEN Market!ValueNow(b) ELSE u.got[b]]
  OBVIOUS
<1>4. PICK n : n = Market!Min({u.pages + 1, MaxPages})
  OBVIOUS
<1>5. PICK k : k = IF page = {} THEN u.from ELSE Market!Max(page) + 1
  OBVIOUS
<1>6. PICK s : s = IF capped THEN "raised" ELSE IF more THEN "acquire" ELSE "store"
  OBVIOUS
<1>7. PICK r : r = [u EXCEPT !.got = g, !.pages = n, !.from = k, !.step = s]
  OBVIOUS
<1>8. v5' = [v5 EXCEPT ![c] = r]
  <2>1. v5 \in [Callers -> MarketCalls]
    BY MarketByCall
  <2>2. v5' = [v5 EXCEPT ![c].got = g, ![c].pages = n, ![c].from = k, ![c].step = s]
    BY <1>1, <1>2, <1>3, <1>4, <1>5, <1>6, <2>1 DEF Market!Served, MarketCalls
  <2> QED BY <1>7, <2>1, <2>2 DEF MarketCalls
(* The page: of the range, from where the last one ended, opened by now.    *)
<1>9. /\ page \subseteq RangeOf(u) /\ RangeOf(u) \subseteq Market!Bars /\ Market!Bars \subseteq Nat
      /\ \A b \in page : u.from <= b /\ b * Width < v2
      /\ \A b \in page : v1 = "alpaca" => b < u.from + PageSize
      /\ \A b \in RangeOf(u) : u.from <= b /\ b * Width < v2
                             /\ (v1 = "alpaca" => b < u.from + PageSize) => b \in page
  BY <1>1, LastBar DEF Market!Page, RangeOf
<1>10. page # {} => Market!Max(page) \in page /\ \A b \in page : b <= Market!Max(page)
  <2>1. PICK m \in Nat : Market!Bars = 0 .. m
    BY MarketSizes
  <2>2. page \subseteq 0 .. m
    BY <1>9, <2>1
  <2> HIDE DEF page
  <2> QED BY ONLY <2>1, <2>2, MaxOf
<1>11. \A b \in Market!Bars : g[b] = IF b \in page THEN Market!ValueNow(b) ELSE u.got[b]
  BY <1>3
<1>12. \A b \in page : /\ Market!ValueNow(b) \in 0 .. Width
                       /\ u.end <= v2 /\ Market!Final(b, u.end) => Market!ValueNow(b) = Width
  BY <1>2, <1>9, ServedBar
<1> HIDE DEF page, capped, more
<1>13. n \in 0 .. MaxPages /\ n <= u.pages + 1
  <2>1. MaxPages \in Nat /\ n = IF u.pages + 1 <= MaxPages THEN u.pages + 1 ELSE MaxPages
    <3>1. MaxPages \in Int /\ u.pages + 1 \in Int
      BY <1>2, MarketSizes
    <3> QED BY <1>4, <3>1, MinOfTwo, MarketSizes
  <2> QED BY <1>2, <2>1
<1>14. k \in Nat /\ g \in [Market!Bars -> 0 .. Width] /\ s \in {"raised", "acquire", "store"}
  <2>1. k \in Nat
    <3>1. page # {} => Market!Max(page) \in Nat
      BY <1>9, <1>10
    <3> QED BY <1>2, <1>5, <3>1
  <2>2. \A b \in Market!Bars : (IF b \in page THEN Market!ValueNow(b) ELSE u.got[b]) \in 0 .. Width
    BY <1>2, <1>12
  <2> QED BY <1>3, <1>6, <2>1, <2>2
<1>15. /\ r \in MarketCalls /\ r.step = s /\ r.got = g /\ r.end = u.end /\ r.from = k
       /\ r.tokens = u.tokens /\ r.pages = n /\ r.began = u.began /\ r.checked = u.checked
       /\ r.stale = u.stale
  BY <1>1, <1>7, <1>13, <1>14 DEF MarketCalls
<1>16. PaidIn(r)
  <2>1. v1 # "yfinance" => u.tokens + u.pages + 1 <= Capacity + (u.checked - u.began)
    BY <1>1 DEF MarketSound, PaidIn
  <2>2. u.began <= u.checked /\ u.checked <= v2
    BY <1>1 DEF MarketSound, PaidIn
  <2>3. v1 # "yfinance" => u.tokens + n <= Capacity + (u.checked - u.began)
    <3>1. n \in Int /\ Capacity \in Int /\ n <= u.pages + 1 /\ u.pages \in Int
      BY <1>2, <1>13, MarketSizes
    <3> QED BY <1>2, <2>1, <3>1
  <2>4. v1 # "yfinance" => u.tokens + n + 0 <= Capacity + (u.checked - u.began)
    BY <1>2, <1>13, <2>3
  <2> QED BY <1>14, <1>15, <2>2, <2>4 DEF PaidIn
<1>17. ASSUME ~v7 PROVE CaughtIn(r)
  <2>1. /\ u.end <= v2 /\ ~u.stale
        /\ \A b \in Market!Bars : Market!Final(b, u.end) => u.got[b] \in {0, Width}
        /\ \A b \in RangeOf(u) : IF b < u.from THEN Market!Final(b, u.end) => u.got[b] = Width
                                                ELSE u.from \in RangeOf(u)
    BY <1>1, <1>17 DEF MarketSound, CaughtIn
  <2>2. \A b \in Market!Bars : Market!Final(b, u.end) => g[b] \in {0, Width}
    BY <1>11, <1>12, <2>1
  <2>3. \A b \in RangeOf(u) : Market!Final(b, u.end) => b * Width < v2
    <3>1. SUFFICES ASSUME NEW b \in RangeOf(u), Market!Final(b, u.end) PROVE b * Width < v2
      OBVIOUS
    <3>2. b * Width < u.end
      BY DEF RangeOf
    <3>3. b * Width \in Int
      BY <1>9, MarketSizes
    <3> QED BY <1>2, <2>1, <3>2, <3>3
  (* What is before the page after this one was got.                        *)
  <2>4. \A b \in RangeOf(u) : b < k /\ Market!Final(b, u.end) => g[b] = Width
    <3>1. SUFFICES ASSUME NEW b \in RangeOf(u), b < k, Market!Final(b, u.end) PROVE g[b] = Width
      OBVIOUS
    <3>2. b \in Nat /\ b \in Market!Bars
      BY <1>9
    <3>3. CASE b < u.from
      BY <1>2, <1>9, <1>11, <2>1, <3>1, <3>2, <3>3
    <3>4. CASE ~(b < u.from)
      <4>1. page # {} /\ b <= Market!Max(page) /\ Market!Max(page) \in Nat
        <5>1. page # {}
          BY <1>5, <3>1, <3>4
        <5>2. Market!Max(page) \in Nat /\ k = Market!Max(page) + 1
          BY <1>5, <1>9, <1>10, <5>1
        <5> QED BY <3>1, <3>2, <5>1, <5>2
      <4>2. v1 = "alpaca" => b < u.from + PageSize
        <5>1. Market!Max(page) \in page
          BY <1>10, <4>1
        <5>2. v1 = "alpaca" => Market!Max(page) < u.from + PageSize
          BY <1>9, <5>1
        <5>3. u.from \in Nat /\ PageSize \in Nat
          BY <1>2, MarketSizes
        <5> QED BY <3>2, <4>1, <5>2, <5>3
      <4>3. b \in page
        BY <1>2, <1>9, <2>3, <3>1, <3>2, <3>4, <4>2
      <4> QED BY <1>11, <1>12, <2>1, <3>1, <3>2, <4>3
    <3> QED BY <3>3, <3>4
  <2>5. \A b \in RangeOf(u) : page # {} /\ ~(b < k) => k \in RangeOf(u)
    <3>1. SUFFICES ASSUME NEW b \in RangeOf(u), page # {}, ~(b < k) PROVE k \in RangeOf(u)
      OBVIOUS
    <3>2. /\ Market!Max(page) \in RangeOf(u) /\ k = Market!Max(page) + 1 /\ Market!Max(page) \in Nat /\ b \in Nat
      BY <1>5, <1>9, <1>10, <3>1
    <3>3. Market!Max(page) <= k /\ k <= b /\ k \in Int
      BY <3>1, <3>2
    <3> QED BY <1>2, <3>2, <3>3, RangeIsWhole
  (* The last page leaves no bar that had closed.                           *)
  <2>6. ~more => \A b \in RangeOf(u) : Market!Final(b, u.end) => g[b] = Width
    <3>1. SUFFICES ASSUME ~more, NEW b \in RangeOf(u), Market!Final(b, u.end) PROVE g[b] = Width
      OBVIOUS
    <3>2. b \in Nat /\ b \in Market!Bars /\ b * Width < v2
      BY <1>9, <2>3, <3>1
    <3>3. CASE b < k
      BY <2>4, <3>1, <3>3
    <3>4. CASE ~(b < k) /\ page # {}
      <4>1. Market!Max(page) \in Nat /\ k = Market!Max(page) + 1 /\ u.from <= Market!Max(page)
        BY <1>5, <1>9, <1>10, <3>4
      <4>2. v1 # "alpaca"
        BY <1>1, <3>1, <3>2, <3>4, <4>1 DEF more
      <4>3. b \in page
        BY <1>2, <1>9, <3>2, <3>4, <4>1, <4>2
      <4> QED BY <1>10, <3>2, <3>4, <4>1, <4>3
    <3>5. CASE ~(b < k) /\ page = {}
      <4>1. k = u.from /\ u.from <= b /\ u.from \in RangeOf(u)
        BY <1>2, <1>5, <2>1, <3>2, <3>5
      <4>2. u.from * Width <= b * Width
        BY <1>2, <3>2, <4>1, BarsInTime, MarketSizes
      <4>3. u.from * Width < v2
        <5>1. u.from * Width \in Int /\ b * Width \in Int
          BY <1>2, <3>2, MarketSizes
        <5> QED BY <1>2, <3>2, <4>2, <5>1
      <4>4. u.from < u.from + PageSize
        BY <1>2, MarketSizes
      <4> QED BY <1>2, <1>9, <3>5, <4>1, <4>3, <4>4
    <3> QED BY <3>3, <3>4, <3>5
  <2>7. s = "store" => ~more
    BY <1>6 DEF capped
  <2>8. s = "acquire" => page # {}
    BY <1>6 DEF more
  <2>9. RangeOf(r) = RangeOf(u)
    BY <1>15 DEF RangeOf
  <2> QED BY <1>14, <1>15, <2>1, <2>2, <2>4, <2>5, <2>6, <2>7, <2>8, <2>9 DEF CaughtIn, CompleteIn
<1>18. MarketSound(r)
  BY <1>14, <1>15, <1>16, <1>17 DEF MarketSound, AnswersIn
<1> QED BY <1>0, <1>8, <1>18, MarketCallMoves

LEMMA MarketFails ==
  ASSUME Market!IInv, NEW c \in Callers, Market!Busy(c) \/ Market!Refused(c)
  PROVE  Market!IInv'
<1>0. MarketState /\ MarketState' /\ UNCHANGED <<v1, v2, v7>>
  <2>1. MarketState
    BY MarketByCall
  <2>2. UNCHANGED <<v1, v2, v3, v4, v7>> /\ (v6' = v6 \/ (v6 < MaxTrouble /\ v6' = v6 + 1))
    BY DEF Market!Busy, Market!Refused, Market!Troubles
  <2> QED BY <2>1, <2>2, MarketSizes DEF MarketState
<1> DEFINE u == v5[c]
<1>1. MarketSound(u) /\ u \in MarketCalls /\ u.step = "request" /\ v5 \in [Callers -> MarketCalls]
  BY MarketByCall DEF Market!Busy, Market!Refused, Market!At
<1>2. /\ u.tokens \in Int /\ u.pages \in Int /\ u.checked \in Int /\ u.began \in Int
      /\ Capacity \in Int /\ u.attempt \in 0 .. MaxAttempts
  BY <1>1, MarketSizes DEF MarketCalls
<1>3. /\ u.began <= u.checked /\ u.checked <= v2
      /\ v1 # "yfinance" => u.tokens + u.pages + 1 <= Capacity + (u.checked - u.began)
  BY <1>1 DEF MarketSound, PaidIn
<1>4. v1 # "yfinance" => u.tokens + u.pages + 0 <= Capacity + (u.checked - u.began)
  BY <1>2, <1>3
<1>5. CASE Market!Fails(c) /\ v1 = "yfinance"
  <2>1. PICK r : r = [u EXCEPT !.step = "answered", !.got = v4, !.stale = TRUE]
    OBVIOUS
  <2>2. v5' = [v5 EXCEPT ![c] = r]
    BY <1>1, <1>5, <2>1 DEF Market!Fails
  <2>3. /\ r \in MarketCalls /\ r.step = "answered" /\ r.got = v4 /\ r.stale = TRUE
        /\ r.began = u.began /\ r.checked = u.checked
    BY <1>0, <1>1, <2>1 DEF MarketCalls, MarketState
  <2>4. MarketSound(r)
    BY <1>0, <1>3, <1>5, <2>3 DEF MarketSound, PaidIn, CaughtIn, AnswersIn, MarketState
  <2> QED BY <1>0, <2>2, <2>4, MarketCallMoves
<1>6. CASE Market!Fails(c) /\ v1 # "yfinance"
  <2>1. PICK r : r = [u EXCEPT !.step = "raised"]
    OBVIOUS
  <2>2. v5' = [v5 EXCEPT ![c] = r]
    BY <1>1, <1>6, <2>1 DEF Market!Fails
  <2>3. /\ r \in MarketCalls /\ r.step = "raised" /\ r.tokens = u.tokens /\ r.pages = u.pages
        /\ r.began = u.began /\ r.checked = u.checked
    BY <1>1, <2>1 DEF MarketCalls
  <2>4. MarketSound(r)
    BY <1>3, <1>4, <2>3 DEF MarketSound, PaidIn, CaughtIn, AnswersIn
  <2> QED BY <1>0, <2>2, <2>4, MarketCallMoves
<1>7. CASE Market!Busy(c) /\ ~Market!Fails(c)
  <2>1. PICK r : r = [u EXCEPT !.attempt = u.attempt + 1]
    OBVIOUS
  <2>2. v5' = [v5 EXCEPT ![c] = r] /\ u.attempt + 1 < MaxAttempts
    <3>1. /\ v5' = [v5 EXCEPT ![c].attempt = @ + 1]
          /\ ~(v1 = "yfinance" \/ u.attempt + 1 >= MaxAttempts)
      BY <1>7 DEF Market!Busy
    <3>2. v5' = [v5 EXCEPT ![c] = r]
      BY <1>1, <2>1, <3>1 DEF MarketCalls
    <3>3. u.attempt \in Int /\ MaxAttempts \in Int
      BY <1>2, MarketSizes
    <3>4. ~(u.attempt + 1 >= MaxAttempts)
      BY <3>1
    <3>5. u.attempt + 1 < MaxAttempts
      BY <3>3, <3>4
    <3> QED BY <3>2, <3>5
  <2>3. u.attempt + 1 \in 0 .. MaxAttempts
    BY <1>2, <2>2, MarketSizes
  <2>4. /\ r \in MarketCalls /\ r.step = u.step /\ r.tokens = u.tokens /\ r.pages = u.pages
        /\ r.began = u.began /\ r.checked = u.checked /\ r.got = u.got /\ r.end = u.end
        /\ r.from = u.from /\ r.stale = u.stale
    BY <1>1, <2>1, <2>3 DEF MarketCalls
  <2>5. RangeOf(r) = RangeOf(u)
    BY <2>4 DEF RangeOf
  <2>6. MarketSound(r)
    BY <1>1, <2>4, <2>5 DEF MarketSound, PaidIn, CaughtIn, AnswersIn, CompleteIn
  <2> QED BY <1>0, <2>2, <2>6, MarketCallMoves
<1> QED BY <1>5, <1>6, <1>7 DEF Market!Refused

LEMMA MarketStore ==
  ASSUME Market!IInv, NEW c \in Callers, Market!Store(c)
  PROVE  Market!IInv'
<1> DEFINE u == v5[c]
<1>1. /\ MarketSound(u) /\ u \in MarketCalls /\ u.step = "store" /\ MarketState
      /\ v5 \in [Callers -> MarketCalls] /\ UNCHANGED <<v1, v2, v7>>
  BY MarketByCall DEF Market!Store, Market!At
<1>2. u.got \in [Market!Bars -> 0 .. Width] /\ v4 \in [Market!Bars -> 0 .. Width] /\ 0 \in 0 .. Width
  BY <1>1, MarketSizes DEF MarketCalls, MarketState
<1>3. v7 \/ /\ CompleteIn(u) /\ ~u.stale
            /\ \A b \in Market!Bars : Market!Final(b, u.end) => u.got[b] \in {0, Width}
            /\ \A b \in Market!Bars : v4[b] \in {0, Width}
  BY <1>1 DEF MarketSound, CaughtIn, MarketState
<1>4. MarketState'
  <2>1. v4' = [b \in Market!Bars |-> IF u.got[b] # 0 /\ Market!Final(b, u.end) THEN u.got[b] ELSE v4[b]]
    BY DEF Market!Store, Market!Upsert, Market!ClosedByEnd
  <2>2. /\ v4' \in [Market!Bars -> 0 .. Width]
        /\ \A b \in Market!Bars : v4'[b] = IF u.got[b] # 0 /\ Market!Final(b, u.end) THEN u.got[b] ELSE v4[b]
    BY <1>2, <2>1
  <2>3. v7' \/ \A b \in Market!Bars : v4'[b] \in {0, Width}
    BY <1>1, <1>3, <2>2
  <2> QED BY <1>1, <2>2, <2>3 DEF MarketState, Market!Store
<1>5. PICK g : g = [b \in Market!Bars |-> IF v1 = "yfinance" \/ Market!Final(b, u.end) THEN u.got[b] ELSE 0]
  OBVIOUS
<1>6. /\ g \in [Market!Bars -> 0 .. Width]
      /\ \A b \in Market!Bars : g[b] = IF v1 = "yfinance" \/ Market!Final(b, u.end) THEN u.got[b] ELSE 0
  BY <1>2, <1>5
<1>7. PICK r : r = [u EXCEPT !.step = "answered", !.got = g]
  OBVIOUS
<1>8. v5' = [v5 EXCEPT ![c] = r]
  <2>1. v5' = [v5 EXCEPT ![c].step = "answered", ![c].got = g]
    BY <1>5 DEF Market!Store, Market!Stripped, Market!ClosedByEnd
  <2> QED BY <1>1, <1>7, <2>1 DEF MarketCalls
<1>9. /\ r \in MarketCalls /\ r.step = "answered" /\ r.got = g /\ r.end = u.end
      /\ r.tokens = u.tokens /\ r.pages = u.pages /\ r.began = u.began /\ r.checked = u.checked
      /\ r.stale = u.stale
  BY <1>1, <1>6, <1>7 DEF MarketCalls
<1>10. PaidIn(r)
  BY <1>1, <1>9 DEF MarketSound, PaidIn
<1>11. RangeOf(r) = RangeOf(u) /\ RangeOf(u) \subseteq Market!Bars
  BY <1>9 DEF RangeOf
<1>12. v7 \/ AnswersIn(r)
  BY <1>3, <1>6, <1>9, <1>11 DEF AnswersIn, CompleteIn
<1>13. MarketSound(r)
  BY <1>9, <1>10, <1>12 DEF MarketSound, CaughtIn
<1>14. MarketSound(r)'
  BY <1>1, <1>13 DEF MarketSound, MarketCalls, PaidIn, CaughtIn, AnswersIn, CompleteIn, RangeOf
<1> QED BY <1>1, <1>4, <1>8, <1>14, MarketCallGoes

(* Whoever steps, a bar of the cache or of an answer stays what the venue   *)
(* ended it with, and a page is paid for (get_or_fetch, call_with_retry).   *)
THEOREM MarketStep ==
  ASSUME Market!IInv, [Market!Next]_(Market!vars)
  PROVE  Market!IInv'
<1>1. CASE UNCHANGED Market!vars
  <2>1. MarketState' /\ v5' = v5 /\ v1' = v1 /\ (v7 => v7') /\ v2 <= v2'
    BY <1>1, MarketByCall, MarketSizes DEF Market!vars, MarketState
  <2> QED BY <2>1, MarketStands
<1> QED BY <1>1, MarketShared, MarketAsk, MarketReadCache, MarketAcquire, MarketServed, MarketFails,
           MarketStore DEF Market!Next

LEMMA MarketIsPolite == Market!IInv => Market!PagesArePolite
<1> SUFFICES ASSUME Market!IInv, v1 = "alpaca", NEW c \in Callers
             PROVE  v5[c].pages <= Capacity + (v2 - v5[c].began)
  BY DEF Market!PagesArePolite
<1>1. MarketSound(v5[c]) /\ v2 \in Int
  BY MarketByCall, MarketSizes DEF MarketState
<1>2. /\ v5[c].tokens \in Int /\ v5[c].tokens >= 0 /\ v5[c].pages \in Int
      /\ v5[c].checked \in Int /\ v5[c].began \in Int /\ Capacity \in Int
  BY <1>1, MarketSizes DEF MarketSound, MarketCalls
<1>3. /\ v5[c].checked <= v2
      /\ v5[c].tokens + v5[c].pages + (IF v5[c].step = "request" THEN 1 ELSE 0)
           <= Capacity + (v5[c].checked - v5[c].began)
  BY <1>1 DEF MarketSound, PaidIn
<1> QED BY <1>1, <1>2, <1>3

-----------------------------------------------------------------------------
LEMMA RegimeStutters ==
  ASSUME Regime!IInv, UNCHANGED <<v1, v2, v3, v4, v5>>
  PROVE  Regime!IInv'
BY DEF Regime!IInv, Regime!TypeOK, Regime!At, Regime!Fresh

(* The engine's bars and its regime, in the part of a run that has them.    *)
AnalysisSound ==
  /\ part = "market" => Market!IInv
  /\ part = "regime" => Regime!IInv

(* A bar an analysis reads is closed and final and paid for, and a regime a *)
(* model answers is of a model fit lately for that question, whatever the   *)
(* sizes, the processes and the order of their steps (mae/_runtime.py,      *)
(* mae/_data/cache.py, mae/_data/ratelimit.py, mae/_regime.py).             *)
THEOREM AnalysisIsCurrentHolds == Spec => []AnalysisIsCurrent
<1>1. Init => AnalysisSound
  BY MarketStarts, RegimeStarts DEF Init, AnalysisSound
<1>2. AnalysisSound /\ [Next]_vars => AnalysisSound'
  <2> SUFFICES ASSUME AnalysisSound, [Next]_vars PROVE AnalysisSound'
    OBVIOUS
  <2>1. part' = part
    BY DEF Next, vars
  <2>2. CASE part = "market"
    <3>1. [Market!Next]_(Market!vars)
      BY <2>2 DEF Next, vars, Market!vars
    <3> QED BY <2>1, <2>2, <3>1, MarketStep DEF AnalysisSound
  <2>3. CASE part = "regime"
    <3>1. Regime!Next \/ UNCHANGED <<v1, v2, v3, v4, v5>>
      BY <2>3 DEF Next, vars
    <3> QED BY <2>1, <2>3, <3>1, RegimeStep, RegimeStutters DEF AnalysisSound
  <2>4. CASE part \notin {"market", "regime"}
    BY <2>1, <2>4 DEF AnalysisSound
  <2> QED BY <2>2, <2>3, <2>4
<1>3. Market!IInv => Market!TypeOK /\ Market!BarsAreFinal /\ Market!PagesArePolite
  BY MarketIsPolite DEF Market!IInv
<1>4. Regime!IInv => Regime!TypeOK /\ Regime!RegimeIsCurrent
  BY DEF Regime!IInv, Regime!RegimeIsCurrent, Regime!Fresh
<1>5. AnalysisSound => AnalysisIsCurrent
  BY <1>3, <1>4 DEF AnalysisSound, AnalysisIsCurrent
<1> QED BY <1>1, <1>2, <1>5, PTL DEF Spec

-----------------------------------------------------------------------------
(* The rules: v1 is the account's ref, v2 the log of its events.            *)
LEMMA LeastOf ==
  ASSUME NEW S \in SUBSET Nat, S # {}
  PROVE  \E n \in S : \A m \in S : n <= m
<1>1. S \subseteq Nat
  OBVIOUS
<1> QED BY <1>1, MinOf

(* Along a log of N gradings a recursion has a solution.                    *)
Solvable(N, S) ==
  \A base \in S, step \in [(1 .. N) \X S -> S] :
    \E f \in [0 .. N -> S] : f[0] = base /\ \A n \in 1 .. N : f[n] = step[<<n, f[n - 1]>>]

LEMMA Recursion ==
  ASSUME NEW N \in Nat, NEW S
  PROVE  Solvable(N, S)
<1> SUFFICES ASSUME NEW base \in S, NEW step \in [(1 .. N) \X S -> S]
             PROVE  \E f \in [0 .. N -> S] :
                      f[0] = base /\ \A n \in 1 .. N : f[n] = step[<<n, f[n - 1]>>]
  BY DEF Solvable
<1> DEFINE Solves(f, k) == f[0] = base /\ \A n \in 1 .. k : f[n] = step[<<n, f[n - 1]>>]
           Bad == {k \in 0 .. N : ~ \E f \in [0 .. k -> S] : Solves(f, k)}
<1>1. SUFFICES ASSUME Bad # {} PROVE FALSE
  OBVIOUS
<1>2. PICK k \in Bad : \A m \in Bad : k <= m
  <2>1. Bad \in SUBSET Nat
    OBVIOUS
  <2> HIDE DEF Bad
  <2> QED BY <1>1, <2>1, LeastOf
<1>3. CASE k = 0
  <2>1. Solves([n \in 0 .. 0 |-> base], 0) /\ [n \in 0 .. 0 |-> base] \in [0 .. 0 -> S]
    OBVIOUS
  <2> QED BY <1>3, <2>1
<1>4. CASE k # 0
  <2>1. k \in 1 .. N /\ k - 1 \in 0 .. N /\ k - 1 \notin Bad
    BY <1>2, <1>4
  <2>2. PICK g \in [0 .. k - 1 -> S] : Solves(g, k - 1)
    BY <2>1
  <2> DEFINE f == [n \in 0 .. k |-> IF n = k THEN step[<<k, g[k - 1]>>] ELSE g[n]]
  <2>3. g[k - 1] \in S /\ step[<<k, g[k - 1]>>] \in S
    BY <2>1
  <2>4. f \in [0 .. k -> S]
    BY <2>1, <2>3
  <2>5. f[0] = base
    BY <2>1, <2>2
  <2>6. ASSUME NEW n \in 1 .. k PROVE f[n] = step[<<n, f[n - 1]>>]
    <3>1. CASE n = k
      <4>1. k \in 0 .. k /\ k - 1 \in 0 .. k /\ k - 1 # k
        BY <2>1
      <4>2. f[k] = step[<<k, g[k - 1]>>] /\ f[k - 1] = g[k - 1]
        BY <4>1
      <4> QED BY <3>1, <4>2
    <3>2. CASE n # k
      <4>1. n \in 1 .. k - 1 /\ n \in 0 .. k /\ n - 1 \in 0 .. k /\ n - 1 # k
        BY <2>1, <3>2
      <4>2. f[n] = g[n] /\ f[n - 1] = g[n - 1]
        BY <3>2, <4>1
      <4> QED BY <2>2, <4>1, <4>2
    <3> QED BY <3>1, <3>2
  <2> HIDE DEF f
  <2>7. Solves(f, k)
    BY <2>5, <2>6
  <2> QED BY <1>2, <2>4, <2>7
<1> QED BY <1>3, <1>4

(* What passes from each number to the next holds up to N.                  *)
LEMMA UpTo ==
  ASSUME NEW N \in Nat, NEW Good \in SUBSET Nat, 0 \in Good,
         \A n \in 1 .. N : n - 1 \in Good => n \in Good
  PROVE  \A n \in 0 .. N : n \in Good
<1> DEFINE Bad == (0 .. N) \ Good
<1>1. SUFFICES ASSUME Bad # {} PROVE FALSE
  OBVIOUS
<1>2. PICK k \in Bad : \A m \in Bad : k <= m
  <2>1. Bad \in SUBSET Nat
    OBVIOUS
  <2> HIDE DEF Bad
  <2> QED BY <1>1, <2>1, LeastOf
<1>3. k \in 1 .. N /\ k - 1 \in 0 .. N /\ k - 1 \notin Bad
  BY <1>2
<1> QED BY <1>2, <1>3

-----------------------------------------------------------------------------
(* Money and limits are numbers; of a config what is not set is None.       *)
Reasonable(desk) ==
  /\ desk.notionals \subseteq Nat /\ desk.sizes \subseteq Nat /\ desk.pnls \subseteq Int
  /\ desk.configs \subseteq [principal : Nat, daily : Nat \union {None}, lifetime : Nat \union {None}]
  /\ desk.trades \in Nat /\ desk.voids \in Nat \ {0} /\ desk.window \in Nat
  /\ desk.days \in Nat /\ desk.grades \in Nat

(* A sequence, without the sequences' axioms in the way.                    *)
LEMMA Elements ==
  ASSUME NEW S, NEW s \in Seq(S)
  PROVE  Len(s) \in Nat /\ DOMAIN s = 1 .. Len(s) /\ \A n \in 1 .. Len(s) : s[n] \in S
OBVIOUS

(* The gradings of a log are numbered, dated and worth something.           *)
LEMMA GradingsAre ==
  ASSUME NEW CONSTANT desk, Reasonable(desk), NEW g \in Rules(desk)!Gradings
  PROVE  /\ Len(g) \in Nat /\ DOMAIN g = 1 .. Len(g)
         /\ \A n \in 1 .. Len(g) : /\ g[n].day \in Int /\ g[n].pnl \in Int
                                   /\ g[n] \in [day : 0 .. desk.days, outcome : Rules(desk)!Outcomes, pnl : desk.pnls]
<1>1. g \in Seq([day : 0 .. desk.days, outcome : Rules(desk)!Outcomes, pnl : desk.pnls])
  BY DEF Rules!Gradings
<1>2. Len(g) \in Nat /\ DOMAIN g = 1 .. Len(g)
      /\ \A n \in 1 .. Len(g) : g[n] \in [day : 0 .. desk.days, outcome : Rules(desk)!Outcomes, pnl : desk.pnls]
  BY <1>1, Elements
<1> QED BY <1>2 DEF Reasonable

(* Earned adds up the day's results, one grading after the other.           *)
AddsUp(c, g, day) ==
  c[0] = 0 /\ \A n \in 1 .. Len(g) : c[n] = c[n - 1] + IF g[n].day = day THEN g[n].pnl ELSE 0

LEMMA EarnedIs ==
  ASSUME NEW CONSTANT desk, Reasonable(desk), NEW g \in Rules(desk)!Gradings, NEW day \in Int
  PROVE  AddsUp(Rules(desk)!Earned(g, day), g, day)
<1> DEFINE N == Len(g)
           gain(n) == IF g[n].day = day THEN g[n].pnl ELSE 0
           body(f) == [n \in 0 .. N |-> IF n = 0 THEN 0 ELSE f[n - 1] + gain(n)]
           step == [nc \in (1 .. N) \X Int |-> nc[2] + gain(nc[1])]
<1>1. N \in Nat /\ \A n \in 1 .. N : gain(n) \in Int
  BY GradingsAre
<1>2. Rules(desk)!Earned(g, day) = CHOOSE c : c = body(c)
  BY DEF Rules!Earned
<1> HIDE DEF N, gain
<1>3. step \in [(1 .. N) \X Int -> Int] /\ \A n \in 1 .. N, c \in Int : step[<<n, c>>] = c + gain(n)
  BY <1>1
<1> HIDE DEF step
<1>4. PICK f \in [0 .. N -> Int] : f[0] = 0 /\ \A n \in 1 .. N : f[n] = step[<<n, f[n - 1]>>]
  <2>1. Solvable(N, Int)
    BY <1>1, Recursion
  <2>2. \A first \in Int : \E f \in [0 .. N -> Int] :
          f[0] = first /\ \A n \in 1 .. N : f[n] = step[<<n, f[n - 1]>>]
    BY <1>3, <2>1 DEF Solvable
  <2> QED BY <2>2
<1>5. f = body(f)
  <2>1. ASSUME NEW n \in 0 .. N PROVE f[n] = IF n = 0 THEN 0 ELSE f[n - 1] + gain(n)
    <3>1. CASE n = 0
      BY <1>4, <3>1
    <3>2. CASE n # 0
      <4>1. n \in 1 .. N /\ n - 1 \in 0 .. N
        BY <1>1, <3>2
      <4> QED BY <1>3, <1>4, <3>2, <4>1
    <3> QED BY <3>1, <3>2
  <2> QED BY <2>1
<1> DEFINE c == Rules(desk)!Earned(g, day)
<1>6. c = body(c)
  <2> HIDE DEF body
  <2> QED BY <1>2, <1>5
<1> HIDE DEF c
<1>7. c[0] = 0
  BY <1>1, <1>6
<1>8. \A n \in 1 .. N : c[n] = c[n - 1] + gain(n)
  <2>1. \A n \in 1 .. N : n \in 0 .. N /\ n # 0
    BY <1>1
  <2> QED BY <1>6, <2>1
<1> QED BY <1>7, <1>8 DEF c, N, gain, AddsUp

Points == [equity : Int, peak : Int]

(* Curve follows the equity, and its peak is the most it has been.          *)
Follows(desk, c, start, since, g) ==
  /\ c[0] = [equity |-> start, peak |-> start]
  /\ \A n \in 1 .. Len(g) :
       c[n] = IF g[n].day < since THEN c[n - 1] ELSE Rules(desk)!Gain(c[n - 1], g[n])
  /\ \A n \in 0 .. Len(g) : c[n] \in Points /\ start <= c[n].peak /\ c[n].equity <= c[n].peak

LEMMA CurveIs ==
  ASSUME NEW CONSTANT desk, Reasonable(desk), NEW g \in Rules(desk)!Gradings,
         NEW start \in Int, NEW since \in Int
  PROVE  Follows(desk, Rules(desk)!Curve(start, since, g), start, since, g)
<1> DEFINE N == Len(g)
           first == [equity |-> start, peak |-> start]
           after(n, at) == IF g[n].day < since THEN at ELSE Rules(desk)!Gain(at, g[n])
           body(f) == [n \in 0 .. N |-> IF n = 0 THEN first ELSE after(n, f[n - 1])]
           step == [nc \in (1 .. N) \X Points |-> after(nc[1], nc[2])]
<1>1. N \in Nat /\ first \in Points
  BY GradingsAre DEF Points
<1>2. ASSUME NEW n \in 1 .. N, NEW at \in Points, start <= at.peak, at.equity <= at.peak
      PROVE  start <= after(n, at).peak /\ after(n, at).equity <= after(n, at).peak
  <2>1. g[n].pnl \in Int
    BY GradingsAre
  <2> QED BY <1>2, <2>1 DEF Points, Rules!Gain
<1>3. \A n \in 1 .. N, at \in Points : after(n, at) \in Points
  <2>1. \A n \in 1 .. N : g[n].pnl \in Int
    BY GradingsAre
  <2> QED BY <2>1 DEF Points, Rules!Gain
<1>4. Rules(desk)!Curve(start, since, g) = CHOOSE c : c = body(c)
  BY DEF Rules!Curve
<1>5. step \in [(1 .. N) \X Points -> Points] /\ \A n \in 1 .. N, at \in Points : step[<<n, at>>] = after(n, at)
  BY <1>3
<1> HIDE DEF N, after, step, first
<1>6. PICK f \in [0 .. N -> Points] : f[0] = first /\ \A n \in 1 .. N : f[n] = step[<<n, f[n - 1]>>]
  <2>1. Solvable(N, Points)
    BY <1>1, Recursion
  <2> QED BY <1>1, <1>5, <2>1 DEF Solvable
<1>7. f = body(f)
  <2>1. ASSUME NEW n \in 0 .. N PROVE f[n] = IF n = 0 THEN first ELSE after(n, f[n - 1])
    <3>1. CASE n = 0
      BY <1>6, <3>1
    <3>2. CASE n # 0
      <4>1. n \in 1 .. N /\ n - 1 \in 0 .. N
        BY <1>1, <3>2
      <4> QED BY <1>5, <1>6, <3>2, <4>1
    <3> QED BY <3>1, <3>2
  <2> QED BY <2>1
<1> DEFINE c == Rules(desk)!Curve(start, since, g)
<1>8. c = body(c)
  <2> HIDE DEF body
  <2> QED BY <1>4, <1>7
<1> HIDE DEF c
<1>9. c[0] = first
  BY <1>1, <1>8
<1>10. \A n \in 1 .. N : c[n] = after(n, c[n - 1])
  <2>1. \A n \in 1 .. N : n \in 0 .. N /\ n # 0
    BY <1>1
  <2> QED BY <1>8, <2>1
<1>11. \A n \in 0 .. N : c[n] \in Points /\ start <= c[n].peak /\ c[n].equity <= c[n].peak
  <2> DEFINE Good == {n \in Nat : c[n] \in Points /\ start <= c[n].peak /\ c[n].equity <= c[n].peak}
  <2>1. 0 \in Good
    BY <1>1, <1>9 DEF first
  <2>2. \A n \in 1 .. N : n - 1 \in Good => n \in Good
    BY <1>1, <1>2, <1>3, <1>10
  <2>3. Good \in SUBSET Nat
    OBVIOUS
  <2> HIDE DEF Good
  <2>4. \A n \in 0 .. N : n \in Good
    BY <1>1, <2>1, <2>2, <2>3, UpTo
  <2> QED BY <2>4 DEF Good
<1> QED BY <1>9, <1>10, <1>11 DEF c, N, first, after, Follows

(* One grading more changes nothing of what the ones before it amount to.   *)
LEMMA Appended ==
  ASSUME NEW CONSTANT desk, Reasonable(desk), NEW g \in Rules(desk)!Gradings,
         NEW x \in [day : 0 .. desk.days, outcome : Rules(desk)!Outcomes, pnl : desk.pnls]
  PROVE  /\ Append(g, x) \in Rules(desk)!Gradings /\ Len(Append(g, x)) = Len(g) + 1
         /\ Append(g, x)[Len(g) + 1] = x /\ x.pnl \in Int /\ x.day \in Int
         /\ \A n \in 1 .. Len(g) : Append(g, x)[n] = g[n]
<1> DEFINE R == [day : 0 .. desk.days, outcome : Rules(desk)!Outcomes, pnl : desk.pnls]
<1>1. g \in Seq(R) /\ x \in R
  BY DEF Rules!Gradings
<1>2. x.pnl \in Int /\ x.day \in Int
  BY DEF Reasonable
<1> HIDE DEF R
<1>3. Append(g, x) \in Seq(R) /\ Len(Append(g, x)) = Len(g) + 1
      /\ Append(g, x)[Len(g) + 1] = x /\ \A n \in 1 .. Len(g) : Append(g, x)[n] = g[n]
  BY <1>1
<1> QED BY <1>2, <1>3 DEF R, Rules!Gradings

(* One more grading adds its result to its own day's.                       *)
Adds(sum, later, day, x) ==
  sum \in Int /\ later = sum + IF x.day = day THEN x.pnl ELSE 0

LEMMA EarnedGrows ==
  ASSUME NEW CONSTANT desk, Reasonable(desk), NEW g \in Rules(desk)!Gradings, NEW day \in Int,
         NEW x \in [day : 0 .. desk.days, outcome : Rules(desk)!Outcomes, pnl : desk.pnls]
  PROVE  Adds(Rules(desk)!Earned(g, day)[Len(g)], Rules(desk)!Earned(Append(g, x), day)[Len(g) + 1], day, x)
<1> DEFINE N == Len(g)
           h == Append(g, x)
           c == Rules(desk)!Earned(g, day)
           d == Rules(desk)!Earned(h, day)
           Good == {n \in Nat : c[n] \in Int /\ d[n] = c[n]}
<1>1. /\ h \in Rules(desk)!Gradings /\ Len(h) = N + 1 /\ h[N + 1] = x
      /\ N \in Nat /\ \A n \in 1 .. N : h[n] = g[n] /\ g[n].pnl \in Int
  BY Appended, GradingsAre
<1>2. c[0] = 0 /\ \A n \in 1 .. N : c[n] = c[n - 1] + IF g[n].day = day THEN g[n].pnl ELSE 0
  <2>1. AddsUp(c, g, day)
    BY EarnedIs, Zenon
  <2> HIDE DEF c
  <2> QED BY <2>1 DEF AddsUp
<1>3. d[0] = 0 /\ \A n \in 1 .. N + 1 : d[n] = d[n - 1] + IF h[n].day = day THEN h[n].pnl ELSE 0
  <2> HIDE DEF h
  <2>1. AddsUp(d, h, day)
    BY <1>1, EarnedIs, Zenon
  <2> HIDE DEF d
  <2> QED BY <1>1, <2>1 DEF AddsUp
<1> HIDE DEF c, d, h, N
<1>4. 0 \in Good /\ \A n \in 1 .. N : n - 1 \in Good => n \in Good
  <2>1. 0 \in Good
    BY <1>2, <1>3
  <2>2. ASSUME NEW n \in 1 .. N, n - 1 \in Good PROVE n \in Good
    <3>1. n \in Nat /\ n \in 1 .. N + 1 /\ h[n] = g[n] /\ g[n].pnl \in Int
      BY <1>1
    <3>2. c[n - 1] \in Int /\ d[n - 1] = c[n - 1]
      BY <2>2
    <3>3. c[n] = c[n - 1] + IF g[n].day = day THEN g[n].pnl ELSE 0
      BY <1>2
    <3>4. d[n] = d[n - 1] + IF g[n].day = day THEN g[n].pnl ELSE 0
      BY <1>3, <3>1
    <3>5. c[n] \in Int /\ d[n] = c[n]
      BY <3>1, <3>2, <3>3, <3>4
    <3> QED BY <3>1, <3>5
  <2> QED BY <2>1, <2>2
<1>5. N \in Good
  <2>1. Good \in SUBSET Nat
    OBVIOUS
  <2> HIDE DEF Good
  <2>2. \A n \in 0 .. N : n \in Good
    BY <1>1, <1>4, <2>1, UpTo
  <2> QED BY <1>1, <2>2
<1>6. d[N + 1] = d[N] + IF x.day = day THEN x.pnl ELSE 0
  BY <1>1, <1>3
<1> QED BY <1>5, <1>6 DEF c, d, h, N, Adds

(* One more grading is one more point of the curve.                         *)
LEMMA CurveGrows ==
  ASSUME NEW CONSTANT desk, Reasonable(desk), NEW g \in Rules(desk)!Gradings,
         NEW start \in Int, NEW since \in Int,
         NEW x \in [day : 0 .. desk.days, outcome : Rules(desk)!Outcomes, pnl : desk.pnls]
  PROVE  LET c == Rules(desk)!Curve(start, since, g)
             d == Rules(desk)!Curve(start, since, Append(g, x)) IN
           /\ \A n \in 0 .. Len(g) : d[n] = c[n]
           /\ d[Len(g) + 1] = IF x.day < since THEN c[Len(g)] ELSE Rules(desk)!Gain(c[Len(g)], x)
<1> DEFINE N == Len(g)
           h == Append(g, x)
           c == Rules(desk)!Curve(start, since, g)
           d == Rules(desk)!Curve(start, since, h)
           after(n, at) == IF g[n].day < since THEN at ELSE Rules(desk)!Gain(at, g[n])
           later(n, at) == IF h[n].day < since THEN at ELSE Rules(desk)!Gain(at, h[n])
           Good == {n \in Nat : d[n] = c[n]}
<1>1. /\ h \in Rules(desk)!Gradings /\ Len(h) = N + 1 /\ h[N + 1] = x
      /\ N \in Nat /\ \A n \in 1 .. N : h[n] = g[n]
  BY Appended, GradingsAre
<1>2. c[0] = [equity |-> start, peak |-> start] /\ \A n \in 1 .. N : c[n] = after(n, c[n - 1])
  <2>1. Follows(desk, c, start, since, g)
    BY CurveIs, Zenon
  <2> HIDE DEF c
  <2> QED BY <2>1 DEF Follows
<1>3. d[0] = [equity |-> start, peak |-> start] /\ \A n \in 1 .. N + 1 : d[n] = later(n, d[n - 1])
  <2> HIDE DEF h
  <2>1. Follows(desk, d, start, since, h)
    BY <1>1, CurveIs, Zenon
  <2> HIDE DEF d
  <2> QED BY <1>1, <2>1 DEF Follows
<1>4. \A n \in 1 .. N : \A at : later(n, at) = after(n, at)
  BY <1>1
<1>5. later(N + 1, c[N]) = IF x.day < since THEN c[N] ELSE Rules(desk)!Gain(c[N], x)
  BY <1>1
<1> HIDE DEF c, d, h, N, after, later
<1>6. 0 \in Good /\ \A n \in 1 .. N : n - 1 \in Good => n \in Good
  BY <1>1, <1>2, <1>3, <1>4
<1>7. \A n \in 0 .. N : n \in Good
  <2>1. Good \in SUBSET Nat
    OBVIOUS
  <2> HIDE DEF Good
  <2> QED BY <1>1, <1>6, <2>1, UpTo
<1>8. d[N + 1] = later(N + 1, d[N]) /\ d[N] = c[N]
  BY <1>1, <1>3, <1>7
<1> QED BY <1>5, <1>7, <1>8 DEF c, d, h, N

Deepen(start, pnl, before, falls) ==
  /\ \A f \in falls : f.lost \in Int /\ f.peak \in Int /\ start <= f.peak
  /\ before \subseteq falls
  /\ 0 < pnl => \A f \in falls : \/ f.lost = 0
                                \/ \E e \in before : f.lost <= e.lost /\ f.peak = e.peak

(* A grading more adds at most one fall; after a gain that one is no deeper *)
(* than the last, from the same peak, or none at all.                       *)
LEMMA FallsGrow ==
  ASSUME NEW CONSTANT desk, Reasonable(desk), NEW g \in Rules(desk)!Gradings,
         NEW start \in Int, NEW since \in Int,
         NEW x \in [day : 0 .. desk.days, outcome : Rules(desk)!Outcomes, pnl : desk.pnls]
  PROVE  Deepen(start, x.pnl, Rules(desk)!Falls(start, since, g), Rules(desk)!Falls(start, since, Append(g, x)))
<1> DEFINE N == Len(g)
           h == Append(g, x)
           c == Rules(desk)!Curve(start, since, g)
           d == Rules(desk)!Curve(start, since, h)
           fall(at) == Rules(desk)!Fall(at)
           before == Rules(desk)!Falls(start, since, g)
           falls == Rules(desk)!Falls(start, since, h)
<1>1. /\ h \in Rules(desk)!Gradings /\ Len(h) = N + 1 /\ h[N + 1] = x /\ x.pnl \in Int /\ x.day \in Int
      /\ N \in Nat /\ DOMAIN g = 1 .. N /\ DOMAIN h = 1 .. N + 1
      /\ \A n \in 1 .. N : h[n] = g[n] /\ g[n].day \in Int
  <2>1. h \in Rules(desk)!Gradings /\ Len(h) = N + 1
    BY Appended
  <2>2. DOMAIN h = 1 .. N + 1
    <3> HIDE DEF h
    <3> QED BY <2>1, GradingsAre
  <2> QED BY <2>1, <2>2, Appended, GradingsAre
<1>2. /\ \A n \in 0 .. N : d[n] = c[n]
      /\ d[N + 1] = IF x.day < since THEN c[N] ELSE Rules(desk)!Gain(c[N], x)
  BY CurveGrows
<1>3. \A n \in 0 .. N + 1 : d[n] \in Points /\ start <= d[n].peak /\ d[n].equity <= d[n].peak
  <2> HIDE DEF h
  <2>1. Follows(desk, d, start, since, h)
    BY <1>1, CurveIs, Zenon
  <2> HIDE DEF d
  <2> QED BY <1>1, <2>1 DEF Follows
<1>4. /\ c[0] = [equity |-> start, peak |-> start]
      /\ \A n \in 1 .. N : g[n].day < since => c[n] = c[n - 1]
  <2>1. Follows(desk, c, start, since, g)
    BY CurveIs, Zenon
  <2> HIDE DEF c, d, fall, before, falls
  <2> QED BY <2>1 DEF Follows
<1>5. before = {fall(c[n]) : n \in {k \in 1 .. N : g[k].day >= since}}
  BY <1>1 DEF Rules!Falls
<1>6. falls = {fall(d[n]) : n \in {k \in 1 .. N + 1 : h[k].day >= since}}
  BY <1>1 DEF Rules!Falls
<1>7. \A at \in Points : fall(at).lost = at.peak - at.equity /\ fall(at).peak = at.peak
  BY DEF Rules!Fall
<1> HIDE DEF N, h, c, d, fall, before, falls
<1>8. ASSUME NEW f \in falls
      PROVE  f.lost \in Int /\ f.peak \in Int /\ start <= f.peak
  <2>1. PICK n \in 1 .. N + 1 : f = fall(d[n])
    BY <1>6
  <2>2. d[n] \in Points /\ start <= d[n].peak
    BY <1>1, <1>3
  <2> QED BY <1>7, <2>1, <2>2 DEF Points
<1>9. before \subseteq falls
  <2>1. ASSUME NEW k \in 1 .. N, g[k].day >= since PROVE fall(c[k]) \in falls
    <3>1. k \in 1 .. N + 1 /\ h[k].day >= since /\ d[k] = c[k]
      BY <1>1, <1>2, <2>1
    <3> QED BY <1>6, <3>1
  <2> QED BY <1>5, <2>1
<1>10. ASSUME 0 < x.pnl, NEW f \in falls
       PROVE  f.lost = 0 \/ \E e \in before : f.lost <= e.lost /\ f.peak = e.peak
  <2>1. PICK n \in 1 .. N + 1 : f = fall(d[n]) /\ h[n].day >= since
    BY <1>6
  <2>2. CASE n # N + 1
    <3>1. n \in 1 .. N /\ g[n].day >= since /\ d[n] = c[n]
      BY <1>1, <1>2, <2>1, <2>2
    <3>2. f \in before
      BY <1>5, <2>1, <3>1
    <3> QED BY <1>8, <3>2
  <2>3. CASE n = N + 1
    <3> DEFINE Good == {k \in Nat : c[k].equity = c[k].peak \/ fall(c[k]) \in before}
    <3>1. 0 \in Good
      BY <1>4
    <3>2. ASSUME NEW k \in 1 .. N, k - 1 \in Good PROVE k \in Good
      <4>1. CASE g[k].day < since
        BY <1>4, <3>2, <4>1
      <4>2. CASE ~ (g[k].day < since)
        <5>1. g[k].day >= since
          BY <1>1, <4>2
        <5> QED BY <1>5, <5>1
      <4> QED BY <4>1, <4>2
    <3>3. N \in Good
      <4>1. Good \in SUBSET Nat
        OBVIOUS
      <4> HIDE DEF Good
      <4>2. \A k \in 0 .. N : k \in Good
        BY <1>1, <3>1, <3>2, <4>1, UpTo
      <4> QED BY <1>1, <4>2
    <3>4. c[N] \in Points /\ c[N].equity <= c[N].peak
      BY <1>1, <1>2, <1>3
    <3>5. d[n] = Rules(desk)!Gain(c[N], x)
      BY <1>1, <1>2, <2>1, <2>3
    <3>6. d[n] \in Points /\ f.lost = d[n].peak - d[n].equity /\ f.peak = d[n].peak
      BY <1>3, <1>7, <2>1
    <3>7. CASE c[N].equity + x.pnl > c[N].peak
      BY <1>1, <3>4, <3>5, <3>6, <3>7 DEF Rules!Gain, Points
    <3>8. CASE ~ (c[N].equity + x.pnl > c[N].peak)
      <4>1. d[n].peak = c[N].peak /\ d[n].equity = c[N].equity + x.pnl /\ c[N].equity # c[N].peak
        BY <1>1, <1>10, <3>4, <3>5, <3>8 DEF Rules!Gain, Points
      <4>2. fall(c[N]) \in before /\ fall(c[N]).lost = c[N].peak - c[N].equity
            /\ fall(c[N]).peak = c[N].peak
        BY <1>7, <3>3, <3>4, <4>1
      <4>3. f.lost <= fall(c[N]).lost /\ f.peak = fall(c[N]).peak
        BY <1>1, <1>10, <3>4, <3>6, <4>1, <4>2 DEF Points
      <4> QED BY <4>2, <4>3
    <3> QED BY <3>7, <3>8
  <2> QED BY <2>2, <2>3
<1> QED BY <1>8, <1>9, <1>10 DEF falls, before, h, Deepen

-----------------------------------------------------------------------------
(* The share of voids.                                                      *)
LEMMA RulesCardinality == ASSUME NEW CONSTANT desk PROVE \A S : Rules(desk)!Cardinality(S) = Cardinality(S)
BY DEF Rules!Cardinality, Cardinality

LEMMA IntervalSize ==
  ASSUME NEW a \in Int, NEW b \in Int, NEW n \in Nat, b - a + 1 = n
  PROVE  IsFiniteSet(a .. b) /\ Cardinality(a .. b) = n
<1>1. IsFiniteSet(a .. b) /\ Cardinality(a .. b) = IF a > b THEN 0 ELSE b - a + 1
  BY FS_Interval, Zenon
<1> QED BY <1>1

(* The share is taken of the window, or of all there are when there are     *)
(* fewer.                                                                   *)
LEMMA TrailingIs ==
  ASSUME NEW CONSTANT desk, Reasonable(desk), NEW g \in Rules(desk)!Gradings
  PROVE  /\ Rules(desk)!Trailing(g) = {k \in 1 .. Len(g) : k > Len(g) - desk.voids}
         /\ IsFiniteSet(Rules(desk)!Trailing(g)) /\ IsFiniteSet(Rules(desk)!Voids(g))
         /\ Cardinality(Rules(desk)!Voids(g)) \in Nat
         /\ Cardinality(Rules(desk)!Trailing(g)) = IF Len(g) < desk.voids THEN Len(g) ELSE desk.voids
<1> DEFINE N == Len(g)
           T == Rules(desk)!Trailing(g)
<1>1. T = {k \in 1 .. N : k > N - desk.voids} /\ N \in Nat /\ desk.voids \in Nat \ {0}
  BY GradingsAre DEF Rules!Trailing, Reasonable
<1>2. Rules(desk)!Voids(g) \subseteq T
  BY DEF Rules!Voids
<1> HIDE DEF N, T
<1>3. CASE N < desk.voids
  <2>1. T = 1 .. N
    BY <1>1, <1>3
  <2>2. 1 \in Int /\ N \in Int /\ N \in Nat /\ N - 1 + 1 = N
    BY <1>1
  <2>3. IsFiniteSet(T) /\ Cardinality(T) = N
    BY <2>1, <2>2, IntervalSize
  <2> QED BY <1>1, <1>2, <1>3, <2>3, FS_Subset, FS_CardinalityType DEF N, T
<1>4. CASE ~ (N < desk.voids)
  <2>1. T = N - desk.voids + 1 .. N
    BY <1>1, <1>4
  <2>2. /\ N - desk.voids + 1 \in Int /\ N \in Int /\ desk.voids \in Nat
        /\ N - (N - desk.voids + 1) + 1 = desk.voids
    BY <1>1
  <2>3. IsFiniteSet(T) /\ Cardinality(T) = desk.voids
    BY <2>1, <2>2, IntervalSize
  <2> QED BY <1>1, <1>2, <1>4, <2>3, FS_Subset, FS_CardinalityType DEF N, T
<1> QED BY <1>3, <1>4

(* A decided grading never adds to the share, and a void never takes from   *)
(* it (_check_r015).                                                        *)
LEMMA ShareOfVoids ==
  ASSUME NEW CONSTANT desk, Reasonable(desk), NEW g \in Rules(desk)!Gradings,
         NEW x \in [day : 0 .. desk.days, outcome : Rules(desk)!Outcomes, pnl : desk.pnls]
  PROVE  LET voids(s) == Cardinality(Rules(desk)!Voids(s)) * 100
             share(s) == 20 * Cardinality(Rules(desk)!Trailing(s)) IN
           /\ x.outcome # "VOID" /\ voids(g) <= share(g) => voids(Append(g, x)) <= share(Append(g, x))
           /\ x.outcome = "VOID" /\ voids(Append(g, x)) <= share(Append(g, x)) => voids(g) <= share(g)
<1> DEFINE N == Len(g)
           W == desk.voids
           h == Append(g, x)
           V == Rules(desk)!Voids(g)
           U == Rules(desk)!Voids(h)
           T == Rules(desk)!Trailing(g)
           S == Rules(desk)!Trailing(h)
<1>1. /\ h \in Rules(desk)!Gradings /\ Len(h) = N + 1 /\ h[N + 1] = x /\ N \in Nat /\ W \in Nat \ {0}
      /\ \A n \in 1 .. N : h[n] = g[n]
  BY Appended, GradingsAre DEF Reasonable
<1>2. /\ T = {k \in 1 .. N : k > N - W} /\ IsFiniteSet(V) /\ Cardinality(V) \in Nat
      /\ Cardinality(T) = IF N < W THEN N ELSE W
  BY TrailingIs
<1>3. /\ S = {k \in 1 .. N + 1 : k > N + 1 - W} /\ IsFiniteSet(U) /\ Cardinality(U) \in Nat
      /\ Cardinality(S) = IF N + 1 < W THEN N + 1 ELSE W
  <2> HIDE DEF h
  <2>1. /\ S = {k \in 1 .. Len(h) : k > Len(h) - W} /\ IsFiniteSet(U) /\ Cardinality(U) \in Nat
        /\ Cardinality(S) = IF Len(h) < W THEN Len(h) ELSE W
    BY <1>1, TrailingIs
  <2> QED BY <1>1, <2>1
<1>4. V = {k \in T : g[k].outcome = "VOID"} /\ U = {k \in S : h[k].outcome = "VOID"}
  BY DEF Rules!Voids
<1> HIDE DEF N, W, h, V, U, T, S
<1>5. ASSUME x.outcome # "VOID", Cardinality(V) * 100 <= 20 * Cardinality(T)
      PROVE  Cardinality(U) * 100 <= 20 * Cardinality(S)
  <2>1. ASSUME NEW k \in U PROVE k \in V
    <3>1. k \in 1 .. N + 1 /\ k > N + 1 - W /\ h[k].outcome = "VOID"
      BY <1>3, <1>4
    <3>2. k # N + 1
      BY <1>1, <1>5, <3>1
    <3>3. k \in 1 .. N /\ k > N - W /\ g[k].outcome = "VOID"
      BY <1>1, <3>1, <3>2
    <3> QED BY <1>2, <1>4, <3>3
  <2>2. Cardinality(U) <= Cardinality(V)
    BY <1>2, <2>1, FS_Subset
  <2>3. Cardinality(T) <= Cardinality(S) /\ Cardinality(T) \in Nat /\ Cardinality(S) \in Nat
    BY <1>1, <1>2, <1>3
  <2> QED BY <1>2, <1>3, <1>5, <2>2, <2>3
<1>6. ASSUME x.outcome = "VOID", Cardinality(U) * 100 <= 20 * Cardinality(S)
      PROVE  Cardinality(V) * 100 <= 20 * Cardinality(T)
  <2> DEFINE m == N - W + 1
             K == V \ {m}
  <2>0. Cardinality(T) \in Nat /\ Cardinality(S) \in Nat /\ Cardinality(S) <= Cardinality(T) + 1
        /\ (N >= W => Cardinality(S) = Cardinality(T))
    BY <1>1, <1>2, <1>3
  <2>1. N + 1 \notin V /\ N + 1 \in U
    BY <1>1, <1>2, <1>3, <1>4, <1>6
  <2>2. ASSUME NEW k \in V, k # m PROVE k \in U
    <3>1. k \in 1 .. N /\ k > N - W /\ g[k].outcome = "VOID"
      BY <1>2, <1>4
    <3>2. k \in 1 .. N + 1 /\ k > N + 1 - W /\ h[k].outcome = "VOID"
      BY <1>1, <2>2, <3>1
    <3> QED BY <1>3, <1>4, <3>2
  <2>3. IsFiniteSet(K) /\ Cardinality(K) \in Nat
        /\ Cardinality(K) = IF m \in V THEN Cardinality(V) - 1 ELSE Cardinality(V)
    BY <1>2, FS_RemoveElement, FS_CardinalityType
  <2>4. Cardinality(K \cup {N + 1}) = Cardinality(K) + 1 /\ K \cup {N + 1} \subseteq U
    BY <2>1, <2>2, <2>3, FS_AddElement
  <2>5. Cardinality(K) + 1 <= Cardinality(U)
    BY <1>3, <2>4, FS_Subset
  <2>6. CASE N < W
    <3>1. m \notin V
      BY <1>1, <1>2, <1>4, <2>6
    <3> QED BY <1>2, <1>3, <1>6, <2>0, <2>3, <2>5, <3>1
  <2>7. CASE N >= W
    BY <1>2, <1>3, <1>6, <2>0, <2>3, <2>5, <2>7
  <2> QED BY <1>1, <2>6, <2>7
<1> QED BY <1>5, <1>6 DEF V, U, T, S, h

-----------------------------------------------------------------------------
(* The rules.                                                               *)
LEMMA OrderRules ==
  ASSUME NEW CONSTANT desk, NEW a, a.kind = "submit_order", NEW l
  PROVE  LET passes(r) == r = "pass" \/ r = "not_configured" IN
         Rules(desk)!Allowed(a, l) <=>
           /\ passes(Rules(desk)!R001(a, l)) /\ passes(Rules(desk)!R002(a, l))
           /\ passes(Rules(desk)!R003(a, l)) /\ passes(Rules(desk)!R004(a, l))
           /\ passes(Rules(desk)!R005(a, l)) /\ passes(Rules(desk)!R006(a, l))
           /\ passes(Rules(desk)!R007(a, l)) /\ passes(Rules(desk)!R008(a, l))
           /\ passes(Rules(desk)!R009(a, l)) /\ passes(Rules(desk)!R010(a, l))
           /\ passes(Rules(desk)!R011(a, l)) /\ passes(Rules(desk)!R012(a, l))
           /\ passes(Rules(desk)!R013(a, l)) /\ passes(Rules(desk)!R014(a, l))
           /\ passes(Rules(desk)!R015(a, l)) /\ passes(Rules(desk)!R017(a, l))
           /\ passes(Rules(desk)!R018(a, l))
BY DEF Rules!Allowed, Rules!RULES

(* What an order is judged by besides what was graded; an action of any     *)
(* other kind is judged by the switch and by the gradings alone.            *)
LEMMA OtherActions ==
  ASSUME NEW CONSTANT desk, NEW a, a.kind # "submit_order", NEW l, NEW k,
         k.halted = l.halted, k.graded = l.graded
  PROVE  Rules(desk)!Allowed(a, k) => Rules(desk)!Allowed(a, l)
<1>1. Rules(desk)!R001(a, k) = Rules(desk)!R001(a, l)
  BY DEF Rules!R001
<1>2. Rules(desk)!R016(a, k) = Rules(desk)!R016(a, l)
  BY DEF Rules!R016, Rules!Metrics
<1> QED BY <1>1, <1>2 DEF Rules!Allowed, Rules!RULES

(* A thesis, a promotion or a principal that is not on record denies the    *)
(* order.                                                                   *)
LEMMA UnknownDenies ==
  ASSUME NEW CONSTANT desk, NEW a, a.kind = "submit_order", NEW l, Rules(desk)!Allowed(a, l)
  PROVE  /\ l.thesis.reviewed /\ l.thesis.submitted # None /\ l.thesis.sized # None
         /\ v1 = "live" => l.tier2
         /\ v1 \in {"paper", "advisory"} => l.config # None
<1>1. /\ Rules(desk)!R002(a, l) = "pass" \/ Rules(desk)!R002(a, l) = "not_configured"
      /\ Rules(desk)!R006(a, l) = "pass" \/ Rules(desk)!R006(a, l) = "not_configured"
      /\ Rules(desk)!R010(a, l) = "pass" \/ Rules(desk)!R010(a, l) = "not_configured"
      /\ Rules(desk)!R012(a, l) = "pass" \/ Rules(desk)!R012(a, l) = "not_configured"
  BY OrderRules
<1>2. l.thesis.reviewed /\ l.thesis.submitted # None
  BY <1>1 DEF Rules!R010, Rules!Pass, Rules!Prerequisites
<1>3. l.thesis.sized # None
  BY <1>1 DEF Rules!R012, Rules!Given, Rules!Pass, Rules!Recorded
<1>4. Rules(desk)!Tier(l) # None
  BY <1>1 DEF Rules!R002, Rules!Given, Rules!Pass
<1>5. v1 = "live" => l.tier2
  BY <1>4 DEF Rules!Tier, Rules!Paper
<1>6. Rules(desk)!Principal(l) # None
  BY <1>1 DEF Rules!R006, Rules!Given, Rules!Pass
<1>7. ASSUME v1 \in {"paper", "advisory"} PROVE l.config # None
  <2>1. Rules(desk)!Tier(l) # 2
    BY <1>7 DEF Rules!Tier, Rules!Paper
  <2> QED BY <1>6, <1>7, <2>1 DEF Rules!Principal
<1> QED BY <1>2, <1>3, <1>5, <1>7

(* What is not on record never helps an action (_check_r002 ... _check_r014 *)
(* deny on a field that is None).                                           *)
LEMMA FailsClosedHolds ==
  ASSUME NEW CONSTANT desk, Rules(desk)!TypeOK
  PROVE  Rules(desk)!FailsClosed
<1> SUFFICES ASSUME NEW a \in Rules(desk)!Actions, NEW l \in Rules(desk)!Forgetful, Rules(desk)!Allowed(a, l)
             PROVE  Rules(desk)!Allowed(a, v2)
  BY DEF Rules!FailsClosed
<1>1. v1 \in {"default", "paper", "advisory", "live"}
  BY DEF Rules!TypeOK
<1> DEFINE Fields == {"halted", "tier2", "fills", "config", "thesis", "day", "entries", "graded"}
<1>2. /\ v2 = [f \in DOMAIN v2 |-> v2[f]] /\ DOMAIN v2 = Fields
      /\ v2.thesis = [f \in DOMAIN v2.thesis |-> v2.thesis[f]]
      /\ DOMAIN v2.thesis = {"submitted", "sized", "reviewed"}
  BY DEF Rules!TypeOK, Rules!Theses
<1>3. l.halted = v2.halted /\ l.graded = v2.graded
  BY <1>2 DEF Rules!Forgetful
<1>4. CASE a.kind # "submit_order"
  BY <1>3, <1>4, OtherActions
<1>5. CASE a.kind = "submit_order"
  <2>1. /\ l.thesis.reviewed /\ l.thesis.submitted # None /\ l.thesis.sized # None
        /\ v1 = "live" => l.tier2
        /\ v1 \in {"paper", "advisory"} => l.config # None
    BY <1>5, UnknownDenies
  <2>2. CASE l = [v2 EXCEPT !.thesis = Rules(desk)!NoThesis]
    BY <1>2, <2>1, <2>2 DEF Rules!NoThesis
  <2>3. CASE l = [v2 EXCEPT !.thesis.sized = None]
    BY <1>2, <2>1, <2>3
  <2>4. CASE l = [v2 EXCEPT !.thesis.reviewed = FALSE]
    BY <1>2, <2>1, <2>4
  <2>5. CASE l = [v2 EXCEPT !.thesis.submitted = None]
    BY <1>2, <2>1, <2>5
  <2>6. CASE l = [v2 EXCEPT !.config = None] /\ v1 \notin {"default", "live"}
    BY <1>1, <1>2, <2>1, <2>6
  <2>7. CASE l = [v2 EXCEPT !.tier2 = FALSE]
    <3>1. /\ \A f \in Fields : f # "tier2" => l[f] = v2[f]
          /\ ~ l.tier2
      BY <1>2, <2>7
    <3>2. v1 # "live"
      BY <2>1, <3>1
    <3>3. Rules(desk)!Tier(l) = Rules(desk)!Tier(v2)
      BY <3>2 DEF Rules!Tier
    <3>4. /\ l.halted = v2.halted /\ l.fills = v2.fills /\ l.config = v2.config /\ l.thesis = v2.thesis
          /\ l.day = v2.day /\ l.entries = v2.entries /\ l.graded = v2.graded
      BY <3>1
    <3>5. /\ Rules(desk)!Principal(l) = Rules(desk)!Principal(v2)
          /\ Rules(desk)!Equity(l) = Rules(desk)!Equity(v2)
          /\ Rules(desk)!Remaining(l) = Rules(desk)!Remaining(v2)
          /\ Rules(desk)!Dial(l, "daily") = Rules(desk)!Dial(v2, "daily")
          /\ Rules(desk)!Dial(l, "lifetime") = Rules(desk)!Dial(v2, "lifetime")
          /\ Rules(desk)!DayPnl(l) = Rules(desk)!DayPnl(v2)
          /\ Rules(desk)!TrailingFalls(l) = Rules(desk)!TrailingFalls(v2)
          /\ Rules(desk)!Prerequisites(l) = Rules(desk)!Prerequisites(v2)
          /\ Rules(desk)!Recorded(l) = Rules(desk)!Recorded(v2)
          /\ Rules(desk)!Age(l) = Rules(desk)!Age(v2)
      BY <3>3, <3>4 DEF Rules!Principal, Rules!Equity, Rules!Remaining, Rules!Dial, Rules!DayPnl,
         Rules!TrailingFalls, Rules!Prerequisites, Rules!Recorded, Rules!Age
    <3>6. Rules(desk)!LifetimeFalls(l) = Rules(desk)!LifetimeFalls(v2)
      BY <3>4, <3>5 DEF Rules!LifetimeFalls
    <3>7. /\ Rules(desk)!R001(a, l) = Rules(desk)!R001(a, v2)
          /\ Rules(desk)!R002(a, l) = Rules(desk)!R002(a, v2)
          /\ Rules(desk)!R003(a, l) = Rules(desk)!R003(a, v2)
          /\ Rules(desk)!R004(a, l) = Rules(desk)!R004(a, v2)
          /\ Rules(desk)!R005(a, l) = Rules(desk)!R005(a, v2)
          /\ Rules(desk)!R006(a, l) = Rules(desk)!R006(a, v2)
      BY <3>3, <3>4, <3>5 DEF Rules!R001, Rules!R002, Rules!R003, Rules!R004, Rules!R005, Rules!R006
    <3>8. /\ Rules(desk)!R007(a, l) = Rules(desk)!R007(a, v2)
          /\ Rules(desk)!R008(a, l) = Rules(desk)!R008(a, v2)
          /\ Rules(desk)!R009(a, l) = Rules(desk)!R009(a, v2)
          /\ Rules(desk)!R010(a, l) = Rules(desk)!R010(a, v2)
          /\ Rules(desk)!R011(a, l) = Rules(desk)!R011(a, v2)
          /\ Rules(desk)!R012(a, l) = Rules(desk)!R012(a, v2)
      BY <3>4, <3>5 DEF Rules!R007, Rules!R008, Rules!R009, Rules!R010, Rules!R011, Rules!R012
    <3>9. /\ Rules(desk)!R013(a, l) = Rules(desk)!R013(a, v2)
          /\ Rules(desk)!R014(a, l) = Rules(desk)!R014(a, v2)
          /\ Rules(desk)!R015(a, l) = Rules(desk)!R015(a, v2)
      BY <3>4, <3>5 DEF Rules!R013, Rules!R014, Rules!R015
    <3>10. Rules(desk)!R017(a, l) = Rules(desk)!R017(a, v2)
      BY <3>5 DEF Rules!R017
    <3>11. Rules(desk)!R018(a, l) = Rules(desk)!R018(a, v2)
      BY <3>5, <3>6 DEF Rules!R018
    <3> QED BY <1>5, <3>7, <3>8, <3>9, <3>10, <3>11, OrderRules
  <2> QED BY <2>2, <2>3, <2>4, <2>5, <2>6, <2>7 DEF Rules!Forgetful
<1> QED BY <1>4, <1>5

(* A grading leaves every rule alone but the breaker, the share of voids    *)
(* and the two loss limits.                                                 *)
LEMMA OtherRules ==
  ASSUME NEW CONSTANT desk, NEW a, NEW l, NEW k,
         /\ k.halted = l.halted /\ k.tier2 = l.tier2 /\ k.fills = l.fills /\ k.config = l.config
         /\ k.thesis = l.thesis /\ k.day = l.day /\ k.entries = l.entries
  PROVE  /\ Rules(desk)!R001(a, k) = Rules(desk)!R001(a, l) /\ Rules(desk)!R002(a, k) = Rules(desk)!R002(a, l)
         /\ Rules(desk)!R003(a, k) = Rules(desk)!R003(a, l) /\ Rules(desk)!R004(a, k) = Rules(desk)!R004(a, l)
         /\ Rules(desk)!R005(a, k) = Rules(desk)!R005(a, l) /\ Rules(desk)!R006(a, k) = Rules(desk)!R006(a, l)
         /\ Rules(desk)!R007(a, k) = Rules(desk)!R007(a, l) /\ Rules(desk)!R008(a, k) = Rules(desk)!R008(a, l)
         /\ Rules(desk)!R010(a, k) = Rules(desk)!R010(a, l) /\ Rules(desk)!R011(a, k) = Rules(desk)!R011(a, l)
         /\ Rules(desk)!R012(a, k) = Rules(desk)!R012(a, l) /\ Rules(desk)!R013(a, k) = Rules(desk)!R013(a, l)
         /\ Rules(desk)!R014(a, k) = Rules(desk)!R014(a, l)
         /\ Rules(desk)!Principal(k) = Rules(desk)!Principal(l)
         /\ Rules(desk)!Dial(k, "daily") = Rules(desk)!Dial(l, "daily")
         /\ Rules(desk)!Dial(k, "lifetime") = Rules(desk)!Dial(l, "lifetime")
<1>1. Rules(desk)!Tier(k) = Rules(desk)!Tier(l)
  BY DEF Rules!Tier
<1>2. /\ Rules(desk)!Principal(k) = Rules(desk)!Principal(l)
      /\ Rules(desk)!Equity(k) = Rules(desk)!Equity(l)
      /\ Rules(desk)!Remaining(k) = Rules(desk)!Remaining(l)
      /\ Rules(desk)!Dial(k, "daily") = Rules(desk)!Dial(l, "daily")
      /\ Rules(desk)!Dial(k, "lifetime") = Rules(desk)!Dial(l, "lifetime")
      /\ Rules(desk)!Prerequisites(k) = Rules(desk)!Prerequisites(l)
      /\ Rules(desk)!Recorded(k) = Rules(desk)!Recorded(l)
      /\ Rules(desk)!Age(k) = Rules(desk)!Age(l)
  BY <1>1 DEF Rules!Principal, Rules!Equity, Rules!Remaining, Rules!Dial, Rules!Prerequisites,
     Rules!Recorded, Rules!Age
<1>3. /\ Rules(desk)!R001(a, k) = Rules(desk)!R001(a, l) /\ Rules(desk)!R002(a, k) = Rules(desk)!R002(a, l)
      /\ Rules(desk)!R003(a, k) = Rules(desk)!R003(a, l) /\ Rules(desk)!R004(a, k) = Rules(desk)!R004(a, l)
      /\ Rules(desk)!R005(a, k) = Rules(desk)!R005(a, l) /\ Rules(desk)!R006(a, k) = Rules(desk)!R006(a, l)
  BY <1>1, <1>2 DEF Rules!R001, Rules!R002, Rules!R003, Rules!R004, Rules!R005, Rules!R006
<1>4. /\ Rules(desk)!R007(a, k) = Rules(desk)!R007(a, l) /\ Rules(desk)!R008(a, k) = Rules(desk)!R008(a, l)
      /\ Rules(desk)!R010(a, k) = Rules(desk)!R010(a, l) /\ Rules(desk)!R011(a, k) = Rules(desk)!R011(a, l)
      /\ Rules(desk)!R012(a, k) = Rules(desk)!R012(a, l) /\ Rules(desk)!R013(a, k) = Rules(desk)!R013(a, l)
      /\ Rules(desk)!R014(a, k) = Rules(desk)!R014(a, l)
  BY <1>2 DEF Rules!R007, Rules!R008, Rules!R010, Rules!R011, Rules!R012, Rules!R013, Rules!R014
<1> QED BY <1>2, <1>3, <1>4

(* What a grading makes of the log.                                         *)
LEMMA GradedKeeps ==
  ASSUME NEW CONSTANT desk, Rules(desk)!TypeOK, NEW outcome, NEW pnl
  PROVE  /\ Rules(desk)!Graded(v2, outcome, pnl).halted = v2.halted
         /\ Rules(desk)!Graded(v2, outcome, pnl).tier2 = v2.tier2
         /\ Rules(desk)!Graded(v2, outcome, pnl).fills = v2.fills
         /\ Rules(desk)!Graded(v2, outcome, pnl).config = v2.config
         /\ Rules(desk)!Graded(v2, outcome, pnl).thesis = v2.thesis
         /\ Rules(desk)!Graded(v2, outcome, pnl).day = v2.day
         /\ Rules(desk)!Graded(v2, outcome, pnl).entries = v2.entries
<1>1. DOMAIN v2 = {"halted", "tier2", "fills", "config", "thesis", "day", "entries", "graded"}
  BY DEF Rules!TypeOK
<1> QED BY <1>1 DEF Rules!Graded

LEMMA GradedAdds ==
  ASSUME NEW CONSTANT desk, Rules(desk)!TypeOK, NEW outcome, NEW pnl
  PROVE  Rules(desk)!Graded(v2, outcome, pnl).graded
           = Append(v2.graded, [day |-> v2.day, outcome |-> outcome, pnl |-> pnl])
<1>1. DOMAIN v2 = {"halted", "tier2", "fills", "config", "thesis", "day", "entries", "graded"}
  BY DEF Rules!TypeOK
<1> QED BY <1>1 DEF Rules!Graded

LEMMA GradedIs ==
  ASSUME NEW CONSTANT desk, Reasonable(desk), Rules(desk)!TypeOK,
         NEW outcome \in Rules(desk)!Outcomes, NEW pnl \in desk.pnls
  PROVE  LET x == [day |-> v2.day, outcome |-> outcome, pnl |-> pnl] IN
           /\ v2.graded \in Rules(desk)!Gradings /\ v2.day \in Int /\ pnl \in Int
           /\ x \in [day : 0 .. desk.days, outcome : Rules(desk)!Outcomes, pnl : desk.pnls]
<1>1. v2.graded \in Rules(desk)!Gradings /\ v2.day \in 0 .. desk.days
  BY DEF Rules!TypeOK
<1>2. pnl \in Int /\ v2.day \in Int
  BY <1>1 DEF Reasonable
<1> QED BY <1>1, <1>2

(* What the limits are measured by.                                         *)
LEMMA PrincipalIs ==
  ASSUME NEW CONSTANT desk, Reasonable(desk), Rules(desk)!TypeOK
  PROVE  /\ Rules(desk)!Principal(v2) \in Nat \union {None}
         /\ \A f \in {"daily", "lifetime"} : Rules(desk)!Dial(v2, f) \in Nat \union {None}
<1>1. v2.config \in desk.configs \union {None}
  BY DEF Rules!TypeOK
<1>2. v2.config # None => /\ v2.config.principal \in Nat
                          /\ \A f \in {"daily", "lifetime"} : v2.config[f] \in Nat \union {None}
  BY <1>1 DEF Reasonable
<1> QED BY <1>2 DEF Rules!Principal, Rules!Dial, Rules!Dials

(* The drawdown rules before and after a grading.                           *)
LEMMA FallRules ==
  ASSUME NEW CONSTANT desk, Reasonable(desk), Rules(desk)!TypeOK, NEW a,
         NEW outcome \in Rules(desk)!Outcomes, NEW pnl \in desk.pnls
  PROVE  LET k == Rules(desk)!Graded(v2, outcome, pnl)
             passes(r) == r = "pass" \/ r = "not_configured" IN
           /\ passes(Rules(desk)!R009(a, k)) => passes(Rules(desk)!R009(a, v2))
           /\ passes(Rules(desk)!R018(a, k)) => passes(Rules(desk)!R018(a, v2))
           /\ 0 < pnl /\ passes(Rules(desk)!R009(a, v2)) => passes(Rules(desk)!R009(a, k))
           /\ 0 < pnl /\ passes(Rules(desk)!R018(a, v2)) => passes(Rules(desk)!R018(a, k))
<1> DEFINE k == Rules(desk)!Graded(v2, outcome, pnl)
           x == [day |-> v2.day, outcome |-> outcome, pnl |-> pnl]
           passes(r) == r = "pass" \/ r = "not_configured"
           P == Rules(desk)!Principal(v2)
           dial == Rules(desk)!Dial(v2, "lifetime")
           T == Rules(desk)!TrailingFalls(v2)
           U == Rules(desk)!TrailingFalls(k)
           L == Rules(desk)!LifetimeFalls(v2)
           M == Rules(desk)!LifetimeFalls(k)
<1>1. /\ v2.graded \in Rules(desk)!Gradings /\ v2.day - desk.window \in Int /\ k.day = v2.day
      /\ k.graded = Append(v2.graded, x) /\ x.pnl = pnl /\ pnl \in Int
      /\ x \in [day : 0 .. desk.days, outcome : Rules(desk)!Outcomes, pnl : desk.pnls]
  <2>1. v2.graded \in Rules(desk)!Gradings /\ v2.day \in Int /\ pnl \in Int
        /\ x \in [day : 0 .. desk.days, outcome : Rules(desk)!Outcomes, pnl : desk.pnls]
    BY GradedIs, Zenon
  <2>2. k.day = v2.day
    BY GradedKeeps
  <2>3. k.graded = Append(v2.graded, x)
    BY GradedAdds, Zenon
  <2>4. v2.day - desk.window \in Int
    BY <2>1 DEF Reasonable
  <2> QED BY <2>1, <2>2, <2>3, <2>4
<1>2. /\ Rules(desk)!Principal(k) = P /\ Rules(desk)!Dial(k, "lifetime") = dial
  <2>1. /\ k.halted = v2.halted /\ k.tier2 = v2.tier2 /\ k.fills = v2.fills /\ k.config = v2.config
        /\ k.thesis = v2.thesis /\ k.day = v2.day /\ k.entries = v2.entries
    BY GradedKeeps
  <2> HIDE DEF k
  <2> QED BY <2>1, OtherRules
<1>3. P \in Nat \union {None} /\ dial \in Nat \union {None}
  BY PrincipalIs
<1> HIDE DEF k, x
<1>4. /\ \A f \in U : f.lost \in Int /\ f.peak \in Int /\ 500 <= f.peak
      /\ T \subseteq U
      /\ 0 < pnl => \A f \in U : f.lost = 0 \/ \E e \in T : f.lost <= e.lost /\ f.peak = e.peak
  <2> HIDE DEF P, dial, L, M, passes
  <2>0. PICK start \in Int : start = 500
    OBVIOUS
  <2>1. /\ T = Rules(desk)!Falls(start, v2.day - desk.window, v2.graded)
        /\ U = Rules(desk)!Falls(start, v2.day - desk.window, Append(v2.graded, x))
    BY <1>1, <2>0 DEF Rules!TrailingFalls, Rules!Dials
  <2>2. v2.day - desk.window \in Int /\ v2.graded \in Rules(desk)!Gradings
        /\ x \in [day : 0 .. desk.days, outcome : Rules(desk)!Outcomes, pnl : desk.pnls]
    BY <1>1
  <2> HIDE DEF T, U
  <2>3. Deepen(start, x.pnl, T, U)
    BY <2>1, <2>2, FallsGrow, Zenon
  <2> QED BY <1>1, <2>0, <2>3 DEF Deepen
<1>5. ASSUME P # None
      PROVE  /\ \A f \in M : f.lost \in Int
             /\ L \subseteq M
             /\ 0 < pnl => \A f \in M : f.lost = 0 \/ \E e \in L : f.lost <= e.lost
  <2>1. /\ L = Rules(desk)!Falls(P, 0, v2.graded)
        /\ M = Rules(desk)!Falls(P, 0, Append(v2.graded, x))
    BY <1>1, <1>2, <1>5 DEF Rules!LifetimeFalls
  <2>2. P \in Int
    BY <1>3, <1>5
  <2>3. 0 \in Int /\ v2.graded \in Rules(desk)!Gradings
        /\ x \in [day : 0 .. desk.days, outcome : Rules(desk)!Outcomes, pnl : desk.pnls]
    BY <1>1
  <2> HIDE DEF L, M, P, T, U, dial, passes
  <2>4. Deepen(P, x.pnl, L, M)
    BY <2>1, <2>2, <2>3, FallsGrow, Zenon
  <2> QED BY <1>1, <2>4 DEF Deepen
<1>6. /\ passes(Rules(desk)!R009(a, v2)) <=> \A f \in T : f.lost * 100 < 10 * f.peak
      /\ passes(Rules(desk)!R009(a, k)) <=> \A f \in U : f.lost * 100 < 10 * f.peak
  BY DEF Rules!R009, Rules!Pass, Rules!Dials
<1>7. /\ passes(Rules(desk)!R018(a, v2)) <=> \/ dial = None
                                             \/ P # None /\ \A f \in L : f.lost * 100 <= dial * P
      /\ passes(Rules(desk)!R018(a, k)) <=> \/ dial = None
                                            \/ P # None /\ \A f \in M : f.lost * 100 <= dial * P
  BY <1>2 DEF Rules!R018, Rules!Given, Rules!Pass
<1> HIDE DEF P, dial, T, U, L, M, passes
<1>8. ASSUME dial # None, P # None PROVE dial * P \in Int /\ 0 <= dial * P
  <2>1. dial \in Nat /\ P \in Nat
    BY <1>3, <1>8
  <2> QED BY <2>1
<1>9. passes(Rules(desk)!R009(a, k)) => passes(Rules(desk)!R009(a, v2))
  BY <1>4, <1>6
<1>10. passes(Rules(desk)!R018(a, k)) => passes(Rules(desk)!R018(a, v2))
  BY <1>5, <1>7
<1>11. ASSUME 0 < pnl, passes(Rules(desk)!R009(a, v2)) PROVE passes(Rules(desk)!R009(a, k))
  <2> SUFFICES ASSUME NEW f \in U PROVE f.lost * 100 < 10 * f.peak
    BY <1>6
  <2>1. f.lost \in Int /\ f.peak \in Int /\ 500 <= f.peak
    BY <1>4
  <2>2. CASE f.lost = 0
    BY <2>1, <2>2
  <2>3. CASE \E e \in T : f.lost <= e.lost /\ f.peak = e.peak
    <3>1. PICK e \in T : f.lost <= e.lost /\ f.peak = e.peak
      BY <2>3
    <3>2. e.lost \in Int /\ e.lost * 100 < 10 * e.peak
      BY <1>4, <1>6, <1>11
    <3> QED BY <2>1, <3>1, <3>2
  <2> QED BY <1>4, <1>11, <2>2, <2>3
<1>12. ASSUME 0 < pnl, passes(Rules(desk)!R018(a, v2)) PROVE passes(Rules(desk)!R018(a, k))
  <2> SUFFICES ASSUME dial # None, P # None, NEW f \in M PROVE f.lost * 100 <= dial * P
    BY <1>7, <1>12
  <2> DEFINE most == dial * P
  <2>1. f.lost \in Int /\ most \in Int /\ 0 <= most
    BY <1>5, <1>8
  <2>2. \A e \in L : e.lost \in Int /\ e.lost * 100 <= most
    BY <1>5, <1>7, <1>12
  <2> HIDE DEF most
  <2>3. CASE f.lost = 0
    <3>1. f.lost * 100 <= most
      BY <2>1, <2>3
    <3> QED BY <3>1 DEF most
  <2>4. CASE \E e \in L : f.lost <= e.lost
    <3>1. f.lost * 100 <= most
      BY <2>1, <2>2, <2>4
    <3> QED BY <3>1 DEF most
  <2> QED BY <1>5, <1>12, <2>3, <2>4
<1> QED BY <1>9, <1>10, <1>11, <1>12 DEF passes, k

(* The day's limit before and after a grading.                              *)
LEMMA DailyRule ==
  ASSUME NEW CONSTANT desk, Reasonable(desk), Rules(desk)!TypeOK, NEW a,
         NEW outcome \in Rules(desk)!Outcomes, NEW pnl \in desk.pnls
  PROVE  LET k == Rules(desk)!Graded(v2, outcome, pnl)
             passes(r) == r = "pass" \/ r = "not_configured" IN
           /\ pnl < 0 /\ passes(Rules(desk)!R017(a, k)) => passes(Rules(desk)!R017(a, v2))
           /\ 0 < pnl /\ passes(Rules(desk)!R017(a, v2)) => passes(Rules(desk)!R017(a, k))
<1> DEFINE k == Rules(desk)!Graded(v2, outcome, pnl)
           x == [day |-> v2.day, outcome |-> outcome, pnl |-> pnl]
           passes(r) == r = "pass" \/ r = "not_configured"
           P == Rules(desk)!Principal(v2)
           dial == Rules(desk)!Dial(v2, "daily")
           sum == Rules(desk)!DayPnl(v2)
           later == Rules(desk)!DayPnl(k)
           most == dial * P
<1>1. /\ v2.graded \in Rules(desk)!Gradings /\ v2.day \in Int /\ k.day = v2.day
      /\ k.graded = Append(v2.graded, x) /\ x.pnl = pnl /\ x.day = v2.day /\ pnl \in Int
      /\ x \in [day : 0 .. desk.days, outcome : Rules(desk)!Outcomes, pnl : desk.pnls]
  <2>1. v2.graded \in Rules(desk)!Gradings /\ v2.day \in Int /\ pnl \in Int
        /\ x \in [day : 0 .. desk.days, outcome : Rules(desk)!Outcomes, pnl : desk.pnls]
    BY GradedIs, Zenon
  <2>2. k.day = v2.day
    BY GradedKeeps
  <2>3. k.graded = Append(v2.graded, x)
    BY GradedAdds, Zenon
  <2> QED BY <2>1, <2>2, <2>3
<1>2. /\ Rules(desk)!Principal(k) = P /\ Rules(desk)!Dial(k, "daily") = dial
  <2>1. /\ k.halted = v2.halted /\ k.tier2 = v2.tier2 /\ k.fills = v2.fills /\ k.config = v2.config
        /\ k.thesis = v2.thesis /\ k.day = v2.day /\ k.entries = v2.entries
    BY GradedKeeps
  <2> HIDE DEF k
  <2> QED BY <2>1, OtherRules
<1>3. P \in Nat \union {None} /\ dial \in Nat \union {None}
  BY PrincipalIs
<1> HIDE DEF k, x
<1>4. sum \in Int /\ later = sum + pnl
  <2>1. Len(k.graded) = Len(v2.graded) + 1
    BY <1>1, Appended
  <2>2. /\ sum = Rules(desk)!Earned(v2.graded, v2.day)[Len(v2.graded)]
        /\ later = Rules(desk)!Earned(Append(v2.graded, x), v2.day)[Len(v2.graded) + 1]
    BY <1>1, <2>1 DEF Rules!DayPnl
  <2> HIDE DEF sum, later
  <2>3. Adds(sum, later, v2.day, x)
    BY <1>1, <2>2, EarnedGrows, Zenon
  <2> QED BY <1>1, <2>3 DEF Adds
<1>5. /\ passes(Rules(desk)!R017(a, v2)) <=> dial = None \/ (P # None /\ - sum * 100 <= most)
      /\ passes(Rules(desk)!R017(a, k)) <=> dial = None \/ (P # None /\ - later * 100 <= most)
  BY <1>2 DEF Rules!R017, Rules!Given, Rules!Pass
<1>6. ASSUME dial # None, P # None PROVE most \in Int
  <2>1. dial \in Nat /\ P \in Nat
    BY <1>3, <1>6
  <2> QED BY <2>1
<1> HIDE DEF P, dial, sum, later, most, passes
<1>7. ASSUME pnl < 0, dial # None, P # None, - later * 100 <= most PROVE - sum * 100 <= most
  BY <1>1, <1>4, <1>6, <1>7
<1>8. ASSUME 0 < pnl, dial # None, P # None, - sum * 100 <= most PROVE - later * 100 <= most
  BY <1>1, <1>4, <1>6, <1>8
<1> QED BY <1>5, <1>7, <1>8 DEF passes, k

(* The share of voids before and after a grading.                           *)
LEMMA VoidRule ==
  ASSUME NEW CONSTANT desk, Reasonable(desk), Rules(desk)!TypeOK, NEW a,
         NEW outcome \in Rules(desk)!Outcomes, NEW pnl \in desk.pnls
  PROVE  LET k == Rules(desk)!Graded(v2, outcome, pnl)
             passes(r) == r = "pass" \/ r = "not_configured" IN
           /\ passes(Rules(desk)!R015(a, v2)) \/ Rules(desk)!R015(a, v2) = "fail"
           /\ outcome # "VOID" /\ passes(Rules(desk)!R015(a, v2)) => passes(Rules(desk)!R015(a, k))
           /\ outcome = "VOID" /\ passes(Rules(desk)!R015(a, k)) => passes(Rules(desk)!R015(a, v2))
<1> DEFINE k == Rules(desk)!Graded(v2, outcome, pnl)
           x == [day |-> v2.day, outcome |-> outcome, pnl |-> pnl]
           passes(r) == r = "pass" \/ r = "not_configured"
           voids(s) == Cardinality(Rules(desk)!Voids(s)) * 100
           share(s) == 20 * Cardinality(Rules(desk)!Trailing(s))
<1>1. /\ v2.graded \in Rules(desk)!Gradings /\ k.graded = Append(v2.graded, x) /\ x.outcome = outcome
      /\ x \in [day : 0 .. desk.days, outcome : Rules(desk)!Outcomes, pnl : desk.pnls]
  <2>1. v2.graded \in Rules(desk)!Gradings
        /\ x \in [day : 0 .. desk.days, outcome : Rules(desk)!Outcomes, pnl : desk.pnls]
    BY GradedIs, Zenon
  <2>2. k.graded = Append(v2.graded, x)
    BY GradedAdds, Zenon
  <2> QED BY <2>1, <2>2
<1> HIDE DEF k, x
<1>2. \A l : /\ passes(Rules(desk)!R015(a, l)) <=> voids(l.graded) <= share(l.graded)
             /\ passes(Rules(desk)!R015(a, l)) \/ Rules(desk)!R015(a, l) = "fail"
  BY RulesCardinality DEF Rules!R015, Rules!Pass, Rules!Dials
<1>3. /\ x.outcome # "VOID" /\ voids(v2.graded) <= share(v2.graded)
           => voids(Append(v2.graded, x)) <= share(Append(v2.graded, x))
      /\ x.outcome = "VOID" /\ voids(Append(v2.graded, x)) <= share(Append(v2.graded, x))
           => voids(v2.graded) <= share(v2.graded)
  <2> HIDE DEF passes
  <2> QED BY <1>1, ShareOfVoids
<1> HIDE DEF voids, share, passes
<1> QED BY <1>1, <1>2, <1>3 DEF passes, k

(* A loss never opens the gate but for the share of voids, a gain never     *)
(* closes it, and a void that wins nothing never opens it (_check_r009,     *)
(* _check_r015, _check_r017, _check_r018).                                  *)
LEMMA LossesNeverOpenHolds ==
  ASSUME NEW CONSTANT desk, Reasonable(desk), Rules(desk)!TypeOK
  PROVE  Rules(desk)!LossesNeverOpen
<1> SUFFICES ASSUME NEW a \in Rules(desk)!Orders, NEW pnl \in desk.pnls
             PROVE
    /\ (pnl < 0 /\ Rules(desk)!Allowed(a, Rules(desk)!Graded(v2, "FAIL", pnl)))
         => (Rules(desk)!Allowed(a, v2) \/ Rules(desk)!R015(a, v2) = "fail")
    /\ (pnl > 0 /\ Rules(desk)!Allowed(a, v2)) => Rules(desk)!Allowed(a, Rules(desk)!Graded(v2, "PASS", pnl))
    /\ (pnl < 0 /\ Rules(desk)!Allowed(a, Rules(desk)!Graded(v2, "VOID", pnl))) => Rules(desk)!Allowed(a, v2)
  BY DEF Rules!LossesNeverOpen
<1> DEFINE passes(r) == r = "pass" \/ r = "not_configured"
           k(outcome) == Rules(desk)!Graded(v2, outcome, pnl)
<1>1. a.kind = "submit_order"
  BY DEF Rules!Orders, Rules!Order
<1>2. {"PASS", "FAIL", "VOID"} = Rules(desk)!Outcomes /\ pnl \in Int
  BY DEF Rules!Outcomes, Reasonable
<1>3. ASSUME NEW outcome \in {"PASS", "FAIL", "VOID"}
      PROVE  /\ Rules(desk)!R001(a, k(outcome)) = Rules(desk)!R001(a, v2)
             /\ Rules(desk)!R002(a, k(outcome)) = Rules(desk)!R002(a, v2)
             /\ Rules(desk)!R003(a, k(outcome)) = Rules(desk)!R003(a, v2)
             /\ Rules(desk)!R004(a, k(outcome)) = Rules(desk)!R004(a, v2)
             /\ Rules(desk)!R005(a, k(outcome)) = Rules(desk)!R005(a, v2)
             /\ Rules(desk)!R006(a, k(outcome)) = Rules(desk)!R006(a, v2)
             /\ Rules(desk)!R007(a, k(outcome)) = Rules(desk)!R007(a, v2)
             /\ Rules(desk)!R008(a, k(outcome)) = Rules(desk)!R008(a, v2)
             /\ Rules(desk)!R010(a, k(outcome)) = Rules(desk)!R010(a, v2)
             /\ Rules(desk)!R011(a, k(outcome)) = Rules(desk)!R011(a, v2)
             /\ Rules(desk)!R012(a, k(outcome)) = Rules(desk)!R012(a, v2)
             /\ Rules(desk)!R013(a, k(outcome)) = Rules(desk)!R013(a, v2)
             /\ Rules(desk)!R014(a, k(outcome)) = Rules(desk)!R014(a, v2)
  <2>1. /\ k(outcome).halted = v2.halted /\ k(outcome).tier2 = v2.tier2 /\ k(outcome).fills = v2.fills
        /\ k(outcome).config = v2.config /\ k(outcome).thesis = v2.thesis /\ k(outcome).day = v2.day
        /\ k(outcome).entries = v2.entries
    BY <1>2, GradedKeeps
  <2> HIDE DEF k
  <2> QED BY <2>1, OtherRules
<1>4. \A outcome \in {"PASS", "FAIL", "VOID"} :
        /\ passes(Rules(desk)!R009(a, k(outcome))) => passes(Rules(desk)!R009(a, v2))
        /\ passes(Rules(desk)!R018(a, k(outcome))) => passes(Rules(desk)!R018(a, v2))
        /\ 0 < pnl /\ passes(Rules(desk)!R009(a, v2)) => passes(Rules(desk)!R009(a, k(outcome)))
        /\ 0 < pnl /\ passes(Rules(desk)!R018(a, v2)) => passes(Rules(desk)!R018(a, k(outcome)))
  BY <1>2, FallRules
<1>5. \A outcome \in {"PASS", "FAIL", "VOID"} :
        /\ pnl < 0 /\ passes(Rules(desk)!R017(a, k(outcome))) => passes(Rules(desk)!R017(a, v2))
        /\ 0 < pnl /\ passes(Rules(desk)!R017(a, v2)) => passes(Rules(desk)!R017(a, k(outcome)))
  BY <1>2, DailyRule
<1>6. \A outcome \in {"PASS", "FAIL", "VOID"} :
        /\ passes(Rules(desk)!R015(a, v2)) \/ Rules(desk)!R015(a, v2) = "fail"
        /\ outcome # "VOID" /\ passes(Rules(desk)!R015(a, v2)) => passes(Rules(desk)!R015(a, k(outcome)))
        /\ outcome = "VOID" /\ passes(Rules(desk)!R015(a, k(outcome))) => passes(Rules(desk)!R015(a, v2))
  BY <1>2, VoidRule
<1> HIDE DEF k
<1>7. ASSUME pnl < 0, Rules(desk)!Allowed(a, k("FAIL")), ~ (Rules(desk)!R015(a, v2) = "fail")
      PROVE  Rules(desk)!Allowed(a, v2)
  <2>1. passes(Rules(desk)!R009(a, k("FAIL"))) /\ passes(Rules(desk)!R017(a, k("FAIL")))
        /\ passes(Rules(desk)!R018(a, k("FAIL")))
    BY <1>1, <1>7, OrderRules
  <2>2. passes(Rules(desk)!R009(a, v2)) /\ passes(Rules(desk)!R017(a, v2)) /\ passes(Rules(desk)!R018(a, v2))
        /\ passes(Rules(desk)!R015(a, v2))
    <3> HIDE DEF passes
    <3> QED BY <1>4, <1>5, <1>6, <1>7, <2>1
  <2> QED BY <1>1, <1>3, <1>7, <2>2, OrderRules
<1>8. ASSUME 0 < pnl, Rules(desk)!Allowed(a, v2)
      PROVE  Rules(desk)!Allowed(a, k("PASS"))
  <2>1. passes(Rules(desk)!R009(a, v2)) /\ passes(Rules(desk)!R017(a, v2))
        /\ passes(Rules(desk)!R018(a, v2)) /\ passes(Rules(desk)!R015(a, v2))
    BY <1>1, <1>8, OrderRules
  <2>2. passes(Rules(desk)!R009(a, k("PASS"))) /\ passes(Rules(desk)!R017(a, k("PASS")))
        /\ passes(Rules(desk)!R018(a, k("PASS"))) /\ passes(Rules(desk)!R015(a, k("PASS")))
    <3> HIDE DEF passes
    <3> QED BY <1>4, <1>5, <1>6, <1>8, <2>1
  <2> QED BY <1>1, <1>3, <1>8, <2>2, OrderRules
<1>9. ASSUME pnl < 0, Rules(desk)!Allowed(a, k("VOID"))
      PROVE  Rules(desk)!Allowed(a, v2)
  <2>1. passes(Rules(desk)!R009(a, k("VOID"))) /\ passes(Rules(desk)!R017(a, k("VOID")))
        /\ passes(Rules(desk)!R018(a, k("VOID"))) /\ passes(Rules(desk)!R015(a, k("VOID")))
    BY <1>1, <1>9, OrderRules
  <2>2. passes(Rules(desk)!R009(a, v2)) /\ passes(Rules(desk)!R017(a, v2)) /\ passes(Rules(desk)!R018(a, v2))
        /\ passes(Rules(desk)!R015(a, v2))
    <3> HIDE DEF passes
    <3> QED BY <1>4, <1>5, <1>6, <1>9, <2>1
  <2> QED BY <1>1, <1>3, <1>9, <2>2, OrderRules
<1>10. pnl > 0 <=> 0 < pnl
  BY <1>2
<1> QED BY <1>7, <1>8, <1>9, <1>10 DEF k

-----------------------------------------------------------------------------
(* An allowed order finds room for its entry, and a live one a fill left.   *)
LEMMA AllowedHasRoom ==
  ASSUME NEW CONSTANT desk, Reasonable(desk), Rules(desk)!TypeOK, NEW a \in Rules(desk)!Orders,
         Rules(desk)!Allowed(a, v2)
  PROVE  v2.entries + 1 \in 0 .. desk.trades /\ (v1 = "live" => v2.fills + 1 \in 0 .. 3)
<1>1. a.kind = "submit_order"
  BY DEF Rules!Orders, Rules!Order
<1>2. /\ Rules(desk)!R007(a, v2) = "pass" \/ Rules(desk)!R007(a, v2) = "not_configured"
      /\ Rules(desk)!R011(a, v2) = "pass" \/ Rules(desk)!R011(a, v2) = "not_configured"
  BY <1>1, OrderRules
<1>3. v2.entries \in 0 .. desk.trades /\ v2.fills \in 0 .. 3 /\ desk.trades \in Nat
  BY DEF Rules!TypeOK, Rules!Dials, Reasonable
<1>4. v2.entries < desk.trades
  BY <1>2 DEF Rules!R007, Rules!Pass
<1>5. ASSUME v1 = "live" PROVE v2.fills < 3
  <2>1. Rules(desk)!Remaining(v2) # None /\ Rules(desk)!Remaining(v2) > 0
    BY <1>2, <1>5 DEF Rules!R011, Rules!Given, Rules!Pass
  <2>2. Rules(desk)!Remaining(v2) = 3 - v2.fills
    BY <2>1 DEF Rules!Remaining, Rules!Dials
  <2> QED BY <1>3, <2>1, <2>2
<1> QED BY <1>3, <1>4, <1>5

(* The log's part of the type invariant.                                    *)
RuleLogs(desk) ==
  [halted : BOOLEAN, tier2 : BOOLEAN, fills : 0 .. 3, config : desk.configs \union {None},
   thesis : Rules(desk)!Theses, day : 0 .. desk.days, entries : 0 .. desk.trades,
   graded : Rules(desk)!Gradings]

(* Whatever the desk appends, the log stays one of an account: an entry     *)
(* counts only on a verdict, which holds it to the day's trades and the     *)
(* live budget (_check_r007, _check_r011).                                  *)
THEOREM RulesStep ==
  ASSUME NEW CONSTANT desk, Reasonable(desk), Rules(desk)!TypeOK, Rules(desk)!Next
  PROVE  Rules(desk)!TypeOK'
<1>1. v1 \in {"default", "paper", "advisory", "live"} /\ v2 \in RuleLogs(desk) /\ v1' = v1
  BY DEF Rules!TypeOK, RuleLogs, Rules!Dials, Rules!Next, Rules!Appends, Rules!Submit, Rules!Review,
     Rules!Enter, Rules!Grade, Rules!AccountCreated, Rules!Halt, Rules!Confirm, Rules!Demote, Rules!NextDay
<1> SUFFICES v2' \in RuleLogs(desk)
  BY <1>1 DEF Rules!TypeOK, RuleLogs, Rules!Dials
<1>2. v2.thesis \in Rules(desk)!Theses
  BY <1>1 DEF RuleLogs
<1>3. CASE \E size \in desk.sizes : Rules(desk)!Submit(size)
  <2>1. PICK size \in desk.sizes :
          v2' = [v2 EXCEPT !.thesis = [@ EXCEPT !.submitted = v2.day, !.sized = size]]
    BY <1>3 DEF Rules!Submit, Rules!Appends
  <2>2. [v2.thesis EXCEPT !.submitted = v2.day, !.sized = size] \in Rules(desk)!Theses
    BY <1>1, <1>2 DEF Rules!Theses, RuleLogs
  <2> QED BY <1>1, <2>1, <2>2 DEF RuleLogs
<1>4. CASE Rules(desk)!Review
  <2>1. [v2.thesis EXCEPT !.reviewed = TRUE] \in Rules(desk)!Theses
    BY <1>2 DEF Rules!Theses
  <2>2. v2' = [v2 EXCEPT !.thesis = [v2.thesis EXCEPT !.reviewed = TRUE]]
    BY <1>1, <1>4 DEF Rules!Review, Rules!Appends, RuleLogs
  <2> QED BY <1>1, <2>1, <2>2 DEF RuleLogs
<1>5. CASE \E a \in Rules(desk)!Orders : Rules(desk)!Enter(a)
  <2>1. PICK a \in Rules(desk)!Orders :
          /\ Rules(desk)!Allowed(a, v2)
          /\ v2' = [v2 EXCEPT !.entries = @ + 1, !.fills = IF v1 = "live" THEN @ + 1 ELSE @]
    BY <1>5 DEF Rules!Enter, Rules!Appends
  <2>2. v2.entries + 1 \in 0 .. desk.trades /\ (v1 = "live" => v2.fills + 1 \in 0 .. 3)
    BY <2>1, AllowedHasRoom
  <2> QED BY <1>1, <2>1, <2>2 DEF RuleLogs
<1>6. CASE \E pnl \in desk.pnls : \/ Rules(desk)!Grade(IF pnl > 0 THEN "PASS" ELSE "FAIL", pnl)
                                  \/ Rules(desk)!Grade("VOID", pnl)
  <2>1. PICK pnl \in desk.pnls, outcome \in Rules(desk)!Outcomes : v2' = Rules(desk)!Graded(v2, outcome, pnl)
    BY <1>6 DEF Rules!Grade, Rules!Appends, Rules!Outcomes
  <2> DEFINE x == [day |-> v2.day, outcome |-> outcome, pnl |-> pnl]
             h == Append(v2.graded, x)
  <2>2. v2' = [v2 EXCEPT !.graded = h]
    BY <2>1 DEF Rules!Graded
  <2>3. h \in Rules(desk)!Gradings
    BY GradedIs, Appended
  <2> HIDE DEF h
  <2> QED BY <1>1, <2>2, <2>3 DEF RuleLogs
<1>7. CASE \E config \in desk.configs : Rules(desk)!AccountCreated(config)
  BY <1>1, <1>7 DEF Rules!AccountCreated, Rules!Appends, RuleLogs
<1>8. CASE Rules(desk)!Halt \/ Rules(desk)!Confirm \/ Rules(desk)!Demote
  <2>1. CASE Rules(desk)!Halt
    BY <1>1, <2>1 DEF Rules!Halt, Rules!Appends, RuleLogs
  <2>2. CASE Rules(desk)!Confirm
    <3>1. v2' = [v2 EXCEPT !.tier2 = TRUE, !.fills = 0] /\ 0 \in 0 .. 3
      BY <2>2 DEF Rules!Confirm, Rules!Appends
    <3> QED BY <1>1, <3>1 DEF RuleLogs
  <2>3. CASE Rules(desk)!Demote
    BY <1>1, <2>3 DEF Rules!Demote, Rules!Appends, RuleLogs
  <2> QED BY <1>8, <2>1, <2>2, <2>3
<1>9. CASE Rules(desk)!NextDay
  <2>1. desk.days \in Nat /\ desk.trades \in Nat
    BY DEF Reasonable
  <2>2. v2' = [v2 EXCEPT !.day = v2.day + 1, !.entries = 0] /\ v2.day + 1 \in 0 .. desk.days
        /\ 0 \in 0 .. desk.trades
    BY <1>1, <1>9, <2>1 DEF Rules!NextDay, Rules!Appends, RuleLogs
  <2> QED BY <1>1, <2>2 DEF RuleLogs
<1> QED BY <1>3, <1>4, <1>5, <1>6, <1>7, <1>8, <1>9 DEF Rules!Next

(* An account starts with no event.                                         *)
LEMMA RulesStart ==
  ASSUME NEW CONSTANT desk, Reasonable(desk), Rules(desk)!Init
  PROVE  Rules(desk)!TypeOK
<1>1. << >> \in Rules(desk)!Gradings /\ Rules(desk)!NoThesis \in Rules(desk)!Theses
  BY DEF Rules!Gradings, Rules!NoThesis, Rules!Theses
<1>2. 0 \in 0 .. desk.days /\ 0 \in 0 .. desk.trades /\ 0 \in 0 .. 3
  BY DEF Reasonable
<1> QED BY <1>1, <1>2 DEF Rules!Init, Rules!TypeOK, Rules!Dials

(* On any desk, of any orders, sizes, accounts, results and window, the     *)
(* verdict fails closed and no loss opens what was closed                   *)
(* (policy/_evaluate.py, evaluate_pure).                                    *)
THEOREM RulesSound ==
  ASSUME NEW CONSTANT desk, Reasonable(desk)
  PROVE  Rules(desk)!Spec => []Rules(desk)!VerdictsSound
<1>1. Rules(desk)!Init => Rules(desk)!TypeOK
  BY RulesStart
<1>2. Rules(desk)!TypeOK /\ [Rules(desk)!Next]_(Rules(desk)!vars) => Rules(desk)!TypeOK'
  <2>1. ASSUME Rules(desk)!TypeOK, UNCHANGED Rules(desk)!vars PROVE Rules(desk)!TypeOK'
    BY <2>1 DEF Rules!TypeOK, Rules!vars
  <2> QED BY <2>1, RulesStep
<1>3. Rules(desk)!TypeOK => Rules(desk)!VerdictsSound
  BY FailsClosedHolds, LossesNeverOpenHolds DEF Rules!VerdictsSound
<1> QED BY <1>1, <1>2, <1>3, PTL DEF Rules!Spec

(* The log of the rules, in the part of a run that has them.                *)
VerdictsOf(desk) == part = "rules" => Rules(desk)!TypeOK

(* The run's desk is one of those.                                          *)
LEMMA SmallDeskIsReasonable == Reasonable(SmallDesk)
BY DEF Reasonable, SmallDesk

(* The same of the desk the run checks, beside the other parts.             *)
THEOREM VerdictsSoundHolds == Spec => []VerdictsSound
<1>1. Init => VerdictsOf(SmallDesk)
  BY RulesStart, SmallDeskIsReasonable DEF Init, VerdictsOf
<1>2. VerdictsOf(SmallDesk) /\ [Next]_vars => VerdictsOf(SmallDesk)'
  <2> SUFFICES ASSUME VerdictsOf(SmallDesk), [Next]_vars PROVE VerdictsOf(SmallDesk)'
    OBVIOUS
  <2>1. part' = part
    BY DEF Next, vars
  <2>2. CASE part = "rules"
    <3>1. Rules(SmallDesk)!Next \/ UNCHANGED <<v1, v2>>
      BY <2>2 DEF Next, vars
    <3>2. ASSUME UNCHANGED <<v1, v2>> PROVE Rules(SmallDesk)!TypeOK'
      BY <2>2, <3>2 DEF VerdictsOf, Rules!TypeOK
    <3> QED BY <2>2, <3>1, <3>2, RulesStep, SmallDeskIsReasonable DEF VerdictsOf
  <2> QED BY <2>1, <2>2 DEF VerdictsOf
<1>3. VerdictsOf(SmallDesk) => VerdictsSound
  BY FailsClosedHolds, LossesNeverOpenHolds, SmallDeskIsReasonable DEF VerdictsOf, VerdictsSound, Rules!VerdictsSound
<1> QED BY <1>1, <1>2, <1>3, PTL DEF Spec

-----------------------------------------------------------------------------
(* The scanner.  v1 and v2 are symbols and timeframes, v3 present, v4 gate, *)
(* v5 audit, v6 and v7 the pair at hand, v8 regimes, v9 asked, v10 given,   *)
(* v11 matches, v12 warnings, v13 attrition and v14 trace.                  *)

(* t is s and x after it.                                                   *)
Longer(s, x, t) ==
  /\ Len(s) \in Nat /\ DOMAIN s = 1 .. Len(s) /\ Len(t) = Len(s) + 1 /\ DOMAIN t = 1 .. Len(s) + 1
  /\ t[Len(s) + 1] = x /\ \A n \in 1 .. Len(s) : t[n] = s[n]

LEMMA AppendIsLonger ==
  ASSUME NEW S, NEW s \in Seq(S), NEW x \in S
  PROVE  Append(s, x) \in Seq(S) /\ Longer(s, x, Append(s, x))
BY DEF Longer

LEMMA ElementOf ==
  ASSUME NEW S, NEW s \in Seq(S), NEW k \in 1 .. Len(s)
  PROVE  s[k] \in S
OBVIOUS

LEMMA DomainOf ==
  ASSUME NEW S, NEW s \in Seq(S)
  PROVE  DOMAIN s = 1 .. Len(s)
OBVIOUS

(* The filters by name and place.                                           *)
LEMMA Checks ==
  /\ \A f \in DOMAIN ScannerPart!CHECKS : ScannerPart!CHECKS[f] \in Nat
  /\ \A f, g \in DOMAIN ScannerPart!CHECKS : ScannerPart!CHECKS[f] = ScannerPart!CHECKS[g] => f = g
  /\ {"bars", "none", "regime_gate"} \intersect DOMAIN ScannerPart!CHECKS = {}
  /\ ScannerPart!GATE_ORDER \subseteq ScannerPart!Names
BY DEF ScannerPart!CHECKS, ScannerPart!GATE_ORDER, ScannerPart!Names

LEMMA FirstIs ==
  ASSUME NEW filters, filters \subseteq DOMAIN ScannerPart!CHECKS, filters # {}
  PROVE  /\ ScannerPart!First(filters) \in filters
         /\ \A g \in filters : ScannerPart!CHECKS[ScannerPart!First(filters)] <= ScannerPart!CHECKS[g]
<1> DEFINE C == ScannerPart!CHECKS
           places == {C[f] : f \in filters}
<1>1. places \in SUBSET Nat /\ places # {}
  BY Checks
<1>2. PICK n \in places : \A m \in places : n <= m
  <2> HIDE DEF places
  <2> QED BY <1>1, LeastOf
<1>3. PICK f \in filters : C[f] = n
  BY <1>2
<1>4. \A g \in filters : C[f] <= C[g]
  BY <1>2, <1>3
<1> QED BY <1>4 DEF ScannerPart!First

(* What kills a candidate of these verdicts.                                *)
Kills(verdicts, killer) ==
  /\ killer = "bars" <=> \E f \in v3 : verdicts[f] = "short"
  /\ killer = "none" <=> \A f \in v3 : verdicts[f] = "pass"
  /\ killer \in v3 \union {"bars", "none"}
  /\ killer \in v3 => /\ killer \notin {"bars", "none", "regime_gate"} /\ verdicts[killer] = "fail"
                      /\ \A f \in v3 : verdicts[f] = "fail" => ScannerPart!CHECKS[killer] <= ScannerPart!CHECKS[f]

LEMMA KillerIs ==
  ASSUME v3 \subseteq DOMAIN ScannerPart!CHECKS, NEW verdicts \in ScannerPart!Verdicts
  PROVE  Kills(verdicts, ScannerPart!Killer(verdicts))
<1> DEFINE killer == ScannerPart!Killer(verdicts)
           short == ScannerPart!Short(verdicts)
           failing == ScannerPart!Failing(verdicts)
<1>1. \A f \in v3 : verdicts[f] \in {"short", "pass", "fail"}
  BY DEF ScannerPart!Verdicts
<1>2. short = {f \in v3 : verdicts[f] = "short"} /\ failing = {f \in v3 : verdicts[f] = "fail"}
  BY DEF ScannerPart!Short, ScannerPart!Failing
<1>3. killer = IF short # {} THEN "bars" ELSE IF failing = {} THEN "none" ELSE ScannerPart!First(failing)
  BY DEF ScannerPart!Killer
<1>4. failing # {} => /\ ScannerPart!First(failing) \in failing
                      /\ \A g \in failing : ScannerPart!CHECKS[ScannerPart!First(failing)] <= ScannerPart!CHECKS[g]
  BY <1>2, FirstIs
<1>5. \A f \in v3 : f \notin {"bars", "none", "regime_gate"}
  BY Checks
<1> HIDE DEF killer, short, failing
<1>6. CASE short # {}
  BY <1>1, <1>2, <1>3, <1>5, <1>6 DEF Kills, killer
<1>7. CASE short = {} /\ failing = {}
  BY <1>1, <1>2, <1>3, <1>5, <1>7 DEF Kills, killer
<1>8. CASE short = {} /\ failing # {}
  BY <1>1, <1>2, <1>3, <1>4, <1>5, <1>8 DEF Kills, killer
<1> QED BY <1>6, <1>7, <1>8

(* What the stages tell of a candidate that killed_by killed.               *)
Tell(stages, killed_by) ==
  /\ stages \in [ScannerPart!Names -> ScannerPart!Marks \union {"absent"}]
  /\ \A name \in ScannerPart!Names : stages[name] = "FAIL" <=> name = killed_by
  /\ v5 = "exhaustive" /\ killed_by # "bars" => \A f \in v3 : stages[f] # "absent"

LEMMA StagesTell ==
  ASSUME v3 \subseteq DOMAIN ScannerPart!CHECKS, NEW verdicts \in ScannerPart!Verdicts,
         NEW gated \in BOOLEAN, NEW taken \in BOOLEAN,
         gated => ScannerPart!Killer(verdicts) = "none", taken => gated
  PROVE  Tell(ScannerPart!Stages(verdicts, gated, taken),
              IF taken THEN "regime_gate" ELSE ScannerPart!Killer(verdicts))
<1> DEFINE killer == ScannerPart!Killer(verdicts)
           stages == ScannerPart!Stages(verdicts, gated, taken)
           killed_by == IF taken THEN "regime_gate" ELSE killer
           C == ScannerPart!CHECKS
           dead(f) == ScannerPart!Dead(verdicts, f)
           evaluated(f) == ScannerPart!Evaluated(verdicts, f)
<1>1. Kills(verdicts, killer)
  BY KillerIs
<1>2. \A f \in v3 : verdicts[f] \in {"short", "pass", "fail"}
  BY DEF ScannerPart!Verdicts
<1>3. \A f : evaluated(f) <=> killer # "bars" /\ f \in v3 /\ (v5 = "exhaustive" \/ ~dead(f))
  BY DEF ScannerPart!Evaluated
<1>4. \A f : dead(f) <=> killer # "none" /\ C[killer] < C[f]
  BY DEF ScannerPart!Dead
<1>5. /\ stages["bars"] = IF killer = "bars" THEN "FAIL" ELSE "PASS"
      /\ stages["regime_gate"] = IF ~gated THEN "absent" ELSE IF taken THEN "FAIL" ELSE "PASS"
      /\ \A f \in DOMAIN C : stages[f] =
           IF ~evaluated(f) THEN "absent"
           ELSE IF dead(f) THEN IF verdicts[f] = "pass" THEN "would pass" ELSE "would fail"
                ELSE IF verdicts[f] = "pass" THEN "PASS" ELSE "FAIL"
  BY Checks DEF ScannerPart!Stages, ScannerPart!Names, ScannerPart!Mark
<1>6. stages = [name \in ScannerPart!Names |-> stages[name]]
  BY DEF ScannerPart!Stages
<1>7. ScannerPart!Names = DOMAIN C \union {"bars", "regime_gate"}
  BY DEF ScannerPart!Names
<1> HIDE DEF killer, stages, C, dead, evaluated
<1>8. stages \in [ScannerPart!Names -> ScannerPart!Marks \union {"absent"}]
  <2>1. \A name \in ScannerPart!Names : stages[name] \in ScannerPart!Marks \union {"absent"}
    BY <1>5, <1>7 DEF ScannerPart!Marks
  <2> QED BY <1>6, <2>1
<1>9. ASSUME NEW f \in DOMAIN C PROVE stages[f] = "FAIL" <=> f = killed_by
  <2>1. killer \in DOMAIN C => C[killer] \in Nat /\ C[f] \in Nat
    BY Checks DEF C
  <2>2. f \notin {"bars", "none", "regime_gate"}
    BY Checks DEF C
  <2>3. ASSUME stages[f] = "FAIL" PROVE f = killed_by
    <3>1. evaluated(f) /\ ~dead(f) /\ verdicts[f] # "pass"
      BY <1>5, <2>3
    <3>2. f \in v3 /\ killer # "bars" /\ verdicts[f] = "fail" /\ killer # "none"
      BY <1>1, <1>2, <1>3, <3>1 DEF Kills
    <3>3. killer \in v3 /\ killer \in DOMAIN C /\ C[killer] <= C[f] /\ ~(C[killer] < C[f])
      BY <1>1, <1>4, <3>1, <3>2 DEF Kills, C
    <3>4. C[killer] = C[f]
      BY <2>1, <3>3
    <3>5. killer = f
      BY <3>3, <3>4, Checks DEF C
    <3> QED BY <3>2, <3>5 DEF killer
  <2>4. ASSUME f = killed_by PROVE stages[f] = "FAIL"
    <3>1. f = killer /\ f \in v3 /\ verdicts[f] = "fail"
      BY <1>1, <2>2, <2>4 DEF Kills
    <3>2. ~dead(f)
      BY <1>4, <2>1, <3>1 DEF C
    <3>3. evaluated(f)
      BY <1>3, <2>2, <3>1, <3>2
    <3> QED BY <1>5, <3>1, <3>2, <3>3
  <2> QED BY <2>3, <2>4
<1>10. stages["bars"] = "FAIL" <=> "bars" = killed_by
  BY <1>1, <1>5 DEF Kills, killer
<1>11. stages["regime_gate"] = "FAIL" <=> "regime_gate" = killed_by
  BY <1>1, <1>5 DEF Kills
<1>12. ASSUME v5 = "exhaustive", killed_by # "bars", NEW f \in v3 PROVE stages[f] # "absent"
  <2>1. evaluated(f) /\ f \in DOMAIN C
    BY <1>1, <1>3, <1>12 DEF C, killer
  <2> QED BY <1>5, <2>1
<1> QED BY <1>7, <1>8, <1>9, <1>10, <1>11, <1>12 DEF Tell, killer, stages

-----------------------------------------------------------------------------
LEMMA ScannerStart ==
  ASSUME ScannerPart!Init
  PROVE  ScannerPart!ScannerInv
<1> USE FiltersAssumption DEF ScannerPart!Init
<1>1. ScannerPart!TypeOK
  BY DEF ScannerPart!TypeOK
<1>2. ScannerPart!InOrder
  BY DEF ScannerPart!InOrder
<1>3. ScannerPart!RegimeRead
  BY DEF ScannerPart!RegimeRead
<1>4. ScannerPart!ScanIsItsFilters
  BY DEF ScannerPart!ScanIsItsFilters, ScannerPart!AskedOnce
<1>5. ScannerPart!TraceTells
  BY DEF ScannerPart!TraceTells
<1> QED BY <1>1, <1>2, <1>3, <1>4, <1>5 DEF ScannerPart!ScannerInv

(* The end of a scan changes nothing but its outcome.                       *)
LEMMA ScannerEnds ==
  ASSUME ScannerPart!ScannerInv,
         UNCHANGED <<v1, v2, v3, v4, v5, v6, v7, v8, v9, v10, v11, v12, v13, v14>>,
         v15' \in {v15, "raised", "returned"}
  PROVE  ScannerPart!ScannerInv'
<1>1. v15' \in {"running", "raised", "returned"}
  BY DEF ScannerPart!ScannerInv, ScannerPart!TypeOK
<1> USE DEF ScannerPart!ScannerInv
<1>2. ScannerPart!TypeOK'
  BY <1>1 DEF ScannerPart!TypeOK, ScannerPart!Verdicts
<1>3. ScannerPart!InOrder'
  BY DEF ScannerPart!InOrder, ScannerPart!Place
<1>4. ScannerPart!RegimeRead'
  BY DEF ScannerPart!RegimeRead
<1>5. ScannerPart!ScanIsItsFilters'
  <2>1. ASSUME NEW k \in DOMAIN v10 PROVE ScannerPart!Accounted(k)'
    <3>1. ScannerPart!Accounted(k)
      BY DEF ScannerPart!ScanIsItsFilters
    <3>2. ScannerPart!Of(v11, k)' = ScannerPart!Of(v11, k) /\ ScannerPart!Of(v12, k)' = ScannerPart!Of(v12, k)
      BY DEF ScannerPart!Of
    <3>3. UNCHANGED <<v2, v3, v4, v8, v10, v11, v13>>
      OBVIOUS
    <3> QED BY ONLY <3>1, <3>2, <3>3 DEF ScannerPart!Accounted
  <2> QED BY <2>1 DEF ScannerPart!ScanIsItsFilters, ScannerPart!AskedOnce
<1>6. ScannerPart!TraceTells'
  BY DEF ScannerPart!TraceTells, ScannerPart!Told
<1> QED BY <1>2, <1>3, <1>4, <1>5, <1>6

(* What is found of a pair once one more is done: of an earlier pair what   *)
(* was, of the new one what was appended.                                   *)
Finds(found, later, x, adds, k, s, t) ==
  LET of(seq) == {n \in DOMAIN seq : seq[n].symbol = s /\ seq[n].timeframe = t} IN
    /\ k # Len(v10) + 1 => of(later) = of(found) /\ \A n \in of(found) : later[n] = found[n]
    /\ k = Len(v10) + 1 /\ s = v6 /\ t = v7 =>
         /\ of(later) = IF adds THEN {Len(found) + 1} ELSE {}
         /\ adds => later[Len(found) + 1] = x
    /\ \A n \in DOMAIN later : (later[n].symbol - 1) * v2 + later[n].timeframe \in 1 .. Len(v10) + 1

LEMMA FoundOf ==
  ASSUME ScannerPart!TypeOK, NEW S, NEW found \in Seq(S), NEW later, NEW x, NEW adds \in BOOLEAN,
         IF adds THEN Longer(found, x, later) ELSE later = found,
         \A e \in S : e.symbol \in 1 .. v1 /\ e.timeframe \in 1 .. v2,
         x.symbol = v6 /\ x.timeframe = v7,
         \A n \in DOMAIN found : ScannerPart!Place(found[n]) \in DOMAIN v10,
         Len(v10) + 1 = (v6 - 1) * v2 + v7,
         NEW k \in 1 .. Len(v10) + 1, NEW s \in 1 .. v1, NEW t \in 1 .. v2, k = (s - 1) * v2 + t
  PROVE  Finds(found, later, x, adds, k, s, t)
<1> DEFINE of(seq) == {n \in DOMAIN seq : seq[n].symbol = s /\ seq[n].timeframe = t}
           N == Len(v10)
<1>1. /\ N \in Nat /\ DOMAIN v10 = 1 .. N /\ v2 \in Nat /\ v6 \in Nat /\ v7 \in Nat
      /\ Len(found) \in Nat /\ DOMAIN found = 1 .. Len(found) /\ \A n \in 1 .. Len(found) : found[n] \in S
  <2>1. v10 \in Seq(ScannerPart!Verdicts) /\ v1 \in 1 .. MaxPairs /\ v2 \in 1 .. MaxPairs
        /\ v6 \in 1 .. v1 + 1 /\ v7 \in 1 .. v2
    BY DEF ScannerPart!TypeOK
  <2>2. v2 \in Nat /\ v6 \in Nat /\ v7 \in Nat
    BY <2>1, FiltersAssumption
  <2>3. N \in Nat /\ DOMAIN v10 = 1 .. N
    BY <2>1
  <2> HIDE DEF N
  <2>4. Len(found) \in Nat /\ DOMAIN found = 1 .. Len(found) /\ \A n \in 1 .. Len(found) : found[n] \in S
    OBVIOUS
  <2> QED BY <2>2, <2>3, <2>4
<1>2. \A n \in 1 .. Len(found) : (found[n].symbol - 1) * v2 + found[n].timeframe \in 1 .. N
  BY <1>1 DEF ScannerPart!Place
<1> HIDE DEF N
<1>3. \A n \in DOMAIN later : \/ n \in DOMAIN found /\ later[n] = found[n]
                              \/ adds /\ n = Len(found) + 1 /\ later[n] = x
  <2>1. CASE adds
    <3>1. Longer(found, x, later)
      BY <2>1
    <3>2. \A n \in DOMAIN later : n \in 1 .. Len(found) \/ n = Len(found) + 1
      BY <1>1, <3>1 DEF Longer
    <3> QED BY <1>1, <2>1, <3>1, <3>2 DEF Longer
  <2>2. CASE ~adds
    BY <2>2
  <2> QED BY <2>1, <2>2
<1>4. DOMAIN found \subseteq DOMAIN later /\ (adds => Len(found) + 1 \in DOMAIN later /\ later[Len(found) + 1] = x)
  BY <1>1 DEF Longer
<1>5. \A n \in DOMAIN found : later[n] = found[n]
  BY <1>1 DEF Longer
<1>6. ASSUME k # N + 1 PROVE of(later) = of(found) /\ \A n \in of(found) : later[n] = found[n]
  <2>1. ~ (s = v6 /\ t = v7)
    BY <1>6 DEF N
  <2> QED BY <1>3, <1>4, <1>5, <2>1
<1>7. ASSUME k = N + 1, s = v6, t = v7 PROVE of(later) = IF adds THEN {Len(found) + 1} ELSE {}
  <2>1. ASSUME NEW n \in DOMAIN found PROVE ~ (found[n].symbol = s /\ found[n].timeframe = t)
    <3>1. (found[n].symbol - 1) * v2 + found[n].timeframe \in 1 .. N
      BY <1>1, <1>2, <2>1
    <3>2. k \notin 1 .. N
      BY <1>1, <1>7
    <3> QED BY <3>1, <3>2
  <2> QED BY <1>3, <1>4, <1>7, <2>1
<1>8. ASSUME NEW n \in DOMAIN later PROVE (later[n].symbol - 1) * v2 + later[n].timeframe \in 1 .. N + 1
  <2>1. CASE n \in DOMAIN found /\ later[n] = found[n]
    <3>1. (found[n].symbol - 1) * v2 + found[n].timeframe \in 1 .. N
      BY <1>1, <1>2, <2>1
    <3>2. (later[n].symbol - 1) * v2 + later[n].timeframe \in 1 .. N
      BY <2>1, <3>1
    <3>3. 1 .. N \subseteq 1 .. N + 1
      BY <1>1
    <3> QED BY ONLY <3>2, <3>3, Zenon
  <2>2. CASE later[n] = x
    <3>1. (later[n].symbol - 1) * v2 + later[n].timeframe = N + 1
      BY <2>2 DEF N
    <3> QED BY <1>1, <3>1
  <2> QED BY <1>3, <2>1, <2>2
<1> QED BY <1>4, <1>6, <1>7, <1>8 DEF N, Finds

(* A pair is accounted for, by what was found of it.                        *)
Accounts(k, entry, made, matched, found, warned, regime) ==
  LET fails == {f \in v3 : made[f] # "pass"}
      short == \E f \in v3 : made[f] = "short" IN
    /\ k = (entry.symbol - 1) * v2 + entry.timeframe
    /\ (matched = {}) = (fails # {}) /\ \A m, n \in matched : m = n
    /\ short = (warned # {})
    /\ fails # {} => IF short THEN entry.killed_by = "bars"
                     ELSE /\ entry.killed_by \in fails
                          /\ \A f \in fails : ScannerPart!CHECKS[entry.killed_by] <= ScannerPart!CHECKS[f]
    /\ \A m \in matched :
         /\ found[m].tags = {f \in v3 : v4 => ScannerPart!Family[f] = "none" \/ ScannerPart!Family[f] \in regime}
         /\ entry.killed_by = IF found[m].tags = {} /\ v3 # {} THEN "regime_gate" ELSE "none"

LEMMA AccountedIs ==
  ASSUME NEW k
  PROVE  ScannerPart!Accounted(k) <=> Accounts(k, v13[k], v10[k], ScannerPart!Of(v11, k), v11,
                                               ScannerPart!Of(v12, k), v8[v13[k].symbol])
BY Zenon DEF ScannerPart!Accounted, Accounts

(* The same holds of what comes later, if nothing of the pair has changed.  *)
LEMMA AccountsStay ==
  ASSUME NEW k, NEW entry, NEW made, NEW matched, NEW found, NEW later, NEW warned, NEW regime, NEW next,
         Accounts(k, entry, made, matched, found, warned, regime),
         \A m \in matched : later[m] = found[m],
         v4 /\ (\A f \in v3 : made[f] = "pass") => next = regime
  PROVE  Accounts(k, entry, made, matched, later, warned, next)
<1>1. matched # {} => \A f \in v3 : made[f] = "pass"
  BY DEF Accounts
<1> QED BY <1>1 DEF Accounts

(* A pair takes the scan to the next.                                       *)
LEMMA PairStep ==
  ASSUME ScannerPart!ScannerInv, NEW verdicts \in ScannerPart!Verdicts, NEW answer \in ScannerPart!Recommends,
         ScannerPart!Pair(verdicts, answer)
  PROVE  ScannerPart!ScannerInv'
<1> DEFINE killer == ScannerPart!Killer(verdicts)
           gated == killer = "none" /\ v4
           regime == IF v8[v6] = ScannerPart!Unasked THEN answer ELSE v8[v6]
           kept == IF gated THEN ScannerPart!Pruned(v3, regime) ELSE v3
           taken == gated /\ v3 # {} /\ kept = {}
           stages == ScannerPart!Stages(verdicts, gated, taken)
           killed_by == IF taken THEN "regime_gate" ELSE killer
           warning == [symbol |-> v6, timeframe |-> v7, filter |-> ScannerPart!First(ScannerPart!Short(verdicts))]
           match == ScannerPart!Match(kept)
           entry == ScannerPart!Entry(stages, killed_by)
           lines == ScannerPart!Lines(stages)
           N == Len(v10)
           Warnings == [symbol : 1 .. v1, timeframe : 1 .. v2, filter : v3]
           Matches == [symbol : 1 .. v1, timeframe : 1 .. v2, tags : SUBSET v3]
           Entries == [symbol : 1 .. v1, timeframe : 1 .. v2, stages : [ScannerPart!Names -> ScannerPart!Marks \union {"absent"}],
                       killed_by : ScannerPart!Names \union {"none"}]
<1>1. /\ v6 <= v1 /\ v15' = v15
      /\ v1' = v1 /\ v2' = v2 /\ v3' = v3 /\ v4' = v4 /\ v5' = v5
      /\ IF v7 < v2 THEN v7' = v7 + 1 /\ v6' = v6 ELSE v7' = 1 /\ v6' = v6 + 1
      /\ v10' = Append(v10, verdicts) /\ v13' = Append(v13, entry)
  BY DEF ScannerPart!Pair, ScannerPart!args, ScannerPart!Cached
<1>2. /\ v12' = IF killer # "bars" THEN v12 ELSE Append(v12, warning)
      /\ v11' = IF killer = "none" THEN Append(v11, match) ELSE v11
      /\ v14' = IF v5 = "off" THEN v14 ELSE Append(v14, lines)
  BY DEF ScannerPart!Pair, ScannerPart!Cached
<1>3. /\ v8' = IF gated THEN [v8 EXCEPT ![v6] = regime] ELSE v8
      /\ v9' = IF gated /\ v8[v6] = ScannerPart!Unasked THEN [v9 EXCEPT ![v6] = @ + 1] ELSE v9
  BY DEF ScannerPart!Pair, ScannerPart!Cached
<1>4. /\ ScannerPart!TypeOK /\ ScannerPart!InOrder /\ ScannerPart!RegimeRead
      /\ ScannerPart!ScanIsItsFilters /\ ScannerPart!TraceTells
  BY DEF ScannerPart!ScannerInv
<1>5. /\ v1 \in 1 .. MaxPairs /\ v2 \in 1 .. MaxPairs /\ v3 \in FilterSets /\ v4 \in BOOLEAN
      /\ v5 \in ScannerPart!Modes /\ v6 \in 1 .. v1 + 1 /\ v7 \in 1 .. v2
  BY <1>4 DEF ScannerPart!TypeOK
<1>6. /\ v8 \in [1 .. MaxPairs -> ScannerPart!Recommends \union {ScannerPart!Unasked}]
      /\ v9 \in [1 .. MaxPairs -> Nat] /\ v10 \in Seq(ScannerPart!Verdicts)
      /\ v11 \in Seq(Matches) /\ v12 \in Seq(Warnings) /\ v13 \in Seq(Entries)
      /\ v14 \in Seq([ScannerPart!GATE_ORDER -> ScannerPart!Marks \union {"not reached", "no filter"}])
  BY <1>4 DEF ScannerPart!TypeOK
<1>7. /\ v6 \in 1 .. v1 /\ v6 \in 1 .. MaxPairs /\ v1 \in Nat /\ v2 \in Nat /\ v6 \in Nat /\ v7 \in Nat
      /\ v3 \subseteq DOMAIN ScannerPart!CHECKS
  BY <1>1, <1>5, FiltersAssumption
<1>8. Kills(verdicts, killer)
  BY <1>7, KillerIs
<1>9. Tell(stages, killed_by)
  BY <1>5, <1>7, StagesTell
<1>10. kept \in SUBSET v3 /\ match \in Matches /\ match.symbol = v6 /\ match.timeframe = v7 /\ match.tags = kept
  BY <1>5, <1>7 DEF ScannerPart!Match, ScannerPart!Pruned
<1>11. /\ killer = "bars" => warning \in Warnings
       /\ warning.symbol = v6 /\ warning.timeframe = v7
  <2>1. killer = "bars" => ScannerPart!Short(verdicts) # {} /\ ScannerPart!Short(verdicts) \subseteq v3
    BY <1>8 DEF Kills, ScannerPart!Short
  <2>2. killer = "bars" => ScannerPart!First(ScannerPart!Short(verdicts)) \in v3
    BY <1>7, <2>1, FirstIs
  <2> HIDE DEF killer
  <2> QED BY <1>5, <1>7, <2>2
<1>12. entry \in Entries /\ entry.symbol = v6 /\ entry.timeframe = v7 /\ entry.killed_by = killed_by
  <2>1. killed_by \in ScannerPart!Names \union {"none"}
    BY <1>7, <1>8 DEF Kills, ScannerPart!Names
  <2>2. stages \in [ScannerPart!Names -> ScannerPart!Marks \union {"absent"}]
    BY <1>9 DEF Tell
  <2> HIDE DEF stages, killed_by
  <2> QED BY <1>5, <1>7, <2>1, <2>2 DEF ScannerPart!Entry
<1>13. /\ lines \in [ScannerPart!GATE_ORDER -> ScannerPart!Marks \union {"not reached", "no filter"}]
       /\ \A name \in ScannerPart!GATE_ORDER :
            /\ lines[name] = "FAIL" <=> stages[name] = "FAIL"
            /\ stages[name] # "absent" => lines[name] # "no filter"
  <2>1. \A name \in ScannerPart!GATE_ORDER : stages[name] \in ScannerPart!Marks \union {"absent"}
    BY <1>9, Checks DEF Tell
  <2>2. \A name \in ScannerPart!GATE_ORDER :
          lines[name] = IF stages[name] # "absent" THEN stages[name]
                        ELSE IF name = "regime_gate" /\ v4 THEN "not reached" ELSE "no filter"
    BY DEF ScannerPart!Lines, ScannerPart!Line
  <2>3. lines = [name \in ScannerPart!GATE_ORDER |-> lines[name]]
    BY DEF ScannerPart!Lines
  <2> HIDE DEF lines, stages
  <2>4. \A name \in ScannerPart!GATE_ORDER :
          lines[name] \in ScannerPart!Marks \union {"not reached", "no filter"}
    BY <2>1, <2>2
  <2> QED BY <2>1, <2>2, <2>3, <2>4 DEF ScannerPart!Marks
<1> HIDE DEF killer, regime, kept, stages, warning, match, entry, lines
<1>14. /\ v10' \in Seq(ScannerPart!Verdicts) /\ Longer(v10, verdicts, v10')
       /\ v13' \in Seq(Entries) /\ Longer(v13, entry, v13')
  BY <1>1, <1>6, <1>12, AppendIsLonger, Zenon
<1>15. /\ v11' \in Seq(Matches) /\ v12' \in Seq(Warnings)
       /\ v14' \in Seq([ScannerPart!GATE_ORDER -> ScannerPart!Marks \union {"not reached", "no filter"}])
       /\ IF killer = "none" THEN Longer(v11, match, v11') ELSE v11' = v11
       /\ IF killer = "bars" THEN Longer(v12, warning, v12') ELSE v12' = v12
       /\ IF v5 = "off" THEN v14' = v14 ELSE Longer(v14, lines, v14')
  BY <1>2, <1>6, <1>10, <1>11, <1>13, AppendIsLonger, Zenon
<1>16. /\ N \in Nat /\ DOMAIN v10 = 1 .. N /\ Len(v13) = N /\ DOMAIN v13 = 1 .. N /\ Len(v10') = N + 1
       /\ DOMAIN v10' = 1 .. N + 1 /\ Len(v13') = N + 1 /\ N + 1 = (v6 - 1) * v2 + v7
       /\ v10'[N + 1] = verdicts /\ v13'[N + 1] = entry
       /\ \A k \in 1 .. N : v10'[k] = v10[k] /\ v13'[k] = v13[k]
  <2>1. Len(v13) = N /\ N + 1 = (v6 - 1) * v2 + v7
    BY <1>4 DEF ScannerPart!ScanIsItsFilters, ScannerPart!InOrder
  <2> QED BY <1>14, <2>1 DEF Longer
<1>17. v7' \in 1 .. v2 /\ v6' \in 1 .. v1 + 1 /\ N + 2 = (v6' - 1) * v2 + v7'
  <2>1. CASE v7 < v2
    BY <1>1, <1>5, <1>7, <1>16, <2>1
  <2>2. CASE ~ (v7 < v2)
    <3>1. v7 = v2 /\ v7' = 1 /\ v6' = v6 + 1
      BY <1>1, <1>5, <1>7, <2>2
    <3>2. (v6 + 1 - 1) * v2 = (v6 - 1) * v2 + v2
      BY <1>7
    <3>3. N + 1 = (v6 - 1) * v2 + v2
      BY <1>16, <3>1
    <3>4. (v6 - 1) * v2 \in Int
      BY <1>7
    <3>5. N + 2 = (v6 + 1 - 1) * v2 + 1
      BY <1>7, <1>16, <3>2, <3>3, <3>4
    <3> QED BY <1>5, <1>7, <3>1, <3>5
  <2> QED BY <2>1, <2>2
<1>18. /\ v8' \in [1 .. MaxPairs -> ScannerPart!Recommends \union {ScannerPart!Unasked}]
       /\ v9' \in [1 .. MaxPairs -> Nat]
       /\ gated => v8'[v6] # ScannerPart!Unasked /\ v8'[v6] = regime
       /\ \A s \in 1 .. MaxPairs : v8[s] # ScannerPart!Unasked => v8'[s] = v8[s]
       /\ \A s \in 1 .. v1 : ScannerPart!AskedOnce(s)'
  <2>1. /\ regime \in ScannerPart!Recommends \union {ScannerPart!Unasked} /\ regime # ScannerPart!Unasked
        /\ v8[v6] # ScannerPart!Unasked => regime = v8[v6]
    BY <1>6, <1>7 DEF regime, ScannerPart!Recommends, ScannerPart!Unasked
  <2>2. \A s \in 1 .. v1 : v9[s] \in Nat /\ v9[s] <= 1 /\ ((v9[s] = 0) <=> (v8[s] = ScannerPart!Unasked))
    <3>1. \A s \in 1 .. v1 : s \in 1 .. MaxPairs
      BY <1>5, FiltersAssumption
    <3> QED BY <1>4, <1>6, <3>1 DEF ScannerPart!ScanIsItsFilters, ScannerPart!AskedOnce
  <2>3. \A s \in 1 .. MaxPairs :
          /\ v8'[s] = IF gated /\ s = v6 THEN regime ELSE v8[s]
          /\ v9'[s] = IF gated /\ v8[v6] = ScannerPart!Unasked /\ s = v6 THEN v9[s] + 1 ELSE v9[s]
    <3> HIDE DEF gated
    <3> QED BY <1>3, <1>6, <1>7
  <2>4. /\ v8' \in [1 .. MaxPairs -> ScannerPart!Recommends \union {ScannerPart!Unasked}]
        /\ v9' \in [1 .. MaxPairs -> Nat]
    <3>1. v9[v6] + 1 \in Nat
      <4>1. v9[v6] \in Nat
        BY <1>6, <1>7
      <4> QED BY <4>1
    <3> QED BY <1>3, <1>6, <1>7, <2>1, <3>1
  <2>5. ASSUME NEW s \in 1 .. v1 PROVE ScannerPart!AskedOnce(s)'
    <3>1. s \in 1 .. MaxPairs
      BY <1>5, FiltersAssumption
    <3>2. v9'[s] <= 1 /\ ((v9'[s] = 0) <=> (v8'[s] = ScannerPart!Unasked))
      <4>1. CASE gated /\ s = v6
        BY <2>1, <2>2, <2>3, <3>1, <4>1
      <4>2. CASE ~ (gated /\ s = v6)
        BY <2>2, <2>3, <3>1, <4>2
      <4> QED BY <4>1, <4>2
    <3> QED BY <3>2 DEF ScannerPart!AskedOnce
  <2> QED BY <1>7, <2>1, <2>3, <2>4, <2>5
<1>19. ScannerPart!TypeOK'
  <2>1. ScannerPart!Verdicts' = ScannerPart!Verdicts
    BY <1>1 DEF ScannerPart!Verdicts
  <2>2. v15' \in {"running", "raised", "returned"}
    BY <1>1, <1>4 DEF ScannerPart!TypeOK
  <2> QED BY <1>1, <1>5, <1>14, <1>15, <1>17, <1>18, <2>1, <2>2 DEF ScannerPart!TypeOK
<1>20. ASSUME NEW k \in 1 .. N + 1, NEW s \in 1 .. v1, NEW t \in 1 .. v2, k = (s - 1) * v2 + t
       PROVE  /\ Finds(v11, v11', match, killer = "none", k, s, t)
              /\ Finds(v12, v12', warning, killer = "bars", k, s, t)
  <2>1. /\ \A n \in DOMAIN v11 : ScannerPart!Place(v11[n]) \in DOMAIN v10
        /\ \A n \in DOMAIN v12 : ScannerPart!Place(v12[n]) \in DOMAIN v10
    BY <1>4 DEF ScannerPart!InOrder
  <2> DEFINE matched == killer = "none"
             warned == killer = "bars"
  <2>2. matched \in BOOLEAN /\ warned \in BOOLEAN
    OBVIOUS
  <2>3. (IF matched THEN Longer(v11, match, v11') ELSE v11' = v11) /\ (IF warned THEN Longer(v12, warning, v12') ELSE v12' = v12)
    BY <1>15
  <2> HIDE DEF matched, warned
  <2>4. \A e \in Matches \union Warnings : e.symbol \in 1 .. v1 /\ e.timeframe \in 1 .. v2
    OBVIOUS
  <2>5. k \in 1 .. Len(v10) + 1 /\ Len(v10) + 1 = (v6 - 1) * v2 + v7
    BY <1>16, <1>20
  <2>6. match.symbol = v6 /\ match.timeframe = v7 /\ warning.symbol = v6 /\ warning.timeframe = v7
    BY <1>10, <1>11
  <2> HIDE DEF Matches, Warnings, N
  <2>7. ScannerPart!TypeOK /\ v11 \in Seq(Matches) /\ v12 \in Seq(Warnings)
    BY <1>4, <1>6
  <2>8. \A e \in Matches : e.symbol \in 1 .. v1 /\ e.timeframe \in 1 .. v2
    BY <2>4
  <2>9. \A e \in Warnings : e.symbol \in 1 .. v1 /\ e.timeframe \in 1 .. v2
    BY <2>4
  <2>10. Finds(v11, v11', match, matched, k, s, t)
    BY <1>20, <2>1, <2>2, <2>3, <2>5, <2>6, <2>7, <2>8, FoundOf, ZenonT(60)
  <2>11. Finds(v12, v12', warning, warned, k, s, t)
    BY <1>20, <2>1, <2>2, <2>3, <2>5, <2>6, <2>7, <2>9, FoundOf, ZenonT(60)
  <2> QED BY <2>10, <2>11 DEF matched, warned
<1>21. ScannerPart!InOrder'
  <2>1. v6 \in 1 .. v1 /\ N + 1 \in 1 .. N + 1 /\ N + 1 = (v6 - 1) * v2 + v7
    BY <1>7, <1>16
  <2>2. Finds(v11, v11', match, killer = "none", N + 1, v6, v7) /\ Finds(v12, v12', warning, killer = "bars", N + 1, v6, v7)
    BY <1>5, <1>20, <2>1, Zenon
  <2>3. /\ \A n \in DOMAIN v11' : (v11'[n].symbol - 1) * v2 + v11'[n].timeframe \in 1 .. N + 1
        /\ \A n \in DOMAIN v12' : (v12'[n].symbol - 1) * v2 + v12'[n].timeframe \in 1 .. N + 1
    BY <2>2, Zenon DEF Finds
  <2>4. Len(v14') = IF v5 = "off" THEN 0 ELSE N + 1
    BY <1>4, <1>15 DEF ScannerPart!InOrder, Longer
  <2>5. Len(v10') + 1 = (v6' - 1) * v2 + v7'
    BY <1>16, <1>17
  <2> QED BY <1>1, <1>16, <2>3, <2>4, <2>5 DEF ScannerPart!InOrder, ScannerPart!Place
<1>22. \A k \in 1 .. N : v13[k].symbol \in 1 .. v1 /\ v13[k].symbol \in 1 .. MaxPairs /\ v13[k].timeframe \in 1 .. v2
  <2>1. \A k \in 1 .. N : v13[k] \in Entries
    <3>1. v13 \in Seq(Entries) /\ \A k \in 1 .. N : k \in 1 .. Len(v13)
      BY <1>6, <1>16
    <3> HIDE DEF Entries, N
    <3> QED BY <3>1, ElementOf, Zenon
  <2>2. \A k \in 1 .. N : v13[k].symbol \in 1 .. v1 /\ v13[k].timeframe \in 1 .. v2
    BY <2>1
  <2> HIDE DEF Entries, N
  <2> QED BY <1>5, <1>7, <2>2, FiltersAssumption
<1>23. ScannerPart!RegimeRead'
  <2>1. SUFFICES ASSUME v4, NEW k \in 1 .. N + 1, v10'[k] = [f \in v3 |-> "pass"]
                 PROVE  v8'[v13'[k].symbol] # ScannerPart!Unasked
    BY <1>1, <1>16 DEF ScannerPart!RegimeRead
  <2>2. CASE k \in 1 .. N
    <3>1. v8[v13[k].symbol] # ScannerPart!Unasked
      BY <1>4, <1>16, <2>1, <2>2 DEF ScannerPart!RegimeRead
    <3> QED BY <1>16, <1>18, <1>22, <2>2, <3>1
  <2>3. CASE k = N + 1
    <3>1. verdicts = [f \in v3 |-> "pass"] /\ v13'[k] = entry
      BY <1>16, <2>1, <2>3
    <3>2. killer = "none"
      BY <1>8, <3>1 DEF Kills
    <3> QED BY <1>12, <1>18, <2>1, <3>1, <3>2
  <2> QED BY <1>16, <2>2, <2>3
<1>24. /\ \A k \in DOMAIN v13 : ScannerPart!Of(v11, k) = {n \in DOMAIN v11 : v11[n].symbol = v13[k].symbol /\ v11[n].timeframe = v13[k].timeframe}
       /\ \A k \in DOMAIN v13 : ScannerPart!Of(v12, k) = {n \in DOMAIN v12 : v12[n].symbol = v13[k].symbol /\ v12[n].timeframe = v13[k].timeframe}
       /\ \A k \in DOMAIN v13' : ScannerPart!Of(v11, k)' = {n \in DOMAIN v11' : v11'[n].symbol = v13'[k].symbol /\ v11'[n].timeframe = v13'[k].timeframe}
       /\ \A k \in DOMAIN v13' : ScannerPart!Of(v12, k)' = {n \in DOMAIN v12' : v12'[n].symbol = v13'[k].symbol /\ v12'[n].timeframe = v13'[k].timeframe}
  BY DEF ScannerPart!Of
<1>25. ASSUME NEW k \in 1 .. N
       PROVE  Accounts(k, v13'[k], v10'[k], ScannerPart!Of(v11, k)', v11', ScannerPart!Of(v12, k)', v8'[v13'[k].symbol])
  <2> DEFINE s == v13[k].symbol
             t == v13[k].timeframe
  <2>1. Accounts(k, v13[k], v10[k], ScannerPart!Of(v11, k), v11, ScannerPart!Of(v12, k), v8[s])
    BY <1>4, <1>16, AccountedIs DEF ScannerPart!ScanIsItsFilters
  <2>2. v13'[k] = v13[k] /\ v10'[k] = v10[k] /\ k \in 1 .. N + 1 /\ k # N + 1 /\ k \in DOMAIN v13 /\ k \in DOMAIN v13'
    BY <1>16
  <2>3. s \in 1 .. v1 /\ s \in 1 .. MaxPairs /\ t \in 1 .. v2 /\ k = (s - 1) * v2 + t
    BY <1>22, <2>1 DEF Accounts
  <2>4. Finds(v11, v11', match, killer = "none", k, s, t) /\ Finds(v12, v12', warning, killer = "bars", k, s, t)
    BY <1>20, <2>2, <2>3, Zenon
  <2>5. /\ ScannerPart!Of(v11, k)' = ScannerPart!Of(v11, k) /\ ScannerPart!Of(v12, k)' = ScannerPart!Of(v12, k)
        /\ \A n \in ScannerPart!Of(v11, k) : v11'[n] = v11[n]
    <3>1. /\ ScannerPart!Of(v11, k)' = {n \in DOMAIN v11' : v11'[n].symbol = s /\ v11'[n].timeframe = t}
          /\ ScannerPart!Of(v12, k)' = {n \in DOMAIN v12' : v12'[n].symbol = s /\ v12'[n].timeframe = t}
          /\ ScannerPart!Of(v11, k) = {n \in DOMAIN v11 : v11[n].symbol = s /\ v11[n].timeframe = t}
          /\ ScannerPart!Of(v12, k) = {n \in DOMAIN v12 : v12[n].symbol = s /\ v12[n].timeframe = t}
      BY <1>24, <2>2
    <3> HIDE DEF s, t
    <3> QED BY <2>2, <2>4, <3>1 DEF Finds
  <2>6. v4 /\ (\A f \in v3 : v10[k][f] = "pass") => v8'[s] = v8[s]
    <3>1. v10[k] \in ScannerPart!Verdicts
      BY <1>6, ElementOf
    <3>2. (\A f \in v3 : v10[k][f] = "pass") => v10[k] = [f \in v3 |-> "pass"]
      BY <3>1 DEF ScannerPart!Verdicts
    <3> QED BY <1>4, <1>16, <1>18, <2>3, <3>2 DEF ScannerPart!RegimeRead
  <2>7. Accounts(k, v13[k], v10[k], ScannerPart!Of(v11, k), v11', ScannerPart!Of(v12, k), v8'[s])
    BY <2>1, <2>5, <2>6, AccountsStay, Zenon
  <2> QED BY <2>2, <2>5, <2>7
<1>26. ASSUME NEW k, k = N + 1
       PROVE  Accounts(k, v13'[k], v10'[k], ScannerPart!Of(v11, k)', v11', ScannerPart!Of(v12, k)', v8'[v13'[k].symbol])
  <2>1. v6 \in 1 .. v1 /\ k \in 1 .. N + 1 /\ k = (v6 - 1) * v2 + v7 /\ k \in DOMAIN v13'
    BY <1>7, <1>16, <1>26
  <2>2. Finds(v11, v11', match, killer = "none", k, v6, v7) /\ Finds(v12, v12', warning, killer = "bars", k, v6, v7)
    BY <1>5, <1>20, <2>1, Zenon
  <2>3. /\ v13'[k] = entry /\ entry.symbol = v6 /\ entry.timeframe = v7 /\ entry.killed_by = killed_by
        /\ v10'[k] = verdicts
    BY <1>12, <1>16, <1>26
  <2>4. /\ ScannerPart!Of(v11, k)' = IF killer = "none" THEN {Len(v11) + 1} ELSE {}
        /\ killer = "none" => v11'[Len(v11) + 1] = match
        /\ ScannerPart!Of(v12, k)' = IF killer = "bars" THEN {Len(v12) + 1} ELSE {}
    <3>1. /\ ScannerPart!Of(v11, k)' = {n \in DOMAIN v11' : v11'[n].symbol = v6 /\ v11'[n].timeframe = v7}
          /\ ScannerPart!Of(v12, k)' = {n \in DOMAIN v12' : v12'[n].symbol = v6 /\ v12'[n].timeframe = v7}
      BY <1>24, <2>1, <2>3
    <3> QED BY <1>26, <2>1, <2>2, <3>1 DEF Finds
  <2>5. killer = "none" => match.tags = {f \in v3 : v4 => ScannerPart!Family[f] = "none" \/ ScannerPart!Family[f] \in v8'[v6]}
    BY <1>10, <1>18 DEF kept, ScannerPart!Pruned
  <2>6. killed_by = IF killer = "none" /\ match.tags = {} /\ v3 # {} THEN "regime_gate" ELSE killer
    BY <1>10 DEF kept
  <2>7. \A f \in v3 : verdicts[f] # "pass" => f \in {g \in v3 : verdicts[g] # "pass"}
    OBVIOUS
  <2> DEFINE fails == {f \in v3 : verdicts[f] # "pass"}
             short == \E f \in v3 : verdicts[f] = "short"
             matched == ScannerPart!Of(v11, k)'
             warned == ScannerPart!Of(v12, k)'
  <2>8. /\ (killer = "none") <=> fails = {}
        /\ (killer = "bars") <=> short
        /\ fails # {} => killed_by = killer
        /\ killer \in v3 => killer \in fails
    BY <1>8 DEF Kills
  <2>9. ~ short /\ fails # {} => killer \in fails /\ \A f \in fails : ScannerPart!CHECKS[killer] <= ScannerPart!CHECKS[f]
    <3>1. \A f \in v3 : verdicts[f] \in {"short", "pass", "fail"}
      BY DEF ScannerPart!Verdicts
    <3>2. ASSUME ~ short, fails # {} PROVE killer \in v3
      BY <1>8, <2>8, <3>2 DEF Kills
    <3>3. ~ short => \A f \in fails : verdicts[f] = "fail"
      BY <3>1
    <3> QED BY <1>8, <2>8, <3>2, <3>3 DEF Kills
  <2>10. /\ (matched = {}) = (fails # {}) /\ \A m, n \in matched : m = n
         /\ short = (warned # {})
    BY <2>4, <2>8
  <2>11. ASSUME NEW m \in matched
         PROVE /\ v11'[m].tags = {f \in v3 : v4 => ScannerPart!Family[f] = "none" \/ ScannerPart!Family[f] \in v8'[v6]}
               /\ killed_by = IF v11'[m].tags = {} /\ v3 # {} THEN "regime_gate" ELSE "none"
    <3>1. killer = "none" /\ v11'[m] = match
      BY <2>4
    <3> QED BY <2>5, <2>6, <3>1
  <2> HIDE DEF matched, warned, killed_by
  <2>12. Accounts(k, entry, verdicts, matched, v11', warned, v8'[v6])
    BY <2>1, <2>3, <2>8, <2>9, <2>10, <2>11 DEF Accounts
  <2> QED BY <2>3, <2>12 DEF matched, warned
<1>27. ScannerPart!ScanIsItsFilters'
  <2>1. ASSUME NEW k \in 1 .. N + 1 PROVE ScannerPart!Accounted(k)'
    <3>1. Accounts(k, v13'[k], v10'[k], ScannerPart!Of(v11, k)', v11', ScannerPart!Of(v12, k)', v8'[v13'[k].symbol])
      <4>1. k \in 1 .. N \/ k = N + 1
        BY <1>16
      <4> QED BY <1>25, <1>26, <4>1
    <3> QED BY <1>1, <3>1, Zenon DEF ScannerPart!Accounted, Accounts
  <2> QED BY <1>1, <1>16, <1>18, <2>1 DEF ScannerPart!ScanIsItsFilters
<1>28. ASSUME NEW k \in DOMAIN v14' PROVE ScannerPart!Told(k)'
  <2>1. DOMAIN v14 = 1 .. Len(v14) /\ Len(v14) = (IF v5 = "off" THEN 0 ELSE N)
    <3>1. DOMAIN v14 = 1 .. Len(v14)
      BY <1>6, DomainOf, Zenon
    <3> QED BY <1>4, <3>1 DEF ScannerPart!InOrder
  <2>2. v5 # "off" /\ k \in 1 .. N + 1
    <3>1. CASE v5 = "off"
      <4>1. v14' = v14
        BY <1>15, <3>1
      <4>2. k \in 1 .. 0
        BY <1>28, <2>1, <3>1, <4>1
      <4> QED BY <4>2
    <3>2. CASE v5 # "off"
      <4>1. Longer(v14, lines, v14')
        BY <1>15, <3>2
      <4>2. DOMAIN v14' = 1 .. N + 1
        BY <2>1, <3>2, <4>1 DEF Longer
      <4> QED BY <1>28, <3>2, <4>2
    <3> QED BY <3>1, <3>2
  <2>3. CASE k \in 1 .. N
    <3>1. v14'[k] = v14[k] /\ v13'[k] = v13[k] /\ k \in DOMAIN v14
      BY <1>15, <1>16, <2>1, <2>2, <2>3 DEF Longer
    <3>2. ScannerPart!Told(k)
      BY <1>4, <3>1 DEF ScannerPart!TraceTells
    <3> QED BY <1>1, <3>1, <3>2 DEF ScannerPart!Told
  <2>4. CASE k = N + 1
    <3>1. v14'[k] = lines /\ v13'[k].killed_by = killed_by
      BY <1>12, <1>15, <1>16, <2>1, <2>2, <2>4 DEF Longer
    <3> HIDE DEF killed_by
    <3>2. \A name \in ScannerPart!GATE_ORDER : lines[name] = "FAIL" <=> name = killed_by
      BY <1>9, <1>13, Checks DEF Tell
    <3>3. ASSUME v5 = "exhaustive", killed_by # "bars", NEW name \in ScannerPart!GATE_ORDER \intersect v3
          PROVE  lines[name] # "no filter"
      BY <1>9, <1>13, <3>3 DEF Tell
    <3> QED BY <1>1, <3>1, <3>2, <3>3 DEF ScannerPart!Told
  <2> QED BY <1>16, <2>2, <2>3, <2>4
<1> QED BY <1>19, <1>21, <1>23, <1>27, <1>28 DEF ScannerPart!ScannerInv, ScannerPart!TraceTells

(* Every step of a scan, and every step of another part, keeps it.          *)
LEMMA ScannerStep ==
  ASSUME ScannerPart!ScannerInv,
         ScannerPart!Next \/ UNCHANGED <<v1, v2, v3, v4, v5, v6, v7, v8, v9, v10, v11, v12, v13, v14, v15>>
  PROVE  ScannerPart!ScannerInv'
<1>1. CASE UNCHANGED <<v1, v2, v3, v4, v5, v6, v7, v8, v9, v10, v11, v12, v13, v14, v15>>
  BY <1>1, ScannerEnds
<1>2. CASE \E verdicts \in ScannerPart!Verdicts, answer \in ScannerPart!Recommends : ScannerPart!Pair(verdicts, answer)
  BY <1>2, PairStep, Zenon
<1>3. CASE ScannerPart!Raise \/ ScannerPart!Return
  BY <1>3, ScannerEnds DEF ScannerPart!Raise, ScannerPart!Return, ScannerPart!args, ScannerPart!results
<1> QED BY <1>1, <1>2, <1>3, Zenon DEF ScannerPart!Next

-----------------------------------------------------------------------------
(* The funnel.  v1 and v2 are equity and audit, v3 positions, v4 the gate,  *)
(* v5 the symbol, v6 def, v7 leg, v8 prefilter, v9 heard, v10 kept, v11     *)
(* last, v12 tickets, v13 report, v14 sized and v15 log.                    *)

FunnelTickets ==
  [symbol : 1 .. Universe, def : 1 .. Len(FunnelPart!STRATEGIES), qty : 0 .. MaxPosition, vol : Vols,
   prefilter : FunnelPart!Recommends, heard : FunnelPart!Recommends, legs : Seq(SUBSET (1 .. 2))]

FunnelEntries == [symbol : 1 .. Universe, grade : {"hold", "wait", "buy"}, killed_by : FunnelPart!Stages]

(* A bounded set of numbers has a greatest one.                             *)
LEMMA GreatestOf ==
  ASSUME NEW N \in Nat, NEW S, S \subseteq 0 .. N, S # {}
  PROVE  \E m \in S : \A x \in S : x <= m
<1> DEFINE T == {N - x : x \in S}
<1>1. T \subseteq Nat /\ T # {}
  <2>1. PICK x : x \in S
    OBVIOUS
  <2>2. N - x \in T
    BY <2>1
  <2> QED BY <2>2
<1> HIDE DEF T
<1>2. PICK n \in T : \A m \in T : n <= m
  BY <1>1, LeastOf
<1> USE DEF T
<1>3. PICK m \in S : n = N - m
  BY <1>2
<1>4. ASSUME NEW x \in S PROVE x <= m
  <2>1. N - m <= N - x
    BY <1>2, <1>3
  <2> QED BY <2>1
<1> QED BY <1>4

LEMMA FunnelCardinality == \A S : FunnelPart!Cardinality(S) = Cardinality(S)
BY DEF FunnelPart!Cardinality, Cardinality

(* The registry.                                                            *)
LEMMA Registry ==
  /\ Len(FunnelPart!STRATEGIES) = 3 /\ DOMAIN FunnelPart!STRATEGIES = 1 .. 3
  /\ \A d \in 1 .. 3 : /\ Len(FunnelPart!STRATEGIES[d].legs) \in {1, 2}
                       /\ DOMAIN FunnelPart!STRATEGIES[d].legs = 1 .. Len(FunnelPart!STRATEGIES[d].legs)
                       /\ \A n \in DOMAIN FunnelPart!STRATEGIES[d].legs :
                            DOMAIN FunnelPart!STRATEGIES[d].legs[n].families \subseteq 1 .. 2
BY DEF FunnelPart!STRATEGIES, FunnelPart!Leg

(* A sizing never exceeds the cap.                                          *)
LEMMA SizedIs ==
  ASSUME NEW money \in Nat, NEW vol \in Vols, NEW halves
  PROVE  FunnelPart!Sized(money, vol, halves) \in 0 .. MaxPosition
<1>1. vol \in Nat \ {0} /\ MaxPosition \in Nat
  BY FunnelAssumption
<1>2. money \div vol \in Nat
  BY <1>1
<1> DEFINE q == money \div vol
           lots == IF q > MaxPosition THEN MaxPosition ELSE q
<1>3. FunnelPart!Sized(money, vol, halves) = IF halves THEN lots \div 2 ELSE lots
  BY DEF FunnelPart!Sized
<1> HIDE DEF q
<1>4. lots \in 0 .. MaxPosition
  BY <1>1, <1>2 DEF q
<1> HIDE DEF lots
<1>5. lots \div 2 \in 0 .. MaxPosition
  BY <1>1, <1>4
<1> QED BY <1>3, <1>4, <1>5

(* The stage that dropped most is one that dropped.                         *)
LEMMA KillerFilterIs ==
  ASSUME v13 \in Seq(FunnelEntries)
  PROVE  /\ FunnelPart!KillerFilter \in FunnelPart!Stages
         /\ FunnelPart!KillerFilter = "none" <=> \A k \in DOMAIN v13 : v13[k].killed_by = "none"
<1> DEFINE N == Len(v13)
           K(k) == FunnelPart!Kills(v13[k].killed_by)
           dropped == {k \in DOMAIN v13 : v13[k].killed_by # "none"}
           most == {k \in dropped : \A j \in dropped : K(j) <= K(k)}
           counts == {K(k) : k \in dropped}
<1>1. N \in Nat /\ DOMAIN v13 = 1 .. N /\ \A k \in 1 .. N : v13[k].killed_by \in FunnelPart!Stages
  <2>1. \A k \in 1 .. N : v13[k] \in FunnelEntries
    BY ElementOf
  <2> QED BY <2>1, DomainOf DEF FunnelEntries
<1>2. FunnelPart!KillerFilter = IF dropped = {} THEN "none" ELSE v13[FunnelPart!Min(most)].killed_by
  BY DEF FunnelPart!KillerFilter
<1> HIDE DEF N
<1>3. ASSUME NEW k \in dropped PROVE K(k) \in 0 .. N
  <2> DEFINE these == {j \in DOMAIN v13 : v13[j].killed_by = v13[k].killed_by}
  <2>1. K(k) = Cardinality(these)
    BY FunnelCardinality DEF FunnelPart!Kills
  <2>2. 1 \in Int /\ N \in Int /\ N - 1 + 1 = N
    BY <1>1
  <2>3. IsFiniteSet(1 .. N) /\ Cardinality(1 .. N) = N
    BY <1>1, <2>2, IntervalSize
  <2>4. these \subseteq 1 .. N
    BY <1>1
  <2> HIDE DEF these
  <2>5. Cardinality(these) \in Nat /\ Cardinality(these) <= N
    BY <2>3, <2>4, FS_Subset, FS_CardinalityType
  <2> QED BY <1>1, <2>1, <2>5
<1>4. CASE dropped = {}
  <2>1. "none" \in FunnelPart!Stages
    BY DEF FunnelPart!Stages
  <2> QED BY <1>2, <1>4, <2>1
<1>5. CASE dropped # {}
  <2> HIDE DEF K
  <2>1. counts \subseteq 0 .. N /\ counts # {}
    BY <1>3, <1>5
  <2>2. PICK c \in counts : \A d \in counts : d <= c
    <3> HIDE DEF counts
    <3> QED BY <1>1, <2>1, GreatestOf
  <2>3. most # {} /\ most \in SUBSET Nat
    BY <1>1, <2>2
  <2>4. \E n \in most : \A m \in most : n <= m
    <3> HIDE DEF most
    <3> QED BY <2>3, LeastOf
  <2>5. FunnelPart!Min(most) \in most
    BY <2>4 DEF FunnelPart!Min
  <2>6. FunnelPart!Min(most) \in dropped
    BY <2>5
  <2> HIDE DEF most
  <2> QED BY <1>1, <1>2, <1>5, <2>6
<1> QED BY <1>4, <1>5

(* What is known of a ticket.                                               *)
TicketSound(t) ==
  /\ t \in FunnelTickets
  /\ FunnelPart!STRATEGIES[t.def].families \intersect t.prefilter # {}
  /\ Len(t.legs) = Len(FunnelPart!STRATEGIES[t.def].legs)
  /\ \A n \in DOMAIN t.legs : FunnelPart!LegEarned(FunnelPart!STRATEGIES[t.def].legs[n], t.legs[n], t.heard)
  /\ t.symbol \notin v3
  /\ t.qty = FunnelPart!Preview(v1, t.vol, FunnelPart!STRATEGIES[t.def].halves) /\ t.qty # 0

LEMMA TicketsAreSound ==
  ASSUME FunnelPart!FunnelInv, NEW k \in DOMAIN v12
  PROVE  TicketSound(v12[k])
<1>1. v12[k] \in FunnelTickets
  <2>1. v12 \in Seq(FunnelTickets)
    BY DEF FunnelPart!FunnelInv, FunnelPart!TypeOK, FunnelTickets
  <2> QED BY <2>1, ElementOf, DomainOf
<1> QED BY <1>1 DEF TicketSound, FunnelPart!FunnelInv, FunnelPart!TicketsEarned, FunnelPart!Sizes

LEMMA SizedOnes ==
  ASSUME FunnelPart!TypeOK
  PROVE  /\ v14 \in Seq([vol : Vols, lots : 0 .. MaxPosition])
         /\ Len(v14) \in Nat /\ DOMAIN v14 = 1 .. Len(v14) /\ Len(v14) <= Len(v12)
<1>1. v14 \in Seq([vol : Vols, lots : 0 .. MaxPosition]) /\ Len(v14) <= Len(v12)
  BY DEF FunnelPart!TypeOK
<1>2. Len(v14) \in Nat /\ DOMAIN v14 = 1 .. Len(v14)
  BY ONLY <1>1
<1> QED BY <1>1, <1>2

(* One symbol more is reported.                                             *)
LEMMA FunnelReports ==
  ASSUME FunnelPart!FunnelInv, v5 \in 1 .. Universe, NEW grade \in {"hold", "wait", "buy"},
         NEW killer \in FunnelPart!Stages, grade = "wait" <=> killer # "none",
         FunnelPart!Report(grade, killer), NEW t,
         IF grade = "buy" THEN v12' = Append(v12, t) /\ t.symbol = v5 /\ TicketSound(t) ELSE v12' = v12
  PROVE  FunnelPart!FunnelInv'
<1> DEFINE entry == FunnelPart!Entry(grade, killer)
           M == Len(v12)
           N == Len(v13)
<1>1. /\ v13' = Append(v13, entry) /\ v5' = v5 + 1 /\ v4' = "position"
      /\ v6' = 1 /\ v7' = 1 /\ v8' = FunnelPart!Unheard /\ v9' = FunnelPart!Unheard /\ v10' = << >> /\ v11' = "none"
      /\ v1' = v1 /\ v2' = v2 /\ v3' = v3 /\ v14' = v14 /\ v15' = v15
  BY DEF FunnelPart!Report, FunnelPart!scan
<1>2. /\ FunnelPart!TypeOK /\ FunnelPart!Counted /\ FunnelPart!Sizes /\ FunnelPart!TicketsEarned
      /\ v12 \in Seq(FunnelTickets) /\ v13 \in Seq(FunnelEntries)
  BY DEF FunnelPart!FunnelInv, FunnelPart!TypeOK, FunnelTickets, FunnelEntries
<1>3. Universe \in Nat /\ v5 \in Nat /\ N = v5 - 1
  BY <1>2, FunnelAssumption DEF FunnelPart!TicketsEarned
<1>4. entry \in FunnelEntries /\ entry.symbol = v5 /\ entry.grade = grade /\ entry.killed_by = killer
  BY DEF FunnelPart!Entry, FunnelEntries
<1> HIDE DEF entry
<1>5. v13' \in Seq(FunnelEntries) /\ Longer(v13, entry, v13')
  BY <1>1, <1>2, <1>4, AppendIsLonger, Zenon
<1>6. v12' \in Seq(FunnelTickets) /\ IF grade = "buy" THEN Longer(v12, t, v12') ELSE v12' = v12
  <2>1. CASE grade = "buy"
    <3>1. t \in FunnelTickets /\ v12' = Append(v12, t)
      BY <2>1 DEF TicketSound
    <3> QED BY <1>2, <2>1, <3>1, AppendIsLonger, Zenon
  <2>2. CASE grade # "buy"
    BY <1>2, <2>2
  <2> QED BY <2>1, <2>2
<1>7. /\ M \in Nat /\ DOMAIN v12 = 1 .. M /\ N \in Nat /\ DOMAIN v13 = 1 .. N
      /\ DOMAIN v12' = 1 .. Len(v12') /\ Len(v12') = (IF grade = "buy" THEN M + 1 ELSE M)
      /\ \A k \in 1 .. M : v12'[k] = v12[k] /\ k \in DOMAIN v12'
      /\ \A k \in DOMAIN v12' : k \in 1 .. M \/ (grade = "buy" /\ k = M + 1 /\ v12'[k] = t)
      /\ Len(v13') = N + 1 /\ DOMAIN v13' = 1 .. N + 1 /\ v13'[N + 1] = entry /\ \A s \in 1 .. N : v13'[s] = v13[s]
  <2>1. M \in Nat /\ DOMAIN v12 = 1 .. M
    BY <1>2, DomainOf
  <2>2. CASE grade = "buy"
    BY <1>5, <1>6, <2>1, <2>2 DEF Longer
  <2>3. CASE grade # "buy"
    BY <1>5, <1>6, <2>1, <2>3 DEF Longer
  <2> QED BY <2>2, <2>3
<1>8. v15 = FunnelPart!Unwritten /\ ~ (v5 > Universe)
  <2>1. ~ (v5 > Universe)
    BY <1>3
  <2> QED BY <1>2, <2>1 DEF FunnelPart!Counted
<1> HIDE DEF M, N
<1>9. FunnelPart!TypeOK'
  <2>1. v5' \in 1 .. Universe + 1 /\ 1 \in 1 .. Len(FunnelPart!STRATEGIES) + 1
    BY <1>1, <1>3, Registry
  <2>2. "position" \in FunnelPart!Gates /\ "none" \in FunnelPart!Stages /\ << >> \in Seq(SUBSET (1 .. 2)) /\ 1 \in 1 .. 2
    BY DEF FunnelPart!Gates, FunnelPart!Stages
  <2>3. Len(v14) <= Len(v12')
    <3>1. Len(v14) \in Nat /\ Len(v14) <= M
      BY <1>2, SizedOnes DEF M
    <3> QED BY <1>7, <3>1
  <2> QED BY <1>1, <1>2, <1>5, <1>6, <2>1, <2>2, <2>3 DEF FunnelPart!TypeOK, FunnelTickets, FunnelEntries
<1>10. FunnelPart!Walking'
  BY <1>1 DEF FunnelPart!Walking
<1>11. \A k \in 1 .. M : v12[k].symbol \in 1 .. N
  BY <1>2, <1>7 DEF FunnelPart!Counted
<1>12. FunnelPart!Counted'
  <2>1. M <= N
    BY <1>2 DEF FunnelPart!Counted, M, N
  <2>2. \A k \in DOMAIN v12' : v12'[k].symbol \in 1 .. N + 1
    BY <1>3, <1>7, <1>11
  <2> QED BY <1>1, <1>7, <1>8, <2>1, <2>2 DEF FunnelPart!Counted
<1>13. \A k \in DOMAIN v12' : TicketSound(v12'[k])
  BY <1>7, TicketsAreSound
<1>14. FunnelPart!Sizes'
  <2>1. DOMAIN v14 \subseteq 1 .. M
    <3>1. Len(v14) \in Nat /\ DOMAIN v14 = 1 .. Len(v14) /\ Len(v14) <= M
      BY <1>2, SizedOnes DEF M
    <3> QED BY <1>7, <3>1
  <2> QED BY <1>1, <1>2, <1>7, <1>13, <2>1 DEF FunnelPart!Sizes, TicketSound
<1>15. FunnelPart!TicketsEarned'
  <2>1. ASSUME NEW k \in DOMAIN v12'
        PROVE  v13'[v12'[k].symbol].grade = "buy"
    BY <1>2, <1>3, <1>4, <1>7, <1>11 DEF FunnelPart!TicketsEarned
  <2>2. ASSUME NEW s \in DOMAIN v13'
        PROVE  /\ v13'[s].symbol = s
               /\ v13'[s].grade = "wait" <=> v13'[s].killed_by # "none"
               /\ v13'[s].grade = "buy" <=> \E k \in DOMAIN v12' : v12'[k].symbol = s
    <3>1. CASE s \in 1 .. N
      <4>1. /\ v13[s].symbol = s
            /\ v13[s].grade = "wait" <=> v13[s].killed_by # "none"
            /\ v13[s].grade = "buy" <=> \E k \in DOMAIN v12 : v12[k].symbol = s
        BY <1>2, <1>7, <3>1 DEF FunnelPart!TicketsEarned
      <4>2. (\E k \in DOMAIN v12' : v12'[k].symbol = s) <=> \E k \in DOMAIN v12 : v12[k].symbol = s
        BY <1>3, <1>7, <3>1
      <4> QED BY <1>7, <3>1, <4>1, <4>2
    <3>2. CASE s = N + 1
      <4>1. v13'[s] = entry /\ s = v5
        BY <1>3, <1>7, <3>2
      <4>2. ASSUME grade = "buy" PROVE \E k \in DOMAIN v12' : v12'[k].symbol = s
        <5>1. Longer(v12, t, v12')
          BY <1>6, <4>2
        <5>2. M + 1 \in DOMAIN v12' /\ v12'[M + 1] = t
          BY <1>7, <4>2, <5>1 DEF Longer, M
        <5> QED BY <4>1, <4>2, <5>2
      <4>3. ASSUME grade # "buy" PROVE ~ \E k \in DOMAIN v12' : v12'[k].symbol = s
        BY <1>7, <1>11, <3>2, <4>3
      <4> QED BY <1>4, <4>1, <4>2, <4>3
    <3> QED BY <1>7, <3>1, <3>2
  <2>3. Len(v13') = v5' - 1 /\ v15'.note # "recorded"
    BY <1>1, <1>3, <1>7, <1>8 DEF FunnelPart!Unwritten
  <2> QED BY <1>1, <1>13, <2>1, <2>2, <2>3 DEF FunnelPart!TicketsEarned, TicketSound
<1> QED BY <1>9, <1>10, <1>12, <1>14, <1>15 DEF FunnelPart!FunnelInv

(* What was earned stays, once the note is of the same tickets.             *)
LEMMA EarnedKept ==
  ASSUME FunnelPart!FunnelInv, UNCHANGED <<v3, v5, v12, v13>>,
         v15'.note = "recorded" =>
           v15'.tickets = Len(v12') /\ (v15'.killer = "none") = (\A s \in DOMAIN v13' : v13'[s].grade # "wait")
  PROVE  FunnelPart!TicketsEarned'
<1>1. FunnelPart!TicketsEarned
  BY DEF FunnelPart!FunnelInv
<1>2. UNCHANGED <<v3, v5, v12, v13>>
  OBVIOUS
<1>3. ASSUME NEW k \in DOMAIN v12 PROVE TicketSound(v12[k]) /\ v13[v12[k].symbol].grade = "buy"
  BY <1>1, TicketsAreSound DEF FunnelPart!TicketsEarned
<1>4. ASSUME NEW s \in DOMAIN v13
      PROVE  /\ v13[s].symbol = s
             /\ v13[s].grade = "wait" <=> v13[s].killed_by # "none"
             /\ v13[s].grade = "buy" <=> \E k \in DOMAIN v12 : v12[k].symbol = s
  BY <1>1 DEF FunnelPart!TicketsEarned
<1>5. ASSUME NEW k \in DOMAIN v12' PROVE TicketSound(v12'[k]) /\ v13'[v12'[k].symbol].grade = "buy"
  BY ONLY <1>2, <1>3, k \in DOMAIN v12'
<1>6. \A s \in DOMAIN v13' :
        /\ v13'[s].symbol = s
        /\ (v13'[s].grade = "wait") = (v13'[s].killed_by # "none")
        /\ (v13'[s].grade = "buy") = (\E k \in DOMAIN v12' : v12'[k].symbol = s)
  BY ONLY <1>2, <1>4
<1>7. Len(v13') = v5' - 1 /\ v3' = v3
  BY <1>1, <1>2 DEF FunnelPart!TicketsEarned
<1> QED BY <1>5, <1>6, <1>7, Zenon DEF FunnelPart!TicketsEarned, TicketSound

(* The walk goes on with the same symbol.                                   *)
LEMMA FunnelWalks ==
  ASSUME FunnelPart!FunnelInv, UNCHANGED <<v1, v2, v3, v5, v12, v13, v14, v15>>,
         v4' \in FunnelPart!Gates, v6' \in 1 .. 4, v7' \in 1 .. 2, v10' \in Seq(SUBSET (1 .. 2)),
         v8' \in FunnelPart!Recommends \union {FunnelPart!Unheard},
         v9' \in FunnelPart!Recommends \union {FunnelPart!Unheard}, v11' \in FunnelPart!Stages,
         FunnelPart!Walking'
  PROVE  FunnelPart!FunnelInv'
<1>1. FunnelPart!TypeOK /\ FunnelPart!Counted /\ FunnelPart!Sizes /\ FunnelPart!TicketsEarned
  BY DEF FunnelPart!FunnelInv
<1>2. FunnelPart!TypeOK'
  <2>1. v6' \in 1 .. Len(FunnelPart!STRATEGIES) + 1
    BY Registry
  <2>2. v5' = v5 /\ v12' = v12 /\ v13' = v13 /\ v14' = v14 /\ v15' = v15 /\ v1' = v1 /\ v2' = v2 /\ v3' = v3
    OBVIOUS
  <2> QED BY <1>1, <2>1, <2>2 DEF FunnelPart!TypeOK
<1>3. FunnelPart!Counted'
  BY <1>1 DEF FunnelPart!Counted
<1>4. FunnelPart!Sizes'
  BY <1>1 DEF FunnelPart!Sizes
<1>5. FunnelPart!TicketsEarned'
  <2>1. v15'.note = "recorded" =>
          v15'.tickets = Len(v12') /\ (v15'.killer = "none") = (\A s \in DOMAIN v13' : v13'[s].grade # "wait")
    <3>1. UNCHANGED <<v12, v13, v15>>
      OBVIOUS
    <3>2. v15.note = "recorded" =>
            v15.tickets = Len(v12) /\ (v15.killer = "none") = (\A s \in DOMAIN v13 : v13[s].grade # "wait")
      BY <1>1 DEF FunnelPart!TicketsEarned
    <3> QED BY ONLY <3>1, <3>2
  <2>2. UNCHANGED <<v3, v5, v12, v13>>
    OBVIOUS
  <2> QED BY <2>1, <2>2, EarnedKept, Zenon
<1> QED BY <1>2, <1>3, <1>4, <1>5 DEF FunnelPart!FunnelInv

(* A symbol is dropped.                                                     *)
LEMMA FunnelDrops ==
  ASSUME FunnelPart!FunnelInv, v4 # "position" \/ v5 \in 1 .. Universe,
         NEW stage \in FunnelPart!Stages \ {"none"}, FunnelPart!Drop(stage)
  PROVE  FunnelPart!FunnelInv'
<1>1. v5 \in 1 .. Universe
  BY DEF FunnelPart!FunnelInv, FunnelPart!Walking
<1>2. FunnelPart!Report("wait", stage) /\ v12' = v12
  BY DEF FunnelPart!Drop
<1> QED BY <1>1, <1>2, FunnelReports

LEMMA FunnelStages ==
  {"none", "bars", "setup", "regime_prefilter", "confluence", "filter", "regime_gate", "sizing", "policy_verdict"}
    = FunnelPart!Stages
BY DEF FunnelPart!Stages

LEMMA FunnelTyped ==
  ASSUME FunnelPart!FunnelInv
  PROVE  /\ v1 \in Equities /\ v3 \subseteq 1 .. Universe /\ v4 \in FunnelPart!Gates /\ v5 \in 1 .. Universe + 1
         /\ v6 \in 1 .. 4 /\ v7 \in 1 .. 2 /\ v10 \in Seq(SUBSET (1 .. 2)) /\ v11 \in FunnelPart!Stages
         /\ v8 \in FunnelPart!Recommends \union {FunnelPart!Unheard}
         /\ v9 \in FunnelPart!Recommends \union {FunnelPart!Unheard}
         /\ FunnelPart!Walking
<1>1. FunnelPart!TypeOK /\ FunnelPart!Walking
  BY DEF FunnelPart!FunnelInv
<1>2. 1 .. Len(FunnelPart!STRATEGIES) + 1 = 1 .. 4
  BY Registry
<1> QED BY <1>1, <1>2 DEF FunnelPart!TypeOK

(* The walk to the strategies: FetchBars, ReadRegime and Prefilter.         *)
LEMMA FunnelAsks ==
  ASSUME FunnelPart!FunnelInv,
         \/ FunnelPart!Hold
         \/ \E ok \in BOOLEAN : FunnelPart!FetchBars(ok)
         \/ \E answer \in FunnelPart!Recommends : FunnelPart!ReadRegime(answer)
         \/ FunnelPart!SetupRaises \/ FunnelPart!SizingRaises
         \/ FunnelPart!Prefilter
  PROVE  FunnelPart!FunnelInv'
<1>1. CASE FunnelPart!Hold
  <2>1. v5 \in 1 .. Universe
    BY <1>1, FunnelTyped DEF FunnelPart!Hold
  <2>2. FunnelPart!Report("hold", "none") /\ v12' = v12 /\ "none" \in FunnelPart!Stages
    BY <1>1, FunnelStages DEF FunnelPart!Hold
  <2> QED BY <2>1, <2>2, FunnelReports
<1>2. ASSUME NEW ok \in BOOLEAN, FunnelPart!FetchBars(ok) PROVE FunnelPart!FunnelInv'
  <2>1. v4 = "position" /\ v5 \in 1 .. Universe \ v3
    BY <1>2 DEF FunnelPart!FetchBars
  <2>2. CASE ~ ok
    <3>1. FunnelPart!Drop("bars")
      BY <1>2, <2>2 DEF FunnelPart!FetchBars
    <3> QED BY <2>1, <3>1, FunnelDrops, FunnelStages
  <2>3. CASE ok
    <3>1. /\ UNCHANGED <<v1, v2, v3, v5, v12, v13, v14, v15>> /\ v4' \in {"audit", "regime"}
          /\ UNCHANGED <<v6, v7, v8, v9, v10, v11>>
      BY <1>2, <2>3 DEF FunnelPart!FetchBars, FunnelPart!Goto, FunnelPart!walk, FunnelPart!scan
    <3>2. FunnelPart!Walking'
      BY <2>1, <3>1, FunnelTyped DEF FunnelPart!Walking
    <3>3. v4' \in FunnelPart!Gates
      BY <3>1 DEF FunnelPart!Gates
    <3> QED BY <3>1, <3>2, <3>3, FunnelTyped, FunnelWalks
  <2> QED BY <2>2, <2>3
<1>3. ASSUME NEW answer \in FunnelPart!Recommends, FunnelPart!ReadRegime(answer) PROVE FunnelPart!FunnelInv'
  <2>1. /\ v4 = "regime" /\ UNCHANGED <<v1, v2, v3, v5, v12, v13, v14, v15>> /\ v4' = "walk"
        /\ UNCHANGED <<v6, v7, v9, v10, v11>> /\ v8' = answer
    BY <1>3 DEF FunnelPart!ReadRegime, FunnelPart!Goto, FunnelPart!scan
  <2>2. FunnelPart!Walking'
    BY <2>1, FunnelTyped DEF FunnelPart!Walking
  <2>3. v4' \in FunnelPart!Gates
    BY <2>1 DEF FunnelPart!Gates
  <2> QED BY <2>1, <2>2, <2>3, FunnelTyped, FunnelWalks
<1>4. CASE FunnelPart!SetupRaises
  BY <1>4, FunnelDrops, FunnelStages DEF FunnelPart!SetupRaises
<1>5. CASE FunnelPart!SizingRaises
  BY <1>5, FunnelDrops, FunnelStages DEF FunnelPart!SizingRaises
<1>6. CASE FunnelPart!Prefilter
  <2>1. v4 = "walk"
    BY <1>6 DEF FunnelPart!Prefilter
  <2>2. CASE v6 > 3
    <3>1. FunnelPart!Drop(IF v11 = "none" THEN "setup" ELSE v11)
      BY <1>6, <2>2, Registry DEF FunnelPart!Prefilter
    <3>2. (IF v11 = "none" THEN "setup" ELSE v11) \in FunnelPart!Stages \ {"none"}
      BY FunnelTyped, FunnelStages
    <3> QED BY <2>1, <3>1, <3>2, FunnelDrops
  <2>3. CASE ~ (v6 > 3) /\ FunnelPart!S.families \intersect v8 = {}
    <3>1. /\ UNCHANGED <<v1, v2, v3, v5, v12, v13, v14, v15>> /\ v4' = "walk"
          /\ UNCHANGED <<v7, v8, v9, v10>> /\ v6' = v6 + 1 /\ v11' = "regime_prefilter"
      BY <1>6, <2>3, Registry DEF FunnelPart!Prefilter, FunnelPart!Goto, FunnelPart!scan
    <3>2. FunnelPart!Walking'
      BY <2>1, <3>1, FunnelTyped DEF FunnelPart!Walking
    <3>3. v4' \in FunnelPart!Gates /\ v11' \in FunnelPart!Stages /\ v6' \in 1 .. 4
      BY <2>3, <3>1, FunnelStages, FunnelTyped DEF FunnelPart!Gates
    <3> QED BY <3>1, <3>2, <3>3, FunnelTyped, FunnelWalks
  <2>4. CASE ~ (v6 > 3) /\ FunnelPart!S.families \intersect v8 # {}
    <3>1. /\ UNCHANGED <<v1, v2, v3, v5, v12, v13, v14, v15>> /\ v4' = "leg"
          /\ UNCHANGED <<v6, v8, v11>> /\ v7' = 1 /\ v9' = FunnelPart!Unheard /\ v10' = << >>
      BY <1>6, <2>4, Registry DEF FunnelPart!Prefilter, FunnelPart!Goto, FunnelPart!scan
    <3>2. v6 \in 1 .. 3
      BY <2>4, FunnelTyped
    <3>3. /\ FunnelPart!S.families \intersect v8 # {} /\ FunnelPart!S' = FunnelPart!S
          /\ 1 <= Len(FunnelPart!S.legs) /\ 3 = Len(FunnelPart!STRATEGIES) /\ v6 <= 3
      <4>1. 1 <= Len(FunnelPart!S.legs) /\ 3 = Len(FunnelPart!STRATEGIES)
        <5>1. Len(FunnelPart!STRATEGIES[v6].legs) \in {1, 2}
          BY <3>2, Registry
        <5>2. 1 <= Len(FunnelPart!STRATEGIES[v6].legs)
          BY ONLY <5>1
        <5> QED BY <5>2, Registry DEF FunnelPart!S
      <4>2. FunnelPart!S' = FunnelPart!S
        BY <3>1 DEF FunnelPart!S
      <4> QED BY <2>4, <3>2, <4>1, <4>2
    <3>4. FunnelPart!Walking'
      <4>1. v8 \in FunnelPart!Recommends /\ v5 \in 1 .. Universe \ v3
        BY <2>1, FunnelTyped DEF FunnelPart!Walking
      <4>2. Len(v10') = 0 /\ DOMAIN v10' = {} /\ v7' = 1 /\ v7' - 1 = 0
        BY <3>1
      <4> QED BY <3>1, <3>3, <4>1, <4>2 DEF FunnelPart!Walking
    <3>5. v4' \in FunnelPart!Gates /\ << >> \in Seq(SUBSET (1 .. 2))
      BY <3>1 DEF FunnelPart!Gates
    <3> QED BY <3>1, <3>4, <3>5, FunnelTyped, FunnelWalks
  <2> QED BY <2>2, <2>3, <2>4
<1> QED BY <1>1, <1>2, <1>3, <1>4, <1>5, <1>6

(* What the regime leaves of the tags of a leg.                             *)
LEMMA PruneIs ==
  ASSUME NEW d \in 1 .. 3, NEW n \in DOMAIN FunnelPart!STRATEGIES[d].legs, NEW recommended
  PROVE  LET l == FunnelPart!STRATEGIES[d].legs[n]
             tags == FunnelPart!Prune(l.families, recommended) IN
           /\ tags \in SUBSET (1 .. 2) /\ \A tag \in tags : l.families[tag] \in recommended
           /\ FunnelPart!Cardinality(tags) \in Nat /\ l.min \in Nat
           /\ tags # {} => FunnelPart!Cardinality(tags) >= 1
<1> DEFINE l == FunnelPart!STRATEGIES[d].legs[n]
           tags == FunnelPart!Prune(l.families, recommended)
<1>1. tags \in SUBSET (1 .. 2) /\ \A tag \in tags : l.families[tag] \in recommended
  <2>1. DOMAIN l.families \subseteq 1 .. 2
    BY Registry
  <2> QED BY <2>1 DEF FunnelPart!Prune
<1>2. l.min \in Nat
  BY DEF FunnelPart!STRATEGIES, FunnelPart!Leg
<1> HIDE DEF tags, l
<1>3. IsFiniteSet(tags)
  <2>1. 1 \in Int /\ 2 \in Int /\ 2 \in Nat /\ 2 - 1 + 1 = 2
    OBVIOUS
  <2>2. IsFiniteSet(1 .. 2)
    BY ONLY <2>1, IntervalSize, Zenon
  <2> QED BY <1>1, <2>2, FS_Subset, Zenon
<1>4. Cardinality(tags) \in Nat /\ (tags # {} => Cardinality(tags) # 0)
  BY <1>3, FS_CardinalityType, FS_EmptySet
<1>5. FunnelPart!Cardinality(tags) \in Nat /\ (tags # {} => FunnelPart!Cardinality(tags) >= 1)
  BY <1>4, FunnelCardinality
<1> QED BY <1>1, <1>2, <1>5 DEF tags, l

(* The walk leaves a strategy for the next.                                 *)
LEMMA FunnelNextDef ==
  ASSUME FunnelPart!FunnelInv, v4 = "leg", NEW stage \in FunnelPart!Stages, FunnelPart!NextDef(stage)
  PROVE  FunnelPart!FunnelInv'
<1>1. /\ UNCHANGED <<v1, v2, v3, v5, v12, v13, v14, v15>> /\ v4' = "walk"
      /\ UNCHANGED <<v7, v8, v9, v10>> /\ v6' = v6 + 1 /\ v11' = stage
  BY DEF FunnelPart!NextDef, FunnelPart!Goto, FunnelPart!scan
<1>2. v6 <= 3 /\ v8 \in FunnelPart!Recommends /\ v5 \in 1 .. Universe \ v3
  BY FunnelTyped, Registry DEF FunnelPart!Walking
<1>3. FunnelPart!Walking'
  BY <1>1, <1>2 DEF FunnelPart!Walking
<1>4. v4' \in FunnelPart!Gates /\ v6' \in 1 .. 4
  BY <1>1, <1>2, FunnelTyped DEF FunnelPart!Gates
<1> QED BY <1>1, <1>3, <1>4, FunnelTyped, FunnelWalks

(* A leg matched: what is kept of it is enough, or the walk goes on.        *)
LEMMA FunnelMatches ==
  ASSUME FunnelPart!FunnelInv, NEW answer \in FunnelPart!Recommends, FunnelPart!LegMatches(answer)
  PROVE  FunnelPart!FunnelInv'
<1> DEFINE recommended == IF v9 = FunnelPart!Unheard THEN answer ELSE v9
           D == FunnelPart!STRATEGIES[v6]
           tags == FunnelPart!Prune(D.legs[v7].families, recommended)
<1>1. v4 = "leg" /\ (v9 = FunnelPart!Unheard \/ answer = v9) /\ FunnelPart!S = D
  BY DEF FunnelPart!LegMatches, FunnelPart!S
<1>2. /\ v6 <= 3 /\ v8 \in FunnelPart!Recommends /\ v5 \in 1 .. Universe \ v3
      /\ D.families \intersect v8 # {} /\ Len(v10) = v7 - 1 /\ v7 <= Len(D.legs)
      /\ v10 # << >> => v9 \in FunnelPart!Recommends
      /\ \A n \in DOMAIN v10 : FunnelPart!LegEarned(D.legs[n], v10[n], v9)
  BY <1>1, FunnelTyped, Registry DEF FunnelPart!Walking
<1>3. v6 \in 1 .. 3 /\ v7 \in DOMAIN D.legs /\ v7 \in Nat
  <2>1. v6 \in 1 .. 3
    BY <1>2, FunnelTyped
  <2> QED BY <1>2, <2>1, FunnelTyped, Registry
<1>4. recommended \in FunnelPart!Recommends /\ (v9 \in FunnelPart!Recommends => recommended = v9)
  BY <1>1 DEF FunnelPart!Recommends, FunnelPart!Unheard
<1>5. /\ tags \in SUBSET (1 .. 2) /\ \A tag \in tags : D.legs[v7].families[tag] \in recommended
      /\ FunnelPart!Cardinality(tags) \in Nat /\ D.legs[v7].min \in Nat
  BY <1>3, PruneIs
<1>6. CASE FunnelPart!Cardinality(tags) < D.legs[v7].min
  <2>1. FunnelPart!NextDef("confluence")
    BY <1>1, <1>6 DEF FunnelPart!LegMatches
  <2> QED BY <1>1, <2>1, FunnelNextDef, FunnelStages
<1>7. CASE ~ (FunnelPart!Cardinality(tags) < D.legs[v7].min)
  <2>1. /\ v9' = recommended /\ v10' = Append(v10, tags) /\ UNCHANGED <<v6, v8, v11>>
        /\ UNCHANGED <<v1, v2, v3, v5, v12, v13, v14, v15>>
        /\ IF v7 < Len(D.legs) THEN v4' = "leg" /\ v7' = v7 + 1 ELSE v4' = "sizing" /\ v7' = v7
    BY <1>1, <1>7 DEF FunnelPart!LegMatches, FunnelPart!Goto, FunnelPart!scan
  <2>2. FunnelPart!LegEarned(D.legs[v7], tags, recommended)
    BY <1>5, <1>7 DEF FunnelPart!LegEarned
  <2>3. v10' \in Seq(SUBSET (1 .. 2)) /\ Longer(v10, tags, v10')
    BY <1>5, <2>1, FunnelTyped, AppendIsLonger, Zenon
  <2> HIDE DEF tags, recommended, D
  <2>4. \A n \in DOMAIN v10' : FunnelPart!LegEarned(D.legs[n], v10'[n], recommended)
    <3>1. ASSUME NEW n \in 1 .. Len(v10) PROVE FunnelPart!LegEarned(D.legs[n], v10'[n], recommended)
      <4>1. v10'[n] = v10[n] /\ n \in DOMAIN v10 /\ v10 # << >>
        BY <2>3, <3>1 DEF Longer
      <4>2. v9 = recommended
        BY <1>2, <1>4, <4>1
      <4> QED BY <1>2, <4>1, <4>2
    <3>2. Len(v10) + 1 = v7 /\ v10'[v7] = tags
      BY <1>2, <1>3, <2>3 DEF Longer
    <3>3. \A n \in DOMAIN v10' : n \in 1 .. Len(v10) \/ n = v7
      BY <2>3, <3>2 DEF Longer
    <3> QED BY <2>2, <3>1, <3>2, <3>3
  <2>5. Len(v10') = v7 /\ v7 <= Len(D.legs) /\ Len(D.legs) \in {1, 2}
    <3>1. Len(D.legs) \in {1, 2}
      BY <1>3, Registry DEF D
    <3> QED BY <1>2, <1>3, <2>3, <3>1 DEF Longer
  <2>6. FunnelPart!S' = D
    BY <2>1 DEF FunnelPart!S, D
  <2>7. CASE v7 < Len(D.legs)
    <3>1. v4' = "leg" /\ v7' = v7 + 1 /\ v7' \in 1 .. 2 /\ v7' <= Len(D.legs) /\ Len(v10') = v7' - 1
      <4>1. Len(D.legs) <= 2 /\ Len(D.legs) \in Nat /\ v7 \in 1 .. 2
        <5>1. \A x \in {1, 2} : x <= 2 /\ x \in Nat
          OBVIOUS
        <5>2. Len(D.legs) <= 2 /\ Len(D.legs) \in Nat
          BY <2>5, <5>1, Zenon
        <5> QED BY <5>2, FunnelTyped
      <4>2. v7 + 1 \in 1 .. 2 /\ v7 + 1 <= Len(D.legs) /\ v7 + 1 - 1 = v7
        BY ONLY <2>7, <4>1
      <4> QED BY <2>1, <2>5, <2>7, <4>2
    <3>2. FunnelPart!Walking'
      BY <1>2, <1>4, <2>1, <2>4, <2>6, <3>1, Registry DEF FunnelPart!Walking
    <3>3. v4' \in FunnelPart!Gates
      BY <3>1 DEF FunnelPart!Gates
    <3> QED BY <1>4, <2>1, <2>3, <3>1, <3>2, <3>3, FunnelTyped, FunnelWalks
  <2>8. CASE ~ (v7 < Len(D.legs))
    <3>1. v4' = "sizing" /\ v7' = v7 /\ v7' \in 1 .. 2 /\ Len(v10') = Len(D.legs)
      BY <1>3, <2>1, <2>5, <2>8, FunnelTyped
    <3>2. FunnelPart!Walking'
      BY <1>2, <1>4, <2>1, <2>4, <2>6, <3>1, Registry DEF FunnelPart!Walking
    <3>3. v4' \in FunnelPart!Gates
      BY <3>1 DEF FunnelPart!Gates
    <3> QED BY <1>4, <2>1, <2>3, <3>1, <3>2, <3>3, FunnelTyped, FunnelWalks
  <2> QED BY <2>7, <2>8
<1> QED BY <1>6, <1>7

(* An audited scan: the first strategy alone.                               *)
LEMMA FunnelAudits ==
  ASSUME FunnelPart!FunnelInv, NEW passes \in BOOLEAN, NEW answer \in FunnelPart!Recommends,
         FunnelPart!Audit(passes, answer)
  PROVE  FunnelPart!FunnelInv'
<1> DEFINE D == FunnelPart!STRATEGIES[1]
           tags == FunnelPart!Prune(D.legs[1].families, answer)
<1>1. v4 = "audit"
  BY DEF FunnelPart!Audit
<1>2. v6 = 1 /\ v5 \in 1 .. Universe \ v3
  BY <1>1, FunnelTyped DEF FunnelPart!Walking
<1>3. CASE ~ passes
  BY <1>1, <1>3, FunnelDrops, FunnelStages DEF FunnelPart!Audit
<1>4. CASE passes /\ tags = {}
  BY <1>1, <1>4, FunnelDrops, FunnelStages DEF FunnelPart!Audit
<1>5. CASE passes /\ tags # {}
  <2>1. /\ UNCHANGED <<v1, v2, v3, v5, v12, v13, v14, v15>> /\ v4' = "sizing"
        /\ UNCHANGED <<v6, v7, v11>> /\ v8' = answer /\ v9' = answer /\ v10' = <<tags>>
    BY <1>5 DEF FunnelPart!Audit, FunnelPart!Goto, FunnelPart!scan
  <2>2. Len(D.legs) = 1 /\ 1 \in DOMAIN D.legs /\ 1 \in 1 .. 3 /\ D.legs[1].min = 1
        /\ DOMAIN D.legs[1].families = {1, 2} /\ \A n \in {1, 2} : D.legs[1].families[n] \in D.families
    BY DEF FunnelPart!STRATEGIES, FunnelPart!Leg
  <2>3. /\ tags \in SUBSET (1 .. 2) /\ \A tag \in tags : D.legs[1].families[tag] \in answer
        /\ FunnelPart!Cardinality(tags) >= 1
    BY <1>5, <2>2, PruneIs
  <2>4. tags \subseteq DOMAIN D.legs[1].families
    BY DEF FunnelPart!Prune
  <2>5. FunnelPart!S' = D
    BY <1>2, <2>1 DEF FunnelPart!S
  <2> HIDE DEF tags, D
  <2>6. D.families \intersect answer # {}
    <3>1. PICK tag \in tags : TRUE
      BY <1>5
    <3>2. D.legs[1].families[tag] \in D.families
      BY <2>2, <2>4, <3>1
    <3> QED BY <2>3, <3>2
  <2>7. FunnelPart!LegEarned(D.legs[1], tags, answer)
    BY <2>2, <2>3 DEF FunnelPart!LegEarned
  <2>8. Len(v10') = 1 /\ DOMAIN v10' = {1} /\ v10'[1] = tags /\ v10' \in Seq(SUBSET (1 .. 2))
    BY <2>1, <2>3
  <2>9. \A n \in DOMAIN v10' : FunnelPart!LegEarned(D.legs[n], v10'[n], v9')
    BY <2>1, <2>7, <2>8
  <2>10. FunnelPart!Walking'
    BY <1>2, <2>1, <2>2, <2>5, <2>6, <2>8, <2>9, Registry DEF FunnelPart!Walking
  <2>11. v4' \in FunnelPart!Gates
    BY <2>1 DEF FunnelPart!Gates
  <2> QED BY <2>1, <2>8, <2>10, <2>11, FunnelTyped, FunnelWalks
<1> QED BY <1>3, <1>4, <1>5

(* A candidate is sized: a ticket, or dropped.                              *)
LEMMA FunnelSizes ==
  ASSUME FunnelPart!FunnelInv, NEW vol \in Vols, NEW failing, FunnelPart!Size(vol, failing)
  PROVE  FunnelPart!FunnelInv'
<1> DEFINE D == FunnelPart!STRATEGIES[v6]
           qty == FunnelPart!Preview(v1, vol, D.halves)
           t == FunnelPart!Ticket(qty, vol)
<1>1. v4 = "sizing" /\ FunnelPart!S = D
  BY DEF FunnelPart!Size, FunnelPart!S
<1>2. /\ v6 <= 3 /\ v8 \in FunnelPart!Recommends /\ v5 \in 1 .. Universe \ v3
      /\ D.families \intersect v8 # {} /\ Len(v10) = Len(D.legs)
      /\ v10 # << >> => v9 \in FunnelPart!Recommends
      /\ \A n \in DOMAIN v10 : FunnelPart!LegEarned(D.legs[n], v10[n], v9)
  BY <1>1, FunnelTyped, Registry DEF FunnelPart!Walking
<1>3. v6 \in 1 .. 3 /\ v9 \in FunnelPart!Recommends
  <2>1. v6 \in 1 .. 3
    BY <1>2, FunnelTyped
  <2>2. Len(D.legs) \in {1, 2}
    BY <2>1, Registry
  <2>3. v10 # << >>
    <3>1. 0 \notin {1, 2} /\ Len(<< >>) = 0
      OBVIOUS
    <3>2. Len(v10) \in {1, 2}
      BY <1>2, <2>2
    <3> QED BY ONLY <3>1, <3>2
  <2> QED BY <1>2, <2>1, <2>3
<1>4. qty \in 0 .. MaxPosition
  <2>1. v1 \in Nat
    BY FunnelTyped, FunnelAssumption
  <2> QED BY <2>1, SizedIs DEF FunnelPart!Preview
<1>5. CASE qty = 0
  <2>1. FunnelPart!Drop("sizing")
    BY <1>1, <1>5 DEF FunnelPart!Size
  <2> QED BY <1>1, <2>1, FunnelDrops, FunnelStages
<1>6. CASE qty # 0 /\ ~ FunnelPart!Allowed(failing)
  <2>1. FunnelPart!Drop("policy_verdict")
    BY <1>1, <1>6 DEF FunnelPart!Size
  <2> QED BY <1>1, <2>1, FunnelDrops, FunnelStages
<1>7. CASE qty # 0 /\ FunnelPart!Allowed(failing)
  <2>1. v12' = Append(v12, t) /\ FunnelPart!Report("buy", "none")
    BY <1>1, <1>7 DEF FunnelPart!Size
  <2>2. t = [symbol |-> v5, def |-> v6, qty |-> qty, vol |-> vol, prefilter |-> v8, heard |-> v9, legs |-> v10]
    BY DEF FunnelPart!Ticket
  <2> HIDE DEF qty, t
  <2>3. t \in FunnelTickets
    <3>1. v6 \in 1 .. Len(FunnelPart!STRATEGIES)
      BY <1>3, Registry
    <3> QED BY <1>2, <1>3, <1>4, <2>2, <3>1, FunnelTyped DEF FunnelTickets
  <2>4. TicketSound(t)
    BY <1>2, <1>3, <1>7, <2>2, <2>3 DEF TicketSound, qty
  <2>5. t.symbol = v5 /\ v5 \in 1 .. Universe /\ "none" \in FunnelPart!Stages
    BY <1>2, <2>2, FunnelStages
  <2> QED BY <2>1, <2>4, <2>5, FunnelReports
<1> QED BY <1>5, <1>6, <1>7

(* The note of the scan, and the sizing of a ticket that is taken.          *)
LEMMA FunnelWrites ==
  ASSUME FunnelPart!FunnelInv, NEW wrote \in BOOLEAN, FunnelPart!Write(wrote)
  PROVE  FunnelPart!FunnelInv'
<1> DEFINE note == [note |-> "recorded", tickets |-> Len(v12), killer |-> FunnelPart!KillerFilter]
<1>1. /\ v5 > Universe /\ UNCHANGED <<v1, v2, v3, v4, v5, v6, v7, v8, v9, v10, v11, v12, v13, v14>>
      /\ v15 = FunnelPart!Unwritten
      /\ v15' = IF wrote THEN note ELSE [FunnelPart!Unwritten EXCEPT !.note = "exit 4"]
  BY DEF FunnelPart!Write, FunnelPart!scan, FunnelPart!walk
<1>2. /\ FunnelPart!TypeOK /\ FunnelPart!Counted /\ FunnelPart!Sizes /\ FunnelPart!TicketsEarned
      /\ FunnelPart!Walking /\ v12 \in Seq(FunnelTickets) /\ v13 \in Seq(FunnelEntries)
  BY DEF FunnelPart!FunnelInv, FunnelPart!TypeOK, FunnelTickets, FunnelEntries
<1>3. /\ FunnelPart!KillerFilter \in FunnelPart!Stages
      /\ FunnelPart!KillerFilter = "none" <=> \A s \in DOMAIN v13 : v13[s].grade # "wait"
  <2>1. \A s \in DOMAIN v13 : v13[s].grade = "wait" <=> v13[s].killed_by # "none"
    BY <1>2 DEF FunnelPart!TicketsEarned
  <2> QED BY <1>2, <2>1, KillerFilterIs
<1>4. Len(v12) \in 0 .. Universe
  <2>1. Len(v12) <= Len(v13) /\ Len(v13) = v5 - 1 /\ v5 \in 1 .. Universe + 1 /\ Universe \in Nat
    BY <1>2, FunnelTyped, FunnelAssumption DEF FunnelPart!Counted, FunnelPart!TicketsEarned
  <2>2. Len(v12) \in Nat
    BY ONLY <1>2
  <2> QED BY <2>1, <2>2
<1>5. v15' \in [note : {"none", "recorded", "exit 4"}, tickets : 0 .. Universe, killer : FunnelPart!Stages]
  <2>1. "none" \in FunnelPart!Stages /\ 0 \in 0 .. Universe
    BY FunnelStages, FunnelAssumption
  <2>2. note \in [note : {"none", "recorded", "exit 4"}, tickets : 0 .. Universe, killer : FunnelPart!Stages]
    BY <1>3, <1>4
  <2> HIDE DEF note
  <2> QED BY <1>1, <2>1, <2>2 DEF FunnelPart!Unwritten
<1>6. FunnelPart!TypeOK'
  BY <1>1, <1>2, <1>5 DEF FunnelPart!TypeOK
<1>7. FunnelPart!Walking'
  BY <1>1, <1>2 DEF FunnelPart!Walking, FunnelPart!S
<1>8. FunnelPart!Counted'
  BY <1>1, <1>2 DEF FunnelPart!Counted
<1>9. FunnelPart!Sizes'
  BY <1>1, <1>2 DEF FunnelPart!Sizes
<1>10. FunnelPart!TicketsEarned'
  <2>1. UNCHANGED <<v3, v5, v12, v13>>
    BY <1>1
  <2>2. v15'.note = "recorded" =>
          v15'.tickets = Len(v12') /\ (v15'.killer = "none") = (\A s \in DOMAIN v13' : v13'[s].grade # "wait")
    <3>1. CASE wrote
      <4>1. v15' = note /\ v15'.tickets = Len(v12) /\ v15'.killer = FunnelPart!KillerFilter
        BY <1>1, <3>1
      <4> QED BY <1>3, <2>1, <4>1
    <3>2. CASE ~ wrote
      BY <1>1, <3>2 DEF FunnelPart!Unwritten
    <3> QED BY <3>1, <3>2
  <2> QED BY <1>2, <2>1, <2>2, EarnedKept, Zenon
<1> QED BY <1>6, <1>7, <1>8, <1>9, <1>10 DEF FunnelPart!FunnelInv

LEMMA FunnelSubmits ==
  ASSUME FunnelPart!FunnelInv, NEW vol \in Vols, FunnelPart!Submit(vol)
  PROVE  FunnelPart!FunnelInv'
<1> DEFINE N == Len(v14)
           halves == FunnelPart!STRATEGIES[v12[N + 1].def].halves
           size == [vol |-> vol, lots |-> FunnelPart!Sized(DialEquity, vol, halves)]
           Sizings == [vol : Vols, lots : 0 .. MaxPosition]
<1>1. /\ Len(v14) < Len(v12) /\ UNCHANGED <<v1, v2, v3, v4, v5, v6, v7, v8, v9, v10, v11, v12, v13, v15>>
      /\ v14' = Append(v14, size)
  BY DEF FunnelPart!Submit, FunnelPart!scan, FunnelPart!walk
<1>2. /\ FunnelPart!TypeOK /\ FunnelPart!Counted /\ FunnelPart!Sizes /\ FunnelPart!TicketsEarned
      /\ FunnelPart!Walking /\ v12 \in Seq(FunnelTickets)
  BY DEF FunnelPart!FunnelInv, FunnelPart!TypeOK, FunnelTickets
<1>3. size \in Sizings
  BY SizedIs, FunnelAssumption
<1>4. v14 \in Seq(Sizings) /\ N \in Nat /\ DOMAIN v14 = 1 .. N
  BY <1>2, SizedOnes
<1> HIDE DEF size
<1>5. v14' \in Seq(Sizings) /\ Longer(v14, size, v14')
  BY <1>1, <1>3, <1>4, AppendIsLonger, Zenon
<1>6. Len(v14') <= Len(v12')
  <2>1. Len(v12) \in Nat
    BY ONLY <1>2
  <2> QED BY <1>1, <1>4, <1>5, <2>1 DEF Longer
<1>7. FunnelPart!TypeOK'
  BY <1>1, <1>2, <1>5, <1>6 DEF FunnelPart!TypeOK
<1>8. FunnelPart!Walking'
  BY <1>1, <1>2 DEF FunnelPart!Walking, FunnelPart!S
<1>9. FunnelPart!Counted'
  BY <1>1, <1>2 DEF FunnelPart!Counted
<1>10. FunnelPart!Sizes'
  <2>1. ASSUME NEW k \in DOMAIN v14'
        PROVE  v14'[k].lots = FunnelPart!Sized(DialEquity, v14'[k].vol, FunnelPart!STRATEGIES[v12[k].def].halves)
    <3>1. CASE k \in 1 .. N
      <4>1. v14'[k] = v14[k] /\ k \in DOMAIN v14
        BY <1>4, <1>5, <3>1 DEF Longer
      <4> QED BY <1>2, <4>1 DEF FunnelPart!Sizes
    <3>2. CASE k = N + 1
      <4>1. v14'[k] = size
        BY <1>5, <3>2 DEF Longer
      <4> QED BY <3>2, <4>1 DEF size
    <3>3. k \in 1 .. N \/ k = N + 1
      BY <1>4, <1>5, <2>1 DEF Longer
    <3> QED BY <3>1, <3>2, <3>3
  <2> QED BY <1>1, <1>2, <2>1 DEF FunnelPart!Sizes
<1>11. FunnelPart!TicketsEarned'
  <2>1. v15'.note = "recorded" =>
          v15'.tickets = Len(v12') /\ (v15'.killer = "none") = (\A s \in DOMAIN v13' : v13'[s].grade # "wait")
    <3>1. v15.note = "recorded" =>
            v15.tickets = Len(v12) /\ (v15.killer = "none") = (\A s \in DOMAIN v13 : v13[s].grade # "wait")
      BY <1>2 DEF FunnelPart!TicketsEarned
    <3> QED BY ONLY <1>1, <3>1
  <2>2. UNCHANGED <<v3, v5, v12, v13>>
    BY <1>1
  <2> QED BY <2>1, <2>2, EarnedKept, Zenon
<1> QED BY <1>7, <1>8, <1>9, <1>10, <1>11 DEF FunnelPart!FunnelInv

LEMMA FunnelStarts ==
  ASSUME FunnelPart!Init
  PROVE  FunnelPart!FunnelInv
<1> USE DEF FunnelPart!Init
<1>1. FunnelPart!TypeOK
  <2>1. 1 \in 1 .. Universe + 1 /\ 0 \in 0 .. Universe /\ 1 \in 1 .. 2 /\ 1 \in 1 .. Len(FunnelPart!STRATEGIES) + 1
    BY FunnelAssumption, Registry
  <2>2. "position" \in FunnelPart!Gates /\ "none" \in FunnelPart!Stages
    BY DEF FunnelPart!Gates, FunnelPart!Stages
  <2> QED BY <2>1, <2>2 DEF FunnelPart!TypeOK, FunnelPart!Unwritten
<1>2. FunnelPart!Walking /\ FunnelPart!Counted /\ FunnelPart!Sizes
  BY DEF FunnelPart!Walking, FunnelPart!Counted, FunnelPart!Sizes
<1>3. FunnelPart!TicketsEarned
  BY DEF FunnelPart!TicketsEarned, FunnelPart!Unwritten
<1> QED BY <1>1, <1>2, <1>3 DEF FunnelPart!FunnelInv

(* Every step of the funnel, and every step of another part, keeps it.      *)
LEMMA FunnelStep ==
  ASSUME FunnelPart!FunnelInv,
         FunnelPart!Next \/ UNCHANGED <<v1, v2, v3, v4, v5, v6, v7, v8, v9, v10, v11, v12, v13, v14, v15>>
  PROVE  FunnelPart!FunnelInv'
<1>1. CASE UNCHANGED <<v1, v2, v3, v4, v5, v6, v7, v8, v9, v10, v11, v12, v13, v14, v15>>
  <2>1. FunnelPart!Walking'
    BY <1>1, FunnelTyped DEF FunnelPart!Walking, FunnelPart!S
  <2> QED BY <1>1, <2>1, FunnelTyped, FunnelWalks
<1>2. CASE FunnelPart!LegFails
  BY <1>2, FunnelNextDef, FunnelStages DEF FunnelPart!LegFails
<1>3. CASE FunnelPart!RegimeFails
  BY <1>3, FunnelNextDef, FunnelTyped DEF FunnelPart!RegimeFails
<1>4. CASE FunnelPart!Next
  BY <1>2, <1>3, <1>4, FunnelAsks, FunnelMatches, FunnelAudits, FunnelSizes, FunnelWrites, FunnelSubmits, Zenon
     DEF FunnelPart!Next
<1> QED BY <1>1, <1>4

(* R-012 does not deny the size of a ticket.                                *)
LEMMA PreviewIsBinding ==
  ASSUME FunnelPart!FunnelInv
  PROVE  FunnelPart!PreviewMatchesBinding
<1>1. FunnelPart!TypeOK /\ FunnelPart!Sizes
  BY DEF FunnelPart!FunnelInv
<1>2. ASSUME NEW k \in DOMAIN v12
      PROVE  v12[k].qty \in 0 .. MaxPosition /\ v12[k].qty # 0
             /\ v12[k].qty = FunnelPart!Preview(v1, v12[k].vol, FunnelPart!STRATEGIES[v12[k].def].halves)
  BY TicketsAreSound DEF TicketSound, FunnelTickets
<1>3. ASSUME NEW k \in DOMAIN v12, k <= Len(v14), v1 = DialEquity, v14[k].vol = v12[k].vol
      PROVE  ~ FunnelPart!Denied(v12[k].qty, v14[k].lots)
  <2>1. k \in DOMAIN v14
    <3>1. DOMAIN v12 = 1 .. Len(v12) /\ Len(v12) \in Nat
      <4>1. v12 \in Seq(FunnelTickets)
        BY <1>1 DEF FunnelPart!TypeOK, FunnelTickets
      <4> QED BY ONLY <4>1
    <3> QED BY <1>1, <1>3, <3>1, SizedOnes
  <2>2. v14[k].lots = v12[k].qty
    BY <1>1, <1>2, <1>3, <2>1 DEF FunnelPart!Sizes, FunnelPart!Preview
  <2>3. v12[k].qty \in Nat \ {0} /\ Tolerance \in Nat
    BY <1>2, FunnelAssumption
  <2> DEFINE q == v12[k].qty
  <2> HIDE DEF q
  <2>4. q \in Nat \ {0} /\ v14[k].lots = q /\ v12[k].qty = q
    BY <2>2, <2>3 DEF q
  <2>5. Tolerance * q \in Nat /\ q - q = 0 /\ ~ (q > q) /\ 0 * 100 = 0
    BY <2>3, <2>4
  <2>6. ~ (0 > Tolerance * q)
    BY <2>5
  <2> QED BY <2>4, <2>5, <2>6 DEF FunnelPart!Denied
<1> QED
  <2>1. \A k \in DOMAIN v12 : v12[k].qty <= MaxPosition
    BY <1>2, FunnelAssumption
  <2> QED BY <1>3, <2>1 DEF FunnelPart!PreviewMatchesBinding

(* The inductive invariant of a scan and of the funnel, in the parts of a   *)
(* run that have them.                                                      *)
Scans ==
  /\ part = "scanner" => ScannerPart!ScannerInv
  /\ part = "funnel" => FunnelPart!FunnelInv

(* A scan is its filters and the one regime read of a symbol, audited or    *)
(* not, and its trace tells the same (mae/_scanner.py, mae/_scan_trace.py); *)
(* a ticket is earned at every gate, and R-012 never denies the size it     *)
(* shows (hud/_build.py, thesis/_submit.py); whatever filters, pairs,       *)
(* universe, stop distances and equities there are.                         *)
THEOREM ScansEarnedHolds == Spec => []ScansEarned
<1>1. Init => Scans
  BY ScannerStart, FunnelStarts DEF Init, Scans
<1>2. Scans /\ [Next]_vars => Scans'
  <2> SUFFICES ASSUME Scans, [Next]_vars PROVE Scans'
    OBVIOUS
  <2>1. part' = part
    BY DEF Next, vars
  <2>2. ASSUME part = "scanner" PROVE ScannerPart!ScannerInv'
    <3>1. ScannerPart!Next \/ UNCHANGED <<v1, v2, v3, v4, v5, v6, v7, v8, v9, v10, v11, v12, v13, v14, v15>>
      BY <2>2 DEF Next, vars
    <3> QED BY <2>2, <3>1, ScannerStep DEF Scans
  <2>3. ASSUME part = "funnel" PROVE FunnelPart!FunnelInv'
    <3>1. FunnelPart!Next \/ UNCHANGED <<v1, v2, v3, v4, v5, v6, v7, v8, v9, v10, v11, v12, v13, v14, v15>>
      BY <2>3 DEF Next, vars
    <3> QED BY <2>3, <3>1, FunnelStep DEF Scans
  <2> QED BY <2>1, <2>2, <2>3 DEF Scans
<1>3. Scans => ScansEarned
  BY PreviewIsBinding DEF Scans, ScansEarned, ScannerPart!ScannerInv, FunnelPart!FunnelInv
<1> QED BY <1>1, <1>2, <1>3, PTL DEF Spec
=============================================================================
