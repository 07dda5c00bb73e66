------------------------- MODULE LedgerStoreProofs -------------------------
(***************************************************************************)
(* Theorems about LedgerStore, for any events, processes and retry bound:  *)
(* the chain verifies after every interleaving of appends, rebuilds,       *)
(* retries and crashes, every event is stored exactly as append()          *)
(* reported, and the file only grows but for an overtaken rebuild.         *)
(***************************************************************************)
EXTENDS LedgerStore, SequenceTheorems, TLAPS

Appending == {"append.begin", "append", "append.commit"}

(* What one process may rely on, wherever it is in its call: the write lock *)
(* is its own, its event is not in the log yet, and the row it inserted     *)
(* continues the chain.                                                     *)
Relies(p, c) ==
  /\ c.step \in Inside => writer = p
  /\ c.event # None <=> c.step \in Appending
  /\ c.step \in Appending =>
       /\ c.event \in called \ (stored \cup dropped)
       /\ \A i \in 1 .. Len(log) : log[i].event # c.event
  /\ c.step = "append.commit" =>
       c.row = [event |-> c.event, prev |-> LastHash, hash |-> Digest(LastHash, c.event)]

(* No two processes append the same event. *)
Distinct == \A p, q \in Procs :
  p # q /\ call[p].event # None => call[p].event # call[q].event

Known == /\ stored \subseteq called
         /\ dropped \subseteq called
         /\ \A i \in 1 .. Len(log) : log[i].event \in called

(* TypeOK apart from what is told of overtaken rebuilds. *)
StoreOK == /\ log \in Seq(Row)
           /\ tables \in Seq(Events)
           /\ writer \in Procs \cup {None}
           /\ called \subseteq Events
           /\ stored \subseteq Events
           /\ dropped \subseteq Events
           /\ call \in [Procs -> Call]

IInv == /\ StoreOK
        /\ \A p \in Procs : Relies(p, call[p])
        /\ Distinct
        /\ Known
        /\ ChainIntact
        /\ StoredOnce
-----------------------------------------------------------------------------
LEMMA LastHashType == StoreOK => LastHash \in Seq(Events)
<1> SUFFICES ASSUME StoreOK PROVE LastHash \in Seq(Events)
  OBVIOUS
<1>1. CASE log = <<>>
  BY <1>1 DEF LastHash, Genesis
<1>2. CASE log # <<>>
  <2>1. Len(log) \in 1 .. Len(log)
    BY <1>2, EmptySeq, LenProperties DEF StoreOK
  <2>2. log[Len(log)] \in Row
    BY <2>1, ElementOfSeq DEF StoreOK
  <2> QED BY <1>2, <2>2 DEF LastHash, Row
<1> QED BY <1>1, <1>2

LEMMA IdleIsCall == Idle \in Call
BY LedgerAssumption DEF Idle, Call, Steps

LEMMA CallReplaced ==
  ASSUME StoreOK, NEW p \in Procs, NEW c \in Call, Set(p, c)
  PROVE  /\ call' \in [Procs -> Call]
         /\ call'[p] = c
         /\ \A q \in Procs : q # p => call'[q] = call[q]
BY DEF StoreOK, Set

(* A call that moves to another step. *)
LEMMA StepChanges ==
  ASSUME NEW c \in Call, NEW step \in Steps
  PROVE  LET d == [c EXCEPT !.step = step]
         IN /\ d \in Call /\ d.step = step
            /\ d.event = c.event /\ d.row = c.row /\ d.attempt = c.attempt
BY DEF Call

(* A step that changes one call and the lock, and not the log.              *)
LEMMA CallMoves ==
  ASSUME IInv, NEW p \in Procs, NEW c \in Call, Set(p, c),
         UNCHANGED <<log, tables, called, stored, dropped>>,
         writer' \in Procs \cup {None},
         Relies(p, c)', c.event \in {None, call[p].event},
         \A q \in Procs \ {p} : call[q].step \in Inside => writer' = writer
  PROVE  IInv'
<1>1. call' \in [Procs -> Call] /\ call'[p] = c /\ \A q \in Procs : q # p => call'[q] = call[q]
  BY CallReplaced DEF IInv
<1>2. StoreOK'
  BY <1>1 DEF IInv, StoreOK
<1>3. LastHash' = LastHash
  BY DEF LastHash
<1>4. ASSUME NEW q \in Procs PROVE Relies(q, call[q])'
  <2>1. CASE q = p
    BY <1>1, <2>1
  <2>2. CASE q # p
    <3>1. Relies(q, call[q]) /\ call'[q] = call[q]
      BY <1>1, <2>2 DEF IInv
    <3>2. call[q].step \in Inside => writer' = writer
      BY <2>2
    <3> QED BY <1>3, <3>1, <3>2 DEF Relies
  <2> QED BY <2>1, <2>2
<1>5. Distinct'
  BY <1>1 DEF IInv, Distinct
<1>6. Known' /\ ChainIntact' /\ StoredOnce'
  BY DEF IInv, Known, ChainIntact, StoredOnce
<1> QED BY <1>2, <1>4, <1>5, <1>6 DEF IInv

LEMMA IdleRelies == ASSUME NEW p PROVE Relies(p, Idle)
BY DEF Relies, Idle, Inside, Appending

(* A call that ends, whatever becomes of the lock it alone held. *)
LEMMA ReturnKeeps ==
  ASSUME IInv, NEW p \in Procs, Set(p, Idle),
         UNCHANGED <<log, tables, called, stored, dropped>>,
         writer' = IF call[p].step \in Inside THEN None ELSE writer
  PROVE  IInv'
<1>1. writer' \in Procs \cup {None}
  BY DEF IInv, StoreOK
<1>2. \A q \in Procs \ {p} : call[q].step \in Inside => writer' = writer
  BY LedgerAssumption DEF IInv, Relies
<1>3. Relies(p, Idle)'
  BY DEF Relies, Idle, Inside, Appending
<1>4. Idle.event = None
  BY DEF Idle
<1> QED BY <1>1, <1>2, <1>3, <1>4, IdleIsCall, CallMoves

LEMMA StartAppendKeeps ==
  ASSUME IInv, NEW p \in Procs, NEW e \in Events, StartAppend(p, e)
  PROVE  IInv'
<1> DEFINE d == [Idle EXCEPT !.step = "append.begin", !.event = e]
<1>1. d \in Call /\ d.step = "append.begin" /\ d.event = e
  BY IdleIsCall DEF Call, Steps
<1>2. /\ Set(p, d) /\ e \notin called /\ called' = called \cup {e}
      /\ UNCHANGED <<log, tables, writer, stored, dropped>>
  BY DEF StartAppend
<1> HIDE DEF d
<1>3. call' \in [Procs -> Call] /\ call'[p] = d /\ \A q \in Procs : q # p => call'[q] = call[q]
  BY <1>1, <1>2, CallReplaced DEF IInv
<1>4. StoreOK'
  BY <1>2, <1>3 DEF IInv, StoreOK
<1>5. Known'
  BY <1>2 DEF IInv, Known
<1>6. \A i \in 1 .. Len(log) : log[i].event # e
  BY <1>2 DEF IInv, Known
<1>7. Relies(p, d)'
  BY <1>1, <1>2, <1>6, LedgerAssumption DEF IInv, Known, Relies, Inside, Appending
<1>8. LastHash' = LastHash
  BY <1>2 DEF LastHash
<1>9. ASSUME NEW q \in Procs, q # p PROVE Relies(q, call[q])'
  <2>1. Relies(q, call[q]) /\ call'[q] = call[q]
    BY <1>3, <1>9 DEF IInv
  <2> QED BY <1>2, <1>8, <2>1 DEF Relies
<1>10. Distinct'
  <2>1. \A q \in Procs : call[q].event # None => call[q].event \in called
    BY DEF IInv, Relies
  <2> QED BY <1>1, <1>2, <1>3, <2>1 DEF IInv, Distinct
<1>11. ChainIntact' /\ StoredOnce'
  BY <1>2 DEF IInv, ChainIntact, StoredOnce
<1> QED BY <1>3, <1>4, <1>5, <1>7, <1>9, <1>10, <1>11 DEF IInv

LEMMA StartRebuildKeeps ==
  ASSUME IInv, NEW p \in Procs, StartRebuild(p)
  PROVE  IInv'
<1> DEFINE r == EventsOf(log)
           d == [Idle EXCEPT !.step = "rebuild.begin", !.read = r]
<1>1. r \in Seq(Events)
  <2>1. Len(log) \in Nat /\ \A i \in 1 .. Len(log) : log[i] \in Row
    BY ElementOfSeq, LenProperties DEF IInv, StoreOK
  <2>2. \A i \in 1 .. Len(log) : log[i].event \in Events
    BY <2>1 DEF Row
  <2> QED BY <2>1, <2>2, IsASeq DEF EventsOf
<1>2. Set(p, d) /\ UNCHANGED <<log, tables, writer, called, stored, dropped>>
  BY DEF StartRebuild
<1>3. Idle.event = None
  BY DEF Idle
<1> HIDE DEF r
<1>4. d \in Call /\ d.step = "rebuild.begin" /\ d.event = None
  BY <1>1, <1>3, IdleIsCall DEF Call, Steps
<1> HIDE DEF d
<1>5. PICK c \in Call : c = d
  BY <1>4
<1>6. Relies(p, c)'
  BY <1>4, <1>5 DEF Relies, Inside, Appending
<1>7. writer' \in Procs \cup {None}
  BY <1>2 DEF IInv, StoreOK
<1> QED BY <1>2, <1>4, <1>5, <1>6, <1>7, CallMoves

LEMMA BeginKeeps ==
  ASSUME IInv, NEW p \in Procs, Begin(p)
  PROVE  IInv'
<1>0. call[p] \in Call /\ Relies(p, call[p])
  BY DEF IInv, StoreOK
<1>1. PICK c \in Call :
        /\ Set(p, c) /\ c.event = call[p].event
        /\ \/ call[p].step = "append.begin" /\ c.step = "append"
           \/ call[p].step = "rebuild.begin" /\ c.step = "rebuild"
  <2>1. CASE call[p].step = "append.begin"
    <3> DEFINE d == [call[p] EXCEPT !.step = "append"]
    <3>1. d \in Call /\ d.step = "append" /\ d.event = call[p].event
      BY <1>0, StepChanges DEF Steps
    <3>2. Set(p, d)
      BY <2>1 DEF Begin, Begun, Goto, At
    <3> HIDE DEF d
    <3> QED BY <2>1, <3>1, <3>2
  <2>2. CASE call[p].step = "rebuild.begin"
    <3> DEFINE d == [call[p] EXCEPT !.step = "rebuild"]
    <3>1. d \in Call /\ d.step = "rebuild" /\ d.event = call[p].event
      BY <1>0, StepChanges DEF Steps
    <3>2. Set(p, d)
      BY <2>2 DEF Begin, Begun, Goto, At
    <3> HIDE DEF d
    <3> QED BY <2>2, <3>1, <3>2
  <2> QED BY <2>1, <2>2 DEF Begin
<1>2. writer = None /\ writer' = p /\ UNCHANGED <<log, tables, called, stored, dropped>>
  BY DEF Begin
<1>3. \A q \in Procs \ {p} : call[q].step \notin Inside
  BY <1>2, LedgerAssumption DEF IInv, Relies
<1>4. Relies(p, c)'
  BY <1>0, <1>1, <1>2 DEF Relies, Inside, Appending
<1> QED BY <1>1, <1>2, <1>3, <1>4, CallMoves

LEMMA InsertKeeps ==
  ASSUME IInv, NEW p \in Procs, Insert(p)
  PROVE  IInv'
<1> DEFINE row == [event |-> call[p].event, prev |-> LastHash,
                   hash |-> Digest(LastHash, call[p].event)]
           d == [call[p] EXCEPT !.step = "append.commit", !.row = row]
<1>0. call[p] \in Call /\ Relies(p, call[p]) /\ call[p].step = "append"
  BY DEF IInv, StoreOK, Insert, At
<1>1. call[p].event \in Events
  BY <1>0 DEF Relies, Appending, IInv, StoreOK
<1>2. row \in Row
  <2>1. LastHash \in Seq(Events)
    BY LastHashType DEF IInv
  <2>2. Digest(LastHash, call[p].event) \in Seq(Events)
    BY <1>1, <2>1, AppendProperties DEF Digest
  <2> QED BY <1>1, <2>1, <2>2 DEF Row
<1>3. Set(p, d) /\ UNCHANGED <<log, tables, writer, called, stored, dropped>>
  BY DEF Insert
<1>4. PICK r \in Row : r = row
  BY <1>2
<1>5. d = [call[p] EXCEPT !.step = "append.commit", !.row = r]
  BY <1>4
<1> DEFINE e == [call[p] EXCEPT !.step = "append.commit", !.row = r]
<1>6. e \in Call /\ e.step = "append.commit" /\ e.row = r /\ e.event = call[p].event
  BY <1>0 DEF Call, Steps
<1>7. Set(p, e)
  BY <1>3, <1>5
<1> HIDE DEF e, d
<1>8. PICK c \in Call : c = e
  BY <1>6
<1>9. LastHash' = LastHash
  BY <1>3 DEF LastHash
<1>10. c.row = [event |-> c.event, prev |-> LastHash, hash |-> Digest(LastHash, c.event)]
  BY <1>4, <1>6, <1>8
<1>11. Relies(p, c)'
  BY <1>0, <1>3, <1>6, <1>8, <1>9, <1>10 DEF Relies, Inside, Appending
<1>12. writer' \in Procs \cup {None}
  BY <1>3 DEF IInv, StoreOK
<1> QED BY <1>3, <1>6, <1>7, <1>8, <1>11, <1>12, CallMoves

LEMMA CommitRebuildKeeps ==
  ASSUME IInv, NEW p \in Procs, CommitRebuild(p)
  PROVE  IInv'
<1>1. /\ Set(p, Idle) /\ UNCHANGED <<log, called, stored, dropped>>
      /\ tables' = call[p].read /\ writer' = None /\ call[p].step \in Inside
  BY DEF CommitRebuild, At, Inside
<1>2. call' \in [Procs -> Call] /\ call'[p] = Idle /\ \A q \in Procs : q # p => call'[q] = call[q]
  BY <1>1, IdleIsCall, CallReplaced DEF IInv
<1>3. tables' \in Seq(Events)
  BY <1>1 DEF IInv, StoreOK, Call
<1>4. StoreOK'
  BY <1>1, <1>2, <1>3 DEF IInv, StoreOK
<1>5. LastHash' = LastHash
  BY <1>1 DEF LastHash
<1>6. ASSUME NEW q \in Procs, q # p PROVE Relies(q, call[q])'
  <2>1. Relies(q, call[q]) /\ call'[q] = call[q] /\ Relies(p, call[p])
    BY <1>2, <1>6 DEF IInv
  <2>2. call[q].step \notin Inside
    BY <1>1, <1>6, <2>1 DEF Relies
  <2> QED BY <1>1, <1>5, <2>1, <2>2 DEF Relies
<1>7. Relies(p, call[p])'
  BY <1>2 DEF Relies, Idle, Inside, Appending
<1>8. Distinct'
  BY <1>2 DEF IInv, Distinct, Idle
<1>9. Known' /\ ChainIntact' /\ StoredOnce'
  BY <1>1 DEF IInv, Known, ChainIntact, StoredOnce
<1> QED BY <1>4, <1>6, <1>7, <1>8, <1>9 DEF IInv

(* The row a writer commits continues the chain. *)
LEMMA RowToCommit ==
  ASSUME IInv, NEW p \in Procs, CommitAppend(p)
  PROVE  call[p].row \in Row
<1> DEFINE e == call[p].event
<1>1. Relies(p, call[p]) /\ call[p].step = "append.commit"
  BY DEF IInv, CommitAppend, At
<1>2. e \in Events /\ call[p].row = [event |-> e, prev |-> LastHash, hash |-> Digest(LastHash, e)]
  BY <1>1 DEF IInv, StoreOK, Relies, Appending
<1>3. LastHash \in Seq(Events)
  BY LastHashType DEF IInv
<1>4. Digest(LastHash, e) \in Seq(Events)
  BY <1>2, <1>3, AppendProperties DEF Digest
<1> QED BY <1>2, <1>3, <1>4 DEF Row

LEMMA CommitAppendKeeps ==
  ASSUME IInv, NEW p \in Procs, CommitAppend(p)
  PROVE  IInv'
<1> DEFINE e == call[p].event
           row == call[p].row
           n == Len(log)
<1>0. Relies(p, call[p]) /\ call[p].step = "append.commit" /\ call[p] \in Call
  BY DEF IInv, StoreOK, CommitAppend, At
<1>1. /\ e \in called \ (stored \cup dropped)
      /\ \A i \in 1 .. n : log[i].event # e
      /\ row = [event |-> e, prev |-> LastHash, hash |-> Digest(LastHash, e)]
      /\ writer = p
  BY <1>0 DEF Relies, Appending, Inside
<1>2. e \in Events
  BY <1>1 DEF IInv, StoreOK
<1>3. /\ row.event = e /\ row.prev = LastHash /\ row.hash = Digest(LastHash, e)
  BY <1>1
<1>4. row \in Row
  BY RowToCommit
<1>5. /\ log' = Append(log, row) /\ writer' = None /\ stored' = stored \cup {e}
      /\ Set(p, Idle) /\ UNCHANGED <<tables, called, dropped>>
  BY DEF CommitAppend
<1> HIDE DEF e, row
<1>6. call' \in [Procs -> Call] /\ call'[p] = Idle /\ \A q \in Procs : q # p => call'[q] = call[q]
  BY <1>5, IdleIsCall, CallReplaced DEF IInv
<1>7. /\ n \in Nat /\ log' \in Seq(Row) /\ Len(log') = n + 1
      /\ \A i \in 1 .. n : log'[i] = log[i]
      /\ log'[n + 1] = row
  BY <1>4, <1>5, AppendProperties, LenProperties DEF IInv, StoreOK
<1> HIDE DEF n
<1>8. StoreOK'
  BY <1>2, <1>5, <1>6, <1>7 DEF IInv, StoreOK
<1>9. \A i \in 1 .. n + 1 : i \in 1 .. n \/ i = n + 1
  BY <1>7
<1>10. Known'
  BY <1>1, <1>3, <1>5, <1>7, <1>9 DEF IInv, Known, n
<1>11. StoredOnce'
  <2>1. \A i, j \in 1 .. n + 1 : log'[i].event = log'[j].event => i = j
    BY <1>1, <1>3, <1>7, <1>9 DEF IInv, StoredOnce, n
  <2>2. \A x \in stored' : \E i \in 1 .. n + 1 : log'[i].event = x
    <3>1. \A x \in stored : \E i \in 1 .. n : log'[i].event = x
      BY <1>7 DEF IInv, StoredOnce, n
    <3>2. n + 1 \in 1 .. n + 1 /\ 1 .. n \subseteq 1 .. n + 1
      BY <1>7
    <3> QED BY <1>3, <1>5, <1>7, <3>1, <3>2
  <2>3. \A x \in dropped' : \A i \in 1 .. n + 1 : log'[i].event # x
    BY <1>1, <1>3, <1>5, <1>7, <1>9 DEF IInv, StoredOnce, n
  <2> QED BY <1>7, <2>1, <2>2, <2>3 DEF StoredOnce
<1>12. ChainIntact'
  <2>1. ASSUME NEW i \in 1 .. n
        PROVE  /\ log'[i].prev = IF i = 1 THEN Genesis ELSE log'[i - 1].hash
               /\ log'[i].hash = Digest(log'[i].prev, log'[i].event)
    <3>1. i # 1 => i - 1 \in 1 .. n
      BY <1>7
    <3>2. /\ log[i].prev = IF i = 1 THEN Genesis ELSE log[i - 1].hash
          /\ log[i].hash = Digest(log[i].prev, log[i].event)
      BY DEF IInv, ChainIntact, n
    <3> QED BY <1>7, <3>1, <3>2
  <2>2. /\ log'[n + 1].prev = IF n + 1 = 1 THEN Genesis ELSE log'[n].hash
        /\ log'[n + 1].hash = Digest(log'[n + 1].prev, log'[n + 1].event)
    <3>1. LastHash = IF n = 0 THEN Genesis ELSE log[n].hash
      BY EmptySeq DEF LastHash, IInv, StoreOK, n
    <3>2. n # 0 => log'[n] = log[n]
      BY <1>7
    <3> QED BY <1>3, <1>7, <3>1, <3>2
  <2>3. n + 1 - 1 = n
    BY <1>7
  <2>4. \A i \in 1 .. n + 1 :
          /\ log'[i].prev = IF i = 1 THEN Genesis ELSE log'[i - 1].hash
          /\ log'[i].hash = Digest(log'[i].prev, log'[i].event)
    <3>1. ASSUME NEW i \in 1 .. n + 1, i = n + 1
          PROVE  /\ log'[i].prev = IF i = 1 THEN Genesis ELSE log'[i - 1].hash
                 /\ log'[i].hash = Digest(log'[i].prev, log'[i].event)
      BY <1>7, <2>2, <2>3, <3>1
    <3> QED BY <1>9, <2>1, <3>1
  <2> QED BY <1>7, <2>4 DEF ChainIntact
<1>13. ASSUME NEW q \in Procs, q # p PROVE Relies(q, call[q])'
  <2>1. Relies(q, call[q]) /\ call'[q] = call[q]
    BY <1>6, <1>13 DEF IInv
  <2>2. call[q].step \notin Inside
    BY <1>1, <1>13, <2>1 DEF Relies
  <2>3. call[q].step \in Appending => call[q].event # e
    <3>1. e # None
      BY <1>2, LedgerAssumption
    <3> QED BY <1>13, <2>1, <3>1 DEF IInv, Distinct, Relies, e
  <2>4. call[q].step \in Appending => \A i \in 1 .. n + 1 : log'[i].event # call[q].event
    BY <1>3, <1>7, <1>9, <2>1, <2>3 DEF Relies, n
  <2> QED BY <1>5, <1>7, <2>1, <2>2, <2>3, <2>4 DEF Relies, Inside
<1>14. Relies(p, call[p])'
  BY <1>6 DEF Relies, Idle, Inside, Appending
<1>15. Distinct'
  BY <1>6 DEF IInv, Distinct, Idle
<1> QED BY <1>8, <1>10, <1>11, <1>12, <1>13, <1>14, <1>15 DEF IInv

(* A failed attempt, from outside the transaction or from inside it. *)
LEMMA AttemptKeeps ==
  ASSUME IInv, NEW p \in Procs, Attempt(p), call[p].step # "idle",
         UNCHANGED <<log, tables, called, stored>>,
         writer' = IF call[p].step \in Inside THEN None ELSE writer
  PROVE  IInv'
<1>0. call[p] \in Call /\ Relies(p, call[p])
  BY DEF IInv, StoreOK
<1>1. CASE UNCHANGED dropped /\ ~Set(p, Idle)
  <2> DEFINE d == [call[p] EXCEPT !.step = Restart(@), !.attempt = @ + 1]
  <2>1. Set(p, d) /\ call[p].attempt + 1 < MaxAttempts
    BY <1>1 DEF Attempt
  <2>2. Restart(call[p].step) \in {"append.begin", "rebuild.begin"}
        /\ call[p].attempt + 1 \in 0 .. MaxAttempts - 1
    BY <1>0, <2>1, LedgerAssumption DEF Call, Restart
  <2>3. PICK step \in {"append.begin", "rebuild.begin"}, k \in 0 .. MaxAttempts - 1 :
          step = Restart(call[p].step) /\ k = call[p].attempt + 1
    BY <2>2
  <2> DEFINE e == [call[p] EXCEPT !.step = step, !.attempt = k]
  <2>4. e = d
    BY <2>3
  <2>5. e \in Call /\ e.step = step /\ e.event = call[p].event
    BY <1>0 DEF Call, Steps
  <2>6. step = "append.begin" <=> call[p].step \in Appending
    BY <1>0, <2>3 DEF Restart, Rebuilding, Appending, Call, Steps
  <2>7. Set(p, e)
    BY <2>1, <2>4
  <2> HIDE DEF e, d
  <2>8. PICK c \in Call : c = e
    BY <2>5
  <2>9. Relies(p, c)'
    BY <1>0, <1>1, <2>5, <2>6, <2>8 DEF Relies, Inside, Appending
  <2>10. writer' \in Procs \cup {None}
    BY DEF IInv, StoreOK
  <2>11. \A q \in Procs \ {p} : call[q].step \in Inside => writer' = writer
    BY LedgerAssumption DEF IInv, Relies
  <2> QED BY <1>1, <2>5, <2>7, <2>8, <2>9, <2>10, <2>11, CallMoves
<1>2. CASE Set(p, Idle) /\ UNCHANGED dropped
  BY <1>2, ReturnKeeps
<1>3. CASE Set(p, Idle) /\ call[p].event # None /\ dropped' = dropped \cup {call[p].event}
  <2> DEFINE e == call[p].event
  <2>1. /\ e \in called \ (stored \cup dropped) /\ e \in Events
        /\ \A i \in 1 .. Len(log) : log[i].event # e
    BY <1>0, <1>3 DEF Relies, IInv, StoreOK
  <2>2. call' \in [Procs -> Call] /\ call'[p] = Idle /\ \A q \in Procs : q # p => call'[q] = call[q]
    BY <1>3, IdleIsCall, CallReplaced DEF IInv
  <2>3. StoreOK'
    BY <1>3, <2>1, <2>2 DEF IInv, StoreOK
  <2>4. LastHash' = LastHash
    BY DEF LastHash
  <2>5. ASSUME NEW q \in Procs, q # p PROVE Relies(q, call[q])'
    <3>1. Relies(q, call[q]) /\ call'[q] = call[q]
      BY <2>2, <2>5 DEF IInv
    <3>2. call[q].step \in Appending => call[q].event # e
      BY <1>3, <2>5, <3>1 DEF IInv, Distinct, Relies
    <3>3. call[q].step \in Inside => writer' = writer
      BY <1>0, <2>5, <3>1 DEF Relies
    <3> QED BY <1>3, <2>4, <3>1, <3>2, <3>3 DEF Relies
  <2>6. Relies(p, call[p])'
    BY <2>2 DEF Relies, Idle, Inside, Appending
  <2>7. Distinct'
    BY <2>2 DEF IInv, Distinct, Idle
  <2>8. Known' /\ ChainIntact'
    BY <1>3, <2>1 DEF IInv, Known, ChainIntact
  <2>9. StoredOnce'
    BY <1>3, <2>1 DEF IInv, StoredOnce
  <2> QED BY <2>3, <2>5, <2>6, <2>7, <2>8, <2>9 DEF IInv
<1> QED BY <1>1, <1>2, <1>3 DEF Attempt

(* The inductive step, one lemma per action. *)
LEMMA InductiveStep == IInv /\ [Next]_vars => IInv'
<1> SUFFICES ASSUME IInv, [Next]_vars PROVE IInv'
  OBVIOUS
<1>1. CASE UNCHANGED vars
  <2>1. StoreOK'
    BY <1>1 DEF IInv, StoreOK, vars
  <2>2. \A p \in Procs : Relies(p, call[p])'
    BY <1>1 DEF IInv, Relies, LastHash, vars
  <2>3. Distinct' /\ Known' /\ ChainIntact' /\ StoredOnce'
    BY <1>1 DEF IInv, Distinct, Known, ChainIntact, StoredOnce, vars
  <2> QED BY <2>1, <2>2, <2>3 DEF IInv
<1>2. ASSUME NEW p \in Procs, NEW e \in Events, StartAppend(p, e) PROVE IInv'
  BY <1>2, StartAppendKeeps
<1>3. ASSUME NEW p \in Procs, StartRebuild(p) PROVE IInv'
  BY <1>3, StartRebuildKeeps
<1>4. ASSUME NEW p \in Procs, Begin(p) PROVE IInv'
  BY <1>4, BeginKeeps
<1>5. ASSUME NEW p \in Procs, Insert(p) PROVE IInv'
  BY <1>5, InsertKeeps
<1>6. ASSUME NEW p \in Procs, CommitAppend(p) PROVE IInv'
  BY <1>6, CommitAppendKeeps
<1>7. ASSUME NEW p \in Procs, CommitRebuild(p) PROVE IInv'
  BY <1>7, CommitRebuildKeeps
<1>8. ASSUME NEW p \in Procs, Busy(p) PROVE IInv'
  <2>1. call[p].step # "idle" /\ call[p].step \notin Inside
    BY <1>8 DEF Busy, Inside
  <2>2. Attempt(p) /\ UNCHANGED <<log, tables, writer, called, stored>>
    BY <1>8 DEF Busy
  <2> QED BY <2>1, <2>2, AttemptKeeps
<1>9. ASSUME NEW p \in Procs, Abort(p) PROVE IInv'
  <2>1. call[p].step # "idle" /\ call[p].step \in Inside
    BY <1>9 DEF Abort, Inside
  <2>2. Attempt(p) /\ writer' = None /\ UNCHANGED <<log, tables, called, stored>>
    BY <1>9 DEF Abort
  <2> QED BY <2>1, <2>2, AttemptKeeps
<1>10. ASSUME NEW p \in Procs, Crash(p) PROVE IInv'
  <2>1. /\ Set(p, Idle) /\ UNCHANGED <<log, tables, called, stored, dropped>>
        /\ writer' = IF call[p].step \in Inside THEN None ELSE writer
    BY <1>10 DEF Crash
  <2> QED BY <2>1, ReturnKeeps
<1> QED BY <1>1, <1>2, <1>3, <1>4, <1>5, <1>6, <1>7, <1>8, <1>9, <1>10 DEF Next, Continue

LEMMA InitHolds == Init => IInv
<1> SUFFICES ASSUME Init PROVE IInv
  OBVIOUS
<1>1. log \in Seq(Row) /\ Len(log) = 0 /\ tables \in Seq(Events)
  BY EmptySeq DEF Init
<1>2. \A i \in 1 .. Len(log) : FALSE
  BY <1>1
<1>3. StoreOK
  BY <1>1, IdleIsCall DEF Init, StoreOK
<1>4. \A p \in Procs : Relies(p, call[p])
  BY IdleRelies DEF Init
<1>5. Distinct
  BY DEF Init, Distinct, Idle
<1>6. Known /\ ChainIntact /\ StoredOnce
  BY <1>2 DEF Init, Known, ChainIntact, StoredOnce
<1> QED BY <1>3, <1>4, <1>5, <1>6 DEF IInv
-----------------------------------------------------------------------------
(* The write lock, the freshness of every pending event and the row about   *)
(* to be committed are as IInv says in every reachable state.               *)
THEOREM Invariance == Spec => []IInv
<1>1. Init => IInv
  BY InitHolds
<1>2. IInv /\ [Next]_vars => IInv'
  BY InductiveStep
<1> QED BY <1>1, <1>2, PTL DEF Spec

(* The store's state is well typed, a call past its last attempt included   *)
(* (with_write_retry never makes attempt MaxAttempts + 1).                  *)
THEOREM TypeCorrect == Spec => []TypeOK
<1>1. IInv /\ overtaken \subseteq Procs => TypeOK
  BY DEF IInv, StoreOK, TypeOK
<1>2. Init => overtaken \subseteq Procs
  BY DEF Init
<1>3. overtaken \subseteq Procs /\ [Next]_vars => (overtaken \subseteq Procs)'
  BY DEF Next, Continue, StartAppend, StartRebuild, Begin, Insert, CommitAppend, CommitRebuild,
         Busy, Abort, Crash, vars
<1> QED BY <1>1, <1>2, <1>3, Invariance, PTL DEF Spec

(* verify_chain() never finds a break, for any number of processes that     *)
(* append, retry and crash at any point of a transaction.                   *)
THEOREM ChainIntactHolds == Spec => []ChainIntact
<1>1. IInv => ChainIntact
  BY DEF IInv
<1> QED BY <1>1, Invariance, PTL

(* append() reports truly: what it returned is stored, what it raised on is *)
(* not, and with_write_retry stores nothing twice.                          *)
THEOREM StoredOnceHolds == Spec => []StoredOnce
<1>1. IInv => StoredOnce
  BY DEF IInv
<1> QED BY <1>1, Invariance, PTL
-----------------------------------------------------------------------------
(* What the projections are made of. *)

Behind(s, t) == Len(s) <= Len(t) /\ \A i \in 1 .. Len(s) : s[i] = t[i]

(* What a rebuild in flight has read is behind the log, and what the         *)
(* projections were made of is behind that unless another overtook it.      *)
Reads(p, c) == c.step \in Rebuilding =>
  /\ Behind(c.read, EventsOf(log))
  /\ p \notin overtaken => Behind(tables, c.read)

GrowInv == /\ Behind(tables, EventsOf(log))
           /\ \A p \in Procs : Reads(p, call[p])

Grows == /\ IsPrefix(log, log')
         /\ IsPrefix(tables', EventsOf(log'))
         /\ \/ IsPrefix(tables, tables')
            \/ \E p \in overtaken : At(p, "rebuild") /\ tables' = call[p].read

LEMMA BehindIsPrefix ==
  ASSUME NEW T, NEW s \in Seq(T), NEW t \in Seq(T), Behind(s, t)
  PROVE  IsPrefix(s, t)
<1>1. Len(s) \in Nat /\ Len(t) \in Nat /\ Len(s) <= Len(t)
  BY LenProperties DEF Behind
<1>2. /\ SubSeq(s, 1, Len(s)) = [i \in 1 .. Len(s) |-> s[i]]
      /\ SubSeq(t, 1, Len(s)) = [i \in 1 .. Len(s) |-> t[i]]
  BY <1>1
<1>3. SubSeq(s, 1, Len(s)) = SubSeq(t, 1, Len(s))
  BY <1>2 DEF Behind
<1> QED BY <1>1, <1>3 DEF IsPrefix

LEMMA BehindItself == ASSUME NEW T, NEW s \in Seq(T) PROVE Behind(s, s)
BY LenProperties DEF Behind

LEMMA BehindFurther ==
  ASSUME NEW T, NEW s \in Seq(T), NEW t \in Seq(T), NEW u \in Seq(T), Behind(s, t), Behind(t, u)
  PROVE  Behind(s, u)
<1>1. Len(s) \in Nat /\ Len(t) \in Nat /\ Len(u) \in Nat
  BY LenProperties
<1> QED BY <1>1 DEF Behind

LEMMA EventsOfLog == ASSUME NEW l \in Seq(Row) PROVE EventsOf(l) \in Seq(Events)
<1>1. Len(l) \in Nat /\ \A i \in 1 .. Len(l) : l[i] \in Row
  BY ElementOfSeq, LenProperties
<1>2. \A i \in 1 .. Len(l) : l[i].event \in Events
  BY <1>1 DEF Row
<1> QED BY <1>1, <1>2, IsASeq DEF EventsOf

(* The projections of the next state are made of a prefix of its log. *)
LEMMA TablesBehind ==
  ASSUME log' \in Seq(Row), tables' \in Seq(Events), Behind(tables', EventsOf(log'))
  PROVE  IsPrefix(tables', EventsOf(log'))
BY EventsOfLog, BehindIsPrefix

LEMMA NothingGrows ==
  ASSUME IInv, GrowInv, UNCHANGED <<log, tables>>
  PROVE  Grows
<1>1. Behind(log, log) /\ Behind(tables, tables)
  BY BehindItself DEF IInv, StoreOK
<1>2. Behind(tables', EventsOf(log'))
  BY DEF GrowInv
<1>3. IsPrefix(tables', EventsOf(log'))
  BY <1>2, TablesBehind DEF IInv, StoreOK
<1> QED BY <1>1, <1>3, BehindIsPrefix DEF IInv, StoreOK, Grows

(* A call moves and takes with it what it read. *)
LEMMA ReadsKept ==
  ASSUME IInv, GrowInv, UNCHANGED <<log, tables, overtaken>>, NEW p \in Procs, NEW c \in Call, Set(p, c),
         c.step \in Rebuilding => call[p].step \in Rebuilding /\ c.read = call[p].read
  PROVE  GrowInv' /\ Grows
<1>1. call'[p] = c /\ \A q \in Procs : q # p => call'[q] = call[q]
  BY CallReplaced DEF IInv
<1>2. Reads(p, c)
  BY DEF GrowInv, Reads
<1>3. \A q \in Procs : Reads(q, call'[q])
  BY <1>1, <1>2 DEF GrowInv
<1>4. GrowInv'
  BY <1>3 DEF GrowInv, Reads, EventsOf
<1> QED BY <1>4, NothingGrows

LEMMA GrowContinues ==
  ASSUME IInv, GrowInv, NEW p \in Procs, Continue(p)
  PROVE  GrowInv' /\ Grows
<1>0. call[p] \in Call
  BY DEF IInv, StoreOK
<1>i. Idle \in Call /\ Idle.step \notin Rebuilding
  BY IdleIsCall DEF Idle, Rebuilding
<1>1. CASE Begin(p)
  <2> DEFINE c == [call[p] EXCEPT !.step = Begun(p)]
  <2>1. Begun(p) \in Steps /\ (Begun(p) \in Rebuilding => call[p].step \in Rebuilding)
    BY <1>1 DEF Begin, Begun, At, Steps, Rebuilding
  <2>2. Set(p, c) /\ UNCHANGED <<log, tables, overtaken>>
    BY <1>1 DEF Begin, Goto
  <2>3. c \in Call /\ c.step = Begun(p) /\ c.read = call[p].read
    BY <1>0, <2>1 DEF Call
  <2> HIDE DEF c
  <2> QED BY <2>1, <2>2, <2>3, ReadsKept
<1>2. CASE Insert(p)
  <2> DEFINE row == [event |-> call[p].event, prev |-> LastHash,
                     hash |-> Digest(LastHash, call[p].event)]
             c == [call[p] EXCEPT !.step = "append.commit", !.row = row]
  <2>1. Set(p, c) /\ UNCHANGED <<log, tables, overtaken>>
    BY <1>2 DEF Insert
  <2>2. row \in Row
    <3>1. call[p].event \in Events
      BY <1>0, <1>2 DEF Insert, At, Relies, Appending, IInv, StoreOK
    <3>2. LastHash \in Seq(Events)
      BY LastHashType DEF IInv
    <3>3. Digest(LastHash, call[p].event) \in Seq(Events)
      BY <3>1, <3>2, AppendProperties DEF Digest
    <3> QED BY <3>1, <3>2, <3>3 DEF Row
  <2> HIDE DEF row
  <2>3. c \in Call /\ c.step \notin Rebuilding
    BY <1>0, <2>2 DEF Call, Steps, Rebuilding
  <2> HIDE DEF c
  <2> QED BY <2>1, <2>3, ReadsKept
<1>3. CASE CommitAppend(p)
  <2>1. log' = Append(log, call[p].row) /\ Set(p, Idle) /\ UNCHANGED <<tables, overtaken>>
    BY <1>3 DEF CommitAppend
  <2>2. call[p].row \in Row
    BY <1>3, RowToCommit
  <2>3. /\ log \in Seq(Row) /\ log' \in Seq(Row) /\ Len(log) \in Nat /\ Len(log') = Len(log) + 1
        /\ \A i \in 1 .. Len(log) : log'[i] = log[i]
    BY <2>1, <2>2, AppendProperties, LenProperties DEF IInv, StoreOK
  <2>4. Behind(log, log') /\ Behind(EventsOf(log), EventsOf(log)')
    BY <2>3 DEF Behind, EventsOf
  <2>5. EventsOf(log) \in Seq(Events) /\ EventsOf(log)' \in Seq(Events)
    <3>1. EventsOf(log)' = EventsOf(log')
      BY DEF EventsOf
    <3> QED BY <2>3, <3>1, EventsOfLog DEF IInv, StoreOK
  <2>6. call'[p] = Idle /\ \A q \in Procs : q # p => call'[q] = call[q]
    BY <1>i, <2>1, CallReplaced DEF IInv
  <2>7. tables \in Seq(Events) /\ \A q \in Procs : call[q].read \in Seq(Events)
    BY DEF IInv, StoreOK, Call
  <2>8. Behind(tables, EventsOf(log)')
    BY <2>4, <2>5, <2>7, BehindFurther DEF GrowInv
  <2>9. ASSUME NEW q \in Procs PROVE Reads(q, call[q])'
    <3>1. CASE q = p
      BY <1>i, <2>6, <3>1 DEF Reads
    <3>2. CASE q # p
      <4>1. Reads(q, call[q]) /\ call'[q] = call[q]
        BY <2>6, <3>2 DEF GrowInv
      <4>2. call[q].step \in Rebuilding => Behind(call[q].read, EventsOf(log)')
        BY <2>4, <2>5, <2>7, <4>1, BehindFurther DEF Reads
      <4> QED BY <2>1, <4>1, <4>2 DEF Reads
    <3> QED BY <3>1, <3>2
  <2>10. Grows
    <3>1. Behind(tables, tables)
      BY <2>7, BehindItself
    <3>2. Behind(tables', EventsOf(log'))
      BY <2>1, <2>8 DEF EventsOf
    <3>3. IsPrefix(tables', EventsOf(log'))
      BY <2>1, <2>3, <2>7, <3>2, TablesBehind
    <3> QED BY <2>1, <2>3, <2>4, <2>7, <3>1, <3>3, BehindIsPrefix DEF Grows
  <2> QED BY <2>1, <2>8, <2>9, <2>10 DEF GrowInv
<1>4. CASE CommitRebuild(p)
  <2>1. /\ tables' = call[p].read /\ log' = log /\ Set(p, Idle) /\ At(p, "rebuild")
        /\ call[p].step \in Rebuilding
        /\ overtaken' = overtaken \cup {q \in Procs \ {p} : call[q].step \in Rebuilding}
    BY <1>4 DEF CommitRebuild, At, Rebuilding
  <2>2. Behind(call[p].read, EventsOf(log)) /\ (p \notin overtaken => Behind(tables, call[p].read))
    BY <2>1 DEF GrowInv, Reads
  <2>3. call'[p] = Idle /\ \A q \in Procs : q # p => call'[q] = call[q]
    BY <1>i, <2>1, CallReplaced DEF IInv
  <2>4. EventsOf(log)' = EventsOf(log)
    BY <2>1 DEF EventsOf
  <2>5. \A q \in Procs : Reads(q, call[q])'
    BY <1>i, <2>1, <2>3, <2>4 DEF GrowInv, Reads
  <2>6. GrowInv'
    BY <2>1, <2>2, <2>4, <2>5 DEF GrowInv
  <2>7. call[p].read \in Seq(Events) /\ tables \in Seq(Events) /\ log \in Seq(Row)
    BY DEF IInv, StoreOK, Call
  <2>8. Grows
    <3>1. IsPrefix(log, log')
      BY <2>1, <2>7, BehindItself, BehindIsPrefix
    <3>2. Behind(tables', EventsOf(log'))
      BY <2>1, <2>2
    <3>3. IsPrefix(tables', EventsOf(log'))
      BY <2>1, <2>7, <3>2, TablesBehind
    <3>4. p \notin overtaken => IsPrefix(tables, tables')
      BY <2>1, <2>2, <2>7, BehindIsPrefix
    <3> QED BY <2>1, <3>1, <3>3, <3>4 DEF Grows
  <2> QED BY <2>6, <2>8
<1>5. CASE Busy(p) \/ Abort(p)
  <2>1. UNCHANGED <<log, tables, overtaken>> /\ Attempt(p)
    BY <1>5 DEF Busy, Abort
  <2>2. CASE Set(p, Idle)
    BY <1>i, <2>1, <2>2, ReadsKept
  <2>3. CASE /\ call[p].attempt + 1 < MaxAttempts
             /\ Set(p, [call[p] EXCEPT !.step = Restart(@), !.attempt = @ + 1])
    <3> DEFINE c == [call[p] EXCEPT !.step = Restart(@), !.attempt = @ + 1]
    <3>1. /\ Restart(call[p].step) \in Steps
          /\ Restart(call[p].step) \in Rebuilding => call[p].step \in Rebuilding
      BY DEF Restart, Steps, Rebuilding
    <3>2. call[p].attempt + 1 \in 0 .. MaxAttempts - 1
      BY <1>0, <2>3, LedgerAssumption DEF Call
    <3>3. c \in Call /\ c.step = Restart(call[p].step) /\ c.read = call[p].read
      BY <1>0, <3>1, <3>2 DEF Call
    <3> HIDE DEF c
    <3>4. Set(p, c)
      BY <2>3 DEF c
    <3> QED BY <2>1, <3>1, <3>3, <3>4, ReadsKept
  <2> QED BY <2>1, <2>2, <2>3 DEF Attempt
<1> QED BY <1>1, <1>2, <1>3, <1>4, <1>5 DEF Continue

LEMMA GrowStep ==
  IInv /\ GrowInv /\ [Next]_vars => GrowInv' /\ [Grows]_vars
<1> SUFFICES ASSUME IInv, GrowInv, [Next]_vars PROVE GrowInv' /\ [Grows]_vars
  OBVIOUS
<1>1. ASSUME NEW p \in Procs, NEW e \in Events, StartAppend(p, e) PROVE GrowInv' /\ Grows
  <2> DEFINE c == [Idle EXCEPT !.step = "append.begin", !.event = e]
  <2>1. c \in Call /\ c.step \notin Rebuilding
    BY IdleIsCall DEF Call, Steps, Rebuilding
  <2>2. Set(p, c) /\ UNCHANGED <<log, tables, overtaken>>
    BY <1>1 DEF StartAppend
  <2> HIDE DEF c
  <2> QED BY <2>1, <2>2, ReadsKept
<1>2. ASSUME NEW p \in Procs, StartRebuild(p) PROVE GrowInv' /\ Grows
  <2> DEFINE r == EventsOf(log)
             c == [Idle EXCEPT !.step = "rebuild.begin", !.read = r]
  <2>1. r \in Seq(Events) /\ Behind(r, r) /\ Behind(tables, r)
    BY EventsOfLog, BehindItself DEF IInv, StoreOK, GrowInv
  <2>2. Set(p, c) /\ UNCHANGED <<log, tables>> /\ overtaken' = overtaken \ {p}
    BY <1>2 DEF StartRebuild
  <2>3. r = EventsOf(log) /\ r' = r
    BY <2>2 DEF EventsOf
  <2> HIDE DEF r
  <2>4. c \in Call /\ c.read = r
    BY <2>1, IdleIsCall DEF Call, Steps
  <2> HIDE DEF c
  <2>5. call'[p] = c /\ \A q \in Procs : q # p => call'[q] = call[q]
    BY <2>2, <2>4, CallReplaced DEF IInv
  <2>6. EventsOf(log)' = r
    BY <2>2, <2>3 DEF EventsOf
  <2>7. \A q \in Procs : Reads(q, call[q])'
    BY <2>1, <2>2, <2>3, <2>4, <2>5, <2>6 DEF GrowInv, Reads
  <2>8. GrowInv'
    BY <2>1, <2>2, <2>6, <2>7 DEF GrowInv
  <2> QED BY <2>2, <2>8, NothingGrows
<1>3. ASSUME NEW p \in Procs, Crash(p) PROVE GrowInv' /\ Grows
  <2>1. Idle \in Call /\ Idle.step \notin Rebuilding
    BY IdleIsCall DEF Idle, Rebuilding
  <2> QED BY <1>3, <2>1, ReadsKept DEF Crash
<1>4. CASE UNCHANGED vars
  BY <1>4 DEF vars, GrowInv, Reads, EventsOf
<1> QED BY <1>1, <1>2, <1>3, <1>4, GrowContinues DEF Next

(* Rows are only added at the end; the projections are made of a prefix of   *)
(* the log and fall back to a shorter one only when a rebuild commits that  *)
(* another overtook, whatever is retried or killed.                         *)
THEOREM OnlyGrowHolds == Spec => OnlyGrow
<1>1. Init => GrowInv
  <2> SUFFICES ASSUME Init PROVE GrowInv
    OBVIOUS
  <2>1. Behind(tables, EventsOf(log))
    BY DEF Init, Behind, EventsOf
  <2>2. \A p \in Procs : call[p].step \notin Rebuilding
    BY DEF Init, Idle, Rebuilding
  <2> QED BY <2>1, <2>2 DEF GrowInv, Reads
<1>2. IInv /\ GrowInv /\ [Next]_vars => GrowInv' /\ [Grows]_vars
  BY GrowStep
<1> QED BY <1>1, <1>2, Invariance, PTL DEF Spec, OnlyGrow, Grows
=============================================================================
