---------------------------- MODULE LedgerStore ----------------------------
(***************************************************************************)
(* The ledger file (ledger/__init__.py, ledger/_db.py): one hash-chained   *)
(* event table and its projections in SQLite, shared by processes that     *)
(* append and rebuild.  Each write is one BEGIN IMMEDIATE transaction;     *)
(* lock errors roll it back and are retried with_write_retry's bounded     *)
(* number of times.                                                        *)
(*                                                                         *)
(* SHA-256 is taken as collision-free: a digest stands for the sequence of *)
(* events it covers.  The FTS row of an event rides its transaction and    *)
(* the projections are a function of the events they were rebuilt from, so *)
(* `log` and `tables` stand for both.                                      *)
(***************************************************************************)
EXTENDS Naturals, Sequences, SequencesExt

CONSTANTS
  Events,      \* the events callers want to append, each with its event_id
  Procs,       \* processes holding a Ledger on the file
  Rebuilders,  \* those that call rebuild()
  MaxAttempts, \* _MAX_ATTEMPTS
  None         \* no process, no event and no row

ASSUME LedgerAssumption ==
  /\ Rebuilders \subseteq Procs
  /\ None \notin Procs /\ None \notin Events
  /\ MaxAttempts \in Nat \ {0}

VARIABLES
  log,      \* the committed events table, in seq order
  tables,   \* the events the committed projections were rebuilt from
  writer,   \* the process inside a write transaction
  called,   \* events some caller minted
  stored,   \* events whose append() returned
  dropped,  \* events whose append() raised
  call,     \* [Procs -> Call], where each process is
  overtaken \* processes during whose last rebuild another one committed

vars == <<log, tables, writer, called, stored, dropped, call, overtaken>>

(* A digest of the chain so far; GENESIS_HASH covers nothing. *)
Genesis == <<>>

Digest(prev, e) == Append(prev, e)

Row == [event : Events, prev : Seq(Events), hash : Seq(Events)]

(* "begin" steps are about to BEGIN IMMEDIATE, the rest are inside.         *)
Steps == {"idle", "append.begin", "append", "append.commit", "rebuild.begin", "rebuild"}

Call == [step : Steps, event : Events \cup {None}, attempt : 0 .. MaxAttempts - 1,
         row : Row \cup {None}, read : Seq(Events)]

Idle == [step |-> "idle", event |-> None, attempt |-> 0, row |-> None, read |-> <<>>]

EventsOf(rows) == [i \in 1 .. Len(rows) |-> rows[i].event]

TypeOK == /\ log \in Seq(Row)
          /\ tables \in Seq(Events)
          /\ writer \in Procs \cup {None}
          /\ called \subseteq Events
          /\ stored \subseteq Events
          /\ dropped \subseteq Events
          /\ call \in [Procs -> Call]
          /\ overtaken \subseteq Procs

Init == /\ log = <<>>
        /\ tables = <<>>
        /\ writer = None
        /\ called = {}
        /\ stored = {}
        /\ dropped = {}
        /\ call = [p \in Procs |-> Idle]
        /\ overtaken = {}
-----------------------------------------------------------------------------
At(p, step) == call[p].step = step

Set(p, c) == call' = [call EXCEPT ![p] = c]

Goto(p, step) == Set(p, [call[p] EXCEPT !.step = step])

LastHash == IF log = <<>> THEN Genesis ELSE log[Len(log)].hash

(* append(event): the event is stamped and its payload serialised, once. *)
StartAppend(p, e) == /\ call[p] = Idle
                     /\ e \notin called
                     /\ called' = called \cup {e}
                     /\ Set(p, [Idle EXCEPT !.step = "append.begin", !.event = e])
                     /\ UNCHANGED <<log, tables, writer, stored, dropped, overtaken>>

(* rebuild(): the events are queried before the transaction. *)
StartRebuild(p) == /\ p \in Rebuilders
                   /\ call[p] = Idle
                   /\ Set(p, [Idle EXCEPT !.step = "rebuild.begin", !.read = EventsOf(log)])
                   /\ overtaken' = overtaken \ {p}
                   /\ UNCHANGED <<log, tables, writer, called, stored, dropped>>

Begun(p) == IF At(p, "append.begin") THEN "append" ELSE "rebuild"

(* Faulty: a deferred transaction, which lets a second writer in. *)
BeginDeferred(p) == /\ call[p].step \in {"append.begin", "rebuild.begin"}
                    /\ writer' = p
                    /\ Goto(p, Begun(p))
                    /\ UNCHANGED <<log, tables, called, stored, dropped, overtaken>>

(* BEGIN IMMEDIATE takes the one write lock. *)
Begin(p) == /\ call[p].step \in {"append.begin", "rebuild.begin"}
            /\ writer = None
            /\ writer' = p
            /\ Goto(p, Begun(p))
            /\ UNCHANGED <<log, tables, called, stored, dropped, overtaken>>

(* Faulty: the row of the first attempt is inserted again. *)
InsertFirst(p) == /\ At(p, "append")
                  /\ Set(p, [call[p] EXCEPT !.step = "append.commit", !.row =
                       IF @ = None THEN [event |-> call[p].event, prev |-> LastHash,
                                         hash |-> Digest(LastHash, call[p].event)] ELSE @])
                  /\ UNCHANGED <<log, tables, writer, called, stored, dropped, overtaken>>

(* The last hash is read inside the transaction, on every attempt. *)
Insert(p) == /\ At(p, "append")
             /\ Set(p, [call[p] EXCEPT !.step = "append.commit",
                  !.row = [event |-> call[p].event, prev |-> LastHash,
                           hash |-> Digest(LastHash, call[p].event)]])
             /\ UNCHANGED <<log, tables, writer, called, stored, dropped, overtaken>>

CommitAppend(p) == /\ At(p, "append.commit")
                   /\ log' = Append(log, call[p].row)
                   /\ writer' = None
                   /\ stored' = stored \cup {call[p].event}
                   /\ Set(p, Idle)
                   /\ UNCHANGED <<tables, called, dropped, overtaken>>

Rebuilding == {"rebuild.begin", "rebuild"}

(* DROP, re-create and replay, then COMMIT: readers see all of it or none. *)
CommitRebuild(p) == /\ At(p, "rebuild")
                    /\ tables' = call[p].read
                    /\ writer' = None
                    /\ Set(p, Idle)
                    /\ overtaken' = overtaken \cup
                         {q \in Procs \ {p} : call[q].step \in Rebuilding}
                    /\ UNCHANGED <<log, called, stored, dropped>>

Restart(step) == IF step \in Rebuilding THEN "rebuild.begin" ELSE "append.begin"

(* Faulty: attempts are not counted. *)
AttemptForever(p) == Goto(p, Restart(call[p].step)) /\ UNCHANGED dropped

(* One attempt failed on a lock: sleep and retry, or give up and raise. *)
Attempt(p) ==
  \/ /\ call[p].attempt + 1 < MaxAttempts
     /\ Set(p, [call[p] EXCEPT !.step = Restart(@), !.attempt = @ + 1])
     /\ UNCHANGED dropped
  \/ /\ call[p].attempt + 1 = MaxAttempts
     /\ Set(p, Idle)
     /\ dropped' = IF call[p].event = None THEN dropped ELSE dropped \cup {call[p].event}

(* busy_timeout ran out while another process holds the lock. *)
Busy(p) == /\ call[p].step \in {"append.begin", "rebuild.begin"}
           /\ writer # None
           /\ Attempt(p)
           /\ UNCHANGED <<log, tables, writer, called, stored, overtaken>>

Inside == {"append", "append.commit", "rebuild"}

(* Faulty: what the transaction wrote so far stays. *)
AbortNoRollback(p) ==
  /\ call[p].step \in Inside
  /\ Attempt(p)
  /\ writer' = None
  /\ log' = IF At(p, "append.commit") THEN Append(log, call[p].row) ELSE log
  /\ tables' = IF At(p, "rebuild") THEN <<>> ELSE tables
  /\ UNCHANGED <<called, stored, overtaken>>

(* A lock error inside the transaction, COMMIT's included: ROLLBACK. *)
Abort(p) == /\ call[p].step \in Inside
            /\ Attempt(p)
            /\ writer' = None
            /\ UNCHANGED <<log, tables, called, stored, overtaken>>

(* The process dies; the file drops its transaction and its lock. *)
Crash(p) == /\ call[p] # Idle
            /\ writer' = IF call[p].step \in Inside THEN None ELSE writer
            /\ Set(p, Idle)
            /\ UNCHANGED <<log, tables, called, stored, dropped, overtaken>>
-----------------------------------------------------------------------------
Continue(p) == \/ Begin(p)
               \/ Insert(p)
               \/ CommitAppend(p)
               \/ CommitRebuild(p)
               \/ Busy(p)
               \/ Abort(p)

Next == \E p \in Procs : \/ \E e \in Events : StartAppend(p, e)
                         \/ StartRebuild(p)
                         \/ Continue(p)
                         \/ Crash(p)

Spec == Init /\ [][Next]_vars

(* A process in a call keeps running. *)
FairSpec == Spec /\ \A p \in Procs : WF_vars(Continue(p))
-----------------------------------------------------------------------------
(* Properties. *)

(* verify_chain() finds no break, whoever appended in which order and after *)
(* how many retries: each row covers exactly the rows before it.            *)
ChainIntact == \A i \in 1 .. Len(log) :
  /\ log[i].prev = IF i = 1 THEN Genesis ELSE log[i - 1].hash
  /\ log[i].hash = Digest(log[i].prev, log[i].event)

(* An append that returned is in the log, one that raised is not, and no    *)
(* retry puts an event there twice.                                         *)
StoredOnce ==
  /\ \A i, j \in 1 .. Len(log) : log[i].event = log[j].event => i = j
  /\ \A e \in stored : \E i \in 1 .. Len(log) : log[i].event = e
  /\ \A e \in dropped : \A i \in 1 .. Len(log) : log[i].event # e

(* Rows are only ever added at the end.  The projections are made of a       *)
(* prefix of the log, and no retry or death in the middle of a rebuild makes *)
(* them fall back to an older one: only a rebuild that another overtook,     *)
(* which reads the log outside its transaction, can commit what it read      *)
(* before the other.                                                         *)
OnlyGrow == [][/\ IsPrefix(log, log')
               /\ IsPrefix(tables', EventsOf(log'))
               /\ \/ IsPrefix(tables, tables')
                  \/ \E p \in overtaken : At(p, "rebuild") /\ tables' = call[p].read]_vars

(* Every append and rebuild ends, even when others keep the file busy.      *)
CallsEnd == \A p \in Procs : ~At(p, "idle") ~> At(p, "idle")
=============================================================================
