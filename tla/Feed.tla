-------------------------------- MODULE Feed --------------------------------
(***************************************************************************)
(* One WebSocket session of a market-data collector and its timers: the    *)
(* shared runner (scripts/collector_core.py, run_ws_collector) and the     *)
(* three collectors with a loop of their own (collect_ticks.py,            *)
(* collect_books_coinbase.py, collect_books_binance.py).                   *)
(*                                                                         *)
(* Time is a count of ticks; the program does its work between two waits   *)
(* in no time, so that a timer that is due is handled before the next      *)
(* tick.  The run is asked to last Deadline ticks (--smoke), which bounds  *)
(* every counter: the last wait that starts before the deadline ends at    *)
(* most MaxDelay after it.                                                 *)
(***************************************************************************)
EXTENDS Naturals, FiniteSetsExt

CONSTANTS
  Deadline,    \* duration_s
  OpenTimeout, \* open_timeout of connect
  MaxDelay,    \* cap of backoff_delay
  Heartbeat,   \* HEARTBEAT_TIMEOUT_S
  Patience,    \* heartbeat_timeout_s of the liquidation feed, far above Heartbeat
  Keepalive,   \* keepalive_interval_s
  FlushEvery,  \* FLUSH_INTERVAL_S
  MaxAge,      \* MAX_BUFFER_AGE_S
  Hour         \* ticks in an hour of the archive

Never == Deadline + OpenTimeout + MaxDelay + 1   \* later than any clock reading

(***************************************************************************)
(* The sessions.  "own" runners keep no keepalive and take any quiet       *)
(* wait for a dead socket; Binance's reaches its flush only after a row    *)
(* it kept.                                                                *)
(***************************************************************************)
BookSession == [own |-> FALSE, heartbeat |-> Heartbeat, keepalive |-> 0, rowsFlush |-> FALSE]

LiquidationSession == [own |-> FALSE, heartbeat |-> Patience, keepalive |-> Keepalive, rowsFlush |-> FALSE]

OwnSession == [own |-> TRUE, heartbeat |-> Heartbeat, keepalive |-> 0, rowsFlush |-> FALSE]

BinanceSession == [own |-> TRUE, heartbeat |-> Heartbeat, keepalive |-> 0, rowsFlush |-> TRUE]

VARIABLES
  session,   \* the VenueSpec that runs
  now,
  link,      \* "connecting", "up", "sleeping" or "ended"
  attempt,   \* failures in a row, the exponent of the backoff
  due,       \* when the wait under way times out: open, recv or sleep
  lastMsg,   \* last frame of this connection
  lastKeep,  \* last keepalive sent on this connection
  lastFlush, \* last flush_all of the session
  lastFrame, \* last frame that reached the flush
  oldest     \* stamp of the oldest row in the sink, Never when it is empty

timers == <<lastMsg, lastKeep, lastFlush, lastFrame>>
vars == <<session, now, link, attempt, due, lastMsg, lastKeep, lastFlush, lastFrame, oldest>>

TypeOK ==
  /\ session \in {BookSession, LiquidationSession, OwnSession, BinanceSession}
  /\ link \in {"connecting", "up", "sleeping", "ended"}
  /\ {now, due, lastMsg, lastKeep, lastFlush, lastFrame, oldest} \subseteq 0 .. Never
  /\ attempt \in 0 .. Deadline + 1

Over == now >= Deadline

BackoffDelay(n) == Min({2 ^ n, MaxDelay})

(* recv is polled in slices, so that a keepalive is never long overdue.    *)
SliceWholeHeartbeat(s) == s.heartbeat

Slice(s) == IF s.keepalive = 0 THEN s.heartbeat ELSE Min({s.heartbeat, s.keepalive \div 2})

Open == /\ link' = "connecting"
        /\ due' = now + OpenTimeout

End == /\ link' = "ended"
       /\ oldest' = Never     \* flush_all(force=True)
       /\ UNCHANGED due

(* The outer loop after a session: another one, or the end.                *)
Again == IF Over THEN End ELSE Open /\ UNCHANGED oldest

(* The head of the inner loop, with the keepalive last sent at k: send     *)
(* one when it is due, then wait for a frame, the slice or the deadline.   *)
Wait(k) == /\ ~Over
           /\ link' = "up"
           /\ lastKeep' = IF session.keepalive # 0 /\ now - k >= session.keepalive THEN now ELSE k
           /\ due' = now + Min({Slice(session), Deadline - now})

(* Raised inside a session or a connect: back off, then try again.         *)
Raise == /\ link' = "sleeping"
         /\ due' = now + BackoffDelay(attempt)
         /\ attempt' = attempt + 1

Init == /\ session \in {BookSession, LiquidationSession, OwnSession, BinanceSession}
        /\ now = 0 /\ link = "connecting" /\ due = OpenTimeout /\ attempt = 0
        /\ lastMsg = 0 /\ lastKeep = 0 /\ lastFlush = 0 /\ lastFrame = 0
        /\ oldest = Never

-----------------------------------------------------------------------------
(* A shard starts its flush clock once; a reconnect leaves it alone.       *)
ConnectRestartsFlush ==
  /\ link = "connecting"
  /\ attempt' = 0
  /\ lastMsg' = now
  /\ lastFlush' = now
  /\ IF Over THEN End /\ lastKeep' = now ELSE Wait(now) /\ UNCHANGED oldest
  /\ UNCHANGED <<session, now, lastFrame>>

Connect ==
  /\ link = "connecting"
  /\ attempt' = 0
  /\ lastMsg' = now
  /\ IF Over THEN End /\ lastKeep' = now ELSE Wait(now) /\ UNCHANGED oldest
  /\ UNCHANGED <<session, now, lastFlush, lastFrame>>

ConnectFails ==
  /\ link = "connecting"
  /\ Raise
  /\ UNCHANGED <<session, now, timers, oldest>>

ConnectTimesOut ==
  /\ link = "connecting" /\ now = due
  /\ Again
  /\ UNCHANGED <<session, now, attempt, timers>>

(* add, then flush_all once FlushEvery has passed.  A buffer is written    *)
(* when it is worth a file (worth), or old, or of a past hour.             *)
ShouldFlush(first, worth) ==
  \/ worth
  \/ first \div Hour # now \div Hour
  \/ now - first >= MaxAge

Flush(first, worth) ==
  LET flushes == now - lastFlush >= FlushEvery IN
  /\ lastFlush' = IF flushes THEN now ELSE lastFlush
  /\ lastFrame' = now
  /\ oldest' = IF Over \/ (flushes /\ first # Never /\ ShouldFlush(first, worth)) THEN Never ELSE first

(* A data frame: its row is dropped (throttled, or no symbol of ours),     *)
(* kept under its time of arrival, or kept and spilled to disk with the    *)
(* rest at FLUSH_ROW_LIMIT.                                                *)
DataFrame(row, worth) ==
  /\ link = "up"
  /\ lastMsg' = now
  /\ IF session.rowsFlush /\ row = "dropped"
     THEN /\ oldest' = IF Over THEN Never ELSE oldest
          /\ UNCHANGED <<lastFlush, lastFrame>>
     ELSE Flush(CASE row = "dropped" -> oldest
                    [] row = "kept" -> Min({oldest, now})
                    [] row = "spilled" -> Never, worth)
  /\ IF Over
     THEN link' = "ended" /\ UNCHANGED <<due, lastKeep>>
     ELSE Wait(lastKeep)
  /\ UNCHANGED <<session, now, attempt>>

(* The bare "pong" that answers a keepalive is no JSON: it proves the      *)
(* socket alive and skips the flush.  The own runners have no such guard.  *)
Pong ==
  /\ link = "up" /\ ~session.own /\ session.keepalive # 0 /\ ~Over
  /\ lastMsg' = now
  /\ Wait(lastKeep)
  /\ UNCHANGED <<session, now, attempt, lastFlush, lastFrame, oldest>>

(* An error frame (a rejected subscribe), a frame that is not JSON for an  *)
(* own runner, or a transport error.                                       *)
Breaks ==
  /\ link = "up"
  /\ Raise
  /\ \E m \in {lastMsg, now} : lastMsg' = m
  /\ UNCHANGED <<session, now, lastKeep, lastFlush, lastFrame, oldest>>

(* recv timed out.  The own runners reconnect; the shared one only when    *)
(* nothing at all came for a whole heartbeat.                              *)
QuietForSlice ==
  /\ link = "up" /\ now = due
  /\ UNCHANGED <<session, now, attempt, lastMsg, lastFlush, lastFrame>>
  /\ IF session.own \/ now - lastMsg > session.heartbeat
     THEN Again /\ UNCHANGED lastKeep
     ELSE \/ ~Over /\ Wait(lastKeep) /\ UNCHANGED oldest
          \/ Over /\ End /\ UNCHANGED lastKeep

Quiet ==
  /\ link = "up" /\ now = due
  /\ UNCHANGED <<session, now, attempt, lastMsg, lastFlush, lastFrame>>
  /\ IF session.own \/ now - lastMsg >= session.heartbeat
     THEN Again /\ UNCHANGED lastKeep
     ELSE \/ ~Over /\ Wait(lastKeep) /\ UNCHANGED oldest
          \/ Over /\ End /\ UNCHANGED lastKeep

Wake ==
  /\ link = "sleeping" /\ now = due
  /\ Again
  /\ UNCHANGED <<session, now, attempt, timers>>

Tick == /\ link # "ended" /\ now < due
        /\ now' = now + 1
        /\ UNCHANGED <<session, link, attempt, due, timers, oldest>>

Ended == link = "ended" /\ UNCHANGED vars

Next ==
  \/ Connect \/ ConnectFails \/ ConnectTimesOut
  \/ \E row \in {"dropped", "kept", "spilled"}, worth \in BOOLEAN : DataFrame(row, worth)
  \/ Pong \/ Breaks \/ Quiet \/ Wake \/ Tick \/ Ended

Spec == Init /\ [][Next]_vars

-----------------------------------------------------------------------------
(* Every wait ends in time.  While a feed with a keepalive is up, the gap  *)
(* between two keepalives stays below one and a half intervals, the 30 s   *)
(* after which OKX closes an idle connection; a silent connection is given *)
(* up within a heartbeat and a slice; and as long as frames reach the      *)
(* flush, no row waits much longer than MaxAge, over any number of         *)
(* reconnects.                                                             *)
KeptAlive ==
  link = "up" /\ session.keepalive # 0 =>
    now - lastKeep < session.keepalive + session.keepalive \div 2

SilenceNoticed == link = "up" => now - lastMsg < session.heartbeat + Slice(session)

RowsNotHeld == oldest # Never => lastFrame < oldest + MaxAge + FlushEvery

Timely == KeptAlive /\ SilenceNoticed /\ RowsNotHeld
-----------------------------------------------------------------------------
(* Why: every wait ends before the deadline allows for, and within a slice *)
(* of a time when the keepalive was not due and the silence not yet long;  *)
(* and the last flush left no row that was old by then.                    *)
Waits ==
  /\ link # "ended" => now <= due
  /\ link = "connecting" => due <= Deadline + OpenTimeout /\ attempt <= now /\ attempt <= Deadline
  /\ link = "up" => due <= Deadline /\ attempt = 0
  /\ link = "sleeping" => due <= Deadline + OpenTimeout + MaxDelay /\ attempt <= due

Polled ==
  link = "up" =>
    /\ due - lastMsg < session.heartbeat + Slice(session)
    /\ session.keepalive # 0 => due - lastKeep < session.keepalive + session.keepalive \div 2

Aged ==
  /\ lastFlush <= now
  /\ oldest # Never => oldest <= now /\ lastFlush < oldest + MaxAge

IInv == TypeOK /\ Waits /\ Polled /\ Aged /\ Timely
=============================================================================
