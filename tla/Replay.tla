------------------------------- MODULE Replay -------------------------------
(***************************************************************************)
(* What a market-data collector makes of a venue's frames, over any number *)
(* of reconnects: the local order book replayed from snapshots and deltas  *)
(* (collect_ticks.py, collect_books_coinbase.py, collect_books_okx.py),    *)
(* the whole books of collect_books_binance.py, and the trade tapes        *)
(* (collect_trades_coinbase.py, collect_trades_okx.py).                    *)
(*                                                                         *)
(* One side of one book: a level is a price, live or not.  On a subscribe  *)
(* the venue sends the best levels of the subscription (its scope), then   *)
(* every change among them, in order; of a level that better ones push out *)
(* of the scope it says nothing more.  Frames on the wire are lost with    *)
(* the connection.  Each carries the venue's book and the levels so pushed *)
(* out, once it is applied, which no collector reads.                      *)
(***************************************************************************)
EXTENDS Naturals, Sequences, FiniteSets

CONSTANTS
  MaxPrice,  \* prices of the book
  Depth,     \* BOOK_DEPTH, which Kraken and Binance are asked for
  OkxLevels, \* levels of OKX's books channel
  Interval,  \* BOOK_ROW_INTERVAL_S
  MaxWire,   \* bound: frames on the wire
  MaxTrades, \* bound: trades made
  MaxTime    \* bound: the clock

Feeds == {"kraken book", "okx book", "coinbase book", "binance book", "coinbase trades", "okx trades"}

Books == {"kraken book", "okx book", "coinbase book", "binance book"}

Prices == 1 .. MaxPrice

VARIABLES
  feed,    \* the collector that runs
  now,
  link,    \* the connection is up
  venue,   \* the venue's live levels
  made,    \* trades the venue made, numbered from 1
  wire,    \* frames under way
  local,   \* the levels of the collector's OrderBookState
  last,    \* RowThrottle: when the last row was kept
  row,     \* the last row written, and the venue's at that frame
  written, \* copies of each trade in the archive
  out      \* levels that left the scope unsaid since the subscribe

vars == <<feed, now, link, venue, made, wire, local, last, row, written, out>>

NoRow == [wrote |-> {}, was |-> {}, out |-> {}]

(* The best k levels of a book, and those a subscription speaks of.        *)
Best(b, k) == {p \in b : Cardinality({q \in b : q > p}) < k}

Scope(b) ==
  CASE feed = "coinbase book" -> b
    [] feed = "okx book" -> Best(b, OkxLevels)
    [] OTHER -> Best(b, Depth)

Frame(kind, sets, cuts, book, left, trades) ==
  [kind |-> kind, sets |-> sets, cuts |-> cuts, book |-> book, out |-> left, trades |-> trades]

(* The frame in which the venue's book b becomes c.                        *)
Change(b, c, left) == Frame("update", Scope(c) \ Scope(b), Scope(b) \ c, c, left, {})

Whole(b) == Frame("snapshot", Scope(b), {}, b, {}, {})

Prints(kind, ts) == Frame(kind, {}, {}, {}, {}, ts)

TypeOK ==
  /\ feed \in Feeds /\ link \in BOOLEAN
  /\ now \in 0 .. MaxTime /\ last \in 0 .. MaxTime + Interval /\ made \in 0 .. MaxTrades
  /\ venue \subseteq Prices /\ local \subseteq Prices /\ out \subseteq Prices
  /\ Len(wire) <= MaxWire
  /\ row \in [wrote : SUBSET Prices, was : SUBSET Prices, out : SUBSET Prices]
  /\ written \in [1 .. MaxTrades -> 0 .. 2]

NoneYet == MaxTime + Interval   \* no row kept yet

Init == /\ feed \in Feeds
        /\ now = 0 /\ link = FALSE
        /\ venue \in SUBSET Prices /\ made = 0 /\ wire = <<>>
        /\ local = {} /\ last = NoneYet /\ row = NoRow
        /\ written = [t \in 1 .. MaxTrades |-> 0]
        /\ out = {}

-----------------------------------------------------------------------------
(* The venue.  Binance sends its whole top of book at every change; the    *)
(* Coinbase tape opens with the history it keeps, the OKX tape with        *)
(* nothing.                                                                *)
LeftUnsaid(c) == (out \union (Scope(venue) \intersect c)) \ Scope(c)

Quote(p) ==
  LET c == IF p \in venue THEN venue \ {p} ELSE venue \union {p}
      said == link /\ (feed = "binance book" \/ Scope(c) # Scope(venue))
  IN
    /\ feed \in Books
    /\ venue' = c
    /\ said => Len(wire) < MaxWire
    /\ out' = IF said /\ feed # "binance book" THEN LeftUnsaid(c) ELSE out
    /\ wire' = IF said
               THEN Append(wire, IF feed = "binance book" THEN Whole(c) ELSE Change(venue, c, out'))
               ELSE wire
    /\ UNCHANGED <<feed, now, link, made, local, last, row, written>>

Trade ==
  /\ feed \notin Books /\ made < MaxTrades
  /\ link => Len(wire) < MaxWire
  /\ made' = made + 1
  /\ wire' = IF link THEN Append(wire, Prints("update", {made'})) ELSE wire
  /\ UNCHANGED <<feed, now, link, venue, local, last, row, written, out>>

-----------------------------------------------------------------------------
(* A connect subscribes.  Coinbase's book runner starts each connection    *)
(* with new books, the others keep theirs for the snapshot to replace.     *)
Connect ==
  /\ ~link /\ link' = TRUE /\ out' = {}
  /\ wire' = CASE feed \in Books -> <<Whole(venue)>>
               [] feed = "coinbase trades" -> <<Prints("snapshot", 1 .. made)>>
               [] feed = "okx trades" -> <<>>
  /\ local' = IF feed = "coinbase book" THEN {} ELSE local
  /\ UNCHANGED <<feed, now, venue, made, last, row, written>>

Drop ==
  /\ link /\ link' = FALSE
  /\ wire' = <<>> /\ out' = {}
  /\ UNCHANGED <<feed, now, venue, made, local, last, row, written>>

(* RowThrottle.allow: at most one row an interval, always the first.       *)
Allowed == last = NoneYet \/ now - last >= Interval

(* A snapshot replaces the book; an update sets levels and removes others. *)
PatchedOver(f) == (local \union f.sets) \ f.cuts

Patched(f) == IF f.kind = "snapshot" THEN f.sets ELSE (local \union f.sets) \ f.cuts

(* Only the top of the book is written, but every level is kept: one below *)
(* the depth surfaces when a better one goes.  Every change is applied,    *)
(* whether or not its row is kept.                                         *)
ReadBook ==
  /\ link /\ feed \in Books /\ wire # <<>>
  /\ LET f == Head(wire) IN
       /\ local' = Patched(f)
       /\ IF Allowed
          THEN /\ last' = now
               /\ row' = [wrote |-> Best(local', Depth), was |-> Best(f.book, Depth), out |-> f.out]
          ELSE UNCHANGED <<last, row>>
  /\ wire' = Tail(wire)
  /\ UNCHANGED <<feed, now, link, venue, made, written, out>>

(* parse: the history a tape opens with is dropped, every other print is   *)
(* kept (trades are never throttled).                                      *)
KeepsAll(f) == f.trades

Keeps(f) == IF f.kind = "update" THEN f.trades ELSE {}

ReadTape ==
  /\ link /\ feed \notin Books /\ wire # <<>>
  /\ written' = [t \in DOMAIN written |->
                   IF t \in Keeps(Head(wire)) THEN written[t] + 1 ELSE written[t]]
  /\ wire' = Tail(wire)
  /\ UNCHANGED <<feed, now, link, venue, made, local, last, row, out>>

Tick == /\ now < MaxTime /\ now' = now + 1
        /\ UNCHANGED <<feed, link, venue, made, wire, local, last, row, written, out>>

Next ==
  \/ \E p \in Prices : Quote(p)
  \/ Trade \/ Connect \/ Drop \/ ReadBook \/ ReadTape \/ Tick

Spec == Init /\ [][Next]_vars

-----------------------------------------------------------------------------
(* Whatever the throttle skipped and however often the connection was lost *)
(* in between, a row of the archive is the top of the venue's book at that *)
(* frame, but for levels the venue stopped speaking of on this connection  *)
(* and those they hide; and no trade is written twice.                     *)
RowsFollow ==
  /\ row.wrote \ row.was \subseteq row.out
  /\ \A p \in row.was \ row.wrote : \E q \in row.out : q > p

TradesOnce == \A t \in DOMAIN written : written[t] <= 1

ArchiveIsTrue == RowsFollow /\ TradesOnce

(* What OrderBookState says it knows: the current top of the book.         *)
RowsAreTrue == row.wrote = row.was
-----------------------------------------------------------------------------
(* Why: each frame under way turns the book before it into the one it      *)
(* carries, from the collector's to the venue's; and the prints under way  *)
(* are of trades made, each in one frame, that nothing has written.        *)
Frames == [kind : {"snapshot", "update"}, sets : SUBSET Prices, cuts : SUBSET Prices,
           book : SUBSET Prices, out : SUBSET Prices, trades : SUBSET (1 .. MaxTrades)]

Gives(f, b) == IF f.kind = "snapshot" THEN f.sets ELSE (b \union f.sets) \ f.cuts

(* The book a collector holds that has read a frame of book b.             *)
HeldAt(b, left) == Scope(b) \union left

BookAt(i) == IF i = 0 THEN local ELSE HeldAt(wire[i].book, wire[i].out)

Sound == wire \in Seq(Frames) /\ (~link => wire = <<>>)

Chained ==
  feed \in Books /\ link =>
    /\ BookAt(Len(wire)) = HeldAt(venue, out)
    /\ out \intersect Scope(venue) = {} /\ (feed = "binance book" => out = {})
    /\ \A i \in 1 .. Len(wire) : Gives(wire[i], BookAt(i - 1)) = BookAt(i)

Kept(i) == Keeps(wire[i])

Unwritten ==
  /\ \A t \in DOMAIN written : written[t] > 0 => t <= made
  /\ \A i \in 1 .. Len(wire) : \A t \in Kept(i) : t <= made /\ written[t] = 0
  /\ \A i, j \in 1 .. Len(wire) : i # j => Kept(i) \cap Kept(j) = {}

IInv == TypeOK /\ Sound /\ Chained /\ Unwritten /\ ArchiveIsTrue
=============================================================================
