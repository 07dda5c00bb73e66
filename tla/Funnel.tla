------------------------------- MODULE Funnel -------------------------------
(***************************************************************************)
(* The scan behind `tk hud` and the cadence (hud/_build.py, build_state):  *)
(* every symbol of the universe, in order, is held, dropped at a gate or   *)
(* given an advisory ticket; and the sizing the thesis of a ticket gets    *)
(* when it is submitted (thesis/_submit.py), which R-012 compares the      *)
(* order with.                                                             *)
(*                                                                         *)
(* What a market call answers is drawn where it is made: nothing says that *)
(* two reads of a regime, minutes apart, agree.  Quantities are whole      *)
(* lots at one price; a family is what the tags of a leg stand for.        *)
(***************************************************************************)
EXTENDS Integers, Sequences, FiniteSetsExt

CONSTANTS
  Universe,    \* symbols scanned: 1 .. Universe
  DialEquity,  \* paper_starting_equity_usd
  Equities,    \* what --equity may say
  Vols,        \* stop distances (2 x ATR) a fetch of daily bars may yield
  MaxPosition, \* paper_max_position_usd, in lots
  Tolerance    \* sizing_tolerance_pct, in percent

(* The registry, in the order of the walk.  A leg is its tags, each of one *)
(* family, and how many of them must survive the regime.                   *)
Leg(families, min) == [families |-> families, min |-> min]

STRATEGIES == <<
  [key |-> "s1_momentum", families |-> {"momentum", "breakout"}, halves |-> FALSE,
   legs |-> << Leg(<<"momentum", "breakout">>, 1) >>],
  [key |-> "s2_pullback", families |-> {"momentum", "breakout"}, halves |-> FALSE,
   legs |-> << Leg(<<"momentum", "momentum">>, 2), Leg(<<"momentum">>, 1) >>],
  [key |-> "s4_reversion", families |-> {"mean_reversion"}, halves |-> TRUE,
   legs |-> << Leg(<<"mean_reversion", "mean_reversion">>, 2) >>] >>

(* What a regime recommends; breakdown, neutral and the override nothing.  *)
Recommends == { {"momentum", "breakout"}, {"mean_reversion"}, {} }

Unheard == {"unheard"}

VARIABLES
  equity, audit, \* the arguments of the scan
  positions,     \* symbols of active theses, read once
  at, symbol,    \* the gate the walk stands at, and the symbol
  def, leg,      \* strategy and leg under evaluation
  prefilter,     \* the regime the setup asked for first
  heard,         \* the regime of this confluence call, once it was needed
  kept,          \* the tags that survived, per leg
  last,          \* the last stage that failed
  tickets, report,
  sized,         \* the binding sizing of each ticket's thesis
  log            \* what became of the attrition note

vars == <<equity, audit, positions, at, symbol, def, leg, prefilter, heard, kept, last, tickets, report, sized, log>>

walk == <<def, leg, prefilter, heard, kept, last>>
scan == <<equity, audit, positions>>

S == STRATEGIES[def]

Unwritten == [note |-> "none", tickets |-> 0, killer |-> "none"]

Init ==
  /\ equity \in Equities /\ audit \in BOOLEAN /\ positions \in SUBSET (1 .. Universe)
  /\ at = "position" /\ symbol = 1
  /\ def = 1 /\ leg = 1 /\ prefilter = Unheard /\ heard = Unheard /\ kept = << >> /\ last = "none"
  /\ tickets = << >> /\ report = << >> /\ sized = << >> /\ log = Unwritten

-----------------------------------------------------------------------------
Entry(grade, killer) == [symbol |-> symbol, grade |-> grade, killed_by |-> killer]

(* One symbol is done, and the walk starts afresh with the next.           *)
Report(grade, killer) ==
  /\ report' = Append(report, Entry(grade, killer))
  /\ symbol' = symbol + 1 /\ at' = "position"
  /\ def' = 1 /\ leg' = 1 /\ prefilter' = Unheard /\ heard' = Unheard /\ kept' = << >> /\ last' = "none"
  /\ UNCHANGED <<scan, sized, log>>

Drop(stage) == Report("wait", stage) /\ UNCHANGED tickets

Goto(gate) == at' = gate /\ UNCHANGED <<scan, symbol, tickets, report, sized, log>>

Hold ==
  /\ at = "position" /\ symbol \in positions
  /\ Report("hold", "none") /\ UNCHANGED tickets

(* _fetch_bars: too few closed bars, or any exception, drops the symbol.   *)
FetchBars(ok) ==
  /\ at = "position" /\ symbol \in 1 .. Universe \ positions
  /\ IF ok THEN Goto(IF audit THEN "audit" ELSE "regime") /\ UNCHANGED walk
           ELSE Drop("bars")

(* _default_scan_setup asks for the regime first; whatever that raises is  *)
(* caught by build_state and fails the setup gate.                         *)
ReadRegime(answer) ==
  /\ at = "regime"
  /\ Goto("walk") /\ prefilter' = answer /\ UNCHANGED <<def, leg, heard, kept, last>>

SetupRaises == at \in {"regime", "audit", "leg"} /\ Drop("setup")

(* Nothing armed: the last stage that failed names the killer, the setup   *)
(* gate itself when no stage was written.                                  *)
Prefilter ==
  /\ at = "walk"
  /\ IF def > Len(STRATEGIES)
     THEN Drop(IF last = "none" THEN "setup" ELSE last)
     ELSE IF S.families \intersect prefilter = {}
     THEN /\ Goto("walk") /\ def' = def + 1 /\ last' = "regime_prefilter"
          /\ UNCHANGED <<leg, prefilter, heard, kept>>
     ELSE /\ Goto("leg") /\ leg' = 1 /\ heard' = Unheard /\ kept' = << >>
          /\ UNCHANGED <<def, prefilter, last>>

NextDef(stage) ==
  /\ Goto("walk") /\ def' = def + 1 /\ last' = stage
  /\ UNCHANGED <<leg, prefilter, heard, kept>>

(* A leg whose bars cannot be had, are too few or pass not every filter.   *)
LegFails == at = "leg" /\ NextDef("confluence")

(* A leg matched, and the regime it needs cannot be had: the ProviderError *)
(* leaves scan_confluence and the walk goes on to the next def, with no    *)
(* stage to tell.                                                          *)
RegimeFails == at = "leg" /\ heard = Unheard /\ NextDef(last)

PruneNothing(families, recommended) == DOMAIN families

Prune(families, recommended) == {n \in DOMAIN families : families[n] \in recommended}

(* The regime is read once per call of scan_confluence; min_tags is looked *)
(* at after pruning.  No leg of the registry has min_tags = 0, so a leg    *)
(* that passes has a tag and the empty-tag guard never bites.              *)
LegMatches(answer) ==
  LET recommended == IF heard = Unheard THEN answer ELSE heard
      tags == Prune(S.legs[leg].families, recommended) IN
    /\ at = "leg" /\ (heard = Unheard \/ answer = heard)
    /\ IF Cardinality(tags) < S.legs[leg].min
       THEN NextDef("confluence")
       ELSE /\ heard' = recommended /\ kept' = Append(kept, tags)
            /\ IF leg < Len(S.legs)
               THEN Goto("leg") /\ leg' = leg + 1
               ELSE Goto("sizing") /\ UNCHANGED leg
            /\ UNCHANGED <<def, prefilter, last>>

(* An audited scan runs the first strategy alone, through scan_markets:    *)
(* no prefilter and no min_tags, and a match whose tags the regime took    *)
(* away is no setup.                                                       *)
Audit(passes, answer) ==
  LET tags == Prune(STRATEGIES[1].legs[1].families, answer) IN
    /\ at = "audit"
    /\ IF ~passes THEN Drop("filter")
       ELSE IF tags = {} THEN Drop("regime_gate")
       ELSE /\ Goto("sizing") /\ prefilter' = answer /\ heard' = answer /\ kept' = <<tags>>
            /\ UNCHANGED <<def, leg, last>>

-----------------------------------------------------------------------------
(* mae.size_position: the ATR size, clipped to the cap, then scaled.       *)
Sized(money, vol, halves) ==
  LET lots == IF money \div vol > MaxPosition THEN MaxPosition ELSE money \div vol IN
    IF halves THEN lots \div 2 ELSE lots

(* What build_state puts in the ticket, from the equity of the command.    *)
PreviewScaledAgain(money, vol, halves) ==
  IF halves THEN Sized(money, vol, halves) \div 2 ELSE Sized(money, vol, halves)

Preview(money, vol, halves) == Sized(money, vol, halves)

(* The thesis of a ticket is not in the ledger yet, so that R-010 and      *)
(* R-012 fail for want of it: those two, and no other, are left to the     *)
(* verdict that binds.                                                     *)
Allowed(failing) == failing \subseteq {"R-010", "R-012"}

Ticket(qty, vol) ==
  [symbol |-> symbol, def |-> def, qty |-> qty, vol |-> vol,
   prefilter |-> prefilter, heard |-> heard, legs |-> kept]

Size(vol, failing) ==
  /\ at = "sizing"
  /\ LET qty == Preview(equity, vol, S.halves) IN
       IF qty = 0 THEN Drop("sizing")
       ELSE IF ~Allowed(failing) THEN Drop("policy_verdict")
       ELSE /\ tickets' = Append(tickets, Ticket(qty, vol))
            /\ Report("buy", "none")

SizingRaises == at = "sizing" /\ Drop("sizing")

-----------------------------------------------------------------------------
(* How many symbols a stage dropped, and the stage that dropped most, the  *)
(* first of them on a tie.                                                 *)
Kills(stage) == Cardinality({k \in DOMAIN report : report[k].killed_by = stage})

KillerFilter ==
  LET dropped == {k \in DOMAIN report : report[k].killed_by # "none"}
      most == {k \in dropped : \A j \in dropped : Kills(report[j].killed_by) <= Kills(report[k].killed_by)} IN
    IF dropped = {} THEN "none" ELSE report[Min(most)].killed_by

(* hud_scan: the log of the scan is best effort; a page that cannot be     *)
(* written ends the command before the note is appended.                   *)
Write(wrote) ==
  /\ symbol > Universe /\ log = Unwritten
  /\ log' = IF wrote THEN [note |-> "recorded", tickets |-> Len(tickets), killer |-> KillerFilter]
            ELSE [Unwritten EXCEPT !.note = "exit 4"]
  /\ UNCHANGED <<scan, at, symbol, walk, tickets, report, sized>>

(* build_submit_payloads, when a ticket is taken: the dial's equity, the   *)
(* ticket's limit price, and the scale of the strategy its tag names.      *)
Submit(vol) ==
  /\ log # Unwritten /\ Len(sized) < Len(tickets)
  /\ LET t == tickets[Len(sized) + 1] IN
       sized' = Append(sized, [vol |-> vol, lots |-> Sized(DialEquity, vol, STRATEGIES[t.def].halves)])
  /\ UNCHANGED <<scan, at, symbol, walk, tickets, report, log>>

(* What the rules say of the preview: nothing, what they cannot know yet,  *)
(* or that and a real denial.                                              *)
Failings == {{}, {"R-010", "R-012"}, {"R-001", "R-012"}}

Next ==
  \/ Hold
  \/ \E ok \in BOOLEAN : FetchBars(ok)
  \/ \E answer \in Recommends : ReadRegime(answer)
  \/ SetupRaises
  \/ Prefilter
  \/ LegFails
  \/ RegimeFails
  \/ \E answer \in Recommends : LegMatches(answer)
  \/ \E passes \in BOOLEAN, answer \in Recommends : Audit(passes, answer)
  \/ \E vol \in Vols, failing \in Failings : Size(vol, failing)
  \/ SizingRaises
  \/ \E wrote \in BOOLEAN : Write(wrote)
  \/ \E vol \in Vols : Submit(vol)

Spec == Init /\ [][Next]_vars

-----------------------------------------------------------------------------
Gates == {"position", "regime", "walk", "leg", "audit", "sizing"}

Stages == {"none", "bars", "setup", "regime_prefilter", "confluence", "filter", "regime_gate",
           "sizing", "policy_verdict"}

TypeOK ==
  /\ equity \in Equities /\ audit \in BOOLEAN /\ positions \subseteq 1 .. Universe
  /\ at \in Gates /\ symbol \in 1 .. Universe + 1
  /\ def \in 1 .. Len(STRATEGIES) + 1 /\ leg \in 1 .. 2
  /\ {prefilter, heard} \subseteq Recommends \union {Unheard} /\ last \in Stages
  /\ kept \in Seq(SUBSET (1 .. 2))
  /\ report \in Seq([symbol : 1 .. Universe, grade : {"hold", "wait", "buy"}, killed_by : Stages])
  /\ tickets \in Seq([symbol : 1 .. Universe, def : 1 .. Len(STRATEGIES), qty : 0 .. MaxPosition, vol : Vols,
                      prefilter : Recommends, heard : Recommends, legs : Seq(SUBSET (1 .. 2))])
  /\ sized \in Seq([vol : Vols, lots : 0 .. MaxPosition]) /\ Len(sized) <= Len(tickets)
  /\ log \in [note : {"none", "recorded", "exit 4"}, tickets : 0 .. Universe, killer : Stages]

(* R-012 on the order of a ticket.                                         *)
Denied(qty, recorded) ==
  LET off == IF qty > recorded THEN qty - recorded ELSE recorded - qty IN
    recorded = 0 \/ off * 100 > Tolerance * recorded

(* Enough of the tags of a leg are of the families a regime recommended.   *)
LegEarned(l, tags, recommended) ==
  Cardinality(tags) >= l.min /\ \A tag \in tags : l.families[tag] \in recommended

(* A ticket is of a strategy one of whose families the regime recommended  *)
(* when it was first asked, and each of its legs has enough tags of the    *)
(* families the regime recommended when it was asked again, so that a      *)
(* regime that recommends nothing, or turned between the two, arms none;   *)
(* its symbol had no position when the scan began; and every symbol has    *)
(* exactly one line in the report, one that names a killer unless the      *)
(* symbol is held or has a ticket; and the note counts the tickets and     *)
(* names a killer exactly when a symbol was dropped.                       *)
TicketsEarned ==
  /\ \A k \in DOMAIN tickets :
       LET t == tickets[k]
           D == STRATEGIES[t.def] IN
         /\ D.families \intersect t.prefilter # {} /\ Len(t.legs) = Len(D.legs)
         /\ \A n \in DOMAIN t.legs : LegEarned(D.legs[n], t.legs[n], t.heard)
         /\ t.symbol \notin positions /\ report[t.symbol].grade = "buy"
  /\ \A s \in DOMAIN report :
       /\ report[s].symbol = s
       /\ (report[s].grade = "wait") = (report[s].killed_by # "none")
       /\ (report[s].grade = "buy") = (\E k \in DOMAIN tickets : tickets[k].symbol = s)
  /\ Len(report) = symbol - 1
  /\ log.note = "recorded" =>
       /\ log.tickets = Len(tickets)
       /\ (log.killer = "none") = (\A s \in DOMAIN report : report[s].grade # "wait")

(* The size a scan shows is the size R-012 will measure the order against: *)
(* when the scan was run with the equity of the dial and no daily bar has  *)
(* closed in between, taking the ticket is never denied for its size; and  *)
(* no ticket is above the cap whatever equity the command was given.       *)
PreviewMatchesBinding ==
  \A k \in DOMAIN tickets :
    /\ tickets[k].qty <= MaxPosition
    /\ k <= Len(sized) /\ equity = DialEquity /\ sized[k].vol = tickets[k].vol =>
         ~Denied(tickets[k].qty, sized[k].lots)

-----------------------------------------------------------------------------
(* The inductive invariant.  Past its bars a symbol is of the universe and *)
(* not held, and what the walk has of a strategy under evaluation was      *)
(* earned so far.                                                          *)
Walking ==
  /\ at # "position" => symbol \in 1 .. Universe \ positions
  /\ at \in {"position", "regime", "audit"} => def = 1
  /\ at \in {"walk", "leg", "sizing"} => prefilter \in Recommends
  /\ at \in {"leg", "sizing"} =>
       /\ def <= Len(STRATEGIES) /\ S.families \intersect prefilter # {}
       /\ Len(kept) = (IF at = "leg" THEN leg - 1 ELSE Len(S.legs)) /\ (at = "leg" => leg <= Len(S.legs))
       /\ kept # << >> => heard \in Recommends
       /\ \A n \in DOMAIN kept : LegEarned(S.legs[n], kept[n], heard)

(* A ticket is of a symbol reported, and the note is of the whole scan.    *)
Counted ==
  /\ Len(tickets) <= Len(report) /\ \A k \in DOMAIN tickets : tickets[k].symbol \in DOMAIN report
  /\ log # Unwritten => symbol > Universe

(* A ticket shows what the sizing makes of the scan's equity, and its      *)
(* thesis is given what it makes of the dial's.                            *)
Sizes ==
  /\ \A k \in DOMAIN tickets :
       /\ tickets[k].qty = Preview(equity, tickets[k].vol, STRATEGIES[tickets[k].def].halves)
       /\ tickets[k].qty # 0
  /\ \A k \in DOMAIN sized :
       sized[k].lots = Sized(DialEquity, sized[k].vol, STRATEGIES[tickets[k].def].halves)

FunnelInv == TypeOK /\ Walking /\ Counted /\ Sizes /\ TicketsEarned
=============================================================================
