-------------------------------- MODULE Perps --------------------------------
(***************************************************************************)
(* The Hyperliquid collector (scripts/collect_perps_hyperliquid.py): the   *)
(* REST task ranks the universe of coins and bumps its generation; the     *)
(* socket task, whose SubscriptionTracker remembers what this connection   *)
(* subscribed, sends the difference.  The two tasks share UniverseState    *)
(* and take turns at every await, so the universe can change between two   *)
(* sends of one apply().                                                   *)
(***************************************************************************)
EXTENDS Naturals, FiniteSets

CONSTANTS
  Coins,          \* the venue's coins
  UniverseSize,   \* --universe-size
  MaxGenerations, \* bound: universes ranked
  MaxDrops        \* bound: connections lost

Universes == {u \in SUBSET Coins : Cardinality(u) = UniverseSize}

Kinds == {"trades", "activeAssetCtx"}

VARIABLES
  coins, generation,     \* UniverseState
  link,                  \* the socket is open
  subscribed, applied,   \* SubscriptionTracker: subscribed, applied_generation + 1
  phase,                 \* of apply(): "idle", "unsub" or "sub"
  target,                \* apply()'s target
  half,                  \* {} or the coin of which only "trades" was sent
  venue,                 \* [Coins -> SUBSET Kinds], what the venue sends us
  drops,
  raced                  \* the universe changed inside the last apply()

tracker == <<subscribed, applied>>
call == <<phase, target, half>>
vars == <<coins, generation, link, subscribed, applied, phase, target, half, venue, drops, raced>>

TypeOK ==
  /\ coins \in Universes \union {{}} /\ generation \in 0 .. MaxGenerations
  /\ link \in BOOLEAN /\ raced \in BOOLEAN
  /\ subscribed \subseteq Coins /\ applied \in 0 .. MaxGenerations + 1
  /\ phase \in {"idle", "unsub", "sub"} /\ target \subseteq Coins
  /\ half \subseteq Coins /\ Cardinality(half) <= 1
  /\ venue \in [Coins -> SUBSET Kinds]
  /\ drops \in 0 .. MaxDrops

Unheard == [c \in Coins |-> {}]

Init == /\ coins = {} /\ generation = 0
        /\ link = FALSE /\ subscribed = {} /\ applied = 0
        /\ phase = "idle" /\ target = {} /\ half = {}
        /\ venue = Unheard /\ drops = 0 /\ raced = FALSE

-----------------------------------------------------------------------------
(* rest_poll_task: the first poll and then one an hour ranks the universe; *)
(* another order of the same coins is another generation too.              *)
Refresh ==
  /\ generation < MaxGenerations
  /\ coins' \in Universes
  /\ generation' = generation + 1
  /\ raced' = (raced \/ phase # "idle")
  /\ UNCHANGED <<link, tracker, call, venue, drops>>

(* apply() is awaited on every connect, after every frame and after every  *)
(* quiet wait; it returns at once when the generation was applied.         *)
Start == /\ phase' = "unsub" /\ target' = coins
         /\ half' = {} /\ raced' = FALSE

ConnectSameTracker ==
  /\ ~link /\ coins # {}
  /\ link' = TRUE
  /\ Start
  /\ UNCHANGED <<coins, generation, tracker, venue, drops>>

Connect ==
  /\ ~link /\ coins # {}
  /\ link' = TRUE
  /\ subscribed' = {} /\ applied' = 0
  /\ Start
  /\ UNCHANGED <<coins, generation, venue, drops>>

Apply ==
  /\ link /\ phase = "idle" /\ applied # generation + 1
  /\ Start
  /\ UNCHANGED <<coins, generation, link, tracker, venue, drops>>

(* The coins that are left to send, in whatever order the set is walked.   *)
Pending == IF phase = "unsub" THEN subscribed \ target ELSE target \ subscribed

(* One await ws.send: trades first, then activeAssetCtx, and only then is  *)
(* the coin taken off or put on the tracker.                               *)
Send(c) ==
  /\ link /\ phase # "idle"
  /\ c \in Pending /\ half \in {{}, {c}}
  /\ LET kind == IF half = {} THEN "trades" ELSE "activeAssetCtx" IN
       /\ venue' = [venue EXCEPT ![c] = IF phase = "unsub" THEN @ \ {kind} ELSE @ \union {kind}]
       /\ IF kind = "trades"
          THEN half' = {c} /\ UNCHANGED subscribed
          ELSE /\ half' = {}
               /\ subscribed' = IF phase = "unsub" THEN subscribed \ {c} ELSE subscribed \union {c}
  /\ UNCHANGED <<coins, generation, link, applied, phase, target, drops, raced>>

Unsubscribed ==
  /\ link /\ phase = "unsub" /\ Pending = {}
  /\ phase' = "sub"
  /\ UNCHANGED <<coins, generation, link, tracker, target, half, venue, drops, raced>>

(* The generation that is marked applied is the one of this moment, not    *)
(* the one the target was taken from.                                      *)
Subscribed ==
  /\ link /\ phase = "sub" /\ Pending = {}
  /\ phase' = "idle"
  /\ applied' = generation + 1
  /\ UNCHANGED <<coins, generation, link, subscribed, target, half, venue, drops, raced>>

(* A send or a recv raises, or the venue rejects a subscription: the       *)
(* connection and its tracker are gone; a new one follows the backoff.     *)
Drop ==
  /\ link /\ drops < MaxDrops
  /\ link' = FALSE /\ drops' = drops + 1
  /\ venue' = Unheard
  /\ phase' = "idle" /\ half' = {}
  /\ UNCHANGED <<coins, generation, tracker, target, raced>>

Socket == Connect \/ Apply \/ (\E c \in Coins : Send(c)) \/ Unsubscribed \/ Subscribed

Next == Refresh \/ Socket \/ Drop

Spec == Init /\ [][Next]_vars

-----------------------------------------------------------------------------
(* However the coins change and the connection is lost, once the tracker   *)
(* says that the universe is applied the venue sends both streams of each  *)
(* coin of the universe and of no other, unless the universe changed       *)
(* inside the last apply().                                                *)
Followed == venue = [c \in Coins |-> IF c \in coins THEN Kinds ELSE {}]

UniverseFollowed == link /\ phase = "idle" /\ applied = generation + 1 => raced \/ Followed
-----------------------------------------------------------------------------
(* Why: what the venue sends is what the tracker says, but for the coin    *)
(* half sent; after the walks over what was to go and to come the tracker  *)
(* is the target; and the target is the universe until one changes inside  *)
(* the call.                                                               *)
HalfSent == IF phase = "unsub" THEN {"activeAssetCtx"} ELSE {"trades"}

Tracked ==
  /\ phase = "idle" => half = {}
  /\ ~link => phase = "idle"
  /\ half \subseteq Pending
  /\ link => \A c \in Coins : venue[c] = IF c \in half THEN HalfSent
                                         ELSE IF c \in subscribed THEN Kinds ELSE {}
  /\ ~link => venue = Unheard
  /\ phase = "sub" => subscribed \subseteq target

Aimed ==
  /\ link => applied <= generation + 1
  /\ phase # "idle" /\ ~raced => target = coins
  /\ link /\ phase = "idle" /\ applied = generation + 1 /\ ~raced => subscribed = coins

IInv == TypeOK /\ Tracked /\ Aimed
=============================================================================
