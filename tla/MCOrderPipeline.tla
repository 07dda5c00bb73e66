-------------------------- MODULE MCOrderPipeline --------------------------
(* TLC instance of OrderPipeline. *)
EXTENDS OrderPipeline

CONSTANT RacedOrders  \* bound: orders placed or under way once calls overlap

(* Order ids are interchangeable: they are taken in turn.  Calls that come  *)
(* one after the other may use every order and die; calls that overlap do   *)
(* not die and share RacedOrders orders.  Only the beginning of a call and  *)
(* a death are bounded, never a step inside a call.                         *)
Bounded == /\ Placed' = 1 .. Cardinality(Placed')
           /\ overlap' => /\ crashes' = 0
                          /\ Cardinality(Placed') + Cardinality(Ordering') <= RacedOrders

MCNext == Next /\ Bounded

MCSpec == Init /\ [][MCNext]_vars /\ \A p \in Procs : WF_vars(Run(p))
=============================================================================
