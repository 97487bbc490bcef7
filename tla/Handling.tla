------------------------------ MODULE Handling ------------------------------
(* What the components below share: handlers, each busy with one request or    *)
(* worker poll at a time, a clock that counts hours, and the bound on requests. *)
EXTENDS Integers, FiniteSets

CONSTANTS Handlers,    \* processes of the API and the worker
          MaxServed,   \* bound: requests and polls begun
          LastHour     \* bound: hours of the model

ASSUME HandlingAssumption == MaxServed \in Nat /\ LastHour \in Nat

VARIABLES now,      \* the clock every process reads
          served    \* requests and polls begun

Starts == served < MaxServed /\ served' = served + 1
HandlingInit == now = 0 /\ served = 0
HandlingTypeOK == now \in 0..LastHour /\ served \in 0..MaxServed
=============================================================================
