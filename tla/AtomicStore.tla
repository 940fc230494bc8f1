----------------------------- MODULE AtomicStore -----------------------------
(***************************************************************************)
(* What internal/db promises the handlers: every method takes effect at    *)
(* once and completely or not at all, in the order the handler calls them, *)
(* whatever the other goroutines do, and whenever the process dies.        *)
(***************************************************************************)
EXTENDS Sequences

CONSTANTS
  Goroutines,     \* goroutines that call the database
  Handlers,       \* the sequences of methods they call
  Statements(_)   \* method -> the writes it makes, in order

VARIABLES
  calls,  \* goroutine -> methods its handler has ahead of it
  disk    \* goroutine -> writes of its current or last request in the file

vars == <<calls, disk>>

Init ==
  /\ calls = [g \in Goroutines |-> <<>>]
  /\ disk = [g \in Goroutines |-> <<>>]

Arrive(g) ==
  /\ calls[g] = <<>>
  /\ \E h \in Handlers : calls' = [calls EXCEPT ![g] = h]
  /\ disk' = [disk EXCEPT ![g] = <<>>]

Apply(g) ==
  /\ calls[g] # <<>>
  /\ calls' = [calls EXCEPT ![g] = Tail(@)]
  /\ disk' = [disk EXCEPT ![g] = @ \o Statements(Head(calls[g]))]

(* An error, which the handler ignores or answers; or an answer that needs *)
(* no more of the database.                                                *)
GiveUp(g) ==
  /\ calls[g] # <<>>
  /\ \/ calls' = [calls EXCEPT ![g] = Tail(@)]
     \/ calls' = [calls EXCEPT ![g] = <<>>]
  /\ UNCHANGED disk

Crash ==
  /\ calls' = [g \in Goroutines |-> <<>>]
  /\ UNCHANGED disk

Next == Crash \/ \E g \in Goroutines : Arrive(g) \/ Apply(g) \/ GiveUp(g)

Spec == Init /\ [][Next]_vars
=============================================================================
