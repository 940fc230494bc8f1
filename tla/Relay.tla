-------------------------------- MODULE Relay --------------------------------
(***************************************************************************)
(* What a proxied WebSocket promises its two peers: the messages of one    *)
(* reach the other once each and in order, up to the point where the       *)
(* connection ends; and a peer is told of the end by at most one close     *)
(* frame, whose code comes from something a peer did.                      *)
(***************************************************************************)
EXTENDS Naturals, Sequences

CONSTANTS
  Peers,          \* the device and the Gateway
  Other(_),       \* the one at the other end
  Endings,        \* the ways a peer can end the connection
  MayTell(_, _)   \* how two peers ended -> codes the first may be told

VARIABLES
  sent,    \* peer -> messages it has sent, which are numbered from 1
  ended,   \* peer -> "no", or how it has ended the connection
  passed,  \* peer -> numbers of its messages written to the other peer
  told,    \* peer -> code of the close frame written to it, or "none"
  open     \* whether the connection is being relayed

vars == <<sent, ended, passed, told, open>>

Init ==
  /\ sent = [p \in Peers |-> 0]
  /\ ended = [p \in Peers |-> "no"]
  /\ passed = [p \in Peers |-> <<>>]
  /\ told = [p \in Peers |-> "none"]
  /\ open = FALSE

Send(p) ==
  /\ open
  /\ ended[p] = "no"
  /\ sent' = [sent EXCEPT ![p] = @ + 1]
  /\ UNCHANGED <<ended, passed, told, open>>

End(p, how) ==
  /\ ended[p] = "no"
  /\ ended' = [ended EXCEPT ![p] = how]
  /\ UNCHANGED <<sent, passed, told, open>>

Pass(p) ==
  /\ open
  /\ Len(passed[p]) < sent[p]
  /\ told[Other(p)] = "none"
  /\ passed' = [passed EXCEPT ![p] = Append(@, Len(@) + 1)]
  /\ UNCHANGED <<sent, ended, told, open>>

Tell(p, code) ==
  /\ open
  /\ told[p] = "none"
  /\ code \in MayTell(ended[p], ended[Other(p)])
  /\ told' = [told EXCEPT ![p] = code]
  /\ UNCHANGED <<sent, ended, passed, open>>

Shut ==
  /\ open' = FALSE
  /\ UNCHANGED <<sent, ended, passed, told>>

(* The next connection, of which nothing passes before it is accepted.     *)
Connect ==
  /\ ~open
  /\ sent' = [p \in Peers |-> 0]
  /\ ended' = [p \in Peers |-> "no"]
  /\ passed' = [p \in Peers |-> <<>>]
  /\ told' = [p \in Peers |-> "none"]
  /\ open' \in BOOLEAN

Next ==
  \/ \E p \in Peers : Send(p) \/ Pass(p)
  \/ \E p \in Peers : \E how \in Endings : End(p, how)
  \/ \E p \in Peers : \E code \in MayTell(ended[p], ended[Other(p)]) :
       Tell(p, code)
  \/ Shut \/ Connect

Spec == Init /\ [][Next]_vars
=============================================================================
