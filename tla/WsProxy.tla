------------------------------- MODULE WsProxy -------------------------------
(***************************************************************************)
(* internal/proxy, from the router of main to the end of a proxied         *)
(* connection: HandleHTTP, and HandleWebSocket with its two copy           *)
(* goroutines.  One request is followed at a time; pump[p] is the          *)
(* goroutine that reads from peer p and writes to the other one.  The      *)
(* checks of authenticateDevice against the tables are in module Sessions; *)
(* here they refuse or let pass.                                           *)
(* gorilla/websocket is external.  Its Conn answers a close frame with a   *)
(* close frame before ReadMessage returns a *CloseError, makes the end of  *)
(* the stream a *CloseError of code 1006 ("abnormal"), answers a message   *)
(* above the read limit with code 1009 ("tooBig") and returns another      *)
(* error, and writes nothing after its first close frame.  The broker sets *)
(* no read or write deadline on either leg, except for control frames.     *)
(***************************************************************************)
EXTENDS Naturals, Sequences

CONSTANTS
  TailnetEnabled,  \* Config.TailnetEnabled
  MaxClient,       \* bound: messages the client sends on one connection
  MaxGateway,      \* bound: messages the Gateway sends on one connection
  Capacity         \* frames a leg holds before WriteMessage blocks

ASSUME WsProxyAssumption ==
  /\ TailnetEnabled \in BOOLEAN
  /\ MaxClient \in Nat /\ MaxGateway \in Nat
  /\ Capacity \in Nat \ {0}

VARIABLES
  request, \* what the request is, as the router and HandleHTTP see it
  phase,   \* where the handler is
  sent,    \* peer -> messages it has sent, numbered from 1
  ended,   \* peer -> "no", or how it has ended the connection
  inbox,   \* peer -> frames on the way from it to the proxy
  live,    \* peer -> whether the proxy has its leg open
  told,    \* peer -> code of the close frame written to it, or "none"
  wire,    \* peer -> frames on the way from the proxy to it
  passed,  \* peer -> numbers of its messages written to the other peer
  pump,    \* peer -> where the goroutine reading it is, or how it returned
  hand,    \* peer -> what that goroutine has in hand
  done     \* the channel both goroutines close

legVars  == <<live, told, wire>>
peerVars == <<sent, ended, inbox>>
pumpVars == <<pump, hand, passed>>
vars == <<request, phase, peerVars, legVars, pumpVars, done>>

-----------------------------------------------------------------------------
Peers    == {"client", "gateway"}
Other(p) == IF p = "client" THEN "gateway" ELSE "client"

(* "read" is a GET or HEAD outside httpProxyDeniedPathPrefixes.            *)
Requests == {"none", "upgrade", "read", "otherHTTP"}

(* Close frames a peer sends of its own accord: 1001, and one without a    *)
(* status (1005), which FormatCloseMessage turns into an empty one again.  *)
Codes   == {"goingAway", "noStatus"}
Told    == Codes \cup {"abnormal", "tooBig", "protocolError"}
Endings == Told \cup {"eof", "reset", "big"}

(* A frame: a message with its number, an oversize message, a close frame, *)
(* a pong, or the end of the stream by FIN ("eof") or by RST ("reset").    *)
Message(n)      == [kind |-> "message", n |-> n, code |-> "none"]
Sign(kind)      == [kind |-> kind, n |-> 0, code |-> "none"]
CloseFrame(code) == [kind |-> "close", n |-> 0, code |-> code]

Kinds  == {"none", "message", "close", "pong", "eof", "reset", "big"}
Frames == [kind : Kinds, n : Nat, code : {"none"} \cup Told]

Running  == {"read", "write", "forward"}
Returned == {"closed", "readError", "writeError"}
Phases   == {"idle", "authenticate", "auditStarted", "upgrade", "dial", "relay",
             "auditCompleted", "closeGateway", "closeClient", "serveHTTP",
             "returned", "killed"}

TypeOK ==
  /\ request \in Requests
  /\ phase \in Phases
  /\ sent \in [Peers -> Nat]
  /\ ended \in [Peers -> {"no"} \cup Endings]
  /\ inbox \in [Peers -> Seq(Frames)]
  /\ live \in [Peers -> BOOLEAN]
  /\ told \in [Peers -> {"none"} \cup Told]
  /\ wire \in [Peers -> Seq(Frames)]
  /\ passed \in [Peers -> Seq(Nat)]
  /\ pump \in [Peers -> {"off"} \cup Running \cup Returned]
  /\ hand \in [Peers -> Frames]
  /\ done \in {"open", "closed"}

(* The state a connection starts with.                                     *)
Fresh ==
  /\ sent = [p \in Peers |-> 0]
  /\ ended = [p \in Peers |-> "no"]
  /\ inbox = [p \in Peers |-> <<>>]
  /\ live = [p \in Peers |-> FALSE]
  /\ told = [p \in Peers |-> "none"]
  /\ wire = [p \in Peers |-> <<>>]
  /\ passed = [p \in Peers |-> <<>>]
  /\ pump = [p \in Peers |-> "off"]
  /\ hand = [p \in Peers |-> Sign("none")]
  /\ done = "open"

Init ==
  /\ phase = "idle"
  /\ request = "none"
  /\ Fresh

-----------------------------------------------------------------------------
(* The peers.  A peer sends, closes, or drops the connection; a reset may  *)
(* also take what the proxy had not read yet.                              *)
PeerSend(p) ==
  /\ live[p] /\ ended[p] = "no"
  /\ sent[p] < IF p = "client" THEN MaxClient ELSE MaxGateway
  /\ sent' = [sent EXCEPT ![p] = @ + 1]
  /\ inbox' = [inbox EXCEPT ![p] = Append(@, Message(sent[p] + 1))]
  /\ UNCHANGED <<phase, ended, legVars, pumpVars, done, request>>

PeerEnds(p) ==
  /\ live[p] /\ ended[p] = "no"
  /\ \/ \E code \in Codes :
          /\ ended' = [ended EXCEPT ![p] = code]
          /\ inbox' = [inbox EXCEPT ![p] = Append(@, CloseFrame(code))]
     \/ \E how \in {"eof", "big"} :
          /\ ended' = [ended EXCEPT ![p] = how]
          /\ inbox' = [inbox EXCEPT ![p] = Append(@, Sign(how))]
     \/ /\ ended' = [ended EXCEPT ![p] = "reset"]
        /\ \E kept \in {<<>>, inbox[p]} :
             inbox' = [inbox EXCEPT ![p] = Append(kept, Sign("reset"))]
  /\ UNCHANGED <<phase, sent, legVars, pumpVars, done, request>>

Gone(p) == ended[p] \in {"eof", "reset"}

(* A peer reads what it was sent, and answers a close frame with one; 1006 *)
(* is not a code a frame may carry.                                        *)
Answer(code) == IF code = "abnormal" THEN "protocolError" ELSE code

PeerReads(p) ==
  /\ live[p] /\ ~Gone(p)
  /\ wire[p] # <<>>
  /\ wire' = [wire EXCEPT ![p] = Tail(@)]
  /\ LET frame == Head(wire[p])
     IN  IF frame.kind = "close" /\ ended[p] = "no"
           THEN /\ ended' = [ended EXCEPT ![p] = Answer(frame.code)]
                /\ inbox' = [inbox EXCEPT ![p] =
                               Append(@, CloseFrame(Answer(frame.code)))]
           ELSE UNCHANGED <<ended, inbox>>
  /\ UNCHANGED <<phase, sent, live, told, pumpVars, done, request>>

-----------------------------------------------------------------------------
(* Conn.WriteControl of a close frame, with a deadline of a second: it     *)
(* goes out, or fails because the leg is closed, because a close frame was *)
(* written before, or because the leg stays full.  The last may leave the  *)
(* Conn with a write error for good (Broken: the frame that the goroutine  *)
(* reading this leg had to write is not written).                          *)
CanWrite(p) == live[p] /\ told[p] = "none"
Full(p)     == Len(wire[p]) >= Capacity
Broken(p)   == /\ pump[p] \in {"forward", "closed", "readError"}
               /\ told[p] = "none"

WriteClose(p, code) ==
  \/ /\ CanWrite(p) /\ ~Full(p)
     /\ wire' = [wire EXCEPT ![p] = Append(@, CloseFrame(code))]
     /\ told' = [told EXCEPT ![p] = code]
  \/ /\ ~CanWrite(p) \/ Full(p) \/ Broken(p)
     /\ UNCHANGED <<wire, told>>

(* Mutant: without sync.Once.                                              *)
closeDone_Twice == done' = IF done = "open" THEN "closed" ELSE "panic"

closeDone == done' = IF done = "open" THEN "closed" ELSE done

(* Mutant: only one of the goroutines defers closeDone.                    *)
Return_ClientOnly(p, why) ==
  /\ pump' = [pump EXCEPT ![p] = why]
  /\ IF p = "client" THEN closeDone ELSE UNCHANGED done

(* The deferred closeDone of a goroutine that returns.                     *)
Return(p, why) == pump' = [pump EXCEPT ![p] = why] /\ closeDone

(* ReadMessage returns a message.  What the Conn has buffered it returns   *)
(* even after Close.                                                       *)
ReadMessage(p) ==
  /\ pump[p] = "read"
  /\ inbox[p] # <<>> /\ Head(inbox[p]).kind = "message"
  /\ hand' = [hand EXCEPT ![p] = Head(inbox[p])]
  /\ inbox' = [inbox EXCEPT ![p] = Tail(@)]
  /\ pump' = [pump EXCEPT ![p] = "write"]
  /\ UNCHANGED <<phase, sent, ended, legVars, passed, done, request>>

(* ReadMessage answers a close frame and returns a *CloseError.            *)
ReadClose(p) ==
  /\ pump[p] = "read"
  /\ inbox[p] # <<>> /\ Head(inbox[p]).kind = "close"
  /\ WriteClose(p, Head(inbox[p]).code)
  /\ hand' = [hand EXCEPT ![p] = Head(inbox[p])]
  /\ inbox' = [inbox EXCEPT ![p] = Tail(@)]
  /\ pump' = [pump EXCEPT ![p] = "forward"]
  /\ UNCHANGED <<phase, sent, ended, live, passed, done, request>>

(* So it does at the end of the stream, without an answer.                 *)
ReadEOF(p) ==
  /\ pump[p] = "read"
  /\ inbox[p] # <<>> /\ Head(inbox[p]).kind = "eof"
  /\ hand' = [hand EXCEPT ![p] = CloseFrame("abnormal")]
  /\ inbox' = [inbox EXCEPT ![p] = Tail(@)]
  /\ pump' = [pump EXCEPT ![p] = "forward"]
  /\ UNCHANGED <<phase, sent, ended, legVars, passed, done, request>>

(* Mutant: a reset is given a close code too.                              *)
ReadError_Synthesized(p) ==
  /\ pump[p] = "read"
  /\ inbox[p] # <<>> /\ Head(inbox[p]).kind = "reset"
  /\ hand' = [hand EXCEPT ![p] = CloseFrame("abnormal")]
  /\ pump' = [pump EXCEPT ![p] = "forward"]
  /\ UNCHANGED <<phase, peerVars, legVars, passed, done, request>>

(* Any other error is not forwarded: a reset, a message above the limit,   *)
(* a leg this handler has closed.                                          *)
ReadError(p) ==
  /\ pump[p] = "read"
  /\ \/ ~live[p] /\ UNCHANGED <<wire, told>>
     \/ /\ inbox[p] # <<>> /\ Head(inbox[p]).kind = "reset"
        /\ UNCHANGED <<wire, told>>
     \/ /\ inbox[p] # <<>> /\ Head(inbox[p]).kind = "big"
        /\ WriteClose(p, "tooBig")
  /\ Return(p, "readError")
  /\ UNCHANGED <<phase, peerVars, live, passed, hand, request>>

(* The ping handlers, on a ping ahead of what is in the inbox: a pong goes *)
(* out, or its error (a close frame was written before, or the leg stays   *)
(* full for a second) becomes the error of ReadMessage.                    *)
ReadPing(p) ==
  /\ pump[p] = "read" /\ live[p]
  /\ IF CanWrite(p) /\ ~Full(p)
       THEN /\ wire' = [wire EXCEPT ![p] = Append(@, Sign("pong"))]
            /\ UNCHANGED <<pump, done>>
       ELSE Return(p, "readError") /\ UNCHANGED wire
  /\ UNCHANGED <<phase, peerVars, live, told, passed, hand, request>>

(* WriteMessage to the other peer.                                         *)
WriteMessage(p) ==
  /\ pump[p] = "write"
  /\ CanWrite(Other(p)) /\ (~Full(Other(p)) \/ Gone(Other(p)))
  /\ wire' = [wire EXCEPT ![Other(p)] =
                IF Full(Other(p)) THEN @
                                  ELSE Append(@, hand[p])]
  /\ passed' = [passed EXCEPT ![p] = Append(@, hand[p].n)]
  /\ hand' = [hand EXCEPT ![p] = Sign("none")]
  /\ pump' = [pump EXCEPT ![p] = "read"]
  /\ UNCHANGED <<phase, peerVars, live, told, done, request>>

(* It fails when the leg was closed, when a close frame was written to it, *)
(* when an earlier write failed, or when the peer is gone; no close frame  *)
(* is sent for that.                                                       *)
WriteError(p) ==
  /\ pump[p] = "write"
  /\ ~CanWrite(Other(p)) \/ Broken(Other(p)) \/ Gone(Other(p))
  /\ Return(p, "writeError")
  /\ UNCHANGED <<phase, peerVars, legVars, passed, hand, request>>

(* Mutant: the code is not forwarded.                                      *)
forwardCloseCode_Dropped(p) ==
  /\ pump[p] = "forward"
  /\ Return(p, "closed")
  /\ UNCHANGED <<phase, peerVars, legVars, passed, hand, request>>

(* forwardCloseCode, and the return of the goroutine after it; whether the *)
(* frame could be written makes no difference to it.                       *)
forwardCloseCode(p) ==
  /\ pump[p] = "forward"
  /\ WriteClose(Other(p), hand[p].code)
  /\ Return(p, "closed")
  /\ UNCHANGED <<phase, peerVars, live, passed, hand, request>>

-----------------------------------------------------------------------------
(* The router of main: isWebSocketUpgrade decides for HandleWebSocket, and *)
(* what is left goes to HandleHTTP, which answers 404 for all but reads.   *)
Arrive ==
  /\ phase \in {"idle", "returned", "killed"}
  /\ \A p \in Peers : pump[p] \notin Running
  /\ request' \in Requests \ {"none"}
  /\ phase' = IF request' = "otherHTTP" THEN "returned" ELSE "authenticate"
  /\ sent' = [p \in Peers |-> 0]
  /\ ended' = [p \in Peers |-> "no"]
  /\ inbox' = [p \in Peers |-> <<>>]
  /\ live' = [p \in Peers |-> FALSE]
  /\ told' = [p \in Peers |-> "none"]
  /\ wire' = [p \in Peers |-> <<>>]
  /\ passed' = [p \in Peers |-> <<>>]
  /\ pump' = [p \in Peers |-> "off"]
  /\ hand' = [p \in Peers |-> Sign("none")]
  /\ done' = "open"

(* tailnet.IsPeer asks tailscaled: an error, or no answer within           *)
(* whoisTimeout, is a no.                                                  *)
IsPeer == {"tailnet", "no"}

(* A peer of the tailnet passes; otherwise the bearer token decides.  The  *)
(* address asked about is clientIP's, the first of X-Forwarded-For before  *)
(* that of the connection; which one it is, is left out.                   *)
authenticateDevice ==
  /\ phase = "authenticate"
  /\ \E peer \in IF TailnetEnabled THEN IsPeer ELSE {"no"} :
     \E token \in {"valid", "refused"} :
       phase' = IF peer = "no" /\ token = "refused" THEN "returned"
                ELSE IF request = "upgrade" THEN "auditStarted" ELSE "serveHTTP"
  /\ UNCHANGED <<request, peerVars, legVars, pumpVars, done>>

ServeHTTP ==
  /\ phase = "serveHTTP"
  /\ phase' = "returned"
  /\ UNCHANGED <<request, peerVars, legVars, pumpVars, done>>

(* CreateAuditEvent: a row more in audit_events or, when it fails, not;    *)
(* the handler goes on either way, once the database has answered.         *)
Audited(at, then) ==
  /\ phase = at
  /\ phase' = then
  /\ UNCHANGED <<request, peerVars, legVars, pumpVars, done>>

AuditStarted   == Audited("auditStarted", "upgrade")
AuditCompleted == Audited("auditCompleted", "closeGateway")

(* Upgrader.Upgrade: the connection is hijacked from the server, or the    *)
(* handshake fails and the handler returns.                                *)
Upgrade ==
  /\ phase = "upgrade"
  /\ phase' = "dial"
  /\ live' = [live EXCEPT !["client"] = TRUE]
  /\ UNCHANGED <<request, peerVars, told, wire, pumpVars, done>>

UpgradeFails ==
  /\ phase = "upgrade"
  /\ phase' = "returned"
  /\ UNCHANGED <<request, peerVars, legVars, pumpVars, done>>

(* Dialer.Dial, the setup of both legs, and the two go statements.         *)
Dial ==
  /\ phase = "dial"
  /\ phase' = "relay"
  /\ live' = [live EXCEPT !["gateway"] = TRUE]
  /\ pump' = [p \in Peers |-> "read"]
  /\ UNCHANGED <<request, peerVars, told, wire, hand, passed, done>>

(* The Gateway refuses or cannot be reached: the client is only dropped.   *)
DialFails ==
  /\ phase = "dial"
  /\ phase' = "closeClient"
  /\ UNCHANGED <<request, peerVars, legVars, pumpVars, done>>

(* <-done                                                                  *)
AwaitDone ==
  /\ phase = "relay" /\ done = "closed"
  /\ phase' = "auditCompleted"
  /\ UNCHANGED <<request, peerVars, legVars, pumpVars, done>>

(* The deferred Close calls, in reverse order.                             *)
Close(at, p, then) ==
  /\ phase = at
  /\ phase' = then
  /\ live' = [live EXCEPT ![p] = FALSE]
  /\ wire' = [wire EXCEPT ![p] = <<>>]
  /\ UNCHANGED <<request, peerVars, told, pumpVars, done>>

CloseGateway == Close("closeGateway", "gateway", "closeClient")
CloseClient  == Close("closeClient", "client", "returned")

(* A signal, or a crash: Shutdown does not wait for hijacked connections,  *)
(* and the process ends wherever they are, with what was on the way.       *)
Stop ==
  /\ phase \notin {"idle", "killed"}
  /\ phase' = "killed"
  /\ live' = [p \in Peers |-> FALSE]
  /\ wire' = [p \in Peers |-> <<>>]
  /\ inbox' = [p \in Peers |-> <<>>]
  /\ pump' = [p \in Peers |-> "off"]
  /\ hand' = [p \in Peers |-> Sign("none")]
  /\ done' = "open"
  /\ UNCHANGED <<request, sent, ended, told, passed>>
-----------------------------------------------------------------------------
Pump(p) == ReadMessage(p) \/ ReadClose(p) \/ ReadEOF(p) \/ ReadError(p)
             \/ WriteMessage(p) \/ WriteError(p) \/ forwardCloseCode(p)

Handler == authenticateDevice \/ ServeHTTP \/ AuditStarted \/ Upgrade
             \/ UpgradeFails \/ Dial \/ DialFails \/ AwaitDone
             \/ AuditCompleted \/ CloseGateway \/ CloseClient

Next ==
  \/ Arrive \/ Handler \/ Stop
  \/ \E p \in Peers : Pump(p) \/ ReadPing(p)
                       \/ PeerSend(p) \/ PeerEnds(p) \/ PeerReads(p)

Spec == Init /\ [][Next]_vars

(* Goroutines are scheduled, and the database answers.  A peer that is     *)
(* still there reads what it is sent: nothing in the code frees a pump     *)
(* whose WriteMessage waits for a peer that does not.  The lock of a Conn  *)
(* for writing serves its waiters in turn, so pongs do not keep a message  *)
(* out for ever.                                                           *)
FairSpec ==
  /\ Spec
  /\ WF_vars(Handler)
  /\ \A p \in Peers : /\ WF_vars(Pump(p)) /\ SF_vars(WriteMessage(p))
                       /\ WF_vars(PeerReads(p))
-----------------------------------------------------------------------------
(* The codes that a peer which ended like own may be told when the other   *)
(* one ended like other: that of its own close frame again, that of the    *)
(* other one's close frame, and 1009 after an oversize message.            *)
Genuine(own, other) ==
  ({own, other} \cap Told) \cup (IF own = "big" THEN {"tooBig"} ELSE {})

(* forwardCloseCode "Only forwards when readErr is a genuine close frame   *)
(* from the peer", "so a real abnormal drop still reads as abnormal on the *)
(* other side": no peer is sent a close code that is not from a close      *)
(* frame.  The code breaks this: to gorilla a stream that ends without one *)
(* is a *CloseError too, and a close frame with 1006 is written.           *)
OnlyGenuineCloses ==
  \A p \in Peers :
    told[p] # "none" => told[p] \in Genuine(ended[p], ended[Other(p)])

(* What the code does forward: genuine codes, and 1006 where               *)
(* OnlyGenuineCloses fails, when the other one's stream ended.             *)
MayTell(own, other) ==
  Genuine(own, other) \cup (IF other = "eof" THEN {"abnormal"} ELSE {})

(* The handler is a relay: messages pass once each and in order, nothing   *)
(* passes to a peer after its close frame or when the legs are closed, and *)
(* a close code comes from a close frame or, beyond what forwardCloseCode  *)
(* promises, from a stream that ended without one; never from a reset, a   *)
(* failed write or the teardown.                                           *)
R == INSTANCE Relay WITH open <- live["client"]
ImplementsRelay == R!Spec

(* proxy.go: "it would otherwise double-close done and panic the process": *)
(* done is closed once, by the first goroutine to return, and only then    *)
(* does the handler go on; the Gateway's leg is open only inside the       *)
(* client's.                                                               *)
WsInv ==
  /\ TypeOK
  /\ done = "closed" => \E p \in Peers : pump[p] \in Returned
  /\ phase \in {"auditCompleted", "closeGateway"} => done = "closed"
  /\ phase = "relay" => live["gateway"]
  /\ live["gateway"] => live["client"] /\ request = "upgrade"

(* proxy.go: forwardCloseCode "relays a peer's real WebSocket close        *)
(* code/reason onto the other leg before the connection tears down".  When *)
(* the goroutine that has read a close code returns, the other peer has    *)
(* been sent that very code, but for three cases: that peer had ended the  *)
(* connection itself; the other direction had failed, so that the legs are *)
(* torn down under this goroutine or no longer take a frame; or the other  *)
(* leg is full of what its peer has not read, and the one second that      *)
(* WriteControl is given runs out.                                         *)
CloseRelayed ==
  [][\A p \in Peers :
       pump[p] = "forward" /\ pump'[p] \in Returned
         => \/ told'[Other(p)] = hand[p].code
            \/ ended[Other(p)] # "no"
            \/ pump[Other(p)] \in {"writeError", "readError"}
            \/ Full(Other(p))]_vars

(* proxy.go: "whichever side the peer closes first still lets the other    *)
(* goroutine's blocked Read unblock and return".  However a peer ends a    *)
(* relayed connection, both legs are closed and neither goroutine is left. *)
TornDown ==
  \A p \in Peers :
    phase = "relay" /\ ended[p] # "no"
      ~> /\ phase \in {"returned", "killed"}
         /\ \A q \in Peers : ~live[q] /\ pump[q] \notin Running
=============================================================================
