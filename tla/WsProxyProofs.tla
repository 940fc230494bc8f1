---------------------------- MODULE WsProxyProofs ----------------------------
(***************************************************************************)
(* Proofs about module WsProxy, for any number of messages and any         *)
(* capacity of the legs: what the handler and its two goroutines agree on, *)
(* when a close code may be lost, and that the handler implements Relay.   *)
(***************************************************************************)
EXTENDS WsProxy, TLAPS

-----------------------------------------------------------------------------
(* The inductive invariant.  Which leg is open, and who may still run, at  *)
(* each point of HandleWebSocket.                                          *)
NoLegs  == {"idle", "authenticate", "auditStarted", "upgrade", "serveHTTP",
            "returned", "killed"}
TwoLegs == {"relay", "auditCompleted", "closeGateway"}

Stage ==
  /\ phase \in NoLegs => ~live["client"]
  /\ phase \in TwoLegs => live["gateway"]
  /\ phase \in {"dial", "closeClient"} => ~live["gateway"]
  /\ live["gateway"] => live["client"]
  /\ phase \in {"authenticate", "auditStarted", "upgrade", "serveHTTP"} => Fresh
  /\ phase \in TwoLegs \cup {"auditStarted", "upgrade", "dial"}
       => request = "upgrade"

Dialling ==
  phase = "dial" =>
    /\ live["client"] /\ done = "open"
    /\ sent["gateway"] = 0 /\ ended["gateway"] = "no"
    /\ inbox["gateway"] = <<>>
    /\ \A p \in Peers : /\ pump[p] = "off" /\ passed[p] = <<>>
                         /\ told[p] = "none" /\ wire[p] = <<>>

DoneIsReturn ==
  /\ done = "closed" => \E p \in Peers : pump[p] \in Returned
  /\ phase \in {"auditCompleted", "closeGateway"} => done = "closed"
  /\ \A p \in Peers : pump[p] \in Running /\ ~live["gateway"] => done = "closed"

(* What is left to relay continues what was relayed: the messages passed,  *)
(* the one in hand and those in the inbox are consecutive.                 *)
Taken(p) == Len(passed[p]) + (IF pump[p] = "write" THEN 1 ELSE 0)
Relaying(p) == pump[p] \in {"read", "write"} \/ (pump[p] = "off" /\ live[p])

Consecutive(p) ==
  Relaying(p) =>
    /\ \A i \in DOMAIN inbox[p] : inbox[p][i].kind = "message"
         => inbox[p][i].n = Taken(p) + i /\ inbox[p][i].n <= sent[p]
    /\ ended[p] = "no" => Taken(p) + Len(inbox[p]) = sent[p]
    /\ pump[p] = "write" => /\ hand[p].kind = "message"
                            /\ hand[p].n = Taken(p) /\ hand[p].n <= sent[p]

(* The end of a stream, and a close code in hand, is what the peer did.    *)
Honest(frame, how) ==
  /\ frame.kind \in {"message", "close", "eof", "reset", "big"}
  /\ frame.kind = "close" => frame.code \in Told /\ frame.code = how
  /\ frame.kind \in {"eof", "reset", "big"} => frame.kind = how

EndingsAreReal(p) ==
  /\ \A i \in DOMAIN inbox[p] : Honest(inbox[p][i], ended[p])
  /\ \A i \in DOMAIN wire[p] : wire[p][i].kind = "close" => wire[p][i].code \in Told
  /\ pump[p] = "forward" =>
       /\ hand[p].code \in Told
       /\ \/ hand[p].code = ended[p]
          \/ hand[p].code = "abnormal" /\ ended[p] = "eof"
  /\ pump[p] \in {"forward", "closed"} => ended[p] # "no"

(* While the goroutine that reads p is running, the other peer has been    *)
(* told a code only by the goroutine that reads it, and had ended.         *)
ToldLate ==
  \A p \in Peers :
    pump[p] \in Running /\ told[Other(p)] # "none" => ended[Other(p)] # "no"

IInv ==
  /\ TypeOK /\ Stage /\ Dialling /\ DoneIsReturn
  /\ \A p \in Peers : Consecutive(p) /\ EndingsAreReal(p)
  /\ ToldLate

-----------------------------------------------------------------------------
(* The two peers, the frames and the sequences.                            *)
LEMMA PeerFacts ==
  \A p \in Peers : /\ Other(p) \in Peers /\ Other(p) # p /\ Other(Other(p)) = p
                   /\ \A q \in Peers : q = p \/ q = Other(p)
  BY DEF Peers, Other

LEMMA FrameFacts ==
  /\ \A n \in Nat : Message(n) \in Frames
  /\ \A kind \in Kinds : Sign(kind) \in Frames
  /\ \A code \in Told : CloseFrame(code) \in Frames
  BY DEF Frames, Message, Sign, CloseFrame, Kinds

LEMMA AppendFacts ==
  ASSUME NEW T, NEW s \in Seq(T), NEW x \in T
  PROVE  /\ Append(s, x) \in Seq(T)
         /\ Len(Append(s, x)) = Len(s) + 1
         /\ DOMAIN Append(s, x) = 1..(Len(s) + 1)
         /\ \A i \in DOMAIN Append(s, x) :
              Append(s, x)[i] = IF i \in DOMAIN s THEN s[i] ELSE x
         /\ \A i \in DOMAIN Append(s, x) : i \in DOMAIN s \/ i = Len(s) + 1
  OBVIOUS

LEMMA TailFacts ==
  ASSUME NEW T, NEW s \in Seq(T), s # <<>>
  PROVE  /\ Head(s) \in T /\ Head(s) = s[1] /\ 1 \in DOMAIN s
         /\ Tail(s) \in Seq(T) /\ Len(Tail(s)) = Len(s) - 1
         /\ \A i \in DOMAIN Tail(s) : i + 1 \in DOMAIN s /\ Tail(s)[i] = s[i + 1]
  OBVIOUS

(* WriteClose leaves a leg as it was or appends the close frame to it.     *)
LEMMA WriteCloseTypes ==
  ASSUME TypeOK, NEW p \in Peers, NEW code \in Told, WriteClose(p, code)
  PROVE  wire' \in [Peers -> Seq(Frames)] /\ told' \in [Peers -> {"none"} \cup Told]
<1>1. CloseFrame(code) \in Frames
  BY FrameFacts
<1>2. Append(wire[p], CloseFrame(code)) \in Seq(Frames)
  BY <1>1 DEF TypeOK
<1> QED
  BY <1>2 DEF TypeOK, WriteClose

LEMMA HeadTypes ==
  ASSUME TypeOK, NEW p \in Peers, inbox[p] # <<>>
  PROVE  /\ Head(inbox[p]) \in Frames /\ Head(inbox[p]) = inbox[p][1]
         /\ 1 \in DOMAIN inbox[p]
         /\ [inbox EXCEPT ![p] = Tail(@)] \in [Peers -> Seq(Frames)]
<1>1. inbox[p] \in Seq(Frames)
  BY DEF TypeOK
<1> QED
  BY <1>1, TailFacts DEF TypeOK

-----------------------------------------------------------------------------
(* The steps of the handler that only move it on.                          *)
HandlerMoves ==
  authenticateDevice \/ ServeHTTP \/ AuditStarted \/ UpgradeFails
    \/ DialFails \/ AwaitDone \/ AuditCompleted

LEMMA MovesFrame ==
  ASSUME HandlerMoves
  PROVE  /\ phase' \in Phases
         /\ UNCHANGED <<request, sent, ended, inbox, live, told, wire, pump, hand,
                       passed, done>>
  BY DEF HandlerMoves, authenticateDevice, ServeHTTP, AuditStarted, AuditCompleted,
     Audited, UpgradeFails, DialFails, AwaitDone, legVars, peerVars, pumpVars, Phases

LEMMA HandlerCases ==
  Handler => HandlerMoves \/ Upgrade \/ Dial \/ CloseGateway \/ CloseClient
  BY DEF Handler, HandlerMoves

LEMMA TypeStep ==
  ASSUME IInv, [Next]_vars
  PROVE  TypeOK'
<1> USE DEF IInv, legVars, peerVars, pumpVars
<1>1. CASE Arrive
  <2>1. Sign("none") \in Frames
    BY FrameFacts DEF Kinds
  <2> QED
    BY <1>1, <2>1 DEF Arrive, TypeOK, Requests, Phases
<1>2. CASE Handler
  <2>1. CASE HandlerMoves
    BY <2>1, MovesFrame DEF TypeOK
  <2>2. CASE Upgrade
    BY <2>2 DEF Upgrade, TypeOK, Phases
  <2>3. CASE Dial
    BY <2>3 DEF Dial, TypeOK, Phases, Running
  <2>4. CASE CloseGateway
    BY <2>4 DEF CloseGateway, Close, TypeOK, Phases, Peers
  <2>5. CASE CloseClient
    BY <2>5 DEF CloseClient, Close, TypeOK, Phases, Peers
  <2> QED
    BY <1>2, <2>1, <2>2, <2>3, <2>4, <2>5, HandlerCases
<1>3. CASE Stop
  <2>1. Sign("none") \in Frames
    BY FrameFacts DEF Kinds
  <2> QED
    BY <1>3, <2>1 DEF Stop, TypeOK, Phases
<1>4. ASSUME NEW p \in Peers, Pump(p) PROVE TypeOK'
  <2>1. CASE ReadMessage(p)
    <3>1. inbox' \in [Peers -> Seq(Frames)] /\ Head(inbox[p]) \in Frames
      BY <2>1, HeadTypes DEF ReadMessage
    <3> QED
      BY <2>1, <3>1 DEF ReadMessage, TypeOK, Running
  <2>2. CASE ReadClose(p)
    <3>1. inbox' \in [Peers -> Seq(Frames)] /\ Head(inbox[p]) \in Frames
      BY <2>2, HeadTypes DEF ReadClose
    <3>2. Head(inbox[p]).code \in Told
      BY <2>2, HeadTypes DEF ReadClose, EndingsAreReal, Honest
    <3>3. wire' \in [Peers -> Seq(Frames)] /\ told' \in [Peers -> {"none"} \cup Told]
      BY <2>2, <3>2, WriteCloseTypes DEF ReadClose
    <3> QED
      BY <2>2, <3>1, <3>3 DEF ReadClose, TypeOK, Running
  <2>3. CASE ReadEOF(p)
    <3>1. inbox' \in [Peers -> Seq(Frames)] /\ CloseFrame("abnormal") \in Frames
      BY <2>3, HeadTypes, FrameFacts DEF ReadEOF, Told
    <3> QED
      BY <2>3, <3>1 DEF ReadEOF, TypeOK, Running
  <2>4. CASE ReadError(p)
    <3>1. wire' \in [Peers -> Seq(Frames)] /\ told' \in [Peers -> {"none"} \cup Told]
      <4>1. "tooBig" \in Told
        BY DEF Told
      <4> QED
        BY <2>4, <4>1, WriteCloseTypes DEF ReadError, TypeOK
    <3> QED
      BY <2>4, <3>1 DEF ReadError, TypeOK, Return, closeDone, Returned
  <2>5. CASE WriteMessage(p)
    <3>1. Append(wire[Other(p)], hand[p]) \in Seq(Frames)
      BY PeerFacts DEF TypeOK
    <3>2. Append(passed[p], hand[p].n) \in Seq(Nat)
      BY DEF TypeOK, Frames
    <3>3. Sign("none") \in Frames
      BY FrameFacts DEF Kinds
    <3> QED
      BY <2>5, <3>1, <3>2, <3>3, PeerFacts DEF WriteMessage, TypeOK, Running
  <2>6. CASE WriteError(p)
    BY <2>6 DEF WriteError, TypeOK, Return, closeDone, Returned
  <2>7. CASE forwardCloseCode(p)
    <3>1. hand[p].code \in Told
      BY <2>7 DEF forwardCloseCode, EndingsAreReal
    <3>2. wire' \in [Peers -> Seq(Frames)] /\ told' \in [Peers -> {"none"} \cup Told]
      BY <2>7, <3>1, WriteCloseTypes, PeerFacts DEF forwardCloseCode
    <3> QED
      BY <2>7, <3>2 DEF forwardCloseCode, TypeOK, Return, closeDone, Returned
  <2> QED
    BY <1>4, <2>1, <2>2, <2>3, <2>4, <2>5, <2>6, <2>7 DEF Pump
<1>5. ASSUME NEW p \in Peers, ReadPing(p) PROVE TypeOK'
  <2>1. Append(wire[p], Sign("pong")) \in Seq(Frames)
    BY FrameFacts DEF TypeOK, Kinds
  <2> QED
    BY <1>5, <2>1 DEF ReadPing, TypeOK, Return, closeDone, Returned
<1>6. ASSUME NEW p \in Peers, PeerSend(p) PROVE TypeOK'
  <2>1. sent[p] + 1 \in Nat /\ Message(sent[p] + 1) \in Frames
    BY FrameFacts DEF TypeOK
  <2>2. Append(inbox[p], Message(sent[p] + 1)) \in Seq(Frames)
    BY <2>1 DEF TypeOK
  <2> QED
    BY <1>6, <2>1, <2>2 DEF PeerSend, TypeOK
<1>7. ASSUME NEW p \in Peers, PeerEnds(p) PROVE TypeOK'
  <2>1. \A f \in Frames : /\ Append(inbox[p], f) \in Seq(Frames)
                           /\ Append(<<>>, f) \in Seq(Frames)
    BY DEF TypeOK
  <2>2. /\ \A code \in Codes : CloseFrame(code) \in Frames
        /\ \A how \in {"eof", "big", "reset"} : Sign(how) \in Frames
    BY FrameFacts DEF Told, Kinds
  <2>3. ended' \in [Peers -> {"no"} \cup Endings]
    <3>1. Codes \cup {"eof", "big", "reset"} \subseteq Endings
      BY DEF Endings, Told
    <3>2. \E e \in Codes \cup {"eof", "big", "reset"} : ended' = [ended EXCEPT ![p] = e]
      BY <1>7 DEF PeerEnds
    <3> QED BY <3>1, <3>2 DEF TypeOK
  <2>4. inbox' \in [Peers -> Seq(Frames)]
    <3>1. CASE \E code \in Codes :
               inbox' = [inbox EXCEPT ![p] = Append(@, CloseFrame(code))]
      BY <2>1, <2>2, <3>1 DEF TypeOK
    <3>2. CASE \E how \in {"eof", "big"} :
               inbox' = [inbox EXCEPT ![p] = Append(@, Sign(how))]
      BY <2>1, <2>2, <3>2 DEF TypeOK
    <3>3. CASE \E kept \in {<<>>, inbox[p]} :
               inbox' = [inbox EXCEPT ![p] = Append(kept, Sign("reset"))]
      <4>1. PICK kept \in {<<>>, inbox[p]} :
              inbox' = [inbox EXCEPT ![p] = Append(kept, Sign("reset"))]
        BY <3>3
      <4>2. Sign("reset") \in Frames
        BY <2>2
      <4>3. Append(kept, Sign("reset")) \in Seq(Frames)
        BY <2>1, <4>2
      <4> QED
        BY <4>1, <4>3 DEF TypeOK
    <3> QED
      BY <1>7, <3>1, <3>2, <3>3 DEF PeerEnds
  <2> QED
    BY <1>7, <2>3, <2>4 DEF PeerEnds, TypeOK
<1>8. ASSUME NEW p \in Peers, PeerReads(p) PROVE TypeOK'
  <2>1. /\ Tail(wire[p]) \in Seq(Frames) /\ Head(wire[p]) = wire[p][1]
        /\ 1 \in DOMAIN wire[p]
    BY <1>8, TailFacts DEF PeerReads, TypeOK
  <2>2. CASE Head(wire[p]).kind = "close" /\ ended[p] = "no"
    <3>1. Answer(Head(wire[p]).code) \in Told
      BY <2>1, <2>2 DEF Answer, EndingsAreReal, Told
    <3> DEFINE code == Answer(Head(wire[p]).code)
    <3>2. /\ wire' = [wire EXCEPT ![p] = Tail(wire[p])]
          /\ ended' = [ended EXCEPT ![p] = code]
          /\ inbox' = [inbox EXCEPT ![p] = Append(inbox[p], CloseFrame(code))]
      BY <1>8, <2>2 DEF PeerReads
    <3> HIDE DEF code
    <3>3. CloseFrame(code) \in Frames /\ code \in {"no"} \cup Endings
      BY <3>1, FrameFacts DEF code, Endings
    <3>4. Append(inbox[p], CloseFrame(code)) \in Seq(Frames)
      BY <3>3 DEF TypeOK
    <3>5. /\ wire' \in [Peers -> Seq(Frames)] /\ inbox' \in [Peers -> Seq(Frames)]
          /\ ended' \in [Peers -> {"no"} \cup Endings]
      BY <2>1, <3>2, <3>3, <3>4 DEF TypeOK
    <3> QED
      BY <1>8, <3>5 DEF PeerReads, TypeOK
  <2>3. CASE ~(Head(wire[p]).kind = "close" /\ ended[p] = "no")
    BY <1>8, <2>1, <2>3 DEF PeerReads, TypeOK
  <2> QED
    BY <2>2, <2>3
<1>9. CASE UNCHANGED vars
  BY <1>9 DEF vars, TypeOK
<1> QED
  BY <1>1, <1>2, <1>3, <1>4, <1>5, <1>6, <1>7, <1>8, <1>9 DEF Next

-----------------------------------------------------------------------------
(* What a goroutine leaves alone; when it returns it closes done.          *)
LEMMA PumpFrame ==
  ASSUME TypeOK, NEW p \in Peers, Pump(p) \/ ReadPing(p)
  PROVE  /\ UNCHANGED <<phase, request, live, sent, ended>>
         /\ pump[p] \in Running
         /\ \/ pump'[p] \in Running /\ done' = done
            \/ pump'[p] \in Returned /\ done' = "closed"
         /\ \A q \in Peers : q # p => pump'[q] = pump[q]
<1> USE DEF legVars, peerVars, TypeOK, Running, Returned, Return, closeDone
<1>1. CASE ReadMessage(p) \/ ReadClose(p) \/ ReadEOF(p)
  BY <1>1 DEF ReadMessage, ReadClose, ReadEOF
<1>2. CASE ReadError(p)
  BY <1>2 DEF ReadError
<1>3. CASE WriteMessage(p)
  BY <1>3 DEF WriteMessage
<1>4. CASE WriteError(p)
  BY <1>4 DEF WriteError
<1>5. CASE forwardCloseCode(p)
  BY <1>5 DEF forwardCloseCode
<1>6. CASE ReadPing(p)
  BY <1>6 DEF ReadPing
<1> QED
  BY <1>1, <1>2, <1>3, <1>4, <1>5, <1>6 DEF Pump

(* What a peer leaves alone.                                               *)
LEMMA PeerFrame ==
  ASSUME TypeOK, NEW p \in Peers, PeerSend(p) \/ PeerEnds(p) \/ PeerReads(p)
  PROVE  /\ UNCHANGED <<phase, request, live, told, pump, hand, passed, done>>
         /\ live[p]
         /\ wire[p] = <<>> => UNCHANGED wire
         /\ \A q \in Peers : q # p => /\ sent'[q] = sent[q] /\ ended'[q] = ended[q]
                                      /\ inbox'[q] = inbox[q] /\ wire'[q] = wire[q]
<1> USE DEF legVars, pumpVars, TypeOK
<1>1. CASE PeerSend(p)
  BY <1>1 DEF PeerSend
<1>2. CASE PeerEnds(p)
  BY <1>2 DEF PeerEnds
<1>3. CASE PeerReads(p)
  BY <1>3 DEF PeerReads
<1> QED
  BY <1>1, <1>2, <1>3

LEMMA StageStep ==
  ASSUME IInv, [Next]_vars
  PROVE  Stage' /\ Dialling' /\ DoneIsReturn'
<1> USE DEF IInv, NoLegs, TwoLegs
<1>1. CASE Arrive
  BY <1>1 DEF Arrive, Stage, Dialling, DoneIsReturn, Fresh, Peers, Requests, Running
<1>2. CASE HandlerMoves
  <2>1. Stage'
    BY <1>2, MovesFrame DEF Stage, HandlerMoves, authenticateDevice, ServeHTTP,
       AuditStarted, AuditCompleted, Audited, UpgradeFails, DialFails, AwaitDone,
       Fresh
  <2>2. Dialling' /\ DoneIsReturn'
    BY <1>2, MovesFrame DEF DoneIsReturn, Dialling, HandlerMoves, authenticateDevice,
       ServeHTTP, AuditStarted, AuditCompleted, Audited, UpgradeFails, DialFails,
       AwaitDone
  <2> QED
    BY <2>1, <2>2
<1>3. CASE Upgrade
  BY <1>3 DEF Upgrade, Stage, Dialling, DoneIsReturn, Fresh, Peers, peerVars,
     pumpVars, TypeOK, Running
<1>4. CASE Dial
  BY <1>4 DEF Dial, Stage, Dialling, DoneIsReturn, peerVars, TypeOK, Peers
<1>5. CASE CloseGateway
  BY <1>5 DEF CloseGateway, Close, Stage, Dialling, DoneIsReturn, peerVars,
     pumpVars, TypeOK, Peers
<1>6. CASE CloseClient
  BY <1>6 DEF CloseClient, Close, Stage, Dialling, DoneIsReturn, peerVars,
     pumpVars, TypeOK, Peers
<1>7. CASE Stop
  BY <1>7 DEF Stop, Stage, Dialling, DoneIsReturn, Peers, Running
<1>8. ASSUME NEW p \in Peers, Pump(p) \/ ReadPing(p)
      PROVE  Stage' /\ Dialling' /\ DoneIsReturn'
  <2>1. phase # "dial" /\ ~Fresh
    BY <1>8, PumpFrame DEF Dialling, Fresh, Running
  <2>2. Stage' /\ Dialling'
    BY <1>8, <2>1, PumpFrame DEF Stage, Dialling
  <2>3. DoneIsReturn'
    BY <1>8, PumpFrame DEF DoneIsReturn, Running, Returned
  <2> QED
    BY <2>2, <2>3
<1>9. ASSUME NEW p \in Peers, PeerSend(p) \/ PeerEnds(p) \/ PeerReads(p)
      PROVE  Stage' /\ Dialling' /\ DoneIsReturn'
  <2>1. ~Fresh /\ live["client"]
    BY <1>9, PeerFrame DEF Fresh, Stage, Peers
  <2>2. Stage' /\ DoneIsReturn'
    BY <1>9, <2>1, PeerFrame DEF Stage, DoneIsReturn
  <2>3. Dialling'
    BY <1>9, PeerFrame DEF Stage, Dialling, Peers
  <2> QED
    BY <2>2, <2>3
<1>10. CASE UNCHANGED vars
  BY <1>10 DEF vars, peerVars, legVars, pumpVars, Stage, Dialling, DoneIsReturn, Fresh
<1> QED
  BY <1>1, <1>2, <1>3, <1>4, <1>5, <1>6, <1>7, <1>8, <1>9, <1>10, HandlerCases
  DEF Next

-----------------------------------------------------------------------------
(* A step that leaves a direction alone keeps it consecutive.              *)
LEMMA ConsecutiveFrame ==
  ASSUME NEW p \in Peers, Consecutive(p), Relaying(p)' => Relaying(p),
         passed'[p] = passed[p], pump'[p] = pump[p], inbox'[p] = inbox[p],
         sent'[p] = sent[p], ended'[p] = ended[p], hand'[p] = hand[p]
  PROVE  Consecutive(p)'
  BY DEF Consecutive, Relaying, Taken

LEMMA ConsecutiveStep ==
  ASSUME IInv, [Next]_vars, NEW p \in Peers
  PROVE  Consecutive(p)'
<1> USE DEF IInv
<1>a. TypeOK'
  BY TypeStep
<1>1. CASE Arrive \/ Stop
  BY <1>1 DEF Arrive, Stop, Consecutive, Relaying
<1>2. CASE HandlerMoves
  BY <1>2, MovesFrame, ConsecutiveFrame DEF Relaying
<1>3. CASE Upgrade
  <2>1. Fresh /\ UNCHANGED <<sent, ended, inbox, passed, pump, hand>>
    BY <1>3 DEF Upgrade, Stage, peerVars, pumpVars
  <2> QED
    BY <2>1 DEF Fresh, Consecutive, Taken
<1>4. CASE Dial
  <2>1. /\ UNCHANGED <<sent, ended, inbox, passed, hand>>
        /\ pump'[p] = "read" /\ pump[p] = "off"
        /\ passed[p] = <<>> /\ live["client"]
    BY <1>4 DEF Dial, Dialling, peerVars
  <2>2. CASE p = "client"
    BY <2>1, <2>2 DEF Consecutive, Relaying, Taken
  <2>3. CASE p = "gateway"
    <3>1. sent[p] = 0 /\ inbox[p] = <<>>
      BY <1>4, <2>3 DEF Dial, Dialling
    <3> QED
      BY <2>1, <3>1 DEF Consecutive, Relaying, Taken
  <2> QED
    BY <2>2, <2>3 DEF Peers
<1>5. CASE CloseGateway \/ CloseClient
  BY <1>5, ConsecutiveFrame
  DEF CloseGateway, CloseClient, Close, Relaying, peerVars, pumpVars, TypeOK, Peers
<1>6. ASSUME NEW q \in Peers, Pump(q) \/ ReadPing(q) PROVE Consecutive(p)'
  <2>1. CASE p # q
    <3>1. pump'[p] = pump[p] /\ UNCHANGED <<live, sent, ended>>
      BY <1>6, <2>1, PumpFrame
    <3>2. passed'[p] = passed[p] /\ inbox'[p] = inbox[p] /\ hand'[p] = hand[p]
      BY <1>6, <2>1 DEF Pump, ReadMessage, ReadClose, ReadEOF, ReadError, WriteMessage,
         WriteError, forwardCloseCode, ReadPing, peerVars, TypeOK
    <3> QED
      BY <3>1, <3>2, ConsecutiveFrame DEF Relaying
  <2>2. CASE p = q /\ ReadMessage(p)
    <3>1. inbox[p] \in Seq(Frames) /\ inbox[p] # <<>> /\ passed[p] \in Seq(Nat)
      BY <2>2 DEF ReadMessage, TypeOK
    <3>2. /\ pump[p] = "read" /\ pump'[p] = "write" /\ UNCHANGED <<sent, ended, passed>>
          /\ hand'[p] = Head(inbox[p]) /\ inbox'[p] = Tail(inbox[p])
          /\ Head(inbox[p]).kind = "message"
      BY <2>2 DEF ReadMessage, TypeOK
    <3>3. Len(passed[p]) \in Nat /\ Len(inbox[p]) \in Nat /\ sent[p] \in Nat
      BY <3>1 DEF TypeOK
    <3>4. Taken(p) \in Nat /\ Taken(p)' = Taken(p) + 1
      BY <3>2, <3>3 DEF Taken
    <3>5. hand'[p].kind = "message" /\ hand'[p].n = Taken(p)' /\ hand'[p].n <= sent'[p]
      BY <3>1, <3>2, <3>4, TailFacts DEF Consecutive, Relaying
    <3>6. \A i \in DOMAIN inbox'[p] : inbox'[p][i].kind = "message"
            => inbox'[p][i].n = Taken(p)' + i /\ inbox'[p][i].n <= sent'[p]
      <4> SUFFICES ASSUME NEW i \in DOMAIN inbox'[p], inbox'[p][i].kind = "message"
                   PROVE  inbox'[p][i].n = Taken(p)' + i /\ inbox'[p][i].n <= sent'[p]
        OBVIOUS
      <4>1. i \in Nat /\ i + 1 \in DOMAIN inbox[p] /\ inbox'[p][i] = inbox[p][i + 1]
        BY <3>1, <3>2, TailFacts
      <4>2. inbox[p][i + 1].n = Taken(p) + (i + 1) /\ inbox[p][i + 1].n <= sent[p]
        BY <3>2, <4>1 DEF Consecutive, Relaying
      <4>3. Taken(p) + (i + 1) = Taken(p)' + i
        BY <3>3, <3>4, <4>1
      <4> QED
        BY <3>2, <4>1, <4>2, <4>3
    <3>7. ended'[p] = "no" => Taken(p)' + Len(inbox'[p]) = sent'[p]
      <4>1. ended'[p] = "no" => Taken(p) + Len(inbox[p]) = sent[p]
        BY <3>2 DEF Consecutive, Relaying
      <4>2. Len(inbox'[p]) = Len(inbox[p]) - 1
        BY <3>1, <3>2, TailFacts
      <4>3. sent' = sent
        BY <3>2
      <4> QED
        BY <3>3, <3>4, <4>1, <4>2, <4>3
    <3> QED
      BY <3>5, <3>6, <3>7 DEF Consecutive
  <2>3. CASE p = q /\ WriteMessage(p)
    <3>1. /\ pump[p] = "write" /\ pump'[p] = "read" /\ UNCHANGED <<sent, ended, inbox>>
          /\ passed'[p] = Append(passed[p], hand[p].n)
      BY <2>3 DEF WriteMessage, TypeOK, peerVars
    <3>2. passed[p] \in Seq(Nat) /\ hand[p].n \in Nat
      BY DEF TypeOK, Frames
    <3>3. Taken(p)' = Taken(p)
      BY <3>1, <3>2 DEF Taken
    <3> QED
      BY <3>1, <3>3 DEF Consecutive, Relaying
  <2>4. CASE p = q /\ ReadPing(p) /\ pump'[p] = pump[p]
    BY <2>4, ConsecutiveFrame DEF ReadPing, peerVars, Relaying
  <2>5. CASE p = q /\ ~ReadMessage(p) /\ ~WriteMessage(p)
               /\ ~(ReadPing(p) /\ pump'[p] = pump[p])
    <3>1. pump'[p] \in Returned \cup {"forward"}
      BY <1>6, <2>5 DEF Pump, ReadClose, ReadEOF, ReadError, WriteError,
         forwardCloseCode, ReadPing, Return, Returned, TypeOK
    <3> QED
      BY <3>1 DEF Consecutive, Relaying, Returned
  <2> QED
    BY <2>1, <2>2, <2>3, <2>4, <2>5
<1>7. ASSUME NEW q \in Peers, PeerSend(q) \/ PeerEnds(q) \/ PeerReads(q)
      PROVE  Consecutive(p)'
  <2>1. /\ UNCHANGED <<live, pump, hand, passed>>
        /\ Relaying(p)' <=> Relaying(p)
        /\ Taken(p)' = Taken(p)
    BY <1>7, PeerFrame DEF Relaying, Taken
  <2>2. CASE p # q
    BY <1>7, <2>1, <2>2, PeerFrame, ConsecutiveFrame
  <2>3. CASE p = q /\ Relaying(p)
    <3>1. inbox[p] \in Seq(Frames) /\ sent[p] \in Nat /\ Taken(p) \in Nat
      BY DEF TypeOK, Taken
    <3>2. ASSUME NEW f \in Frames, inbox'[p] = Append(inbox[p], f),
                 f.kind # "message", sent' = sent, ended'[p] # "no"
          PROVE  Consecutive(p)'
      <4>1. \A i \in DOMAIN inbox'[p] : inbox'[p][i].kind = "message"
              => i \in DOMAIN inbox[p] /\ inbox'[p][i] = inbox[p][i]
        BY <3>1, <3>2, AppendFacts
      <4> QED
        BY <2>1, <2>3, <3>2, <4>1 DEF Consecutive
    <3>3. CASE PeerSend(p)
      <4>1. /\ inbox'[p] = Append(inbox[p], Message(sent[p] + 1))
            /\ sent'[p] = sent[p] + 1 /\ ended' = ended /\ ended[p] = "no"
        BY <3>3 DEF PeerSend, TypeOK
      <4>2. /\ Message(sent[p] + 1) \in Frames
            /\ Message(sent[p] + 1).n = sent[p] + 1
        BY <3>1, FrameFacts DEF Message
      <4>3. Taken(p) + Len(inbox[p]) = sent[p] /\ Len(inbox[p]) \in Nat
        BY <2>3, <3>1, <4>1 DEF Consecutive
      <4>4. Taken(p)' + Len(inbox'[p]) = sent'[p]
        BY <2>1, <3>1, <4>1, <4>2, <4>3, AppendFacts
      <4>5. ASSUME NEW i \in DOMAIN inbox'[p], inbox'[p][i].kind = "message"
            PROVE  inbox'[p][i].n = Taken(p)' + i /\ inbox'[p][i].n <= sent'[p]
        <5>1. CASE i \in DOMAIN inbox[p]
          <6>1. inbox'[p][i] = inbox[p][i]
            BY <3>1, <4>1, <4>2, <4>5, <5>1, AppendFacts
          <6>2. inbox[p][i].n = Taken(p) + i /\ inbox[p][i].n <= sent[p]
            BY <2>3, <4>5, <5>1, <6>1 DEF Consecutive
          <6>3. i \in Nat
            BY <3>1, <5>1
          <6> QED
            BY <2>1, <3>1, <4>1, <6>1, <6>2, <6>3
        <5>2. CASE i \notin DOMAIN inbox[p]
          <6>1. i = Len(inbox[p]) + 1 /\ inbox'[p][i] = Message(sent[p] + 1)
            BY <3>1, <4>1, <4>2, <4>5, <5>2, AppendFacts
          <6>2. inbox'[p][i].n = sent[p] + 1
            BY <4>2, <6>1
          <6>3. Taken(p)' + i = sent[p] + 1
            BY <2>1, <3>1, <4>3, <6>1
          <6> QED
            BY <3>1, <4>1, <6>2, <6>3
        <5> QED
          BY <5>1, <5>2
      <4>6. pump'[p] = "write" => /\ hand'[p].kind = "message"
                                  /\ hand'[p].n = Taken(p)' /\ hand'[p].n <= sent'[p]
        BY <2>1, <2>3, <3>1, <4>1 DEF Consecutive
      <4> QED
        BY <4>4, <4>5, <4>6 DEF Consecutive
    <3>4. CASE PeerEnds(p)
      <4>1. sent' = sent /\ ended'[p] # "no"
        BY <3>4 DEF PeerEnds, TypeOK, Codes
      <4>2. CASE \E code \in Codes : inbox'[p] = Append(inbox[p], CloseFrame(code))
        BY <3>2, <4>1, <4>2, FrameFacts DEF CloseFrame, Told
      <4>3. CASE \E how \in {"eof", "big", "reset"} :
                    inbox'[p] = Append(inbox[p], Sign(how))
        BY <3>2, <4>1, <4>3, FrameFacts DEF Sign, Kinds
      <4>4. CASE inbox'[p] = Append(<<>>, Sign("reset"))
        <5>1. \A i \in DOMAIN inbox'[p] : inbox'[p][i].kind # "message"
          BY <4>4 DEF Sign
        <5> QED
          BY <2>1, <2>3, <4>1, <5>1 DEF Consecutive
      <4> QED
        BY <3>4, <4>2, <4>3, <4>4 DEF PeerEnds, TypeOK
    <3>5. CASE PeerReads(p)
      <4>1. CASE Head(wire[p]).kind = "close" /\ ended[p] = "no"
        <5>1. wire[p] \in Seq(Frames) /\ wire[p] # <<>>
          BY <3>5 DEF PeerReads, TypeOK
        <5>2. Answer(Head(wire[p]).code) \in Told
          BY <4>1, <5>1, TailFacts DEF Answer, EndingsAreReal, Told
        <5>3. /\ inbox'[p] = Append(inbox[p], CloseFrame(Answer(Head(wire[p]).code)))
              /\ sent' = sent /\ ended'[p] # "no"
          BY <3>5, <4>1, <5>2 DEF PeerReads, TypeOK, Told, Codes
        <5> QED
          BY <3>2, <5>2, <5>3, FrameFacts DEF CloseFrame
      <4>2. CASE ~(Head(wire[p]).kind = "close" /\ ended[p] = "no")
        BY <2>1, <3>5, <4>2, ConsecutiveFrame DEF PeerReads
      <4> QED
        BY <4>1, <4>2
    <3> QED
      BY <1>7, <2>3, <3>3, <3>4, <3>5
  <2>4. CASE ~Relaying(p)
    BY <2>1, <2>4 DEF Consecutive
  <2> QED
    BY <2>2, <2>3, <2>4
<1>8. CASE UNCHANGED vars
  BY <1>8, ConsecutiveFrame DEF vars, peerVars, legVars, pumpVars, Relaying
<1> QED
  BY <1>1, <1>2, <1>3, <1>4, <1>5, <1>6, <1>7, <1>8, HandlerCases DEF Next

-----------------------------------------------------------------------------
LEMMA EndingsFrame ==
  ASSUME NEW p \in Peers, EndingsAreReal(p),
         pump'[p] = pump[p], inbox'[p] = inbox[p], wire'[p] = wire[p],
         ended'[p] = ended[p], hand'[p] = hand[p]
  PROVE  EndingsAreReal(p)'
  BY DEF EndingsAreReal

(* What WriteClose, and a message or pong, leave on the way to a peer.     *)
WireOK(s) == \A i \in DOMAIN s : s[i].kind = "close" => s[i].code \in Told

LEMMA WireAppend ==
  ASSUME NEW s \in Seq(Frames), WireOK(s), NEW f \in Frames,
         f.kind = "close" => f.code \in Told
  PROVE  WireOK(Append(s, f))
  BY AppendFacts DEF WireOK

LEMMA WireStep ==
  ASSUME IInv, [Next]_vars, NEW p \in Peers
  PROVE  WireOK(wire'[p])
<1> USE DEF IInv
<1>a. WireOK(wire[p]) /\ wire[p] \in Seq(Frames)
  BY DEF EndingsAreReal, WireOK, TypeOK
<1>b. WireOK(<<>>)
  BY DEF WireOK
<1>c. ASSUME NEW q \in Peers, NEW code \in Told, WriteClose(q, code)
      PROVE  WireOK(wire'[p])
  <2>1. WireOK(Append(wire[p], CloseFrame(code)))
    BY <1>a, WireAppend, FrameFacts DEF CloseFrame
  <2> QED
    BY <1>a, <1>c, <2>1 DEF WriteClose, TypeOK
<1>1. CASE Arrive \/ Stop
  BY <1>1, <1>b DEF Arrive, Stop
<1>2. CASE HandlerMoves \/ Upgrade \/ Dial
  BY <1>a, <1>2, MovesFrame DEF Upgrade, Dial
<1>3. CASE CloseGateway \/ CloseClient
  BY <1>a, <1>b, <1>3 DEF CloseGateway, CloseClient, Close, TypeOK
<1>4. ASSUME NEW q \in Peers, Pump(q) PROVE WireOK(wire'[p])
  <2>1. CASE ReadMessage(q) \/ ReadEOF(q) \/ WriteError(q)
    BY <1>a, <2>1 DEF ReadMessage, ReadEOF, WriteError, legVars
  <2>2. CASE ReadClose(q)
    <3>1. Head(inbox[q]).code \in Told
      BY <2>2, HeadTypes DEF ReadClose, EndingsAreReal, Honest
    <3> QED
      BY <1>c, <2>2, <3>1 DEF ReadClose
  <2>3. CASE ReadError(q)
    BY <1>a, <1>c, <2>3 DEF ReadError, Told
  <2>4. CASE WriteMessage(q)
    <3>1. hand[q] \in Frames /\ hand[q].kind = "message"
      BY <2>4 DEF WriteMessage, Consecutive, Relaying, TypeOK
    <3>2. WireOK(Append(wire[p], hand[q]))
      BY <1>a, <3>1, WireAppend
    <3> QED
      BY <1>a, <2>4, <3>2 DEF WriteMessage, TypeOK
  <2>5. CASE forwardCloseCode(q)
    BY <1>c, <2>5, PeerFacts DEF forwardCloseCode, EndingsAreReal
  <2> QED
    BY <1>4, <2>1, <2>2, <2>3, <2>4, <2>5 DEF Pump
<1>5. ASSUME NEW q \in Peers, ReadPing(q) PROVE WireOK(wire'[p])
  <2>1. WireOK(Append(wire[p], Sign("pong")))
    BY <1>a, WireAppend, FrameFacts DEF Sign, Kinds
  <2> QED
    BY <1>a, <1>5, <2>1 DEF ReadPing, TypeOK
<1>6. ASSUME NEW q \in Peers, PeerSend(q) \/ PeerEnds(q) PROVE WireOK(wire'[p])
  BY <1>a, <1>6 DEF PeerSend, PeerEnds, legVars
<1>7. ASSUME NEW q \in Peers, PeerReads(q) PROVE WireOK(wire'[p])
  <2>1. wire[p] # <<>> => WireOK(Tail(wire[p]))
    BY <1>a, TailFacts DEF WireOK
  <2> QED
    BY <1>a, <1>7, <2>1 DEF PeerReads, TypeOK
<1>8. CASE UNCHANGED vars
  BY <1>a, <1>8 DEF vars, legVars
<1> QED
  BY <1>1, <1>2, <1>3, <1>4, <1>5, <1>6, <1>7, <1>8, HandlerCases DEF Next

(* Before a peer has ended, only messages are on the way from it.          *)
LEMMA OnlyMessages ==
  ASSUME NEW p \in Peers, EndingsAreReal(p), ended[p] = "no"
  PROVE  \A i \in DOMAIN inbox[p] : inbox[p][i].kind = "message"
  BY DEF EndingsAreReal, Honest, Told, Codes

LEMMA EndingsStep ==
  ASSUME IInv, [Next]_vars, NEW p \in Peers
  PROVE  EndingsAreReal(p)'
<1> USE DEF IInv
<1>a. WireOK(wire'[p])
  BY WireStep
<1>b. inbox[p] \in Seq(Frames)
  BY DEF TypeOK
<1>1. CASE Arrive \/ Stop
  BY <1>1 DEF Arrive, Stop, EndingsAreReal
<1>2. CASE Handler
  <2>1. UNCHANGED <<ended, inbox, hand>> /\ (pump'[p] = pump[p] \/ pump'[p] = "read")
    BY <1>2, HandlerCases, MovesFrame DEF Upgrade, Dial, CloseGateway, CloseClient,
       Close, peerVars, pumpVars
  <2> QED
    BY <1>a, <2>1 DEF EndingsAreReal, WireOK
<1>3. ASSUME NEW q \in Peers, Pump(q) \/ ReadPing(q) PROVE EndingsAreReal(p)'
  <2>1. CASE p # q
    <3>1. pump'[p] = pump[p] /\ UNCHANGED ended
      BY <1>3, <2>1, PumpFrame
    <3>2. inbox'[p] = inbox[p] /\ hand'[p] = hand[p]
      BY <1>3, <2>1 DEF Pump, ReadMessage, ReadClose, ReadEOF, ReadError, WriteMessage,
         WriteError, forwardCloseCode, ReadPing, peerVars, TypeOK
    <3> QED
      BY <1>a, <3>1, <3>2 DEF EndingsAreReal, WireOK
  <2>2. CASE p = q /\ (ReadMessage(p) \/ ReadClose(p) \/ ReadEOF(p))
    <3>1. /\ inbox[p] # <<>> /\ inbox'[p] = Tail(inbox[p]) /\ ended' = ended
      BY <2>2 DEF ReadMessage, ReadClose, ReadEOF, TypeOK
    <3>2. \A i \in DOMAIN inbox'[p] : Honest(inbox'[p][i], ended'[p])
      BY <1>b, <3>1, TailFacts DEF EndingsAreReal
    <3>3. Honest(Head(inbox[p]), ended[p])
      BY <1>b, <3>1, TailFacts DEF EndingsAreReal
    <3>4. CASE ReadMessage(p)
      <4>1. pump'[p] = "write"
        BY <3>4 DEF ReadMessage, TypeOK
      <4> QED
        BY <1>a, <3>2, <4>1 DEF EndingsAreReal, WireOK
    <3>5. CASE ReadClose(p)
      <4>1. pump'[p] = "forward" /\ hand'[p] = Head(inbox[p])
            /\ hand'[p].kind = "close"
        BY <3>5 DEF ReadClose, TypeOK
      <4> QED
        BY <1>a, <3>1, <3>2, <3>3, <4>1 DEF EndingsAreReal, WireOK, Honest, Told, Codes
    <3>6. CASE ReadEOF(p)
      <4>1. pump'[p] = "forward" /\ hand'[p].code = "abnormal"
            /\ Head(inbox[p]).kind = "eof"
        BY <3>6 DEF ReadEOF, TypeOK, CloseFrame
      <4> QED
        BY <1>a, <3>1, <3>2, <3>3, <4>1 DEF EndingsAreReal, WireOK, Honest, Told
    <3> QED
      BY <2>2, <3>4, <3>5, <3>6
  <2>3. CASE p = q /\ ~(ReadMessage(p) \/ ReadClose(p) \/ ReadEOF(p))
    <3>1. /\ UNCHANGED <<ended, inbox>>
          /\ \/ pump'[p] \in {"read", "readError", "writeError"}
             \/ pump'[p] = "closed" /\ pump[p] = "forward"
      BY <1>3, <2>3 DEF Pump, ReadError, WriteMessage, WriteError, forwardCloseCode,
         ReadPing, Return, peerVars, TypeOK
    <3> QED
      BY <1>a, <3>1 DEF EndingsAreReal, WireOK
  <2> QED
    BY <2>1, <2>2, <2>3
<1>4. ASSUME NEW q \in Peers, PeerSend(q) \/ PeerEnds(q) \/ PeerReads(q)
      PROVE  EndingsAreReal(p)'
  <2>1. UNCHANGED <<pump, hand>>
    BY <1>4, PeerFrame
  <2>2. CASE p # q
    BY <1>4, <2>2, PeerFrame, EndingsFrame
  <2>3. ASSUME NEW f \in Frames, inbox'[p] = Append(inbox[p], f), Honest(f, ended'[p]),
               ended[p] = "no"
        PROVE  EndingsAreReal(p)'
    <3>1. \A i \in DOMAIN inbox'[p] : Honest(inbox'[p][i], ended'[p])
      BY <1>b, <2>3, OnlyMessages, AppendFacts DEF Honest
    <3> QED
      BY <1>a, <2>1, <2>3, <3>1 DEF EndingsAreReal, WireOK
  <2>4. CASE p = q /\ PeerSend(p)
    <3>1. /\ inbox'[p] = Append(inbox[p], Message(sent[p] + 1)) /\ ended[p] = "no"
          /\ Message(sent[p] + 1) \in Frames
      BY <2>4, FrameFacts DEF PeerSend, TypeOK
    <3> QED
      BY <2>3, <3>1 DEF Honest, Message
  <2>5. CASE p = q /\ PeerEnds(p)
    <3>1. ASSUME NEW code \in Codes, ended'[p] = code,
                 inbox'[p] = Append(inbox[p], CloseFrame(code))
          PROVE  EndingsAreReal(p)'
      <4>1. CloseFrame(code) \in Frames /\ Honest(CloseFrame(code), code)
        BY FrameFacts DEF Honest, CloseFrame, Told
      <4> QED
        BY <2>3, <2>5, <3>1, <4>1 DEF PeerEnds
    <3>2. ASSUME NEW how \in {"eof", "big", "reset"}, ended'[p] = how,
                 inbox'[p] = Append(inbox[p], Sign(how))
          PROVE  EndingsAreReal(p)'
      <4>1. Sign(how) \in Frames /\ Honest(Sign(how), how)
        BY FrameFacts DEF Honest, Sign, Kinds
      <4> QED
        BY <2>3, <2>5, <3>2, <4>1 DEF PeerEnds
    <3>3. ASSUME ended'[p] = "reset", inbox'[p] = Append(<<>>, Sign("reset"))
          PROVE  EndingsAreReal(p)'
      <4>1. \A i \in DOMAIN inbox'[p] : inbox'[p][i] = Sign("reset")
        BY <3>3
      <4>2. Honest(Sign("reset"), "reset")
        BY DEF Honest, Sign
      <4> QED
        BY <1>a, <2>1, <2>5, <3>3, <4>1, <4>2 DEF EndingsAreReal, WireOK, PeerEnds
    <3> QED
      BY <2>5, <3>1, <3>2, <3>3 DEF PeerEnds, TypeOK
  <2>6. CASE p = q /\ PeerReads(p)
    <3>1. wire[p] \in Seq(Frames) /\ wire[p] # <<>>
      BY <2>6 DEF PeerReads, TypeOK
    <3>2. CASE Head(wire[p]).kind = "close" /\ ended[p] = "no"
      <4>1. Answer(Head(wire[p]).code) \in Told
        BY <3>1, <3>2, TailFacts DEF Answer, EndingsAreReal, Told
      <4>2. /\ ended'[p] = Answer(Head(wire[p]).code)
            /\ inbox'[p] = Append(inbox[p], CloseFrame(Answer(Head(wire[p]).code)))
        BY <2>6, <3>2 DEF PeerReads, TypeOK
      <4>3. /\ CloseFrame(Answer(Head(wire[p]).code)) \in Frames
            /\ Honest(CloseFrame(Answer(Head(wire[p]).code)), ended'[p])
        BY <4>1, <4>2, FrameFacts DEF Honest, CloseFrame
      <4> QED
        BY <2>3, <3>2, <4>2, <4>3
    <3>3. CASE ~(Head(wire[p]).kind = "close" /\ ended[p] = "no")
      <4>1. UNCHANGED <<ended, inbox>>
        BY <2>6, <3>3 DEF PeerReads
      <4> QED
        BY <1>a, <2>1, <4>1 DEF EndingsAreReal, WireOK
    <3> QED
      BY <3>2, <3>3
  <2> QED
    BY <1>4, <2>2, <2>4, <2>5, <2>6
<1>5. CASE UNCHANGED vars
  BY <1>5, EndingsFrame DEF vars, peerVars, legVars, pumpVars
<1> QED
  BY <1>1, <1>2, <1>3, <1>4, <1>5 DEF Next

-----------------------------------------------------------------------------
(* A close frame, once written, and the end of a peer, stay until the next *)
(* request; a goroutine that has returned stays returned until then.       *)
(* A peer is told nothing before the goroutine that reads the other one    *)
(* returns, unless it had ended.                                           *)
LEMMA ToldLateStep ==
  ASSUME IInv, [Next]_vars
  PROVE  ToldLate'
<1> USE DEF IInv
<1>1. CASE Arrive \/ Stop
  BY <1>1, PeerFacts DEF Arrive, Stop, ToldLate, Running
<1>2. CASE Handler
  <2>1. CASE Dial
    BY <2>1, PeerFacts DEF Dial, Dialling, ToldLate
  <2>2. CASE ~Dial
    <3>1. UNCHANGED <<pump, told, ended>>
      BY <1>2, <2>2, HandlerCases, MovesFrame
      DEF Upgrade, CloseGateway, CloseClient, Close, peerVars, pumpVars
    <3> QED
      BY <3>1 DEF ToldLate
  <2> QED
    BY <2>1, <2>2
<1>3. ASSUME NEW q \in Peers, Pump(q) \/ ReadPing(q) PROVE ToldLate'
  <2>1. UNCHANGED ended /\ pump[q] \in Running
    BY <1>3, PumpFrame
  <2>2. \A p \in Peers : pump'[p] \in Running => pump[p] \in Running
    BY <1>3, <2>1, PumpFrame
  <2>3. CASE forwardCloseCode(q)
    <3>1. pump'[q] \notin Running
      BY <2>3 DEF forwardCloseCode, Return, Running, TypeOK
    <3>2. told'[q] = told[q]
      BY <2>3, PeerFacts DEF forwardCloseCode, WriteClose, TypeOK
    <3> QED
      BY <2>1, <2>2, <3>1, <3>2, PeerFacts DEF ToldLate
  <2>4. CASE ~forwardCloseCode(q)
    <3>1. told'[Other(q)] = told[Other(q)]
      BY <1>3, <2>4, PeerFacts DEF Pump, ReadMessage, ReadClose, ReadEOF, ReadError,
         WriteMessage, WriteError, ReadPing, WriteClose, legVars, TypeOK
    <3>2. told'[q] = told[q] \/ ended[q] # "no"
      <4>1. \/ told' = told \/ ReadClose(q)
            \/ inbox[q] # <<>> /\ Head(inbox[q]).kind = "big"
        BY <1>3, <2>4 DEF Pump, ReadMessage, ReadEOF, ReadError, WriteMessage,
           WriteError, ReadPing, legVars
      <4>2. told' = told \/ (inbox[q] # <<>> /\ Head(inbox[q]).kind \in {"close", "big"})
        BY <4>1 DEF ReadClose
      <4>3. inbox[q] # <<>> /\ Head(inbox[q]).kind \in {"close", "big"}
              => Honest(Head(inbox[q]), ended[q])
        BY HeadTypes DEF EndingsAreReal
      <4> QED
        BY <4>2, <4>3 DEF Honest, Told, Codes
    <3> QED
      BY <2>1, <2>2, <3>1, <3>2, PeerFacts DEF ToldLate
  <2> QED
    BY <2>3, <2>4
<1>4. ASSUME NEW q \in Peers, PeerSend(q) \/ PeerEnds(q) \/ PeerReads(q)
      PROVE  ToldLate'
  <2>1. UNCHANGED <<pump, told>>
    BY <1>4, PeerFrame
  <2>2. \A p \in Peers : ended[p] # "no" => ended'[p] = ended[p]
    BY <1>4 DEF PeerSend, PeerEnds, PeerReads, TypeOK
  <2> QED
    BY <2>1, <2>2, PeerFacts DEF ToldLate
<1>5. CASE UNCHANGED vars
  BY <1>5 DEF vars, peerVars, legVars, pumpVars, ToldLate
<1> QED
  BY <1>1, <1>2, <1>3, <1>4, <1>5 DEF Next

-----------------------------------------------------------------------------
LEMMA InitIInv == Init => IInv
<1> SUFFICES ASSUME Init PROVE IInv
  OBVIOUS
<1>1. Sign("none") \in Frames
  BY FrameFacts DEF Kinds
<1>2. TypeOK
  BY <1>1 DEF Init, Fresh, TypeOK, Requests, Phases
<1>3. Stage /\ Dialling /\ DoneIsReturn
  BY DEF Init, Fresh, Stage, Dialling, DoneIsReturn, Running, TwoLegs, Peers
<1>4. \A p \in Peers : Consecutive(p) /\ EndingsAreReal(p)
  BY DEF Init, Fresh, Consecutive, Relaying, EndingsAreReal
<1>5. ToldLate
  BY DEF Init, Fresh, ToldLate, Running
<1> QED
  BY <1>2, <1>3, <1>4, <1>5 DEF IInv

(* The invariant is inductive.                                             *)
THEOREM RelayInvariant == Spec => []IInv
<1>1. IInv /\ [Next]_vars => IInv'
  BY TypeStep, StageStep, ConsecutiveStep, EndingsStep, ToldLateStep DEF IInv
<1> QED
  BY <1>1, InitIInv, PTL DEF Spec

(* done is closed once and by a goroutine that returns, the handler waits  *)
(* for it, and the Gateway's leg is open only inside the client's.         *)
THEOREM RelayCorrect == Spec => []WsInv
<1>1. IInv => WsInv
  BY DEF IInv, WsInv, Stage, DoneIsReturn, NoLegs, TwoLegs, TypeOK, Phases
<1> QED
  BY <1>1, RelayInvariant, PTL

(* What a close code in hand meets.                                        *)
LEMMA ForwardStep ==
  ASSUME IInv, NEW p \in Peers, forwardCloseCode(p)
  PROVE  \/ told'[Other(p)] = hand[p].code
         \/ ended[Other(p)] # "no"
         \/ pump[Other(p)] \in {"writeError", "readError"}
         \/ Full(Other(p))
<1> DEFINE o == Other(p)
<1> USE DEF IInv
<1>1. o \in Peers /\ Other(o) = p
  BY PeerFacts
<1>2. pump[p] = "forward" /\ WriteClose(o, hand[p].code)
  BY DEF forwardCloseCode
<1>3. CASE told[o] # "none"
  BY <1>2, <1>3 DEF ToldLate, Running
<1>4. CASE ~live[o]
  <2>1. ~live["gateway"]
    BY <1>1, <1>4 DEF Stage, Peers
  <2>2. done = "closed"
    BY <1>2, <2>1 DEF DoneIsReturn, Running
  <2>3. pump[o] \in Returned
    BY <1>2, <2>2, PeerFacts DEF DoneIsReturn, Returned
  <2> QED
    BY <1>1, <2>3 DEF Returned, EndingsAreReal
<1>5. CASE Broken(o)
  BY <1>1, <1>5 DEF Broken, EndingsAreReal
<1>6. CASE CanWrite(o) /\ ~Full(o) /\ ~Broken(o)
  BY <1>1, <1>2, <1>6 DEF WriteClose, TypeOK
<1> QED
  BY <1>3, <1>4, <1>5, <1>6 DEF CanWrite

(* When a goroutine that has read a close code returns, the other peer was *)
(* sent that code, unless it had ended itself, the other direction had     *)
(* failed, or its leg was full until WriteControl's second ran out.        *)
THEOREM CloseCodesRelayed == Spec => CloseRelayed
<1> DEFINE Relays(p) ==
      pump[p] = "forward" /\ pump'[p] \in Returned
        => \/ told'[Other(p)] = hand[p].code
           \/ ended[Other(p)] # "no"
           \/ pump[Other(p)] \in {"writeError", "readError"}
           \/ Full(Other(p))
<1>1. ASSUME IInv, [Next]_vars, NEW p \in Peers,
             pump[p] = "forward", pump'[p] \in Returned
      PROVE  forwardCloseCode(p)
  <2> USE <1>1 DEF IInv
  <2>1. ~UNCHANGED pump
    BY DEF Returned
  <2>2. CASE Arrive \/ Stop
    BY <2>2 DEF Arrive, Stop, Returned
  <2>3. CASE Handler
    BY <2>1, <2>3, HandlerCases, MovesFrame
    DEF Upgrade, Dial, CloseGateway, CloseClient, Close, pumpVars, Returned
  <2>4. ASSUME NEW q \in Peers, Pump(q) \/ ReadPing(q) PROVE forwardCloseCode(p)
    <3>1. q = p
      BY <2>4, PumpFrame DEF Returned
    <3> QED
      BY <2>4, <3>1 DEF Pump, ReadMessage, ReadClose, ReadEOF, ReadError,
         WriteMessage, WriteError, ReadPing
  <2>5. ASSUME NEW q \in Peers, PeerSend(q) \/ PeerEnds(q) \/ PeerReads(q)
        PROVE  FALSE
    BY <2>1, <2>5, PeerFrame
  <2>6. CASE UNCHANGED vars
    BY <2>1, <2>6 DEF vars, pumpVars
  <2> QED
    BY <2>2, <2>3, <2>4, <2>5, <2>6 DEF Next
<1>2. IInv /\ [Next]_vars => [\A p \in Peers : Relays(p)]_vars
  BY <1>1, ForwardStep
<1> QED
  BY <1>2, RelayInvariant, PTL DEF Spec, CloseRelayed

-----------------------------------------------------------------------------
(* A step of a goroutine, as the peers see it: a message passes, one of    *)
(* them is told of the end, or nothing.                                    *)
LEMMA TellStep ==
  ASSUME IInv, NEW p \in Peers, NEW code \in MayTell(ended[p], ended[Other(p)]),
         WriteClose(p, code), UNCHANGED <<sent, ended, passed, live>>
  PROVE  R!Next \/ UNCHANGED R!vars
<1>1. CASE CanWrite(p) /\ told' = [told EXCEPT ![p] = code]
  <2>1. live["client"]
    BY <1>1 DEF CanWrite, IInv, Stage, Peers
  <2>2. R!Tell(p, code)
    BY <1>1, <2>1 DEF CanWrite, R!Tell
  <2> QED
    BY <2>2 DEF R!Next
<1>2. CASE UNCHANGED told
  BY <1>2 DEF R!vars
<1> QED
  BY <1>1, <1>2 DEF WriteClose

LEMMA PumpStep ==
  ASSUME IInv, NEW p \in Peers, Pump(p) \/ ReadPing(p)
  PROVE  R!Next \/ UNCHANGED R!vars
<1>a. TypeOK /\ EndingsAreReal(p) /\ Consecutive(p)
  BY DEF IInv
<1>b. UNCHANGED <<sent, ended, live>>
  BY <1>a, PumpFrame
<1>1. CASE ReadMessage(p) \/ ReadEOF(p) \/ WriteError(p) \/ ReadPing(p)
  BY <1>b, <1>1 DEF ReadMessage, ReadEOF, WriteError, ReadPing, legVars, R!vars
<1>2. CASE ReadClose(p)
  <2>1. Head(inbox[p]).code \in Told /\ Head(inbox[p]).code = ended[p]
    BY <1>a, <1>2, HeadTypes DEF ReadClose, EndingsAreReal, Honest
  <2>2. Head(inbox[p]).code \in MayTell(ended[p], ended[Other(p)])
    BY <2>1 DEF MayTell, Genuine
  <2> QED
    BY <1>b, <1>2, <2>2, TellStep DEF ReadClose
<1>3. CASE ReadError(p)
  <2>1. CASE UNCHANGED told
    BY <1>b, <1>3, <2>1 DEF ReadError, R!vars
  <2>2. CASE inbox[p] # <<>> /\ Head(inbox[p]).kind = "big" /\ WriteClose(p, "tooBig")
    <3>1. ended[p] = "big"
      BY <1>a, <2>2, HeadTypes DEF EndingsAreReal, Honest
    <3>2. "tooBig" \in MayTell(ended[p], ended[Other(p)])
      BY <3>1 DEF MayTell, Genuine
    <3> QED
      BY <1>b, <1>3, <2>2, <3>2, TellStep DEF ReadError
  <2> QED
    BY <1>3, <2>1, <2>2 DEF ReadError
<1>4. CASE WriteMessage(p)
  <2>1. live["client"] /\ told[Other(p)] = "none"
    BY <1>4, PeerFacts DEF WriteMessage, CanWrite, IInv, Stage, Peers
  <2>2. /\ passed[p] \in Seq(Nat) /\ sent[p] \in Nat
        /\ hand[p].n = Len(passed[p]) + 1 /\ hand[p].n <= sent[p]
    BY <1>a, <1>4 DEF WriteMessage, Consecutive, Relaying, Taken, TypeOK
  <2>3. Len(passed[p]) < sent[p]
    BY <2>2
  <2>4. /\ passed' = [passed EXCEPT ![p] = Append(@, Len(@) + 1)]
        /\ UNCHANGED told
    BY <1>4, <2>2 DEF WriteMessage
  <2>5. R!Pass(p)
    BY <1>b, <2>1, <2>3, <2>4 DEF R!Pass
  <2> QED
    BY <2>5 DEF R!Next
<1>5. CASE forwardCloseCode(p)
  <2>1. hand[p].code \in MayTell(ended[Other(p)], ended[Other(Other(p))])
    BY <1>a, <1>5, PeerFacts DEF forwardCloseCode, EndingsAreReal, MayTell, Genuine
  <2> QED
    BY <1>b, <1>5, <2>1, TellStep, PeerFacts DEF forwardCloseCode
<1> QED
  BY <1>1, <1>2, <1>3, <1>4, <1>5 DEF Pump

LEMMA PeerStep ==
  ASSUME IInv, NEW p \in Peers, PeerSend(p) \/ PeerEnds(p) \/ PeerReads(p)
  PROVE  R!Next \/ UNCHANGED R!vars
<1>a. TypeOK /\ EndingsAreReal(p)
  BY DEF IInv
<1>b. UNCHANGED <<live, told, passed>> /\ live["client"]
  BY <1>a, PeerFrame DEF IInv, Stage, Peers
<1>1. CASE PeerSend(p)
  <2>1. R!Send(p)
    BY <1>b, <1>1 DEF PeerSend, R!Send
  <2> QED
    BY <2>1 DEF R!Next
<1>2. ASSUME NEW how \in Endings, ended[p] = "no", UNCHANGED sent,
             ended' = [ended EXCEPT ![p] = how]
      PROVE  R!Next
  <2>1. R!End(p, how)
    BY <1>b, <1>2 DEF R!End
  <2> QED
    BY <2>1 DEF R!Next
<1>3. CASE PeerEnds(p)
  BY <1>2, <1>3 DEF PeerEnds, Endings, Told
<1>4. CASE PeerReads(p)
  <2>1. wire[p] \in Seq(Frames) /\ wire[p] # <<>>
    BY <1>a, <1>4 DEF PeerReads, TypeOK
  <2>2. CASE Head(wire[p]).kind = "close" /\ ended[p] = "no"
    <3>1. Answer(Head(wire[p]).code) \in Endings
      BY <1>a, <2>1, <2>2, TailFacts DEF Answer, EndingsAreReal, Told, Endings
    <3> QED
      BY <1>2, <1>4, <2>2, <3>1 DEF PeerReads
  <2>3. CASE ~(Head(wire[p]).kind = "close" /\ ended[p] = "no")
    BY <1>b, <1>4, <2>3 DEF PeerReads, R!vars
  <2> QED
    BY <2>2, <2>3
<1> QED
  BY <1>1, <1>3, <1>4

LEMMA HandlerStep ==
  ASSUME IInv, Arrive \/ Handler \/ Stop
  PROVE  R!Next \/ UNCHANGED R!vars
<1> USE DEF IInv, peerVars, pumpVars
<1>1. CASE Arrive
  <2>1. R!Connect
    BY <1>1 DEF Arrive, R!Connect, Stage, NoLegs, Peers
  <2> QED
    BY <2>1 DEF R!Next
<1>2. CASE HandlerMoves
  BY <1>2, MovesFrame DEF R!vars
<1>3. CASE Upgrade
  <2>1. Fresh /\ live'["client"] = TRUE /\ UNCHANGED <<sent, ended, passed, told>>
    BY <1>3 DEF Upgrade, Stage, TypeOK, Peers
  <2>2. R!Connect
    BY <2>1 DEF Fresh, R!Connect, Peers
  <2> QED
    BY <2>2 DEF R!Next
<1>4. CASE Dial \/ CloseGateway
  BY <1>4 DEF Dial, CloseGateway, Close, TypeOK, Peers, R!vars
<1>5. CASE CloseClient \/ Stop
  <2>1. R!Shut
    BY <1>5 DEF CloseClient, Close, Stop, R!Shut, TypeOK, Peers
  <2> QED
    BY <2>1 DEF R!Next
<1> QED
  BY <1>1, <1>2, <1>3, <1>4, <1>5, HandlerCases

(* HandleWebSocket implements Relay: with both legs, two goroutines and    *)
(* the close frames that cross, the peers see messages pass once each and  *)
(* in order, at most one close frame each, and only codes that a peer is   *)
(* the cause of.                                                           *)
THEOREM ProxyImplementsRelay == Spec => ImplementsRelay
<1>1. Init => R!Init
  BY DEF Init, Fresh, R!Init, Peers
<1>2. IInv /\ [Next]_vars => [R!Next]_(R!vars)
  <2> SUFFICES ASSUME IInv, [Next]_vars PROVE R!Next \/ UNCHANGED R!vars
    OBVIOUS
  <2>1. CASE UNCHANGED vars
    BY <2>1 DEF vars, peerVars, legVars, pumpVars, R!vars
  <2> QED
    BY <2>1, PumpStep, PeerStep, HandlerStep DEF Next
<1> QED
  BY <1>1, <1>2, RelayInvariant, PTL DEF Spec, ImplementsRelay, R!Spec
=============================================================================
