--------------------------- MODULE ConnPoolProofs ---------------------------
(***************************************************************************)
(* Proofs about module ConnPool, for any number of goroutines and any set  *)
(* of handlers: the state of the pool, and that what internal/db does with *)
(* one connection and transactions implements AtomicStore.                 *)
(***************************************************************************)
EXTENDS ConnPool, TLAPS

Names ==
  {"GetRefreshSession", "GetAccessSession", "GetMobileDevice",
   "GetDeviceAuthorization", "CreateDeviceAuthorization", "CreateMobileDevice",
   "CreateAccessSession", "CreateRefreshSession", "UpdateMobileDeviceLastSeen",
   "CreateAuditEvent", "RotateRefreshSession", "RevokeAllSessionsForDevice",
   "RevokeMobileDevice", "CleanupAuthorizations", "CleanupRefresh",
   "CleanupAccess", "AccessRows", "RefreshRows", "GetAuditEvents",
   "ListPendingDeviceAuthorizations", "UpdateDeviceAuthorizationStatus",
   "MarkDeviceAuthorizationConsumed"}

MethodSet == [name : Names, writes : Nat, error : {"must", "try"}]

(* The records of the methods.                                             *)
LEMMA MethodTypes ==
  /\ \A x \in Names, n \in Nat :
       Must(x, n) \in MethodSet /\ Try(x, n) \in MethodSet
  /\ [RevokeAllSessionsForDevice EXCEPT !.error = "try"] \in MethodSet
<1>1. \A x \in Names, n \in Nat : Must(x, n) \in MethodSet
  BY DEF MethodSet, Must
<1>2. \A x \in Names, n \in Nat : Try(x, n) \in MethodSet
  BY DEF MethodSet, Try
<1>3. [RevokeAllSessionsForDevice EXCEPT !.error = "try"]
        = Try("RevokeAllSessionsForDevice", 2)
  BY DEF RevokeAllSessionsForDevice, Must, Try
<1> QED
  BY <1>1, <1>2, <1>3 DEF Names

(* The calls of every handler are a sequence of methods.                   *)
LEMMA ProgramTypes == \A name \in Served : Program[name] \in Seq(MethodSet)
<1>1. /\ GetRefreshSession \in MethodSet /\ GetAccessSession \in MethodSet
      /\ GetMobileDevice \in MethodSet /\ GetDeviceAuth \in MethodSet
      /\ CreateDeviceAuth \in MethodSet /\ CreateDevice \in MethodSet
      /\ CreateAccess \in MethodSet /\ CreateRefresh \in MethodSet
      /\ LastSeen \in MethodSet /\ CreateAuditEvent \in MethodSet
      /\ RotateRefreshSession \in MethodSet
      /\ RevokeAllSessionsForDevice \in MethodSet
      /\ RevokeMobileDevice \in MethodSet
      /\ GetAuditEvents \in MethodSet
      /\ ListPendingDeviceAuthorizations \in MethodSet
  BY MethodTypes
  DEF Names, GetRefreshSession, GetAccessSession, GetMobileDevice, GetDeviceAuth,
      CreateDeviceAuth, CreateDevice, CreateAccess, CreateRefresh, LastSeen,
      CreateAuditEvent, RotateRefreshSession, RevokeAllSessionsForDevice,
      RevokeMobileDevice, GetAuditEvents, ListPendingDeviceAuthorizations
<1>2. /\ Refresh \in Seq(MethodSet)
      /\ Revoke \in Seq(MethodSet)
      /\ Proxied \in Seq(MethodSet)
  BY <1>1 DEF Refresh, Revoke, Proxied
<1>3. Denied \in Seq(MethodSet)
  BY <1>1, MethodTypes DEF Denied
<1>4. /\ Pairing \in Seq(MethodSet)
      /\ CleanupExpired \in Seq(MethodSet)
      /\ GetDeviceSessions \in Seq(MethodSet)
  BY <1>1, MethodTypes DEF Names, Pairing, CleanupExpired, GetDeviceSessions
<1>5. /\ <<CreateDeviceAuth>> \in Seq(MethodSet)
      /\ <<GetAuditEvents>> \in Seq(MethodSet)
      /\ <<ListPendingDeviceAuthorizations>> \in Seq(MethodSet)
      /\ <<RevokeMobileDevice>> \in Seq(MethodSet)
  BY <1>1
<1>6. /\ Program["refresh"] = Refresh /\ Program["revoke"] = Revoke
      /\ Program["proxied"] = Proxied /\ Program["denied"] = Denied
      /\ Program["pairing"] = Pairing /\ Program["cleanup"] = CleanupExpired
      /\ Program["create"] = <<CreateDeviceAuth>>
      /\ Program["sessions"] = GetDeviceSessions
      /\ Program["events"] = <<GetAuditEvents>>
      /\ Program["pending"] = <<ListPendingDeviceAuthorizations>>
      /\ Program["operator"] = <<RevokeMobileDevice>>
  BY DEF Program
<1> QED
  BY <1>2, <1>3, <1>4, <1>5, <1>6, ConnPoolAssumption

LEMMA OwnElements ==
  ASSUME NEW T, NEW s \in Seq(T), NEW U, \A i \in DOMAIN s : s[i] \in U
  PROVE  s \in Seq(U)
  OBVIOUS

(* No handler calls BeginTx.                                               *)
LEMMA HandlerTypes ==
  /\ \A h \in Handlers : h \in Seq(Methods)
  /\ \A m \in Methods : m.writes \in Nat /\ m # BeginTx
<1>1. \A h \in Handlers : h \in Seq(MethodSet)
  BY ProgramTypes DEF Handlers
<1>2. ASSUME NEW h \in Handlers PROVE h \in Seq(Methods)
  <2>1. \A i \in DOMAIN h : h[i] \in Methods
    BY DEF Methods
  <2> QED
    BY <1>1, <2>1, OwnElements
<1>3. ASSUME NEW m \in Methods PROVE m.writes \in Nat /\ m # BeginTx
  <2>1. PICK h \in Handlers : \E i \in DOMAIN h : m = h[i]
    BY DEF Methods
  <2>2. h \in Seq(MethodSet)
    BY <1>1
  <2>3. m \in MethodSet
    BY <2>1, <2>2
  <2>4. BeginTx.name \notin Names
    BY DEF BeginTx, Must, Names
  <2> QED
    BY <2>3, <2>4 DEF MethodSet
<1> QED
  BY <1>2, <1>3

LEMMA PrefixTypes ==
  ASSUME NEW m \in Methods, NEW n \in Nat, n <= m.writes
  PROVE  /\ Prefix(m, n) \in Seq(Writes)
         /\ Len(Prefix(m, n)) = n
         /\ n < m.writes => Append(Prefix(m, n), Write(m, n + 1))
                              = Prefix(m, n + 1)
<1>1. m.writes \in Nat
  BY HandlerTypes
<1>2. \A i \in 1..n : Write(m, i) \in Writes
  BY <1>1 DEF Writes
<1>3. Prefix(m, n) \in Seq(Writes) /\ Len(Prefix(m, n)) = n
  BY <1>2 DEF Prefix
<1>4. Append(Prefix(m, n), Write(m, n + 1)) = Prefix(m, n + 1)
  BY <1>3 DEF Prefix
<1> QED
  BY <1>3, <1>4

-----------------------------------------------------------------------------
(* The inductive invariant: a connection is never left in the pool while   *)
(* someone waits, nor kept by a caller of BeginTx; nobody waits who has    *)
(* it, and who has it or waits for it is still in a handler; what is open  *)
(* on it is a part, from the start, of the method its owner is in.         *)
PoolInv ==
  /\ TypeOK
  /\ conn = Nobody => waiting = {}
  /\ conn # OuterTx
  /\ conn \notin waiting
  /\ \A g \in waiting : Busy(g)
  /\ conn \in Goroutines => /\ Busy(conn)
                            /\ Len(dirty) <= Method(conn).writes
                            /\ dirty = Prefix(Method(conn), Len(dirty))
  /\ conn \notin Goroutines => dirty = <<>>

(* Initially nobody has the connection.                                    *)
LEMMA InitPool == Init => PoolInv
<1> SUFFICES ASSUME Init PROVE PoolInv
  OBVIOUS
<1> QED
  BY ConnPoolAssumption DEF Init, PoolInv, TypeOK, Busy

LEMMA PutConnKeeps ==
  ASSUME PoolInv, NEW g \in Goroutines, conn = g, PutConn,
         dirty' = <<>>,
         calls' \in [Goroutines -> Seq(Methods)],
         \A w \in Goroutines \ {g} : calls'[w] = calls[w],
         disk' \in [Goroutines -> Seq(Writes)]
  PROVE  PoolInv'
<1> USE DEF PoolInv, TypeOK, Busy, Method
<1>1. CASE waiting = {} /\ conn' = Nobody /\ UNCHANGED waiting
  BY <1>1, ConnPoolAssumption
<1>2. CASE \E w \in waiting : conn' = w /\ waiting' = waiting \ {w}
  <2>1. PICK w \in waiting : conn' = w /\ waiting' = waiting \ {w}
    BY <1>2
  <2>2. w \in Goroutines \ {g} /\ g \notin waiting /\ Busy(w)
    BY <2>1
  <2>3. calls'[w] = calls[w] /\ calls'[w] # <<>>
    BY <2>2
  <2>4. Head(calls'[w]) \in Methods
    BY <2>2, <2>3
  <2>5. Head(calls'[w]).writes \in Nat
    BY <2>4, HandlerTypes
  <2>6. /\ Len(dirty') <= Head(calls'[w]).writes
        /\ dirty' = Prefix(Head(calls'[w]), Len(dirty'))
    BY <2>5 DEF Prefix
  <2> QED
    BY <2>1, <2>2, <2>3, <2>6, ConnPoolAssumption
<1> QED
  BY <1>1, <1>2 DEF PutConn

(* The owner of the connection, and how far it is in its method.           *)
LEMMA OwnerFacts ==
  ASSUME PoolInv, NEW g \in Goroutines, conn = g
  PROVE  /\ calls[g] # <<>> /\ calls[g] \in Seq(Methods)
         /\ Method(g) \in Methods /\ Method(g).writes \in Nat
         /\ Method(g) # BeginTx
         /\ Len(dirty) \in Nat /\ Len(dirty) <= Method(g).writes
         /\ dirty = Prefix(Method(g), Len(dirty))
<1>1. calls[g] # <<>> /\ calls[g] \in Seq(Methods)
  BY DEF PoolInv, TypeOK, Busy
<1>2. Method(g) \in Methods
  BY <1>1 DEF Method
<1> QED
  BY <1>1, <1>2, HandlerTypes DEF PoolInv, TypeOK

(* The step of every action.                                               *)
LEMMA StepPool == PoolInv /\ [Next]_vars => PoolInv'
<1> SUFFICES ASSUME PoolInv, [Next]_vars PROVE PoolInv'
  OBVIOUS
<1>1. ASSUME NEW g \in Goroutines, Arrive(g) PROVE PoolInv'
  <2>1. PICK h \in Handlers : calls' = [calls EXCEPT ![g] = h]
    BY <1>1 DEF Arrive
  <2>2. calls' \in [Goroutines -> Seq(Methods)]
    BY <2>1, HandlerTypes DEF PoolInv, TypeOK
  <2>3. disk' \in [Goroutines -> Seq(Writes)]
    BY <1>1 DEF Arrive, PoolInv, TypeOK
  <2>4. g \notin waiting /\ conn # g
    BY <1>1 DEF Arrive, PoolInv, Busy
  <2>5. \A w \in Goroutines \ {g} : calls'[w] = calls[w]
    BY <2>1 DEF PoolInv, TypeOK
  <2> QED
    BY <1>1, <2>2, <2>3, <2>4, <2>5 DEF Arrive, PoolInv, TypeOK, Busy, Method
<1>2. ASSUME NEW g \in Goroutines, CheckOut(g) PROVE PoolInv'
  <2>1. CASE conn = Nobody
    <3>1. dirty = <<>>
      BY <2>1, ConnPoolAssumption DEF PoolInv
    <3>2. Method(g) \in Methods
      BY <1>2 DEF CheckOut, PoolInv, TypeOK, Busy, Method
    <3>3. Len(dirty) <= Method(g).writes /\ dirty = Prefix(Method(g), Len(dirty))
      BY <3>1, <3>2, HandlerTypes DEF Prefix
    <3> QED
      BY <1>2, <2>1, <3>1, <3>3, ConnPoolAssumption
      DEF CheckOut, PoolInv, TypeOK, Busy, Method
  <2>2. CASE conn # Nobody
    BY <1>2, <2>2 DEF CheckOut, PoolInv, TypeOK, Busy, Method
  <2> QED
    BY <2>1, <2>2
<1>3. ASSUME NEW g \in Goroutines, Exec(g) PROVE PoolInv'
  <2> DEFINE n == Len(dirty)
             m == Method(g)
  <2>1. /\ calls[g] # <<>> /\ m \in Methods /\ m.writes \in Nat
        /\ n \in Nat /\ n < m.writes /\ dirty = Prefix(m, n)
    BY <1>3, OwnerFacts DEF Exec
  <2>2. dirty' = Prefix(m, n + 1)
    <3>1. dirty' = Append(dirty, Write(m, n + 1))
      BY <1>3 DEF Exec
    <3> HIDE DEF n, m
    <3>2. Append(Prefix(m, n), Write(m, n + 1)) = Prefix(m, n + 1)
      BY <2>1, PrefixTypes
    <3> QED BY <3>1, <3>2, <2>1
  <2>3. dirty' \in Seq(Writes) /\ Len(dirty') = n + 1
    <3> HIDE DEF n, m
    <3>1. n + 1 \in Nat /\ n + 1 <= m.writes
      BY <2>1
    <3> QED BY <2>1, <2>2, <3>1, PrefixTypes
  <2> QED
    BY <1>3, <2>1, <2>2, <2>3 DEF Exec, PoolInv, TypeOK, Busy, Method
<1>4. ASSUME NEW g \in Goroutines, Commit(g) PROVE PoolInv'
  <2>1. /\ calls[g] # <<>> /\ calls[g] \in Seq(Methods)
    BY <1>4, OwnerFacts DEF Commit
  <2>2. /\ calls' = [calls EXCEPT ![g] = Tail(calls[g])]
        /\ disk' = [disk EXCEPT ![g] = disk[g] \o dirty]
        /\ dirty' = <<>> /\ conn = g
    BY <1>4 DEF Commit
  <2>3. calls' \in [Goroutines -> Seq(Methods)]
    BY <2>1, <2>2 DEF PoolInv, TypeOK
  <2>4. disk' \in [Goroutines -> Seq(Writes)]
    BY <2>2 DEF PoolInv, TypeOK
  <2>5. \A w \in Goroutines \ {g} : calls'[w] = calls[w]
    BY <2>2 DEF PoolInv, TypeOK
  <2>6. PutConn
    BY <1>4, <2>2, OwnerFacts DEF Commit
  <2> QED
    BY <2>2, <2>3, <2>4, <2>5, <2>6, PutConnKeeps
<1>5. ASSUME NEW g \in Goroutines, Rollback(g) PROVE PoolInv'
  <2>1. /\ calls[g] # <<>> /\ calls[g] \in Seq(Methods)
    BY <1>5, OwnerFacts DEF Rollback
  <2>2. /\ calls' = [calls EXCEPT ![g] = IF Method(g).error = "must" THEN <<>>
                                         ELSE Tail(calls[g])]
        /\ dirty' = <<>> /\ conn = g /\ PutConn /\ UNCHANGED disk
    BY <1>5 DEF Rollback
  <2>3. calls' \in [Goroutines -> Seq(Methods)]
    BY <2>1, <2>2 DEF PoolInv, TypeOK
  <2>4. \A w \in Goroutines \ {g} : calls'[w] = calls[w]
    BY <2>2 DEF PoolInv, TypeOK
  <2>5. disk' \in [Goroutines -> Seq(Writes)]
    BY <2>2 DEF PoolInv, TypeOK
  <2> QED
    BY <2>2, <2>3, <2>4, <2>5, PutConnKeeps
<1>6. ASSUME NEW g \in Goroutines, Answer(g) PROVE PoolInv'
  BY <1>6 DEF Answer, PoolInv, TypeOK, Busy, Method
<1>7. CASE Crash
  BY <1>7, ConnPoolAssumption DEF Crash, PoolInv, TypeOK, Busy
<1>8. CASE UNCHANGED vars
  BY <1>8 DEF vars, PoolInv, TypeOK, Busy, Method
<1> QED
  BY <1>1, <1>2, <1>3, <1>4, <1>5, <1>6, <1>7, <1>8 DEF Next, Step

(* The invariant is inductive.                                             *)
THEOREM PoolInvariant == Spec => []PoolInv
  BY InitPool, StepPool, PTL DEF Spec

(* For any number of goroutines and any of the handlers, whoever waits for *)
(* the only connection waits for a goroutine that is inside a method of DB *)
(* and waits for nothing: no handler can block itself and everyone else.   *)
THEOREM WaitersHaveAWorker == Spec => []HolderWorks
<1>1. PoolInv => HolderWorks
  BY DEF PoolInv, HolderWorks, TypeOK
<1> QED
  BY <1>1, PoolInvariant, PTL

-----------------------------------------------------------------------------
LEMMA InitAtomic == Init => Atomic!Init
  BY DEF Init, Atomic!Init

LEMMA CommitApplies ==
  ASSUME PoolInv, NEW g \in Goroutines, Commit(g)
  PROVE  Atomic!Apply(g)
<1>1. conn = g /\ Len(dirty) = Method(g).writes
  BY DEF Commit
<1>2. calls[g] # <<>> /\ dirty = Prefix(Method(g), Len(dirty))
  BY <1>1, OwnerFacts
<1>3. dirty = Statements(Head(calls[g]))
  BY <1>1, <1>2 DEF Statements, Method
<1> QED
  BY <1>2, <1>3 DEF Commit, Atomic!Apply

LEMMA StepAtomic == PoolInv /\ [Next]_vars => [Atomic!Next]_(Atomic!vars)
<1> SUFFICES ASSUME PoolInv, [Next]_vars
             PROVE  [Atomic!Next]_(Atomic!vars)
  OBVIOUS
<1> USE DEF Atomic!Next, Atomic!vars
<1>1. ASSUME NEW g \in Goroutines, Arrive(g) PROVE Atomic!Arrive(g)
  BY <1>1 DEF Arrive, Atomic!Arrive, Busy
<1>2. ASSUME NEW g \in Goroutines, CheckOut(g) \/ Exec(g)
      PROVE  UNCHANGED <<calls, disk>>
  BY <1>2 DEF CheckOut, Exec
<1>3. ASSUME NEW g \in Goroutines, Commit(g) PROVE Atomic!Apply(g)
  BY <1>3, CommitApplies
<1>4. ASSUME NEW g \in Goroutines, Rollback(g) \/ Answer(g)
      PROVE  Atomic!GiveUp(g)
  <2>1. calls[g] # <<>>
    BY <1>4, OwnerFacts DEF Rollback, Answer, Busy
  <2> QED
    BY <1>4, <2>1 DEF Rollback, Answer, Atomic!GiveUp
<1>5. CASE Crash
  BY <1>5 DEF Crash, Atomic!Crash
<1>6. CASE UNCHANGED vars
  BY <1>6 DEF vars
<1> QED
  BY <1>1, <1>2, <1>3, <1>4, <1>5, <1>6 DEF Next, Step

(* internal/db implements AtomicStore: every method of DB takes effect at  *)
(* once or not at all, whatever other goroutines do, whichever statement   *)
(* fails and wherever the process dies.  Sessions and DeviceFlow, where a  *)
(* method is one step, rest on this.                                       *)
THEOREM PoolImplementsAtomicStore == Spec => ImplementsAtomicStore
<1>1. Init => Atomic!Init
  BY InitAtomic
<1>2. PoolInv /\ [Next]_vars => [Atomic!Next]_(Atomic!vars)
  BY StepAtomic
<1> QED
  BY <1>1, <1>2, PoolInvariant, PTL DEF Spec, ImplementsAtomicStore, Atomic!Spec
=============================================================================
