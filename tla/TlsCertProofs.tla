---------------------------- MODULE TlsCertProofs ----------------------------
(***************************************************************************)
(* Proofs about module TlsCert, for any lifetime, renewal window, check    *)
(* interval and number of failures and crashes: the listeners hand out a   *)
(* certificate with its own key, and one that has not expired as long as   *)
(* the failures in a row fit into the renewal window.                      *)
(***************************************************************************)
EXTENDS TlsCert, TLAPS

-----------------------------------------------------------------------------
Ordered == {"writeCert", "writeKey", "store"}

(* What obtain() was given is new, as the clock waits for it.              *)
NewIsLong == pc \in Ordered => result \in Serials /\ NotAfter[result] = now + Lifetime

(* The time left when the next check comes: a certificate that passed a    *)
(* check had RenewBefore left, and every failed order since costs one      *)
(* interval.                                                               *)
Spent == (failures + (IF pc = "idle" THEN 0 ELSE 1)) * CheckInterval
           + (CheckInterval - ticker)

TimeLeft ==
  proc = "up" =>
    /\ NotAfter[cert[1]] >= now + RenewBefore - Spent
    /\ pc # "idle" => ticker = CheckInterval

TlsInv == TypeOK /\ ServedIsPaired /\ NewIsLong /\ TimeLeft

-----------------------------------------------------------------------------
(* Failed orders cost one check interval each.                             *)
LEMMA Intervals ==
  /\ \A f \in Nat : /\ f * CheckInterval \in Nat
                    /\ (f + 1) * CheckInterval = f * CheckInterval + CheckInterval
  /\ \A f \in Nat, g \in Nat : f <= g => f * CheckInterval <= g * CheckInterval
<1>1. CheckInterval \in Nat
  BY TlsCertAssumption
<1>2. \A f \in Nat : /\ f * CheckInterval \in Nat
                    /\ (f + 1) * CheckInterval = f * CheckInterval + CheckInterval
  BY <1>1
<1>3. ASSUME NEW f \in Nat, NEW g \in Nat, f <= g
      PROVE  f * CheckInterval <= g * CheckInterval
  <2>1. PICK d \in Nat : g = f + d
    BY <1>3
  <2>2. (f + d) * CheckInterval = f * CheckInterval + d * CheckInterval
    BY <1>1
  <2> QED
    BY <1>2, <2>1, <2>2
<1> QED
  BY <1>2, <1>3

(* What a failed order or startup leaves well typed.                       *)
LEMMA FailTypes ==
  ASSUME TypeOK, Fail \/ StartupFails
  PROVE  /\ failures' \in 0..MaxFailures
         /\ proc' \in {"starting", "up", "failed"}
         /\ listening' \in SUBSET Ports
         /\ pc' \in {"idle", "account", "order", "writeCert", "writeKey", "store"}
<1>1. failures' \in 0..MaxFailures
  BY TlsCertAssumption DEF TypeOK, Fail, StartupFails
<1> QED
  BY <1>1 DEF TypeOK, Fail, StartupFails, ObtainError, Fatal

LEMMA TypeStep ==
  ASSUME TlsInv, [Next]_vars
  PROVE  TypeOK'
<1> USE DEF fileVars
<1>a. TypeOK
  BY DEF TlsInv
<1>b. 0 \in Files /\ Serials \subseteq Files /\ CheckInterval \in 0..CheckInterval
  BY TlsCertAssumption DEF Files
<1>1. CASE StartCached
  <2>1. cert' \in Files \X Files
    BY <1>a, <1>1 DEF StartCached, TypeOK
  <2> QED
    BY <1>a, <1>b, <1>1, <2>1 DEF StartCached, TypeOK
<1>2. CASE StartObtain \/ RenewCheck
  BY <1>a, <1>b, <1>2 DEF StartObtain, RenewCheck, TypeOK
<1>3. CASE loadOrCreateAccountKey
  BY <1>a, <1>3, FailTypes DEF loadOrCreateAccountKey, TypeOK
<1>4. CASE Obtain
  <2>1. now + Lifetime \in Nat
    BY <1>a, TlsCertAssumption DEF TypeOK
  <2>2. NotAfter' \in [Serials -> Nat] /\ result' \in Files
    BY <1>a, <1>b, <1>4, <2>1 DEF Obtain, TypeOK
  <2> QED
    BY <1>a, <1>4, <2>2, FailTypes DEF Obtain, TypeOK
<1>5. CASE WriteCert
  BY <1>a, <1>b, <1>5, FailTypes DEF WriteCert, TypeOK
<1>6. CASE WriteKey
  BY <1>a, <1>b, <1>6, FailTypes DEF WriteKey, TypeOK
<1>7. CASE StoreCert
  <2>1. cert' \in Files \X Files /\ failures' \in 0..MaxFailures
    BY <1>a, <1>7, TlsCertAssumption DEF StoreCert, TypeOK
  <2> QED
    BY <1>a, <1>b, <1>7, <2>1 DEF StoreCert, TypeOK
<1>8. CASE ConfigRejected
  BY <1>a, <1>8, FailTypes DEF ConfigRejected, StartupFails, TypeOK
<1>9. CASE Listen \/ ListenTLS
  <2>1. CASE StartupFails
    BY <1>a, <2>1, FailTypes DEF StartupFails, TypeOK
  <2>2. CASE ~StartupFails
    <3>1. listening' \in SUBSET Ports
      BY <1>9, <2>2 DEF Listen, ListenTLS, Ports
    <3> QED
      BY <1>a, <1>9, <2>2, <3>1 DEF Listen, ListenTLS, TypeOK
  <2> QED
    BY <2>1, <2>2
<1>10. CASE RestartFailed
  <2>1. cert' \in Files \X Files /\ listening' \in SUBSET Ports
    BY <1>b, <1>10 DEF RestartFailed, Reset, NoCert
  <2> QED
    BY <1>a, <1>10, <2>1 DEF RestartFailed, Reset, TypeOK
<1>11. CASE Crash
  <2>1. cert' \in Files \X Files /\ listening' \in SUBSET Ports
    BY <1>b, <1>11 DEF Crash, Reset, NoCert
  <2>2. restarts' \in 0..MaxRestarts
    BY <1>a, <1>11, TlsCertAssumption DEF Crash, TypeOK
  <2>3. certPath' \in Files /\ keyPath' \in Files /\ accountKey' \in BOOLEAN
    BY <1>a, <1>b, <1>11 DEF Crash, TypeOK
  <2> QED
    BY <1>a, <1>11, <2>1, <2>2, <2>3 DEF Crash, Reset, TypeOK
<1>12. CASE Tick
  <2>1. now' \in 0..MaxNow /\ ticker' \in 0..CheckInterval
    BY <1>a, <1>12, TlsCertAssumption DEF Tick, TypeOK
  <2> QED
    BY <1>a, <1>12, <2>1 DEF Tick, TypeOK
<1>13. CASE UNCHANGED vars
  BY <1>a, <1>13 DEF vars, TypeOK
<1> QED
  BY <1>1, <1>2, <1>3, <1>4, <1>5, <1>6, <1>7, <1>8, <1>9, <1>10, <1>11, <1>12, <1>13
  DEF Next, Manager, Startup

(* While the process is not up, nothing is served that could be wrong.     *)
LEMMA DownStep ==
  ASSUME proc' # "up"
  PROVE  ServedIsPaired' /\ TimeLeft'
  BY DEF ServedIsPaired, TimeLeft

(* A failed order while up costs an interval; at startup the process ends. *)
LEMMA FailStep ==
  ASSUME TlsInv, Fail, pc # "idle", UNCHANGED <<now, NotAfter, cert, ticker>>
  PROVE  ServedIsPaired' /\ TimeLeft' /\ NewIsLong'
<1>1. NewIsLong'
  BY DEF Fail, ObtainError, NewIsLong, Ordered
<1>2. CASE proc = "up"
  <2>1. /\ proc' = "up" /\ pc' = "idle" /\ failures' = failures + 1
        /\ ticker = CheckInterval
    BY <1>2 DEF Fail, ObtainError, TlsInv, TimeLeft
  <2>2. Spent' = Spent
    BY <2>1, TlsCertAssumption DEF Spent, TlsInv, TypeOK
  <2> QED
    BY <1>1, <1>2, <2>1, <2>2 DEF TlsInv, TimeLeft, ServedIsPaired
<1>3. CASE proc # "up"
  <2>1. proc' # "up"
    BY <1>3 DEF Fail, ObtainError, Fatal
  <2> QED
    BY <1>1, <2>1, DownStep
<1> QED
  BY <1>2, <1>3

(* A certificate with RenewBefore left, just loaded, checked or obtained.  *)
LEMMA CheckedStep ==
  ASSUME TlsInv, TypeOK', pc' = "idle", ticker' = CheckInterval,
         cert'[1] \in Serials, NotAfter'[cert'[1]] >= now' + RenewBefore
  PROVE  TimeLeft'
<1>1. Spent' \in Nat
  <2>1. failures' \in Nat /\ CheckInterval \in Nat
    BY TlsCertAssumption DEF TypeOK
  <2>2. failures' * CheckInterval \in Nat
    BY <2>1, Intervals
  <2>3. Spent' = failures' * CheckInterval
    BY <2>1, <2>2 DEF Spent
  <2> QED
    BY <2>2, <2>3
<1>2. NotAfter'[cert'[1]] \in Nat /\ now' \in Nat /\ RenewBefore \in Nat
  <2>1. NotAfter' \in [Serials -> Nat] /\ now' \in 0..MaxNow
    BY DEF TypeOK
  <2>2. MaxNow \in Nat /\ RenewBefore \in Nat
    BY TlsCertAssumption
  <2> QED
    BY <2>1, <2>2
<1>3. NotAfter'[cert'[1]] >= now' + RenewBefore - Spent'
  BY <1>1, <1>2
<1> QED
  BY <1>3 DEF TimeLeft

LEMMA ServedStep ==
  ASSUME TlsInv, [Next]_vars
  PROVE  ServedIsPaired' /\ NewIsLong' /\ TimeLeft'
<1> USE DEF TlsInv, fileVars
<1>a. TypeOK'
  BY TypeStep
<1>b. proc = "up" => cert[1] \in Serials
  BY DEF TypeOK, ServedIsPaired, Files
<1>c. /\ now \in Nat /\ failures \in Nat /\ ticker \in Nat /\ Lifetime \in Nat
      /\ RenewBefore \in Nat /\ CheckInterval \in Nat /\ RenewBefore < Lifetime
  BY TlsCertAssumption DEF TypeOK
<1>1. CASE StartCached
  <2>1. /\ cert' = <<certPath, certPath>> /\ certPath \in Serials
        /\ pc' = "idle" /\ ticker' = CheckInterval
        /\ UNCHANGED <<NotAfter, now>>
        /\ ~(NotAfter[certPath] - now < RenewBefore)
    BY <1>1 DEF StartCached, loadCached, needsRenewal, TypeOK, Files
  <2>2. NotAfter[certPath] >= now + RenewBefore /\ certPath # 0
    BY <1>c, <2>1, TlsCertAssumption DEF TypeOK
  <2>3. TimeLeft'
    BY <1>a, <2>1, <2>2, CheckedStep
  <2> QED
    BY <1>1, <2>1, <2>2, <2>3 DEF StartCached, ServedIsPaired, NewIsLong, Ordered
<1>2. CASE StartObtain
  BY <1>2, DownStep DEF StartObtain, NewIsLong, Ordered
<1>3. CASE RenewCheck
  <2>1. /\ proc = "up" /\ pc = "idle" /\ ticker = 0 /\ ticker' = CheckInterval
        /\ UNCHANGED <<NotAfter, now, cert, proc, failures, result>>
    BY <1>3 DEF RenewCheck
  <2>2. CASE pc' = "idle"
    <3>1. ~(NotAfter[cert[1]] - now < RenewBefore)
      BY <1>3, <2>2 DEF RenewCheck, needsRenewal
    <3>2. NotAfter[cert[1]] >= now + RenewBefore
      BY <1>b, <1>c, <2>1, <3>1 DEF TypeOK
    <3>3. TimeLeft'
      BY <1>a, <1>b, <2>1, <2>2, <3>2, CheckedStep
    <3> QED
      BY <2>1, <2>2, <3>3 DEF ServedIsPaired, NewIsLong, Ordered
  <2>3. CASE pc' = "account"
    <3>1. Spent = failures * CheckInterval + CheckInterval
      BY <1>c, <2>1, Intervals DEF Spent
    <3>2. Spent' = (failures + 1) * CheckInterval
      BY <1>c, <2>1, <2>3, Intervals DEF Spent
    <3>3. Spent' = Spent
      BY <1>c, <3>1, <3>2, Intervals
    <3> QED
      BY <2>1, <2>3, <3>3 DEF TimeLeft, ServedIsPaired, NewIsLong, Ordered
  <2> QED
    BY <1>3, <2>2, <2>3 DEF RenewCheck
<1>4. CASE loadOrCreateAccountKey
  <2>1. CASE Fail
    BY <1>4, <2>1, FailStep DEF loadOrCreateAccountKey
  <2>2. CASE ~Fail
    <3>1. /\ pc # "idle" /\ pc' = "order"
          /\ UNCHANGED <<proc, failures, NotAfter, now, cert, ticker>>
      BY <1>4, <2>2 DEF loadOrCreateAccountKey
    <3> QED
      BY <3>1 DEF TimeLeft, Spent, ServedIsPaired, NewIsLong, Ordered
  <2> QED
    BY <2>1, <2>2
<1>5. CASE Obtain
  <2>1. CASE Fail /\ UNCHANGED NotAfter
    BY <1>5, <2>1, FailStep DEF Obtain
  <2>2. CASE ~(Fail /\ UNCHANGED NotAfter)
    <3>1. PICK n \in Serials \ {certPath, keyPath, cert[1], cert[2]} :
            /\ result' = n /\ NotAfter' = [NotAfter EXCEPT ![n] = now + Lifetime]
            /\ pc' = "writeCert" /\ pc # "idle"
            /\ UNCHANGED <<proc, failures, now, cert, ticker>>
      BY <1>5, <2>2 DEF Obtain
    <3>2. NotAfter'[n] = now + Lifetime
          /\ (proc = "up" => NotAfter'[cert[1]] = NotAfter[cert[1]])
      BY <1>b, <3>1 DEF TypeOK
    <3> QED
      BY <3>1, <3>2 DEF TimeLeft, Spent, ServedIsPaired, NewIsLong
  <2> QED
    BY <2>1, <2>2
<1>6. CASE WriteCert \/ WriteKey
  <2>1. CASE Fail
    BY <1>6, <2>1, FailStep DEF WriteCert, WriteKey
  <2>2. CASE ~Fail
    <3>1. /\ pc \in Ordered /\ pc' \in Ordered
          /\ UNCHANGED <<proc, failures, NotAfter, now, cert, ticker, result>>
      BY <1>6, <2>2 DEF WriteCert, WriteKey, Ordered
    <3> QED
      BY <3>1 DEF TimeLeft, Spent, ServedIsPaired, NewIsLong, Ordered
  <2> QED
    BY <2>1, <2>2
<1>7. CASE StoreCert
  <2>1. /\ result \in Serials /\ NotAfter[result] = now + Lifetime
        /\ cert' = <<result, result>> /\ pc' = "idle" /\ UNCHANGED <<NotAfter, now>>
    BY <1>7 DEF StoreCert, NewIsLong, Ordered
  <2>2. NotAfter'[cert'[1]] >= now' + RenewBefore /\ result # 0
    BY <1>c, <2>1, TlsCertAssumption
  <2>3. CASE proc \in {"starting", "up"}
    <3>1. ticker' = CheckInterval
      BY <1>7, <2>3 DEF StoreCert, TimeLeft
    <3>2. TimeLeft'
      BY <1>a, <2>1, <2>2, <3>1, CheckedStep
    <3> QED
      BY <2>1, <2>2, <3>2 DEF ServedIsPaired, NewIsLong, Ordered
  <2>4. CASE proc = "failed"
    BY <1>7, <2>1, <2>4, DownStep DEF StoreCert, NewIsLong, Ordered
  <2> QED
    BY <2>3, <2>4 DEF TypeOK
<1>8. CASE ConfigRejected
  BY <1>8, DownStep DEF ConfigRejected, StartupFails, Fatal, NewIsLong
<1>9. CASE Listen \/ ListenTLS
  <2>1. CASE StartupFails
    BY <2>1, DownStep DEF StartupFails, Fatal, NewIsLong
  <2>2. CASE ~StartupFails
    <3>1. UNCHANGED <<now, NotAfter, cert, proc, pc, result, ticker, failures>>
      BY <1>9, <2>2 DEF Listen, ListenTLS
    <3> QED
      BY <3>1 DEF TimeLeft, Spent, ServedIsPaired, NewIsLong
  <2> QED
    BY <2>1, <2>2
<1>10. CASE RestartFailed \/ Crash
  BY <1>10, DownStep DEF RestartFailed, Crash, Reset, NewIsLong, Ordered
<1>11. CASE Tick
  <2>1. /\ pc = "idle" /\ pc' = "idle" /\ now' = now + 1
        /\ UNCHANGED <<NotAfter, cert, proc, failures>>
    BY <1>11 DEF Tick
  <2>2. NewIsLong' /\ ServedIsPaired'
    BY <2>1 DEF NewIsLong, Ordered, ServedIsPaired
  <2>3. CASE proc = "up"
    <3>1. ticker' = ticker - 1
      BY <1>11, <2>3 DEF Tick
    <3>2. failures * CheckInterval \in Nat
      BY <1>c, Intervals
    <3>3. /\ Spent = failures * CheckInterval + (CheckInterval - ticker)
          /\ Spent' = failures * CheckInterval + (CheckInterval - (ticker - 1))
      BY <1>c, <2>1, <3>1 DEF Spent
    <3>4. Spent \in Int /\ Spent' = Spent + 1
      BY <1>c, <3>2, <3>3
    <3>5. NotAfter[cert[1]] \in Nat /\ NotAfter[cert[1]] >= now + RenewBefore - Spent
      BY <1>b, <2>3 DEF TypeOK, TimeLeft
    <3>6. NotAfter'[cert'[1]] >= now' + RenewBefore - Spent'
      BY <1>c, <2>1, <3>4, <3>5
    <3> QED
      BY <2>1, <2>2, <3>6 DEF TimeLeft
  <2>4. CASE proc # "up"
    BY <2>1, <2>2, <2>4, DownStep
  <2> QED
    BY <2>3, <2>4
<1>12. CASE UNCHANGED vars
  BY <1>12 DEF vars, TimeLeft, Spent, ServedIsPaired, NewIsLong
<1> QED
  BY <1>1, <1>2, <1>3, <1>4, <1>5, <1>6, <1>7, <1>8, <1>9, <1>10, <1>11, <1>12
  DEF Next, Manager, Startup

-----------------------------------------------------------------------------
(* The invariant is inductive.                                             *)
THEOREM CertificateInvariant == Spec => []TlsInv
<1>1. Init => TlsInv
  <2> SUFFICES ASSUME Init PROVE TlsInv
    OBVIOUS
  <2>1. cert \in Files \X Files /\ listening \in SUBSET Ports
    BY DEF Init, NoCert, Files
  <2>2. /\ 0 \in 0..MaxNow /\ 0 \in 0..CheckInterval /\ 0 \in 0..MaxFailures
        /\ 0 \in 0..MaxRestarts /\ 0 \in Files
    BY TlsCertAssumption DEF Files
  <2>3. NotAfter \in [Serials -> Nat]
    BY DEF Init
  <2>4. TypeOK
    BY <2>1, <2>2, <2>3 DEF Init, TypeOK
  <2>5. ServedIsPaired /\ NewIsLong /\ TimeLeft
    BY DEF Init, ServedIsPaired, NewIsLong, TimeLeft, Ordered
  <2> QED
    BY <2>4, <2>5 DEF TlsInv
<1>2. TlsInv /\ [Next]_vars => TlsInv'
  BY TypeStep, ServedStep DEF TlsInv
<1> QED
  BY <1>1, <1>2, PTL DEF Spec

(* Whatever the certificate manager, its renewals and its failures do, the *)
(* state of module TlsCert stays well typed: the files hold a known        *)
(* certificate or nothing that parses, and no counter leaves its bounds.   *)
THEOREM TlsTypeCorrect == Spec => []TypeOK
<1>1. TlsInv => TypeOK
  BY DEF TlsInv
<1> QED
  BY <1>1, CertificateInvariant, PTL

(* Whatever failed writes and crashes leave in the cache directory, the    *)
(* listeners get a certificate together with its own key.                  *)
THEOREM PairServed == Spec => []ServedIsPaired
<1>1. TlsInv => ServedIsPaired
  BY DEF TlsInv
<1> QED
  BY <1>1, CertificateInvariant, PTL

(* renewLoop comes in time: if the failed orders in a row, and the check   *)
(* that follows them, fit into renewBefore, no expired certificate is      *)
(* handed out.                                                             *)
THEOREM ValidServed == Spec => []ServedIsValid
<1>1. TlsInv => ServedIsValid
  <2> SUFFICES ASSUME TlsInv, (MaxFailures + 1) * CheckInterval <= RenewBefore,
                      proc = "up"
               PROVE  now <= NotAfter[cert[1]]
    BY DEF ServedIsValid
  <2>1. /\ cert[1] \in Serials /\ NotAfter[cert[1]] \in Nat /\ now \in Nat
        /\ NotAfter[cert[1]] >= now + RenewBefore - Spent
    BY DEF TlsInv, TypeOK, ServedIsPaired, TimeLeft, Files
  <2>2. /\ CheckInterval \in Nat /\ RenewBefore \in Nat /\ MaxFailures \in Nat
        /\ failures \in Nat /\ failures <= MaxFailures
        /\ ticker \in Nat /\ ticker <= CheckInterval
    BY TlsCertAssumption DEF TlsInv, TypeOK
  <2>3. (failures + 1) * CheckInterval <= RenewBefore
    <3>1. failures + 1 \in Nat /\ MaxFailures + 1 \in Nat
          /\ failures + 1 <= MaxFailures + 1
      BY <2>2
    <3>2. /\ (failures + 1) * CheckInterval <= (MaxFailures + 1) * CheckInterval
          /\ (failures + 1) * CheckInterval \in Nat
          /\ (MaxFailures + 1) * CheckInterval \in Nat
      BY <3>1, Intervals
    <3> QED
      BY <2>2, <3>2
  <2>4. Spent \in Int /\ Spent <= (failures + 1) * CheckInterval
    <3>1. /\ failures * CheckInterval \in Nat
          /\ (failures + 1) * CheckInterval = failures * CheckInterval + CheckInterval
      BY <2>2, Intervals
    <3>2. CASE pc = "idle"
      <4>1. Spent = failures * CheckInterval + (CheckInterval - ticker)
        BY <2>2, <3>2 DEF Spent
      <4> QED
        BY <2>2, <3>1, <4>1
    <3>3. CASE pc # "idle"
      <4>1. Spent = (failures + 1) * CheckInterval
        BY <2>2, <3>1, <3>3 DEF Spent, TlsInv, TimeLeft
      <4> QED
        BY <2>2, <3>1, <4>1
    <3> QED
      BY <3>2, <3>3
  <2> QED
    BY <2>1, <2>2, <2>3, <2>4
<1> QED
  BY <1>1, CertificateInvariant, PTL

-----------------------------------------------------------------------------
(* What a start that has to order has found in the cache, and what obtain()*)
(* has made of it: between the two writes the files do not fit.  Start is  *)
(* only called once the plain ports are bound.                             *)
Unusable == ~(loadCached /\ ~needsRenewal(certPath))

CacheInv ==
  proc = "starting" =>
    /\ pc # "idle" => listening # {}
    /\ pc \in {"account", "order", "writeCert"} => Unusable
    /\ pc = "writeCert" => result # keyPath
    /\ pc = "writeKey" => certPath = result /\ keyPath # result

LEMMA CacheStep ==
  ASSUME TypeOK, CacheInv, [Next]_vars
  PROVE  CacheInv'
<1> SUFFICES ASSUME proc' = "starting", pc' # "idle" PROVE CacheInv'
  BY DEF CacheInv
<1> USE DEF fileVars
<1>1. CASE UNCHANGED vars
  BY <1>1 DEF vars, CacheInv, Unusable, loadCached, needsRenewal
<1>2. CASE Listen
  BY <1>2 DEF Listen, StartupFails, Fatal, CacheInv, Unusable, loadCached,
     needsRenewal
<1>3. CASE StartObtain
  BY <1>3 DEF StartObtain, CacheInv, Unusable, loadCached, needsRenewal
<1>4. CASE loadOrCreateAccountKey
  BY <1>4 DEF loadOrCreateAccountKey, Fail, ObtainError, CacheInv, Unusable,
     loadCached, needsRenewal
<1>5. CASE Obtain
  <2>1. PICK n \in Serials \ {certPath, keyPath, cert[1], cert[2]} :
          /\ result' = n /\ NotAfter' = [NotAfter EXCEPT ![n] = now + Lifetime]
          /\ pc = "order" /\ pc' = "writeCert"
          /\ UNCHANGED <<now, proc, listening, certPath, keyPath>>
    BY <1>5 DEF Obtain, Fail, ObtainError
  <2>2. Unusable /\ n # certPath /\ n # keyPath
    BY <2>1 DEF CacheInv
  <2>3. NotAfter'[certPath] = NotAfter[certPath]
    BY <2>1, <2>2 DEF TypeOK
  <2> QED
    BY <2>1, <2>2, <2>3 DEF CacheInv, Unusable, loadCached, needsRenewal
<1>6. CASE WriteCert
  BY <1>6 DEF WriteCert, Fail, ObtainError, CacheInv
<1>7. CASE WriteKey
  BY <1>7 DEF WriteKey, Fail, ObtainError, CacheInv
<1>8. ~(StartCached \/ StoreCert \/ ConfigRejected \/ RestartFailed \/ Crash \/ Tick)
  BY DEF StartCached, StoreCert, ConfigRejected, StartupFails, Fatal,
     RestartFailed, Crash, Reset, Tick
<1>9. ~(RenewCheck \/ ListenTLS)
  BY DEF RenewCheck, ListenTLS, StartupFails, Fatal
<1> QED
  BY <1>1, <1>2, <1>3, <1>4, <1>5, <1>6, <1>7, <1>8, <1>9
  DEF Next, Manager, Startup

(* A failed order ends the broker only where Start had no use for the      *)
(* cache: whatever a crash between the two writes left in the files, a     *)
(* certificate outside its renewal window is loaded and no order is made.  *)
THEOREM CacheSparesTheOrder == Spec => OutageOnlyInWindow
<1>1. Init => CacheInv
  BY DEF Init, CacheInv
<1>2. TypeOK /\ CacheInv /\ [Next]_vars => CacheInv'
  BY CacheStep
<1>3. TypeOK /\ CacheInv /\ [Next]_vars =>
        [StartGivesUp => ~(loadCached /\ ~needsRenewal(certPath))]_vars
  <2> SUFFICES ASSUME TypeOK, CacheInv, Next, StartGivesUp
               PROVE  Unusable
    BY DEF Unusable, vars, StartGivesUp
  <2>1. pc # "store"
    BY DEF Next, Manager, Startup, StartCached, StartObtain, RenewCheck,
       loadOrCreateAccountKey, Obtain, WriteCert, WriteKey, StoreCert, Listen,
       ListenTLS, StartupFails, ConfigRejected, RestartFailed, Crash, Reset,
       Tick, Fatal, StartGivesUp, CacheInv
  <2> QED
    BY <2>1 DEF StartGivesUp, CacheInv, Unusable, loadCached, TypeOK
<1> QED
  BY <1>1, <1>2, <1>3, TlsTypeCorrect, PTL DEF Spec, OutageOnlyInWindow
=============================================================================
