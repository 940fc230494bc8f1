------------------------------- MODULE TlsCert -------------------------------
(***************************************************************************)
(* internal/tlscert: the Let's Encrypt certificate of the TLS listeners,   *)
(* the files it is cached in, the startup of main that waits for it        *)
(* between opening its plain and its TLS listeners, and the loop that      *)
(* renews it.  A certificate is known by a serial number, which also       *)
(* stands for its private key; a file holds the serial it was written for, *)
(* or 0 when it is missing or was torn by a crash in the middle of         *)
(* os.WriteFile.  The ACME server and Cloudflare are external.             *)
(* An order takes less than one tick of the clock.                         *)
(***************************************************************************)
EXTENDS Integers

CONSTANTS
  Serials,        \* numbers certificates are issued under; reused once free
  Lifetime,       \* validity of a certificate, in ticks
  RenewBefore,    \* renewBefore
  CheckInterval,  \* checkInterval
  MaxFailures,    \* bound: failed orders and startups in a row
  MaxNow,         \* bound: last tick of the clock
  MaxRestarts     \* bound: deaths of the process other than a failed start

ASSUME TlsCertAssumption ==
  /\ Serials \subseteq Nat \ {0}
  /\ Lifetime \in Nat /\ RenewBefore \in Nat /\ RenewBefore < Lifetime
  /\ CheckInterval \in Nat \ {0}
  /\ MaxFailures \in Nat /\ MaxNow \in Nat /\ MaxRestarts \in Nat

VARIABLES
  now,         \* the clock
  NotAfter,    \* serial -> last tick the certificate is valid
  certPath,    \* contents of <domain>.crt
  keyPath,     \* contents of <domain>.key
  accountKey,  \* whether account.key is readable
  cert,        \* m.cert as <<certificate, key>>, or NoCert
  proc,        \* "starting", "up", or "failed" by log.Fatalf
  listening,   \* kinds of ports that are served
  pc,          \* where obtain() is
  result,      \* the certificate obtain() was given
  ticker,      \* ticks until the ticker of renewLoop fires
  failures,    \* failed orders and startups since the last good order
  restarts     \* deaths so far

vars == <<now, NotAfter, certPath, keyPath, accountKey, cert, proc,
          listening, pc, result, ticker, failures, restarts>>
fileVars == <<certPath, keyPath, accountKey>>

-----------------------------------------------------------------------------
Files  == Serials \cup {0}
NoCert == <<0, 0>>
Ports  == {"http", "https"}   \* ListenPorts and TLSPorts; each set is not empty

TypeOK ==
  /\ now \in 0..MaxNow
  /\ NotAfter \in [Serials -> Nat]
  /\ certPath \in Files /\ keyPath \in Files
  /\ accountKey \in BOOLEAN
  /\ cert \in Files \X Files
  /\ proc \in {"starting", "up", "failed"}
  /\ listening \in SUBSET Ports
  /\ pc \in {"idle", "account", "order", "writeCert", "writeKey", "store"}
  /\ result \in Files
  /\ ticker \in 0..CheckInterval
  /\ failures \in 0..MaxFailures
  /\ restarts \in 0..MaxRestarts

Init ==
  /\ now = 0
  /\ NotAfter = [n \in Serials |-> 0]
  /\ certPath = 0 /\ keyPath = 0 /\ accountKey = FALSE
  /\ cert = NoCert
  /\ proc = "starting"
  /\ listening = {}
  /\ pc = "idle"
  /\ result = 0
  /\ ticker = 0
  /\ failures = 0
  /\ restarts = 0

-----------------------------------------------------------------------------
(* Mutant: "< renewBefore" against the wrong sign.                         *)
needsRenewal_Late(n) == NotAfter[n] - now < 0

needsRenewal(n) == NotAfter[n] - now < RenewBefore

(* Mutant: the key is not compared with the certificate.                   *)
loadCached_Unpaired == certPath # 0 /\ keyPath # 0

(* tls.LoadX509KeyPair: both files parse and the key fits.                 *)
loadCached == certPath # 0 /\ keyPath = certPath

-----------------------------------------------------------------------------
(* main.  log.Fatalf ends the process and whatever it listens on.          *)
Fatal == proc' = "failed" /\ listening' = {}

StartupFails ==
  /\ failures < MaxFailures
  /\ failures' = failures + 1
  /\ Fatal
  /\ UNCHANGED <<now, NotAfter, fileVars, cert, pc, result, ticker, restarts>>

(* LoadConfig rejects the environment.                                     *)
ConfigRejected ==
  /\ proc = "starting" /\ listening = {}
  /\ StartupFails

(* Every plain port is bound before any of them is served.                 *)
Listen ==
  /\ proc = "starting" /\ listening = {}
  /\ \/ /\ listening' = {"http"}
        /\ UNCHANGED <<now, NotAfter, fileVars, cert, proc, pc, result, ticker,
                       failures, restarts>>
     \/ StartupFails

(* Mutant: a TLS port that cannot be bound is only logged.                 *)
ListenTLS_Logged ==
  /\ proc = "up" /\ listening = {"http"} /\ pc = "idle"
  /\ ticker' = CheckInterval
  /\ listening' = {"http"}
  /\ UNCHANGED <<now, NotAfter, fileVars, cert, proc, pc, result, failures,
                 restarts>>

(* The TLS ports, once Start has returned.                                 *)
ListenTLS ==
  /\ proc = "up" /\ listening = {"http"} /\ pc = "idle"
  /\ \/ /\ listening' = Ports
        /\ UNCHANGED <<now, NotAfter, fileVars, cert, proc, pc, result, ticker,
                       failures, restarts>>
     \/ StartupFails

(* Start.                                                                  *)
StartCached ==
  /\ proc = "starting" /\ listening # {} /\ pc = "idle"
  /\ loadCached /\ ~needsRenewal(certPath)
  /\ cert' = <<certPath, keyPath>>
  /\ proc' = "up"
  /\ ticker' = CheckInterval
  /\ UNCHANGED <<now, NotAfter, fileVars, listening, pc, result, failures,
                 restarts>>

(* Mutant: only a missing certificate is obtained.                         *)
StartObtain_Missing ==
  /\ proc = "starting" /\ listening # {} /\ pc = "idle"
  /\ certPath = 0
  /\ pc' = "account"
  /\ UNCHANGED <<now, NotAfter, fileVars, cert, proc, listening, result, ticker,
                 failures, restarts>>

(* Mutant: the cache is not looked at.                                     *)
StartObtain_NoCache ==
  /\ proc = "starting" /\ listening # {} /\ pc = "idle"
  /\ pc' = "account"
  /\ UNCHANGED <<now, NotAfter, fileVars, cert, proc, listening, result, ticker,
                 failures, restarts>>

StartObtain ==
  /\ proc = "starting" /\ listening # {} /\ pc = "idle"
  /\ ~(loadCached /\ ~needsRenewal(certPath))
  /\ pc' = "account"
  /\ UNCHANGED <<now, NotAfter, fileVars, cert, proc, listening, result, ticker,
                 failures, restarts>>

(* Mutant: the ticker is not set again.                                    *)
RenewCheck_NotAgain ==
  /\ proc = "up" /\ pc = "idle" /\ ticker = 0
  /\ ticker' = ticker - 1
  /\ pc' = IF cert # NoCert /\ ~needsRenewal(cert[1]) THEN "idle" ELSE "account"
  /\ UNCHANGED <<now, NotAfter, fileVars, cert, proc, listening, result,
                 failures, restarts>>

(* One round of renewLoop.                                                 *)
RenewCheck ==
  /\ proc = "up" /\ pc = "idle" /\ ticker = 0
  /\ ticker' = CheckInterval
  /\ pc' = IF cert # NoCert /\ ~needsRenewal(cert[1]) THEN "idle" ELSE "account"
  /\ UNCHANGED <<now, NotAfter, fileVars, cert, proc, listening, result,
                 failures, restarts>>

-----------------------------------------------------------------------------
(* obtain().  An error ends it: at startup main dies of it, afterwards     *)
(* renewLoop logs it.                                                      *)
ObtainError ==
  /\ pc' = "idle"
  /\ IF proc = "starting" THEN Fatal ELSE UNCHANGED <<proc, listening>>

Fail ==
  /\ failures < MaxFailures
  /\ failures' = failures + 1
  /\ ObtainError

loadOrCreateAccountKey ==
  /\ pc = "account"
  /\ \/ /\ accountKey' = TRUE
        /\ pc' = "order"
        /\ UNCHANGED <<proc, listening, failures>>
     \/ /\ ~accountKey            \* os.WriteFile fails
        /\ UNCHANGED accountKey
        /\ Fail
  /\ UNCHANGED <<now, NotAfter, certPath, keyPath, cert, result, ticker,
                 restarts>>

(* Registration, the DNS-01 challenge and the order.                       *)
Obtain ==
  /\ pc = "order"
  /\ \/ \E n \in Serials \ {certPath, keyPath, cert[1], cert[2]} :
          /\ result' = n
          /\ NotAfter' = [NotAfter EXCEPT ![n] = now + Lifetime]
          /\ pc' = "writeCert"
          /\ UNCHANGED <<proc, listening, failures>>
     \/ /\ Fail
        /\ UNCHANGED <<NotAfter, result>>
  /\ UNCHANGED <<now, fileVars, cert, ticker, restarts>>

(* os.WriteFile truncates first, so a failed write leaves a torn file.     *)
WriteCert ==
  /\ pc = "writeCert"
  /\ \/ /\ certPath' = result
        /\ pc' = "writeKey"
        /\ UNCHANGED <<proc, listening, failures>>
     \/ /\ certPath' \in {certPath, 0}
        /\ Fail
  /\ UNCHANGED <<now, NotAfter, keyPath, accountKey, cert, result, ticker,
                 restarts>>

WriteKey ==
  /\ pc = "writeKey"
  /\ \/ /\ keyPath' = result
        /\ pc' = "store"
        /\ UNCHANGED <<proc, listening, failures>>
     \/ /\ keyPath' \in {keyPath, 0}
        /\ Fail
  /\ UNCHANGED <<now, NotAfter, certPath, accountKey, cert, result, ticker,
                 restarts>>

(* tls.X509KeyPair of the result and m.cert.Store.                         *)
StoreCert ==
  /\ pc = "store"
  /\ cert' = <<result, result>>
  /\ pc' = "idle"
  /\ failures' = 0
  /\ IF proc = "starting" THEN proc' = "up" /\ ticker' = CheckInterval
                          ELSE UNCHANGED <<proc, ticker>>
  /\ UNCHANGED <<now, NotAfter, fileVars, listening, result, restarts>>

-----------------------------------------------------------------------------
(* The pod is restarted: after a failed start always, otherwise because    *)
(* the process died, which may tear the file being written.                *)
Reset ==
  /\ cert' = NoCert
  /\ proc' = "starting"
  /\ listening' = {}
  /\ pc' = "idle"
  /\ UNCHANGED <<now, NotAfter, result, ticker, failures>>

RestartFailed ==
  /\ proc = "failed"
  /\ Reset
  /\ UNCHANGED <<fileVars, restarts>>

Crash ==
  /\ proc # "failed"
  /\ restarts < MaxRestarts
  /\ restarts' = restarts + 1
  /\ certPath' \in IF pc = "writeCert" THEN {certPath, 0} ELSE {certPath}
  /\ keyPath' \in IF pc = "writeKey" THEN {keyPath, 0} ELSE {keyPath}
  /\ accountKey' \in IF pc = "account" THEN {accountKey, FALSE} ELSE {accountKey}
  /\ Reset

Tick ==
  /\ now < MaxNow
  /\ pc = "idle" /\ proc # "starting"
  /\ proc = "up" => ticker > 0 /\ listening = Ports
  /\ now' = now + 1
  /\ ticker' = IF proc = "up" THEN ticker - 1 ELSE ticker
  /\ UNCHANGED <<NotAfter, fileVars, cert, proc, listening, pc, result,
                 failures, restarts>>

-----------------------------------------------------------------------------
Manager == \/ StartCached \/ StartObtain \/ RenewCheck
           \/ loadOrCreateAccountKey \/ Obtain \/ WriteCert \/ WriteKey
           \/ StoreCert

Startup == Listen \/ ListenTLS

Next == Manager \/ Startup \/ ConfigRejected \/ RestartFailed \/ Crash \/ Tick

Spec == Init /\ [][Next]_vars

(* The goroutines of main and of the manager run, and the kubelet restarts *)
(* a dead broker.                                                          *)
FairSpec ==
  Spec /\ WF_vars(Manager) /\ WF_vars(Startup) /\ WF_vars(RestartFailed)

-----------------------------------------------------------------------------
(* The files are written one after the other and a crash can leave them    *)
(* from different orders or torn; the listeners never get a certificate    *)
(* with another certificate's key.                                         *)
ServedIsPaired == proc = "up" => cert[1] # 0 /\ cert[1] = cert[2]

(* As long as the failures in a row fit between two checks and the expiry, *)
(* the certificate GetCertificate hands out has not expired: renewLoop's   *)
(* check cannot come too late, whenever in its life the certificate was    *)
(* loaded from the cache.                                                  *)
ServedIsValid ==
  (MaxFailures + 1) * CheckInterval <= RenewBefore =>
    (proc = "up" => now <= NotAfter[cert[1]])

(* A broker that is down or starting comes up again.                       *)
ComesUp == proc # "up" ~> proc = "up"

(* main.go: "Bind every port up front so a bad port [...] fails startup    *)
(* immediately instead of silently running on a subset of the configured   *)
(* ports".  The TLS ports are bound only after the plain ones are served   *)
(* and a certificate was obtained, so a part of the ports may be served    *)
(* for as long as an order takes, but it does not stay like that.          *)
NoSubset == listening \notin {{}, Ports} ~> listening \in {{}, Ports}

(* Start gives up on an error of obtain().                                 *)
StartGivesUp == proc = "starting" /\ pc # "idle" /\ proc' = "failed"

(* Start "loads a cached certificate if it's still valid for a while":     *)
(* with files torn or from different orders, a start fails for want of an  *)
(* order only without a usable cache or inside the renewal window, never   *)
(* next to a certificate that loadCached would have given it.              *)
OutageOnlyInWindow ==
  [][StartGivesUp => ~(loadCached /\ ~needsRenewal(certPath))]_vars
=============================================================================
