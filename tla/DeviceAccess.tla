---------------------------- MODULE DeviceAccess ----------------------------
(***************************************************************************)
(* What the session endpoints and the access gate promise together about a *)
(* device: it is admitted when it is paired, it is connected to the        *)
(* Gateway only out of being admitted, and once it is out it stays out:    *)
(* the way back is to pair again, as another device.                       *)
(***************************************************************************)
CONSTANT Devices   \* ids of devices

VARIABLES
  paired,     \* devices that were ever paired
  admitted,   \* devices that have, or are about to be given, access
  connected   \* devices the Gateway is talking to

vars == <<paired, admitted, connected>>

Init == paired = {} /\ admitted = {} /\ connected = {}

Pair(d) ==
  /\ d \notin paired
  /\ paired' = paired \cup {d}
  /\ admitted' = admitted \cup {d}
  /\ UNCHANGED connected

(* The request that asked for the connection may be all that was left of   *)
(* the device's access.                                                    *)
Connect(d) ==
  /\ d \in admitted
  /\ connected' = connected \cup {d}
  /\ admitted' \in SUBSET admitted
  /\ UNCHANGED paired

(* Devices log out, are denied or revoked, let their sessions expire, or   *)
(* lose their requests with the process; exchanges with the Gateway end.   *)
Leave ==
  /\ admitted' \in SUBSET admitted
  /\ connected' \in SUBSET connected
  /\ UNCHANGED paired

Next == Leave \/ \E d \in Devices : Pair(d) \/ Connect(d)

Spec == Init /\ [][Next]_vars
=============================================================================
