---------------------------- MODULE ConfigStore ----------------------------
(***************************************************************************)
(* What the configuration operations promise, without sessions, datagrams  *)
(* or parameter names: every device is a table of values; a client's call  *)
(* takes effect on its device at one instant between its start and its     *)
(* return, or not at all, and its outcome says which.  Beside the outcome  *)
(* each client has a record of its device, which says what the device      *)
(* holds or nothing, and learns of a change only when a call succeeds.     *)
(***************************************************************************)
CONSTANTS
  Clients, Devices,
  Device,       \* Device[c]: the device client c works on, if it has one
  Slots, Values,
  Absent        \* nothing known of a slot, nothing asked of it

VARIABLES
  store,        \* what each device holds
  call,         \* the call each client is in
  outcome,      \* what its last call returned
  record        \* what it believes its device holds

storeVars == <<store, call, outcome, record>>

Operations == {"get", "get_all", "set", "reset", "get_ip", "get_uuid"}
Partial == [Slots -> Values \cup {Absent}]
Nothing == [s \in Slots |-> Absent]
Idle == [op |-> "idle", change |-> Nothing, applied |-> FALSE]

\* The table t with the slots that change names replaced.
Overlay(t, change) == [s \in Slots |-> IF change[s] = Absent THEN t[s] ELSE change[s]]

Init ==
  /\ store \in [Devices -> [Slots -> Values]]
  /\ call = [c \in Clients |-> Idle]
  /\ outcome = [c \in Clients |-> [verdict |-> "none", reading |-> Nothing]]
  /\ record = [c \in Clients |-> Nothing]

\* Client c starts a call; change is what a set asks for.
Begin(c, op, change) ==
  /\ call[c] = Idle /\ Device[c] \in Devices
  /\ op # "set" => change = Nothing
  /\ call' = [call EXCEPT ![c] = [op |-> op, change |-> change, applied |-> FALSE]]
  /\ outcome' = [outcome EXCEPT ![c] = [verdict |-> "none", reading |-> Nothing]]
  /\ UNCHANGED <<store, record>>

\* Its device takes the change, whole.
Apply(c) ==
  /\ call[c].op = "set" /\ ~call[c].applied
  /\ call' = [call EXCEPT ![c] = [op |-> "set", change |-> call[c].change, applied |-> TRUE]]
  /\ store' = [store EXCEPT ![Device[c]] = Overlay(@, call[c].change)]
  /\ UNCHANGED <<outcome, record>>

\* Slots of c's record may be brought up to date; no other client's are touched.
Learns(c) ==
  \E known \in Partial :
    /\ \A s \in Slots : known[s] = record[c][s] \/ known[s] = store[Device[c]][s]
    /\ record' = [record EXCEPT ![c] = known]

\* A set reads the device before it writes.
Learn(c) ==
  /\ call[c].op = "set" /\ ~call[c].applied
  /\ Learns(c)
  /\ UNCHANGED <<store, call, outcome>>

Returns(c, verdict, reading) ==
  /\ call' = [call EXCEPT ![c] = Idle]
  /\ outcome' = [outcome EXCEPT ![c] = [verdict |-> verdict, reading |-> reading]]
  /\ UNCHANGED store

\* A set succeeds exactly when its change was applied.
FinishSet(c) ==
  /\ call[c].op = "set"
  /\ \/ /\ call[c].applied
        /\ Returns(c, "ok", Nothing)
        /\ record' = [record EXCEPT ![c] = Overlay(@, call[c].change)]
     \/ /\ ~call[c].applied
        /\ Returns(c, "failed", Nothing)
        /\ Learns(c)

\* What a get returns is in the device as it returns.
FinishGet(c, reading) ==
  /\ call[c].op = "get"
  /\ \A s \in Slots : reading[s] = Absent \/ reading[s] = store[Device[c]][s]
  /\ Returns(c, "ok", reading)
  /\ UNCHANGED record

\* The others return nothing; only get_all updates the record.
FinishOther(c, verdict) ==
  /\ call[c].op \in Operations \ {"set"}
  /\ verdict = "ok" => call[c].op # "get"
  /\ Returns(c, verdict, Nothing)
  /\ IF call[c].op = "get_all" /\ verdict = "ok" THEN Learns(c) ELSE UNCHANGED record

\* A call that fails before it reaches the device.
Reject(c) ==
  /\ call[c] = Idle
  /\ outcome' = [outcome EXCEPT ![c] = [verdict |-> "failed", reading |-> Nothing]]
  /\ UNCHANGED <<store, call, record>>

Next ==
  \E c \in Clients :
    \/ \E op \in Operations, change \in Partial : Begin(c, op, change)
    \/ Apply(c) \/ Learn(c) \/ FinishSet(c)
    \/ \E reading \in Partial : FinishGet(c, reading)
    \/ \E verdict \in {"ok", "failed"} : FinishOther(c, verdict)
    \/ Reject(c)

Spec == Init /\ [][Next]_storeVars
=============================================================================
