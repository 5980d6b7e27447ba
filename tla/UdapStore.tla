----------------------------- MODULE UdapStore -----------------------------
(***************************************************************************)
(* UdapOps seen as ConfigStore: NVRAM is the store, a stage of waiting is  *)
(* a call, a Device's parameters are the record.  A change counts as       *)
(* applied while the device's SET_DATA answer to it is on its way.         *)
(***************************************************************************)
EXTENDS UdapOps

\* A network that delivers a reply during the wait it belongs to or never, and
\* callers that are neither cancelled nor interleaved.
Reliable == ~Late /\ ~Concurrent /\ ~Cancels /\ ~RecvFails /\ Retries = 0

\* A device has one caller, which knows its address or none, and an offset of
\* the table one name.
Exclusive ==
  /\ \A c, k \in Callers : Target[c] \in Macs /\ Target[c] = Target[k] => c = k
  /\ \A c \in Callers : Target[c] \in Macs => KnownIp[c] \in {NoIp, Address[Target[c]]}
  /\ \A m, n \in Known : SlotOf[m] = SlotOf[n] => m = n

\* Once the set of c is acknowledged, before c has taken the reply.
Acked(c) == pc[c] = "set" /\ \E r \in replies : r.src = Target[c] /\ r.method = "SET_DATA"

\* A map by the offsets of the table, as a device would hold it.
BySlot(m) == [s \in Slots |-> IF m[Canonical[s]] = Absent THEN Absent ELSE Stored[m[Canonical[s]]]]

OpOf(stage) == IF stage = "prelude" THEN "set" ELSE stage

VerdictOf(status) == IF status \in {"none", "ok"} THEN status ELSE "failed"

CallOf(c) ==
  [op |-> OpOf(pc[c]), change |-> set_data_payload(config[c]), applied |-> Acked(c)]

OutcomeOf(c) ==
  [verdict |-> VerdictOf(result[c].status), reading |-> BySlot(result[c].data)]

calls == [c \in Callers |-> CallOf(c)]
outcomes == [c \in Callers |-> OutcomeOf(c)]
records == [c \in Callers |-> BySlot(cache[c])]

Store == INSTANCE ConfigStore WITH
  Clients <- Callers, Devices <- Macs, Device <- Target,
  store <- nvram, call <- calls, outcome <- outcomes, record <- records

\* When datagrams do not outlive the wait they belong to, nothing is cancelled
\* and one caller uses a device, the operations keep the promises of
\* ConfigStore: a set is atomic and reports success exactly when the device
\* has it (ops/config.rs:209-279), a get returns what the device holds, and
\* the record learns of a change only by a set's success (the commit barrier,
\* ops/config.rs:256-258).
ImplementsStore == Store!Spec
=============================================================================
