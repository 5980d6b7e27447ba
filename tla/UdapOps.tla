------------------------------- MODULE UdapOps -------------------------------
(***************************************************************************)
(* The configuration operations of the udap crate: callers that each hold  *)
(* one Device run get, get_all, set, reset, get_ip and get_uuid over one   *)
(* shared Session, against Squeezebox devices reached by datagrams.        *)
(*                                                                         *)
(*   Session      crates/udap/src/session.rs                               *)
(*   operations   crates/udap/src/ops/{config,getip,getuuid,mod}.rs        *)
(*   Device       crates/udap/src/device.rs (its parameters map)           *)
(*   the device   crates/mocksbr/src/{network,state,responses}.rs          *)
(*                                                                         *)
(* A request is built and sent in one step, up to the first wait for a     *)
(* reply; each reply taken from the transport is one step of the caller    *)
(* that took it, up to its next wait or its return.  Datagrams in flight   *)
(* form two sets, so that they may be delivered in any order or never.     *)
(***************************************************************************)
EXTENDS Naturals

CONSTANTS
  Callers,      \* tasks, each holding one Device
  Macs,         \* devices on the network
  ZeroMac,      \* the MAC of a Device that discovery did not fill in
  Target,       \* Target[c]: the mac field of the Device c holds
  KnownIp,      \* KnownIp[c]: its ip field, NoIp when empty
  Address,      \* Address[d]: where device d's replies come from
  NoIp,
  Names,        \* keys of a parameters map, known to the table or not
  Slots,        \* NVRAM offsets of the parameter table
  SlotOf,       \* the table: known name or alias |-> offset (by_name)
  Canonical,    \* offset |-> the table's name for it (by_offset)
  Rank,         \* the iteration order of a BTreeMap over Names
  Synthetic,    \* the names "offset_NNN"
  Values,       \* parameter values
  Unencodable,  \* the values Parameter::encode refuses
  Stored,       \* Stored[v]: what a device that was sent v reads back as
  Absent,       \* no value: the key is not in the map
  Seed,         \* Seed[d]: what device d holds at first

  Ops,          \* the operations the callers run
  Configs,      \* the maps they pass to set
  Requested,    \* the sets of names they pass to get

  Retries,      \* Session.retries
  SendFails,    \* whether a transmission may fail
  RecvFails,    \* whether a receive may fail
  Cancels,      \* whether the cancellation token may fire
  Late,         \* whether a datagram may outlive the wait it belongs to
  Concurrent,   \* whether two callers may be inside an operation at once
  Refusals,     \* methods a device may answer with instead of obeying
  Garbles,      \* whether a GET_DATA or GET_UUID reply may fail to decode
  MaxSequence   \* bound: no operation starts at or beyond this sequence

AllOps == {"get", "get_all", "set", "reset", "get_ip", "get_uuid"}
Methods == {"GET_DATA", "SET_DATA", "RESET", "GET_IP", "GET_UUID"}
RefusalMethods == {"ERROR", "CREDENTIALS_ERROR", "UNRECOGNISED"}

SequenceSpace == 65536         \* an AtomicU16

Known == DOMAIN SlotOf
Maybe == Values \cup {Absent}
Map == [Names -> Maybe]        \* a BTreeMap<String, Vec<u8>>
Image == [Slots -> Maybe]      \* the items of a SET_DATA request
Empty == [n \in Names |-> Absent]
NoItems == [s \in Slots |-> Absent]

ASSUME TableAssumption ==
  /\ Known \subseteq Names /\ SlotOf \in [Known -> Slots]
  /\ Canonical \in [Slots -> Known]
  /\ \A s \in Slots : SlotOf[Canonical[s]] = s
  /\ Rank \in [Names -> Nat]
  /\ \A m, n \in Names : Rank[m] = Rank[n] => m = n
  /\ \A S \in SUBSET Names : S # {} => \E n \in S : \A k \in S : Rank[k] <= Rank[n]
  /\ Synthetic \subseteq Names \ Known
  /\ Absent \notin Values /\ Unencodable \subseteq Values
  /\ Stored \in [Values -> Values] /\ \A v \in Values : Stored[Stored[v]] = Stored[v]

ASSUME PartiesAssumption ==
  /\ ZeroMac \notin Macs
  /\ Target \in [Callers -> Macs \cup {ZeroMac}]
  /\ Seed \in [Macs -> [Slots -> Values \ Unencodable]]
  /\ \A d \in Macs, s \in Slots : Stored[Seed[d][s]] = Seed[d][s]

ASSUME UsageAssumption ==
  /\ Ops \subseteq AllOps
  /\ Configs \subseteq Map
  /\ Requested \subseteq SUBSET Names
  /\ Retries \in Nat /\ MaxSequence \in Nat
  /\ {SendFails, RecvFails, Cancels, Late, Concurrent, Garbles} \subseteq BOOLEAN
  /\ Refusals \subseteq RefusalMethods

VARIABLES
  working,      \* DeviceState.working of each device
  nvram,        \* DeviceState.nvram
  requests,     \* datagrams on their way to a device
  replies,      \* datagrams on their way to the session
  sequence,     \* Session.sequence
  pc,           \* what each caller waits for, "idle" outside an operation
  awaiting,     \* sequence number of the request it sent last
  config,       \* the argument of a set in progress
  cache,        \* Device.parameters of the Device each caller holds
  result,       \* what its last operation returned
  held          \* history: every value each device has ever held

deviceVars == <<working, nvram, held>>
callerVars == <<pc, awaiting, config, cache, result>>
vars == <<deviceVars, requests, replies, sequence, callerVars>>

(***************************************************************************)
(* Maps and payloads.                                                      *)
(***************************************************************************)
Keys(m) == {n \in Names : m[n] # Absent}

\* BTreeMap::extend: the entries of n replace or join those of m.
Extend(m, n) == [k \in Names |-> IF n[k] = Absent THEN m[k] ELSE n[k]]

\* The known names of m that the table puts at offset s.
NamesAt(m, s) == {n \in Keys(m) \cap Known : SlotOf[n] = s}

\* Two names of one offset both become items, in map order because the sort
\* by offset is stable; the device keeps the later one.
LastOf(S) == CHOOSE n \in S : \A k \in S : Rank[k] <= Rank[n]

set_data_payload(m) ==
  [s \in Slots |->
     IF NamesAt(m, s) = {} THEN Absent ELSE Stored[m[LastOf(NamesAt(m, s))]]]

Encodable(m) == \A n \in Keys(m) \cap Known : m[n] \notin Unencodable

get_data_payload(S) == {SlotOf[n] : n \in S \cap Known}

\* Mutant of parse_response: the cursor never moves past the first item.
parse_response_Stuck(image, slots) ==
  [n \in Names |->
     IF \E s \in slots : n = Canonical[s] THEN image[CHOOSE s \in slots : TRUE] ELSE Absent]

\* What parse_response makes of a device's answer for the given offsets.
parse_response(image, slots) ==
  [n \in Names |->
     IF \E s \in slots : n = Canonical[s] THEN image[SlotOf[n]] ELSE Absent]

(***************************************************************************)
(* Messages.  copy tells the retransmissions of one request apart.         *)
(***************************************************************************)
Request == [dst : Macs, sequence : Nat, copy : 0..Retries,
            method : Methods, slots : SUBSET Slots, items : Image]
Reply == [src : Macs, sequence : Nat, copy : 0..Retries,
          method : Methods \cup RefusalMethods, decodes : BOOLEAN, data : Map]

Status == {"none", "ok", "ZeroMac", "Send", "Recv", "Cancelled", "Encode", "Decode",
           "Refused", "CredentialsRejected", "UnexpectedMethod", "MissingUuid"}
Stage == {"idle", "get", "get_all", "prelude", "set", "reset", "get_ip", "get_uuid"}

TypeOK ==
  /\ working \in [Macs -> [Slots -> Values]]
  /\ nvram \in [Macs -> [Slots -> Values]]
  /\ held \in [Macs -> [Slots -> SUBSET Values]]
  /\ requests \subseteq Request
  /\ replies \subseteq Reply
  /\ sequence \in 0..SequenceSpace - 1
  /\ pc \in [Callers -> Stage]
  /\ awaiting \in [Callers -> Nat]
  /\ config \in [Callers -> Map]
  /\ cache \in [Callers -> Map]
  /\ result \in [Callers -> [status : Status, data : Map]]

Init ==
  /\ working = Seed
  /\ nvram = Seed
  /\ held = [d \in Macs |-> [s \in Slots |-> {Seed[d][s]}]]
  /\ requests = {} /\ replies = {}
  /\ sequence = 0
  /\ pc = [c \in Callers |-> "idle"]
  /\ awaiting = [c \in Callers |-> 0]
  /\ config = [c \in Callers |-> Empty]
  /\ cache = [c \in Callers |-> Empty]
  /\ result = [c \in Callers |-> [status |-> "none", data |-> Empty]]

(***************************************************************************)
(* Session.                                                                *)
(***************************************************************************)
\* The transmissions of send_retried that succeed.
Attempts == IF SendFails THEN SUBSET (0..Retries) ELSE {0..Retries}

NextSequence == (sequence + 1) % SequenceSpace

Datagrams(c, method, slots, items, sent) ==
  {[dst |-> Target[c], sequence |-> NextSequence, copy |-> i, method |-> method,
    slots |-> slots, items |-> items] : i \in sent}

\* The datagrams of pool still in flight once the wait of c is over.
Surviving(pool, c) ==
  IF Late THEN pool ELSE {m \in pool : m.sequence # awaiting[c]}

\* Returning from an operation.
Return(c, status, data) ==
  /\ pc' = [pc EXCEPT ![c] = "idle"]
  /\ config' = [config EXCEPT ![c] = Empty]
  /\ result' = [result EXCEPT ![c] = [status |-> status, data |-> data]]

\* Building a request, sending it, and waiting in the given stage; the caller
\* returns instead when every transmission failed.
SendAndWait(c, stage, method, slots, items, arg, pool) ==
  /\ sequence' = NextSequence
  /\ awaiting' = [awaiting EXCEPT ![c] = NextSequence]
  /\ \E sent \in Attempts :
       /\ requests' = pool \cup Datagrams(c, method, slots, items, sent)
       /\ \/ /\ sent = {}
             /\ Return(c, "Send", Empty)
          \/ /\ sent # {}
             /\ pc' = [pc EXCEPT ![c] = stage]
             /\ config' = [config EXCEPT ![c] = arg]
             /\ result' = [result EXCEPT ![c] = [status |-> "none", data |-> Empty]]

\* Mutants of FromDevice: the MAC is not compared; an empty ip is compared.
FromAnyone(c, r) == KnownIp[c] \in {NoIp, Address[r.src]}
FromKnownIp(c, r) == r.src = Target[c] /\ KnownIp[c] = Address[r.src]

\* The filter of wait_for_reply: the MAC always, the address when known.
FromDevice(c, r) ==
  /\ r.src = Target[c]
  /\ KnownIp[c] \in {NoIp, Address[r.src]}

\* c takes reply r from the transport in the given stage and r passes.
Takes(c, r, stage) == pc[c] = stage /\ r \in replies /\ FromDevice(c, r)

\* wait_for_reply ignores a reply that does not pass, and waits on.
Discard(c, r) ==
  /\ pc[c] # "idle" /\ r \in replies /\ ~FromDevice(c, r)
  /\ replies' = replies \ {r}
  /\ UNCHANGED <<deviceVars, requests, sequence, callerVars>>

\* c's operation ends with the reply r, leaving its Device with parameters.
EndWith(c, r, status, data, parameters) ==
  /\ requests' = Surviving(requests, c)
  /\ replies' = Surviving(replies \ {r}, c)
  /\ cache' = [cache EXCEPT ![c] = parameters]
  /\ Return(c, status, data)
  /\ UNCHANGED <<deviceVars, sequence, awaiting>>

(***************************************************************************)
(* The operations.                                                         *)
(***************************************************************************)
\* Caller c may call op now.
MayCall(c, op) ==
  /\ op \in Ops /\ pc[c] = "idle" /\ sequence < MaxSequence
  /\ Concurrent \/ \A k \in Callers : pc[k] = "idle"

\* Every operation refuses a device without a MAC before anything else.
ZeroMacGuard(c, op) ==
  /\ MayCall(c, op) /\ Target[c] = ZeroMac
  /\ Return(c, "ZeroMac", Empty)
  /\ UNCHANGED <<deviceVars, requests, replies, sequence, awaiting, cache>>

\* The first step of an operation that opens with a request.
Call(c, op, stage, method, slots, items, arg) ==
  /\ MayCall(c, op) /\ Target[c] # ZeroMac
  /\ SendAndWait(c, stage, method, slots, items, arg, requests)
  /\ UNCHANGED <<deviceVars, replies, cache>>

Get(c) ==
  \/ \E S \in Requested : Call(c, "get", "get", "GET_DATA", get_data_payload(S), NoItems, Empty)
  \/ ZeroMacGuard(c, "get")
GetAll(c) ==
  \/ Call(c, "get_all", "get_all", "GET_DATA", get_data_payload(Names), NoItems, Empty)
  \/ ZeroMacGuard(c, "get_all")
\* Mutant of Reset: the guard against a zero MAC is gone.
ResetUnguarded(c) ==
  /\ MayCall(c, "reset")
  /\ SendAndWait(c, "reset", "RESET", {}, NoItems, Empty, requests)
  /\ UNCHANGED <<deviceVars, replies, cache>>
Reset(c) ==
  \/ Call(c, "reset", "reset", "RESET", {}, NoItems, Empty)
  \/ ZeroMacGuard(c, "reset")
GetIp(c) ==
  \/ Call(c, "get_ip", "get_ip", "GET_IP", {}, NoItems, Empty)
  \/ ZeroMacGuard(c, "get_ip")
GetUuid(c) ==
  \/ Call(c, "get_uuid", "get_uuid", "GET_UUID", {}, NoItems, Empty)
  \/ ZeroMacGuard(c, "get_uuid")

\* set sends the map it found merged with the caller's; a value that does
\* not encode ends it with the sequence number already taken.
SendSet(c, parameters, arg, pool) ==
  LET merged == Extend(parameters, arg)
  IN \/ /\ Encodable(merged)
        /\ SendAndWait(c, "set", "SET_DATA", {}, set_data_payload(merged), arg, pool)
     \/ /\ ~Encodable(merged)
        /\ sequence' = NextSequence
        /\ requests' = pool
        /\ Return(c, "Encode", Empty)
        /\ UNCHANGED awaiting

\* set with the parameters loaded, and with the prelude read first.
SetLoaded(c, arg) ==
  /\ MayCall(c, "set") /\ Target[c] # ZeroMac /\ cache[c] # Empty
  /\ SendSet(c, cache[c], arg, requests)
  /\ UNCHANGED <<deviceVars, replies, cache>>
SetUnloaded(c, arg) ==
  /\ cache[c] = Empty
  /\ Call(c, "set", "prelude", "GET_DATA", get_data_payload(Names), NoItems, arg)
Set(c) ==
  \/ \E arg \in Configs : SetLoaded(c, arg) \/ SetUnloaded(c, arg)
  \/ ZeroMacGuard(c, "set")

\* How get classifies a reply.
GetStatus(r) ==
  CASE r.method = "GET_DATA" -> IF r.decodes THEN "ok" ELSE "Decode"
    [] r.method = "ERROR" -> "Refused"
    [] OTHER -> "UnexpectedMethod"

\* Mutant of ErrorStatus: the raw method is passed on.
ErrorStatus_Raw(r) == r.method

\* How reply_error classifies one that is not the expected answer.
ErrorStatus(r) ==
  CASE r.method = "ERROR" -> "Refused"
    [] r.method = "CREDENTIALS_ERROR" -> "CredentialsRejected"
    [] OTHER -> "UnexpectedMethod"

\* What get_all leaves in the Device: synthetic names dropped, then extended.
Loaded(c, r) ==
  Extend([n \in Names |-> IF n \in Synthetic THEN Absent ELSE cache[c][n]], r.data)

GetReply(c, r) ==
  /\ Takes(c, r, "get")
  /\ EndWith(c, r, GetStatus(r), IF GetStatus(r) = "ok" THEN r.data ELSE Empty, cache[c])

GetAllReply(c, r) ==
  /\ Takes(c, r, "get_all")
  /\ EndWith(c, r, GetStatus(r), Empty, IF GetStatus(r) = "ok" THEN Loaded(c, r) ELSE cache[c])

\* Mutant of PreludeReply: a failed read is logged and the write goes ahead.
PreludeReply_GoesOn(c, r) ==
  LET parameters == IF GetStatus(r) = "ok" THEN Loaded(c, r) ELSE cache[c]
  IN /\ Takes(c, r, "prelude")
     /\ cache' = [cache EXCEPT ![c] = parameters]
     /\ replies' = Surviving(replies \ {r}, c)
     /\ SendSet(c, parameters, config[c], Surviving(requests, c))
     /\ UNCHANGED deviceVars

\* The prelude's reply: set goes on to its own request, or gives up.
PreludeReply(c, r) ==
  /\ Takes(c, r, "prelude")
  /\ \/ /\ GetStatus(r) = "ok"
        /\ cache' = [cache EXCEPT ![c] = Loaded(c, r)]
        /\ replies' = Surviving(replies \ {r}, c)
        /\ SendSet(c, Loaded(c, r), config[c], Surviving(requests, c))
        /\ UNCHANGED deviceVars
     \/ /\ GetStatus(r) # "ok"
        /\ EndWith(c, r, GetStatus(r), Empty, cache[c])

\* Mutant of Acknowledges: anything but an ERROR acknowledges a set.
Acknowledges_NotError(r) == r.method # "ERROR"

Acknowledges(r) == r.method \in {"SET_DATA", "GET_DATA", "GET_IP"}

\* Mutant of SetReply: the record is updated whatever the device says.
SetReply_Eager(c, r) ==
  /\ Takes(c, r, "set")
  /\ EndWith(c, r, IF Acknowledges(r) THEN "ok" ELSE ErrorStatus(r), Empty,
             Extend(cache[c], config[c]))

SetReply(c, r) ==
  /\ Takes(c, r, "set")
  /\ \/ /\ Acknowledges(r)
        /\ EndWith(c, r, "ok", Empty, Extend(cache[c], config[c]))
     \/ /\ ~Acknowledges(r)
        /\ EndWith(c, r, ErrorStatus(r), Empty, cache[c])

ResetStatus(r) ==
  CASE r.method = "RESET" -> "ok"
    [] r.method = "ERROR" -> "Refused"
    [] OTHER -> "UnexpectedMethod"

ResetReply(c, r) ==
  Takes(c, r, "reset") /\ EndWith(c, r, ResetStatus(r), Empty, cache[c])

GetIpReply(c, r) ==
  /\ Takes(c, r, "get_ip")
  /\ EndWith(c, r, IF r.method = "GET_IP" THEN "ok" ELSE ErrorStatus(r), Empty, cache[c])

GetUuidReply(c, r) ==
  /\ Takes(c, r, "get_uuid")
  /\ EndWith(c, r,
       IF r.method # "GET_UUID" THEN ErrorStatus(r)
       ELSE IF r.decodes THEN "ok" ELSE "MissingUuid", Empty, cache[c])

\* The wait ends without a reply.  A cancelled reset counts as done.
EndWithout(c, status) ==
  /\ pc[c] # "idle"
  /\ requests' = Surviving(requests, c)
  /\ replies' = Surviving(replies, c)
  /\ Return(c, status, Empty)
  /\ UNCHANGED <<deviceVars, sequence, awaiting, cache>>

\* Mutant of Cancel: a cancelled set counts as done too.
Cancel_Lenient(c) ==
  Cancels /\ EndWithout(c, IF pc[c] \in {"reset", "set"} THEN "ok" ELSE "Cancelled")

Cancel(c) == Cancels /\ EndWithout(c, IF pc[c] = "reset" THEN "ok" ELSE "Cancelled")
RecvError(c) == RecvFails /\ EndWithout(c, "Recv")

(***************************************************************************)
(* The devices.                                                            *)
(***************************************************************************)
\* Device m.dst consumes request m and answers it.
Answer(m, method, decodes, data) ==
  /\ requests' = requests \ {m}
  /\ replies' = replies \cup
       {[src |-> m.dst, sequence |-> m.sequence, copy |-> m.copy, method |-> method,
         decodes |-> decodes, data |-> data]}
  /\ UNCHANGED <<sequence, callerVars>>

Arrives(m, method) == m \in requests /\ m.method = method

ServeGet(m) ==
  /\ Arrives(m, "GET_DATA")
  /\ \/ Answer(m, "GET_DATA", TRUE, parse_response(working[m.dst], m.slots))
     \/ Garbles /\ Answer(m, "GET_DATA", FALSE, Empty)
  /\ UNCHANGED deviceVars

\* Mutant of ServeSet: apply_save is forgotten.
ServeSet_Unsaved(m) ==
  LET d == m.dst
      updated == [s \in Slots |-> IF m.items[s] = Absent THEN working[d][s] ELSE m.items[s]]
  IN /\ Arrives(m, "SET_DATA")
     /\ working' = [working EXCEPT ![d] = updated]
     /\ held' = [held EXCEPT ![d] = [s \in Slots |-> held[d][s] \cup {updated[s]}]]
     /\ Answer(m, "SET_DATA", TRUE, Empty)
     /\ UNCHANGED nvram

\* apply_set then apply_save, under one lock.
ServeSet(m) ==
  LET d == m.dst
      updated == [s \in Slots |-> IF m.items[s] = Absent THEN working[d][s] ELSE m.items[s]]
  IN /\ Arrives(m, "SET_DATA")
     /\ working' = [working EXCEPT ![d] = updated]
     /\ nvram' = [nvram EXCEPT ![d] = updated]
     /\ held' = [held EXCEPT ![d] = [s \in Slots |-> held[d][s] \cup {updated[s]}]]
     /\ Answer(m, "SET_DATA", TRUE, Empty)

ServeReset(m) ==
  /\ Arrives(m, "RESET")
  /\ working' = [working EXCEPT ![m.dst] = nvram[m.dst]]
  /\ Answer(m, "RESET", TRUE, Empty)
  /\ UNCHANGED <<nvram, held>>

ServeGetIp(m) ==
  /\ Arrives(m, "GET_IP")
  /\ Answer(m, "GET_IP", TRUE, Empty)
  /\ UNCHANGED deviceVars

ServeGetUuid(m) ==
  /\ Arrives(m, "GET_UUID")
  /\ \/ Answer(m, "GET_UUID", TRUE, Empty)
     \/ Garbles /\ Answer(m, "GET_UUID", FALSE, Empty)
  /\ UNCHANGED deviceVars

\* A device configured to fail, or one that answers an unknown method.
Refuse(m) ==
  /\ \E method \in Methods : Arrives(m, method)
  /\ \E refusal \in Refusals : Answer(m, refusal, TRUE, Empty)
  /\ UNCHANGED deviceVars

Serve(m) ==
  \/ ServeGet(m) \/ ServeSet(m) \/ ServeReset(m)
  \/ ServeGetIp(m) \/ ServeGetUuid(m) \/ Refuse(m)

Start(c) == Get(c) \/ GetAll(c) \/ Set(c) \/ Reset(c) \/ GetIp(c) \/ GetUuid(c)

Receive(c) ==
  \E r \in replies :
    \/ GetReply(c, r) \/ GetAllReply(c, r) \/ PreludeReply(c, r) \/ SetReply(c, r)
    \/ ResetReply(c, r) \/ GetIpReply(c, r) \/ GetUuidReply(c, r) \/ Discard(c, r)

Next ==
  \/ \E c \in Callers : Start(c) \/ Receive(c) \/ Cancel(c) \/ RecvError(c)
  \/ \E m \in requests : Serve(m)

Spec == Init /\ [][Next]_vars

(***************************************************************************)
(* Fairness: a device answers what reaches it, and a task whose transport  *)
(* has a packet is polled.  Nothing obliges a caller to call, a token to   *)
(* fire or a transport to fail.                                            *)
(***************************************************************************)
FairSpec ==
  /\ Spec
  /\ WF_vars(\E m \in requests : Serve(m))
  /\ \A c \in Callers : WF_vars(Receive(c))

(***************************************************************************)
(* Properties.                                                             *)
(***************************************************************************)
\* The known names in c's parameters.
Recorded(c) == Keys(cache[c]) \cap Known

\* A device's record never advertises a value the device did not hold at some
\* time: set merges the caller's values only once they are acknowledged
\* (ops/config.rs:256-258, "the commit barrier").
CommitBarrier ==
  \A c \in Callers : \A n \in Recorded(c) :
    Target[c] \in Macs /\ cache[c][n] \in held[Target[c]][SlotOf[n]]

\* Outside a set, the record is what the device has persisted
\* (device.rs:46-47, "a record of what is actually persisted").
RecordIsPersisted ==
  \A c \in Callers : pc[c] # "set" =>
    \A n \in Recorded(c) : cache[c][n] = nvram[Target[c]][SlotOf[n]]

\* A SET_DATA request covers the whole parameter table: leaving an offset out
\* would zero the NVRAM around it (ops/config.rs:211-213).
WholeWrites ==
  \A m \in requests : m.method = "SET_DATA" => \A s \in Slots : m.items[s] # Absent

\* Every get asks for the whole table.
WholeReads == \A S \in Requested : get_data_payload(S) = Slots

\* A map with a value for every offset of the table.
Full(m) == \A s \in Slots : m[Canonical[s]] # Absent

\* Why writes are whole: reads, what devices answer to them, and the records
\* made of the answers are.  The inductive invariant behind WholeWrites.
WholeTables ==
  /\ \A m \in requests : m.method = "GET_DATA" => m.slots = Slots
  /\ \A r \in replies : r.method = "GET_DATA" /\ r.decodes => Full(r.data)
  /\ \A c \in Callers : cache[c] = Empty \/ Full(cache[c])
  /\ \A c \in Callers : pc[c] = "set" => Full(cache[c])
  /\ WholeWrites

\* Values of one device never reach the record or the results of a caller
\* working on another: whatever a caller knows about a parameter was at some
\* time held by its own device, or asked of it (session.rs:128-135).
Isolation ==
  \A c \in Callers, n \in Known : \A v \in {cache[c][n], result[c].data[n]} \ {Absent} :
    \/ v \in held[Target[c]][SlotOf[n]]
    \/ \E arg \in Configs : v \in {arg[k] : k \in NamesAt(arg, SlotOf[n])}

\* A device without a MAC is never reported to have done anything: a reset
\* of it must not wait, be cancelled and count as a success
\* (ops/config.rs:132-134).
UnaddressedNeverSucceeds ==
  \A c \in Callers : Target[c] = ZeroMac => result[c].status # "ok"

\* A set changes the parameters the caller named and no other
\* (ops/config.rs:209, "preserving everything else").
SetPreservesRest ==
  [][\A d \in Macs, s \in Slots :
       working'[d][s] # working[d][s] =>
         \E c \in Callers : pc[c] = "set" /\ Target[c] = d /\ NamesAt(config[c], s) # {}]_vars

\* The value c's set asks for at offset s.
Asked(c, s) == config[c][LastOf(NamesAt(config[c], s))]

\* When set reports success the device holds what the caller asked for, in
\* the memory a reboot keeps.
SetOkIsPersisted ==
  [][\A c \in Callers : pc[c] = "set" /\ pc'[c] = "idle" /\ result'[c].status = "ok" =>
       \A n \in Keys(config[c]) \cap Known : nvram[Target[c]][SlotOf[n]] = Stored[config[c][n]]]_vars

\* A get returns what the device holds when it returns: in particular a set
\* that succeeded is visible to it (tests/ops_config.rs,
\* a_set_is_visible_to_a_later_get).
GetIsCurrent ==
  [][\A c \in Callers : pc[c] = "get" /\ pc'[c] = "idle" =>
       \A n \in Keys(result'[c].data) : result'[c].data[n] = working[Target[c]][SlotOf[n]]]_vars

\* What a device runs changes only when it serves a SET_DATA request, to the
\* values that request carries; resetting it brings no other value back
\* (mocksbr/src/state.rs:8-9).
OnlyRequestedChanges ==
  [][\A d \in Macs, s \in Slots :
       working'[d][s] # working[d][s] =>
         \E m \in requests \ requests' : m.dst = d /\ m.items[s] = working'[d][s]]_vars

\* Every operation returns when no datagram is lost, even if nobody cancels
\* it: replies it must ignore do not keep it waiting.
EveryOperationReturns == \A c \in Callers : pc[c] # "idle" ~> pc[c] = "idle"
=============================================================================
