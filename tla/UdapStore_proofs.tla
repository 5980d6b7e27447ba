--------------------------- MODULE UdapStore_proofs ---------------------------
(***************************************************************************)
(* On a reliable network, with one caller to a device, the operations keep *)
(* what ConfigStore promises.  One inductive invariant says what is in     *)
(* flight (at most one datagram, of the one caller inside an operation)    *)
(* and that a record, with the change the device has just acknowledged,    *)
(* mirrors the device; everything else follows from it step by step.       *)
(*                                                                         *)
(* With faults and several callers at once a second invariant shows that,  *)
(* as long as no datagram outlives the wait it belongs to, a set reports   *)
(* success only when its device holds what was asked for, and a record     *)
(* never shows a value its device did not hold.  That replies are not late *)
(* is what Session does not check, and what the runs that expect a         *)
(* violation show to be needed.                                            *)
(***************************************************************************)
EXTENDS UdapStore, UdapOps_proofs

-----------------------------------------------------------------------------
(* The inductive invariant.                                                *)

\* The request a caller sends in a stage.
MethodOf(stage) ==
  CASE stage \in {"get", "get_all", "prelude"} -> "GET_DATA"
    [] stage = "set" -> "SET_DATA"
    [] stage = "reset" -> "RESET"
    [] stage = "get_ip" -> "GET_IP"
    [] OTHER -> "GET_UUID"

\* Device d holds what the map m says of it.
Mirrors(d, m) ==
  \A n \in Keys(m) \cap Known : d \in Macs /\ nvram[d][SlotOf[n]] = Stored[m[n]]

\* The record of c, with the change its device has acknowledged.
Told(c) == IF Acked(c) THEN Extend(cache[c], config[c]) ELSE cache[c]

\* m is the request c waits for an answer to; r is that answer.
Asks(c, m) ==
  /\ pc[c] # "idle" /\ m.dst = Target[c] /\ m.sequence = awaiting[c]
  /\ m.method = MethodOf(pc[c])
  /\ pc[c] = "set" => m.items = set_data_payload(Extend(cache[c], config[c]))
Answers(c, r) ==
  /\ pc[c] # "idle" /\ r.src = Target[c] /\ r.sequence = awaiting[c]
  /\ r.method \in {MethodOf(pc[c])} \cup RefusalMethods
  /\ \A n \in Keys(r.data) : n \in Known /\ r.data[n] = nvram[r.src][SlotOf[n]]

\* What a device holds has been through the codec.
Fixed == \A d \in Macs, s \in Slots : Stored[nvram[d][s]] = nvram[d][s]

\* One caller at a time, on a device; no argument or result is left over.
Solo ==
  /\ \A c, k \in Callers : pc[c] # "idle" /\ pc[k] # "idle" => c = k
  /\ \A c \in Callers : pc[c] # "idle" => Target[c] \in Macs
  /\ \A c \in Callers : pc[c] \notin {"prelude", "set"} => config[c] = Empty
  /\ \A c \in Callers : pc[c] # "idle" => result[c] = [status |-> "none", data |-> Empty]

\* One datagram at a time.
Lone ==
  /\ \A m, k \in requests : m = k
  /\ \A q, r \in replies : q = r
  /\ requests = {} \/ replies = {}

Owned ==
  /\ \A m \in requests : \E c \in Callers : Asks(c, m)
  /\ \A r \in replies : \E c \in Callers : Answers(c, r)

Mirrored == \A c \in Callers : Mirrors(Target[c], Told(c))

IInv == TypeOK /\ Saved /\ Fixed /\ Solo /\ Lone /\ Owned /\ Mirrored

-----------------------------------------------------------------------------
(* Maps by offset, when no offset has two names.                           *)

\* Then every known name is the table's own name for its offset.
LEMMA OneName ==
  ASSUME Exclusive, NEW n \in Known
  PROVE  SlotOf[n] \in Slots /\ n = Canonical[SlotOf[n]]
<1>1. SlotOf[n] \in Slots
  BY TableAssumption
<1>2. Canonical[SlotOf[n]] \in Known /\ SlotOf[Canonical[SlotOf[n]]] = SlotOf[n]
  BY <1>1, TableAssumption
<1>3. QED
  BY <1>1, <1>2 DEF Exclusive

\* And the items of a SET_DATA request are the map, offset by offset.
LEMMA PayloadBySlot ==
  ASSUME Exclusive, NEW m \in Map
  PROVE  set_data_payload(m) = BySlot(m)
<1>1. ASSUME NEW s \in Slots
      PROVE  NamesAt(m, s) = IF m[Canonical[s]] = Absent THEN {} ELSE {Canonical[s]}
  <2>1. Canonical[s] \in Known /\ Canonical[s] \in Names /\ SlotOf[Canonical[s]] = s
    BY TableAssumption
  <2>2. ASSUME NEW n \in NamesAt(m, s) PROVE n = Canonical[s]
    BY OneName DEF NamesAt
  <2>3. m[Canonical[s]] # Absent => Canonical[s] \in NamesAt(m, s)
    BY <2>1 DEF NamesAt, Keys
  <2>4. m[Canonical[s]] = Absent => Canonical[s] \notin NamesAt(m, s)
    BY DEF NamesAt, Keys
  <2>5. QED
    BY <2>2, <2>3, <2>4
<1>2. ASSUME NEW s \in Slots, m[Canonical[s]] # Absent
      PROVE  LastOf(NamesAt(m, s)) = Canonical[s]
  <2>1. NamesAt(m, s) = {Canonical[s]}
    BY <1>1, <1>2
  <2>2. {Canonical[s]} \in SUBSET Names
    BY TableAssumption
  <2>3. LastOf({Canonical[s]}) \in {Canonical[s]}
    BY <2>2, LastOfIsOne
  <2>4. QED
    BY <2>1, <2>3
<1>3. ASSUME NEW s \in Slots
      PROVE  set_data_payload(m)[s] = BySlot(m)[s]
  BY <1>1, <1>2 DEF set_data_payload, BySlot
<1>4. QED
  BY <1>3 DEF set_data_payload, BySlot

\* Stored values are values, so an offset of a map is empty only when its name is.
LEMMA BySlotValue ==
  ASSUME NEW m \in Map, NEW s \in Slots
  PROVE  /\ m[Canonical[s]] = Absent => BySlot(m)[s] = Absent
         /\ m[Canonical[s]] # Absent => /\ BySlot(m)[s] = Stored[m[Canonical[s]]]
                                       /\ m[Canonical[s]] \in Values
                                       /\ BySlot(m)[s] \in Values
                                       /\ BySlot(m)[s] # Absent
<1>1. m[Canonical[s]] \in Maybe
  BY TableAssumption DEF Map
<1>2. QED
  BY <1>1, TableAssumption DEF BySlot, Maybe

\* Extending a map extends it at every offset.
LEMMA BySlotExtend ==
  ASSUME NEW m \in Map, NEW n \in Map, NEW s \in Slots
  PROVE  BySlot(Extend(m, n))[s] = IF BySlot(n)[s] = Absent THEN BySlot(m)[s] ELSE BySlot(n)[s]
<1>1. Canonical[s] \in Names
  BY TableAssumption
<1>2. Extend(m, n)[Canonical[s]] =
        IF n[Canonical[s]] = Absent THEN m[Canonical[s]] ELSE n[Canonical[s]]
  BY <1>1 DEF Extend
<1>3. QED
  BY <1>2, BySlotValue DEF BySlot

-----------------------------------------------------------------------------
(* What the invariant says of a caller.                                    *)

\* With everybody idle nothing is in flight.
LEMMA QuietWhenIdle ==
  ASSUME IInv, \A c \in Callers : pc[c] = "idle"
  PROVE  requests = {} /\ replies = {}
  BY DEF IInv, Owned, Asks, Answers

\* A caller inside an operation is alone, and what is in flight is its own.
LEMMA Waiting ==
  ASSUME IInv, NEW c \in Callers, pc[c] # "idle"
  PROVE  /\ Target[c] \in Macs
         /\ \A k \in Callers \ {c} : pc[k] = "idle"
         /\ \A m \in requests : Asks(c, m)
         /\ \A r \in replies : Answers(c, r)
<1>1. \A k \in Callers : pc[k] # "idle" => k = c
  BY DEF IInv, Solo
<1>2. QED
  BY <1>1 DEF IInv, Solo, Owned, Asks, Answers

\* So nothing is left once its wait is over.
LEMMA Swept ==
  ASSUME IInv, Reliable, NEW c \in Callers, pc[c] # "idle", NEW r
  PROVE  Surviving(requests, c) = {} /\ Surviving(replies \ {r}, c) = {}
         /\ Surviving(replies, c) = {}
<1>1. /\ \A m \in requests : m.sequence = awaiting[c]
      /\ \A q \in replies : q.sequence = awaiting[c]
  BY Waiting DEF Asks, Answers
<1>2. QED
  BY <1>1 DEF Surviving, Reliable

\* Without an acknowledgement the record itself mirrors the device.
LEMMA RecordMirrors ==
  ASSUME IInv, NEW c \in Callers, ~Acked(c)
  PROVE  Mirrors(Target[c], cache[c])
  BY DEF IInv, Mirrored, Told

-----------------------------------------------------------------------------
(* Every step keeps the invariant.                                         *)

\* A caller that returns leaves nothing in flight and a record that mirrors.
LEMMA EndKeeps ==
  ASSUME IInv, TypeOK', NEW c \in Callers, NEW p,
         \A k \in Callers \ {c} : pc[k] = "idle",
         pc' = [pc EXCEPT ![c] = "idle"], config' = [config EXCEPT ![c] = Empty],
         requests' = {}, replies' = {}, UNCHANGED <<working, nvram>>,
         cache' = [cache EXCEPT ![c] = p], Mirrors(Target[c], p)
  PROVE  IInv'
<1>1. /\ \A k \in Callers : pc'[k] = "idle"
      /\ cache'[c] = p /\ config'[c] = Empty
      /\ \A k \in Callers \ {c} : cache'[k] = cache[k] /\ config'[k] = config[k]
  BY DEF IInv, TypeOK
<1>2. Saved' /\ Fixed' /\ Lone' /\ Owned'
  BY DEF IInv, Saved, Fixed, Lone, Owned
<1>3. Solo'
  <2>1. \A k \in Callers \ {c} : config'[k] = Empty
    BY <1>1 DEF IInv, Solo
  <2>2. QED
    BY <1>1, <2>1 DEF Solo
<1>4. Mirrored'
  <2>1. \A k \in Callers : Told(k)' = cache'[k]
    BY <1>1 DEF Told, Acked
  <2>2. ASSUME NEW k \in Callers \ {c} PROVE Mirrors(Target[k], cache'[k])
    <3>1. ~Acked(k)
      BY DEF Acked
    <3>2. QED
      BY <1>1, <3>1, RecordMirrors
  <2>3. ASSUME NEW k \in Callers PROVE Mirrors(Target[k], cache'[k])
    BY <1>1, <2>2
  <2>4. QED
    BY <2>1, <2>3 DEF Mirrored, Mirrors
<1>5. QED
  BY <1>2, <1>3, <1>4 DEF IInv

\* A caller that sends from a quiet state has one request in flight, its own.
LEMMA SendKeeps ==
  ASSUME IInv, Reliable, TypeOK', NEW c \in Callers, NEW p, Target[c] \in Macs,
         \A k \in Callers \ {c} : pc[k] = "idle",
         NEW stage \in Stage \ {"idle"}, NEW slots, NEW items, NEW arg,
         SendAndWait(c, stage, MethodOf(stage), slots, items, arg, {}),
         stage = "set" => items = set_data_payload(Extend(p, arg)),
         stage \notin {"prelude", "set"} => arg = Empty,
         replies' = {}, UNCHANGED <<working, nvram>>,
         cache' = [cache EXCEPT ![c] = p], Mirrors(Target[c], p)
  PROVE  IInv'
<1>1. PICK sent \in Attempts :
        /\ requests' = {} \cup Datagrams(c, MethodOf(stage), slots, items, sent)
        /\ \/ /\ sent = {}
              /\ Return(c, "Send", Empty)
           \/ /\ sent # {}
              /\ pc' = [pc EXCEPT ![c] = stage]
              /\ config' = [config EXCEPT ![c] = arg]
              /\ result' = [result EXCEPT ![c] = [status |-> "none", data |-> Empty]]
  BY DEF SendAndWait
<1>2. CASE sent = {} /\ Return(c, "Send", Empty)
  <2>1. requests' = {}
    BY <1>1, <1>2 DEF Datagrams
  <2>2. QED
    BY <1>2, <2>1, EndKeeps DEF Return
<1>3. CASE /\ pc' = [pc EXCEPT ![c] = stage]
           /\ config' = [config EXCEPT ![c] = arg]
           /\ result' = [result EXCEPT ![c] = [status |-> "none", data |-> Empty]]
  <2>1. /\ pc'[c] = stage /\ config'[c] = arg /\ cache'[c] = p
        /\ awaiting'[c] = NextSequence
        /\ result'[c] = [status |-> "none", data |-> Empty]
        /\ \A k \in Callers \ {c} :
             pc'[k] = "idle" /\ cache'[k] = cache[k] /\ config'[k] = config[k]
    BY <1>3 DEF IInv, TypeOK, SendAndWait
  <2>2. sent \subseteq {0}
    BY DEF Attempts, Reliable
  <2>3. requests' \subseteq {[dst |-> Target[c], sequence |-> NextSequence, copy |-> 0,
                             method |-> MethodOf(stage), slots |-> slots, items |-> items]}
    BY <1>1, <2>2 DEF Datagrams
  <2>4. Saved' /\ Fixed'
    BY DEF IInv, Saved, Fixed
  <2>5. Lone'
    BY <2>3 DEF Lone
  <2>6. Solo'
    <3>1. \A k \in Callers \ {c} : config'[k] = Empty
      BY <2>1 DEF IInv, Solo
    <3>2. QED
      BY <2>1, <3>1 DEF Solo
  <2>7. Owned'
    <3>1. ASSUME NEW m \in requests' PROVE Asks(c, m)'
      <4>1. /\ m.dst = Target[c] /\ m.sequence = NextSequence
            /\ m.method = MethodOf(stage) /\ m.items = items
        BY <2>3
      <4>2. MethodOf(pc'[c]) = MethodOf(stage)
        BY <2>1
      <4>3. QED
        BY <2>1, <4>1, <4>2 DEF Asks, MethodOf
    <3>2. QED
      BY <3>1 DEF Owned
  <2>8. Mirrored'
    <3>1. \A k \in Callers : Told(k)' = cache'[k]
      BY DEF Told, Acked
    <3>2. ASSUME NEW k \in Callers \ {c} PROVE Mirrors(Target[k], cache'[k])
      <4>1. ~Acked(k)
        BY DEF Acked
      <4>2. QED
        BY <2>1, <4>1, RecordMirrors
    <3>3. ASSUME NEW k \in Callers PROVE Mirrors(Target[k], cache'[k])
      BY <2>1, <3>2
    <3>4. QED
      BY <3>1, <3>3 DEF Mirrored, Mirrors
  <2>9. QED
    BY <2>4, <2>5, <2>6, <2>7, <2>8 DEF IInv
<1>4. QED
  BY <1>1, <1>2, <1>3

\* The same of the request that a set writes with.
LEMMA SendSetKeeps ==
  ASSUME IInv, Reliable, TypeOK', NEW c \in Callers, NEW p, NEW arg, Target[c] \in Macs,
         \A k \in Callers \ {c} : pc[k] = "idle",
         SendSet(c, p, arg, {}), replies' = {}, UNCHANGED <<working, nvram>>,
         cache' = [cache EXCEPT ![c] = p], Mirrors(Target[c], p)
  PROVE  IInv'
<1>1. CASE SendAndWait(c, "set", "SET_DATA", {}, set_data_payload(Extend(p, arg)), arg, {})
  <2>1. "SET_DATA" = MethodOf("set") /\ "set" \in Stage \ {"idle"}
    BY DEF MethodOf, Stage
  <2>2. SendAndWait(c, "set", MethodOf("set"), {}, set_data_payload(Extend(p, arg)), arg, {})
    BY <1>1, <2>1
  <2>3. QED
    BY <2>1, <2>2, SendKeeps
<1>2. CASE requests' = {} /\ Return(c, "Encode", Empty)
  BY <1>2, EndKeeps DEF Return
<1>3. QED
  BY <1>1, <1>2 DEF SendSet

\* A caller may call only when nobody waits, so that nothing is in flight.
LEMMA CallFromQuiet ==
  ASSUME IInv, Reliable, NEW c \in Callers, NEW op, MayCall(c, op)
  PROVE  /\ \A k \in Callers : pc[k] = "idle"
         /\ requests = {} /\ replies = {}
         /\ Mirrors(Target[c], cache[c])
         /\ cache = [cache EXCEPT ![c] = cache[c]]
<1>1. \A k \in Callers : pc[k] = "idle"
  BY DEF MayCall, Reliable
<1>2. ~Acked(c)
  BY <1>1 DEF Acked
<1>3. QED
  BY <1>1, <1>2, QuietWhenIdle, RecordMirrors DEF IInv, TypeOK

\* Opening an operation with a request.
LEMMA CallKeeps ==
  ASSUME IInv, Reliable, TypeOK', NEW c \in Callers, NEW op,
         NEW stage \in Stage \ {"idle", "set"}, NEW slots, NEW items, NEW arg,
         stage # "prelude" => arg = Empty,
         Call(c, op, stage, MethodOf(stage), slots, items, arg)
  PROVE  IInv'
<1>1. /\ MayCall(c, op) /\ Target[c] \in Macs
      /\ SendAndWait(c, stage, MethodOf(stage), slots, items, arg, requests)
      /\ UNCHANGED <<deviceVars, replies, cache>>
  BY Addressed DEF Call
<1>2. /\ \A k \in Callers : pc[k] = "idle"
      /\ requests = {} /\ replies = {}
      /\ Mirrors(Target[c], cache[c])
      /\ cache = [cache EXCEPT ![c] = cache[c]]
  BY <1>1, CallFromQuiet
<1>3. SendAndWait(c, stage, MethodOf(stage), slots, items, arg, {})
  BY <1>1, <1>2
<1>4. /\ replies' = {} /\ UNCHANGED <<working, nvram>>
      /\ cache' = [cache EXCEPT ![c] = cache[c]]
  BY <1>1, <1>2 DEF deviceVars
<1>5. QED
  BY <1>1, <1>2, <1>3, <1>4, SendKeeps

\* Starting any operation.
LEMMA StartKeeps ==
  ASSUME IInv, Reliable, Exclusive, TypeOK', NEW c \in Callers, Start(c)
  PROVE  IInv'
<1> USE DEF MethodOf, Stage
<1>1. ASSUME NEW op, ZeroMacGuard(c, op) PROVE IInv'
  <2>1. /\ \A k \in Callers : pc[k] = "idle"
        /\ requests = {} /\ replies = {}
        /\ Mirrors(Target[c], cache[c])
        /\ cache = [cache EXCEPT ![c] = cache[c]]
    BY <1>1, CallFromQuiet DEF ZeroMacGuard
  <2>2. /\ requests' = {} /\ replies' = {} /\ UNCHANGED <<working, nvram>>
        /\ cache' = [cache EXCEPT ![c] = cache[c]]
        /\ Return(c, "ZeroMac", Empty)
    BY <1>1, <2>1 DEF ZeroMacGuard, deviceVars
  <2>3. QED
    BY <2>1, <2>2, EndKeeps DEF Return
<1>2. CASE Get(c)
  BY <1>1, <1>2, CallKeeps DEF Get
<1>3. CASE GetAll(c)
  BY <1>1, <1>3, CallKeeps DEF GetAll
<1>4. CASE Reset(c)
  BY <1>1, <1>4, CallKeeps DEF Reset
<1>5. CASE GetIp(c)
  BY <1>1, <1>5, CallKeeps DEF GetIp
<1>6. CASE GetUuid(c)
  BY <1>1, <1>6, CallKeeps DEF GetUuid
<1>7. ASSUME NEW arg \in Configs, SetUnloaded(c, arg) PROVE IInv'
  BY <1>7, CallKeeps DEF SetUnloaded
<1>8. ASSUME NEW arg \in Configs, SetLoaded(c, arg) PROVE IInv'
  <2>1. /\ \A k \in Callers : pc[k] = "idle"
        /\ requests = {} /\ replies = {}
        /\ Mirrors(Target[c], cache[c])
        /\ cache = [cache EXCEPT ![c] = cache[c]]
    BY <1>8, CallFromQuiet DEF SetLoaded
  <2>2. /\ replies' = {} /\ UNCHANGED <<working, nvram>>
        /\ cache' = [cache EXCEPT ![c] = cache[c]]
        /\ SendSet(c, cache[c], arg, {}) /\ Target[c] \in Macs
    BY <1>8, <2>1, Addressed DEF SetLoaded, deviceVars
  <2>3. QED
    BY <2>1, <2>2, SendSetKeeps
<1>9. QED
  BY <1>1, <1>2, <1>3, <1>4, <1>5, <1>6, <1>7, <1>8 DEF Start, Set

\* An operation that ends with a reply.
LEMMA EndWithKeeps ==
  ASSUME IInv, Reliable, TypeOK', NEW c \in Callers, pc[c] # "idle", NEW r, NEW status,
         NEW data, NEW p, EndWith(c, r, status, data, p), Mirrors(Target[c], p)
  PROVE  IInv'
<1>1. requests' = {} /\ replies' = {}
  BY Swept DEF EndWith
<1>2. \A k \in Callers \ {c} : pc[k] = "idle"
  BY Waiting
<1>3. UNCHANGED <<working, nvram>>
  BY DEF EndWith, deviceVars
<1>4. QED
  BY <1>1, <1>2, <1>3, EndKeeps DEF EndWith, Return

\* What a read leaves in the Device mirrors it: the reply does, and so does the
\* record it joins.
LEMMA LoadedMirrors ==
  ASSUME IInv, NEW c \in Callers, NEW r \in replies, pc[c] \notin {"idle", "set"}
  PROVE  Mirrors(Target[c], Loaded(c, r))
<1>1. Mirrors(Target[c], cache[c])
  BY RecordMirrors DEF Acked
<1>2. Answers(c, r) /\ Target[c] \in Macs
  BY Waiting
<1>3. SUFFICES ASSUME NEW n \in Keys(Loaded(c, r)) \cap Known
               PROVE  nvram[Target[c]][SlotOf[n]] = Stored[Loaded(c, r)[n]]
  BY <1>2 DEF Mirrors
<1>4. n \in Names /\ SlotOf[n] \in Slots
  BY TableAssumption
<1>5. CASE r.data[n] # Absent
  <2>1. Loaded(c, r)[n] = r.data[n] /\ n \in Keys(r.data)
    BY <1>4, <1>5 DEF Loaded, Extend, Keys
  <2>2. r.data[n] = nvram[Target[c]][SlotOf[n]]
    BY <1>2, <2>1 DEF Answers
  <2>3. QED
    BY <1>2, <1>4, <2>1, <2>2 DEF IInv, Fixed
<1>6. CASE r.data[n] = Absent
  <2>1. Loaded(c, r)[n] = cache[c][n] /\ cache[c][n] # Absent
    BY <1>4, <1>6 DEF Loaded, Extend, Keys
  <2>2. QED
    BY <1>1, <1>4, <2>1 DEF Mirrors, Keys
<1>7. QED
  BY <1>5, <1>6

\* A reply to a set tells whether the device has applied it.
LEMMA AckMeansAcked ==
  ASSUME IInv, NEW c \in Callers, NEW r \in replies, pc[c] = "set"
  PROVE  Acked(c) <=> Acknowledges(r)
<1>1. Answers(c, r) /\ \A q \in replies : q = r
  BY Waiting DEF IInv, Lone
<1>2. QED
  BY <1>1 DEF Acked, Acknowledges, Answers, MethodOf, RefusalMethods

\* No reply is somebody else's.
LEMMA NothingToDiscard ==
  ASSUME IInv, Exclusive, NEW c \in Callers, NEW r \in replies
  PROVE  ~Discard(c, r)
<1>1. SUFFICES ASSUME pc[c] # "idle" PROVE FromDevice(c, r)
  BY DEF Discard
<1>2. Answers(c, r) /\ Target[c] \in Macs
  BY <1>1, Waiting
<1>3. QED
  BY <1>2 DEF Answers, FromDevice, Exclusive

\* A set going on from its prelude.
LEMMA PreludeKeeps ==
  ASSUME IInv, Reliable, TypeOK', NEW c \in Callers, NEW r \in replies, PreludeReply(c, r)
  PROVE  IInv'
<1>1. pc[c] = "prelude"
  BY DEF PreludeReply, Takes
<1>2. Mirrors(Target[c], Loaded(c, r)) /\ Mirrors(Target[c], cache[c])
  BY <1>1, LoadedMirrors, RecordMirrors DEF Acked
<1>3. CASE EndWith(c, r, GetStatus(r), Empty, cache[c])
  BY <1>1, <1>2, <1>3, EndWithKeeps
<1>4. CASE /\ cache' = [cache EXCEPT ![c] = Loaded(c, r)]
           /\ replies' = Surviving(replies \ {r}, c)
           /\ SendSet(c, Loaded(c, r), config[c], Surviving(requests, c))
           /\ UNCHANGED deviceVars
  <2>1. /\ Target[c] \in Macs
        /\ \A k \in Callers \ {c} : pc[k] = "idle"
        /\ Surviving(requests, c) = {} /\ Surviving(replies \ {r}, c) = {}
    BY <1>1, Waiting, Swept
  <2>2. SendSet(c, Loaded(c, r), config[c], {}) /\ replies' = {}
    BY <1>4, <2>1
  <2>3. UNCHANGED <<working, nvram>>
    BY <1>4 DEF deviceVars
  <2>4. QED
    BY <1>2, <1>4, <2>1, <2>2, <2>3, SendSetKeeps
<1>5. QED
  BY <1>3, <1>4 DEF PreludeReply

\* Taking a reply, whatever the operation.
LEMMA ReceiveKeeps ==
  ASSUME IInv, Reliable, Exclusive, TypeOK', NEW c \in Callers, Receive(c)
  PROVE  IInv'
<1>1. PICK r \in replies :
        \/ GetReply(c, r) \/ GetAllReply(c, r) \/ PreludeReply(c, r) \/ SetReply(c, r)
        \/ ResetReply(c, r) \/ GetIpReply(c, r) \/ GetUuidReply(c, r)
  BY NothingToDiscard DEF Receive
<1>2. ASSUME pc[c] \notin {"idle", "set"}, NEW status, NEW data,
             EndWith(c, r, status, data, cache[c])
      PROVE  IInv'
  BY <1>2, RecordMirrors, EndWithKeeps DEF Acked
<1>3. CASE GetReply(c, r)
  BY <1>2, <1>3 DEF GetReply, Takes
<1>4. CASE GetAllReply(c, r)
  <2>1. pc[c] = "get_all"
    BY <1>4 DEF GetAllReply, Takes
  <2>2. Mirrors(Target[c], Loaded(c, r))
    BY <2>1, LoadedMirrors
  <2>3. QED
    BY <1>2, <1>4, <2>1, <2>2, EndWithKeeps DEF GetAllReply
<1>5. CASE SetReply(c, r)
  <2>1. pc[c] = "set"
    BY <1>5 DEF SetReply, Takes
  <2>2. Mirrors(Target[c], Told(c))
    BY DEF IInv, Mirrored
  <2>3. QED
    BY <1>5, <2>1, <2>2, AckMeansAcked, EndWithKeeps DEF SetReply, Told
<1>6. CASE ResetReply(c, r)
  BY <1>2, <1>6 DEF ResetReply, Takes
<1>7. CASE GetIpReply(c, r)
  BY <1>2, <1>7 DEF GetIpReply, Takes
<1>8. CASE GetUuidReply(c, r)
  BY <1>2, <1>8 DEF GetUuidReply, Takes
<1>9. QED
  BY <1>1, <1>3, <1>4, <1>5, <1>6, <1>7, <1>8, PreludeKeeps

\* A request that reaches its device is the only datagram.
LEMMA Reaching ==
  ASSUME IInv, NEW m \in requests
  PROVE  /\ requests = {m} /\ replies = {} /\ m \in Request
         /\ \E c \in Callers : Asks(c, m) /\ Target[c] \in Macs
                               /\ \A k \in Callers \ {c} : pc[k] = "idle"
<1>1. PICK c \in Callers : Asks(c, m)
  BY DEF IInv, Owned
<1>2. Target[c] \in Macs /\ \A k \in Callers \ {c} : pc[k] = "idle"
  BY <1>1, Waiting DEF Asks
<1>3. QED
  BY <1>1, <1>2 DEF IInv, Lone, TypeOK

\* An answer that changes nothing in the device.
LEMMA AnswerKeeps ==
  ASSUME IInv, TypeOK', NEW m \in requests, NEW c \in Callers, Asks(c, m),
         NEW method \in {MethodOf(pc[c])} \cup RefusalMethods, method # "SET_DATA",
         NEW decodes, NEW data, Answer(m, method, decodes, data),
         \A n \in Keys(data) : n \in Known /\ data[n] = nvram[m.dst][SlotOf[n]],
         UNCHANGED <<working, nvram>>
  PROVE  IInv'
<1> DEFINE q == [src |-> m.dst, sequence |-> m.sequence, copy |-> m.copy, method |-> method,
                 decodes |-> decodes, data |-> data]
<1>1. requests' = {} /\ replies' = {q}
  BY Reaching DEF Answer
<1>2. UNCHANGED <<pc, awaiting, config, cache, result>>
  BY DEF Answer, callerVars
<1>3. Saved' /\ Fixed' /\ Lone' /\ Solo'
  BY <1>1, <1>2 DEF IInv, Saved, Fixed, Lone, Solo
<1>4. Answers(c, q)'
  BY <1>2 DEF Asks, Answers
<1>5. Owned'
  BY <1>1, <1>4 DEF Owned
<1>6. \A k \in Callers : Told(k)' = cache[k] /\ ~Acked(k)
  BY <1>1, <1>2, Reaching DEF Told, Acked
<1>7. Mirrored'
  <2>1. \A k \in Callers : Mirrors(Target[k], cache[k])
    BY <1>6, RecordMirrors
  <2>2. QED
    BY <1>6, <2>1 DEF Mirrored, Mirrors
<1>8. QED
  BY <1>3, <1>5, <1>7 DEF IInv

\* Serving a SET_DATA request: the record mirrors the device again once it is
\* extended with what was asked for.
LEMMA ServeSetKeeps ==
  ASSUME IInv, Exclusive, TypeOK', NEW m \in requests, ServeSet(m)
  PROVE  IInv'
<1> DEFINE d == m.dst
           updated == [s \in Slots |-> IF m.items[s] = Absent THEN working[d][s] ELSE m.items[s]]
           q == [src |-> d, sequence |-> m.sequence, copy |-> m.copy, method |-> "SET_DATA",
                 decodes |-> TRUE, data |-> Empty]
<1>1. /\ requests = {m} /\ replies = {} /\ m \in Request
      /\ d \in Macs
  BY Reaching DEF Request
<1>2. PICK c \in Callers : /\ Asks(c, m) /\ Target[c] = d
                           /\ \A k \in Callers \ {c} : pc[k] = "idle"
  BY Reaching DEF Asks
<1>3. pc[c] = "set"
  BY <1>2 DEF Asks, ServeSet, Arrives, MethodOf
<1>4. /\ nvram' = [nvram EXCEPT ![d] = updated] /\ working' = [working EXCEPT ![d] = updated]
      /\ requests' = {} /\ replies' = {q}
      /\ UNCHANGED <<pc, awaiting, config, cache, result>>
  BY <1>1 DEF ServeSet, Answer, callerVars
<1> DEFINE told == Extend(cache[c], config[c])
<1>5. told \in Map /\ m.items = BySlot(told)
  BY <1>2, <1>3, ExtendType, PayloadBySlot DEF IInv, TypeOK, Asks
<1>6. nvram'[d] = updated /\ \A e \in Macs \ {d} : nvram'[e] = nvram[e]
  BY <1>1, <1>4 DEF IInv, TypeOK
<1>7. Saved'
  BY <1>4 DEF IInv, Saved
<1>8. Fixed'
  <2>1. ASSUME NEW s \in Slots PROVE Stored[updated[s]] = updated[s]
    <3>1. CASE m.items[s] = Absent
      BY <1>1, <3>1 DEF IInv, Saved, Fixed
    <3>2. CASE m.items[s] # Absent
      <4>1. /\ updated[s] = Stored[told[Canonical[s]]]
            /\ told[Canonical[s]] \in Values
        BY <1>5, <3>2, BySlotValue
      <4>2. QED
        BY <4>1, TableAssumption
    <3>3. QED
      BY <3>1, <3>2
  <2> HIDE DEF updated
  <2>2. QED
    BY <1>6, <2>1 DEF IInv, Fixed
<1>9. Lone' /\ Solo'
  BY <1>4 DEF IInv, Lone, Solo
<1>10. Owned'
  <2>1. Keys(Empty) = {}
    BY DEF Keys, Empty
  <2>2. Answers(c, q)'
    BY <1>2, <1>3, <1>4, <2>1 DEF Asks, Answers, MethodOf
  <2>3. QED
    BY <1>4, <2>2 DEF Owned
<1>11. Mirrored'
  <2>1. Told(c)' = told /\ told' = told
    BY <1>2, <1>3, <1>4 DEF Told, Acked, Extend
  <2>2. ASSUME NEW n \in Keys(told) \cap Known
        PROVE  nvram'[d][SlotOf[n]] = Stored[told[n]]
    <3>1. SlotOf[n] \in Slots /\ n = Canonical[SlotOf[n]] /\ told[n] # Absent
      BY OneName DEF Keys
    <3> HIDE DEF told
    <3>2. m.items[SlotOf[n]] = Stored[told[n]] /\ m.items[SlotOf[n]] # Absent
      BY <1>5, <3>1, BySlotValue
    <3>3. QED
      BY <1>6, <3>1, <3>2
  <2>3. ASSUME NEW k \in Callers \ {c}
        PROVE  Told(k)' = cache[k] /\ Mirrors(Target[k], cache[k])'
    <3>1. Told(k)' = cache[k] /\ ~Acked(k)
      BY <1>2, <1>4 DEF Told, Acked
    <3>2. Target[k] \in Macs => Target[k] # d
      BY <1>2 DEF Exclusive
    <3>3. Mirrors(Target[k], cache[k])
      BY <3>1, RecordMirrors
    <3>4. ASSUME NEW n \in Keys(cache[k]) \cap Known
          PROVE  Target[k] \in Macs /\ nvram'[Target[k]][SlotOf[n]] = Stored[cache[k][n]]
      <4>1. Target[k] \in Macs /\ nvram[Target[k]][SlotOf[n]] = Stored[cache[k][n]]
        BY <3>3 DEF Mirrors
      <4>2. nvram'[Target[k]] = nvram[Target[k]]
        BY <1>6, <3>2, <4>1
      <4>3. QED
        BY <4>1, <4>2
    <3>5. QED
      BY <1>4, <3>1, <3>4 DEF Mirrors, Keys
  <2>4. Mirrors(Target[c], told)'
    BY <1>1, <1>2, <1>4, <2>2 DEF Mirrors
  <2>5. ASSUME NEW k \in Callers PROVE Mirrors(Target[k], Told(k))'
    <3>1. CASE k = c
      BY <2>1, <2>4, <3>1 DEF Mirrors
    <3>2. CASE k # c
      BY <1>4, <2>3, <3>2 DEF Mirrors
    <3>3. QED
      BY <3>1, <3>2
  <2>6. QED
    BY <2>5 DEF Mirrored
<1>12. QED
  BY <1>7, <1>8, <1>9, <1>10, <1>11 DEF IInv

\* A device serving any request.
LEMMA ServeKeeps ==
  ASSUME IInv, Exclusive, TypeOK', NEW m \in requests, Serve(m)
  PROVE  IInv'
<1>1. PICK c \in Callers : Asks(c, m)
  BY Reaching
<1>2. m \in Request /\ Keys(Empty) = {}
  BY Reaching DEF Keys, Empty
<1>3. ASSUME UNCHANGED deviceVars, NEW method \in {m.method} \cup RefusalMethods,
             method # "SET_DATA", NEW decodes, Answer(m, method, decodes, Empty)
      PROVE  IInv'
  <2>1. method \in {MethodOf(pc[c])} \cup RefusalMethods /\ UNCHANGED <<working, nvram>>
    BY <1>1, <1>3 DEF Asks, deviceVars
  <2>2. QED
    BY <1>1, <1>2, <1>3, <2>1, AnswerKeeps
<1>4. CASE ServeGet(m)
  <2> DEFINE data == parse_response(working[m.dst], m.slots)
  <2>1. CASE Answer(m, "GET_DATA", TRUE, data) /\ UNCHANGED deviceVars
    <3>1. ASSUME NEW n \in Keys(data)
          PROVE  n \in Known /\ data[n] = nvram[m.dst][SlotOf[n]]
      <4>1. PICK s \in m.slots : n = Canonical[s]
        BY DEF Keys, parse_response
      <4>2. n \in Names /\ n \in Known
        BY <1>2, <4>1, TableAssumption DEF Request
      <4>3. QED
        BY <4>1, <4>2 DEF parse_response, IInv, Saved
    <3>2. "GET_DATA" \in {MethodOf(pc[c])} \cup RefusalMethods
      BY <1>1, <1>4 DEF Asks, ServeGet, Arrives
    <3> HIDE DEF data
    <3>3. QED
      BY <1>1, <2>1, <3>1, <3>2, AnswerKeeps DEF deviceVars
  <2>2. CASE Answer(m, "GET_DATA", FALSE, Empty) /\ UNCHANGED deviceVars
    BY <1>3, <1>4, <2>2 DEF ServeGet, Arrives
  <2>3. QED
    BY <1>4, <2>1, <2>2 DEF ServeGet
<1>5. CASE ServeReset(m)
  <2>1. working' = working
    BY <1>2, <1>5 DEF ServeReset, IInv, TypeOK, Saved
  <2>2. QED
    BY <1>3, <1>5, <2>1 DEF ServeReset, Arrives, deviceVars
<1>6. CASE ServeGetIp(m)
  BY <1>3, <1>6 DEF ServeGetIp, Arrives
<1>7. CASE ServeGetUuid(m)
  BY <1>3, <1>7 DEF ServeGetUuid, Arrives
<1>8. CASE Refuse(m)
  <2>1. PICK refusal \in Refusals : Answer(m, refusal, TRUE, Empty)
    BY <1>8 DEF Refuse
  <2>2. refusal \in RefusalMethods /\ refusal # "SET_DATA"
    BY UsageAssumption DEF RefusalMethods
  <2>3. QED
    BY <1>3, <1>8, <2>1, <2>2 DEF Refuse
<1>9. QED
  BY <1>4, <1>5, <1>6, <1>7, <1>8, ServeSetKeeps DEF Serve

\* The invariant holds at first, and every step keeps it.
LEMMA IInvInit == Init => IInv
<1> SUFFICES ASSUME Init PROVE IInv
  OBVIOUS
<1>1. TypeOK
  BY InitType
<1>2. Saved /\ Lone /\ Owned /\ Solo
  BY DEF Init, Saved, Lone, Owned, Solo
<1>3. Fixed
  BY PartiesAssumption DEF Init, Fixed
<1>4. \A c \in Callers : Told(c) = Empty
  BY DEF Init, Told, Acked
<1>5. Mirrored
  BY <1>4 DEF Mirrored, Mirrors, Keys, Empty
<1>6. QED
  BY <1>1, <1>2, <1>3, <1>5 DEF IInv

\* Every step keeps the invariant of the reliable network.
LEMMA IInvNext == Reliable /\ Exclusive /\ IInv /\ [Next]_vars => IInv'
<1> SUFFICES ASSUME Reliable, Exclusive, IInv, [Next]_vars PROVE IInv'
  OBVIOUS
<1>1. TypeOK'
  BY NextType DEF IInv
<1>2. ASSUME NEW c \in Callers PROVE ~Cancel(c) /\ ~RecvError(c)
  BY DEF Reliable, Cancel, RecvError
<1>3. CASE UNCHANGED vars
  <2>1. UNCHANGED <<working, nvram, requests, replies, pc, awaiting, config, cache, result>>
    BY <1>3 DEF vars, deviceVars, callerVars
  <2>2. Saved' /\ Fixed' /\ Solo' /\ Lone'
    BY <2>1 DEF IInv, Saved, Fixed, Solo, Lone
  <2>3. Owned'
    BY <2>1 DEF IInv, Owned, Asks, Answers
  <2>4. Mirrored'
    BY <2>1 DEF IInv, Mirrored, Mirrors, Told, Acked
  <2>5. QED
    BY <1>1, <2>2, <2>3, <2>4 DEF IInv
<1>4. QED
  BY <1>1, <1>2, <1>3, StartKeeps, ReceiveKeeps, ServeKeeps DEF Next

\* The invariant behind everything below.
LEMMA IInvAlways == Reliable /\ Exclusive /\ Spec => []IInv
<1>1. CASE Reliable /\ Exclusive
  <2>1. IInv /\ [Next]_vars => IInv'
    BY <1>1, IInvNext
  <2>2. QED
    BY <2>1, IInvInit, PTL DEF Spec
<1>2. QED
  BY <1>1

-----------------------------------------------------------------------------
(* What follows of the properties of UdapOps.                              *)

\* Values that the codec leaves as they are.
Exact == \A v \in Values : Stored[v] = v

\* With such values, a record says what its device has persisted, whenever the
\* caller is not inside a set.
THEOREM RecordMatches == Reliable /\ Exclusive /\ Exact /\ Spec => []RecordIsPersisted
<1>1. CASE Reliable /\ Exclusive /\ Exact
  <2>1. IInv => RecordIsPersisted
    <3> SUFFICES ASSUME IInv, NEW c \in Callers, pc[c] # "set", NEW n \in Recorded(c)
                 PROVE  cache[c][n] = nvram[Target[c]][SlotOf[n]]
      BY DEF RecordIsPersisted
    <3>1. n \in Keys(cache[c]) \cap Known /\ cache[c][n] \in Values
      BY DEF Recorded, Keys, IInv, TypeOK, Map, Maybe
    <3>2. nvram[Target[c]][SlotOf[n]] = Stored[cache[c][n]]
      BY <3>1, RecordMirrors DEF Acked, Mirrors
    <3>3. QED
      BY <1>1, <3>1, <3>2 DEF Exact
  <2>2. QED
    BY <1>1, <2>1, IInvAlways, PTL
<1>2. QED
  BY <1>1

\* Nothing but a reply ends an operation.
LEMMA EndsByReply ==
  ASSUME IInv, Reliable, Exclusive, [Next]_vars, NEW c \in Callers,
         pc[c] # "idle", pc'[c] = "idle"
  PROVE  \E r \in replies :
           \/ GetReply(c, r) \/ GetAllReply(c, r) \/ PreludeReply(c, r) \/ SetReply(c, r)
           \/ ResetReply(c, r) \/ GetIpReply(c, r) \/ GetUuidReply(c, r)
<1>1. \A k \in Callers : ~Start(k) /\ ~Cancel(k) /\ ~RecvError(k)
  <2>1. \A k \in Callers : \A op : ~MayCall(k, op)
    BY DEF MayCall, Reliable
  <2>2. QED
    BY <2>1 DEF Start, Get, GetAll, Set, Reset, GetIp, GetUuid, Call, ZeroMacGuard,
                SetLoaded, SetUnloaded, Cancel, RecvError, Reliable
<1>2. \A m \in requests : ~Serve(m)
  BY DEF Serve, ServeGet, ServeSet, ServeReset, ServeGetIp, ServeGetUuid, Refuse, Answer,
         callerVars
<1>3. PICK k \in Callers : Receive(k)
  BY <1>1, <1>2 DEF Next, vars, callerVars
<1>4. PICK r \in replies :
        \/ GetReply(k, r) \/ GetAllReply(k, r) \/ PreludeReply(k, r) \/ SetReply(k, r)
        \/ ResetReply(k, r) \/ GetIpReply(k, r) \/ GetUuidReply(k, r)
  BY <1>3, NothingToDiscard DEF Receive
<1>5. pc[k] # "idle"
  BY <1>4 DEF GetReply, GetAllReply, PreludeReply, SetReply, ResetReply, GetIpReply,
              GetUuidReply, Takes
<1>6. k = c
  BY <1>5 DEF IInv, Solo
<1>7. QED
  BY <1>4, <1>6

\* Serving a SET_DATA request changes only what its caller named: the rest of
\* the request repeats what the device already runs.
LEMMA PreservesStep ==
  ASSUME IInv, Exclusive, NEW m \in requests, ServeSet(m), NEW d \in Macs, NEW s \in Slots,
         working'[d][s] # working[d][s]
  PROVE  \E c \in Callers : pc[c] = "set" /\ Target[c] = d /\ NamesAt(config[c], s) # {}
<1>1. PICK c \in Callers : Asks(c, m)
  BY Reaching
<1>2. pc[c] = "set" /\ m.dst = Target[c]
  BY <1>1 DEF Asks, ServeSet, Arrives, MethodOf
<1>3. m.dst = d /\ m.items[s] = working'[d][s]
  BY ServeStep DEF IInv
<1>4. /\ m.items = BySlot(Extend(cache[c], config[c]))
      /\ cache[c] \in Map /\ config[c] \in Map
  BY <1>1, <1>2, ExtendType, PayloadBySlot DEF Asks, IInv, TypeOK
<1>5. working'[d][s] \in Values
  <2>1. m \in Request /\ m.dst \in Macs
    BY Reaching DEF Request
  <2>2. working' = [working EXCEPT ![d] =
          [t \in Slots |-> IF m.items[t] = Absent THEN working[d][t] ELSE m.items[t]]]
    BY <1>3 DEF ServeSet
  <2>3. working'[d][s] = IF m.items[s] = Absent THEN working[d][s] ELSE m.items[s]
    BY <2>2 DEF IInv, TypeOK
  <2>4. m.items[s] \in Maybe /\ working[d][s] \in Values
    BY <2>1 DEF IInv, TypeOK, Request, Image
  <2>5. QED
    BY <2>3, <2>4 DEF Maybe
<1>6. SUFFICES ASSUME NamesAt(config[c], s) = {} PROVE FALSE
  BY <1>2, <1>3
<1>7. Canonical[s] \in Names \cap Known /\ SlotOf[Canonical[s]] = s
  BY TableAssumption
<1>8. config[c][Canonical[s]] = Absent
  BY <1>6, <1>7 DEF NamesAt, Keys
<1>9. m.items[s] = BySlot(cache[c])[s] /\ m.items[s] # Absent
  BY <1>3, <1>4, <1>5, <1>8, BySlotExtend, BySlotValue, TableAssumption
<1>10. cache[c][Canonical[s]] # Absent /\ m.items[s] = Stored[cache[c][Canonical[s]]]
  BY <1>4, <1>9, BySlotValue
<1>11. ~Acked(c)
  BY Reaching DEF Acked
<1>12. nvram[d][s] = Stored[cache[c][Canonical[s]]]
  BY <1>2, <1>3, <1>7, <1>10, <1>11, RecordMirrors DEF Mirrors, Keys
<1>13. QED
  BY <1>3, <1>10, <1>12 DEF IInv, Saved

\* A set changes the parameters its caller named and no other, although its
\* request carries the whole table.
THEOREM SetPreserves == Reliable /\ Exclusive /\ Spec => SetPreservesRest
<1> DEFINE Step == \A d \in Macs, s \in Slots :
             working'[d][s] # working[d][s] =>
               \E c \in Callers : pc[c] = "set" /\ Target[c] = d /\ NamesAt(config[c], s) # {}
<1>1. CASE Reliable /\ Exclusive
  <2>1. IInv /\ [Next]_vars => Step
    <3> SUFFICES ASSUME IInv, [Next]_vars, NEW d \in Macs, NEW s \in Slots,
                        working'[d][s] # working[d][s]
                 PROVE  \E c \in Callers : pc[c] = "set" /\ Target[c] = d
                                           /\ NamesAt(config[c], s) # {}
      OBVIOUS
    <3>1. PICK m \in requests : ServeSet(m) \/ ServeReset(m)
      BY DeviceStep DEF deviceVars
    <3>2. ~ServeReset(m)
      BY Reaching DEF ServeReset, IInv, Saved, TypeOK, Request
    <3>3. QED
      BY <1>1, <3>1, <3>2, PreservesStep
  <2>2. QED
    BY <1>1, <2>1, IInvAlways, PTL DEF Spec, SetPreservesRest
<1>2. QED
  BY <1>1

\* What a get returns is what its device runs as it returns.
LEMMA GetStep ==
  ASSUME IInv, Reliable, Exclusive, [Next]_vars, NEW c \in Callers,
         pc[c] = "get", pc'[c] = "idle", NEW n \in Keys(result'[c].data)
  PROVE  result'[c].data[n] = working[Target[c]][SlotOf[n]]
<1>1. PICK r \in replies : GetReply(c, r)
  BY EndsByReply DEF GetAllReply, PreludeReply, SetReply, ResetReply, GetIpReply,
                     GetUuidReply, Takes
<1>2. result'[c].data = IF GetStatus(r) = "ok" THEN r.data ELSE Empty
  BY <1>1 DEF GetReply, EndWith, Return, IInv, TypeOK
<1>3. Keys(Empty) = {}
  BY DEF Keys, Empty
<1>4. result'[c].data = r.data
  BY <1>2, <1>3
<1>5. Answers(c, r)
  BY Waiting
<1>6. QED
  BY <1>4, <1>5 DEF Answers, IInv, Saved

\* A get never returns a value its device no longer runs: what an earlier set
\* changed is visible to it.
THEOREM GetReadsCurrent == Reliable /\ Exclusive /\ Spec => GetIsCurrent
<1> DEFINE Step == \A c \in Callers : pc[c] = "get" /\ pc'[c] = "idle" =>
             \A n \in Keys(result'[c].data) :
               result'[c].data[n] = working[Target[c]][SlotOf[n]]
<1>1. CASE Reliable /\ Exclusive
  <2>1. IInv /\ [Next]_vars => Step
    BY <1>1, GetStep
  <2>2. QED
    BY <1>1, <2>1, IInvAlways, PTL DEF Spec, GetIsCurrent
<1>2. QED
  BY <1>1

-----------------------------------------------------------------------------
(* UdapOps implements ConfigStore.                                         *)

\* The empty map is the empty table.
LEMMA EmptyBySlot ==
  /\ set_data_payload(Empty) = Store!Nothing
  /\ BySlot(Empty) = Store!Nothing
<1>1. \A s \in Slots : NamesAt(Empty, s) = {} /\ Empty[Canonical[s]] = Absent
  BY TableAssumption DEF NamesAt, Keys, Empty
<1>2. QED
  BY <1>1 DEF set_data_payload, BySlot, Store!Nothing

\* Tables made of maps are partial tables.
LEMMA BySlotType ==
  ASSUME NEW m \in Map
  PROVE  BySlot(m) \in Store!Partial /\ set_data_payload(m) \in Store!Partial
<1>1. BySlot(m) \in Store!Partial
  BY BySlotValue DEF BySlot, Store!Partial
<1>2. QED
  BY <1>1, PayloadType DEF Image, Maybe, Store!Partial

\* An idle caller has no call.
LEMMA IdleCall ==
  ASSUME Solo, NEW c \in Callers, pc[c] = "idle"
  PROVE  CallOf(c) = Store!Idle
  BY EmptyBySlot DEF Solo, CallOf, OpOf, Acked, Store!Idle

\* Returning, seen from the store.
LEMMA ReturnSeen ==
  ASSUME IInv, NEW c \in Callers, \A k \in Callers \ {c} : pc[k] = "idle",
         NEW status, NEW data, Return(c, status, data)
  PROVE  /\ calls' = [calls EXCEPT ![c] = Store!Idle]
         /\ outcomes' = [outcomes EXCEPT ![c] = [verdict |-> VerdictOf(status),
                                                  reading |-> BySlot(data)]]
<1>1. /\ pc'[c] = "idle" /\ config'[c] = Empty
      /\ result'[c] = [status |-> status, data |-> data]
      /\ \A k \in Callers \ {c} :
           pc'[k] = "idle" /\ config'[k] = config[k] /\ result'[k] = result[k]
  BY DEF Return, IInv, TypeOK
<1>2. CallOf(c)' = Store!Idle
  BY <1>1, EmptyBySlot DEF CallOf, OpOf, Acked, Store!Idle
<1>3. ASSUME NEW k \in Callers \ {c} PROVE CallOf(k)' = CallOf(k)
  BY <1>1 DEF CallOf, Acked
<1>4. ASSUME NEW k \in Callers \ {c} PROVE OutcomeOf(k)' = OutcomeOf(k)
  BY <1>1 DEF OutcomeOf
<1>5. OutcomeOf(c)' = [verdict |-> VerdictOf(status), reading |-> BySlot(data)]
  BY <1>1 DEF OutcomeOf
<1>6. QED
  BY <1>2, <1>3, <1>4, <1>5 DEF calls, outcomes

\* Starting to wait, seen from the store.
LEMMA WaitSeen ==
  ASSUME IInv, NEW c \in Callers, \A k \in Callers \ {c} : pc[k] = "idle",
         NEW stage \in Stage, NEW arg, pc' = [pc EXCEPT ![c] = stage],
         config' = [config EXCEPT ![c] = arg], replies' = {},
         result' = [result EXCEPT ![c] = [status |-> "none", data |-> Empty]]
  PROVE  /\ calls' = [calls EXCEPT ![c] = [op |-> OpOf(stage),
                                            change |-> set_data_payload(arg),
                                            applied |-> FALSE]]
         /\ outcomes' = [outcomes EXCEPT ![c] = [verdict |-> "none",
                                                  reading |-> Store!Nothing]]
<1>1. /\ pc'[c] = stage /\ config'[c] = arg
      /\ result'[c] = [status |-> "none", data |-> Empty]
      /\ \A k \in Callers \ {c} :
           pc'[k] = "idle" /\ config'[k] = config[k] /\ result'[k] = result[k]
  BY DEF IInv, TypeOK
<1>2. CallOf(c)' = [op |-> OpOf(stage), change |-> set_data_payload(arg), applied |-> FALSE]
  BY <1>1 DEF CallOf, OpOf, Acked
<1>3. ASSUME NEW k \in Callers \ {c} PROVE CallOf(k)' = CallOf(k)
  BY <1>1 DEF CallOf, Acked
<1>4. ASSUME NEW k \in Callers \ {c} PROVE OutcomeOf(k)' = OutcomeOf(k)
  BY <1>1 DEF OutcomeOf
<1>5. OutcomeOf(c)' = [verdict |-> "none", reading |-> Store!Nothing]
  BY <1>1, EmptyBySlot DEF OutcomeOf, VerdictOf
<1>6. QED
  BY <1>2, <1>3, <1>4, <1>5 DEF calls, outcomes

\* A Device's parameters, seen from the store.
LEMMA RecordSeen ==
  ASSUME TypeOK, NEW c \in Callers, NEW p, cache' = [cache EXCEPT ![c] = p]
  PROVE  records' = [records EXCEPT ![c] = BySlot(p)]
<1>1. cache'[c] = p /\ \A k \in Callers \ {c} : cache'[k] = cache[k]
  BY DEF TypeOK
<1>2. \A k \in Callers : records'[k] = BySlot(cache'[k])
  BY DEF records, BySlot
<1>3. records' = [k \in Callers |-> records'[k]]
  BY DEF records
<1>4. \A k \in Callers : records'[k] = IF k = c THEN BySlot(p) ELSE records[k]
  BY <1>1, <1>2 DEF records
<1>5. QED
  BY <1>3, <1>4 DEF records

\* A client that learns nothing learns.
LEMMA LearnsNothing ==
  ASSUME TypeOK, NEW c \in Callers, records' = records
  PROVE  Store!Learns(c)
<1>1. records[c] \in Store!Partial /\ records' = [records EXCEPT ![c] = records[c]]
  BY BySlotType DEF records, TypeOK
<1>2. QED
  BY <1>1 DEF Store!Learns

\* One that reads the device learns what the device holds.
LEMMA LoadedLearns ==
  ASSUME IInv, NEW c \in Callers, NEW r \in replies, pc[c] \notin {"idle", "set"},
         cache' = [cache EXCEPT ![c] = Loaded(c, r)]
  PROVE  Store!Learns(c)
<1> DEFINE known == BySlot(Loaded(c, r))
<1>1. Loaded(c, r) \in Map /\ cache[c] \in Map
  BY LoadedType DEF IInv, TypeOK
<1>2. records' = [records EXCEPT ![c] = known] /\ records[c] = BySlot(cache[c])
  BY RecordSeen DEF IInv, records
<1>3. ASSUME NEW s \in Slots
      PROVE  known[s] = records[c][s] \/ known[s] = nvram[Target[c]][s]
  <2>1. Canonical[s] \in Names \cap Known /\ SlotOf[Canonical[s]] = s
        /\ Canonical[s] \notin Synthetic
    BY TableAssumption
  <2>2. CASE Loaded(c, r)[Canonical[s]] = Absent
    <3>1. cache[c][Canonical[s]] = Absent
      BY <2>1, <2>2 DEF Loaded, Extend
    <3>2. QED
      BY <1>1, <1>2, <2>2, <3>1, BySlotValue
  <2>3. CASE Loaded(c, r)[Canonical[s]] # Absent
    <3>1. known[s] = Stored[Loaded(c, r)[Canonical[s]]]
      BY <1>1, <2>3, BySlotValue
    <3>2. QED
      BY <2>1, <2>3, <3>1, LoadedMirrors DEF Mirrors, Keys
  <2>4. QED
    BY <2>2, <2>3
<1>4. known \in Store!Partial
  BY <1>1, BySlotType
<1> HIDE DEF known
<1>5. QED
  BY <1>2, <1>3, <1>4 DEF Store!Learns

\* Sending from a quiet state begins a call, or is rejected.
LEMMA BeginSeen ==
  ASSUME IInv, NEW c \in Callers, Target[c] \in Macs, \A k \in Callers : pc[k] = "idle",
         NEW stage \in Stage \ {"idle"}, NEW arg \in Map, stage \in {"prelude", "set"} \/ arg = Empty,
         replies' = {}, UNCHANGED <<nvram, cache>>,
         \/ Return(c, "Send", Empty)
         \/ /\ pc' = [pc EXCEPT ![c] = stage]
            /\ config' = [config EXCEPT ![c] = arg]
            /\ result' = [result EXCEPT ![c] = [status |-> "none", data |-> Empty]]
  PROVE  Store!Next
<1>1. calls[c] = Store!Idle /\ UNCHANGED records
  BY IdleCall DEF IInv, calls, records, BySlot
<1>2. CASE Return(c, "Send", Empty)
  <2>1. /\ calls' = [calls EXCEPT ![c] = Store!Idle]
        /\ outcomes' = [outcomes EXCEPT ![c] = [verdict |-> "failed", reading |-> Store!Nothing]]
    BY <1>2, ReturnSeen, EmptyBySlot DEF VerdictOf
  <2>2. calls' = calls
    BY <1>1, <2>1 DEF calls
  <2>3. Store!Reject(c)
    BY <1>1, <2>1, <2>2 DEF Store!Reject
  <2>4. QED
    BY <2>3 DEF Store!Next
<1>3. CASE /\ pc' = [pc EXCEPT ![c] = stage]
           /\ config' = [config EXCEPT ![c] = arg]
           /\ result' = [result EXCEPT ![c] = [status |-> "none", data |-> Empty]]
  <2>1. /\ calls' = [calls EXCEPT ![c] = [op |-> OpOf(stage), change |-> set_data_payload(arg),
                                           applied |-> FALSE]]
        /\ outcomes' = [outcomes EXCEPT ![c] = [verdict |-> "none", reading |-> Store!Nothing]]
    BY <1>3, WaitSeen
  <2>2. /\ OpOf(stage) \in Store!Operations /\ set_data_payload(arg) \in Store!Partial
        /\ OpOf(stage) # "set" => set_data_payload(arg) = Store!Nothing
    BY BySlotType, EmptyBySlot DEF OpOf, Stage, Store!Operations
  <2>3. Store!Begin(c, OpOf(stage), set_data_payload(arg))
    BY <1>1, <2>1, <2>2 DEF Store!Begin
  <2>4. QED
    BY <2>2, <2>3 DEF Store!Next
<1>4. QED
  BY <1>2, <1>3

\* A call refused on the spot is rejected.
LEMMA RejectSeen ==
  ASSUME IInv, NEW c \in Callers, \A k \in Callers : pc[k] = "idle",
         NEW status \in {"ZeroMac", "Encode"}, Return(c, status, Empty), UNCHANGED <<nvram, cache>>
  PROVE  Store!Next
<1>1. calls[c] = Store!Idle /\ UNCHANGED records
  BY IdleCall DEF IInv, calls, records, BySlot
<1>2. /\ calls' = [calls EXCEPT ![c] = Store!Idle]
      /\ outcomes' = [outcomes EXCEPT ![c] = [verdict |-> "failed", reading |-> Store!Nothing]]
  BY ReturnSeen, EmptyBySlot DEF VerdictOf
<1>3. calls' = calls
  BY <1>1, <1>2 DEF calls
<1>4. Store!Reject(c)
  BY <1>1, <1>2, <1>3 DEF Store!Reject
<1>5. QED
  BY <1>4 DEF Store!Next

\* Every operation starts with a begin or a rejection.
LEMMA StartSeen ==
  ASSUME IInv, Reliable, NEW c \in Callers, Start(c)
  PROVE  Store!Next
<1> USE DEF Stage
<1>1. ASSUME NEW op, ZeroMacGuard(c, op) PROVE Store!Next
  <2>1. \A k \in Callers : pc[k] = "idle"
    BY <1>1, CallFromQuiet DEF ZeroMacGuard
  <2>2. QED
    BY <1>1, <2>1, RejectSeen DEF ZeroMacGuard, deviceVars
<1>2. ASSUME NEW op, NEW stage \in Stage \ {"idle"}, NEW method, NEW slots, NEW items,
             NEW arg \in Map, stage = "prelude" \/ arg = Empty,
             Call(c, op, stage, method, slots, items, arg)
      PROVE  Store!Next
  <2>1. /\ \A k \in Callers : pc[k] = "idle"
        /\ replies = {} /\ Target[c] \in Macs
    BY <1>2, CallFromQuiet, Addressed DEF Call
  <2>2. QED
    BY <1>2, <2>1, BeginSeen DEF Call, SendAndWait, deviceVars
<1>3. ASSUME NEW arg \in Configs, SetLoaded(c, arg) PROVE Store!Next
  <2>1. /\ \A k \in Callers : pc[k] = "idle"
        /\ replies = {} /\ Target[c] \in Macs
    BY <1>3, CallFromQuiet, Addressed DEF SetLoaded
  <2>2. arg \in Map /\ UNCHANGED <<replies, nvram, cache>>
    BY <1>3, UsageAssumption DEF SetLoaded, deviceVars
  <2>3. \/ Return(c, "Encode", Empty)
        \/ Return(c, "Send", Empty)
        \/ /\ pc' = [pc EXCEPT ![c] = "set"]
           /\ config' = [config EXCEPT ![c] = arg]
           /\ result' = [result EXCEPT ![c] = [status |-> "none", data |-> Empty]]
    BY <1>3 DEF SetLoaded, SendSet, SendAndWait
  <2>4. QED
    BY <2>1, <2>2, <2>3, BeginSeen, RejectSeen
<1>4. ASSUME NEW arg \in Configs, SetUnloaded(c, arg) PROVE Store!Next
  BY <1>2, <1>4, UsageAssumption DEF SetUnloaded
<1>5. CASE Get(c)
  BY <1>1, <1>2, <1>5, EmptyType DEF Get
<1>6. CASE GetAll(c)
  BY <1>1, <1>2, <1>6, EmptyType DEF GetAll
<1>7. CASE Reset(c)
  BY <1>1, <1>2, <1>7, EmptyType DEF Reset
<1>8. CASE GetIp(c)
  BY <1>1, <1>2, <1>8, EmptyType DEF GetIp
<1>9. CASE GetUuid(c)
  BY <1>1, <1>2, <1>9, EmptyType DEF GetUuid
<1>10. CASE Set(c)
  BY <1>1, <1>3, <1>4, <1>10 DEF Set
<1>11. QED
  BY <1>5, <1>6, <1>7, <1>8, <1>9, <1>10 DEF Start

\* An operation that returns, its record unchanged or brought up to date.
LEMMA FinishSeen ==
  ASSUME IInv, NEW c \in Callers, pc[c] \notin {"idle", "set"}, NEW status \in Status \ {"none"},
         Return(c, status, Empty), UNCHANGED nvram,
         status = "ok" => pc[c] \in {"get_all", "reset", "get_ip", "get_uuid"},
         \/ UNCHANGED records
         \/ pc[c] = "get_all" /\ status = "ok" /\ Store!Learns(c)
  PROVE  Store!Next
<1>1. \A k \in Callers \ {c} : pc[k] = "idle"
  BY Waiting
<1>2. Store!Returns(c, VerdictOf(status), Store!Nothing)
  BY <1>1, ReturnSeen, EmptyBySlot DEF Store!Returns
<1>3. calls[c].op = OpOf(pc[c]) /\ ~calls[c].applied /\ pc[c] \in Stage
  BY DEF calls, CallOf, Acked, IInv, TypeOK
<1>4. VerdictOf(status) \in {"ok", "failed"} /\ (VerdictOf(status) = "ok" <=> status = "ok")
  BY DEF VerdictOf
<1>5. CASE pc[c] = "prelude"
  <2>1. VerdictOf(status) = "failed" /\ Store!Learns(c)
    BY <1>4, <1>5, LearnsNothing DEF IInv
  <2>2. Store!FinishSet(c)
    BY <1>2, <1>3, <1>5, <2>1 DEF Store!FinishSet, OpOf
  <2>3. QED
    BY <2>2 DEF Store!Next
<1>6. CASE pc[c] # "prelude"
  <2>1. calls[c].op = pc[c] /\ calls[c].op \in Store!Operations \ {"set"}
    BY <1>3, <1>6 DEF OpOf, Stage, Store!Operations
  <2>2. IF calls[c].op = "get_all" /\ VerdictOf(status) = "ok"
        THEN Store!Learns(c) ELSE UNCHANGED records
    BY <1>4, <2>1, LearnsNothing DEF IInv
  <2>3. Store!FinishOther(c, VerdictOf(status))
    BY <1>2, <1>4, <2>1, <2>2 DEF Store!FinishOther
  <2>4. QED
    BY <1>4, <2>3 DEF Store!Next
<1>7. QED
  BY <1>5, <1>6

\* The end of a set succeeds exactly when the change was applied.
LEMMA SetSeen ==
  ASSUME IInv, Exclusive, NEW c \in Callers, NEW r \in replies, SetReply(c, r)
  PROVE  Store!Next
<1>1. pc[c] = "set" /\ \A k \in Callers \ {c} : pc[k] = "idle"
  BY Waiting DEF SetReply, Takes
<1>2. /\ calls[c].op = "set" /\ calls[c].change = set_data_payload(config[c])
      /\ calls[c].applied <=> Acknowledges(r)
  BY <1>1, AckMeansAcked DEF calls, CallOf, OpOf
<1>3. cache[c] \in Map /\ config[c] \in Map
  BY DEF IInv, TypeOK
<1>4. CASE Acknowledges(r)
  <2>1. /\ Return(c, "ok", Empty) /\ UNCHANGED nvram
        /\ cache' = [cache EXCEPT ![c] = Extend(cache[c], config[c])]
    BY <1>4 DEF SetReply, EndWith, deviceVars
  <2>2. Store!Returns(c, "ok", Store!Nothing)
    BY <1>1, <2>1, ReturnSeen, EmptyBySlot DEF Store!Returns, VerdictOf
  <2>3. BySlot(Extend(cache[c], config[c])) = Store!Overlay(records[c], calls[c].change)
    <3> DEFINE t == BySlot(Extend(cache[c], config[c]))
               o == Store!Overlay(records[c], calls[c].change)
    <3>1. \A s \in Slots : t[s] = o[s]
      BY <1>2, <1>3, BySlotExtend, PayloadBySlot DEF Store!Overlay, records
    <3>2. t = [s \in Slots |-> t[s]] /\ o = [s \in Slots |-> o[s]]
      BY DEF BySlot, Store!Overlay
    <3> HIDE DEF t, o
    <3>3. t = o
      BY <3>1, <3>2
    <3>4. QED
      BY <3>3 DEF t, o
  <2>4. records' = [records EXCEPT ![c] = Store!Overlay(@, calls[c].change)]
    BY <2>1, <2>3, RecordSeen DEF IInv, records
  <2>5. Store!FinishSet(c)
    BY <1>2, <1>4, <2>2, <2>4 DEF Store!FinishSet
  <2>6. QED
    BY <2>5 DEF Store!Next
<1>5. CASE ~Acknowledges(r)
  <2>1. /\ Return(c, ErrorStatus(r), Empty) /\ UNCHANGED nvram
        /\ cache' = [cache EXCEPT ![c] = cache[c]]
    BY <1>5 DEF SetReply, EndWith, deviceVars
  <2>2. VerdictOf(ErrorStatus(r)) = "failed"
    BY DEF VerdictOf, ErrorStatus
  <2>3. Store!Returns(c, "failed", Store!Nothing)
    BY <1>1, <2>1, <2>2, ReturnSeen, EmptyBySlot DEF Store!Returns
  <2>4. cache' = cache
    BY <2>1 DEF IInv, TypeOK
  <2>5. Store!Learns(c)
    BY <2>4, LearnsNothing DEF IInv, records, BySlot
  <2>6. Store!FinishSet(c)
    BY <1>2, <1>5, <2>3, <2>5 DEF Store!FinishSet
  <2>7. QED
    BY <2>6 DEF Store!Next
<1>6. QED
  BY <1>4, <1>5

\* A get finishes with what the device holds.
LEMMA GetSeen ==
  ASSUME IInv, NEW c \in Callers, NEW r \in replies, GetReply(c, r)
  PROVE  Store!Next
<1>1. pc[c] = "get" /\ \A k \in Callers \ {c} : pc[k] = "idle"
  BY Waiting DEF GetReply, Takes
<1>2. cache' = cache /\ UNCHANGED <<nvram, records>>
  BY DEF GetReply, EndWith, deviceVars, IInv, TypeOK, records, BySlot
<1>3. CASE GetStatus(r) = "ok"
  <2>1. Return(c, "ok", r.data) /\ r.data \in Map
    BY <1>3 DEF GetReply, EndWith, IInv, TypeOK, Reply
  <2>2. Store!Returns(c, "ok", BySlot(r.data))
    BY <1>1, <1>2, <2>1, ReturnSeen DEF Store!Returns, VerdictOf
  <2>3. ASSUME NEW s \in Slots
        PROVE  BySlot(r.data)[s] = Absent \/ BySlot(r.data)[s] = nvram[Target[c]][s]
    <3>1. CASE r.data[Canonical[s]] = Absent
      BY <2>1, <3>1, BySlotValue
    <3>2. CASE r.data[Canonical[s]] # Absent
      <4>1. Canonical[s] \in Keys(r.data) /\ SlotOf[Canonical[s]] = s
        BY <3>2, TableAssumption DEF Keys
      <4>2. r.data[Canonical[s]] = nvram[Target[c]][s] /\ Target[c] \in Macs
        BY <1>1, <4>1, Waiting DEF Answers
      <4>3. BySlot(r.data)[s] = Stored[r.data[Canonical[s]]]
        BY <2>1, <3>2, BySlotValue
      <4>4. QED
        BY <4>2, <4>3 DEF IInv, Fixed
    <3>3. QED
      BY <3>1, <3>2
  <2>4. calls[c].op = "get"
    BY <1>1 DEF calls, CallOf, OpOf
  <2>5. Store!FinishGet(c, BySlot(r.data))
    BY <1>2, <2>2, <2>3, <2>4 DEF Store!FinishGet
  <2>6. QED
    BY <2>1, <2>5, BySlotType DEF Store!Next
<1>4. CASE GetStatus(r) # "ok"
  <2>1. Return(c, GetStatus(r), Empty)
    BY <1>4 DEF GetReply, EndWith
  <2>2. GetStatus(r) \in Status \ {"none"}
    BY StatusType DEF GetStatus
  <2>3. QED
    BY <1>1, <1>2, <1>4, <2>1, <2>2, FinishSeen
<1>5. QED
  BY <1>3, <1>4

\* The prelude of a set learns, or ends it.
LEMMA PreludeSeen ==
  ASSUME IInv, Reliable, NEW c \in Callers, NEW r \in replies, PreludeReply(c, r)
  PROVE  Store!Next
<1>1. pc[c] = "prelude" /\ \A k \in Callers \ {c} : pc[k] = "idle"
  BY Waiting DEF PreludeReply, Takes
<1>2. calls[c] = [op |-> "set", change |-> set_data_payload(config[c]), applied |-> FALSE]
  BY <1>1 DEF calls, CallOf, OpOf, Acked
<1>3. CASE GetStatus(r) # "ok" /\ EndWith(c, r, GetStatus(r), Empty, cache[c])
  <2>1. /\ Return(c, GetStatus(r), Empty) /\ cache' = cache
        /\ UNCHANGED <<nvram, records>>
    BY <1>3 DEF EndWith, deviceVars, IInv, TypeOK, records, BySlot
  <2>2. GetStatus(r) \in Status \ {"none"}
    BY StatusType DEF GetStatus
  <2>3. QED
    BY <1>1, <1>3, <2>1, <2>2, FinishSeen
<1>4. CASE /\ cache' = [cache EXCEPT ![c] = Loaded(c, r)]
           /\ replies' = Surviving(replies \ {r}, c)
           /\ SendSet(c, Loaded(c, r), config[c], Surviving(requests, c))
           /\ UNCHANGED deviceVars
  <2>1. Store!Learns(c) /\ UNCHANGED nvram
    BY <1>1, <1>4, LoadedLearns DEF deviceVars
  <2>2. replies' = {}
    BY <1>1, <1>4, Swept
  <2>3. ASSUME NEW status \in {"Send", "Encode"}, Return(c, status, Empty) PROVE Store!Next
    <3>1. Store!Returns(c, "failed", Store!Nothing)
      BY <1>1, <2>1, <2>3, ReturnSeen, EmptyBySlot DEF Store!Returns, VerdictOf
    <3>2. Store!FinishSet(c)
      BY <1>2, <2>1, <3>1 DEF Store!FinishSet
    <3>3. QED
      BY <3>2 DEF Store!Next
  <2>4. CASE /\ pc' = [pc EXCEPT ![c] = "set"]
             /\ config' = [config EXCEPT ![c] = config[c]]
             /\ result' = [result EXCEPT ![c] = [status |-> "none", data |-> Empty]]
    <3> "set" \in Stage /\ OpOf("set") = "set"
      BY DEF Stage, OpOf
    <3>1. /\ calls' = [calls EXCEPT ![c] = [op |-> OpOf("set"),
                                              change |-> set_data_payload(config[c]),
                                              applied |-> FALSE]]
          /\ outcomes' = [outcomes EXCEPT ![c] = [verdict |-> "none", reading |-> Store!Nothing]]
      BY <1>1, <2>2, <2>4, WaitSeen
    <3>2. outcomes[c] = [verdict |-> "none", reading |-> Store!Nothing]
      BY <1>1, EmptyBySlot DEF IInv, Solo, outcomes, OutcomeOf, VerdictOf
    <3>3. UNCHANGED <<calls, outcomes>>
      BY <1>2, <3>1, <3>2 DEF calls, outcomes
    <3>4. Store!Learn(c)
      BY <1>2, <2>1, <3>3 DEF Store!Learn
    <3>5. QED
      BY <3>4 DEF Store!Next
  <2>5. \/ Return(c, "Encode", Empty)
        \/ Return(c, "Send", Empty)
        \/ /\ pc' = [pc EXCEPT ![c] = "set"]
           /\ config' = [config EXCEPT ![c] = config[c]]
           /\ result' = [result EXCEPT ![c] = [status |-> "none", data |-> Empty]]
    BY <1>4 DEF SendSet, SendAndWait
  <2>6. QED
    BY <2>3, <2>4, <2>5
<1>5. QED
  BY <1>3, <1>4 DEF PreludeReply

\* Every reply taken is a step of the store.
LEMMA ReceiveSeen ==
  ASSUME IInv, Reliable, Exclusive, NEW c \in Callers, Receive(c)
  PROVE  Store!Next
<1>1. PICK r \in replies :
        \/ GetReply(c, r) \/ GetAllReply(c, r) \/ PreludeReply(c, r) \/ SetReply(c, r)
        \/ ResetReply(c, r) \/ GetIpReply(c, r) \/ GetUuidReply(c, r)
  BY NothingToDiscard DEF Receive
<1>2. ASSUME NEW status \in Status \ {"none"}, EndWith(c, r, status, Empty, cache[c]),
             pc[c] \in {"reset", "get_ip", "get_uuid"} \/ (pc[c] = "get_all" /\ status # "ok")
      PROVE  Store!Next
  <2>1. Return(c, status, Empty) /\ UNCHANGED <<nvram, records>>
    BY <1>2 DEF EndWith, deviceVars, IInv, TypeOK, records, BySlot
  <2>2. pc[c] \notin {"idle", "set"}
    BY <1>2
  <2>3. QED
    BY <1>2, <2>1, <2>2, FinishSeen
<1>3. /\ ErrorStatus(r) \in Status \ {"none"} /\ ResetStatus(r) \in Status \ {"none"}
      /\ GetStatus(r) \in Status \ {"none"}
      /\ "ok" \in Status \ {"none"} /\ "MissingUuid" \in Status \ {"none"}
  BY StatusType DEF ErrorStatus, ResetStatus, GetStatus
<1>4. CASE GetAllReply(c, r)
  <2>1. pc[c] = "get_all"
    BY <1>4 DEF GetAllReply, Takes
  <2>2. CASE GetStatus(r) = "ok"
    <3>1. /\ Return(c, "ok", Empty) /\ UNCHANGED nvram
          /\ cache' = [cache EXCEPT ![c] = Loaded(c, r)]
      BY <1>4, <2>2 DEF GetAllReply, EndWith, deviceVars
    <3>2. Store!Learns(c)
      BY <2>1, <3>1, LoadedLearns
    <3>3. QED
      BY <1>3, <2>1, <3>1, <3>2, FinishSeen
  <2>3. CASE GetStatus(r) # "ok"
    BY <1>2, <1>3, <1>4, <2>1, <2>3 DEF GetAllReply
  <2>4. QED
    BY <2>2, <2>3
<1>5. CASE ResetReply(c, r)
  BY <1>2, <1>3, <1>5 DEF ResetReply, Takes
<1>6. CASE GetIpReply(c, r)
  BY <1>2, <1>3, <1>6 DEF GetIpReply, Takes
<1>7. CASE GetUuidReply(c, r)
  BY <1>2, <1>3, <1>7 DEF GetUuidReply, Takes
<1>8. QED
  BY <1>1, <1>4, <1>5, <1>6, <1>7, GetSeen, PreludeSeen, SetSeen

\* A caller that does not move is in the same call.
LEMMA SameCall ==
  ASSUME NEW c \in Callers, UNCHANGED <<pc, config>>
  PROVE  CallOf(c)' = [op |-> OpOf(pc[c]), change |-> set_data_payload(config[c]),
                       applied |-> Acked(c)']
  BY DEF CallOf, OpOf, set_data_payload, NamesAt, Keys, LastOf

\* A device taking a SET_DATA request is the instant at which the set applies:
\* what the request adds to the change is what the device holds already.
LEMMA ApplySeen ==
  ASSUME IInv, Exclusive, NEW m \in requests, ServeSet(m)
  PROVE  Store!Next
<1>1. PICK c \in Callers : Asks(c, m) /\ Target[c] \in Macs
                           /\ \A k \in Callers \ {c} : pc[k] = "idle"
  BY Reaching
<1> DEFINE d == Target[c]
           updated == [s \in Slots |-> IF m.items[s] = Absent THEN working[d][s] ELSE m.items[s]]
           change == set_data_payload(config[c])
<1>2. pc[c] = "set" /\ m.dst = d /\ replies = {}
  BY <1>1, Reaching DEF Asks, ServeSet, Arrives, MethodOf
<1>3. /\ nvram' = [nvram EXCEPT ![d] = updated]
      /\ \E r \in replies' : r.src = d /\ r.method = "SET_DATA"
      /\ UNCHANGED <<pc, awaiting, config, cache, result>>
  BY <1>2 DEF ServeSet, Answer, callerVars
<1>4. calls[c] = [op |-> "set", change |-> change, applied |-> FALSE]
  BY <1>2 DEF calls, CallOf, OpOf, Acked
<1>5. calls' = [calls EXCEPT ![c] = [op |-> "set", change |-> change, applied |-> TRUE]]
  <2>1. Acked(c)' = TRUE /\ OpOf(pc[c]) = "set"
    BY <1>2, <1>3 DEF Acked, OpOf
  <2>2. CallOf(c)' = [op |-> "set", change |-> change, applied |-> TRUE]
    BY <1>3, <2>1, SameCall
  <2>3. ASSUME NEW k \in Callers \ {c} PROVE CallOf(k)' = CallOf(k)
    <3>1. Acked(k)' = FALSE /\ Acked(k) = FALSE
      BY <1>1, <1>3 DEF Acked
    <3>2. QED
      BY <1>3, <3>1, SameCall DEF CallOf
  <2>4. QED
    BY <2>2, <2>3 DEF calls
<1>6. updated = Store!Overlay(nvram[d], change)
  <2>1. /\ m.items = BySlot(Extend(cache[c], config[c]))
        /\ change = BySlot(config[c])
        /\ cache[c] \in Map /\ config[c] \in Map
    BY <1>1, <1>2, ExtendType, PayloadBySlot DEF Asks, IInv, TypeOK
  <2>2. ASSUME NEW s \in Slots
        PROVE  updated[s] = IF change[s] = Absent THEN nvram[d][s] ELSE change[s]
    <3>1. m.items[s] = IF change[s] = Absent THEN BySlot(cache[c])[s] ELSE change[s]
      BY <2>1, BySlotExtend
    <3>2. BySlot(cache[c])[s] = Absent \/ BySlot(cache[c])[s] = nvram[d][s]
      <4>1. Canonical[s] \in Names \cap Known /\ SlotOf[Canonical[s]] = s /\ ~Acked(c)
        BY <1>2, TableAssumption DEF Acked
      <4>2. cache[c][Canonical[s]] # Absent =>
              nvram[d][s] = Stored[cache[c][Canonical[s]]]
        BY <4>1, RecordMirrors DEF Mirrors, Keys
      <4>3. QED
        BY <2>1, <4>2, BySlotValue
    <3>3. updated[s] = IF m.items[s] = Absent THEN nvram[d][s] ELSE m.items[s]
      BY DEF IInv, Saved
    <3> HIDE DEF updated, change
    <3>4. QED
      BY <3>1, <3>2, <3>3
  <2> HIDE DEF change
  <2>3. QED
    BY <2>2 DEF Store!Overlay
<1>7. UNCHANGED <<outcomes, records>>
  BY <1>3 DEF outcomes, OutcomeOf, VerdictOf, records, BySlot
<1>8. Store!Apply(c)
  <2> HIDE DEF updated, change
  <2>1. nvram' = [nvram EXCEPT ![d] = Store!Overlay(nvram[d], calls[c].change)]
    BY <1>3, <1>4, <1>6
  <2>2. QED
    BY <1>4, <1>5, <1>7, <2>1 DEF Store!Apply
<1>9. QED
  BY <1>8 DEF Store!Next

\* No other request changes anything the store sees.
LEMMA ServeSeen ==
  ASSUME IInv, NEW m \in requests, Serve(m), ~ServeSet(m)
  PROVE  UNCHANGED Store!storeVars
<1>1. nvram' = nvram
  BY DEF Serve, ServeGet, ServeReset, ServeGetIp, ServeGetUuid, Refuse, deviceVars
<1>2. UNCHANGED <<pc, config, cache, result>>
  BY DEF Serve, ServeGet, ServeReset, ServeGetIp, ServeGetUuid, Refuse, Answer, callerVars
<1>3. \A r \in replies' : r.method # "SET_DATA"
  <2>1. replies = {}
    BY Reaching
  <2>2. \A refusal \in Refusals : refusal # "SET_DATA"
    BY UsageAssumption DEF RefusalMethods
  <2>3. QED
    BY <2>1, <2>2 DEF Serve, ServeGet, ServeReset, ServeGetIp, ServeGetUuid, Refuse, Answer
<1>4. replies = {}
  BY Reaching
<1>5. UNCHANGED calls
  BY <1>2, <1>3, <1>4, SameCall DEF calls, CallOf, Acked
<1>6. UNCHANGED <<outcomes, records>>
  BY <1>2 DEF outcomes, OutcomeOf, VerdictOf, records, BySlot
<1>7. QED
  BY <1>1, <1>5, <1>6 DEF Store!storeVars

\* Every step is a step of the store or changes nothing the store sees.
LEMMA StepSeen ==
  ASSUME IInv, Reliable, Exclusive, [Next]_vars
  PROVE  [Store!Next]_Store!storeVars
<1>1. CASE UNCHANGED vars
  <2>1. UNCHANGED <<nvram, replies, pc, config, result, cache>>
    BY <1>1 DEF vars, deviceVars, callerVars
  <2>2. UNCHANGED calls
    BY <2>1, SameCall DEF calls, CallOf, Acked
  <2>3. UNCHANGED <<outcomes, records>>
    BY <2>1 DEF outcomes, OutcomeOf, VerdictOf, records, BySlot
  <2>4. QED
    BY <2>1, <2>2, <2>3 DEF Store!storeVars
<1>2. \A c \in Callers : ~Cancel(c) /\ ~RecvError(c)
  BY DEF Reliable, Cancel, RecvError
<1>3. QED
  BY <1>1, <1>2, StartSeen, ReceiveSeen, ApplySeen, ServeSeen DEF Next

\* The store starts with what the devices hold, and nobody in a call.
LEMMA InitSeen == Init => Store!Init
<1> SUFFICES ASSUME Init PROVE Store!Init
  OBVIOUS
<1>1. nvram \in [Macs -> [Slots -> Values]]
  BY InitType DEF TypeOK
<1>2. \A c \in Callers : CallOf(c) = Store!Idle
  BY EmptyBySlot DEF Init, CallOf, OpOf, Acked, Store!Idle
<1>3. \A c \in Callers : /\ OutcomeOf(c) = [verdict |-> "none", reading |-> Store!Nothing]
                         /\ BySlot(cache[c]) = Store!Nothing
  BY EmptyBySlot DEF Init, OutcomeOf, VerdictOf
<1>4. QED
  BY <1>1, <1>2, <1>3 DEF Store!Init, calls, outcomes, records

\* On a reliable network, with one caller to a device, a set is atomic and its
\* success means that it was applied, a get reads the device as it returns,
\* and a record is never ahead of the device: for every table, value, device,
\* caller and refusal.
THEOREM Implements == Reliable /\ Exclusive /\ Spec => ImplementsStore
<1>1. CASE Reliable /\ Exclusive
  <2>1. IInv /\ [Next]_vars => [Store!Next]_Store!storeVars
    BY <1>1, StepSeen
  <2>2. QED
    BY <1>1, <2>1, InitSeen, IInvAlways, PTL DEF Spec, ImplementsStore, Store!Spec
<1>2. QED
  BY <1>1

-----------------------------------------------------------------------------
(* Any number of callers inside operations at once, retransmissions,       *)
(* losses, refusals, cancellations and receive errors: FInv.               *)

\* The device of c holds what c asks for.
Done(c) ==
  \A n \in Keys(config[c]) \cap Known : nvram[Target[c]][SlotOf[n]] = Stored[config[c][n]]

\* r is a reply to the request c waits on, true of the device at some time.
Reports(c, r) ==
  /\ pc[c] # "idle" /\ r.src = Target[c] /\ r.sequence = awaiting[c]
  /\ r.method \in {MethodOf(pc[c])} \cup RefusalMethods
  /\ \A n \in Keys(r.data) : n \in Known /\ r.data[n] \in held[r.src][SlotOf[n]]
  /\ r.method = "SET_DATA" => Done(c)

\* The history has what the devices hold now.
Remembered ==
  \A d \in Macs, s \in Slots : working[d][s] \in held[d][s] /\ nvram[d][s] \in held[d][s]

InFlight ==
  /\ \A m \in requests : \E c \in Callers : Asks(c, m)
  /\ \A r \in replies : \E c \in Callers : Reports(c, r)

\* Only a caller with an address is inside an operation, or has a record.
Placed ==
  \A c \in Callers : pc[c] # "idle" \/ Recorded(c) # {} => Target[c] \in Macs

\* What c's record shows, its device held (if the codec leaves values as they are).
Witnessed(c) ==
  Exact => \A n \in Recorded(c) : cache[c][n] \in held[Target[c]][SlotOf[n]]

FInv ==
  /\ TypeOK /\ Remembered /\ InFlight /\ Placed
  /\ \A c \in Callers : Witnessed(c)

-----------------------------------------------------------------------------
(* What the invariant says of a caller and its device.                     *)

\* The datagrams to and from a device are of the wait its caller is in.
LEMMA OnlyMine ==
  ASSUME FInv, Exclusive, NEW c \in Callers, Target[c] \in Macs
  PROVE  /\ \A m \in requests : m.dst = Target[c] => Asks(c, m)
         /\ \A r \in replies : r.src = Target[c] => Reports(c, r)
<1>1. \A k \in Callers : Target[k] = Target[c] => k = c
  BY DEF Exclusive
<1>2. ASSUME NEW m \in requests, m.dst = Target[c] PROVE Asks(c, m)
  BY <1>1, <1>2 DEF FInv, InFlight, Asks
<1>3. ASSUME NEW r \in replies, r.src = Target[c] PROVE Reports(c, r)
  BY <1>1, <1>3 DEF FInv, InFlight, Reports
<1>4. QED
  BY <1>2, <1>3

\* So none is left when the wait is over.
LEMMA SweptMine ==
  ASSUME FInv, Exclusive, ~Late, NEW c \in Callers, pc[c] # "idle", NEW x
  PROVE  /\ \A m \in Surviving(requests, c) : m \in requests /\ m.dst # Target[c]
         /\ \A r \in Surviving(replies \ {x}, c) : r \in replies /\ r.src # Target[c]
         /\ \A r \in Surviving(replies, c) : r \in replies /\ r.src # Target[c]
<1>1. Target[c] \in Macs
  BY DEF FInv, Placed
<1>2. /\ \A m \in requests : m.dst = Target[c] => m.sequence = awaiting[c]
      /\ \A r \in replies : r.src = Target[c] => r.sequence = awaiting[c]
  BY <1>1, OnlyMine DEF Asks, Reports
<1>3. QED
  BY <1>2 DEF Surviving

\* And there is none before it begins.
LEMMA IdleMine ==
  ASSUME FInv, Exclusive, NEW c \in Callers, Target[c] \in Macs, pc[c] = "idle"
  PROVE  /\ \A m \in requests : m.dst # Target[c]
         /\ \A r \in replies : r.src # Target[c]
  BY OnlyMine DEF Asks, Reports

\* A request or reply of another caller stays one while that caller does not move
\* and the devices do not change.
LEMMA OthersStay ==
  ASSUME NEW k \in Callers, pc'[k] = pc[k], awaiting'[k] = awaiting[k],
         config'[k] = config[k], cache'[k] = cache[k]
  PROVE  /\ \A m : Asks(k, m) => Asks(k, m)'
         /\ \A r : Reports(k, r) /\ UNCHANGED <<nvram, held>> => Reports(k, r)'
<1>1. ASSUME NEW m, Asks(k, m) PROVE Asks(k, m)'
  <2>1. /\ cache'[k] = cache[k] /\ config'[k] = config[k]
        /\ pc'[k] = pc[k] /\ awaiting'[k] = awaiting[k]
    OBVIOUS
  <2> DEFINE merged == Extend(cache[k], config[k])
  <2>2. merged' = merged
    BY <2>1 DEF Extend
  <2>3. ASSUME NEW s \in Slots PROVE NamesAt(merged, s)' = NamesAt(merged, s)
    BY <2>2 DEF NamesAt, Keys
  <2> HIDE DEF merged
  <2>4. ASSUME NEW s \in Slots PROVE LastOf(NamesAt(merged, s))' = LastOf(NamesAt(merged, s))
    BY <2>3 DEF LastOf
  <2>5. set_data_payload(merged)' = set_data_payload(merged)
    BY <2>2, <2>3, <2>4 DEF set_data_payload
  <2>6. MethodOf(pc[k])' = MethodOf(pc[k])
    BY <2>1 DEF MethodOf
  <2>7. QED
    BY <1>1, <2>1, <2>5, <2>6 DEF Asks, merged
<1>2. ASSUME NEW r, Reports(k, r), UNCHANGED <<nvram, held>> PROVE Reports(k, r)'
  BY <1>2 DEF Reports, Done, Keys
<1>3. QED
  BY <1>1, <1>2

-----------------------------------------------------------------------------
(* Every step keeps the invariant.                                         *)

\* A move of one caller whose old datagrams are gone.
LEMMA MoveKeeps ==
  ASSUME FInv, Exclusive, TypeOK', NEW c \in Callers, Target[c] \in Macs,
         UNCHANGED deviceVars,
         \A k \in Callers \ {c} : /\ pc'[k] = pc[k] /\ awaiting'[k] = awaiting[k]
                                  /\ config'[k] = config[k] /\ cache'[k] = cache[k],
         \A m \in requests' : (m \in requests /\ m.dst # Target[c]) \/ Asks(c, m)',
         \A r \in replies' : r \in replies /\ r.src # Target[c],
         Witnessed(c)'
  PROVE  FInv'
<1>1. UNCHANGED <<working, nvram, held>>
  BY DEF deviceVars
<1>2. Remembered'
  BY <1>1 DEF FInv, Remembered
<1>3. Placed'
  BY DEF FInv, Placed, Recorded, Keys
<1>4. ASSUME NEW k \in Callers PROVE Witnessed(k)'
  BY <1>1 DEF FInv, Witnessed, Exact, Recorded, Keys
<1>5. ASSUME NEW m \in requests' PROVE \E k \in Callers : Asks(k, m)'
  <2>1. CASE m \in requests /\ m.dst # Target[c]
    <3>1. PICK k \in Callers : Asks(k, m)
      BY <2>1 DEF FInv, InFlight
    <3>2. k # c
      BY <2>1, <3>1 DEF Asks
    <3>3. QED
      BY <3>1, <3>2, OthersStay
  <2>2. QED
    BY <2>1
<1>6. ASSUME NEW r \in replies' PROVE \E k \in Callers : Reports(k, r)'
  <2>1. PICK k \in Callers : Reports(k, r)
    BY DEF FInv, InFlight
  <2>2. k # c
    BY <2>1 DEF Reports
  <2>3. QED
    BY <1>1, <2>1, <2>2, OthersStay
<1>7. QED
  BY <1>2, <1>3, <1>4, <1>5, <1>6 DEF FInv, InFlight

\* Returning and sending leave the other callers where they are.
LEMMA OthersMoveNot ==
  ASSUME TypeOK, NEW c \in Callers, NEW k \in Callers \ {c}
  PROVE  /\ \A status, data : Return(c, status, data) => pc'[k] = pc[k] /\ config'[k] = config[k]
         /\ \A stage, method, slots, items, arg, pool :
              SendAndWait(c, stage, method, slots, items, arg, pool) =>
                pc'[k] = pc[k] /\ config'[k] = config[k] /\ awaiting'[k] = awaiting[k]
<1>1. ASSUME NEW status, NEW data, Return(c, status, data)
      PROVE  pc'[k] = pc[k] /\ config'[k] = config[k]
  BY <1>1 DEF Return, TypeOK
<1>2. ASSUME NEW stage, NEW method, NEW slots, NEW items, NEW arg, NEW pool,
             SendAndWait(c, stage, method, slots, items, arg, pool)
      PROVE  pc'[k] = pc[k] /\ config'[k] = config[k] /\ awaiting'[k] = awaiting[k]
  BY <1>1, <1>2 DEF SendAndWait, TypeOK
<1>3. QED
  BY <1>1, <1>2

\* Every copy of a request that is sent is one its caller waits on.
LEMMA SentIsAsked ==
  ASSUME FInv, NEW c \in Callers, NEW p, cache' = [cache EXCEPT ![c] = p],
         NEW stage \in Stage \ {"idle"}, NEW slots, NEW items, NEW arg, NEW pool,
         stage = "set" => items = set_data_payload(Extend(p, arg)),
         SendAndWait(c, stage, MethodOf(stage), slots, items, arg, pool)
  PROVE  \A m \in requests' : m \in pool \/ Asks(c, m)'
<1>1. PICK sent \in Attempts :
        /\ requests' = pool \cup Datagrams(c, MethodOf(stage), slots, items, sent)
        /\ \/ sent = {} /\ Return(c, "Send", Empty)
           \/ /\ sent # {}
              /\ pc' = [pc EXCEPT ![c] = stage]
              /\ config' = [config EXCEPT ![c] = arg]
  BY DEF SendAndWait
<1>2. awaiting'[c] = NextSequence /\ cache'[c] = p
  BY DEF SendAndWait, FInv, TypeOK
<1>3. ASSUME NEW m \in Datagrams(c, MethodOf(stage), slots, items, sent) PROVE Asks(c, m)'
  <2>1. pc'[c] = stage /\ config'[c] = arg
    BY <1>1, <1>3 DEF Datagrams, FInv, TypeOK
  <2>2. /\ m.dst = Target[c] /\ m.sequence = NextSequence
        /\ m.method = MethodOf(stage) /\ m.items = items
    BY <1>3 DEF Datagrams
  <2>3. QED
    BY <1>2, <2>1, <2>2 DEF Asks, MethodOf
<1>4. QED
  BY <1>1, <1>3

\* An operation that ends, with a reply or without.
LEMMA EndingKeeps ==
  ASSUME FInv, Exclusive, ~Late, TypeOK', NEW c \in Callers, pc[c] # "idle", NEW x,
         NEW status, NEW data, Return(c, status, data), UNCHANGED <<deviceVars, awaiting>>,
         requests' = Surviving(requests, c),
         replies' = Surviving(replies, c) \/ replies' = Surviving(replies \ {x}, c),
         \A k \in Callers \ {c} : cache'[k] = cache[k],
         Witnessed(c)'
  PROVE  FInv'
<1>1. Target[c] \in Macs
  BY DEF FInv, Placed
<1>2. /\ \A m \in requests' : m \in requests /\ m.dst # Target[c]
      /\ \A r \in replies' : r \in replies /\ r.src # Target[c]
  BY SweptMine
<1>3. \A k \in Callers \ {c} : /\ pc'[k] = pc[k] /\ awaiting'[k] = awaiting[k]
                               /\ config'[k] = config[k] /\ cache'[k] = cache[k]
  BY OthersMoveNot DEF FInv
<1>4. QED
  BY <1>1, <1>2, <1>3, MoveKeeps

\* A record that does not change stays witnessed.
LEMMA SameWitness ==
  ASSUME FInv, NEW c \in Callers, cache' = cache, UNCHANGED deviceVars
  PROVE  Witnessed(c)'
  BY DEF FInv, Witnessed, Exact, Recorded, Keys, deviceVars

\* Refusing a Device without a MAC.
LEMMA GuardHolds ==
  ASSUME FInv, TypeOK', NEW c \in Callers, NEW op, ZeroMacGuard(c, op)
  PROVE  FInv'
<1>1. /\ UNCHANGED <<deviceVars, requests, replies, awaiting, cache>>
      /\ pc[c] = "idle" /\ pc' = pc
      /\ \A k \in Callers \ {c} : config'[k] = config[k]
  BY DEF ZeroMacGuard, MayCall, Return, FInv, TypeOK
<1>2. Remembered' /\ Placed'
  BY <1>1 DEF FInv, Remembered, Placed, Recorded, Keys, deviceVars
<1>3. \A k \in Callers : Witnessed(k)'
  BY <1>1, SameWitness
<1>4. ASSUME NEW m \in requests' PROVE \E k \in Callers : Asks(k, m)'
  <2>1. PICK k \in Callers : Asks(k, m)
    BY <1>1 DEF FInv, InFlight
  <2>2. k # c
    BY <1>1, <2>1 DEF Asks
  <2>3. QED
    BY <1>1, <2>1, <2>2, OthersStay
<1>5. ASSUME NEW r \in replies' PROVE \E k \in Callers : Reports(k, r)'
  <2>1. PICK k \in Callers : Reports(k, r)
    BY <1>1 DEF FInv, InFlight
  <2>2. k # c
    BY <1>1, <2>1 DEF Reports
  <2>3. QED
    BY <1>1, <2>1, <2>2, OthersStay DEF deviceVars
<1>6. QED
  BY <1>2, <1>3, <1>4, <1>5 DEF FInv, InFlight

\* Opening an operation with a request.
LEMMA OpeningKeeps ==
  ASSUME FInv, Exclusive, TypeOK', NEW c \in Callers, Target[c] # ZeroMac, pc[c] = "idle",
         NEW stage \in Stage \ {"idle"}, NEW slots, NEW items, NEW arg,
         stage = "set" => items = set_data_payload(Extend(cache[c], arg)),
         SendAndWait(c, stage, MethodOf(stage), slots, items, arg, requests),
         UNCHANGED <<deviceVars, replies, cache>>
  PROVE  FInv'
<1>1. Target[c] \in Macs
  BY Addressed
<1>2. /\ \A m \in requests : m.dst # Target[c]
      /\ \A r \in replies' : r \in replies /\ r.src # Target[c]
  BY <1>1, IdleMine
<1>3. cache' = [cache EXCEPT ![c] = cache[c]]
  BY DEF FInv, TypeOK
<1>4. \A m \in requests' : m \in requests \/ Asks(c, m)'
  BY <1>3, SentIsAsked
<1>5. \A k \in Callers \ {c} : /\ pc'[k] = pc[k] /\ awaiting'[k] = awaiting[k]
                               /\ config'[k] = config[k] /\ cache'[k] = cache[k]
  BY OthersMoveNot DEF FInv
<1>6. Witnessed(c)'
  BY SameWitness
<1>7. QED
  BY <1>1, <1>2, <1>4, <1>5, <1>6, MoveKeeps

\* Starting any operation.
LEMMA StartingKeeps ==
  ASSUME FInv, Exclusive, TypeOK', NEW c \in Callers, Start(c)
  PROVE  FInv'
<1> USE DEF MethodOf, Stage
<1>1. ASSUME NEW op, ZeroMacGuard(c, op) PROVE FInv'
  BY <1>1, GuardHolds
<1>2. ASSUME NEW op, NEW stage \in Stage \ {"idle", "set"}, NEW slots, NEW items, NEW arg,
             Call(c, op, stage, MethodOf(stage), slots, items, arg)
      PROVE  FInv'
  BY <1>2, OpeningKeeps DEF Call, MayCall
<1>3. ASSUME NEW arg \in Configs, SetLoaded(c, arg) PROVE FInv'
  <2>1. /\ Target[c] # ZeroMac /\ pc[c] = "idle"
        /\ UNCHANGED <<deviceVars, replies, cache>>
    BY <1>3 DEF SetLoaded, MayCall
  <2>2. CASE SendAndWait(c, "set", "SET_DATA", {}, set_data_payload(Extend(cache[c], arg)), arg,
                         requests)
    BY <2>1, <2>2, OpeningKeeps
  <2>3. CASE Return(c, "Encode", Empty) /\ requests' = requests /\ UNCHANGED awaiting
    <3>1. Target[c] \in Macs
      BY <2>1, Addressed
    <3>2. /\ \A m \in requests' : m \in requests /\ m.dst # Target[c]
          /\ \A r \in replies' : r \in replies /\ r.src # Target[c]
      BY <2>1, <2>3, <3>1, IdleMine
    <3>3. \A k \in Callers \ {c} : /\ pc'[k] = pc[k] /\ awaiting'[k] = awaiting[k]
                                   /\ config'[k] = config[k] /\ cache'[k] = cache[k]
      BY <2>1, <2>3, OthersMoveNot DEF FInv
    <3>4. Witnessed(c)'
      BY <2>1, SameWitness
    <3>5. QED
      BY <2>1, <3>1, <3>2, <3>3, <3>4, MoveKeeps
  <2>4. QED
    BY <1>3, <2>2, <2>3 DEF SetLoaded, SendSet
<1>4. ASSUME NEW arg \in Configs, SetUnloaded(c, arg) PROVE FInv'
  BY <1>2, <1>4 DEF SetUnloaded
<1>5. CASE Get(c)
  BY <1>1, <1>2, <1>5 DEF Get
<1>6. CASE GetAll(c)
  BY <1>1, <1>2, <1>6 DEF GetAll
<1>7. CASE Reset(c)
  BY <1>1, <1>2, <1>7 DEF Reset
<1>8. CASE GetIp(c)
  BY <1>1, <1>2, <1>8 DEF GetIp
<1>9. CASE GetUuid(c)
  BY <1>1, <1>2, <1>9 DEF GetUuid
<1>10. CASE Set(c)
  BY <1>1, <1>3, <1>4, <1>10 DEF Set
<1>11. QED
  BY <1>5, <1>6, <1>7, <1>8, <1>9, <1>10 DEF Start

\* What a read leaves in the Device has been in the device.
LEMMA LoadedWitnessed ==
  ASSUME FInv, Exact, NEW c \in Callers, NEW r, Reports(c, r), r \in Reply,
         NEW n \in Keys(Loaded(c, r)) \cap Known
  PROVE  Loaded(c, r)[n] \in held[Target[c]][SlotOf[n]]
<1>1. CASE r.data[n] # Absent
  <2>1. Loaded(c, r)[n] = r.data[n] /\ n \in Keys(r.data)
    BY <1>1 DEF Loaded, Extend, Keys
  <2>2. QED
    BY <2>1 DEF Reports
<1>2. CASE r.data[n] = Absent
  <2>1. Loaded(c, r)[n] = cache[c][n] /\ n \in Recorded(c)
    BY <1>2, TableAssumption DEF Loaded, Extend, Keys, Recorded
  <2>2. QED
    BY <2>1 DEF FInv, Witnessed
<1>3. QED
  BY <1>1, <1>2

\* A set going on from its prelude.
LEMMA GoingOnKeeps ==
  ASSUME FInv, Exclusive, ~Late, TypeOK', NEW c \in Callers, NEW r \in replies,
         PreludeReply(c, r), GetStatus(r) = "ok"
  PROVE  FInv'
<1> DEFINE p == Loaded(c, r)
           pool == Surviving(requests, c)
<1>1. /\ pc[c] = "prelude" /\ FromDevice(c, r)
      /\ cache' = [cache EXCEPT ![c] = p]
      /\ replies' = Surviving(replies \ {r}, c)
      /\ SendSet(c, p, config[c], pool)
      /\ UNCHANGED deviceVars
  BY DEF PreludeReply, Takes
<1>2. Target[c] \in Macs /\ Reports(c, r) /\ r \in Reply
  BY <1>1, OnlyMine DEF FInv, Placed, FromDevice, TypeOK
<1>3. /\ \A m \in pool : m \in requests /\ m.dst # Target[c]
      /\ \A q \in replies' : q \in replies /\ q.src # Target[c]
  BY <1>1, SweptMine
<1>4. cache'[c] = p /\ \A k \in Callers \ {c} : cache'[k] = cache[k]
  BY <1>1 DEF FInv, TypeOK
<1>5. ASSUME Exact, NEW n \in Keys(p) \cap Known PROVE p[n] \in held[Target[c]][SlotOf[n]]
  BY <1>2, <1>5, LoadedWitnessed
<1>6. Witnessed(c)'
  <2> HIDE DEF p
  <2>1. held' = held
    BY <1>1 DEF deviceVars
  <2>2. ASSUME Exact, NEW n \in Names \cap Known, cache'[c][n] # Absent
        PROVE  cache'[c][n] \in held[Target[c]][SlotOf[n]]
    BY <1>4, <1>5, <2>2 DEF Keys
  <2>3. QED
    BY <2>1, <2>2 DEF Witnessed, Exact, Recorded, Keys
<1>7. CASE SendAndWait(c, "set", "SET_DATA", {}, set_data_payload(Extend(p, config[c])),
                       config[c], pool)
  <2>1. "SET_DATA" = MethodOf("set") /\ "set" \in Stage \ {"idle"}
    BY DEF MethodOf, Stage
  <2> HIDE DEF p, pool
  <2>5. SendAndWait(c, "set", MethodOf("set"), {}, set_data_payload(Extend(p, config[c])),
                    config[c], pool)
    BY <1>7, <2>1
  <2>2. \A m \in requests' : m \in pool \/ Asks(c, m)'
    BY <1>1, <2>1, <2>5, SentIsAsked
  <2>3. \A k \in Callers \ {c} : /\ pc'[k] = pc[k] /\ awaiting'[k] = awaiting[k]
                                 /\ config'[k] = config[k] /\ cache'[k] = cache[k]
    BY <1>4, <1>7, OthersMoveNot DEF FInv
  <2>4. QED
    BY <1>1, <1>2, <1>3, <1>6, <2>2, <2>3, MoveKeeps
<1>8. CASE Return(c, "Encode", Empty) /\ requests' = pool /\ UNCHANGED awaiting
  BY <1>1, <1>4, <1>6, <1>8, EndingKeeps
<1>9. QED
  BY <1>1, <1>7, <1>8 DEF SendSet

\* An operation that ends with a reply, or with nothing.
LEMMA EndedKeeps ==
  ASSUME FInv, Exclusive, ~Late, TypeOK', NEW c \in Callers, pc[c] # "idle", NEW r,
         NEW status, NEW data, NEW p, EndWith(c, r, status, data, p),
         ASSUME Exact, NEW n \in Keys(p) \cap Known
         PROVE  p[n] \in held[Target[c]][SlotOf[n]]
  PROVE  FInv'
<1>1. /\ cache' = [cache EXCEPT ![c] = p] /\ Return(c, status, data)
      /\ requests' = Surviving(requests, c) /\ replies' = Surviving(replies \ {r}, c)
      /\ UNCHANGED <<deviceVars, awaiting>>
  BY DEF EndWith
<1>2. cache'[c] = p /\ \A k \in Callers \ {c} : cache'[k] = cache[k]
  BY <1>1 DEF FInv, TypeOK
<1>3. held' = held
  BY <1>1 DEF deviceVars
<1>4. ASSUME Exact, NEW n \in Names \cap Known, cache'[c][n] # Absent
      PROVE  cache'[c][n] \in held[Target[c]][SlotOf[n]]
  BY <1>2, <1>4 DEF Keys
<1>5. Witnessed(c)'
  BY <1>3, <1>4 DEF Witnessed, Exact, Recorded, Keys
<1>6. QED
  BY <1>1, <1>2, <1>5, EndingKeeps

\* The same when the record stays as it is.
LEMMA EndedAsWas ==
  ASSUME FInv, Exclusive, ~Late, TypeOK', NEW c \in Callers, pc[c] # "idle", NEW r,
         NEW status, NEW data, EndWith(c, r, status, data, cache[c])
  PROVE  FInv'
<1>1. ASSUME Exact, NEW n \in Keys(cache[c]) \cap Known
      PROVE  cache[c][n] \in held[Target[c]][SlotOf[n]]
  BY <1>1 DEF FInv, Witnessed, Recorded
<1>2. QED
  BY <1>1, EndedKeeps

\* What a set merges on its acknowledgement the device holds by then.
LEMMA AckedWitnessed ==
  ASSUME FInv, Exact, NEW c \in Callers, NEW r, Reports(c, r), Acknowledges(r), pc[c] = "set",
         NEW n \in Keys(Extend(cache[c], config[c])) \cap Known
  PROVE  Extend(cache[c], config[c])[n] \in held[Target[c]][SlotOf[n]]
<1>1. Done(c)
  BY DEF Reports, Acknowledges, MethodOf, RefusalMethods
<1>2. Target[c] \in Macs /\ SlotOf[n] \in Slots
  BY TableAssumption DEF FInv, Placed
<1>3. CASE config[c][n] # Absent
  <2>1. n \in Keys(config[c]) \cap Known /\ config[c][n] \in Values
    BY <1>3 DEF Keys, FInv, TypeOK, Map, Maybe
  <2>2. config[c][n] = nvram[Target[c]][SlotOf[n]]
    BY <1>1, <2>1 DEF Done, Exact
  <2>3. QED
    BY <1>2, <1>3, <2>1, <2>2 DEF Extend, Keys, FInv, Remembered
<1>4. CASE config[c][n] = Absent
  <2>1. Extend(cache[c], config[c])[n] = cache[c][n] /\ n \in Recorded(c)
    BY <1>4 DEF Extend, Keys, Recorded
  <2>2. QED
    BY <2>1 DEF FInv, Witnessed
<1>5. QED
  BY <1>3, <1>4

\* A step that changes neither callers nor what is persisted, and adds at most
\* replies that are true.
LEMMA QuietKeeps ==
  ASSUME FInv, TypeOK', UNCHANGED <<nvram, held, callerVars>>, Remembered',
         requests' \subseteq requests,
         \A r \in replies' : r \in replies \/ \E c \in Callers : Reports(c, r)'
  PROVE  FInv'
<1>1. UNCHANGED <<nvram, held, pc, awaiting, config, cache, result>>
  BY DEF callerVars
<1>2. Placed'
  BY <1>1 DEF FInv, Placed, Recorded, Keys
<1>3. \A c \in Callers : Witnessed(c)'
  BY <1>1 DEF FInv, Witnessed, Exact, Recorded, Keys
<1>4. ASSUME NEW m \in requests' PROVE \E c \in Callers : Asks(c, m)'
  <2>1. PICK c \in Callers : Asks(c, m)
    BY DEF FInv, InFlight
  <2>2. QED
    BY <1>1, <2>1, OthersStay
<1>5. ASSUME NEW r \in replies' PROVE \E c \in Callers : Reports(c, r)'
  <2>1. CASE r \in replies
    <3>1. PICK c \in Callers : Reports(c, r)
      BY <2>1 DEF FInv, InFlight
    <3>2. QED
      BY <1>1, <3>1, OthersStay
  <2>2. QED
    BY <2>1
<1>6. QED
  BY <1>2, <1>3, <1>4, <1>5 DEF FInv, InFlight

\* Ignoring a reply.
LEMMA DiscardKeeps ==
  ASSUME FInv, TypeOK', NEW c \in Callers, NEW r, Discard(c, r)
  PROVE  FInv'
<1>1. /\ UNCHANGED <<working, nvram, held, callerVars, requests>>
      /\ replies' \subseteq replies
  BY DEF Discard, deviceVars
<1>2. Remembered'
  BY <1>1 DEF FInv, Remembered
<1>3. QED
  BY <1>1, <1>2, QuietKeeps

\* Receiving any reply.
LEMMA ReceivingKeeps ==
  ASSUME FInv, Exclusive, ~Late, TypeOK', NEW c \in Callers, Receive(c)
  PROVE  FInv'
<1>1. PICK r \in replies :
        \/ GetReply(c, r) \/ GetAllReply(c, r) \/ PreludeReply(c, r) \/ SetReply(c, r)
        \/ ResetReply(c, r) \/ GetIpReply(c, r) \/ GetUuidReply(c, r) \/ Discard(c, r)
  BY DEF Receive
<1>2. CASE Discard(c, r)
  BY <1>2, DiscardKeeps
<1>3. ASSUME pc[c] # "idle", FromDevice(c, r) PROVE Reports(c, r) /\ r \in Reply
  BY <1>3, OnlyMine DEF FInv, Placed, FromDevice, TypeOK
<1>4. CASE GetReply(c, r)
  BY <1>4, EndedAsWas DEF GetReply, Takes
<1>5. CASE GetAllReply(c, r)
  <2>1. pc[c] # "idle" /\ FromDevice(c, r)
    BY <1>5 DEF GetAllReply, Takes
  <2>2. CASE EndWith(c, r, GetStatus(r), Empty, cache[c])
    BY <2>1, <2>2, EndedAsWas
  <2>3. CASE EndWith(c, r, GetStatus(r), Empty, Loaded(c, r))
    <3>1. ASSUME Exact, NEW n \in Keys(Loaded(c, r)) \cap Known
          PROVE  Loaded(c, r)[n] \in held[Target[c]][SlotOf[n]]
      BY <1>3, <2>1, <3>1, LoadedWitnessed
    <3>2. QED
      BY <2>1, <2>3, <3>1, EndedKeeps
  <2>4. QED
    BY <1>5, <2>2, <2>3 DEF GetAllReply
<1>6. CASE PreludeReply(c, r)
  <2>1. CASE GetStatus(r) = "ok"
    BY <1>6, <2>1, GoingOnKeeps
  <2>2. CASE GetStatus(r) # "ok"
    BY <1>6, <2>2, EndedAsWas DEF PreludeReply, Takes
  <2>3. QED
    BY <2>1, <2>2
<1>7. CASE SetReply(c, r)
  <2>1. pc[c] = "set" /\ FromDevice(c, r)
    BY <1>7 DEF SetReply, Takes
  <2>2. CASE Acknowledges(r) /\ EndWith(c, r, "ok", Empty, Extend(cache[c], config[c]))
    <3>1. ASSUME Exact, NEW n \in Keys(Extend(cache[c], config[c])) \cap Known
          PROVE  Extend(cache[c], config[c])[n] \in held[Target[c]][SlotOf[n]]
      BY <1>3, <2>1, <2>2, <3>1, AckedWitnessed
    <3>2. QED
      BY <2>1, <2>2, <3>1, EndedKeeps
  <2>3. CASE EndWith(c, r, ErrorStatus(r), Empty, cache[c])
    BY <2>1, <2>3, EndedAsWas
  <2>4. QED
    BY <1>7, <2>2, <2>3 DEF SetReply
<1>8. CASE ResetReply(c, r)
  BY <1>8, EndedAsWas DEF ResetReply, Takes
<1>9. CASE GetIpReply(c, r)
  BY <1>9, EndedAsWas DEF GetIpReply, Takes
<1>10. CASE GetUuidReply(c, r)
  BY <1>10, EndedAsWas DEF GetUuidReply, Takes
<1>11. QED
  BY <1>1, <1>2, <1>4, <1>5, <1>6, <1>7, <1>8, <1>9, <1>10

\* A cancelled wait, or one that ends with a receive error.
LEMMA GivingUpKeeps ==
  ASSUME FInv, Exclusive, ~Late, TypeOK', NEW c \in Callers, NEW status,
         EndWithout(c, status)
  PROVE  FInv'
<1>1. /\ pc[c] # "idle" /\ Return(c, status, Empty) /\ UNCHANGED <<deviceVars, awaiting, cache>>
      /\ requests' = Surviving(requests, c) /\ replies' = Surviving(replies, c)
  BY DEF EndWithout
<1>2. Witnessed(c)'
  BY <1>1, SameWitness
<1>3. \A k \in Callers \ {c} : cache'[k] = cache[k]
  BY <1>1
<1>4. QED
  BY <1>1, <1>2, <1>3, EndingKeeps

\* An answer that changes nothing a reboot keeps.
LEMMA AnsweredKeeps ==
  ASSUME FInv, TypeOK', UNCHANGED <<nvram, held>>, Remembered', NEW m \in requests,
         NEW method \in {m.method} \cup RefusalMethods, method # "SET_DATA",
         NEW decodes, NEW data, Answer(m, method, decodes, data),
         \A n \in Keys(data) : n \in Known /\ data[n] \in held[m.dst][SlotOf[n]]
  PROVE  FInv'
<1> DEFINE q == [src |-> m.dst, sequence |-> m.sequence, copy |-> m.copy, method |-> method,
                 decodes |-> decodes, data |-> data]
<1>1. /\ requests' \subseteq requests /\ replies' = replies \cup {q} /\ UNCHANGED callerVars
  BY DEF Answer
<1>2. PICK c \in Callers : Asks(c, m)
  BY DEF FInv, InFlight
<1>3. UNCHANGED <<pc, awaiting, config>>
  BY <1>1 DEF callerVars
<1>4. Reports(c, q)'
  BY <1>2, <1>3 DEF Asks, Reports
<1>5. QED
  BY <1>1, <1>4, QuietKeeps

\* Serving a SET_DATA request: what its caller asked for is in the device.
LEMMA ServingSetKeeps ==
  ASSUME FInv, Exclusive, TypeOK', NEW m \in requests, ServeSet(m)
  PROVE  FInv'
<1> DEFINE d == m.dst
           updated == [s \in Slots |-> IF m.items[s] = Absent THEN working[d][s] ELSE m.items[s]]
           q == [src |-> d, sequence |-> m.sequence, copy |-> m.copy, method |-> "SET_DATA",
                 decodes |-> TRUE, data |-> Empty]
<1>1. PICK c \in Callers : Asks(c, m)
  BY DEF FInv, InFlight
<1>2. /\ m \in Request /\ d \in Macs /\ Target[c] = d
  BY <1>1 DEF FInv, TypeOK, Request, Asks
<1>3. pc[c] = "set"
  BY <1>1 DEF Asks, ServeSet, Arrives, MethodOf
<1>4. /\ nvram' = [nvram EXCEPT ![d] = updated] /\ working' = [working EXCEPT ![d] = updated]
      /\ held' = [held EXCEPT ![d] = [s \in Slots |-> held[d][s] \cup {updated[s]}]]
      /\ requests' = requests \ {m} /\ replies' = replies \cup {q}
      /\ UNCHANGED <<pc, awaiting, config, cache, result>>
  BY DEF ServeSet, Answer, callerVars
<1>5. \A k \in Callers : Target[k] = d => k = c
  BY <1>2 DEF Exclusive
<1> HIDE DEF updated
<1>6. /\ nvram'[d] = updated /\ working'[d] = updated
      /\ \A s \in Slots : held'[d][s] = held[d][s] \cup {updated[s]}
      /\ \A k \in Macs \ {d} : /\ nvram'[k] = nvram[k] /\ working'[k] = working[k]
                               /\ held'[k] = held[k]
  BY <1>2, <1>4 DEF FInv, TypeOK
<1>7. \A k \in Macs, s \in Slots : held[k][s] \subseteq held'[k][s]
  BY <1>6
<1>8. Remembered'
  <2>1. ASSUME NEW k \in Macs, NEW s \in Slots
        PROVE  working'[k][s] \in held'[k][s] /\ nvram'[k][s] \in held'[k][s]
    BY <1>6 DEF FInv, Remembered
  <2>2. QED
    BY <2>1 DEF Remembered
<1>9. Placed'
  BY <1>4 DEF FInv, Placed, Recorded, Keys
<1>10. ASSUME NEW k \in Callers PROVE Witnessed(k)'
  <2>1. ASSUME Exact, NEW n \in Recorded(k)
        PROVE  cache[k][n] \in held'[Target[k]][SlotOf[n]]
    <3>1. cache[k][n] \in held[Target[k]][SlotOf[n]]
      BY <2>1 DEF FInv, Witnessed
    <3>2. Target[k] \in Macs /\ SlotOf[n] \in Slots
      BY TableAssumption DEF FInv, Placed, Recorded
    <3>3. QED
      BY <1>7, <3>1, <3>2
  <2>2. QED
    BY <1>4, <2>1 DEF Witnessed, Exact, Recorded, Keys
<1>11. ASSUME NEW k \in requests' PROVE \E j \in Callers : Asks(j, k)'
  <2>1. PICK j \in Callers : Asks(j, k)
    BY <1>4 DEF FInv, InFlight
  <2>2. QED
    BY <1>4, <2>1, OthersStay
<1>12. ASSUME NEW n \in Keys(config[c]) \cap Known
       PROVE  nvram'[d][SlotOf[n]] = Stored[config[c][n]]
  <2> DEFINE merged == Extend(cache[c], config[c])
             s == SlotOf[n]
  <2>1. merged \in Map /\ s \in Slots /\ n = Canonical[s]
    BY ExtendType, OneName DEF FInv, TypeOK
  <2>2. merged[n] = config[c][n] /\ merged[n] # Absent
    BY DEF Extend, Keys
  <2>3. m.items[s] = BySlot(merged)[s]
    BY <1>1, <1>3, <2>1, PayloadBySlot DEF Asks
  <2>4. BySlot(merged)[s] = Stored[merged[n]] /\ BySlot(merged)[s] # Absent
    <3> HIDE DEF merged, s
    <3>1. QED
      BY <2>1, <2>2, BySlotValue
  <2>5. updated[s] = m.items[s]
    BY <2>1, <2>3, <2>4 DEF updated
  <2>6. QED
    BY <1>6, <2>2, <2>3, <2>4, <2>5
<1>13. Done(c)'
  BY <1>2, <1>4, <1>12 DEF Done, Keys
<1>14. ASSUME NEW r \in replies PROVE \E k \in Callers : Reports(k, r)'
  <2>1. PICK k \in Callers : Reports(k, r)
    BY DEF FInv, InFlight
  <2>2. r.src \in Macs /\ r.src = Target[k]
    BY <2>1 DEF FInv, TypeOK, Reply, Reports
  <2>3. ASSUME NEW n \in Keys(r.data)
        PROVE  n \in Known /\ r.data[n] \in held'[r.src][SlotOf[n]]
    <3>1. n \in Known /\ r.data[n] \in held[r.src][SlotOf[n]] /\ SlotOf[n] \in Slots
      BY <2>1, TableAssumption DEF Reports
    <3>2. QED
      BY <1>7, <2>2, <3>1
  <2>4. ASSUME r.method = "SET_DATA" PROVE Done(k)'
    <3>1. CASE k = c
      BY <1>13, <3>1
    <3>2. CASE k # c
      <4>1. nvram'[Target[k]] = nvram[Target[k]]
        BY <1>5, <1>6, <2>2, <3>2
      <4>2. QED
        BY <1>4, <2>1, <2>4, <4>1 DEF Reports, Done, Keys
    <3>3. QED
      BY <3>1, <3>2
  <2>5. QED
    BY <1>4, <2>1, <2>3, <2>4 DEF Reports, Keys, MethodOf
<1>15. Reports(c, q)'
  <2>1. Keys(Empty) = {}
    BY DEF Keys, Empty
  <2>2. MethodOf(pc[c])' = "SET_DATA"
    BY <1>3, <1>4 DEF MethodOf
  <2>3. pc'[c] # "idle" /\ q.src = Target[c] /\ q.sequence = awaiting'[c]
    BY <1>1, <1>2, <1>3, <1>4 DEF Asks
  <2>4. QED
    BY <1>13, <2>1, <2>2, <2>3 DEF Reports, Keys
<1>16. QED
  BY <1>4, <1>8, <1>9, <1>10, <1>11, <1>14, <1>15 DEF FInv, InFlight

\* A device serving any request.
LEMMA ServingKeeps ==
  ASSUME FInv, Exclusive, TypeOK', NEW m \in requests, Serve(m)
  PROVE  FInv'
<1>1. m \in Request /\ Keys(Empty) = {}
  BY DEF FInv, TypeOK, Keys, Empty
<1>2. ASSUME UNCHANGED deviceVars PROVE Remembered' /\ UNCHANGED <<nvram, held>>
  BY <1>2 DEF deviceVars, FInv, Remembered
<1>3. ASSUME UNCHANGED deviceVars, NEW method \in {m.method} \cup RefusalMethods,
             method # "SET_DATA", NEW decodes, Answer(m, method, decodes, Empty)
      PROVE  FInv'
  BY <1>1, <1>2, <1>3, AnsweredKeeps
<1>4. CASE ServeGet(m)
  <2> DEFINE data == parse_response(working[m.dst], m.slots)
  <2>1. CASE Answer(m, "GET_DATA", TRUE, data) /\ UNCHANGED deviceVars
    <3>1. ASSUME NEW n \in Keys(data)
          PROVE  n \in Known /\ data[n] \in held[m.dst][SlotOf[n]]
      <4>1. PICK s \in m.slots : n = Canonical[s]
        BY DEF Keys, parse_response
      <4>2. n \in Names /\ n \in Known /\ SlotOf[n] \in Slots /\ m.dst \in Macs
        BY <1>1, <4>1, TableAssumption DEF Request
      <4>3. data[n] = working[m.dst][SlotOf[n]]
        BY <4>1, <4>2 DEF parse_response
      <4>4. QED
        BY <4>2, <4>3 DEF FInv, Remembered
    <3>2. m.method = "GET_DATA"
      BY <1>4 DEF ServeGet, Arrives
    <3> HIDE DEF data
    <3>3. QED
      BY <1>2, <2>1, <3>1, <3>2, AnsweredKeeps
  <2>2. CASE Answer(m, "GET_DATA", FALSE, Empty) /\ UNCHANGED deviceVars
    BY <1>3, <1>4, <2>2 DEF ServeGet, Arrives
  <2>3. QED
    BY <1>4, <2>1, <2>2 DEF ServeGet
<1>5. CASE ServeReset(m)
  <2>1. UNCHANGED <<nvram, held>> /\ Answer(m, "RESET", TRUE, Empty) /\ m.method = "RESET"
    BY <1>5 DEF ServeReset, Arrives
  <2>2. Remembered'
    <3>1. ASSUME NEW d \in Macs PROVE working'[d] \in {working[d], nvram[d]}
      BY <1>5 DEF ServeReset, FInv, TypeOK
    <3>2. QED
      BY <2>1, <3>1 DEF FInv, Remembered
  <2>3. QED
    BY <1>1, <2>1, <2>2, AnsweredKeeps
<1>6. CASE ServeGetIp(m)
  BY <1>3, <1>6 DEF ServeGetIp, Arrives
<1>7. CASE ServeGetUuid(m)
  BY <1>3, <1>7 DEF ServeGetUuid, Arrives
<1>8. CASE Refuse(m)
  <2>1. PICK refusal \in Refusals : Answer(m, refusal, TRUE, Empty)
    BY <1>8 DEF Refuse
  <2>2. refusal \in RefusalMethods /\ refusal # "SET_DATA"
    BY UsageAssumption DEF RefusalMethods
  <2>3. QED
    BY <1>3, <1>8, <2>1, <2>2 DEF Refuse
<1>9. QED
  BY <1>4, <1>5, <1>6, <1>7, <1>8, ServingSetKeeps DEF Serve

\* The invariant holds at first, and every step keeps it.
LEMMA FInvInit == Init => FInv
<1> SUFFICES ASSUME Init PROVE FInv
  OBVIOUS
<1>1. TypeOK
  BY InitType
<1>2. \A c \in Callers : Recorded(c) = {}
  BY DEF Init, Recorded, Keys, Empty
<1>3. Remembered
  BY DEF Init, Remembered
<1>4. InFlight /\ Placed
  BY <1>2 DEF Init, InFlight, Placed
<1>5. \A c \in Callers : Witnessed(c)
  BY <1>2 DEF Witnessed
<1>6. QED
  BY <1>1, <1>3, <1>4, <1>5 DEF FInv

\* Every step keeps the invariant of a network that may lose datagrams and delays none.
LEMMA FInvNext == ~Late /\ Exclusive /\ FInv /\ [Next]_vars => FInv'
<1> SUFFICES ASSUME ~Late, Exclusive, FInv, [Next]_vars PROVE FInv'
  OBVIOUS
<1>1. TypeOK'
  BY NextType DEF FInv
<1>2. ASSUME NEW c \in Callers, Cancel(c) \/ RecvError(c) PROVE FInv'
  BY <1>1, <1>2, GivingUpKeeps DEF Cancel, RecvError
<1>3. CASE UNCHANGED vars
  <2>1. UNCHANGED <<working, nvram, held, callerVars, requests, replies>>
    BY <1>3 DEF vars, deviceVars
  <2>2. Remembered'
    BY <2>1 DEF FInv, Remembered
  <2>3. QED
    BY <1>1, <2>1, <2>2, QuietKeeps
<1>4. QED
  BY <1>1, <1>2, <1>3, StartingKeeps, ReceivingKeeps, ServingKeeps DEF Next

\* The invariant behind both theorems.
LEMMA FInvAlways == ~Late /\ Exclusive /\ Spec => []FInv
<1>1. CASE ~Late /\ Exclusive
  <2>1. FInv /\ [Next]_vars => FInv'
    BY <1>1, FInvNext
  <2>2. QED
    BY <2>1, FInvInit, PTL DEF Spec
<1>2. QED
  BY <1>1

-----------------------------------------------------------------------------
(* What follows.                                                           *)

\* Whatever is lost, refused, cancelled or sent again, a record advertises
\* nothing its device has not held: a set merges its values only once they are
\* acknowledged (ops/config.rs:256-258).
THEOREM CommitBarrierHolds == ~Late /\ Exclusive /\ Exact /\ Spec => []CommitBarrier
<1>1. CASE ~Late /\ Exclusive /\ Exact
  <2>1. FInv => CommitBarrier
    <3> SUFFICES ASSUME FInv, NEW c \in Callers, NEW n \in Recorded(c)
                 PROVE  Target[c] \in Macs /\ cache[c][n] \in held[Target[c]][SlotOf[n]]
      BY DEF CommitBarrier
    <3>1. QED
      BY <1>1 DEF FInv, Placed, Witnessed
  <2>2. QED
    BY <1>1, <2>1, FInvAlways, PTL
<1>2. QED
  BY <1>1

\* Only its own step moves a caller out of a set.
LEMMA OwnStep ==
  ASSUME TypeOK, [Next]_vars, NEW c \in Callers, pc[c] = "set", pc'[c] = "idle"
  PROVE  Receive(c) \/ Cancel(c) \/ RecvError(c)
<1>1. ASSUME NEW k \in Callers \ {c}, Start(k) \/ Receive(k) \/ Cancel(k) \/ RecvError(k)
      PROVE  pc'[c] = pc[c]
  <2>1. /\ \A status, data : Return(k, status, data) => pc'[c] = pc[c]
        /\ \A stage, method, slots, items, arg, pool :
             SendAndWait(k, stage, method, slots, items, arg, pool) => pc'[c] = pc[c]
        /\ \A p, arg, pool : SendSet(k, p, arg, pool) => pc'[c] = pc[c]
    BY OwnState
  <2>2. /\ \A op : ZeroMacGuard(k, op) => pc'[c] = pc[c]
        /\ \A op, stage, method, slots, items, arg :
             Call(k, op, stage, method, slots, items, arg) => pc'[c] = pc[c]
        /\ \A arg : SetLoaded(k, arg) => pc'[c] = pc[c]
        /\ \A r, status, data, p : EndWith(k, r, status, data, p) => pc'[c] = pc[c]
        /\ \A status : EndWithout(k, status) => pc'[c] = pc[c]
    BY <2>1 DEF ZeroMacGuard, Call, SetLoaded, EndWith, EndWithout
  <2>3. CASE Start(k)
    BY <2>2, <2>3 DEF Start, Get, GetAll, Set, Reset, GetIp, GetUuid, SetUnloaded
  <2>4. CASE Receive(k)
    <3>1. PICK r \in replies :
            \/ GetReply(k, r) \/ GetAllReply(k, r) \/ PreludeReply(k, r) \/ SetReply(k, r)
            \/ ResetReply(k, r) \/ GetIpReply(k, r) \/ GetUuidReply(k, r) \/ Discard(k, r)
      BY <2>4 DEF Receive
    <3>2. CASE PreludeReply(k, r)
      BY <2>1, <2>2, <3>2 DEF PreludeReply
    <3>3. CASE Discard(k, r)
      BY <3>3 DEF Discard, callerVars
    <3>4. QED
      BY <2>2, <3>1, <3>2, <3>3 DEF GetReply, GetAllReply, SetReply, ResetReply, GetIpReply,
                                    GetUuidReply
  <2>5. CASE Cancel(k) \/ RecvError(k)
    BY <2>2, <2>5 DEF Cancel, RecvError
  <2>6. QED
    BY <1>1, <2>3, <2>4, <2>5
<1>2. ~Start(c)
  BY DEF Start, Get, GetAll, Set, Reset, GetIp, GetUuid, ZeroMacGuard, Call, SetLoaded,
         SetUnloaded, MayCall
<1>3. ASSUME NEW m \in requests, Serve(m) PROVE pc'[c] = pc[c]
  BY <1>3 DEF Serve, ServeGet, ServeSet, ServeReset, ServeGetIp, ServeGetUuid, Refuse, Answer,
              callerVars
<1>4. pc' # pc
  OBVIOUS
<1>5. Next
  BY <1>4 DEF vars, callerVars
<1>6. QED
  BY <1>1, <1>2, <1>3, <1>5 DEF Next

\* A caller inside a set is told of a success only by its device's answer.
LEMMA SetOkDone ==
  ASSUME FInv, [Next]_vars, Exclusive, NEW c \in Callers,
         pc[c] = "set", pc'[c] = "idle", result'[c].status = "ok"
  PROVE  Done(c)
<1>1. ~Cancel(c) /\ ~RecvError(c)
  BY DEF Cancel, RecvError, EndWithout, Return, FInv, TypeOK
<1>2. PICK r \in replies : SetReply(c, r) \/ Discard(c, r)
  BY <1>1, OwnStep DEF FInv, Receive, GetReply, GetAllReply, PreludeReply, ResetReply,
                       GetIpReply, GetUuidReply, Takes
<1>3. ~Discard(c, r)
  BY DEF Discard, callerVars
<1>4. Acknowledges(r) /\ FromDevice(c, r)
  BY <1>2, <1>3 DEF SetReply, Takes, EndWith, Return, ErrorStatus, FInv, TypeOK
<1>5. Reports(c, r)
  BY <1>4, OnlyMine DEF FInv, Placed, FromDevice
<1>6. QED
  BY <1>4, <1>5 DEF Reports, Acknowledges, MethodOf, RefusalMethods

\* Nor does a set report success before its device holds, where a reboot keeps
\* it, every value the caller asked for.
THEOREM SetOkHolds == ~Late /\ Exclusive /\ Spec => SetOkIsPersisted
<1> DEFINE Step == \A c \in Callers :
             pc[c] = "set" /\ pc'[c] = "idle" /\ result'[c].status = "ok" =>
               \A n \in Keys(config[c]) \cap Known :
                 nvram[Target[c]][SlotOf[n]] = Stored[config[c][n]]
<1>1. CASE ~Late /\ Exclusive
  <2>1. FInv /\ [Next]_vars => Step
    BY <1>1, SetOkDone DEF Done
  <2>2. QED
    BY <1>1, <2>1, FInvAlways, PTL DEF Spec, SetOkIsPersisted
<1>2. QED
  BY <1>1
===============================================================================
