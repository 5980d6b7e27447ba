---------------------------- MODULE UdapOps_proofs ----------------------------
(***************************************************************************)
(* Proofs about UdapOps, for every value of its constants: the model is    *)
(* type correct, when callers only ever read the whole table every         *)
(* SET_DATA request writes the whole table, and values of one device never *)
(* show in the record of another, however many retransmissions, late       *)
(* replies, refusals, losses and concurrent callers there are.             *)
(***************************************************************************)
EXTENDS UdapOps, TLAPS

-----------------------------------------------------------------------------
(* Maps and payloads have their types.                                     *)

\* Extending a map by a map (BTreeMap::extend) yields a map.
LEMMA ExtendType ==
  ASSUME NEW m \in Map, NEW n \in Map
  PROVE  Extend(m, n) \in Map
  BY DEF Extend, Map

\* The empty parameters map and the empty item list are well formed.
LEMMA EmptyType == Empty \in Map /\ NoItems \in Image
  BY DEF Empty, NoItems, Map, Image, Maybe

\* Of several names at one offset, set_data_payload keeps one of them.
LEMMA LastOfIsOne ==
  ASSUME NEW S \in SUBSET Names, S # {}
  PROVE  LastOf(S) \in S
  BY TableAssumption DEF LastOf

\* The items built for a map are an image of the table.
LEMMA PayloadType ==
  ASSUME NEW m \in Map
  PROVE  set_data_payload(m) \in Image
<1>1. ASSUME NEW s \in Slots, NamesAt(m, s) # {}
      PROVE  Stored[m[LastOf(NamesAt(m, s))]] \in Values
  <2>1. NamesAt(m, s) \in SUBSET Names
    BY DEF NamesAt, Keys
  <2>2. LastOf(NamesAt(m, s)) \in NamesAt(m, s)
    BY <1>1, <2>1, LastOfIsOne
  <2>3. m[LastOf(NamesAt(m, s))] \in Values
    BY <2>2 DEF Map, Maybe, NamesAt, Keys
  <2>4. QED
    BY <2>3, TableAssumption
<1>2. QED
  BY <1>1 DEF set_data_payload, Image, Maybe

\* Requested names are looked up to offsets of the table.
LEMMA SlotsType ==
  ASSUME NEW S \in SUBSET Names
  PROVE  get_data_payload(S) \in SUBSET Slots
  BY TableAssumption DEF get_data_payload

\* A device's answer decodes to a map.
LEMMA ResponseType ==
  ASSUME NEW image \in [Slots -> Values], NEW S \in SUBSET Slots
  PROVE  parse_response(image, S) \in Map
  BY TableAssumption DEF parse_response, Map, Maybe

\* What get_all leaves in a Device is a map.
LEMMA LoadedType ==
  ASSUME NEW c \in Callers, NEW r \in Reply, cache \in [Callers -> Map]
  PROVE  Loaded(c, r) \in Map
<1>1. cache[c] \in Map /\ r.data \in Map
  BY DEF Reply
<1>2. [n \in Names |-> IF n \in Synthetic THEN Absent ELSE cache[c][n]] \in Map
  BY <1>1 DEF Map, Maybe
<1>3. QED
  BY <1>1, <1>2, ExtendType DEF Loaded

-----------------------------------------------------------------------------
(* The parts the actions are made of preserve the types.                   *)

\* Returning from an operation.
LEMMA ReturnType ==
  ASSUME TypeOK, NEW c \in Callers, NEW status \in Status, NEW data \in Map,
         Return(c, status, data)
  PROVE  /\ pc' \in [Callers -> Stage]
         /\ config' \in [Callers -> Map]
         /\ result' \in [Callers -> [status : Status, data : Map]]
  BY EmptyType DEF TypeOK, Return, Stage

\* Sequence numbers wrap at sixteen bits.
LEMMA NextSequenceType ==
  ASSUME TypeOK
  PROVE  NextSequence \in 0..SequenceSpace - 1 /\ NextSequence \in Nat
<1>1. SequenceSpace \in Nat \ {0}
  BY DEF SequenceSpace
<1>2. sequence \in Nat
  BY <1>1 DEF TypeOK
<1>3. QED
  BY <1>1, <1>2 DEF NextSequence

\* The copies of a request that are sent.
LEMMA DatagramsType ==
  ASSUME TypeOK, NEW c \in Callers, Target[c] \in Macs, NEW method \in Methods,
         NEW slots \in SUBSET Slots, NEW items \in Image, NEW sent \in Attempts
  PROVE  Datagrams(c, method, slots, items, sent) \subseteq Request
<1>1. sent \subseteq 0..Retries
  BY DEF Attempts
<1>2. QED
  BY <1>1, NextSequenceType DEF Datagrams, Request

\* Sending a request and starting to wait.
LEMMA SendAndWaitType ==
  ASSUME TypeOK, NEW c \in Callers, Target[c] \in Macs,
         NEW stage \in Stage, NEW method \in Methods, NEW slots \in SUBSET Slots,
         NEW items \in Image, NEW arg \in Map, NEW pool \in SUBSET Request,
         SendAndWait(c, stage, method, slots, items, arg, pool)
  PROVE  /\ requests' \subseteq Request
         /\ sequence' \in 0..SequenceSpace - 1
         /\ pc' \in [Callers -> Stage]
         /\ awaiting' \in [Callers -> Nat]
         /\ config' \in [Callers -> Map]
         /\ result' \in [Callers -> [status : Status, data : Map]]
<1>1. sequence' \in 0..SequenceSpace - 1 /\ awaiting' \in [Callers -> Nat]
  BY NextSequenceType DEF SendAndWait, TypeOK
<1>2. PICK sent \in Attempts :
        /\ requests' = pool \cup Datagrams(c, method, slots, items, sent)
        /\ \/ sent = {} /\ Return(c, "Send", Empty)
           \/ /\ pc' = [pc EXCEPT ![c] = stage]
              /\ config' = [config EXCEPT ![c] = arg]
              /\ result' = [result EXCEPT ![c] = [status |-> "none", data |-> Empty]]
  BY DEF SendAndWait
<1>3. requests' \subseteq Request
  BY <1>2, DatagramsType
<1>4. CASE Return(c, "Send", Empty)
  <2>1. "Send" \in Status
    BY DEF Status
  <2>2. QED
    BY <1>1, <1>3, <1>4, <2>1, EmptyType, ReturnType
<1>5. CASE /\ pc' = [pc EXCEPT ![c] = stage]
           /\ config' = [config EXCEPT ![c] = arg]
           /\ result' = [result EXCEPT ![c] = [status |-> "none", data |-> Empty]]
  BY <1>1, <1>3, <1>5, EmptyType DEF TypeOK, Status
<1>6. QED
  BY <1>2, <1>4, <1>5

\* A caller whose Device has a MAC addresses a device on the network.
LEMMA Addressed ==
  ASSUME NEW c \in Callers, Target[c] # ZeroMac
  PROVE  Target[c] \in Macs
  BY PartiesAssumption

\* Datagrams that survive a wait were in flight before.
LEMMA SurvivingSubset ==
  ASSUME NEW pool, NEW c
  PROVE  Surviving(pool, c) \subseteq pool
  BY DEF Surviving

\* Opening an operation with a request.
LEMMA CallType ==
  ASSUME TypeOK, NEW c \in Callers, NEW op, NEW stage \in Stage, NEW method \in Methods,
         NEW slots \in SUBSET Slots, NEW items \in Image, NEW arg \in Map,
         Call(c, op, stage, method, slots, items, arg)
  PROVE  TypeOK'
<1>1. Target[c] \in Macs
  BY Addressed DEF Call
<1>2. requests \in SUBSET Request
  BY DEF TypeOK
<1>3. SendAndWait(c, stage, method, slots, items, arg, requests)
  BY DEF Call
<1>4. /\ requests' \subseteq Request
      /\ sequence' \in 0..SequenceSpace - 1
      /\ pc' \in [Callers -> Stage]
      /\ awaiting' \in [Callers -> Nat]
      /\ config' \in [Callers -> Map]
      /\ result' \in [Callers -> [status : Status, data : Map]]
  BY <1>1, <1>2, <1>3, SendAndWaitType
<1>5. UNCHANGED <<deviceVars, replies, cache>>
  BY DEF Call
<1>6. QED
  BY <1>4, <1>5 DEF TypeOK, deviceVars

\* Refusing a Device without a MAC.
LEMMA ZeroMacGuardType ==
  ASSUME TypeOK, NEW c \in Callers, NEW op, ZeroMacGuard(c, op)
  PROVE  TypeOK'
<1>1. Return(c, "ZeroMac", Empty) /\ "ZeroMac" \in Status
  BY DEF ZeroMacGuard, Status
<1>2. /\ pc' \in [Callers -> Stage]
      /\ config' \in [Callers -> Map]
      /\ result' \in [Callers -> [status : Status, data : Map]]
  BY <1>1, EmptyType, ReturnType
<1>3. QED
  BY <1>2 DEF TypeOK, ZeroMacGuard, deviceVars

\* Sending the write request of a set.
LEMMA SendSetType ==
  ASSUME TypeOK, NEW c \in Callers, Target[c] \in Macs, NEW parameters \in Map,
         NEW arg \in Map, NEW pool \in SUBSET Request, SendSet(c, parameters, arg, pool)
  PROVE  /\ requests' \subseteq Request
         /\ sequence' \in 0..SequenceSpace - 1
         /\ pc' \in [Callers -> Stage]
         /\ awaiting' \in [Callers -> Nat]
         /\ config' \in [Callers -> Map]
         /\ result' \in [Callers -> [status : Status, data : Map]]
<1> DEFINE merged == Extend(parameters, arg)
<1>1. set_data_payload(merged) \in Image
  BY ExtendType, PayloadType
<1>2. CASE SendAndWait(c, "set", "SET_DATA", {}, set_data_payload(merged), arg, pool)
  <2>1. "set" \in Stage /\ "SET_DATA" \in Methods /\ {} \in SUBSET Slots
    BY DEF Stage, Methods
  <2> HIDE DEF merged
  <2>2. QED
    BY <1>1, <1>2, <2>1, SendAndWaitType
<1>3. CASE /\ sequence' = NextSequence
           /\ requests' = pool
           /\ Return(c, "Encode", Empty)
           /\ UNCHANGED awaiting
  <2>1. "Encode" \in Status
    BY DEF Status
  <2>2. /\ pc' \in [Callers -> Stage]
        /\ config' \in [Callers -> Map]
        /\ result' \in [Callers -> [status : Status, data : Map]]
    BY <1>3, <2>1, EmptyType, ReturnType
  <2>3. QED
    BY <1>3, <2>2, NextSequenceType DEF TypeOK
<1>4. QED
  BY <1>2, <1>3 DEF SendSet

\* Ending an operation with a reply.
LEMMA EndWithType ==
  ASSUME TypeOK, NEW c \in Callers, NEW r \in replies, NEW status \in Status,
         NEW data \in Map, NEW parameters \in Map,
         EndWith(c, r, status, data, parameters)
  PROVE  TypeOK'
<1>1. /\ pc' \in [Callers -> Stage]
      /\ config' \in [Callers -> Map]
      /\ result' \in [Callers -> [status : Status, data : Map]]
  BY ReturnType DEF EndWith
<1>2. requests' \subseteq requests /\ replies' \subseteq replies
  BY SurvivingSubset DEF EndWith
<1>3. QED
  BY <1>1, <1>2 DEF TypeOK, EndWith, deviceVars

\* Ending one without a reply.
LEMMA EndWithoutType ==
  ASSUME TypeOK, NEW c \in Callers, NEW status \in Status, EndWithout(c, status)
  PROVE  TypeOK'
<1>1. /\ pc' \in [Callers -> Stage]
      /\ config' \in [Callers -> Map]
      /\ result' \in [Callers -> [status : Status, data : Map]]
  BY EmptyType, ReturnType DEF EndWithout
<1>2. requests' \subseteq requests /\ replies' \subseteq replies
  BY SurvivingSubset DEF EndWithout
<1>3. QED
  BY <1>1, <1>2 DEF TypeOK, EndWithout, deviceVars

\* A device's answer.
LEMMA AnswerType ==
  ASSUME TypeOK, NEW m \in requests, NEW method \in Methods \cup RefusalMethods,
         NEW decodes \in BOOLEAN, NEW data \in Map, Answer(m, method, decodes, data)
  PROVE  /\ requests' \subseteq Request
         /\ replies' \subseteq Reply
         /\ UNCHANGED <<sequence, callerVars>>
<1>1. m \in Request
  BY DEF TypeOK
<1>2. [src |-> m.dst, sequence |-> m.sequence, copy |-> m.copy, method |-> method,
       decodes |-> decodes, data |-> data] \in Reply
  BY <1>1 DEF Request, Reply
<1>3. QED
  BY <1>2 DEF TypeOK, Answer

-----------------------------------------------------------------------------
(* Type correctness.                                                       *)

\* Starting any operation.
LEMMA StartType ==
  ASSUME TypeOK, NEW c \in Callers, Start(c)
  PROVE  TypeOK'
<1> USE DEF Stage, Methods
<1>1. {} \in SUBSET Slots /\ get_data_payload(Names) \in SUBSET Slots
  BY SlotsType
<1>2. ASSUME NEW op, ZeroMacGuard(c, op) PROVE TypeOK'
  BY <1>2, ZeroMacGuardType
<1>3. CASE Get(c)
  <2>1. ASSUME NEW S \in Requested,
               Call(c, "get", "get", "GET_DATA", get_data_payload(S), NoItems, Empty)
        PROVE  TypeOK'
    <3>1. get_data_payload(S) \in SUBSET Slots
      BY UsageAssumption, SlotsType
    <3>2. QED
      BY <2>1, <3>1, EmptyType, CallType
  <2>2. QED
    BY <1>2, <1>3, <2>1 DEF Get
<1>4. CASE GetAll(c)
  <2>1. CASE Call(c, "get_all", "get_all", "GET_DATA", get_data_payload(Names), NoItems, Empty)
    BY <1>1, <2>1, EmptyType, CallType
  <2>2. QED
    BY <1>2, <1>4, <2>1 DEF GetAll
<1>5. CASE Reset(c)
  <2>1. CASE Call(c, "reset", "reset", "RESET", {}, NoItems, Empty)
    BY <1>1, <2>1, EmptyType, CallType
  <2>2. QED
    BY <1>2, <1>5, <2>1 DEF Reset
<1>6. CASE GetIp(c)
  <2>1. CASE Call(c, "get_ip", "get_ip", "GET_IP", {}, NoItems, Empty)
    BY <1>1, <2>1, EmptyType, CallType
  <2>2. QED
    BY <1>2, <1>6, <2>1 DEF GetIp
<1>7. CASE GetUuid(c)
  <2>1. CASE Call(c, "get_uuid", "get_uuid", "GET_UUID", {}, NoItems, Empty)
    BY <1>1, <2>1, EmptyType, CallType
  <2>2. QED
    BY <1>2, <1>7, <2>1 DEF GetUuid
<1>8. CASE Set(c)
  <2>1. ASSUME NEW arg \in Configs, SetUnloaded(c, arg) PROVE TypeOK'
    <3>1. arg \in Map
      BY UsageAssumption
    <3>2. Call(c, "set", "prelude", "GET_DATA", get_data_payload(Names), NoItems, arg)
      BY <2>1 DEF SetUnloaded
    <3>3. QED
      BY <1>1, <3>1, <3>2, EmptyType, CallType
  <2>2. ASSUME NEW arg \in Configs, SetLoaded(c, arg) PROVE TypeOK'
    <3>1. arg \in Map /\ cache[c] \in Map /\ requests \in SUBSET Request
      BY UsageAssumption DEF TypeOK
    <3>2. Target[c] \in Macs
      BY <2>2, Addressed DEF SetLoaded
    <3>3. SendSet(c, cache[c], arg, requests)
      BY <2>2 DEF SetLoaded
    <3>4. /\ requests' \subseteq Request
          /\ sequence' \in 0..SequenceSpace - 1
          /\ pc' \in [Callers -> Stage]
          /\ awaiting' \in [Callers -> Nat]
          /\ config' \in [Callers -> Map]
          /\ result' \in [Callers -> [status : Status, data : Map]]
      BY <3>1, <3>2, <3>3, SendSetType
    <3>5. QED
      BY <2>2, <3>4 DEF SetLoaded, TypeOK, deviceVars
  <2>3. QED
    BY <1>2, <1>8, <2>1, <2>2 DEF Set
<1>9. QED
  BY <1>3, <1>4, <1>5, <1>6, <1>7, <1>8 DEF Start

\* Every way a reply is classified is a status.
LEMMA StatusType ==
  ASSUME NEW r
  PROVE  /\ GetStatus(r) \in Status
         /\ ErrorStatus(r) \in Status
         /\ ResetStatus(r) \in Status
         /\ "ok" \in Status /\ "MissingUuid" \in Status
  BY DEF GetStatus, ErrorStatus, ResetStatus, Status

\* Carrying a set on from its prelude.
LEMMA PreludeType ==
  ASSUME TypeOK, NEW c \in Callers, NEW r \in replies, PreludeReply(c, r)
  PROVE  TypeOK'
<1>1. cache[c] \in Map /\ config[c] \in Map /\ r \in Reply
  BY DEF TypeOK
<1>2. CASE EndWith(c, r, GetStatus(r), Empty, cache[c])
  BY <1>1, <1>2, EmptyType, StatusType, EndWithType
<1>3. CASE /\ cache' = [cache EXCEPT ![c] = Loaded(c, r)]
           /\ replies' = Surviving(replies \ {r}, c)
           /\ SendSet(c, Loaded(c, r), config[c], Surviving(requests, c))
           /\ UNCHANGED deviceVars
  <2>1. Loaded(c, r) \in Map
    BY <1>1, LoadedType DEF TypeOK
  <2>2. Target[c] \in Macs
    BY <1>1 DEF PreludeReply, Takes, FromDevice, Reply
  <2>3. /\ Surviving(requests, c) \in SUBSET Request
        /\ replies' \subseteq Reply
    BY <1>3, SurvivingSubset DEF TypeOK
  <2>4. /\ requests' \subseteq Request
        /\ sequence' \in 0..SequenceSpace - 1
        /\ pc' \in [Callers -> Stage]
        /\ awaiting' \in [Callers -> Nat]
        /\ config' \in [Callers -> Map]
        /\ result' \in [Callers -> [status : Status, data : Map]]
    BY <1>1, <1>3, <2>1, <2>2, <2>3, SendSetType
  <2>5. QED
    BY <1>3, <2>1, <2>3, <2>4 DEF TypeOK, deviceVars
<1>4. QED
  BY <1>2, <1>3 DEF PreludeReply

\* Taking a reply, whatever the operation.
LEMMA ReceiveType ==
  ASSUME TypeOK, NEW c \in Callers, Receive(c)
  PROVE  TypeOK'
<1>1. PICK r \in replies :
        \/ GetReply(c, r) \/ GetAllReply(c, r) \/ PreludeReply(c, r) \/ SetReply(c, r)
        \/ ResetReply(c, r) \/ GetIpReply(c, r) \/ GetUuidReply(c, r) \/ Discard(c, r)
  BY DEF Receive
<1>2. cache[c] \in Map /\ config[c] \in Map /\ r \in Reply /\ r.data \in Map
  BY DEF TypeOK, Reply
<1>3. CASE GetReply(c, r)
  <2> DEFINE data == IF GetStatus(r) = "ok" THEN r.data ELSE Empty
  <2>1. data \in Map
    BY <1>2, EmptyType
  <2>2. EndWith(c, r, GetStatus(r), data, cache[c])
    BY <1>3 DEF GetReply
  <2> HIDE DEF data
  <2>3. QED
    BY <1>2, <2>1, <2>2, StatusType, EndWithType
<1>4. CASE GetAllReply(c, r)
  <2> DEFINE parameters == IF GetStatus(r) = "ok" THEN Loaded(c, r) ELSE cache[c]
  <2>1. parameters \in Map
    BY <1>2, LoadedType DEF TypeOK
  <2>2. EndWith(c, r, GetStatus(r), Empty, parameters)
    BY <1>4 DEF GetAllReply
  <2> HIDE DEF parameters
  <2>3. QED
    BY <2>1, <2>2, EmptyType, StatusType, EndWithType
<1>5. CASE PreludeReply(c, r)
  BY <1>5, PreludeType
<1>6. CASE SetReply(c, r)
  <2>1. CASE EndWith(c, r, "ok", Empty, Extend(cache[c], config[c]))
    BY <1>2, <2>1, EmptyType, ExtendType, StatusType, EndWithType
  <2>2. CASE EndWith(c, r, ErrorStatus(r), Empty, cache[c])
    BY <1>2, <2>2, EmptyType, StatusType, EndWithType
  <2>3. QED
    BY <1>6, <2>1, <2>2 DEF SetReply
<1>7. CASE ResetReply(c, r)
  BY <1>2, <1>7, EmptyType, StatusType, EndWithType DEF ResetReply
<1>8. CASE GetIpReply(c, r)
  <2> DEFINE status == IF r.method = "GET_IP" THEN "ok" ELSE ErrorStatus(r)
  <2>1. status \in Status
    BY StatusType
  <2>2. EndWith(c, r, status, Empty, cache[c])
    BY <1>8 DEF GetIpReply
  <2> HIDE DEF status
  <2>3. QED
    BY <1>2, <2>1, <2>2, EmptyType, EndWithType
<1>9. CASE GetUuidReply(c, r)
  <2> DEFINE status == IF r.method # "GET_UUID" THEN ErrorStatus(r)
                       ELSE IF r.decodes THEN "ok" ELSE "MissingUuid"
  <2>1. status \in Status
    BY StatusType
  <2>2. EndWith(c, r, status, Empty, cache[c])
    BY <1>9 DEF GetUuidReply
  <2> HIDE DEF status
  <2>3. QED
    BY <1>2, <2>1, <2>2, EmptyType, EndWithType
<1>10. CASE Discard(c, r)
  BY <1>10 DEF Discard, TypeOK, deviceVars, callerVars
<1>11. QED
  BY <1>1, <1>3, <1>4, <1>5, <1>6, <1>7, <1>8, <1>9, <1>10

\* A device serving one request.
LEMMA ServeType ==
  ASSUME TypeOK, NEW m \in requests, Serve(m)
  PROVE  TypeOK'
<1> USE DEF Methods, RefusalMethods
<1>1. m \in Request /\ m.dst \in Macs /\ m.items \in Image /\ m.slots \in SUBSET Slots
  BY DEF TypeOK, Request
<1>2. ASSUME NEW method \in Methods \cup RefusalMethods, NEW decodes \in BOOLEAN,
             NEW data \in Map, Answer(m, method, decodes, data), UNCHANGED deviceVars
      PROVE  TypeOK'
  <2>1. /\ requests' \subseteq Request
        /\ replies' \subseteq Reply
        /\ UNCHANGED <<sequence, callerVars>>
    BY <1>2, AnswerType
  <2>2. QED
    BY <1>2, <2>1 DEF TypeOK, deviceVars, callerVars
<1>3. CASE ServeGet(m)
  <2>1. parse_response(working[m.dst], m.slots) \in Map
    BY <1>1, ResponseType DEF TypeOK
  <2>2. QED
    BY <1>2, <1>3, <2>1, EmptyType DEF ServeGet
<1>4. CASE ServeSet(m)
  <2> DEFINE d == m.dst
             updated == [s \in Slots |-> IF m.items[s] = Absent THEN working[d][s]
                                                                ELSE m.items[s]]
  <2>1. updated \in [Slots -> Values]
    BY <1>1 DEF TypeOK, Image, Maybe
  <2>2. /\ working' = [working EXCEPT ![d] = updated]
        /\ nvram' = [nvram EXCEPT ![d] = updated]
        /\ held' = [held EXCEPT ![d] = [s \in Slots |-> held[d][s] \cup {updated[s]}]]
        /\ Answer(m, "SET_DATA", TRUE, Empty)
    BY <1>4 DEF ServeSet
  <2>3. /\ requests' \subseteq Request
        /\ replies' \subseteq Reply
        /\ UNCHANGED <<sequence, callerVars>>
    BY <2>2, EmptyType, AnswerType
  <2> HIDE DEF updated
  <2>4. [s \in Slots |-> held[d][s] \cup {updated[s]}] \in [Slots -> SUBSET Values]
    BY <1>1, <2>1 DEF TypeOK
  <2>5. QED
    BY <1>1, <2>1, <2>2, <2>3, <2>4 DEF TypeOK, callerVars
<1>5. CASE ServeReset(m)
  <2>1. /\ requests' \subseteq Request
        /\ replies' \subseteq Reply
        /\ UNCHANGED <<sequence, callerVars>>
    BY <1>5, EmptyType, AnswerType DEF ServeReset
  <2>2. QED
    BY <1>1, <1>5, <2>1 DEF ServeReset, TypeOK, callerVars
<1>6. CASE ServeGetIp(m)
  BY <1>2, <1>6, EmptyType DEF ServeGetIp
<1>7. CASE ServeGetUuid(m)
  BY <1>2, <1>7, EmptyType DEF ServeGetUuid
<1>8. CASE Refuse(m)
  BY <1>2, <1>8, EmptyType, UsageAssumption DEF Refuse
<1>9. QED
  BY <1>3, <1>4, <1>5, <1>6, <1>7, <1>8 DEF Serve

\* The initial state.
LEMMA InitType == Init => TypeOK
<1> SUFFICES ASSUME Init PROVE TypeOK
  OBVIOUS
<1>1. Seed \in [Macs -> [Slots -> Values]]
  BY PartiesAssumption
<1>2. SequenceSpace \in Nat \ {0}
  BY DEF SequenceSpace
<1>3. held \in [Macs -> [Slots -> SUBSET Values]]
  BY <1>1 DEF Init
<1>4. QED
  BY <1>1, <1>2, <1>3, EmptyType DEF Init, TypeOK, Stage, Status

\* Every step.
LEMMA NextType == TypeOK /\ [Next]_vars => TypeOK'
<1> SUFFICES ASSUME TypeOK, [Next]_vars PROVE TypeOK'
  OBVIOUS
<1>1. ASSUME NEW c \in Callers, Start(c) PROVE TypeOK'
  BY <1>1, StartType
<1>2. ASSUME NEW c \in Callers, Receive(c) PROVE TypeOK'
  BY <1>2, ReceiveType
<1>3. ASSUME NEW c \in Callers, Cancel(c) PROVE TypeOK'
  <2> DEFINE status == IF pc[c] = "reset" THEN "ok" ELSE "Cancelled"
  <2>1. status \in Status
    BY DEF Status
  <2>2. EndWithout(c, status)
    BY <1>3 DEF Cancel
  <2> HIDE DEF status
  <2>3. QED
    BY <2>1, <2>2, EndWithoutType
<1>4. ASSUME NEW c \in Callers, RecvError(c) PROVE TypeOK'
  <2>1. "Recv" \in Status
    BY DEF Status
  <2>2. QED
    BY <1>4, <2>1, EndWithoutType DEF RecvError
<1>5. ASSUME NEW m \in requests, Serve(m) PROVE TypeOK'
  BY <1>5, ServeType
<1>6. CASE UNCHANGED vars
  BY <1>6 DEF vars, deviceVars, callerVars, TypeOK
<1>7. QED
  BY <1>1, <1>2, <1>3, <1>4, <1>5, <1>6 DEF Next

\* The operations keep every variable in its type: in particular the datagrams
\* in flight and the parameter maps are well formed at all times.
THEOREM TypeCorrect == Spec => []TypeOK
<1>1. QED
  BY InitType, NextType, PTL DEF Spec

-----------------------------------------------------------------------------
(* Whole writes.                                                           *)

\* All names together cover the table, because each offset has a name.
LEMMA AllNamesCover == get_data_payload(Names) = Slots
  BY TableAssumption DEF get_data_payload

\* A full map stays full when a map is laid over it.
LEMMA ExtendFull ==
  ASSUME NEW m \in Map, NEW n \in Map, Full(m) \/ Full(n)
  PROVE  Full(Extend(m, n))
  BY TableAssumption DEF Full, Extend

\* The items made of a full map cover the table.
LEMMA PayloadFull ==
  ASSUME NEW m \in Map, Full(m), NEW s \in Slots
  PROVE  set_data_payload(m)[s] # Absent
<1>1. Canonical[s] \in NamesAt(m, s)
  BY TableAssumption DEF Full, NamesAt, Keys
<1>2. NamesAt(m, s) \in SUBSET Names
  BY DEF NamesAt, Keys
<1>3. LastOf(NamesAt(m, s)) \in NamesAt(m, s)
  BY <1>1, <1>2, LastOfIsOne
<1>4. m[LastOf(NamesAt(m, s))] \in Values
  BY <1>3 DEF NamesAt, Keys, Map, Maybe
<1>5. Stored[m[LastOf(NamesAt(m, s))]] # Absent
  BY <1>4, TableAssumption
<1>6. QED
  BY <1>1, <1>5 DEF set_data_payload

\* A device asked for the whole table answers with a full map.
LEMMA ResponseFull ==
  ASSUME NEW image \in [Slots -> Values]
  PROVE  Full(parse_response(image, Slots))
  BY TableAssumption DEF Full, parse_response

\* A whole answer fills the record.
LEMMA LoadedFull ==
  ASSUME TypeOK, NEW c \in Callers, NEW r \in replies, Full(r.data)
  PROVE  Loaded(c, r) \in Map /\ Full(Loaded(c, r))
<1>1. cache[c] \in Map /\ r.data \in Map /\ r \in Reply
  BY DEF TypeOK, Reply
<1>2. [n \in Names |-> IF n \in Synthetic THEN Absent ELSE cache[c][n]] \in Map
  BY <1>1 DEF Map, Maybe
<1>3. QED
  BY <1>1, <1>2, ExtendType, ExtendFull DEF Loaded

\* Sending a request whose slots or items are whole, and only then waiting in
\* the stage where a record must be full.
LEMMA SendWhole ==
  ASSUME TypeOK, WholeTables, NEW c \in Callers, NEW stage, NEW method, NEW slots,
         NEW items, NEW arg, NEW pool \in SUBSET requests,
         method = "GET_DATA" => slots = Slots,
         method = "SET_DATA" => \A s \in Slots : items[s] # Absent,
         SendAndWait(c, stage, method, slots, items, arg, pool)
  PROVE  /\ \A m \in requests' : m.method = "GET_DATA" => m.slots = Slots
         /\ WholeWrites'
         /\ \A k \in Callers : pc'[k] = "set" => pc[k] = "set" \/ (k = c /\ stage = "set")
<1>1. PICK sent \in Attempts :
        /\ requests' = pool \cup Datagrams(c, method, slots, items, sent)
        /\ \/ pc' = [pc EXCEPT ![c] = "idle"]
           \/ pc' = [pc EXCEPT ![c] = stage]
  BY DEF SendAndWait, Return
<1>2. \A m \in Datagrams(c, method, slots, items, sent) :
        m.method = method /\ m.slots = slots /\ m.items = items
  BY DEF Datagrams
<1>3. QED
  BY <1>1, <1>2 DEF WholeTables, WholeWrites, TypeOK

\* Opening an operation with a read of the whole table, or with a request
\* that neither reads nor writes.
LEMMA CallWhole ==
  ASSUME TypeOK, WholeTables, NEW c \in Callers, NEW op, NEW stage, NEW method,
         NEW slots, NEW items, NEW arg, stage # "set", method # "SET_DATA",
         method = "GET_DATA" => slots = Slots,
         Call(c, op, stage, method, slots, items, arg)
  PROVE  WholeTables'
<1>1. SendAndWait(c, stage, method, slots, items, arg, requests)
  BY DEF Call
<1>2. /\ \A m \in requests' : m.method = "GET_DATA" => m.slots = Slots
      /\ WholeWrites'
      /\ \A k \in Callers : pc'[k] = "set" => pc[k] = "set" \/ (k = c /\ stage = "set")
  BY <1>1, SendWhole
<1>3. QED
  BY <1>2 DEF Call, WholeTables, Full

\* set writes a full record laid over by the caller's map.
LEMMA SendSetWhole ==
  ASSUME TypeOK, WholeTables, NEW c \in Callers, NEW parameters \in Map,
         Full(parameters), NEW arg \in Map, NEW pool \in SUBSET requests,
         SendSet(c, parameters, arg, pool)
  PROVE  /\ \A m \in requests' : m.method = "GET_DATA" => m.slots = Slots
         /\ WholeWrites'
         /\ \A k \in Callers : pc'[k] = "set" => pc[k] = "set" \/ k = c
<1> DEFINE merged == Extend(parameters, arg)
<1>1. merged \in Map /\ Full(merged)
  BY ExtendType, ExtendFull
<1>2. \A s \in Slots : set_data_payload(merged)[s] # Absent
  <2> HIDE DEF merged
  <2>1. QED
    BY <1>1, PayloadFull
<1>3. CASE SendAndWait(c, "set", "SET_DATA", {}, set_data_payload(merged), arg, pool)
  <2> HIDE DEF merged
  <2>1. QED
    BY <1>2, <1>3, SendWhole
<1>4. CASE requests' = pool /\ Return(c, "Encode", Empty)
  BY <1>4 DEF WholeTables, WholeWrites, Return, TypeOK
<1>5. QED
  BY <1>3, <1>4 DEF SendSet

\* The end of an operation leaves a whole record whole.
LEMMA EndWithWhole ==
  ASSUME TypeOK, WholeTables, NEW c \in Callers, NEW r, NEW status, NEW data,
         NEW parameters, parameters = cache[c] \/ Full(parameters),
         EndWith(c, r, status, data, parameters)
  PROVE  WholeTables'
<1>1. requests' \subseteq requests /\ replies' \subseteq replies
  BY SurvivingSubset DEF EndWith
<1>2. /\ pc' = [pc EXCEPT ![c] = "idle"]
      /\ cache' = [cache EXCEPT ![c] = parameters]
  BY DEF EndWith, Return
<1>3. \A k \in Callers : k # c => pc'[k] = pc[k] /\ cache'[k] = cache[k]
  BY <1>2 DEF TypeOK
<1>4. pc'[c] = "idle" /\ cache'[c] = parameters
  BY <1>2 DEF TypeOK
<1>5. QED
  BY <1>1, <1>3, <1>4 DEF WholeTables, WholeWrites, Full

\* Starting an operation, when gets read the whole table.
LEMMA StartWhole ==
  ASSUME TypeOK, WholeTables, WholeReads, NEW c \in Callers, Start(c)
  PROVE  WholeTables'
<1>1. ASSUME NEW op, ZeroMacGuard(c, op) PROVE WholeTables'
  BY <1>1 DEF ZeroMacGuard, Return, WholeTables, WholeWrites, Full, TypeOK
<1>2. CASE Get(c)
  <2>1. ASSUME NEW S \in Requested,
               Call(c, "get", "get", "GET_DATA", get_data_payload(S), NoItems, Empty)
        PROVE  WholeTables'
    <3>1. get_data_payload(S) = Slots
      BY DEF WholeReads
    <3>2. QED
      BY <2>1, <3>1, CallWhole
  <2>2. QED
    BY <1>1, <1>2, <2>1 DEF Get
<1>3. CASE GetAll(c)
  BY <1>1, <1>3, AllNamesCover, CallWhole DEF GetAll
<1>4. CASE Reset(c)
  BY <1>1, <1>4, CallWhole DEF Reset
<1>5. CASE GetIp(c)
  BY <1>1, <1>5, CallWhole DEF GetIp
<1>6. CASE GetUuid(c)
  BY <1>1, <1>6, CallWhole DEF GetUuid
<1>7. CASE Set(c)
  <2>1. ASSUME NEW arg \in Configs, SetUnloaded(c, arg) PROVE WholeTables'
    BY <2>1, AllNamesCover, CallWhole DEF SetUnloaded
  <2>2. ASSUME NEW arg \in Configs, SetLoaded(c, arg) PROVE WholeTables'
    <3>1. arg \in Map /\ cache[c] \in Map /\ requests \in SUBSET requests
      BY UsageAssumption DEF TypeOK
    <3>2. Full(cache[c])
      BY <2>2 DEF SetLoaded, WholeTables
    <3>3. SendSet(c, cache[c], arg, requests)
      BY <2>2 DEF SetLoaded
    <3>4. /\ \A m \in requests' : m.method = "GET_DATA" => m.slots = Slots
          /\ WholeWrites'
          /\ \A k \in Callers : pc'[k] = "set" => pc[k] = "set" \/ k = c
      BY <3>1, <3>2, <3>3, SendSetWhole
    <3>5. QED
      BY <2>2, <3>2, <3>4 DEF SetLoaded, WholeTables, Full
  <2>3. QED
    BY <1>1, <1>7, <2>1, <2>2 DEF Set
<1>8. QED
  BY <1>2, <1>3, <1>4, <1>5, <1>6, <1>7 DEF Start

\* A reply that get accepts carries a full map.
LEMMA AcceptedIsFull ==
  ASSUME WholeTables, NEW r \in replies, GetStatus(r) = "ok"
  PROVE  Full(r.data)
<1>1. r.method = "GET_DATA" /\ r.decodes
  BY DEF GetStatus
<1>2. QED
  BY <1>1 DEF WholeTables

\* A set going on from its prelude.
LEMMA PreludeWhole ==
  ASSUME TypeOK, WholeTables, NEW c \in Callers, NEW r \in replies, PreludeReply(c, r)
  PROVE  WholeTables'
<1>1. CASE EndWith(c, r, GetStatus(r), Empty, cache[c])
  BY <1>1, EndWithWhole
<1>2. CASE /\ GetStatus(r) = "ok"
           /\ cache' = [cache EXCEPT ![c] = Loaded(c, r)]
           /\ replies' = Surviving(replies \ {r}, c)
           /\ SendSet(c, Loaded(c, r), config[c], Surviving(requests, c))
  <2>1. Loaded(c, r) \in Map /\ Full(Loaded(c, r))
    BY <1>2, AcceptedIsFull, LoadedFull
  <2>2. config[c] \in Map
    BY DEF TypeOK
  <2>3. Surviving(requests, c) \in SUBSET requests /\ replies' \subseteq replies
    BY <1>2, SurvivingSubset
  <2>4. /\ \A m \in requests' : m.method = "GET_DATA" => m.slots = Slots
        /\ WholeWrites'
        /\ \A k \in Callers : pc'[k] = "set" => pc[k] = "set" \/ k = c
    BY <1>2, <2>1, <2>2, <2>3, SendSetWhole
  <2>5. \A k \in Callers : cache'[k] = IF k = c THEN Loaded(c, r) ELSE cache[k]
    BY <1>2 DEF TypeOK
  <2>6. QED
    BY <2>1, <2>3, <2>4, <2>5 DEF WholeTables, Full
<1>3. QED
  BY <1>1, <1>2 DEF PreludeReply

\* Taking a reply.
LEMMA ReceiveWhole ==
  ASSUME TypeOK, WholeTables, NEW c \in Callers, Receive(c)
  PROVE  WholeTables'
<1>1. PICK r \in replies :
        \/ GetReply(c, r) \/ GetAllReply(c, r) \/ PreludeReply(c, r) \/ SetReply(c, r)
        \/ ResetReply(c, r) \/ GetIpReply(c, r) \/ GetUuidReply(c, r) \/ Discard(c, r)
  BY DEF Receive
<1>2. CASE GetReply(c, r)
  BY <1>2, EndWithWhole DEF GetReply
<1>3. CASE GetAllReply(c, r)
  <2> DEFINE parameters == IF GetStatus(r) = "ok" THEN Loaded(c, r) ELSE cache[c]
  <2>1. parameters = cache[c] \/ Full(parameters)
    BY AcceptedIsFull, LoadedFull
  <2>2. EndWith(c, r, GetStatus(r), Empty, parameters)
    BY <1>3 DEF GetAllReply
  <2> HIDE DEF parameters
  <2>3. QED
    BY <2>1, <2>2, EndWithWhole
<1>4. CASE PreludeReply(c, r)
  BY <1>4, PreludeWhole
<1>5. CASE SetReply(c, r)
  <2>1. Full(cache[c])
    BY <1>5 DEF SetReply, Takes, WholeTables
  <2>2. Full(Extend(cache[c], config[c]))
    BY <2>1, ExtendFull DEF TypeOK
  <2>3. QED
    BY <1>5, <2>2, EndWithWhole DEF SetReply
<1>6. CASE ResetReply(c, r)
  BY <1>6, EndWithWhole DEF ResetReply
<1>7. CASE GetIpReply(c, r)
  BY <1>7, EndWithWhole DEF GetIpReply
<1>8. CASE GetUuidReply(c, r)
  BY <1>8, EndWithWhole DEF GetUuidReply
<1>9. CASE Discard(c, r)
  BY <1>9 DEF Discard, callerVars, WholeTables, WholeWrites, Full
<1>10. QED
  BY <1>1, <1>2, <1>3, <1>4, <1>5, <1>6, <1>7, <1>8, <1>9

\* A wait that ends without a reply.
LEMMA EndWithoutWhole ==
  ASSUME TypeOK, WholeTables, NEW c \in Callers, NEW status, EndWithout(c, status)
  PROVE  WholeTables'
<1>1. requests' \subseteq requests /\ replies' \subseteq replies /\ cache' = cache
  BY SurvivingSubset DEF EndWithout
<1>2. \A k \in Callers : pc'[k] = "set" => pc[k] = "set"
  BY DEF EndWithout, Return, TypeOK
<1>3. QED
  BY <1>1, <1>2 DEF WholeTables, WholeWrites, Full

\* A device serving a request: whatever it answers, a decodable GET_DATA reply
\* is the answer to a read of the whole table.
LEMMA ServeWhole ==
  ASSUME TypeOK, WholeTables, NEW m \in requests, Serve(m)
  PROVE  WholeTables'
<1>1. m \in Request /\ working[m.dst] \in [Slots -> Values]
  BY DEF TypeOK, Request
<1>2. ASSUME NEW method, NEW decodes, NEW data, Answer(m, method, decodes, data),
             method = "GET_DATA" /\ decodes => Full(data)
      PROVE  WholeTables'
  <2>1. requests' \subseteq requests /\ UNCHANGED <<pc, cache>>
    BY <1>2 DEF Answer, callerVars
  <2>2. \A r \in replies' : r \in replies \/
          (r.method = method /\ r.decodes = decodes /\ r.data = data)
    BY <1>2 DEF Answer
  <2>3. \A r \in replies' : r.method = "GET_DATA" /\ r.decodes => Full(r.data)
    BY <1>2, <2>2 DEF WholeTables
  <2>4. QED
    BY <2>1, <2>3 DEF WholeTables, WholeWrites, Full
<1>3. CASE ServeGet(m)
  <2>1. m.slots = Slots
    BY <1>3 DEF ServeGet, Arrives, WholeTables
  <2>2. Full(parse_response(working[m.dst], m.slots))
    BY <1>1, <2>1, ResponseFull
  <2>3. QED
    BY <1>2, <1>3, <2>2 DEF ServeGet
<1>4. CASE ServeSet(m)
  BY <1>2, <1>4 DEF ServeSet
<1>5. CASE ServeReset(m)
  BY <1>2, <1>5 DEF ServeReset
<1>6. CASE ServeGetIp(m)
  BY <1>2, <1>6 DEF ServeGetIp
<1>7. CASE ServeGetUuid(m)
  BY <1>2, <1>7 DEF ServeGetUuid
<1>8. CASE Refuse(m)
  <2>1. "GET_DATA" \notin Refusals
    BY UsageAssumption DEF RefusalMethods
  <2>2. QED
    BY <1>2, <1>8, <2>1 DEF Refuse
<1>9. QED
  BY <1>3, <1>4, <1>5, <1>6, <1>7, <1>8 DEF Serve

\* WholeTables is inductive.
LEMMA WholeInductive ==
  ASSUME WholeReads
  PROVE  /\ Init => WholeTables
         /\ TypeOK /\ WholeTables /\ [Next]_vars => WholeTables'
<1>1. Init => WholeTables
  BY DEF Init, WholeTables, WholeWrites
<1>2. ASSUME TypeOK, WholeTables, [Next]_vars PROVE WholeTables'
  <2>1. ASSUME NEW c \in Callers, Start(c) PROVE WholeTables'
    BY <1>2, <2>1, StartWhole
  <2>2. ASSUME NEW c \in Callers, Receive(c) PROVE WholeTables'
    BY <1>2, <2>2, ReceiveWhole
  <2>3. ASSUME NEW c \in Callers, Cancel(c) \/ RecvError(c) PROVE WholeTables'
    BY <1>2, <2>3, EndWithoutWhole DEF Cancel, RecvError
  <2>4. ASSUME NEW m \in requests, Serve(m) PROVE WholeTables'
    BY <1>2, <2>4, ServeWhole
  <2>5. CASE UNCHANGED vars
    BY <1>2, <2>5 DEF vars, callerVars, WholeTables, WholeWrites, Full
  <2>6. QED
    BY <1>2, <2>1, <2>2, <2>3, <2>4, <2>5 DEF Next
<1>3. QED
  BY <1>1, <1>2

\* As long as callers that call get ask it for the whole table, every SET_DATA
\* request carries a value for every offset: whatever is retransmitted,
\* delayed, lost or refused, and however many callers share the session, a set
\* never sends the partial write its prelude read is there to prevent.
THEOREM WritesAreWhole == WholeReads /\ Spec => []WholeWrites
<1>1. ASSUME WholeReads PROVE Init => WholeTables
  BY <1>1, WholeInductive
<1>2. ASSUME WholeReads PROVE TypeOK /\ WholeTables /\ [Next]_vars => WholeTables'
  BY <1>2, WholeInductive
<1>3. WholeTables => WholeWrites
  BY DEF WholeTables
<1>4. CASE WholeReads
  <2>1. Init => WholeTables
    BY <1>1, <1>4
  <2>2. TypeOK /\ WholeTables /\ [Next]_vars => WholeTables'
    BY <1>2, <1>4
  <2>3. QED
    BY <2>1, <2>2, <1>3, TypeCorrect, PTL DEF Spec
<1>5. QED
  BY <1>4

-----------------------------------------------------------------------------
(* What devices run.                                                       *)

\* Both memories of a device agree between requests, since every write is
\* saved.  The inductive invariant behind OnlyRequestedChanges.
Saved == nvram = working

\* Only a device serving a request touches its memories.
LEMMA DeviceStep ==
  ASSUME [Next]_vars, deviceVars' # deviceVars
  PROVE  \E m \in requests : ServeSet(m) \/ ServeReset(m)
<1>1. ASSUME NEW c \in Callers, Start(c) PROVE UNCHANGED deviceVars
  BY <1>1 DEF Start, Get, GetAll, Set, Reset, GetIp, GetUuid, Call, ZeroMacGuard, SetLoaded,
              SetUnloaded
<1>2. ASSUME NEW c \in Callers, Receive(c) PROVE UNCHANGED deviceVars
  BY <1>2 DEF Receive, GetReply, GetAllReply, PreludeReply, SetReply, ResetReply, GetIpReply,
              GetUuidReply, Discard, EndWith
<1>3. ASSUME NEW c \in Callers, Cancel(c) \/ RecvError(c) PROVE UNCHANGED deviceVars
  BY <1>3 DEF Cancel, RecvError, EndWithout
<1>4. CASE UNCHANGED vars
  BY <1>4 DEF vars
<1>5. QED
  BY <1>1, <1>2, <1>3, <1>4 DEF Next, Serve, ServeGet, ServeGetIp, ServeGetUuid, Refuse

\* Serving a SET_DATA request stores what it carries; a reset brings back what
\* was saved, which is what the device runs.
LEMMA ServeStep ==
  ASSUME TypeOK, Saved, NEW m \in requests, ServeSet(m) \/ ServeReset(m)
  PROVE  /\ Saved'
         /\ \A d \in Macs, s \in Slots : working'[d][s] # working[d][s] =>
              /\ m \in requests \ requests' /\ m.dst = d
              /\ m.items[s] = working'[d][s]
<1>1. m.dst \in Macs /\ working \in [Macs -> [Slots -> Values]]
  BY DEF TypeOK, Request
<1>2. CASE ServeReset(m)
  BY <1>1, <1>2 DEF ServeReset, Saved
<1>3. CASE ServeSet(m)
  <2> DEFINE updated == [s \in Slots |-> IF m.items[s] = Absent THEN working[m.dst][s]
                                                                ELSE m.items[s]]
  <2>1. /\ working' = [working EXCEPT ![m.dst] = updated]
        /\ nvram' = [nvram EXCEPT ![m.dst] = updated]
        /\ requests' = requests \ {m}
    BY <1>3 DEF ServeSet, Answer
  <2>2. Saved'
    BY <2>1 DEF Saved
  <2>3. ASSUME NEW d \in Macs, NEW s \in Slots, working'[d][s] # working[d][s]
        PROVE  m.dst = d /\ m.items[s] = working'[d][s]
    BY <1>1, <2>1, <2>3
  <2>4. QED
    BY <2>1, <2>2, <2>3
<1>4. QED
  BY <1>2, <1>3

\* What a device runs changes only to values of a SET_DATA request it serves in
\* that step: neither a reset nor anything that is late, duplicated or
\* cancelled brings another value back.
THEOREM ChangesAreRequested == Spec => OnlyRequestedChanges
<1> DEFINE AsRequested == \A d \in Macs, s \in Slots :
             working'[d][s] # working[d][s] =>
               \E m \in requests \ requests' : m.dst = d /\ m.items[s] = working'[d][s]
<1>1. Init => Saved
  BY DEF Init, Saved
<1>2. TypeOK /\ Saved /\ [Next]_vars => Saved' /\ AsRequested
  <2> SUFFICES ASSUME TypeOK, Saved, [Next]_vars PROVE Saved' /\ AsRequested
    OBVIOUS
  <2>1. CASE UNCHANGED deviceVars
    BY <2>1 DEF deviceVars, Saved
  <2>2. CASE ~UNCHANGED deviceVars
    <3>1. PICK m \in requests : ServeSet(m) \/ ServeReset(m)
      BY <2>2, DeviceStep
    <3>2. QED
      BY <3>1, ServeStep
  <2>3. QED
    BY <2>1, <2>2
<1>3. QED
  BY <1>1, <1>2, TypeCorrect, PTL DEF Spec, OnlyRequestedChanges

-----------------------------------------------------------------------------
(* Devices without an address.                                             *)

\* A caller whose Device has no MAC never waits.  The inductive invariant
\* behind UnaddressedNeverSucceeds.
UnaddressedIsIdle ==
  \A c \in Callers : Target[c] = ZeroMac => pc[c] = "idle" /\ result[c].status # "ok"

\* A step that returns or starts a wait leaves the other callers alone.
LEMMA OthersUnaddressed ==
  ASSUME UnaddressedIsIdle, NEW c \in Callers, Target[c] # ZeroMac,
         \A k \in Callers \ {c} : pc'[k] = pc[k] /\ result'[k] = result[k]
  PROVE  UnaddressedIsIdle'
  BY DEF UnaddressedIsIdle

\* Sending and returning touch only the caller's own state.
LEMMA OwnState ==
  ASSUME TypeOK, NEW c, NEW k \in Callers \ {c}
  PROVE  /\ \A status, data : Return(c, status, data) =>
              pc'[k] = pc[k] /\ result'[k] = result[k]
         /\ \A stage, method, slots, items, arg, pool :
              SendAndWait(c, stage, method, slots, items, arg, pool) =>
                pc'[k] = pc[k] /\ result'[k] = result[k]
         /\ \A parameters, arg, pool : SendSet(c, parameters, arg, pool) =>
              pc'[k] = pc[k] /\ result'[k] = result[k]
<1>1. ASSUME NEW status, NEW data, Return(c, status, data)
      PROVE  pc'[k] = pc[k] /\ result'[k] = result[k]
  BY <1>1 DEF Return, TypeOK
<1>2. ASSUME NEW stage, NEW method, NEW slots, NEW items, NEW arg, NEW pool,
             SendAndWait(c, stage, method, slots, items, arg, pool)
      PROVE  pc'[k] = pc[k] /\ result'[k] = result[k]
  BY <1>1, <1>2 DEF SendAndWait, TypeOK
<1>3. ASSUME NEW parameters, NEW arg, NEW pool, SendSet(c, parameters, arg, pool)
      PROVE  pc'[k] = pc[k] /\ result'[k] = result[k]
  BY <1>1, <1>2, <1>3 DEF SendSet
<1>4. QED
  BY <1>1, <1>2, <1>3

\* Starting an operation without an address is refused on the spot.
LEMMA StartUnaddressed ==
  ASSUME TypeOK, UnaddressedIsIdle, NEW c \in Callers, Start(c)
  PROVE  UnaddressedIsIdle'
<1>1. ASSUME NEW op, ZeroMacGuard(c, op) PROVE UnaddressedIsIdle'
  BY <1>1 DEF ZeroMacGuard, Return, UnaddressedIsIdle, TypeOK
<1>2. ASSUME NEW op, NEW stage, NEW method, NEW slots, NEW items, NEW arg,
             Call(c, op, stage, method, slots, items, arg)
      PROVE  UnaddressedIsIdle'
  BY <1>2, OwnState, OthersUnaddressed DEF Call
<1>3. ASSUME NEW arg, SetLoaded(c, arg) \/ SetUnloaded(c, arg) PROVE UnaddressedIsIdle'
  <2>1. CASE SetLoaded(c, arg)
    BY <2>1, OwnState, OthersUnaddressed DEF SetLoaded
  <2>2. CASE SetUnloaded(c, arg)
    BY <2>2, <1>2 DEF SetUnloaded
  <2>3. QED
    BY <1>3, <2>1, <2>2
<1>4. CASE Set(c)
  BY <1>1, <1>3, <1>4 DEF Set
<1>5. CASE Get(c)
  BY <1>1, <1>2, <1>5 DEF Get
<1>6. CASE GetAll(c) \/ Reset(c)
  BY <1>1, <1>2, <1>6 DEF GetAll, Reset
<1>7. CASE GetIp(c) \/ GetUuid(c)
  BY <1>1, <1>2, <1>7 DEF GetIp, GetUuid
<1>8. QED
  BY <1>4, <1>5, <1>6, <1>7 DEF Start

\* Only a caller that waits takes a reply, sees its token or an error.
LEMMA WaitUnaddressed ==
  ASSUME TypeOK, UnaddressedIsIdle, NEW c \in Callers,
         Receive(c) \/ Cancel(c) \/ RecvError(c)
  PROVE  UnaddressedIsIdle'
<1>1. pc[c] # "idle"
  BY DEF Receive, GetReply, GetAllReply, PreludeReply, SetReply, ResetReply, GetIpReply,
         GetUuidReply, Discard, Takes, Cancel, RecvError, EndWithout
<1>2. Target[c] # ZeroMac
  BY <1>1 DEF UnaddressedIsIdle
<1>3. ASSUME NEW status, EndWithout(c, status) PROVE UnaddressedIsIdle'
  BY <1>2, <1>3, OwnState, OthersUnaddressed DEF EndWithout
<1>4. ASSUME NEW r, NEW status, NEW data, NEW parameters,
             EndWith(c, r, status, data, parameters)
      PROVE  UnaddressedIsIdle'
  BY <1>2, <1>4, OwnState, OthersUnaddressed DEF EndWith
<1>5. ASSUME NEW r \in replies, PreludeReply(c, r) PROVE UnaddressedIsIdle'
  BY <1>2, <1>4, <1>5, OwnState, OthersUnaddressed DEF PreludeReply
<1>6. ASSUME NEW r \in replies, Discard(c, r) PROVE UnaddressedIsIdle'
  BY <1>6 DEF Discard, callerVars, UnaddressedIsIdle
<1>7. CASE Receive(c)
  BY <1>4, <1>5, <1>6, <1>7 DEF Receive, GetReply, GetAllReply, SetReply, ResetReply,
                                GetIpReply, GetUuidReply
<1>8. CASE Cancel(c) \/ RecvError(c)
  BY <1>3, <1>8 DEF Cancel, RecvError
<1>9. QED
  BY <1>7, <1>8

\* Nothing is ever reported to have succeeded on a device without an address,
\* not even a reset that was cancelled.
THEOREM UnaddressedFails == Spec => []UnaddressedNeverSucceeds
<1>1. Init => UnaddressedIsIdle
  BY DEF Init, UnaddressedIsIdle
<1>2. TypeOK /\ UnaddressedIsIdle /\ [Next]_vars => UnaddressedIsIdle'
  <2> SUFFICES ASSUME TypeOK, UnaddressedIsIdle, [Next]_vars PROVE UnaddressedIsIdle'
    OBVIOUS
  <2>1. ASSUME NEW m \in requests, Serve(m) PROVE UnaddressedIsIdle'
    BY <2>1 DEF Serve, ServeGet, ServeSet, ServeReset, ServeGetIp, ServeGetUuid, Refuse,
                Answer, callerVars, UnaddressedIsIdle
  <2>2. CASE UNCHANGED vars
    BY <2>2 DEF vars, callerVars, UnaddressedIsIdle
  <2>3. QED
    BY <2>1, <2>2, StartUnaddressed, WaitUnaddressed DEF Next
<1>3. UnaddressedIsIdle => UnaddressedNeverSucceeds
  BY DEF UnaddressedIsIdle, UnaddressedNeverSucceeds
<1>4. QED
  BY <1>1, <1>2, <1>3, TypeCorrect, PTL DEF Spec

-----------------------------------------------------------------------------
(* Values of one device never reach the record or the results of a caller  *)
(* working on another, whatever the network, the devices and the callers   *)
(* do: late, lost and duplicated datagrams, failures, retransmissions and  *)
(* interleaved operations included.  The argument follows the values: a    *)
(* reply carries only what its sender held, the filter of wait_for_reply   *)
(* keeps the replies of other senders out, and a set adds only values of   *)
(* the map its caller passed.                                              *)

\* v may be shown to c under the name n.
Traceable(c, n, v) ==
  \/ v = Absent
  \/ Target[c] \in Macs /\ v \in held[Target[c]][SlotOf[n]]
  \/ \E arg \in Configs : v \in {arg[k] : k \in NamesAt(arg, SlotOf[n])}

\* Every value c has is.
Traced(c) ==
  /\ config[c] \in Configs \cup {Empty}
  /\ \A n \in Known : Traceable(c, n, cache[c][n]) /\ Traceable(c, n, result[c].data[n])

\* A reply carries values of its sender.
Witness(r) == \A n \in Known : r.data[n] # Absent => r.data[n] \in held[r.src][SlotOf[n]]

\* The inductive invariant behind Isolation.
IsolationInv ==
  /\ \A d \in Macs, s \in Slots : working[d][s] \in held[d][s] /\ nvram[d][s] \in held[d][s]
  /\ \A r \in replies : Witness(r)
  /\ \A c \in Callers : Traced(c)

-----------------------------------------------------------------------------
(* The callers.                                                            *)

\* A name is among the names of its own offset.
LEMMA OwnName ==
  ASSUME NEW arg \in Map, NEW n \in Known, arg[n] # Absent
  PROVE  n \in NamesAt(arg, SlotOf[n])
  BY TableAssumption DEF NamesAt, Keys

\* Merging a map a caller may pass keeps every value traceable.
LEMMA ExtendTraceable ==
  ASSUME NEW c \in Callers, NEW m, NEW arg \in (Configs \cup {Empty}) \cap Map,
         NEW n \in Known, Traceable(c, n, m[n])
  PROVE  Traceable(c, n, Extend(m, arg)[n])
<1>1. n \in Names
  BY TableAssumption
<1>2. CASE arg[n] = Absent
  BY <1>1, <1>2 DEF Extend
<1>3. CASE arg[n] # Absent
  <2>1. arg # Empty /\ arg \in Configs
    BY <1>1, <1>3 DEF Empty
  <2>2. arg[n] \in {arg[k] : k \in NamesAt(arg, SlotOf[n])}
    BY <1>3, OwnName
  <2>3. Extend(m, arg)[n] = arg[n]
    BY <1>1, <1>3 DEF Extend
  <2>4. QED
    BY <2>1, <2>2, <2>3 DEF Traceable
<1>4. QED
  BY <1>2, <1>3

\* So does loading what the caller's own device answered.
LEMMA LoadedTraceable ==
  ASSUME TypeOK, NEW c \in Callers, NEW r \in replies, Witness(r), FromDevice(c, r),
         NEW n \in Known, Traceable(c, n, cache[c][n])
  PROVE  Traceable(c, n, Loaded(c, r)[n]) /\ Traceable(c, n, r.data[n])
<1>1. r \in Reply /\ r.src = Target[c] /\ Target[c] \in Macs /\ n \in Names
  BY TableAssumption DEF TypeOK, FromDevice, Reply
<1>2. Traceable(c, n, r.data[n])
  BY <1>1 DEF Witness, Traceable
<1>3. Loaded(c, r)[n] = IF r.data[n] = Absent THEN cache[c][n] ELSE r.data[n]
  BY <1>1, TableAssumption DEF Loaded, Extend
<1>4. QED
  BY <1>2, <1>3

\* Nothing to show is traceable.
LEMMA EmptyTraceable ==
  ASSUME NEW c \in Callers, NEW n \in Known
  PROVE  Traceable(c, n, Empty[n])
  BY TableAssumption DEF Empty, Traceable

\* What is traceable stays so while the device's history does not shrink.
LEMMA TraceableGrows ==
  ASSUME NEW c \in Callers, NEW n \in Known, NEW v, Traceable(c, n, v),
         \A d \in Macs, s \in Slots : held[d][s] \subseteq held'[d][s]
  PROVE  Traceable(c, n, v)'
<1>1. SlotOf[n] \in Slots
  BY TableAssumption
<1>2. QED
  BY <1>1 DEF Traceable, NamesAt, Keys

\* A step of one caller: only its own state and the datagrams change.
LEMMA CallerStep ==
  ASSUME IsolationInv, NEW c \in Callers, UNCHANGED deviceVars, replies' \subseteq replies,
         \A k \in Callers \ {c} : /\ config'[k] = config[k] /\ cache'[k] = cache[k]
                                  /\ result'[k] = result[k],
         config'[c] \in Configs \cup {Empty},
         \A n \in Known : /\ Traceable(c, n, cache'[c][n])
                          /\ Traceable(c, n, result'[c].data[n])
  PROVE  IsolationInv'
<1>1. /\ working' = working /\ nvram' = nvram /\ held' = held
  BY DEF deviceVars
<1>2. ASSUME NEW r \in replies' PROVE Witness(r)'
  BY <1>1 DEF IsolationInv, Witness
<1>3. ASSUME NEW k \in Callers, NEW n \in Known, NEW v, Traceable(k, n, v)
      PROVE  Traceable(k, n, v)'
  BY <1>1, <1>3, TraceableGrows
<1>4. Traced(c)'
  BY <1>3 DEF Traced
<1>5. ASSUME NEW k \in Callers \ {c} PROVE Traced(k)'
  BY <1>3 DEF IsolationInv, Traced
<1>6. QED
  BY <1>1, <1>2, <1>4, <1>5 DEF IsolationInv

\* Returning, and sending, show the caller the given data or none at all.
LEMMA ShowsOwn ==
  ASSUME TypeOK, NEW c \in Callers
  PROVE  /\ \A status, data : Return(c, status, data) =>
              /\ config'[c] = Empty /\ result'[c].data = data
              /\ \A k \in Callers \ {c} : config'[k] = config[k] /\ result'[k] = result[k]
         /\ \A stage, method, slots, items, arg, pool :
              SendAndWait(c, stage, method, slots, items, arg, pool) =>
                /\ config'[c] \in {arg, Empty} /\ result'[c].data = Empty
                /\ \A k \in Callers \ {c} : config'[k] = config[k] /\ result'[k] = result[k]
         /\ \A parameters, arg, pool : SendSet(c, parameters, arg, pool) =>
              /\ config'[c] \in {arg, Empty} /\ result'[c].data = Empty
              /\ \A k \in Callers \ {c} : config'[k] = config[k] /\ result'[k] = result[k]
<1>1. ASSUME NEW status, NEW data, Return(c, status, data)
      PROVE  /\ config'[c] = Empty /\ result'[c].data = data
             /\ \A k \in Callers \ {c} : config'[k] = config[k] /\ result'[k] = result[k]
  BY <1>1 DEF Return, TypeOK
<1>2. ASSUME NEW stage, NEW method, NEW slots, NEW items, NEW arg, NEW pool,
             SendAndWait(c, stage, method, slots, items, arg, pool)
      PROVE  /\ config'[c] \in {arg, Empty} /\ result'[c].data = Empty
             /\ \A k \in Callers \ {c} : config'[k] = config[k] /\ result'[k] = result[k]
  BY <1>1, <1>2 DEF SendAndWait, TypeOK
<1>3. ASSUME NEW parameters, NEW arg, NEW pool, SendSet(c, parameters, arg, pool)
      PROVE  /\ config'[c] \in {arg, Empty} /\ result'[c].data = Empty
             /\ \A k \in Callers \ {c} : config'[k] = config[k] /\ result'[k] = result[k]
  BY <1>1, <1>2, <1>3 DEF SendSet
<1>4. QED
  BY <1>1, <1>2, <1>3

\* Starting an operation shows the caller nothing.
LEMMA StartTraced ==
  ASSUME TypeOK, IsolationInv, NEW c \in Callers, Start(c)
  PROVE  IsolationInv'
<1>1. ASSUME NEW op, ZeroMacGuard(c, op) PROVE IsolationInv'
  <2>1. Return(c, "ZeroMac", Empty) /\ UNCHANGED <<deviceVars, replies, cache>>
    BY <1>1 DEF ZeroMacGuard
  <2>2. QED
    BY <2>1, ShowsOwn, EmptyTraceable, CallerStep DEF IsolationInv, Traced
<1>2. ASSUME NEW op, NEW stage, NEW method, NEW slots, NEW items,
             NEW arg \in Configs \cup {Empty}, Call(c, op, stage, method, slots, items, arg)
      PROVE  IsolationInv'
  <2>1. /\ SendAndWait(c, stage, method, slots, items, arg, requests)
        /\ UNCHANGED <<deviceVars, replies, cache>>
    BY <1>2 DEF Call
  <2>2. /\ config'[c] \in {arg, Empty} /\ result'[c].data = Empty
        /\ \A k \in Callers \ {c} : config'[k] = config[k] /\ result'[k] = result[k]
    BY <2>1, ShowsOwn
  <2>3. QED
    BY <2>1, <2>2, EmptyTraceable, CallerStep DEF IsolationInv, Traced
<1>3. ASSUME NEW arg \in Configs, SetLoaded(c, arg) PROVE IsolationInv'
  <2>1. SendSet(c, cache[c], arg, requests) /\ UNCHANGED <<deviceVars, replies, cache>>
    BY <1>3 DEF SetLoaded
  <2>2. /\ config'[c] \in {arg, Empty} /\ result'[c].data = Empty
        /\ \A k \in Callers \ {c} : config'[k] = config[k] /\ result'[k] = result[k]
    BY <2>1, ShowsOwn
  <2>3. QED
    BY <2>1, <2>2, EmptyTraceable, CallerStep DEF IsolationInv, Traced
<1>4. CASE Set(c)
  BY <1>1, <1>2, <1>3, <1>4 DEF Set, SetUnloaded
<1>5. CASE Get(c) \/ GetAll(c) \/ Reset(c) \/ GetIp(c) \/ GetUuid(c)
  BY <1>1, <1>2, <1>5 DEF Get, GetAll, Reset, GetIp, GetUuid
<1>6. QED
  BY <1>4, <1>5 DEF Start

\* Ending with traceable data and parameters.
LEMMA EndTraced ==
  ASSUME TypeOK, IsolationInv, NEW c \in Callers, NEW r, NEW status, NEW data, NEW parameters,
         EndWith(c, r, status, data, parameters),
         \A n \in Known : Traceable(c, n, data[n]) /\ Traceable(c, n, parameters[n])
  PROVE  IsolationInv'
<1>1. /\ cache' = [cache EXCEPT ![c] = parameters] /\ Return(c, status, data)
      /\ replies' \subseteq replies /\ UNCHANGED deviceVars
  BY SurvivingSubset DEF EndWith
<1>2. cache'[c] = parameters /\ \A k \in Callers \ {c} : cache'[k] = cache[k]
  BY <1>1 DEF TypeOK
<1>3. QED
  BY <1>1, <1>2, ShowsOwn, CallerStep

\* Taking a reply shows the caller what its own device held.
LEMMA ReceiveTraced ==
  ASSUME TypeOK, IsolationInv, NEW c \in Callers, Receive(c)
  PROVE  IsolationInv'
<1>1. PICK r \in replies :
        \/ GetReply(c, r) \/ GetAllReply(c, r) \/ PreludeReply(c, r) \/ SetReply(c, r)
        \/ ResetReply(c, r) \/ GetIpReply(c, r) \/ GetUuidReply(c, r) \/ Discard(c, r)
  BY DEF Receive
<1>2. /\ Witness(r) /\ config[c] \in (Configs \cup {Empty}) \cap Map
      /\ \A n \in Known : Traceable(c, n, cache[c][n]) /\ Traceable(c, n, Empty[n])
  BY EmptyTraceable DEF IsolationInv, Traced, TypeOK
<1>3. ASSUME FromDevice(c, r), NEW n \in Known
      PROVE  Traceable(c, n, Loaded(c, r)[n]) /\ Traceable(c, n, r.data[n])
  BY <1>2, <1>3, LoadedTraceable
<1>4. CASE GetReply(c, r)
  <2> DEFINE data == IF GetStatus(r) = "ok" THEN r.data ELSE Empty
  <2>1. EndWith(c, r, GetStatus(r), data, cache[c]) /\ FromDevice(c, r)
    BY <1>4 DEF GetReply, Takes
  <2>2. \A n \in Known : Traceable(c, n, data[n])
    BY <1>2, <1>3, <2>1
  <2> HIDE DEF data
  <2>3. QED
    BY <1>2, <2>1, <2>2, EndTraced
<1>5. CASE GetAllReply(c, r)
  <2> DEFINE parameters == IF GetStatus(r) = "ok" THEN Loaded(c, r) ELSE cache[c]
  <2>1. EndWith(c, r, GetStatus(r), Empty, parameters) /\ FromDevice(c, r)
    BY <1>5 DEF GetAllReply, Takes
  <2>2. \A n \in Known : Traceable(c, n, parameters[n])
    BY <1>2, <1>3, <2>1
  <2> HIDE DEF parameters
  <2>3. QED
    BY <1>2, <2>1, <2>2, EndTraced
<1>6. CASE PreludeReply(c, r)
  <2>1. FromDevice(c, r)
    BY <1>6 DEF PreludeReply, Takes
  <2>2. CASE GetStatus(r) # "ok"
    BY <1>2, <1>6, <2>2, EndTraced DEF PreludeReply
  <2>3. CASE GetStatus(r) = "ok"
    <3>1. /\ cache' = [cache EXCEPT ![c] = Loaded(c, r)]
          /\ replies' \subseteq replies /\ UNCHANGED deviceVars
          /\ SendSet(c, Loaded(c, r), config[c], Surviving(requests, c))
      BY <1>6, <2>3, SurvivingSubset DEF PreludeReply
    <3>2. cache'[c] = Loaded(c, r) /\ \A k \in Callers \ {c} : cache'[k] = cache[k]
      BY <3>1 DEF TypeOK
    <3>3. /\ config'[c] \in {config[c], Empty} /\ result'[c].data = Empty
          /\ \A k \in Callers \ {c} : config'[k] = config[k] /\ result'[k] = result[k]
      BY <3>1, ShowsOwn
    <3>4. \A n \in Known : Traceable(c, n, cache'[c][n]) /\ Traceable(c, n, result'[c].data[n])
      BY <1>2, <1>3, <2>1, <3>2, <3>3
    <3>5. QED
      BY <1>2, <3>1, <3>2, <3>3, <3>4, CallerStep
  <2>4. QED
    BY <2>2, <2>3
<1>7. CASE SetReply(c, r)
  <2>1. \A n \in Known : Traceable(c, n, Extend(cache[c], config[c])[n])
    BY <1>2, ExtendTraceable
  <2>2. QED
    BY <1>2, <1>7, <2>1, EndTraced DEF SetReply
<1>8. CASE ResetReply(c, r) \/ GetIpReply(c, r) \/ GetUuidReply(c, r)
  BY <1>2, <1>8, EndTraced DEF ResetReply, GetIpReply, GetUuidReply
<1>9. CASE Discard(c, r)
  <2>1. UNCHANGED <<deviceVars, callerVars>> /\ replies' \subseteq replies
    BY <1>9 DEF Discard
  <2>2. QED
    BY <2>1, CallerStep DEF IsolationInv, Traced, callerVars
<1>10. QED
  BY <1>1, <1>4, <1>5, <1>6, <1>7, <1>8, <1>9

\* Giving up shows it nothing.
LEMMA GiveUpTraced ==
  ASSUME TypeOK, IsolationInv, NEW c \in Callers, Cancel(c) \/ RecvError(c)
  PROVE  IsolationInv'
<1>1. PICK status : EndWithout(c, status)
  BY DEF Cancel, RecvError
<1>2. Return(c, status, Empty) /\ UNCHANGED <<deviceVars, cache>> /\ replies' \subseteq replies
  BY <1>1, SurvivingSubset DEF EndWithout
<1>3. QED
  BY <1>2, ShowsOwn, EmptyTraceable, CallerStep DEF IsolationInv, Traced

-----------------------------------------------------------------------------
(* The devices.                                                            *)

\* A device's step: its history only grows and its answer carries what it holds.
LEMMA DeviceAnswers ==
  ASSUME TypeOK, IsolationInv, NEW m \in requests,
         NEW method, NEW decodes, NEW data, Answer(m, method, decodes, data),
         \A n \in Known : data[n] # Absent => data[n] \in held'[m.dst][SlotOf[n]],
         \A d \in Macs, s \in Slots :
           /\ held[d][s] \subseteq held'[d][s]
           /\ working'[d][s] \in held'[d][s] /\ nvram'[d][s] \in held'[d][s]
  PROVE  IsolationInv'
<1>1. UNCHANGED <<config, cache, result>>
  BY DEF Answer, callerVars
<1>2. ASSUME NEW r \in replies PROVE Witness(r)'
  <2>1. r.src \in Macs /\ \A n \in Known : SlotOf[n] \in Slots
    BY TableAssumption DEF TypeOK, Reply
  <2>2. QED
    BY <2>1 DEF IsolationInv, Witness
<1>3. ASSUME NEW r \in replies' PROVE Witness(r)'
  <2> DEFINE answer == [src |-> m.dst, sequence |-> m.sequence, copy |-> m.copy,
                        method |-> method, decodes |-> decodes, data |-> data]
  <2>1. r \in replies \/ r = answer
    BY DEF Answer
  <2>2. CASE r = answer
    BY <2>2 DEF Witness
  <2>3. QED
    BY <1>2, <2>1, <2>2
<1>4. ASSUME NEW c \in Callers PROVE Traced(c)'
  <2>1. \A n \in Known : /\ Traceable(c, n, cache[c][n])'
                         /\ Traceable(c, n, result[c].data[n])'
    BY <1>1, TraceableGrows DEF IsolationInv, Traced
  <2>2. QED
    BY <1>1, <2>1 DEF IsolationInv, Traced
<1>5. QED
  BY <1>3, <1>4 DEF IsolationInv

\* Serving any request.
LEMMA ServeTraced ==
  ASSUME TypeOK, IsolationInv, NEW m \in requests, Serve(m)
  PROVE  IsolationInv'
<1>1. m.dst \in Macs /\ m \in Request
  BY DEF TypeOK, Request
<1>2. \A n \in Known : n \in Names /\ SlotOf[n] \in Slots /\ Empty[n] = Absent
  BY TableAssumption DEF Empty
<1>3. ASSUME UNCHANGED deviceVars, NEW method, NEW decodes, NEW data,
             Answer(m, method, decodes, data),
             \A n \in Known : data[n] # Absent => data[n] \in held[m.dst][SlotOf[n]]
      PROVE  IsolationInv'
  BY <1>3, DeviceAnswers DEF IsolationInv, deviceVars
<1>4. CASE ServeGet(m)
  <2> DEFINE data == parse_response(working[m.dst], m.slots)
  <2>1. ASSUME NEW n \in Known PROVE data[n] \in {working[m.dst][SlotOf[n]], Absent}
    BY <1>2 DEF parse_response
  <2>2. \A n \in Known : data[n] # Absent => data[n] \in held[m.dst][SlotOf[n]]
    BY <1>1, <1>2, <2>1 DEF IsolationInv
  <2> HIDE DEF data
  <2>3. CASE Answer(m, "GET_DATA", TRUE, data)
    BY <1>3, <1>4, <2>2, <2>3 DEF ServeGet
  <2>4. CASE Answer(m, "GET_DATA", FALSE, Empty)
    BY <1>2, <1>3, <1>4, <2>4 DEF ServeGet
  <2>5. QED
    BY <1>4, <2>3, <2>4 DEF ServeGet, data
<1>5. CASE ServeSet(m)
  <2> DEFINE updated == [s \in Slots |-> IF m.items[s] = Absent THEN working[m.dst][s]
                                         ELSE m.items[s]]
  <2>1. /\ working' = [working EXCEPT ![m.dst] = updated]
        /\ nvram' = [nvram EXCEPT ![m.dst] = updated]
        /\ held' = [held EXCEPT ![m.dst] = [s \in Slots |-> held[m.dst][s] \cup {updated[s]}]]
        /\ Answer(m, "SET_DATA", TRUE, Empty)
    BY <1>5 DEF ServeSet
  <2> HIDE DEF updated
  <2>2. ASSUME NEW d \in Macs, NEW s \in Slots
        PROVE  /\ held[d][s] \subseteq held'[d][s]
               /\ working'[d][s] \in held'[d][s] /\ nvram'[d][s] \in held'[d][s]
    <3>1. CASE d = m.dst
      <4>1. working'[d][s] = updated[s] /\ nvram'[d][s] = updated[s]
        BY <1>1, <2>1, <3>1 DEF TypeOK
      <4>2. held'[d][s] = held[d][s] \cup {updated[s]}
        BY <1>1, <2>1, <3>1 DEF TypeOK
      <4>3. QED
        BY <4>1, <4>2
    <3>2. CASE d # m.dst
      BY <2>1, <3>2 DEF TypeOK, IsolationInv
    <3>3. QED
      BY <3>1, <3>2
  <2>3. QED
    BY <1>2, <2>1, <2>2, DeviceAnswers
<1>6. CASE ServeReset(m)
  <2>1. /\ working' = [working EXCEPT ![m.dst] = nvram[m.dst]]
        /\ UNCHANGED <<nvram, held>> /\ Answer(m, "RESET", TRUE, Empty)
    BY <1>6 DEF ServeReset
  <2>2. ASSUME NEW d \in Macs, NEW s \in Slots
        PROVE  /\ held[d][s] \subseteq held'[d][s]
               /\ working'[d][s] \in held'[d][s] /\ nvram'[d][s] \in held'[d][s]
    BY <2>1 DEF TypeOK, IsolationInv
  <2>3. QED
    BY <1>2, <2>1, <2>2, DeviceAnswers
<1>7. CASE ServeGetIp(m) \/ ServeGetUuid(m) \/ Refuse(m)
  BY <1>2, <1>3, <1>7 DEF ServeGetIp, ServeGetUuid, Refuse
<1>8. QED
  BY <1>4, <1>5, <1>6, <1>7 DEF Serve

-----------------------------------------------------------------------------
\* At first a device has held its seed, and no caller has been shown anything.
LEMMA IsolationInit == Init => IsolationInv
<1> SUFFICES ASSUME Init PROVE IsolationInv
  OBVIOUS
<1>1. \A d \in Macs, s \in Slots : working[d][s] \in held[d][s] /\ nvram[d][s] \in held[d][s]
  BY DEF Init
<1>2. ASSUME NEW c \in Callers PROVE Traced(c)
  BY EmptyTraceable DEF Init, Traced
<1>3. QED
  BY <1>1, <1>2 DEF Init, IsolationInv

\* Every step keeps the values where they belong.
LEMMA IsolationNext == TypeOK /\ IsolationInv /\ [Next]_vars => IsolationInv'
<1> SUFFICES ASSUME TypeOK, IsolationInv, [Next]_vars PROVE IsolationInv'
  OBVIOUS
<1>1. ASSUME NEW c \in Callers, Start(c) \/ Receive(c) \/ Cancel(c) \/ RecvError(c)
      PROVE  IsolationInv'
  BY <1>1, StartTraced, ReceiveTraced, GiveUpTraced
<1>2. ASSUME NEW m \in requests, Serve(m) PROVE IsolationInv'
  BY <1>2, ServeTraced
<1>3. CASE UNCHANGED vars
  BY <1>3 DEF vars, deviceVars, callerVars, IsolationInv, Witness, Traced, Traceable
<1>4. QED
  BY <1>1, <1>2, <1>3 DEF Next

\* Whatever a caller knows about a parameter was at some time held by its own
\* device, or asked of it (session.rs, the MAC filter of wait_for_reply).
THEOREM IsolationHolds == Spec => []Isolation
<1>1. IsolationInv => Isolation
  BY DEF IsolationInv, Traced, Traceable, Isolation
<1>2. QED
  BY <1>1, IsolationInit, IsolationNext, TypeCorrect, PTL DEF Spec
=============================================================================
