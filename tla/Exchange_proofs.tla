--------------------------- MODULE Exchange_proofs ---------------------------
(***************************************************************************)
(* What every exchange of a client and a device keeps, for any table,      *)
(* device, settings, cuts and inputs that satisfy the assumptions of       *)
(* Exchange.  IInv is the inductive invariant; Truthful adds to it what is *)
(* shown of replies.                                                       *)
(***************************************************************************)
EXTENDS Exchange, Codecs_proofs

-----------------------------------------------------------------------------
(* Failures change nothing.                                                *)

Methods == {"ADV_DISC", "GET_DATA", "SET_DATA", "RESET", "GET_IP", "GET_UUID"}

\* Whoever obeys answers in kind, and whoever does not says so.
LEMMA AnswersOwn ==
  ASSUME NEW method \in Methods, NEW payload, NEW r \in Received(method, payload)
  PROVE  /\ Obeys(method) => r.method = method \/ (method = "GET_DATA" /\ r.method = "UNRECOGNISED")
         /\ ~Obeys(method) => r.method = "ERROR"
<1>1. ~Silent(method)
  BY DEF Received
<1> DEFINE reply == Answer(method, payload)
<1>2. r.method = reply.method
  <2>1. r = reply \/ \E n \in Cuts : r = [reply EXCEPT !.payload = SubSeq(@, 1, n)]
    BY <1>1 DEF Received
  <2>2. \E m, p : reply = [method |-> m, payload |-> p]
    BY DEF Answer
  <2> HIDE DEF reply
  <2>3. QED
    BY <2>1, <2>2
<1>3. Obeys(method) <=> ~fails_on(OpOf(method))
  BY <1>1 DEF Obeys, Silent
<1>4. fails_on(OpOf(method)) => reply.method = "ERROR"
  BY DEF Answer
<1>5. ASSUME ~fails_on(OpOf(method))
      PROVE  reply.method = method \/ (method = "GET_DATA" /\ reply.method = "UNRECOGNISED")
  BY <1>5 DEF Answer
<1>6. QED
  BY <1>2, <1>3, <1>4, <1>5

\* Silence is of a device that does nothing, but for the questions.
LEMMA SilenceIs ==
  \A method \in {"SET_DATA", "RESET"} : Silent(method) => ~Obeys(method)
BY DEF Silent, Obeys

\* A refused write changes nothing, and an accepted one is not reported as
\* failed.
LEMMA WriteFailsCleanly ==
  ASSUME NEW config, NEW base, Write(config, base), outcome'.status # "ok"
  PROVE  UNCHANGED <<working, nvram>>
<1> DEFINE payload == set_data_payload(Extend(base, config))
<1>1. CASE ~Encodes(Extend(base, config))
  BY <1>1 DEF Write
<1>2. CASE Encodes(Extend(base, config))
  <2>1. Apply(payload)
    BY <1>2 DEF Write
  <2>2. ~Obeys("SET_DATA")
    <3>1. CASE Silent("SET_DATA")
      BY <3>1, SilenceIs
    <3>2. CASE \E r \in Received("SET_DATA", payload) : r.method \notin {"SET_DATA", "GET_DATA", "GET_IP"}
      <4>1. PICK r \in Received("SET_DATA", payload) : r.method \notin {"SET_DATA", "GET_DATA", "GET_IP"}
        BY <3>2
      <4>2. SUFFICES ASSUME Obeys("SET_DATA") PROVE FALSE
        OBVIOUS
      <4>3. r.method = "SET_DATA"
        BY <4>1, <4>2, AnswersOwn DEF Methods
      <4>4. QED
        BY <4>1, <4>3
    <3>3. QED
      BY <1>2, <3>1, <3>2 DEF Write, Done
  <2>3. QED
    BY <2>1, <2>2 DEF Apply
<1>3. QED
  BY <1>1, <1>2

\* Nor does a reset that is refused.
LEMMA ResetFailsCleanly ==
  ASSUME Reset, outcome'.status # "ok"
  PROVE  UNCHANGED <<working, nvram>>
<1>1. PICK r \in Received("RESET", <<>>) : r.method # "RESET"
  BY DEF Reset, Done
<1>2. ~Obeys("RESET")
  BY <1>1, AnswersOwn DEF Methods
<1>3. QED
  BY <1>2 DEF Reset

\* An operation that is reported as failed has changed nothing on the device, for
\* any device, settings and cuts: a device that applies a set or a reset
\* (mocksbr, Network::receive) answers it in kind, and one that does not obey sends
\* an error, which set and reset (ops/config.rs) report.
THEOREM FailuresAreClean == Spec => FailuresChangeNothing
<1>1. ASSUME Next, outcome'.status # "ok" PROVE UNCHANGED <<working, nvram>>
  <2>1. CASE Set
    <3>1. PICK config \in Configs :
            \/ parameters # <<>> /\ Write(config, parameters)
            \/ \E result \in GetResults(ParameterNames) :
                 \/ Write(config, Loaded(result.config))
                 \/ UNCHANGED <<working, nvram>>
      BY <2>1 DEF Set
    <3>2. QED
      BY <1>1, <3>1, WriteFailsCleanly
  <2>2. CASE Reset
    BY <1>1, <2>2, ResetFailsCleanly
  <2>3. CASE Get \/ GetAll
    BY <2>3 DEF Get, GetAll
  <2>4. CASE GetIp \/ GetUuid \/ Discover
    BY <2>4 DEF GetIp, GetUuid, Discover, Query
  <2>5. CASE Validate \/ ParseMac \/ Upgrade
    BY <2>5 DEF Validate, ParseMac, Upgrade
  <2>6. QED
    BY <1>1, <2>1, <2>2, <2>3, <2>4, <2>5 DEF Next
<1>2. [Next]_vars => (outcome'.status # "ok" => UNCHANGED <<working, nvram>>)
  BY <1>1 DEF vars
<1>3. QED
  BY <1>2, PTL DEF Spec, FailuresChangeNothing

-----------------------------------------------------------------------------
(* What is typed: MAC addresses and values.                                *)

\* The steps that look at what a user types, and the others.
LEMMA OutcomeOps ==
  ASSUME Next
  PROVE  \/ Validate \/ ParseMac
         \/ outcome'.op \in {"get", "set", "reset", "get_ip", "get_uuid", "discover"}
         \/ outcome' = outcome
<1>1. CASE Get \/ GetAll
  BY <1>1 DEF Get, GetAll, Done
<1>2. CASE Set
  <2>1. \A config, base : Write(config, base) => outcome'.op = "set"
    BY DEF Write, Done
  <2>2. QED
    BY <1>2, <2>1 DEF Set, Done
<1>3. CASE Reset
  BY <1>3 DEF Reset, Done
<1>4. CASE GetIp \/ GetUuid \/ Discover
  BY <1>4 DEF GetIp, GetUuid, Discover, Query, Done
<1>5. CASE Upgrade
  BY <1>5 DEF Upgrade
<1>6. QED
  BY <1>1, <1>2, <1>3, <1>4, <1>5 DEF Next

\* Every MAC address Mac::from_str accepts is displayed as it was typed, in lower
\* case (mac.rs), whatever is typed.
THEOREM MacAddressesAreKept == Spec => []MacIsKept
<1>1. Init => MacIsKept
  BY DEF Init, MacIsKept
<1>2. ASSUME MacIsKept, [Next]_vars PROVE MacIsKept'
  <2>1. CASE ParseMac
    <3>1. SUFFICES ASSUME outcome'.op = "mac", outcome'.status = "ok"
                   PROVE  outcome'.shown.mac = Lower(outcome'.asked.text)
      BY DEF MacIsKept
    <3>2. PICK text \in MacTexts :
            IF Mac(text) = <<>> THEN Done("mac", [text |-> text], "Invalid", <<>>)
            ELSE Done("mac", [text |-> text], "ok", [mac |-> MacText(Mac(text)[1])])
      BY <2>1 DEF ParseMac
    <3>3. Mac(text) # <<>> /\ outcome'.asked.text = text /\ outcome'.shown.mac = MacText(Mac(text)[1])
      BY <3>1, <3>2 DEF Done
    <3>4. text \in Bytes
      BY UsageAssumption
    <3>5. MacText(Mac(text)[1]) = Lower(text)
      BY <3>3, <3>4, MacTextIs DEF Lower, LowerCase
    <3>6. QED
      BY <3>3, <3>5
  <2>2. CASE Validate
    <3>1. outcome'.op = "validate"
      BY <2>2 DEF Validate, Done
    <3>2. QED
      BY <3>1 DEF MacIsKept
  <2>3. CASE outcome' = outcome
    BY <1>2, <2>3 DEF MacIsKept
  <2>4. CASE outcome'.op \in {"get", "set", "reset", "get_ip", "get_uuid", "discover"}
    BY <2>4 DEF MacIsKept
  <2>5. QED
    BY <1>2, <2>1, <2>2, <2>3, <2>4, OutcomeOps DEF vars
<1>3. QED
  BY <1>1, <1>2, PTL DEF Spec

\* Values a user supplies.
LEMMA ByNameIs ==
  ASSUME NEW name
  PROVE  /\ by_name(name) \subseteq Rows
         /\ \A p \in by_name(name) : by_name(name) = {p}
<1>1. by_name(name) \subseteq Rows
  BY DEF by_name
<1>2. \A p, q \in by_name(name) : p.name = q.name
  BY DEF by_name
<1>3. \A p, q \in by_name(name) : p = q
  BY <1>1, <1>2, TableAssumption
<1>4. QED
  BY <1>1, <1>3

\* Widths are positive.
LEMMA RowWidth ==
  \A p \in Rows : p.length \in Width
<1>1. \A n \in U16 \ {0} : n \in Width
  BY U16Def DEF Width
<1>2. QED
  BY <1>1, TableAssumption

\* A value validate_parameter accepts (validation.rs) encodes for its row and
\* is read back as it was typed, up to leading zeros, for any table and any text
\* without NULs: set neither refuses it nor cuts it.
THEOREM ValidatedValuesAreKept == Spec => []ValidatedIsKept
<1>1. Init => ValidatedIsKept
  BY DEF Init, ValidatedIsKept
<1>2. ASSUME ValidatedIsKept, [Next]_vars PROVE ValidatedIsKept'
  <2>1. CASE Validate
    <3>1. SUFFICES ASSUME outcome'.status = "ok", NEW n \in DOMAIN outcome'.asked, NEW p \in by_name(n)
                   PROVE  /\ encode(p.length, outcome'.asked[n]) # <<>>
                          /\ format_value(encode(p.length, outcome'.asked[n])) =
                               IF p.length \in {1, 2} THEN Decimal(Number(outcome'.asked[n]))
                               ELSE outcome'.asked[n]
      BY DEF ValidatedIsKept
    <3>2. PICK e \in Entries :
            Done("validate", [name \in {e[1]} |-> e[2]],
                 IF validate_parameter(e[1], e[2]) THEN "ok" ELSE "Invalid", <<>>)
      BY <2>1 DEF Validate
    <3>3. validate_parameter(e[1], e[2]) /\ outcome'.asked = [name \in {e[1]} |-> e[2]]
      BY <3>1, <3>2 DEF Done
    <3>4. n = e[1] /\ outcome'.asked[n] = e[2]
      BY <3>3
    <3>5. FitsWidth(p.length, e[2])
      BY <3>3, <3>4 DEF validate_parameter
    <3>6. e[2] \in Seq(Byte \ {0})
      BY UsageAssumption
    <3>7. p.length \in Width
      BY ByNameIs, RowWidth
    <3>8. QED
      BY <3>4, <3>5, <3>6, <3>7, FittingIsKept
  <2>2. CASE ParseMac
    <3>1. outcome'.op = "mac"
      BY <2>2 DEF ParseMac, Done
    <3>2. QED
      BY <3>1 DEF ValidatedIsKept
  <2>3. CASE outcome' = outcome
    BY <1>2, <2>3 DEF ValidatedIsKept
  <2>4. CASE outcome'.op \in {"get", "set", "reset", "get_ip", "get_uuid", "discover"}
    BY <2>4 DEF ValidatedIsKept
  <2>5. QED
    BY <1>2, <2>1, <2>2, <2>3, <2>4, OutcomeOps DEF vars
<1>3. QED
  BY <1>1, <1>2, PTL DEF Spec

-----------------------------------------------------------------------------
(* What a device answers to get.                                           *)

\* A sequence has no more elements than places.
LEMMA ElementsAreFinite ==
  ASSUME NEW S, NEW s \in Seq(S)
  PROVE  IsFiniteSet(ToSet(s)) /\ Cardinality(ToSet(s)) \in Nat /\ Cardinality(ToSet(s)) <= Len(s)
<1>1. Len(s) \in Nat /\ DOMAIN s = 1..Len(s)
  OBVIOUS
<1>2. s \in Surjection(1..Len(s), ToSet(s))
  BY <1>1 DEF Surjection, ToSet
<1>3. IsFiniteSet(1..Len(s)) /\ Cardinality(1..Len(s)) = Len(s)
  BY <1>1, FS_Interval
<1>4. IsFiniteSet(ToSet(s)) /\ Cardinality(ToSet(s)) <= Len(s)
  BY <1>2, <1>3, FS_Surjection
<1>5. QED
  BY <1>4, FS_CardinalityType

\* The rows of the table.
LEMMA RowsAre ==
  /\ IsFiniteSet(Rows) /\ Cardinality(Rows) \in Nat /\ Cardinality(Rows) <= Len(PARAMETERS)
  /\ Len(PARAMETERS) \in Nat
  /\ \A p \in Rows : p.offset \in U16 /\ p.length \in U16 /\ p.length \in Width
  /\ \A p, q \in Rows : p.name = q.name \/ p.offset = q.offset => p = q
<1>1. PARAMETERS \in Seq(Rows)
  BY TableAssumption
<1>2. IsFiniteSet(Rows) /\ Cardinality(Rows) \in Nat /\ Cardinality(Rows) <= Len(PARAMETERS)
  BY <1>1, ElementsAreFinite DEF Rows
<1>3. \A p \in Rows : p.offset \in U16 /\ p.length \in U16
  BY TableAssumption
<1>4. \A p, q \in Rows : p.name = q.name \/ p.offset = q.offset => p = q
  BY TableAssumption
<1>5. Len(PARAMETERS) \in Nat
  BY <1>1
<1>6. QED
  BY <1>2, <1>3, <1>4, <1>5, RowWidth

\* A list of some of the rows.
RowList(rows, R, m) ==
  /\ R \subseteq Rows /\ m = Cardinality(R) /\ m \in Nat /\ m <= Cardinality(Rows)
  /\ rows \in Seq(R) /\ Len(rows) = m /\ DOMAIN rows = 1..m
  /\ \A p \in R : \E k \in 1..m : rows[k] = p
  /\ \A j, k \in 1..m : rows[j] = rows[k] => j = k

\* InOrder lists rows by their offsets.
LEMMA RowListIs ==
  ASSUME NEW R \in SUBSET Rows
  PROVE  RowList(InOrder(R), R, Cardinality(R))
<1>1. IsFiniteSet(R) /\ Cardinality(R) \in Nat /\ Cardinality(R) <= Cardinality(Rows)
  BY RowsAre, FS_Subset, FS_CardinalityType
<1>2. \A i \in R : i.offset \in Int
  BY RowsAre, U16Def
<1>3. \A i, j \in R : i.offset = j.offset => i = j
  BY RowsAre
<1>4. Lists(InOrder(R), R)
  BY <1>1, <1>2, <1>3, InOrderIs
<1>5. PICK s : s = InOrder(R)
  OBVIOUS
<1>6. Lists(s, R)
  BY <1>4, <1>5
<1>7. RowList(s, R, Cardinality(R))
  <2>1. s \in Seq(R) /\ Len(s) = Cardinality(R)
    BY <1>6 DEF Lists
  <2>2. DOMAIN s = 1..Cardinality(R)
    BY <1>1, <2>1
  <2>3. QED
    BY <1>1, <1>6, <2>1, <2>2 DEF Lists, RowList
<1>8. QED
  BY <1>5, <1>7

\* Every parameter is kept in a form that can be sent.
Sound(held) == \A p \in Rows : Stored(p.length, held[p.name])

HeldItem(held, p) == [offset |-> p.offset, value |-> encode(p.length, held[p.name])]

HeldItems(held, rows) == [k \in DOMAIN rows |-> HeldItem(held, rows[k])]

\* The item for a row holds the value in a form that is read back.
LEMMA HeldItemIs ==
  ASSUME NEW held, Sound(held), NEW p \in Rows
  PROVE  /\ HeldItem(held, p) \in ItemRecord
         /\ Len(HeldItem(held, p).value) \in U16
         /\ encode(p.length, held[p.name]) # <<>>
         /\ held[p.name] \in Bytes
         /\ format_value(encode(p.length, held[p.name])) = held[p.name]
<1>1. PICK v, e : v = held[p.name] /\ e = encode(p.length, v)
  OBVIOUS
<1>2. Stored(p.length, v)
  BY <1>1 DEF Sound
<1>3. v \in Bytes /\ e # <<>> /\ format_value(e) = v
  BY <1>1, <1>2 DEF Stored
<1>4. p.length \in Width /\ p.length \in U16 /\ p.offset \in U16
  BY RowsAre
<1>5. e \in Bytes /\ Len(e) = p.length
  BY <1>1, <1>3, <1>4, EncodeIs
<1>6. HeldItem(held, p) = [offset |-> p.offset, value |-> e]
  BY <1>1 DEF HeldItem
<1>7. QED
  BY <1>1, <1>3, <1>4, <1>5, <1>6 DEF ItemRecord

RequestedRows(names) == UNION {by_name(n) : n \in names}

\* The device answers for every parameter asked for.
LEMMA AnswersAre ==
  ASSUME NEW held, Sound(held), NEW names, Len(PARAMETERS) \in U16,
         NEW rows, rows = InOrder(RequestedRows(names))
  PROVE  /\ RowList(rows, RequestedRows(names), Len(rows))
         /\ Answers(held, get_data_payload(names)) = EachTo(Item, HeldItems(held, rows))
<1> DEFINE R == RequestedRows(names)
           m == Len(rows)
<1>1. R \in SUBSET Rows
  BY ByNameIs DEF RequestedRows
<1>2. RowList(rows, R, m)
  BY <1>1, RowListIs DEF RowList
<1>3. m \in Nat /\ m \in U16 /\ DOMAIN rows = 1..m /\ \A k \in 1..m : rows[k] \in Rows
  <2>1. m \in Nat /\ m <= Cardinality(Rows) /\ DOMAIN rows = 1..m /\ rows \in Seq(R) /\ R \subseteq Rows
    BY <1>2 DEF RowList
  <2>2. PICK c, l : c = Cardinality(Rows) /\ l = Len(PARAMETERS)
    OBVIOUS
  <2>3. c \in Nat /\ c <= l /\ l \in Nat /\ l <= U16_MAX /\ U16_MAX \in Nat
    BY <2>2, RowsAre, U16Def, U16MaxIs
  <2>4. m <= U16_MAX
    BY <2>1, <2>2, <2>3
  <2>5. m \in U16
    BY <2>1, <2>4, U16Def
  <2>6. \A k \in 1..m : rows[k] \in R
    BY <2>1, ElementOf
  <2>7. QED
    BY <2>1, <2>5, <2>6
<1>4. \A k \in 1..m : rows[k].offset \in U16 /\ rows[k].length \in U16
  BY <1>3, RowsAre
<1>5. PICK payload : payload = Credentials \o be16(m) \o FlattenSeq(EachTo(Header, rows))
  OBVIOUS
<1>6. get_data_payload(names) = payload
  BY <1>5 DEF get_data_payload, RequestedRows
<1>7. /\ ~(Len(payload) < CREDENTIAL_FIELDS + 2)
      /\ Count(payload) = m
      /\ Offsets(payload, FirstItem, m) = [k \in 1..m |-> rows[k].offset]
  <2>1. Requestable(rows, m)
    BY <1>3, <1>4 DEF Requestable
  <2>2. Requests(payload, rows, m)
    BY <1>5, <2>1, OffsetsRead
  <2>3. QED
    BY <2>2 DEF Requests
<1> DEFINE Held(p) == encode(p.length, held[p.name])
           AnswerTo(offset) ==
             IF \E p \in by_offset(offset) : Held(p) # <<>>
             THEN Item([offset |-> offset, value |-> Held(CHOOSE p \in by_offset(offset) : TRUE)])
             ELSE <<>>
<1>8. ASSUME NEW p \in Rows PROVE AnswerTo(p.offset) = Item(HeldItem(held, p))
  <2>1. by_offset(p.offset) = {p}
    <3>1. \A q \in Rows : q.offset = p.offset => q = p
      BY RowsAre
    <3>2. QED
      BY <3>1 DEF by_offset
  <2>2. Held(p) # <<>>
    BY HeldItemIs
  <2>3. (CHOOSE q \in by_offset(p.offset) : TRUE) = p
    BY <2>1
  <2>4. \E q \in by_offset(p.offset) : Held(q) # <<>>
    BY <2>1, <2>2
  <2>5. QED
    BY <2>3, <2>4, Zenon DEF HeldItem
<1> DEFINE asked == [k \in 1..m |-> rows[k].offset]
<1>9. Answers(held, payload) = [k \in 1..m |-> AnswerTo(asked[k])]
  <2>1. Answers(held, payload) = EachTo(AnswerTo, IF Len(payload) < CREDENTIAL_FIELDS + 2 THEN <<>>
                                                  ELSE Offsets(payload, FirstItem, Count(payload)))
    BY DEF Answers
  <2>2. Answers(held, payload) = EachTo(AnswerTo, asked)
    BY <1>7, <2>1, Zenon
  <2>3. EachTo(AnswerTo, asked) = [k \in DOMAIN asked |-> AnswerTo(asked[k])]
    BY DEF EachTo
  <2>4. DOMAIN asked = 1..m
    OBVIOUS
  <2> HIDE DEF AnswerTo, asked
  <2>5. QED
    BY <2>2, <2>3, <2>4, Zenon
<1>10. \A k \in 1..m : AnswerTo(asked[k]) = Item(HeldItem(held, rows[k]))
  <2>1. \A k \in 1..m : asked[k] = rows[k].offset
    OBVIOUS
  <2> HIDE DEF AnswerTo, asked
  <2>2. QED
    BY <1>3, <1>8, <2>1
<1>11. EachTo(Item, HeldItems(held, rows)) = [k \in 1..m |-> Item(HeldItem(held, rows[k]))]
  <2>1. DOMAIN HeldItems(held, rows) = 1..m /\ \A k \in 1..m : HeldItems(held, rows)[k] = HeldItem(held, rows[k])
    BY <1>3 DEF HeldItems
  <2>2. EachTo(Item, HeldItems(held, rows)) = [k \in 1..m |-> Item(HeldItems(held, rows)[k])]
    BY <2>1 DEF EachTo
  <2>3. QED
    BY <2>1, <2>2
<1> HIDE DEF AnswerTo, asked
<1>12. Answers(held, payload) = EachTo(Item, HeldItems(held, rows))
  BY <1>9, <1>10, <1>11
<1>13. QED
  BY <1>2, <1>6, <1>12

-----------------------------------------------------------------------------
(* What a client makes of the answer.                                      *)

\* The last of the entries of a key says what its value is.
Maps(map, n, e) ==
  /\ DOMAIN map = {e[k].key : k \in 1..n}
  /\ \A key \in DOMAIN map : \E k \in 1..n : e[k].key = key /\ map[key] = e[k].value

\* MapOf maps each key to its last value.
LEMMA MapOfIs ==
  ASSUME NEW n \in Nat, NEW e, DOMAIN e = 1..n
  PROVE  Maps(MapOf(e), n, e)
<1> DEFINE M == MapOf(e)
           At(key) == {k \in DOMAIN e : e[k].key = key}
<1>1. M = [key \in {e[k].key : k \in DOMAIN e} |-> e[Max(At(key))].value]
  BY DEF MapOf
<1>2. DOMAIN M = {e[k].key : k \in 1..n}
  <2> HIDE DEF At
  <2>1. QED
    BY <1>1
<1>3. ASSUME NEW key \in DOMAIN M PROVE \E k \in 1..n : e[k].key = key /\ M[key] = e[k].value
  <2>1. At(key) \in SUBSET Nat /\ At(key) # {} /\ \A k \in At(key) : k <= n
    BY <1>2, <1>3
  <2>2. Max(At(key)) \in At(key)
    <3> HIDE DEF At
    <3>1. QED
      BY <2>1, MaxIs
  <2>3. M[key] = e[Max(At(key))].value
    <3> HIDE DEF At
    <3>1. QED
      BY <1>1, <1>2
  <2> HIDE DEF M
  <2>4. QED
    BY <2>2, <2>3
<1>4. QED
  BY <1>2, <1>3 DEF Maps

\* What an answer to get stands for.
TrueConfig(config, held, R, extra) ==
  /\ \A p \in R : p.name \in DOMAIN config
  /\ \A key \in DOMAIN config :
       \/ \E p \in R : key = p.name /\ config[key] = held[p.name]
       \/ \E i \in ToSet(extra) : key = SyntheticName(i.offset) /\ config[key] = hex_encode(i.value)

\* An item for a row is read as that parameter, and one beyond the table under
\* a synthetic name.
LEMMA EntryOfRow ==
  ASSUME NEW held, Sound(held), NEW p \in Rows
  PROVE  Entry(HeldItem(held, p)) = [key |-> p.name, value |-> held[p.name]]
<1>1. by_offset(p.offset) = {p}
  <2>1. \A q \in Rows : q.offset = p.offset => q = p
    BY RowsAre
  <2>2. QED
    BY <2>1 DEF by_offset
<1>2. (CHOOSE q \in by_offset(p.offset) : TRUE) = p /\ by_offset(p.offset) # {}
  BY <1>1
<1>3. PICK i : i = HeldItem(held, p)
  OBVIOUS
<1>4. i.offset = p.offset /\ i.value = encode(p.length, held[p.name])
  BY <1>3 DEF HeldItem
<1>5. format_value(i.value) = held[p.name]
  BY <1>4, HeldItemIs
<1>6. Entry(i) = [key |-> (CHOOSE q \in by_offset(p.offset) : TRUE).name, value |-> format_value(i.value)]
  BY <1>2, <1>4 DEF Entry
<1>7. QED
  BY <1>2, <1>3, <1>5, <1>6

\* The entry of an item the table does not know.
LEMMA EntryOfExtra ==
  ASSUME NEW i, by_offset(i.offset) = {}
  PROVE  Entry(i) = [key |-> SyntheticName(i.offset), value |-> hex_encode(i.value)]
BY DEF Entry

\* Firmware that answers with more than was asked for.
Surplus(extra) ==
  extra \in Seq(ItemRecord) /\ \A i \in ToSet(extra) : by_offset(i.offset) = {} /\ Len(i.value) \in U16

\* The settings of a device fit one reply.
LEMMA KnobsAre ==
  ASSUME NEW k \in Knobs
  PROVE  Surplus(k.extra) /\ Len(PARAMETERS) + Len(k.extra) \in U16 /\ Len(PARAMETERS) \in U16
         /\ Len(k.extra) \in Nat
<1>1. IsKnobs(k) /\ Len(PARAMETERS) + Len(k.extra) \in U16
  BY DeviceAssumption
<1>2. Surplus(k.extra)
  BY <1>1 DEF IsKnobs, Surplus, ItemRecord
<1>3. PICK a, b : a = Len(PARAMETERS) /\ b = Len(k.extra)
  OBVIOUS
<1>4. a \in Nat
  BY <1>3, RowsAre
<1>5. b \in Nat
  BY <1>2, <1>3 DEF Surplus
<1>6. a + b \in Int /\ 0 <= a + b /\ a + b <= U16_MAX
  BY <1>1, <1>3, U16Def
<1>7. a \in Int /\ 0 <= a /\ a <= U16_MAX
  BY <1>4, <1>5, <1>6, U16MaxIs
<1>8. a \in U16
  BY <1>7, U16Def
<1>9. QED
  BY <1>1, <1>2, <1>3, <1>5, <1>8

\* Items for rows with items beyond the table behind them.
LEMMA ItemsJoin ==
  ASSUME NEW s \in Seq(ItemRecord), NEW w \in Seq(ItemRecord)
  PROVE  /\ s \o w \in Seq(ItemRecord)
         /\ EachTo(Item, s) \o EachTo(Item, w) = EachTo(Item, s \o w)
         /\ DOMAIN EachTo(Item, s \o w) = 1..Len(s) + Len(w)
         /\ \A k \in 1..Len(s) + Len(w) : EachTo(Item, s \o w)[k] = Item((s \o w)[k])
<1> DEFINE j == s \o w
           a == EachTo(Item, s)
           b == EachTo(Item, w)
           c == EachTo(Item, j)
<1>1. Len(s) \in Nat /\ Len(w) \in Nat /\ DOMAIN s = 1..Len(s) /\ DOMAIN w = 1..Len(w)
  OBVIOUS
<1>2. /\ j \in Seq(ItemRecord) /\ Len(j) = Len(s) + Len(w) /\ DOMAIN j = 1..Len(s) + Len(w)
      /\ \A k \in 1..Len(s) : j[k] = s[k]
      /\ \A k \in 1..Len(w) : j[Len(s) + k] = w[k]
  <2>1. IsConcat(ItemRecord, j, s, w)
    BY Concatenation, Zenon
  <2> HIDE DEF j
  <2>2. QED
    BY <1>1, <2>1 DEF IsConcat
<1> HIDE DEF j
<1>3. a = [k \in 1..Len(s) |-> Item(s[k])] /\ b = [k \in 1..Len(w) |-> Item(w[k])]
      /\ c = [k \in 1..Len(s) + Len(w) |-> Item(j[k])]
  BY <1>1, <1>2 DEF EachTo
<1> DEFINE V == {Item(s[k]) : k \in 1..Len(s)} \cup {Item(w[k]) : k \in 1..Len(w)}
<1>4. a \in Seq(V) /\ b \in Seq(V) /\ Len(a) = Len(s) /\ Len(b) = Len(w)
  BY <1>1, <1>3
<1> HIDE DEF V
<1>5. DOMAIN c = 1..Len(s) + Len(w) /\ \A k \in 1..Len(s) + Len(w) : c[k] = Item(j[k])
  BY <1>3
<1>6. a \o b = c
  <2> DEFINE d == a \o b
  <2>1. IsConcat(V, d, a, b)
    <3> HIDE DEF a, b
    <3>1. QED
      BY <1>4, Concatenation, Zenon
  <2> HIDE DEF d
  <2>2. d \in Seq(V) /\ Len(d) = Len(s) + Len(w)
        /\ (\A k \in 1..Len(s) : d[k] = a[k]) /\ (\A k \in 1..Len(w) : d[Len(s) + k] = b[k])
    <3> HIDE DEF a, b
    <3>1. QED
      BY <1>4, <2>1 DEF IsConcat
  <2>3. \A k \in 1..Len(s) : a[k] = Item(s[k])
    BY <1>3
  <2>4. \A k \in 1..Len(w) : b[k] = Item(w[k])
    BY <1>3
  <2> HIDE DEF a, b, c
  <2>5. ASSUME NEW k \in 1..Len(s) + Len(w) PROVE d[k] = c[k]
    <3>1. CASE k <= Len(s)
      <4>1. k \in 1..Len(s)
        BY <1>1, <3>1
      <4>2. QED
        BY <1>2, <1>5, <2>2, <2>3, <4>1
    <3>2. CASE ~(k <= Len(s))
      <4>1. k - Len(s) \in 1..Len(w) /\ Len(s) + (k - Len(s)) = k
        BY <1>1, <3>2
      <4>2. d[k] = b[k - Len(s)] /\ j[k] = w[k - Len(s)]
        BY <1>2, <2>2, <4>1
      <4>3. QED
        BY <1>5, <2>4, <4>1, <4>2
    <3>3. QED
      BY <3>1, <3>2
  <2>6. d = [k \in 1..Len(s) + Len(w) |-> d[k]] /\ c = [k \in 1..Len(s) + Len(w) |-> c[k]]
    <3>1. DOMAIN d = 1..Len(s) + Len(w)
      BY <2>2
    <3>2. QED
      BY <1>3, <2>2, <3>1 DEF c
  <2>7. d = c
    BY <2>5, <2>6
  <2>8. QED
    BY <2>7 DEF d
<1>7. QED
  BY <1>2, <1>5, <1>6 DEF a, b, c, j

\* What a reply to get carries.
ReplyItems(held, names, extra) == HeldItems(held, InOrder(RequestedRows(names))) \o extra

\* Where the items come from.
FromDevice(items, held, R, extra) ==
  /\ \A p \in R : \E j \in 1..Len(items) : items[j] = HeldItem(held, p)
  /\ \A j \in 1..Len(items) : (\E p \in R : items[j] = HeldItem(held, p)) \/ items[j] \in ToSet(extra)

\* They are items, each from one of the two.
LEMMA ReplyItemsAre ==
  ASSUME NEW held, Sound(held), NEW k \in Knobs, NEW names,
         NEW items, items = ReplyItems(held, names, k.extra)
  PROVE  /\ IsItems(items) /\ Len(items) \in U16 /\ Len(items) \in Nat
         /\ Answers(held, get_data_payload(names)) \o EachTo(Item, k.extra) = EachTo(Item, items)
         /\ FromDevice(items, held, RequestedRows(names), k.extra)
<1> DEFINE R == RequestedRows(names)
           rows == InOrder(R)
           h == HeldItems(held, rows)
           x == k.extra
           m == Len(rows)
<1>0. R \in SUBSET Rows
  BY ByNameIs DEF RequestedRows
<1>1. Surplus(x) /\ Len(PARAMETERS) + Len(x) \in U16 /\ Len(PARAMETERS) \in U16
  BY KnobsAre
<1>2. RowList(rows, R, m) /\ Answers(held, get_data_payload(names)) = EachTo(Item, h)
  BY <1>1, AnswersAre
<1> HIDE DEF rows
<1>3. m \in Nat /\ m <= Cardinality(Rows) /\ DOMAIN rows = 1..m /\ \A j \in 1..m : rows[j] \in R
  <2>1. m \in Nat /\ m <= Cardinality(Rows) /\ DOMAIN rows = 1..m /\ rows \in Seq(R)
    BY <1>2 DEF RowList
  <2>2. \A j \in 1..m : rows[j] \in R
    BY <2>1, ElementOf
  <2>3. QED
    BY <2>1, <2>2
<1>4. h = [j \in 1..m |-> HeldItem(held, rows[j])]
  BY <1>3 DEF HeldItems
<1>5. \A j \in 1..m : /\ h[j] = HeldItem(held, rows[j]) /\ h[j] \in ItemRecord
                      /\ Len(h[j].value) \in U16
  BY <1>0, <1>3, <1>4, HeldItemIs
<1>6. h \in Seq(ItemRecord) /\ Len(h) = m
  <2>1. h \in [1..m -> ItemRecord]
    BY <1>4, <1>5
  <2> HIDE DEF h
  <2>2. QED
    BY <1>3, <2>1
<1> HIDE DEF h
<1>7. x \in Seq(ItemRecord) /\ Len(x) \in Nat /\ \A j \in 1..Len(x) : x[j] \in ToSet(x) /\ Len(x[j].value) \in U16
  <2>1. x \in Seq(ItemRecord) /\ Len(x) \in Nat /\ DOMAIN x = 1..Len(x)
    BY <1>1 DEF Surplus
  <2>2. \A j \in 1..Len(x) : x[j] \in ToSet(x)
    BY <2>1 DEF ToSet
  <2>3. QED
    BY <1>1, <2>1, <2>2 DEF Surplus
<1>8. items = h \o x
  BY DEF ReplyItems, h, rows
<1> HIDE DEF x
<1>9. /\ items \in Seq(ItemRecord) /\ Len(items) = m + Len(x)
      /\ \A j \in 1..m : items[j] = h[j]
      /\ \A j \in 1..Len(x) : items[m + j] = x[j]
  <2>1. IsConcat(ItemRecord, h \o x, h, x)
    BY <1>6, <1>7, Concatenation, Zenon
  <2>2. IsConcat(ItemRecord, items, h, x)
    BY <1>8, <2>1, Zenon
  <2>3. QED
    BY <1>6, <2>2 DEF IsConcat
<1>10. ASSUME NEW j \in 1..Len(items)
       PROVE  \/ j \in 1..m
              \/ \E l \in 1..Len(x) : items[j] = x[l]
  <2>1. CASE j <= m
    BY <1>3, <2>1
  <2>2. CASE ~(j <= m)
    <3>1. j - m \in 1..Len(x) /\ m + (j - m) = j
      BY <1>3, <1>7, <1>9, <2>2
    <3>2. items[j] = x[j - m]
      BY <1>9, <3>1
    <3>3. QED
      BY <3>1, <3>2
  <2>3. QED
    BY <2>1, <2>2
<1>11. \A j \in 1..Len(items) : Len(items[j].value) \in U16
  BY <1>5, <1>7, <1>9, <1>10
<1>12. Len(items) \in U16 /\ Len(items) \in Nat
  <2>1. PICK a, b, c : a = Cardinality(Rows) /\ b = Len(x) /\ c = Len(PARAMETERS)
    OBVIOUS
  <2>2. a \in Nat /\ b \in Nat /\ c \in Nat /\ a <= c
    BY <1>7, <2>1, RowsAre
  <2>3. c + b <= U16_MAX /\ m <= a /\ U16_MAX \in Nat
    BY <1>1, <1>3, <2>1, U16Def, U16MaxIs DEF x
  <2>4. m + b \in Int /\ 0 <= m + b /\ m + b <= U16_MAX
    BY <1>3, <2>2, <2>3
  <2>5. m + b \in U16 /\ m + b \in Nat
    BY <2>4, U16Def
  <2>6. QED
    BY <1>9, <2>1, <2>5
<1>13. IsItems(items)
  BY <1>9, <1>11 DEF IsItems
<1>14. EachTo(Item, h) \o EachTo(Item, x) = EachTo(Item, items)
  BY <1>6, <1>7, <1>8, ItemsJoin
<1>15. ASSUME NEW p \in R PROVE \E j \in 1..Len(items) : items[j] = HeldItem(held, p)
  <2>1. PICK j \in 1..m : rows[j] = p
    BY <1>2 DEF RowList
  <2>2. items[j] = HeldItem(held, p)
    BY <1>5, <1>9, <2>1
  <2>3. j \in 1..Len(items)
    BY <1>3, <1>7, <1>9
  <2>4. QED
    BY <2>2, <2>3
<1>16. ASSUME NEW j \in 1..Len(items)
       PROVE  (\E p \in R : items[j] = HeldItem(held, p)) \/ items[j] \in ToSet(x)
  BY <1>3, <1>5, <1>7, <1>9, <1>10
<1>17. FromDevice(items, held, R, x)
  BY <1>15, <1>16 DEF FromDevice
<1>18. QED
  BY <1>2, <1>12, <1>13, <1>14, <1>17 DEF x

\* The map a client makes of them is true of the device.
LEMMA ConfigIsTrue ==
  ASSUME NEW held, Sound(held), NEW k \in Knobs, NEW names,
         NEW items, items = ReplyItems(held, names, k.extra)
  PROVE  TrueConfig(MapOf(EachTo(Entry, items)), held, RequestedRows(names), k.extra)
<1> DEFINE R == RequestedRows(names)
           e == EachTo(Entry, items)
           config == MapOf(e)
           n == Len(items)
<1>1. /\ IsItems(items) /\ n \in Nat
      /\ \A p \in R : \E j \in 1..n : items[j] = HeldItem(held, p)
      /\ \A j \in 1..n : (\E p \in R : items[j] = HeldItem(held, p)) \/ items[j] \in ToSet(k.extra)
  <2>1. IsItems(items) /\ n \in Nat /\ FromDevice(items, held, R, k.extra)
    BY ReplyItemsAre
  <2>2. QED
    BY <2>1 DEF FromDevice
<1>2. R \subseteq Rows
  BY ByNameIs DEF RequestedRows
<1>3. DOMAIN items = 1..n
  BY <1>1 DEF IsItems
<1>4. DOMAIN e = 1..n /\ \A j \in 1..n : e[j] = Entry(items[j])
  BY <1>3 DEF EachTo
<1>5. Surplus(k.extra)
  BY KnobsAre
<1> HIDE DEF e, R, n
<1>6. /\ DOMAIN config = {e[j].key : j \in 1..n}
      /\ \A key \in DOMAIN config : \E j \in 1..n : e[j].key = key /\ config[key] = e[j].value
  <2>1. Maps(config, n, e)
    BY <1>1, <1>4, MapOfIs
  <2> HIDE DEF config
  <2>2. QED
    BY <2>1 DEF Maps
<1> HIDE DEF config
<1>7. ASSUME NEW p \in R PROVE p.name \in DOMAIN config
  <2>1. PICK j \in 1..n : items[j] = HeldItem(held, p)
    BY <1>1
  <2>2. e[j] = [key |-> p.name, value |-> held[p.name]]
    BY <1>2, <1>4, <2>1, EntryOfRow
  <2>3. QED
    BY <1>6, <2>2
<1>8. ASSUME NEW key \in DOMAIN config
      PROVE  \/ \E p \in R : key = p.name /\ config[key] = held[p.name]
             \/ \E i \in ToSet(k.extra) : key = SyntheticName(i.offset) /\ config[key] = hex_encode(i.value)
  <2>1. PICK j \in 1..n : e[j].key = key /\ config[key] = e[j].value
    BY <1>6
  <2>2. CASE \E p \in R : items[j] = HeldItem(held, p)
    <3>1. PICK p \in R : items[j] = HeldItem(held, p)
      BY <2>2
    <3>2. e[j] = [key |-> p.name, value |-> held[p.name]]
      BY <1>2, <1>4, <3>1, EntryOfRow
    <3>3. QED
      BY <2>1, <3>2
  <2>3. CASE items[j] \in ToSet(k.extra)
    <3>1. PICK i \in ToSet(k.extra) : items[j] = i
      BY <2>3
    <3>2. by_offset(i.offset) = {}
      BY <1>5 DEF Surplus
    <3>3. e[j] = [key |-> SyntheticName(i.offset), value |-> hex_encode(i.value)]
      BY <1>4, <3>1, <3>2, EntryOfExtra
    <3>4. QED
      BY <2>1, <3>3
  <2>4. QED
    BY <1>1, <2>2, <2>3
<1>9. TrueConfig(config, held, R, k.extra)
  BY <1>7, <1>8 DEF TrueConfig
<1>10. QED
  BY <1>9 DEF config, e, R

\* The size of an interval.
LEMMA CountTo ==
  ASSUME NEW n \in Nat
  PROVE  Cardinality(1..n) = n
<1>1. 1 \in Int /\ n \in Int
  OBVIOUS
<1>2. Cardinality(1..n) = IF 1 > n THEN 0 ELSE n - 1 + 1
  BY <1>1, FS_Interval
<1>3. QED
  BY <1>2

\* The count in a reply is that of its items.
LEMMA ReplyCount ==
  ASSUME NEW items, IsItems(items), NEW n, n = Len(items), NEW answers, answers = EachTo(Item, items)
  PROVE  Cardinality({k \in DOMAIN answers : answers[k] # <<>>}) = n
<1>1. answers \in Seq(Bytes) /\ Len(answers) = n /\ Chunked(answers, items)
  BY ItemsChunked
<1>2. n \in Nat /\ DOMAIN answers = 1..n
  BY <1>1
<1>3. ASSUME NEW k \in 1..n PROVE answers[k] # <<>>
  <2>1. PICK c : c = answers[k]
    OBVIOUS
  <2>2. IsChunk(c, items[k])
    BY <1>1, <2>1 DEF Chunked
  <2>3. Len(c) = 4 + Len(items[k].value) /\ Len(items[k].value) \in U16
    BY <2>2 DEF IsChunk, IsItems
  <2>4. Len(items[k].value) \in Int /\ 0 <= Len(items[k].value)
    BY <2>3, U16Def
  <2>5. Len(c) # 0
    BY <2>3, <2>4
  <2>6. Len(<<>>) = 0
    OBVIOUS
  <2>7. QED
    BY <2>1, <2>5, <2>6
<1>4. {k \in DOMAIN answers : answers[k] # <<>>} = 1..n
  BY <1>2, <1>3
<1>5. Cardinality(1..n) = n
  BY <1>2, CountTo
<1>6. QED
  BY <1>4, <1>5

\* What a client gets of a reply.
Partial(r, reply) == r.method = reply.method /\ Prefix(r.payload, reply.payload)

\* A client gets a reply or a part of it from the start.
LEMMA ReceivedIs ==
  ASSUME NEW method, NEW payload, NEW r \in Received(method, payload),
         Answer(method, payload).payload \in Bytes
  PROVE  ~Silent(method) /\ Partial(r, Answer(method, payload))
<1> DEFINE reply == Answer(method, payload)
<1>1. ~Silent(method)
  BY DEF Received
<1>2. r = reply \/ \E n \in Cuts \cap 0..Len(reply.payload) : r = [reply EXCEPT !.payload = SubSeq(@, 1, n)]
  BY <1>1 DEF Received
<1>3. \E m, p : reply = [method |-> m, payload |-> p]
  BY DEF Answer
<1>4. PICK full : full = reply.payload
  OBVIOUS
<1>5. full \in Bytes /\ Len(full) \in Nat
  BY <1>4 DEF Bytes
<1> HIDE DEF reply
<1>6. ASSUME r = reply PROVE Partial(r, reply)
  <2>1. 0 \in 0..Len(full)
    BY <1>5
  <2>2. Prefix(full, full)
    BY <1>5, <2>1, CutIsPrefix
  <2>3. QED
    BY <1>4, <1>6, <2>2 DEF Partial
<1>7. ASSUME \E n \in Cuts \cap 0..Len(reply.payload) : r = [reply EXCEPT !.payload = SubSeq(@, 1, n)]
      PROVE  Partial(r, reply)
  <2>1. PICK n \in 0..Len(full) : r = [reply EXCEPT !.payload = SubSeq(@, 1, n)]
    BY <1>4, <1>7
  <2>2. r.method = reply.method /\ r.payload = SubSeq(full, 1, n)
    BY <1>3, <1>4, <2>1
  <2>3. Prefix(SubSeq(full, 1, n), full)
    BY <1>5, CutIsPrefix
  <2>4. QED
    BY <1>4, <2>2, <2>3 DEF Partial
<1>8. QED
  BY <1>1, <1>2, <1>6, <1>7 DEF reply

ResultStatuses ==
  {"ok", "Cancelled", "PayloadTooShort", "TruncatedHeader", "ItemExceedsPayload", "DeviceNoMessage",
   "UnexpectedMethod"}

\* What comes of a get.
GetIs(result, held, names, extra) ==
  /\ result.status \in ResultStatuses
  /\ result.status # "ok" => result.config = <<>>
  /\ result.status = "ok" => TrueConfig(result.config, held, RequestedRows(names), extra)

\* An explanation is bytes.
LEMMA ErrorReply ==
  \A message \in Bytes : error_response(message) \in Bytes
<1>1. ASSUME NEW message \in Bytes PROVE error_response(message) \in Bytes
  <2>1. CASE message = <<>>
    BY <2>1 DEF error_response
  <2>2. CASE message # <<>>
    <3>1. PICK f, n : f = Fit(message) /\ n = Min({Len(message), 255})
      OBVIOUS
    <3>2. Len(message) \in Nat
      BY DEF Bytes
    <3>3. n \in {Len(message), 255} /\ \A x \in {Len(message), 255} : n <= x
      BY <3>1, <3>2, MinIs
    <3>4. n \in Nat /\ n <= Len(message) /\ n <= 255
      BY <3>2, <3>3
    <3>5. f \in Bytes /\ Len(f) = n
      <4>1. f = SubSeq(message, 1, n)
        BY <3>1 DEF Fit
      <4>2. SubSeq(message, 1, n) \in Seq(Byte) /\ Len(SubSeq(message, 1, n)) = n
        BY <3>2, <3>4 DEF Bytes
      <4>3. QED
        BY <4>1, <4>2 DEF Bytes
    <3>6. <<3, n>> \in Seq(Byte)
      <4>1. n \in Byte /\ 3 \in Byte
        BY <3>4, ByteDef
      <4>2. QED
        BY <4>1
    <3>7. error_response(message) = <<3, n>> \o f
      BY <2>2, <3>1, <3>5, Zenon DEF error_response, encode_into
    <3>8. QED
      BY <3>5, <3>6, <3>7, ConcatIs DEF Bytes
  <2>3. QED
    BY <2>1, <2>2
<1>2. QED
  BY <1>1

\* Whatever a get is answered with, it fails or is true of the device.
LEMMA GetComesOf ==
  ASSUME knobs \in Knobs, Sound(working), NEW names, NEW result \in GetResults(names)
  PROVE  GetIs(result, working, names, knobs.extra)
<1>1. CASE Silent("GET_DATA")
  <2>1. result = [status |-> "Cancelled", config |-> <<>>]
    BY <1>1 DEF GetResults
  <2>2. QED
    BY <2>1 DEF GetIs, ResultStatuses
<1>2. CASE ~Silent("GET_DATA")
  <2> DEFINE request == get_data_payload(names)
             reply == Answer("GET_DATA", request)
             items == ReplyItems(working, names, knobs.extra)
             answers == Answers(working, request) \o EachTo(Item, knobs.extra)
             m == Len(items)
  <2>1. PICK r \in Received("GET_DATA", request) : result = GetResult(r)
    BY <1>2 DEF GetResults
  <2>2. CASE fails_on(OpOf("GET_DATA"))
    <3>1. reply.method = "ERROR" /\ reply.payload = error_response(knobs.fail_message)
      BY <2>2 DEF Answer
    <3>2. knobs.fail_message \in Bytes
      BY DeviceAssumption DEF IsKnobs
    <3>3. reply.payload \in Bytes
      BY <3>1, <3>2, ErrorReply
    <3> HIDE DEF reply
    <3>4. Partial(r, reply)
      BY <3>3, ReceivedIs DEF reply
    <3>5. r.method = "ERROR"
      BY <3>1, <3>4 DEF Partial
    <3>6. result = [status |-> "DeviceNoMessage", config |-> <<>>]
      BY <2>1, <3>5 DEF GetResult
    <3>7. QED
      BY <3>6 DEF GetIs, ResultStatuses
  <2>3. CASE ~fails_on(OpOf("GET_DATA"))
    <3> DEFINE full == get_data_response(knobs.malformed, answers)
    <3>1. /\ reply.method = (IF knobs.malformed = "UnknownMethod" THEN "UNRECOGNISED" ELSE "GET_DATA")
          /\ reply.payload = full
      BY <2>3 DEF Answer
    <3>2. /\ IsItems(items) /\ m \in U16 /\ m \in Nat /\ answers = EachTo(Item, items)
      BY ReplyItemsAre
    <3>3. \/ knobs.malformed = "OversizedCount"
          \/ knobs.malformed = "LengthExceedsPayload"
          \/ knobs.malformed \notin {"OversizedCount", "LengthExceedsPayload"}
      OBVIOUS
    <3>4. CASE knobs.malformed = "OversizedCount"
      <4>1. full = be16(U16_MAX)
        BY <3>4 DEF get_data_response
      <4>2. U16_MAX \in U16
        BY U16Def, U16MaxIs
      <4>3. full \in Bytes
        BY <4>1, <4>2, Be16Is
      <4>4. Partial(r, reply)
        BY <3>1, <4>3, ReceivedIs
      <4> HIDE DEF full, reply
      <4>5. r.method = "GET_DATA" /\ Prefix(r.payload, be16(U16_MAX))
        BY <3>1, <3>4, <4>1, <4>4 DEF Partial
      <4>6. Unreadable(r.payload)
        BY <4>5, OversizedCount
      <4>7. result = parse_response(r.payload)
        BY <2>1, <4>5 DEF GetResult
      <4>8. QED
        BY <4>6, <4>7 DEF Unreadable, GetIs, ResultStatuses
    <3>5. CASE knobs.malformed = "LengthExceedsPayload"
      <4>1. full = be16(1) \o be16(0) \o be16(1000)
        BY <3>5 DEF get_data_response
      <4>2. full \in Bytes
        <5>1. be16(1) \in Seq(Byte) /\ be16(0) \in Seq(Byte) /\ be16(1000) \in Seq(Byte)
          <6>1. 1 \in U16 /\ 0 \in U16 /\ 1000 \in U16
            BY U16Def, U16MaxIs
          <6>2. QED
            BY <6>1, Be16Is DEF Bytes
        <5>2. be16(1) \o be16(0) \in Seq(Byte)
          BY <5>1, ConcatIs
        <5>3. (be16(1) \o be16(0)) \o be16(1000) \in Seq(Byte)
          BY <5>1, <5>2, ConcatIs
        <5>4. QED
          BY <4>1, <5>3 DEF Bytes
      <4>3. Partial(r, reply)
        BY <3>1, <4>2, ReceivedIs
      <4> HIDE DEF full, reply
      <4>4. r.method = "GET_DATA" /\ Prefix(r.payload, be16(1) \o be16(0) \o be16(1000))
        BY <3>1, <3>5, <4>1, <4>3 DEF Partial
      <4>5. Unreadable(r.payload)
        BY <4>4, LengthExceedsPayload
      <4>6. result = parse_response(r.payload)
        BY <2>1, <4>4 DEF GetResult
      <4>7. QED
        BY <4>5, <4>6 DEF Unreadable, GetIs, ResultStatuses
    <3>6. CASE knobs.malformed \notin {"OversizedCount", "LengthExceedsPayload"}
      <4>1. full = be16(m) \o FlattenSeq(EachTo(Item, items))
        <5>1. Cardinality({k \in DOMAIN answers : answers[k] # <<>>}) = m
          <6> HIDE DEF answers, items
          <6>1. QED
            BY <3>2, ReplyCount DEF m
        <5> HIDE DEF answers, items, m
        <5>2. full = be16(Cardinality({k \in DOMAIN answers : answers[k] # <<>>})) \o FlattenSeq(answers)
          BY <3>6 DEF get_data_response
        <5>3. QED
          BY <3>2, <5>1, <5>2
      <4> HIDE DEF full, items
      <4>2. full \in Bytes
        <5>1. EachTo(Item, items) \in Seq(Bytes)
          BY <3>2, ItemsChunked
        <5>2. FlattenSeq(EachTo(Item, items)) \in Seq(Byte)
          BY <5>1, EndsExist, FlattenIs DEF Bytes
        <5>3. be16(m) \in Seq(Byte)
          BY <3>2, Be16Is DEF Bytes
        <5>4. QED
          BY <4>1, <5>2, <5>3, ConcatIs DEF Bytes
      <4>3. Partial(r, reply)
        BY <3>1, <4>2, ReceivedIs
      <4> HIDE DEF reply
      <4>4. Prefix(r.payload, full) /\ r.method \in {"GET_DATA", "UNRECOGNISED"}
        BY <3>1, <4>3 DEF Partial
      <4>5. CASE r.method = "GET_DATA"
        <5>1. result = parse_response(r.payload)
          BY <2>1, <4>5 DEF GetResult
        <5>2. PICK data : data = r.payload
          OBVIOUS
        <5>3. /\ parse_response(data).status \in
                   {"ok", "PayloadTooShort", "TruncatedHeader", "ItemExceedsPayload"}
              /\ parse_response(data).status # "ok" => parse_response(data).config = <<>>
              /\ parse_response(data).status = "ok" =>
                   Len(data) = Len(full) /\ parse_response(data).config = MapOf(EachTo(Entry, items))
          BY <3>2, <4>1, <4>4, <5>2, ReplyRead
        <5>4. TrueConfig(MapOf(EachTo(Entry, items)), working, RequestedRows(names), knobs.extra)
          BY ConfigIsTrue DEF items
        <5>5. QED
          BY <5>1, <5>2, <5>3, <5>4 DEF GetIs, ResultStatuses
      <4>6. CASE r.method = "UNRECOGNISED"
        <5>1. result = [status |-> "UnexpectedMethod", config |-> <<>>]
          BY <2>1, <4>6 DEF GetResult
        <5>2. QED
          BY <5>1 DEF GetIs, ResultStatuses
      <4>7. QED
        BY <4>4, <4>5, <4>6
    <3>7. QED
      BY <3>3, <3>4, <3>5, <3>6
  <2>4. QED
    BY <2>2, <2>3
<1>3. QED
  BY <1>1, <1>2

-----------------------------------------------------------------------------
(* What set sends, and what the device makes of it.                        *)

\* What set sends of a record.
Sendable(conf) ==
  /\ \A n \in DOMAIN conf : conf[n] \in Bytes
  /\ DOMAIN conf \cap DOMAIN ALIASES = {}
  /\ Encodes(conf)

RowsIn(conf) == {p \in Rows : p.name \in DOMAIN conf}

SetItem(conf, p) == [offset |-> p.offset, length |-> p.length, value |-> conf[p.name]]

SetItems(conf) ==
  UNION {{[offset |-> p.offset, length |-> p.length, value |-> conf[n]] : p \in by_name(n)} : n \in DOMAIN conf}

\* A row is found under its own name.
LEMMA OwnName ==
  /\ \A p \in Rows : by_name(p.name) = {p}
  /\ \A n : n \notin DOMAIN ALIASES => \A p \in by_name(n) : p.name = n
<1>1. ASSUME NEW p \in Rows PROVE by_name(p.name) = {p}
  <2>1. \A q \in Rows : q.name = p.name => q = p
    BY RowsAre
  <2>2. {q \in Rows : q.name = p.name} = {p}
    BY <2>1
  <2>3. QED
    BY <2>2 DEF by_name
<1>2. ASSUME NEW n, n \notin DOMAIN ALIASES, NEW p \in by_name(n) PROVE p.name = n
  BY <1>2 DEF by_name
<1>3. QED
  BY <1>1, <1>2

\* set sends an item for each row the record names.
LEMMA SetItemsAre ==
  ASSUME NEW conf, Sendable(conf)
  PROVE  /\ \A x \in SetItems(conf) : \E p \in RowsIn(conf) : x = SetItem(conf, p)
         /\ \A p \in RowsIn(conf) : SetItem(conf, p) \in SetItems(conf)
<1>1. ASSUME NEW x \in SetItems(conf) PROVE \E p \in RowsIn(conf) : x = SetItem(conf, p)
  <2>1. PICK n \in DOMAIN conf : \E p \in by_name(n) :
               x = [offset |-> p.offset, length |-> p.length, value |-> conf[n]]
    BY DEF SetItems
  <2>2. PICK p \in by_name(n) : x = [offset |-> p.offset, length |-> p.length, value |-> conf[n]]
    BY <2>1
  <2>3. n \notin DOMAIN ALIASES
    BY DEF Sendable
  <2>4. p.name = n /\ p \in Rows
    BY <2>3, ByNameIs, OwnName
  <2>5. p \in RowsIn(conf) /\ x = SetItem(conf, p)
    BY <2>2, <2>4 DEF RowsIn, SetItem
  <2>6. QED
    BY <2>5
<1>2. ASSUME NEW p \in RowsIn(conf) PROVE SetItem(conf, p) \in SetItems(conf)
  <2>1. p \in Rows /\ p.name \in DOMAIN conf
    BY DEF RowsIn
  <2>2. p \in by_name(p.name)
    BY <2>1, OwnName
  <2>3. QED
    BY <2>1, <2>2 DEF SetItems, SetItem
<1>3. QED
  BY <1>1, <1>2

SetList(s, conf, m) ==
  /\ m \in Nat /\ m <= Cardinality(Rows) /\ Len(s) = m /\ DOMAIN s = 1..m
  /\ \A k \in 1..m : \E p \in RowsIn(conf) : s[k] = SetItem(conf, p)
  /\ \A p \in RowsIn(conf) : \E k \in 1..m : s[k] = SetItem(conf, p)

\* In a list of its own order.
LEMMA SetListIs ==
  ASSUME NEW conf, Sendable(conf), NEW s, s = InOrder(SetItems(conf))
  PROVE  SetList(s, conf, Len(s))
<1> DEFINE W == RowsIn(conf)
           S == SetItems(conf)
           f == [p \in W |-> SetItem(conf, p)]
<1>1. W \in SUBSET Rows
  BY DEF RowsIn
<1>2. IsFiniteSet(W) /\ Cardinality(W) \in Nat /\ Cardinality(W) <= Cardinality(Rows)
  <2> HIDE DEF W
  <2>1. QED
    BY <1>1, RowsAre, FS_Subset, FS_CardinalityType
<1>3. f \in Surjection(W, S)
  <2>1. (\A x \in S : \E p \in W : x = SetItem(conf, p)) /\ (\A p \in W : SetItem(conf, p) \in S)
    BY SetItemsAre
  <2> HIDE DEF W, S
  <2>2. QED
    BY <2>1 DEF Surjection
<1>4. IsFiniteSet(S) /\ Cardinality(S) \in Nat /\ Cardinality(S) <= Cardinality(W)
  <2> HIDE DEF W, S, f
  <2>1. QED
    BY <1>2, <1>3, FS_Surjection, FS_CardinalityType
<1>5. \A x \in S : \E p \in W : x = SetItem(conf, p)
  BY SetItemsAre
<1>6. \A p \in W : SetItem(conf, p) \in S
  BY SetItemsAre
<1> HIDE DEF S
<1>7. \A x \in S : x.offset \in Int
  <2>1. ASSUME NEW x \in S PROVE x.offset \in Int
    <3>1. PICK p \in W : x = SetItem(conf, p)
      BY <1>5
    <3>2. x.offset = p.offset /\ p \in Rows
      BY <1>1, <3>1 DEF SetItem
    <3>3. QED
      BY <3>2, RowsAre, U16Def
  <2>2. QED
    BY <2>1
<1>8. \A x, y \in S : x.offset = y.offset => x = y
  <2>1. ASSUME NEW x \in S, NEW y \in S, x.offset = y.offset PROVE x = y
    <3>1. PICK p \in W : x = SetItem(conf, p)
      BY <1>5
    <3>2. PICK r \in W : y = SetItem(conf, r)
      BY <1>5
    <3>3. x.offset = p.offset /\ y.offset = r.offset /\ p \in Rows /\ r \in Rows
      BY <1>1, <3>1, <3>2 DEF SetItem
    <3>4. p = r
      BY <2>1, <3>3, RowsAre
    <3>5. QED
      BY <3>1, <3>2, <3>4
  <2>2. QED
    BY <2>1
<1>9. Lists(s, S)
  BY <1>4, <1>7, <1>8, InOrderIs DEF S
<1>10. s \in Seq(S) /\ Len(s) = Cardinality(S) /\ \A x \in S : \E k \in 1..Len(s) : s[k] = x
  BY <1>9 DEF Lists
<1>11. DOMAIN s = 1..Len(s) /\ \A k \in 1..Len(s) : s[k] \in S
  BY <1>10
<1>12. Len(s) \in Nat /\ Len(s) <= Cardinality(Rows)
  <2>1. PICK a, b, c : a = Cardinality(S) /\ b = Cardinality(W) /\ c = Cardinality(Rows)
    OBVIOUS
  <2>2. a \in Nat /\ b \in Nat /\ c \in Nat /\ a <= b /\ b <= c
    BY <1>2, <1>4, <2>1, RowsAre
  <2>3. a <= c
    BY <2>2
  <2>4. QED
    BY <1>10, <2>1, <2>2, <2>3
<1>13. QED
  BY <1>5, <1>6, <1>10, <1>11, <1>12 DEF SetList

\* What arrives of it.
SentItem(i) == [offset |-> i.offset, value |-> encode(i.length, i.value)]

\* And the device reads that item.
LEMMA SetItemIs ==
  ASSUME NEW conf, Sendable(conf), NEW p \in RowsIn(conf), NEW i, i = SetItem(conf, p)
  PROVE  /\ SentItem(i) \in ItemRecord /\ Len(SentItem(i).value) \in U16
         /\ IsChunk(Header(i) \o encode(i.length, i.value), SentItem(i))
<1>1. p \in Rows /\ p.name \in DOMAIN conf
  BY DEF RowsIn
<1>2. PICK v, e : v = conf[p.name] /\ e = encode(p.length, v)
  OBVIOUS
<1>3. v \in Bytes
  BY <1>1, <1>2 DEF Sendable
<1>4. e # <<>>
  <2>1. Encodes(conf) /\ p \in by_name(p.name)
    BY <1>1, OwnName DEF Sendable
  <2>2. QED
    BY <1>1, <1>2, <2>1 DEF Encodes
<1>5. p.offset \in U16 /\ p.length \in U16 /\ p.length \in Width
  BY <1>1, RowsAre
<1>6. e \in Bytes /\ Len(e) = p.length
  BY <1>2, <1>3, <1>4, <1>5, EncodeIs
<1>7. i.offset = p.offset /\ i.length = p.length /\ i.value = v
  BY <1>2 DEF SetItem
<1>8. PICK x : x = SentItem(i)
  OBVIOUS
<1>9. x = [offset |-> p.offset, value |-> e]
  BY <1>2, <1>7, <1>8 DEF SentItem
<1>10. x \in ItemRecord /\ Len(x.value) \in U16 /\ IsItem(x)
  BY <1>5, <1>6, <1>9 DEF ItemRecord, IsItem
<1>11. PICK h : h = be16(x.offset) \o be16(Len(x.value))
  OBVIOUS
<1>12. IsChunk(h \o x.value, x)
  BY <1>10, <1>11, ChunkIs
<1>13. Header(i) = h /\ encode(i.length, i.value) = x.value
  BY <1>2, <1>6, <1>7, <1>9, <1>11 DEF Header
<1>14. QED
  BY <1>8, <1>10, <1>12, <1>13

SentItems(s) == [k \in DOMAIN s |-> SentItem(s[k])]

\* The device reads what was sent.
LEMMA SentIsRead ==
  ASSUME NEW conf, Sendable(conf), Len(PARAMETERS) \in U16,
         NEW s, s = InOrder(SetItems(conf))
  PROVE  parse_set_data_request(set_data_payload(conf)) = SentItems(s)
<1> DEFINE m == Len(s)
           items == SentItems(s)
           Written(i) == Header(i) \o encode(i.length, i.value)
           chunks == [k \in 1..m |-> Written(s[k])]
           payload == Credentials \o be16(m) \o FlattenSeq(chunks)
<1>1. SetList(s, conf, m)
  BY SetListIs
<1>2. m \in Nat /\ DOMAIN s = 1..m /\ \A k \in 1..m : \E p \in RowsIn(conf) : s[k] = SetItem(conf, p)
  BY <1>1 DEF SetList
<1>3. m \in U16
  <2>1. PICK a, b : a = Cardinality(Rows) /\ b = Len(PARAMETERS)
    OBVIOUS
  <2>2. a \in Nat /\ b \in Nat /\ a <= b /\ m <= a
    BY <1>1, <2>1, RowsAre DEF SetList
  <2>3. b <= U16_MAX /\ U16_MAX \in Nat
    BY <2>1, U16Def, U16MaxIs
  <2>4. m \in Int /\ 0 <= m /\ m <= U16_MAX
    BY <1>2, <2>2, <2>3
  <2>5. QED
    BY <2>4, U16Def
<1>4. set_data_payload(conf) = payload
  <2>1. set_data_payload(conf) = Credentials \o be16(Len(s)) \o FlattenSeq(EachTo(Written, s))
    BY DEF set_data_payload, SetItems
  <2>2. EachTo(Written, s) = chunks
    BY <1>2 DEF EachTo
  <2>3. QED
    BY <2>1, <2>2
<1>5. items = [k \in 1..m |-> SentItem(s[k])]
  BY <1>2 DEF SentItems
<1>6. ASSUME NEW k \in 1..m
      PROVE  SentItem(s[k]) \in ItemRecord /\ Len(SentItem(s[k]).value) \in U16
             /\ IsChunk(Written(s[k]), SentItem(s[k])) /\ Written(s[k]) \in Bytes
  <2>1. PICK p \in RowsIn(conf) : s[k] = SetItem(conf, p)
    BY <1>2
  <2>2. PICK i : i = s[k]
    OBVIOUS
  <2>3. SentItem(i) \in ItemRecord /\ Len(SentItem(i).value) \in U16
        /\ IsChunk(Header(i) \o encode(i.length, i.value), SentItem(i))
    BY <2>1, <2>2, SetItemIs
  <2>4. IsChunk(Written(i), SentItem(i)) /\ Written(i) \in Bytes
    BY <2>3 DEF IsChunk
  <2> HIDE DEF Written
  <2>5. QED
    BY <2>2, <2>3, <2>4
<1> HIDE DEF Written
<1>7. chunks \in Seq(Bytes) /\ Len(chunks) = m /\ \A k \in 1..m : chunks[k] = Written(s[k])
  <2>1. chunks \in [1..m -> Bytes] /\ \A k \in 1..m : chunks[k] = Written(s[k])
    BY <1>6
  <2> HIDE DEF chunks, m
  <2>2. QED
    BY <1>2, <2>1
<1>8. items \in Seq(ItemRecord) /\ Len(items) = m /\ \A k \in 1..m : items[k] = SentItem(s[k])
  <2>1. items \in [1..m -> ItemRecord] /\ \A k \in 1..m : items[k] = SentItem(s[k])
    BY <1>5, <1>6
  <2> HIDE DEF items, m
  <2>2. QED
    BY <1>2, <2>1
<1> HIDE DEF chunks, items
<1>9. Chunked(chunks, items)
  BY <1>6, <1>7, <1>8 DEF Chunked, ItemRecord
<1>10. PICK full : full = payload
  OBVIOUS
<1>11. (\E p : Layout(full, 34, chunks, p)) /\ u16_at(full, 33) = m
  <2>1. PICK q : q = Len(Credentials)
    OBVIOUS
  <2>2. Credentials \in Bytes
    BY CredentialsAre
  <2>3. Headed(full, q, m, chunks)
    BY <1>3, <1>7, <1>10, <2>1, <2>2, HeadIs
  <2>4. q + 2 = 34 /\ q + 1 = 33
    BY <2>1, CredentialsAre
  <2>5. QED
    BY <2>3, <2>4 DEF Headed
<1> HIDE DEF payload
<1>12. PICK p : Layout(full, 34, chunks, p)
  BY <1>11
<1>13. full \in Bytes /\ Len(full) \in Nat /\ 34 <= Len(full)
  <2>1. full \in Bytes /\ Len(full) = 34 + p[m] /\ p \in [0..m -> Nat]
    BY <1>7, <1>12 DEF Layout, IsEnds
  <2>2. m \in 0..m
    BY <1>2
  <2>3. p[m] \in Nat
    BY <2>1, <2>2
  <2>4. QED
    BY <2>1, <2>3
<1>14. Prefix(full, full)
  BY <1>13 DEF Prefix
<1>15. PICK w : ReadUpTo(full, full, Items(full, 35, m).items, items, w)
  <2>1. 35 = 34 + 1
    OBVIOUS
  <2>2. QED
    BY <1>8, <1>9, <1>12, <1>13, <1>14, <2>1, ItemsAre
<1>16. Items(full, 35, m).items = items
  <2>1. Items(full, 35, m).items = [k \in 1..Len(items) |-> items[k]]
    BY <1>8, <1>15 DEF ReadUpTo
  <2>2. QED
    BY <1>8, <2>1, AllRead
<1>17. parse_set_data_request(full) = items
  <2>1. CREDENTIAL_FIELDS + 2 = 34 /\ FirstItem = 35 /\ Count(full) = m
    BY <1>11 DEF CREDENTIAL_FIELDS, FirstItem, Count
  <2>2. ~(Len(full) < CREDENTIAL_FIELDS + 2)
    BY <1>13, <2>1
  <2>3. QED
    BY <1>16, <2>1, <2>2, Zenon DEF parse_set_data_request
<1>18. QED
  BY <1>4, <1>10, <1>17 DEF items

\* And writes, for each parameter, what its value encodes.
StoredAs(p, value) == format_value(encode(p.length, value))

UpdatesOf(updates, conf) ==
  /\ DOMAIN updates = {p.name : p \in RowsIn(conf)}
  /\ \A p \in RowsIn(conf) : updates[p.name] = StoredAs(p, conf[p.name])

\* What the device takes from a request of set.
LEMMA UpdatesAre ==
  ASSUME NEW conf, Sendable(conf), Len(PARAMETERS) \in U16
  PROVE  UpdatesOf(Updates(set_data_payload(conf)), conf)
<1> DEFINE s == InOrder(SetItems(conf))
           m == Len(s)
           items == SentItems(s)
           payload == set_data_payload(conf)
           W == RowsIn(conf)
<1>1. parse_set_data_request(payload) = items
  BY SentIsRead
<1>2. SetList(s, conf, m)
  BY SetListIs
<1> HIDE DEF s
<1>3. /\ m \in Nat /\ DOMAIN s = 1..m
      /\ \A k \in 1..m : \E p \in W : s[k] = SetItem(conf, p)
      /\ \A p \in W : \E k \in 1..m : s[k] = SetItem(conf, p)
  BY <1>2 DEF SetList
<1>4. DOMAIN items = 1..m /\ \A k \in 1..m : items[k] = SentItem(s[k])
  BY <1>3 DEF SentItems
<1>5. ASSUME NEW k \in 1..m, NEW p \in W, s[k] = SetItem(conf, p)
      PROVE  items[k].offset = p.offset /\ items[k].value = encode(p.length, conf[p.name])
  BY <1>4, <1>5 DEF SentItem, SetItem
<1> HIDE DEF items, payload
<1>6. W \subseteq Rows
  BY DEF RowsIn
<1> DEFINE At(p) == {k \in DOMAIN items : items[k].offset = p.offset}
           named == {p \in Rows : \E k \in DOMAIN items : items[k].offset = p.offset}
<1>7. ASSUME NEW p \in Rows, NEW k \in At(p)
      PROVE  p \in W /\ k \in 1..m /\ items[k].value = encode(p.length, conf[p.name])
  <2>1. k \in 1..m /\ items[k].offset = p.offset
    BY <1>4
  <2>2. PICK r \in W : s[k] = SetItem(conf, r)
    BY <1>3, <2>1
  <2>3. items[k].offset = r.offset /\ items[k].value = encode(r.length, conf[r.name])
    BY <1>5, <2>1, <2>2
  <2>4. r = p
    BY <1>6, <2>1, <2>3, RowsAre
  <2>5. QED
    BY <2>1, <2>2, <2>3, <2>4
<1>8. ASSUME NEW p \in W PROVE At(p) \in SUBSET Nat /\ At(p) # {} /\ \A k \in At(p) : k <= m
  <2>1. PICK k \in 1..m : s[k] = SetItem(conf, p)
    BY <1>3
  <2>2. k \in At(p)
    BY <1>4, <1>5, <2>1
  <2>3. At(p) \in SUBSET Nat /\ \A l \in At(p) : l <= m
    BY <1>3, <1>4
  <2>4. QED
    BY <2>2, <2>3
<1>9. named = W
  <2>1. ASSUME NEW p \in named PROVE p \in W
    <3>1. p \in Rows /\ \E k \in DOMAIN items : items[k].offset = p.offset
      OBVIOUS
    <3>2. PICK k : k \in At(p)
      BY <3>1
    <3> HIDE DEF At
    <3>3. QED
      BY <1>7, <3>1, <3>2
  <2>2. ASSUME NEW p \in W PROVE p \in named
    BY <1>6, <1>8
  <2>3. QED
    BY <2>1, <2>2
<1> DEFINE pick(n) == CHOOSE p \in named : p.name = n
<1>10. Updates(payload) = [n \in {p.name : p \in named} |->
                             decode_param_value(items[Max(At(pick(n)))].value)]
  BY <1>1 DEF Updates
<1>11. ASSUME NEW p \in W PROVE pick(p.name) = p
  <2>1. \A r \in named : r.name = p.name => r = p
    BY <1>6, <1>9, RowsAre
  <2>2. p \in named
    BY <1>9
  <2> HIDE DEF named
  <2>3. QED
    BY <2>1, <2>2
<1> HIDE DEF named, pick
<1>12. ASSUME NEW p \in W
       PROVE  decode_param_value(items[Max(At(pick(p.name)))].value) = StoredAs(p, conf[p.name])
  <2>1. At(p) \in SUBSET Nat /\ At(p) # {} /\ \A k \in At(p) : k <= m
    BY <1>8
  <2> HIDE DEF At
  <2>2. Max(At(p)) \in At(p)
    BY <1>3, <2>1, MaxIs
  <2>3. items[Max(At(p))].value = encode(p.length, conf[p.name])
    BY <1>6, <1>7, <2>2
  <2>4. QED
    BY <1>11, <2>3 DEF decode_param_value, StoredAs
<1> HIDE DEF At
<1>13. DOMAIN Updates(payload) = {p.name : p \in W}
  BY <1>9, <1>10
<1>14. ASSUME NEW p \in W PROVE Updates(payload)[p.name] = StoredAs(p, conf[p.name])
  BY <1>9, <1>10, <1>12
<1>15. UpdatesOf(Updates(payload), conf)
  BY <1>13, <1>14 DEF UpdatesOf
<1>16. QED
  BY <1>15 DEF payload

-----------------------------------------------------------------------------
(* Memories and records.                                                   *)

\* What a value that encodes means is what is read back.
LEMMA MeaningIs ==
  ASSUME NEW p \in Rows, NEW value \in Bytes, encode(p.length, value) # <<>>
  PROVE  /\ StoredAs(p, value) = Meaning(p.length, value)
         /\ Stored(p.length, StoredAs(p, value)) /\ StoredAs(p, value) \in Bytes
<1>1. PICK l, e : l = p.length /\ e = encode(l, value)
  OBVIOUS
<1>2. l \in Width /\ e # <<>>
  BY <1>1, RowsAre
<1>3. e \in Bytes /\ Len(e) = l
  BY <1>1, <1>2, EncodeIs
<1>4. Stored(l, format_value(e))
  BY <1>2, <1>3, FormatIs
<1>5. format_value(e) \in Bytes
  BY <1>4 DEF Stored
<1>6. format_value(e) = Meaning(l, value)
  <2>1. CASE l = 1
    <3>1. PICK m \in Byte : encode(1, value) = <<m>> /\ from_str(value, 255) = <<m>>
      BY <1>1, <1>2, <2>1, EncodeByte
    <3>2. format_value(<<m>>) = Decimal(m)
      BY StoredByte
    <3>3. Meaning(l, value) = Decimal(from_str(value, 255)[1])
      BY <2>1 DEF Meaning
    <3>4. from_str(value, 255)[1] = m
      BY <3>1
    <3>5. QED
      BY <1>1, <2>1, <3>1, <3>2, <3>3, <3>4
  <2>2. CASE l = 2
    <3>1. PICK m \in U16 : encode(2, value) = be16(m) /\ from_str(value, U16_MAX) = <<m>>
      BY <1>1, <1>2, <2>2, EncodePair
    <3>2. format_value(be16(m)) = Decimal(m)
      BY StoredPair
    <3>3. Meaning(l, value) = Decimal(from_str(value, U16_MAX)[1])
      BY <2>2 DEF Meaning
    <3>4. from_str(value, U16_MAX)[1] = m
      BY <3>1
    <3>5. QED
      BY <1>1, <2>2, <3>1, <3>2, <3>3, <3>4
  <2>3. CASE l = 4
    <3>1. PICK o \in Octets : encode(4, value) = o /\ Dotted(o) = value
      BY <1>1, <1>2, <2>3, EncodeAddress
    <3>2. format_value(o) = Dotted(o)
      BY StoredAddress
    <3>3. Meaning(l, value) = value
      BY <2>3 DEF Meaning
    <3>4. QED
      BY <1>1, <2>3, <3>1, <3>2, <3>3
  <2>4. CASE l \notin {1, 2, 4}
    <3>1. l \in Nat \ {0, 1, 2, 4}
      BY <1>2, <2>4 DEF Width
    <3>2. format_value(e) = BeforeNul(SubSeq(value, 1, Min({Len(value), l})))
      BY <1>1, <3>1, TextMeans
    <3>3. Meaning(l, value) = BeforeNul(SubSeq(value, 1, Min({Len(value), l})))
      BY <2>4 DEF Meaning
    <3>4. QED
      BY <3>2, <3>3
  <2>5. QED
    BY <2>1, <2>2, <2>3, <2>4
<1>7. StoredAs(p, value) = format_value(e)
  BY <1>1 DEF StoredAs
<1>8. QED
  BY <1>1, <1>4, <1>5, <1>6, <1>7

\* Hexadecimal digits are bytes.
LEMMA HexIs ==
  ASSUME NEW value \in Bytes
  PROVE  hex_encode(value) \in Bytes
<1>1. Len(value) \in Nat /\ 2 * Len(value) \in Nat
  BY DEF Bytes
<1>2. ASSUME NEW i \in 1..2 * Len(value)
      PROVE  HexDigits(IF i % 2 = 1 THEN value[(i + 1) \div 2] \div 16 ELSE value[(i + 1) \div 2] % 16) \in Byte
  <2>1. (i + 1) \div 2 \in 1..Len(value)
    BY <1>1
  <2>2. PICK b : b = value[(i + 1) \div 2]
    OBVIOUS
  <2>3. b \in Byte
    BY <2>1, <2>2, ElementOf DEF Bytes
  <2>4. b \in Int /\ 0 <= b /\ b <= 255
    BY <2>3, ByteDef
  <2>5. \A n \in 0..15 : HexDigits(n) \in Byte
    <3>1. ASSUME NEW n \in 0..15 PROVE HexDigits(n) \in Int /\ 0 <= HexDigits(n) /\ HexDigits(n) <= 255
      BY DEF HexDigits
    <3>2. QED
      BY <3>1, ByteDef
  <2>6. b \div 16 \in 0..15 /\ b % 16 \in 0..15
    BY <2>4
  <2>7. QED
    BY <2>2, <2>5, <2>6
<1>3. hex_encode(value) = [i \in 1..2 * Len(value) |->
        HexDigits(IF i % 2 = 1 THEN value[(i + 1) \div 2] \div 16 ELSE value[(i + 1) \div 2] % 16)]
  BY DEF hex_encode
<1>4. hex_encode(value) \in [1..2 * Len(value) -> Byte]
  BY <1>2, <1>3
<1>5. ASSUME NEW n \in Nat, NEW s \in [1..n -> Byte] PROVE s \in Seq(Byte)
  OBVIOUS
<1>6. QED
  BY <1>1, <1>4, <1>5 DEF Bytes

-----------------------------------------------------------------------------
(* The device and the record of it.                                        *)

Held(held) == held \in [ParameterNames \cup DOMAIN Seed -> Bytes] /\ Sound(held)

\* What the record of a device says of it.
Record(rec, held) ==
  /\ \A n \in DOMAIN rec : rec[n] \in Bytes
  /\ DOMAIN rec \cap DOMAIN ALIASES = {}
  /\ \A p \in Rows : p.name \in DOMAIN rec =>
       encode(p.length, rec[p.name]) # <<>> /\ StoredAs(p, rec[p.name]) = held[p.name]

\* Names a caller has set, and those one answer gives to offsets the table does
\* not know, are all there is.
Given == UNION {DOMAIN config : config \in Configs}

Piled(rec) ==
  \E k \in Knobs : \A n \in DOMAIN rec \ Given :
    Synthetic(n) => \E i \in ToSet(k.extra) : n = SyntheticName(i.offset)

Extends(both, map, other) ==
  /\ DOMAIN both = DOMAIN map \cup DOMAIN other
  /\ \A n \in DOMAIN other : both[n] = other[n]
  /\ \A n \in DOMAIN map \ DOMAIN other : both[n] = map[n]

\* Extend does what Extends says.
LEMMA ExtendIs ==
  ASSUME NEW map, NEW other, NEW both, both = Extend(map, other)
  PROVE  Extends(both, map, other)
BY DEF Extend, Extends

\* An offset the table does not know has a name that is nobody else's.
LEMMA ExtraName ==
  ASSUME NEW k \in Knobs, NEW i \in ToSet(k.extra)
  PROVE  /\ Synthetic(SyntheticName(i.offset))
         /\ SyntheticName(i.offset) \notin ParameterNames \cup DOMAIN ALIASES
         /\ hex_encode(i.value) \in Bytes
<1>1. k.extra \in Seq(ItemRecord)
  BY KnobsAre DEF Surplus
<1>2. i \in ItemRecord
  BY <1>1 DEF ToSet
<1>3. i.offset \in U16 /\ i.value \in Bytes
  BY <1>2 DEF ItemRecord
<1>4. Synthetic(SyntheticName(i.offset))
  BY <1>3, NameAssumption
<1>5. QED
  BY <1>3, <1>4, HexIs, NameAssumption

\* Reading everything gives a record that is true, with the synthetic names of
\* this answer only.
LEMMA LoadedIs ==
  ASSUME knobs \in Knobs, Sound(working), Record(parameters, working), NEW config,
         TrueConfig(config, working, RequestedRows(ParameterNames), knobs.extra),
         NEW rec, rec = Loaded(config)
  PROVE  Record(rec, working) /\ Piled(rec)
<1> DEFINE old == [n \in {n \in DOMAIN parameters : ~Synthetic(n)} |-> parameters[n]]
           R == RequestedRows(ParameterNames)
<1>1. rec = Extend(old, config)
  BY DEF Loaded
<1>2. /\ \A n \in DOMAIN old : n \in DOMAIN parameters /\ ~Synthetic(n) /\ old[n] = parameters[n]
      /\ R \subseteq Rows
  BY ByNameIs DEF RequestedRows
<1>3. /\ \A n \in DOMAIN config :
           \/ \E p \in R : n = p.name /\ config[n] = working[p.name]
           \/ \E i \in ToSet(knobs.extra) : n = SyntheticName(i.offset) /\ config[n] = hex_encode(i.value)
  BY DEF TrueConfig
<1> HIDE DEF old, R
<1>4. /\ DOMAIN rec = DOMAIN old \cup DOMAIN config
      /\ \A n \in DOMAIN config : rec[n] = config[n]
      /\ \A n \in DOMAIN old \ DOMAIN config : rec[n] = old[n]
  <2>1. Extends(rec, old, config)
    BY <1>1, ExtendIs
  <2>2. QED
    BY <2>1 DEF Extends
<1>5. ASSUME NEW p \in Rows
      PROVE  /\ p.name \in ParameterNames /\ p.name \notin DOMAIN ALIASES /\ working[p.name] \in Bytes
             /\ encode(p.length, working[p.name]) # <<>> /\ StoredAs(p, working[p.name]) = working[p.name]
  <2>1. p.name \in ParameterNames
    BY DEF ParameterNames
  <2>2. p.name \notin DOMAIN ALIASES
    BY <2>1, TableAssumption
  <2>3. QED
    BY <2>1, <2>2, HeldItemIs DEF StoredAs
<1>6. ASSUME NEW n \in DOMAIN rec
      PROVE  /\ rec[n] \in Bytes /\ n \notin DOMAIN ALIASES
             /\ \A p \in Rows : n = p.name =>
                  encode(p.length, rec[n]) # <<>> /\ StoredAs(p, rec[n]) = working[n]
             /\ Synthetic(n) => \E i \in ToSet(knobs.extra) : n = SyntheticName(i.offset)
  <2>1. CASE n \in DOMAIN config
    <3>1. rec[n] = config[n]
      BY <1>4, <2>1
    <3>2. CASE \E p \in R : n = p.name /\ config[n] = working[p.name]
      <4>1. PICK p \in Rows : n = p.name /\ config[n] = working[p.name]
        BY <1>2, <3>2
      <4>2. ~Synthetic(n)
        BY <1>5, <4>1, NameAssumption
      <4>3. \A q \in Rows : n = q.name => q = p
        BY <4>1, RowsAre
      <4>4. QED
        BY <1>5, <3>1, <4>1, <4>2, <4>3
    <3>3. CASE \E i \in ToSet(knobs.extra) : n = SyntheticName(i.offset) /\ config[n] = hex_encode(i.value)
      <4>1. PICK i \in ToSet(knobs.extra) : n = SyntheticName(i.offset) /\ config[n] = hex_encode(i.value)
        BY <3>3
      <4>2. n \notin ParameterNames \cup DOMAIN ALIASES /\ rec[n] \in Bytes
        BY <3>1, <4>1, ExtraName
      <4>3. \A q \in Rows : n # q.name
        BY <4>2 DEF ParameterNames
      <4>4. QED
        BY <4>1, <4>2, <4>3
    <3>4. QED
      BY <1>3, <2>1, <3>2, <3>3
  <2>2. CASE n \notin DOMAIN config
    <3>1. n \in DOMAIN parameters /\ ~Synthetic(n) /\ rec[n] = parameters[n]
      BY <1>2, <1>4, <2>2
    <3>2. QED
      BY <3>1 DEF Record
  <2>3. QED
    BY <2>1, <2>2
<1>7. Record(rec, working)
  BY <1>6 DEF Record
<1>8. Piled(rec)
  BY <1>6 DEF Piled
<1>9. QED
  BY <1>7, <1>8

-----------------------------------------------------------------------------
(* The steps of set and get.                                               *)

\* What a successful set of config makes of what a device held.
Wrote(config, old, new) ==
  \A p \in Rows :
    new[p.name] = IF p.name \in DOMAIN config
                  THEN Meaning(p.length, config[p.name]) ELSE old[p.name]

\* A record with new values laid over it can be sent once it encodes.
LEMMA OverlayIs ==
  ASSUME NEW held, NEW base, Record(base, held), NEW config \in Configs,
         NEW both, both = Extend(base, config), Encodes(both)
  PROVE  Sendable(both)
<1>1. Extends(both, base, config)
  BY ExtendIs
<1>2. \A n \in DOMAIN config : config[n] \in Bytes
  BY UsageAssumption
<1>3. DOMAIN config \cap DOMAIN ALIASES = {}
  BY UsageAssumption
<1>4. (\A n \in DOMAIN base : base[n] \in Bytes) /\ DOMAIN base \cap DOMAIN ALIASES = {}
  BY DEF Record
<1>5. ASSUME NEW n \in DOMAIN both PROVE both[n] \in Bytes /\ n \notin DOMAIN ALIASES
  BY <1>1, <1>2, <1>3, <1>4 DEF Extends
<1>6. QED
  BY <1>5 DEF Sendable

\* What a row's name in a record makes of the device.
RowWritten(p, base, config, both, old, new) ==
  /\ Stored(p.length, new[p.name]) /\ new[p.name] \in Bytes
  /\ p.name \in DOMAIN both =>
       encode(p.length, both[p.name]) # <<>> /\ StoredAs(p, both[p.name]) = new[p.name]
  /\ new[p.name] = IF p.name \in DOMAIN config
                   THEN Meaning(p.length, config[p.name]) ELSE old[p.name]

\* For each row.
LEMMA RowIsWritten ==
  ASSUME NEW held, Held(held), NEW base, Record(base, held), NEW config \in Configs,
         NEW both, both = Extend(base, config), Sendable(both),
         NEW updates, UpdatesOf(updates, both), NEW new, Extends(new, held, updates),
         NEW p \in Rows
  PROVE  RowWritten(p, base, config, both, held, new)
<1>1. Extends(both, base, config)
  BY ExtendIs
<1>2. p.name \in ParameterNames
  BY DEF ParameterNames
<1>3. p.name \in DOMAIN held /\ Stored(p.length, held[p.name]) /\ held[p.name] \in Bytes
  BY <1>2 DEF Held, Sound
<1>4. CASE p.name \in DOMAIN both
  <2>1. p \in RowsIn(both)
    BY <1>4 DEF RowsIn
  <2>2. new[p.name] = StoredAs(p, both[p.name])
    BY <2>1 DEF UpdatesOf, Extends
  <2>3. PICK value : value = both[p.name]
    OBVIOUS
  <2>4. value \in Bytes /\ encode(p.length, value) # <<>>
    <3>1. p \in by_name(p.name)
      BY OwnName
    <3>2. QED
      BY <1>4, <2>3, <3>1 DEF Sendable, Encodes
  <2>5. /\ StoredAs(p, value) = Meaning(p.length, value)
        /\ Stored(p.length, StoredAs(p, value)) /\ StoredAs(p, value) \in Bytes
    BY <2>4, MeaningIs
  <2>6. p.name \in DOMAIN config => value = config[p.name]
    BY <1>1, <2>3 DEF Extends
  <2>7. p.name \notin DOMAIN config => StoredAs(p, value) = held[p.name]
    <3>1. p.name \notin DOMAIN config => p.name \in DOMAIN base /\ value = base[p.name]
      BY <1>1, <1>4, <2>3 DEF Extends
    <3>2. QED
      BY <3>1 DEF Record
  <2>8. new[p.name] = IF p.name \in DOMAIN config
                      THEN Meaning(p.length, config[p.name]) ELSE held[p.name]
    BY <2>2, <2>3, <2>5, <2>6, <2>7
  <2>9. QED
    BY <2>2, <2>3, <2>4, <2>5, <2>8 DEF RowWritten
<1>5. CASE p.name \notin DOMAIN both
  <2>1. p.name \notin DOMAIN updates
    <3>1. ASSUME NEW r \in RowsIn(both) PROVE r.name # p.name
      BY <1>5 DEF RowsIn
    <3>2. QED
      BY <3>1 DEF UpdatesOf
  <2>2. new[p.name] = held[p.name]
    BY <1>3, <2>1 DEF Extends
  <2>3. p.name \notin DOMAIN config
    BY <1>1, <1>5 DEF Extends
  <2>4. QED
    BY <1>3, <1>5, <2>2, <2>3 DEF RowWritten
<1>6. QED
  BY <1>4, <1>5

\* A set that is obeyed.
Rewritten(config, both, old, new) ==
  Held(new) /\ Record(both, new) /\ Wrote(config, old, new)

\* For the whole device.
LEMMA ObeyedWrite ==
  ASSUME knobs \in Knobs, NEW held, Held(held), NEW base, Record(base, held), NEW config \in Configs,
         NEW both, both = Extend(base, config), Encodes(both),
         NEW new, new = Extend(held, Updates(set_data_payload(both)))
  PROVE  Rewritten(config, both, held, new)
<1>1. Sendable(both)
  BY OverlayIs
<1>2. Len(PARAMETERS) \in U16
  BY KnobsAre
<1>3. PICK updates : updates = Updates(set_data_payload(both))
  OBVIOUS
<1>4. UpdatesOf(updates, both)
  BY <1>1, <1>2, <1>3, UpdatesAre
<1>5. Extends(new, held, updates)
  BY <1>3, ExtendIs
<1>6. \A p \in Rows : RowWritten(p, base, config, both, held, new)
  BY <1>1, <1>4, <1>5, RowIsWritten
<1>7. Wrote(config, held, new)
  BY <1>6 DEF RowWritten, Wrote
<1>8. Sound(new)
  BY <1>6 DEF RowWritten, Sound
<1>9. Record(both, new)
  <2>1. \A p \in Rows : p.name \in DOMAIN both =>
          encode(p.length, both[p.name]) # <<>> /\ StoredAs(p, both[p.name]) = new[p.name]
    BY <1>6 DEF RowWritten
  <2>2. (\A n \in DOMAIN both : both[n] \in Bytes) /\ DOMAIN both \cap DOMAIN ALIASES = {}
    BY <1>1 DEF Sendable
  <2>3. QED
    BY <2>1, <2>2 DEF Record
<1>10. new \in [ParameterNames \cup DOMAIN Seed -> Bytes]
  <2>1. DOMAIN updates \subseteq ParameterNames
    <3>1. RowsIn(both) \subseteq Rows
      BY DEF RowsIn
    <3>2. QED
      BY <1>4, <3>1 DEF UpdatesOf, ParameterNames
  <2>2. DOMAIN new = ParameterNames \cup DOMAIN Seed
    BY <1>5, <2>1 DEF Extends, Held
  <2>3. ASSUME NEW n \in DOMAIN new PROVE new[n] \in Bytes
    <3>1. CASE n \in ParameterNames
      <4>1. PICK p \in Rows : n = p.name
        BY <3>1 DEF ParameterNames
      <4>2. QED
        BY <1>6, <4>1 DEF RowWritten
    <3>2. CASE n \notin ParameterNames
      <4>1. n \in DOMAIN held /\ n \notin DOMAIN updates
        BY <2>1, <2>2, <3>2 DEF Held
      <4>2. QED
        BY <1>5, <4>1 DEF Extends, Held
    <3>3. QED
      BY <3>1, <3>2
  <2>4. new = [n \in ParameterNames \cup DOMAIN Seed |-> new[n]]
    BY <1>3, <2>2 DEF Extend
  <2>5. QED
    BY <2>2, <2>3, <2>4
<1>11. QED
  BY <1>7, <1>8, <1>9, <1>10 DEF Held, Rewritten

\* Names that are set are given: they do not count as piled up.
LEMMA OverlayPiles ==
  ASSUME NEW base, Piled(base), NEW config \in Configs, NEW both, both = Extend(base, config)
  PROVE  Piled(both)
<1>1. PICK k \in Knobs : \A n \in DOMAIN base \ Given :
        Synthetic(n) => \E i \in ToSet(k.extra) : n = SyntheticName(i.offset)
  BY DEF Piled
<1>2. Extends(both, base, config)
  BY ExtendIs
<1>3. DOMAIN config \subseteq Given
  BY DEF Given
<1>4. DOMAIN both \ Given \subseteq DOMAIN base \ Given
  BY <1>2, <1>3 DEF Extends
<1>5. \A n \in DOMAIN both \ Given :
        Synthetic(n) => \E i \in ToSet(k.extra) : n = SyntheticName(i.offset)
  BY <1>1, <1>4
<1>6. QED
  BY <1>5 DEF Piled

\* The memories agree, and the record is true of them.
Agreement(held, stored, rec) ==
  stored = held /\ Held(held) /\ Record(rec, held) /\ Piled(rec)

\* What a step of set ends in.
SetEnds(config) ==
  /\ Agreement(working', nvram', parameters')
  /\ outcome'.op = "set"
  /\ outcome'.status = "ok" => outcome'.asked = config /\ Wrote(config, working, working')

\* No refusal is a success.
LEMMA RefusalIsNotOk ==
  \A r : Refusal(r).status # "ok"
BY DEF Refusal

\* Whether it is obeyed, refused or not answered.
LEMMA WriteEnds ==
  ASSUME knobs \in Knobs, NEW base, Agreement(working, nvram, base), NEW config \in Configs,
         Write(config, base)
  PROVE  SetEnds(config)
<1> DEFINE both == Extend(base, config)
           payload == set_data_payload(both)
<1>1. nvram = working /\ Held(working) /\ Record(base, working) /\ Piled(base)
  BY DEF Agreement
<1>2. CASE ~Encodes(both)
  <2>1. /\ Done("set", config, "Encode", <<>>) /\ parameters' = base
        /\ working' = working /\ nvram' = nvram
    BY <1>2 DEF Write
  <2>2. outcome'.op = "set" /\ outcome'.status # "ok"
    BY <2>1 DEF Done
  <2>3. Agreement(working', nvram', parameters')
    BY <2>1
  <2>4. QED
    BY <2>2, <2>3 DEF SetEnds
<1>3. CASE Encodes(both)
  <2>1. /\ Apply(payload)
        /\ \/ Silent("SET_DATA") /\ Done("set", config, "Cancelled", <<>>) /\ parameters' = base
           \/ \E r \in Received("SET_DATA", payload) :
                \/ /\ r.method \in {"SET_DATA", "GET_DATA", "GET_IP"}
                   /\ Done("set", config, "ok", <<>>)
                   /\ parameters' = both
                \/ /\ r.method \notin {"SET_DATA", "GET_DATA", "GET_IP"}
                   /\ Done("set", config, Refusal(r).status, Refusal(r).shown)
                   /\ parameters' = base
    BY <1>3 DEF Write
  <2>2. CASE Obeys("SET_DATA")
    <3>1. working' = Extend(working, Updates(payload)) /\ nvram' = working'
      BY <2>1, <2>2 DEF Apply
    <3>2. ~Silent("SET_DATA")
      BY <2>2, SilenceIs
    <3>3. \A r \in Received("SET_DATA", payload) : r.method = "SET_DATA"
      BY <2>2, AnswersOwn DEF Methods
    <3> HIDE DEF payload, both
    <3>4. Done("set", config, "ok", <<>>) /\ parameters' = both
      BY <2>1, <3>2, <3>3
    <3>5. Rewritten(config, both, working, working')
      <4>1. PICK new : new = working'
        OBVIOUS
      <4>2. new = Extend(working, Updates(set_data_payload(both))) /\ both = Extend(base, config)
        BY <3>1, <4>1 DEF payload, both
      <4>3. Rewritten(config, both, working, new)
        BY <1>1, <1>3, <4>2, ObeyedWrite
      <4>4. QED
        BY <4>1, <4>3
    <3>6. Piled(both)
      BY <1>1, OverlayPiles DEF both
    <3>7. outcome'.op = "set" /\ outcome'.asked = config
      BY <3>4 DEF Done
    <3>8. Agreement(working', nvram', parameters')
      BY <3>1, <3>4, <3>5, <3>6 DEF Agreement, Rewritten
    <3>9. QED
      BY <3>5, <3>7, <3>8 DEF SetEnds, Rewritten
  <2>3. CASE ~Obeys("SET_DATA")
    <3>1. working' = working /\ nvram' = nvram
      BY <2>1, <2>3 DEF Apply
    <3>2. \A r \in Received("SET_DATA", payload) : r.method = "ERROR"
      BY <2>3, AnswersOwn DEF Methods
    <3> HIDE DEF payload, both
    <3>3. /\ parameters' = base
          /\ \E status, shown : status # "ok" /\ Done("set", config, status, shown)
      BY <2>1, <3>2, RefusalIsNotOk
    <3>4. outcome'.op = "set" /\ outcome'.status # "ok"
      BY <3>3 DEF Done
    <3>5. Agreement(working', nvram', parameters')
      BY <3>1, <3>3
    <3>6. QED
      BY <3>4, <3>5 DEF SetEnds
  <2>4. QED
    BY <2>2, <2>3
<1>4. QED
  BY <1>2, <1>3

\* What a get that succeeds has read.
LEMMA ReadIs ==
  ASSUME knobs \in Knobs, Agreement(working, nvram, parameters), NEW names,
         NEW result \in GetResults(names), result.status = "ok"
  PROVE  \A n \in names : \A p \in by_name(n) :
           p.name \in DOMAIN result.config /\ result.config[p.name] = working[p.name]
<1>1. Sound(working)
  BY DEF Agreement, Held
<1>2. TrueConfig(result.config, working, RequestedRows(names), knobs.extra)
  <2>1. GetIs(result, working, names, knobs.extra)
    BY <1>1, GetComesOf
  <2>2. QED
    BY <2>1 DEF GetIs
<1>3. SUFFICES ASSUME NEW n \in names, NEW p \in by_name(n)
               PROVE  p.name \in DOMAIN result.config /\ result.config[p.name] = working[p.name]
  OBVIOUS
<1>4. p \in RequestedRows(names) /\ RequestedRows(names) \subseteq Rows
  BY ByNameIs DEF RequestedRows
<1>5. p.name \in DOMAIN result.config
  BY <1>2, <1>4 DEF TrueConfig
<1>6. p.name \in ParameterNames
  BY <1>4 DEF ParameterNames
<1>7. CASE \E r \in RequestedRows(names) : p.name = r.name /\ result.config[p.name] = working[r.name]
  BY <1>5, <1>7
<1>8. CASE \E i \in ToSet(knobs.extra) : p.name = SyntheticName(i.offset)
  <2>1. PICK i \in ToSet(knobs.extra) : p.name = SyntheticName(i.offset)
    BY <1>8
  <2>2. SyntheticName(i.offset) \notin ParameterNames
    BY ExtraName
  <2>3. QED
    BY <1>6, <2>1, <2>2
<1>9. QED
  BY <1>2, <1>5, <1>7, <1>8 DEF TrueConfig

\* What reading everything makes of the record.
LEMMA RecordIsRead ==
  ASSUME knobs \in Knobs, Agreement(working, nvram, parameters),
         NEW result \in GetResults(ParameterNames), result.status = "ok",
         NEW rec, rec = Loaded(result.config)
  PROVE  Agreement(working, nvram, rec)
<1>1. Sound(working) /\ Record(parameters, working)
  BY DEF Agreement, Held
<1>2. TrueConfig(result.config, working, RequestedRows(ParameterNames), knobs.extra)
  <2>1. GetIs(result, working, ParameterNames, knobs.extra)
    BY <1>1, GetComesOf
  <2>2. QED
    BY <2>1 DEF GetIs
<1>3. Record(rec, working) /\ Piled(rec)
  BY <1>1, <1>2, LoadedIs
<1>4. QED
  BY <1>3 DEF Agreement

-----------------------------------------------------------------------------
(* The inductive invariant.                                                *)

\* The last set that succeeded still holds.
LastWriteHolds ==
  outcome.op = "set" /\ outcome.status = "ok" =>
    \A p \in Rows : p.name \in DOMAIN outcome.asked =>
      nvram[p.name] = Meaning(p.length, outcome.asked[p.name])

\* What every state satisfies: the two memories are one, sound, and what the
\* record says is true of them; and the last operation has done what it
\* reported.
IInv ==
  /\ knobs \in Knobs
  /\ Agreement(working, nvram, parameters)
  /\ ReadsAreTrue
  /\ LastWriteHolds

\* A device starts from the factory's values and its seed.
LEMMA StartIs ==
  ASSUME Init
  PROVE  IInv
<1> DEFINE factory == [n \in ParameterNames |-> (CHOOSE p \in by_name(n) : TRUE).factory_default]
<1>1. knobs \in Knobs /\ nvram = working /\ parameters = <<>> /\ outcome.op = "none"
      /\ working = Extend(factory, Seed)
  BY DEF Init
<1>2. Extends(working, factory, Seed)
  BY <1>1, ExtendIs
<1>3. ASSUME NEW p \in Rows
      PROVE  p.name \in DOMAIN factory /\ factory[p.name] = p.factory_default
             /\ Stored(p.length, p.factory_default)
  <2>1. p.name \in ParameterNames
    BY DEF ParameterNames
  <2>2. by_name(p.name) = {p}
    BY OwnName
  <2>3. (CHOOSE q \in by_name(p.name) : TRUE) = p
    BY <2>2
  <2>4. Stored(p.length, p.factory_default)
    BY TableAssumption
  <2>5. QED
    BY <2>1, <2>3, <2>4
<1>4. DOMAIN factory = ParameterNames
  OBVIOUS
<1> HIDE DEF factory
<1>5. ASSUME NEW p \in Rows PROVE Stored(p.length, working[p.name])
  <2>1. CASE p.name \in DOMAIN Seed
    <3>1. working[p.name] = Seed[p.name]
      BY <1>2, <2>1 DEF Extends
    <3>2. QED
      BY <2>1, <3>1, DeviceAssumption
  <2>2. CASE p.name \notin DOMAIN Seed
    <3>1. working[p.name] = factory[p.name]
      BY <1>2, <1>3, <2>2 DEF Extends
    <3>2. QED
      BY <1>3, <3>1
  <2>3. QED
    BY <2>1, <2>2
<1>6. ASSUME NEW n \in ParameterNames \cup DOMAIN Seed PROVE working[n] \in Bytes
  <2>1. CASE n \in DOMAIN Seed
    <3>1. working[n] = Seed[n]
      BY <1>2, <2>1 DEF Extends
    <3>2. QED
      BY <2>1, <3>1, DeviceAssumption
  <2>2. CASE n \in ParameterNames
    <3>1. PICK p \in Rows : n = p.name
      BY <2>2 DEF ParameterNames
    <3>2. QED
      BY <1>5, <3>1 DEF Stored
  <2>3. QED
    BY <2>1, <2>2
<1>7. working \in [ParameterNames \cup DOMAIN Seed -> Bytes]
  <2>1. DOMAIN working = ParameterNames \cup DOMAIN Seed
    BY <1>2, <1>4 DEF Extends
  <2>2. working = [n \in ParameterNames \cup DOMAIN Seed |-> working[n]]
    BY <1>1, <2>1 DEF Extend
  <2>3. QED
    BY <1>6, <2>2
<1>8. Record(parameters, working)
  BY <1>1 DEF Record
<1>9. Piled(parameters)
  BY <1>1 DEF Piled
<1>10. Agreement(working, nvram, parameters)
  BY <1>1, <1>5, <1>7, <1>8, <1>9 DEF Agreement, Held, Sound
<1>11. ReadsAreTrue /\ LastWriteHolds
  BY <1>1 DEF ReadsAreTrue, LastWriteHolds
<1>12. QED
  BY <1>1, <1>10, <1>11 DEF IInv

\* An answer to get, as it is reported.
LEMMA ReportedRead ==
  ASSUME IInv, NEW names, NEW result \in GetResults(names),
         Done("get", Nothing(names), result.status, result.config), working' = working
  PROVE  ReadsAreTrue' /\ LastWriteHolds'
<1>1. /\ outcome'.op = "get" /\ outcome'.status = result.status
      /\ outcome'.asked = Nothing(names) /\ outcome'.shown = result.config
  BY DEF Done
<1>2. DOMAIN outcome'.asked = names
  BY <1>1 DEF Nothing
<1>3. ASSUME result.status = "ok"
      PROVE  \A n \in names : \A p \in by_name(n) :
               p.name \in DOMAIN result.config /\ result.config[p.name] = working[p.name]
  BY <1>3, ReadIs DEF IInv
<1>4. ReadsAreTrue'
  BY <1>1, <1>2, <1>3 DEF ReadsAreTrue
<1>5. LastWriteHolds'
  BY <1>1 DEF LastWriteHolds
<1>6. QED
  BY <1>4, <1>5

\* A set is exact, and one that is kept from writing changes nothing.
Exact ==
  outcome'.op = "set" /\ outcome'.status = "ok" =>
    \A p \in Rows :
      nvram'[p.name] = IF p.name \in DOMAIN outcome'.asked
                       THEN Meaning(p.length, outcome'.asked[p.name]) ELSE nvram[p.name]

\* A set keeps the invariant, and is exact.
LEMMA SetStep ==
  ASSUME IInv, Set
  PROVE  IInv' /\ Exact
<1>1. knobs \in Knobs /\ Agreement(working, nvram, parameters)
  BY DEF IInv
<1>2. knobs' = knobs
  BY DEF Set
<1>3. PICK config \in Configs :
        \/ parameters # <<>> /\ Write(config, parameters)
        \/ \E result \in GetResults(ParameterNames) :
             \/ result.status = "ok" /\ Write(config, Loaded(result.config))
             \/ /\ result.status # "ok"
                /\ Done("set", config, result.status, <<>>)
                /\ UNCHANGED <<working, nvram, parameters>>
  BY DEF Set
<1>4. SetEnds(config)
  <2>1. CASE Write(config, parameters)
    BY <1>1, <2>1, WriteEnds
  <2>2. CASE \E result \in GetResults(ParameterNames) :
               result.status = "ok" /\ Write(config, Loaded(result.config))
    <3>1. PICK result \in GetResults(ParameterNames) :
                 result.status = "ok" /\ Write(config, Loaded(result.config))
      BY <2>2
    <3>2. PICK rec : rec = Loaded(result.config)
      OBVIOUS
    <3>3. Agreement(working, nvram, rec)
      BY <1>1, <3>1, <3>2, RecordIsRead
    <3>4. QED
      BY <1>1, <3>1, <3>2, <3>3, WriteEnds
  <2>3. CASE \E result \in GetResults(ParameterNames) :
               /\ result.status # "ok"
               /\ Done("set", config, result.status, <<>>)
               /\ UNCHANGED <<working, nvram, parameters>>
    <3>1. outcome'.op = "set" /\ outcome'.status # "ok"
      BY <2>3 DEF Done
    <3>2. Agreement(working', nvram', parameters')
      BY <1>1, <2>3
    <3>3. QED
      BY <3>1, <3>2 DEF SetEnds
  <2>4. QED
    BY <1>3, <2>1, <2>2, <2>3
<1>5. Agreement(working', nvram', parameters') /\ outcome'.op = "set" /\ nvram' = working' /\ nvram = working
  BY <1>1, <1>4 DEF SetEnds, Agreement
<1>6. outcome'.status = "ok" => outcome'.asked = config /\ Wrote(config, nvram, nvram')
  BY <1>4, <1>5 DEF SetEnds
<1>7. Exact
  BY <1>6 DEF Exact, Wrote
<1>8. LastWriteHolds'
  BY <1>6 DEF LastWriteHolds, Wrote
<1>9. ReadsAreTrue'
  BY <1>5 DEF ReadsAreTrue
<1>10. QED
  BY <1>1, <1>2, <1>5, <1>7, <1>8, <1>9 DEF IInv

\* The other steps neither write nor lose what was written.
LEMMA OtherStep ==
  ASSUME IInv, [Next]_vars, ~Set
  PROVE  IInv' /\ Exact
<1>1. /\ knobs \in Knobs /\ Agreement(working, nvram, parameters) /\ nvram = working
      /\ ReadsAreTrue /\ LastWriteHolds
  BY DEF IInv, Agreement
<1>2. CASE Get
  <2>1. PICK names \in Requested : \E result \in GetResults(names) :
               Done("get", Nothing(names), result.status, result.config)
    BY <1>2 DEF Get
  <2>2. knobs' = knobs /\ working' = working /\ nvram' = nvram /\ parameters' = parameters
    BY <1>2 DEF Get
  <2>3. ReadsAreTrue' /\ LastWriteHolds'
    BY <2>1, <2>2, ReportedRead
  <2>4. Exact
    BY <2>1 DEF Done, Exact
  <2>5. QED
    BY <1>1, <2>2, <2>3, <2>4 DEF IInv
<1>3. CASE GetAll
  <2>1. PICK result \in GetResults(ParameterNames) :
               /\ Done("get", Nothing(ParameterNames), result.status, result.config)
               /\ parameters' = IF result.status = "ok" THEN Loaded(result.config) ELSE parameters
    BY <1>3 DEF GetAll
  <2>2. knobs' = knobs /\ working' = working /\ nvram' = nvram
    BY <1>3 DEF GetAll
  <2>3. ReadsAreTrue' /\ LastWriteHolds'
    BY <2>1, <2>2, ReportedRead
  <2>4. Agreement(working, nvram, parameters')
    <3>1. CASE result.status = "ok"
      BY <1>1, <2>1, <3>1, RecordIsRead
    <3>2. CASE result.status # "ok"
      BY <1>1, <2>1, <3>2
    <3>3. QED
      BY <3>1, <3>2
  <2>5. Exact
    BY <2>1 DEF Done, Exact
  <2>6. QED
    BY <1>1, <2>2, <2>3, <2>4, <2>5 DEF IInv
<1>4. CASE Reset
  <2>1. knobs' = knobs /\ working' = working /\ nvram' = nvram /\ parameters' = parameters
    BY <1>1, <1>4 DEF Reset
  <2>2. outcome'.op = "reset"
    BY <1>4 DEF Reset, Done
  <2>3. QED
    BY <1>1, <2>1, <2>2 DEF IInv, Exact, ReadsAreTrue, LastWriteHolds
<1>5. CASE GetIp \/ GetUuid \/ Discover \/ Validate \/ ParseMac
  <2>1. knobs' = knobs /\ working' = working /\ nvram' = nvram /\ parameters' = parameters
    BY <1>5 DEF GetIp, GetUuid, Discover, Query, Validate, ParseMac
  <2>2. outcome'.op \in {"get_ip", "get_uuid", "discover", "validate", "mac"}
    <3>1. ASSUME NEW op, NEW method, Query(op, method) PROVE outcome'.op = op
      BY <3>1 DEF Query, Done
    <3>2. GetIp \/ GetUuid \/ Discover => outcome'.op \in {"get_ip", "get_uuid", "discover"}
      BY <3>1 DEF GetIp, GetUuid, Discover
    <3>3. Validate => outcome'.op = "validate"
      BY DEF Validate, Done
    <3>4. ParseMac => outcome'.op = "mac"
      BY DEF ParseMac, Done
    <3>5. QED
      BY <1>5, <3>2, <3>3, <3>4
  <2>3. QED
    BY <1>1, <2>1, <2>2 DEF IInv, Exact, ReadsAreTrue, LastWriteHolds
<1>6. CASE Upgrade \/ UNCHANGED vars
  <2>1. /\ knobs' \in Knobs /\ working' = working /\ nvram' = nvram /\ parameters' = parameters
        /\ outcome' = outcome
    BY <1>1, <1>6 DEF Upgrade, vars
  <2>2. ReadsAreTrue' /\ LastWriteHolds'
    BY <1>1, <2>1 DEF ReadsAreTrue, LastWriteHolds
  <2>3. Exact
    BY <1>1, <2>1 DEF LastWriteHolds, Exact
  <2>4. QED
    BY <1>1, <2>1, <2>2, <2>3 DEF IInv
<1>7. QED
  BY <1>2, <1>3, <1>4, <1>5, <1>6 DEF Next

\* So does every operation.
LEMMA StepIs ==
  ASSUME IInv, [Next]_vars
  PROVE  IInv' /\ Exact
BY SetStep, OtherStep

\* It holds from the start, and every step keeps it.
LEMMA AlwaysIInv == Spec => []IInv
<1>1. Init => IInv
  BY StartIs
<1>2. IInv /\ [Next]_vars => IInv'
  BY StepIs
<1>3. QED
  BY <1>1, <1>2, PTL DEF Spec

\* A get that reports success gives every parameter asked for, under its own name,
\* with the value the device holds (getdata.rs, parse_response): a reply that was
\* cut or is garbled is never taken for a shorter one.
THEOREM ReadsTellTheTruth == Spec => []ReadsAreTrue
<1>1. IInv => ReadsAreTrue
  BY DEF IInv
<1>2. QED
  BY <1>1, AlwaysIInv, PTL

\* What Device.parameters says of a parameter encodes as what the device stores
\* (device.rs): after reading everything, after a set over what was read, and
\* after a set that was refused, not answered or could not be encoded.
THEOREM RecordsAreTrue == Spec => []RecordDenotesDevice
<1>1. IInv => RecordDenotesDevice
  BY DEF IInv, Agreement, Record, RecordDenotesDevice, StoredAs
<1>2. QED
  BY <1>1, AlwaysIInv, PTL

\* A set that is acknowledged has given each parameter it names the meaning of its
\* value in the memory a reset restores, and has left all others as they were to
\* the byte (ops/config.rs, set; mocksbr/src/state.rs, apply_set and apply_save).
THEOREM WritesDoAsTold == Spec => WritesAreExact
<1>1. IInv /\ [Next]_vars =>
        (outcome'.op = "set" /\ outcome'.status = "ok" =>
           \A p \in Rows :
             nvram'[p.name] = IF p.name \in DOMAIN outcome'.asked
                              THEN Meaning(p.length, outcome'.asked[p.name]) ELSE nvram[p.name])
  BY StepIs DEF Exact
<1>2. QED
  BY <1>1, AlwaysIInv, PTL DEF Spec, WritesAreExact

-----------------------------------------------------------------------------
(* Synthetic names.                                                        *)

\* What a record keeps of names nobody gave is bounded by what one answer holds.
LEMMA FewNames ==
  ASSUME NEW X, NEW k \in Knobs, \A n \in X : \E i \in ToSet(k.extra) : n = SyntheticName(i.offset)
  PROVE  Cardinality(X) \in Nat /\ Cardinality(X) <= Len(k.extra)
<1> DEFINE E == ToSet(k.extra)
           Y == {SyntheticName(i.offset) : i \in E}
           f == [i \in E |-> SyntheticName(i.offset)]
<1>1. k.extra \in Seq(ItemRecord) /\ Len(k.extra) \in Nat
  BY KnobsAre DEF Surplus
<1>2. IsFiniteSet(E) /\ Cardinality(E) \in Nat /\ Cardinality(E) <= Len(k.extra)
  BY <1>1, ElementsAreFinite
<1>3. X \in SUBSET Y
  OBVIOUS
<1>4. f \in Surjection(E, Y)
  <2> HIDE DEF E
  <2>1. QED
    BY DEF Surjection
<1> HIDE DEF E, Y, f
<1>5. IsFiniteSet(Y) /\ Cardinality(Y) <= Cardinality(E)
  BY <1>2, <1>4, FS_Surjection
<1>6. IsFiniteSet(X) /\ Cardinality(X) <= Cardinality(Y)
  BY <1>3, <1>5, FS_Subset
<1>7. Cardinality(X) \in Nat /\ Cardinality(Y) \in Nat
  BY <1>5, <1>6, FS_CardinalityType
<1>8. QED
  BY <1>1, <1>2, <1>5, <1>6, <1>7

\* The greatest number of such items is one that is reached.
LEMMA MostExtra ==
  ASSUME NEW k \in Knobs
  PROVE  LET most == Max({Len(j.extra) : j \in Knobs})
         IN  most \in Nat /\ Len(k.extra) <= most
<1> DEFINE T == {Len(j.extra) : j \in Knobs}
<1>1. ASSUME NEW j \in Knobs PROVE Len(j.extra) \in Nat /\ Len(j.extra) <= U16_MAX
  <2>1. PICK a, b : a = Len(PARAMETERS) /\ b = Len(j.extra)
    OBVIOUS
  <2>2. a \in Nat /\ b \in Nat
    BY <2>1, RowsAre, KnobsAre
  <2>3. a + b <= U16_MAX /\ U16_MAX \in Nat
    BY <2>1, KnobsAre, U16Def, U16MaxIs
  <2>4. QED
    BY <2>1, <2>2, <2>3
<1>2. T \in SUBSET Nat /\ T # {} /\ Len(k.extra) \in T /\ \A n \in T : n <= U16_MAX
  BY <1>1
<1>3. U16_MAX \in Nat
  BY U16MaxIs
<1> HIDE DEF T
<1>4. Max(T) \in T /\ \A n \in T : n <= Max(T)
  BY <1>2, <1>3, MaxIs
<1>5. Max(T) \in Nat /\ Len(k.extra) <= Max(T)
  BY <1>2, <1>4
<1>6. QED
  BY <1>5 DEF T

\* The synthetic names in a record, not counting those a caller has set, are at most as many as
\* one answer can hold: get_all drops those of the answers before (ops/config.rs).
THEOREM ReadsDoNotPileUp == Spec => []NoPiling
<1>1. ASSUME IInv PROVE NoPiling
  <2> DEFINE X == {n \in DOMAIN parameters \ Given : Synthetic(n)}
             most == Max({Len(k.extra) : k \in Knobs})
  <2>1. PICK k \in Knobs : \A n \in DOMAIN parameters \ Given :
          Synthetic(n) => \E i \in ToSet(k.extra) : n = SyntheticName(i.offset)
    BY <1>1 DEF IInv, Agreement, Piled
  <2>2. \A n \in X : \E i \in ToSet(k.extra) : n = SyntheticName(i.offset)
    BY <2>1
  <2>3. most \in Nat /\ Len(k.extra) <= most
    BY MostExtra
  <2>4. Len(k.extra) \in Nat
    BY KnobsAre
  <2> HIDE DEF X, most
  <2>5. Cardinality(X) \in Nat /\ Cardinality(X) <= Len(k.extra)
    BY <2>2, FewNames
  <2>6. Cardinality(X) <= most
    BY <2>3, <2>4, <2>5
  <2>7. QED
    BY <2>6 DEF NoPiling, Given, X, most
<1>2. QED
  BY <1>1, AlwaysIInv, PTL

-----------------------------------------------------------------------------
(* Refusals, and answers to questions.                                     *)

\* What the configuration of a device holds.
LEMMA CfgIs ==
  /\ Cfg.name \in Bytes /\ Cfg.model \in Bytes /\ Cfg.device_id \in Bytes /\ Cfg.firmware \in Bytes
  /\ Cfg.hardware \in Bytes /\ Cfg.state \in Bytes /\ Cfg.uuid \in Bytes /\ Len(Cfg.uuid) = 16
  /\ Cfg.ip \in Bytes /\ Len(Cfg.ip) = 4 /\ Cfg.subnet_mask \in Bytes /\ Len(Cfg.subnet_mask) = 4
  /\ Cfg.gateway \in Bytes /\ Len(Cfg.gateway) = 4
BY DeviceAssumption DEF UUID_LEN

\* A refusal explains itself in the device's words, or not at all.
Refused(r) ==
  Refusal(r) \in {[status |-> "DeviceNoMessage", shown |-> <<>>],
                  [status |-> "Device", shown |-> [message |-> Fit(knobs.fail_message)]]}

\* What is read of an explanation is the explanation, or nothing.
LEMMA ExplanationIs ==
  ASSUME NEW message \in Bytes, NEW data, Prefix(data, error_response(message))
  PROVE  ErrorMessage(data) \in {<<>>, <<Fit(message)>>}
<1>1. CASE message = <<>>
  <2>1. error_response(message) = <<>>
    BY <1>1 DEF error_response
  <2>2. PICK entries : entries = <<>>
    OBVIOUS
  <2>3. PayloadOf(error_response(message), entries) /\ Len(entries) = 0
    BY <2>1, <2>2, NoneWritten
  <2>4. PICK w : ReadUpTo(data, error_response(message), decode(data), entries, w)
    BY <2>3, ReadWritten
  <2>5. Len(entries) \in Nat /\ \A k \in 1..Len(entries) : entries[k].tag # 3
    BY <2>3
  <2>6. Sole(data, 3, Byte, <<>>)
    BY <2>4, <2>5, NoneIs
  <2>7. QED
    BY <2>6 DEF Sole, ErrorMessage
<1>2. CASE message # <<>>
  <2>1. error_response(message) = encode_into(3, message) /\ 3 \in Byte
    BY <1>2, ByteDef DEF error_response
  <2>2. PICK entries : entries = <<Tlv(3, message)>>
    OBVIOUS
  <2>3. PayloadOf(error_response(message), entries)
    BY <2>1, <2>2, OneWritten
  <2>4. PICK w : ReadUpTo(data, error_response(message), decode(data), entries, w)
    BY <2>3, ReadWritten
  <2>5. Len(entries) = 1 /\ entries[1].tag = 3 /\ entries[1].value = Fit(message)
    BY <2>2 DEF Tlv
  <2>6. Len(entries) \in Nat /\ OnlyAt(entries, 3, 1)
    BY <2>5 DEF OnlyAt
  <2>7. SoleAt(data, 3, Byte, entries, 1, w)
    BY <2>4, <2>6, SoleIs
  <2>8. QED
    BY <2>5, <2>7 DEF SoleAt, Sole, ErrorMessage
<1>3. QED
  BY <1>1, <1>2

\* A device that does not obey sends its explanation, which may be cut.
LEMMA RefusalIs ==
  ASSUME knobs \in Knobs, NEW method \in Methods, NEW payload, NEW r \in Received(method, payload),
         r.method = "ERROR"
  PROVE  Refused(r)
<1>1. ~Silent(method)
  BY DEF Received
<1>2. fails_on(OpOf(method))
  <2>1. ~Obeys(method)
    BY AnswersOwn DEF Methods
  <2>2. QED
    BY <1>1, <2>1 DEF Obeys, Silent
<1>3. PICK message : message = knobs.fail_message
  OBVIOUS
<1>4. Answer(method, payload).payload = error_response(message)
  BY <1>2, <1>3 DEF Answer
<1>5. message \in Bytes
  BY <1>3, DeviceAssumption DEF IsKnobs
<1>6. error_response(message) \in Bytes
  BY <1>5, ErrorReply
<1>7. Prefix(r.payload, error_response(message))
  BY <1>4, <1>6, ReceivedIs DEF Partial
<1>8. ErrorMessage(r.payload) \in {<<>>, <<Fit(message)>>}
  BY <1>5, <1>7, ExplanationIs
<1>9. QED
  BY <1>3, <1>8 DEF Refusal, Refused

\* What a question is answered with.
Response(method) ==
  CASE method = "ADV_DISC" -> discovery_response(Cfg)
    [] method = "GET_IP" -> get_ip_response(Cfg)
    [] method = "GET_UUID" -> get_uuid_response(Cfg)

\* The entries of the three answers.
IpEntries == <<Tlv(5, Cfg.ip), Tlv(6, Cfg.subnet_mask), Tlv(7, Cfg.gateway)>>

UuidEntries == <<Tlv(13, Cfg.uuid)>>

DiscoveryEntries ==
  <<Tlv(12, Cfg.state), Tlv(11, Cfg.device_id), Tlv(10, Cfg.hardware),
    Tlv(9, Cfg.firmware), Tlv(3, Cfg.model), Tlv(2, Cfg.name)>>

\* An answer to get_ip is its three entries.
LEMMA IpWritten ==
  /\ PayloadOf(get_ip_response(Cfg), IpEntries) /\ Len(IpEntries) = 3
  /\ OnlyAt(IpEntries, 5, 1) /\ OnlyAt(IpEntries, 6, 2) /\ OnlyAt(IpEntries, 7, 3)
<1>1. PICK c1, c2, c3, e1, e2, e3 :
        /\ c1 = encode_into(5, Cfg.ip) /\ c2 = encode_into(6, Cfg.subnet_mask) /\ c3 = encode_into(7, Cfg.gateway)
        /\ e1 = Tlv(5, Cfg.ip) /\ e2 = Tlv(6, Cfg.subnet_mask) /\ e3 = Tlv(7, Cfg.gateway)
  OBVIOUS
<1>2. 5 \in Byte /\ 6 \in Byte /\ 7 \in Byte
  BY ByteDef
<1>3. IsTlv(c1, e1) /\ IsTlv(c2, e2) /\ IsTlv(c3, e3)
      /\ e1 \in TlvRecord /\ e2 \in TlvRecord /\ e3 \in TlvRecord
  BY <1>1, <1>2, CfgIs, TlvIs
<1>4. c1 \in Bytes /\ c2 \in Bytes /\ c3 \in Bytes
  BY <1>3 DEF IsTlv
<1>5. PICK s, e : s = <<c1, c2, c3>> /\ e = <<e1, e2, e3>>
  OBVIOUS
<1>6. s \in Seq(Bytes) /\ Len(s) = 3 /\ s[1] = c1 /\ s[2] = c2 /\ s[3] = c3
  BY <1>4, <1>5
<1>7. e \in Seq(TlvRecord) /\ Len(e) = 3 /\ e[1] = e1 /\ e[2] = e2 /\ e[3] = e3
  BY <1>3, <1>5
<1>8. \A k \in 1..3 : k = 1 \/ k = 2 \/ k = 3
  OBVIOUS
<1>9. Tlvs(s, e)
  BY <1>3, <1>6, <1>7, <1>8 DEF Tlvs
<1>10. PayloadOf(FlattenSeq(s), e)
  BY <1>6, <1>9, ManyWritten
<1>11. get_ip_response(Cfg) = FlattenSeq(s) /\ IpEntries = e
  BY <1>1, <1>5 DEF get_ip_response, IpEntries
<1>12. e1.tag = 5 /\ e2.tag = 6 /\ e3.tag = 7
  BY <1>1 DEF Tlv
<1>13. OnlyAt(e, 5, 1) /\ OnlyAt(e, 6, 2) /\ OnlyAt(e, 7, 3)
  BY <1>7, <1>8, <1>12 DEF OnlyAt
<1>14. QED
  BY <1>7, <1>10, <1>11, <1>13

\* One to get_uuid is its one entry.
LEMMA UuidWritten ==
  PayloadOf(get_uuid_response(Cfg), UuidEntries) /\ Len(UuidEntries) = 1 /\ OnlyAt(UuidEntries, 13, 1)
<1>1. 13 \in Byte
  BY ByteDef
<1>2. PayloadOf(encode_into(13, Cfg.uuid), <<Tlv(13, Cfg.uuid)>>)
  BY <1>1, CfgIs, OneWritten
<1>3. UuidEntries[1].tag = 13 /\ Len(UuidEntries) = 1
  BY DEF UuidEntries, Tlv
<1>4. OnlyAt(UuidEntries, 13, 1)
  BY <1>3 DEF OnlyAt
<1>5. QED
  BY <1>2, <1>3, <1>4 DEF get_uuid_response, UuidEntries

\* One to discovery is its six entries.
LEMMA DiscoveryWritten ==
  /\ PayloadOf(discovery_response(Cfg), DiscoveryEntries) /\ Len(DiscoveryEntries) = 6
  /\ OnlyAt(DiscoveryEntries, 12, 1) /\ OnlyAt(DiscoveryEntries, 11, 2) /\ OnlyAt(DiscoveryEntries, 10, 3)
  /\ OnlyAt(DiscoveryEntries, 9, 4) /\ OnlyAt(DiscoveryEntries, 3, 5) /\ OnlyAt(DiscoveryEntries, 2, 6)
  /\ \A k \in 1..6 : DiscoveryEntries[k].tag # 13
<1>1. PICK c1, c2, c3, c4, c5, c6 :
        /\ c1 = encode_into(12, Cfg.state) /\ c2 = encode_into(11, Cfg.device_id)
        /\ c3 = encode_into(10, Cfg.hardware) /\ c4 = encode_into(9, Cfg.firmware)
        /\ c5 = encode_into(3, Cfg.model) /\ c6 = encode_into(2, Cfg.name)
  OBVIOUS
<1>2. PICK e1, e2, e3, e4, e5, e6 :
        /\ e1 = Tlv(12, Cfg.state) /\ e2 = Tlv(11, Cfg.device_id)
        /\ e3 = Tlv(10, Cfg.hardware) /\ e4 = Tlv(9, Cfg.firmware)
        /\ e5 = Tlv(3, Cfg.model) /\ e6 = Tlv(2, Cfg.name)
  OBVIOUS
<1>3. 12 \in Byte /\ 11 \in Byte /\ 10 \in Byte /\ 9 \in Byte /\ 3 \in Byte /\ 2 \in Byte
  BY ByteDef
<1>4. IsTlv(c1, e1) /\ e1 \in TlvRecord /\ IsTlv(c2, e2) /\ e2 \in TlvRecord
      /\ IsTlv(c3, e3) /\ e3 \in TlvRecord /\ IsTlv(c4, e4) /\ e4 \in TlvRecord
      /\ IsTlv(c5, e5) /\ e5 \in TlvRecord /\ IsTlv(c6, e6) /\ e6 \in TlvRecord
  BY <1>1, <1>2, <1>3, CfgIs, TlvIs
<1>5. c1 \in Bytes /\ c2 \in Bytes /\ c3 \in Bytes /\ c4 \in Bytes /\ c5 \in Bytes /\ c6 \in Bytes
  BY <1>4 DEF IsTlv
<1>6. PICK s, e : s = <<c1, c2, c3, c4, c5, c6>> /\ e = <<e1, e2, e3, e4, e5, e6>>
  OBVIOUS
<1>7. s \in Seq(Bytes) /\ Len(s) = 6 /\ s[1] = c1 /\ s[2] = c2 /\ s[3] = c3 /\ s[4] = c4
      /\ s[5] = c5 /\ s[6] = c6
  BY <1>5, <1>6
<1>8. e \in Seq(TlvRecord) /\ Len(e) = 6 /\ e[1] = e1 /\ e[2] = e2 /\ e[3] = e3 /\ e[4] = e4
      /\ e[5] = e5 /\ e[6] = e6
  BY <1>4, <1>6
<1>9. \A k \in 1..6 : k = 1 \/ k = 2 \/ k = 3 \/ k = 4 \/ k = 5 \/ k = 6
  OBVIOUS
<1>10. Tlvs(s, e)
  BY <1>4, <1>7, <1>8, <1>9 DEF Tlvs
<1>11. PayloadOf(FlattenSeq(s), e)
  BY <1>7, <1>10, ManyWritten
<1>12. discovery_response(Cfg) = FlattenSeq(s)
  BY <1>1, <1>6 DEF discovery_response
<1>13. DiscoveryEntries = e
  BY <1>2, <1>6 DEF DiscoveryEntries
<1>14. e1.tag = 12 /\ e2.tag = 11 /\ e3.tag = 10 /\ e4.tag = 9 /\ e5.tag = 3 /\ e6.tag = 2
  BY <1>2 DEF Tlv
<1>15. OnlyAt(e, 12, 1) /\ OnlyAt(e, 11, 2) /\ OnlyAt(e, 10, 3) /\ OnlyAt(e, 9, 4)
       /\ OnlyAt(e, 3, 5) /\ OnlyAt(e, 2, 6) /\ \A k \in 1..6 : e[k].tag # 13
  BY <1>8, <1>9, <1>14 DEF OnlyAt
<1>16. QED
  BY <1>8, <1>11, <1>12, <1>13, <1>15

Questions == {"ADV_DISC", "GET_IP", "GET_UUID"}

\* A question is answered in kind, by the answer or a part of it, or refused.
LEMMA ReplyToQuestion ==
  ASSUME knobs \in Knobs, NEW method \in Questions, NEW r \in Received(method, <<>>)
  PROVE  \/ r.method = method /\ Prefix(r.payload, Response(method))
         \/ r.method = "ERROR" /\ Refused(r)
<1>1. method \in Methods /\ method # "GET_DATA"
  BY DEF Questions, Methods
<1>2. r.method = method \/ r.method = "ERROR"
  BY <1>1, AnswersOwn
<1>3. ASSUME r.method = method PROVE Prefix(r.payload, Response(method))
  <2>1. ~fails_on(OpOf(method))
    <3>1. Obeys(method)
      BY <1>1, <1>3, AnswersOwn DEF Questions
    <3>2. QED
      BY <3>1 DEF Obeys
  <2>2. Answer(method, <<>>).payload = Response(method)
    <3>1. method \in {"ADV_DISC", "GET_IP", "GET_UUID"}
      BY DEF Questions
    <3>2. QED
      BY <2>1, <3>1, Zenon DEF Answer, Response
  <2>3. Response(method) \in Bytes
    BY IpWritten, UuidWritten, DiscoveryWritten, WrittenIs DEF Response, Questions
  <2>4. QED
    BY <2>2, <2>3, ReceivedIs DEF Partial
<1>4. QED
  BY <1>1, <1>2, <1>3, RefusalIs

-----------------------------------------------------------------------------
(* What answers to questions show.                                         *)

\* An entry of a reply, if it has arrived.
Kept(w, j, value) == IF j <= w THEN value ELSE <<>>

\* The value of a tag that occurs once.
LEMMA FieldIs ==
  ASSUME NEW data, NEW full, NEW entries \in Seq(TlvRecord), NEW w,
         ReadUpTo(data, full, decode(data), entries, w),
         NEW tag, NEW j, OnlyAt(entries, tag, j), NEW value \in Bytes, entries[j] = Tlv(tag, value)
  PROVE  OrEmpty(LastOf(data, tag, Byte)) = Kept(w, j, Fit(value)) /\ Fit(value) \in Bytes
<1>1. Len(entries) \in Nat
  OBVIOUS
<1>2. PICK v : v = Fit(value)
  OBVIOUS
<1>3. entries[j].value = v
  BY <1>2 DEF Tlv
<1>4. v \in Bytes /\ Len(v) \in Byte
  BY <1>2, FitIs DEF FitsIn, Byte
<1>5. SoleAt(data, tag, Byte, entries, j, w)
  BY <1>1, SoleIs
<1>6. LastOf(data, tag, Byte) = IF j <= w THEN <<v>> ELSE <<>>
  BY <1>3, <1>4, <1>5 DEF SoleAt, Sole
<1>7. <<v>> # <<>> /\ <<v>>[1] = v
  OBVIOUS
<1>8. OrEmpty(LastOf(data, tag, Byte)) = Kept(w, j, v)
  BY <1>6, <1>7 DEF OrEmpty, Kept
<1>9. QED
  BY <1>2, <1>4, <1>8

\* A value of at most 255 bytes is written whole.
LEMMA ShortFits ==
  ASSUME NEW value \in Bytes, Len(value) <= 255
  PROVE  Fit(value) = value
<1>1. FitsIn(Fit(value), value)
  BY FitIs
<1>2. QED
  BY <1>1 DEF FitsIn

\* Four bytes.
LEMMA FourAre ==
  ASSUME NEW value \in Bytes, Len(value) = 4
  PROVE  value \in Octets
<1>1. value \in Seq(Byte)
  BY DEF Bytes
<1>2. value \in [1..4 -> Byte]
  <2>1. ASSUME NEW S, NEW s \in Seq(S), NEW n, Len(s) = n PROVE s \in [1..n -> S]
    BY <2>1
  <2>2. QED
    BY <1>1, <2>1, Zenon
<1>3. QED
  BY <1>2 DEF Octets

\* Addresses.
LEMMA AddressShown ==
  ASSUME NEW data, NEW full, NEW entries \in Seq(TlvRecord), NEW w,
         ReadUpTo(data, full, decode(data), entries, w),
         NEW tag, NEW j, OnlyAt(entries, tag, j), NEW value \in Bytes, Len(value) = 4,
         entries[j] = Tlv(tag, value)
  PROVE  /\ or_dash(LastOf(data, tag, {4})) \in {Dash, Dotted(value)}
         /\ or_dash(LastOf(data, tag, {4})) \in Bytes
<1>1. Len(entries) \in Nat
  OBVIOUS
<1>2. Fit(value) = value
  <2>1. Len(value) <= 255
    OBVIOUS
  <2>2. QED
    BY <2>1, ShortFits
<1>3. entries[j].value = value
  BY <1>2 DEF Tlv
<1>4. SoleAt(data, tag, {4}, entries, j, w)
  BY <1>1, SoleIs
<1>5. LastOf(data, tag, {4}) \in {<<>>, <<value>>}
  BY <1>3, <1>4 DEF SoleAt, Sole
<1>6. or_dash(LastOf(data, tag, {4})) \in {Dash, Dotted(value)}
  <2>1. <<value>>[1] = value
    OBVIOUS
  <2>2. or_dash(<<>>) = Dash
    BY DEF or_dash
  <2>3. or_dash(<<value>>) \in {Dash, Dotted(value)}
    BY <2>1 DEF or_dash
  <2>4. QED
    BY <1>5, <2>2, <2>3
<1>7. Dash \in Bytes
  <2>1. 45 \in Byte
    BY ByteDef
  <2>2. QED
    BY <2>1 DEF Dash, Bytes
<1>8. Dotted(value) \in Bytes
  <2>1. value \in Octets
    BY FourAre
  <2>2. format_value(value) = Dotted(value) /\ Stored(4, format_value(value))
    BY <2>1, StoredAddress
  <2>3. QED
    BY <2>2 DEF Stored
<1>9. QED
  BY <1>6, <1>7, <1>8

\* What is shown of the device is what it has, or nothing.
ShowsIp(result) ==
  /\ result.status = "ok"
  /\ \A f \in DOMAIN result.shown :
       result.shown[f] \in {Dash, Dotted(Cfg[f])} /\ result.shown[f] \in Bytes

\* Of an answer to get_ip each address is shown, or a dash.
LEMMA IpShown ==
  ASSUME NEW data, Prefix(data, get_ip_response(Cfg))
  PROVE  ShowsIp(Shown("get_ip", data))
<1>1. PICK e, full : e = IpEntries /\ full = get_ip_response(Cfg)
  OBVIOUS
<1>2. PayloadOf(full, e) /\ OnlyAt(e, 5, 1) /\ OnlyAt(e, 6, 2) /\ OnlyAt(e, 7, 3)
  BY <1>1, IpWritten
<1>3. e \in Seq(TlvRecord)
  BY <1>2, WrittenIs
<1>4. PICK w : ReadUpTo(data, full, decode(data), e, w)
  BY <1>1, <1>2, ReadWritten
<1>5. e[1] = Tlv(5, Cfg.ip) /\ e[2] = Tlv(6, Cfg.subnet_mask) /\ e[3] = Tlv(7, Cfg.gateway)
  BY <1>1 DEF IpEntries
<1>6. /\ or_dash(LastOf(data, 5, {4})) \in {Dash, Dotted(Cfg.ip)}
      /\ or_dash(LastOf(data, 5, {4})) \in Bytes
  BY <1>2, <1>3, <1>4, <1>5, CfgIs, AddressShown
<1>7. /\ or_dash(LastOf(data, 6, {4})) \in {Dash, Dotted(Cfg.subnet_mask)}
      /\ or_dash(LastOf(data, 6, {4})) \in Bytes
  BY <1>2, <1>3, <1>4, <1>5, CfgIs, AddressShown
<1>8. /\ or_dash(LastOf(data, 7, {4})) \in {Dash, Dotted(Cfg.gateway)}
      /\ or_dash(LastOf(data, 7, {4})) \in Bytes
  BY <1>2, <1>3, <1>4, <1>5, CfgIs, AddressShown
<1>9. PICK config : config = NetworkConfig(data)
  OBVIOUS
<1>10. /\ DOMAIN config = {"ip", "subnet_mask", "gateway"}
       /\ config["ip"] = LastOf(data, 5, {4}) /\ config["subnet_mask"] = LastOf(data, 6, {4})
       /\ config["gateway"] = LastOf(data, 7, {4})
  BY <1>9 DEF NetworkConfig
<1>11. PICK shown : shown = [f \in DOMAIN config |-> or_dash(config[f])]
  OBVIOUS
<1>12. Shown("get_ip", data) = [status |-> "ok", shown |-> shown]
  BY <1>9, <1>11 DEF Shown
<1>13. ASSUME NEW f \in DOMAIN shown PROVE shown[f] \in {Dash, Dotted(Cfg[f])} /\ shown[f] \in Bytes
  <2>1. f \in {"ip", "subnet_mask", "gateway"} /\ shown[f] = or_dash(config[f])
    BY <1>10, <1>11
  <2>2. CASE f = "ip"
    BY <1>6, <1>10, <2>1, <2>2
  <2>3. CASE f = "subnet_mask"
    BY <1>7, <1>10, <2>1, <2>3
  <2>4. CASE f = "gateway"
    BY <1>8, <1>10, <2>1, <2>4
  <2>5. QED
    BY <2>1, <2>2, <2>3, <2>4
<1>14. QED
  BY <1>12, <1>13 DEF ShowsIp

\* Of one to get_uuid the UUID, or an error.
LEMMA UuidShown ==
  ASSUME NEW data, Prefix(data, get_uuid_response(Cfg))
  PROVE  Shown("get_uuid", data) \in
           {[status |-> "MissingUuid", shown |-> <<>>],
            [status |-> "ok", shown |-> [uuid |-> hex_encode(Cfg.uuid)]]}
<1>1. PICK e, full, u : e = UuidEntries /\ full = get_uuid_response(Cfg) /\ u = Cfg.uuid
  OBVIOUS
<1>2. PayloadOf(full, e) /\ OnlyAt(e, 13, 1) /\ Len(e) = 1
  BY <1>1, UuidWritten
<1>3. PICK w : ReadUpTo(data, full, decode(data), e, w)
  BY <1>1, <1>2, ReadWritten
<1>4. Fit(u) = u /\ e[1] = Tlv(13, u)
  <2>1. u \in Bytes /\ Len(u) = 16
    BY <1>1, CfgIs
  <2>2. Len(u) <= 255
    BY <2>1
  <2>3. Fit(u) = u
    BY <2>1, <2>2, ShortFits
  <2>4. e[1] = Tlv(13, u)
    BY <1>1 DEF UuidEntries
  <2>5. QED
    BY <2>3, <2>4
<1>5. e[1].value = u /\ Len(e) \in Nat
  BY <1>2, <1>4 DEF Tlv
<1>6. SoleAt(data, 13, {UUID_LEN}, e, 1, w)
  BY <1>2, <1>3, <1>5, SoleIs
<1>7. FirstOf(data, 13, {UUID_LEN}) \in {<<>>, <<u>>}
  BY <1>5, <1>6 DEF SoleAt, Sole
<1>8. EachTo(hex_encode, <<>>) = <<>>
  <2>1. DOMAIN <<>> = {}
    OBVIOUS
  <2>2. EachTo(hex_encode, <<>>) = [k \in {} |-> hex_encode(<<>>[k])]
    BY <2>1 DEF EachTo
  <2>3. QED
    BY <2>2
<1>9. EachTo(hex_encode, <<u>>) # <<>> /\ EachTo(hex_encode, <<u>>)[1] = hex_encode(u)
  <2>1. DOMAIN <<u>> = 1..1 /\ <<u>>[1] = u /\ 1 \in 1..1
    OBVIOUS
  <2>2. EachTo(hex_encode, <<u>>) = [k \in 1..1 |-> hex_encode(<<u>>[k])]
    BY <2>1 DEF EachTo
  <2>3. EachTo(hex_encode, <<u>>)[1] = hex_encode(u)
    BY <2>1, <2>2
  <2>4. 1 \in DOMAIN EachTo(hex_encode, <<u>>)
    BY <2>1, <2>2
  <2>5. DOMAIN <<>> = {}
    OBVIOUS
  <2>6. QED
    BY <2>3, <2>4, <2>5
<1>10. Uuid(data) = <<>> \/ (Uuid(data) # <<>> /\ Uuid(data)[1] = hex_encode(u))
  BY <1>7, <1>8, <1>9 DEF Uuid
<1>11. Shown("get_uuid", data) =
         IF Uuid(data) = <<>> THEN [status |-> "MissingUuid", shown |-> <<>>]
         ELSE [status |-> "ok", shown |-> [uuid |-> Uuid(data)[1]]]
  BY DEF Shown
<1>12. QED
  BY <1>1, <1>10, <1>11

\* A model is text.
LEMMA ModelIs ==
  ASSUME NEW type \in Bytes, NEW id \in Bytes
  PROVE  combine_model(type, id) \in Bytes
<1>1. CASE id \in DOMAIN Products
  BY <1>1, DeviceAssumption DEF combine_model
<1>2. CASE id \notin DOMAIN Products /\ type # <<>> /\ id # <<>>
  <2>1. <<32, 40, 105, 100, 61>> \in Seq(Byte) /\ <<41>> \in Seq(Byte)
    <3>1. 32 \in Byte /\ 40 \in Byte /\ 105 \in Byte /\ 100 \in Byte /\ 61 \in Byte /\ 41 \in Byte
      BY ByteDef
    <3>2. QED
      BY <3>1
  <2>2. type \in Seq(Byte) /\ id \in Seq(Byte)
    BY DEF Bytes
  <2>3. type \o <<32, 40, 105, 100, 61>> \in Seq(Byte)
    BY <2>1, <2>2, ConcatIs
  <2>4. (type \o <<32, 40, 105, 100, 61>>) \o id \in Seq(Byte)
    BY <2>2, <2>3, ConcatIs
  <2>5. ((type \o <<32, 40, 105, 100, 61>>) \o id) \o <<41>> \in Seq(Byte)
    BY <2>1, <2>4, ConcatIs
  <2>6. combine_model(type, id) = ((type \o <<32, 40, 105, 100, 61>>) \o id) \o <<41>>
    BY <1>2 DEF combine_model
  <2>7. QED
    BY <2>5, <2>6 DEF Bytes
<1>3. CASE id \notin DOMAIN Products /\ type = <<>>
  <2>1. combine_model(type, id) = <<>>
    BY <1>3 DEF combine_model
  <2>2. QED
    BY <2>1 DEF Bytes
<1>4. CASE id \notin DOMAIN Products /\ type # <<>> /\ id = <<>>
  <2>1. combine_model(type, id) = type
    BY <1>4 DEF combine_model
  <2>2. QED
    BY <2>1
<1>5. QED
  BY <1>1, <1>2, <1>3, <1>4

\* What is made of a discovery reply of which w entries have arrived.
Discovered(w) ==
  [name |-> Kept(w, 6, Fit(Cfg.name)),
   model |-> combine_model(Kept(w, 5, Fit(Cfg.model)), Kept(w, 2, Fit(Cfg.device_id))),
   firmware |-> Kept(w, 4, Fit(Cfg.firmware)),
   hardware_rev |-> Kept(w, 3, Fit(Cfg.hardware)),
   state |-> Kept(w, 1, Fit(Cfg.state)),
   uuid |-> hex_encode(<<>>)]

\* What discovery records is what has arrived.
LEMMA DiscoveryRead ==
  ASSUME NEW data, NEW w,
         ReadUpTo(data, discovery_response(Cfg), decode(data), DiscoveryEntries, w)
  PROVE  parse_discovery_response(data) = Discovered(w)
<1>1. PICK e, full : e = DiscoveryEntries /\ full = discovery_response(Cfg)
  OBVIOUS
<1>2. ReadUpTo(data, full, decode(data), e, w)
  BY <1>1
<1>3. /\ OnlyAt(e, 12, 1) /\ OnlyAt(e, 11, 2) /\ OnlyAt(e, 10, 3) /\ OnlyAt(e, 9, 4)
      /\ OnlyAt(e, 3, 5) /\ OnlyAt(e, 2, 6) /\ \A k \in 1..6 : e[k].tag # 13
      /\ Len(e) = 6 /\ PayloadOf(full, e)
  BY <1>1, DiscoveryWritten
<1>4. e \in Seq(TlvRecord)
  BY <1>3, WrittenIs
<1>5. /\ e[1] = Tlv(12, Cfg.state) /\ e[2] = Tlv(11, Cfg.device_id) /\ e[3] = Tlv(10, Cfg.hardware)
      /\ e[4] = Tlv(9, Cfg.firmware) /\ e[5] = Tlv(3, Cfg.model) /\ e[6] = Tlv(2, Cfg.name)
  BY <1>1 DEF DiscoveryEntries
<1> DEFINE field(tag) == OrEmpty(LastOf(data, tag, Byte))
<1>6. field(12) = Kept(w, 1, Fit(Cfg.state))
  BY <1>2, <1>3, <1>4, <1>5, CfgIs, FieldIs
<1>7. field(11) = Kept(w, 2, Fit(Cfg.device_id))
  BY <1>2, <1>3, <1>4, <1>5, CfgIs, FieldIs
<1>8. field(10) = Kept(w, 3, Fit(Cfg.hardware))
  BY <1>2, <1>3, <1>4, <1>5, CfgIs, FieldIs
<1>9. field(9) = Kept(w, 4, Fit(Cfg.firmware))
  BY <1>2, <1>3, <1>4, <1>5, CfgIs, FieldIs
<1>10. field(3) = Kept(w, 5, Fit(Cfg.model))
  BY <1>2, <1>3, <1>4, <1>5, CfgIs, FieldIs
<1>11. field(2) = Kept(w, 6, Fit(Cfg.name))
  BY <1>2, <1>3, <1>4, <1>5, CfgIs, FieldIs
<1>12. field(13) = <<>>
  <2>1. Len(e) \in Nat /\ \A k \in 1..Len(e) : e[k].tag # 13
    BY <1>3
  <2>2. Sole(data, 13, Byte, <<>>)
    BY <1>2, <2>1, NoneIs
  <2>3. QED
    BY <2>2 DEF Sole, OrEmpty
<1>13. parse_discovery_response(data) =
         [name |-> field(2), model |-> combine_model(field(3), field(11)), firmware |-> field(9),
          hardware_rev |-> field(10), state |-> field(12), uuid |-> hex_encode(field(13))]
  BY DEF parse_discovery_response
<1> HIDE DEF field
<1>14. QED
  BY <1>6, <1>7, <1>8, <1>9, <1>10, <1>11, <1>12, <1>13 DEF Discovered

\* A part of the entries gives a part of what they all give.
LEMMA PartDiscovered ==
  ASSUME NEW w \in 0..6
  PROVE  \A f \in DOMAIN Discovered(w) :
           Discovered(w)[f] \in {<<>>, Discovered(6)[f]} /\ Discovered(w)[f] \in Bytes
<1>1. PICK a, b, c, d, type, id :
        /\ a = Fit(Cfg.name) /\ b = Fit(Cfg.firmware) /\ c = Fit(Cfg.hardware) /\ d = Fit(Cfg.state)
        /\ type = Fit(Cfg.model) /\ id = Fit(Cfg.device_id)
  OBVIOUS
<1>2. /\ a \in Bytes /\ b \in Bytes /\ c \in Bytes /\ d \in Bytes /\ type \in Bytes /\ id \in Bytes
      /\ <<>> \in Bytes
  <2>1. \A v \in Bytes : Fit(v) \in Bytes
    BY FitIs DEF FitsIn
  <2>2. <<>> \in Bytes
    BY DEF Bytes
  <2>3. /\ Cfg.name \in Bytes /\ Cfg.firmware \in Bytes /\ Cfg.hardware \in Bytes
        /\ Cfg.state \in Bytes /\ Cfg.model \in Bytes /\ Cfg.device_id \in Bytes
    BY CfgIs
  <2>4. QED
    BY <1>1, <2>1, <2>2, <2>3
<1>3. \A v \in Bytes : \A j \in 1..6 : Kept(w, j, v) \in {<<>>, v} /\ Kept(6, j, v) = v /\ Kept(w, j, v) \in Bytes
  BY <1>2 DEF Kept
<1> DEFINE model(k) == combine_model(Kept(k, 5, type), Kept(k, 2, id))
<1>4. model(6) = combine_model(type, id)
  BY <1>2, <1>3
<1>5. model(w) \in {<<>>, model(6)}
  <2>1. CASE w < 2
    <3>1. Kept(w, 5, type) = <<>> /\ Kept(w, 2, id) = <<>>
      BY <2>1 DEF Kept
    <3>2. combine_model(<<>>, <<>>) = <<>>
      BY DeviceAssumption DEF combine_model
    <3>3. QED
      BY <3>1, <3>2
  <2>2. CASE 2 <= w /\ w < 5
    <3>1. Kept(w, 5, type) = <<>> /\ Kept(w, 2, id) = id
      BY <2>2 DEF Kept
    <3>2. combine_model(<<>>, id) \in {<<>>, combine_model(type, id)}
      BY DEF combine_model
    <3>3. QED
      BY <1>4, <3>1, <3>2
  <2>3. CASE 5 <= w
    <3>1. Kept(w, 5, type) = type /\ Kept(w, 2, id) = id
      BY <2>3 DEF Kept
    <3>2. QED
      BY <1>4, <3>1
  <2>4. QED
    BY <2>1, <2>2, <2>3
<1>6. model(w) \in Bytes
  BY <1>2, <1>3, ModelIs
<1>7. PICK u : u = hex_encode(<<>>)
  OBVIOUS
<1>8. u \in Bytes
  BY <1>2, <1>7, HexIs
<1>9. \A k \in {w, 6} : Discovered(k) =
        [name |-> Kept(k, 6, a), model |-> model(k), firmware |-> Kept(k, 4, b),
         hardware_rev |-> Kept(k, 3, c), state |-> Kept(k, 1, d), uuid |-> u]
  BY <1>1, <1>7 DEF Discovered
<1> HIDE DEF model
<1>10. PICK x, y : x = Discovered(w) /\ y = Discovered(6)
  OBVIOUS
<1>11. /\ DOMAIN x = {"name", "model", "firmware", "hardware_rev", "state", "uuid"}
       /\ x["name"] = Kept(w, 6, a) /\ x["model"] = model(w) /\ x["firmware"] = Kept(w, 4, b)
       /\ x["hardware_rev"] = Kept(w, 3, c) /\ x["state"] = Kept(w, 1, d) /\ x["uuid"] = u
  BY <1>9, <1>10
<1>12. /\ y["name"] = Kept(6, 6, a) /\ y["model"] = model(6) /\ y["firmware"] = Kept(6, 4, b)
       /\ y["hardware_rev"] = Kept(6, 3, c) /\ y["state"] = Kept(6, 1, d) /\ y["uuid"] = u
  BY <1>9, <1>10
<1>13. ASSUME NEW f \in DOMAIN x PROVE x[f] \in {<<>>, y[f]} /\ x[f] \in Bytes
  <2>1. f \in {"name", "model", "firmware", "hardware_rev", "state", "uuid"}
    BY <1>11
  <2>2. CASE f = "name"
    BY <1>2, <1>3, <1>11, <1>12, <2>2
  <2>3. CASE f = "model"
    BY <1>5, <1>6, <1>11, <1>12, <2>3
  <2>4. CASE f = "firmware"
    BY <1>2, <1>3, <1>11, <1>12, <2>4
  <2>5. CASE f = "hardware_rev"
    BY <1>2, <1>3, <1>11, <1>12, <2>5
  <2>6. CASE f = "state"
    BY <1>2, <1>3, <1>11, <1>12, <2>6
  <2>7. CASE f = "uuid"
    BY <1>8, <1>11, <1>12, <2>7
  <2>8. QED
    BY <2>1, <2>2, <2>3, <2>4, <2>5, <2>6, <2>7
<1>14. QED
  BY <1>10, <1>13

\* What is recorded of the device is what it has, or nothing.
ShowsDevice(shown) ==
  \A f \in DOMAIN shown :
    shown[f] \in {<<>>, parse_discovery_response(discovery_response(Cfg))[f]} /\ shown[f] \in Bytes

\* Of an answer to discovery each field is shown, or nothing.
LEMMA DeviceShown ==
  ASSUME NEW data, Prefix(data, discovery_response(Cfg))
  PROVE  ShowsDevice(parse_discovery_response(data))
<1>1. PICK e, full : e = DiscoveryEntries /\ full = discovery_response(Cfg)
  OBVIOUS
<1>2. PayloadOf(full, e) /\ Len(e) = 6
  BY <1>1, DiscoveryWritten
<1>3. full \in Bytes
  BY <1>2, WrittenIs
<1>4. PICK w : ReadUpTo(data, full, decode(data), e, w)
  BY <1>1, <1>2, ReadWritten
<1>5. w \in 0..6 /\ parse_discovery_response(data) = Discovered(w)
  <2>1. w \in 0..6
    BY <1>2, <1>4 DEF ReadUpTo
  <2>2. QED
    BY <1>1, <1>4, <2>1, DiscoveryRead
<1>6. Prefix(full, full)
  BY <1>3 DEF Prefix, Bytes
<1>7. PICK v : ReadUpTo(full, full, decode(full), e, v)
  BY <1>2, <1>6, ReadWritten
<1>8. v = 6
  BY <1>2, <1>7 DEF ReadUpTo
<1>9. parse_discovery_response(full) = Discovered(6)
  BY <1>1, <1>7, <1>8, DiscoveryRead
<1>10. \A f \in DOMAIN Discovered(w) :
         Discovered(w)[f] \in {<<>>, Discovered(6)[f]} /\ Discovered(w)[f] \in Bytes
  BY <1>5, PartDiscovered
<1>11. QED
  BY <1>1, <1>5, <1>9, <1>10 DEF ShowsDevice

-----------------------------------------------------------------------------
(* What an outcome shows.                                                  *)

\* What an outcome shows is text, and the device's.
Proper(o, message) ==
  /\ o.status \in Statuses
  /\ \A k \in DOMAIN o.shown : o.shown[k] \in Bytes
  /\ o.op = "get_ip" /\ o.status = "ok" =>
       \A f \in DOMAIN o.shown : o.shown[f] \in {Dash, Dotted(Cfg[f])}
  /\ o.op = "get_uuid" /\ o.status = "ok" => o.shown.uuid = hex_encode(Cfg.uuid)
  /\ o.op = "discover" /\ o.status = "ok" =>
       \A f \in DOMAIN o.shown :
         o.shown[f] \in {<<>>, parse_discovery_response(discovery_response(Cfg))[f]}
  /\ o.status = "Device" => o.shown.message = message

Explanation(k) == Fit(k.fail_message)

\* What a device says of its failure is text.
LEMMA ExplanationIsText ==
  ASSUME NEW k \in Knobs
  PROVE  Explanation(k) \in Bytes
<1>1. k.fail_message \in Bytes
  BY DeviceAssumption DEF IsKnobs
<1>2. QED
  BY <1>1, FitIs DEF FitsIn, Explanation

\* An outcome that shows nothing, or something other than an answer to a question.
LEMMA PlainIsProper ==
  ASSUME NEW op, NEW asked, NEW status \in Statuses \ {"Device"}, NEW shown,
         Done(op, asked, status, shown), NEW message,
         \/ shown = <<>> /\ status # "ok"
         \/ /\ \A k \in DOMAIN shown : shown[k] \in Bytes
            /\ op \notin {"get_ip", "get_uuid", "discover"}
  PROVE  Proper(outcome', message)
<1>1. /\ outcome'.op = op /\ outcome'.status = status /\ outcome'.shown = shown
  BY DEF Done
<1>2. \A k \in DOMAIN shown : shown[k] \in Bytes
  <2>1. DOMAIN <<>> = {}
    OBVIOUS
  <2>2. QED
    BY <2>1
<1>3. QED
  BY <1>1, <1>2 DEF Proper

\* A refusal.
LEMMA RefusalIsProper ==
  ASSUME knobs \in Knobs, NEW r, Refused(r), NEW op, NEW asked,
         Done(op, asked, Refusal(r).status, Refusal(r).shown)
  PROVE  Proper(outcome', Explanation(knobs))
<1>1. PICK status, shown : status = Refusal(r).status /\ shown = Refusal(r).shown
  OBVIOUS
<1>2. PICK message : message = Explanation(knobs)
  OBVIOUS
<1>3. message \in Bytes
  BY <1>2, ExplanationIsText
<1>4. \/ status = "DeviceNoMessage" /\ shown = <<>>
      \/ status = "Device" /\ shown = [message |-> message]
  BY <1>1, <1>2 DEF Refused, Explanation
<1>5. Done(op, asked, status, shown)
  BY <1>1
<1>6. CASE status = "DeviceNoMessage" /\ shown = <<>>
  <2>1. status \in Statuses \ {"Device"} /\ status # "ok"
    BY <1>6 DEF Statuses
  <2>2. QED
    BY <1>5, <1>6, <2>1, PlainIsProper
<1>7. CASE status = "Device" /\ shown = [message |-> message]
  <2>1. outcome'.status = "Device" /\ outcome'.shown = [message |-> message]
    BY <1>5, <1>7 DEF Done
  <2>2. DOMAIN [message |-> message] = {"message"} /\ [message |-> message].message = message
        /\ [message |-> message]["message"] = message
    OBVIOUS
  <2>3. \A k \in DOMAIN outcome'.shown : outcome'.shown[k] \in Bytes
    BY <1>3, <2>1, <2>2
  <2>4. "Device" \in Statuses
    BY DEF Statuses
  <2>5. QED
    BY <1>2, <2>1, <2>2, <2>3, <2>4 DEF Proper
<1>8. QED
  BY <1>4, <1>6, <1>7

\* What a get shows.
LEMMA ReadIsProper ==
  ASSUME knobs \in Knobs, Held(working), NEW names, NEW result \in GetResults(names)
  PROVE  /\ result.status \in Statuses \ {"Device"}
         /\ \A key \in DOMAIN result.config : result.config[key] \in Bytes
<1>1. GetIs(result, working, names, knobs.extra)
  BY GetComesOf DEF Held
<1>2. result.status \in Statuses \ {"Device"}
  BY <1>1 DEF GetIs, ResultStatuses, Statuses
<1>3. CASE result.status # "ok"
  <2>1. result.config = <<>>
    BY <1>1, <1>3 DEF GetIs
  <2>2. DOMAIN <<>> = {}
    OBVIOUS
  <2>3. QED
    BY <1>2, <2>1, <2>2
<1>4. CASE result.status = "ok"
  <2>1. TrueConfig(result.config, working, RequestedRows(names), knobs.extra)
    BY <1>1, <1>4 DEF GetIs
  <2>2. RequestedRows(names) \subseteq Rows
    BY ByNameIs DEF RequestedRows
  <2>3. \A p \in Rows : working[p.name] \in Bytes
    BY HeldItemIs DEF Held
  <2>4. \A i \in ToSet(knobs.extra) : hex_encode(i.value) \in Bytes
    BY ExtraName
  <2>5. QED
    BY <1>2, <2>1, <2>2, <2>3, <2>4 DEF TrueConfig
<1>5. QED
  BY <1>3, <1>4

\* What a set shows.
LEMMA WriteIsProper ==
  ASSUME knobs \in Knobs, NEW config, NEW base, Write(config, base)
  PROVE  Proper(outcome', Explanation(knobs))
<1> DEFINE payload == set_data_payload(Extend(base, config))
<1>1. \/ Done("set", config, "Encode", <<>>)
      \/ Done("set", config, "Cancelled", <<>>)
      \/ Done("set", config, "ok", <<>>)
      \/ \E r \in Received("SET_DATA", payload) :
           /\ r.method \notin {"SET_DATA", "GET_DATA", "GET_IP"}
           /\ Done("set", config, Refusal(r).status, Refusal(r).shown)
  BY DEF Write
<1>2. ASSUME NEW status \in {"Encode", "Cancelled", "ok"}, Done("set", config, status, <<>>)
      PROVE  Proper(outcome', Explanation(knobs))
  <2>1. status \in Statuses \ {"Device"}
    BY DEF Statuses
  <2>2. DOMAIN <<>> = {}
    OBVIOUS
  <2>3. (\A k \in DOMAIN <<>> : <<>>[k] \in Bytes) /\ "set" \notin {"get_ip", "get_uuid", "discover"}
    BY <2>2
  <2>4. QED
    BY <1>2, <2>1, <2>3, PlainIsProper
<1>3. ASSUME NEW r \in Received("SET_DATA", payload),
             r.method \notin {"SET_DATA", "GET_DATA", "GET_IP"},
             Done("set", config, Refusal(r).status, Refusal(r).shown)
      PROVE  Proper(outcome', Explanation(knobs))
  <2>1. "SET_DATA" \in Methods
    BY DEF Methods
  <2>2. r.method = "ERROR"
    BY <1>3, <2>1, AnswersOwn
  <2>3. Refused(r)
    BY <2>1, <2>2, RefusalIs
  <2>4. QED
    BY <1>3, <2>3, RefusalIsProper
<1>4. QED
  BY <1>1, <1>2, <1>3

\* What an expected answer to a question shows.
LEMMA ShownIs ==
  ASSUME knobs \in Knobs, NEW op, NEW method,
         <<op, method>> \in {<<"get_ip", "GET_IP">>, <<"get_uuid", "GET_UUID">>, <<"discover", "ADV_DISC">>},
         NEW data, Prefix(data, Response(method)), NEW result, result = Shown(op, data),
         Done(op, <<>>, result.status, result.shown)
  PROVE  Proper(outcome', Explanation(knobs))
<1>1. PICK status, shown : status = result.status /\ shown = result.shown
  OBVIOUS
<1>2. /\ outcome'.op = op /\ outcome'.status = status /\ outcome'.shown = shown
      /\ Done(op, <<>>, status, shown)
  BY <1>1 DEF Done
<1>3. {"ok", "MissingUuid"} \subseteq Statuses \ {"Device"}
  BY DEF Statuses
<1>4. CASE op = "get_ip"
  <2>1. Response(method) = get_ip_response(Cfg)
    BY <1>4 DEF Response
  <2>2. ShowsIp(result)
    BY <1>4, <2>1, IpShown
  <2>3. status = "ok" /\ \A f \in DOMAIN shown : shown[f] \in {Dash, Dotted(Cfg[f])} /\ shown[f] \in Bytes
    BY <1>1, <2>2 DEF ShowsIp
  <2>4. QED
    BY <1>2, <1>3, <1>4, <2>3 DEF Proper
<1>5. CASE op = "get_uuid"
  <2>1. Response(method) = get_uuid_response(Cfg)
    BY <1>5 DEF Response
  <2>2. PICK u : u = hex_encode(Cfg.uuid)
    OBVIOUS
  <2>3. result \in {[status |-> "MissingUuid", shown |-> <<>>], [status |-> "ok", shown |-> [uuid |-> u]]}
    BY <1>5, <2>1, <2>2, UuidShown
  <2>4. \/ status = "MissingUuid" /\ shown = <<>>
        \/ status = "ok" /\ shown = [uuid |-> u]
    BY <1>1, <2>3
  <2>5. u \in Bytes
    BY <2>2, CfgIs, HexIs
  <2>6. CASE status = "MissingUuid" /\ shown = <<>>
    <3>1. status \in Statuses \ {"Device"} /\ status # "ok"
      BY <1>3, <2>6
    <3>2. QED
      BY <1>2, <2>6, <3>1, PlainIsProper
  <2>7. CASE status = "ok" /\ shown = [uuid |-> u]
    <3>1. shown.uuid = u /\ \A k \in DOMAIN shown : shown[k] \in Bytes
      BY <2>5, <2>7
    <3>2. QED
      BY <1>2, <1>3, <1>5, <2>2, <2>7, <3>1 DEF Proper
  <2>8. QED
    BY <2>4, <2>6, <2>7
<1>6. CASE op = "discover"
  <2>1. Response(method) = discovery_response(Cfg)
    BY <1>6 DEF Response
  <2>2. ShowsDevice(parse_discovery_response(data))
    BY <2>1, DeviceShown
  <2>3. status = "ok" /\ shown = parse_discovery_response(data)
    BY <1>1, <1>6 DEF Shown
  <2>4. \A f \in DOMAIN shown :
          shown[f] \in {<<>>, parse_discovery_response(discovery_response(Cfg))[f]} /\ shown[f] \in Bytes
    BY <2>2, <2>3 DEF ShowsDevice
  <2>5. QED
    BY <1>2, <1>3, <1>6, <2>3, <2>4 DEF Proper
<1>7. op = "get_ip" \/ op = "get_uuid" \/ op = "discover"
  OBVIOUS
<1>8. QED
  BY <1>4, <1>5, <1>6, <1>7

\* Any answer to a question.
LEMMA QueryIsProper ==
  ASSUME knobs \in Knobs, NEW op, NEW method,
         <<op, method>> \in {<<"get_ip", "GET_IP">>, <<"get_uuid", "GET_UUID">>, <<"discover", "ADV_DISC">>},
         Query(op, method)
  PROVE  Proper(outcome', Explanation(knobs))
<1>1. \/ Done(op, <<>>, "Cancelled", <<>>)
      \/ \E r \in Received(method, <<>>) :
           \/ r.method = method /\ Done(op, <<>>, Shown(op, r.payload).status, Shown(op, r.payload).shown)
           \/ r.method # method /\ Done(op, <<>>, Refusal(r).status, Refusal(r).shown)
  BY DEF Query
<1>2. method \in Questions
  BY DEF Questions
<1>3. CASE Done(op, <<>>, "Cancelled", <<>>)
  <2>1. "Cancelled" \in Statuses \ {"Device"}
    BY DEF Statuses
  <2>2. QED
    BY <1>3, <2>1, PlainIsProper
<1>4. ASSUME NEW r \in Received(method, <<>>), r.method = method,
             Done(op, <<>>, Shown(op, r.payload).status, Shown(op, r.payload).shown)
      PROVE  Proper(outcome', Explanation(knobs))
  <2>1. Prefix(r.payload, Response(method))
    <3>1. method # "ERROR"
      BY <1>2 DEF Questions
    <3>2. QED
      BY <1>2, <1>4, <3>1, ReplyToQuestion
  <2>2. QED
    BY <1>4, <2>1, ShownIs
<1>5. ASSUME NEW r \in Received(method, <<>>), r.method # method,
             Done(op, <<>>, Refusal(r).status, Refusal(r).shown)
      PROVE  Proper(outcome', Explanation(knobs))
  <2>1. Refused(r)
    BY <1>2, <1>5, ReplyToQuestion
  <2>2. QED
    BY <1>5, <2>1, RefusalIsProper
<1>6. QED
  BY <1>1, <1>3, <1>4, <1>5

\* A MAC address.
LEMMA MacIsText ==
  ASSUME NEW text \in MacTexts, Mac(text) # <<>>
  PROVE  MacText(Mac(text)[1]) \in Bytes
<1>1. text \in Bytes
  BY UsageAssumption
<1>2. PICK shown : shown = [i \in DOMAIN text |-> LowerCase(text[i])]
  OBVIOUS
<1>3. MacText(Mac(text)[1]) = shown
  BY <1>1, <1>2, MacTextIs
<1>4. \A c \in Byte : LowerCase(c) \in Byte
  <2>1. SUFFICES ASSUME NEW c \in Byte PROVE LowerCase(c) \in Byte
    OBVIOUS
  <2>2. c \in Int /\ 0 <= c /\ c <= 255
    BY ByteDef
  <2>3. PICK d : d = LowerCase(c)
    OBVIOUS
  <2>4. d = c \/ (c <= 90 /\ d = c + 32)
    BY <2>2, <2>3 DEF LowerCase
  <2>5. d \in Int /\ 0 <= d /\ d <= 255
    BY <2>2, <2>4
  <2>6. QED
    BY <2>3, <2>5, ByteDef
<1>5. text \in Seq(Byte)
  BY <1>1 DEF Bytes
<1>6. Len(text) \in Nat /\ DOMAIN text = 1..Len(text) /\ \A i \in 1..Len(text) : text[i] \in Byte
  BY <1>5
<1>7. PICK n : n = Len(text)
  OBVIOUS
<1>8. n \in Nat /\ shown = [i \in 1..n |-> LowerCase(text[i])]
      /\ \A i \in 1..n : LowerCase(text[i]) \in Byte
  BY <1>2, <1>4, <1>6, <1>7
<1>9. shown \in Seq(Byte)
  BY <1>8
<1>10. QED
  BY <1>3, <1>9 DEF Bytes

\* What the last outcome shows is the device's, in every state.
Truthful == Proper(outcome, Explanation(knobs))

\* At the start nothing is shown.
LEMMA StartIsTruthful ==
  ASSUME Init
  PROVE  Truthful
<1>1. outcome.op = "none" /\ outcome.status = "ok" /\ outcome.shown = <<>>
  BY DEF Init
<1>2. DOMAIN <<>> = {} /\ "ok" \in Statuses
  BY DEF Statuses
<1>3. QED
  BY <1>1, <1>2 DEF Truthful, Proper

\* What a user types.
LEMMA TypedIsProper ==
  ASSUME Validate \/ ParseMac
  PROVE  Proper(outcome', Explanation(knobs))
<1>1. {"ok", "Invalid"} \subseteq Statuses \ {"Device"}
  BY DEF Statuses
<1>2. \A k \in DOMAIN <<>> : <<>>[k] \in Bytes
  <2>1. DOMAIN <<>> = {}
    OBVIOUS
  <2>2. QED
    BY <2>1
<1>3. CASE Validate
  <2>1. PICK e \in Entries :
          Done("validate", [n \in {e[1]} |-> e[2]],
               IF validate_parameter(e[1], e[2]) THEN "ok" ELSE "Invalid", <<>>)
    BY <1>3 DEF Validate
  <2>2. PICK asked, status : /\ asked = [n \in {e[1]} |-> e[2]]
                             /\ status = IF validate_parameter(e[1], e[2]) THEN "ok" ELSE "Invalid"
    OBVIOUS
  <2>3. Done("validate", asked, status, <<>>) /\ status \in {"ok", "Invalid"}
    BY <2>1, <2>2
  <2>4. QED
    BY <1>1, <1>2, <2>3, PlainIsProper
<1>4. CASE ParseMac
  <2>1. PICK text \in MacTexts :
          IF Mac(text) = <<>> THEN Done("mac", [text |-> text], "Invalid", <<>>)
          ELSE Done("mac", [text |-> text], "ok", [mac |-> MacText(Mac(text)[1])])
    BY <1>4 DEF ParseMac
  <2>2. CASE Mac(text) = <<>>
    <3>1. Done("mac", [text |-> text], "Invalid", <<>>)
      BY <2>1, <2>2
    <3>2. QED
      BY <1>1, <1>2, <3>1, PlainIsProper
  <2>3. CASE Mac(text) # <<>>
    <3>1. PICK shown : shown = MacText(Mac(text)[1])
      OBVIOUS
    <3>2. shown \in Bytes
      BY <2>3, <3>1, MacIsText
    <3>3. Done("mac", [text |-> text], "ok", [mac |-> shown])
      BY <2>1, <2>3, <3>1
    <3>4. \A k \in DOMAIN [mac |-> shown] : [mac |-> shown][k] \in Bytes
      BY <3>2
    <3>5. QED
      BY <1>1, <3>3, <3>4, PlainIsProper
  <2>4. QED
    BY <2>2, <2>3
<1>5. QED
  BY <1>3, <1>4

\* The steps that write and read.
LEMMA SetIsProper ==
  ASSUME knobs \in Knobs, Held(working), Set
  PROVE  Proper(outcome', Explanation(knobs))
<1>1. PICK config \in Configs :
        \/ \E base : Write(config, base)
        \/ \E result \in GetResults(ParameterNames) :
             result.status # "ok" /\ Done("set", config, result.status, <<>>)
  BY DEF Set
<1>2. CASE \E base : Write(config, base)
  BY <1>2, WriteIsProper
<1>3. CASE \E result \in GetResults(ParameterNames) :
             result.status # "ok" /\ Done("set", config, result.status, <<>>)
  <2>1. PICK result \in GetResults(ParameterNames) :
          result.status # "ok" /\ Done("set", config, result.status, <<>>)
    BY <1>3
  <2>2. result.status \in Statuses \ {"Device"}
    BY ReadIsProper
  <2>3. PICK status : status = result.status
    OBVIOUS
  <2>4. status \in Statuses \ {"Device"} /\ status # "ok" /\ Done("set", config, status, <<>>)
    BY <2>1, <2>2, <2>3
  <2>5. QED
    BY <2>4, PlainIsProper
<1>4. QED
  BY <1>1, <1>2, <1>3

\* A get has a proper outcome.
LEMMA GetIsProper ==
  ASSUME knobs \in Knobs, Held(working), Get \/ GetAll
  PROVE  Proper(outcome', Explanation(knobs))
<1>1. PICK names : \E result \in GetResults(names) :
        Done("get", Nothing(names), result.status, result.config)
  BY DEF Get, GetAll
<1>2. PICK result \in GetResults(names) : Done("get", Nothing(names), result.status, result.config)
  BY <1>1
<1>3. PICK status, config : status = result.status /\ config = result.config
  OBVIOUS
<1>4. status \in Statuses \ {"Device"} /\ \A key \in DOMAIN config : config[key] \in Bytes
  BY <1>3, ReadIsProper
<1>5. Done("get", Nothing(names), status, config)
  BY <1>2, <1>3
<1>6. "get" \notin {"get_ip", "get_uuid", "discover"}
  OBVIOUS
<1>7. QED
  BY <1>4, <1>5, <1>6, PlainIsProper

\* So has a reset.
LEMMA ResetIsProper ==
  ASSUME knobs \in Knobs, Reset
  PROVE  Proper(outcome', Explanation(knobs))
<1>1. \/ Done("reset", <<>>, "ok", <<>>)
      \/ \E r \in Received("RESET", <<>>) :
           r.method # "RESET" /\ Done("reset", <<>>, Refusal(r).status, Refusal(r).shown)
  BY DEF Reset
<1>2. CASE Done("reset", <<>>, "ok", <<>>)
  <2>1. DOMAIN <<>> = {} /\ "ok" \in Statuses \ {"Device"}
    BY DEF Statuses
  <2>2. (\A k \in DOMAIN <<>> : <<>>[k] \in Bytes) /\ "reset" \notin {"get_ip", "get_uuid", "discover"}
    BY <2>1
  <2>3. QED
    BY <1>2, <2>1, <2>2, PlainIsProper
<1>3. ASSUME NEW r \in Received("RESET", <<>>), r.method # "RESET",
             Done("reset", <<>>, Refusal(r).status, Refusal(r).shown)
      PROVE  Proper(outcome', Explanation(knobs))
  <2>1. "RESET" \in Methods /\ "RESET" # "GET_DATA"
    BY DEF Methods
  <2>2. r.method = "ERROR"
    BY <1>3, <2>1, AnswersOwn
  <2>3. Refused(r)
    BY <2>1, <2>2, RefusalIs
  <2>4. QED
    BY <1>3, <2>3, RefusalIsProper
<1>4. QED
  BY <1>1, <1>2, <1>3

\* Every step shows the device, or leaves what was shown; new firmware keeps
\* the explanation.
LEMMA TruthfulStep ==
  ASSUME IInv, Truthful, [Next]_vars
  PROVE  Truthful'
<1>1. knobs \in Knobs /\ Held(working)
  BY DEF IInv, Agreement
<1>2. CASE Upgrade
  <2>1. outcome' = outcome /\ knobs' = [knobs EXCEPT !.extra = knobs'.extra]
    BY <1>2 DEF Upgrade
  <2>2. "fail_message" # "extra" /\ "fail_message" \in DOMAIN knobs
    BY <1>1, DeviceAssumption DEF IsKnobs
  <2>3. knobs'.fail_message = knobs.fail_message
    BY <2>1, <2>2
  <2>4. Explanation(knobs') = Explanation(knobs)
    BY <2>3 DEF Explanation
  <2>5. QED
    BY <2>1, <2>4 DEF Truthful
<1>3. CASE UNCHANGED vars
  BY <1>3 DEF Truthful, vars
<1>4. ASSUME Next, ~Upgrade PROVE knobs' = knobs /\ Proper(outcome', Explanation(knobs))
  <2>1. CASE Get \/ GetAll
    BY <1>1, <2>1, GetIsProper DEF Get, GetAll
  <2>2. CASE Set
    BY <1>1, <2>2, SetIsProper DEF Set
  <2>3. CASE Reset
    BY <1>1, <2>3, ResetIsProper DEF Reset
  <2>4. CASE GetIp \/ GetUuid \/ Discover
    <3>1. ASSUME NEW op, NEW method, Query(op, method) PROVE knobs' = knobs
      BY <3>1 DEF Query
    <3>2. CASE Query("get_ip", "GET_IP")
      BY <1>1, <3>1, <3>2, QueryIsProper
    <3>3. CASE Query("get_uuid", "GET_UUID")
      BY <1>1, <3>1, <3>3, QueryIsProper
    <3>4. CASE Query("discover", "ADV_DISC")
      BY <1>1, <3>1, <3>4, QueryIsProper
    <3>5. QED
      BY <2>4, <3>2, <3>3, <3>4 DEF GetIp, GetUuid, Discover
  <2>5. CASE Validate \/ ParseMac
    BY <2>5, TypedIsProper DEF Validate, ParseMac
  <2>6. QED
    BY <1>4, <2>1, <2>2, <2>3, <2>4, <2>5 DEF Next
<1>5. QED
  BY <1>2, <1>3, <1>4 DEF Truthful

\* So does what the outcomes show.
LEMMA AlwaysTruthful == Spec => [](IInv /\ Truthful)
<1>1. Init => IInv /\ Truthful
  BY StartIs, StartIsTruthful
<1>2. IInv /\ Truthful /\ [Next]_vars => (IInv /\ Truthful)'
  BY StepIs, TruthfulStep
<1>3. QED
  BY <1>1, <1>2, PTL DEF Spec

\* No address, UUID, name or explanation is made up from a part of it: of a reply
\* that was cut, each field is the device's own or missing (tlv.rs, decode, and the
\* readers in ops/getip.rs, ops/getuuid.rs, ops/mod.rs and client.rs).
THEOREM NothingIsInvented == Spec => []NothingInvented
<1>1. Truthful => NothingInvented
  BY DEF Truthful, Proper, NothingInvented, Explanation
<1>2. QED
  BY <1>1, AlwaysTruthful, PTL

\* Types: the memories, records and everything that is shown are texts under the
\* names of the table, the seed and the answers, for all values of the constants.
THEOREM ExchangeTypeCorrect == Spec => []TypeOK
<1>1. IInv /\ Truthful => TypeOK
  BY DEF IInv, Agreement, Held, Record, Truthful, Proper, TypeOK
<1>2. QED
  BY <1>1, AlwaysTruthful, PTL
=============================================================================
