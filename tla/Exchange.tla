------------------------------- MODULE Exchange -------------------------------
(***************************************************************************)
(* One client and one virtual device at the level of bytes: what each      *)
(* operation sends, what the device makes of it, and what the client makes *)
(* of the answer, whole or cut short.                                      *)
(*                                                                         *)
(*   the operations   crates/udap/src/ops, client.rs                       *)
(*   the device       crates/mocksbr/src/{network,state,device}.rs         *)
(*                                                                         *)
(* An operation is one step: nothing else goes on meanwhile, and every     *)
(* reply arrives.  Waiting, loss and interleaving are UdapOps' subject.    *)
(***************************************************************************)
EXTENDS Codecs

CONSTANTS
  Cfg,        \* the DeviceConfig: identity and addresses
  Knobs,      \* its settings that may be in force: see IsKnobs
  Seed,       \* DeviceConfig.nvram, over the factory defaults
  Cuts,       \* lengths a reply's payload may be cut to
  Requested,  \* the sets of names passed to get
  Configs,    \* the maps passed to set
  Entries,    \* what users type for a parameter: pairs of name and text
  MacTexts    \* and for a MAC address

Op == {"Discover", "Get", "Set", "Save", "Reset", "GetIp", "GetUuid"}
Malformed == {"None", "OversizedCount", "LengthExceedsPayload", "UnknownMethod"}

\* extra stands for firmware that answers with more than was asked for.
IsKnobs(k) ==
  /\ k \in [unreachable : BOOLEAN, drop_get_ip : BOOLEAN, drop_get_uuid : BOOLEAN,
            fail_on : SUBSET Op, fail_message : Bytes, malformed : Malformed,
            extra : Seq([offset : U16, value : Bytes])]
  /\ \A i \in ToSet(k.extra) : by_offset(i.offset) = {} /\ Len(i.value) \in U16

ParameterNames == {p.name : p \in Rows}

ASSUME TableAssumption ==
  /\ PARAMETERS \in Seq(Rows)
  /\ \A p \in Rows : p.offset \in U16 /\ p.length \in U16 \ {0} /\ Stored(p.length, p.factory_default)
  /\ \A p, q \in Rows : p.name = q.name \/ p.offset = q.offset => p = q
  /\ \A a \in DOMAIN ALIASES : a \notin ParameterNames /\ ALIASES[a] \in ParameterNames

ASSUME NameAssumption ==
  /\ \A offset \in U16 : Synthetic(SyntheticName(offset))
  /\ \A n \in ParameterNames \cup DOMAIN ALIASES : ~Synthetic(n)

ASSUME DeviceAssumption ==
  /\ \A k \in Knobs : IsKnobs(k) /\ Len(PARAMETERS) + Len(k.extra) \in U16
  /\ \A n \in DOMAIN Seed : Seed[n] \in Bytes
  /\ \A p \in Rows : p.name \in DOMAIN Seed => Stored(p.length, Seed[p.name])
  /\ {Cfg.name, Cfg.model, Cfg.device_id, Cfg.firmware, Cfg.hardware, Cfg.state, Cfg.uuid,
      Cfg.ip, Cfg.subnet_mask, Cfg.gateway} \subseteq Bytes
  /\ Len(Cfg.uuid) = UUID_LEN
  /\ \A address \in {Cfg.ip, Cfg.subnet_mask, Cfg.gateway} : Len(address) = 4
  /\ <<>> \notin DOMAIN Products /\ \A id \in DOMAIN Products : Products[id] \in Bytes

\* A parameter is not set under two names at once.  What is typed on a command
\* line holds no NUL.
ASSUME UsageAssumption ==
  /\ \A config \in Configs \cup {Seed} : DOMAIN config \cap DOMAIN ALIASES = {}
  /\ \A config \in Configs : \A n \in DOMAIN config : config[n] \in Bytes
  /\ \A e \in Entries : e[2] \in Seq(Byte \ {0})
  /\ MacTexts \subseteq Bytes

VARIABLES
  knobs,       \* the settings in force
  working,     \* DeviceState.working
  nvram,       \* DeviceState.nvram
  parameters,  \* Device.parameters of the Device the client holds
  outcome      \* the last operation: what it was asked, and what came of it

vars == <<knobs, working, nvram, parameters, outcome>>

Init ==
  /\ knobs \in Knobs
  /\ working = Extend([n \in ParameterNames |->
                         (CHOOSE p \in by_name(n) : TRUE).factory_default], Seed)
  /\ nvram = working
  /\ parameters = <<>>
  /\ outcome = [op |-> "none", status |-> "ok", asked |-> <<>>, shown |-> <<>>]

Done(op, asked, status, shown) ==
  outcome' = [op |-> op, status |-> status, asked |-> asked, shown |-> shown]

(***************************************************************************)
(* The device.                                                             *)
(***************************************************************************)
OpOf(method) ==
  CASE method = "ADV_DISC" -> "Discover" [] method = "GET_DATA" -> "Get"
    [] method = "SET_DATA" -> "Set" [] method = "RESET" -> "Reset"
    [] method = "GET_IP" -> "GetIp" [] method = "GET_UUID" -> "GetUuid"

\* Set and Save are one method: to fail either is to fail both.
fails_on(op) ==
  op \in knobs.fail_on \/ (op \in {"Set", "Save"} /\ {"Set", "Save"} \cap knobs.fail_on # {})

Silent(method) ==
  \/ knobs.unreachable
  \/ method = "ADV_DISC" /\ fails_on("Discover")
  \/ method = "GET_IP" /\ knobs.drop_get_ip /\ ~fails_on("GetIp")
  \/ method = "GET_UUID" /\ knobs.drop_get_uuid /\ ~fails_on("GetUuid")

\* Mutant of Obeys: the request is carried out before it is refused.
Obeys_First(method) == ~knobs.unreachable

Obeys(method) == ~knobs.unreachable /\ ~fails_on(OpOf(method))

Answer(method, payload) ==
  IF fails_on(OpOf(method))
  THEN [method |-> "ERROR", payload |-> error_response(knobs.fail_message)]
  ELSE
    [method |-> IF method = "GET_DATA" /\ knobs.malformed = "UnknownMethod" THEN "UNRECOGNISED" ELSE method,
     payload |->
       CASE method = "ADV_DISC" -> discovery_response(Cfg)
         [] method = "GET_IP" -> get_ip_response(Cfg)
         [] method = "GET_UUID" -> get_uuid_response(Cfg)
         [] method = "SET_DATA" -> set_data_response(payload)
         [] method = "RESET" -> <<>>
         [] method = "GET_DATA" ->
              get_data_response(knobs.malformed,
                Answers(working, payload) \o EachTo(Item, knobs.extra))]

\* apply_set and apply_save.
Apply(payload) ==
  IF Obeys("SET_DATA")
  THEN working' = Extend(working, Updates(payload)) /\ nvram' = working'
  ELSE UNCHANGED <<working, nvram>>

\* What the client may receive: the reply, or as much of it as is left.
Received(method, payload) ==
  IF Silent(method) THEN {}
  ELSE LET reply == Answer(method, payload)
       IN  {reply} \cup {[reply EXCEPT !.payload = SubSeq(@, 1, n)] : n \in Cuts \cap 0..Len(reply.payload)}

(***************************************************************************)
(* The client.  An operation that is not answered is cancelled in the end. *)
(***************************************************************************)
\* reply_error: the status and the explanation shown.
Refusal(r) ==
  IF r.method # "ERROR" THEN [status |-> "UnexpectedMethod", shown |-> <<>>]
  ELSE IF ErrorMessage(r.payload) = <<>> THEN [status |-> "DeviceNoMessage", shown |-> <<>>]
  ELSE [status |-> "Device", shown |-> [message |-> ErrorMessage(r.payload)[1]]]

\* Mutant of GetResult: the raw method is passed on.
GetResult_Raw(r) ==
  IF r.method = "GET_DATA" THEN parse_response(r.payload) ELSE [status |-> r.method, config |-> <<>>]

\* get has a switch of its own, which does not look for an explanation.
GetResult(r) ==
  CASE r.method = "GET_DATA" -> parse_response(r.payload)
    [] r.method = "ERROR" -> [status |-> "DeviceNoMessage", config |-> <<>>]
    [] OTHER -> [status |-> "UnexpectedMethod", config |-> <<>>]

Nothing(names) == [n \in names |-> <<>>]

\* What can come of a get of names.
GetResults(names) ==
  IF Silent("GET_DATA") THEN {[status |-> "Cancelled", config |-> <<>>]}
  ELSE {GetResult(r) : r \in Received("GET_DATA", get_data_payload(names))}

Get ==
  /\ \E names \in Requested : \E result \in GetResults(names) :
       Done("get", Nothing(names), result.status, result.config)
  /\ UNCHANGED <<knobs, working, nvram, parameters>>

\* Mutant of Loaded: synthetic keys of earlier reads are kept.
Loaded_Accumulating(config) == Extend(parameters, config)

Loaded(config) ==
  Extend([k \in {k \in DOMAIN parameters : ~Synthetic(k)} |-> parameters[k]], config)

GetAll ==
  /\ \E result \in GetResults(ParameterNames) :
       /\ Done("get", Nothing(ParameterNames), result.status, result.config)
       /\ parameters' = IF result.status = "ok" THEN Loaded(result.config) ELSE parameters
  /\ UNCHANGED <<knobs, working, nvram>>

\* Mutant of Write: the record is updated before the acknowledgement.
Write_Eager(config, base) ==
  LET payload == set_data_payload(Extend(base, config))
  IN  /\ parameters' = Extend(base, config)
      /\ Apply(payload)
      /\ \/ Silent("SET_DATA") /\ Done("set", config, "Cancelled", <<>>)
         \/ \E r \in Received("SET_DATA", payload) :
              Done("set", config, IF r.method = "SET_DATA" THEN "ok" ELSE Refusal(r).status, <<>>)

\* set once base is the record it overlays config on.
Write(config, base) ==
  LET payload == set_data_payload(Extend(base, config))
  IN  \/ /\ ~Encodes(Extend(base, config))
         /\ Done("set", config, "Encode", <<>>)
         /\ parameters' = base
         /\ UNCHANGED <<working, nvram>>
      \/ /\ Encodes(Extend(base, config))
         /\ Apply(payload)
         /\ \/ /\ Silent("SET_DATA")
               /\ Done("set", config, "Cancelled", <<>>)
               /\ parameters' = base
            \/ \E r \in Received("SET_DATA", payload) :
                 \/ /\ r.method \in {"SET_DATA", "GET_DATA", "GET_IP"}
                    /\ Done("set", config, "ok", <<>>)
                    /\ parameters' = Extend(base, config)
                 \/ /\ r.method \notin {"SET_DATA", "GET_DATA", "GET_IP"}
                    /\ Done("set", config, Refusal(r).status, Refusal(r).shown)
                    /\ parameters' = base

\* set reads everything first when it has no record.
Set ==
  /\ \E config \in Configs :
       \/ parameters # <<>> /\ Write(config, parameters)
       \/ /\ parameters = <<>>
          /\ \E result \in GetResults(ParameterNames) :
               \/ result.status = "ok" /\ Write(config, Loaded(result.config))
               \/ /\ result.status # "ok"
                  /\ Done("set", config, result.status, <<>>)
                  /\ UNCHANGED <<working, nvram, parameters>>
  /\ UNCHANGED knobs

\* Nobody acknowledges a reset that was carried out: silence counts as done.
Reset ==
  /\ IF Obeys("RESET") THEN working' = nvram ELSE UNCHANGED working
  /\ \/ Silent("RESET") /\ Done("reset", <<>>, "ok", <<>>)
     \/ \E r \in Received("RESET", <<>>) :
          IF r.method = "RESET" THEN Done("reset", <<>>, "ok", <<>>)
          ELSE Done("reset", <<>>, Refusal(r).status, Refusal(r).shown)
  /\ UNCHANGED <<knobs, nvram, parameters>>

\* What a question's expected answer shows.
Shown(op, payload) ==
  CASE op = "get_ip" ->
         LET config == NetworkConfig(payload)
         IN  [status |-> "ok", shown |-> [f \in DOMAIN config |-> or_dash(config[f])]]
    [] op = "get_uuid" ->
         IF Uuid(payload) = <<>> THEN [status |-> "MissingUuid", shown |-> <<>>]
         ELSE [status |-> "ok", shown |-> [uuid |-> Uuid(payload)[1]]]
    [] op = "discover" -> [status |-> "ok", shown |-> parse_discovery_response(payload)]

\* An operation that only asks.
Query(op, method) ==
  /\ \/ Silent(method) /\ Done(op, <<>>, "Cancelled", <<>>)
     \/ \E r \in Received(method, <<>>) :
          LET result == IF r.method = method THEN Shown(op, r.payload) ELSE Refusal(r)
          IN  Done(op, <<>>, result.status, result.shown)
  /\ UNCHANGED <<knobs, working, nvram, parameters>>

GetIp == Query("get_ip", "GET_IP")
GetUuid == Query("get_uuid", "GET_UUID")
Discover == Query("discover", "ADV_DISC")

\* What a user types is looked at without any device.
Validate ==
  /\ outcome.op = "none"
  /\ \E e \in Entries :
       Done("validate", [n \in {e[1]} |-> e[2]],
            IF validate_parameter(e[1], e[2]) THEN "ok" ELSE "Invalid", <<>>)
  /\ UNCHANGED <<knobs, working, nvram, parameters>>

ParseMac ==
  /\ outcome.op = "none"
  /\ \E text \in MacTexts :
       IF Mac(text) = <<>> THEN Done("mac", [text |-> text], "Invalid", <<>>)
       ELSE Done("mac", [text |-> text], "ok", [mac |-> MacText(Mac(text)[1])])
  /\ UNCHANGED <<knobs, working, nvram, parameters>>

\* The device comes back with other firmware.
Upgrade ==
  /\ knobs' \in {k \in Knobs : k = [knobs EXCEPT !.extra = k.extra]}
  /\ UNCHANGED <<working, nvram, parameters, outcome>>

Next ==
  \/ Get \/ GetAll \/ Set \/ Reset \/ GetIp \/ GetUuid \/ Discover
  \/ Validate \/ ParseMac \/ Upgrade

Spec == Init /\ [][Next]_vars

(***************************************************************************)
(* Properties.                                                             *)
(***************************************************************************)
Statuses ==
  {"ok", "Cancelled", "Encode", "Device", "DeviceNoMessage", "UnexpectedMethod", "MissingUuid",
   "PayloadTooShort", "TruncatedHeader", "ItemExceedsPayload", "Invalid"}

TypeOK ==
  /\ knobs \in Knobs
  /\ {working, nvram} \subseteq [ParameterNames \cup DOMAIN Seed -> Bytes]
  /\ \A k \in DOMAIN parameters : parameters[k] \in Bytes
  /\ outcome.status \in Statuses
  /\ \A k \in DOMAIN outcome.shown : outcome.shown[k] \in Bytes

\* A read that succeeds is whole and true: every parameter asked for, under its
\* own name or an alias, is there with the value the device holds, however the
\* reply was cut or garbled (getdata.rs:35-62).
ReadsAreTrue ==
  outcome.op = "get" /\ outcome.status = "ok" =>
    \A n \in DOMAIN outcome.asked : \A p \in by_name(n) :
      p.name \in DOMAIN outcome.shown /\ outcome.shown[p.name] = working[p.name]

\* What a device's record says of a parameter is what the device stores, if
\* perhaps in another spelling (device.rs:46-48).
RecordDenotesDevice ==
  \A p \in Rows : p.name \in DOMAIN parameters =>
    /\ encode(p.length, parameters[p.name]) # <<>>
    /\ format_value(encode(p.length, parameters[p.name])) = working[p.name]

\* Reads do not pile up the synthetic names of offsets the table does not know
\* (ops/config.rs:102-106): there are never more than one answer can hold, not
\* counting those a caller has set.
NoPiling ==
  LET given == UNION {DOMAIN config : config \in Configs}
  IN  Cardinality({k \in DOMAIN parameters \ given : Synthetic(k)})
        <= Max({Len(k.extra) : k \in Knobs})

\* What value means for a parameter of a width.
Meaning(length, value) ==
  CASE length = 1 -> Decimal(from_str(value, 255)[1])
    [] length = 2 -> Decimal(from_str(value, U16_MAX)[1])
    [] length = 4 -> value
    [] OTHER -> BeforeNul(SubSeq(value, 1, Min({Len(value), length})))

\* A set that succeeds gives each parameter it names the meaning of its value,
\* in the memory that survives a reset, and leaves the others as they were to
\* the byte, texts that are not UTF-8 included (ops/config.rs:209-213).
WritesAreExact ==
  [][outcome'.op = "set" /\ outcome'.status = "ok" =>
       \A p \in Rows :
         nvram'[p.name] = IF p.name \in DOMAIN outcome'.asked
                          THEN Meaning(p.length, outcome'.asked[p.name]) ELSE nvram[p.name]]_vars

\* An operation that is reported as failed has not changed the device.
FailuresChangeNothing ==
  [][outcome'.status # "ok" => UNCHANGED <<working, nvram>>]_vars

\* Nothing shown about a device is made up from part of a value: a field of a
\* reply cut short is either complete or missing (tlv.rs:15-17).
NothingInvented ==
  LET full == parse_discovery_response(discovery_response(Cfg))
      uuid == hex_encode(Cfg.uuid)
  IN  /\ outcome.op = "get_ip" /\ outcome.status = "ok" =>
           \A f \in DOMAIN outcome.shown : outcome.shown[f] \in {Dash, Dotted(Cfg[f])}
      /\ outcome.op = "get_uuid" /\ outcome.status = "ok" => outcome.shown.uuid = uuid
      /\ outcome.op = "discover" /\ outcome.status = "ok" =>
           \A f \in DOMAIN outcome.shown : outcome.shown[f] \in {<<>>, full[f]}
      /\ outcome.status = "Device" => outcome.shown.message = Fit(knobs.fail_message)

\* A value the rules accept encodes, and is read back as what was typed, up to
\* leading zeros: set neither refuses it nor cuts it.
ValidatedIsKept ==
  outcome.op = "validate" /\ outcome.status = "ok" =>
    \A n \in DOMAIN outcome.asked : \A p \in by_name(n) :
      LET value == outcome.asked[n]
          stored == encode(p.length, value)
      IN  /\ stored # <<>>
          /\ format_value(stored) = IF p.length \in {1, 2} THEN Decimal(Number(value)) ELSE value

\* A MAC address that is accepted is printed as it was typed, in lower case.
Lower(text) == [i \in DOMAIN text |-> IF text[i] \in 65..90 THEN text[i] + 32 ELSE text[i]]

MacIsKept ==
  outcome.op = "mac" /\ outcome.status = "ok" => outcome.shown.mac = Lower(outcome.asked.text)
=============================================================================
