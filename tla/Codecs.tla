-------------------------------- MODULE Codecs --------------------------------
(***************************************************************************)
(* What udapcfg puts on the wire and makes of what comes back, byte by     *)
(* byte.                                                                   *)
(*                                                                         *)
(*   the parameter table and encode   crates/udap/src/parameters.rs        *)
(*   GetData replies                  crates/udap/src/getdata.rs           *)
(*   request payloads                 crates/udap/src/ops/config.rs        *)
(*   TLVs and the replies made of it  crates/udap/src/{tlv,client}.rs,     *)
(*                                    ops/{getip,getuuid,mod}.rs           *)
(*   rules for a user's values        crates/udap/src/validation.rs        *)
(*   MAC addresses                    crates/udap/src/mac.rs               *)
(*   the device's side                crates/mocksbr/src/{wire,responses}  *)
(*                                                                         *)
(* A byte is a number and a Vec<u8>, text included, a sequence of them.    *)
(* Positions in a payload count from 1.  An Option is a sequence of at     *)
(* most one element.                                                       *)
(***************************************************************************)
EXTENDS Integers, Sequences, FiniteSets, SequencesExt, FiniteSetsExt, TLC

CONSTANTS
  PARAMETERS,  \* rows of the table: [name, offset, length, factory_default]
  ALIASES,     \* alias |-> name
  Products,    \* PRODUCT_BY_ID: device id |-> product name
  SyntheticName(_),  \* the name shown for an offset the table does not know
  Synthetic(_)       \* whether a name is one of those

Rows == ToSet(PARAMETERS)

Byte == 0..255
U16_MAX == 65535
U16 == 0..U16_MAX
Bytes == Seq(Byte)

be16(n) == <<n \div 256, n % 256>>
u16_at(data, i) == 256 * data[i] + data[i + 1]

(***************************************************************************)
(* Numbers and addresses as text.                                          *)
(***************************************************************************)
Digit == 48..57
Plus == 43
Dot == 46
Colon == 58

\* Numbers of at most five digits.
Powers == <<1, 10, 100, 1000, 10000>>
Decimal(n) ==
  LET width == Max({1} \cup {w \in 1..5 : Powers[w] <= n})
  IN  [i \in 1..width |-> 48 + ((n \div Powers[width + 1 - i]) % 10)]

\* The number digits denote, up to the least one that no width holds.
TooBig == U16_MAX + 1
Number(digits) ==
  LET upto[i \in 0..Len(digits)] ==
        IF i = 0 THEN 0
        ELSE LET n == 10 * upto[i - 1] + digits[i] - 48 IN IF n < TooBig THEN n ELSE TooBig
  IN  upto[Len(digits)]

IsDigits(text) == text # <<>> /\ ToSet(text) \subseteq Digit

\* u8::from_str and u16::from_str: one plus sign may come first.
from_str(text, max) ==
  LET digits == IF text # <<>> /\ text[1] = Plus THEN Tail(text) ELSE text
  IN  IF IsDigits(digits) /\ Number(digits) <= max THEN <<Number(digits)>> ELSE <<>>

\* The k-th of a set of numbers.
Nth(numbers, k) ==
  CHOOSE n \in numbers : Cardinality({m \in numbers : m < n}) = k - 1

\* Ipv4Addr::from_str: four numbers without leading zeros.
Ipv4(text) ==
  LET dots == {i \in DOMAIN text : text[i] = Dot}
      First(k) == IF k = 1 THEN 1 ELSE Nth(dots, k - 1) + 1
      Final(k) == IF k = 4 THEN Len(text) ELSE Nth(dots, k) - 1
      parts == [k \in 1..4 |-> SubSeq(text, First(k), Final(k))]
      IsOctet(f) == IsDigits(f) /\ Number(f) \in Byte /\ f = Decimal(Number(f))
  IN  IF Cardinality(dots) = 3 /\ \A k \in 1..4 : IsOctet(parts[k])
      THEN <<[k \in 1..4 |-> Number(parts[k])]>> ELSE <<>>

Dotted(octets) ==
  Decimal(octets[1]) \o <<Dot>> \o Decimal(octets[2]) \o <<Dot>>
    \o Decimal(octets[3]) \o <<Dot>> \o Decimal(octets[4])

HexDigits(n) == IF n < 10 THEN 48 + n ELSE 87 + n

\* hex::encode
hex_encode(value) ==
  [i \in 1..(2 * Len(value)) |->
     LET byte == value[(i + 1) \div 2]
     IN  HexDigits(IF i % 2 = 1 THEN byte \div 16 ELSE byte % 16)]

(***************************************************************************)
(* Parameters.                                                             *)
(***************************************************************************)
\* HashMap::extend
Extend(map, other) ==
  [k \in DOMAIN map \cup DOMAIN other |-> IF k \in DOMAIN other THEN other[k] ELSE map[k]]

\* The rows of that name, of which there is at most one, else of the name it
\* is an alias of.
by_name(name) ==
  LET named(n) == {p \in Rows : p.name = n}
  IN  IF named(name) # {} THEN named(name)
      ELSE IF name \in DOMAIN ALIASES THEN named(ALIASES[name])
      ELSE {}

by_offset(offset) == {p \in Rows : p.offset = offset}

Resize(value, width) == [i \in 1..width |-> IF i <= Len(value) THEN value[i] ELSE 0]

\* Option::map, and the same of a list.
EachTo(Op(_), option) == [k \in DOMAIN option |-> Op(option[k])]
OrEmpty(option) == IF option = <<>> THEN <<>> ELSE option[1]

\* Mutant of encode: the last byte of a string is kept for its NUL.
encode_Terminated(length, value) ==
  CASE length = 1 -> from_str(value, 255)
    [] length = 2 -> OrEmpty(EachTo(be16, from_str(value, U16_MAX)))
    [] length = 4 -> OrEmpty(Ipv4(value))
    [] OTHER -> Append(Resize(value, length - 1), 0)

\* Parameter::encode; what does not encode gives no bytes.
encode(length, value) ==
  CASE length = 1 -> from_str(value, 255)
    [] length = 2 -> OrEmpty(EachTo(be16, from_str(value, U16_MAX)))
    [] length = 4 -> OrEmpty(Ipv4(value))
    [] OTHER -> Resize(value, length)

BeforeNul(value) ==
  SubSeq(value, 1, Min({i \in DOMAIN value : value[i] = 0} \cup {Len(value) + 1}) - 1)

\* format_value, and decode_param_value of the device: the width of what was
\* received decides.
format_value(value) ==
  CASE Len(value) = 1 -> Decimal(value[1])
    [] Len(value) = 2 -> Decimal(u16_at(value, 1))
    [] Len(value) = 4 -> Dotted(value)
    [] OTHER -> BeforeNul(value)

decode_param_value(value) == format_value(value)

\* A value as a device keeps it: it can be sent, and is read as it is.
Stored(length, value) ==
  value \in Bytes /\ encode(length, value) # <<>> /\ format_value(encode(length, value)) = value

(***************************************************************************)
(* Rules for values a user supplies.                                       *)
(***************************************************************************)
parses_as_unsigned(value, max) ==
  ~(value # <<>> /\ value[1] = Plus) /\ from_str(value, max) # <<>>

\* Mutant of FitsWidth: a string may be a byte too long.
FitsWidth_OffByOne(length, value) ==
  CASE length = 1 -> parses_as_unsigned(value, 255)
    [] length = 2 -> parses_as_unsigned(value, U16_MAX)
    [] length = 4 -> Ipv4(value) # <<>>
    [] OTHER -> Len(value) <= length + 1

FitsWidth(length, value) ==
  CASE length = 1 -> parses_as_unsigned(value, 255)
    [] length = 2 -> parses_as_unsigned(value, U16_MAX)
    [] length = 4 -> Ipv4(value) # <<>>
    [] OTHER -> Len(value) <= length

FollowsRule(name, value) ==
  CASE name = "wireless_mode" -> value \in {Decimal(0), Decimal(1)}
    [] name = "wireless_channel" -> Number(value) \in 1..13
    [] name = "wireless_keylen" -> value \in {Decimal(5), Decimal(13)}
    [] name = "wireless_wpa_psk" -> Len(value) \in 8..63
    [] name = "wireless_SSID" -> Len(value) \in 1..32
    [] OTHER -> TRUE

\* An unknown name is accepted whatever its value.
validate_parameter(name, value) ==
  \A p \in by_name(name) : FitsWidth(p.length, value) /\ FollowsRule(name, value)

(***************************************************************************)
(* TLVs.                                                                   *)
(***************************************************************************)
\* Where the entries start, one behind the other.  The first that starts past
\* what may follow the last byte ends the walk.
Starts(data) ==
  LET at[k \in 0..(Len(data) \div 2)] ==
        IF k = 0 THEN 1
        ELSE LET i == at[k - 1] IN i + 2 + (IF i < Len(data) THEN data[i + 1] ELSE 0)
  IN  at

\* Mutant of decode: what is left of a truncated entry is kept.
decode_Lenient(data) ==
  LET at == Starts(data)
      begun == Cardinality({k \in DOMAIN at : at[k] < Len(data)})
  IN  [k \in 1..begun |->
         [tag |-> data[at[k - 1]],
          value |-> SubSeq(data, at[k - 1] + 2, Min({at[k] - 1, Len(data)}))]]

\* A truncated entry ends the walk.
decode(data) ==
  LET at == Starts(data)
      whole == Max({k \in DOMAIN at : at[k] <= Len(data) + 1})
  IN  [k \in 1..whole |->
         [tag |-> data[at[k - 1]], value |-> SubSeq(data, at[k - 1] + 2, at[k] - 1)]]

\* What of a value the one byte of its length can count.
Fit(value) == SubSeq(value, 1, Min({Len(value), 255}))

encode_into(tag, value) == <<tag, Len(Fit(value))>> \o Fit(value)

\* The values of the entries of that tag whose width is one of widths: where
\* they are, the first and the last.
Tagged(entries, tag, widths) ==
  {k \in DOMAIN entries : entries[k].tag = tag /\ Len(entries[k].value) \in widths}

FirstOf(data, tag, widths) ==
  LET entries == decode(data)
      at == Tagged(entries, tag, widths)
  IN  IF at = {} THEN <<>> ELSE <<entries[Min(at)].value>>

LastOf(data, tag, widths) ==
  LET entries == decode(data)
      at == Tagged(entries, tag, widths)
  IN  IF at = {} THEN <<>> ELSE <<entries[Max(at)].value>>

UUID_LEN == 16

\* get_ip's parse_response.
NetworkConfig(data) ==
  [ip |-> LastOf(data, 5, {4}),
   subnet_mask |-> LastOf(data, 6, {4}),
   gateway |-> LastOf(data, 7, {4})]

\* What the user sees of an address: a dash for none and for 0.0.0.0.
Dash == <<45>>
or_dash(addr) == IF addr \in {<<>>, <<Resize(<<>>, 4)>>} THEN Dash ELSE Dotted(addr[1])

\* get_uuid's.
Uuid(data) == EachTo(hex_encode, FirstOf(data, 13, {UUID_LEN}))

\* The explanation in an error reply.
ErrorMessage(data) == FirstOf(data, 3, Byte)

\* A known product's name, else the type with the id behind it.
combine_model(device_type, device_id) ==
  IF device_id \in DOMAIN Products THEN Products[device_id]
  ELSE IF device_type = <<>> THEN <<>>
  ELSE IF device_id = <<>> THEN device_type
  ELSE device_type \o <<32, 40, 105, 100, 61>> \o device_id \o <<41>>

\* What discovery records of a reply, an empty name standing for the default.
parse_discovery_response(data) ==
  LET field(tag) == OrEmpty(LastOf(data, tag, Byte))
  IN  [name |-> field(2), model |-> combine_model(field(3), field(11)), firmware |-> field(9),
       hardware_rev |-> field(10), state |-> field(12), uuid |-> hex_encode(field(13))]

(***************************************************************************)
(* GetData and SetData.                                                    *)
(***************************************************************************)
CREDENTIAL_FIELDS == 32
Credentials == Resize(<<>>, CREDENTIAL_FIELDS)

\* The walk over count items `offset, length, bytes` from position pos: those
\* that are whole, and what ended it.
Items(data, pos, count) ==
  LET most == Min({count, Len(data)})
      at[k \in 0..most] ==
        IF k = 0 THEN pos
        ELSE LET i == at[k - 1] IN i + 4 + (IF i + 3 <= Len(data) THEN u16_at(data, i + 2) ELSE 0)
      whole == Max({k \in 0..most : at[k] <= Len(data) + 1})
  IN  [items |-> [k \in 1..whole |->
                    [offset |-> u16_at(data, at[k - 1]),
                     value |-> SubSeq(data, at[k - 1] + 4, at[k] - 1)]],
       end |-> IF whole = count THEN "Complete"
               ELSE IF at[whole] + 3 > Len(data) THEN "TruncatedHeader"
               ELSE "ItemExceedsPayload"]

\* A request's items carry no bytes.
Offsets(data, pos, count) ==
  [k \in 1..Min({count, (Len(data) + 1 - pos) \div 4}) |-> u16_at(data, pos + 4 * (k - 1))]

\* Keys and values in the order they are inserted, later ones replacing.
MapOf(entries) ==
  [key \in {entries[k].key : k \in DOMAIN entries} |->
     entries[Max({k \in DOMAIN entries : entries[k].key = key})].value]

Entry(item) ==
  LET known == by_offset(item.offset)
  IN  IF known # {}
      THEN [key |-> (CHOOSE p \in known : TRUE).name, value |-> format_value(item.value)]
      ELSE [key |-> SyntheticName(item.offset), value |-> hex_encode(item.value)]

\* Mutant of parse_response: a truncated item ends the walk without an error.
parse_response_Lenient(data) ==
  IF Len(data) < 2 THEN [status |-> "PayloadTooShort", config |-> <<>>]
  ELSE [status |-> "ok", config |-> MapOf(EachTo(Entry, Items(data, 3, u16_at(data, 1)).items))]

\* getdata::parse_response
parse_response(data) ==
  IF Len(data) < 2 THEN [status |-> "PayloadTooShort", config |-> <<>>]
  ELSE LET walk == Items(data, 3, u16_at(data, 1))
       IN  IF walk.end = "Complete"
           THEN [status |-> "ok", config |-> MapOf(EachTo(Entry, walk.items))]
           ELSE [status |-> walk.end, config |-> <<>>]

Header(p) == be16(p.offset) \o be16(p.length)

\* The items of a request by offset.  Names of one parameter do not occur
\* together here.
InOrder(items) ==
  [k \in 1..Cardinality(items) |->
     CHOOSE i \in items : Cardinality({j \in items : j.offset < i.offset}) = k - 1]

get_data_payload(names) ==
  LET items == InOrder(UNION {by_name(n) : n \in names})
  IN  Credentials \o be16(Len(items)) \o FlattenSeq(EachTo(Header, items))

Encodes(config) ==
  \A n \in DOMAIN config : \A p \in by_name(n) : encode(p.length, config[n]) # <<>>

\* For a configuration that encodes.
set_data_payload(config) ==
  LET items == InOrder(UNION {{[offset |-> p.offset, length |-> p.length, value |-> config[n]] :
                                 p \in by_name(n)} : n \in DOMAIN config})
      Written(i) == Header(i) \o encode(i.length, i.value)
  IN  Credentials \o be16(Len(items)) \o FlattenSeq(EachTo(Written, items))

(***************************************************************************)
(* The device's side.                                                      *)
(***************************************************************************)
discovery_response(cfg) ==
  FlattenSeq(<<encode_into(12, cfg.state), encode_into(11, cfg.device_id),
               encode_into(10, cfg.hardware), encode_into(9, cfg.firmware),
               encode_into(3, cfg.model), encode_into(2, cfg.name)>>)

get_ip_response(cfg) ==
  FlattenSeq(<<encode_into(5, cfg.ip), encode_into(6, cfg.subnet_mask), encode_into(7, cfg.gateway)>>)

get_uuid_response(cfg) == encode_into(13, cfg.uuid)

error_response(message) == IF message = <<>> THEN <<>> ELSE encode_into(3, message)

\* What follows the credentials: the count, and the walk over it.
Count(payload) == u16_at(payload, CREDENTIAL_FIELDS + 1)
FirstItem == CREDENTIAL_FIELDS + 3

Item(i) == be16(i.offset) \o be16(Len(i.value)) \o i.value

\* The answers for the offsets asked for; what the table does not know and
\* what does not encode is skipped.
Answers(working, payload) ==
  LET asked == IF Len(payload) < CREDENTIAL_FIELDS + 2 THEN <<>>
               ELSE Offsets(payload, FirstItem, Count(payload))
      Held(p) == encode(p.length, working[p.name])
      AnswerTo(offset) ==
        IF \E p \in by_offset(offset) : Held(p) # <<>>
        THEN Item([offset |-> offset, value |-> Held(CHOOSE p \in by_offset(offset) : TRUE)])
        ELSE <<>>
  IN  EachTo(AnswerTo, asked)

get_data_response(malformed, answers) ==
  CASE malformed = "OversizedCount" -> be16(U16_MAX)
    [] malformed = "LengthExceedsPayload" -> be16(1) \o be16(0) \o be16(1000)
    [] OTHER -> be16(Cardinality({k \in DOMAIN answers : answers[k] # <<>>})) \o FlattenSeq(answers)

\* A truncated item ends the walk and keeps what was read.
parse_set_data_request(payload) ==
  IF Len(payload) < CREDENTIAL_FIELDS + 2 THEN <<>>
  ELSE Items(payload, FirstItem, Count(payload)).items

\* What a set_data request writes, by name.
Updates(payload) ==
  LET items == parse_set_data_request(payload)
      Latest(p) == Max({k \in DOMAIN items : items[k].offset = p.offset})
      named == {p \in Rows : \E k \in DOMAIN items : items[k].offset = p.offset}
  IN  [n \in {p.name : p \in named} |->
         decode_param_value(items[Latest(CHOOSE p \in named : p.name = n)].value)]

set_data_response(payload) == be16(Len(parse_set_data_request(payload)))

(***************************************************************************)
(* MAC addresses.                                                          *)
(***************************************************************************)
hex_nibble(c) ==
  CASE c \in Digit -> <<c - 48>>
    [] c \in 97..102 -> <<c - 87>>
    [] c \in 65..70 -> <<c - 55>>
    [] OTHER -> <<>>

IsHex(c) == hex_nibble(c) # <<>>

MAC_LEN == 6
MAC_STR_LEN == 17

\* Mutant of Mac: any byte may separate the pairs.
Mac_AnySeparator(text) ==
  IF /\ Len(text) = MAC_STR_LEN
     /\ \A k \in 1..MAC_LEN : IsHex(text[3 * k - 2]) /\ IsHex(text[3 * k - 1])
  THEN <<[k \in 1..MAC_LEN |-> 16 * hex_nibble(text[3 * k - 2])[1] + hex_nibble(text[3 * k - 1])[1]]>>
  ELSE <<>>

\* Mac::from_str
Mac(text) ==
  IF /\ Len(text) = MAC_STR_LEN
     /\ \A k \in 1..MAC_LEN : IsHex(text[3 * k - 2]) /\ IsHex(text[3 * k - 1])
     /\ \A k \in 1..(MAC_LEN - 1) : text[3 * k] = Colon
  THEN <<[k \in 1..MAC_LEN |-> 16 * hex_nibble(text[3 * k - 2])[1] + hex_nibble(text[3 * k - 1])[1]]>>
  ELSE <<>>

\* Its Display.
MacText(mac) ==
  [i \in 1..MAC_STR_LEN |-> IF i % 3 = 0 THEN Colon ELSE hex_encode(mac)[i - i \div 3]]
=============================================================================
