# UDAP client: a TLA+ model

A verification development for `udapcfg-rs`, a client for the UDAP protocol of
Squeezebox devices: the `udap` library, its test network `mocksbr` and the
`udapcfg` command. Four models, the TLC runs that check them on small instances,
and TLAPS proofs about all of them:

- the configuration operations over an unreliable network: `UdapOps`, and what
  they promise, `ConfigStore`, tied together by `UdapStore`;
- the command line and discovery: `Interfaces` and `Discovery`, composed by `Cli`;
- bytes: `Codecs`, and `Exchange`, one client and one virtual device on top of it;
- the transport of the tests: `MockTransport`.

    tlc -workers 2 -config UdapOpsReliable.cfg MCUdapOps
    tlapm UdapOps_proofs.tla

Paths below are relative to `crates/`; `config.rs` is `udap/src/ops/config.rs`.

## Inventory

| component | state | operations | interacts by | hard part |
|---|---|---|---|---|
| `Session` (`udap/src/session.rs`) | transport, retries, 16-bit sequence | `header`, `send_retried`, `wait_for_reply`, `recv`, `close` | called by operations and discovery; datagrams | lost, late and duplicated replies; several waiters |
| operations (`udap/src/ops/`) | none; they write `Device.parameters` | `get`, `get_all`, `set`, `reset`, `get_ip`, `get_uuid` | a `Session` and one `Device` | the read-modify-write of `set`; when the record may change |
| `Device` (`udap/src/device.rs`) | addresses, discovered fields, `parameters` | none of its own | owned by the caller | cache and persistence record in one map |
| `Client` (`udap/src/client.rs`) | session, registry by MAC | `discover`, `take_device`, wrappers | transport, caller's token | what counts as a device |
| `MultiTransport` (`udap/src/transport/multi.rs`) | children, one retired flag each | `send`, `recv`, `close` | merges children with `select_all` | dropped receives, failing children |
| `UdpTransport` (`udap/src/transport/udp.rs`) | a socket | `bind`, `send`, `recv` | operating system | our own broadcasts come back |
| `MockTransport` (`mocksbr/src/transport.rs`) | channel, locked receiver, closed token | `send`, `recv`, `close` | `Network`, tokio tasks | lock, cancellation, delayed replies |
| `Network` and device state (`mocksbr/src/`) | two tiers of parameters per device | `receive` | requests in, replies out | the reference device: set saves, reset reloads |
| parameter table, codecs (`parameters.rs`, `getdata.rs`, `tlv.rs`, `protocol.rs`, `mac.rs`, `hex.rs`, `netconfig.rs`) | none | encode, parse, look up | pure | bounds, truncation, canonical forms |
| `interfaces.rs` | none | `enumerate`, `find`, `iface_cmp` | operating system, CLI, constructors | whether the comparison is an order; sweeps that differ |
| `validation.rs` | none | `validate_parameter` and its rules | pure; its callers `encode` afterwards | agreement with `encode` |
| `udap-cli` | arguments, the resolved interface, exit code | the check ahead of the dispatch, `interfaces`, `discover` | `Client`, a spawned timer | checked and bound interface, timer against replies, what an error costs |

What makes each correct: a `Device`'s record shows what its device has
persisted; a `set` changes what it was asked to and nothing else, and never
writes part of the table; a `get` is current; values of different devices stay
apart; operations return; discovery records devices and only devices, loses no
reply to the merging of sockets, survives a failing one and ends on time; the
command binds the interface it checked, prints what it heard and lists
interfaces in one order; a read of a cut or garbled reply is true or an error,
and text that validation accepts survives its encoding; the
test transport neither loses nor reorders what the tests rely on. The hazards
behind these, each at its line, are the `hazards` of `PROJECT.json`.

## Modules

`UdapOps` composes callers, each with one `Device` (`Target[c]` its MAC,
`KnownIp[c]` its address), one `Session` and the devices.

| in the model | in the code |
|---|---|
| `sequence`, `awaiting` | `Session.sequence`, the number of the request sent last |
| `pc`, `config` | the await an operation is in, the argument of a `set` |
| `cache` | `Device.parameters`; `Absent` is a missing key |
| `result` | what the last operation returned |
| `working`, `nvram` | the two tiers of `mocksbr`'s `DeviceState` |
| `requests`, `replies` | datagrams under way: sets, so that any may come next, `copy` keeping the retransmissions of a request apart |
| `held` | history: every value a device ever held |

One step is an operation up to its first wait (guard, payload, sequence number
and all transmissions), one reply taken up to the next wait or the return, or a
request served by a device. `Start` has one disjunct per operation, `Receive`
one per place a reply is awaited, `Serve` one per method of the mock.
`wait_for_reply` is `Takes` and `Discard`: it compares MAC and, when known,
address; nothing else. Payloads are maps from offsets to values. `Stored` is
what a device keeps of a value sent to it, `Unencodable` what `encode` refuses.
The environment is a set of constants: transmissions and receives may fail,
tokens may fire, devices may refuse (`Refusals`), answer undecodably
(`Garbles`) or never (a request need not be served), datagrams may outlive
their wait (`Late`), callers may be inside operations together (`Concurrent`).

`ConfigStore` knows nothing of datagrams: a store, a call per client, its last
outcome and a record. A call takes effect at one instant or not at all.
`UdapStore` maps `nvram` to the store, `pc` and `config` to the call, `result`
to the outcome and `cache`, by offset, to the record; a change counts as applied
while the acknowledgement is on its way (`Acked`). `ImplementsStore` is the
refinement, a property of `ops_reliable` and a theorem.

`Discovery` composes `Client::discover`, a transport and the network. `transport`
is the sockets and whether a `MultiTransport` composes them (`Constructible` are
those a constructor makes); `Filters` are the sockets whose `recv` drops our own
requests as `UdpTransport` does (the client must cope when one does not). Each
socket has a set of waiting datagrams; `Take`, `SkipEcho` and `ChildFails` are
what one child's receive can come to, `Expire` the token seen. `select_all`
polls in order, which the model generalises to a choice; `Settle` is the part of
that choice the client is sure to make, below. A dropped receive
leaves its socket as it was: tokio's `recv_from` is cancel safe. `Break` makes a
socket fail from then on; a broken socket may still hold datagrams. Payloads are
discovery replies (`advert`) or not.

`Interfaces` has names as sequences of bytes. `Pieces` is what the loops of
`iface_cmp` and `token_cmp` take of a name one after the other, a whole run of a
class or a single byte; where only one of the names is at a run their first bytes
differ, which ends the loop, so the pieces of a name do not depend on the other.
`lex` is the loop itself: the first place where the pieces compare as different
decides, then whose pieces are exhausted. `ByTokens` takes alphanumeric tokens,
`token_cmp` digits.
`enumerate` filters as the code does and sorts as the library sorts a slice this
short, by insertion; for an order every stable sort agrees, and only for what is
no order does the choice matter.

`Cli` is one invocation of `udapcfg`. `args`, `stage`, `resolved`, `exit` are
`run`'s locals and result; `listing` and `printed` what was printed, `reported`
what the operating system reported for the listing. Each sweep of interfaces
finds any of `Hosts`, so two sweeps may differ. `MakeClient` is `build_client`
with the constructors of `client.rs`; the socket of an interface is named by
the interface's index, `Unpinned` is that of `with_udp`. Once a client is made
the steps are those of `Discovery`, which `Cli` extends.

`Codecs` has the byte codecs: numbers and addresses as text, the parameter
table's lookups, `encode` and `format_value`, `validation.rs`, TLVs, the payloads
of `get_data`, `set_data` and their answers on both sides, `get_ip`, `get_uuid`,
discovery replies, MAC addresses, `hex`. `Exchange` uses them for every
operation, one step each: what is sent, what the virtual device with its
`Knobs` (the settings of `mocksbr/src/device.rs`) makes of it, the answer, whole
or cut to one of `Cuts`, and what the client shows and keeps. `extra` in a knob
is firmware that answers with offsets the table lacks, `Upgrade` a change of it.
A loop of the code is a closed form where there is one (the last address octet,
the first NUL) and a recursive function where there is none (the walks over a
payload); maps are extended with `Extend`, as `HashMap::extend` does. The name
`offset_N` that is made up for an offset is the constant `SyntheticName`, with
`Synthetic` the test for one: their spelling says nothing but that.

`MockTransport` has one action per way through `send`, `recv` and `close`, for
any number of `Tasks`. The receiver's lock is the sequence `lock`, head first:
tokio's mutex is fair. An answer of the `Network` is the replies due at once, in
the order of its devices (`Now`), and those of delayed devices (`Later`), which
stay in `sleeping` and wake in any order. `send` never awaits, so it is one step
on the single thread the tests run on. `answered` and `received` are the history
that `RepliesOnce` and `InstantRepliesInOrder` compare.

The `MC` modules give the constants values; operators whose name has a second
part such as `SetReply_Eager` are mutants, used by no specification.

## Runs

| run | states | shows |
|---|---|---|
| `ops_reliable` | 5 354 | One caller, every operation, all refusals, garbled answers, unencodable, unknown and synthetic names. `RecordIsPersisted`, `SetPreservesRest` and `GetIsCurrent` hold when each wait ends with its own reply, and so does `ImplementsStore`: a set is atomic and its result says whether it happened. |
| `ops_concurrent` | 112 014 | Three callers at once on two devices and on no address, retransmission, failing sends and receives, cancellation. `CommitBarrier`, `UnaddressedNeverSucceeds`, `SetOkIsPersisted`. |
| `ops_late` | 68 863 | Two callers in turn, every request twice, datagrams arriving whenever. `WholeWrites`, `Isolation`, `OnlyRequestedChanges`, `EveryOperationReturns`. |
| `discovery` | 627 943 | One discovery over two sockets, alone or in a fan-out, either or both of which fail at any time; one hands our own requests back, the other filters them; a device whose replies may reach both, foreign packets, a timer that need not fire. `OnlyDevices`; `HealthyChildIsHeard`: a socket that fails is polled no more, so it cannot keep the other's replies from being recorded. |
| `cli` | 146 846 | Every combination of arguments; interfaces come, go, move and break, sends fail, one device and a foreign packet. `BoundAsChecked`, `FanOutSurvives`, `HeardArePrinted`, `PrintedAreDevices`, `NothingLost`, `CommandExits`; listings of pairs of names: `ListingIsStable`, `ListedNaturally`. |
| `exchange` | 8 635 | Every operation in sequence, byte by byte, on devices of every setting, replies whole or cut. `ReadsAreTrue`, `WritesAreExact`, `FailuresChangeNothing`, `RecordDenotesDevice`, `NoPiling`, `NothingInvented`, `ValidatedIsKept`, `MacIsKept`. |
| `mock_transport` | 29 665 | Two tasks, two instant devices and a delayed one, asked together or one by one, two requests, four receives, close, cancel, drop. `RepliesOnce`, `InstantRepliesInOrder`, `CloseWakesEveryone`, `NoLostWakeup`. |

Type invariants are checked along with them. Runs that end in a counterexample:

| run | property | what the code does |
|---|---|---|
| `ops_stale_ack` | `CommitBarrier` | A second answer to the prelude read acknowledges a `set` the device refuses: `wait_for_reply` compares addresses only and `set` accepts `GET_DATA` (config.rs:255). |
| `ops_revert` | `SetPreservesRest` | A `set` cancelled after the device obeyed is undone by the next one, which skips the read because the map is not empty (config.rs:236). |
| `ops_alias` | `CommitBarrier` | A value set under an alias stays in the map and overrides the canonical name for ever (config.rs:242). |
| `discovery_leftover` | `EveryRecordIsAdvertised` | A late answer to an operation becomes a nameless device, or replaces a complete record: `ucp_method` is not looked at (client.rs:248). |
| `iface_order` | `ListingIsStable` | Identifiers are compared as text with each other and as numbers with numbers: `br-41b85cbb03f0` < `br-7a918edb41cb` < `br-10` < `br-41b85cbb03f0` (interfaces.rs:182). |

`findings` in `PROJECT.json` quotes the lines they contradict.

Met while modelling, and in the models, but contradicting no statement of the
repository:

- No reply is matched with the request it answers. `ops_stale_ack` shows what
  this does to a record. It also lets a `set`'s prelude read take a second answer
  to a `get` of a few names, so that the `SET_DATA` leaves offsets out: `WholeWrites`
  is checked and proved for whole reads only (`WholeReads`), and violated in
  `ops_late` with `PartialGets`. And it lets a `get` return what was read before a
  `set` that has succeeded since: `GetIsCurrent` is checked and proved where no
  reply is late, and violated once `get` is among the operations of
  `ops_stale_ack`.
- `MockTransport` does not watch a token while its `recv` waits for the lock
  (mocksbr/src/transport.rs:79): it is noticed when the holder is done.
- A record keeps the spelling a `set` was given (`+11`, `011`, a string longer
  than its field) where the device keeps the value: `RecordDenotesDevice` is
  equality of what they encode to, and `Exact` the hypothesis under which the
  record equals the device.
- What follows an embedded NUL in a string is zeroed by the read before the
  next `set`; `validate_parameter` accepts such strings. No instance has one.
- `format_value` goes by the width received, not the table's; the count in a
  `set`'s acknowledgement is not compared with what was sent.

### Bounds

- Two offsets of the table: a set needs one it names and one it must preserve.
  Two or three names, with an alias or an unknown and a synthetic name where
  the run is about them. Two or three values: one per device, one of a caller.
- `MaxSequence` bounds the requests after which no operation starts: six in
  `ops_reliable` (a load, a set, a get and more), three and two where callers
  interleave or datagrams pile up (a `set` with its prelude may take one more).
  The wrap at 65 536 is in the model and out of reach; no reply is ever
  compared with it.
- One retransmission: the second copy is the one that can be late.
- `cli`: two interfaces and the unpinned socket, so that one can fail and one
  must not suffer; one device, whose reply may reach both. Lists hold two usable
  interfaces of seven names, in either order, and four unusable ones; a list of
  one and a list of none make sweeps differ. One discovery: a process makes one.
  `iface_order` has the three names of the cycle.
- `discovery`: one discovery and one transmission per socket: a socket that fails
  and one that works, a request handed back and one filtered are what the
  properties relate. `OnlyDevicesRecorded` is for any number of them.
- `exchange`: nine rows of the table, of every width it has and with every rule of
  `validation.rs`; cuts in the middle of TLVs, of item headers and of values and
  between items; maps with too long, badly spelt and unencodable values and
  unknown names. No variable grows without bound: there is no bound on its length.
- `mock_transport`: two requests and four receives, two of which must wait; of
  three devices the delayed one is between the instant ones, so that its reply is
  overtaken by one that comes later in the same answer.
- No symmetry: liveness is checked in several runs and the others are small.

`exchange` checks deadlock. In the others callers may stop calling or the
command ends, and the bounds end every behaviour.

### Fairness

- `UdapOps`: devices serve requests that reach them, and a task whose transport
  has a packet is polled (the executor does that). Nothing makes a caller call,
  a token fire or a transport fail. Under `Late` no datagram is lost.
- `Discovery`: the receiving task is polled, which is `Settle` and less than `Poll`.
  `select_all` asks its receives in turn and settles with the first that is ready,
  and one that fails is ready whenever it is asked, so it may be the one that is
  ahead: `Settle` has no packet taken while a socket that fails is still polled.
  With finitely many datagrams this is what any order of the children comes to;
  against one whose socket never runs empty nothing in the code protects the
  others. The timer is not fair here: were it, `HealthyChildIsHeard` would hold by
  the end of the discovery alone.
- `Cli`: the program goes on, a discovery with something to do is polled as above,
  and the timer fires: it is spawned before `discover` is called
  (`cmd/discover.rs:34-37`). The network promises nothing; a command ends all the
  same.
- `MockTransport`: a ready receive is polled, a sleep ends. Tokens and `close`
  are never forced.

## Proofs

For every value of the constants, under the named assumptions of the modules:

| theorem | states | argument |
|---|---|---|
| `UdapOps_proofs!TypeCorrect` | `[]TypeOK` | `TypeOK` is inductive; a lemma per building block (`SendAndWait`, `EndWith`, `Answer`) and one case per operation. |
| `UdapOps_proofs!WritesAreWhole` | `WholeReads => []WholeWrites` | `WholeTables`: reads in flight ask for the whole table, hence decodable answers have all of it, hence records are empty or full, hence merged maps are full. `WholeWrites` alone says nothing of where the items come from. |
| `UdapOps_proofs!ChangesAreRequested` | `OnlyRequestedChanges` | `Saved`: both tiers agree in every state, as each write is saved under the same lock; so a reset changes nothing. |
| `UdapOps_proofs!UnaddressedFails` | `[]UnaddressedNeverSucceeds` | `UnaddressedIsIdle`: such a caller never waits, so no token ends its wait. |
| `UdapOps_proofs!IsolationHolds` | `[]Isolation` | `IsolationInv`: each value in a device, an answer under way, a record or a call is traced to the history of the device it is about. |
| `UdapStore_proofs!CommitBarrierHolds` | `~Late /\ Exclusive /\ Exact => []CommitBarrier` | `FInv`, below |
| `UdapStore_proofs!SetOkHolds` | `~Late /\ Exclusive => SetOkIsPersisted` | `FInv`: an acknowledgement in flight is witnessed by the device's memory. |
| `UdapStore_proofs!RecordMatches` | `Reliable /\ Exclusive /\ Exact => []RecordIsPersisted` | `IInv`, below |
| `UdapStore_proofs!SetPreserves` | `Reliable /\ Exclusive => SetPreservesRest` | `IInv`: the request of a set is the device's own table with the caller's values laid over it. |
| `UdapStore_proofs!GetReadsCurrent` | `Reliable /\ Exclusive => GetIsCurrent` | `IInv`: the answer in flight agrees with the device, which nobody else changes. |
| `UdapStore_proofs!Implements` | `Reliable /\ Exclusive => ImplementsStore` | Every step, under `IInv`, is a step of `ConfigStore` or a stutter; one lemma per action. |
| `Cli_proofs!TypeCorrect` | `[]TypeOK` | inductive |
| `Cli_proofs!OnlyDevicesRecorded` | `[]OnlyDevices` | `Genuine`: of everything in flight, requests are ours, what would be recorded names a device and every discovery reply would be recorded. |
| `Cli_proofs!NoReplyIsLost` | `NoOperationReplies => []NothingLost` | `Genuine`, and that a datagram leaves a socket only by `Take` or `SkipEcho`. `discovery_leftover` is why the hypothesis is needed. |
| `Cli_proofs!BoundInterfaceIsChecked` | `[]BoundAsChecked` | `Pinned`: stage by stage, what is resolved, bound and returned so far. |
| `Cli_proofs!OnlyDevicesPrinted` | `[]PrintedAreDevices` | the lemmas of `OnlyDevicesRecorded`, and that a discovery's steps are `Discovery`'s |
| `Cli_proofs!FanOutOutlivesInterfaces` | `[]FanOutSurvives` | `Composes`: a fan-out is composed, and a composed receive never returns an error. |
| `Cli_proofs!AllHeardArePrinted` | `NoOperationReplies => []HeardArePrinted` | `NothingLost` with `Contained`: nothing waits where no socket is, and nothing is taken from the registry before it is printed. |
| `Cli_proofs!CliTypeCorrect` | `[]CliTypeOK` | `CommandTypes`, and that `enumerate` lists no more than is reported. |
| `Cli_proofs!ListingsAreStable` | `(\A host \in Hosts : Orderly(host)) => []ListingIsStable` | names of orderly hosts are totally ordered, the sort ascends, and ascending lists of the same are the same, below |
| `Cli_proofs!ListingsAreNatural` | `(\A host \in Hosts : Orderly(host)) => []ListedNaturally` | `SmallerNumberIsLess`: names are cut in the same pieces up to where they differ, and a run of digits compares as the number it denotes, below |
| `Exchange_proofs!ExchangeTypeCorrect` | `[]TypeOK` | from `IInv` of `Exchange_proofs` and `Truthful`, below |
| `Exchange_proofs!ReadsTellTheTruth` | `[]ReadsAreTrue` | `IInv`, and that a payload cut anywhere is parsed as an error or in full |
| `Exchange_proofs!RecordsAreTrue` | `[]RecordDenotesDevice` | `IInv` |
| `Exchange_proofs!WritesDoAsTold` | `WritesAreExact` | `IInv`: the items of a request are laid over what is held, one by one. |
| `Exchange_proofs!FailuresAreClean` | `FailuresChangeNothing` | a device that obeys answers in kind, one that does not sends an error |
| `Exchange_proofs!ReadsDoNotPileUp` | `[]NoPiling` | `Piled` in `IInv`: synthetic names are a caller's or those of one answer. |
| `Exchange_proofs!NothingIsInvented` | `[]NothingInvented` | `Truthful`: a reader of TLVs meets whole TLVs of the reply or stops. |
| `Exchange_proofs!ValidatedValuesAreKept` | `[]ValidatedIsKept` | the codecs alone: rule by rule, an accepted text is encoded and read back. |
| `Exchange_proofs!MacAddressesAreKept` | `[]MacIsKept` | the codecs alone |
| `MockTransport_proofs!TypeCorrect` | `[]TypeOK` | with `LockIsQueue`: who receives is in the queue for the lock. |
| `MockTransport_proofs!RepliesComeOnce` | `[]RepliesOnce` | `Owed`: the replies of the answers given are those asleep, queued and received. |
| `MockTransport_proofs!InstantInOrder` | `[]InstantRepliesInOrder` | `RepliesOnce`: a new reply of a request is later than all there are. |

The hypotheses:

- `Reliable`: no datagram outlives its wait, one caller at a time, no
  cancellation, no failing receive, no retransmission. Devices may still refuse,
  garble and not answer, and sends may fail. `ops_stale_ack` and `ops_revert` are
  what happens without it. `~Late` alone is enough for the two fault theorems.
- `Exclusive`: a device has one caller, which knows its address or none, and an
  offset has one name (`ops_alias` otherwise).
- `Exact`: values are in the form a device gives back.
- `WholeReads`: every `get` asks for the whole table.
- `NoOperationReplies`: no answer to an operation is left in a socket.
- `TableAssumption`, `PartiesAssumption` of `UdapOps`: each offset has a name,
  devices start with encodable values in the form they would store (the mock
  skips a value it cannot encode).
- `Orderly`, of the interfaces a machine reports: those that are listed have names
  of their own, and no place of their names has an identifier in one and another
  token in another; every host of `cli` is orderly, and `iface_order` is what happens
  without it.
- The assumptions of `Exchange`: names and offsets of the table are unique, its
  defaults and the seed of a device are in the form a device stores, a made-up name
  is never one of the table's, all that is sent fits 16-bit counts, a parameter is
  not given under two names at once (`ops_alias` otherwise), and what a user types
  for `validate_parameter` holds no NUL.
- `MockAssumption`: an answer of the `Network` has the devices in their order.

`IInv` is `TypeOK`, `Saved` (both tiers agree), `Fixed` (values stay in the form
stored), `Solo` (one caller is in an operation), `Lone` (one datagram is in
flight), `Owned` (it belongs to the wait its caller is in) and `Mirrored` (a
record, with the change of a set that is acknowledged, agrees with the device).
None of the three properties is inductive: a record could be spoilt by a reply
that says something else than the device, which `Owned` excludes: the answer
under way agrees with it too. `FInv` drops `Solo` and `Lone`, since callers interleave and
requests are repeated: `Remembered` (what a device holds is in its history),
`InFlight` (datagrams belong to a wait in progress, by caller, method and
sequence; answers report values in that history, and the device of an
acknowledged set holds what was asked for), `Placed` (only callers with an
address wait or have a record) and, for each caller, `Witnessed` (each value of
its record is in the history of its device).

`IInv` of `Exchange_proofs` is `Agreement`, `ReadsAreTrue` and `LastWriteHolds`.
`Agreement` has both tiers equal, every value of a device in the form it gives
back (`Held`), the record's values encoding to what is held (`Record`) and the
made-up names bounded (`Piled`). `ReadsAreTrue` alone is not inductive: that the
value shown is the one held needs each value held to survive its encoding and
its rendering, which `Held` says and each set has to preserve. The steps rest on
`Codecs_proofs`: what is written is read back for every width, text and number,
and what the two walks over a payload compute on any prefix of it. `Truthful`
says that what was shown last is the device's own; it needs `IInv` only for the
reads. Recursive functions are reached without an induction theorem: a
counterexample has a least one (`LeastElement` of `Order_proofs`), and the
function chosen to satisfy a recursive equation exists (`Recursion`). `Ranks` is the place of an element in an ordered finite set, from
which come the order of the items of a request and of the TLVs of a reply.

`Interfaces_proofs` composes comparisons the way `interfaces.rs` does: one after
the other (`then_with`), by what elements are taken for (numbers by their length
and digits without leading zeros), and place by place (`lex`). Each composition is
shown to keep what makes an order (`Compares`: two elements compare alike from
both sides, and transitively). Place by place this holds of a set of names where
the elements at each place are compared by an order, which is what `Orderly` asks
for: identifiers compare among each other, other tokens too, but not mixed. The
last comparison of all, of the bytes, separates any two names, so the insertion
sort ascends strictly whenever names differ, and there is one such list of given
interfaces. `enumerate` keeps what is usable, nothing else, each once. That a
smaller number comes first needs more: two names with a common beginning are cut
in the same pieces up to the one they part in, so what decides is a run of digits
in each, and of two runs without leading zeros the longer denotes the larger
number, as does, of two as long, the one with the larger digit where they part.

Only model-checked: everything under fairness (`EveryOperationReturns`,
`HealthyChildIsHeard`, `CommandExits`, `CloseWakesEveryone`, `NoLostWakeup`),
which TLAPS does not reach.

## Not modelled

Wording of errors, logging, the parsing of arguments, the layout of what is
printed, help texts and flag names. The directed broadcast address of an
interface, which is only displayed. Socket options and the binding of sockets
beyond whether it succeeds: calls of the operating system. The places of the
header's fields among its 27 bytes, constants of one pair of functions with
tests of their own; the fields handlers look at are in `UdapOps` and `Discovery`.
`close` of the real transports, which does nothing. Responses the mock drops
(`drop_get_ip`, `unreachable`) are requests never served in `UdapOps` and
settings in `Exchange`. Concurrent callers stealing each other's replies are in
the model (`Concurrent`), but nothing promises them an answer and no property
asks for one. The wrap of the sequence number is in the model; nothing compares
it. Tests,
fixtures and build files.

## State of the work

Done: the operations with their abstract store and the refinement, discovery
over both transports within the command that runs it, interface names, the byte
codecs with the virtual device, the test transport, and the proofs above, which
state every safety property the passing runs check.

Left: weaker hypotheses for `WholeWrites`, and for listings, whose order fails
only where identifiers and other tokens meet at one place of usable interfaces.
