------------------------------ MODULE Discovery ------------------------------
(***************************************************************************)
(* Advanced discovery: Client::discover broadcasts a request and records   *)
(* the devices that answer until its cancellation token fires, over one    *)
(* UdpTransport or over a MultiTransport of one per network interface.     *)
(*                                                                         *)
(*   Client           crates/udap/src/client.rs                            *)
(*   Session          crates/udap/src/session.rs (send_retried, recv)      *)
(*   MultiTransport   crates/udap/src/transport/multi.rs                   *)
(*   UdpTransport     crates/udap/src/transport/udp.rs                     *)
(*   the timer        crates/udap-cli/src/cmd/discover.rs                  *)
(*                                                                         *)
(* The sockets all listen on the same port, so a datagram may reach any of *)
(* them.  Datagrams of one socket form a set: they arrive in any order.    *)
(***************************************************************************)
EXTENDS Naturals

CONSTANTS
  Devices,    \* devices on the network
  ZeroMac,    \* the source address our own requests carry
  Foreign,    \* addresses that are not Ethernet's
  Children,   \* where a socket can be opened, one per network interface
  Filters,    \* those whose recv skips packets with the request bit set
  Retries,    \* Session.retries
  SendFails,  \* whether a transmission may fail
  Breaks,     \* whether a socket may begin to return errors
  Leftovers,  \* datagrams in flight before the first discovery
  MaxCalls    \* bound on the calls of discover

Macs == Devices \cup Foreign \cup {ZeroMac}

\* A datagram: whether it has the request bit and a UDAP header, whether its
\* source type is Ethernet's, and whether its payload is that of a discovery
\* reply.  copy tells transmissions apart.
Packet == [request : BOOLEAN, parses : BOOLEAN, eth : BOOLEAN, src : Macs,
           advert : BOOLEAN, copy : (0..MaxCalls) \X (0..Retries) \X Children]

ASSUME PartiesAssumption ==
  /\ Devices \cap Foreign = {} /\ ZeroMac \notin Devices \cup Foreign
  /\ Filters \subseteq Children

ASSUME UsageAssumption ==
  /\ {SendFails, Breaks} \subseteq BOOLEAN
  /\ Retries \in Nat /\ MaxCalls \in Nat
  /\ Leftovers \subseteq Packet
  /\ \A p \in Leftovers :
       /\ ~p.request /\ (p.advert => p.parses /\ p.eth)
       /\ p.parses => p.src \in (IF p.eth THEN Devices ELSE Foreign)

VARIABLES
  phase,      \* where the client is
  outcome,    \* what the last discovery returned
  cancelled,  \* the token of the discovery in progress
  calls,      \* number of calls so far
  registry,   \* Client.devices: what is recorded of each address
  transport,  \* its sockets, and whether a MultiTransport composes them
  retired,    \* MultiTransport.retired
  inbox,      \* datagrams waiting in each socket
  broken,     \* sockets that have begun to return errors
  air,        \* datagrams under way
  taken,      \* history: devices handed over by take_device
  heard       \* history: devices whose discovery reply reached a socket

clientVars == <<phase, outcome, cancelled, calls, registry, taken>>
netVars == <<transport, broken, air, heard>>
vars == <<clientVars, retired, inbox, netVars>>

Transports == [composed : BOOLEAN, sockets : SUBSET Children]

\* Those a constructor makes: a lone socket, or a composition of some.
Constructible ==
  {t \in Transports : /\ t.sockets # {}
                      /\ ~t.composed => \A i, j \in t.sockets : i = j}

\* A record that parse_discovery_response filled in, and one it left bare.
Record == {"absent", "advertised", "bare"}

TypeOK ==
  /\ phase \in {"idle", "receiving"}
  /\ outcome \in {"none", "ok", "Send", "Recv"}
  /\ cancelled \in BOOLEAN
  /\ calls \in 0..MaxCalls
  /\ registry \in [Macs -> Record]
  /\ transport \in Transports
  /\ retired \subseteq Children /\ broken \subseteq Children
  /\ inbox \in [Children -> SUBSET Packet]
  /\ air \subseteq Packet
  /\ taken \subseteq Macs /\ heard \subseteq Macs

Fresh ==
  /\ phase = "idle" /\ outcome = "none" /\ cancelled = FALSE /\ calls = 0
  /\ registry = [m \in Macs |-> "absent"]
  /\ retired = {} /\ broken = {}
  /\ inbox = [i \in Children |-> {}]
  /\ air = Leftovers
  /\ taken = {} /\ heard = {}

Init == Fresh /\ transport \in Constructible

(***************************************************************************)
(* The client.                                                             *)
(***************************************************************************)
\* Our request as sent on one child in one attempt.
AdvDisc(k, i) ==
  [request |-> TRUE, parses |-> TRUE, eth |-> TRUE, src |-> ZeroMac, advert |-> FALSE,
   copy |-> <<calls + 1, k, i>>]

Transmissions == (0..Retries) \X transport.sockets

\* discover sends its request, on every child and in every attempt, and fails
\* at once when no transmission succeeds.
Discover ==
  /\ phase = "idle" /\ calls < MaxCalls
  /\ calls' = calls + 1 /\ cancelled' = FALSE
  /\ \E sent \in IF SendFails THEN SUBSET Transmissions ELSE {Transmissions} :
       /\ air' = air \cup {AdvDisc(t[1], t[2]) : t \in sent}
       /\ \/ sent = {} /\ outcome' = "Send" /\ UNCHANGED phase
          \/ sent # {} /\ outcome' = "none" /\ phase' = "receiving"
  /\ UNCHANGED <<registry, taken, transport, retired, inbox, broken, heard>>

parse_discovery_response(p) == IF p.advert THEN "advertised" ELSE "bare"

\* Mutant of Records: the request bit is not looked at.
Records_Echo(p) == p.parses /\ p.eth

\* Mutant of Records: the type of the source address is not looked at.
Records_AnyType(p) == ~p.request /\ p.parses

\* What handle_discovery_reply turns into a device.
Records(p) == ~p.request /\ p.parses /\ p.eth

handle_discovery_reply(p) ==
  registry' = [registry EXCEPT ![p.src] = IF Records(p) THEN parse_discovery_response(p) ELSE @]

\* The children MultiTransport::recv polls; a lone transport never retires.
Live == transport.sockets \ retired

\* Mutant of Take: what the other children had ready goes with the winner.
Take_AndLosers(i, p) ==
  /\ phase = "receiving" /\ i \in Live /\ p \in inbox[i]
  /\ ~(i \in Filters /\ p.request)
  /\ inbox' = [j \in Children |-> IF j = i THEN inbox[i] \ {p} ELSE {}]
  /\ handle_discovery_reply(p)
  /\ UNCHANGED <<phase, outcome, cancelled, calls, taken, retired, netVars>>

\* The child i wins with packet p; the receives of the others are dropped,
\* and with them nothing that had arrived.
Take(i, p) ==
  /\ phase = "receiving" /\ i \in Live /\ p \in inbox[i]
  /\ ~(i \in Filters /\ p.request)
  /\ inbox' = [inbox EXCEPT ![i] = @ \ {p}]
  /\ handle_discovery_reply(p)
  /\ UNCHANGED <<phase, outcome, cancelled, calls, taken, retired, netVars>>

\* UdpTransport::recv skips our own looped-back request.
SkipEcho(i, p) ==
  /\ phase = "receiving" /\ i \in Live /\ p \in inbox[i]
  /\ i \in Filters /\ p.request
  /\ inbox' = [inbox EXCEPT ![i] = @ \ {p}]
  /\ UNCHANGED <<clientVars, retired, netVars>>

Return(status) == phase' = "idle" /\ outcome' = status

\* Mutant of ChildFails: an error of a child ends the fan-out.
ChildFails_Fatal(i) ==
  /\ phase = "receiving" /\ i \in Live \cap broken
  /\ Return("Recv")
  /\ UNCHANGED <<cancelled, calls, registry, taken, retired, inbox, netVars>>

\* Mutant of ChildFails: what waits in a retired child's socket is discarded.
ChildFails_Closes(i) ==
  /\ phase = "receiving" /\ i \in Live \cap broken
  /\ \/ transport.composed /\ retired' = retired \cup {i} /\ UNCHANGED <<phase, outcome>>
     \/ ~transport.composed /\ Return("Recv") /\ UNCHANGED retired
  /\ inbox' = [inbox EXCEPT ![i] = {}]
  /\ UNCHANGED <<cancelled, calls, registry, taken, netVars>>

\* Mutant of ChildFails: a fan-out polls the child again.
ChildFails_Stays(i) ==
  /\ phase = "receiving" /\ i \in Live \cap broken
  /\ \/ transport.composed /\ UNCHANGED <<phase, outcome, retired>>
     \/ ~transport.composed /\ Return("Recv") /\ UNCHANGED retired
  /\ UNCHANGED <<cancelled, calls, registry, taken, inbox, netVars>>

\* A child returns an error: MultiTransport retires it and polls the others, a
\* lone transport passes it on.
ChildFails(i) ==
  /\ phase = "receiving" /\ i \in Live \cap broken
  /\ \/ transport.composed /\ retired' = retired \cup {i} /\ UNCHANGED <<phase, outcome>>
     \/ ~transport.composed /\ Return("Recv") /\ UNCHANGED retired
  /\ UNCHANGED <<cancelled, calls, registry, taken, inbox, netVars>>

\* Mutant of Expire: with every child retired nothing looks at the token.
Expire_OfChild ==
  /\ phase = "receiving" /\ cancelled /\ Live # {}
  /\ Return("ok")
  /\ UNCHANGED <<cancelled, calls, registry, taken, retired, inbox, netVars>>

\* Mutant of Expire: the timeout is passed on as the error it arrives as.
Expire_AsError ==
  /\ phase = "receiving" /\ cancelled
  /\ Return("Cancelled")
  /\ UNCHANGED <<cancelled, calls, registry, taken, retired, inbox, netVars>>

\* A receive sees the token: a child's, or recv's own once all are retired.
Expire ==
  /\ phase = "receiving" /\ cancelled
  /\ Return("ok")
  /\ UNCHANGED <<cancelled, calls, registry, taken, retired, inbox, netVars>>

Poll ==
  \/ \E i \in Children : ChildFails(i) \/ \E p \in inbox[i] : Take(i, p) \/ SkipEcho(i, p)
  \/ Expire

\* What the client surely does of this.  select_all asks its receives in turn
\* and settles with the first that is ready, and a socket that fails is always
\* ready: as long as one is asked, others may not be.
Settle ==
  \/ \E i \in Children : ChildFails(i)
  \/ /\ Live \cap broken = {}
     /\ \E i \in Children : \E p \in inbox[i] : Take(i, p) \/ SkipEcho(i, p)
  \/ Expire

\* The spawned timer cancels the token.
Timeout ==
  /\ phase = "receiving" /\ ~cancelled
  /\ cancelled' = TRUE
  /\ UNCHANGED <<phase, outcome, calls, registry, taken, retired, inbox, netVars>>

take_device(m) ==
  /\ phase = "idle" /\ registry[m] # "absent"
  /\ registry' = [registry EXCEPT ![m] = "absent"]
  /\ taken' = taken \cup {m}
  /\ UNCHANGED <<phase, outcome, cancelled, calls, retired, inbox, netVars>>

(***************************************************************************)
(* The network.                                                            *)
(***************************************************************************)
Advert(d, p) == [p EXCEPT !.request = FALSE, !.src = d, !.advert = TRUE]

\* Our request reaches some devices, which answer it, and loops back to some
\* of our sockets.
Broadcast(p) ==
  /\ p \in air /\ p.request
  /\ \E D \in SUBSET Devices : air' = (air \ {p}) \cup {Advert(d, p) : d \in D}
  /\ \E S \in SUBSET transport.sockets :
       inbox' = [i \in Children |-> IF i \in S THEN inbox[i] \cup {p} ELSE inbox[i]]
  /\ UNCHANGED <<clientVars, transport, retired, broken, heard>>

\* A reply reaches one or more of our sockets.
Deliver(p) ==
  /\ p \in air /\ ~p.request
  /\ air' = air \ {p}
  /\ \E S \in (SUBSET transport.sockets) \ {{}} :
       inbox' = [i \in Children |-> IF i \in S THEN inbox[i] \cup {p} ELSE inbox[i]]
  /\ heard' = IF p.advert THEN heard \cup {p.src} ELSE heard
  /\ UNCHANGED <<clientVars, transport, retired, broken>>

Break(i) ==
  /\ Breaks /\ i \notin broken
  /\ broken' = broken \cup {i}
  /\ UNCHANGED <<clientVars, transport, retired, inbox, air, heard>>

Next ==
  \/ Discover \/ Poll \/ Timeout
  \/ \E m \in Macs : take_device(m)
  \/ \E p \in air : Broadcast(p) \/ Deliver(p)
  \/ \E i \in Children : Break(i)

Spec == Init /\ [][Next]_vars

\* The task that receives is polled.  Nothing makes the token fire.
FairSpec == Spec /\ WF_vars(Settle)

(***************************************************************************)
(* Properties.                                                             *)
(***************************************************************************)
\* The client records devices, not its own echoes nor pseudo-addresses,
\* whatever transport sits underneath (client.rs:216-225 and 237-239).
OnlyDevices == \A m \in Macs : registry[m] # "absent" => m \in Devices

\* No reply is lost to the merging of receives (multi.rs:108-110): a device
\* whose reply reached a socket is recorded, was handed to the caller, or has
\* its reply still waiting there.
NothingLost ==
  \A d \in heard :
    \/ registry[d] = "advertised" \/ d \in taken
    \/ \E i \in Children : \E p \in inbox[i] : p.advert /\ p.src = d

\* Why the registry is right: of the datagrams under way or waiting, our own
\* requests are no replies, those that would be recorded name a device, and
\* every discovery reply would be recorded.  The inductive invariant behind
\* OnlyDevices and NothingLost.
InFlight == air \cup UNION {inbox[i] : i \in Children}

Genuine ==
  \A p \in InFlight :
    /\ p.request => p.parses /\ p.eth /\ ~p.advert
    /\ Records(p) => p.src \in Devices
    /\ p.advert => Records(p)

\* No answer to an operation is left over from before.
NoOperationReplies == \A p \in Leftovers : Records(p) => p.advert

\* Every record comes from a discovery reply (device.rs:6, "A device found by
\* discovery.  Fields come from the response TLVs").
EveryRecordIsAdvertised == \A m \in Macs : registry[m] # "bare"

\* One bad interface does not take discovery down (multi.rs:34-36): a reply
\* waiting in a socket that works is recorded, unless the time is up before,
\* which FairSpec does not promise.  No socket that fails keeps the working ones
\* from being asked.
HealthyChildIsHeard ==
  \A d \in Devices, i \in Children :
    /\ phase = "receiving" /\ ~cancelled /\ i \notin broken
    /\ \E p \in inbox[i] : p.advert /\ p.src = d
    ~> registry[d] = "advertised" \/ cancelled \/ i \in broken
=============================================================================
