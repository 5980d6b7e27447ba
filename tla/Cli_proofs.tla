------------------------------ MODULE Cli_proofs ------------------------------
(***************************************************************************)
(* Proofs about Discovery and about Cli, which runs it, for any networks,  *)
(* interfaces and names.  A discovery is type correct, records devices     *)
(* only, and loses no reply, provided that no answer to an operation is    *)
(* mistaken for one.  A command prints devices only and leaves out none    *)
(* that was heard, pins its socket to the interface that was checked,      *)
(* survives the interfaces of a fan-out, and lists the same interfaces in  *)
(* the same order, the smaller number in a name first.                     *)
(***************************************************************************)
EXTENDS Cli, Interfaces_proofs, TLAPS

-----------------------------------------------------------------------------
(* Discovery: type correctness.                                            *)

\* Our requests are packets.
LEMMA AdvDiscType ==
  ASSUME TypeOK, calls < MaxCalls, NEW t \in Transmissions
  PROVE  AdvDisc(t[1], t[2]) \in Packet
  BY UsageAssumption DEF AdvDisc, Packet, Transmissions, TypeOK, Transports, Macs

\* So are the replies to them.
LEMMA AdvertType ==
  ASSUME NEW p \in Packet, NEW d \in Devices
  PROVE  /\ Advert(d, p) \in Packet
         /\ ~Advert(d, p).request /\ Advert(d, p).src = d /\ Advert(d, p).advert
         /\ Advert(d, p).parses = p.parses /\ Advert(d, p).eth = p.eth
  BY DEF Advert, Packet, Macs

\* Initially every variable has its type.
LEMMA InitType == Fresh /\ transport \in Transports => TypeOK
<1> SUFFICES ASSUME Fresh, transport \in Transports PROVE TypeOK
  OBVIOUS
<1>1. calls \in 0..MaxCalls
  BY UsageAssumption DEF Fresh
<1>2. air \subseteq Packet
  BY UsageAssumption DEF Fresh
<1>3. registry \in [Macs -> Record]
  BY DEF Fresh, Record
<1>4. QED
  BY <1>1, <1>2, <1>3 DEF Fresh, TypeOK

\* Handling a reply keeps the registry a map of records.
LEMMA HandleType ==
  ASSUME TypeOK, NEW p \in Packet, handle_discovery_reply(p)
  PROVE  registry' \in [Macs -> Record]
  BY DEF handle_discovery_reply, parse_discovery_response, TypeOK, Record, Packet

\* Every step preserves the types.
LEMMA NextType == TypeOK /\ [Next]_vars => TypeOK'
<1> SUFFICES ASSUME TypeOK, [Next]_vars PROVE TypeOK'
  OBVIOUS
<1> USE DEF netVars, clientVars
<1>1. CASE Discover
  <2>1. PICK sent \in SUBSET Transmissions :
          air' = air \cup {AdvDisc(t[1], t[2]) : t \in sent}
    BY <1>1 DEF Discover
  <2>2. air' \subseteq Packet
    BY <1>1, <2>1, AdvDiscType DEF Discover, TypeOK
  <2>3. calls' \in 0..MaxCalls
    BY <1>1, UsageAssumption DEF Discover, TypeOK
  <2>4. QED
    BY <1>1, <2>2, <2>3 DEF Discover, TypeOK
<1>2. ASSUME NEW i \in Children, NEW p \in inbox[i], Take(i, p) PROVE TypeOK'
  <2>1. p \in Packet
    BY DEF TypeOK
  <2>2. registry' \in [Macs -> Record]
    BY <1>2, <2>1, HandleType DEF Take
  <2>3. QED
    BY <1>2, <2>2 DEF Take, TypeOK
<1>3. ASSUME NEW i \in Children, NEW p \in inbox[i], SkipEcho(i, p) PROVE TypeOK'
  BY <1>3 DEF SkipEcho, TypeOK
<1>4. ASSUME NEW i \in Children, ChildFails(i) PROVE TypeOK'
  BY <1>4 DEF ChildFails, Return, TypeOK
<1>5. CASE Expire
  BY <1>5 DEF Expire, Return, TypeOK
<1>6. CASE Timeout
  BY <1>6 DEF Timeout, TypeOK
<1>7. ASSUME NEW m \in Macs, take_device(m) PROVE TypeOK'
  BY <1>7 DEF take_device, TypeOK, Record
<1>8. ASSUME NEW p \in air, Broadcast(p) PROVE TypeOK'
  <2>1. PICK D \in SUBSET Devices : air' = (air \ {p}) \cup {Advert(d, p) : d \in D}
    BY <1>8 DEF Broadcast
  <2>2. air' \subseteq Packet
    BY <2>1, AdvertType DEF TypeOK
  <2>3. inbox' \in [Children -> SUBSET Packet]
    BY <1>8 DEF Broadcast, TypeOK
  <2>4. QED
    BY <1>8, <2>2, <2>3 DEF Broadcast, TypeOK
<1>9. ASSUME NEW p \in air, Deliver(p) PROVE TypeOK'
  <2>1. p \in Packet
    BY DEF TypeOK
  <2>2. inbox' \in [Children -> SUBSET Packet]
    BY <1>9, <2>1 DEF Deliver, TypeOK
  <2>3. heard' \subseteq Macs
    BY <1>9, <2>1 DEF Deliver, TypeOK, Packet
  <2>4. QED
    BY <1>9, <2>2, <2>3 DEF Deliver, TypeOK
<1>10. ASSUME NEW i \in Children, Break(i) PROVE TypeOK'
  BY <1>10 DEF Break, TypeOK
<1>11. CASE UNCHANGED vars
  BY <1>11 DEF vars, TypeOK
<1>12. QED
  BY <1>1, <1>2, <1>3, <1>4, <1>5, <1>6, <1>7, <1>8, <1>9, <1>10, <1>11 DEF Next, Poll

\* The model is type correct.
THEOREM TypeCorrect == Spec => []TypeOK
<1>1. Init => TypeOK
  BY InitType DEF Init, Constructible
<1>2. QED
  BY <1>1, NextType, PTL DEF Spec

-----------------------------------------------------------------------------
(* Datagrams under way or waiting.                                         *)

\* One of our requests, and a device's reply to one.
IsRequest(p) == p.request /\ p.parses /\ p.eth /\ ~p.advert
IsReply(p) == Records(p) /\ p.advert /\ p.src \in Devices

\* A step adds to the datagrams in flight our own requests and the replies
\* of devices to them.
LEMMA NewDatagrams ==
  ASSUME TypeOK, Genuine, [Next]_vars, NEW p \in InFlight', p \notin InFlight
  PROVE  IsRequest(p) \/ IsReply(p)
<1> USE DEF InFlight, netVars, clientVars
<1>1. CASE Discover
  <2>1. PICK sent \in SUBSET Transmissions :
          air' = air \cup {AdvDisc(t[1], t[2]) : t \in sent}
    BY <1>1 DEF Discover
  <2>2. inbox' = inbox
    BY <1>1 DEF Discover
  <2>3. PICK t \in sent : p = AdvDisc(t[1], t[2])
    BY <2>1, <2>2
  <2>4. QED
    BY <2>3 DEF IsRequest, AdvDisc
<1>2. ASSUME NEW i \in Children, NEW q \in inbox[i], Take(i, q) \/ SkipEcho(i, q) PROVE FALSE
  <2>1. \A j \in Children : inbox'[j] \subseteq inbox[j]
    BY <1>2 DEF Take, SkipEcho, TypeOK
  <2>2. air' = air
    BY <1>2 DEF Take, SkipEcho
  <2>3. QED
    BY <2>1, <2>2
<1>3. ASSUME UNCHANGED <<air, inbox>> PROVE FALSE
  BY <1>3
<1>4. ASSUME NEW i \in Children, ChildFails(i) PROVE FALSE
  BY <1>3, <1>4 DEF ChildFails
<1>5. ASSUME Expire PROVE FALSE
  BY <1>3, <1>5 DEF Expire
<1>6. ASSUME Timeout PROVE FALSE
  BY <1>3, <1>6 DEF Timeout
<1>7. ASSUME NEW m \in Macs, take_device(m) PROVE FALSE
  BY <1>3, <1>7 DEF take_device
<1>8. ASSUME NEW q \in air, Broadcast(q)
      PROVE  IsReply(p)
  <2>1. PICK D \in SUBSET Devices : air' = (air \ {q}) \cup {Advert(d, q) : d \in D}
    BY <1>8 DEF Broadcast
  <2>2. \A j \in Children : inbox'[j] \subseteq inbox[j] \cup {q}
    BY <1>8 DEF Broadcast
  <2>3. PICK d \in D : p = Advert(d, q)
    BY <2>1, <2>2
  <2>4. q \in Packet /\ q.parses /\ q.eth
    BY <1>8 DEF Broadcast, TypeOK, Genuine
  <2>5. QED
    BY <2>3, <2>4, AdvertType DEF IsReply, Records
<1>9. ASSUME NEW q \in air, Deliver(q) PROVE FALSE
  <2>1. \A j \in Children : inbox'[j] \subseteq inbox[j] \cup {q}
    BY <1>9 DEF Deliver
  <2>2. air' \subseteq air
    BY <1>9 DEF Deliver
  <2>3. QED
    BY <2>1, <2>2
<1>10. ASSUME NEW i \in Children, Break(i) PROVE FALSE
  BY <1>3, <1>10 DEF Break
<1>11. ASSUME UNCHANGED vars PROVE FALSE
  BY <1>3, <1>11 DEF vars
<1>12. QED
  BY <1>1, <1>2, <1>4, <1>5, <1>6, <1>7, <1>8, <1>9, <1>10, <1>11 DEF Next, Poll

\* The datagrams in flight at first are the leftovers.
LEMMA InitGenuine == Fresh => Genuine
<1> SUFFICES ASSUME Fresh PROVE Genuine
  OBVIOUS
<1>1. InFlight = Leftovers
  BY DEF InFlight, Fresh
<1>2. QED
  BY <1>1, UsageAssumption DEF Genuine, Records

\* What is in flight stays genuine.
LEMMA NextGenuine == TypeOK /\ Genuine /\ [Next]_vars => Genuine'
<1> SUFFICES ASSUME TypeOK, Genuine, [Next]_vars, NEW p \in InFlight'
             PROVE  /\ p.request => p.parses /\ p.eth /\ ~p.advert
                    /\ Records(p) => p.src \in Devices
                    /\ p.advert => Records(p)
  BY DEF Genuine, Records
<1>1. CASE p \in InFlight
  BY <1>1 DEF Genuine
<1>2. CASE p \notin InFlight
  BY <1>2, NewDatagrams DEF IsRequest, IsReply, Records
<1>3. QED
  BY <1>1, <1>2

\* The datagrams in flight are genuine, always.
LEMMA AlwaysGenuine == Spec => [](TypeOK /\ Genuine)
<1>1. Init => Genuine
  BY InitGenuine DEF Init
<1>2. QED
  BY <1>1, TypeCorrect, NextGenuine, NextType, PTL DEF Spec

-----------------------------------------------------------------------------
(* The registry.                                                           *)

\* A step changes the record of an address only by taking a datagram of its
\* own, or by handing the device over.
LEMMA RegistryStep ==
  ASSUME TypeOK, [Next]_vars, NEW m \in Macs
  PROVE  \/ registry'[m] = registry[m]
         \/ /\ \E p \in InFlight : p.src = m /\ Records(p)
                                     /\ registry'[m] = parse_discovery_response(p)
         \/ registry'[m] = "absent" /\ m \in taken'
<1> USE DEF netVars, clientVars
<1>1. ASSUME NEW i \in Children, NEW p \in inbox[i], Take(i, p)
      PROVE  \/ registry'[m] = registry[m]
             \/ p.src = m /\ Records(p) /\ registry'[m] = parse_discovery_response(p)
  BY <1>1 DEF Take, handle_discovery_reply, TypeOK
<1>2. ASSUME NEW n \in Macs, take_device(n)
      PROVE  registry'[m] = registry[m] \/ (registry'[m] = "absent" /\ m \in taken')
  <2>1. registry \in [Macs -> Record] /\ registry' = [registry EXCEPT ![n] = "absent"]
    BY <1>2 DEF take_device, TypeOK
  <2>2. taken' = taken \cup {n}
    BY <1>2 DEF take_device
  <2>3. QED
    BY <2>1, <2>2
<1>3. ASSUME registry' # registry
      PROVE  \/ \E i \in Children : \E p \in inbox[i] : Take(i, p)
             \/ \E n \in Macs : take_device(n)
  BY <1>3 DEF Next, Poll, Discover, SkipEcho, ChildFails, Expire, Timeout, Broadcast,
              Deliver, Break, vars
<1>4. QED
  BY <1>1, <1>2, <1>3 DEF InFlight

\* A step keeps the registry to devices.
LEMMA OnlyDevicesStep == TypeOK /\ Genuine /\ OnlyDevices /\ [Next]_vars => OnlyDevices'
<1> SUFFICES ASSUME TypeOK, Genuine, OnlyDevices, [Next]_vars,
                    NEW m \in Macs, registry'[m] # "absent"
             PROVE  m \in Devices
  BY DEF OnlyDevices
<1>1. QED
  BY RegistryStep DEF Genuine, OnlyDevices

\* Only devices are recorded: neither our own looped-back requests nor
\* senders without an Ethernet address ever become devices.
THEOREM OnlyDevicesRecorded == Spec => []OnlyDevices
<1>1. Init => OnlyDevices
  BY DEF Init, Fresh, OnlyDevices
<1>2. QED
  BY <1>1, OnlyDevicesStep, AlwaysGenuine, PTL DEF Spec

\* All that would be recorded are discovery replies.
Replies == \A p \in InFlight : Records(p) => p.advert

\* It is so at first, when no answer to an operation is left over.
LEMMA InitReplies == NoOperationReplies /\ Fresh => Replies
  BY DEF Fresh, InFlight, NoOperationReplies, Replies

\* And it stays so.
LEMMA RepliesStep == TypeOK /\ Genuine /\ Replies /\ [Next]_vars => Replies'
<1> SUFFICES ASSUME TypeOK, Genuine, Replies, [Next]_vars, NEW p \in InFlight', Records(p)
             PROVE  p.advert
  BY DEF Records, Replies
<1>1. QED
  BY NewDatagrams DEF IsRequest, IsReply, Records, Replies

\* A datagram waiting in a socket leaves it only by being taken or skipped.
LEMMA InboxStep ==
  ASSUME TypeOK, [Next]_vars, NEW i \in Children, NEW p \in inbox[i], p \notin inbox'[i]
  PROVE  Take(i, p) \/ SkipEcho(i, p)
<1> USE DEF netVars, clientVars
<1>1. ASSUME NEW j \in Children, NEW q \in inbox[j], Take(j, q) \/ SkipEcho(j, q)
      PROVE  i = j /\ p = q
  <2>1. inbox' = [inbox EXCEPT ![j] = @ \ {q}]
    BY <1>1 DEF Take, SkipEcho
  <2>2. QED
    BY <2>1 DEF TypeOK
<1>2. ASSUME NEW q \in air, Broadcast(q) \/ Deliver(q) PROVE FALSE
  <2>1. inbox[i] \subseteq inbox'[i]
    BY <1>2 DEF Broadcast, Deliver
  <2>2. QED
    BY <2>1
<1>3. ASSUME inbox' # inbox
      PROVE  \/ \E j \in Children : \E q \in inbox[j] : Take(j, q) \/ SkipEcho(j, q)
             \/ \E q \in air : Broadcast(q) \/ Deliver(q)
  BY <1>3 DEF Next, Poll, Discover, ChildFails, Expire, Timeout, take_device, Break, vars
<1>4. QED
  BY <1>1, <1>2, <1>3

\* A step loses no reply.
LEMMA NothingLostStep ==
  TypeOK /\ Genuine /\ Replies /\ NothingLost /\ [Next]_vars => NothingLost'
<1> SUFFICES ASSUME TypeOK, Genuine, Replies, NothingLost, [Next]_vars, NEW d \in heard'
             PROVE  \/ registry'[d] = "advertised" \/ d \in taken'
                    \/ \E i \in Children : \E p \in inbox'[i] : p.advert /\ p.src = d
  BY DEF NothingLost
<1> DEFINE Known == \/ registry'[d] = "advertised" \/ d \in taken'
                    \/ \E i \in Children : \E p \in inbox'[i] : p.advert /\ p.src = d
<1> USE DEF netVars, clientVars
<1>1. d \in Macs
  BY NextType DEF TypeOK
<1>2. taken \subseteq taken'
  BY DEF Next, Poll, Discover, Take, SkipEcho, ChildFails, Expire, Timeout, take_device,
         Broadcast, Deliver, Break, vars
<1>3. CASE registry[d] = "advertised"
  <2>1. \/ registry'[d] = registry[d]
        \/ \E p \in InFlight : Records(p) /\ registry'[d] = parse_discovery_response(p)
        \/ d \in taken'
    BY <1>1, RegistryStep
  <2>2. QED
    BY <1>3, <2>1 DEF Replies, parse_discovery_response
<1>4. CASE d \in taken
  BY <1>2, <1>4
<1>5. ASSUME NEW i \in Children, NEW p \in inbox[i], p.advert, p.src = d
      PROVE  Known
  <2>1. p \in InFlight /\ Records(p)
    BY <1>5 DEF InFlight, Genuine
  <2>2. CASE Take(i, p)
    BY <1>1, <1>5, <2>1, <2>2
       DEF Take, handle_discovery_reply, parse_discovery_response, TypeOK
  <2>3. ~SkipEcho(i, p)
    BY <2>1 DEF SkipEcho, Records
  <2>4. QED
    BY <1>5, <2>2, <2>3, InboxStep
<1>6. ASSUME NEW q \in air, Deliver(q), d \notin heard
      PROVE  Known
  <2>1. q.advert /\ q.src = d
    BY <1>6 DEF Deliver
  <2>2. PICK S \in (SUBSET Children) \ {{}} :
          inbox' = [i \in Children |-> IF i \in S THEN inbox[i] \cup {q} ELSE inbox[i]]
    BY <1>6 DEF Deliver, TypeOK, Transports
  <2>3. PICK i \in S : i \in Children
    BY <2>2
  <2>4. q \in inbox'[i]
    BY <2>2, <2>3
  <2>5. QED
    BY <2>1, <2>3, <2>4
<1>7. d \in heard \/ \E q \in air : Deliver(q)
  BY DEF Next, Poll, Discover, Take, SkipEcho, ChildFails, Expire, Timeout, take_device,
         Broadcast, Break, vars
<1>8. QED
  BY <1>3, <1>4, <1>5, <1>6, <1>7 DEF NothingLost

\* No discovery reply that reached a socket is lost, whatever the other
\* sockets do: unless an answer to an operation is mistaken for one, its
\* device is recorded, was handed over, or is still waiting to be.
THEOREM NoReplyIsLost ==
  ASSUME NoOperationReplies
  PROVE  Spec => []NothingLost
<1>1. Init => Replies /\ NothingLost
  BY InitReplies DEF Init, Fresh, NothingLost
<1>2. QED
  BY <1>1, RepliesStep, NothingLostStep, AlwaysGenuine, PTL DEF Spec

-----------------------------------------------------------------------------
(* The course of a command.                                                *)

\* The interface a name was resolved to has a socket of its own, which is the
\* one that is opened; before that there is none.
Pinned ==
  /\ resolved # <<>> => /\ ~args.all_interfaces
                        /\ resolved[1].index \in Children
                        /\ transport.sockets \subseteq {resolved[1].index}
                        /\ exit # <<1>>
  /\ stage = "start" => resolved = <<>> /\ exit = <<>>
  /\ stage \in {"start", "checked"} => transport.sockets = {} /\ phase = "idle"
  /\ stage \in {"start", "checked", "built", "discovering"} => exit = <<>>

\* A fan-out is a composition, which returns no error of a receive.
Composes ==
  /\ stage \in {"built", "discovering"} /\ args.all_interfaces => transport.composed
  /\ transport.composed => outcome # "Recv"
  /\ stage \in {"start", "checked", "built"} => outcome = "none"
  /\ stage = "discovering" /\ phase = "idle" => outcome # "none"

\* Nothing is taken out of the registry, and nothing arrives but in a socket.
Contained ==
  /\ taken = {}
  /\ \A i \in Children : inbox[i] # {} => i \in transport.sockets

-----------------------------------------------------------------------------
(* The steps.                                                              *)

\* The steps of a discovery, and its beginning, are Discovery's.
LEMMA DiscoveryStep ==
  ASSUME TypeOK, StartDiscovery \/ Discovering
  PROVE  Next
<1>1. CASE StartDiscovery
  BY <1>1 DEF StartDiscovery, Next
<1>2. CASE Discovering
  BY <1>2 DEF Discovering, Next, TypeOK, Transports
<1>3. QED
  BY <1>1, <1>2

\* The transport a constructor makes.
LEMMA BuiltTransport ==
  ASSUME NEW c \in BOOLEAN, NEW S \in SUBSET Children, Built(c, S)
  PROVE  /\ transport' \in Transports /\ transport'.sockets = S /\ transport'.composed = c
         /\ stage' = "built" /\ UNCHANGED exit
  BY DEF Built, Transports

\* A client gets the transport its arguments ask for, or none.
LEMMA ClientBuilt ==
  ASSUME TypeOK, Pinned, MakeClient
  PROVE  \/ UNCHANGED transport /\ Exit(2)
         \/ /\ transport' \in Transports /\ stage' = "built" /\ UNCHANGED exit
            /\ resolved # <<>> => transport'.sockets = {resolved[1].index}
            /\ args.all_interfaces => transport'.composed
<1>1. CASE resolved # <<>>
  <2>1. for_resolved_interface(resolved[1])
    BY <1>1 DEF MakeClient, build_client
  <2>2. resolved[1].index \in Children /\ ~args.all_interfaces
    BY <1>1 DEF Pinned
  <2>3. QED
    BY <1>1, <2>1, <2>2, BuiltTransport DEF for_resolved_interface, BuildFails
<1>2. CASE resolved = <<>> /\ args.all_interfaces
  <2>1. for_all_interfaces
    BY <1>2 DEF MakeClient, build_client
  <2>2. PICK host \in Hosts : \E S \in SUBSET Indices(enumerate(host)) :
          IF S = {} THEN BuildFails ELSE Built(TRUE, S)
    BY <2>1 DEF for_all_interfaces
  <2> PICK S \in SUBSET Indices(enumerate(host)) :
         IF S = {} THEN BuildFails ELSE Built(TRUE, S)
    BY <2>2
  <2>3. S \subseteq Children
    BY <2>2, HostsAssumption
  <2>4. QED
    BY <1>2, <2>3, BuiltTransport DEF BuildFails
<1>3. CASE resolved = <<>> /\ ~args.all_interfaces
  <2>1. with_udp
    BY <1>3 DEF MakeClient, build_client
  <2>2. QED
    BY <1>3, <2>1, HostsAssumption, BuiltTransport DEF with_udp, BuildFails
<1>4. QED
  BY <1>1, <1>2, <1>3

\* All other steps leave the discovery alone, except for the transport.
LEMMA OtherStep ==
  ASSUME TypeOK, Pinned, [CliNext]_allVars, ~StartDiscovery, ~Discovering
  PROVE  /\ UNCHANGED <<clientVars, retired, inbox, broken, air, heard>>
         /\ transport' = transport \/ (stage = "checked" /\ transport' \in Transports)
<1> USE DEF vars, netVars
<1>1. CASE MakeClient
  BY <1>1, ClientBuilt DEF MakeClient
<1>2. CASE Reject \/ Check \/ ListInterfaces \/ Finish \/ UNCHANGED allVars
  BY <1>2 DEF Reject, Check, ListInterfaces, Finish, allVars
<1>3. QED
  BY <1>1, <1>2 DEF CliNext, Command

\* The types of a discovery hold within a command.
LEMMA TypeStep == TypeOK /\ Pinned /\ [CliNext]_allVars => TypeOK'
<1> SUFFICES ASSUME TypeOK, Pinned, [CliNext]_allVars PROVE TypeOK'
  OBVIOUS
<1>1. CASE StartDiscovery \/ Discovering
  BY <1>1, DiscoveryStep, NextType
<1>2. CASE ~StartDiscovery /\ ~Discovering
  BY <1>2, OtherStep DEF TypeOK, clientVars
<1>3. QED
  BY <1>1, <1>2

\* So does what is known of the datagrams and of the registry.
LEMMA RegistryHolds ==
  ASSUME TypeOK, Pinned, [CliNext]_allVars
  PROVE  /\ Genuine => Genuine'
         /\ Genuine /\ OnlyDevices => OnlyDevices'
         /\ Genuine /\ Replies => Replies'
         /\ Genuine /\ Replies /\ NothingLost => NothingLost'
<1>1. CASE StartDiscovery \/ Discovering
  BY <1>1, DiscoveryStep, NextGenuine, OnlyDevicesStep, RepliesStep, NothingLostStep
<1>2. CASE ~StartDiscovery /\ ~Discovering
  <2>1. UNCHANGED <<inbox, air, registry, taken, heard>>
    BY <1>2, OtherStep DEF clientVars
  <2>2. InFlight' = InFlight
    BY <2>1 DEF InFlight
  <2>3. QED
    BY <2>1, <2>2 DEF Genuine, OnlyDevices, Replies, NothingLost, Records
<1>3. QED
  BY <1>1, <1>2

-----------------------------------------------------------------------------
(* The course of a command, as an invariant.                               *)

\* A command begins its course.
LEMMA InitCourse == CliInit => TypeOK /\ Genuine /\ Pinned /\ Composes /\ Contained
<1> SUFFICES ASSUME CliInit PROVE TypeOK /\ Genuine /\ Pinned /\ Composes /\ Contained
  OBVIOUS
<1>1. TypeOK
  BY InitType DEF CliInit, NoTransport, Transports
<1>2. Genuine
  BY InitGenuine DEF CliInit
<1>3. Pinned /\ Composes /\ Contained
  BY DEF CliInit, NoTransport, Fresh, Pinned, Composes, Contained
<1>4. QED
  BY <1>1, <1>2, <1>3

\* Checking an interface settles what it was resolved to.
LEMMA CheckPins ==
  ASSUME Pinned, Check
  PROVE  Pinned'
<1> USE DEF vars, netVars, clientVars
<1>1. stage = "start" /\ resolved = <<>> /\ exit = <<>> /\ transport.sockets = {} /\ phase = "idle"
  BY DEF Check, Pinned
<1>2. UNCHANGED <<transport, phase, args>>
  BY DEF Check
<1>3. CASE resolved' = <<>>
  BY <1>1, <1>2, <1>3 DEF Check, Pinned, Exit
<1>4. CASE resolved' # <<>>
  <2>1. args.bind_interface # <<>> /\ ~args.all_interfaces
    BY <1>1, <1>4 DEF Check, Conflicts
  <2>2. PICK host \in Hosts :
          \E iface \in Find(enumerate(host), args.bind_interface[1]) :
            resolved' = <<iface>> /\ stage' = "checked" /\ UNCHANGED exit
    BY <1>1, <1>4, <2>1 DEF Check
  <2>3. resolved'[1].index \in Indices(enumerate(host))
    BY <2>2 DEF Find, Indices
  <2>4. resolved'[1].index \in Children
    BY <2>3, HostsAssumption
  <2>5. QED
    BY <1>1, <1>2, <2>1, <2>2, <2>4 DEF Pinned
<1>5. QED
  BY <1>3, <1>4

\* A discovery leaves the transport as it is.
LEMMA TransportStays == ASSUME StartDiscovery \/ Discovering PROVE UNCHANGED transport
  BY DEF StartDiscovery, Discovering, Discover, Poll, Take, SkipEcho, ChildFails, Expire,
         Timeout, Broadcast, Deliver, Break, netVars, clientVars

\* Every step keeps what is resolved, bound and returned so far together.
LEMMA PinnedStep == TypeOK /\ Pinned /\ [CliNext]_allVars => Pinned'
<1> SUFFICES ASSUME TypeOK, Pinned, [CliNext]_allVars PROVE Pinned'
  OBVIOUS
<1> USE DEF vars, netVars, clientVars
<1>1. CASE Reject
  BY <1>1 DEF Reject, Exit, Pinned
<1>2. CASE Check
  BY <1>2, CheckPins
<1>3. CASE ListInterfaces
  BY <1>3 DEF ListInterfaces, Exit, Pinned
<1>4. CASE MakeClient
  <2>1. resolved' = resolved /\ args' = args /\ stage = "checked"
    BY <1>4 DEF MakeClient
  <2>2. QED
    BY <1>4, <2>1, ClientBuilt DEF Pinned, Exit
<1>5. CASE StartDiscovery
  BY <1>5, TransportStays DEF StartDiscovery, Pinned
<1>6. CASE Finish
  BY <1>6 DEF Finish, Exit, Pinned
<1>7. CASE Discovering
  BY <1>7, TransportStays DEF Discovering, cliVars, Pinned
<1>8. CASE UNCHANGED allVars
  BY <1>8 DEF allVars, cliVars, Pinned
<1>9. QED
  BY <1>1, <1>2, <1>3, <1>4, <1>5, <1>6, <1>7, <1>8 DEF CliNext, Command

\* A fan-out stays composed, step by step.
LEMMA ComposesStep == TypeOK /\ Pinned /\ Composes /\ [CliNext]_allVars => Composes'
<1> SUFFICES ASSUME TypeOK, Pinned, Composes, [CliNext]_allVars PROVE Composes'
  OBVIOUS
<1> USE DEF vars, netVars, clientVars
<1>1. CASE Reject \/ Check \/ ListInterfaces \/ Finish
  BY <1>1 DEF Reject, Check, ListInterfaces, Finish, Exit, Composes
<1>2. CASE MakeClient
  BY <1>2, ClientBuilt DEF MakeClient, Composes, Exit
<1>3. CASE StartDiscovery
  BY <1>3 DEF StartDiscovery, Discover, Composes
<1>4. CASE Discovering
  <2>1. transport' = transport /\ UNCHANGED cliVars /\ stage = "discovering"
    BY <1>4, TransportStays DEF Discovering
  <2>2. \/ UNCHANGED <<phase, outcome>>
        \/ phase' = "idle" /\ outcome' = "ok"
        \/ phase' = "idle" /\ outcome' = "Recv" /\ ~transport.composed
    BY <1>4 DEF Discovering, Poll, Take, SkipEcho, ChildFails, Expire, Return,
                Timeout, Broadcast, Deliver, Break
  <2>3. QED
    BY <2>1, <2>2 DEF Composes, cliVars
<1>5. CASE UNCHANGED allVars
  BY <1>5 DEF allVars, cliVars, Composes
<1>6. QED
  BY <1>1, <1>2, <1>3, <1>4, <1>5 DEF CliNext, Command

\* Nothing comes to wait where no socket is.
LEMMA ContainedStep == TypeOK /\ Pinned /\ Contained /\ [CliNext]_allVars => Contained'
<1> SUFFICES ASSUME TypeOK, Pinned, Contained, [CliNext]_allVars PROVE Contained'
  OBVIOUS
<1> USE DEF vars, netVars, clientVars
<1>1. CASE ~StartDiscovery /\ ~Discovering
  <2>1. UNCHANGED <<taken, inbox>>
    BY <1>1, OtherStep
  <2>2. transport' = transport \/ transport.sockets = {}
    BY <1>1, OtherStep DEF Pinned
  <2>3. QED
    BY <2>1, <2>2 DEF Contained
<1>2. CASE StartDiscovery
  BY <1>2, TransportStays DEF StartDiscovery, Discover, Contained
<1>3. CASE Discovering
  <2>1. taken' = taken /\ transport' = transport
    BY <1>3, TransportStays DEF Discovering, Poll, Take, SkipEcho, ChildFails, Expire, Timeout,
                Broadcast, Deliver, Break
  <2>2. ASSUME NEW i \in Children, i \notin transport.sockets
        PROVE  inbox'[i] \subseteq inbox[i]
    BY <1>3, <2>2 DEF Discovering, Poll, Take, SkipEcho, ChildFails, Expire, Timeout,
                      Broadcast, Deliver, Break, TypeOK
  <2>3. QED
    BY <2>1, <2>2 DEF Contained
<1>4. QED
  BY <1>1, <1>2, <1>3

Course == TypeOK /\ Genuine /\ Pinned /\ Composes /\ Contained

\* Every command takes such a course.
LEMMA AlwaysCourse == CliSpec => []Course
<1>1. CliInit => Course
  BY InitCourse DEF Course
<1>2. Course /\ [CliNext]_allVars => Course'
  BY TypeStep, RegistryHolds, PinnedStep, ComposesStep, ContainedStep DEF Course
<1>3. QED
  BY <1>1, <1>2, PTL DEF CliSpec

-----------------------------------------------------------------------------
(* What a command does.                                                    *)

\* The model of a command is type correct as far as its discovery goes, and
\* the socket is pinned to the interface that was checked, whatever becomes of
\* the interfaces in between.
THEOREM BoundInterfaceIsChecked == CliSpec => []BoundAsChecked
<1>1. Course => BoundAsChecked
  BY DEF Course, Pinned, BoundAsChecked
<1>2. QED
  BY <1>1, AlwaysCourse, PTL

\* Only devices are ever printed.
THEOREM OnlyDevicesPrinted == CliSpec => []PrintedAreDevices
<1> DEFINE I == OnlyDevices /\ PrintedAreDevices
<1>1. CliInit => I
  BY DEF CliInit, Fresh, OnlyDevices, PrintedAreDevices
<1>2. Course /\ I /\ [CliNext]_allVars => I'
  <2> SUFFICES ASSUME Course, I, [CliNext]_allVars PROVE I'
    OBVIOUS
  <2>1. OnlyDevices'
    BY RegistryHolds DEF Course
  <2>2. printed' = printed \/ printed' = {m \in Macs : registry[m] # "absent"}
    BY DEF CliNext, Command, Reject, Check, ListInterfaces, MakeClient, StartDiscovery,
           Finish, Discovering, cliVars, allVars
  <2>3. PrintedAreDevices'
    BY <2>2 DEF OnlyDevices, PrintedAreDevices
  <2>4. QED
    BY <2>1, <2>3
<1>3. QED
  BY <1>1, <1>2, AlwaysCourse, PTL DEF CliSpec

\* A fan-out whose request went out is not made to fail by its interfaces.
THEOREM FanOutOutlivesInterfaces == CliSpec => []FanOutSurvives
<1>1. CliInit => FanOutSurvives
  BY DEF CliInit, NoTransport, FanOutSurvives
<1>2. Course /\ FanOutSurvives /\ [CliNext]_allVars => FanOutSurvives'
  <2> SUFFICES ASSUME Course, FanOutSurvives, [CliNext]_allVars,
                      args'.all_interfaces, transport'.sockets # {}, exit' = << 2 >>
               PROVE  outcome' = "Send"
    BY DEF FanOutSurvives
  <2> USE DEF vars, netVars, clientVars
  <2>1. args' = args
    BY DEF CliNext, Command, Reject, Check, ListInterfaces, MakeClient, StartDiscovery, Finish,
           Discovering, cliVars, allVars
  <2>2. CASE Finish
    BY <2>1, <2>2 DEF Finish, Exit, Course, Composes, TypeOK
  <2>3. CASE Reject \/ Check \/ ListInterfaces
    BY <2>3 DEF Reject, Check, ListInterfaces, Course, Pinned
  <2>4. CASE MakeClient
    BY <2>4, ClientBuilt DEF MakeClient, Exit, Course, Pinned
  <2>5. CASE StartDiscovery \/ Discovering
    <3>1. stage \in {"built", "discovering"} /\ exit' = exit
      BY <2>5 DEF StartDiscovery, Discovering, cliVars
    <3>2. exit = <<>>
      BY <3>1 DEF Course, Pinned
    <3>3. QED
      BY <3>1, <3>2
  <2>6. CASE UNCHANGED allVars
    BY <2>6 DEF allVars, cliVars, FanOutSurvives
  <2>7. QED
    BY <2>2, <2>3, <2>4, <2>5, <2>6 DEF CliNext, Command
<1>3. QED
  BY <1>1, <1>2, AlwaysCourse, PTL DEF CliSpec

\* Every device that was heard is printed by a discovery that succeeds, unless
\* its reply is still in a socket: nothing is lost between the sockets of a
\* fan-out and the output, provided that no answer to an operation is taken
\* for a discovery reply.
THEOREM AllHeardArePrinted ==
  ASSUME NoOperationReplies
  PROVE  CliSpec => []HeardArePrinted
<1> DEFINE I == Replies /\ NothingLost /\ HeardArePrinted
<1>1. CliInit => I
  <2>1. CliInit => Replies
    BY InitReplies DEF CliInit
  <2>2. CliInit => NothingLost /\ HeardArePrinted
    BY DEF CliInit, Fresh, NothingLost, HeardArePrinted
  <2>3. QED
    BY <2>1, <2>2
<1>2. Course /\ I /\ [CliNext]_allVars => I'
  <2> SUFFICES ASSUME Course, I, [CliNext]_allVars PROVE I'
    OBVIOUS
  <2> USE DEF vars, netVars, clientVars
  <2>1. Replies' /\ NothingLost'
    BY RegistryHolds DEF Course
  <2>2. CASE Finish
    <3> SUFFICES ASSUME exit' = << 0 >>, NEW d \in heard
                 PROVE  \/ d \in printed'
                        \/ \E i \in transport.sockets : \E p \in inbox[i] : p.advert /\ p.src = d
      BY <2>1, <2>2 DEF Finish, HeardArePrinted
    <3>1. printed' = {m \in Macs : registry[m] # "absent"}
      BY <2>2 DEF Finish, Exit
    <3>2. d \in Macs
      BY DEF Course, TypeOK
    <3>3. \/ registry[d] = "advertised"
          \/ \E i \in Children : \E p \in inbox[i] : p.advert /\ p.src = d
      BY DEF NothingLost, Course, Contained
    <3>4. QED
      BY <3>1, <3>2, <3>3 DEF Course, Contained
  <2>3. CASE ListInterfaces
    BY <2>1, <2>3 DEF ListInterfaces, HeardArePrinted
  <2>4. CASE Reject \/ Check \/ MakeClient \/ StartDiscovery \/ Discovering
    <3>1. exit' # <<0>>
      <4>1. exit = <<>>
        BY <2>4 DEF Reject, Check, MakeClient, StartDiscovery, Discovering, Course, Pinned
      <4>2. CASE MakeClient
        BY <4>1, <4>2, ClientBuilt DEF Exit, Course
      <4>3. CASE ~MakeClient
        BY <2>4, <4>1, <4>3 DEF Reject, Check, StartDiscovery, Discovering, cliVars, Exit
      <4>4. QED
        BY <4>2, <4>3
    <3>2. QED
      BY <2>1, <3>1 DEF HeardArePrinted
  <2>5. CASE UNCHANGED allVars
    BY <2>1, <2>5 DEF allVars, cliVars, HeardArePrinted
  <2>6. QED
    BY <2>2, <2>3, <2>4, <2>5 DEF CliNext, Command
<1>3. QED
  BY <1>1, <1>2, AlwaysCourse, PTL DEF CliSpec

-----------------------------------------------------------------------------
(* The listing.                                                            *)

\* other has the elements of host in another order.
Rearranges(H, host, other, g) ==
  /\ other \in Seq(H) /\ Len(other) = Len(host)
  /\ g \in [1..Len(host) -> 1..Len(host)]
  /\ \A k \in 1..Len(host) : other[k] = host[g[k]]
  /\ \A a, b \in 1..Len(host) : g[a] = g[b] => a = b
  /\ \A j \in 1..Len(host) : \E k \in 1..Len(host) : g[k] = j

\* A choice of places no two of which are the same leaves none out.
LEMMA AllPlaces ==
  ASSUME NEW n \in Nat, NEW g \in [1..n -> 1..n], \A a, b \in 1..n : g[a] = g[b] => a = b
  PROVE  \A j \in 1..n : \E k \in 1..n : g[k] = j
<1>1. IsFiniteSet(1..n)
  BY FS_Interval
<1>2. g \in Injection(1..n, 1..n)
  BY DEF Injection, IsInjective
<1>3. g \in Surjection(1..n, 1..n)
  BY <1>1, <1>2, FS_Injection
<1>4. QED
  BY <1>3 DEF Surjection

\* A shuffle reports the same interfaces at other places.
LEMMA ShuffleIs ==
  ASSUME NEW H, NEW host \in Seq(H), NEW other \in Shuffles(host)
  PROVE  \E g : Rearranges(H, host, other, g)
<1>1. PICK n \in Nat : n = Len(host) /\ DOMAIN host = 1..n
  OBVIOUS
<1>2. PICK g \in [1..n -> 1..n] :
        /\ other = [k \in 1..n |-> host[g[k]]]
        /\ \A a, b \in 1..n : g[a] = g[b] => a = b
  <2>1. PICK D : D = DOMAIN host
    OBVIOUS
  <2>2. other \in {[k \in D |-> host[f[k]]] :
                     f \in {h \in [D -> D] : \A a, b \in D : h[a] = h[b] => a = b}}
    BY <2>1, Zenon DEF Shuffles
  <2>3. PICK f \in {h \in [D -> D] : \A a, b \in D : h[a] = h[b] => a = b} :
          other = [k \in D |-> host[f[k]]]
    BY <2>2, Zenon
  <2>4. f \in [D -> D] /\ \A a, b \in D : f[a] = f[b] => a = b
    BY Zenon
  <2>5. D = 1..n
    BY <1>1, <2>1
  <2>6. QED
    BY <2>3, <2>4, <2>5, Zenon
<1>3. \A j \in 1..n : \E k \in 1..n : g[k] = j
  BY <1>2, AllPlaces
<1>4. \A k \in 1..n : host[g[k]] \in H
  BY <1>1
<1>5. other \in [1..n -> H]
  BY <1>2, <1>4
<1>6. other \in Seq(H) /\ Len(other) = n
  BY <1>5, SeqDef
<1>7. QED
  BY <1>1, <1>2, <1>3, <1>6 DEF Rearranges

\* The same interfaces are usable, so the same are listed.
LEMMA ShuffleLists ==
  ASSUME NEW H, NEW host \in Seq(H), NEW other, NEW g, Rearranges(H, host, other, g)
  PROVE  /\ Listed(other, Len(other)) = Listed(host, Len(host))
         /\ NamesDiffer(host) => NamesDiffer(other)
<1>1. PICK n \in Nat : n = Len(host)
  OBVIOUS
<1>2. /\ Len(other) = n /\ \A k \in 1..n : g[k] \in 1..n /\ other[k] = host[g[k]]
      /\ \A a, b \in 1..n : g[a] = g[b] => a = b
      /\ \A j \in 1..n : \E k \in 1..n : g[k] = j
  BY <1>1 DEF Rearranges
<1>3. \A k \in 1..n : k \in UsableOf(other, n) <=> g[k] \in UsableOf(host, n)
  BY <1>2 DEF UsableOf
<1>4. \A k \in UsableOf(other, n) \cup UsableOf(host, n) : k \in 1..n
  BY DEF UsableOf
<1>5. Listed(other, n) = Listed(host, n)
  <2>1. ASSUME NEW x \in Listed(other, n) PROVE x \in Listed(host, n)
    <3>1. PICK k \in UsableOf(other, n) : x = NetInterface(other[k])
      BY DEF Listed
    <3>2. k \in 1..n
      BY <1>4
    <3>3. g[k] \in UsableOf(host, n) /\ x = NetInterface(host[g[k]])
      BY <1>2, <1>3, <3>1, <3>2
    <3>4. QED
      BY <3>3 DEF Listed
  <2>2. ASSUME NEW x \in Listed(host, n) PROVE x \in Listed(other, n)
    <3>1. PICK j \in UsableOf(host, n) : x = NetInterface(host[j])
      BY DEF Listed
    <3>2. PICK k \in 1..n : g[k] = j
      BY <1>2, <1>4, <3>1
    <3>3. k \in UsableOf(other, n) /\ x = NetInterface(other[k])
      BY <1>2, <1>3, <3>1, <3>2
    <3>4. QED
      BY <3>3 DEF Listed
  <2>3. QED
    BY <2>1, <2>2
<1>6. NamesDiffer(host) => NamesDiffer(other)
  <2> SUFFICES ASSUME NamesDiffer(host), NEW i \in UsableOf(other, n), NEW j \in UsableOf(other, n),
                      i # j
               PROVE  other[i].name # other[j].name
    BY <1>2 DEF NamesDiffer
  <2>1. i \in 1..n /\ j \in 1..n
    BY <1>4
  <2>2. g[i] \in UsableOf(host, n) /\ g[j] \in UsableOf(host, n) /\ g[i] # g[j]
    BY <1>2, <1>3, <2>1
  <2>3. host[g[i]].name # host[g[j]].name
    BY <1>1, <2>2 DEF NamesDiffer
  <2>4. QED
    BY <1>2, <2>1, <2>3
<1>7. QED
  BY <1>1, <1>2, <1>5, <1>6

\* The interfaces that are listed have names of their own, and no place of them
\* has an identifier in one name and another token in another.
Orderly(host) ==
  /\ NamesDiffer(host)
  /\ Unmixed({host[k].name : k \in UsableOf(host, Len(host))})

\* The names that are listed are texts.
LEMMA ListedNames ==
  ASSUME NEW host \in Seq(Interface)
  PROVE  {host[k].name : k \in UsableOf(host, Len(host))} \in SUBSET Texts
<1>1. ASSUME NEW k \in UsableOf(host, Len(host)) PROVE host[k].name \in Seq(0..255)
  <2>1. host[k] \in Interface
    BY DEF UsableOf
  <2>2. QED
    BY <2>1 DEF Interface
<1>2. \A n \in Seq(0..255) : n \in Seq(Nat)
  <2>1. PICK B : B = 0..255
    OBVIOUS
  <2>2. \A x \in B : x \in Nat
    BY <2>1
  <2>3. \A n \in Seq(B) : n \in Seq(Nat)
    <3>1. ASSUME NEW n \in Seq(B) PROVE n \in Seq(Nat)
      BY <2>2
    <3>2. QED
      BY <3>1
  <2>4. QED
    BY <2>1, <2>3
<1>3. QED
  BY <1>1, <1>2 DEF Texts

\* What is listed does not depend on the order it was reported in.
LEMMA ShuffleSame ==
  ASSUME NEW host \in Seq(Interface), Orderly(host), NEW other \in Shuffles(host)
  PROVE  enumerate(other) = enumerate(host)
<1> DEFINE R == Listed(host, Len(host))
           N == {host[k].name : k \in UsableOf(host, Len(host))}
<1>1. PICK g : Rearranges(Interface, host, other, g)
  BY ShuffleIs
<1>2. other \in Seq(Interface)
  BY <1>1 DEF Rearranges
<1>3. Listed(other, Len(other)) = R /\ NamesDiffer(host) /\ NamesDiffer(other)
  BY <1>1, ShuffleLists DEF Orderly
<1>4. Uniform(N)
  BY UnmixedIsUniform DEF Orderly
<1>5. N \in SUBSET Texts
  BY ListedNames
<1>6. \A y \in R : y.name \in N
  BY DEF Listed, NetInterface
<1> HIDE DEF R, N
<1>7. /\ enumerate(host) \in Seq(R) /\ Ascending(enumerate(host))
      /\ Elements(enumerate(host)) = R
  BY <1>3, <1>4, <1>5, <1>6, EnumerateIs, EnumerateAscends DEF R
<1>8. /\ enumerate(other) \in Seq(R) /\ Ascending(enumerate(other))
      /\ Elements(enumerate(other)) = R
  <2>1. Listed(other, Len(other)) \subseteq R
    BY <1>3
  <2>2. enumerate(other) \in Seq(R) /\ Elements(enumerate(other)) = R
    BY <1>2, <1>3, <2>1, EnumerateIs
  <2>3. Ascending(enumerate(other))
    BY <1>2, <1>3, <1>4, <1>5, <1>6, <2>1, EnumerateAscends
  <2>4. QED
    BY <2>2, <2>3
<1>9. QED
  BY <1>4, <1>5, <1>6, <1>7, <1>8, OneOrder

\* No interface listed later is less than one listed before.
LEMMA OrderlyListing ==
  ASSUME NEW host \in Seq(Interface), Orderly(host)
  PROVE  LET s == enumerate(host)
         IN  \A i, j \in 1..Len(s) :
               s[i].name \in Texts /\ (i < j => iface_cmp(s[j].name, s[i].name) # -1)
<1> DEFINE R == Listed(host, Len(host))
           N == {host[k].name : k \in UsableOf(host, Len(host))}
<1>1. PICK s : s = enumerate(host)
  OBVIOUS
<1>2. Uniform(N) /\ NamesDiffer(host)
  BY UnmixedIsUniform DEF Orderly
<1>3. N \in SUBSET Texts
  BY ListedNames
<1>4. \A y \in R : y.name \in N
  BY DEF Listed, NetInterface
<1> HIDE DEF R, N
<1>5. s \in Seq(R) /\ Ascending(s)
  BY <1>1, <1>2, <1>3, <1>4, EnumerateIs, EnumerateAscends DEF R
<1>6. Compares(names, N)
  BY <1>2, <1>3, NamesCompare
<1>7. ASSUME NEW i \in 1..Len(s), NEW j \in 1..Len(s)
      PROVE  s[i].name \in Texts /\ (i < j => iface_cmp(s[j].name, s[i].name) # -1)
  <2>1. s[i] \in R /\ s[j] \in R
    BY <1>5
  <2>2. PICK a, b : a = s[i].name /\ b = s[j].name
    OBVIOUS
  <2>3. a \in N /\ b \in N /\ a \in Texts /\ b \in Texts
    BY <1>3, <1>4, <2>1, <2>2
  <2>4. ASSUME i < j PROVE iface_cmp(b, a) # -1
    <3>1. iface_cmp(a, b) = -1
      BY <1>5, <2>2, <2>4 DEF Ascending
    <3>2. names[<<a, b>>] = -1 /\ names[<<b, a>>] = iface_cmp(b, a)
      BY <2>3, <3>1 DEF names
    <3>3. names[<<b, a>>] = -names[<<a, b>>]
      BY <1>6, <2>3 DEF Compares
    <3>4. QED
      BY <3>2, <3>3
  <2>5. QED
    BY <2>2, <2>3, <2>4
<1>8. QED
  BY <1>1, <1>7

\* Nothing is listed of nothing.
LEMMA NothingIsListed == enumerate(<<>>) = <<>>
<1>1. <<>> \in Seq({}) /\ Len(<<>>) = 0
  OBVIOUS
<1>2. UsableOf(<<>>, 0) = {}
  BY DEF UsableOf
<1>3. Listed(<<>>, 0) \subseteq {}
  BY <1>2 DEF Listed
<1>4. enumerate(<<>>) \in Seq({}) /\ Len(enumerate(<<>>)) <= 0
  BY <1>1, <1>3, EnumerateIs
<1>5. QED
  BY <1>4

\* The listing is that of what was reported.
ListsReported ==
  /\ reported \in {<<>>} \cup Hosts
  /\ listing = enumerate(reported)

\* So it is in every state.
LEMMA AlwaysListsReported == CliSpec => []ListsReported
<1>1. CliInit => ListsReported
  BY NothingIsListed DEF CliInit, ListsReported
<1>2. ListsReported /\ [CliNext]_allVars => ListsReported'
  BY DEF CliNext, Command, Reject, Check, ListInterfaces, MakeClient, StartDiscovery, Finish,
         Discovering, cliVars, allVars, ListsReported
<1>3. QED
  BY <1>1, <1>2, PTL DEF CliSpec

\* No more is listed than was reported.
LEMMA ListingIsBounded == ListsReported => Len(listing) <= Len(reported)
<1> SUFFICES ASSUME ListsReported PROVE Len(enumerate(reported)) <= Len(reported)
  BY DEF ListsReported
<1>1. reported \in Seq(Interface)
  <2>1. <<>> \in Seq(Interface)
    OBVIOUS
  <2>2. Hosts \subseteq Seq(Interface)
    BY HostsAssumption
  <2>3. reported \in {<<>>} \cup Hosts
    BY DEF ListsReported
  <2>4. QED
    BY <2>1, <2>2, <2>3, Zenon
<1>2. QED
  BY <1>1, EnumerateIs

\* The variables of the command itself have their types.
CommandTypes ==
  /\ args \in Arguments /\ stage \in Stages
  /\ Len(resolved) <= 1 /\ printed \subseteq Macs
  /\ exit \in {<<>>, <<0>>, <<1>>, <<2>>}

\* They keep their types.
LEMMA CommandTypesStep ==
  TypeOK /\ Pinned /\ CommandTypes /\ [CliNext]_allVars => CommandTypes'
<1> SUFFICES ASSUME TypeOK, Pinned, CommandTypes, [CliNext]_allVars PROVE CommandTypes'
  OBVIOUS
<1> USE DEF Stages
<1>1. CASE Reject
  BY <1>1 DEF Reject, Exit, CommandTypes
<1>2. CASE Check
  <2>1. UNCHANGED <<args, printed>>
    BY <1>2 DEF Check
  <2>2. \/ stage' = "checked" /\ UNCHANGED <<resolved, exit>>
        \/ Exit(1) /\ UNCHANGED resolved
        \/ (\E iface : resolved' = <<iface>>) /\ stage' = "checked" /\ UNCHANGED exit
    BY <1>2 DEF Check
  <2>3. Len(resolved') <= 1
    <3>1. Len(resolved) <= 1
      BY DEF CommandTypes
    <3>2. \A x : Len(<<x>>) = 1
      OBVIOUS
    <3>3. CASE resolved' = resolved
      BY <3>1, <3>3
    <3>4. CASE \E iface : resolved' = <<iface>>
      BY <3>2, <3>4
    <3>5. QED
      BY <2>2, <3>3, <3>4
  <2>4. QED
    BY <2>1, <2>2, <2>3 DEF Exit, CommandTypes
<1>3. CASE ListInterfaces
  BY <1>3 DEF ListInterfaces, Exit, CommandTypes
<1>4. CASE MakeClient
  BY <1>4, ClientBuilt DEF MakeClient, Exit, CommandTypes
<1>5. CASE StartDiscovery
  BY <1>5 DEF StartDiscovery, CommandTypes
<1>6. CASE Finish
  BY <1>6 DEF Finish, Exit, CommandTypes
<1>7. CASE Discovering \/ UNCHANGED allVars
  BY <1>7 DEF Discovering, cliVars, allVars, CommandTypes
<1>8. QED
  BY <1>1, <1>2, <1>3, <1>4, <1>5, <1>6, <1>7 DEF CliNext, Command

\* The model of a command is type correct: no listing is longer than what was
\* reported, and no exit code is any but those of the command line.
THEOREM CliTypeCorrect == CliSpec => []CliTypeOK
<1>1. CliInit => CommandTypes
  BY DEF CliInit, CommandTypes, Stages
<1>2. Course /\ CommandTypes /\ [CliNext]_allVars => CommandTypes'
  BY CommandTypesStep DEF Course
<1>3. Course /\ CommandTypes /\ ListsReported => CliTypeOK
  BY ListingIsBounded DEF Course, CommandTypes, ListsReported, CliTypeOK
<1>4. QED
  BY <1>1, <1>2, <1>3, AlwaysCourse, AlwaysListsReported, PTL DEF CliSpec

\* The same interfaces are always listed in the same order, however many they
\* are and in whatever order the operating system reports them, where the
\* interfaces of a machine are orderly.
THEOREM ListingsAreStable ==
  ASSUME \A host \in Hosts : Orderly(host)
  PROVE  CliSpec => []ListingIsStable
<1>1. ListsReported => ListingIsStable
  <2> SUFFICES ASSUME ListsReported, NEW other \in Shuffles(reported)
               PROVE  enumerate(other) = enumerate(reported)
    BY DEF ListsReported, ListingIsStable
  <2>1. CASE reported = <<>>
    <3>1. PICK g : Rearranges({}, reported, other, g)
      <4>1. reported \in Seq({})
        BY <2>1
      <4>2. QED
        BY <4>1, ShuffleIs
    <3>2. other \in Seq({}) /\ Len(other) = Len(reported)
      BY <3>1 DEF Rearranges
    <3>3. QED
      BY <2>1, <3>2
  <2>2. CASE reported \in Hosts
    BY <2>2, ShuffleSame, HostsAssumption
  <2>3. QED
    BY <2>1, <2>2 DEF ListsReported
<1>2. QED
  BY <1>1, AlwaysListsReported, PTL

\* Of two interfaces whose names differ in a number, and are no identifiers nor
\* have one, the one with the smaller number is always listed first, on the same
\* machines.
THEOREM ListingsAreNatural ==
  ASSUME \A host \in Hosts : Orderly(host)
  PROVE  CliSpec => []ListedNaturally
<1>1. ListsReported => ListedNaturally
  <2> SUFFICES ASSUME ListsReported, NEW i \in DOMAIN listing, NEW j \in DOMAIN listing, i < j,
                      Conventional(listing[i].name), Conventional(listing[j].name),
                      SmallerNumber(listing[j].name, listing[i].name)
               PROVE  FALSE
    BY DEF ListedNaturally
  <2>1. CASE reported = <<>>
    <3>1. listing = <<>>
      BY <2>1, NothingIsListed DEF ListsReported
    <3>2. DOMAIN <<>> = {}
      OBVIOUS
    <3>3. QED
      BY <3>1, <3>2
  <2>2. CASE reported \in Hosts
    <3>1. reported \in Seq(Interface) /\ Orderly(reported) /\ listing = enumerate(reported)
      BY <2>2, HostsAssumption DEF ListsReported
    <3>2. PICK l, r : l = listing[j].name /\ r = listing[i].name
      OBVIOUS
    <3>3. DOMAIN listing = 1..Len(listing)
      <4>1. enumerate(reported) \in Seq(Listed(reported, Len(reported)))
        BY <3>1, EnumerateIs
      <4>2. QED
        BY <3>1, <4>1
    <3>4. l \in Texts /\ r \in Texts /\ iface_cmp(l, r) # -1
      BY <3>1, <3>2, <3>3, OrderlyListing
    <3>5. iface_cmp(l, r) = -1
      BY <3>2, <3>4, SmallerNumberIsLess DEF Conventional
    <3>6. QED
      BY <3>4, <3>5
  <2>3. QED
    BY <2>1, <2>2 DEF ListsReported
<1>2. QED
  BY <1>1, AlwaysListsReported, PTL
=============================================================================
