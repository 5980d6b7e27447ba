--------------------------------- MODULE Cli ---------------------------------
(***************************************************************************)
(* One invocation of udapcfg: the arguments, the check of the interface    *)
(* they name, the listing of interfaces, and a discovery from the          *)
(* construction of the client to the exit code.                            *)
(*                                                                         *)
(*   main, run, build_client   crates/udap-cli/src/{main,lib}.rs           *)
(*   the subcommands           crates/udap-cli/src/cmd/*.rs                *)
(*   the constructors          crates/udap/src/client.rs                   *)
(*                                                                         *)
(* Interfaces come and go while the program runs, so what each sweep finds *)
(* is any of Hosts.  The discovery itself is that of module Discovery: the *)
(* socket pinned to an interface is named by the interface's index.  An    *)
(* Option is a sequence of at most one element.                            *)
(***************************************************************************)
EXTENDS Discovery, Interfaces

CONSTANTS
  Hosts,    \* lists of interfaces the operating system may report
  Names,    \* names a user may give to --bind-interface
  Unpinned  \* the socket of with_udp

Indices(host) == {host[k].index : k \in DOMAIN host}

\* An interface as netdev reports it.
Interface ==
  [name : Seq(0..255), index : Nat, up : BOOLEAN, broadcast : BOOLEAN, loopback : BOOLEAN,
   ipv4 : Seq(STRING)]

ASSUME HostsAssumption ==
  /\ Hosts \subseteq Seq(Interface)
  /\ Unpinned \in Children
  /\ \A host \in Hosts : Indices(enumerate(host)) \subseteq Children \ {Unpinned}

VARIABLES
  args,      \* the parsed arguments
  stage,     \* how far the command has come
  resolved,  \* the interface --bind-interface was resolved to, as an Option
  reported,  \* history: what the operating system reported for the listing
  listing,   \* the interfaces printed
  printed,   \* the MAC addresses printed
  exit       \* the exit code, as an Option

cliVars == <<args, stage, resolved, reported, listing, printed, exit>>
allVars == <<vars, cliVars>>

Arguments ==
  [command : {"discover", "interfaces"}, bind_interface : {<<>>} \cup {<<n>> : n \in Names},
   all_interfaces : BOOLEAN]

Stages == {"start", "checked", "built", "discovering", "exited"}

NoTransport == [composed |-> FALSE, sockets |-> {}]

CliTypeOK ==
  /\ TypeOK
  /\ args \in Arguments /\ stage \in Stages
  /\ Len(resolved) <= 1 /\ reported \in {<<>>} \cup Hosts /\ Len(listing) <= Len(reported)
  /\ printed \subseteq Macs
  /\ exit \in {<<>>, <<0>>, <<1>>, <<2>>}

CliInit ==
  /\ Fresh /\ transport = NoTransport
  /\ args \in Arguments /\ stage = "start"
  /\ resolved = <<>> /\ reported = <<>> /\ listing = <<>> /\ printed = {} /\ exit = <<>>

Exit(code) == stage' = "exited" /\ exit' = <<code>>

(***************************************************************************)
(* The command.                                                            *)
(***************************************************************************)
\* clap: --bind-interface conflicts with --all-interfaces.
Conflicts == args.bind_interface # <<>> /\ args.all_interfaces

Reject ==
  /\ stage = "start" /\ Conflicts
  /\ Exit(2)
  /\ UNCHANGED <<vars, args, resolved, reported, listing, printed>>

\* The first interface of that name in a sweep, if there is one.
Find(ifs, name) ==
  {ifs[k] : k \in {k \in DOMAIN ifs : /\ ifs[k].name = name
                                     /\ \A j \in 1..(k - 1) : ifs[j].name # name}}

\* run's check ahead of the dispatch: the only sweep --bind-interface makes.
Check ==
  /\ stage = "start" /\ ~Conflicts
  /\ IF args.bind_interface = <<>>
     THEN stage' = "checked" /\ UNCHANGED <<resolved, exit>>
     ELSE \E host \in Hosts :
            LET found == Find(enumerate(host), args.bind_interface[1])
            IN  \/ found = {} /\ Exit(1) /\ UNCHANGED resolved
                \/ \E iface \in found :
                     resolved' = <<iface>> /\ stage' = "checked" /\ UNCHANGED exit
  /\ UNCHANGED <<vars, args, reported, listing, printed>>

\* The interfaces subcommand.
ListInterfaces ==
  /\ stage = "checked" /\ args.command = "interfaces"
  /\ reported' \in Hosts
  /\ listing' = enumerate(reported')
  /\ Exit(0)
  /\ UNCHANGED <<vars, args, resolved, printed>>

Built(composed, sockets) ==
  /\ transport' = [composed |-> composed, sockets |-> sockets]
  /\ stage' = "built"
  /\ UNCHANGED exit

BuildFails == Exit(2) /\ UNCHANGED transport

for_resolved_interface(iface) == Built(FALSE, {iface.index}) \/ BuildFails

\* A name is looked up in a sweep of the constructor's own.
for_interface(name) ==
  \E host \in Hosts :
    LET found == Find(enumerate(host), name)
    IN  \/ found = {} /\ BuildFails
        \/ \E iface \in found : for_resolved_interface(iface)

\* One socket for each interface that can be bound.
for_all_interfaces ==
  \E host \in Hosts : \E S \in SUBSET Indices(enumerate(host)) :
    IF S = {} THEN BuildFails ELSE Built(TRUE, S)

with_udp == Built(FALSE, {Unpinned}) \/ BuildFails

\* Mutant of build_client: the name is resolved a second time.
build_client_SecondSweep ==
  IF resolved # <<>> THEN for_interface(args.bind_interface[1])
  ELSE IF args.all_interfaces THEN for_all_interfaces
  ELSE with_udp

build_client ==
  IF resolved # <<>> THEN for_resolved_interface(resolved[1])
  ELSE IF args.all_interfaces THEN for_all_interfaces
  ELSE with_udp

MakeClient ==
  /\ stage = "checked" /\ args.command = "discover"
  /\ build_client
  /\ UNCHANGED <<clientVars, retired, inbox, broken, air, heard>>
  /\ UNCHANGED <<args, resolved, reported, listing, printed>>

\* The timer is spawned and the discovery called.
StartDiscovery ==
  /\ stage = "built"
  /\ Discover
  /\ stage' = "discovering"
  /\ UNCHANGED <<args, resolved, reported, listing, printed, exit>>

\* discover returns: an error ends the command, else the devices are printed.
Finish ==
  /\ stage = "discovering" /\ phase = "idle"
  /\ IF outcome = "ok"
     THEN Exit(0) /\ printed' = {m \in Macs : registry[m] # "absent"}
     ELSE Exit(2) /\ UNCHANGED printed
  /\ UNCHANGED <<vars, args, resolved, reported, listing>>

Command ==
  Reject \/ Check \/ ListInterfaces \/ MakeClient \/ StartDiscovery \/ Finish

\* The discovery under way, its timer and the network.
Discovering ==
  /\ stage = "discovering"
  /\ \/ Poll \/ Timeout
     \/ \E p \in air : Broadcast(p) \/ Deliver(p)
     \/ \E i \in transport.sockets : Break(i)
  /\ UNCHANGED cliVars

CliNext == Command \/ Discovering

CliSpec == CliInit /\ [][CliNext]_allVars

\* The program runs on: a single task, and the timer it spawned before
\* (cmd/discover.rs:34-37).
CliFairSpec ==
  /\ CliSpec
  /\ WF_allVars(Command)
  /\ WF_allVars(Settle /\ UNCHANGED cliVars)
  /\ WF_allVars(Timeout /\ UNCHANGED cliVars)

(***************************************************************************)
(* Properties.                                                             *)
(***************************************************************************)
\* Only devices are printed, whatever else is on the network.
PrintedAreDevices == printed \subseteq Devices

\* A discovery that succeeds prints every device whose reply came in, on any
\* interface, unless the reply is still waiting in its socket
\* (cmd/discover.rs:39-52 with multi.rs:104-130).
HeardArePrinted ==
  args.command = "discover" /\ exit = <<0>> =>
    \A d \in heard :
      d \in printed \/ \E i \in transport.sockets : \E p \in inbox[i] : p.advert /\ p.src = d

\* The interface the check accepted is the one the socket is pinned to: what
\* happens to it afterwards is no usage error and never leads to another
\* interface of the same name (lib.rs:92-101).
BoundAsChecked ==
  resolved # <<>> =>
    exit # <<1>> /\ transport.sockets \subseteq {resolved[1].index}

\* Once a request of a fan-out is out, interfaces that fail do not make the
\* command fail (multi.rs:31-36).
FanOutSurvives ==
  args.all_interfaces /\ transport.sockets # {} /\ exit = <<2>> => outcome = "Send"

\* The same interfaces are listed in the same order, whatever order the
\* operating system reports them in (interfaces.rs:156-159).
Shuffles(s) ==
  {[k \in DOMAIN s |-> s[f[k]]] :
     f \in {g \in [DOMAIN s -> DOMAIN s] : \A a, b \in DOMAIN s : g[a] = g[b] => a = b}}

ListingIsStable == \A other \in Shuffles(reported) : enumerate(other) = listing

\* Names that differ in a number are listed by that number
\* (interfaces.rs:136-147), unless they hold an opaque identifier.
Conventional(name) ==
  \A i, j \in DOMAIN name : ~is_hex_identifier(SubSeq(name, i, j))

ListedNaturally ==
  \A i, j \in DOMAIN listing :
    /\ i < j
    /\ Conventional(listing[i].name) /\ Conventional(listing[j].name)
    => ~SmallerNumber(listing[j].name, listing[i].name)

\* Every command comes to its end: a discovery by its timeout, even when every
\* interface has failed (multi.rs:42-45).
CommandExits == <>(stage = "exited")
=============================================================================
