-------------------------------- MODULE MCCli --------------------------------
(***************************************************************************)
(* Small instances of Cli.                                                 *)
(***************************************************************************)
EXTENDS Cli

CONSTANTS d1, zero, pseudo

\* A packet without Ethernet addressing.
Noise == {[request |-> FALSE, parses |-> TRUE, eth |-> FALSE, src |-> pseudo,
           advert |-> FALSE, copy |-> <<0, 0, 1>>]}

\* Bytes of names.
en == <<101, 110>>
br == <<98, 114, 45>>
en7 == en \o <<55>>
en007 == en \o <<48, 48, 55>>
en10 == en \o <<49, 48>>
enp2s0 == en \o <<112, 50, 115, 48>>
enp10s0 == en \o <<112, 49, 48, 115, 48>>
br10 == br \o <<49, 48>>
br41b8 == br \o <<52, 49, 98, 56, 53, 99, 98, 98, 48, 51, 102, 48>>
br7a91 == br \o <<55, 97, 57, 49, 56, 101, 100, 98, 52, 49, 99, 98>>

Iface(name, index) ==
  [name |-> name, index |-> index, up |-> TRUE, broadcast |-> TRUE, loopback |-> FALSE,
   ipv4 |-> <<"addr">>]

\* Beside the usable interfaces: a loopback, a tunnel, one that is down and one
\* without an address.
Unusable ==
  <<[Iface(<<108, 111>>, 3) EXCEPT !.loopback = TRUE],
    [Iface(<<119, 103, 48>>, 4) EXCEPT !.broadcast = FALSE],
    [Iface(en10, 5) EXCEPT !.up = FALSE],
    [Iface(en10, 6) EXCEPT !.ipv4 = <<>>]>>

\* Any two of the names in any order, one that moved to another index, none.
Pairs ==
  {<<Iface(m, 1)>> \o Unusable \o <<Iface(n, 2)>> :
     m, n \in {en7, en007, en10, enp2s0, enp10s0, br41b8, br7a91}}

CliHosts == {h \in Pairs : h[1].name # h[6].name} \cup {<<Iface(en7, 2)>>, Unusable}

CliNames == {en7, en007}

\* Two bridges named by Docker, and one named by hand.
DockerBridges == {<<Iface(br7a91, 1), Iface(br10, 2), Iface(br41b8, 3)>>}
=============================================================================
