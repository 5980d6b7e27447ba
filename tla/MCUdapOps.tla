------------------------------ MODULE MCUdapOps ------------------------------
(***************************************************************************)
(* Small instances of UdapOps.  The table keeps the offsets of two         *)
(* parameters of crates/udap/src/parameters.rs: hostname (17) and          *)
(* server_address (71), with slimserver_address as an alias of the latter. *)
(***************************************************************************)
EXTENDS UdapStore

CONSTANTS d1, d2, zero, c1, c2, c3, ip1, ip2, a, b, x, huge

PlainNames == {"hostname", "server_address"}
AliasNames == PlainNames \cup {"slimserver_address"}
OddNames == {"hostname", "server_address", "offset_5", "volume"}
MCSlots == {17, 71}
PlainTable == [n \in PlainNames |-> IF n = "hostname" THEN 17 ELSE 71]
AliasTable == [n \in AliasNames |-> IF n = "hostname" THEN 17 ELSE 71]
MCCanonical == [s \in MCSlots |-> IF s = 17 THEN "hostname" ELSE "server_address"]
MCRank == [n \in Names |->
  CASE n = "hostname" -> 1 [] n = "offset_5" -> 2 [] n = "server_address" -> 3
    [] n = "slimserver_address" -> 4 [] n = "volume" -> 5]

One == {c1}
Two == {c1, c2}
Three == {c1, c2, c3}
MCTarget == [c \in Callers |-> IF c = c1 THEN d1 ELSE IF d2 \in Macs THEN d2 ELSE d1]
WithUnaddressed == [c \in Callers |-> IF c = c1 THEN d1 ELSE IF c = c2 THEN d2 ELSE zero]
IpUnknown == [c \in Callers |-> NoIp]
\* One Device of each kind.
IpMixed == [c \in Callers |-> IF c = c1 THEN NoIp ELSE ip2]
IpKnown == [c \in Callers |-> IF Target[c] = d2 THEN ip2 ELSE ip1]
MCAddress == [d \in Macs |-> IF d = d1 THEN ip1 ELSE ip2]

SeedA == [d \in Macs |-> [s \in Slots |-> a]]
\* Each device starts from a value of its own.
SeedOwn == [d \in Macs |-> [s \in Slots |-> IF d = d1 THEN a ELSE b]]

AsIs == [v \in Values |-> v]

\* The map with value v for name n and nothing else.
Only(n, v) == [k \in Names |-> IF k = n THEN v ELSE Absent]
Both(m, v, n, w) == Extend(Only(m, v), Only(n, w))

\* What callers pass to set.
MCConfigs ==
  {Only("hostname", a), Only("hostname", b), Both("hostname", b, "server_address", b)}
OddConfigs == MCConfigs \cup {Only("server_address", b), Only("hostname", huge), Only("volume", b), Only("offset_5", b)}
AdverseConfigs == {Only("hostname", x)}
RevertConfigs == {Only("hostname", b), Only("server_address", b)}
AliasConfigs == {Only("server_address", b), Only("slimserver_address", x)}

\* What they pass to get.
WholeGets == {PlainNames}
PartialGets == {{"hostname"}, PlainNames}
OddGets == {{"hostname"}, OddNames}
=============================================================================
