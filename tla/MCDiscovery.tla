----------------------------- MODULE MCDiscovery -----------------------------
(***************************************************************************)
(* Small instances of Discovery.                                           *)
(***************************************************************************)
EXTENDS Discovery

CONSTANTS d1, d2, zero, pseudo

Left(src, eth, parses) ==
  [request |-> FALSE, parses |-> parses, eth |-> eth, src |-> src, advert |-> FALSE,
   copy |-> <<0, 0, 1>>]

\* A packet without Ethernet addressing, and one that is not UDAP's as well.
Noise == {Left(pseudo, FALSE, TRUE)}
MoreNoise == Noise \cup {Left(d1, TRUE, FALSE)}
\* The answer to an operation that did not wait for it.
OperationReply == {Left(d1, TRUE, TRUE)}
=============================================================================
