------------------------------ MODULE Interfaces ------------------------------
(***************************************************************************)
(* Which network interfaces discovery can use and in which order they are  *)
(* listed: crates/udap/src/interfaces.rs.                                  *)
(*                                                                         *)
(* A name is a sequence of bytes.  An interface as the operating system    *)
(* reports it is a record; ipv4 is the sequence of its IPv4 addresses.     *)
(***************************************************************************)
EXTENDS Integers, Sequences, FiniteSets, FiniteSetsExt, SequencesExt

(***************************************************************************)
(* Bytes and orderings: an Ordering is -1, 0 or 1.                         *)
(***************************************************************************)
Digit == 48..57
Letter == (65..90) \cup (97..122)
Alphanumeric == Digit \cup Letter
HexDigit == Digit \cup (65..70) \cup (97..102)

cmp(a, b) == IF a < b THEN -1 ELSE IF a = b THEN 0 ELSE 1

then_with(first, second) == IF first # 0 THEN first ELSE second

\* The first place where two sequences differ decides, then their lengths.
lex(Cmp(_, _), l, r) ==
  LET differ == {k \in 1..Min({Len(l), Len(r)}) : Cmp(l[k], r[k]) # 0}
  IN  IF differ = {} THEN cmp(Len(l), Len(r))
      ELSE Cmp(l[Min(differ)], r[Min(differ)])

slice_cmp(l, r) == lex(cmp, l, r)

(***************************************************************************)
(* The comparison of names.                                                *)
(*                                                                         *)
(* Both loops of the code take a piece of each name in turn, a whole run   *)
(* where both are at a byte of a class and one byte where they are not.    *)
(* Where one is and the other is not their first bytes differ and end the  *)
(* loop, so the pieces of a name do not depend on the other name.          *)
(***************************************************************************)
\* A text in pieces: runs of bytes of Class, and the other bytes one by one.
Pieces(s, Class) ==
  LET ends == {i \in DOMAIN s : i = Len(s) \/ ~({s[i], s[i + 1]} \subseteq Class)}
      End(k) == CHOOSE i \in ends \cup {0} : Cardinality({j \in ends : j <= i}) = k
  IN  [k \in 1..Cardinality(ends) |-> SubSeq(s, End(k - 1) + 1, End(k))]

strip_leading_zeros(run) ==
  LET kept == {i \in 1..Len(run) : run[i] # 48 \/ i = Len(run)}
  IN  SubSeq(run, Min(kept), Len(run))

HEX_IDENTIFIER_MIN_LEN == 8

is_hex_identifier(token) ==
  /\ Len(token) >= HEX_IDENTIFIER_MIN_LEN
  /\ \A i \in 1..Len(token) : token[i] \in HexDigit
  /\ \E i \in 1..Len(token) : token[i] \in Letter

\* Two runs of digits by their values, other pieces by their first bytes.
by_value(l, r) ==
  LET m == strip_leading_zeros(l)
      n == strip_leading_zeros(r)
  IN  IF {l[1], r[1]} \subseteq Digit THEN then_with(cmp(Len(m), Len(n)), slice_cmp(m, n))
      ELSE cmp(l[1], r[1])

\* Mutant of token_cmp: digits are characters like any others.
token_cmp_AsText(l, r) == slice_cmp(l, r)

token_cmp(l, r) == lex(by_value, Pieces(l, Digit), Pieces(r, Digit))

\* Two tokens, or a separator and whatever the other name has there.
TokenOrder(l, r) ==
  IF ~({l[1], r[1]} \subseteq Alphanumeric) THEN cmp(l[1], r[1])
  ELSE IF is_hex_identifier(l) /\ is_hex_identifier(r) THEN slice_cmp(l, r)
  ELSE token_cmp(l, r)

ByTokens(l, r) == lex(TokenOrder, Pieces(l, Alphanumeric), Pieces(r, Alphanumeric))

\* Mutant of iface_cmp: the final comparison is missing.
iface_cmp_NoTieBreak(l, r) == ByTokens(l, r)

iface_cmp(l, r) == then_with(ByTokens(l, r), slice_cmp(l, r))

(***************************************************************************)
(* The enumeration.                                                        *)
(***************************************************************************)
Usable(iface) == iface.up /\ iface.broadcast /\ ~iface.loopback /\ iface.ipv4 # <<>>

NetInterface(iface) == [name |-> iface.name, index |-> iface.index, addr |-> iface.ipv4[1]]

\* The library's sort of a short slice, here by name: each element moves left
\* past those it is less than.
Insert(sorted, x) ==
  LET k == Max({0} \cup {i \in DOMAIN sorted : iface_cmp(x.name, sorted[i].name) # -1})
  IN  InsertAt(sorted, k + 1, x)

sort_by(ifs) ==
  LET sorted[n \in 0..Len(ifs)] == IF n = 0 THEN <<>> ELSE Insert(sorted[n - 1], ifs[n])
  IN  sorted[Len(ifs)]

\* The usable ones of the interfaces the operating system reports, by name.
enumerate(host) ==
  LET out[n \in 0..Len(host)] ==
        IF n = 0 THEN <<>>
        ELSE IF Usable(host[n]) THEN Append(out[n - 1], NetInterface(host[n])) ELSE out[n - 1]
  IN  sort_by(out[Len(host)])

(***************************************************************************)
(* Reference definitions the listing is checked against.                   *)
(***************************************************************************)
\* The position after the run of bytes of Class that begins at i.
RunEnd(s, i, Class) == Min({j \in i..(Len(s) + 1) : j > Len(s) \/ s[j] \notin Class})

\* The number a run of digits denotes.
NumberOf(run) ==
  LET upto[n \in 0..Len(run)] == IF n = 0 THEN 0 ELSE 10 * upto[n - 1] + (run[n] - 48)
  IN  upto[Len(run)]

\* l and r are the same up to numbers of which l's is the smaller one.
SmallerNumber(l, r) ==
  \E i \in 1..Min({Len(l), Len(r)}) :
    /\ l[i] \in Digit /\ r[i] \in Digit
    /\ i > 1 => l[i - 1] \notin Digit
    /\ SubSeq(l, 1, i - 1) = SubSeq(r, 1, i - 1)
    /\ NumberOf(SubSeq(l, i, RunEnd(l, i, Digit) - 1))
         < NumberOf(SubSeq(r, i, RunEnd(r, i, Digit) - 1))
=============================================================================
