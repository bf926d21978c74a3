-------------------------------- MODULE Dicts --------------------------------
(***************************************************************************)
(* JSON objects as the Python code reads them: records without their       *)
(* absent fields, whose scalars are texts, values or None.  A value is a   *)
(* text with a number: the number 0 has its own place in Python's idea of  *)
(* what is false.                                                          *)
(***************************************************************************)
EXTENDS Integers, Sequences
LOCAL INSTANCE FiniteSetsExt   \* Min
LOCAL INSTANCE Functions       \* Restrict

CONSTANT None   \* an absent field, or null

Text(t) == [text |-> t, number |-> 0]
Number(n) == [text |-> "a number", number |-> n]
NoValue == Text(None)

Empty == [k \in {} |-> None]

\* d.get(k, default) and d.get(k)
GetOr(d, k, default) == IF k \in DOMAIN d THEN d[k] ELSE default
Get(d, k) == GetOr(d, k, None)
GetValue(d, k) == GetOr(d, k, NoValue)

\* What is false among texts, among values and among numbers of a clock.
NoText == {None, ""}
FalseValues == {NoValue, Text(""), Number(0)}
NoStamp == {None}

\* a or b
Or(a, b) == IF a \in NoText THEN b ELSE a

\* d.get(k1) or d.get(k2) or ...: if all are false, the last one decides.
OrAlong(d, keys, absent, false) ==
  LET at(i) == GetOr(d, keys[i], absent)
      true == {i \in DOMAIN keys : at(i) \notin false}
  IN  IF true = {} THEN at(Len(keys)) ELSE at(Min(true))

\* {**e, **d}: what TLC writes d @@ e, as a definition that can be expanded.
d ++ e == [k \in DOMAIN d \cup DOMAIN e |-> IF k \in DOMAIN d THEN d[k] ELSE e[k]]

\* {k: v for k, v in d.items() if v}
Kept(d) == Restrict(d, {k \in DOMAIN d : d[k] \notin NoText})

Has(d, keys) == keys \subseteq DOMAIN d
HasAny(d, keys) == keys \cap DOMAIN d # {}
=============================================================================
