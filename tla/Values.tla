------------------------------- MODULE Values -------------------------------
(***************************************************************************)
(* The values of the query language and how they compare                   *)
(* (src/eventd/src/query/value.rs), the key that groups are found by and   *)
(* the sums over a group (src/eventd/src/query/executor.rs).               *)
(*                                                                         *)
(* A value is its kind, the integers that make it up and, for an array,    *)
(* its items, which are not arrays here.  A float is given in halves and   *)
(* has a mantissa of three bits: halves up to 4, integers up to 8, then    *)
(* every second and every fourth integer.  A NaN is its bit pattern.  Maps *)
(* occur only inside arrays of a payload and are left out.                 *)
(***************************************************************************)
EXTENDS Integers, Sequences, FiniteSets, FiniteSetsExt, SequencesExt, TLC

CONSTANT SignedMax      \* i64::MAX

SignedMin == -SignedMax - 1
UnsignedMax == 2 * SignedMax + 1

Scalar(kind, v) == [kind |-> kind, v |-> v, items |-> <<>>]
Null == Scalar("null", <<>>)
Bool(b) == Scalar("bool", <<IF b THEN 1 ELSE 0>>)
Signed(n) == Scalar("signed", <<n>>)
Unsigned(n) == Scalar("unsigned", <<n>>)
Float(h) == Scalar("float", <<h>>)
NaN(bits) == Scalar("nan", <<bits>>)
Text(s) == Scalar("string", s)
Binary(s) == Scalar("binary", s)
Array(items) == [kind |-> "array", v |-> <<>>, items |-> items]

Numbers == {"signed", "unsigned", "float", "nan"}
IsNumber(a) == a.kind \in Numbers

\* The order of the kinds.
Ranks == [null |-> 0, bool |-> 1, signed |-> 2, unsigned |-> 2, float |-> 2, nan |-> 2,
          string |-> 3, binary |-> 4, array |-> 5]
KindRank(a) == Ranks[a.kind]

\* Less, equal and greater are -1, 0 and 1.
Cmp(m, n) == IF m < n THEN -1 ELSE IF m > n THEN 1 ELSE 0

\* The first comparison that finds a difference decides; without one, tie does.
Decided(by, tie) ==
    LET differ == {i \in DOMAIN by : by[i] # 0}
    IN  IF differ = {} THEN tie ELSE by[Min(differ)]

\* Element by element, then the length.
LexBy(cmp(_, _), s, t) ==
    Decided([i \in 1..Min({Len(s), Len(t)}) |-> cmp(s[i], t[i])], Cmp(Len(s), Len(t)))

(***************************************************************************)
(* Numbers.                                                                *)
(***************************************************************************)
\* n to the nearest multiple of step, to the even one of two.
RoundTo(n, step) ==
    LET low == n \div step
        twice == 2 * (n % step)
    IN  step * (IF twice < step \/ (twice = step /\ low % 2 = 0) THEN low ELSE low + 1)

\* The nearest float, in halves.
Rounded(h) ==
    LET size == IF h < 0 THEN -h ELSE h
    IN  RoundTo(h, CASE size <= 8 -> 1 [] size \in 9..16 -> 2 [] size \in 17..32 -> 4
                     [] OTHER -> 8)

\* An integer as a float.
ToFloat(n) == Rounded(2 * n)

Trunc(h) == IF h < 0 THEN -((-h) \div 2) ELSE h \div 2

CompareI64U64(signed, unsigned) == IF signed < 0 THEN -1 ELSE Cmp(signed, unsigned)

\* Mutation: the integer is converted, as a storage engine would.
CompareConverted(n, h) == Cmp(ToFloat(n), h)

\* The float is within the integers' range: compare with what it truncates to,
\* and on a tie with the fraction.
WithinRange(n, h) ==
    IF n # Trunc(h) THEN Cmp(n, Trunc(h)) ELSE Cmp(ToFloat(n), h)

\* An integer and a float, each type of integer with its own range.
CompareIntFloat(integer, h) ==
    LET signed == integer.kind = "signed"
    IN  IF h < (IF signed THEN 2 * SignedMin ELSE 0) THEN 1
        ELSE IF h >= 2 * ((IF signed THEN SignedMax ELSE UnsignedMax) + 1) THEN -1
        ELSE WithinRange(integer.v[1], h)

\* For two numbers.
NumericCmp(a, b) ==
    IF "nan" \in {a.kind, b.kind}
    THEN Cmp(IF a.kind = "nan" THEN 1 ELSE 0, IF b.kind = "nan" THEN 1 ELSE 0)
    ELSE IF a.kind = b.kind THEN Cmp(a.v[1], b.v[1])
    ELSE IF b.kind = "float" THEN CompareIntFloat(a, b.v[1])
    ELSE IF a.kind = "float" THEN -CompareIntFloat(b, a.v[1])
    ELSE IF a.kind = "signed" THEN CompareI64U64(a.v[1], b.v[1])
    ELSE -CompareI64U64(b.v[1], a.v[1])

(***************************************************************************)
(* Text, arrays, and all values.                                           *)
(***************************************************************************)
FoldAscii(byte) == IF byte \in 65..90 THEN byte + 32 ELSE byte
Folded(s) == [i \in DOMAIN s |-> FoldAscii(s[i])]

AsciiEqual(s, t) == Folded(s) = Folded(t)

AsciiCmp(s, t) == Decided(<<LexBy(Cmp, Folded(s), Folded(t))>>, LexBy(Cmp, s, t))

ScalarCmp(a, b) ==
    IF IsNumber(a) /\ IsNumber(b) THEN NumericCmp(a, b)
    ELSE IF KindRank(a) # KindRank(b) THEN Cmp(KindRank(a), KindRank(b))
    ELSE IF a.kind = "string" THEN AsciiCmp(a.v, b.v)
    ELSE LexBy(Cmp, a.v, b.v)

\* Two arrays by their items, all else as if the one item of an array.
Items(a, b) == IF a.kind = "array" /\ b.kind = "array" THEN a.items ELSE <<a>>

LanguageCmp(a, b) == LexBy(ScalarCmp, Items(a, b), Items(b, a))

ScalarEqual(a, b) ==
    IF IsNumber(a) /\ IsNumber(b) THEN NumericCmp(a, b) = 0
    ELSE /\ a.kind = b.kind
         /\ IF a.kind = "string" THEN AsciiEqual(a.v, b.v) ELSE a.v = b.v

LanguageEqual(a, b) ==
    /\ Len(Items(a, b)) = Len(Items(b, a))
    /\ \A i \in DOMAIN Items(a, b) : ScalarEqual(Items(a, b)[i], Items(b, a)[i])

(***************************************************************************)
(* The key groups are hashed by.                                           *)
(***************************************************************************)
\* The bits of a NaN are those of no other float.
NaNBase == 1000

ScalarKey(a) ==
    <<KindRank(a)>> \o
    CASE a.kind \in {"signed", "unsigned"} -> <<ToFloat(a.v[1])>>
      [] a.kind = "nan" -> <<NaNBase + a.v[1]>>
      [] a.kind = "string" -> Folded(a.v)
      [] OTHER -> a.v

\* Mutation: text is hashed as it is.
GroupKeyRaw(a) ==
    IF a.kind = "string" THEN <<KindRank(a), a.v>>
    ELSE IF a.kind = "array" THEN <<KindRank(a), [i \in DOMAIN a.items |-> ScalarKey(a.items[i])]>>
    ELSE ScalarKey(a)

GroupKey(a) ==
    IF a.kind = "array"
    THEN <<KindRank(a), [i \in DOMAIN a.items |-> ScalarKey(a.items[i])]>>
    ELSE ScalarKey(a)

(***************************************************************************)
(* SUM, MIN and MAX over a group, folded as values come.                   *)
(***************************************************************************)
\* From here on a float, in halves, is infinite.
Infinity == 800

NoNumbers == [count |-> 0, total |-> 0, exact |-> 0, float |-> FALSE,
              finite |-> TRUE, least |-> Null, most |-> Null]

IsFinite(a) == a.kind # "nan" /\ a.v[1] \in -(Infinity - 1)..(Infinity - 1)
AsFloat(a) == IF a.kind = "float" THEN a.v[1] ELSE ToFloat(a.v[1])

\* The float sum is rounded at each value; the sum of the integers is exact.
PushNumber(acc, a) ==
    IF ~IsNumber(a) THEN acc
    ELSE [count  |-> acc.count + 1,
          total  |-> Rounded(acc.total + AsFloat(a)),
          exact  |-> IF a.kind \in {"float", "nan"} THEN acc.exact ELSE acc.exact + a.v[1],
          float  |-> acc.float \/ a.kind \in {"float", "nan"},
          finite |-> acc.finite /\ IsFinite(a),
          least  |-> IF acc.count = 0 \/ LanguageCmp(a, acc.least) = -1 THEN a ELSE acc.least,
          most   |-> IF acc.count = 0 \/ LanguageCmp(a, acc.most) # -1 THEN a ELSE acc.most]

\* A query that would answer with a sum that is not finite fails.
Failure == Scalar("failure", <<>>)

FinishNumbers(acc, function) ==
    IF acc.count = 0 THEN Null
    ELSE IF function = "min" THEN acc.least
    ELSE IF function = "max" THEN acc.most
    ELSE IF ~acc.float /\ acc.exact \in SignedMin..SignedMax THEN Signed(acc.exact)
    ELSE IF ~acc.float /\ acc.exact \in 0..UnsignedMax THEN Unsigned(acc.exact)
    ELSE IF acc.finite THEN Float(acc.total) ELSE Failure
=============================================================================
