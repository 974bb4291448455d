----------------------------- MODULE Predicates -----------------------------
(***************************************************************************)
(* How a stored event becomes a record, how a predicate judges it, and     *)
(* what of a predicate is put into the SQL that reads the candidates       *)
(* (src/eventd/src/query/executor.rs, src/eventd/src/query/value.rs,       *)
(* src/eventd-core/src/payload_index.rs).                                  *)
(*                                                                         *)
(* A field is its path, a sequence of segments.  A payload is a sequence   *)
(* of entries, each a key with a value or with the entries of a map; a key *)
(* that is no valid segment is "?".  A stored event has the header's       *)
(* fields, the payload, and no other.  An absent field and a null one are  *)
(* the same to every operator.                                             *)
(***************************************************************************)
EXTENDS Values

Time == <<"event", "time">>
Cpu == <<"event", "cpu">>
Class == <<"emitter", "class">>
Type == <<"event", "type">>
HeaderFields == {Time, Cpu, Class, Type}

UnderHeaderPath(field) ==
    \E path \in HeaderFields :
        Len(path) <= Len(field) /\ SubSeq(field, 1, Len(path)) = path

Leaf(key, value) == [key |-> key, leaf |-> TRUE, value |-> value, entries |-> <<>>]
Map(key, entries) == [key |-> key, leaf |-> FALSE, value |-> Null, entries |-> entries]

RECURSIVE FlattenEntries(_, _, _)

\* The first value at a path is the field; what follows at or, for a map,
\* beneath that path is dropped, as is what lies at a header's path.
FlattenEntries(entries, prefix, record) ==
    IF entries = <<>> THEN record
    ELSE LET entry == Head(entries)
             path == Append(prefix, entry.key)
             after == IF entry.key = "?" \/ path \in HeaderFields \union DOMAIN record THEN record
                      ELSE IF entry.leaf THEN record @@ (path :> entry.value)
                      ELSE FlattenEntries(entry.entries, path, record)
         IN  FlattenEntries(Tail(entries), prefix, after)

Header(event) ==
    (Time :> Signed(event.at)) @@ (Cpu :> event.cpu) @@ (Class :> event.class)
        @@ (Type :> Text(event.type))

RecordOf(event) == FlattenEntries(event.payload, <<>>, Header(event))

Get(record, field) == IF field \in DOMAIN record THEN record[field] ELSE Null

(***************************************************************************)
(* Predicates.                                                             *)
(***************************************************************************)
Expr(op, field, operator, lits, negated, parts) ==
    [op |-> op, field |-> field, operator |-> operator, lits |-> lits,
     negated |-> negated, parts |-> parts]
Compare(field, operator, lit) == Expr("compare", field, operator, <<lit>>, FALSE, <<>>)
IsNull(field, negated) == Expr("null", field, "", <<>>, negated, <<>>)
In(field, negated, lits) == Expr("in", field, "", lits, negated, <<>>)
And(left, right) == Expr("and", <<>>, "", <<>>, FALSE, <<left, right>>)
Or(left, right) == Expr("or", <<>>, "", <<>>, FALSE, <<left, right>>)

\* The names of the emitter classes, folded: two of the four, by one letter.
ClassNames == <<97>> :> 0 @@ <<98>> :> 1

LiteralValue(field, lit) ==
    IF field = Class /\ lit.kind = "string" /\ Folded(lit.v) \in DOMAIN ClassNames
    THEN Unsigned(ClassNames[Folded(lit.v)])
    ELSE lit

\* A NaN satisfies no ordering predicate.
NumericOrder(a, b, wanted) ==
    /\ IsNumber(a) /\ IsNumber(b)
    /\ a.kind # "nan" /\ b.kind # "nan"
    /\ NumericCmp(a, b) \in wanted

Orders == (">" :> {1}) @@ (">=" :> {0, 1}) @@ ("<" :> {-1}) @@ ("<=" :> {-1, 0})

StartsWith(s, t) == Len(s) >= Len(t) /\ AsciiEqual(SubSeq(s, 1, Len(t)), t)
EndsWith(s, t) == Len(s) >= Len(t) /\ AsciiEqual(SubSeq(s, Len(s) - Len(t) + 1, Len(s)), t)
HasText(s, t) == \E i \in 0..(Len(s) - Len(t)) : AsciiEqual(SubSeq(s, i + 1, i + Len(t)), t)

Applies(operator, a, b) ==
    CASE operator \in {"=", "<>"} -> LanguageEqual(a, b) = (operator = "=")
      [] operator \in DOMAIN Orders -> NumericOrder(a, b, Orders[operator])
      [] operator = "starts" -> a.kind = "string" /\ b.kind = "string" /\ StartsWith(a.v, b.v)
      [] operator = "ends" -> a.kind = "string" /\ b.kind = "string" /\ EndsWith(a.v, b.v)
      [] operator = "contains" -> a.kind = "string" /\ b.kind = "string" /\ HasText(a.v, b.v)
      [] operator = "has" -> a.kind = "array" /\ \E i \in DOMAIN a.items : LanguageEqual(a.items[i], b)

RECURSIVE Evaluate(_, _)

Evaluate(e, record) ==
    LET actual == Get(record, e.field)
    IN  CASE e.op = "and" -> Evaluate(e.parts[1], record) /\ Evaluate(e.parts[2], record)
          [] e.op = "or" -> Evaluate(e.parts[1], record) \/ Evaluate(e.parts[2], record)
          [] e.op = "null" -> (actual.kind = "null") # e.negated
          [] e.op = "in" ->
                 /\ actual.kind # "null"
                 /\ (\E i \in DOMAIN e.lits :
                        LanguageEqual(actual, LiteralValue(e.field, e.lits[i]))) # e.negated
          [] e.op = "compare" ->
                 /\ actual.kind # "null"
                 /\ Applies(e.operator, actual, LiteralValue(e.field, e.lits[1]))

Passes(predicates, record) == \A i \in DOMAIN predicates : Evaluate(predicates[i], record)

(***************************************************************************)
(* What goes into the SQL.  A constraint is a predicate on the stored row. *)
(***************************************************************************)
SqlOperators == {"=", "<>", ">", ">=", "<", "<="}

\* sql_header_constraint: whether the predicate gives one.
HeaderConstrains(e) ==
    /\ e.op = "compare"
    /\ LET value == LiteralValue(e.field, e.lits[1])
       IN  \/ e.field = Type /\ e.operator = "=" /\ e.lits[1].kind = "string"
           \/ /\ e.field \in {Cpu, Class} /\ e.operator \in SqlOperators
              /\ value.kind \in {"signed", "unsigned"}
              /\ value.v[1] <= SignedMax

\* The columns hold integers or NULL, and NULL satisfies no comparison.
SqlCompares(operator, m, n) ==
    CASE operator = "=" -> m = n
      [] operator = "<>" -> m # n
      [] operator = ">" -> m > n
      [] operator = ">=" -> m >= n
      [] operator = "<" -> m < n
      [] operator = "<=" -> m <= n

HeaderConstraint(e, event) ==
    LET value == LiteralValue(e.field, e.lits[1])
        column == IF e.field = Cpu THEN event.cpu ELSE event.class
    IN  IF e.field = Type THEN AsciiEqual(event.type, value.v)
        ELSE column.kind # "null" /\ SqlCompares(e.operator, column.v[1], value.v[1])

\* query_key: the key of a value that can be looked up, and none for others.
QueryKey(value) ==
    CASE value.kind = "bool" -> <<1>> \o value.v
      [] value.kind = "string" -> <<2>> \o Folded(value.v)
      [] value.kind = "binary" -> <<3>> \o value.v
      [] OTHER -> <<>>

RECURSIVE ScanMap(_, _)

\* The first value whose path is the field, as a singleton, or nothing.  Unlike
\* the flattening it looks into every map on the way.
ScanMap(entries, field) ==
    IF entries = <<>> THEN {}
    ELSE LET entry == Head(entries)
             inside == IF entry.key # Head(field) THEN {}
                       ELSE IF Len(field) > 1
                       THEN IF entry.leaf THEN {} ELSE ScanMap(entry.entries, Tail(field))
                       ELSE IF entry.leaf THEN {entry.value} ELSE {}
         IN  IF inside # {} THEN inside ELSE ScanMap(Tail(entries), field)

\* Mutation: the key of a text is its bytes.
ExtractRaw(payload, field) ==
    LET found == ScanMap(payload, field)
    IN  IF found = {} THEN <<>>
        ELSE LET value == CHOOSE v \in found : TRUE
             IN  IF value.kind = "string" THEN <<2>> \o value.v ELSE QueryKey(value)

\* The key of the indexed expression; <<>> stands for NULL.
Extract(payload, field) ==
    LET found == ScanMap(payload, field)
    IN  IF found = {} THEN <<>> ELSE QueryKey(CHOOSE v \in found : TRUE)

RECURSIVE PayloadParts(_)

\* The parts of a conjunction in the order they are tried.
PayloadParts(e) ==
    IF e.op = "and" THEN PayloadParts(e.parts[1]) \o PayloadParts(e.parts[2]) ELSE <<e>>

\* sql_payload_constraint, for fields with an index.
PayloadConstrains(e, material) ==
    /\ e.field \in material /\ ~UnderHeaderPath(e.field)
    /\ \/ e.op = "compare" /\ e.operator = "=" /\ e.lits[1].kind \in {"bool", "string", "binary"}
       \/ e.op = "null" /\ ~e.negated

PayloadConstraint(e, event) ==
    IF e.op = "null" THEN Extract(event.payload, e.field) = <<>>
    ELSE Extract(event.payload, e.field) = QueryKey(e.lits[1])

\* What the statement reads: one constraint, a header's if there is any, else
\* the first that an index can serve.
Selected(predicates, material, event) ==
    LET headers == SelectSeq(predicates, HeaderConstrains)
        parts == FlattenSeq([i \in DOMAIN predicates |-> PayloadParts(predicates[i])])
        served == SelectSeq(parts, LAMBDA e : PayloadConstrains(e, material))
    IN  IF headers # <<>> THEN HeaderConstraint(headers[1], event)
        ELSE served # <<>> => PayloadConstraint(served[1], event)

(***************************************************************************)
(* narrow_by_timestamp: the range read, from comparisons of the time.      *)
(***************************************************************************)
Clamp(n) == IF n < SignedMin THEN SignedMin ELSE IF n > SignedMax THEN SignedMax ELSE n

\* Mutation: the upper bound is taken as exclusive whatever the operator.
UpperStrict(operator, bound) ==
    IF operator \in {"<", "<=", "="} THEN {bound} ELSE {}

LowerOf(operator, bound) ==
    CASE operator = ">" -> {bound + 1}
      [] operator \in {">=", "="} -> {bound}
      [] OTHER -> {}

UpperOf(operator, bound) ==
    CASE operator = "<" -> {bound}
      [] operator \in {"<=", "="} -> {bound + 1}
      [] OTHER -> {}

NarrowStep(range, e) ==
    IF e.op # "compare" \/ e.field # Time \/ e.lits[1].kind \notin {"signed", "unsigned"}
    THEN range
    ELSE LET bound == e.lits[1].v[1]
             uppers == {u \in UpperOf(e.operator, bound) : u <= SignedMax}
         IN  [since |-> Max({range.since} \union {Clamp(l) : l \in LowerOf(e.operator, bound)}),
              until |-> Min({range.until} \union {Clamp(u) : u \in uppers})]

NarrowByTimestamp(predicates, since, until) ==
    FoldLeft(NarrowStep, [since |-> since, until |-> until], predicates)
=============================================================================
