---------------------------- MODULE ParseQuery -----------------------------
(* Queries as JSON and as typed values (src/gumshoe/parse_query.go).        *)
(*                                                                          *)
(* A JSON query is [aggregates, groupings, filters], sequences of JSON      *)
(* objects in which Absent stands for a field that is missing.  A grouping  *)
(* may also be a plain string, [string |-> column].                         *)
EXTENDS Integers, Sequences, SequencesExt

CONSTANT Absent

AggregateTypes == {"sum", "average"}

TimeTruncationTypes == {"none", "minute", "hour", "day"}

FilterTypeNames == {"=", "!=", ">", ">=", "<", "<=", "in"}

(* A field that is missing has the zero value of its type.                  *)
UnmarshalAggregateType(name) == IF name = Absent THEN "sum" ELSE name

UnmarshalTimeTruncationType(name) == IF name \in {Absent, "null"} THEN "none" ELSE name

UnmarshalFilterType(name) == IF name = Absent THEN "=" ELSE name

Named(name, column) == IF name = Absent \/ name = "" THEN column ELSE name

Column(column) == IF column = Absent THEN "" ELSE column

UnmarshalAggregate(j) ==
    [type |-> UnmarshalAggregateType(j.type), column |-> Column(j.column), name |-> Named(j.name, Column(j.column))]

UnmarshalGrouping(j) ==
    IF "string" \in DOMAIN j THEN [transform |-> "none", column |-> j.string, name |-> j.string]
    ELSE [transform |-> UnmarshalTimeTruncationType(j.transform),
          column |-> Column(j.column), name |-> Named(j.name, Column(j.column))]

UnmarshalFilter(j) ==
    [type |-> UnmarshalFilterType(j.type), column |-> Column(j.column), value |-> j.value]

(* What makes ParseJSONQuery return an error: a name that is not known.     *)
ParseError(j) ==
    \/ \E a \in ToSet(j.aggregates) : a.type \notin AggregateTypes \cup {Absent}
    \/ \E g \in ToSet(j.groupings) : "string" \notin DOMAIN g /\
          g.transform \notin (TimeTruncationTypes \ {"none"}) \cup {"null", Absent}
    \/ \E f \in ToSet(j.filters) : f.type \notin FilterTypeNames \cup {Absent}

ParseJSONQuery(j) ==
    [aggregates |-> [i \in DOMAIN j.aggregates |-> UnmarshalAggregate(j.aggregates[i])],
     groupings |-> [i \in DOMAIN j.groupings |-> UnmarshalGrouping(j.groupings[i])],
     filters |-> [i \in DOMAIN j.filters |-> UnmarshalFilter(j.filters[i])]]

MarshalAggregate(a) == [type |-> a.type, column |-> a.column, name |-> a.name]

(* TimeTransform is left out when it is the zero value.                     *)
MarshalGrouping(g) ==
    [transform |-> IF g.transform = "none" THEN Absent ELSE g.transform, column |-> g.column, name |-> g.name]

MarshalFilter(f) == [type |-> f.type, column |-> f.column, value |-> f.value]

MarshalQuery(q) ==
    [aggregates |-> [i \in DOMAIN q.aggregates |-> MarshalAggregate(q.aggregates[i])],
     groupings |-> [i \in DOMAIN q.groupings |-> MarshalGrouping(q.groupings[i])],
     filters |-> [i \in DOMAIN q.filters |-> MarshalFilter(q.filters[i])]]
=============================================================================
