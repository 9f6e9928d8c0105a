----------------------------- MODULE TomlTables ----------------------------
(***************************************************************************)
(* The tables the TOML parser builds (toml/parse.go: establishContext,      *)
(* setValue, setType, the implicit tables) and MetaData.IsDefined.  The     *)
(* document is a sequence of statements, each a header [key], a header      *)
(* [[key]] or an assignment; TomlLexer.tla models how they are recognised.  *)
(*                                                                         *)
(* A name is a sequence of atoms, so that the quoted name "a.b" and the two *)
(* names a and b of the key a.b have the same Key.String.                   *)
(***************************************************************************)
EXTENDS Integers, Sequences, SequencesExt, FiniteSets

CONSTANTS
    Names,          \* the names of keys
    MaxKey,         \* bound on the names in a table's key
    MaxStatements   \* bound on the statements of a document

TablesAssumption ==
    /\ \A n \in Names : n # <<>>
    /\ MaxKey \in Nat \ {0} /\ MaxStatements \in Nat

VARIABLES
    mapping,    \* p.mapping: per hash and name, what is there
    implicits,  \* p.implicits: the joined keys of tables created on the way to another
    context,    \* p.context
    types,      \* p.types, by joined key
    ordered,    \* p.ordered
    verdict,    \* "ok", "error" (p.panicf) or "bug" (p.bug)
    concrete,   \* history: what a statement defined
    overridden  \* history: a statement was accepted for what another one had defined

vars == <<mapping, implicits, context, types, ordered, verdict, concrete, overridden>>

(* A hash is the sequence of names and array elements that leads to it.     *)
(* An entry is a table, an array of n tables or a value.                    *)
Table == [kind |-> "Hash", n |-> 0]
ArrayOf(n) == [kind |-> "ArrayHash", n |-> n]
Value == [kind |-> "Value", n |-> 0]
Root == <<>>

has(m, h, k) == <<h, k>> \in DOMAIN m
put(m, h, k, v) == [x \in DOMAIN m \cup {<<h, k>>} |-> IF x = <<h, k>> THEN v ELSE m[x]]
Sub(m, h, k) == Append(h, <<k, m[<<h, k>>].n>>)      \* the table, or the array's last one

String(key) == FlattenSeq(key)                        \* strings.Join(key, ".")
Keys == UNION {[1 .. n -> Names] : n \in 1 .. MaxKey}

Init ==
    /\ mapping = [x \in {} |-> Table] /\ implicits = {} /\ context = <<>>
    /\ types = [x \in {} |-> "Hash"] /\ ordered = <<>> /\ verdict = "ok"
    /\ concrete = {} /\ overridden = FALSE

-----------------------------------------------------------------------------

(* The loop of establishContext over key[0 : len(key)-1]: missing tables are *)
(* made and marked implicit; a value on the way is an error.                 *)
descend(acc, k) ==
    LET m == IF has(acc.m, acc.h, k) THEN acc.m ELSE put(acc.m, acc.h, k, Table)
        key == Append(acc.key, k)
    IN  IF ~acc.ok \/ m[<<acc.h, k>>].kind = "Value" THEN [acc EXCEPT !.ok = FALSE]
        ELSE [acc EXCEPT !.m = m, !.key = key, !.h = Sub(m, acc.h, k),
                         !.implicit = IF has(acc.m, acc.h, k) THEN @ ELSE @ \cup {String(key)}]

ParentOf(key) ==
    FoldLeft(descend, [m |-> mapping, h |-> Root, key |-> <<>>, implicit |-> implicits, ok |-> TRUE],
             Front(key))

(* setValue's own walk down a context: the hash it ends at, or a bug. *)
walk(acc, k) ==
    IF ~acc.ok \/ ~has(acc.m, acc.h, k) THEN [acc EXCEPT !.ok = FALSE]
    ELSE IF acc.m[<<acc.h, k>>].kind = "Value" THEN [acc EXCEPT !.ok = FALSE]
    ELSE [acc EXCEPT !.h = Sub(acc.m, acc.h, k)]

HashOf(m, ctx) == FoldLeft(walk, [m |-> m, h |-> Root, ok |-> TRUE], ctx)


setValue(m, imp, ctx, k, v) ==
    LET hash == HashOf(m, ctx)
        full == String(Append(ctx, k))
        res(verd, m2, i2) == [at |-> hash.h, m |-> m2, imp |-> i2, verdict |-> verd]
    IN  IF ~hash.ok THEN res("bug", m, imp)
        ELSE IF ~has(m, hash.h, k) THEN res("ok", put(m, hash.h, k, v), imp)
        ELSE IF full \in imp THEN res("ok", m, imp \ {full})
        ELSE res("error", m, imp)

setType(key, typ) ==
    types' = [s \in DOMAIN types \cup {String(key)} |-> IF s = String(key) THEN typ ELSE types[s]]

(* What the history records of an accepted definition of name k of hash h. *)
Define(h, k) ==
    /\ overridden' = (overridden \/ <<h, k>> \in concrete)
    /\ concrete' = concrete \cup {<<h, k>>}

Refuse(v) ==
    /\ verdict' = v
    /\ UNCHANGED <<mapping, implicits, context, types, ordered, concrete, overridden>>

More == verdict = "ok" /\ Len(ordered) < MaxStatements

TableHeader(key) ==
    /\ More
    /\ LET p == ParentOf(key)
           set == setValue(p.m, p.implicit, p.key, Last(key), Table)
       IN  IF ~p.ok THEN Refuse("error")
           ELSE IF set.verdict # "ok" THEN Refuse(set.verdict)
           ELSE /\ mapping' = set.m /\ implicits' = set.imp /\ context' = key
                /\ setType(key, "Hash") /\ ordered' = Append(ordered, key)
                /\ Define(p.h, Last(key))
                /\ UNCHANGED verdict

ArrayTableHeader(key) ==
    /\ More
    /\ LET p == ParentOf(key)
           k == Last(key)
           n == IF has(p.m, p.h, k) THEN p.m[<<p.h, k>>].n ELSE 0
       IN  IF ~p.ok \/ (has(p.m, p.h, k) /\ p.m[<<p.h, k>>].kind # "ArrayHash") THEN Refuse("error")
           ELSE /\ mapping' = put(p.m, p.h, k, ArrayOf(n + 1))
                /\ implicits' = p.implicit /\ context' = key
                /\ setType(key, "ArrayHash") /\ ordered' = Append(ordered, key)
                /\ UNCHANGED <<verdict, concrete, overridden>>

Assignment(k) ==
    /\ More
    /\ LET set == setValue(mapping, implicits, context, k, Value)
       IN  IF set.verdict # "ok" THEN Refuse(set.verdict)
           ELSE /\ mapping' = set.m /\ implicits' = set.imp
                /\ setType(Append(context, k), "Value") /\ ordered' = Append(ordered, Append(context, k))
                /\ Define(set.at, k)
                /\ UNCHANGED <<context, verdict>>

Next ==
    \/ \E key \in Keys : TableHeader(key) \/ ArrayTableHeader(key)
    \/ \E k \in Names : Assignment(k)

Spec == Init /\ [][Next]_vars

(* MetaData.IsDefined follows tables only. *)
step(acc, k) ==
    IF ~acc.ok \/ ~acc.hash \/ ~has(mapping, acc.h, k) THEN [acc EXCEPT !.ok = FALSE]
    ELSE [ok |-> TRUE, hash |-> mapping[<<acc.h, k>>].kind = "Hash", h |-> Append(acc.h, <<k, 0>>)]

IsDefined(key) == key # <<>> /\ FoldLeft(step, [ok |-> TRUE, hash |-> TRUE, h |-> Root], key).ok

-----------------------------------------------------------------------------
(* setValue's p.bug cases (a context that was not established, or that is   *)
(* no table) end the process: no document reaches them, because             *)
(* establishContext leaves only contexts of tables.                         *)
NoBug == verdict # "bug"

(* The key under which setValue looks an entry up in p.implicits. *)
JoinedKey(x) == String(Append([i \in DOMAIN x[1] |-> x[1][i][1]], x[2]))

(* setValue's comment: "a concrete key trying to override a previous key,   *)
(* which is *always* wrong".  A document that defines a table or a key      *)
(* twice is accepted only if two entries have one Key.String, as the quoted *)
(* name "a.b" and the key a.b, or a.b in two elements of an array a: then   *)
(* the one is taken for the implicit table that the other was.              *)
OverrideOnlyIfAmbiguous ==
    overridden => \E x, y \in DOMAIN mapping : x # y /\ JoinedKey(x) = JoinedKey(y)

(* IsDefined's comment: it "returns true if the key given exists in the     *)
(* TOML data".  It does for a key in the list of the document's keys,       *)
(* unless the key leads through an array of tables, which IsDefined does    *)
(* not enter.  The configuration has none, so checkUndefinedFields never    *)
(* reports a field that the document sets.                                  *)
ThroughArray(key) ==
    \E n \in 1 .. Len(key) - 1 : Last(HashOf(mapping, SubSeq(key, 1, n)).h)[2] > 0
KeysDefined == \A i \in DOMAIN ordered : IsDefined(ordered[i]) <=> ~ThroughArray(ordered[i])
=============================================================================
