----------------------------- MODULE TomlLexer -----------------------------
(***************************************************************************)
(* The TOML lexer that reads the configuration (toml/lex.go) and the items *)
(* its parser expects of it (toml/parse.go).  The lexer is a machine of     *)
(* state functions with a stack: a value or a comment returns to the state  *)
(* on top of it.                                                            *)
(*                                                                         *)
(* The input is chosen one symbol at a time, as it is read, so documents of *)
(* every length are covered, bounded only in how deep their arrays nest.  A *)
(* symbol is a punctuation mark, a piece of a bare key, or a whole string,  *)
(* number, date or truth value; what the lexer and the parser make of its   *)
(* characters is in the symbol's name.                                      *)
(***************************************************************************)
EXTENDS Integers, Sequences, SequencesExt

CONSTANT MaxStack    \* no array is opened with a deeper stack than this

VARIABLES
    lx,          \* the lexer: state function, stack, symbol at pos, items sent
    rest,        \* of the input: "all" of it is to be chosen, "more", or "none"
    parser       \* where the parser is, how deep in arrays, the last item

vars == <<lx, rest, parser>>

LexerAssumption == MaxStack \in Nat

Marks == {"ws", "nl", "[", "]", ".", "=", ",", "#", "other", "nul"}

(* The items of strings.  A "badmulti" has a backslash that the lexer skips  *)
(* and replaceEscapes refuses: before a carriage return, or right after an   *)
(* escaped new line.                                                         *)
StringItems == [string |-> "String", raw |-> "RawString", multi |-> "MultilineString",
                badmulti |-> "BadMultiline", rawmulti |-> "RawMultilineString"]

(* A "baddate" has the shape of a date and is none. *)
OtherItems == [bool |-> "Bool", int |-> "Integer", float |-> "Float", date |-> "Datetime",
               baddate |-> "BadDatetime"]

(* backup goes back by the width of the last rune, however often it is       *)
(* called.  "endless" is a multi-line string that is not closed, or that has *)
(* two quotes before a rune of several bytes: the two backups lead back to   *)
(* the first of them.  "backward" is an empty string before a rune so wide   *)
(* that they lead before the start of the input; elsewhere such a string is  *)
(* an error, as the closing quote is read again, and counts as "other".      *)
Quoted == DOMAIN StringItems \cup {"endless", "backward"}
Alphabet == Marks \cup Quoted \cup DOMAIN OtherItems \cup {"word"}

isBareKeyChar(r) == r = "word"
isWhitespace(r) == r = "ws"
isNL(r) == r = "nl"
isEOF(r) == r \in {"eof", "nul"}     \* a zero byte is the rune eof

-----------------------------------------------------------------------------
lex == [state |-> "lexTop", stack |-> <<>>, ahead |-> "unread", items |-> <<>>]

goto(l, s) == [l EXCEPT !.state = s]
send(l, typ) == [l EXCEPT !.items = Append(@, typ)]
errorf(l) == goto(send(l, "Error"), "nil")
push(l, s) == [l EXCEPT !.stack = Append(@, s)]
pop(l) == IF l.stack = <<>> THEN goto(send(l, "Bug"), "nil")
          ELSE [l EXCEPT !.state = Last(l.stack), !.stack = Front(@)]

(* At the end of the input every call returns eof. *)
next(l) == IF l.ahead = "eof" THEN l ELSE [l EXCEPT !.ahead = "unread"]

lexTop(l, r) ==
    CASE isWhitespace(r) \/ isNL(r) -> next(l)
      [] r = "#" -> goto(push(next(l), "lexTop"), "lexCommentStart")
      [] r = "[" -> goto(next(l), "lexTableStart")
      [] r = "nul" -> errorf(next(l))      \* pos > start
      [] r = "eof" -> goto(send(l, "EOF"), "nil")
      [] OTHER -> goto(push(l, "lexTopEnd"), "lexKeyStart")

lexTopEnd(l, r) ==
    CASE r = "#" -> goto(push(next(l), "lexTop"), "lexCommentStart")
      [] isWhitespace(r) -> next(l)
      [] isNL(r) \/ isEOF(r) -> goto(next(l), "lexTop")
      [] OTHER -> errorf(next(l))

lexTableStart(l, r) ==
    IF r = "[" THEN goto(push(send(next(l), "ArrayTableStart"), "lexArrayTableEnd"), "lexTableNameStart")
    ELSE goto(push(send(l, "TableStart"), "lexTableEnd"), "lexTableNameStart")

lexTableEnd(l) == goto(send(l, "TableEnd"), "lexTopEnd")

lexArrayTableEnd(l, r) ==
    IF r # "]" THEN errorf(next(l)) ELSE goto(send(next(l), "ArrayTableEnd"), "lexTopEnd")

(* White space is looked at and not consumed. *)
lexTableNameStart(l, r) ==
    CASE r \in {"]", "."} \/ isEOF(r) -> errorf(l)
      [] r \in Quoted -> goto(push(l, "lexTableNameEnd"), "lexValue")
      [] isWhitespace(r) -> l
      [] OTHER -> goto(l, "lexBareTableName")

lexBareTableName(l, r) ==
    CASE isBareKeyChar(r) -> next(l)
      [] r \in {".", "]"} -> goto(send(l, "Text"), "lexTableNameEnd")
      [] OTHER -> errorf(next(l))

lexTableNameEnd(l, r) ==
    CASE isWhitespace(r) -> next(l)
      [] r = "." -> goto(next(l), "lexTableNameStart")
      [] r = "]" -> pop(next(l))
      [] OTHER -> errorf(next(l))

lexKeyStart(l, r) ==
    CASE r = "=" -> errorf(l)
      [] isWhitespace(r) \/ isNL(r) -> next(l)
      [] r \in Quoted -> goto(push(send(l, "KeyStart"), "lexKeyEnd"), "lexValue")
      [] OTHER -> goto(send(l, "KeyStart"), "lexBareKey")

lexBareKey(l, r) ==
    CASE isBareKeyChar(r) -> next(l)
      [] isWhitespace(r) -> goto(send(next(l), "Text"), "lexKeyEnd")
      [] r = "=" -> goto(send(l, "Text"), "lexKeyEnd")
      [] OTHER -> errorf(next(l))

lexKeyEnd(l, r) ==
    CASE r = "=" -> goto(next(l), "lexValue")
      [] isWhitespace(r) -> next(l)
      [] OTHER -> errorf(next(l))

(* The state functions of strings, numbers, dates and truth values return to *)
(* the state on the stack, or are never left.                                *)
lexValue(l, r) ==
    CASE isWhitespace(r) -> next(l)
      [] r = "[" -> goto(send(next(l), "Array"), "lexArrayValue")
      [] r = "endless" -> goto(next(l), "lexMultilineString")
      [] r = "backward" -> goto(send(next(l), "Panic"), "nil")
      [] r \in DOMAIN StringItems -> pop(send(next(l), StringItems[r]))
      [] r \in DOMAIN OtherItems -> pop(send(next(l), OtherItems[r]))
      [] OTHER -> errorf(next(l))

lexArrayValue(l, r) ==
    CASE isWhitespace(r) \/ isNL(r) -> next(l)
      [] r = "#" -> goto(push(next(l), "lexArrayValue"), "lexCommentStart")
      [] r = "," -> errorf(next(l))
      [] r = "]" -> goto(next(l), "lexArrayEnd")
      [] OTHER -> goto(push(l, "lexArrayValueEnd"), "lexValue")

lexArrayValueEnd(l, r) ==
    CASE isWhitespace(r) \/ isNL(r) -> next(l)
      [] r = "#" -> goto(push(next(l), "lexArrayValueEnd"), "lexCommentStart")
      [] r = "," -> goto(next(l), "lexArrayValue")
      [] r = "]" -> goto(next(l), "lexArrayEnd")
      [] OTHER -> errorf(next(l))

lexArrayEnd(l) == pop(send(l, "ArrayEnd"))

lexCommentStart(l) == goto(send(l, "CommentStart"), "lexComment")

lexComment(l, r) == IF isNL(r) \/ isEOF(r) THEN pop(send(l, "Text")) ELSE next(l)

(* State functions that read nothing. *)
Silent == {"lexTableEnd", "lexArrayEnd", "lexCommentStart"}

(* lx.state = lx.state(lx) *)
stateFn(l, r) ==
    CASE l.state = "lexTop" -> lexTop(l, r)
      [] l.state = "lexTopEnd" -> lexTopEnd(l, r)
      [] l.state = "lexTableStart" -> lexTableStart(l, r)
      [] l.state = "lexTableEnd" -> lexTableEnd(l)
      [] l.state = "lexArrayTableEnd" -> lexArrayTableEnd(l, r)
      [] l.state = "lexTableNameStart" -> lexTableNameStart(l, r)
      [] l.state = "lexBareTableName" -> lexBareTableName(l, r)
      [] l.state = "lexTableNameEnd" -> lexTableNameEnd(l, r)
      [] l.state = "lexKeyStart" -> lexKeyStart(l, r)
      [] l.state = "lexBareKey" -> lexBareKey(l, r)
      [] l.state = "lexKeyEnd" -> lexKeyEnd(l, r)
      [] l.state = "lexValue" -> lexValue(l, r)
      [] l.state = "lexMultilineString" -> l
      [] l.state = "lexArrayValue" -> lexArrayValue(l, r)
      [] l.state = "lexArrayValueEnd" -> lexArrayValueEnd(l, r)
      [] l.state = "lexArrayEnd" -> lexArrayEnd(l)
      [] l.state = "lexCommentStart" -> lexCommentStart(l)
      [] l.state = "lexComment" -> lexComment(l, r)

-----------------------------------------------------------------------------
(* The parser: topLevel, keyString and value, as the items they accept.  p.bug *)
(* is log.Fatalf; p.panicf is the error that parse returns.                    *)
Strings == {"String", "MultilineString", "BadMultiline", "RawString", "RawMultilineString"}
Finished == {"done", "error", "bug", "panic"}
at(p, s) == [p EXCEPT !.at = s]

(* value of a string: replaceEscapes calls p.bug. *)
keyString(p, typ, then) ==
    {at(p, IF typ \in (Strings \ {"BadMultiline"}) \cup {"Text"} THEN then ELSE "bug")}

topLevel(p, typ) ==
    CASE typ = "EOF" -> {at(p, "done")}
      [] typ = "CommentStart" -> {at(p, "topComment")}
      [] typ = "TableStart" -> {at(p, "table")}
      [] typ = "ArrayTableStart" -> {at(p, "arrayTable")}
      [] typ = "KeyStart" -> {at(p, "key")}
      [] OTHER -> {at(p, "bug")}

(* The key of a table: establishContext takes key[0 : len(key)-1] of it. *)
tableKey(p, typ, more, end) ==
    IF typ = end THEN {at(p, IF p.at = more THEN "top" ELSE "panic")}
    ELSE keyString(p, typ, more)

afterValue(p) == at(p, IF p.depth = 0 THEN "top" ELSE "array")

value(p, typ) ==
    CASE typ \in (Strings \ {"BadMultiline"}) \cup {"Bool", "Datetime"} -> {afterValue(p)}
      [] typ \in {"Integer", "Float"} -> {afterValue(p), at(p, "error")}   \* out of range
      [] typ = "Array" -> {[p EXCEPT !.at = "array", !.depth = @ + 1]}
      [] OTHER -> {at(p, "bug")}

arrayItem(p, typ) ==
    CASE typ = "ArrayEnd" ->     \* typeOfArray refuses mixed types
           {afterValue([p EXCEPT !.depth = @ - 1]), at(p, "error")}
      [] typ = "CommentStart" -> {at(p, "arrayComment")}
      [] OTHER -> value(p, typ)

expectText(p, typ, then) == {at(p, IF typ = "Text" THEN then ELSE "bug")}

parse(p, typ) ==
    CASE typ \in {"Error", "Bug"} -> {at(p, "error")}
      [] typ = "Panic" -> {at(p, "panic")}
      [] OTHER ->
         CASE p.at = "top" -> topLevel(p, typ)
           [] p.at = "topComment" -> expectText(p, typ, "top")
           [] p.at = "arrayComment" -> expectText(p, typ, "array")
           [] p.at \in {"table", "tableMore"} -> tableKey(p, typ, "tableMore", "TableEnd")
           [] p.at \in {"arrayTable", "arrayTableMore"} ->
                tableKey(p, typ, "arrayTableMore", "ArrayTableEnd")
           [] p.at = "key" -> keyString(p, typ, "value")
           [] p.at = "value" -> value(p, typ)
           [] p.at = "array" -> arrayItem(p, typ)

-----------------------------------------------------------------------------
Init ==
    /\ lx = lex /\ rest = "all"
    /\ parser = [at |-> "top", depth |-> 0, item |-> "none"]

(* nextItem: a queued item is returned before the lexer goes on. *)
Waiting == parser.at \notin Finished /\ lx.items = <<>>

Reads == Waiting /\ lx.ahead = "unread" /\ lx.state \notin Silent \cup {"lexMultilineString"}

(* What a text may hold next: elsewhere than at a value a number is spelled  *)
(* in pieces of bare keys and marks, and in a comment all is text.           *)
MayFollow(c) ==
    /\ c \in DOMAIN OtherItems => lx.state \in {"lexValue", "lexArrayValue"}
    /\ lx.state = "lexComment" => c \in {"nl", "other", "nul"}
    /\ c = "backward" => rest = "all"
    /\ c = "[" => Len(lx.stack) < MaxStack

Supply(c) ==
    /\ Reads /\ rest # "none" /\ MayFollow(c)
    /\ lx' = [lx EXCEPT !.ahead = c]
    /\ rest' = "more"
    /\ UNCHANGED parser

(* lex appends a new line to the input. *)
EndInput ==
    /\ Reads /\ rest # "none"
    /\ lx' = [lx EXCEPT !.ahead = "nl"]
    /\ rest' = "none"
    /\ UNCHANGED parser

nextItem ==
    /\ Waiting /\ ~(Reads /\ rest # "none")
    /\ LET l == IF Reads THEN [lx EXCEPT !.ahead = "eof"] ELSE lx
       IN  lx' = stateFn(l, l.ahead)
    /\ UNCHANGED <<rest, parser>>

TakeItem ==
    /\ parser.at \notin Finished /\ lx.items # <<>>
    /\ parser' \in parse([parser EXCEPT !.item = Head(lx.items)], Head(lx.items))
    /\ lx' = [lx EXCEPT !.items = Tail(@)]
    /\ UNCHANGED rest

Next == (\E c \in Alphabet : Supply(c)) \/ EndInput \/ nextItem \/ TakeItem

Spec == Init /\ [][Next]_vars

-----------------------------------------------------------------------------
(* p.bug and the lexer's "BUG in lexer: no states to pop." mark what the    *)
(* authors hold to be impossible, and p.bug ends the process.  It is reached *)
(* by a text with the shape of a date that is none (parse.go:219) and by a   *)
(* string whose escapes the lexer does not see (parse.go:437), and by no     *)
(* other document: the lexer's stack always holds the state to return to,    *)
(* and every other item is one that the parser accepts where it stands.      *)
BugsKnown ==
    /\ parser.at = "bug" <=> parser.item \in {"BadDatetime", "BadMultiline"}
    /\ \A i \in DOMAIN lx.items : lx.items[i] # "Bug"

(* Decode panics, instead of returning an error, for a document that starts  *)
(* with an empty quoted name before a wide rune (backup, lex.go:146-151) and *)
(* for no other: the parser never establishes a table without a name.        *)
PanicsKnown == parser.at = "panic" <=> parser.item = "Panic"

(* The lexer's stack and the parser's recursion agree on how deep in arrays *)
(* the document is, whatever comments and strings came in between.          *)
ArrayStates == {"lexArrayValue", "lexArrayValueEnd", "lexArrayEnd"}
ContextsAgree ==
    Waiting =>
        parser.depth = Len(SelectSeq(Append(lx.stack, lx.state), LAMBDA s : s \in ArrayStates))

(* The parser has returned. *)
Ended == parser.at \in Finished

(* What the lexer never gets out of: a table's name that starts with white   *)
(* space, which is looked at and not consumed (lex.go:275-276), and a        *)
(* multi-line string that has no end.                                        *)
Endless ==
    \/ lx.state = "lexTableNameStart" /\ lx.ahead = "ws"
    \/ lx.state = "lexMultilineString"
=============================================================================
