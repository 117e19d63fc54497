---------------------------- MODULE MongoStatement ----------------------------
(***************************************************************************)
(* The statement parser of the mongo driver (statement.go, value.go), over *)
(* tokens: white space and comments are gone, a literal is one token.  (In *)
(* one place white space counts: a name behind it is a collection's also   *)
(* when it is getCollection.  That name is a token of its own.)  It        *)
(* is a function, not a RECURSIVE operator, so that theorems may be proved *)
(* of what uses it.                                                        *)
(*                                                                         *)
(* A value is its kind, its number, and every key that is in it, however   *)
(* deep: no more is asked of it (HasServerJS, AggregateWrites, asInt64).   *)
(***************************************************************************)
EXTENDS Integers, Sequences

Signs   == {"{", "}", "[", "]", "(", ")", ":", ",", "."}
Strings == {"'c'", "'2'"}
JSKeys  == {"$where"}     \* and $function, $accumulator
OutKeys == {"$out"}       \* and $merge
NumberOf == [t \in {"-1", "0", "1", "2", "9"} |->
                CASE t = "-1" -> -1 [] t = "0" -> 0 [] t = "1" -> 1 [] t = "2" -> 2 [] t = "9" -> 9]

Numbers  == DOMAIN NumberOf
IsKey(t)   == t \notin Signs \union {"", "-1"}
IsIdent(t) == IsKey(t) /\ t \notin Strings \union JSKeys \union OutKeys

Val(kind, num, keys) == [kind |-> kind, num |-> num, keys |-> keys]
IsString(v) == v.kind \in {"string", "digits"}

\* What was read: where the text goes on (0 if it is malformed), the values, and
\* the keys in them.
Got(at, vals, keys) == [at |-> at, vals |-> vals, keys |-> keys]
Bad == Got(0, <<>>, {})
OneVal(at, v) == Got(at, <<v>>, v.keys)
Before(r, rest) == IF rest.at = 0 THEN Bad ELSE Got(rest.at, r.vals \o rest.vals, r.keys \union rest.keys)

\* helper: ISODate stands for those that take a string and give no number,
\* NumberLong for those that give one, Timestamp for those of two arguments.
Helper(name, at, args) ==
    CASE name = "ISODate" /\ Len(args) >= 1 /\ IsString(args[1]) -> OneVal(at, Val("other", 0, {}))
      [] name = "NumberLong" /\ Len(args) = 1 /\ args[1].kind \in {"int", "digits"} ->
            OneVal(at, Val("int", args[1].num, {}))
      [] name = "Timestamp" /\ Len(args) = 2 -> OneVal(at, Val("other", 0, {}))
      [] OTHER -> Bad

Tok(text, i) == IF i <= Len(text) THEN text[i] ELSE ""

\* valParser: value, object, array, callArgs.  "entries", "items" and "args" read
\* what is left of an object, an array, an argument list; "more" an argument after
\* a comma, where the list may not end.
Parser(text) ==
    LET T(i) == Tok(text, i)
        Parse[c \in {"value", "word", "entries", "items", "args", "more"} \X Nat] ==
            LET i == c[2]
                At(what, j) == Parse[<<what, j>>]
                Then(r, what, close) ==
                    IF r.at = 0 THEN Bad
                    ELSE CASE T(r.at) = ","   -> Before(r, At(what, r.at + 1))
                           [] T(r.at) = close -> Got(r.at + 1, r.vals, r.keys)
                           [] OTHER           -> Bad
                Whole(r, kind) == IF r.at = 0 THEN Bad ELSE OneVal(r.at, Val(kind, 0, r.keys))
            IN  CASE c[1] = "value" ->
                       CASE T(i) = "{"         -> Whole(At("entries", i + 1), "doc")
                         [] T(i) = "["         -> Whole(At("items", i + 1), "array")
                         [] T(i) = "'c'"       -> OneVal(i + 1, Val("string", 0, {}))
                         [] T(i) = "'2'"       -> OneVal(i + 1, Val("digits", 2, {}))
                         [] T(i) \in Numbers   -> OneVal(i + 1, Val("int", NumberOf[T(i)], {}))
                         [] T(i) = "new"       -> At("word", i + 1)
                         [] OTHER              -> At("word", i)
                  [] c[1] = "word" ->
                       CASE T(i) = "null"      -> OneVal(i + 1, Val("null", 0, {}))
                         [] T(i) = "MinKey"    ->   \* optionalEmptyCall
                              OneVal(CASE T(i + 1) = "(" /\ T(i + 2) = ")" -> i + 3
                                       [] T(i + 1) = "(" /\ T(i + 2) # ")" -> i + 2
                                       [] OTHER -> i + 1, Val("other", 0, {}))
                         [] IsIdent(T(i)) /\ T(i + 1) = "(" ->
                              LET r == At("args", i + 2)
                              IN IF r.at = 0 THEN Bad ELSE Helper(T(i), r.at, r.vals)
                         [] OTHER -> Bad
                  [] c[1] = "entries" ->
                       CASE T(i) = "}" -> Got(i + 1, <<>>, {})
                         [] IsKey(T(i)) /\ T(i + 1) = ":" ->
                              LET r == At("value", i + 2)
                              IN Then([r EXCEPT !.keys = @ \union {T(i)}], "entries", "}")
                         [] OTHER -> Bad
                  [] c[1] = "items" ->
                       IF T(i) = "]" THEN Got(i + 1, <<>>, {}) ELSE Then(At("value", i), "items", "]")
                  [] c[1] = "args" ->
                       IF T(i) = ")" THEN Got(i + 1, <<>>, {}) ELSE At("more", i)
                  [] c[1] = "more" -> Then(At("value", i), "more", ")")
    IN Parse

CallArgs(text, i) == IF Tok(text, i) = "(" THEN Parser(text)[<<"args", i + 1>>] ELSE Bad

-----------------------------------------------------------------------------
(* statement.go *)

\* db["c"], db.getCollection("c"), db.c: where the text goes on.  A name that only
\* begins with getCollection is taken for a call of it.
Collection(text) ==
    LET named == Parser(text)[<<"value", 3>>]
        asked == CallArgs(text, 4)
    IN  CASE Tok(text, 2) = "[" ->
               IF named.at # 0 /\ IsString(named.vals[1]) /\ Tok(text, named.at) = "]"
               THEN named.at + 1 ELSE 0
          [] Tok(text, 2) = "." /\ Tok(text, 3) = "getCollection" ->
               IF Len(asked.vals) = 1 /\ IsString(asked.vals[1]) THEN asked.at ELSE 0
          [] Tok(text, 2) = "." /\ Tok(text, 3) # "getCollection" ->
               IF IsIdent(Tok(text, 3)) /\ Tok(text, 3) # "getCollection2" THEN 4 ELSE 0
          [] OTHER -> 0

\* The chained calls from i on, each with its first argument.
NoArg == Val("null", 0, {})
Modifiers(text) ==
    LET Mods[i \in Nat] ==
            IF Tok(text, i) # "." THEN [at |-> i, mods |-> <<>>]
            ELSE LET r    == CallArgs(text, i + 2)
                     rest == Mods[r.at]
                     m    == [name |-> Tok(text, i + 1),
                              arg  |-> IF r.vals = <<>> THEN NoArg ELSE r.vals[1]]
                 IN IF IsIdent(Tok(text, i + 1)) /\ r.at # 0
                    THEN [rest EXCEPT !.mods = <<m>> \o @]
                    ELSE [at |-> 0, mods |-> <<>>]
    IN Mods

NoStatement == [method |-> "none", args |-> <<>>, mods |-> <<>>]

\* Seeded bug: what is behind the statement is not looked at.
ParseLoosely(text) ==
    LET d    == Collection(text)
        args == CallArgs(text, d + 2)
        tail == Modifiers(text)[args.at]
    IN  IF /\ Tok(text, 1) = "db" /\ d # 0 /\ Tok(text, d) = "." /\ IsIdent(Tok(text, d + 1))
           /\ args.at # 0 /\ tail.at # 0
        THEN [method |-> Tok(text, d + 1), args |-> args.vals, mods |-> tail.mods]
        ELSE NoStatement

ParseStatement(text) ==
    LET d    == Collection(text)
        args == CallArgs(text, d + 2)
        tail == Modifiers(text)[args.at]
    IN  IF /\ Tok(text, 1) = "db" /\ d # 0 /\ Tok(text, d) = "." /\ IsIdent(Tok(text, d + 1))
           /\ args.at # 0 /\ tail.at = Len(text) + 1
        THEN [method |-> Tok(text, d + 1), args |-> args.vals, mods |-> tail.mods]
        ELSE NoStatement
===============================================================================
