------------------------------- MODULE MCDbcli -------------------------------
(* Dbcli for TLC: every combination of verb, statement, flags and engine; two *)
(* commands of the dataease driver, each with either site; redis commands; and*)
(* the mongo statements of a grammar, each with what it means.                *)
EXTENDS Dbcli

V(text, kind, num, keys) == [text |-> text, val |-> Val(kind, num, keys)]

Scalars ==
    {V(<<"1">>, "int", 1, {}), V(<<"'c'">>, "string", 0, {}), V(<<"null">>, "null", 0, {}),
     V(<<"MinKey", "(", ")">>, "other", 0, {}), V(<<"MinKey">>, "other", 0, {}),
     V(<<"new", "ISODate", "(", "'c'", ")">>, "other", 0, {}),
     V(<<"NumberLong", "(", "'2'", ")">>, "int", 2, {})}

Doc(k, v)    == V(<<"{", k, ":">> \o v.text \o <<"}">>, "doc", 0, {k} \union v.val.keys)
DocOf2(k, v, l, w) ==
    V(<<"{", k, ":">> \o v.text \o <<",", l, ":">> \o w.text \o <<",", "}">>, "doc", 0,
      {k, l} \union v.val.keys \union w.val.keys)
Arr(v)       == V(<<"[">> \o v.text \o <<"]">>, "array", 0, v.val.keys)
ArrOf2(v, w) == V(<<"[">> \o v.text \o <<",">> \o w.text \o <<"]">>, "array", 0,
                  v.val.keys \union w.val.keys)

One   == V(<<"1">>, "int", 1, {})
Empty == V(<<"{", "}">>, "doc", 0, {})
A1    == Doc("a", One)
Scripts  == Doc("a", Doc("$where", One))
OutStage == Arr(Doc("$out", One))

\* The arguments of a method, each with its text.
ArgLists ==
    {<<>>, <<Empty>>, <<A1>>, <<Doc("$where", One)>>, <<ArrOf2(A1, Scripts)>>, <<OutStage>>,
     <<Arr(DocOf2("a", OutStage, "b", One))>>, <<A1, A1>>, <<A1, Scripts>>,
     <<V(<<"'c'">>, "string", 0, {})>>, <<One, A1>>}
    \union {<<Doc("a", v)>> : v \in Scalars}

Commas(l) == IF l = <<>> THEN <<>>
             ELSE IF Len(l) = 1 THEN l[1].text ELSE l[1].text \o <<",">> \o l[2].text

\* The chained calls.
Mod(name, v) == [text |-> <<".", name, "(">> \o v.text \o <<")">>,
                 mods |-> <<[name |-> name, arg |-> v.val]>>]
NoMod == [text |-> <<>>, mods |-> <<>>]
Two(m, n) == [text |-> m.text \o n.text, mods |-> m.mods \o n.mods]
Limits9 == Mod("limit", V(<<"9">>, "int", 9, {}))
Chains ==
    {NoMod, Limits9, [text |-> <<".", "toArray", "(", ")">>, mods |-> <<[name |-> "toArray", arg |-> NoArg]>>]}
    \union {Mod("limit", V(<<t>>, "int", NumberOf[t], {})) : t \in {"-1", "0", "1", "2"}}
    \union {Mod("limit", V(<<"'2'">>, "digits", 2, {})), Mod("each", A1), Two(Mod("sort", A1), Mod("limit", One)),
            Two(Mod("limit", One), Limits9), Two(Limits9, Mod("limit", One))}

Sentence(db, method, l, chain) ==
    [text |-> db \o <<".", method, "(">> \o Commas(l) \o <<")">> \o chain.text,
     stm  |-> [method |-> method, args |-> [i \in DOMAIN l |-> l[i].val], mods |-> chain.mods]]

Dotted == <<"db", ".", "c">>
Named  == {<<"db", "[", "'c'", "]">>, <<"db", ".", "getCollection", "(", "'c'", ")">>}

Sentences ==
    {Sentence(Dotted, m, l, NoMod) : m \in ReadMethods \union WriteMethods \union {"drop"}, l \in ArgLists}
    \union {Sentence(Dotted, m, l, c) : m \in {"find", "findOne", "aggregate"}, l \in {<<>>, <<A1, A1>>}, c \in Chains}
    \union {Sentence(d, "find", <<A1>>, Limits9) : d \in Named \union {<<"db", ".", " getCollection">>}}

\* A sentence with a sign missing, or with something behind it, is none.  Without
\* the parenthesis that closes MinKey( it is none either, but means the same.
Broken(text) == [text |-> text, stm |-> NoStatement]
Closes(text, i) == i > 2 /\ text[i] = ")" /\ text[i - 1] = "(" /\ text[i - 2] = "MinKey"
Without(text, i) == SubSeq(text, 1, i - 1) \o SubSeq(text, i + 1, Len(text))
Damaged ==
    UNION {{[Broken(Without(s.text, i)) EXCEPT !.stm = IF Closes(s.text, i) THEN s.stm ELSE @] :
                i \in {j \in DOMAIN s.text : s.text[j] \in Signs \ {","}}}
               \union {Broken(Append(s.text, t)) : t \in {")", "1", "c"}} :
           s \in {t \in Sentences : t.stm.method \in {"find", "insertOne"}}}
    \union {Broken(<<>>), Broken(<<"db", ".", "getCollection2", ".", "find", "(", ")">>),
            Broken(Dotted \o <<".", "find", "(", "1", ",", ")">>),
            Broken(Dotted \o <<".", "find", "(", "{", ",", "}", ")">>),
            Broken(Dotted \o <<".", "find", "(", "ISODate", "(", "1", ")", ")">>)}

\* Statements that are refused: white space before getCollection.
Spaced == {[s EXCEPT !.text[3] = " getCollection"] :
            s \in {t \in Sentences : t.text[2] = "." /\ t.text[3] = "getCollection"}}

MCTexts == Sentences \union Damaged \union Spaced

\* No sentence is refused: that what is accepted is right (ParserRight) is said of
\* every sentence of the grammar.
ASSUME SentencesAreRead == \A s \in Sentences : ParseStatement(s.text) = s.stm
===============================================================================
