---------------------------- MODULE MCTableLoad ----------------------------
(* Small tables, and every kind of value a declared column may be given.   *)
EXTENDS TableLoad

\* Every kind of value beside a column of nulls, and two columns of dates
\* and datetimes that contradict their samples at different rows.
Wide ==
    {r \in [Columns -> AllKinds] : r["d"] = "null"}
      \cup [Columns -> {"date", "naive"}]

\* Every sample size that fits, and a column whose type is given.
MCSettings == {<<0, {}>>, <<1, {}>>, <<2, {"d"}>>}
Given      == {<<0, {}>>, <<0, {"d"}>>}
Zones      == [Columns -> {"null", "naive", "aware"}]

MCBits == [f \in {"smallint", "integer", "bigint"} |->
             IF f = "smallint" THEN 2 ELSE IF f = "integer" THEN 3 ELSE 4]

Decimal(digits, exponent) ==
    Value("Decimal", [digits |-> digits, exponent |-> exponent, special |-> ""])
Special(name) == Value("Decimal", [digits |-> <<0>>, exponent |-> 0, special |-> name])

Integers   == {Value("int", n) : n \in {-9, -8, -5, -4, -3, -2, 0, 1, 2, 3, 4, 7, 8, 10, 100}}
Decimals   == {Decimal(d, e) : d \in {<<0>>, <<5>>, <<1, 0>>, <<1, 2>>, <<1, 5, 0>>}, e \in -2..1}
Characters == {"\\", "TAB", "LF", "CR", "N", "x"}
Texts      == {Value("str", t) : t \in UNION {[1..n -> Characters] : n \in 0..2}
                                         \cup {<<"\\", "N", "x">>, <<"x", "NUL">>, <<"\\", "\\", "N">>}}
Others ==
    {None, Value("NA", ""), Value("NaT", ""), Value("bool", TRUE), Value("IntEnum", 1),
     Special("nan"), Special("snan"), Special("inf"), Value("numpy.str_", <<"x">>),
     Value("bytes", "00ff"), Value("memoryview", "00ff"), Value("list", <<>>),
     Value("date", "day"), Value("Timestamp", "naive"), Value("Timestamp", "aware")}
    \cup {Value("float", f) : f \in {"finite", "nan", "inf"}}
    \cup {Value("datetime", z) : z \in {"naive", "aware", "no offset"}}
    \cup {Value("numpy", v) : v \in {Value("bool", TRUE), Value("int", 1), Value("int", 8),
                                     Value("float", "nan"), Value("float", "finite")}}

\* One column of each type, given every value.
Types1 ==
    {Column(f, TRUE, 0, 0) : f \in {"bool", "smallint", "integer", "bigint", "numeric", "float",
                                    "text", "bytes", "date", "timestamp", "timestamptz"}}
      \cup {Column("numeric", TRUE, 1, 0), Column("numeric", FALSE, 2, 1), Column("text", FALSE, 1, 0)}

Single(column) ==
    [mode |-> "declared", columns |-> <<"a">>, contract |-> <<>>, framework |-> FALSE,
     schema |-> <<<<"a", column>>>>, source |-> "every value"]

\* Two columns, renamed, exchanged, dropped and doubled.
Pair(contract, framework, schema) ==
    [mode |-> "declared", columns |-> <<"a", "b">>, contract |-> contract,
     framework |-> framework, schema |-> schema, source |-> "two texts"]

\* Two columns of numbers, one of which the framework's column follows.
Numbers(framework) ==
    [mode |-> "declared", columns |-> <<"a", "b">>, contract |-> <<>>, framework |-> framework,
     schema |-> <<<<"b", Column("numeric", TRUE, 2, 1)>>, <<"a", Column("smallint", TRUE, 0, 0)>>>>,
     source |-> "two numbers"]

MCYields ==
    [s \in {"every value", "two texts", "two numbers"} |->
       IF s = "every value" THEN {<<v>> : v \in Integers \cup Decimals \cup Texts \cup Others}
       ELSE IF s = "two numbers"
       THEN {<<v, w>> : v \in {Value("int", 1), Value("int", 2), None},
                        w \in {Decimal(<<5>>, -1), Decimal(<<1, 5, 0>>, -2), Decimal(<<5>>, -2),
                               Value("int", 9), Value("int", 10)}}
       ELSE {<<v, w>> : v \in {Value("str", <<"TAB">>), Value("str", <<"\\">>), None},
                        w \in {Value("str", <<>>), Value("str", <<"\\", "N">>), Value("int", 1)}}]

Text    == Column("text", TRUE, 0, 0)
Swapped == <<<<"b", "a">>, <<"a", "b">>>>
Schemas == {<<<<"a", Text>>, <<"b", Text>>>>, <<<<"b", Text>>, <<"a", Text>>>>, <<<<"c", Text>>>>,
            <<<<"a", Text>>, <<Updated, Text>>>>, <<<<"a", Text>>, <<"a", Text>>>>}
Pairs   == {Pair(c, f, s) : c \in {<<>>, Swapped, <<<<"b", "c">>>>, <<<<"a", "c">>, <<"b", "c">>>>,
                                   <<<<"x", "c">>>>, <<<<"a", "a">>, <<"b", Updated>>>>},
                            f \in BOOLEAN, s \in Schemas}

MCPayloads ==
    {Single(column) : column \in Types1} \cup Pairs \cup {Numbers(b) : b \in BOOLEAN}

Framing(tag, holds) == <<tag, holds>>
Framings == {Framing(_TAG_INT, n) : n \in {-129, -128, -9, -8, -1, 0, 7, 8, 127, 128}}
              \cup {Framing(_TAG_STR, t) : t \in {<<>>, <<15>>, <<14, 15>>}}
              \cup {Framing(t, <<>>) : t \in {_TAG_NULL, _TAG_TRUE}}
MCFrames ==
    {<<v>> : v \in Framings}
      \cup {<<v, w>> : v, w \in {Framing(_TAG_NULL, <<>>), Framing(_TAG_INT, -1),
                                 Framing(_TAG_STR, <<15>>), Framing(_TAG_STR, <<>>)}}

\* Tables of one to four letters, two of which begin alike; limits around the
\* width of the suffix.
Letters(n) == [i \in 1..n |-> <<IF i = 4 THEN "g" ELSE "e">>]
TableNames == {Letters(n) : n \in 1..4} \cup {<<<<"e">>, <<"e">>, <<"f">>>>}
NoTables == {}
MCStagings ==
    [mode : {"staging"}, task : {"t", "u"}, schema : {Letters(1), Letters(2)}, table : TableNames,
     run : {new_run_token(1), new_run_token(2)}, configured : {3, 4, 5, 7, 9},
     server : {3, 4, 6, 9}, fate : Fates]

\* Every type beside some that a declaration cannot say, with one peculiarity each.
Plain ==
    {<<name, <<>>>> : name \in DOMAIN Classes \cup {"jsonb"}}
      \cup {<<"numeric", m>> : m \in {<<5, 2>>, <<5, 5>>, <<2, 5>>, <<5, -1>>, <<1000, 0>>}}
      \cup {<<"varchar", <<1>>>>} \cup {<<name, <<p>>>> : name \in Times, p \in {3, 6}}

Peculiar(column) ==
    {column, [column EXCEPT !.published = FALSE], [column EXCEPT !.type_kind = "d"],
     [column EXCEPT !.type_kind = "e"], [column EXCEPT !.collated = TRUE],
     [column EXCEPT !.identity = TRUE], [column EXCEPT !.generated = TRUE],
     [column EXCEPT !.default = TRUE]}

MCColumns == UNION {Peculiar(PhysicalColumn("a", type, b)) : type \in Plain, b \in BOOLEAN}

\* The framework's column, as it creates it and otherwise.
Updates == {PhysicalColumn(Updated, <<"timestamptz", <<>>>>, b) : b \in BOOLEAN}

MCInspected ==
    [mode : {"schema"}, kind : {"r", "p", "v"}, incoming : BOOLEAN,
     columns : {<<c>> : c \in MCColumns}
                 \cup UNION {{<<c, u>>, <<u, c>>} : c \in MCColumns, u \in Updates},
     excluded : {{}, {Updated}, {"a"}}, framework : {{}, {Updated}}]
=============================================================================
