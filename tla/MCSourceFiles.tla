--------------------------- MODULE MCSourceFiles ---------------------------
EXTENDS SourceFiles
CONSTANTS a, b

\* Records of a file, with the header in front: a common one, another, none at all,
\* a row that is too short and one that is too long.
Good   == <<<<"x", "y">>, <<"1", "2">>>>
Blank  == <<<<>>, <<>>>>
Other  == <<<<"x", "z">>, <<"1", "2">>>>
Ragged == <<<<"x", "y">>, <<"1">>, <<>>, <<"1", "2", "3">>>>

Options(width, columns) == [header |-> TRUE, columns |-> columns, row_width |-> width]

Base ==
    [kind |-> [k \in Keys |-> IF k = a THEN "set" ELSE "latest"], path |-> [k \in Keys |-> 1],
     tracked |-> Keys, workbooks |-> {b}, filtered |-> {}, hidden |-> {},
     uses |-> [p \in Pipelines |-> IF p = 1 THEN {a} ELSE Keys], remote |-> FALSE,
     contents |-> [n \in Names |-> [v \in Versions |-> Good]],
     options |-> Options("strict", <<>>)]

Contents(first, second) ==
    [n \in Names |-> [v \in Versions |-> IF n = 1 /\ v = 1 THEN first ELSE second]]

MCLayouts ==
    {Base,
     [Base EXCEPT !.remote = TRUE, !.contents = Contents(Blank, Good), !.tracked = {a}],
     [Base EXCEPT !.kind[a] = "latest", !.contents = Contents(Good, Other),
                  !.uses = [p \in Pipelines |-> IF p = 1 THEN {a} ELSE {b}]],
     [Base EXCEPT !.kind[b] = "fixed", !.contents = Contents(Good, Ragged),
                  !.options = Options("pad", <<>>)],
     [Base EXCEPT !.contents = Contents(Ragged, Good), !.filtered = {2}, !.remote = TRUE,
                  !.options = Options("pad_or_truncate", <<>>)],
     [Base EXCEPT !.contents = Contents(Ragged, Blank), !.hidden = {2},
                  !.options = Options("pad", <<"x", "y">>)],
     [Base EXCEPT !.kind[b] = "query", !.workbooks = {}, !.path[b] = 2, !.hidden = {2}]}
=============================================================================
