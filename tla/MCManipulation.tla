----------------------------- MODULE MCManipulation ----------------------------
(* Manipulation on small names: every block line of up to MaxLabels labels  *)
(* with and without stars, some malformed ones, and lists of up to two      *)
(* overriding lines, alone and beside a block list.                         *)
EXTENDS Manipulation

CONSTANTS
    MaxLabels,      \* bound: labels of a rule
    MaxNameLabels   \* bound: labels of a name that is asked for

Label == {<<"a">>, <<"b">>, <<"b", "a">>, <<"A", "b">>}

Dotted(ls) == FoldLeft(LAMBDA s, l : s \o <<".">> \o l, ls[1], Tail(ls))
Names(n) == {Dotted(ls) : ls \in UNION {[1..k -> Label] : k \in 1..n}}

Malformed ==
    {<<"*">>, <<"*", ".">>, <<"*", ".", "*">>, <<".", "b", "a">>, <<"b", "a", ".">>,
     <<"a", "*", ".", "b", "a">>, <<"a", ".", "*", ".", "b", "a">>, <<"a", ".", ".", "b", "a">>}

Lines ==
    Malformed \cup {front \o n \o back :
        front \in {<<>>, <<"*", ".">>}, n \in Names(MaxLabels), back \in {<<>>, <<".", "*">>}}

Pairs ==
    [name : {<<"a", ".", "b", "a">>, <<"a", ".", "B", "A">>, <<"b", ".", "b", "a">>, <<"b", "a">>},
     target : {[version |-> "v4", host |-> 1], [version |-> "v4", host |-> 2],
               [version |-> "v6", host |-> 1], [version |-> "other", host |-> 1]}]

Configs ==
    [domain_block : {<<d>> : d \in Lines}, domain_override : {None}]
    \cup [domain_block : {None, <<>>, << <<"b", "a">> >>, << <<"b">>, <<"a", ".", "*">> >>},
          domain_override : {None} \cup UNION {[1..k -> Pairs] : k \in 0..2}]

Key == [name : {Append(n, ".") : n \in Names(MaxNameLabels)} \cup {<<".">>}, type : {"A", "TXT"}]

FewKeys == [name : {<<"a", ".", "b", "a", ".">>, <<"A", ".", "b", "A", ".">>, <<"b", ".", "b", "a", ".">>},
            type : {"A", "AAAA", "TXT"}]

Messages == {<<k>> : k \in Key} \cup {<<k, l>> : k, l \in FewKeys} \cup {<<k>> : k \in FewKeys}

=============================================================================
