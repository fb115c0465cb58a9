----------------------------- MODULE Manipulation -----------------------------
(***************************************************************************)
(* Query manipulation (dap-lib/src/doh_client/manipulation/): rules are    *)
(* read from lines, names are matched against them from either end.        *)
(* A name or a line is the sequence of its characters, because matching    *)
(* works on characters and means labels.  The characters are letters in    *)
(* both cases, the dot and the star; digits and hyphens, which the regular *)
(* expressions admit inside labels, are left out.                          *)
(***************************************************************************)
EXTENDS Positions, Naturals, SequencesExt

CONSTANTS
    Config,         \* bound: the configurations considered, as records of
                    \* domain_block: a sequence of lines, or None, and
                    \* domain_override: a sequence of [name, target], or None
    Message,        \* bound: the queries, as sequences of [name, type]
    None

LowerOf == [A |-> "a", B |-> "b"]
Letter == DOMAIN LowerOf \cup {LowerOf[c] : c \in DOMAIN LowerOf}
Char == Letter \cup {".", "*"}

\* Overriding lines map to an address of a version, or to none ("other").
AddressType == [v4 |-> "A", v6 |-> "AAAA"]

\* How characters are ordered, and types, by their numbers.
Order == [c \in {"*", ".", "a", "b"} |->
             CASE c = "*" -> 1 [] c = "." -> 2 [] c = "a" -> 3 [] c = "b" -> 4]
TypeOrder == [A |-> 1, TXT |-> 16, AAAA |-> 28]

\* The files are read without their empty lines.  A query has a question, and
\* names that are asked for end with a dot.
ASSUME ManipulationAssumption ==
    /\ \A c \in Config :
          /\ c.domain_block = None \/ c.domain_block \in Seq(Seq(Char) \ {<<>>})
          /\ \/ c.domain_override = None
             \/ /\ Len(c.domain_override) \in Nat
                /\ DOMAIN c.domain_override = 1..Len(c.domain_override)
                /\ \A i \in DOMAIN c.domain_override :
                      c.domain_override[i].name \in Seq(Char) /\ c.domain_override[i].target # None
    /\ \A q \in Message :
          /\ q # <<>> /\ q \in Seq([name : Seq(Char), type : DOMAIN TypeOrder])
          /\ \A i \in DOMAIN q : q[i].name # <<>> /\ Last(q[i].name) = "."

VARIABLES
    config,         \* the QueryManipulationConfig
    manipulators,   \* the rules made from it; None: not made yet
    query,          \* the query, and what is done with it
    result

-----------------------------------------------------------------------------
(* Names.                                                                  *)

lower(c) == IF c \in DOMAIN LowerOf THEN LowerOf[c] ELSE c
to_ascii_lowercase(s) == [i \in DOMAIN s |-> lower(s[i])]

\* split('.'): the dots cut s into labels, as its ends do.
Cuts(s) == {0, Len(s) + 1} \cup {i \in DOMAIN s : s[i] = "."}

Labels(s) ==
    LET cut(n) == nth(Cuts(s), n)
    IN  [n \in 1..(Cardinality(Cuts(s)) - 1) |-> SubSeq(s, cut(n) + 1, cut(n + 1) - 1)]

IsLabel(l) == l # <<>> /\ ToSet(l) \subseteq Letter

\* REGEXP_DOMAIN, and REGEXP_DOMAIN_OR_PREFIX with a star for the last label.
IsTopLevel(l) == IsLabel(l) /\ Len(l) >= 2

IsDomain(s) ==
    LET ls == Labels(s)
    IN  Len(ls) >= 2 /\ IsTopLevel(Last(ls)) /\ \A i \in 1..(Len(ls) - 1) : IsLabel(ls[i])

IsDomainOrPrefix(s) ==
    LET ls == Labels(s)
    IN  /\ Len(ls) >= 2
        /\ IsTopLevel(Last(ls)) \/ Last(ls) = <<"*">>
        /\ \A i \in 1..(Len(ls) - 1) : IsLabel(ls[i])

-----------------------------------------------------------------------------
(* Blocking.                                                               *)

starts_with_star(d) == Len(d) > 2 /\ IsPrefix(<<"*", ".">>, d)
ends_with_star(d) == Len(d) > 2 /\ IsSuffix(<<".", "*">>, d)

without_star(d) == IF starts_with_star(d) THEN SubSeq(d, 3, Len(d)) ELSE d

\* The lines that become rules.
block_dict(lines) ==
    LET stripped == {without_star(d) : d \in ToSet(lines)}
    IN  {to_ascii_lowercase(d) :
            d \in {x \in stripped : IsDomainOrPrefix(x) \/ Len(Labels(x)) = 1}}

\* TryFrom<&QueryManipulationConfig> for Option<DomainBlockRule>
DomainBlockRule(lines) ==
    LET dict == block_dict(lines)
    IN  [prefix_dict |-> {SubSeq(d, 1, Len(d) - 2) : d \in {x \in dict : ends_with_star(x)}},
         suffix_dict |-> {Reverse(d) : d \in {x \in dict : ~ends_with_star(x)}}]

\* Mutant: a rule matches inside a label.
find_suffix_anywhere(rule, name) ==
    \E found \in rule.suffix_dict : IsPrefix(found, Reverse(name))

\* The rules are looked up by what they have in common with the front of the
\* reversed name; the name ends or a label ends where the rule does.
find_suffix_match(rule, name) ==
    LET rev == Reverse(name)
    IN  \E found \in rule.suffix_dict :
           /\ IsPrefix(found, rev)
           /\ Len(found) < Len(rev) => rev[Len(found) + 1] = "."

find_prefix_match(rule, name) ==
    \E found \in rule.prefix_dict :
       /\ IsPrefix(found, name)
       /\ Len(found) < Len(name)
       /\ name[Len(found) + 1] = "."

\* The name, in lower case, without its final dot.
in_blocklist(rule, key) ==
    LET name == Front(to_ascii_lowercase(key.name))
    IN  find_suffix_match(rule, name) \/ find_prefix_match(rule, name)

-----------------------------------------------------------------------------
(* Overriding.                                                             *)

\* TryFrom<&QueryManipulationConfig> for Option<DomainOverrideRule>: for every
\* name its targets, in the order of the lines.
DomainOverrideRule(lines) ==
    LET kept == {i \in DOMAIN lines :
                    IsDomain(lines[i].name) /\ lines[i].target.version \in DOMAIN AddressType}
        name(i) == to_ascii_lowercase(lines[i].name)
        targets == [i \in DOMAIN lines |-> lines[i].target]
    IN  [n \in {name(i) : i \in kept} |-> at_positions(targets, {i \in kept : name(i) = n})]

\* The first target of the type that is asked for.
find_mapping(inner, key) ==
    LET name == Front(to_ascii_lowercase(key.name))
        targets == IF name \in DOMAIN inner THEN inner[name] ELSE <<>>
        fits == {n \in DOMAIN targets : AddressType[targets[n].version] = key.type}
    IN  IF fits = {} THEN None ELSE targets[nth(fits, 1)]

-----------------------------------------------------------------------------
(* A query.                                                                *)

\* Request sorts the questions by name, in lower case, and type; this is the
\* order of strings.
StringLess(s, t) ==
    \/ IsStrictPrefix(s, t)
    \/ \E i \in DOMAIN s \cap DOMAIN t :
          Order[s[i]] < Order[t[i]] /\ \A j \in 1..(i - 1) : s[j] = t[j]

KeyLess(k, l) ==
    \/ StringLess(k.name, l.name)
    \/ k.name = l.name /\ TypeOrder[k.type] < TypeOrder[l.type]

Request(q) ==
    LET keys == [i \in DOMAIN q |-> [q[i] EXCEPT !.name = to_ascii_lowercase(@)]]
        before(i) == {j \in DOMAIN q : KeyLess(keys[j], keys[i]) \/ (keys[j] = keys[i] /\ j < i)}
    IN  [n \in DOMAIN q |-> keys[CHOOSE i \in DOMAIN q : Cardinality(before(i)) = n - 1]]

PassThrough == [kind |-> "PassThrough"]
NXDomain(q) == [kind |-> "NXDomain", questions |-> q]
Answer(q, key, t) ==
    [kind |-> "NoError", questions |-> q, name |-> key.name, address |-> t]

\* Mutant: blocking comes first.
apply_block_first(rules, q) ==
    LET key == Request(q)[1]
        mapsto == find_mapping(rules.override, key)
    IN  IF in_blocklist(rules.block, key) THEN NXDomain(q)
        ELSE IF mapsto # None THEN Answer(q, key, mapsto)
        ELSE PassThrough

\* QueryManipulators::apply to the first key of the request, overriding first.
apply(rules, q) ==
    LET key == Request(q)[1]
        mapsto == find_mapping(rules.override, key)
    IN  IF mapsto # None THEN Answer(q, key, mapsto)
        ELSE IF in_blocklist(rules.block, key) THEN NXDomain(q)
        ELSE PassThrough

\* A plugin that is not configured is one without lines.
lines_of(plugin) == IF plugin = None THEN <<>> ELSE plugin

rules_of(c) ==
    [override |-> DomainOverrideRule(lines_of(c.domain_override)),
     block |-> DomainBlockRule(lines_of(c.domain_block))]

-----------------------------------------------------------------------------

vars == <<config, manipulators, query, result>>

Init ==
    /\ config \in Config
    /\ manipulators = None
    /\ query = None
    /\ result = None

\* TryFrom<&QueryManipulationConfig> for QueryManipulators
New ==
    /\ manipulators = None
    /\ manipulators' = rules_of(config)
    /\ UNCHANGED <<config, query, result>>

\* make_doh_query, up to the cache.
Query(q) ==
    /\ manipulators # None /\ query = None
    /\ query' = q
    /\ result' = apply(manipulators, q)
    /\ UNCHANGED <<config, manipulators>>

Next == New \/ \E q \in Message : Query(q)

Spec == Init /\ [][Next]_vars

-----------------------------------------------------------------------------
(* Properties, stated on labels and on the lines of the files.             *)

\* The smallest question, whatever the order of the questions.
FirstKey ==
    LET keys == {[k EXCEPT !.name = to_ascii_lowercase(@)] : k \in ToSet(query)}
    IN  CHOOSE k \in keys : \A l \in keys : ~KeyLess(l, k)

QueryLabels == Labels(Front(FirstKey.name))

\* A star in front of a rule changes nothing; a star at its end stands for
\* one label or more, and any other rule for a domain with all below it.
Blocks(line, labels) ==
    LET ls == Labels(to_ascii_lowercase(line))
        rule == IF Len(ls) > 1 /\ ls[1] = <<"*">> /\ Tail(ls) # << <<>> >> THEN Tail(ls) ELSE ls
    IN  IF Len(rule) = 1 THEN IsSuffix(rule, labels)
        ELSE /\ \A i \in 1..(Len(rule) - 1) : IsLabel(rule[i])
             /\ IF Last(rule) = <<"*">> THEN IsStrictPrefix(Front(rule), labels)
                ELSE IsTopLevel(Last(rule)) /\ IsSuffix(rule, labels)

\* The lines that override the first question.
Overriding ==
    LET lines == config.domain_override
    IN  IF lines = None THEN {}
        ELSE {i \in DOMAIN lines :
                 /\ IsDomain(lines[i].name)
                 /\ Labels(to_ascii_lowercase(lines[i].name)) = QueryLabels
                 /\ <<lines[i].target.version, FirstKey.type>> \in {<<"v4", "A">>, <<"v6", "AAAA">>}}

(* Matching the characters of reversed names from the front blocks exactly *)
(* the names that a rule means by their labels, in any case of letters: no *)
(* name that only ends in the same letters, none that a case hides, none   *)
(* that ends where a prefix rule expects a label.                          *)
BlockedByLabels ==
    query # None /\ Overriding = {} =>
       (result.kind = "NXDomain"
        <=> config.domain_block # None
            /\ \E line \in ToSet(config.domain_block) : Blocks(line, QueryLabels))

(* A query that a line overrides is answered with the address of the first *)
(* such line, even if its name is blocked, with its questions as they were *)
(* asked; a line of the other address version, or without a valid address, *)
(* neither answers it nor keeps it from being blocked.                     *)
OverriddenBeforeBlocked ==
    query # None =>
       /\ result.kind = "NoError" <=> Overriding # {}
       /\ \A i \in Overriding :
             (\A j \in Overriding : i <= j) =>
                /\ result.address = config.domain_override[i].target
                /\ result.questions = query

=============================================================================
