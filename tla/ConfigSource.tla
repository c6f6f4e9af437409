---------------------------- MODULE ConfigSource ----------------------------
(***************************************************************************)
(* Where settings come from: effect/config/source.go, environment.go.      *)
(*                                                                         *)
(* A path is a sequence of segments and a segment the sequence of its      *)
(* words: the environment joins segments with the underscore that also     *)
(* joins words, so it loses where a segment ends; a map joins them with a  *)
(* dot, which no segment contains.  The empty name is <<>>.  A text is the *)
(* sequence of the pieces a separated list splits it into.                 *)
(***************************************************************************)
EXTENDS Naturals, Sequences, FiniteSets, SequencesExt

\* The words of the model, in the two spellings a deployment may use.
Upper == [a |-> "A", b |-> "B", A |-> "A", B |-> "B"]
Lower == [a |-> "a", b |-> "b", A |-> "a", B |-> "b"]

Respell(words, spelling) == [i \in DOMAIN words |-> spelling[words[i]]]

\* Render names the empty path "the root", also when it is used as a key.
Render(path) == IF path = <<>> THEN <<<<"the root">>>> ELSE path

\* db.max_connections is DB_MAX_CONNECTIONS.
environmentKey(path) == Respell(FlattenSeq(path), Upper)
-----------------------------------------------------------------------------
(* Sources *)

Nil == [kind |-> "nil"]
FromMap(values) == [kind |-> "map", values |-> values]
EnvironmentOf(entries) == [kind |-> "environment", values |-> entries]
one(text) == [kind |-> "single", value |-> text]

\* A source a program brings along that cannot be consulted.
Unreachable == [kind |-> "unreachable"]

Sources(sources) ==
    LET present == SelectSeq(sources, LAMBDA s : s # Nil)
    IN  IF Len(present) = 1 THEN present[1] ELSE [kind |-> "fallback", sources |-> present]

Beneath(source, path) ==
    IF source = Nil \/ path = <<>> THEN source
    ELSE [kind |-> "subtree", source |-> source, prefix |-> path]

\* spell is a function of segments; it is the identity outside its domain.
MapInput(source, spell) ==
    IF source = Nil THEN source
    ELSE [kind |-> "inputMap", source |-> source, spell |-> spell]

\* FAULT: the mounting point is looked up beneath the path.
PathFirst(source, path) == path \o source.prefix

subtreeAt(source, path) == source.prefix \o path

mapPath(source, path) ==
    [i \in DOMAIN path |->
        IF path[i] \in DOMAIN source.spell THEN source.spell[path[i]] ELSE path[i]]
-----------------------------------------------------------------------------
(* Value *)

Absent == [err |-> FALSE, found |-> FALSE, text |-> <<>>]
Held(text) == [err |-> FALSE, found |-> TRUE, text |-> text]
NotConsulted == [err |-> TRUE, found |-> FALSE, text |-> <<>>]

LookUp(values, key) == IF key \in DOMAIN values THEN Held(values[key]) ELSE Absent

\* FAULT: a source that cannot be consulted is passed over.
FallThrough(answers) ==
    LET decide == {i \in DOMAIN answers : answers[i].found}
    IN  IF decide = {} THEN Absent ELSE answers[Min(decide)]

\* The first source that carries the path answers, and one that cannot be
\* consulted stops the search.
FirstAnswer(answers) ==
    LET decide == {i \in DOMAIN answers : answers[i].err \/ answers[i].found}
    IN  IF decide = {} THEN Absent ELSE answers[Min(decide)]

RECURSIVE Value(_, _)
Value(source, path) ==
    CASE source.kind = "map" -> LookUp(source.values, Render(path))
      [] source.kind = "environment" -> LookUp(source.values, environmentKey(path))
      [] source.kind = "single" -> Held(source.value)
      [] source.kind = "unreachable" -> NotConsulted
      [] source.kind = "fallback" ->
            FirstAnswer([i \in DOMAIN source.sources |-> Value(source.sources[i], path)])
      [] source.kind = "subtree" -> Value(source.source, subtreeAt(source, path))
      [] source.kind = "inputMap" -> Value(source.source, mapPath(source, path))
-----------------------------------------------------------------------------
(* Children *)

\* Without repeats, in the order of the first occurrences.
Distinct(names) ==
    FoldLeft(LAMBDA seen, name : IF Contains(seen, name) THEN seen ELSE Append(seen, name),
             <<>>, names)

\* The keys of a map come sorted; any fixed order will do here.
keysOf(values) == SetToSeq(DOMAIN values)

\* What follows the prefix in each key that goes on beyond it.
childrenOf(keys, prefix) ==
    LET beneath == SelectSeq(keys, LAMBDA key : IsStrictPrefix(prefix, key))
    IN  Distinct([i \in DOMAIN beneath |-> beneath[i][Len(prefix) + 1]])

\* The environment's children are single words, given back in lower case.
lowerCase(words) == [i \in DOMAIN words |-> <<Lower[words[i]]>>]

Named(names) == [err |-> FALSE, names |-> names]

\* Gathered from every source; one that cannot be consulted fails them all.
Gathered(answers) ==
    IF \E i \in DOMAIN answers : answers[i].err THEN [err |-> TRUE, names |-> <<>>]
    ELSE Named(Distinct(FlattenSeq([i \in DOMAIN answers |-> answers[i].names])))

RECURSIVE Children(_, _)
Children(source, path) ==
    CASE source.kind = "map" -> Named(childrenOf(keysOf(source.values), Render(path)))
      [] source.kind = "environment" ->
            Named(lowerCase(childrenOf(keysOf(source.values), environmentKey(path))))
      [] source.kind = "single" -> Named(<<>>)
      [] source.kind = "unreachable" -> [err |-> TRUE, names |-> <<>>]
      [] source.kind = "fallback" ->
            Gathered([i \in DOMAIN source.sources |-> Children(source.sources[i], path)])
      [] source.kind = "subtree" -> Children(source.source, subtreeAt(source, path))
      [] source.kind = "inputMap" -> Children(source.source, mapPath(source, path))
=============================================================================
