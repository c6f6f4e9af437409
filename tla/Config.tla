------------------------------- MODULE Config -------------------------------
(***************************************************************************)
(* Descriptions of settings, and reading them: effect/config/config.go,    *)
(* primitives.go, composition.go, structure.go, collections.go,            *)
(* document.go.                                                            *)
(*                                                                         *)
(* A program builds a description bottom up, one combinator at a time: an  *)
(* action applies a combinator to the descriptions that are ready.  A      *)
(* deployment then supplies a source and the program reads it.             *)
(*                                                                         *)
(* A value is the sequence of words it was made of.  A description         *)
(* carries, as in the code, the expectations it prints; of those only the  *)
(* path, and whether absence is an answer, are kept.                       *)
(***************************************************************************)
EXTENDS ConfigSource, ConfigError

CONSTANTS
    Names,          \* segments a program names
    Deployments(_), \* the sources one of so many constructors may be read from
    Good,           \* texts that parse as a number
    Refused,        \* the value a transform refuses
    MaxCombinators  \* bound on the constructors of one description

ASSUME GoodAssumption == Good \subseteq Seq(STRING) /\ Refused \in Good

NoName == <<>>
-----------------------------------------------------------------------------
(* Constructors, with the expectations each one prints *)

pathOf(name) == IF name = NoName THEN <<>> ELSE <<name>>

Expect(path, optional) == [path |-> path, default |-> FALSE, optional |-> optional]

Zero == [op |-> "zero", expects |-> <<>>]

\* Of: Text reads any text, Int only the good ones.
Of(name, reads) ==
    [op |-> "of", name |-> name, reads |-> reads, expects |-> <<Expect(pathOf(name), FALSE)>>]

Map(of) == [op |-> "map", of |-> of, expects |-> of.expects]
MapOrFail(of) == [op |-> "mapOrFail", of |-> of, expects |-> of.expects]

prefixExpectations(name, expects) ==
    [i \in DOMAIN expects |-> [expects[i] EXCEPT !.path = pathOf(name) \o @]]

Nested(name, of) ==
    [op |-> "nested", name |-> name, of |-> of, expects |-> prefixExpectations(name, of.expects)]

ZipWith(first, second) ==
    [op |-> "zipWith", parts |-> <<first, second>>, expects |-> first.expects \o second.expects]

All(parts) ==
    [op |-> "all", parts |-> parts,
     expects |-> FlattenSeq([i \in DOMAIN parts |-> parts[i].expects])]

\* A field nobody described is Zero: it is reported as that is.
Struct(parts) == [All(parts) EXCEPT !.op = "struct"]

\* A default that renders as the empty text leaves the expectation as it was.
WithDefault(of, renders) ==
    [op |-> "withDefault", of |-> of, renders |-> renders,
     expects |-> [i \in DOMAIN of.expects |-> [of.expects[i] EXCEPT !.default = @ \/ renders]]]

\* FAULT: an optional value is printed as it was before.
StaysRequired(expects) == expects

AsOptional(expects) == [i \in DOMAIN expects |-> [expects[i] EXCEPT !.optional = TRUE]]

OrElse(of, that) ==
    [op |-> "orElse", of |-> of, that |-> that, expects |-> AsOptional(of.expects) \o that.expects]

Optional(of) == [op |-> "optional", of |-> of, expects |-> AsOptional(of.expects)]

Table(name, of) ==
    [op |-> "table", name |-> name, of |-> of, expects |-> <<Expect(pathOf(name), TRUE)>>]

Many(name, of) ==
    [op |-> "many", name |-> name, of |-> of, expects |-> <<Expect(pathOf(name), FALSE)>>]

\* expectationText: what Document prints as required.
Required(expects) ==
    {expects[i].path : i \in {j \in DOMAIN expects : ~expects[j].default /\ ~expects[j].optional}}

subject(of) == IF of.expects = <<>> THEN <<>> ELSE of.expects[1].path
-----------------------------------------------------------------------------
(* Reading *)

Got(value) == [value |-> value, failure |-> Empty]
Failed(failure) == [value |-> <<>>, failure |-> failure]

under(path, name) == IF name = NoName THEN path ELSE Append(path, name)

\* One value of the source, or why it is not there.
Consult(source, path) ==
    LET answer == Value(source, path)
    IN  IF answer.err THEN Failed(Unavailable(path))
        ELSE IF ~answer.found THEN Failed(Missing(path))
        ELSE Got(answer.text)

parse(reads, raw, path) ==
    IF reads = "text" \/ raw \in Good THEN Got(raw) ELSE Failed(Invalid(path))

\* Every result is looked at, and the failures of all of them are kept.
Accumulate(results) ==
    LET failure == FoldLeft(And, Empty, [i \in DOMAIN results |-> results[i].failure])
    IN  IF IsEmpty(failure)
        THEN Got(FlattenSeq([i \in DOMAIN results |-> results[i].value]))
        ELSE Failed(failure)

RECURSIVE Read(_, _, _)

ReadTable(source, here, of) ==
    LET children == Children(source, here)
        entry(child) ==
            LET read == Read(source, under(here, child), of)
            IN  IF IsEmpty(read.failure) THEN Got(child \o read.value) ELSE read
    IN  IF children.err THEN Failed(Unavailable(here))
        ELSE Accumulate([i \in DOMAIN children.names |-> entry(children.names[i])])

\* Each piece is read by the entry description as a source of its own.
ReadMany(source, here, of) ==
    LET raw == Consult(source, here)
    IN  IF ~IsEmpty(raw.failure) THEN raw
        ELSE Accumulate([i \in DOMAIN raw.value |-> Read(one(<<raw.value[i]>>), here, of)])

ReadOrElse(source, path, of, that) ==
    LET read == Read(source, path, of)
        alternative == Read(source, path, that)
    IN  IF IsEmpty(read.failure) THEN read
        ELSE IF IsEmpty(alternative.failure) THEN alternative
        ELSE Failed(Or(read.failure, alternative.failure))

\* A refusal is reported against the first path the description names.
Transformed(read, path, of) ==
    IF ~IsEmpty(read.failure) THEN read
    ELSE IF Contains(read.value, Refused[1])
         THEN Failed(Invalid(path \o subject(of)))
    ELSE Got(Append(read.value, "checked"))

\* read of the description d at a path of the source.
Read(source, path, d) ==
    CASE d.op = "zero" -> Failed(Invalid(<<>>))
      [] d.op = "of" ->
            LET here == under(path, d.name)
                raw == Consult(source, here)
            IN  IF IsEmpty(raw.failure) THEN parse(d.reads, raw.value, here) ELSE raw
      [] d.op = "map" ->
            LET read == Read(source, path, d.of)
            IN  IF IsEmpty(read.failure) THEN Got(Append(read.value, "mapped")) ELSE read
      [] d.op = "mapOrFail" -> Transformed(Read(source, path, d.of), path, d.of)
      [] d.op = "nested" -> Read(source, under(path, d.name), d.of)
      [] d.op \in {"zipWith", "all", "struct"} ->
            Accumulate([i \in DOMAIN d.parts |-> Read(source, path, d.parts[i])])
      [] d.op = "withDefault" ->
            LET read == Read(source, path, d.of)
            IN  IF IsMissingOnly(read.failure) THEN Got(<<"default">>) ELSE read
      [] d.op = "optional" ->
            LET read == Read(source, path, d.of)
            IN  IF IsMissingOnly(read.failure) THEN Got(<<"absent">>) ELSE read
      [] d.op = "orElse" -> ReadOrElse(source, path, d.of, d.that)
      [] d.op = "table" -> ReadTable(source, under(path, d.name), d.of)
      [] d.op = "many" -> ReadMany(source, under(path, d.name), d.of)

\* The package function Read: a description from a source.
ReadFrom(source, d) == IF source = Nil THEN Failed(Unavailable(<<>>)) ELSE Read(source, <<>>, d)
-----------------------------------------------------------------------------
(* Programs *)

VARIABLES
    ready,      \* the descriptions built so far and not yet used in another
    size,       \* how many constructors they took
    source,     \* what the deployment supplied
    result      \* what the program read

vars == <<ready, size, source, result>>

NotRead == [value |-> <<"not read">>, failure |-> Empty]

Init == ready = <<>> /\ size = 0 /\ source = Nil /\ result = NotRead

Push(d, used) ==
    /\ result = NotRead /\ source = Nil /\ size < MaxCombinators
    /\ ready' = Append(SubSeq(ready, 1, Len(ready) - used), d)
    /\ size' = size + 1
    /\ UNCHANGED <<source, result>>

Top(n) == ready[Len(ready) - n]

Describe == \E name \in Names \cup {NoName}, reads \in {"text", "int"} : Push(Of(name, reads), 0)

\* A declared variable nobody assigned.
Forget == Push(Zero, 0)

Refine ==
    /\ Len(ready) >= 1
    /\ \/ Push(Map(Top(0)), 1)
       \/ Push(MapOrFail(Top(0)), 1)
       \/ Push(Optional(Top(0)), 1)
       \/ \E renders \in BOOLEAN : Push(WithDefault(Top(0), renders), 1)

Group ==
    /\ Len(ready) >= 1
    /\ \E name \in Names :
          \/ Push(Nested(name, Top(0)), 1)
          \/ Push(Table(name, Top(0)), 1)

\* The entries of a separated list have no names: Many is documented for a
\* description that reads the value where it stands.
List ==
    /\ Len(ready) >= 1
    /\ Top(0).op \in {"of", "map", "mapOrFail"}
    /\ \A i \in DOMAIN Top(0).expects : Top(0).expects[i].path = <<>>
    /\ \E name \in Names : Push(Many(name, Top(0)), 1)

Combine ==
    /\ Len(ready) >= 2
    /\ \/ Push(ZipWith(Top(1), Top(0)), 2)
       \/ Push(All(<<Top(1), Top(0)>>), 2)
       \/ Push(Struct(<<Top(1), Top(0)>>), 2)
       \/ Push(OrElse(Top(1), Top(0)), 2)

Load ==
    /\ Len(ready) = 1 /\ result = NotRead
    /\ \E s \in Deployments(size) :
          /\ source' = s
          /\ result' = ReadFrom(s, ready[1])
    /\ UNCHANGED <<ready, size>>

Next == Describe \/ Forget \/ Refine \/ Group \/ List \/ Combine \/ Load

Spec == Init /\ [][Next]_vars
-----------------------------------------------------------------------------
(* Properties *)

Description == ready[1]
HasRead == result # NotRead

\* The constructors a description is made of.
RECURSIVE Ops(_)
Ops(d) ==
    {d.op} \cup
    CASE d.op \in {"zipWith", "all", "struct"} -> UNION {Ops(d.parts[i]) : i \in DOMAIN d.parts}
      [] d.op = "orElse" -> Ops(d.of) \cup Ops(d.that)
      [] d.op \in {"zero", "of"} -> {}
      [] OTHER -> Ops(d.of)

\* What befell each single value that reading d asks for, whatever is made of
\* it further up.
RECURSIVE Fates(_, _, _)
Fates(src, path, d) ==
    CASE d.op = "zero" -> {"invalid"}
      [] d.op = "of" ->
            LET answer == Value(src, under(path, d.name))
            IN  {IF answer.err THEN "unavailable"
                 ELSE IF ~answer.found THEN "missing"
                 ELSE IF d.reads = "text" \/ answer.text \in Good THEN "fine" ELSE "invalid"}
      [] d.op = "nested" -> Fates(src, under(path, d.name), d.of)
      [] d.op \in {"zipWith", "all", "struct"} ->
            UNION {Fates(src, path, d.parts[i]) : i \in DOMAIN d.parts}
      [] d.op = "table" ->
            LET here == under(path, d.name)
                children == Children(src, here)
            IN  IF children.err THEN {"unavailable"}
                ELSE UNION {Fates(src, under(here, child), d.of) : child \in ToSet(children.names)}
      [] d.op = "many" ->
            LET here == under(path, d.name)
                answer == Value(src, here)
            IN  IF answer.err THEN {"unavailable"}
                ELSE IF ~answer.found THEN {"missing"}
                ELSE UNION {Fates(one(<<answer.text[i]>>), here, d.of) : i \in DOMAIN answer.text}
      [] d.op = "orElse" -> Fates(src, path, d.of) \cup Fates(src, path, d.that)
      [] OTHER -> Fates(src, path, d.of)

\* A default, or an optional value's absence, stands in for values nobody
\* supplied and for nothing else: a read that succeeds met no value it refused
\* and no source it could not consult, however the description is composed.  An
\* alternative is the exception, which is what OrElse says.  In a chain of sources,
\* what stands behind one that cannot be consulted makes no difference at all.
StandInForAbsenceOnly ==
    HasRead =>
        /\ IsEmpty(result.failure) /\ "orElse" \notin Ops(Description)
              => Fates(source, <<>>, Description) \subseteq {"fine", "missing"}
        /\ source.kind = "fallback" =>
              \A i \in DOMAIN source.sources : source.sources[i] = Unreachable =>
                 result = ReadFrom(Sources(SubSeq(source.sources, 1, i)), Description)

\* What reading a description may look up: single values, and tables, whose
\* entries have names only the source knows; each with what may stand in for it if
\* it is absent.
AnyName == <<"any">>
Reading(path, kind) == [path |-> path, kind |-> kind, standIns |-> {}]
Below(prefix, readings) == {[r EXCEPT !.path = prefix \o @] : r \in readings}
StoodInBy(how, readings) == {[r EXCEPT !.standIns = @ \cup {how}] : r \in readings}

RECURSIVE Readings(_)
Readings(d) ==
    CASE d.op = "zero" -> {}
      [] d.op \in {"of", "many"} -> {Reading(pathOf(d.name), "value")}
      [] d.op = "nested" -> Below(pathOf(d.name), Readings(d.of))
      [] d.op = "table" ->
            {Reading(pathOf(d.name), "table")}
              \cup StoodInBy("no entry", Below(pathOf(d.name) \o <<AnyName>>, Readings(d.of)))
      [] d.op \in {"zipWith", "all", "struct"} -> UNION {Readings(d.parts[i]) : i \in DOMAIN d.parts}
      [] d.op = "withDefault" ->
            StoodInBy(IF d.renders THEN "default" ELSE "silent default", Readings(d.of))
      [] d.op = "optional" -> StoodInBy("absence", Readings(d.of))
      [] d.op = "orElse" ->
            StoodInBy("second choice", Readings(d.of)) \cup StoodInBy("first choice", Readings(d.that))
      [] OTHER -> Readings(d.of)

Tables == {r \in Readings(Description) : r.kind = "table"}

\* A path in an entry of a table of the description that one of these settings,
\* made for another part of it, has brought into being.
InNewEntry(path, settings) ==
    \E t \in Tables, q \in settings :
        LET n == Len(t.path)
        IN  /\ Len(path) > n /\ Len(q) > n /\ path[n + 1] = q[n + 1]
            /\ \A i \in 1..n : path[i] = q[i] /\ t.path[i] \in {path[i], AnyName}

\* Whoever supplies these settings has only new entries still to complete.
Suffices(src, settings) ==
    \A leaf \in ToSet(Failures(ReadFrom(src, Description).failure)) :
        leaf.kind = "missing" /\ InNewEntry(leaf.path, settings)

Good1 == CHOOSE text \in Good : text # Refused

Overridden(src, paths) == Sources(<<FromMap([p \in paths |-> Good1]), src>>)

\* A deployment goes round the loop once: it overrides everything the failure
\* names with a good value, and the next read succeeds.  What a transform refuses
\* can only be known when its operands were read, and a source that is down hides
\* what it has.  The one other thing that the next read may name is what is missing
\* in an entry of a table that the overriding has made, for a description that
\* reads a table and a setting beneath it; the comment on Load (document.go 113-115)
\* has a deployment "told the whole of what to set at once".  (Error.And keeps both
\* failures; ZipWith, All, Table and Many read on.)
OneRound ==
    LET leaves == ToSet(Failures(result.failure))
        named == {Render(leaf.path) : leaf \in leaves}
    IN  /\ HasRead /\ Ops(Description) \cap {"zero", "mapOrFail"} = {}
        /\ \A leaf \in leaves : leaf.kind # "unavailable"
        => Suffices(Overridden(source, named), named)

AsMap(paths) == FromMap([p \in {Render(q) : q \in paths} |-> Good1])
AsEnvironment(paths) == EnvironmentOf([k \in {environmentKey(p) : p \in paths} |-> Good1])

\* The document is enough: whoever sets what it prints as required and nothing else
\* can run the program, in a map or in the environment, once the entries that this
\* makes in tables are complete.  And it has exactly what neither a default that
\* prints nor an absence nor a second choice stands in for.  Whoever leaves out
\* one that nothing at all stands in for is told that it is missing.  But nobody
\* misses one that a default stands in for which prints as nothing, and that is
\* printed as required too, though the column "says what happens when nobody
\* supplies the value" (document.go 77-78; the expectations that each combinator
\* prints, expectationText).
DocumentExact ==
    LET required == Required(Description.expects)
        values == {r \in Readings(Description) : r.kind = "value"}
        At(p) == {r \in values : r.path = p}
        printed == {"default", "absence", "second choice", "no entry"}
        Without(p) == ToSet(Failures(ReadFrom(AsMap(required \ {p}), Description).failure))
    IN  Len(ready) = 1 /\ ~HasRead /\ "zero" \notin Ops(Description) =>
        /\ Suffices(AsMap(required), required)
        /\ <<>> \notin required => Suffices(AsEnvironment(required), required)
        /\ required = {r.path : r \in {v \in values : v.standIns \cap printed = {}}}
        /\ \A p \in required :
              /\ {} \in {r.standIns : r \in At(p)} => Missing(p) \in Without(p)
              /\ {r.standIns : r \in At(p)} = {{"silent default"}} => Missing(p) \notin Without(p)

\* It does not matter where a description is mounted: read beneath a name, it
\* yields what it yields read from the subtree at that name, and its failures are
\* those with the name in front.
MountedAnywhere ==
    HasRead /\ source # Nil /\ "zero" \notin Ops(Description) =>
        \A name \in Names :
           LET nested == ReadFrom(source, Nested(name, Description))
               mounted == ReadFrom(Beneath(source, <<name>>), Description)
           IN  nested = [mounted EXCEPT !.failure = Prefixed(@, <<name>>)]
=============================================================================
