--------------------------- MODULE MCInterpreter ----------------------------
(***************************************************************************)
(* Interpreter, and its reference semantics, on all programs of two levels *)
(* of combinators over a few leaves.                                       *)
(***************************************************************************)
EXTENDS Semantics

Leaves == {Succeed(<<"a">>), Eval("environment"), Eval("failure"), Eval("panic")}
Finalizers == {Succeed(<<>>), Eval("panic")}

Unary(fx) ==
    {Map(fx, "m"), As(fx, <<"b">>), MapError(fx), OrDie(fx), ContramapEnv(fx, "env"),
     WithName(fx, "name"), ExitOf(fx), WithSpan(fx, "span"), WithContext(fx, To("scope")),
     Transform(fx, Panic), TransformCause(fx, Panic), WithEnvironment(fx, Panic),
     WithState(fx, Panic), WithContext(fx, Panic), Bind(fx, Panic), Recover(fx, Panic),
     OnExit(fx, Panic)}
      \cup {Ensuring(fx, f) : f \in Finalizers}
      \cup {Scoped(Go(fx), "scope", "scoped", f) : f \in Finalizers}

Binary(fx, that) ==
    {AndThen(fx, that), Zipped(fx, that), Tap(fx, that), CatchCause(fx, that), CatchAll(fx, that)}

Shallow ==
    Leaves \cup UNION {Unary(fx) : fx \in Leaves}
           \cup UNION {Binary(fx, that) : fx, that \in Leaves}

Deep ==
    {Suspend(Panic), Scoped(Panic, "scope", "scoped", Succeed(<<>>))}
      \cup UNION {Unary(fx) : fx \in Shallow}
      \cup UNION {Binary(fx, that) : fx \in Shallow, that \in Leaves}
      \cup UNION {Binary(fx, that) : fx \in Leaves, that \in Shallow}
      \cup {ZipChannels(fx, that, "first", "second") : fx, that \in Leaves}
      \cup {Ensuring(fx, that) : fx \in Leaves, that \in Shallow}
=============================================================================
