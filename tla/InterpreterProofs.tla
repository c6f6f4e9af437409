------------------------- MODULE InterpreterProofs --------------------------
(***************************************************************************)
(* The interpreter gives back the ambient it was given and runs every exit *)
(* hook once, for any program: nothing below assumes anything about the    *)
(* instructions, not even that a program is finite.                        *)
(***************************************************************************)
EXTENDS Interpreter, TLAPS, SequenceTheorems

(***************************************************************************)
(* The frames that save a part of the ambient.  The oldest of them holds   *)
(* what the machine was given; without any, the part itself is that.       *)
(* Younger ones hold whatever was in place when they were pushed.          *)
(***************************************************************************)
Keepers(part) ==
    CASE part = "ctx" -> {"contextFrame", "callFrame"}
      [] part = "environment" -> {"environmentFrame", "callFrame"}
      [] part = "state" -> {"stateFrame", "callFrame"}

Parts == {"ctx", "environment", "state"}

Savers(fs, part) == {i \in DOMAIN fs : fs[i].op \in Keepers(part)}

Kept(fs, part, current, given) ==
    /\ Savers(fs, part) = {} => current = given
    /\ \A i \in Savers(fs, part) :
          (\A j \in Savers(fs, part) : i <= j) => fs[i][part] = given

IsStack(fs) == fs \in Seq(ToSet(fs))

HookFrames(fs) == {i \in DOMAIN fs : fs[i].op = "OnExit"}

\* The hooks entered are those that have run and those on the stack, each once.
HooksKept(fs, done, entered) ==
    /\ entered \in Nat
    /\ done \cup {fs[i].hook : i \in HookFrames(fs)} = 1..entered
    /\ \A i \in HookFrames(fs) : fs[i].hook \notin done
    /\ \A i, j \in HookFrames(fs) : fs[i].hook = fs[j].hook => i = j

AmbientKept ==
    /\ Kept(frames, "ctx", ctx, Given)
    /\ Kept(frames, "environment", environment, Unread)
    /\ Kept(frames, "state", state, Unread)

MachineInv ==
    /\ IsStack(frames)
    /\ phase = "done" => frames = <<>>
    /\ AmbientKept
    /\ HooksKept(frames, ran, hooks)
-----------------------------------------------------------------------------
(* What pushing and popping a frame does *)

LEMMA PushedStack ==
  ASSUME NEW fs, NEW f, IsStack(fs)
  PROVE  /\ IsStack(Append(fs, f))
         /\ Len(fs) \in Nat /\ DOMAIN fs = 1..Len(fs)
         /\ DOMAIN Append(fs, f) = 1..(Len(fs) + 1)
         /\ \A i \in 1..Len(fs) : Append(fs, f)[i] = fs[i]
         /\ Append(fs, f)[Len(fs) + 1] = f
<1> DEFINE S == ToSet(fs) \cup {f}
           gs == Append(fs, f)
<1>1. fs \in Seq(ToSet(fs)) /\ Len(fs) \in Nat /\ DOMAIN fs = 1..Len(fs)
  BY DEF IsStack
<1>2. fs \in Seq(S)
  <2>1. \A i \in 1..Len(fs) : fs[i] \in S
    BY <1>1
  <2> QED BY <1>1, <2>1, SeqDef
<1>3. gs \in Seq(S) /\ Len(gs) = Len(fs) + 1
      /\ (\A i \in 1..Len(fs) : gs[i] = fs[i]) /\ gs[Len(fs) + 1] = f
  BY <1>2, AppendProperties
<1>4. DOMAIN gs = 1..(Len(fs) + 1)
  BY <1>3
<1>5. IsStack(gs)
  <2>1. \A i \in 1..Len(gs) : gs[i] \in ToSet(gs)
    BY <1>3, <1>4 DEF ToSet
  <2> QED BY <1>3, <2>1, SeqDef DEF IsStack
<1> QED BY <1>1, <1>3, <1>4, <1>5

LEMMA PoppedStack ==
  ASSUME NEW fs, IsStack(fs), fs # <<>>
  PROVE  LET gs == SubSeq(fs, 1, Len(fs) - 1)
         IN  /\ IsStack(gs)
             /\ Len(fs) \in Nat /\ Len(fs) > 0 /\ DOMAIN fs = 1..Len(fs)
             /\ Len(gs) = Len(fs) - 1 /\ DOMAIN gs = 1..(Len(fs) - 1)
             /\ \A i \in 1..(Len(fs) - 1) : gs[i] = fs[i]
<1> DEFINE S == ToSet(fs)
           gs == SubSeq(fs, 1, Len(fs) - 1)
<1>1. fs \in Seq(S) /\ Len(fs) \in Nat /\ DOMAIN fs = 1..Len(fs) /\ Len(fs) > 0
  BY EmptySeq DEF IsStack
<1>2. gs \in Seq(S) /\ Len(gs) = Len(fs) - 1 /\ \A i \in 1..(Len(fs) - 1) : gs[i] = fs[i]
  BY <1>1, SubSeqProperties
<1>3. DOMAIN gs = 1..(Len(fs) - 1)
  BY <1>1, <1>2
<1>4. IsStack(gs)
  <2>1. \A i \in 1..Len(gs) : gs[i] \in ToSet(gs)
    BY <1>2, <1>3 DEF ToSet
  <2> QED BY <1>2, <2>1, SeqDef DEF IsStack
<1> QED BY <1>1, <1>2, <1>3, <1>4

\* A frame that does not save the part leaves it alone.
LEMMA PushOther ==
  ASSUME NEW fs, NEW f, NEW part, NEW current, NEW given, IsStack(fs),
         Kept(fs, part, current, given), f.op \notin Keepers(part)
  PROVE  Kept(Append(fs, f), part, current, given)
<1>1. Savers(Append(fs, f), part) = Savers(fs, part)
  BY PushedStack DEF Savers
<1>2. \A i \in Savers(fs, part) : Append(fs, f)[i] = fs[i]
  BY PushedStack DEF Savers
<1> QED BY <1>1, <1>2 DEF Kept

\* A frame that saves the part as it is lets it be changed.
LEMMA PushKeeper ==
  ASSUME NEW fs, NEW f, NEW part, NEW current, NEW next, NEW given, IsStack(fs),
         Kept(fs, part, current, given), f.op \in Keepers(part), f[part] = current
  PROVE  Kept(Append(fs, f), part, next, given)
<1> DEFINE n == Len(fs) + 1
           gs == Append(fs, f)
<1>1. Savers(gs, part) = Savers(fs, part) \cup {n}
  BY PushedStack DEF Savers
<1>2. n \in Int /\ gs[n] = f /\ \A i \in Savers(fs, part) : i \in Int /\ i < n /\ gs[i] = fs[i]
  BY PushedStack DEF Savers
<1>3. ASSUME NEW i \in Savers(gs, part), \A j \in Savers(gs, part) : i <= j
      PROVE  gs[i][part] = given
  <2>1. CASE i \in Savers(fs, part)
    BY <1>1, <1>2, <1>3, <2>1 DEF Kept
  <2>2. CASE i = n
    <3>1. ASSUME NEW j \in Savers(fs, part) PROVE FALSE
      <4>1. n <= j
        BY <1>1, <1>3, <2>2
      <4>2. n \in Int /\ j \in Int /\ j < n
        BY <1>2
      <4> HIDE DEF n
      <4> QED BY <4>1, <4>2
    <3> QED BY <1>2, <2>2, <3>1 DEF Kept
  <2> QED BY <1>1, <2>1, <2>2
<1> QED BY <1>1, <1>3 DEF Kept

LEMMA PopOther ==
  ASSUME NEW fs, NEW part, NEW current, NEW given, IsStack(fs), fs # <<>>,
         Kept(fs, part, current, given), fs[Len(fs)].op \notin Keepers(part)
  PROVE  Kept(SubSeq(fs, 1, Len(fs) - 1), part, current, given)
<1> DEFINE gs == SubSeq(fs, 1, Len(fs) - 1)
<1>1. Savers(gs, part) = Savers(fs, part)
  BY PoppedStack DEF Savers
<1>2. \A i \in Savers(gs, part) : gs[i] = fs[i]
  BY PoppedStack DEF Savers
<1> QED BY <1>1, <1>2 DEF Kept

LEMMA PopKeeper ==
  ASSUME NEW fs, NEW part, NEW current, NEW given, IsStack(fs), fs # <<>>,
         Kept(fs, part, current, given), fs[Len(fs)].op \in Keepers(part)
  PROVE  Kept(SubSeq(fs, 1, Len(fs) - 1), part, fs[Len(fs)][part], given)
<1> DEFINE n == Len(fs)
           gs == SubSeq(fs, 1, n - 1)
<1>1. Savers(fs, part) = Savers(gs, part) \cup {n}
  BY PoppedStack DEF Savers
<1>2. n \in Int /\ \A i \in Savers(gs, part) : i \in Int /\ i < n /\ gs[i] = fs[i]
  BY PoppedStack DEF Savers
<1>3. ASSUME Savers(gs, part) = {}
      PROVE  fs[n][part] = given
  BY <1>1, <1>2, <1>3 DEF Kept
<1>4. ASSUME NEW i \in Savers(gs, part), \A j \in Savers(gs, part) : i <= j
      PROVE  gs[i][part] = given
  <2>1. \A j \in Savers(fs, part) : i <= j
    BY <1>1, <1>2, <1>4
  <2> QED BY <1>1, <1>2, <1>4, <2>1 DEF Kept
<1> QED BY <1>3, <1>4 DEF Kept

\* The same for the hooks: a frame of another kind leaves them alone, a new hook
\* gets the next number, and one that leaves the stack has run.
LEMMA PushNoHook ==
  ASSUME NEW fs, NEW f, NEW done, NEW entered, IsStack(fs),
         HooksKept(fs, done, entered), f.op # "OnExit"
  PROVE  HooksKept(Append(fs, f), done, entered)
<1>1. HookFrames(Append(fs, f)) = HookFrames(fs)
  BY PushedStack DEF HookFrames
<1>2. \A i \in HookFrames(fs) : Append(fs, f)[i] = fs[i]
  BY PushedStack DEF HookFrames
<1> DEFINE gs == Append(fs, f)
<1> HIDE DEF gs
<1>3. {gs[i].hook : i \in HookFrames(gs)} = {fs[i].hook : i \in HookFrames(fs)}
  BY <1>1, <1>2, Zenon DEF gs
<1>4. HooksKept(gs, done, entered)
  BY <1>1, <1>2, <1>3 DEF HooksKept, gs
<1> QED BY <1>4 DEF gs

LEMMA PushHook ==
  ASSUME NEW fs, NEW f, NEW done, NEW entered, IsStack(fs),
         HooksKept(fs, done, entered), f.op = "OnExit", f.hook = entered + 1
  PROVE  HooksKept(Append(fs, f), done, entered + 1)
<1> DEFINE n == Len(fs) + 1
           gs == Append(fs, f)
           ids(s) == {s[i].hook : i \in HookFrames(s)}
<1>1. HookFrames(gs) = HookFrames(fs) \cup {n}
  BY PushedStack DEF HookFrames
<1>2. gs[n] = f /\ n \notin HookFrames(fs) /\ \A i \in HookFrames(fs) : gs[i] = fs[i]
  <2>1. gs[n] = f /\ n \notin DOMAIN fs /\ \A i \in DOMAIN fs : gs[i] = fs[i]
    BY PushedStack
  <2> QED BY <2>1 DEF HookFrames
<1>3. ids(gs) = ids(fs) \cup {entered + 1}
  <2> HIDE DEF n, gs
  <2> QED BY <1>1, <1>2
<1>4. entered \in Nat /\ done \cup ids(fs) = 1..entered
  BY DEF HooksKept
<1>5. 1..(entered + 1) = 1..entered \cup {entered + 1} /\ entered + 1 \notin 1..entered
  BY <1>4
<1>6. done \cup ids(gs) = 1..(entered + 1)
  <2> HIDE DEF ids
  <2> QED BY <1>3, <1>4, <1>5
<1>7. entered + 1 \notin done /\ \A i \in HookFrames(fs) : fs[i].hook # entered + 1
  BY <1>4, <1>5
<1>8. \A i \in HookFrames(gs) : gs[i].hook \notin done
  BY <1>1, <1>2, <1>7 DEF HooksKept
<1>9. \A i, j \in HookFrames(gs) : gs[i].hook = gs[j].hook => i = j
  BY <1>1, <1>2, <1>7 DEF HooksKept
<1>10. HooksKept(gs, done, entered + 1)
  <2> HIDE DEF gs
  <2> QED BY <1>4, <1>6, <1>8, <1>9 DEF HooksKept
<1> QED BY <1>10

LEMMA PopNoHook ==
  ASSUME NEW fs, NEW done, NEW entered, IsStack(fs), fs # <<>>,
         HooksKept(fs, done, entered), fs[Len(fs)].op # "OnExit"
  PROVE  HooksKept(SubSeq(fs, 1, Len(fs) - 1), done, entered)
<1> DEFINE gs == SubSeq(fs, 1, Len(fs) - 1)
<1>1. HookFrames(gs) = HookFrames(fs)
  BY PoppedStack DEF HookFrames
<1>2. \A i \in HookFrames(gs) : gs[i] = fs[i]
  BY PoppedStack DEF HookFrames
<1> HIDE DEF gs
<1>3. {gs[i].hook : i \in HookFrames(gs)} = {fs[i].hook : i \in HookFrames(fs)}
  BY <1>1, <1>2, Zenon
<1>4. HooksKept(gs, done, entered)
  BY <1>1, <1>2, <1>3 DEF HooksKept
<1> QED BY <1>4 DEF gs

LEMMA PopHook ==
  ASSUME NEW fs, NEW done, NEW entered, IsStack(fs), fs # <<>>,
         HooksKept(fs, done, entered), fs[Len(fs)].op = "OnExit"
  PROVE  HooksKept(SubSeq(fs, 1, Len(fs) - 1), done \cup {fs[Len(fs)].hook}, entered)
<1> DEFINE n == Len(fs)
           gs == SubSeq(fs, 1, n - 1)
<1>1. HookFrames(fs) = HookFrames(gs) \cup {n}
  BY PoppedStack DEF HookFrames
<1>2. n \notin HookFrames(gs) /\ \A i \in HookFrames(gs) : gs[i] = fs[i]
  BY PoppedStack DEF HookFrames
<1> HIDE DEF n, gs
<1>3. {fs[i].hook : i \in HookFrames(fs)} = {gs[i].hook : i \in HookFrames(gs)} \cup {fs[n].hook}
  BY <1>1, <1>2
<1>4. \A i \in HookFrames(gs) : gs[i].hook # fs[n].hook
  BY <1>1, <1>2 DEF HooksKept
<1>5. HooksKept(gs, done \cup {fs[n].hook}, entered)
  BY <1>1, <1>2, <1>3, <1>4 DEF HooksKept
<1> QED BY <1>5 DEF n, gs
-----------------------------------------------------------------------------
(* The invariant *)

\* Which parts a kind of frame saves.
LEMMA KeeperKinds ==
  /\ Keepers("ctx") = {"contextFrame", "callFrame"}
  /\ Keepers("environment") = {"environmentFrame", "callFrame"}
  /\ Keepers("state") = {"stateFrame", "callFrame"}
BY DEF Keepers

LEMMA InitMachine == Init => MachineInv
<1> SUFFICES ASSUME Init PROVE MachineInv
  OBVIOUS
<1>1. frames = <<>> /\ IsStack(frames) /\ DOMAIN frames = {}
  BY DEF Init, IsStack, ToSet
<1>2. AmbientKept
  BY <1>1 DEF Init, AmbientKept, Kept, Savers
<1>3. HooksKept(frames, ran, hooks)
  <2>1. HookFrames(frames) = {} /\ ran = {} /\ hooks = 0 /\ 1..0 = {}
    BY <1>1 DEF Init, HookFrames
  <2> QED BY <2>1 DEF HooksKept
<1> QED BY <1>1, <1>2, <1>3 DEF Init, MachineInv

\* A step that leaves the stack alone leaves the ambient and the hooks alone.
LEMMA StackLeft ==
  ASSUME MachineInv, UNCHANGED <<ambient, frames, hooks, ran>>, phase' = "done" => frames = <<>>
  PROVE  MachineInv'
BY DEF MachineInv, AmbientKept, ambient

\* A step that pushes a frame which saves nothing.
LEMMA PlainPush ==
  ASSUME MachineInv, NEW f, frames' = Append(frames, f), UNCHANGED ambient, phase' # "done",
         f.op \notin {"contextFrame", "environmentFrame", "stateFrame", "callFrame"},
         HooksKept(frames', ran', hooks')
  PROVE  MachineInv'
<1>1. IsStack(frames')
  BY PushedStack DEF MachineInv
<1>2. /\ Kept(frames', "ctx", ctx, Given)
      /\ Kept(frames', "environment", environment, Unread)
      /\ Kept(frames', "state", state, Unread)
  BY PushOther, KeeperKinds DEF MachineInv, AmbientKept
<1> QED BY <1>1, <1>2 DEF MachineInv, AmbientKept, ambient

\* A step that takes a frame off which saved nothing.
LEMMA PlainPop ==
  ASSUME MachineInv, frames # <<>>, pop, UNCHANGED ambient, phase' # "done",
         top.op \notin {"contextFrame", "environmentFrame", "stateFrame", "callFrame"},
         HooksKept(frames', ran', hooks')
  PROVE  MachineInv'
<1>1. IsStack(frames')
  BY PoppedStack DEF MachineInv, pop
<1>2. /\ Kept(frames', "ctx", ctx, Given)
      /\ Kept(frames', "environment", environment, Unread)
      /\ Kept(frames', "state", state, Unread)
  BY PopOther, KeeperKinds DEF MachineInv, AmbientKept, pop, top
<1> QED BY <1>1, <1>2 DEF MachineInv, AmbientKept, ambient

LEMMA EvaluateKeeps == MachineInv /\ Evaluate => MachineInv'
<1> SUFFICES ASSUME MachineInv, Evaluate PROVE MachineInv'
  OBVIOUS
<1>1. CASE EvaluateComposition
  <2> DEFINE f == [op |-> node.op, node |-> node]
  <2>1. frames' = Append(frames, f) /\ UNCHANGED <<ambient, hooks, ran>> /\ phase' = "evaluate"
    BY <1>1 DEF EvaluateComposition, push, EvaluateNext, history
  <2>2. f.op \in {"Transform", "Bind", "TransformCause", "Recover"}
    BY <1>1 DEF EvaluateComposition, Evaluating
  <2>3. HooksKept(frames', ran', hooks')
    BY <2>1, <2>2, PushNoHook DEF MachineInv
  <2> HIDE DEF f
  <2> QED BY <2>1, <2>2, <2>3, PlainPush
<1>2. CASE EvaluateOnExit
  <2> DEFINE f == [op |-> "OnExit", node |-> node, hook |-> hooks + 1]
  <2>1. frames' = Append(frames, f) /\ UNCHANGED <<ambient, ran>> /\ hooks' = hooks + 1
        /\ phase' = "evaluate" /\ f.op = "OnExit" /\ f.hook = hooks + 1
    BY <1>2 DEF EvaluateOnExit, push, EvaluateNext
  <2> HIDE DEF f
  <2>2. HooksKept(frames', ran', hooks')
    BY <2>1, PushHook DEF MachineInv
  <2> QED BY <2>1, <2>2, PlainPush
<1>3. CASE EvaluateWithEnvironment
  <2> DEFINE f == [op |-> "environmentFrame", environment |-> environment]
  <2>1. frames' = Append(frames, f) /\ UNCHANGED <<ctx, state, hooks, ran>> /\ phase' # "done"
        /\ f.op = "environmentFrame" /\ f["environment"] = environment
    BY <1>3 DEF EvaluateWithEnvironment, push, EvaluateNext, ResumeWith, history
  <2> HIDE DEF f
  <2>2. IsStack(frames') /\ HooksKept(frames', ran', hooks')
    BY <2>1, PushedStack, PushNoHook DEF MachineInv
  <2>3. Kept(frames', "ctx", ctx, Given) /\ Kept(frames', "state", state, Unread)
    BY <2>1, PushOther, KeeperKinds DEF MachineInv, AmbientKept
  <2>4. Kept(frames', "environment", environment', Unread)
    BY <2>1, PushKeeper, KeeperKinds DEF MachineInv, AmbientKept
  <2> QED BY <2>1, <2>2, <2>3, <2>4 DEF MachineInv, AmbientKept
<1>4. CASE EvaluateWithContext
  <2> DEFINE f == [op |-> "contextFrame", ctx |-> ctx]
  <2>1. frames' = Append(frames, f) /\ UNCHANGED <<environment, state, hooks, ran>> /\ phase' # "done"
        /\ f.op = "contextFrame" /\ f["ctx"] = ctx
    BY <1>4 DEF EvaluateWithContext, push, EvaluateNext, ResumeWith, history
  <2> HIDE DEF f
  <2>2. IsStack(frames') /\ HooksKept(frames', ran', hooks')
    BY <2>1, PushedStack, PushNoHook DEF MachineInv
  <2>3. Kept(frames', "environment", environment, Unread) /\ Kept(frames', "state", state, Unread)
    BY <2>1, PushOther, KeeperKinds DEF MachineInv, AmbientKept
  <2>4. Kept(frames', "ctx", ctx', Given)
    BY <2>1, PushKeeper, KeeperKinds DEF MachineInv, AmbientKept
  <2> QED BY <2>1, <2>2, <2>3, <2>4 DEF MachineInv, AmbientKept
<1>5. CASE EvaluateWithState
  <2> DEFINE f == [op |-> "stateFrame", state |-> state]
  <2>1. frames' = Append(frames, f) /\ UNCHANGED <<ctx, environment, hooks, ran>> /\ phase' # "done"
        /\ f.op = "stateFrame" /\ f["state"] = state
    BY <1>5 DEF EvaluateWithState, push, EvaluateNext, ResumeWith, history
  <2> HIDE DEF f
  <2>2. IsStack(frames') /\ HooksKept(frames', ran', hooks')
    BY <2>1, PushedStack, PushNoHook DEF MachineInv
  <2>3. Kept(frames', "ctx", ctx, Given) /\ Kept(frames', "environment", environment, Unread)
    BY <2>1, PushOther, KeeperKinds DEF MachineInv, AmbientKept
  <2>4. Kept(frames', "state", state', Unread)
    BY <2>1, PushKeeper, KeeperKinds DEF MachineInv, AmbientKept
  <2> QED BY <2>1, <2>2, <2>3, <2>4 DEF MachineInv, AmbientKept
<1>6. CASE EvaluateSuspend
  BY <1>6, StackLeft DEF EvaluateSuspend, EvaluateNext, ResumeWith, history
<1>7. CASE Settle
  BY <1>7, StackLeft DEF Settle, ResumeWith
<1> QED BY <1>1, <1>2, <1>3, <1>4, <1>5, <1>6, <1>7 DEF Evaluate

\* The four continuations that only replace the exit or the next instruction.
LEMMA PlainResumeKeeps ==
  ASSUME MachineInv, pop, UNCHANGED <<ambient, hooks, ran>>, phase' # "done",
         Resuming({"Transform", "TransformCause", "Bind", "Recover"})
  PROVE  MachineInv'
<1>1. frames # <<>> /\ top.op \in {"Transform", "TransformCause", "Bind", "Recover"}
  BY DEF Resuming
<1>2. HooksKept(frames', ran', hooks')
  BY <1>1, PopNoHook DEF MachineInv, pop, top
<1> QED BY <1>1, <1>2, PlainPop

Replaced(fs, f) == [fs EXCEPT ![Len(fs)] = f]

\* Replacing the youngest frame is a pop and a push.
LEMMA ReplacedTop ==
  ASSUME NEW fs, NEW f, IsStack(fs), fs # <<>>
  PROVE  /\ IsStack(SubSeq(fs, 1, Len(fs) - 1))
         /\ Replaced(fs, f) = Append(SubSeq(fs, 1, Len(fs) - 1), f)
<1> DEFINE gs == SubSeq(fs, 1, Len(fs) - 1)
           hs == Append(gs, f)
           rs == Replaced(fs, f)
<1>1. /\ IsStack(gs) /\ Len(fs) \in Nat /\ Len(fs) > 0 /\ DOMAIN fs = 1..Len(fs)
      /\ Len(gs) = Len(fs) - 1
      /\ \A i \in 1..(Len(fs) - 1) : gs[i] = fs[i]
  BY PoppedStack
<1> HIDE DEF gs
<1>2. IsStack(hs) /\ DOMAIN hs = 1..(Len(gs) + 1) /\ hs[Len(gs) + 1] = f
      /\ \A i \in 1..Len(gs) : hs[i] = gs[i]
  <2>1. IsStack(gs)
    BY <1>1
  <2> QED BY <2>1, PushedStack
<1> HIDE DEF hs
<1>3. DOMAIN hs = 1..Len(fs) /\ hs[Len(fs)] = f /\ \A i \in 1..(Len(fs) - 1) : hs[i] = fs[i]
  BY <1>1, <1>2
<1>4. DOMAIN rs = 1..Len(fs) /\ \A i \in 1..Len(fs) : rs[i] = IF i = Len(fs) THEN f ELSE fs[i]
  BY <1>1 DEF Replaced
<1>5. hs = [i \in DOMAIN hs |-> hs[i]]
  BY <1>2 DEF IsStack
<1>6. rs = [i \in DOMAIN rs |-> rs[i]]
  BY DEF Replaced
<1> HIDE DEF rs
<1>7. \A i \in 1..Len(fs) : rs[i] = hs[i]
  <2> SUFFICES ASSUME NEW i \in 1..Len(fs) PROVE rs[i] = hs[i]
    OBVIOUS
  <2>1. i # Len(fs) => i \in 1..(Len(fs) - 1)
    <3> DEFINE n == Len(fs)
    <3>1. n \in Nat /\ i \in 1..n
      BY <1>1
    <3> HIDE DEF n
    <3>2. i # n => i \in 1..(n - 1)
      BY ONLY <3>1
    <3> QED BY <3>2 DEF n
  <2> QED BY <2>1, <1>3, <1>4
<1>8. rs = hs
  BY <1>3, <1>4, <1>5, <1>6, <1>7
<1> QED BY <1>1, <1>8 DEF gs, hs, rs

LEMMA ReplaceByKeeper ==
  ASSUME NEW fs, NEW f, NEW part, NEW current, NEW next, NEW given, IsStack(fs), fs # <<>>,
         Kept(fs, part, current, given), fs[Len(fs)].op \notin Keepers(part),
         f.op \in Keepers(part), f[part] = current
  PROVE  Kept(Replaced(fs, f), part, next, given)
<1> DEFINE gs == SubSeq(fs, 1, Len(fs) - 1)
<1>1. Kept(gs, part, current, given) /\ IsStack(gs)
  BY PopOther, ReplacedTop
<1>2. Replaced(fs, f) = Append(gs, f)
  BY ReplacedTop
<1> HIDE DEF gs
<1> QED BY <1>1, <1>2, PushKeeper

LEMMA ReplaceHook ==
  ASSUME NEW fs, NEW f, NEW done, NEW entered, IsStack(fs), fs # <<>>,
         HooksKept(fs, done, entered), fs[Len(fs)].op = "OnExit", f.op # "OnExit"
  PROVE  /\ HooksKept(Replaced(fs, f), done \cup {fs[Len(fs)].hook}, entered)
         /\ IsStack(Replaced(fs, f))
<1> DEFINE gs == SubSeq(fs, 1, Len(fs) - 1)
<1>1. HooksKept(gs, done \cup {fs[Len(fs)].hook}, entered) /\ IsStack(gs)
  BY PopHook, ReplacedTop
<1>2. Replaced(fs, f) = Append(gs, f)
  BY ReplacedTop
<1> HIDE DEF gs
<1> QED BY <1>1, <1>2, PushNoHook, PushedStack

\* A hook that runs a finalizer takes the hook's frame off and puts the frame
\* of the call on, which saves all three parts.
LEMMA FinalizeKeeps ==
  ASSUME MachineInv, Resuming({"OnExit"}), phase' # "done", UNCHANGED <<environment, state, hooks>>,
         ran' = ran \cup {top.hook},
         frames' = [frames EXCEPT ![Len(frames)] =
                       [op |-> "callFrame", exit |-> exit, ctx |-> ctx,
                        environment |-> environment, state |-> state]]
  PROVE  MachineInv'
<1> DEFINE f == [op |-> "callFrame", exit |-> exit, ctx |-> ctx,
                 environment |-> environment, state |-> state]
<1>1. frames # <<>> /\ IsStack(frames) /\ frames[Len(frames)].op = "OnExit"
  BY DEF Resuming, MachineInv, top
<1>2. f.op = "callFrame" /\ f["ctx"] = ctx /\ f["environment"] = environment /\ f["state"] = state
  OBVIOUS
<1>3. frames' = Replaced(frames, f)
  BY DEF Replaced
<1> HIDE DEF f
<1>4. IsStack(frames') /\ HooksKept(frames', ran', hooks')
  BY ONLY MachineInv, ran' = ran \cup {top.hook}, hooks' = hooks, <1>1, <1>2, <1>3, ReplaceHook
  DEF MachineInv, top
<1>5. Kept(frames', "ctx", ctx', Given)
  BY ONLY MachineInv, <1>1, <1>2, <1>3, ReplaceByKeeper, KeeperKinds DEF MachineInv, AmbientKept
<1>6. Kept(frames', "environment", environment', Unread)
  BY ONLY MachineInv, <1>1, <1>2, <1>3, ReplaceByKeeper, KeeperKinds DEF MachineInv, AmbientKept
<1>7. Kept(frames', "state", state', Unread)
  BY ONLY MachineInv, <1>1, <1>2, <1>3, ReplaceByKeeper, KeeperKinds DEF MachineInv, AmbientKept
<1> QED BY <1>4, <1>5, <1>6, <1>7 DEF MachineInv, AmbientKept

LEMMA ResumeKeeps == MachineInv /\ Resume => MachineInv'
<1> SUFFICES ASSUME MachineInv, Resume PROVE MachineInv'
  OBVIOUS
<1>1. CASE ResumeRestoring
  <2>1. frames # <<>> /\ pop /\ phase' = "resume" /\ UNCHANGED <<hooks, ran>> /\ IsStack(frames)
        /\ top.op \in {"environmentFrame", "contextFrame", "stateFrame"}
    BY <1>1 DEF ResumeRestoring, Resuming, history, MachineInv
  <2>2. IsStack(frames') /\ HooksKept(frames', ran', hooks')
    BY <2>1, PoppedStack, PopNoHook DEF MachineInv, pop, top
  <2>3. Kept(frames', "ctx", ctx', Given)
    <3>1. CASE top.op = "contextFrame"
      BY <1>1, <2>1, <3>1, PopKeeper, KeeperKinds DEF ResumeRestoring, MachineInv, AmbientKept, pop, top
    <3>2. CASE top.op # "contextFrame"
      BY <1>1, <2>1, <3>2, PopOther, KeeperKinds DEF ResumeRestoring, MachineInv, AmbientKept, pop, top
    <3> QED BY <3>1, <3>2
  <2>4. Kept(frames', "environment", environment', Unread)
    <3>1. CASE top.op = "environmentFrame"
      BY <1>1, <2>1, <3>1, PopKeeper, KeeperKinds DEF ResumeRestoring, MachineInv, AmbientKept, pop, top
    <3>2. CASE top.op # "environmentFrame"
      BY <1>1, <2>1, <3>2, PopOther, KeeperKinds DEF ResumeRestoring, MachineInv, AmbientKept, pop, top
    <3> QED BY <3>1, <3>2
  <2>5. Kept(frames', "state", state', Unread)
    <3>1. CASE top.op = "stateFrame"
      BY <1>1, <2>1, <3>1, PopKeeper, KeeperKinds DEF ResumeRestoring, MachineInv, AmbientKept, pop, top
    <3>2. CASE top.op # "stateFrame"
      BY <1>1, <2>1, <3>2, PopOther, KeeperKinds DEF ResumeRestoring, MachineInv, AmbientKept, pop, top
    <3> QED BY <3>1, <3>2
  <2> QED BY <2>1, <2>2, <2>3, <2>4, <2>5 DEF MachineInv, AmbientKept
<1>2. CASE ResumeTransform
  BY <1>2, PlainResumeKeeps DEF ResumeTransform, Resuming, ResumeWith, history
<1>3. CASE ResumeTransformCause
  BY <1>3, PlainResumeKeeps DEF ResumeTransformCause, Resuming, ResumeWith, history
<1>4. CASE ResumeBind
  BY <1>4, PlainResumeKeeps DEF ResumeBind, Resuming, ResumeWith, EvaluateNext, history
<1>5. CASE ResumeRecover
  BY <1>5, PlainResumeKeeps DEF ResumeRecover, Resuming, ResumeWith, EvaluateNext, history
<1>6. CASE ResumeHook
  <2>1. CASE top.node.observe.kind = "finalize"
    BY <1>6, <2>1, FinalizeKeeps DEF ResumeHook, RunHook, EvaluateNext
  <2>2. CASE top.node.observe.kind # "finalize"
    <3>1. frames # <<>> /\ pop /\ top.op = "OnExit" /\ UNCHANGED ambient /\ phase' = "resume"
          /\ ran' = ran \cup {top.hook} /\ hooks' = hooks
      BY <1>6, <2>2 DEF ResumeHook, RunHook, Resuming, ResumeWith, ambient
    <3>2. HooksKept(frames', ran', hooks')
      BY <3>1, PopHook DEF MachineInv, pop, top
    <3> QED BY <3>1, <3>2, PlainPop
  <2> QED BY <2>1, <2>2
<1>7. CASE ResumeCall
  <2>1. frames # <<>> /\ pop /\ top.op = "callFrame" /\ phase' = "resume" /\ UNCHANGED <<hooks, ran>>
        /\ IsStack(frames)
        /\ ctx' = top["ctx"] /\ environment' = top["environment"] /\ state' = top["state"]
    BY <1>7 DEF ResumeCall, Resuming, ResumeWith, history, MachineInv
  <2>2. IsStack(frames') /\ HooksKept(frames', ran', hooks')
    BY <2>1, PoppedStack, PopNoHook DEF MachineInv, pop, top
  <2>3. Kept(frames', "ctx", ctx', Given)
    BY <2>1, PopKeeper, KeeperKinds DEF MachineInv, AmbientKept, pop, top
  <2>4. Kept(frames', "environment", environment', Unread)
    BY <2>1, PopKeeper, KeeperKinds DEF MachineInv, AmbientKept, pop, top
  <2>5. Kept(frames', "state", state', Unread)
    BY <2>1, PopKeeper, KeeperKinds DEF MachineInv, AmbientKept, pop, top
  <2> QED BY <2>1, <2>2, <2>3, <2>4, <2>5 DEF MachineInv, AmbientKept
<1>8. CASE Finish
  BY <1>8, StackLeft DEF Finish, history
<1> QED BY <1>1, <1>2, <1>3, <1>4, <1>5, <1>6, <1>7, <1>8 DEF Resume

LEMMA MachineHolds == Spec => []MachineInv
<1>1. MachineInv /\ [Next]_vars => MachineInv'
  <2> SUFFICES ASSUME MachineInv, [Next]_vars PROVE MachineInv'
    OBVIOUS
  <2>1. CASE Evaluate
    BY <2>1, EvaluateKeeps
  <2>2. CASE Resume
    BY <2>2, ResumeKeeps
  <2>3. CASE Cancel
    BY <2>3, StackLeft DEF Cancel, history, MachineInv
  <2>4. CASE UNCHANGED vars
    BY <2>4, StackLeft DEF vars, history, MachineInv
  <2> QED BY <2>1, <2>2, <2>3, <2>4 DEF Next
<1> QED BY <1>1, InitMachine, PTL DEF Spec
-----------------------------------------------------------------------------
\* Whatever the program, and whenever its context is cancelled, a machine that
\* has come to its end has the context, environment and state it was given: the
\* oldest frame that saves a part holds what was given, and no frame is left.
THEOREM InterpreterAmbientRestored == Spec => []AmbientRestored
<1>1. MachineInv => AmbientRestored
  <2> SUFFICES ASSUME MachineInv, phase = "done"
               PROVE  ctx = Given /\ environment = Unread /\ state = Unread
    BY DEF AmbientRestored
  <2>1. DOMAIN frames = {}
    BY DEF MachineInv
  <2> QED BY <2>1 DEF MachineInv, AmbientKept, Kept, Savers
<1> QED BY <1>1, MachineHolds, PTL

\* Whatever the program, an exit hook that was entered runs exactly once: each
\* has its own number, which is on the stack or among those that have run and
\* never both, and the stack is empty at the end.
THEOREM InterpreterHooksRun == Spec => []HooksRun
<1>1. MachineInv => HooksRun
  <2> SUFFICES ASSUME MachineInv PROVE HooksRun
    OBVIOUS
  <2>1. ASSUME phase = "done" PROVE ran = 1..hooks
    <3>1. HookFrames(frames) = {}
      BY <2>1 DEF MachineInv, HookFrames
    <3> QED BY <3>1 DEF MachineInv, HooksKept
  <2>2. \A i \in DOMAIN frames : frames[i].op = "OnExit" => frames[i].hook \notin ran
    BY DEF MachineInv, HooksKept, HookFrames
  <2> QED BY <2>1, <2>2 DEF HooksRun
<1> QED BY <1>1, MachineHolds, PTL
=============================================================================
