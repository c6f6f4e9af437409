----------------------------- MODULE PairProofs -----------------------------
(***************************************************************************)
(* Proofs about Pair: for any set of compositions and any reason the       *)
(* caller may be cancelled with.                                           *)
(***************************************************************************)
EXTENDS Pair, SequenceLemmas, TLAPS

\* What the runner knows.  A side it no longer waits for has completed; one it
\* is discarding is still among those it waits for; as soon as it has collected
\* something it knows which came first.
RunnerInv ==
    /\ op \in Operations /\ pending \subseteq Sides
    /\ branch \in [Sides -> {"body", "finalizing", "completed"}]
    /\ DOMAIN exit = Sides
    /\ \A s \in Sides : s \notin pending => branch[s] = "completed"
    /\ discarded # Nobody => discarded \in pending /\ first \in Sides
    /\ pending # Sides => first \in Sides
    /\ first \in Sides \cup {Nobody}

\* The answer is the one that the branches' final exits call for.
AnswerInv == Returned => pending = {} /\ result = <<Resolved>>

PairInv == RunnerInv /\ AnswerInv

LEMMA InitInv == Init => PairInv
  BY PairConstants DEF Init, PairInv, RunnerInv, AnswerInv, Returned, Nobody, Operations

\* A branch that goes on is one the runner still waits for.
LEMMA BranchInv ==
  ASSUME PairInv, NEW s \in Sides, BodySettles(s) \/ Finalize(s)
  PROVE  PairInv'
<1>1. RunnerInv'
  BY DEF PairInv, RunnerInv, BodySettles, Finalize
<1>2. s \in pending /\ UNCHANGED <<pending, result>>
  BY DEF PairInv, RunnerInv, BodySettles, Finalize
<1>3. AnswerInv'
  BY <1>2 DEF PairInv, AnswerInv, Returned
<1> QED BY <1>1, <1>3 DEF PairInv

\* A cancellation changes nothing the answer depends on.
LEMMA CancelInv ==
  ASSUME PairInv, CancelCaller \/ \E s \in Sides : Propagate(s)
  PROVE  PairInv'
<1>1. UNCHANGED <<op, branch, exit, pending, first, discarded, abandoned, result>>
  BY DEF CancelCaller, Propagate
<1>2. RunnerInv'
  BY <1>1 DEF PairInv, RunnerInv
<1>3. Resolved' = Resolved
  BY <1>1 DEF Resolved, bothResults, firstSuccess, firstCompletion, timeoutResolver,
              pairFailure, CancelReason, IsTimeout
<1>4. AnswerInv'
  BY <1>1, <1>3 DEF PairInv, AnswerInv, Returned
<1> QED BY <1>2, <1>4 DEF PairInv

LEMMA OtherSide == \A s \in Sides : Other(s) \in Sides /\ Other(s) # s
  BY DEF Sides, Other, Left, Right

LEMMA CollectInv ==
  ASSUME PairInv, NEW s \in Sides, Collect(s)
  PROVE  PairInv'
<1>1. s \in pending /\ UNCHANGED <<op, branch, exit, result>> /\ pending' = pending \ {s}
  BY DEF Collect
<1>2. first' \in Sides
  <2>1. first \in Sides \cup {Nobody}
    BY DEF PairInv, RunnerInv
  <2>2. CASE first = Nobody
    BY <2>2 DEF Collect
  <2>3. CASE first # Nobody
    BY <2>1, <2>3 DEF Collect
  <2> QED BY <2>2, <2>3
<1>3. discarded' # Nobody => discarded' \in pending'
  BY <1>1, OtherSide DEF Collect
<1>4. RunnerInv'
  BY <1>1, <1>2, <1>3 DEF PairInv, RunnerInv, Collect
<1>5. AnswerInv'
  BY <1>1 DEF PairInv, AnswerInv, Returned
<1> QED BY <1>4, <1>5 DEF PairInv

LEMMA DiscardInv ==
  ASSUME PairInv, Discard
  PROVE  PairInv'
<1>1. discarded \in pending /\ UNCHANGED <<op, branch, exit, first, result>>
  BY DEF PairInv, RunnerInv, Discard
<1>2. pending # {} /\ ~Returned
  BY <1>1 DEF PairInv, AnswerInv
<1>3. RunnerInv'
  BY <1>1 DEF PairInv, RunnerInv, Discard
<1>4. AnswerInv'
  BY <1>1, <1>2 DEF AnswerInv, Returned
<1> QED BY <1>3, <1>4 DEF PairInv

LEMMA ReturnInv ==
  ASSUME PairInv, Return
  PROVE  PairInv'
<1>1. UNCHANGED <<op, branch, exit, pending, first, discarded>> /\ pending = {}
      /\ result' = <<Resolved>>
  BY DEF Return
<1>2. RunnerInv'
  BY <1>1 DEF PairInv, RunnerInv
<1>3. Resolved' = Resolved
  BY <1>1 DEF Resolved, bothResults, firstSuccess, firstCompletion, timeoutResolver,
              pairFailure, CancelReason, IsTimeout
<1>4. AnswerInv'
  BY <1>1, <1>3 DEF AnswerInv
<1> QED BY <1>2, <1>4 DEF PairInv

LEMMA NextInv == PairInv /\ [Next]_vars => PairInv'
<1> SUFFICES ASSUME PairInv, [Next]_vars PROVE PairInv'
  OBVIOUS
<1>1. CASE Runner
  BY <1>1, CollectInv, DiscardInv, ReturnInv DEF Runner
<1>2. CASE CancelCaller \/ \E s \in Sides : Propagate(s)
  BY <1>2, CancelInv
<1>3. CASE \E s \in Sides : BodySettles(s) \/ Finalize(s)
  BY <1>3, BranchInv
<1>4. CASE UNCHANGED vars
  <2>1. UNCHANGED <<op, branch, exit, pending, first, discarded, result>>
    BY <1>4 DEF vars
  <2>2. Resolved' = Resolved
    BY <2>1 DEF Resolved, bothResults, firstSuccess, firstCompletion, timeoutResolver,
                pairFailure, CancelReason, IsTimeout
  <2> QED BY <2>1, <2>2 DEF PairInv, RunnerInv, AnswerInv, Returned
<1> QED BY <1>1, <1>2, <1>3, <1>4 DEF Next

LEMMA PairAlways == Spec => []PairInv
<1> QED BY InitInv, NextInv, PTL DEF Spec

\* No composition returns before both of its branches have completed and their
\* scopes are closed, whichever branch settled it and whoever was cancelled.
THEOREM PairNoRunaway == Spec => []NoRunaway
<1>1. PairInv => NoRunaway
  BY DEF PairInv, RunnerInv, AnswerInv, NoRunaway
<1> QED BY <1>1, PairAlways, PTL

\* Every composition succeeds exactly when its contract says, in whatever order
\* the runner's select collects the branches.
THEOREM PairSuccessJustified == Spec => []SuccessJustified
<1>1. ASSUME PairInv PROVE SuccessJustified
  <2> SUFFICES ASSUME Returned
               PROVE  CASE op = "ZipPar" -> Answer.ok <=> exit[Left].ok /\ exit[Right].ok
                        [] op = "Race" -> Answer.ok <=> exit[Left].ok \/ exit[Right].ok
                        [] op = "RaceFirst" -> Answer.ok <=> exit[first].ok
                        [] IsTimeout -> Answer.ok => exit[Left].ok \/ exit[Right].ok
    BY DEF SuccessJustified
  <2>1. Answer = Resolved /\ first \in Sides /\ op \in Operations
    <3>1. pending = {} /\ result = <<Resolved>>
      BY <1>1 DEF PairInv, AnswerInv
    <3>2. {} # Sides
      BY DEF Sides
    <3> QED BY <1>1, <3>1, <3>2 DEF PairInv, RunnerInv, Answer
  <2>2. pairFailure.ok = FALSE
    BY DEF pairFailure, Failure
  <2>3. CASE op = "ZipPar"
    BY <2>1, <2>2, <2>3 DEF Resolved, bothResults, Success, IsTimeout
  <2>4. CASE op = "Race"
    <3>1. Answer = firstSuccess
      BY <2>1, <2>4 DEF Resolved, IsTimeout
    <3>2. \/ first = Left /\ Other(first) = Right
          \/ first = Right /\ Other(first) = Left
      BY <2>1 DEF Sides, Left, Right, Other
    <3> QED BY <2>2, <2>4, <3>1, <3>2 DEF firstSuccess, IsTimeout
  <2>5. CASE op = "RaceFirst"
    BY <2>1, <2>5 DEF Resolved, firstCompletion, IsTimeout
  <2>6. CASE op \in {"Timeout", "TimeoutFail"}
    <3>1. Answer = timeoutResolver
      BY <2>1, <2>6 DEF Resolved, IsTimeout
    <3>2. CASE ~(first = Right /\ exit[Right].ok)
      BY <2>6, <3>1, <3>2 DEF timeoutResolver, IsTimeout
    <3>3. CASE first = Right /\ exit[Right].ok
      BY <2>6, <3>3 DEF IsTimeout
    <3> QED BY <3>2, <3>3
  <2> QED BY <2>1, <2>3, <2>4, <2>5, <2>6 DEF Operations
<1> QED BY <1>1, PairAlways, PTL
-----------------------------------------------------------------------------
(* Why a composition failed *)

\* A branch that has settled is a success exactly if it has no cause; it names
\* no interruption but its own context's, and the clock of a timeout nothing
\* else.
CausesInv ==
    \A s \in Sides :
        /\ exit[s] \in Exits
        /\ branch[s] # "body" => (exit[s].ok <=> exit[s].cause = <<>>)
        /\ \A i \in DOMAIN exit[s].cause :
              /\ exit[s].cause[i].kind = "interrupt" => exit[s].cause[i] = Interrupted(reason[s])
              /\ exit[s].cause[i].kind = "interrupt" => reason[s] # None
              /\ IsSleep(s) => exit[s].cause[i].kind = "interrupt"

\* A branch is interrupted for its caller's reason or for this composition's, and
\* for the latter only if this one has abandoned it or the caller's reason is the
\* same; the branch that did not come first is abandoned exactly if the first has
\* settled the matter.
AbandonedInv ==
    /\ abandoned \subseteq Sides
    /\ first # Nobody => first \notin pending
    /\ \A s \in Sides :
          /\ reason[s] \in {None, caller, CancelReason}
          /\ reason[s] = CancelReason => s \in abandoned \/ caller = CancelReason
          /\ s \in abandoned => first = Other(s) /\ Settles(exit[first])
          /\ first = Other(s) /\ Settles(exit[first]) => s \in abandoned

CauseInv == PairInv /\ CausesInv /\ AbandonedInv /\ reason \in [Sides -> Reasons \cup {None}]
               /\ caller \in Reasons \cup {None}

LEMMA CancelReasonType ==
  ASSUME op \in Operations
  PROVE  CancelReason \in Reasons /\ CancelReason # None
  BY DEF Operations, CancelReason, IsTimeout, Reasons, None

\* A step that keeps the operation keeps its reason and what settles it.
LEMMA SameOperation ==
  ASSUME op' = op
  PROVE  /\ CancelReason' = CancelReason /\ IsTimeout' = IsTimeout
         /\ \A s \in Sides : IsSleep(s)' = IsSleep(s)
         /\ \A x : Settles(x)' = Settles(x)
  BY DEF CancelReason, IsTimeout, IsSleep, Settles

LEMMA CauseInit == Init => CauseInv
<1> SUFFICES ASSUME Init PROVE CauseInv
  OBVIOUS
<1>1. PairInv /\ op \in Operations
  BY InitInv, PairConstants DEF Init
<1>2. Failure(<<>>) \in Exits /\ Failure(<<>>).cause = <<>>
  BY DEF Failure, Exits
<1>3. CausesInv
  BY <1>2 DEF Init, CausesInv
<1>4. AbandonedInv
  <2>1. first = Nobody /\ abandoned = {} /\ \A s \in Sides : Other(s) # first /\ reason[s] = None
    <3>1. Nobody \notin Sides
      BY DEF Sides, Left, Right, Nobody
    <3>2. first = Nobody /\ abandoned = {} /\ \A s \in Sides : reason[s] = None
      BY DEF Init
    <3> QED BY <3>1, <3>2, OtherSide
  <2> QED BY <1>1, <2>1, CancelReasonType DEF AbandonedInv
<1> QED BY <1>1, <1>3, <1>4 DEF CauseInv, Init

\* What a body may end with, and what its scope makes of it.
LEMMA SettledExits ==
  ASSUME NEW s \in Sides, NEW r \in Reasons
  PROVE  \A x \in {Success(<<s>>), Failure(<<Fail(s)>>), Failure(<<Die(s)>>),
                   Failure(<<Interrupted(r)>>)} :
            x \in Exits /\ (x.ok <=> x.cause = <<>>)
<1>1. Fail(s) \in Leaves /\ Die(s) \in Leaves /\ Interrupted(r) \in Leaves /\ s \in 0..2
  BY DEF Leaves, Sides, Left, Right
<1> HIDE DEF Fail, Die, Interrupted
<1>2. <<>> \in Seq(Leaves) /\ <<>> \in Seq(0..2) /\ <<s>> \in Seq(0..2)
  BY <1>1
<1>3. \A l \in Leaves : <<l>> \in Seq(Leaves) /\ <<l>> # <<>>
  OBVIOUS
<1>4. Success(<<s>>) \in Exits /\ Success(<<s>>).ok /\ Success(<<s>>).cause = <<>>
  BY <1>2 DEF Success, Exits
<1>5. \A l \in Leaves : /\ Failure(<<l>>) \in Exits /\ ~Failure(<<l>>).ok
                        /\ Failure(<<l>>).cause # <<>>
  BY <1>2, <1>3 DEF Failure, Exits
<1> QED BY <1>1, <1>4, <1>5

LEMMA BodyCauses ==
  ASSUME CauseInv, NEW s \in Sides, BodySettles(s)
  PROVE  CausesInv'
<1>1. /\ DOMAIN exit = Sides /\ branch' = [branch EXCEPT ![s] = "finalizing"]
      /\ branch \in [Sides -> {"body", "finalizing", "completed"}]
      /\ reason' = reason /\ op' = op /\ reason[s] \in Reasons \cup {None}
  BY DEF CauseInv, PairInv, RunnerInv, BodySettles
<1>2. PICK x : /\ exit' = [exit EXCEPT ![s] = x]
               /\ \/ x = Success(<<s>>)
                  \/ ~IsSleep(s) /\ x \in {Failure(<<Fail(s)>>), Failure(<<Die(s)>>)}
                  \/ reason[s] # None /\ x = Failure(<<Interrupted(reason[s])>>)
  BY DEF BodySettles
<1>3. x \in Exits /\ (x.ok <=> x.cause = <<>>)
  <2>1. CASE reason[s] = None
    BY <1>2, <2>1, SettledExits DEF Reasons
  <2>2. CASE reason[s] # None
    BY <1>1, <1>2, <2>2, SettledExits
  <2> QED BY <2>1, <2>2
<1>4. \A i \in DOMAIN x.cause :
          /\ x.cause[i].kind = "interrupt" => x.cause[i] = Interrupted(reason[s])
          /\ x.cause[i].kind = "interrupt" => reason[s] # None
          /\ IsSleep(s) => x.cause[i].kind = "interrupt"
  BY <1>2 DEF Success, Failure, Fail, Die, Interrupted
<1>5. exit'[s] = x /\ \A t \in Sides : t # s => exit'[t] = exit[t] /\ branch'[t] = branch[t]
  BY <1>1, <1>2
<1>6. ASSUME NEW t \in Sides
      PROVE  /\ exit'[t] \in Exits
             /\ branch'[t] # "body" => (exit'[t].ok <=> exit'[t].cause = <<>>)
             /\ \A i \in DOMAIN exit'[t].cause :
                   /\ exit'[t].cause[i].kind = "interrupt"
                         => exit'[t].cause[i] = Interrupted(reason[t])
                   /\ exit'[t].cause[i].kind = "interrupt" => reason[t] # None
                   /\ IsSleep(t) => exit'[t].cause[i].kind = "interrupt"
  <2>1. CASE t = s
    BY <1>3, <1>4, <1>5, <2>1
  <2>2. CASE t # s
    BY <1>5, <2>2 DEF CauseInv, CausesInv
  <2> QED BY <2>1, <2>2
<1> QED BY <1>1, <1>6, SameOperation DEF CausesInv

LEMMA FinalizeCauses ==
  ASSUME CauseInv, NEW s \in Sides, Finalize(s)
  PROVE  CausesInv'
<1>1. /\ DOMAIN exit = Sides /\ branch' = [branch EXCEPT ![s] = "completed"]
      /\ branch[s] = "finalizing"
      /\ branch \in [Sides -> {"body", "finalizing", "completed"}]
      /\ reason' = reason /\ op' = op
  BY DEF CauseInv, PairInv, RunnerInv, Finalize
<1>2. PICK cleanup :
          /\ exit' = [exit EXCEPT ![s] = ComposeCleanup(exit[s], cleanup)]
          /\ cleanup = <<>> \/ (~IsSleep(s) /\ cleanup = <<Die(s)>>)
  BY DEF Finalize
<1> DEFINE x == ComposeCleanup(exit[s], cleanup)
<1> DEFINE Proper(y) ==
       /\ y \in Exits /\ (y.ok <=> y.cause = <<>>)
       /\ \A i \in DOMAIN y.cause :
             /\ y.cause[i].kind = "interrupt" => y.cause[i] = Interrupted(reason[s])
             /\ y.cause[i].kind = "interrupt" => reason[s] # None
             /\ IsSleep(s) => y.cause[i].kind = "interrupt"
<1>3. Proper(exit[s])
  BY <1>1, Zenon DEF CauseInv, CausesInv
<1>4. Proper(x)
  <2>1. CASE cleanup = <<>>
    <3>1. x = exit[s]
      BY <2>1 DEF ComposeCleanup
    <3> HIDE DEF x, Proper
    <3> QED BY <1>3, <3>1
  <2>2. CASE cleanup # <<>>
    <3> DEFINE old == exit[s].cause
    <3> DEFINE die == Die(s)
    <3> DEFINE cause == Append(old, die)
    <3>1. old \in Seq(Leaves) /\ die \in Leaves /\ die.kind = "die" /\ ~IsSleep(s)
      BY <1>2, <1>3, <2>2 DEF Exits, Leaves, Die
    <3>2. x = Failure(old \o <<die>>)
      BY <1>2, <2>2 DEF ComposeCleanup, Compose
    <3>3. \A i \in DOMAIN old :
              old[i].kind = "interrupt" => old[i] = Interrupted(reason[s]) /\ reason[s] # None
      BY <1>3
    <3> HIDE DEF die, old
    <3>4. /\ cause \in Seq(Leaves) /\ cause # <<>> /\ cause = old \o <<die>>
          /\ \A i \in DOMAIN cause : cause[i] = die \/ (i \in DOMAIN old /\ cause[i] = old[i])
      <4>1. cause \in Seq(Leaves) /\ Len(cause) = Len(old) + 1 /\ Len(old) \in Nat
        BY <3>1
      <4>2. cause = old \o <<die>>
        BY <3>1
      <4>3. \A i \in 1..Len(cause) : cause[i] = die \/ (i \in 1..Len(old) /\ cause[i] = old[i])
        BY <3>1
      <4> QED BY <3>1, <4>1, <4>2, <4>3
    <3> HIDE DEF cause
    <3>5. x = Failure(cause)
      BY <3>2, <3>4
    <3> HIDE DEF x
    <3>6. x.cause = cause /\ x.ok = FALSE /\ x \in Exits
      BY <3>4, <3>5 DEF Failure, Exits
    <3> QED BY <3>1, <3>3, <3>4, <3>6
  <2> QED BY <2>1, <2>2
<1>5. exit'[s] = x /\ \A t \in Sides : t # s => exit'[t] = exit[t] /\ branch'[t] = branch[t]
  BY <1>1, <1>2
<1> HIDE DEF x
<1>6. ASSUME NEW t \in Sides
      PROVE  /\ exit'[t] \in Exits
             /\ branch'[t] # "body" => (exit'[t].ok <=> exit'[t].cause = <<>>)
             /\ \A i \in DOMAIN exit'[t].cause :
                   /\ exit'[t].cause[i].kind = "interrupt"
                         => exit'[t].cause[i] = Interrupted(reason[t])
                   /\ exit'[t].cause[i].kind = "interrupt" => reason[t] # None
                   /\ IsSleep(t) => exit'[t].cause[i].kind = "interrupt"
  <2>1. CASE t = s
    BY <1>4, <1>5, <2>1
  <2>2. CASE t # s
    BY <1>5, <2>2 DEF CauseInv, CausesInv
  <2> QED BY <2>1, <2>2
<1> QED BY <1>1, <1>6, SameOperation DEF CausesInv

LEMMA CauseBranch ==
  ASSUME CauseInv, PairInv', NEW s \in Sides, BodySettles(s) \/ Finalize(s)
  PROVE  CauseInv'
<1>1. CausesInv'
  BY BodyCauses, FinalizeCauses
<1>2. UNCHANGED <<op, caller, reason, pending, first, abandoned>>
      /\ \A t \in Sides : t # s => exit'[t] = exit[t]
  BY DEF BodySettles, Finalize, CauseInv, PairInv, RunnerInv
<1>3. branch[s] # "completed"
  BY DEF BodySettles, Finalize
<1>4. AbandonedInv'
  <2>1. ASSUME NEW t \in Sides, t \in abandoned PROVE first = Other(t) /\ Settles(exit'[first])
    <3>1. first = Other(t) /\ Settles(exit[first]) /\ first \in Sides /\ first # Nobody
      BY <2>1, OtherSide DEF CauseInv, AbandonedInv, Sides, Left, Right, Nobody
    <3>2. branch[first] = "completed"
      BY <3>1 DEF CauseInv, AbandonedInv, PairInv, RunnerInv
    <3> QED BY <1>2, <1>3, <3>1, <3>2
  <2>2. ASSUME NEW t \in Sides, first = Other(t), Settles(exit'[first]) PROVE t \in abandoned
    <3>1. first \in Sides /\ first # Nobody
      BY <2>2, OtherSide DEF Sides, Left, Right, Nobody
    <3>2. branch[first] = "completed"
      BY <3>1 DEF CauseInv, AbandonedInv, PairInv, RunnerInv
    <3> QED BY <1>2, <1>3, <2>2, <3>1, <3>2 DEF CauseInv, AbandonedInv
  <2> QED BY <1>2, <2>1, <2>2, SameOperation DEF CauseInv, AbandonedInv
<1> QED BY <1>1, <1>2, <1>4 DEF CauseInv

LEMMA CauseCancel ==
  ASSUME CauseInv, PairInv', CancelCaller
  PROVE  CauseInv'
<1>1. UNCHANGED <<op, reason, branch, exit, pending, first, abandoned>> /\ caller = None
      /\ caller' \in Reasons
  BY DEF CancelCaller, Reasons
<1>2. CausesInv'
  BY <1>1, SameOperation DEF CauseInv, CausesInv
<1>3. CancelReason # None
  BY CancelReasonType DEF CauseInv, PairInv, RunnerInv
<1>4. AbandonedInv'
  BY <1>1, <1>3, SameOperation DEF CauseInv, AbandonedInv
<1> QED BY <1>1, <1>2, <1>4 DEF CauseInv

LEMMA CausePropagate ==
  ASSUME CauseInv, PairInv', NEW s \in Sides, Propagate(s)
  PROVE  CauseInv'
<1>1. /\ UNCHANGED <<op, caller, branch, exit, pending, first, abandoned>>
      /\ reason[s] = None /\ reason' = [reason EXCEPT ![s] = caller] /\ caller \in Reasons
  BY DEF Propagate, CauseInv
<1>2. CausesInv'
  BY <1>1, SameOperation DEF CauseInv, CausesInv
<1>3. AbandonedInv'
  BY <1>1, SameOperation DEF CauseInv, AbandonedInv
<1> QED BY <1>1, <1>2, <1>3 DEF CauseInv

LEMMA CauseCollect ==
  ASSUME CauseInv, PairInv', NEW s \in Sides, Collect(s)
  PROVE  CauseInv'
<1>1. /\ UNCHANGED <<op, caller, branch, exit>> /\ s \in pending /\ pending' = pending \ {s}
      /\ first' = IF first = Nobody THEN s ELSE first
  BY DEF Collect
<1>2. Other(s) \in Sides /\ Other(s) # s /\ Other(Other(s)) = s
      /\ \A t \in Sides : t = s \/ t = Other(s)
  BY DEF Sides, Left, Right, Other
<1>3. CancelReason \in Reasons /\ CancelReason # None
  BY CancelReasonType DEF CauseInv, PairInv, RunnerInv
<1>4. first # Nobody => first \notin pending
  BY DEF CauseInv, AbandonedInv
<1>5. CASE ~(Settles(exit[s]) /\ Other(s) \in pending)
  <2>1. UNCHANGED <<abandoned, reason>>
    BY <1>5 DEF Collect
  <2>2. CausesInv'
    BY <1>1, <2>1, SameOperation DEF CauseInv, CausesInv
  <2>3. \A t \in Sides : t \in abandoned => first # Nobody
    BY <1>2, OtherSide DEF CauseInv, AbandonedInv, Nobody, Sides, Left, Right
  <2>4. CASE first # Nobody
    <3>1. AbandonedInv'
      BY <1>1, <2>1, <2>3, <2>4, SameOperation DEF CauseInv, AbandonedInv
    <3> QED BY <1>1, <2>1, <2>2, <3>1 DEF CauseInv
  <2>5. CASE first = Nobody
    <3>1. Other(s) \in pending /\ ~Settles(exit[s]) /\ first' = s
      BY <1>1, <1>2, <1>5, <2>5 DEF CauseInv, PairInv, RunnerInv, Nobody, Sides, Left, Right
    <3>2. AbandonedInv'
      BY <1>1, <1>2, <2>1, <2>3, <2>5, <3>1, SameOperation DEF CauseInv, AbandonedInv
    <3> QED BY <1>1, <2>1, <2>2, <3>2 DEF CauseInv
  <2> QED BY <2>4, <2>5
<1>6. CASE Settles(exit[s]) /\ Other(s) \in pending
  <2>1. /\ abandoned' = abandoned \cup {Other(s)}
        /\ reason' = [reason EXCEPT ![Other(s)] = IF @ = None THEN CancelReason ELSE @]
    BY <1>6 DEF Collect
  <2>2. first = Nobody
    <3>1. first \in Sides \cup {Nobody}
      BY DEF CauseInv, PairInv, RunnerInv
    <3> QED BY <1>1, <1>2, <1>4, <1>6, <3>1
  <2>3. \A t \in Sides : t \notin abandoned
    BY <2>2, OtherSide DEF CauseInv, AbandonedInv, Nobody, Sides, Left, Right
  <2>4. CausesInv'
    BY <1>1, <1>3, <2>1, SameOperation DEF CauseInv, CausesInv
  <2>5. AbandonedInv'
    BY <1>1, <1>2, <1>6, <2>1, <2>2, <2>3, SameOperation DEF CauseInv, AbandonedInv
  <2> QED BY <1>1, <1>3, <2>1, <2>4, <2>5 DEF CauseInv
<1> QED BY <1>5, <1>6

LEMMA CauseNext == CauseInv /\ [Next]_vars => CauseInv'
<1> SUFFICES ASSUME CauseInv, [Next]_vars PROVE CauseInv'
  OBVIOUS
<1>1. PairInv'
  BY NextInv DEF CauseInv
<1>2. CASE \E s \in Sides : Collect(s) \/ BodySettles(s) \/ Finalize(s) \/ Propagate(s)
  BY <1>1, <1>2, CauseCollect, CauseBranch, CausePropagate
<1>3. CASE CancelCaller
  BY <1>1, <1>3, CauseCancel
<1>4. CASE Discard \/ Return \/ UNCHANGED vars
  <2>1. UNCHANGED <<op, caller, reason, branch, exit, first, abandoned>> /\ pending' \subseteq pending
    BY <1>4 DEF Discard, Return, vars
  <2>2. CausesInv' /\ AbandonedInv'
    BY <2>1, SameOperation DEF CauseInv, CausesInv, AbandonedInv
  <2> QED BY <1>1, <2>1, <2>2 DEF CauseInv
<1> QED BY <1>2, <1>3, <1>4 DEF Next, Runner

\* What CombineParallelCauses keeps: everything that is no interruption, and
\* nothing it was not given; a side that is induced adds nothing, and nothing is
\* left only if one side had nothing and the other no more than was induced, and
\* always if the other was induced.
LEMMA CombineFacts ==
  ASSUME NEW T, NEW l \in Seq(T), NEW r \in Seq(T), NEW why
  PROVE  LET c == CombineParallelCauses(l, r, why)
         IN  /\ Reported(c) = Reported(l) \cup Reported(r)
             /\ ToSet(c) \subseteq ToSet(l) \cup ToSet(r)
             /\ IsInduced(l, why) => ToSet(c) \subseteq ToSet(r)
             /\ IsInduced(r, why) => ToSet(c) \subseteq ToSet(l)
             /\ c = <<>> => /\ l = <<>> \/ r = <<>>
                            /\ ToSet(l) \cup ToSet(r) \subseteq {Interrupted(why)}
             /\ IsInduced(l, why) /\ r = <<>> => c = <<>>
             /\ IsInduced(r, why) /\ l = <<>> => c = <<>>
<1>1. \A q \in Seq(T) : IsInduced(q, why) => ToSet(q) = {Interrupted(why)}
  <2>1. SUFFICES ASSUME NEW q \in Seq(T), IsInduced(q, why) PROVE ToSet(q) = {Interrupted(why)}
    OBVIOUS
  <2>2. DOMAIN q = 1..Len(q) /\ ToSet(q) = {q[i] : i \in 1..Len(q)} /\ ToSet(q) # {}
    BY <2>1, ToSetFacts DEF IsInduced
  <2> HIDE DEF Interrupted
  <2> QED BY <2>1, <2>2 DEF IsInduced
<1>2. \A q \in Seq(T) : IsInduced(q, why) => Reported(q) = {}
  BY <1>1 DEF Reported, Interrupted
<1>3. ToSet(<<>>) = {}
  BY DEF ToSet
<1>4. CASE IsInduced(r, why)
  <2>1. CombineParallelCauses(l, r, why) = l
    BY <1>4 DEF CombineParallelCauses
  <2> QED BY <1>1, <1>2, <1>3, <1>4, <2>1
<1>5. CASE ~IsInduced(r, why) /\ IsInduced(l, why)
  <2>1. CombineParallelCauses(l, r, why) = r
    BY <1>5 DEF CombineParallelCauses
  <2> QED BY <1>1, <1>2, <1>3, <1>5, <2>1
<1>6. CASE ~IsInduced(r, why) /\ ~IsInduced(l, why)
  <2> DEFINE both == l \o r
  <2>1. CombineParallelCauses(l, r, why) = both
    BY <1>6 DEF CombineParallelCauses, Compose
  <2>2. ToSet(both) = ToSet(l) \cup ToSet(r)
    BY ToSetConcat
  <2>3. both = <<>> => l = <<>> /\ r = <<>>
    OBVIOUS
  <2> HIDE DEF both
  <2>4. Reported(both) = Reported(l) \cup Reported(r)
    BY <2>2 DEF Reported
  <2> QED BY <1>3, <1>6, <2>1, <2>2, <2>3, <2>4
<1> QED BY <1>4, <1>5, <1>6

\* What is known of a composition that has returned, leaf by leaf.  The branch
\* that came first was told to stop by nobody but the caller, and so was the other
\* one unless the composition abandoned it.
LEMMA ReturnedFacts ==
  ASSUME CauseInv, Returned
  PROVE  /\ Answer = Resolved /\ first \in Sides /\ op \in Operations
         /\ \A s \in Sides :
               /\ exit[s].cause \in Seq(Leaves)
               /\ exit[s].ok <=> exit[s].cause = <<>>
               /\ (exit[s].cause = <<>> <=> ToSet(exit[s].cause) = {})
               /\ \A leaf \in ToSet(exit[s].cause) \ Reported(exit[s].cause) :
                     /\ leaf = Interrupted(reason[s])
                     /\ reason[s] # None /\ reason[s] \in {caller, CancelReason}
                     /\ s \notin abandoned => reason[s] = caller
               /\ IsSleep(s) => Reported(exit[s].cause) = {}
               /\ s \in abandoned => first = Other(s) /\ Settles(exit[first])
               /\ first = Other(s) /\ Settles(exit[first]) => s \in abandoned
<1>1. pending = {} /\ result = <<Resolved>>
  BY DEF CauseInv, PairInv, AnswerInv
<1>2. {} # Sides
  BY DEF Sides
<1>3. Answer = Resolved /\ first \in Sides /\ op \in Operations
  BY <1>1, <1>2 DEF CauseInv, PairInv, RunnerInv, Answer
<1>4. ASSUME NEW s \in Sides
      PROVE  /\ exit[s].cause \in Seq(Leaves)
             /\ exit[s].ok <=> exit[s].cause = <<>>
             /\ s \in abandoned => first = Other(s) /\ Settles(exit[first])
             /\ first = Other(s) /\ Settles(exit[first]) => s \in abandoned
  <2>1. branch[s] = "completed"
    BY <1>1 DEF CauseInv, PairInv, RunnerInv
  <2> QED BY <2>1 DEF CauseInv, CausesInv, AbandonedInv, Exits
<1>5. ASSUME NEW s \in Sides
      PROVE  /\ (exit[s].cause = <<>> <=> ToSet(exit[s].cause) = {})
             /\ \A leaf \in ToSet(exit[s].cause) : \E i \in DOMAIN exit[s].cause : leaf = exit[s].cause[i]
  <2> DEFINE q == exit[s].cause
  <2>1. q \in Seq(Leaves)
    BY <1>4
  <2> HIDE DEF q
  <2>2. (ToSet(q) = {} <=> q = <<>>) /\ \A leaf \in ToSet(q) : \E i \in DOMAIN q : leaf = q[i]
    BY <2>1, ToSetFacts DEF ToSet
  <2> QED BY <2>2 DEF q
<1>6. ASSUME NEW s \in Sides, NEW leaf \in ToSet(exit[s].cause) \ Reported(exit[s].cause)
      PROVE  /\ leaf = Interrupted(reason[s])
             /\ reason[s] # None /\ reason[s] \in {caller, CancelReason}
             /\ s \notin abandoned => reason[s] = caller
  <2>1. leaf.kind = "interrupt"
    BY <1>6 DEF Reported
  <2>2. leaf = Interrupted(reason[s]) /\ reason[s] # None
    BY <1>5, <2>1 DEF CauseInv, CausesInv
  <2> QED BY <2>2 DEF CauseInv, AbandonedInv
<1>7. ASSUME NEW s \in Sides, IsSleep(s) PROVE Reported(exit[s].cause) = {}
  BY <1>5, <1>7 DEF CauseInv, CausesInv, Reported
<1> QED BY <1>3, <1>4, <1>5, <1>6, <1>7

\* A branch that reports nothing but interruptions, and was not abandoned, names
\* the caller's.
LEMMA CallersDoing ==
  ASSUME CauseInv, Returned, NEW s \in Sides, s \notin abandoned, Reported(exit[s].cause) = {}
  PROVE  /\ ToSet(exit[s].cause) \subseteq {Interrupted(caller)}
         /\ ~exit[s].ok => caller # None /\ Interrupted(caller) \in ToSet(exit[s].cause)
<1>1. \A leaf \in ToSet(exit[s].cause) : leaf = Interrupted(caller) /\ caller # None
  <2> HIDE DEF Interrupted
  <2> QED BY ReturnedFacts
<1> QED BY <1>1, ReturnedFacts

\* What a failing ZipPar or Race reports, from the causes of both branches.
LEMMA PairFailureFacts ==
  ASSUME CauseInv, Returned
  PROVE  /\ ~pairFailure.ok
         /\ Reported(pairFailure.cause) = Reported(exit[Left].cause) \cup Reported(exit[Right].cause)
         /\ \A s \in Sides :
               IsInduced(exit[s].cause, CancelReason) =>
                  /\ ToSet(pairFailure.cause) \subseteq ToSet(exit[Other(s)].cause)
                  /\ exit[Other(s)].ok => pairFailure.cause = <<>>
         /\ ToSet(pairFailure.cause) \subseteq ToSet(exit[Left].cause) \cup ToSet(exit[Right].cause)
         /\ pairFailure.cause = <<>> =>
               /\ exit[Left].ok \/ exit[Right].ok
               /\ \A s \in Sides : ToSet(exit[s].cause) \subseteq {Interrupted(CancelReason)}
<1> DEFINE l == exit[Left].cause
<1> DEFINE r == exit[Right].cause
<1> DEFINE c == CombineParallelCauses(l, r, CancelReason)
<1>1. Left \in Sides /\ Right \in Sides /\ Other(Left) = Right /\ Other(Right) = Left
      /\ \A s \in Sides : s = Left \/ s = Right
  BY DEF Sides, Left, Right, Other
<1>2. l \in Seq(Leaves) /\ r \in Seq(Leaves)
  BY <1>1, ReturnedFacts
<1>3. pairFailure.cause = c /\ ~pairFailure.ok
  BY DEF pairFailure, Failure
<1> HIDE DEF c
<1>4. /\ Reported(c) = Reported(l) \cup Reported(r)
      /\ ToSet(c) \subseteq ToSet(l) \cup ToSet(r)
      /\ IsInduced(l, CancelReason) => ToSet(c) \subseteq ToSet(r)
      /\ IsInduced(r, CancelReason) => ToSet(c) \subseteq ToSet(l)
      /\ c = <<>> => /\ l = <<>> \/ r = <<>>
                     /\ ToSet(l) \cup ToSet(r) \subseteq {Interrupted(CancelReason)}
      /\ IsInduced(l, CancelReason) /\ r = <<>> => c = <<>>
      /\ IsInduced(r, CancelReason) /\ l = <<>> => c = <<>>
  BY <1>2, CombineFacts DEF c
<1>5. \A s \in Sides :
         IsInduced(exit[s].cause, CancelReason) =>
            /\ ToSet(c) \subseteq ToSet(exit[Other(s)].cause)
            /\ exit[Other(s)].ok => c = <<>>
  <2>1. (exit[Left].ok <=> l = <<>>) /\ (exit[Right].ok <=> r = <<>>)
    BY <1>1, ReturnedFacts
  <2> QED BY <1>1, <1>4, <2>1
<1>6. c = <<>> => /\ exit[Left].ok \/ exit[Right].ok
                  /\ \A s \in Sides : ToSet(exit[s].cause) \subseteq {Interrupted(CancelReason)}
  <2>1. (exit[Left].ok <=> l = <<>>) /\ (exit[Right].ok <=> r = <<>>)
    BY <1>1, ReturnedFacts
  <2> HIDE DEF Interrupted
  <2> QED BY <1>1, <1>4, <2>1
<1> QED BY <1>3, <1>4, <1>5, <1>6

\* Where ZipPar or Race fails with nothing but interruptions, they are the
\* caller's: the branch that came first was not abandoned, and what the other one
\* says of being abandoned is dropped.  Nothing at all is left exactly where the
\* caller's reason is the composition's own and one branch has succeeded.
LEMMA PairFailureCallers ==
  ASSUME CauseInv, Returned, Reported(pairFailure.cause) = {}, ~(exit[Left].ok /\ exit[Right].ok),
         op = "ZipPar" \/ (op = "Race" /\ ~exit[Left].ok /\ ~exit[Right].ok)
  PROVE  /\ caller # None
         /\ ToSet(pairFailure.cause) \subseteq {Interrupted(caller)}
         /\ pairFailure.cause = <<>> <=> caller = CancelReason /\ (exit[Left].ok \/ exit[Right].ok)
<1> DEFINE o == Other(first)
<1>1. first \in Sides /\ o \in Sides /\ o # first /\ Other(o) = first
      /\ (\A s \in Sides : s = first \/ s = o) /\ Left \in Sides /\ Right \in Sides
      /\ (\A s \in Sides : s = Left \/ s = Right)
  <2>1. first \in Sides
    BY ReturnedFacts
  <2> QED BY <2>1 DEF Sides, Left, Right, Other
<1>2. first \notin abandoned
  BY <1>1, ReturnedFacts
<1> HIDE DEF o
<1>3. \A s \in Sides : Reported(exit[s].cause) = {}
  BY <1>1, PairFailureFacts
<1>4. /\ ToSet(exit[first].cause) \subseteq {Interrupted(caller)}
      /\ ~exit[first].ok => caller # None /\ Interrupted(caller) \in ToSet(exit[first].cause)
  BY <1>1, <1>2, <1>3, CallersDoing
<1>5. /\ pairFailure.cause = <<>> => exit[Left].ok \/ exit[Right].ok
      /\ caller = CancelReason /\ (exit[Left].ok \/ exit[Right].ok) => pairFailure.cause = <<>>
  <2>1. pairFailure.cause = <<>> => exit[Left].ok \/ exit[Right].ok
    BY PairFailureFacts
  <2>2. ASSUME caller = CancelReason, NEW s \in Sides, ~exit[s].ok PROVE IsInduced(exit[s].cause, CancelReason)
    <3>1. \A leaf \in ToSet(exit[s].cause) : leaf = Interrupted(CancelReason)
      <4>1. \A leaf \in ToSet(exit[s].cause) :
               leaf = Interrupted(reason[s]) /\ reason[s] \in {caller, CancelReason}
        BY <1>3, ReturnedFacts
      <4> QED BY <2>2, <4>1
    <3>2. \A i \in DOMAIN exit[s].cause : exit[s].cause[i] \in ToSet(exit[s].cause)
      BY DEF ToSet
    <3>3. exit[s].cause # <<>>
      BY <2>2, ReturnedFacts
    <3> HIDE DEF Interrupted
    <3> QED BY <3>1, <3>2, <3>3 DEF IsInduced
  <2>3. ASSUME caller = CancelReason, exit[Left].ok \/ exit[Right].ok PROVE pairFailure.cause = <<>>
    <3>1. PICK s \in Sides : ~exit[s].ok /\ exit[Other(s)].ok
      BY <2>3 DEF Sides, Left, Right, Other
    <3>2. IsInduced(exit[s].cause, CancelReason)
      BY <2>2, <2>3, <3>1
    <3> HIDE DEF pairFailure
    <3> QED BY <3>1, <3>2, PairFailureFacts
  <2> QED BY <2>1, <2>3
<1>6. CASE o \in abandoned
  <2>1. Settles(exit[first])
    BY <1>1, <1>6, ReturnedFacts
  <2>2. ~exit[first].ok
    BY <1>1, <2>1 DEF Settles
  <2>3. caller # None /\ Interrupted(caller) \in ToSet(exit[first].cause)
    BY <1>4, <2>2
  <2>4. ToSet(exit[o].cause) \subseteq {Interrupted(caller)} \/ IsInduced(exit[o].cause, CancelReason)
    <3>1. \A leaf \in ToSet(exit[o].cause) : leaf = Interrupted(reason[o]) /\ reason[o] \in {caller, CancelReason}
      BY <1>1, <1>3, ReturnedFacts
    <3>2. \A i \in DOMAIN exit[o].cause : exit[o].cause[i] \in ToSet(exit[o].cause)
      BY DEF ToSet
    <3>3. exit[o].cause = <<>> => ToSet(exit[o].cause) = {}
      BY <1>1, ReturnedFacts
    <3> HIDE DEF Interrupted
    <3> QED BY <3>1, <3>2, <3>3 DEF IsInduced
  <2>5. ToSet(pairFailure.cause) \subseteq {Interrupted(caller)}
    <3>1. ToSet(pairFailure.cause) \subseteq ToSet(exit[first].cause) \cup ToSet(exit[o].cause)
      BY <1>1, PairFailureFacts
    <3>2. IsInduced(exit[o].cause, CancelReason) => ToSet(pairFailure.cause) \subseteq ToSet(exit[first].cause)
      BY <1>1, PairFailureFacts
    <3> HIDE DEF Interrupted
    <3> QED BY <1>4, <2>4, <3>1, <3>2
  <2>6. pairFailure.cause = <<>> => caller = CancelReason
    <3>1. ASSUME pairFailure.cause = <<>>
          PROVE  Interrupted(caller) = Interrupted(CancelReason)
      <4> HIDE DEF Interrupted
      <4> QED BY <1>1, <2>3, <3>1, PairFailureFacts
    <3> QED BY <3>1 DEF Interrupted
  <2> QED BY <1>5, <2>3, <2>5, <2>6
<1>7. CASE o \notin abandoned
  <2>1. /\ ToSet(exit[o].cause) \subseteq {Interrupted(caller)}
        /\ ~exit[o].ok => caller # None /\ Interrupted(caller) \in ToSet(exit[o].cause)
    BY <1>1, <1>3, <1>7, CallersDoing
  <2>2. \E s \in Sides : caller # None /\ Interrupted(caller) \in ToSet(exit[s].cause)
    <3>1. ~exit[first].ok \/ ~exit[o].ok
      BY <1>1
    <3> QED BY <1>1, <1>4, <2>1, <3>1
  <2>3. ToSet(pairFailure.cause) \subseteq {Interrupted(caller)}
    <3>1. ToSet(pairFailure.cause) \subseteq ToSet(exit[first].cause) \cup ToSet(exit[o].cause)
      BY <1>1, PairFailureFacts
    <3> QED BY <1>4, <2>1, <3>1
  <2>4. pairFailure.cause = <<>> => caller = CancelReason
    <3>1. ASSUME pairFailure.cause = <<>>
          PROVE  Interrupted(caller) = Interrupted(CancelReason)
      <4> HIDE DEF Interrupted
      <4> QED BY <1>1, <2>2, <3>1, PairFailureFacts
    <3> QED BY <3>1 DEF Interrupted
  <2> QED BY <1>5, <2>2, <2>3, <2>4
<1> QED BY <1>6, <1>7

\* What the races answer: the exit of the winner, of the first to complete, or the
\* failures of both.  The loser is abandoned exactly if there is a winner.
LEMMA RaceAnswer ==
  ASSUME CauseInv, Returned, IsRace
  PROVE  \/ Answer.ok /\ Answer.cause = <<>>
         \/ /\ op = "Race" /\ Answer = pairFailure /\ ~exit[Left].ok /\ ~exit[Right].ok
            /\ Accountable = Sides
         \/ /\ op = "RaceFirst" /\ Answer = exit[first] /\ ~exit[first].ok
            /\ Accountable = {first} /\ first \notin abandoned
<1>1. Answer = Resolved /\ first \in Sides /\ Other(first) \in Sides /\ Other(Other(first)) = first
      /\ Other(first) # first
  <2>1. first \in Sides /\ Answer = Resolved
    BY ReturnedFacts
  <2> QED BY <2>1 DEF Sides, Left, Right, Other
<1>2. (\A s \in Sides : s = Left \/ s = Right) /\ Left \in Sides /\ Right \in Sides
      /\ \A s \in Sides : s = first \/ s = Other(first)
  BY <1>1 DEF Sides, Left, Right, Other
<1>3. first \notin abandoned
  BY <1>1, ReturnedFacts
<1>4. CASE op = "Race"
  <2>1. Answer = firstSuccess
    BY <1>1, <1>4 DEF Resolved, IsTimeout
  <2>2. CASE exit[Left].ok \/ exit[Right].ok
    <3>1. \E s \in Sides : Answer = exit[s] /\ exit[s].ok
      BY <1>1, <1>2, <2>1, <2>2 DEF firstSuccess
    <3> QED BY <3>1, ReturnedFacts
  <2>3. CASE ~exit[Left].ok /\ ~exit[Right].ok
    <3>1. Answer = pairFailure
      BY <1>1, <1>2, <2>1, <2>3 DEF firstSuccess
    <3>2. \A s \in Sides : s \notin abandoned
      BY <1>1, <1>2, <1>4, <2>3, ReturnedFacts DEF Settles
    <3>3. Accountable = Sides
      BY <1>4, <3>1, <3>2, PairFailureFacts DEF Accountable, IsRace
    <3> QED BY <1>4, <2>3, <3>1, <3>3
  <2> QED BY <2>2, <2>3
<1>5. CASE op = "RaceFirst"
  <2>1. Answer = exit[first]
    BY <1>1, <1>5 DEF Resolved, firstCompletion, IsTimeout
  <2>2. Other(first) \in abandoned
    BY <1>1, <1>5, ReturnedFacts DEF Settles
  <2>3. CASE exit[first].ok
    BY <1>1, <2>1, <2>3, ReturnedFacts
  <2>4. CASE ~exit[first].ok
    <3>1. Accountable = {first}
      BY <1>1, <1>2, <1>3, <1>5, <2>1, <2>2, <2>4 DEF Accountable, IsRace
    <3> QED BY <1>3, <1>5, <2>1, <2>4, <3>1
  <2> QED BY <2>3, <2>4
<1> QED BY <1>4, <1>5 DEF IsRace

\* The race half of FailureExplained, from what the races answer.
LEMMA RaceExplained ==
  ASSUME CauseInv, Returned, IsRace
  PROVE  FailureExplained
<1>1. ~IsTimeout /\ op # "TimeoutFail" /\ op # "ZipPar"
  BY DEF IsRace, IsTimeout
<1>2. CASE Answer.ok /\ Answer.cause = <<>>
  <2>1. Accountable = {} /\ Reported(Answer.cause) = {}
    BY <1>2 DEF Accountable, Reported, ToSet
  <2> QED BY <1>1, <1>2, <2>1 DEF FailureExplained, FailuresExact, InterruptionExplained
<1>3. CASE /\ op = "Race" /\ Answer = pairFailure /\ ~exit[Left].ok /\ ~exit[Right].ok
           /\ Accountable = Sides
  <2>1. Reported(Answer.cause) = UNION {Reported(exit[s].cause) : s \in Accountable}
    <3>1. Reported(Answer.cause) = Reported(exit[Left].cause) \cup Reported(exit[Right].cause)
      BY <1>3, PairFailureFacts
    <3> HIDE DEF Reported
    <3> QED BY <1>3, <3>1 DEF Sides
  <2>2. Answer.cause # <<>>
    BY <1>3, PairFailureFacts
  <2>3. ASSUME Reported(Answer.cause) = {}
        PROVE  caller # None /\ ToSet(Answer.cause) \subseteq {Interrupted(caller)}
    <3> HIDE DEF pairFailure, Reported, Interrupted
    <3> QED BY <1>3, <2>3, PairFailureCallers
  <2>4. InterruptionExplained
    <3> HIDE DEF pairFailure, Reported, Interrupted
    <3> QED BY <1>1, <2>2, <2>3 DEF InterruptionExplained
  <2> QED BY <1>1, <2>1, <2>4 DEF FailureExplained, FailuresExact
<1>4. CASE /\ op = "RaceFirst" /\ Answer = exit[first] /\ ~exit[first].ok
           /\ Accountable = {first} /\ first \notin abandoned
  <2>1. Reported(Answer.cause) = UNION {Reported(exit[s].cause) : s \in Accountable}
    BY <1>4
  <2>2. first \in Sides /\ Answer.cause # <<>>
    BY <1>4, ReturnedFacts
  <2>3. InterruptionExplained
    BY <1>1, <1>4, <2>2, CallersDoing DEF InterruptionExplained
  <2> QED BY <1>1, <2>1, <2>3 DEF FailureExplained, FailuresExact
<1> QED BY <1>2, <1>3, <1>4, RaceAnswer

\* The ZipPar third: it answers with both values or with pairFailure.
LEMMA ZipParExplained ==
  ASSUME CauseInv, Returned, op = "ZipPar"
  PROVE  FailureExplained
<1>1. ~IsTimeout /\ ~IsRace /\ Accountable = Sides /\ op # "TimeoutFail"
  BY DEF IsTimeout, IsRace, Accountable
<1>2. Answer = IF exit[Left].ok /\ exit[Right].ok THEN Success(<<Left, Right>>) ELSE pairFailure
  BY <1>1, ReturnedFacts DEF Resolved, bothResults
<1>3. CASE exit[Left].ok /\ exit[Right].ok
  <2>1. Answer.ok /\ Answer.cause = <<>>
    BY <1>2, <1>3 DEF Success
  <2>2. \A s \in Sides : exit[s].cause = <<>>
    BY <1>3, ReturnedFacts DEF Sides
  <2>3. Reported(<<>>) = {}
    BY DEF Reported, ToSet
  <2> HIDE DEF Reported
  <2> QED BY <1>1, <2>1, <2>2, <2>3 DEF FailureExplained, FailuresExact, InterruptionExplained
<1>4. CASE ~(exit[Left].ok /\ exit[Right].ok)
  <2>1. Answer = pairFailure
    BY <1>2, <1>4
  <2>2. Reported(Answer.cause) = UNION {Reported(exit[s].cause) : s \in Accountable}
    <3>1. Reported(Answer.cause) = Reported(exit[Left].cause) \cup Reported(exit[Right].cause)
      BY <2>1, PairFailureFacts
    <3> HIDE DEF Reported
    <3> QED BY <1>1, <3>1 DEF Sides
  <2>3. ASSUME Reported(Answer.cause) = {}
        PROVE  /\ caller # None
               /\ ToSet(Answer.cause) \subseteq {Interrupted(caller)}
               /\ Answer.cause = <<>> <=>
                     op = "ZipPar" /\ caller = CancelReason /\ (exit[Left].ok \/ exit[Right].ok)
    <3>1. Reported(pairFailure.cause) = {}
      BY <2>1, <2>3
    <3> HIDE DEF pairFailure, Reported, Interrupted
    <3> QED BY <1>4, <2>1, <3>1, PairFailureCallers
  <2>4. InterruptionExplained
    BY <1>1, <2>3 DEF InterruptionExplained
  <2> QED BY <1>1, <2>2, <2>4 DEF FailureExplained, FailuresExact
<1> QED BY <1>3, <1>4

\* The timeouts: the work's own exit, or what the clock makes of it.
LEMMA TimeoutExplained ==
  ASSUME CauseInv, Returned, IsTimeout
  PROVE  FailureExplained
<1> DEFINE work == exit[Left].cause
<1> DEFINE late == IF op = "TimeoutFail" /\ TimedOut THEN {Fail(Nobody)} ELSE {}
<1>1. /\ Left \in Sides /\ Right \in Sides /\ ~IsRace /\ op # "ZipPar" /\ Other(Left) = Right
      /\ Left # Right /\ Answer = timeoutResolver /\ Accountable = Sides
  <2>1. op \in {"Timeout", "TimeoutFail"}
    BY DEF IsTimeout
  <2>2. Answer = timeoutResolver
    BY <2>1, ReturnedFacts DEF Resolved, IsTimeout
  <2> QED BY <2>1, <2>2 DEF Sides, Left, Right, Other, IsRace, Accountable
<1>2. Reported(exit[Right].cause) = {}
  BY <1>1, ReturnedFacts DEF IsSleep
<1>3. UNION {Reported(exit[s].cause) : s \in Accountable} = Reported(work)
  <2> HIDE DEF Reported
  <2> QED BY <1>1, <1>2 DEF Sides
<1>4. work \in Seq(Leaves) /\ (exit[Left].ok <=> work = <<>>) /\ (work = <<>> <=> ToSet(work) = {})
      /\ \A leaf \in ToSet(work) \ Reported(work) :
            /\ leaf = Interrupted(reason[Left]) /\ reason[Left] # None
            /\ reason[Left] \in {caller, CancelReason}
            /\ Left \notin abandoned => reason[Left] = caller
  BY <1>1, ReturnedFacts
<1>5. CASE ~TimedOut
  <2>1. Answer = exit[Left] /\ late = {}
    BY <1>1, <1>5 DEF timeoutResolver, TimedOut
  <2>2. FailuresExact
    BY <1>3, <2>1 DEF FailuresExact
  <2>3. ASSUME ~Answer.ok, Reported(Answer.cause) = {}
        PROVE  /\ caller # None /\ Answer.cause # <<>>
               /\ ToSet(Answer.cause) \subseteq
                     {Interrupted(caller)} \cup (IF ClockStopped THEN {Interrupted(CancelReason)} ELSE {})
    <3>1. work # <<>> /\ ToSet(work) # {} /\ Reported(work) = {}
      BY <1>4, <2>1, <2>3
    <3>2. ToSet(work) \subseteq {Interrupted(caller), Interrupted(CancelReason)}
      <4> HIDE DEF Interrupted
      <4> QED BY <1>4, <3>1
    <3>3. CASE Left \notin abandoned
      <4>1. ToSet(work) \subseteq {Interrupted(caller)} /\ caller # None
        BY <1>1, <1>4, <3>1, <3>3
      <4> HIDE DEF Interrupted
      <4> QED BY <2>1, <3>1, <4>1
    <3>4. CASE Left \in abandoned
      <4>1. first = Right /\ ~exit[Right].ok /\ Right \notin abandoned
        BY <1>1, <1>5, <3>4, ReturnedFacts, OtherSide DEF TimedOut
      <4>2. ClockStopped /\ caller # None
        BY <1>1, <1>2, <3>4, <4>1, CallersDoing DEF ClockStopped
      <4> HIDE DEF Interrupted
      <4> QED BY <2>1, <3>1, <3>2, <4>2
    <3> QED BY <3>3, <3>4
  <2>4. InterruptionExplained
    <3> HIDE DEF Reported, Interrupted, ClockStopped
    <3> QED BY <1>1, <2>3 DEF InterruptionExplained
  <2> QED BY <2>2, <2>4 DEF FailureExplained
<1>6. CASE TimedOut
  <2> DEFINE onTimeout == IF op = "Timeout" THEN Success(<<Nobody>>) ELSE Failure(<<Fail(Nobody)>>)
  <2> DEFINE told == onTimeout.cause
  <2>1. Answer = IF work = <<>> \/ IsInduced(work, CancelReason) THEN onTimeout
                 ELSE Failure(Compose(told, work))
    BY <1>1, <1>6 DEF timeoutResolver, TimedOut
  <2>2. /\ told \in Seq(Leaves) /\ ToSet(told) = late /\ Reported(told) = late
        /\ op = "Timeout" => onTimeout.ok
    <3> DEFINE fail == Fail(Nobody)
    <3>1. fail \in Leaves /\ fail.kind # "interrupt"
      BY DEF Leaves, Nobody, Fail
    <3>2. op = "Timeout" \/ op = "TimeoutFail"
      BY DEF IsTimeout
    <3>3. op = "Timeout" => onTimeout.ok /\ told = <<>> /\ late = {}
      BY DEF Success
    <3>4. op = "TimeoutFail" => told = <<fail>> /\ late = {fail}
      BY <1>6 DEF Failure
    <3> HIDE DEF fail, onTimeout, told, late
    <3>5. <<fail>> \in Seq(Leaves) /\ <<>> \in Seq(Leaves) /\ ToSet(<<fail>>) = {fail} /\ ToSet(<<>>) = {}
      BY <3>1 DEF ToSet
    <3> QED BY <3>1, <3>2, <3>3, <3>4, <3>5 DEF Reported
  <2> HIDE DEF onTimeout, told
  <2>3. CASE work = <<>> \/ IsInduced(work, CancelReason)
    <3>1. Answer = onTimeout /\ Answer.cause = told
      BY <2>1, <2>3 DEF told
    <3>2. Reported(work) = {}
      BY <2>3 DEF IsInduced, Reported, Interrupted, ToSet
    <3>3. FailuresExact
      BY <1>3, <2>2, <3>1, <3>2 DEF FailuresExact
    <3>4. ~Answer.ok => Reported(Answer.cause) # {}
      <4>1. ~Answer.ok => op = "TimeoutFail"
        BY <2>2, <3>1 DEF IsTimeout
      <4> QED BY <1>6, <2>2, <3>1, <4>1
    <3> QED BY <3>3, <3>4 DEF FailureExplained, InterruptionExplained
  <2>4. CASE ~(work = <<>> \/ IsInduced(work, CancelReason))
    <3>1. Answer.cause = told \o work
      BY <2>1, <2>4 DEF Failure, Compose
    <3>2. ToSet(Answer.cause) = ToSet(told) \cup ToSet(work)
      BY <1>4, <2>2, <3>1, ToSetConcat
    <3>3. Reported(Answer.cause) = Reported(told) \cup Reported(work)
      BY <3>2 DEF Reported
    <3>4. FailuresExact
      BY <1>3, <2>2, <3>3 DEF FailuresExact
    <3>5. ASSUME Reported(Answer.cause) = {}
          PROVE  /\ caller # None /\ Answer.cause # <<>>
                 /\ ToSet(Answer.cause) \subseteq {Interrupted(caller)}
      <4>1. Reported(work) = {} /\ ToSet(told) = {} /\ ToSet(Answer.cause) = ToSet(work)
        BY <2>2, <3>2, <3>3, <3>5
      <4>2. \A leaf \in ToSet(work) : leaf = Interrupted(reason[Left])
        BY <1>4, <4>1
      <4>3. reason[Left] # CancelReason
        <5>1. \A i \in DOMAIN work : work[i] \in ToSet(work)
          BY DEF ToSet
        <5> HIDE DEF Interrupted
        <5> QED BY <2>4, <4>2, <5>1 DEF IsInduced
      <4>4. ToSet(work) # {}
        BY <1>4, <2>4
      <4>5. reason[Left] = caller /\ caller # None
        BY <1>4, <4>1, <4>3, <4>4
      <4>6. Answer.cause # <<>>
        <5>1. ToSet(<<>>) = {}
          BY DEF ToSet
        <5> QED BY <4>1, <4>4, <5>1
      <4> HIDE DEF Interrupted
      <4> QED BY <4>1, <4>2, <4>5, <4>6
    <3>6. InterruptionExplained
      <4> HIDE DEF Reported, Interrupted, ClockStopped
      <4> QED BY <1>1, <3>5 DEF InterruptionExplained
    <3> QED BY <3>4, <3>6 DEF FailureExplained
  <2> QED BY <2>3, <2>4
<1> QED BY <1>5, <1>6

LEMMA ExplainedFromInv == CauseInv => FailureExplained
<1>1. ~Returned => FailureExplained
  BY DEF FailureExplained, FailuresExact, InterruptionExplained
<1>2. ASSUME CauseInv, Returned PROVE FailureExplained
  <2>1. op \in Operations
    BY <1>2, ReturnedFacts
  <2>2. op = "ZipPar" \/ IsRace \/ IsTimeout
    BY <2>1 DEF Operations, IsRace, IsTimeout
  <2> QED BY <1>2, <2>2, ZipParExplained, RaceExplained, TimeoutExplained
<1> QED BY <1>1, <1>2

\* A failing composition says exactly what the branches it answers for have
\* reported, whichever branch settled first; a race answers for nobody it abandoned.
\* It says nothing but interruptions only if the caller was cancelled, and then with
\* the caller's reason unless a stopped clock has put a timeout's in its place; and
\* it says nothing at all exactly where a nested ZipPar takes the cancellation of
\* the one around it for its own.
THEOREM PairFailureExplained == Spec => []FailureExplained
<1> QED BY CauseInit, CauseNext, ExplainedFromInv, PTL DEF Spec
=============================================================================
