--------------------------- MODULE TraverseProofs ---------------------------
(***************************************************************************)
(* Proofs about Traverse: for any number of branches, any limits and any   *)
(* reasons the caller may be cancelled with.                               *)
(***************************************************************************)
EXTENDS Traverse, SequenceLemmas, FiniteSetTheorems, TLAPS

\* The branches that have reported.
Reported == {b \in Branches : branch[b] \in {"finalizing", "completed"}}

\* The types of everything but the number of reports read and the result,
\* which are consequences of what follows.
TypeInv ==
    /\ limit \in Nat /\ permits \subseteq Branches
    /\ scope \in Reasons \cup {None} /\ reason \in [Branches -> Reasons \cup {None}]
    /\ branch \in [Branches -> Phases] /\ exit \in [Branches -> Exits]
    /\ reports \in Seq(BOOLEAN) /\ heard \in Nat
    /\ failed \in BOOLEAN /\ caller \in BOOLEAN

\* A branch reports once: there are as many reports as branches that got so
\* far, and the group is not ahead of them.
ReportsInv == Len(reports) = Cardinality(Reported) /\ heard <= Len(reports)

\* The permits are with the branches at work, and there are enough of them.
PermitsInv ==
    /\ limit = 0 => permits = {}
    /\ limit > 0 => Working = permits /\ Cardinality(permits) <= limit

\* What a branch failed of is its own doing, or an interruption; a success has
\* no cause.
OwnLeaves(b) == {Fail(b), Die(b)} \cup {Interrupted(r) : r \in Reasons}
WellFormed(x, b) == x \in Exits /\ x.cause \in Seq(OwnLeaves(b)) /\ (x.ok => x.cause = <<>>)
ExitsInv == \A b \in Branches : WellFormed(exit[b], b)

\* The answer was made of the exits as they are now, and no branch goes on.
ResultInv ==
    \/ result = <<>>
    \/ result = <<collectResults>> /\ heard = Total /\ \A b \in Branches : branch[b] = "completed"

TraverseInv == TypeInv /\ ReportsInv /\ PermitsInv /\ ExitsInv /\ ResultInv
LEMMA BranchesFinite ==
  /\ IsFiniteSet(Branches) /\ Cardinality(Branches) = Total /\ 1 \in Branches
  /\ \A S \in SUBSET Branches : IsFiniteSet(S) /\ Cardinality(S) \in 0..Total
<1>1. Total \in Nat /\ Total # 0
  BY TraverseConstants
<1>2. IsFiniteSet(Branches) /\ Cardinality(Branches) = Total
  BY <1>1, FS_Interval DEF Branches
<1>3. ASSUME NEW S \in SUBSET Branches
      PROVE  IsFiniteSet(S) /\ Cardinality(S) \in 0..Total
  <2>1. IsFiniteSet(S) /\ Cardinality(S) <= Total
    BY <1>2, FS_Subset
  <2> QED BY <1>1, <2>1, FS_CardinalityType
<1> QED BY <1>1, <1>2, <1>3 DEF Branches

LEMMA LeavesFacts ==
  /\ \A b \in Branches : OwnLeaves(b) \subseteq Leaves
  /\ CancelReason \in Reasons
  BY DEF OwnLeaves, Leaves, Reasons

LEMMA InitInv == Init => TraverseInv
<1> SUFFICES ASSUME Init PROVE TraverseInv
  OBVIOUS
<1>1. Total \in Nat \ {0} /\ Limits \subseteq Nat
  BY TraverseConstants
<1>2. limit \in Nat
  BY <1>1 DEF Init, PermitsFor
<1>3. Failure(<<>>) \in Exits
  BY DEF Failure, Exits
<1>4. TypeInv
  <2>1. reports \in Seq(BOOLEAN)
    BY DEF Init
  <2>2. exit \in [Branches -> Exits]
    BY <1>3 DEF Init
  <2>3. branch \in [Branches -> Phases] /\ reason \in [Branches -> Reasons \cup {None}]
    BY DEF Init, Phases
  <2> QED BY <1>2, <2>1, <2>2, <2>3 DEF Init, TypeInv
<1>5. ReportsInv
  <2>1. Reported = {} /\ reports = <<>> /\ heard = 0
    BY DEF Init, Reported
  <2> QED BY <2>1, FS_EmptySet DEF ReportsInv
<1>6. PermitsInv
  <2>1. Working = {} /\ permits = {}
    BY DEF Init, Working
  <2> QED BY <1>2, <2>1, FS_EmptySet DEF PermitsInv
<1>7. ExitsInv
  <2>1. \A b \in Branches : exit[b] = Failure(<<>>) /\ Failure(<<>>).cause = <<>>
    BY DEF Init, Failure
  <2>2. \A b \in Branches : <<>> \in Seq(OwnLeaves(b))
    OBVIOUS
  <2> QED BY <1>3, <2>1, <2>2 DEF ExitsInv, WellFormed
<1> QED BY <1>4, <1>5, <1>6, <1>7 DEF TraverseInv, ResultInv, Init

\* As long as a branch is on its way there is no result.
LEMMA NotReturned ==
  ASSUME TraverseInv, NEW b \in Branches, branch[b] # "completed"
  PROVE  result = <<>>
  BY DEF TraverseInv, ResultInv

LEMMA StartInv ==
  ASSUME TraverseInv, NEW b \in Branches, Start(b)
  PROVE  TraverseInv'
<1>1. TypeInv /\ branch[b] = "queued" /\ result = <<>>
  BY NotReturned DEF Start, TraverseInv
<1>2. branch' = [branch EXCEPT ![b] = branch'[b]] /\ branch'[b] \in {"running", "doomed"}
  BY <1>1 DEF Start, TypeInv
<1>3. TypeInv'
  BY <1>1, <1>2 DEF Start, TypeInv, Phases
<1>4. ReportsInv'
  <2>1. Reported' = Reported
    BY <1>1, <1>2 DEF Reported, TypeInv
  <2> QED BY <2>1 DEF TraverseInv, ReportsInv, Start
<1>5. PermitsInv'
  <2>1. CASE limit = 0
    BY <2>1 DEF TraverseInv, PermitsInv, Start
  <2>2. CASE limit > 0
    <3>1. Working' = Working \cup {b} /\ b \notin Working
      BY <1>1, <1>2 DEF Working, TypeInv
    <3>2. permits = Working /\ permits' = permits \cup {b} /\ limit' = limit
      BY <2>2 DEF TraverseInv, PermitsInv, Start
    <3>3. Cardinality(permits') = Cardinality(permits) + 1 /\ Cardinality(permits) \in Nat
      BY <1>1, <3>1, <3>2, BranchesFinite, FS_AddElement DEF TypeInv
    <3>4. Cardinality(permits) < limit
      BY <2>2 DEF Start
    <3> QED BY <1>1, <2>2, <3>1, <3>2, <3>3, <3>4 DEF PermitsInv, TypeInv
  <2> QED BY <1>1, <2>1, <2>2 DEF TypeInv
<1>6. ExitsInv' /\ ResultInv'
  BY <1>1 DEF TraverseInv, ExitsInv, ResultInv, Start
<1> QED BY <1>3, <1>4, <1>5, <1>6 DEF TraverseInv

LEMMA SettledExits ==
  ASSUME NEW b \in Branches, NEW r \in Reasons
  PROVE  /\ \A x \in {Success(<<b>>), Failure(<<Fail(b)>>), Failure(<<Die(b)>>),
                      Failure(<<Interrupted(r)>>)} :
               WellFormed(x, b)
<1>1. Fail(b) \in OwnLeaves(b) /\ Die(b) \in OwnLeaves(b) /\ Interrupted(r) \in OwnLeaves(b)
  BY DEF OwnLeaves
<1>2. Fail(b) \in Leaves /\ Die(b) \in Leaves /\ Interrupted(r) \in Leaves
  BY <1>1, LeavesFacts
<1> HIDE DEF Fail, Die, Interrupted
<1> QED BY <1>1, <1>2 DEF WellFormed, Success, Failure, Exits

LEMMA GiveUpInv ==
  ASSUME TraverseInv, NEW b \in Branches, GiveUp(b)
  PROVE  TraverseInv'
<1>1. TypeInv /\ branch[b] = "queued" /\ result = <<>>
  BY NotReturned DEF GiveUp, TraverseInv
<1>2. branch' = [branch EXCEPT ![b] = "reporting"] /\ reason[b] \in Reasons
  BY <1>1 DEF GiveUp, TypeInv
<1>3. PICK x : exit' = [exit EXCEPT ![b] = x] /\ WellFormed(x, b) /\ x \in Exits
  BY <1>2, SettledExits DEF GiveUp, WellFormed
<1>4. TypeInv'
  BY <1>1, <1>2, <1>3 DEF GiveUp, TypeInv, Phases
<1>5. Reported' = Reported /\ Working' = Working
  BY <1>1, <1>2 DEF Reported, Working, TypeInv
<1>6. ReportsInv' /\ PermitsInv'
  BY <1>5 DEF TraverseInv, ReportsInv, PermitsInv, GiveUp
<1>7. ExitsInv'
  BY <1>1, <1>3 DEF TraverseInv, ExitsInv, TypeInv
<1>8. ResultInv'
  BY <1>1 DEF ResultInv, GiveUp
<1> QED BY <1>4, <1>6, <1>7, <1>8 DEF TraverseInv

LEMMA BodySettlesInv ==
  ASSUME TraverseInv, NEW b \in Branches, BodySettles(b)
  PROVE  TraverseInv'
<1>1. TypeInv /\ branch[b] \in {"running", "doomed"} /\ result = <<>>
  BY NotReturned DEF BodySettles, TraverseInv
<1>2. branch' = [branch EXCEPT ![b] = "reporting"] /\ permits' = permits \ {b} /\ limit' = limit
  BY DEF BodySettles
<1>3. PICK x : exit' = [exit EXCEPT ![b] = x] /\ WellFormed(x, b) /\ x \in Exits
  <2>1. CASE reason[b] = None
    BY <2>1, LeavesFacts, SettledExits DEF BodySettles, WellFormed
  <2>2. CASE reason[b] # None
    <3>1. reason[b] \in Reasons
      BY <1>1, <2>2 DEF TypeInv
    <3> QED BY <3>1, SettledExits DEF BodySettles, WellFormed
  <2> QED BY <2>1, <2>2
<1>4. TypeInv'
  BY <1>1, <1>2, <1>3 DEF BodySettles, TypeInv, Phases
<1>5. Reported' = Reported /\ Working' = Working \ {b} /\ b \in Working
  BY <1>1, <1>2 DEF Reported, Working, TypeInv
<1>6. ReportsInv'
  BY <1>5 DEF TraverseInv, ReportsInv, BodySettles
<1>7. PermitsInv'
  <2>1. CASE limit = 0
    BY <1>2, <2>1 DEF TraverseInv, PermitsInv
  <2>2. CASE limit > 0
    <3>1. permits = Working /\ Cardinality(permits) <= limit
      BY <2>2 DEF TraverseInv, PermitsInv
    <3>2. Cardinality(permits') = Cardinality(permits) - 1 /\ Cardinality(permits) \in Nat
      BY <1>1, <1>2, <1>5, <3>1, BranchesFinite, FS_RemoveElement DEF TypeInv
    <3> QED BY <1>1, <1>2, <1>5, <2>2, <3>1, <3>2 DEF PermitsInv, TypeInv
  <2> QED BY <1>1, <2>1, <2>2 DEF TypeInv
<1>8. ExitsInv'
  BY <1>1, <1>3 DEF TraverseInv, ExitsInv, TypeInv
<1>9. ResultInv'
  BY <1>1 DEF ResultInv, BodySettles
<1> QED BY <1>4, <1>6, <1>7, <1>8, <1>9 DEF TraverseInv
LEMMA ReportInv ==
  ASSUME TraverseInv, NEW b \in Branches, Report(b)
  PROVE  TraverseInv'
<1>1. TypeInv /\ branch[b] = "reporting" /\ result = <<>>
  BY NotReturned DEF Report, TraverseInv
<1>2. branch' = [branch EXCEPT ![b] = "finalizing"] /\ heard' = heard
  BY DEF Report
<1>3. reports' \in Seq(BOOLEAN) /\ Len(reports') = Len(reports) + 1 /\ Len(reports) \in Nat
  <2>1. exit[b].ok \in BOOLEAN
    BY <1>1 DEF TypeInv, Exits
  <2> QED BY <1>1, <2>1 DEF Report, TypeInv
<1>4. TypeInv'
  BY <1>1, <1>2, <1>3 DEF Report, TypeInv, Phases
<1>5. Reported' = Reported \cup {b} /\ b \notin Reported /\ Working' = Working
  BY <1>1, <1>2 DEF Reported, Working, TypeInv
<1>6. ReportsInv'
  <2>1. IsFiniteSet(Reported)
    BY BranchesFinite DEF Reported
  <2>2. Cardinality(Reported') = Cardinality(Reported) + 1
    BY <1>5, <2>1, FS_AddElement
  <2> QED BY <1>1, <1>2, <1>3, <2>2 DEF TraverseInv, ReportsInv, TypeInv
<1>7. PermitsInv'
  BY <1>5 DEF TraverseInv, PermitsInv, Report
<1>8. ExitsInv' /\ ResultInv'
  BY <1>1 DEF TraverseInv, ExitsInv, ResultInv, Report
<1> QED BY <1>4, <1>6, <1>7, <1>8 DEF TraverseInv

LEMMA FinalizeInv ==
  ASSUME TraverseInv, NEW b \in Branches, Finalize(b)
  PROVE  TraverseInv'
<1>1. TypeInv /\ branch[b] = "finalizing" /\ result = <<>>
  BY NotReturned DEF Finalize, TraverseInv
<1>2. branch' = [branch EXCEPT ![b] = "completed"]
  BY DEF Finalize
<1>3. /\ WellFormed(exit[b], b) /\ exit[b] \in Exits
      /\ exit[b].cause \in Seq(OwnLeaves(b)) /\ exit[b].cause \in Seq(Leaves)
  BY <1>1 DEF TraverseInv, ExitsInv, WellFormed, Exits
<1>4. PICK x : exit' = [exit EXCEPT ![b] = x] /\ WellFormed(x, b) /\ x \in Exits
  <2>1. PICK cleanup \in {<<>>, <<Die(b)>>} : exit' = [exit EXCEPT ![b] = ComposeCleanup(exit[b], cleanup)]
    BY DEF Finalize
  <2> DEFINE x == ComposeCleanup(exit[b], cleanup)
  <2>2. CASE cleanup = <<>>
    BY <1>3, <2>1, <2>2 DEF ComposeCleanup
  <2>3. CASE cleanup # <<>>
    <3>1. x = Failure(exit[b].cause \o <<Die(b)>>)
      BY <2>1, <2>3 DEF ComposeCleanup, Compose
    <3>2. Die(b) \in OwnLeaves(b) /\ Die(b) \in Leaves
      BY DEF OwnLeaves, Leaves
    <3> DEFINE cause == exit[b].cause \o <<Die(b)>>
    <3>3. cause \in Seq(OwnLeaves(b)) /\ cause \in Seq(Leaves)
      <4> HIDE DEF Die
      <4> QED BY <1>3, <3>2
    <3> HIDE DEF cause
    <3>4. Failure(cause) \in Exits /\ WellFormed(Failure(cause), b)
      BY <3>3 DEF Failure, Exits, WellFormed
    <3>5. x = Failure(cause)
      BY <3>1 DEF cause
    <3> HIDE DEF x
    <3>6. x \in Exits /\ WellFormed(x, b)
      BY <3>4, <3>5
    <3> QED BY <2>1, <3>6 DEF x
  <2> QED BY <2>2, <2>3
<1>5. TypeInv'
  BY <1>1, <1>2, <1>4 DEF Finalize, TypeInv, Phases
<1>6. Reported' = Reported /\ Working' = Working
  BY <1>1, <1>2 DEF Reported, Working, TypeInv
<1>7. ReportsInv' /\ PermitsInv'
  BY <1>6 DEF TraverseInv, ReportsInv, PermitsInv, Finalize
<1>8. ExitsInv'
  BY <1>1, <1>4 DEF TraverseInv, ExitsInv, TypeInv
<1>9. ResultInv'
  BY <1>1 DEF ResultInv, Finalize
<1> QED BY <1>5, <1>7, <1>8, <1>9 DEF TraverseInv

\* What the invariant is about changes only with these.
LEMMA OtherSteps ==
  ASSUME TraverseInv, TypeInv',
         UNCHANGED <<limit, permits, branch, exit, reports, heard, result>>
  PROVE  TraverseInv'
<1>1. Reported' = Reported /\ Working' = Working
  BY DEF Reported, Working
<1>2. collectResults' = collectResults
  BY DEF collectResults
<1>3. ReportsInv' /\ PermitsInv' /\ ExitsInv' /\ ResultInv'
  BY <1>1, <1>2 DEF TraverseInv, ReportsInv, PermitsInv, ExitsInv, ResultInv
<1> QED BY <1>3 DEF TraverseInv

LEMMA CancelInv ==
  ASSUME TraverseInv, CancelCaller \/ \E b \in Branches : Propagate(b)
  PROVE  TraverseInv'
<1>1. TypeInv'
  <2>1. CASE CancelCaller
    BY <2>1 DEF TraverseInv, CancelCaller, TypeInv, Reasons
  <2>2. CASE \E b \in Branches : Propagate(b)
    BY <2>2 DEF TraverseInv, Propagate, TypeInv
  <2> QED BY <2>1, <2>2
<1>2. UNCHANGED <<limit, permits, branch, exit, reports, heard, result>>
  BY DEF CancelCaller, Propagate
<1> QED BY <1>1, <1>2, OtherSteps

LEMMA HearInv ==
  ASSUME TraverseInv, Hear
  PROVE  TraverseInv'
<1>1. heard' = heard + 1 /\ heard < Len(reports) /\ Len(reports) \in Nat /\ heard \in Nat
  BY DEF TraverseInv, TypeInv, Hear
<1>2. UNCHANGED <<limit, permits, reason, branch, exit, reports, caller, result>>
  BY DEF Hear
<1>3. TypeInv'
  <2>1. scope' \in Reasons \cup {None} /\ failed' \in BOOLEAN
    BY LeavesFacts DEF TraverseInv, TypeInv, Hear
  <2> QED BY <1>1, <1>2, <2>1 DEF TraverseInv, TypeInv
<1>4. Reported' = Reported /\ Working' = Working
  BY <1>2 DEF Reported, Working
<1>5. ReportsInv'
  BY <1>1, <1>2, <1>4 DEF TraverseInv, ReportsInv
<1>6. PermitsInv' /\ ExitsInv'
  BY <1>2, <1>4 DEF TraverseInv, PermitsInv, ExitsInv
<1>7. result = <<>>
  <2>1. Cardinality(Reported) <= Total /\ Total \in Nat
    BY BranchesFinite, TraverseConstants DEF Reported
  <2> QED BY <1>1, <2>1 DEF TraverseInv, ReportsInv, ResultInv
<1>8. ResultInv'
  BY <1>2, <1>7 DEF ResultInv
<1> QED BY <1>3, <1>5, <1>6, <1>8 DEF TraverseInv

LEMMA ReturnInv ==
  ASSUME TraverseInv, Return
  PROVE  TraverseInv'
<1>1. UNCHANGED <<limit, permits, scope, reason, branch, exit, reports, heard, failed, caller>>
  BY DEF Return
<1>2. TypeInv'
  BY <1>1 DEF TraverseInv, TypeInv
<1>3. Reported' = Reported /\ Working' = Working /\ collectResults' = collectResults
  BY <1>1 DEF Reported, Working, collectResults
<1>4. ReportsInv' /\ PermitsInv' /\ ExitsInv'
  BY <1>1, <1>3 DEF TraverseInv, ReportsInv, PermitsInv, ExitsInv
<1>5. ResultInv'
  BY <1>1, <1>3 DEF ResultInv, Return
<1> QED BY <1>2, <1>4, <1>5 DEF TraverseInv

\* Every behaviour of a traversal keeps the invariant.
THEOREM TraverseInvariant == Spec => []TraverseInv
<1>1. Init => TraverseInv
  BY InitInv
<1>2. TraverseInv /\ [Next]_vars => TraverseInv'
  <2> SUFFICES ASSUME TraverseInv, [Next]_vars PROVE TraverseInv'
    OBVIOUS
  <2>1. CASE Hear \/ Return \/ CancelCaller
    BY <2>1, HearInv, ReturnInv, CancelInv
  <2>2. CASE \E b \in Branches : Step(b)
    BY <2>2, StartInv, GiveUpInv, BodySettlesInv, ReportInv, FinalizeInv, CancelInv DEF Step
  <2>3. CASE UNCHANGED vars
    <3>1. TypeInv'
      BY <2>3 DEF TraverseInv, TypeInv, vars
    <3> QED BY <2>3, <3>1, OtherSteps DEF vars
  <2> QED BY <2>1, <2>2, <2>3 DEF Next
<1> QED BY <1>1, <1>2, PTL DEF Spec
-----------------------------------------------------------------------------
(* What the invariant says about the result *)

\* The causes that are combined: those of the branches that were only told to
\* stop count as nothing.
Kept(b) == IF IsInduced(exit[b].cause, CancelReason) THEN <<>> ELSE exit[b].cause
Combined == CombineBranchCauses([b \in Branches |-> exit[b].cause], CancelReason)

LEMMA CombinedFlat ==
  ASSUME TraverseInv
  PROVE  /\ FlatOf(Combined, [b \in Branches |-> Kept(b)], Total, Leaves)
         /\ \A b \in Branches : Kept(b) \in Seq(OwnLeaves(b))
<1>1. Total \in Nat /\ Total # 0
  BY TraverseConstants
<1> DEFINE kept == [b \in Branches |-> Kept(b)]
<1>2. \A b \in Branches : Kept(b) \in Seq(OwnLeaves(b)) /\ Kept(b) \in Seq(Leaves)
  <2> TAKE b \in Branches
  <2>1. exit[b].cause \in Seq(OwnLeaves(b)) /\ exit[b].cause \in Seq(Leaves)
    BY DEF TraverseInv, ExitsInv, WellFormed, Exits
  <2>2. <<>> \in Seq(OwnLeaves(b)) /\ <<>> \in Seq(Leaves)
    OBVIOUS
  <2> QED BY <2>1, <2>2 DEF Kept
<1>3. kept \in Seq(Seq(Leaves)) /\ Len(kept) = Total
  <2>1. kept \in [1..Total -> Seq(Leaves)]
    BY <1>2 DEF Branches
  <2> HIDE DEF kept
  <2> QED BY <1>1, <2>1
<1>4. Combined = FlattenSeq(kept)
  BY DEF Combined, CombineBranchCauses, Kept
<1> HIDE DEF kept
<1>5. FlatOf(FlattenSeq(kept), kept, Total, Leaves)
  BY <1>1, <1>3, FlattenSeqFlat
<1> QED BY <1>2, <1>4, <1>5 DEF kept

LEMMA AnswerType ==
  ASSUME TraverseInv
  PROVE  collectResults \in Exits
<1>1. Combined \in Seq(Leaves)
  BY CombinedFlat DEF FlatOf
<1>2. [b \in Branches |-> b] \in Seq(Branches)
  <2>1. Total \in Nat
    BY TraverseConstants
  <2>2. [b \in Branches |-> b] \in [1..Total -> Branches]
    BY DEF Branches
  <2> QED BY <2>1, <2>2
<1>3. <<>> \in Seq(Branches) /\ <<>> \in Seq(Leaves)
  OBVIOUS
<1>4. collectResults \in {Success([b \in Branches |-> b]), Failure(Combined)}
  BY DEF collectResults, Combined
<1>5. \A v \in Seq(Branches) : Success(v) \in Exits
  BY <1>3 DEF Success, Exits
<1>6. \A c \in Seq(Leaves) : Failure(c) \in Exits
  BY <1>3 DEF Failure, Exits
<1> QED BY <1>1, <1>2, <1>4, <1>5, <1>6

LEMMA ContainedFromInv == TraverseInv => BranchesContained
<1> SUFFICES ASSUME TraverseInv PROVE BranchesContained
  OBVIOUS
<1>1. heard \in 0..Total
  <2>1. Cardinality(Reported) <= Total /\ Total \in Nat
    BY BranchesFinite, TraverseConstants DEF Reported
  <2>2. heard \in Nat /\ Len(reports) \in Nat
    BY DEF TraverseInv, TypeInv
  <2> QED BY <2>1, <2>2 DEF TraverseInv, ReportsInv
<1>2. result \in Seq(Exits) /\ Len(result) <= 1
  <2>1. CASE result = <<>>
    BY <2>1
  <2>2. CASE result = <<collectResults>>
    <3> DEFINE x == collectResults
    <3>1. result = <<x>> /\ x \in Exits
      BY <2>2, AnswerType
    <3> HIDE DEF x
    <3>2. <<x>> \in Seq(Exits) /\ Len(<<x>>) = 1
      BY <3>1
    <3> QED BY <3>1, <3>2
  <2> QED BY <2>1, <2>2 DEF TraverseInv, ResultInv
<1>3. TypeOK
  BY <1>1, <1>2 DEF TypeOK, TraverseInv, TypeInv
<1>4. WithinLimit
  BY DEF WithinLimit, TraverseInv, PermitsInv
<1>5. NoRunaway
  <2> SUFFICES ASSUME Returned PROVE permits = {} /\ \A b \in Branches : branch[b] = "completed"
    BY DEF NoRunaway
  <2>1. \A b \in Branches : branch[b] = "completed"
    BY DEF TraverseInv, ResultInv, Returned
  <2>2. Working = {}
    BY <2>1 DEF Working
  <2>3. limit \in Nat
    BY DEF TraverseInv, TypeInv
  <2> QED BY <2>1, <2>2, <2>3 DEF TraverseInv, PermitsInv
<1> QED BY <1>3, <1>4, <1>5 DEF BranchesContained

LEMMA CompleteFromInv == TraverseInv => ResultComplete
<1> SUFFICES ASSUME TraverseInv, Returned PROVE AllOrNothing /\ EveryFailureReported
  BY DEF ResultComplete, AllOrNothing, EveryFailureReported
<1>1. Answer = collectResults
  BY DEF TraverseInv, ResultInv, Returned, Answer
<1>2. AllOrNothing
  BY <1>1 DEF AllOrNothing, collectResults, Success, Failure
<1>3. Answer.cause = IF \A b \in Branches : exit[b].ok THEN <<>> ELSE Combined
  BY <1>1 DEF collectResults, Combined, Success, Failure
<1>4. CASE \A b \in Branches : exit[b].ok
  <2>1. Answer.cause = <<>> /\ \A b \in Branches : exit[b].cause = <<>>
    BY <1>3, <1>4 DEF TraverseInv, ExitsInv, WellFormed
  <2> QED BY <1>2, <2>1 DEF EveryFailureReported
<1>5. CASE ~\A b \in Branches : exit[b].ok
  <2> DEFINE kept == [b \in Branches |-> Kept(b)]
  <2> DEFINE cause == Answer.cause
  <2>1. FlatOf(cause, kept, Total, Leaves)
    BY <1>3, <1>5, CombinedFlat
  <2>2. \A b \in Branches : kept[b] = Kept(b) /\ Kept(b) \in Seq(OwnLeaves(b))
    BY CombinedFlat
  <2> HIDE DEF kept, cause
  <2>3. cause \in Seq(Leaves) /\ DOMAIN cause = 1..Len(cause)
    BY <2>1 DEF FlatOf
  <2>4. ASSUME NEW b \in Branches, NEW i \in DOMAIN exit[b].cause,
               exit[b].cause[i].kind # "interrupt"
        PROVE  exit[b].cause[i] \in ToSet(cause)
    <3>1. kept[b] = exit[b].cause
      BY <2>2, <2>4 DEF Kept, IsInduced, Interrupted
    <3>2. PICK k \in 1..Len(cause) : cause[k] = kept[b][i]
      BY <2>1, <2>4, <3>1 DEF FlatOf, Branches
    <3> QED BY <2>3, <3>1, <3>2 DEF ToSet
  <2>5. ASSUME NEW i \in DOMAIN cause, NEW j \in DOMAIN cause, i < j, cause[j].from # Nobody
        PROVE  cause[i].from <= cause[j].from
    <3>1. PICK own \in [1..Len(cause) -> 1..Total] :
             /\ \A k \in 1..Len(cause) :
                   \E l \in DOMAIN kept[own[k]] : cause[k] = kept[own[k]][l]
             /\ \A k, l \in 1..Len(cause) : k < l => own[k] <= own[l]
      BY <2>1 DEF FlatOf
    <3>2. \A k \in 1..Len(cause) : cause[k] \in OwnLeaves(own[k])
      BY <2>2, <3>1 DEF Branches
    <3>3. \A k \in 1..Len(cause) : own[k] \in Nat /\ cause[k].from \in {Nobody, own[k]}
      BY <3>1, <3>2 DEF OwnLeaves, Fail, Die, Interrupted
    <3>4. own[i] <= own[j] /\ cause[j].from = own[j] /\ cause[i].from \in {0, own[i]}
      BY <2>3, <2>5, <3>1, <3>3 DEF Nobody
    <3> QED BY <2>3, <3>3, <3>4
  <2> QED BY <1>2, <2>4, <2>5 DEF EveryFailureReported, cause
<1> QED BY <1>4, <1>5

\* However many branches and whatever the limit, no more bodies are at work
\* than permits, and RunAll returns only when every branch has completed.
THEOREM TraverseContained == Spec => []BranchesContained
  BY TraverseInvariant, ContainedFromInv, PTL

\* However many branches and however they interleave, the result succeeds
\* exactly if all of them did, and loses nothing a branch failed of.
THEOREM TraverseComplete == Spec => []ResultComplete
  BY TraverseInvariant, CompleteFromInv, PTL
=============================================================================
