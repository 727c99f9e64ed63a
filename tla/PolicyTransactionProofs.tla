----------------------- MODULE PolicyTransactionProofs -----------------------
(***************************************************************************)
(* Proofs about PolicyTransaction, for every set of files, every plan and  *)
(* every choice of failures.                                               *)
(***************************************************************************)
EXTENDS PolicyTransaction, TLAPS

(* Facts about the plan a transaction carries.                             *)
PlanInv ==
  /\ \A j, k \in DOMAIN plan : plan[j].path = plan[k].path => j = k
  /\ \A k \in DOMAIN plan :
        plan[k].original = IF plan[k].path = Device
                           THEN NoRequest ELSE before[plan[k].path]
  /\ phase \in {"writing", "compensating", "applied"} => toOpen = {}

(* Nothing has moved yet.                                                  *)
CleanInv ==
  /\ phase \in {"idle", "preflight"} => image = before
  /\ phase = "idle" => plan = <<>>
  /\ phase = "preflight" => pos = 1
  /\ phase \in {"preflight", "writing", "applied"} => residue = {}

(* The first pos - 1 actions have been written, and nothing else.          *)
WritingInv ==
  phase = "writing" =>
    /\ pos \in 1..(Len(plan) + 1)
    /\ \A k \in DOMAIN plan :
          k < pos => \/ image[plan[k].path] = plan[k].value
                     \/ plan[k].path = Device /\ before[Device] # NoRequest
    /\ \A p \in Path : (\A k \in DOMAIN plan : k < pos => plan[k].path # p)
                          => image[p] = before[p]

(* Only the first pos actions may still be in place.                       *)
RollbackInv ==
  phase = "compensating" =>
    /\ pos \in 0..Len(plan)
    /\ \A p \in Path : \/ \E k \in DOMAIN plan : k <= pos /\ plan[k].path = p
                       \/ image[p] = before[p]
                       \/ Excused(p)

IInv ==
  /\ TypeOK
  /\ PlanInv
  /\ CleanInv
  /\ WritingInv
  /\ RollbackInv
  /\ NoSilentResidue
  /\ AppliedIsComplete

-----------------------------------------------------------------------------
LEMMA InitInv == Init => IInv
<1> SUFFICES ASSUME Init PROVE IInv
  OBVIOUS
<1> USE DEF Init
<1>1. TypeOK
  BY PathAssumption DEF TypeOK, Phase, Action
<1>2. PlanInv /\ CleanInv /\ WritingInv /\ RollbackInv
  BY DEF PlanInv, CleanInv, WritingInv, RollbackInv
<1>3. NoSilentResidue /\ AppliedIsComplete
  BY DEF NoSilentResidue, AppliedIsComplete
<1> QED
  BY <1>1, <1>2, <1>3 DEF IInv

(* The indices of a plan, and what an action of it looks like.             *)
LEMMA PlanShape ==
  ASSUME NEW p \in Seq(Action)
  PROVE  /\ DOMAIN p = 1..Len(p)
         /\ Len(p) \in Nat
         /\ \A k \in DOMAIN p : /\ p[k].path \in Path
                                /\ p[k].value \in Value
                                /\ p[k].original \in Value
<1>1. DOMAIN p = 1..Len(p) /\ Len(p) \in Nat
  OBVIOUS
<1>2. \A k \in DOMAIN p : p[k] \in Action
  BY <1>1
<1> QED
  BY <1>1, <1>2 DEF Action

LEMMA BeginInv == IInv /\ Begin => IInv'
<1> SUFFICES ASSUME IInv, Begin PROVE IInv'
  OBVIOUS
<1> USE DEF IInv, Begin
<1>1. plan' \in Seq(Action)
  BY PlansAssumption
<1>2. PathsOf(plan') \in SUBSET Path
  BY <1>1, PlanShape DEF PathsOf
<1>3. TypeOK'
  BY <1>1, <1>2, PlanShape DEF TypeOK, Phase
<1>4. PlanInv'
  BY DEF PlanInv, WellFormed, Compensation
<1>5. CleanInv'
  BY DEF CleanInv
<1>6. WritingInv' /\ RollbackInv' /\ NoSilentResidue' /\ AppliedIsComplete'
  BY DEF WritingInv, RollbackInv, NoSilentResidue, AppliedIsComplete
<1> QED
  BY <1>3, <1>4, <1>5, <1>6

LEMMA PreflightInv == IInv /\ Preflight => IInv'
<1> SUFFICES ASSUME IInv, Preflight PROVE IInv'
  OBVIOUS
<1> USE DEF IInv
<1>1. ASSUME NEW path \in Path, PreflightOpen(path) PROVE IInv'
  <2> USE <1>1 DEF PreflightOpen
  <2>1. TypeOK'
    BY DEF TypeOK
  <2>2. PlanInv' /\ CleanInv'
    BY DEF PlanInv, CleanInv
  <2>3. WritingInv' /\ RollbackInv' /\ NoSilentResidue' /\ AppliedIsComplete'
    BY DEF WritingInv, RollbackInv, NoSilentResidue, AppliedIsComplete
  <2> QED
    BY <2>1, <2>2, <2>3
<1>2. ASSUME NEW path \in Path, PreflightReject(path) PROVE IInv'
  <2> USE <1>2 DEF PreflightReject, NextToOpen
  <2>1. TypeOK'
    BY DEF TypeOK, Phase
  <2>2. PlanInv' /\ CleanInv'
    BY DEF PlanInv, CleanInv
  <2>3. WritingInv' /\ RollbackInv' /\ AppliedIsComplete'
    BY DEF WritingInv, RollbackInv, AppliedIsComplete
  <2>4. NoSilentResidue'
    BY DEF NoSilentResidue, CleanInv
  <2> QED
    BY <2>1, <2>2, <2>3, <2>4
<1>3. CASE PreflightDone
  <2> USE <1>3 DEF PreflightDone
  <2>1. TypeOK'
    BY DEF TypeOK, Phase
  <2>2. PlanInv' /\ CleanInv'
    BY DEF PlanInv, CleanInv
  <2>3. WritingInv'
    BY PlanShape DEF WritingInv, CleanInv, TypeOK
  <2>4. RollbackInv' /\ NoSilentResidue' /\ AppliedIsComplete'
    BY DEF RollbackInv, NoSilentResidue, AppliedIsComplete
  <2> QED
    BY <2>1, <2>2, <2>3, <2>4
<1> QED
  BY <1>1, <1>2, <1>3 DEF Preflight

LEMMA ExecuteInv == IInv /\ Execute => IInv'
<1> SUFFICES ASSUME IInv, Execute PROVE IInv'
  OBVIOUS
<1>0. /\ DOMAIN plan = 1..Len(plan) /\ Len(plan) \in Nat
      /\ \A k \in DOMAIN plan : plan[k].path \in Path /\ plan[k].value \in Value
  BY PlanShape DEF IInv, TypeOK
<1> USE <1>0 DEF IInv
<1>1. CASE Write
  <2> USE <1>1 DEF Write
  <2>1. TypeOK'
    BY DEF TypeOK
  <2>2. PlanInv' /\ CleanInv' /\ RollbackInv'
    BY DEF PlanInv, CleanInv, RollbackInv
  <2>3. WritingInv'
    <3>1. pos' \in 1..(Len(plan') + 1)
      BY DEF WritingInv
    <3>2. ASSUME NEW k \in DOMAIN plan, k < pos + 1
          PROVE  \/ image'[plan[k].path] = plan[k].value
                 \/ plan[k].path = Device /\ before[Device] # NoRequest
      <4>1. CASE k = pos
        BY <4>1 DEF TypeOK
      <4>2. CASE k < pos
        <5>1. plan[k].path # plan[pos].path
          BY <4>2 DEF PlanInv
        <5> QED
          BY <4>2, <5>1 DEF WritingInv, TypeOK
      <4> QED
        BY <3>2, <4>1, <4>2 DEF TypeOK
    <3>3. ASSUME NEW p \in Path, \A k \in DOMAIN plan : k < pos + 1 => plan[k].path # p
          PROVE  image'[p] = before[p]
      <4>1. p # plan[pos].path
        BY <3>3
      <4>2. \A k \in DOMAIN plan : k < pos => plan[k].path # p
        BY <3>3
      <4> QED
        BY <4>1, <4>2 DEF WritingInv, TypeOK
    <3> QED
      BY <3>1, <3>2, <3>3 DEF WritingInv
  <2>4. NoSilentResidue' /\ AppliedIsComplete'
    BY DEF NoSilentResidue, AppliedIsComplete
  <2> QED
    BY <2>1, <2>2, <2>3, <2>4
<1>2. CASE WriteSwallowed
  <2> USE <1>2 DEF WriteSwallowed
  <2>1. TypeOK'
    BY DEF TypeOK
  <2>2. PlanInv' /\ CleanInv' /\ RollbackInv'
    BY DEF PlanInv, CleanInv, RollbackInv
  <2>3. WritingInv'
    (* The device is still untouched, so it was held before the plan. *)
    <3>1. \A k \in DOMAIN plan : k < pos => plan[k].path # Device
      BY DEF PlanInv
    <3>2. before[Device] # NoRequest
      BY <3>1 DEF WritingInv, Held
    <3> QED
      BY <3>2 DEF WritingInv
  <2>4. NoSilentResidue' /\ AppliedIsComplete'
    BY DEF NoSilentResidue, AppliedIsComplete
  <2> QED
    BY <2>1, <2>2, <2>3, <2>4
<1>3. CASE WriteFails
  <2> USE <1>3 DEF WriteFails
  <2>1. TypeOK'
    BY DEF TypeOK, Phase
  <2>2. PlanInv' /\ CleanInv' /\ WritingInv'
    BY DEF PlanInv, CleanInv, WritingInv
  <2>3. RollbackInv'
    <3>1. ASSUME NEW p \in Path, ~ \E k \in DOMAIN plan : k <= pos - 1 /\ plan[k].path = p
          PROVE  image[p] = before[p]
      <4>1. \A k \in DOMAIN plan : k < pos => plan[k].path # p
        BY <3>1
      <4> QED
        BY <4>1 DEF WritingInv
    <3> QED
      BY <3>1 DEF RollbackInv
  <2>4. NoSilentResidue' /\ AppliedIsComplete'
    BY DEF NoSilentResidue, AppliedIsComplete
  <2> QED
    BY <2>1, <2>2, <2>3, <2>4
<1>4. CASE Finish
  <2> USE <1>4 DEF Finish
  <2>1. TypeOK'
    BY DEF TypeOK, Phase
  <2>2. PlanInv' /\ CleanInv' /\ WritingInv' /\ RollbackInv'
    BY DEF PlanInv, CleanInv, WritingInv, RollbackInv
  <2>3. AppliedIsComplete'
    <3>1. \A k \in DOMAIN plan : k < pos
      BY DEF WritingInv
    <3>2. \A p \in Path \ PathsOf(plan) : image[p] = before[p]
      BY DEF WritingInv, PathsOf
    <3> QED
      BY <3>1, <3>2 DEF WritingInv, AppliedIsComplete
  <2>4. NoSilentResidue'
    BY DEF NoSilentResidue
  <2> QED
    BY <2>1, <2>2, <2>3, <2>4
<1> QED
  BY <1>1, <1>2, <1>3, <1>4 DEF Execute

LEMMA RollbackStepInv == IInv /\ Rollback => IInv'
<1> SUFFICES ASSUME IInv, Rollback PROVE IInv'
  OBVIOUS
<1>0. /\ DOMAIN plan = 1..Len(plan) /\ Len(plan) \in Nat
      /\ \A k \in DOMAIN plan : plan[k].path \in Path /\ plan[k].original \in Value
  BY PlanShape DEF IInv, TypeOK
<1> USE <1>0 DEF IInv
<1>1. CASE Compensate
  <2> USE <1>1 DEF Compensate
  <2>1. TypeOK'
    BY DEF TypeOK
  <2>2. PlanInv' /\ CleanInv' /\ WritingInv'
    BY DEF PlanInv, CleanInv, WritingInv
  <2>3. ASSUME NEW p \in Path
        PROVE  \/ \E k \in DOMAIN plan : k <= pos - 1 /\ plan[k].path = p
               \/ image'[p] = before[p]
               \/ Excused(p)'
    <3>1. CASE p = plan[pos].path
      BY <3>1 DEF TypeOK, PlanInv, Excused
    <3>2. CASE p # plan[pos].path
      <4>1. image'[p] = image[p]
        BY <3>2 DEF TypeOK
      <4> QED
        BY <3>2, <4>1 DEF RollbackInv, Excused
    <3> QED
      BY <3>1, <3>2
  <2>4. RollbackInv'
    BY <2>3 DEF RollbackInv
  <2>5. NoSilentResidue' /\ AppliedIsComplete'
    BY DEF NoSilentResidue, AppliedIsComplete
  <2> QED
    BY <2>1, <2>2, <2>4, <2>5
<1>2. CASE CompensateFails
  <2> USE <1>2 DEF CompensateFails
  <2>1. TypeOK'
    BY PathAssumption DEF TypeOK
  <2>2. PlanInv' /\ CleanInv' /\ WritingInv'
    BY DEF PlanInv, CleanInv, WritingInv
  <2>3. ASSUME NEW p \in Path
        PROVE  \/ \E k \in DOMAIN plan : k <= pos - 1 /\ plan[k].path = p
               \/ image'[p] = before[p]
               \/ Excused(p)'
    <3>1. CASE p = plan[pos].path
      BY <3>1 DEF Excused
    <3>2. CASE p # plan[pos].path
      <4>1. image'[p] = image[p] \/ Excused(p)'
        BY <3>2 DEF TypeOK, Excused
      <4> QED
        BY <3>2, <4>1 DEF RollbackInv, Excused
    <3> QED
      BY <3>1, <3>2
  <2>4. RollbackInv'
    BY <2>3 DEF RollbackInv
  <2>5. NoSilentResidue' /\ AppliedIsComplete'
    BY DEF NoSilentResidue, AppliedIsComplete
  <2> QED
    BY <2>1, <2>2, <2>4, <2>5
<1>3. CASE Raise
  <2> USE <1>3 DEF Raise
  <2>1. TypeOK'
    BY DEF TypeOK, Phase
  <2>2. PlanInv' /\ CleanInv' /\ WritingInv' /\ RollbackInv' /\ AppliedIsComplete'
    BY DEF PlanInv, CleanInv, WritingInv, RollbackInv, AppliedIsComplete
  <2>3. NoSilentResidue'
    BY DEF NoSilentResidue, RollbackInv, Excused
  <2> QED
    BY <2>1, <2>2, <2>3
<1> QED
  BY <1>1, <1>2, <1>3 DEF Rollback

LEMMA CallerInv == IInv /\ (Outside \/ Settle) => IInv'
<1> SUFFICES ASSUME IInv, Outside \/ Settle PROVE IInv'
  OBVIOUS
<1> USE DEF IInv
<1>1. CASE Outside
  <2> USE <1>1 DEF Outside
  <2>1. TypeOK'
    BY DEF TypeOK
  <2>2. PlanInv' /\ CleanInv' /\ WritingInv' /\ RollbackInv'
    BY PlanShape DEF PlanInv, CleanInv, WritingInv, RollbackInv, TypeOK
  <2>3. NoSilentResidue' /\ AppliedIsComplete'
    BY DEF NoSilentResidue, AppliedIsComplete
  <2> QED
    BY <2>1, <2>2, <2>3
<1>2. CASE Settle
  <2> USE <1>2 DEF Settle
  <2>1. TypeOK'
    BY DEF TypeOK, Phase
  <2>2. PlanInv' /\ CleanInv' /\ WritingInv' /\ RollbackInv'
    BY DEF PlanInv, CleanInv, WritingInv, RollbackInv
  <2>3. NoSilentResidue' /\ AppliedIsComplete'
    BY DEF NoSilentResidue, AppliedIsComplete
  <2> QED
    BY <2>1, <2>2, <2>3
<1> QED
  BY <1>1, <1>2

LEMMA StutterInv == IInv /\ UNCHANGED vars => IInv'
BY DEF vars, IInv, TypeOK, PlanInv, CleanInv, WritingInv, RollbackInv,
       NoSilentResidue, AppliedIsComplete, Excused

LEMMA NextInv == IInv /\ [Next]_vars => IInv'
BY BeginInv, PreflightInv, ExecuteInv, RollbackStepInv, CallerInv, StutterInv DEF Next

LEMMA Inductive == Spec => []IInv
BY InitInv, NextInv, PTL DEF Spec

-----------------------------------------------------------------------------
(* Every variable keeps its type, for any plan: sysfs.py:505-531.          *)
THEOREM TypeCorrect == Spec => []TypeOK
BY Inductive, PTL DEF IInv

(* However many writes and compensations fail, a failed transaction names  *)
(* every file it left changed: sysfs.py:520-531.                           *)
THEOREM ResidueIsReported == Spec => []NoSilentResidue
BY Inductive, PTL DEF IInv

(* A transaction that returns normally wrote its whole plan and nothing    *)
(* else: sysfs.py:516-519.                                                 *)
THEOREM AppliedMeansApplied == Spec => []AppliedIsComplete
BY Inductive, PTL DEF IInv

(* No file changes before all of them were opened: sysfs.py:486-503, 512.  *)
THEOREM NoWriteBeforePreflight == Spec => PreflightFirst
<1>1. ASSUME IInv, [Next]_vars
      PROVE  image' # image => phase = "idle" \/ toOpen = {}
  <2> USE <1>1 DEF IInv, PlanInv
  <2>1. CASE Outside \/ Settle \/ Begin
    BY <2>1 DEF Outside, Settle, Begin
  <2>2. CASE Preflight
    BY <2>2 DEF Preflight, PreflightOpen, PreflightReject, PreflightDone
  <2>3. CASE Execute
    BY <2>3 DEF Execute, Write, WriteSwallowed, WriteFails, Finish
  <2>4. CASE Rollback
    BY <2>4 DEF Rollback, Compensate, CompensateFails, Raise
  <2>5. CASE UNCHANGED vars
    BY <2>5 DEF vars
  <2> QED
    BY <2>1, <2>2, <2>3, <2>4, <2>5 DEF Next
<1>2. IInv /\ [Next]_vars
        => [image' # image => phase = "idle" \/ toOpen = {}]_vars
  BY <1>1
<1> QED
  BY <1>2, Inductive, PTL DEF Spec, PreflightFirst

-----------------------------------------------------------------------------
(* The three views of the state the refinement maps.                       *)
LEMMA OutcomeIs ==
  /\ phase = "idle" => Outcome = "none"
  /\ phase \in {"preflight", "writing", "compensating"} => Outcome = "pending"
  /\ phase \in {"applied", "failed"} => Outcome = phase
BY DEF Outcome

LEMMA OutcomeNextIs ==
  /\ phase' = "idle" => Outcome' = "none"
  /\ phase' \in {"preflight", "writing", "compensating"} => Outcome' = "pending"
  /\ phase' \in {"applied", "failed"} => Outcome' = phase'
BY DEF Outcome

(* The executor does, step by step, what README.md:23 promises: the plan   *)
(* takes effect as one atomic commit, or an abort that names its residue.  *)
THEOREM Refinement == Spec => ImplementsPromise
<1>1. Init => Promise!Init
  BY OutcomeIs DEF Init, Promise!Init
<1>2. IInv /\ [Next]_vars => [Promise!Next]_(Promise!vars)
  <2> SUFFICES ASSUME IInv, [Next]_vars
               PROVE  [Promise!Next]_(Promise!vars)
    OBVIOUS
  <2>0. TypeOK /\ TypeOK'
    BY NextInv DEF IInv
  <2> USE OutcomeIs, OutcomeNextIs DEF Promise!vars
  <2>1. CASE Outside
    BY <2>1 DEF Outside, Promise!Next, Promise!Outside
  <2>2. CASE Begin
    <3>1. {<<plan'[k].path, plan'[k].value>> : k \in DOMAIN plan'} \in SUBSET (Path \X Value)
      BY <2>0, PlanShape DEF TypeOK
    <3>2. Promise!Start
      BY <2>2, <3>1 DEF Begin, Promise!Start
    <3> QED
      BY <3>2 DEF Promise!Next
  <2>3. CASE Preflight
    <3>1. CASE \E path \in Path : PreflightReject(path)
      BY <2>0, <3>1 DEF PreflightReject, IInv, CleanInv, TypeOK, Promise!Next, Promise!Abort
    <3>2. CASE PreflightDone \/ \E path \in Path : PreflightOpen(path)
      BY <3>2 DEF PreflightDone, PreflightOpen
    <3> QED
      BY <2>3, <3>1, <3>2 DEF Preflight
  <2>4. CASE Execute
    <3>1. CASE Finish
      <4>1. AppliedIsComplete'
        BY NextInv DEF IInv
      <4>2. Promise!Commit
        BY <2>0, <3>1, <4>1
           DEF Finish, IInv, CleanInv, TypeOK, AppliedIsComplete, PathsOf, Promise!Commit
      <4> QED
        BY <4>2 DEF Promise!Next
    <3>2. CASE Write \/ WriteSwallowed \/ WriteFails
      BY <3>2 DEF Write, WriteSwallowed, WriteFails
    <3> QED
      BY <2>4, <3>1, <3>2 DEF Execute
  <2>5. CASE Rollback
    <3>1. CASE Raise
      <4>1. NoSilentResidue'
        BY NextInv DEF IInv
      <4>2. Promise!Abort
        BY <2>0, <3>1, <4>1 DEF Raise, TypeOK, NoSilentResidue, Excused, Promise!Abort
      <4> QED
        BY <4>2 DEF Promise!Next
    <3>2. CASE Compensate \/ CompensateFails
      BY <3>2 DEF Compensate, CompensateFails
    <3> QED
      BY <2>5, <3>1, <3>2 DEF Rollback
  <2>6. CASE Settle
    BY <2>6 DEF Settle, Promise!Next, Promise!Settle
  <2>7. CASE UNCHANGED vars
    BY <2>7 DEF vars, Outcome
  <2> QED
    BY <2>1, <2>2, <2>3, <2>4, <2>5, <2>6, <2>7 DEF Next
<1> QED
  BY <1>1, <1>2, Inductive, PTL DEF Spec, ImplementsPromise, Promise!Spec
=============================================================================
