-------------------------- MODULE PolicyTransaction --------------------------
(***************************************************************************)
(* The executor of src/boostlock/sysfs.py:486-531 together with the        *)
(* opener and writer daemon.py:824-865 gives it: preflight every path,     *)
(* write the actions in order, and on a failed write compensate the        *)
(* completed ones in reverse.  The plan is any sequence of actions whose   *)
(* original values were read when the plan was built (sysfs.py:533-546);   *)
(* StartupTransaction says which plan the daemon builds.                   *)
(*                                                                         *)
(* Nothing else writes the planned files while a transaction runs.         *)
(***************************************************************************)
EXTENDS Integers, Sequences, FiniteSets

CONSTANTS
  Path,       \* files the transaction may write, resolved
  Value,      \* what a file can hold
  Device,     \* the path of /dev/cpu_dma_latency
  NoRequest,  \* Device while no descriptor is held ("release" as a value)
  NoPath,     \* "the error names no path"
  Plans       \* the plans the caller may pass: sequences of Action

Action == [path: Path, value: Value, original: Value]

ASSUME PathAssumption == NoPath \notin Path /\ NoRequest \in Value
ASSUME PlansAssumption == Plans \subseteq Seq(Action)

VARIABLES
  phase,      \* where execute_policy_apply_plan is
  plan,       \* plan.actions
  toOpen,     \* preflight paths not opened yet
  pos,        \* next action to write, or next one to compensate
  image,      \* what each file holds
  residue,    \* rollback_errors: paths whose compensation failed
  culprit,    \* the path the SysfsError says it failed to apply
  before      \* history: the image when the plan was built

vars == <<phase, plan, toOpen, pos, image, residue, culprit, before>>

Phase == {"idle", "preflight", "writing", "compensating", "applied", "failed"}

PathsOf(p) == {p[k].path : k \in DOMAIN p}

(* The value that undoes an action: what was read, or "release".           *)
Compensation(path) == IF path = Device THEN NoRequest ELSE image[path]

(* A daemon plan names each file once and snapshots every one of them.     *)
WellFormed(p) ==
  /\ \A j, k \in DOMAIN p : p[j].path = p[k].path => j = k
  /\ \A k \in DOMAIN p : p[k].original = Compensation(p[k].path)

(* PMQoSController already holds the descriptor (pm_qos.py:111).           *)
Held == image[Device] # NoRequest

-----------------------------------------------------------------------------
Init ==
  /\ phase = "idle"
  /\ plan = <<>>
  /\ toOpen = {}
  /\ pos = 1
  /\ image \in [Path -> Value]
  /\ residue = {}
  /\ culprit = NoPath
  /\ before = image

Outside ==
  /\ phase = "idle"
  /\ image' \in [Path -> Value]
  /\ before' = image'
  /\ UNCHANGED <<phase, plan, toOpen, pos, residue, culprit>>

Begin ==
  /\ phase = "idle"
  /\ plan' \in Plans
  /\ WellFormed(plan')
  /\ phase' = "preflight"
  /\ toOpen' = PathsOf(plan')
  /\ pos' = 1
  /\ residue' = {}
  /\ culprit' = NoPath
  /\ before' = image
  /\ UNCHANGED image

(* The paths are opened and closed in plan order.                          *)
NextToOpen(path) ==
  /\ path \in toOpen
  /\ \E k \in DOMAIN plan : /\ plan[k].path = path
                           /\ \A j \in 1..(k - 1) : plan[j].path \notin toOpen

PreflightOpen(path) ==
  /\ phase = "preflight"
  /\ NextToOpen(path)
  /\ toOpen' = toOpen \ {path}
  /\ UNCHANGED <<phase, plan, pos, image, residue, culprit, before>>

PreflightReject(path) ==
  /\ phase = "preflight"
  /\ NextToOpen(path)
  /\ phase' = "failed"
  /\ culprit' = path
  /\ UNCHANGED <<plan, toOpen, pos, image, residue, before>>
(* Faulty variant: the writes start while paths are still unopened.        *)
PreflightCutShort ==
  /\ phase = "preflight"
  /\ phase' = "writing"
  /\ UNCHANGED <<plan, toOpen, pos, image, residue, culprit, before>>

PreflightDone ==
  /\ phase = "preflight"
  /\ toOpen = {}
  /\ phase' = "writing"
  /\ UNCHANGED <<plan, toOpen, pos, image, residue, culprit, before>>

Write ==
  /\ phase = "writing"
  /\ pos \in DOMAIN plan
  /\ image' = [image EXCEPT ![plan[pos].path] = plan[pos].value]
  /\ pos' = pos + 1
  /\ UNCHANGED <<phase, plan, toOpen, residue, culprit, before>>
(* Faulty variant: any failed write is logged and counted as done.         *)
WriteSwallowedAnywhere ==
  /\ phase = "writing"
  /\ pos \in DOMAIN plan
  /\ pos' = pos + 1
  /\ UNCHANGED <<phase, plan, toOpen, image, residue, culprit, before>>

(* A failed update of a descriptor already held is logged and lock()       *)
(* returns True, so the executor counts the action as completed.           *)
WriteSwallowed ==
  /\ phase = "writing"
  /\ pos \in DOMAIN plan
  /\ plan[pos].path = Device
  /\ Held
  /\ pos' = pos + 1
  /\ UNCHANGED <<phase, plan, toOpen, image, residue, culprit, before>>
(* Faulty variant: compensation starts one action too early in the plan.   *)
WriteFailsOffByOne ==
  /\ phase = "writing"
  /\ pos \in DOMAIN plan
  /\ ~(plan[pos].path = Device /\ Held)
  /\ phase' = "compensating"
  /\ pos' = pos - 2
  /\ culprit' = plan[pos].path
  /\ UNCHANGED <<plan, toOpen, image, residue, before>>

(* A rejected sysfs store changes nothing; a failed lock() of the device   *)
(* closes its descriptor and release_strict finds nothing left to close.   *)
WriteFails ==
  /\ phase = "writing"
  /\ pos \in DOMAIN plan
  /\ ~(plan[pos].path = Device /\ Held)
  /\ phase' = "compensating"
  /\ pos' = pos - 1
  /\ culprit' = plan[pos].path
  /\ UNCHANGED <<plan, toOpen, image, residue, before>>

(* Faulty variant: success is reported before the last write.              *)
FinishEarly ==
  /\ phase = "writing"
  /\ phase' = "applied"
  /\ UNCHANGED <<plan, toOpen, pos, image, residue, culprit, before>>

Finish ==
  /\ phase = "writing"
  /\ pos \notin DOMAIN plan
  /\ phase' = "applied"
  /\ UNCHANGED <<plan, toOpen, pos, image, residue, culprit, before>>

(* The loop has the name of the first loop for its variable, so the error  *)
(* will blame the action that was compensated last (sysfs.py:522, 528).    *)
Compensate ==
  /\ phase = "compensating"
  /\ pos \in DOMAIN plan
  /\ image' = [image EXCEPT ![plan[pos].path] = plan[pos].original]
  /\ pos' = pos - 1
  /\ culprit' = plan[pos].path
  /\ UNCHANGED <<phase, plan, toOpen, residue, before>>

(* Faulty variant: the first failed compensation ends the loop.            *)
CompensateGivesUp ==
  /\ phase = "compensating"
  /\ pos \in DOMAIN plan
  /\ residue' = residue \cup {plan[pos].path}
  /\ phase' = "failed"
  /\ culprit' = plan[pos].path
  /\ UNCHANGED <<plan, toOpen, pos, image, before>>

(* The loop goes on after a failed compensation.  A failed close of the    *)
(* device is reported although the kernel has dropped the request.         *)
CompensateFails ==
  /\ phase = "compensating"
  /\ pos \in DOMAIN plan
  /\ residue' = residue \cup {plan[pos].path}
  /\ image' = IF plan[pos].path = Device
              THEN [image EXCEPT ![Device] = NoRequest]
              ELSE image
  /\ pos' = pos - 1
  /\ culprit' = plan[pos].path
  /\ UNCHANGED <<phase, plan, toOpen, before>>

Raise ==
  /\ phase = "compensating"
  /\ pos \notin DOMAIN plan
  /\ phase' = "failed"
  /\ UNCHANGED <<plan, toOpen, pos, image, residue, culprit, before>>

(* The caller has the result; the plan and its bookkeeping were local.     *)
Settle ==
  /\ phase \in {"applied", "failed"}
  /\ phase' = "idle"
  /\ plan' = <<>>
  /\ toOpen' = {}
  /\ pos' = 1
  /\ residue' = {}
  /\ culprit' = NoPath
  /\ before' = image
  /\ UNCHANGED image

Preflight ==
  \/ \E path \in Path : PreflightOpen(path) \/ PreflightReject(path)
  \/ PreflightDone

Execute == Write \/ WriteSwallowed \/ WriteFails \/ Finish

Rollback == Compensate \/ CompensateFails \/ Raise

Next == Outside \/ Begin \/ Preflight \/ Execute \/ Rollback \/ Settle

Spec == Init /\ [][Next]_vars

(* The executor is a straight-line function: it runs until it returns.     *)
FairSpec == Spec /\ WF_vars(Preflight) /\ WF_vars(Execute) /\ WF_vars(Rollback)

-----------------------------------------------------------------------------
TypeOK ==
  /\ phase \in Phase
  /\ plan \in Seq(Action)
  /\ toOpen \in SUBSET Path
  /\ pos \in 0..(Len(plan) + 1)
  /\ image \in [Path -> Value]
  /\ residue \in SUBSET Path
  /\ culprit \in Path \cup {NoPath}
  /\ before \in [Path -> Value]

(* What a failed transaction may have changed: a path whose compensation   *)
(* failed, or a latency request that it dropped.                           *)
Excused(p) == p \in residue \/ (p = Device /\ image[p] = NoRequest)

(* README.md:23: a failed transaction leaves no silent residue.  Every     *)
(* path holds what it held when the plan was built unless the error names  *)
(* it, however many writes and compensations failed.                       *)
NoSilentResidue ==
  phase = "failed" => \A p \in Path : image[p] = before[p] \/ Excused(p)

(* A transaction that reports success wrote the whole plan and nothing     *)
(* but the plan; only a latency request that was already held may keep     *)
(* its old value.                                                          *)
AppliedIsComplete ==
  phase = "applied" =>
    /\ \A k \in DOMAIN plan :
          \/ image[plan[k].path] = plan[k].value
          \/ plan[k].path = Device /\ before[Device] # NoRequest
    /\ \A p \in Path \ PathsOf(plan) : image[p] = before[p]

(* README.md:23: no file is written before every planned file was opened   *)
(* for writing.                                                            *)
PreflightFirst ==
  [][image' # image => phase = "idle" \/ toOpen = {}]_vars

(* Until it returns, an outside reader is promised the old image.          *)
Outcome ==
  IF phase = "idle" THEN "none"
  ELSE IF phase \in {"applied", "failed"} THEN phase ELSE "pending"

Promise == INSTANCE AtomicApply WITH
  outcome  <- Outcome,
  wanted   <- {<<plan[k].path, plan[k].value>> : k \in DOMAIN plan},
  image    <- IF Outcome = "pending" THEN before ELSE image,
  reported <- IF Outcome = "pending" THEN {} ELSE residue

(* Step by step the executor does what AtomicApply promises.               *)
ImplementsPromise == Promise!Spec
=============================================================================
