--------------------------- MODULE SnapshotRestore ---------------------------
(***************************************************************************)
(* StateSnapshotManager (src/boostlock/state.py) on the policies a daemon  *)
(* changes: create_snapshot() of the planned controls, and restore() from  *)
(* memory, from the file (`boostlock restore` after a crash, cli.py:270)   *)
(* or from nothing.  A restore is many writes: while it runs a write may   *)
(* fail, a policy may go offline or come back, another program may write   *)
(* the same files, and the process may be killed.                          *)
(*                                                                         *)
(* A control is a frequency bound, the governor or the boost switch (cpb,  *)
(* EPP and EPB are written the way the boost switch is).  Policies may     *)
(* share one boost file; the plan names a shared file once, so the         *)
(* snapshot holds it under the first of them.                              *)
(***************************************************************************)
EXTENDS Integers, FiniteSets

CONSTANTS
  Count,        \* policies 1..Count, in the order of the snapshot
  MaxFreq,      \* frequencies 1..MaxFreq
  BoostOf,      \* the boost file of each policy
  Plans,        \* sets of controls a plan may change
  MaxHotplug    \* bound: policies going offline or coming back

Policies == 1..Count
Controls == {"min", "max", "governor", "boost"}
Bounds == {"min", "max"}

ASSUME CountAssumption == Count \in Nat \ {0} /\ MaxFreq \in Nat \ {0}
ASSUME BoundAssumption == MaxHotplug \in Nat
ASSUME BoostAssumption == \A p \in Policies : BoostOf[p] \in Policies
(* A control of a policy, and the file behind it.                          *)
Keys == Policies \X Controls
Node(k) == IF k[2] = "boost" THEN <<BoostOf[k[1]], "boost">> ELSE k
Nodes == {Node(k) : k \in Keys}
Value(n) == IF n[2] \in Bounds THEN 1..MaxFreq ELSE 0..1
NoSnapshot == <<>>

ASSUME PlansAssumption ==
  \A plan \in Plans : /\ plan # {} /\ plan \subseteq Keys
                     /\ \A j, k \in plan : Node(j) = Node(k) => j = k

VARIABLES
  phase,        \* "idle", "running", "restoring", "done" or "crashed"
  image,        \* the values of the files
  gone,         \* policies that are offline
  snapshot,     \* manager.snapshot: the value of each captured control
  snapFile,     \* the same, on disk
  source,       \* target_snapshot of the restore under way
  seen,         \* the policies it discovered, with their bounds
  pending,      \* the policies it has not come to
  current,      \* the policy it is restoring, or 0
  todo,         \* the controls it has still to write there
  errors,       \* <<policy, what failed>>
  orig,         \* history: the files when the snapshot was taken
  persisted,    \* history: it reached the disk, and no restore has removed it
  raced,        \* history: another program wrote during the restore
  refused,      \* history: cpufreq refused a bound
  plugs         \* hotplug events so far

restoreVars == <<source, seen, pending, current, todo, errors>>
history == <<orig, persisted, raced, refused>>
vars == <<phase, image, gone, snapshot, snapFile, restoreVars, history, plugs>>

(* cpufreq refuses a minimum above the maximum.                            *)
Legal(img) == \A p \in Policies : img[<<p, "min">>] <= img[<<p, "max">>]
Accepts(img, n, v) ==
  /\ n[2] = "min" => v <= img[<<n[1], "max">>]
  /\ n[2] = "max" => v >= img[<<n[1], "min">>]

Images == {img \in [Nodes -> 0..MaxFreq] :
             (\A n \in Nodes : img[n] \in Value(n)) /\ Legal(img)}

(* The switches start at 0 and the limits anywhere.                        *)
Init ==
  /\ phase = "idle"
  /\ image \in {img \in Images : \A n \in Nodes : n[2] \notin Bounds => img[n] = 0}
  /\ gone = {}
  /\ snapshot = NoSnapshot /\ snapFile = NoSnapshot
  /\ source = NoSnapshot /\ seen = <<>>
  /\ pending = {} /\ current = 0 /\ todo = {} /\ errors = {}
  /\ orig = image
  /\ persisted = FALSE /\ raced = FALSE /\ refused = FALSE
  /\ plugs = 0

-----------------------------------------------------------------------------
(* create_snapshot, state.py:225-289: the planned controls are captured; a *)
(* file that cannot be written is only logged.                             *)
Create ==
  /\ phase = "idle"
  /\ phase' = "running"
  /\ \E plan \in Plans : snapshot' = [k \in plan |-> image[Node(k)]]
  /\ persisted' \in BOOLEAN
  /\ snapFile' = IF persisted' THEN snapshot' ELSE snapFile
  /\ orig' = image
  /\ UNCHANGED <<image, gone, restoreVars, raced, refused, plugs>>

(* The daemon's transaction, or any other program, writes a captured file  *)
(* or a limit beside it; while a restore runs this happens at most once.   *)
Change(n, v) ==
  /\ phase = "running" \/ (phase = "restoring" /\ ~raced)
  /\ \E k \in DOMAIN snapshot : Node(k) = n \/ ({k[2], n[2]} = Bounds /\ k[1] = n[1])
  /\ v # image[n]
  /\ Accepts(image, n, v)
  /\ image' = [image EXCEPT ![n] = v]
  /\ raced' = (raced \/ phase = "restoring")
  /\ UNCHANGED <<phase, gone, snapshot, snapFile, restoreVars, orig, persisted, refused, plugs>>

(* A policy goes offline or comes back.                                    *)
Hotplug(p) ==
  /\ phase \in {"running", "restoring"}
  /\ plugs < MaxHotplug
  /\ plugs' = plugs + 1
  /\ gone' = IF p \in gone THEN gone \ {p} ELSE gone \cup {p}
  /\ UNCHANGED <<phase, image, snapshot, snapFile, restoreVars, history>>

-----------------------------------------------------------------------------
(* restore(), state.py:326-361, of the snapshot snap, and the discovery at *)
(* state.py:468-475, which may fail and then finds no policy.              *)
Begin(snap) ==
  /\ snap # NoSnapshot
  /\ phase' = "restoring"
  /\ source' = snap
  /\ \E live \in {Policies \ gone, {}} :
       seen' = [p \in live |-> [min |-> image[<<p, "min">>], max |-> image[<<p, "max">>]]]
  /\ pending' = {k[1] : k \in DOMAIN snap}
  /\ current' = 0 /\ todo' = {} /\ errors' = {}
  /\ raced' = FALSE
  /\ UNCHANGED <<image, gone, snapshot, orig, persisted, refused, plugs>>
(* Faulty variant: the file goes before the first control is written.      *)
BeginRestoreUnlinks == phase = "running" /\ Begin(snapshot) /\ snapFile' = NoSnapshot

(* The daemon restores from memory ...                                     *)
BeginRestore == phase = "running" /\ Begin(snapshot) /\ UNCHANGED snapFile

(* ... and cmd_restore, cli.py:294-301, from the file, after a crash or a   *)
(* restore that could not remove it.                                       *)
RestoreCommand == phase \in {"crashed", "done"} /\ Begin(snapFile) /\ UNCHANGED snapFile

(* restore_fallback, state.py:594-646, when the file cannot be loaded:     *)
(* hardware limits, a default governor and boost on.  A failed write is    *)
(* swallowed, but for that of a cpuidle state (state.py:634), which ends   *)
(* it before the CPUs and the switch to come: any part may be written.     *)
(* The file stays.                                                         *)
Default(n) == IF n[2] = "max" THEN MaxFreq ELSE 1

Fallback ==
  /\ phase \in {"crashed", "done"}
  /\ snapFile # NoSnapshot
  /\ phase' = "crashed"
  /\ \E written \in SUBSET {n \in Nodes : n[2] = "boost" \/ n[1] \notin gone} :
       image' = [n \in Nodes |-> IF n \in written THEN Default(n) ELSE image[n]]
  /\ UNCHANGED <<gone, snapshot, snapFile, restoreVars, history, plugs>>

(* _restore_policy_bounds, state.py:524-555: the maximum goes first when   *)
(* the saved minimum is above the maximum of now.                          *)
Saved(p) == {c \in Controls : <<p, c>> \in DOMAIN source}
(* Faulty variant: the minimum always goes first.                          *)
MinFirst(p) == FALSE

MaxFirst(p) == Bounds \subseteq Saved(p) /\ source[<<p, "min">>] > seen[p].max

Before(p, c, d) ==
  \/ c \in Bounds /\ d \notin Bounds
  \/ c = "max" /\ d = "min" /\ MaxFirst(p)
  \/ c = "min" /\ d = "max" /\ ~MaxFirst(p)
  \/ c = "governor" /\ d = "boost"
Turn(c) == c \in todo /\ \A d \in todo \ {c} : Before(current, c, d)

(* _restore_policy_snapshot, state.py:477-487.                             *)
NextPolicy(p) ==
  /\ phase = "restoring" /\ todo = {}
  /\ p \in pending /\ \A q \in pending : p <= q
  /\ pending' = pending \ {p}
  /\ IF p \in DOMAIN seen
     THEN current' = p /\ todo' = Saved(p) /\ UNCHANGED errors
     ELSE errors' = errors \cup {<<p, "gone">>} /\ UNCHANGED <<current, todo>>
  /\ UNCHANGED <<phase, image, gone, snapshot, snapFile, source, seen, history, plugs>>

(* _restore_one_policy, state.py:492-522.                                  *)
WriteSucceeds(c) ==
  LET n == Node(<<current, c>>)
      v == source[<<current, c>>]
  IN  /\ phase = "restoring" /\ Turn(c)
      /\ current \notin gone
      /\ Accepts(image, n, v)
      /\ image' = [image EXCEPT ![n] = v]
      /\ todo' = todo \ {c}
      /\ UNCHANGED <<phase, gone, snapshot, snapFile, source, seen, pending,
                     current, errors, history, plugs>>
(* Faulty variant: the failure of the second bound is forgotten.           *)
WriteFailsSilently(c) ==
  /\ phase = "restoring" /\ Turn(c)
  /\ todo' = IF c \in Bounds THEN todo \ Bounds ELSE todo \ {c}
  /\ errors' = IF Bounds \subseteq todo \/ c \notin Bounds
               THEN errors \cup {<<current, IF c \in Bounds THEN "bounds" ELSE c>>}
               ELSE errors
  /\ refused' = (refused \/ ~Accepts(image, Node(<<current, c>>), source[<<current, c>>]))
  /\ UNCHANGED <<phase, image, gone, snapshot, snapFile, source, seen, pending,
                 current, orig, persisted, raced, plugs>>

(* A write fails: cpufreq refuses the bound, the policy has gone, or an    *)
(* error of the device.  The bounds share one try, so a failure of the     *)
(* first leaves the second unwritten.                                      *)
WriteFails(c) ==
  /\ phase = "restoring" /\ Turn(c)
  /\ todo' = IF c \in Bounds THEN todo \ Bounds ELSE todo \ {c}
  /\ errors' = errors \cup {<<current, IF c \in Bounds THEN "bounds" ELSE c>>}
  /\ refused' = (refused \/ ~Accepts(image, Node(<<current, c>>), source[<<current, c>>]))
  /\ UNCHANGED <<phase, image, gone, snapshot, snapFile, source, seen, pending,
                 current, orig, persisted, raced, plugs>>

(* _finish_restore, state.py:580-592: whatever failed, the snapshot is     *)
(* dropped; only the unlink itself may fail.                               *)
Finish ==
  /\ phase = "restoring" /\ pending = {} /\ todo = {}
  /\ phase' = "done"
  /\ snapshot' = NoSnapshot
  /\ snapFile' \in {NoSnapshot, snapFile}
  /\ persisted' = (persisted /\ snapFile' # NoSnapshot)
  /\ UNCHANGED <<image, gone, restoreVars, orig, raced, refused, plugs>>

(* kill -9, in the daemon or in the command: what was in memory is lost.   *)
Crash ==
  /\ phase \in {"running", "restoring"}
  /\ phase' = "crashed"
  /\ snapshot' = NoSnapshot /\ source' = NoSnapshot /\ seen' = <<>>
  /\ pending' = {} /\ current' = 0 /\ todo' = {} /\ errors' = {}
  /\ raced' = FALSE
  /\ UNCHANGED <<image, gone, snapFile, orig, persisted, refused, plugs>>

RestoreStep ==
  \/ \E p \in Policies : NextPolicy(p)
  \/ \E c \in Controls : WriteSucceeds(c) \/ WriteFails(c)
  \/ Finish

Next ==
  \/ Create \/ BeginRestore \/ RestoreCommand \/ Fallback \/ RestoreStep \/ Crash
  \/ \E n \in Nodes : \E v \in Value(n) : Change(n, v)
  \/ \E p \in Policies : Hotplug(p)

Spec == Init /\ [][Next]_vars
-----------------------------------------------------------------------------
Failures == {"gone", "bounds", "governor", "boost"}

TypeOK ==
  /\ phase \in {"idle", "running", "restoring", "done", "crashed"}
  /\ image \in Images /\ orig \in Images
  /\ gone \subseteq Policies
  /\ \A snap \in {snapshot, snapFile, source} :
       DOMAIN snap \subseteq Keys /\ \A k \in DOMAIN snap : snap[k] \in Value(Node(k))
  /\ DOMAIN seen \subseteq Policies
  /\ pending \subseteq Policies /\ current \in Policies \cup {0}
  /\ todo \subseteq Controls /\ plugs \in 0..MaxHotplug
  /\ errors \subseteq Policies \X Failures
  /\ persisted \in BOOLEAN /\ raced \in BOOLEAN /\ refused \in BOOLEAN

(* A restore reports what it could not put back: unless another program    *)
(* wrote meanwhile, every captured file whose policy reported no failure   *)
(* for it has its original value when restore() returns, however writes    *)
(* failed, policies came and went and the restore was cut short before.    *)
(* A boost file shared by two policies is reported under the first alone.  *)
Reported(k) ==
  \/ <<k[1], "gone">> \in errors
  \/ <<k[1], IF k[2] \in Bounds THEN "bounds" ELSE k[2]>> \in errors
UnreportedMeansRestored ==
  phase = "done" /\ ~raced =>
    \A k \in DOMAIN source : Reported(k) \/ image[Node(k)] = orig[Node(k)]

(* "an order accepted by cpufreq" (state.py:525): where both bounds were   *)
(* saved, cpufreq refuses one only if somebody else wrote a limit after    *)
(* the policies were discovered.                                           *)
OrderAccepted ==
  [][refused' /\ ~refused => raced \/ ~(Bounds \subseteq Saved(current))]_vars

(* A crash at any moment, even half way through a restore, leaves a file   *)
(* that holds every original value, if it was ever written and no restore  *)
(* ran to its end: `boostlock restore` (README.md:60) has all it needs.    *)
CrashCanRetry ==
  phase = "crashed" /\ persisted =>
    /\ snapFile # NoSnapshot
    /\ \A k \in DOMAIN snapFile : snapFile[k] = orig[Node(k)]

=============================================================================
