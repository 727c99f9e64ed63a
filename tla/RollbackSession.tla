---------------------------- MODULE RollbackSession ----------------------------
(***************************************************************************)
(* The two context managers of the library, used without the daemon:       *)
(*                                                                         *)
(*   with RollbackManager() as manager:     (state.py, rollback.py)        *)
(*       with PMQoSController() as latency:  (pm_qos.py)                   *)
(*           body                                                          *)
(*                                                                         *)
(* or the manager's functions called one by one, with its atexit hook.     *)
(* The manager takes a snapshot of the older layout, per CPU, which holds  *)
(* the cpuidle states, too; the controller takes the latency device or     *)
(* disables the cpuidle states itself.  Signals interrupt the one thread   *)
(* anywhere, a running signal handler included.                            *)
(*                                                                         *)
(* One CPU stands for all; governor, EPP, EPB and CPB are written the way  *)
(* the boost switch is.                                                    *)
(***************************************************************************)
EXTENDS Integers, Sequences

CONSTANTS
  IdleStates,   \* the disable files of the cpuidle states, in order
  MaxFreq,      \* frequencies 1..MaxFreq, the limits of the hardware
  Starts,       \* what the files may hold at the beginning
  MaxSignals    \* bound: signals; there is one failing write at most

Idles == {IdleStates[i] : i \in 1..Len(IdleStates)}
Bounds == {"min", "max"}
Files == Idles \cup Bounds \cup {"boost"}
Value(n) == IF n \in Bounds THEN 1..MaxFreq ELSE 0..1

Images == {img \in [Files -> 0..MaxFreq] :
             img["min"] <= img["max"] /\ \A n \in Files : img[n] \in Value(n)}

(* The cpuidle states are found once each, in order (pm_qos.py:248-262).   *)
ConstantsOK ==
  /\ IdleStates \in Seq(Idles)
  /\ \A i, j \in DOMAIN IdleStates : IdleStates[i] = IdleStates[j] => i = j
  /\ Idles \cap (Bounds \cup {"boost", "bounds"}) = {}
  /\ MaxFreq \in Nat /\ MaxSignals \in Nat
  /\ Starts \subseteq Images

ASSUME ConstantsAssumption == ConstantsOK

VARIABLES
  setup,        \* managed: in a with statement; onExit: restore_on_exit;
                \* chained: the previous signal handlers are functions
  pc,           \* where the program is
  image,        \* the values of the files
  snapshot,     \* manager.snapshot
  snapFile,     \* the snapshot file
  hooked,       \* the manager's signal handlers are registered
  atexit,       \* its atexit hook is registered
  raised,       \* an exception is propagating
  latency,      \* the controller: descriptor, fallback and saved states
  entered,      \* its __enter__ has returned
  pos,          \* the cpuidle state its loop has come to
  frames,       \* the restores under way, a signal handler's on top
  depth,        \* signal handlers under way
  signals,      \* signals so far
  orig,         \* history: the files when the snapshot was taken
  persisted,    \* history: the snapshot reached the disk
  failed,       \* history: a write failed
  restores      \* history: calls of restore()

hookVars == <<hooked, atexit>>
snapVars == <<snapshot, snapFile>>
handlerVars == <<frames, depth, signals, restores>>
history == <<orig, persisted, failed>>
rollbackVars == <<setup, pc, image, snapVars, hookVars, raised, latency, entered, pos,
                  handlerVars, history>>

NoImage == <<>>
Unlocked == [locked |-> FALSE, fallback |-> FALSE, saved |-> <<>>]
Accepts(n, v) == /\ n = "min" => v <= image["max"]
                 /\ n = "max" => v >= image["min"]

RollbackInit ==
  /\ setup \in [managed : BOOLEAN, onExit : BOOLEAN, chained : BOOLEAN]
  /\ setup.onExit => setup.managed
  /\ pc = "create"
  /\ image \in Starts
  /\ snapshot = NoImage /\ snapFile = NoImage
  /\ hooked = FALSE /\ atexit = FALSE /\ raised = FALSE
  /\ latency = Unlocked /\ entered = FALSE /\ pos = 1
  /\ frames = <<>> /\ depth = 0 /\ signals = 0 /\ restores = 0
  /\ orig = image /\ persisted = FALSE /\ failed = FALSE

(* The program itself moves only when no signal handler runs.              *)
At(place) == pc = place /\ depth = 0

-----------------------------------------------------------------------------
(* __enter__, state.py:716-720: create_snapshot() without a plan           *)
(* (state.py:225-242, 291-324), which may not reach the disk ...           *)
Create ==
  /\ At("create") /\ pc' = "hook"
  /\ snapshot' = image
  /\ persisted' \in BOOLEAN
  /\ snapFile' = IF persisted' THEN image ELSE snapFile
  /\ UNCHANGED <<setup, image, hookVars, raised, latency, entered, pos,
                 handlerVars, orig, failed>>

(* ... the signal handlers, and then the atexit hook.                      *)
HookSignals ==
  /\ At("hook") /\ pc' = "hookExit"
  /\ hooked' = TRUE
  /\ UNCHANGED <<setup, image, snapVars, atexit, raised, latency, entered, pos,
                 handlerVars, history>>

HookExit ==
  /\ At("hookExit") /\ pc' = "enter"
  /\ atexit' = TRUE
  /\ UNCHANGED <<setup, image, snapVars, hooked, raised, latency, entered, pos,
                 handlerVars, history>>

(* Where an exception takes the program: out of the inner with statement,  *)
(* out of the outer one, to the end of the process.                        *)
Outer == IF setup.managed THEN "unhook" ELSE "final"
Inner == IF entered THEN "leave" ELSE Outer

-----------------------------------------------------------------------------
(* Faulty variant: a controller that is locked already is locked again.    *)
BeginLockAgain ==
  /\ At("enter") \/ At("body")
  /\ \/ /\ latency' = [Unlocked EXCEPT !.locked = TRUE]
        /\ pc' = "body" /\ entered' = TRUE
        /\ UNCHANGED <<raised, pos>>
     \/ /\ pc' = "fallback" /\ pos' = 1
        /\ latency' = Unlocked
        /\ UNCHANGED <<raised, entered>>
  /\ UNCHANGED <<setup, image, snapVars, hookVars, handlerVars, history>>

(* lock(), pm_qos.py:97-195, at __enter__ or in the body, of a controller  *)
(* that is not locked: the device, an error when its descriptor cannot     *)
(* even be closed, or else the fallback.                                   *)
BeginLock ==
  /\ At("enter") \/ At("body")
  /\ ~latency.locked
  /\ \/ /\ latency' = [Unlocked EXCEPT !.locked = TRUE]
        /\ pc' = "body" /\ entered' = TRUE
        /\ UNCHANGED <<raised, pos>>
     \/ /\ pc' = Inner /\ raised' = TRUE
        /\ pos' = 1
        /\ UNCHANGED <<latency, entered>>
     \/ /\ pc' = "fallback" /\ pos' = 1
        /\ latency' = Unlocked
        /\ UNCHANGED <<raised, entered>>
  /\ UNCHANGED <<setup, image, snapVars, hookVars, handlerVars, history>>

(* _lock_via_sysfs_fallback, pm_qos.py:244-284: a state that cannot be     *)
(* read is left out ...                                                    *)
Disable ==
  LET n == IdleStates[pos]
  IN  /\ At("fallback") /\ pos <= Len(IdleStates)
      /\ pos' = pos + 1
      /\ \/ /\ latency' = [latency EXCEPT !.saved = Append(@, image[n])]
            /\ image' = [image EXCEPT ![n] = 1]
         \/ /\ latency' = [latency EXCEPT !.saved = Append(@, -1)]
            /\ UNCHANGED image
      /\ UNCHANGED <<setup, pc, snapVars, hookVars, raised, entered, handlerVars, history>>

(* ... and one that cannot be written ends it.  unlock() (pm_qos.py:283)   *)
(* gives nothing back: the controller does not count as a fallback yet.    *)
DisableFails ==
  /\ At("fallback") /\ pos <= Len(IdleStates) /\ ~failed
  /\ pc' = Inner /\ raised' = TRUE
  /\ pos' = 1
  /\ failed' = TRUE
  /\ UNCHANGED <<setup, image, snapVars, hookVars, latency, entered, handlerVars,
                 orig, persisted>>

EndLock ==
  /\ At("fallback") /\ pos > Len(IdleStates)
  /\ pc' = "body" /\ entered' = TRUE
  /\ latency' = [latency EXCEPT !.locked = TRUE, !.fallback = TRUE]
  /\ pos' = 1
  /\ UNCHANGED <<setup, image, snapVars, hookVars, raised, handlerVars, history>>

(* The body writes what it likes, unlocks, raises or ends.                 *)
Change(n, v) ==
  /\ At("body")
  /\ n \notin Idles /\ v # image[n] /\ Accepts(n, v)
  /\ image' = [image EXCEPT ![n] = v]
  /\ UNCHANGED <<setup, pc, snapVars, hookVars, raised, latency, entered, pos,
                 handlerVars, history>>

LeaveBody ==
  /\ At("body")
  /\ \/ pc' = "release" /\ UNCHANGED raised
     \/ pc' = "leave" /\ raised' \in BOOLEAN
  /\ UNCHANGED <<setup, image, snapVars, hookVars, latency, entered, pos,
                 handlerVars, history>>

(* _release, pm_qos.py:294-320; a state that cannot be written is passed   *)
(* over.                                                                   *)
Releasing == At("release") \/ At("leave")
ToGiveBack == latency.fallback /\ pos <= Len(latency.saved)

GiveBack ==
  /\ Releasing /\ ToGiveBack
  /\ pos' = pos + 1
  /\ \/ /\ image' = IF latency.saved[pos] = -1 THEN image
                    ELSE [image EXCEPT ![IdleStates[pos]] = latency.saved[pos]]
        /\ UNCHANGED failed
     \/ ~failed /\ failed' = TRUE /\ UNCHANGED image
  /\ UNCHANGED <<setup, pc, snapVars, hookVars, raised, latency, entered,
                 handlerVars, orig, persisted>>

EndRelease ==
  /\ Releasing /\ ~ToGiveBack
  /\ pc' = IF pc = "leave" THEN Outer ELSE "body"
  /\ latency' = Unlocked
  /\ pos' = 1
  /\ UNCHANGED <<setup, image, snapVars, hookVars, raised, entered, handlerVars, history>>

-----------------------------------------------------------------------------
(* restore(), state.py:326-361: from memory, from the file, or defaults    *)
(* (state.py:594-646), which leave snapshot and file as they are.          *)
Defaults == [n \in Files |-> CASE n = "max" -> MaxFreq [] n \in Idles -> 0 [] OTHER -> 1]
(* Faulty variant: the boost switch is not restored.                       *)
RestorationForgetsBoost ==
  LET saved == IF snapshot # NoImage THEN snapshot ELSE snapFile
  IN  IF saved # NoImage
      THEN [target |-> saved, todo |-> <<"bounds">> \o IdleStates, defaults |-> FALSE]
      ELSE [target |-> Defaults, todo |-> <<"min", "max">> \o IdleStates \o <<"boost">>,
            defaults |-> TRUE]

Restoration ==
  LET saved == IF snapshot # NoImage THEN snapshot ELSE snapFile
  IN  IF saved # NoImage
      THEN [target |-> saved, todo |-> <<"boost", "bounds">> \o IdleStates, defaults |-> FALSE]
      ELSE [target |-> Defaults, todo |-> <<"min", "max">> \o IdleStates \o <<"boost">>,
            defaults |-> TRUE]

(* __exit__, state.py:722-731: the previous signal handlers, ...           *)
Unhook ==
  /\ At("unhook") /\ pc' = "unhookExit"
  /\ hooked' = FALSE
  /\ UNCHANGED <<setup, image, snapVars, atexit, raised, latency, entered, pos,
                 handlerVars, history>>

(* Faulty variant: the file is unlinked before anything is restored.       *)
UnhookExitUnlinks ==
  /\ At("unhookExit")
  /\ atexit' = FALSE
  /\ snapFile' = NoImage
  /\ IF raised \/ setup.onExit
     THEN pc' = "restore" /\ frames' = <<Restoration>> /\ restores' = restores + 1
     ELSE pc' = "final" /\ UNCHANGED <<frames, restores>>
  /\ UNCHANGED <<setup, image, snapshot, hooked, raised, latency, entered, pos,
                 depth, signals, history>>

(* ... no atexit hook any more, and then the restore ...                   *)
UnhookExit ==
  /\ At("unhookExit")
  /\ atexit' = FALSE
  /\ IF raised \/ setup.onExit
     THEN pc' = "restore" /\ frames' = <<Restoration>> /\ restores' = restores + 1
     ELSE pc' = "final" /\ UNCHANGED <<frames, restores>>
  /\ UNCHANGED <<setup, image, snapVars, hooked, raised, latency, entered, pos,
                 depth, signals, history>>

(* ... and the end of the process, with the atexit hook if it is there.    *)
Final ==
  /\ At("final")
  /\ IF atexit /\ snapshot # NoImage
     THEN pc' = "restore" /\ frames' = <<Restoration>> /\ restores' = restores + 1
     ELSE pc' = "exited" /\ UNCHANGED <<frames, restores>>
  /\ UNCHANGED <<setup, image, snapVars, hookVars, raised, latency, entered, pos,
                 depth, signals, history>>

Top == frames[Len(frames)]
Write == Head(Top.todo)
NextWrite(todo) == [frames EXCEPT ![Len(frames)].todo = todo]

(* The order of the bounds, state.py:381-397.                              *)
ReadBounds ==
  /\ frames # <<>> /\ Top.todo # <<>> /\ Write = "bounds"
  /\ frames' = NextWrite((IF Top.target["min"] > image["max"] THEN <<"max", "min">>
                                                              ELSE <<"min", "max">>)
                           \o Tail(Top.todo))
  /\ UNCHANGED <<setup, pc, image, snapVars, hookVars, raised, latency, entered, pos,
                 depth, signals, restores, history>>

(* Every write is optional or has its error logged: restore() goes on, and *)
(* returns True (state.py:374-441).                                        *)
RestoreFile ==
  /\ frames # <<>> /\ Top.todo # <<>> /\ Write # "bounds"
  /\ frames' = NextWrite(Tail(Top.todo))
  /\ \/ /\ Accepts(Write, Top.target[Write])
        /\ image' = [image EXCEPT ![Write] = Top.target[Write]]
        /\ UNCHANGED failed
     \/ ~failed /\ failed' = TRUE /\ UNCHANGED image
     \/ ~Accepts(Write, Top.target[Write]) /\ UNCHANGED <<image, failed>>
  /\ UNCHANGED <<setup, pc, snapVars, hookVars, raised, latency, entered, pos,
                 depth, signals, restores, orig, persisted>>

(* Where the SystemExit of a signal handler takes the program.  In an      *)
(* atexit hook it is only reported.                                        *)
Unwound ==
  CASE pc \in {"body", "release"} -> "leave"
    [] pc \in {"enter", "fallback"} -> Inner
    [] pc = "leave" -> Outer
    [] pc = "restore" -> "exited"
    [] OTHER -> "final"

(* The end of a restore, state.py:443-457; of a handler, state.py:688-696: *)
(* the previous handler is called and the program goes on, or it exits.    *)
Dropped ==
  IF Top.defaults THEN UNCHANGED snapVars
  ELSE snapshot' = NoImage /\ snapFile' \in {NoImage, snapFile}

EndRestore ==
  /\ frames # <<>> /\ Top.todo = <<>> /\ depth = 0
  /\ Dropped
  /\ frames' = <<>>
  /\ pc' = "final"
  /\ UNCHANGED <<setup, image, hookVars, raised, latency, entered, pos,
                 depth, signals, restores, history>>

EndHandler ==
  /\ depth > 0 /\ Top.todo = <<>>
  /\ Dropped
  /\ IF setup.chained
     THEN /\ frames' = SubSeq(frames, 1, Len(frames) - 1) /\ depth' = depth - 1
          /\ UNCHANGED <<pc, raised, pos>>
     ELSE /\ frames' = <<>> /\ depth' = 0
          /\ pc' = Unwound /\ raised' = TRUE /\ pos' = 1
  /\ UNCHANGED <<setup, image, hookVars, latency, entered, signals, restores, history>>

(* A signal; registering the handlers, and putting the previous ones back, *)
(* is one step for all four of them (state.py:648-680).                    *)
Over == {"exited", "killed", "interrupted"}
Deliver ==
  /\ pc \notin Over
  /\ signals < MaxSignals
  /\ signals' = signals + 1
  /\ UNCHANGED <<setup, image, snapVars, hookVars, latency, entered, pos, history>>

(* The manager's handler begins its restore, state.py:682-687.             *)
Handle ==
  /\ hooked
  /\ frames' = Append(frames, Restoration)
  /\ depth' = depth + 1
  /\ restores' = restores + 1
  /\ UNCHANGED <<pc, raised>>

(* Without it, the program's own handler goes on, ...                      *)
Ignore ==
  /\ ~hooked /\ setup.chained
  /\ UNCHANGED <<pc, raised, frames, depth, restores>>

(* ... or SIGTERM, SIGHUP and SIGQUIT kill, ...                            *)
Kill ==
  /\ ~hooked /\ ~setup.chained
  /\ pc' = "killed"
  /\ frames' = <<>> /\ depth' = 0
  /\ UNCHANGED <<raised, restores>>

(* ... or SIGINT raises KeyboardInterrupt, which no "except Exception" of  *)
(* restore() holds up: out of __exit__ or of the atexit hook, the process  *)
(* exits with what has been restored so far.                               *)
KeyboardInterrupt ==
  /\ ~hooked /\ ~setup.chained
  /\ pc' = IF pc = "restore" THEN "interrupted" ELSE "final"
  /\ raised' = (raised \/ pc # "final")
  /\ frames' = <<>> /\ depth' = 0
  /\ UNCHANGED restores

Signal == Deliver /\ (Handle \/ Ignore \/ Kill \/ KeyboardInterrupt)

Proceed ==
  \/ Create \/ HookSignals \/ HookExit
  \/ BeginLock \/ Disable \/ DisableFails \/ EndLock \/ LeaveBody \/ GiveBack \/ EndRelease
  \/ Unhook \/ UnhookExit \/ Final \/ ReadBounds \/ RestoreFile \/ EndRestore \/ EndHandler

RollbackNext ==
  \/ Proceed \/ Signal
  \/ \E n \in Files : \E v \in Value(n) : Change(n, v)

RollbackSpec == RollbackInit /\ [][RollbackNext]_rollbackVars

-----------------------------------------------------------------------------
Places == {"create", "hook", "hookExit", "enter", "fallback", "body", "release", "leave",
           "unhook", "unhookExit", "restore", "final", "exited", "killed", "interrupted"}

RollbackTypeOK ==
  /\ pc \in Places
  /\ image \in Images /\ orig \in Images
  /\ snapshot \in Images \cup {NoImage} /\ snapFile \in Images \cup {NoImage}
  /\ {hooked, atexit, raised, entered, persisted, failed} \subseteq BOOLEAN
  /\ latency.saved \in Seq(-1..1) /\ pos \in 1..(Len(IdleStates) + 1)
  /\ signals \in 0..MaxSignals /\ depth \in 0..signals /\ restores \in 0..(signals + 1)
  /\ Len(frames) = depth + (IF pc = "restore" THEN 1 ELSE 0)

(* "Integrates POSIX signal interception and atexit triggers for foolproof *)
(* recovery" (state.py:203): a process that exits, by an exception or with *)
(* restore_on_exit or the atexit hook, leaves the original values if no    *)
(* write failed: cpufreq never refuses a bound (state.py:380-397) and none *)
(* is forgotten.  There are two exceptions.  A second restore finds the    *)
(* snapshot gone and writes the defaults: the SystemExit of a handler      *)
(* makes __exit__ restore once more, and so does a second signal.  Ctrl-C  *)
(* while __exit__ restores, without handlers and atexit hook, leaves the   *)
(* rest to the snapshot file; the defaults have no file any more.          *)
Promised == setup.managed => raised \/ setup.onExit
ExitRestores ==
  pc \in {"exited", "interrupted"} /\ Promised /\ ~failed /\ ~(signals > 0 /\ setup.chained) =>
    \/ image = orig
    \/ pc = "interrupted" /\ (snapFile = orig \/ ~persisted)
    \/ restores > 1 /\ pc = "exited" /\ image = Defaults
    \/ restores > 1 /\ pc = "interrupted" /\ \A n \in Files : image[n] \in {orig[n], Defaults[n]}

(* A process that a signal kills leaves the original values in force or in *)
(* the file, unless the file was never written; also in the middle of the  *)
(* restore.                                                                *)
KilledIsRecoverable ==
  pc = "killed" /\ ~failed /\ signals = 1 => image = orig \/ snapFile = orig \/ ~persisted

(* While the controller is not locked the cpuidle states are as they were, *)
(* however often lock() and unlock() were called, with the device or       *)
(* without.  A fallback that fails half-way is the exception               *)
(* (pm_qos.py:278-284): nothing gives its states back.                     *)
LatencyGivenBack ==
  At("body") /\ ~latency.locked /\ ~failed /\ signals = 0 =>
    \A n \in Idles : image[n] = orig[n]

=============================================================================
