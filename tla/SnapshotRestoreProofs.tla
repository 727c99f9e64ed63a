------------------------- MODULE SnapshotRestoreProofs -------------------------
(***************************************************************************)
(* Proofs about SnapshotRestore, for any number of policies, frequencies   *)
(* and hotplug events, and any plans and shared boost files.               *)
(***************************************************************************)
EXTENDS SnapshotRestore, TLAPS

(* A snapshot holds original values, and each file once.                   *)
OfOrig(snap) ==
  /\ DOMAIN snap \subseteq Keys
  /\ \A j, k \in DOMAIN snap : Node(j) = Node(k) => j = k
  /\ \A k \in DOMAIN snap : snap[k] = orig[Node(k)]

SnapInv ==
  /\ OfOrig(snapshot) /\ OfOrig(snapFile) /\ OfOrig(source)
  /\ phase = "idle" => snapFile = NoSnapshot /\ source = NoSnapshot
  /\ persisted => snapFile # NoSnapshot

(* What is still to be written belongs to a policy that was discovered and *)
(* has been taken off the list.                                            *)
TodoInv ==
  /\ todo # {} => /\ current \in DOMAIN seen \ pending
                  /\ todo \subseteq Saved(current)
  /\ phase = "done" => pending = {} /\ todo = {}

(* A captured control is restored, reported or still to come.              *)
ToCome(k) == k[1] \in pending \/ (k[1] = current /\ k[2] \in todo)
ProgressInv ==
  phase \in {"restoring", "done"} /\ ~raced =>
    \A k \in DOMAIN source : ToCome(k) \/ Reported(k) \/ image[Node(k)] = orig[Node(k)]

(* Before the first bound of a policy is written its maximum is the one    *)
(* discovered; before the second, the first has its original value.        *)
OrderInv ==
  phase = "restoring" /\ ~raced =>
    /\ \A p \in DOMAIN seen :
         p \in pending \/ (p = current /\ Bounds \subseteq todo) =>
           seen[p].max = image[<<p, "max">>]
    /\ Bounds \subseteq Saved(current) /\ todo \cap Bounds # {} =>
         \A c \in Bounds \ todo : image[<<current, c>>] = orig[<<current, c>>]

IInv == TypeOK /\ SnapInv /\ TodoInv /\ ProgressInv /\ OrderInv

-----------------------------------------------------------------------------
(* The file behind a control.                                              *)
LEMMA NodeOfKey ==
  ASSUME NEW k \in Keys
  PROVE  /\ Node(k) \in Nodes
         /\ Node(k)[2] = k[2]
         /\ k[2] \in Bounds => Node(k) = k
         /\ k = <<k[1], k[2]>> /\ k[1] \in Policies /\ k[2] \in Controls
<1>1. k = <<k[1], k[2]>> /\ k[1] \in Policies /\ k[2] \in Controls
  BY DEF Keys
<1> QED BY <1>1 DEF Node, Nodes, Bounds

LEMMA BoundNode ==
  ASSUME NEW p \in Policies, NEW c \in Bounds
  PROVE  <<p, c>> \in Nodes /\ Node(<<p, c>>) = <<p, c>> /\ <<p, c>> \in Keys
<1>1. <<p, c>> \in Keys
  BY DEF Keys, Bounds, Controls
<1> QED BY <1>1, NodeOfKey

LEMMA LimitsOf ==
  ASSUME NEW img \in Images, NEW p \in Policies
  PROVE  /\ img[<<p, "min">>] \in 1..MaxFreq
         /\ img[<<p, "max">>] \in 1..MaxFreq
         /\ img[<<p, "min">>] <= img[<<p, "max">>]
<1>1. <<p, "min">> \in Nodes /\ <<p, "max">> \in Nodes
  BY BoundNode DEF Bounds
<1>2. img[<<p, "min">>] \in Value(<<p, "min">>) /\ img[<<p, "max">>] \in Value(<<p, "max">>)
  BY <1>1 DEF Images
<1> QED BY <1>2 DEF Images, Legal, Value, Bounds

(* A write that cpufreq accepts keeps every minimum below its maximum.     *)
LEMMA AcceptedWrite ==
  ASSUME NEW img \in Images, NEW n \in Nodes, NEW v \in Value(n), Accepts(img, n, v)
  PROVE  [img EXCEPT ![n] = v] \in Images
<1> DEFINE new == [img EXCEPT ![n] = v]
<1>1. v \in 0..MaxFreq
  BY CountAssumption DEF Value
<1>2. new \in [Nodes -> 0..MaxFreq] /\ \A m \in Nodes : new[m] \in Value(m)
  BY <1>1 DEF Images
<1>3. ASSUME NEW p \in Policies PROVE new[<<p, "min">>] <= new[<<p, "max">>]
  <2>1. <<p, "min">> \in Nodes /\ <<p, "max">> \in Nodes
    BY BoundNode DEF Bounds
  <2>2. CASE n = <<p, "min">>
    <3>1. new[<<p, "min">>] = v /\ new[<<p, "max">>] = img[<<p, "max">>]
      BY <2>1, <2>2 DEF Images
    <3> QED BY <2>2, <3>1 DEF Accepts
  <2>3. CASE n = <<p, "max">>
    <3>1. new[<<p, "max">>] = v /\ new[<<p, "min">>] = img[<<p, "min">>]
      BY <2>1, <2>3 DEF Images
    <3>2. v >= img[<<p, "min">>]
      BY <2>3 DEF Accepts
    <3>3. img[<<p, "min">>] \in Int /\ v \in Int
      <4>1. img[<<p, "min">>] \in 1..MaxFreq
        BY LimitsOf
      <4> QED BY <1>1, <4>1, CountAssumption
    <3> QED BY <3>1, <3>2, <3>3
  <2>4. CASE n # <<p, "min">> /\ n # <<p, "max">>
    <3>1. new[<<p, "min">>] = img[<<p, "min">>] /\ new[<<p, "max">>] = img[<<p, "max">>]
      BY <2>1, <2>4 DEF Images
    <3> QED BY <3>1, LimitsOf
  <2> QED BY <2>2, <2>3, <2>4
<1> QED BY <1>2, <1>3 DEF Images, Legal

LEMMA Defaults ==
  ASSUME NEW img \in Images,
         NEW written \in SUBSET Nodes,
         NEW new, new = [n \in Nodes |-> IF n \in written THEN Default(n) ELSE img[n]]
  PROVE  new \in Images
<1>1. \A n \in Nodes : Default(n) \in Value(n) /\ Default(n) \in 0..MaxFreq
  BY CountAssumption DEF Default, Value, Bounds
<1>2. new \in [Nodes -> 0..MaxFreq] /\ \A n \in Nodes : new[n] \in Value(n)
  BY <1>1 DEF Images
<1>3. ASSUME NEW p \in Policies PROVE new[<<p, "min">>] <= new[<<p, "max">>]
  <2>1. <<p, "min">> \in Nodes /\ <<p, "max">> \in Nodes
    BY BoundNode DEF Bounds
  <2>2. /\ new[<<p, "min">>] \in {1, img[<<p, "min">>]}
        /\ new[<<p, "max">>] \in {MaxFreq, img[<<p, "max">>]}
    BY <2>1 DEF Default
  <2> QED BY <2>2, LimitsOf, CountAssumption
<1> QED BY <1>2, <1>3 DEF Images, Legal

(* A snapshot of the files as they are.                                    *)
LEMMA Captured ==
  ASSUME NEW plan \in Plans, image \in Images, orig' = image,
         NEW snap, snap = [k \in plan |-> image[Node(k)]]
  PROVE  snap # NoSnapshot /\ OfOrig(snap)'
<1>1. DOMAIN snap = plan /\ plan # {} /\ plan \subseteq Keys
  BY PlansAssumption
<1>2. DOMAIN NoSnapshot = {}
  BY DEF NoSnapshot
<1> QED BY <1>1, <1>2, PlansAssumption DEF OfOrig

LEMMA NoneOfOrig == OfOrig(NoSnapshot)
BY DEF OfOrig, NoSnapshot

LEMMA ToWrite ==
  ASSUME TypeOK, SnapInv, TodoInv, NEW c \in todo
  PROVE  LET k == <<current, c>> IN
         /\ k \in Keys /\ k \in DOMAIN source /\ Node(k) \in Nodes
         /\ source[k] = orig[Node(k)] /\ source[k] \in Value(Node(k))
<1>1. <<current, c>> \in DOMAIN source
  BY DEF TodoInv, Saved
<1>2. <<current, c>> \in Keys /\ source[<<current, c>>] = orig[Node(<<current, c>>)]
  BY <1>1 DEF SnapInv, OfOrig
<1>3. Node(<<current, c>>) \in Nodes
  BY <1>2, NodeOfKey
<1> QED BY <1>1, <1>2, <1>3 DEF TypeOK, Images

-----------------------------------------------------------------------------
LEMMA InitInv == Init => IInv
<1> SUFFICES ASSUME Init PROVE IInv
  OBVIOUS
<1>1. image \in Images /\ orig \in Images
  BY DEF Init
<1>2. TypeOK
  <2>1. 0 \in 0..MaxHotplug
    BY BoundAssumption
  <2>2. DOMAIN NoSnapshot = {} /\ DOMAIN seen = {}
    BY DEF NoSnapshot, Init
  <2> QED BY <1>1, <2>1, <2>2 DEF Init, TypeOK
<1>3. SnapInv
  BY NoneOfOrig DEF Init, SnapInv
<1>4. TodoInv /\ ProgressInv /\ OrderInv
  BY DEF Init, TodoInv, ProgressInv, OrderInv
<1> QED BY <1>2, <1>3, <1>4 DEF IInv

Typed(snap) == DOMAIN snap \subseteq Keys /\ \A k \in DOMAIN snap : snap[k] \in Value(Node(k))

LEMMA OfOrigTyped ==
  ASSUME NEW snap, orig' \in Images, OfOrig(snap)' PROVE Typed(snap)'
<1> SUFFICES ASSUME NEW k \in DOMAIN snap PROVE snap[k] \in Value(Node(k))
  BY DEF Typed, OfOrig
<1>1. Node(k) \in Nodes /\ snap[k] = orig'[Node(k)]
  BY NodeOfKey DEF OfOrig
<1> QED BY <1>1 DEF Images

(* Which snapshots there are is a matter of create, begin, finish, crash.  *)
LEMMA SnapNext == ASSUME TypeOK, SnapInv, [Next]_vars PROVE SnapInv'
<1>1. CASE Create
  <2>1. PICK plan \in Plans : snapshot' = [k \in plan |-> image[Node(k)]]
    BY <1>1 DEF Create
  <2>2. snapshot' # NoSnapshot /\ OfOrig(snapshot)'
    BY <1>1, <2>1, Captured DEF Create, TypeOK
  <2>3. (OfOrig(NoSnapshot))'
    BY DEF OfOrig, NoSnapshot
  <2>4. source' = NoSnapshot /\ phase' # "idle"
    BY <1>1 DEF Create, SnapInv, restoreVars
  <2>5. snapFile' = snapshot' \/ (snapFile' = NoSnapshot /\ ~persisted')
    BY <1>1 DEF Create, SnapInv
  <2>6. OfOrig(snapFile)' /\ OfOrig(source)'
    BY <2>2, <2>3, <2>4, <2>5 DEF OfOrig
  <2> QED BY <2>2, <2>4, <2>5, <2>6 DEF SnapInv
<1>2. ASSUME NEW snap \in {snapshot, snapFile}, Begin(snap), UNCHANGED snapFile PROVE SnapInv'
  BY <1>2 DEF Begin, SnapInv, OfOrig
<1>3. CASE Fallback
  BY <1>3 DEF Fallback, SnapInv, OfOrig, restoreVars, history
<1>4. ASSUME NEW p \in Policies, NextPolicy(p) PROVE SnapInv'
  BY <1>4 DEF NextPolicy, SnapInv, OfOrig, history
<1>5. ASSUME NEW c \in Controls, WriteSucceeds(c) \/ WriteFails(c) PROVE SnapInv'
  BY <1>5 DEF WriteSucceeds, WriteFails, SnapInv, OfOrig, history
<1>6. CASE Finish
  <2>1. snapshot' = NoSnapshot /\ snapFile' \in {NoSnapshot, snapFile} /\ phase' # "idle"
    BY <1>6 DEF Finish
  <2>2. OfOrig(snapshot)' /\ OfOrig(snapFile)' /\ OfOrig(source)'
    BY <1>6, <2>1, NoneOfOrig DEF Finish, SnapInv, OfOrig, restoreVars
  <2> QED BY <1>6, <2>1, <2>2 DEF Finish, SnapInv
<1>7. CASE Crash
  BY <1>7, NoneOfOrig DEF Crash, SnapInv, OfOrig
<1>8. ASSUME NEW n \in Nodes, NEW v \in Value(n), Change(n, v) PROVE SnapInv'
  BY <1>8 DEF Change, SnapInv, OfOrig, restoreVars
<1>9. ASSUME NEW p \in Policies, Hotplug(p) PROVE SnapInv'
  BY <1>9 DEF Hotplug, SnapInv, OfOrig, restoreVars, history
<1>10. CASE UNCHANGED vars
  BY <1>10 DEF vars, SnapInv, OfOrig, restoreVars, history
<1> QED BY <1>1, <1>2, <1>3, <1>4, <1>5, <1>6, <1>7, <1>8, <1>9, <1>10
       DEF Next, RestoreStep, BeginRestore, RestoreCommand

LEMMA TypeNext ==
  ASSUME TypeOK, SnapInv, SnapInv', TodoInv, [Next]_vars PROVE TypeOK'
<1>1. orig' \in Images
  BY DEF TypeOK, Next, vars, Create, RestoreStep, BeginRestore, RestoreCommand, Begin, Fallback,
         NextPolicy, WriteSucceeds, WriteFails, Finish, Crash, Change, Hotplug, history
<1>2. (\A snap \in {snapshot, snapFile, source} : Typed(snap))'
  <2>1. Typed(snapshot)' /\ Typed(snapFile)' /\ Typed(source)'
    <3>1. OfOrig(snapshot)' /\ OfOrig(snapFile)' /\ OfOrig(source)'
      BY DEF SnapInv
    <3> QED BY <1>1, <3>1, OfOrigTyped DEF OfOrig, Typed
  <2> QED BY <2>1
<1> DEFINE Rest ==
      /\ phase \in {"idle", "running", "restoring", "done", "crashed"}
      /\ image \in Images
      /\ gone \subseteq Policies
      /\ DOMAIN seen \subseteq Policies
      /\ pending \subseteq Policies /\ current \in Policies \cup {0}
      /\ todo \subseteq Controls /\ plugs \in 0..MaxHotplug
      /\ errors \subseteq Policies \X Failures
      /\ persisted \in BOOLEAN /\ raced \in BOOLEAN /\ refused \in BOOLEAN
<1>3. Rest
  BY DEF TypeOK
<1>4. ASSUME Create PROVE Rest'
  BY <1>3, <1>4 DEF Create, restoreVars
<1>5. ASSUME NEW snap \in {snapshot, snapFile}, Begin(snap) PROVE Rest'
  <2>1. {k[1] : k \in DOMAIN snap} \subseteq Policies
    BY NodeOfKey DEF TypeOK
  <2>2. DOMAIN seen' \subseteq Policies
    BY <1>5 DEF Begin
  <2> QED BY <1>3, <1>5, <2>1, <2>2 DEF Begin
<1>6. ASSUME Fallback PROVE Rest'
  <2>1. image' \in Images
    <3>1. PICK written \in SUBSET Nodes :
            image' = [n \in Nodes |-> IF n \in written THEN Default(n) ELSE image[n]]
      BY <1>6 DEF Fallback
    <3> QED BY <1>3, <3>1, Defaults
  <2> QED BY <1>3, <1>6, <2>1 DEF Fallback, restoreVars, history
<1>7. ASSUME NEW p \in Policies, NextPolicy(p) PROVE Rest'
  <2>1. Saved(p) \subseteq Controls /\ <<p, "gone">> \in Policies \X Failures
    BY DEF Saved, Failures
  <2>2. CASE p \in DOMAIN seen
    BY <1>3, <1>7, <2>1, <2>2 DEF NextPolicy, history
  <2>3. CASE p \notin DOMAIN seen
    BY <1>3, <1>7, <2>1, <2>3 DEF NextPolicy, history
  <2> QED BY <2>2, <2>3
<1>8. ASSUME NEW c \in Controls, WriteSucceeds(c) PROVE Rest'
  <2>1. c \in todo
    BY <1>8 DEF WriteSucceeds, Turn
  <2>2. image' \in Images
    BY <1>3, <1>8, <2>1, ToWrite, AcceptedWrite DEF WriteSucceeds
  <2> QED BY <1>3, <1>8, <2>2 DEF WriteSucceeds, history
<1>9. ASSUME NEW c \in Controls, WriteFails(c) PROVE Rest'
  <2>1. c \in todo
    BY <1>9 DEF WriteFails, Turn
  <2>2. current \in Policies
    BY <1>3, <2>1 DEF TodoInv
  <2>3. errors' \subseteq Policies \X Failures
    BY <1>3, <1>9, <2>2 DEF WriteFails, Failures, Controls, Bounds
  <2>4. refused' \in BOOLEAN
    BY <1>3, <1>9 DEF WriteFails, Accepts
  <2> QED BY <1>3, <1>9, <2>3, <2>4 DEF WriteFails
<1>10. ASSUME Finish PROVE Rest'
  BY <1>3, <1>10 DEF Finish, restoreVars
<1>11. ASSUME Crash PROVE Rest'
  <2>1. DOMAIN seen' = {}
    BY <1>11 DEF Crash
  <2> QED BY <1>3, <1>11, <2>1 DEF Crash
<1>12. ASSUME NEW n \in Nodes, NEW v \in Value(n), Change(n, v) PROVE Rest'
  <2>1. image' \in Images
    BY <1>3, <1>12, AcceptedWrite DEF Change
  <2> QED BY <1>3, <1>12, <2>1 DEF Change, restoreVars
<1>13. ASSUME NEW p \in Policies, Hotplug(p) PROVE Rest'
  BY <1>3, <1>13, BoundAssumption DEF Hotplug, restoreVars, history
<1>14. ASSUME UNCHANGED vars PROVE Rest'
  BY <1>3, <1>14 DEF vars, restoreVars, history
<1>15. Rest'
  BY <1>4, <1>5, <1>6, <1>7, <1>8, <1>9, <1>10, <1>11, <1>12, <1>13, <1>14
     DEF Next, RestoreStep, BeginRestore, RestoreCommand
<1> QED BY <1>1, <1>2, <1>15 DEF TypeOK, Typed

LEMMA TodoNext == ASSUME TodoInv, [Next]_vars PROVE TodoInv'
<1> USE DEF TodoInv, Saved, restoreVars, history
<1>1. CASE Create
  BY <1>1 DEF Create
<1>2. ASSUME NEW snap, Begin(snap) PROVE TodoInv'
  BY <1>2 DEF Begin
<1>3. CASE Fallback
  BY <1>3 DEF Fallback
<1>4. ASSUME NEW p \in Policies, NextPolicy(p) PROVE TodoInv'
  BY <1>4 DEF NextPolicy
<1>5. ASSUME NEW c \in Controls, WriteSucceeds(c) \/ WriteFails(c) PROVE TodoInv'
  BY <1>5 DEF WriteSucceeds, WriteFails, Turn
<1>6. CASE Finish
  BY <1>6 DEF Finish
<1>7. CASE Crash
  BY <1>7 DEF Crash
<1>8. ASSUME NEW n \in Nodes, NEW v \in Value(n), Change(n, v) PROVE TodoInv'
  BY <1>8 DEF Change
<1>9. ASSUME NEW p \in Policies, Hotplug(p) PROVE TodoInv'
  BY <1>9 DEF Hotplug
<1>10. CASE UNCHANGED vars
  BY <1>10 DEF vars
<1> QED BY <1>1, <1>2, <1>3, <1>4, <1>5, <1>6, <1>7, <1>8, <1>9, <1>10
       DEF Next, RestoreStep, BeginRestore, RestoreCommand

(* A file is written for one captured control only, so what has been put   *)
(* back stays.                                                             *)
LEMMA ProgressNext ==
  ASSUME TypeOK, SnapInv, TodoInv, ProgressInv, [Next]_vars PROVE ProgressInv'
<1> SUFFICES ASSUME phase' \in {"restoring", "done"}, ~raced' PROVE ProgressInv'
  BY DEF ProgressInv
<1> USE DEF ProgressInv, ToCome, Reported, restoreVars, history
<1>1. CASE Create
  BY <1>1 DEF Create
<1>2. ASSUME NEW snap, Begin(snap) PROVE ProgressInv'
  BY <1>2 DEF Begin
<1>3. CASE Fallback
  BY <1>3 DEF Fallback
<1>4. ASSUME NEW p \in Policies, NextPolicy(p) PROVE ProgressInv'
  <2> SUFFICES ASSUME NEW k \in DOMAIN source
               PROVE  (ToCome(k) \/ Reported(k) \/ image[Node(k)] = orig[Node(k)])'
    BY <1>4 DEF NextPolicy
  <2>1. k = <<k[1], k[2]>> /\ k[2] \in Controls
    BY NodeOfKey DEF SnapInv, OfOrig
  <2>2. CASE k[1] = p /\ p \in DOMAIN seen
    BY <1>4, <2>1, <2>2 DEF NextPolicy, Saved
  <2>3. CASE k[1] = p /\ p \notin DOMAIN seen
    BY <1>4, <2>3 DEF NextPolicy
  <2>4. CASE k[1] # p
    BY <1>4, <2>4 DEF NextPolicy
  <2> QED BY <2>2, <2>3, <2>4
<1>5. ASSUME NEW c \in Controls, WriteSucceeds(c) PROVE ProgressInv'
  <2> SUFFICES ASSUME NEW k \in DOMAIN source
               PROVE  (ToCome(k) \/ Reported(k) \/ image[Node(k)] = orig[Node(k)])'
    BY <1>5 DEF WriteSucceeds
  <2> DEFINE w == <<current, c>>
  <2>1. /\ w \in DOMAIN source /\ Node(w) \in Nodes
        /\ source[w] = orig[Node(w)] /\ image \in [Nodes -> 0..MaxFreq]
    BY <1>5, ToWrite DEF WriteSucceeds, Turn, TypeOK, Images
  <2>2. k = <<k[1], k[2]>> /\ Node(k) \in Nodes
    BY NodeOfKey DEF SnapInv, OfOrig
  <2>3. image' = [image EXCEPT ![Node(w)] = source[w]]
    BY <1>5 DEF WriteSucceeds
  <2>4. CASE k = w
    <3>1. image'[Node(k)] = orig[Node(k)]
      BY <2>1, <2>3, <2>4
    <3> QED BY <1>5, <3>1 DEF WriteSucceeds
  <2>5. CASE k # w
    <3>1. Node(k) # Node(w)
      BY <2>1, <2>5 DEF SnapInv, OfOrig
    <3>2. image'[Node(k)] = image[Node(k)]
      BY <2>1, <2>2, <2>3, <3>1
    <3>3. k[1] = current /\ k[2] \in todo => k[2] \in todo'
      BY <1>5, <2>2, <2>5 DEF WriteSucceeds
    <3> QED BY <1>5, <3>2, <3>3 DEF WriteSucceeds
  <2> QED BY <2>4, <2>5
<1>6. ASSUME NEW c \in Controls, WriteFails(c) PROVE ProgressInv'
  <2> SUFFICES ASSUME NEW k \in DOMAIN source
               PROVE  (ToCome(k) \/ Reported(k) \/ image[Node(k)] = orig[Node(k)])'
    BY <1>6 DEF WriteFails
  <2>1. CASE k[1] = current /\ k[2] \in todo \ todo'
    BY <1>6, <2>1 DEF WriteFails, Bounds
  <2>2. CASE ~(k[1] = current /\ k[2] \in todo \ todo')
    BY <1>6, <2>2 DEF WriteFails
  <2> QED BY <2>1, <2>2
<1>7. CASE Finish
  BY <1>7 DEF Finish
<1>8. CASE Crash
  BY <1>8 DEF Crash
<1>9. ASSUME NEW n \in Nodes, NEW v \in Value(n), Change(n, v) PROVE ProgressInv'
  BY <1>9 DEF Change
<1>10. ASSUME NEW p \in Policies, Hotplug(p) PROVE ProgressInv'
  BY <1>10 DEF Hotplug
<1>11. CASE UNCHANGED vars
  BY <1>11 DEF vars
<1> QED BY <1>1, <1>2, <1>3, <1>4, <1>5, <1>6, <1>7, <1>8, <1>9, <1>10, <1>11
       DEF Next, RestoreStep, BeginRestore, RestoreCommand

LEMMA OrderNext ==
  ASSUME TypeOK, SnapInv, TodoInv, OrderInv, [Next]_vars PROVE OrderInv'
<1> SUFFICES ASSUME phase' = "restoring", ~raced' PROVE OrderInv'
  BY DEF OrderInv
<1> USE DEF OrderInv, Saved, restoreVars, history
<1>1. CASE Create \/ Fallback \/ Finish \/ Crash
  BY <1>1 DEF Create, Fallback, Finish, Crash
<1>2. ASSUME NEW snap, Begin(snap) PROVE OrderInv'
  <2>1. \A p \in DOMAIN seen' : seen'[p].max = image'[<<p, "max">>]
    <3>1. PICK live \in {Policies \ gone, {}} :
            seen' = [p \in live |-> [min |-> image[<<p, "min">>], max |-> image[<<p, "max">>]]]
      BY <1>2 DEF Begin
    <3> QED BY <1>2, <3>1 DEF Begin
  <2> QED BY <1>2, <2>1 DEF Begin
<1>3. ASSUME NEW p \in Policies, NextPolicy(p) PROVE OrderInv'
  BY <1>3 DEF NextPolicy
<1>4. ASSUME NEW c \in Controls, WriteSucceeds(c) PROVE OrderInv'
  <2> DEFINE w == <<current, c>>
  <2>1. /\ w \in Keys /\ Node(w) \in Nodes /\ c \in todo
        /\ source[w] = orig[Node(w)] /\ image \in [Nodes -> 0..MaxFreq]
    BY <1>4, ToWrite DEF WriteSucceeds, Turn, TypeOK, Images
  <2>2. image' = [image EXCEPT ![Node(w)] = source[w]] /\ todo' = todo \ {c}
    BY <1>4 DEF WriteSucceeds
  <2>3. UNCHANGED <<source, seen, pending, current, orig>> /\ phase = "restoring" /\ ~raced
    BY <1>4 DEF WriteSucceeds
  <2>4. current \notin pending /\ current \in Policies /\ DOMAIN seen \subseteq Policies
    BY <2>1 DEF TodoInv, TypeOK
  <2>5. Node(w)[2] = c /\ (c \in Bounds => Node(w) = w)
    BY <2>1, NodeOfKey
  <2>6. ASSUME NEW p \in DOMAIN seen, p \in pending \/ (p = current /\ Bounds \subseteq todo')
        PROVE  seen[p].max = image'[<<p, "max">>]
    <3>1. <<p, "max">> \in Nodes
      BY <2>4, BoundNode DEF Bounds
    <3>2. <<p, "max">> # Node(w)
      BY <2>2, <2>4, <2>5, <2>6 DEF Bounds
    <3>3. image'[<<p, "max">>] = image[<<p, "max">>]
      BY <2>1, <2>2, <3>1, <3>2
    <3> QED BY <2>2, <2>3, <2>6, <3>3
  <2>7. ASSUME Bounds \subseteq Saved(current), todo' \cap Bounds # {}, NEW d \in Bounds \ todo'
        PROVE  image'[<<current, d>>] = orig[<<current, d>>]
    <3>1. <<current, d>> \in Nodes
      BY <2>4, BoundNode
    <3>2. CASE d = c
      BY <2>1, <2>2, <2>5, <3>1, <3>2
    <3>3. CASE d # c
      <4>1. <<current, d>> # Node(w)
        BY <2>5, <3>3
      <4>2. image'[<<current, d>>] = image[<<current, d>>]
        BY <2>1, <2>2, <3>1, <4>1
      <4>3. d \in Bounds \ todo /\ todo \cap Bounds # {}
        BY <2>2, <2>7, <3>3
      <4> QED BY <2>3, <2>7, <4>2, <4>3
    <3> QED BY <3>2, <3>3
  <2> QED BY <2>3, <2>6, <2>7
<1>5. ASSUME NEW c \in Controls, WriteFails(c) PROVE OrderInv'
  <2>1. todo' \subseteq todo /\ (todo' \cap Bounds # {} => todo' \cap Bounds = todo \cap Bounds)
    BY <1>5 DEF WriteFails
  <2>2. UNCHANGED <<source, seen, pending, current, image, orig>> /\ phase = "restoring" /\ ~raced
    BY <1>5 DEF WriteFails
  <2> QED BY <2>1, <2>2
<1>6. ASSUME NEW n \in Nodes, NEW v \in Value(n), Change(n, v) PROVE OrderInv'
  BY <1>6 DEF Change
<1>7. ASSUME NEW p \in Policies, Hotplug(p) PROVE OrderInv'
  BY <1>7 DEF Hotplug
<1>8. CASE UNCHANGED vars
  BY <1>8 DEF vars
<1> QED BY <1>1, <1>2, <1>3, <1>4, <1>5, <1>6, <1>7, <1>8
       DEF Next, RestoreStep, BeginRestore, RestoreCommand

-----------------------------------------------------------------------------
(* The invariant holds of every behaviour: snapshots hold original values, *)
(* and what a restore has gone past is restored or reported.               *)
THEOREM Inductive == Spec => []IInv
<1>1. IInv /\ [Next]_vars => IInv'
  BY SnapNext, TypeNext, TodoNext, ProgressNext, OrderNext DEF IInv
<1> QED BY InitInv, <1>1, PTL DEF Spec

(* When restore() returns, every captured file has its original value or   *)
(* its policy has reported a failure, if no other program wrote meanwhile. *)
THEOREM UnreportedIsRestored == Spec => []UnreportedMeansRestored
<1>1. IInv => UnreportedMeansRestored
  BY DEF IInv, TodoInv, ProgressInv, ToCome, UnreportedMeansRestored
<1> QED BY Inductive, <1>1, PTL

(* After a crash at any step the file on disk holds every original value,  *)
(* if it was ever written and no restore ran to its end.                   *)
THEOREM CrashIsRecoverable == Spec => []CrashCanRetry
<1>1. IInv => CrashCanRetry
  BY DEF IInv, SnapInv, OfOrig, CrashCanRetry
<1> QED BY Inductive, <1>1, PTL

(* The first bound written is the one that the present limits allow, and   *)
(* the second is allowed by the first.                                     *)
LEMMA TurnAccepted ==
  ASSUME TypeOK, SnapInv, TodoInv, OrderInv, phase = "restoring", ~raced,
         NEW c \in Controls, Turn(c), Bounds \subseteq Saved(current)
  PROVE  Accepts(image, Node(<<current, c>>), source[<<current, c>>])
<1> DEFINE w == <<current, c>>
           old(d) == orig[<<current, d>>]
           now(d) == image[<<current, d>>]
<1>1. c \in todo /\ current \in Policies /\ current \in DOMAIN seen
  BY DEF Turn, TodoInv, TypeOK
<1>2. \A d \in Bounds : source[<<current, d>>] = old(d)
  BY <1>1, BoundNode DEF SnapInv, OfOrig, Saved
<1>3. /\ old("min") \in Int /\ old("max") \in Int /\ old("min") <= old("max")
      /\ now("min") \in Int /\ now("max") \in Int /\ now("min") <= now("max")
  <2>1. orig \in Images /\ image \in Images
    BY DEF TypeOK
  <2>2. /\ old("min") \in 1..MaxFreq /\ old("max") \in 1..MaxFreq /\ old("min") <= old("max")
        /\ now("min") \in 1..MaxFreq /\ now("max") \in 1..MaxFreq /\ now("min") <= now("max")
    BY <1>1, <2>1, LimitsOf
  <2> QED BY <2>2, CountAssumption
<1>4. Bounds \subseteq todo => seen[current].max = now("max")
  BY <1>1 DEF OrderInv
<1>5. \A d \in Bounds \ todo : c \in Bounds => now(d) = old(d)
  BY <1>1 DEF OrderInv
<1>6. CASE c = "min"
  <2>1. old("min") <= now("max")
    <3>1. CASE "max" \in todo
      <4>1. ~MaxFirst(current)
        BY <1>6, <3>1 DEF Turn, Before, Bounds
      <4> QED BY <1>1, <1>2, <1>3, <1>4, <1>6, <3>1, <4>1 DEF MaxFirst, Bounds
    <3>2. CASE "max" \notin todo
      BY <1>3, <1>5, <1>6, <3>2 DEF Bounds
    <3> QED BY <3>1, <3>2
  <2>2. Node(w) = <<current, "min">> /\ source[w] = old("min")
    BY <1>1, <1>2, <1>6, BoundNode DEF Bounds
  <2> QED BY <2>1, <2>2 DEF Accepts
<1>7. CASE c = "max"
  <2>1. old("max") >= now("min")
    <3>1. CASE "min" \in todo
      <4>1. MaxFirst(current)
        BY <1>7, <3>1 DEF Turn, Before, Bounds
      <4>2. old("min") > now("max")
        BY <1>1, <1>2, <1>4, <1>7, <3>1, <4>1 DEF MaxFirst, Bounds
      <4> QED BY <1>3, <4>2
    <3>2. CASE "min" \notin todo
      BY <1>3, <1>5, <1>7, <3>2 DEF Bounds
    <3> QED BY <3>1, <3>2
  <2>2. Node(w) = <<current, "max">> /\ source[w] = old("max")
    BY <1>1, <1>2, <1>7, BoundNode DEF Bounds
  <2> QED BY <2>1, <2>2 DEF Accepts
<1>8. CASE c \notin Bounds
  <2>1. Node(w)[2] = c
    BY <1>1, ToWrite, NodeOfKey
  <2> QED BY <1>8, <2>1 DEF Accepts, Bounds
<1> QED BY <1>6, <1>7, <1>8 DEF Bounds

(* The order _restore_policy_bounds chooses is one cpufreq accepts: it     *)
(* refuses a bound only when another program wrote, or one bound was saved.*)
THEOREM OrderIsAccepted == Spec => OrderAccepted
<1>1. ASSUME IInv, [Next]_vars, refused', ~refused
      PROVE  raced \/ ~(Bounds \subseteq Saved(current))
  <2>1. PICK c \in Controls : WriteFails(c)
    BY <1>1 DEF Next, vars, Create, RestoreStep, BeginRestore, RestoreCommand, Begin, Fallback,
         NextPolicy, WriteSucceeds, Finish, Crash, Change, Hotplug, history
  <2>2. ~Accepts(image, Node(<<current, c>>), source[<<current, c>>])
    BY <1>1, <2>1 DEF WriteFails
  <2> QED BY <1>1, <2>1, <2>2, TurnAccepted DEF IInv, WriteFails
<1>2. IInv /\ [Next]_vars => [refused' /\ ~refused => raced \/ ~(Bounds \subseteq Saved(current))]_vars
  BY <1>1
<1> QED BY Inductive, <1>2, PTL DEF Spec, OrderAccepted
=============================================================================
