---------------------------- MODULE SessionProofs ---------------------------
(***************************************************************************)
(* Proofs about IPCSession, for every set of clients and calls, every      *)
(* backlog and any number of restarts; then about RollbackSession, the     *)
(* sessions of a program that uses the library without the daemon.         *)
(***************************************************************************)
EXTENDS IPCSession, RollbackSession, TLAPS

Unread == {"none", "queued", "accepted", "recv", "handling"}

TypeInv ==
  /\ backlog \in Seq(Calls)
  /\ conn \in [Calls -> ConnStates]
  /\ call \in [Calls -> {"none", "connected", "waiting"} \cup Results]
  /\ sent \subseteq Calls /\ late \subseteq Calls
  /\ reply \in [Calls -> {"none"} \cup Answers]
  /\ ran \in [Calls -> Nat]

(* Every connection in the backlog is there once, and nobody has it.       *)
QueueInv ==
  /\ \A i \in 1..Len(backlog) : conn[backlog[i]] = "queued"
  /\ \A i, j \in 1..Len(backlog) : backlog[i] = backlog[j] => i = j

(* What a call, its connection and its handler know of each other.         *)
SessionInv ==
  \A r \in Calls :
    /\ ran[r] <= 1
    /\ conn[r] \in Unread => ran[r] = 0
    /\ \A a \in {conn[r], reply[r], call[r]} :
         (a \in Handled => ran[r] = 1) /\ (a = "refused" => ran[r] = 0)
    /\ call[r] \in {"none", "unreachable"} => conn[r] = "none"
    /\ call[r] = "closed" => conn[r] = "closed"
    /\ call[r] \in Answers \/ reply[r] \in Answers => conn[r] = "closed"
    /\ conn[r] = "handling" => r \in sent
    /\ r \in sent => call[r] \notin {"none", "connected", "unreachable"}

(* A late connection is with a thread that has yet to see the event.       *)
LateInv ==
  \A r \in late :
    /\ conn[r] \in {"accepted", "closed"} /\ ran[r] = 0
    /\ conn[r] = "accepted" => StopSet

IInv == TypeInv /\ QueueInv /\ SessionInv /\ LateInv

LEMMA InitInv == Init => IInv
  BY DEF Init, IInv, TypeInv, QueueInv, SessionInv, LateInv, ConnStates, Answers, Handled, Results

-----------------------------------------------------------------------------
LEMMA ConnectInv ==
  ASSUME IInv, NEW r \in Calls, Connect(r)
  PROVE  IInv'
<1>0. call[r] = "none" /\ conn[r] = "none" /\ UNCHANGED <<serverVars, sent, reply, ran, late>>
  BY DEF Connect, IInv, SessionInv
<1>1. CASE call' = [call EXCEPT ![r] = "unreachable"] /\ UNCHANGED <<backlog, conn>>
  BY <1>0, <1>1 DEF IInv, TypeInv, QueueInv, SessionInv, LateInv, StopSet, serverVars,
     Results, Answers, Handled, Unread
<1>2. CASE /\ call' = [call EXCEPT ![r] = "connected"]
           /\ backlog' = Append(backlog, r)
           /\ conn' = [conn EXCEPT ![r] = "queued"]
  <2>1. TypeInv'
    BY <1>0, <1>2 DEF IInv, TypeInv, ConnStates
  <2>2. QueueInv'
    BY <1>0, <1>2 DEF IInv, TypeInv, QueueInv
  <2>3. SessionInv'
    BY <1>0, <1>2 DEF IInv, TypeInv, SessionInv, Unread, Answers, Handled
  <2>4. LateInv'
    BY <1>0, <1>2 DEF IInv, TypeInv, LateInv, StopSet, serverVars
  <2> QED BY <2>1, <2>2, <2>3, <2>4 DEF IInv
<1> QED BY <1>1, <1>2 DEF Connect

(* The other steps of a client leave the connection alone.                 *)
LEMMA ClientInv ==
  ASSUME IInv, NEW r \in Calls,
         Send(r) \/ Receive(r) \/ Hangup(r) \/ Timeout(r) \/ Interrupt(r)
  PROVE  IInv'
<1>0. UNCHANGED <<server, backlog, conn, ran, late>>
  BY DEF Send, Receive, Hangup, Timeout, Interrupt, serverVars
<1>1. TypeInv'
  BY <1>0 DEF IInv, TypeInv, Send, Receive, Hangup, Timeout, Interrupt, Results, Answers, Handled
<1>2. QueueInv' /\ LateInv'
  BY <1>0 DEF IInv, QueueInv, LateInv, StopSet
<1>3. SessionInv'
  <2>1. CASE Send(r)
    BY <1>0, <2>1 DEF IInv, TypeInv, SessionInv, Send, Answers, Handled
  <2>2. CASE Receive(r)
    BY <1>0, <2>2 DEF IInv, TypeInv, SessionInv, Receive, Answers, Handled
  <2>3. CASE Hangup(r)
    BY <1>0, <2>3 DEF IInv, TypeInv, SessionInv, Hangup, Answers, Handled
  <2>4. CASE Timeout(r)
    BY <1>0, <2>4 DEF IInv, TypeInv, SessionInv, Timeout, Answers, Handled
  <2>5. CASE Interrupt(r)
    BY <1>0, <2>5 DEF IInv, TypeInv, SessionInv, Interrupt, Answers, Handled
  <2> QED BY <2>1, <2>2, <2>3, <2>4, <2>5
<1> QED BY <1>1, <1>2, <1>3 DEF IInv

-----------------------------------------------------------------------------
LEMMA AcceptInv ==
  ASSUME IInv, Accept
  PROVE  IInv'
<1> DEFINE r == Head(backlog)
<1>0. /\ backlog \in Seq(Calls) /\ backlog # <<>>
      /\ backlog' = Tail(backlog)
      /\ conn' = [conn EXCEPT ![r] = "accepted"]
      /\ late' = IF StopSet THEN late \cup {r} ELSE late
      /\ UNCHANGED <<server, call, sent, reply, ran>>
  BY DEF Accept, IInv, TypeInv, clientVars
<1>1. r \in Calls /\ r = backlog[1] /\ Len(backlog) >= 1
  BY <1>0
<1>2. conn[r] = "queued" /\ \A i \in 2..Len(backlog) : backlog[i] # r
  BY <1>1, <1>0 DEF IInv, QueueInv
<1> HIDE DEF r
<1>3. TypeInv'
  BY <1>0, <1>1 DEF IInv, TypeInv, ConnStates
<1>4. QueueInv'
  <2>1. Len(backlog') = Len(backlog) - 1
        /\ \A i \in 1..Len(backlog') : backlog'[i] = backlog[i + 1]
    BY <1>0, <1>1
  <2>2. \A i \in 1..Len(backlog') : i + 1 \in 2..Len(backlog)
    BY <2>1, <1>0
  <2>3. \A i \in 1..Len(backlog') : conn'[backlog'[i]] = "queued"
    BY <2>1, <2>2, <1>0, <1>2 DEF IInv, TypeInv, QueueInv
  <2>4. \A i, j \in 1..Len(backlog') : backlog'[i] = backlog'[j] => i = j
    BY <2>1, <2>2, <1>0 DEF IInv, QueueInv
  <2> QED BY <2>3, <2>4 DEF QueueInv
<1>5. SessionInv'
  BY <1>0, <1>1, <1>2 DEF IInv, TypeInv, SessionInv, Unread, Answers, Handled
<1>6. LateInv'
  BY <1>0, <1>1, <1>2 DEF IInv, TypeInv, SessionInv, LateInv, StopSet, Unread
<1> QED BY <1>3, <1>4, <1>5, <1>6 DEF IInv

(* A thread moves its own connection, out of the backlog by now.           *)
LEMMA ThreadInv ==
  ASSUME IInv, NEW r \in Calls, Thread(r)
  PROVE  IInv'
<1>0. UNCHANGED <<server, call, sent, backlog, late>>
  BY DEF Thread, CheckStop, Recv, RecvTimeout, Refuse, Run, Reply, serverVars, clientVars
<1>1. TypeInv'
  <2>1. conn[r] \in ConnStates /\ ran[r] + 1 \in Nat
    BY DEF IInv, TypeInv
  <2>2. conn' \in [Calls -> ConnStates] /\ ran' \in [Calls -> Nat]
    BY <2>1 DEF IInv, TypeInv, Thread, CheckStop, Recv, RecvTimeout, Refuse, Run, Reply, ConnStates,
       Answers, Handled
  <2>3. reply' \in [Calls -> {"none"} \cup Answers]
    BY DEF IInv, TypeInv, Thread, CheckStop, Recv, RecvTimeout, Refuse, Run, Reply
  <2> QED BY <1>0, <2>2, <2>3 DEF IInv, TypeInv
<1>2. conn[r] # "queued" /\ \A q \in Calls : q # r => conn'[q] = conn[q]
  BY DEF IInv, TypeInv, Thread, CheckStop, Recv, RecvTimeout, Refuse, Run, Reply, Answers, Handled
<1>3. QueueInv'
  <2>1. \A i \in 1..Len(backlog) : backlog[i] \in Calls \ {r}
    BY <1>2 DEF IInv, TypeInv, QueueInv
  <2> QED BY <1>0, <1>2, <2>1 DEF IInv, QueueInv
<1>4. CASE CheckStop(r)
  BY <1>0, <1>1, <1>3, <1>4
     DEF IInv, TypeInv, SessionInv, LateInv, CheckStop, StopSet, Unread, Answers, Handled
<1>5. CASE Recv(r) \/ RecvTimeout(r)
  BY <1>0, <1>1, <1>3, <1>5
     DEF IInv, TypeInv, SessionInv, LateInv, Recv, RecvTimeout, StopSet, Unread, Answers, Handled
<1>6. CASE Refuse(r)
  BY <1>0, <1>1, <1>3, <1>6
     DEF IInv, TypeInv, SessionInv, LateInv, Refuse, StopSet, Unread, Answers, Handled
<1>7. CASE Run(r)
  BY <1>0, <1>1, <1>3, <1>7
     DEF IInv, TypeInv, SessionInv, LateInv, Run, StopSet, Unread, Answers, Handled
<1>8. CASE Reply(r)
  BY <1>0, <1>1, <1>3, <1>8
     DEF IInv, TypeInv, SessionInv, LateInv, Reply, StopSet, Unread, Answers, Handled
<1> QED BY <1>4, <1>5, <1>6, <1>7, <1>8 DEF Thread

(* The ends of the server close connections and empty the backlog.         *)
LEMMA EndInv ==
  ASSUME IInv, Close \/ Die
  PROVE  IInv'
<1>0. /\ backlog' = <<>>
      /\ UNCHANGED <<call, sent, reply, ran, late>>
      /\ conn' \in [Calls -> ConnStates]
      /\ \A r \in Calls : conn'[r] = conn[r] \/ (conn[r] # "none" /\ conn'[r] = "closed")
      /\ \A r \in Calls : conn[r] = "none" => conn'[r] = "none"
  <2>1. \A i \in 1..Len(backlog) : conn[backlog[i]] = "queued"
    BY DEF IInv, QueueInv
  <2>2. \A r \in ToSet(backlog) : conn[r] = "queued"
    BY <2>1 DEF IInv, TypeInv, ToSet
  <2>3. backlog' = <<>> /\ UNCHANGED <<call, sent, reply, ran, late>>
    BY DEF Close, Die, clientVars
  <2>4. PICK rs : /\ conn' = ConnSet(rs, "closed")
                  /\ \A r \in Calls : r \in rs => conn[r] # "none"
    <3>1. CASE Close
      BY <3>1, <2>2 DEF Close
    <3>2. CASE Die
      BY <3>2 DEF Die
    <3> QED BY <3>1, <3>2
  <2>5. "closed" \in ConnStates
    BY DEF ConnStates
  <2>6. conn \in [Calls -> ConnStates]
    BY DEF IInv, TypeInv
  <2>7. conn' = [r \in Calls |-> IF r \in rs THEN "closed" ELSE conn[r]]
    BY <2>4 DEF ConnSet
  <2>8. conn' \in [Calls -> ConnStates]
    BY <2>5, <2>6, <2>7
  <2>9. \A r \in Calls : conn'[r] = conn[r] \/ (conn[r] # "none" /\ conn'[r] = "closed")
    BY <2>4, <2>7
  <2> QED BY <2>3, <2>8, <2>9
<1>1. TypeInv'
  BY <1>0 DEF IInv, TypeInv
<1>2. QueueInv'
  BY <1>0 DEF QueueInv
<1>3. SessionInv'
  BY <1>0 DEF IInv, TypeInv, SessionInv, Unread, Answers, Handled
<1>4. \A r \in late : conn'[r] = "accepted" => StopSet'
  BY <1>0 DEF IInv, TypeInv, LateInv, Close, Die, ConnSet, StopSet
<1>5. LateInv'
  BY <1>0, <1>4 DEF IInv, TypeInv, LateInv
<1> QED BY <1>1, <1>2, <1>3, <1>5 DEF IInv

LEMMA ServerInv ==
  ASSUME IInv, ListenerChecks \/ ListenerWaits \/ BeginStop \/ UNCHANGED vars
  PROVE  IInv'
<1>1. UNCHANGED <<call, sent, backlog, conn, reply, ran, late>> /\ (StopSet => StopSet')
  BY DEF ListenerChecks, ListenerWaits, BeginStop, vars, clientVars, serverVars, StopSet
<1> QED BY <1>1 DEF IInv, TypeInv, QueueInv, SessionInv, LateInv

LEMMA RestartInv ==
  ASSUME IInv, Restart
  PROVE  IInv'
<1>1. server = "gone" /\ UNCHANGED <<call, sent, backlog, conn, reply, ran, late>>
  BY DEF Restart, clientVars
<1>2. LateInv'
  BY <1>1 DEF IInv, LateInv, StopSet
<1> QED BY <1>1, <1>2 DEF IInv, TypeInv, QueueInv, SessionInv

LEMMA Inductive == Spec => []IInv
<1>1. ASSUME IInv, [Next]_vars PROVE IInv'
  <2>1. CASE \E r \in Calls : Client(r)
    BY <1>1, <2>1, ConnectInv, ClientInv DEF Client
  <2>2. CASE \E r \in Calls : Thread(r)
    BY <1>1, <2>2, ThreadInv
  <2>3. CASE Listener \/ BeginStop \/ UNCHANGED vars
    BY <1>1, <2>3, AcceptInv, ServerInv DEF Listener
  <2>4. CASE Close \/ Die \/ Restart
    BY <1>1, <2>4, EndInv, RestartInv
  <2> QED BY <1>1, <2>1, <2>2, <2>3, <2>4 DEF Next
<1> QED BY InitInv, <1>1, PTL DEF Spec

(* A call runs its command at most once; an answer means it ran, and a     *)
(* refused connection means it did not (ipc.py:186-223, 260-311).          *)
THEOREM AnswersTellWhatRan == Spec => []AnswerTellsWhatRan
<1>1. ASSUME IInv, NEW r \in Calls
      PROVE  /\ ran[r] <= 1
             /\ call[r] \in Handled \/ ExitCode(r) = 0 => ran[r] = 1
             /\ call[r] \in {"refused", "unreachable"} => ran[r] = 0
  <2>1. ExitCode(r) = 0 => call[r] \in Handled
    BY DEF ExitCode, Handled
  <2>2. ran[r] <= 1 /\ (call[r] \in Handled => ran[r] = 1) /\ (call[r] = "refused" => ran[r] = 0)
    <3>1. /\ ran[r] <= 1
          /\ \A a \in {conn[r], reply[r], call[r]} :
               (a \in Handled => ran[r] = 1) /\ (a = "refused" => ran[r] = 0)
      BY <1>1 DEF IInv, SessionInv
    <3>2. call[r] \in {conn[r], reply[r], call[r]}
      OBVIOUS
    <3> QED BY <3>1, <3>2
  <2>3. call[r] = "unreachable" => ran[r] = 0
    BY <1>1 DEF IInv, SessionInv, Unread
  <2> QED BY <2>1, <2>2, <2>3
<1>2. IInv => AnswerTellsWhatRan
  BY <1>1 DEF AnswerTellsWhatRan
<1> QED BY Inductive, <1>2, PTL

(* A connection accepted with the stop event set runs no command           *)
(* (ipc.py:191).                                                           *)
THEOREM LateConnectionsStayUnread == Spec => []LateConnectionsRunNothing
<1>1. IInv => LateConnectionsRunNothing
  BY DEF IInv, LateInv, LateConnectionsRunNothing
<1> QED BY Inductive, <1>1, PTL

(* A command that runs after its call returned belongs to a call that gave *)
(* up (ipc.py:299).                                                        *)
THEOREM OnlyGivenUpCallsRunLate == Spec => LateOnlyAfterGivingUp
<1>1. ASSUME IInv, [Next]_vars, NEW r \in Calls, ran'[r] # ran[r]
      PROVE  call[r] \in {"waiting", "gaveUp"}
  <2>1. Run(r)
    <3>1. \A q \in Calls : Client(q) => ran' = ran
      BY DEF Client, Connect, Send, Receive, Hangup, Timeout, Interrupt
    <3>2. \A q \in Calls : Thread(q) => ran' = ran \/ Run(q)
      BY DEF Thread, CheckStop, Recv, RecvTimeout, Refuse, Reply
    <3>3. Listener \/ BeginStop \/ Close \/ Die \/ Restart => ran' = ran
      BY DEF Listener, ListenerChecks, ListenerWaits, Accept, BeginStop, Close, Die, Restart
    <3>4. PICK q \in Calls : Run(q)
      BY <1>1, <3>1, <3>2, <3>3 DEF Next, vars
    <3>5. q = r
      BY <1>1, <3>4 DEF Run, IInv, TypeInv
    <3> QED BY <3>4, <3>5
  <2> QED BY <1>1, <2>1 DEF Run, IInv, TypeInv, SessionInv, Results, Answers, Handled
<1>2. IInv /\ [Next]_vars =>
        [\A r \in Calls : ran'[r] # ran[r] => call[r] \in {"waiting", "gaveUp"}]_vars
  BY <1>1
<1> QED BY Inductive, <1>2, PTL DEF Spec, LateOnlyAfterGivingUp

-----------------------------------------------------------------------------
(* The context managers of the library: proofs about RollbackSession, for  *)
(* any cpuidle states, frequencies, initial values and number of signals.  *)

(* What a list of writes names: a file, or both bounds, whose order is not *)
(* chosen yet.                                                             *)
Rng(s) == {s[k] : k \in DOMAIN s}
Work == Files \cup {"bounds"}

(* A bound follows another bound only.                                     *)
BoundsTogether(s) ==
  \A k \in DOMAIN s : k > 1 /\ s[k] \in Bounds => s[k - 1] \in Bounds /\ s[k - 1] # s[k]
Frame == {f \in [target : Images, todo : Seq(Work), defaults : BOOLEAN] : BoundsTogether(f.todo)}

(* The places with the manager's signal handlers.                          *)
Guarded == {"hookExit", "enter", "fallback", "body", "release", "leave", "unhook"}

(* Types, and where a place, a handler or a hook rules out another.        *)
BaseInv ==
  /\ setup \in [managed : BOOLEAN, onExit : BOOLEAN, chained : BOOLEAN]
  /\ setup.onExit => setup.managed
  /\ pc \in Places
  /\ image \in Images /\ orig \in Images
  /\ snapshot \in {NoImage, orig} /\ snapFile \in {NoImage, orig}
  /\ {hooked, atexit, raised, entered, persisted, failed} \subseteq BOOLEAN
  /\ signals \in Nat /\ restores \in Nat
  /\ depth \in Nat
  /\ frames \in Seq(Frame) /\ Len(frames) = depth + (IF pc = "restore" THEN 1 ELSE 0)
  /\ pc \in Over => depth = 0
  /\ depth > 0 => hooked /\ signals > 0 /\ restores > 0
  /\ ~setup.managed => pc \notin {"unhook", "unhookExit"}
  /\ hooked => pc \notin {"create", "hook", "unhookExit"}
  /\ pc \in Guarded => hooked
  /\ pc \in Guarded \cup {"unhookExit"} => atexit \/ pc = "hookExit"
  /\ pc \in {"create", "hook"} => image = orig /\ restores = 0 /\ ~atexit
  /\ pc = "create" => snapshot = NoImage /\ snapFile = NoImage /\ ~persisted

(* The loop of the fallback has saved a value for each state it has        *)
(* passed.                                                                 *)
LatencyTypes ==
  /\ latency \in [locked : BOOLEAN, fallback : BOOLEAN, saved : Seq(-1..1)]
  /\ Len(latency.saved) <= Len(IdleStates)
  /\ pos \in 1..(Len(IdleStates) + 1)
  /\ pc = "fallback" => Len(latency.saved) = pos - 1

(* What the promises suppose: no write failed, no previous handler lets    *)
(* the program go on after a restore, and none ended it at once.           *)
Promising == ~failed /\ ~(signals > 0 /\ setup.chained)
Calm == Promising /\ pc \notin {"killed", "interrupted"}

Ended == {"leave", "unhook", "unhookExit", "restore", "final", "exited"}

(* Ctrl-C before the hooks were there: nothing was changed yet.            *)
Aborted == pc \in {"final", "exited"} /\ ~hooked /\ ~atexit /\ image = orig

(* The snapshot is there until the first restore has ended; after it the   *)
(* program is on its way out.                                              *)
PathInv ==
  Calm =>
    /\ restores = 0 => /\ frames = <<>>
                       /\ signals > 0 => pc \in {"final", "exited"}
                       /\ snapshot = orig \/ pc = "create" \/ Aborted
    /\ restores > 0 /\ depth = 0 => pc \in Ended
    /\ snapshot = NoImage /\ pc # "create" => (restores > 0 \/ Aborted) /\ pc \in Ended
    /\ signals = 0 => /\ restores <= 1
                      /\ restores = 1 => pc \in {"restore", "final", "exited"}
    /\ pc = "restore" /\ signals = 0 => snapshot = orig
    /\ persisted => snapFile = orig \/ snapshot = NoImage

(* A program that ends without a restore was not to restore.               *)
ExitInv ==
  Calm /\ restores = 0 /\ pc \in {"final", "exited"} =>
    \/ image = orig
    \/ setup.managed /\ ~raised /\ ~setup.onExit
    \/ pc = "final" /\ atexit

(* The controller will still give state i back.                            *)
Held(i) ==
  /\ i \in DOMAIN latency.saved /\ latency.saved[i] # -1
  /\ pc \in {"release", "leave"} => i >= pos

(* What it will write is the original value.                               *)
SavedInv ==
  Calm => \A i \in DOMAIN latency.saved : latency.saved[i] \in {-1, orig[IdleStates[i]]}

(* The places without the controller.                                      *)
Bare == {"create", "hook", "hookExit", "unhook", "unhookExit", "final", "exited"}

(* Before the first restore a state differs from its original only while   *)
(* the controller holds it.                                                *)
HeldInv ==
  Calm /\ restores = 0 =>
    /\ pc # "fallback" /\ ~latency.fallback => latency.saved = <<>>
    /\ pc \in {"body", "enter"} /\ ~latency.locked => latency.saved = <<>>
    /\ pc \notin {"fallback", "release", "leave"} => pos = 1
    /\ pc \in Bare => latency.saved = <<>>
    /\ \A i \in DOMAIN IdleStates : image[IdleStates[i]] = orig[IdleStates[i]] \/ Held(i)

(* A file has its target or is still to be written; cpufreq accepts the    *)
(* next write.                                                             *)
Covered(f) ==
  \A n \in Files : image[n] = f.target[n] \/ n \in Rng(f.todo) \/ (n \in Bounds /\ "bounds" \in Rng(f.todo))
Ready(f) ==
  f.todo # <<>> /\ Head(f.todo) \in Bounds => Accepts(Head(f.todo), f.target[Head(f.todo)])

(* What the defaults have overwritten so far.                              *)
Between == \A n \in Files : image[n] \in {orig[n], Defaults[n]}

(* The restore on top will reach its target: the originals, which are      *)
(* still in memory or in the file, or the defaults when both are gone.     *)
FrameInv ==
  Calm /\ frames # <<>> =>
    /\ Covered(Top) /\ Ready(Top)
    /\ restores > 0
    /\ IF Top.defaults
       THEN snapshot = NoImage /\ restores > 1 /\ Top.target = Defaults /\ Between
       ELSE Top.target = orig /\ orig \in {snapshot, snapFile}

(* Between restores the files are where the last one left them. Only the   *)
(* controller could still write then, and writes originals.                *)
SettledInv ==
  Calm /\ frames = <<>> /\ restores > 0 =>
    /\ snapshot = NoImage
    /\ image = orig \/ (restores > 1 /\ image = Defaults /\ pc # "leave")

KilledInv == KilledIsRecoverable /\ (pc = "killed" => signals > 0)

(* Ctrl-C in a restore finds the originals in the file or their rest in    *)
(* force.                                                                  *)
Recoverable == snapFile = orig \/ ~persisted \/ (restores > 1 /\ Between)
InterruptedInv == pc = "interrupted" /\ Promising => Recoverable

RInv == /\ BaseInv /\ LatencyTypes /\ PathInv /\ ExitInv
        /\ SavedInv /\ HeldInv /\ FrameInv /\ SettledInv /\ KilledInv
        /\ InterruptedInv

-----------------------------------------------------------------------------
(* The files.                                                              *)
LEMMA FileNames ==
  ASSUME ConstantsOK
  PROVE  /\ {"min", "max", "boost"} \subseteq Files /\ "bounds" \notin Files
         /\ Bounds = {"min", "max"}
         /\ Len(IdleStates) \in Nat /\ DOMAIN IdleStates = 1..Len(IdleStates)
         /\ \A i \in DOMAIN IdleStates : /\ IdleStates[i] \in Files \ (Bounds \cup {"boost"})
                                         /\ IdleStates[i] \in Idles
         /\ IdleStates \in Seq(Work) /\ Rng(IdleStates) = Idles
         /\ MaxFreq \in Nat
<1>1. Len(IdleStates) \in Nat /\ DOMAIN IdleStates = 1..Len(IdleStates)
      /\ \A i \in DOMAIN IdleStates : IdleStates[i] \in Idles
  BY DEF ConstantsOK
<1>2. Idles \subseteq Work
  BY DEF Work, Files
<1>3. IdleStates \in Seq(Work)
  BY <1>2 DEF ConstantsOK
<1> QED BY <1>1, <1>3 DEF ConstantsOK, Idles, Bounds, Files, Rng

(* The values a file may have.                                             *)
LEMMA ImageFacts ==
  ASSUME ConstantsOK, NEW img \in Images
  PROVE  /\ img \in [Files -> 0..MaxFreq] /\ img # NoImage
         /\ img["min"] \in 1..MaxFreq /\ img["max"] \in 1..MaxFreq /\ img["min"] <= img["max"]
         /\ MaxFreq >= 1
         /\ \A n \in Files \ Bounds : img[n] \in 0..1
         /\ \A n \in Files : img[n] \in Value(n)
<1>1. img \in [Files -> 0..MaxFreq] /\ img["min"] <= img["max"]
      /\ \A n \in Files : img[n] \in Value(n)
  BY DEF Images
<1>2. img # NoImage
  <2>1. DOMAIN NoImage = {} /\ DOMAIN img = Files /\ "min" \in Files
    BY <1>1, FileNames DEF NoImage
  <2> QED BY <2>1
<1> QED BY <1>1, <1>2, FileNames DEF Value

LEMMA WriteLegal ==
  ASSUME ConstantsOK, image \in Images, NEW n \in Files, NEW v \in Value(n), Accepts(n, v)
  PROVE  [image EXCEPT ![n] = v] \in Images
<1> DEFINE img == [image EXCEPT ![n] = v]
<1>1. /\ image \in [Files -> 0..MaxFreq] /\ image["min"] <= image["max"] /\ MaxFreq >= 1
      /\ \A m \in Files : image[m] \in Value(m)
  BY ImageFacts
<1>2. Value(n) \subseteq 0..MaxFreq
  BY <1>1, FileNames DEF Value
<1>3. img \in [Files -> 0..MaxFreq] /\ \A m \in Files : img[m] = IF m = n THEN v ELSE image[m]
  BY <1>1, <1>2
<1> HIDE DEF img
<1>4. \A m \in Files : img[m] \in Value(m)
  BY <1>1, <1>3
<1>5. img["min"] <= img["max"]
  BY <1>1, <1>3, FileNames DEF Accepts
<1> QED BY <1>3, <1>4, <1>5 DEF Images, img

LEMMA DefaultsLegal ==
  ASSUME ConstantsOK, image \in Images
  PROVE  Defaults \in Images /\ Defaults["min"] = 1 /\ Defaults["max"] = MaxFreq
<1>1. MaxFreq >= 1
  BY ImageFacts
<1>2. \A n \in Idles : n # "max" /\ n # "min" /\ n # "boost" /\ n \notin Bounds
  BY DEF ConstantsOK, Bounds
<1>3. \A n \in Files : Defaults[n] = IF n = "max" THEN MaxFreq ELSE IF n \in Idles THEN 0 ELSE 1
  BY <1>2 DEF Defaults
<1>4. Defaults["min"] = 1 /\ Defaults["max"] = MaxFreq
  BY <1>2, <1>3, FileNames
<1>5. \A n \in Files : Defaults[n] \in Value(n) /\ Defaults[n] \in 0..MaxFreq
  BY <1>1, <1>2, <1>3, FileNames DEF Value, Files
<1>6. Defaults \in [Files -> 0..MaxFreq]
  <2>1. \A f : f = Defaults => f = [n \in Files |-> f[n]]
    BY DEF Defaults
  <2> QED BY <1>5, <2>1
<1> QED BY <1>1, <1>4, <1>5, <1>6 DEF Images

-----------------------------------------------------------------------------
(* Lists of writes: the first one, and the choice of the order of the      *)
(* bounds.                                                                 *)
LEMMA TailOf ==
  ASSUME NEW s \in Seq(Work), s # <<>>
  PROVE  /\ Tail(s) \in Seq(Work) /\ Head(s) \in Work /\ Head(s) = s[1]
         /\ Rng(s) = {Head(s)} \cup Rng(Tail(s))
         /\ BoundsTogether(s) => BoundsTogether(Tail(s))
         /\ BoundsTogether(s) /\ Tail(s) # <<>> /\ Head(Tail(s)) \in Bounds =>
              Head(s) \in Bounds /\ Head(s) # Head(Tail(s))
<1> DEFINE t == Tail(s)
<1>1. /\ t \in Seq(Work) /\ Len(s) \in Nat \ {0} /\ Len(t) = Len(s) - 1
      /\ DOMAIN s = 1..Len(s) /\ DOMAIN t = 1..(Len(s) - 1)
      /\ \A k \in DOMAIN t : t[k] = s[k + 1]
      /\ Head(s) = s[1] /\ s[1] \in Work
  OBVIOUS
<1> HIDE DEF t
<1>2. Rng(s) = {Head(s)} \cup Rng(t)
  <2>1. \A k \in DOMAIN s : k = 1 \/ (k - 1 \in DOMAIN t /\ s[k] = t[k - 1])
    BY <1>1
  <2>2. \A k \in DOMAIN t : k + 1 \in DOMAIN s /\ t[k] = s[k + 1]
    BY <1>1
  <2>3. 1 \in DOMAIN s
    BY <1>1
  <2> QED BY <1>1, <2>1, <2>2, <2>3 DEF Rng
<1>3. ASSUME BoundsTogether(s) PROVE BoundsTogether(t)
  <2> SUFFICES ASSUME NEW k \in DOMAIN t, k > 1, t[k] \in Bounds
               PROVE  t[k - 1] \in Bounds /\ t[k - 1] # t[k]
    BY DEF BoundsTogether
  <2>1. k + 1 \in DOMAIN s /\ k + 1 > 1 /\ s[k + 1] = t[k] /\ (k + 1) - 1 = k
    BY <1>1
  <2>2. k - 1 \in DOMAIN t /\ t[k - 1] = s[k]
    BY <1>1
  <2> QED BY <1>3, <2>1, <2>2 DEF BoundsTogether
<1>4. ASSUME BoundsTogether(s), t # <<>>, Head(t) \in Bounds
      PROVE  Head(s) \in Bounds /\ Head(s) # Head(t)
  <2>1. Head(t) = s[2] /\ 2 \in DOMAIN s
    BY <1>1, <1>4
  <2> QED BY <1>1, <1>4, <2>1 DEF BoundsTogether
<1> QED
  <2>1. t # <<>> /\ Head(t) \in Bounds /\ BoundsTogether(s) => Head(s) \in Bounds /\ Head(s) # Head(t)
    BY <1>4
  <2>2. Head(s) \in Work
    BY <1>1
  <2> QED BY <1>1, <1>2, <1>3, <2>1, <2>2 DEF t

LEMMA PairOf ==
  ASSUME NEW a \in Work, NEW b \in Work, NEW s \in Seq(Work)
  PROVE  /\ (<<a, b>> \o s) \in Seq(Work) /\ Len(<<a, b>> \o s) = Len(s) + 2
         /\ (<<a, b>> \o s) # <<>>
         /\ (<<a, b>> \o s)[1] = a /\ (<<a, b>> \o s)[2] = b
         /\ \A k \in DOMAIN (<<a, b>> \o s) :
              k = 1 \/ k = 2 \/ (k - 2 \in DOMAIN s /\ (<<a, b>> \o s)[k] = s[k - 2])
         /\ Rng(<<a, b>> \o s) = {a, b} \cup Rng(s)
<1> DEFINE u == <<a, b>> \o s
<1>1. /\ u \in Seq(Work) /\ Len(u) = Len(s) + 2 /\ Len(s) \in Nat
      /\ DOMAIN u = 1..(Len(s) + 2) /\ DOMAIN s = 1..Len(s)
      /\ u[1] = a /\ u[2] = b
      /\ \A k \in 3..(Len(s) + 2) : u[k] = s[k - 2]
  <2>1. <<a, b>> \in Seq(Work) /\ Len(<<a, b>>) = 2
    OBVIOUS
  <2> QED BY <2>1
<1> HIDE DEF u
<1>2. \A k \in DOMAIN u : k = 1 \/ k = 2 \/ (k - 2 \in DOMAIN s /\ u[k] = s[k - 2])
  BY <1>1
<1>3. \A k \in DOMAIN s : k + 2 \in DOMAIN u /\ u[k + 2] = s[k]
  BY <1>1
<1>4. 1 \in DOMAIN u /\ 2 \in DOMAIN u
  BY <1>1
<1>5. Rng(u) = {a, b} \cup Rng(s)
  <2>1. ASSUME NEW k \in DOMAIN u PROVE u[k] \in {a, b} \cup Rng(s)
    BY <1>1, <1>2 DEF Rng
  <2>2. a \in Rng(u) /\ b \in Rng(u)
    BY <1>1, <1>4 DEF Rng
  <2>3. ASSUME NEW k \in DOMAIN s PROVE s[k] \in Rng(u)
    BY <1>3 DEF Rng
  <2> QED BY <2>1, <2>2, <2>3 DEF Rng
<1>6. u # <<>>
  BY <1>1
<1> QED BY <1>1, <1>2, <1>5, <1>6 DEF u

-----------------------------------------------------------------------------
(* The restore on top, and its next step.                                  *)
LEMMA TopOf ==
  ASSUME NEW fs \in Seq(Frame), fs # <<>>
  PROVE  LET top == fs[Len(fs)]
         IN  /\ top \in Frame /\ top.todo \in Seq(Work) /\ BoundsTogether(top.todo)
             /\ top.target \in Images /\ top.defaults \in BOOLEAN
             /\ Len(fs) \in Nat \ {0}
<1>1. Len(fs) \in Nat \ {0} /\ fs[Len(fs)] \in Frame
  OBVIOUS
<1> QED BY <1>1 DEF Frame

LEMMA NextFrames ==
  ASSUME frames \in Seq(Frame), frames # <<>>,
         NEW list \in Seq(Work), BoundsTogether(list), frames' = NextWrite(list)
  PROVE  /\ frames' \in Seq(Frame) /\ Len(frames') = Len(frames) /\ frames' # <<>>
         /\ Top' = [Top EXCEPT !.todo = list]
         /\ Top'.target = Top.target /\ Top'.defaults = Top.defaults /\ Top'.todo = list
<1>1. /\ Len(frames) \in Nat \ {0} /\ Top \in Frame
  BY TopOf DEF Top
<1>2. [Top EXCEPT !.todo = list] \in Frame
  BY <1>1 DEF Frame
<1>3. frames' = [frames EXCEPT ![Len(frames)] = [Top EXCEPT !.todo = list]]
  BY DEF NextWrite, Top
<1>4. frames' \in Seq(Frame) /\ Len(frames') = Len(frames)
      /\ frames'[Len(frames)] = [Top EXCEPT !.todo = list]
  BY <1>1, <1>2, <1>3
<1>5. Top' = [Top EXCEPT !.todo = list] /\ frames' # <<>>
  BY <1>1, <1>4 DEF Top
<1> QED BY <1>1, <1>4, <1>5 DEF Frame

(* A restore covers every file, and its first write is accepted.           *)
LEMMA RestorationFrame ==
  ASSUME ConstantsOK, BaseInv
  PROVE  /\ Restoration \in Frame /\ Covered(Restoration) /\ Ready(Restoration)
         /\ IF Restoration.defaults
            THEN snapshot = NoImage /\ snapFile = NoImage /\ Restoration.target = Defaults
            ELSE Restoration.target = orig /\ orig \in {snapshot, snapFile}
<1> DEFINE saved == IF snapshot # NoImage THEN snapshot ELSE snapFile
           usual == <<"boost", "bounds">> \o IdleStates
           rest == IdleStates \o <<"boost">>
           default == <<"min", "max">> \o rest
<1>1. IdleStates \in Seq(Work) /\ {"min", "max", "boost", "bounds"} \subseteq Work
      /\ Rng(IdleStates) = Idles /\ Files = Idles \cup {"min", "max", "boost"}
      /\ Bounds = {"min", "max"}
      /\ \A k \in DOMAIN IdleStates : IdleStates[k] \notin Bounds
  BY FileNames DEF Work, Files
<1>2. image \in Images /\ orig \in Images /\ snapshot \in {NoImage, orig} /\ snapFile \in {NoImage, orig}
  BY DEF BaseInv
<1>3. CASE saved # NoImage
  <2>1. Restoration = [target |-> saved, todo |-> usual, defaults |-> FALSE]
    BY <1>3 DEF Restoration
  <2>2. saved = orig /\ orig \in {snapshot, snapFile}
    BY <1>2, <1>3
  <2>3. /\ usual \in Seq(Work) /\ usual # <<>> /\ usual[1] = "boost" /\ usual[2] = "bounds"
        /\ Rng(usual) = {"boost", "bounds"} \cup Idles
        /\ \A k \in DOMAIN usual : k = 1 \/ k = 2 \/
             (k - 2 \in DOMAIN IdleStates /\ usual[k] = IdleStates[k - 2])
    BY <1>1, PairOf
  <2> HIDE DEF usual, saved
  <2>4. BoundsTogether(usual)
    BY <1>1, <2>3 DEF BoundsTogether
  <2>5. Head(usual) \notin Bounds
    BY <1>1, <2>3
  <2>6. Covered(Restoration) /\ Ready(Restoration)
    BY <1>1, <2>1, <2>3, <2>5 DEF Covered, Ready
  <2> QED BY <1>2, <2>1, <2>2, <2>3, <2>4, <2>6 DEF Frame
<1>4. CASE saved = NoImage
  <2>1. Restoration = [target |-> Defaults, todo |-> (<<"min", "max">> \o IdleStates) \o <<"boost">>,
                       defaults |-> TRUE]
    BY <1>4 DEF Restoration
  <2>2. (<<"min", "max">> \o IdleStates) \o <<"boost">> = default
    <3>1. <<"min", "max">> \in Seq(Work) /\ <<"boost">> \in Seq(Work)
      BY <1>1
    <3> QED BY <1>1, <3>1
  <2>3. /\ rest \in Seq(Work) /\ Rng(rest) = Idles \cup {"boost"}
        /\ \A k \in DOMAIN rest : rest[k] \notin Bounds
    <3>1. /\ rest \in Seq(Work) /\ Len(rest) = Len(IdleStates) + 1 /\ Len(IdleStates) \in Nat
          /\ DOMAIN rest = 1..(Len(IdleStates) + 1) /\ DOMAIN IdleStates = 1..Len(IdleStates)
          /\ \A k \in 1..Len(IdleStates) : rest[k] = IdleStates[k]
          /\ rest[Len(IdleStates) + 1] = "boost"
      BY <1>1
    <3> HIDE DEF rest
    <3>2. \A k \in DOMAIN rest : rest[k] = "boost" \/ (k \in DOMAIN IdleStates /\ rest[k] = IdleStates[k])
      BY <3>1
    <3>3. \A k \in DOMAIN IdleStates : k \in DOMAIN rest /\ rest[k] = IdleStates[k]
      BY <3>1
    <3>4. "boost" \in Rng(rest)
      BY <3>1 DEF Rng
    <3>5. Rng(rest) = Rng(IdleStates) \cup {"boost"}
      BY <3>2, <3>3, <3>4 DEF Rng
    <3> QED BY <1>1, <3>1, <3>2, <3>5
  <2> HIDE DEF rest
  <2>4. /\ default \in Seq(Work) /\ default # <<>> /\ default[1] = "min" /\ default[2] = "max"
        /\ Rng(default) = {"min", "max"} \cup Rng(rest)
        /\ \A k \in DOMAIN default : k = 1 \/ k = 2 \/ (k - 2 \in DOMAIN rest /\ default[k] = rest[k - 2])
    <3>1. "min" \in Work /\ "max" \in Work
      BY <1>1
    <3> QED BY <2>3, <3>1, PairOf
  <2> HIDE DEF default
  <2>5. BoundsTogether(default)
    BY <1>1, <2>3, <2>4 DEF BoundsTogether
  <2>6. Defaults \in Images /\ Defaults["min"] = 1 /\ Defaults["max"] = MaxFreq
    BY <1>2, DefaultsLegal
  <2>7. Accepts("min", Defaults["min"])
    BY <1>2, <2>6, ImageFacts DEF Accepts
  <2>8. Covered(Restoration) /\ Ready(Restoration)
    <3>1. Restoration.todo = default /\ Restoration.target = Defaults
      BY <2>1, <2>2
    <3>2. Head(default) = "min"
      BY <2>4
    <3>3. Files \subseteq Rng(default)
      BY <1>1, <2>3, <2>4
    <3> QED BY <2>7, <3>1, <3>2, <3>3 DEF Covered, Ready
  <2>9. snapshot = NoImage /\ snapFile = NoImage
    BY <1>2, <1>4
  <2> QED BY <2>1, <2>2, <2>4, <2>5, <2>6, <2>8, <2>9 DEF Frame
<1> HIDE DEF saved
<1> QED BY <1>3, <1>4

(* The order read from the files makes the first bound acceptable.         *)
LEMMA BoundsRead ==
  ASSUME ConstantsOK, BaseInv, frames # <<>>, Top.todo # <<>>, Write = "bounds",
         NEW list, list = (IF Top.target["min"] > image["max"] THEN <<"max", "min">>
                                                               ELSE <<"min", "max">>)
                            \o Tail(Top.todo)
  PROVE  /\ list \in Seq(Work) /\ BoundsTogether(list)
         /\ Rng(list) = Bounds \cup Rng(Tail(Top.todo)) /\ list # <<>>
         /\ Head(list) \in Bounds /\ Accepts(Head(list), Top.target[Head(list)])
<1>1. Top.todo \in Seq(Work) /\ BoundsTogether(Top.todo) /\ Top.target \in Images /\ image \in Images
  BY TopOf DEF BaseInv, Top
<1> DEFINE rest == Tail(Top.todo)
<1>2. /\ rest \in Seq(Work) /\ BoundsTogether(rest)
      /\ rest # <<>> => rest[1] \notin Bounds
  <2>1. "bounds" \notin Bounds
    BY FileNames
  <2>2. rest # <<>> => Head(rest) = rest[1]
    OBVIOUS
  <2> QED BY <1>1, <2>1, <2>2, TailOf DEF Write
<1> HIDE DEF rest
<1>3. {"min", "max"} \subseteq Work /\ Bounds = {"min", "max"}
  BY FileNames DEF Work
<1>4. ASSUME NEW a \in Bounds, NEW b \in Bounds, a # b, NEW u, u = <<a, b>> \o rest
      PROVE  /\ u \in Seq(Work) /\ BoundsTogether(u) /\ Rng(u) = Bounds \cup Rng(rest)
             /\ u # <<>> /\ Head(u) = a
  <2>1. /\ u \in Seq(Work) /\ u # <<>> /\ u[1] = a /\ u[2] = b /\ Len(u) = Len(rest) + 2
        /\ Rng(u) = {a, b} \cup Rng(rest)
        /\ \A k \in DOMAIN u : k = 1 \/ k = 2 \/ (k - 2 \in DOMAIN rest /\ u[k] = rest[k - 2])
    BY <1>2, <1>3, <1>4, PairOf
  <2>2. BoundsTogether(u)
    <3> SUFFICES ASSUME NEW k \in DOMAIN u, k > 1, u[k] \in Bounds
                 PROVE  u[k - 1] \in Bounds /\ u[k - 1] # u[k]
      BY DEF BoundsTogether
    <3>1. CASE k = 2
      BY <1>4, <2>1, <3>1
    <3>2. CASE k # 2
      <4>1. k - 2 \in DOMAIN rest /\ u[k] = rest[k - 2]
        BY <2>1, <3>2
      <4>2. DOMAIN rest = 1..Len(rest) /\ Len(rest) \in Nat /\ k \in Int
            /\ DOMAIN u = 1..(Len(rest) + 2)
        BY <1>2, <2>1
      <4>3. k - 2 > 1
        BY <1>2, <4>1, <4>2
      <4>4. (k - 2) - 1 \in DOMAIN rest /\ (k - 1) - 2 = (k - 2) - 1 /\ k - 1 \in DOMAIN u
            /\ k - 1 # 1 /\ k - 1 # 2
        BY <4>1, <4>2, <4>3
      <4>5. rest[(k - 2) - 1] \in Bounds /\ rest[(k - 2) - 1] # rest[k - 2]
        BY <1>2, <4>1, <4>3 DEF BoundsTogether
      <4>6. u[k - 1] = rest[(k - 1) - 2]
        BY <2>1, <4>4
      <4> QED BY <4>1, <4>4, <4>5, <4>6
    <3> QED BY <3>1, <3>2
  <2>3. {a, b} = Bounds
    BY <1>3, <1>4
  <2>4. Head(u) = a
    BY <2>1
  <2> QED BY <2>1, <2>2, <2>3, <2>4
<1>5. /\ Top.target["min"] \in Int /\ Top.target["max"] \in Int
      /\ image["min"] \in Int /\ image["max"] \in Int
      /\ Top.target["min"] <= Top.target["max"] /\ image["min"] <= image["max"]
  BY <1>1, ImageFacts
<1>6. CASE Top.target["min"] > image["max"]
  <2>1. list = <<"max", "min">> \o rest
    BY <1>6 DEF rest
  <2>2. Accepts("max", Top.target["max"])
    BY <1>5, <1>6 DEF Accepts
  <2> QED BY <1>3, <1>4, <2>1, <2>2 DEF rest
<1>7. CASE ~(Top.target["min"] > image["max"])
  <2>1. list = <<"min", "max">> \o rest
    BY <1>7 DEF rest
  <2>2. Accepts("min", Top.target["min"])
    BY <1>5, <1>7 DEF Accepts
  <2> QED BY <1>3, <1>4, <2>1, <2>2 DEF rest
<1> QED BY <1>6, <1>7

-----------------------------------------------------------------------------
(* The files stay within their bounds.                                     *)
LEMMA ImageNext ==
  ASSUME ConstantsOK, BaseInv, LatencyTypes, [RollbackNext]_rollbackVars PROVE image' \in Images
<1>1. image \in Images /\ orig \in Images
  BY DEF BaseInv
<1>2. CASE Disable
  <2>1. IdleStates[pos] \in Files \ (Bounds \cup {"boost"})
    BY <1>2, FileNames DEF Disable, LatencyTypes
  <2>2. 1 \in Value(IdleStates[pos]) /\ Accepts(IdleStates[pos], 1)
    BY <2>1, FileNames DEF Value, Accepts
  <2> QED BY <1>1, <1>2, <2>1, <2>2, WriteLegal DEF Disable
<1>3. CASE GiveBack
  <2>1. pos \in DOMAIN latency.saved /\ pos \in DOMAIN IdleStates
    BY <1>3, FileNames DEF GiveBack, ToGiveBack, LatencyTypes
  <2>2. IdleStates[pos] \in Files \ (Bounds \cup {"boost"}) /\ latency.saved[pos] \in -1..1
    BY <2>1, FileNames DEF LatencyTypes
  <2>3. latency.saved[pos] # -1 => /\ latency.saved[pos] \in Value(IdleStates[pos])
                                   /\ Accepts(IdleStates[pos], latency.saved[pos])
    BY <2>2, FileNames DEF Value, Accepts
  <2>4. CASE image' = [image EXCEPT ![IdleStates[pos]] = latency.saved[pos]] /\ latency.saved[pos] # -1
    BY <1>1, <2>2, <2>3, <2>4, WriteLegal
  <2>5. CASE UNCHANGED image
    BY <1>1, <2>5
  <2> QED BY <1>3, <2>4, <2>5 DEF GiveBack
<1>4. CASE RestoreFile
  <2>1. Write \in Files /\ Top.target \in Images
    <3>1. Top.todo \in Seq(Work) /\ Top.target \in Images
      BY <1>4, TopOf DEF RestoreFile, BaseInv, Top
    <3>2. Head(Top.todo) \in Work
      BY <1>4, <3>1, TailOf DEF RestoreFile
    <3> QED BY <1>4, <3>1, <3>2 DEF RestoreFile, Write, Work
  <2>2. Top.target[Write] \in Value(Write)
    BY <2>1, ImageFacts
  <2> QED BY <1>1, <1>4, <2>1, <2>2, WriteLegal DEF RestoreFile
<1>5. CASE \E n \in Files : \E v \in Value(n) : Change(n, v)
  BY <1>1, <1>5, WriteLegal DEF Change
<1>6. CASE UNCHANGED rollbackVars
  BY <1>1, <1>6 DEF rollbackVars
<1>7. CASE Signal \/ (Proceed /\ ~Disable /\ ~GiveBack /\ ~RestoreFile)
  BY <1>1, <1>7 DEF Signal, Deliver, Handle, Ignore, Kill, KeyboardInterrupt, Proceed, Create,
     HookSignals, HookExit, Unhook, BeginLock, DisableFails,
     EndLock, LeaveBody, EndRelease, UnhookExit, Final, ReadBounds, EndRestore, EndHandler
<1> QED BY <1>2, <1>3, <1>4, <1>5, <1>6, <1>7 DEF RollbackNext, Proceed

(* So do the frames of the restores under way.                             *)
LEMMA StackNext ==
  ASSUME ConstantsOK, BaseInv, [RollbackNext]_rollbackVars
  PROVE  frames' \in Seq(Frame) /\ Len(frames') = depth' + (IF pc' = "restore" THEN 1 ELSE 0)
<1>1. /\ frames \in Seq(Frame) /\ Len(frames) = depth + (IF pc = "restore" THEN 1 ELSE 0)
      /\ depth \in Nat /\ Len(frames) \in Nat
  BY DEF BaseInv
<1>2. Restoration \in Frame
  BY RestorationFrame
<1>3. CASE UNCHANGED <<frames, depth>> /\ pc # "restore" /\ pc' # "restore"
  BY <1>1, <1>3
<1>4. CASE UNCHANGED <<frames, depth, pc>>
  BY <1>1, <1>4
<1>5. CASE Create \/ HookSignals \/ HookExit \/ Unhook \/ BeginLock \/ Disable \/ DisableFails \/ EndLock
           \/ LeaveBody \/ GiveBack \/ EndRelease \/ (\E n \in Files : \E v \in Value(n) : Change(n, v))
  <2>1. UNCHANGED <<frames, depth>> /\ pc # "restore"
    BY <1>5 DEF Create, HookSignals, HookExit, Unhook, BeginLock, Disable, DisableFails, EndLock, LeaveBody,
       GiveBack, Releasing, EndRelease, Change, At, handlerVars
  <2>2. pc' # "restore"
    BY <1>5, <2>1 DEF Create, HookSignals, HookExit, Unhook, BeginLock, Disable, DisableFails, EndLock,
       LeaveBody, GiveBack, EndRelease, Change, Inner, Outer
  <2> QED BY <1>3, <2>1, <2>2
<1>6. CASE UnhookExit \/ Final
  <2>1. pc # "restore" /\ depth = 0 /\ depth' = 0
    BY <1>6 DEF UnhookExit, Final, At
  <2>2. \/ pc' = "restore" /\ frames' = <<Restoration>>
        \/ pc' # "restore" /\ UNCHANGED frames
    BY <1>6 DEF UnhookExit, Final
  <2>3. <<Restoration>> \in Seq(Frame) /\ Len(<<Restoration>>) = 1
    BY <1>2
  <2>4. frames' \in Seq(Frame)
    <3>1. frames' \in {<<Restoration>>, frames}
      BY <2>2
    <3> HIDE DEF Restoration
    <3> QED BY <1>1, <2>3, <3>1
  <2> QED BY <1>1, <2>1, <2>2, <2>3, <2>4
<1>7. CASE ReadBounds
  <2>1. PICK list : /\ list \in Seq(Work) /\ BoundsTogether(list) /\ frames' = NextWrite(list)
    BY <1>7, BoundsRead DEF ReadBounds
  <2> QED BY <1>1, <1>7, <2>1, NextFrames DEF ReadBounds
<1>8. CASE RestoreFile
  <2>1. Tail(Top.todo) \in Seq(Work) /\ BoundsTogether(Tail(Top.todo))
    BY <1>1, <1>8, TopOf, TailOf DEF RestoreFile, Top
  <2> QED BY <1>1, <1>8, <2>1, NextFrames DEF RestoreFile
<1>9. CASE EndRestore
  <2>1. depth' = 0 /\ frames' = <<>> /\ pc' = "final"
    BY <1>9 DEF EndRestore
  <2> QED BY <2>1
<1>10. CASE EndHandler
  <2>1. CASE setup.chained
    <3>1. frames' = SubSeq(frames, 1, Len(frames) - 1) /\ depth' = depth - 1 /\ UNCHANGED pc /\ depth > 0
      BY <1>10, <2>1 DEF EndHandler
    <3> QED BY <1>1, <3>1
  <2>2. CASE ~setup.chained
    <3>1. frames' = <<>> /\ depth' = 0 /\ pc' = Unwound
      BY <1>10, <2>2 DEF EndHandler
    <3>2. Unwound # "restore"
      BY DEF Unwound, Inner, Outer
    <3> QED BY <3>1, <3>2
  <2> QED BY <2>1, <2>2
<1>11. CASE Signal
  <2>1. CASE hooked
    <3>1. frames' = Append(frames, Restoration) /\ depth' = depth + 1 /\ UNCHANGED pc
      BY <1>11, <2>1 DEF Signal, Deliver, Handle, Ignore, Kill, KeyboardInterrupt
    <3> QED BY <1>1, <1>2, <3>1
  <2>2. CASE Ignore
    BY <1>4, <2>2 DEF Ignore
  <2>3. CASE Kill \/ KeyboardInterrupt
    <3>1. frames' = <<>> /\ depth' = 0 /\ pc' # "restore"
      BY <2>3 DEF Kill, KeyboardInterrupt
    <3> QED BY <3>1
  <2> QED BY <1>11, <2>1, <2>2, <2>3 DEF Signal, Handle
<1>12. CASE UNCHANGED rollbackVars
  BY <1>4, <1>12 DEF rollbackVars, handlerVars
<1> QED BY <1>5, <1>6, <1>7, <1>8, <1>9, <1>10, <1>11, <1>12 DEF RollbackNext, Proceed

(* So do the values the controller holds.                                  *)
LEMMA LatencyNext ==
  ASSUME ConstantsOK, BaseInv, LatencyTypes, [RollbackNext]_rollbackVars PROVE LatencyTypes'
<1> USE DEF LatencyTypes
<1>1. Len(IdleStates) \in Nat /\ DOMAIN IdleStates = 1..Len(IdleStates)
      /\ Len(latency.saved) \in Nat /\ DOMAIN latency.saved = 1..Len(latency.saved)
      /\ latency.saved \in Seq(-1..1)
  BY FileNames
<1>2. Unlocked \in [locked : BOOLEAN, fallback : BOOLEAN, saved : Seq(-1..1)] /\ Unlocked.saved = <<>>
  BY DEF Unlocked
<1>3. CASE BeginLock
  <2>1. latency' \in {[Unlocked EXCEPT !.locked = TRUE], Unlocked, latency}
    BY <1>3 DEF BeginLock
  <2>2. [Unlocked EXCEPT !.locked = TRUE] \in [locked : BOOLEAN, fallback : BOOLEAN, saved : Seq(-1..1)]
        /\ [Unlocked EXCEPT !.locked = TRUE].saved = <<>>
    BY <1>2
  <2>3. pos' \in 1..(Len(IdleStates) + 1)
    BY <1>1, <1>3 DEF BeginLock
  <2>4. pc' = "fallback" => latency' = Unlocked /\ pos' = 1
    BY <1>3 DEF BeginLock, Inner, Outer
  <2>5. Len(<<>>) = 0
    OBVIOUS
  <2>6. latency' \in [locked : BOOLEAN, fallback : BOOLEAN, saved : Seq(-1..1)]
        /\ latency'.saved \in {<<>>, latency.saved}
    BY <1>2, <2>1, <2>2
  <2>7. Len(latency'.saved) <= Len(IdleStates)
    BY <1>1, <2>5, <2>6
  <2>8. pc' = "fallback" => Len(latency'.saved) = pos' - 1
    BY <1>2, <2>4, <2>5
  <2> QED BY <2>3, <2>6, <2>7, <2>8
<1>4. CASE Disable
  <2>1. pos \in 1..Len(IdleStates) /\ image[IdleStates[pos]] \in -1..1
    <3>1. pos \in 1..Len(IdleStates)
      BY <1>1, <1>4 DEF Disable
    <3>2. IdleStates[pos] \in Files \ Bounds
      BY <1>1, <3>1, FileNames
    <3> QED BY <3>1, <3>2, ImageFacts DEF BaseInv
  <2>2. PICK v \in -1..1 : latency' = [latency EXCEPT !.saved = Append(@, v)]
    BY <1>4, <2>1 DEF Disable
  <2>3. /\ latency'.saved = Append(latency.saved, v)
        /\ latency' \in [locked : BOOLEAN, fallback : BOOLEAN, saved : Seq(-1..1)]
    <3>1. Append(latency.saved, v) \in Seq(-1..1)
      BY <1>1
    <3> QED BY <2>2, <3>1
  <2>4. Len(latency'.saved) = Len(latency.saved) + 1
    BY <1>1, <2>3
  <2> QED BY <1>1, <1>4, <2>1, <2>3, <2>4 DEF Disable, At
<1>5. CASE EndLock
  <2>1. /\ latency' \in [locked : BOOLEAN, fallback : BOOLEAN, saved : Seq(-1..1)]
        /\ latency'.saved = latency.saved /\ pos' = 1 /\ pc' = "body"
    BY <1>5 DEF EndLock
  <2> QED BY <1>1, <2>1
<1>6. CASE GiveBack
  BY <1>1, <1>6 DEF GiveBack, ToGiveBack, Releasing, At
<1>7. CASE EndRelease \/ DisableFails
  BY <1>1, <1>2, <1>7 DEF EndRelease, DisableFails, Inner, Outer
<1>8. CASE EndHandler
  <2>1. UNCHANGED latency
    BY <1>8 DEF EndHandler
  <2>2. CASE setup.chained
    BY <1>8, <2>1, <2>2 DEF EndHandler
  <2>3. CASE ~setup.chained
    <3>1. Unwound # "fallback"
      BY DEF Unwound, Inner, Outer
    <3> QED BY <1>1, <1>8, <2>1, <2>3, <3>1 DEF EndHandler
  <2> QED BY <2>2, <2>3
<1>9. CASE Signal \/ (Proceed /\ ~BeginLock /\ ~Disable /\ ~EndLock /\ ~GiveBack /\ ~EndRelease
                      /\ ~DisableFails /\ ~EndHandler)
           \/ (\E n \in Files : \E v \in Value(n) : Change(n, v)) \/ UNCHANGED rollbackVars
  <2>1. UNCHANGED <<latency, pos>>
    BY <1>9 DEF Signal, Deliver, Handle, Ignore, Kill, KeyboardInterrupt, Proceed, Create, HookSignals,
       HookExit, Unhook, LeaveBody, UnhookExit, Final,
       ReadBounds, RestoreFile, EndRestore, Change, rollbackVars
  <2>2. pc' = "fallback" => pc = "fallback"
    BY <1>9 DEF Signal, Deliver, Handle, Ignore, Kill, KeyboardInterrupt, Proceed, Create, HookSignals,
       HookExit, Unhook, LeaveBody, UnhookExit, Final,
       ReadBounds, RestoreFile, EndRestore, Change, rollbackVars
  <2> QED BY <2>1, <2>2
<1> QED BY <1>3, <1>4, <1>5, <1>6, <1>7, <1>8, <1>9 DEF RollbackNext, Proceed

(* The types, and the places.                                              *)
LEMMA BaseNext ==
  ASSUME ConstantsOK, BaseInv, LatencyTypes, [RollbackNext]_rollbackVars PROVE BaseInv'
<1> USE DEF BaseInv
<1>1. image' \in Images /\ frames' \in Seq(Frame)
      /\ Len(frames') = depth' + (IF pc' = "restore" THEN 1 ELSE 0)
  BY ImageNext, StackNext
<1>2. UNCHANGED <<setup, orig>> /\ orig' \in Images /\ Images' = Images /\ Frame' = Frame
  BY DEF RollbackNext, Proceed, Signal, Deliver, Handle, Ignore, Kill, KeyboardInterrupt, Create,
     HookSignals, HookExit, Unhook, BeginLock, Disable,
     DisableFails, EndLock, LeaveBody, GiveBack, EndRelease, UnhookExit, Final, ReadBounds, RestoreFile,
     EndRestore, EndHandler, Change, rollbackVars, history

<1>3. \/ Create \/ HookSignals \/ HookExit \/ Unhook \/ BeginLock \/ Disable \/ DisableFails \/ EndLock \/ LeaveBody
      \/ GiveBack \/ EndRelease \/ UnhookExit \/ Final \/ ReadBounds \/ RestoreFile \/ EndRestore
      \/ EndHandler \/ Signal \/ UNCHANGED rollbackVars
      \/ \E n \in Files : \E v \in Value(n) : Change(n, v)
  BY DEF RollbackNext, Proceed
<1>4. pc \in {"create", "hook"} => frames = <<>> /\ depth = 0 /\ ~hooked
  BY DEF BaseInv
<1>5. pc' \in Places
  <2>1. Outer \in Places /\ Inner \in Places /\ Unwound \in Places
    BY DEF Outer, Inner, Unwound, Places
  <2> QED BY <1>3, <2>1 DEF Places, Create, HookSignals, HookExit, Unhook, BeginLock, Disable, DisableFails,
             EndLock, LeaveBody, GiveBack, EndRelease, UnhookExit, Final, ReadBounds, RestoreFile,
             EndRestore, EndHandler, Change, rollbackVars, Signal, Deliver, Handle, Ignore, Kill,
             KeyboardInterrupt
<1>6. snapshot' \in {NoImage, orig} /\ snapFile' \in {NoImage, orig}
  BY <1>3 DEF Create, HookSignals, HookExit, Unhook, BeginLock, Disable, DisableFails, EndLock, At,
     LeaveBody, GiveBack, EndRelease, UnhookExit, Final, ReadBounds, RestoreFile, EndRestore,
     EndHandler, Change, rollbackVars, Signal, Deliver, Handle, Ignore, Kill, KeyboardInterrupt,
     Dropped, snapVars
<1>7. {hooked', atexit', raised', entered', persisted', failed'} \subseteq BOOLEAN
  BY <1>3 DEF Create, HookSignals, HookExit, Unhook, BeginLock, Disable, DisableFails, EndLock, LeaveBody,
     GiveBack, EndRelease, UnhookExit, Final, ReadBounds, RestoreFile, EndRestore, EndHandler, Change,
     rollbackVars, Signal, Deliver, Handle, Ignore, Kill, KeyboardInterrupt, history, hookVars
<1>8. signals' \in Nat /\ restores' \in Nat /\ depth' \in Nat /\ (depth' > 0 => signals' > 0 /\ restores' > 0)
  <2>1. CASE UnhookExit \/ Final
    BY <2>1 DEF UnhookExit, Final, At
  <2>2. CASE Signal
    BY <2>2 DEF Signal, Deliver, Handle, Ignore, Kill, KeyboardInterrupt
  <2>3. CASE EndHandler
    BY <2>3 DEF EndHandler
  <2>4. CASE UNCHANGED <<signals, restores, depth>>
    BY <2>4
  <2> QED BY <1>3, <2>1, <2>2, <2>3, <2>4 DEF Create, HookSignals, HookExit, Unhook, BeginLock, Disable,
             DisableFails, EndLock, LeaveBody, GiveBack, EndRelease, ReadBounds, RestoreFile,
             EndRestore, Change, rollbackVars, handlerVars
<1>9. pc' \in Over => depth' = 0
  <2>1. CASE Create \/ HookSignals \/ HookExit \/ Unhook \/ BeginLock \/ Disable \/ DisableFails \/ EndLock
             \/ LeaveBody \/ GiveBack \/ EndRelease \/ UnhookExit \/ Final \/ EndRestore
             \/ (\E n \in Files : \E v \in Value(n) : Change(n, v))
    BY <2>1 DEF Create, HookSignals, HookExit, Unhook, BeginLock, Disable, DisableFails, EndLock, LeaveBody,
       GiveBack, EndRelease, UnhookExit, Final, EndRestore, Change, At, Releasing, handlerVars
  <2>2. CASE ReadBounds \/ RestoreFile \/ UNCHANGED rollbackVars
    BY <2>2 DEF ReadBounds, RestoreFile, rollbackVars, handlerVars
  <2>3. CASE EndHandler \/ Signal
    BY <2>3 DEF EndHandler, Signal, Deliver, Handle, Ignore, Kill, KeyboardInterrupt, Over
  <2> QED BY <1>3, <2>1, <2>2, <2>3
<1>10. depth' > 0 => hooked'
  <2>1. CASE Create \/ HookSignals \/ HookExit \/ Unhook \/ BeginLock \/ Disable \/ DisableFails \/ EndLock
             \/ LeaveBody \/ GiveBack \/ EndRelease \/ UnhookExit \/ Final \/ EndRestore
             \/ (\E n \in Files : \E v \in Value(n) : Change(n, v))
    BY <2>1 DEF Create, HookSignals, HookExit, Unhook, BeginLock, Disable, DisableFails, EndLock, LeaveBody,
       GiveBack, EndRelease, UnhookExit, Final, EndRestore, Change, At, Releasing, handlerVars
  <2>2. CASE ReadBounds \/ RestoreFile \/ UNCHANGED rollbackVars
    BY <2>2 DEF ReadBounds, RestoreFile, rollbackVars, handlerVars, hookVars
  <2>3. CASE EndHandler \/ Signal
    BY <2>3 DEF EndHandler, Signal, Deliver, Handle, Ignore, Kill, KeyboardInterrupt, hookVars
  <2> QED BY <1>3, <2>1, <2>2, <2>3
<1>11. Unwound \in {"leave", "unhook", "final", "exited"} /\ Inner \in {"leave", "unhook", "final"}
       /\ Outer \in {"unhook", "final"} /\ (~setup.managed => "unhook" \notin {Unwound, Inner, Outer})
  BY DEF Unwound, Inner, Outer
<1>12. (hooked' => pc' \notin {"create", "hook", "unhookExit"}) /\ (pc' \in Guarded => hooked')
  <2>1. CASE EndHandler
    BY <1>11, <2>1 DEF EndHandler, Guarded, hookVars
  <2>2. CASE Signal
    BY <2>2 DEF Signal, Deliver, Handle, Ignore, Kill, KeyboardInterrupt, Guarded, hookVars
  <2>3. CASE UnhookExit \/ Final \/ ReadBounds \/ RestoreFile \/ EndRestore \/ UNCHANGED rollbackVars
    BY <2>3 DEF UnhookExit, Final, ReadBounds, RestoreFile, EndRestore, rollbackVars, Guarded, hookVars, At
  <2> QED BY <1>3, <1>11, <2>1, <2>2, <2>3 DEF Create, HookSignals, HookExit, Unhook, BeginLock, Disable,
             DisableFails, EndLock, LeaveBody, GiveBack, Releasing, EndRelease, Change, Guarded,
             hookVars, At
<1>13. ~setup.managed => pc' \notin {"unhook", "unhookExit"}
  BY <1>3, <1>11 DEF Create, HookSignals, HookExit, Unhook, BeginLock, Disable, DisableFails, EndLock,
     LeaveBody, GiveBack, EndRelease, UnhookExit, Final, ReadBounds, RestoreFile, EndRestore, EndHandler,
     Change, rollbackVars, Signal, Deliver, Handle, Ignore, Kill, KeyboardInterrupt, At
<1>14. pc' \in Guarded \cup {"unhookExit"} => atexit' \/ pc' = "hookExit"
  <2>1. CASE EndHandler
    <3>1. pc \notin {"enter", "fallback", "body", "release", "leave"} => Unwound \in {"final", "exited"}
      BY DEF Unwound
    <3> QED BY <1>11, <2>1, <3>1 DEF EndHandler, Guarded, hookVars
  <2>2. CASE Signal
    BY <2>2 DEF Signal, Deliver, Handle, Ignore, Kill, KeyboardInterrupt, Guarded, hookVars
  <2>3. CASE UnhookExit \/ Final \/ ReadBounds \/ RestoreFile \/ EndRestore \/ UNCHANGED rollbackVars
    BY <2>3 DEF UnhookExit, Final, ReadBounds, RestoreFile, EndRestore, rollbackVars, Guarded, hookVars, At
  <2> QED BY <1>3, <1>11, <2>1, <2>2, <2>3 DEF Create, HookSignals, HookExit, Unhook, BeginLock, Disable,
             DisableFails, EndLock, LeaveBody, GiveBack, Releasing, EndRelease, Change, Guarded,
             hookVars, At
<1>15. pc' \in {"create", "hook"} => image' = orig /\ restores' = 0 /\ ~atexit'
  <2> SUFFICES ASSUME pc' \in {"create", "hook"}
               PROVE  pc \in {"create", "hook"} /\ UNCHANGED <<image, restores, atexit>>
    OBVIOUS
  <2>1. pc \in {"create", "hook"}
    BY <1>3, <1>11 DEF Create, HookSignals, HookExit, Unhook, BeginLock, Disable, DisableFails, EndLock,
       LeaveBody, GiveBack, EndRelease, UnhookExit, Final, ReadBounds, RestoreFile, EndRestore,
       EndHandler, Change, rollbackVars, Signal, Deliver, Handle, Ignore, Kill, KeyboardInterrupt, At
  <2>2. frames = <<>> /\ depth = 0 /\ ~hooked
    BY <1>4, <2>1
  <2> QED BY <1>3, <2>1, <2>2 DEF Create, HookSignals, HookExit, Unhook, BeginLock, Disable, DisableFails,
             EndLock, LeaveBody, GiveBack, Releasing, EndRelease, UnhookExit, Final, ReadBounds,
             RestoreFile, EndRestore, EndHandler, Change, rollbackVars, Signal, Deliver, Handle, Ignore,
             Kill, KeyboardInterrupt, At, hookVars, handlerVars
<1>16. pc' = "create" => snapshot' = NoImage /\ snapFile' = NoImage /\ ~persisted'
  <2> SUFFICES ASSUME pc' = "create"
               PROVE  pc = "create" /\ UNCHANGED <<snapshot, snapFile, persisted>>
    OBVIOUS
  <2>1. pc = "create"
    BY <1>3, <1>11 DEF Create, HookSignals, HookExit, Unhook, BeginLock, Disable, DisableFails, EndLock,
       LeaveBody, GiveBack, EndRelease, UnhookExit, Final, ReadBounds, RestoreFile, EndRestore,
       EndHandler, Change, rollbackVars, Signal, Deliver, Handle, Ignore, Kill, KeyboardInterrupt
  <2> QED BY <1>3, <1>4, <2>1 DEF Create, HookSignals, HookExit, Unhook, BeginLock, Disable, DisableFails,
             EndLock, LeaveBody, GiveBack, Releasing, EndRelease, UnhookExit, Final, ReadBounds,
             RestoreFile, EndRestore, EndHandler, Change, rollbackVars, Signal, Deliver, Handle, Ignore,
             Kill, KeyboardInterrupt, At, snapVars, history
<1> QED
  <2>1. depth' > 0 => hooked' /\ signals' > 0 /\ restores' > 0
    BY <1>8, <1>10
  <2> QED BY <1>1, <1>2, <1>5, <1>6, <1>7, <1>8, <1>9, <1>12, <1>13, <1>14, <1>15, <1>16, <2>1

-----------------------------------------------------------------------------
(* The steps of the program outside a restore.                             *)
Straight ==
  \/ Create \/ HookSignals \/ HookExit \/ Unhook \/ BeginLock \/ Disable \/ DisableFails \/ EndLock \/ LeaveBody
  \/ GiveBack \/ EndRelease \/ \E n \in Files : \E v \in Value(n) : Change(n, v)

(* The kinds of steps.                                                     *)
LEMMA NextSplit ==
  ASSUME [RollbackNext]_rollbackVars
  PROVE  \/ Straight \/ UnhookExit \/ Final \/ ReadBounds \/ RestoreFile \/ EndRestore \/ EndHandler
         \/ Signal \/ UNCHANGED rollbackVars
BY DEF RollbackNext, Proceed, Straight

LEMMA StraightFacts ==
  ASSUME BaseInv, Straight
  PROVE  /\ depth = 0 /\ frames = <<>>
         /\ UNCHANGED <<frames, depth, signals, restores, setup, orig>>
         /\ pc \notin {"unhookExit", "restore", "final", "exited", "killed", "interrupted"}
         /\ pc' \notin {"create", "restore", "exited", "killed", "interrupted"}
         /\ pc = "leave" => pc' \in {"leave", Outer} /\ (GiveBack \/ EndRelease)
         /\ pc = "unhook" => Unhook
         /\ pc = "create" => Create
         /\ Create \/ UNCHANGED <<snapVars, persisted>>
         /\ failed => failed'
<1>1. depth = 0 /\ UNCHANGED <<frames, depth, signals, restores, setup, orig>>
      /\ pc \notin {"unhookExit", "restore", "final", "exited", "killed", "interrupted"}
  BY DEF Straight, Create, HookSignals, HookExit, Unhook, BeginLock, Disable, DisableFails, EndLock,
     LeaveBody, GiveBack, Releasing, EndRelease, Change, At, handlerVars, history
<1>2. frames = <<>>
  <2>1. frames \in Seq(Frame) /\ Len(frames) = 0
    BY <1>1 DEF BaseInv
  <2> QED BY <2>1
<1>3. pc' \notin {"create", "restore", "exited", "killed", "interrupted"}
      /\ (pc = "leave" => pc' \in {"leave", Outer} /\ (GiveBack \/ EndRelease))
      /\ (pc = "unhook" => Unhook) /\ (pc = "create" => Create)
  BY <1>1 DEF Straight, Create, HookSignals, HookExit, Unhook, BeginLock, Disable, DisableFails, EndLock,
     LeaveBody, GiveBack, Releasing, EndRelease, Change, At, Inner, Outer
<1>4. (Create \/ UNCHANGED <<snapVars, persisted>>) /\ (failed => failed')
  BY DEF Straight, Create, HookSignals, HookExit, Unhook, BeginLock, Disable, DisableFails, EndLock,
     LeaveBody, GiveBack, EndRelease, Change, snapVars, history
<1> QED BY <1>1, <1>2, <1>3, <1>4

(* A step into calm comes from calm.                                       *)
LEMMA CalmNext ==
  ASSUME BaseInv, [RollbackNext]_rollbackVars, Calm'
  PROVE  Calm /\ UNCHANGED <<setup, orig>>
<1>1. UNCHANGED <<setup, orig>> /\ (signals > 0 => signals' > 0) /\ (failed => failed')
  <2>1. CASE Straight
    BY <2>1, StraightFacts
  <2>2. CASE UnhookExit \/ Final \/ ReadBounds \/ RestoreFile \/ EndRestore \/ EndHandler
    BY <2>2 DEF UnhookExit, Final, ReadBounds, RestoreFile, EndRestore, EndHandler, history
  <2>3. CASE Signal
    <3>1. signals \in Nat
      BY DEF BaseInv
    <3> QED BY <2>3, <3>1 DEF Signal, Deliver, Handle, Ignore, Kill, KeyboardInterrupt, history
  <2>4. CASE UNCHANGED rollbackVars
    BY <2>4 DEF rollbackVars, handlerVars, history
  <2> QED BY <2>1, <2>2, <2>3, <2>4, NextSplit
<1>2. pc \in {"killed", "interrupted"} => pc' = pc
  <2> SUFFICES ASSUME pc \in {"killed", "interrupted"} PROVE pc' = pc
    OBVIOUS
  <2>1. depth = 0 /\ frames = <<>>
    <3>1. frames \in Seq(Frame) /\ Len(frames) = 0 /\ depth = 0
      BY DEF BaseInv, Over
    <3> QED BY <3>1
  <2>2. ~Straight
    BY StraightFacts
  <2>3. ~(UnhookExit \/ Final \/ ReadBounds \/ RestoreFile \/ EndRestore \/ EndHandler \/ Signal)
    BY <2>1 DEF UnhookExit, Final, ReadBounds, RestoreFile, EndRestore, EndHandler, Signal, Deliver,
       Over, At
  <2> QED BY <2>2, <2>3, NextSplit DEF rollbackVars
<1> QED BY <1>1, <1>2 DEF Calm, Promising

(* In calm a signal runs the handler, or raises KeyboardInterrupt where    *)
(* nothing is being restored.                                              *)
LEMMA CalmSignal ==
  ASSUME BaseInv, Calm', Signal
  PROVE  /\ signals \in Nat /\ signals' = signals + 1
         /\ UNCHANGED <<setup, image, snapshot, snapFile, hooked, atexit, latency, pos, orig, persisted>>
         /\ \/ /\ hooked /\ UNCHANGED <<pc, raised>>
               /\ frames' = Append(frames, Restoration)
               /\ depth' = depth + 1 /\ restores' = restores + 1
            \/ /\ ~hooked /\ pc \in {"create", "hook", "unhookExit", "final"} /\ pc' = "final"
               /\ raised' = (raised \/ pc # "final")
               /\ depth = 0 /\ frames = <<>> /\ UNCHANGED <<frames, depth, restores>>
<1>1. /\ signals \in Nat /\ signals' = signals + 1 /\ pc \notin Over
      /\ UNCHANGED <<setup, image, snapshot, snapFile, hooked, atexit, latency, pos, orig, persisted>>
  BY DEF Signal, Deliver, BaseInv, snapVars, hookVars, history
<1>2. ~setup.chained /\ pc' \notin {"killed", "interrupted"}
  BY <1>1 DEF Calm, Promising
<1>3. CASE hooked
  BY <1>1, <1>3 DEF Signal, Handle, Ignore, Kill, KeyboardInterrupt
<1>4. CASE ~hooked
  <2>1. KeyboardInterrupt
    BY <1>2, <1>4 DEF Signal, Handle, Ignore, Kill
  <2>2. pc \in {"create", "hook", "unhookExit", "final"} /\ pc' = "final"
    BY <1>1, <1>2, <1>4, <2>1 DEF KeyboardInterrupt, BaseInv, Places, Guarded, Over
  <2>3. depth = 0 /\ frames = <<>>
    <3>1. depth = 0 /\ frames \in Seq(Frame) /\ Len(frames) = 0
      BY <1>4, <2>2 DEF BaseInv
    <3> QED BY <3>1
  <2> QED BY <1>1, <1>4, <2>1, <2>2, <2>3 DEF KeyboardInterrupt
<1> QED BY <1>3, <1>4

(* A handler that ends, unchained, ends every restore.                     *)
LEMMA HandlerEnds ==
  ASSUME BaseInv, Calm, EndHandler
  PROVE  frames' = <<>> /\ depth' = 0 /\ pc' = Unwound /\ raised' = TRUE /\ signals > 0
BY DEF BaseInv, Calm, Promising, EndHandler

(* The snapshot lasts until the first restore ends.                        *)
LEMMA PathNext ==
  ASSUME ConstantsOK, BaseInv, PathInv, SettledInv, [RollbackNext]_rollbackVars PROVE PathInv'
<1> SUFFICES ASSUME Calm'
             PROVE  /\ restores' = 0 => /\ frames' = <<>>
                                        /\ signals' > 0 => pc' \in {"final", "exited"}
                                        /\ snapshot' = orig \/ pc' = "create" \/ Aborted'
                    /\ restores' > 0 /\ depth' = 0 => pc' \in Ended
                    /\ snapshot' = NoImage /\ pc' # "create" =>
                         (restores' > 0 \/ Aborted') /\ pc' \in Ended
                    /\ signals' = 0 => /\ restores' <= 1
                                       /\ restores' = 1 => pc' \in {"restore", "final", "exited"}
                    /\ pc' = "restore" /\ signals' = 0 => snapshot' = orig
                    /\ persisted' => snapFile' = orig \/ snapshot' = NoImage
  BY CalmNext DEF PathInv
<1> USE CalmNext DEF PathInv
<1>1. orig # NoImage /\ restores \in Nat /\ signals \in Nat /\ depth \in Nat
  BY ImageFacts DEF BaseInv
<1>2. CASE Straight
  <2>1. Outer \in Ended /\ "leave" \in Ended
    BY DEF Outer, Ended
  <2>2. restores > 0 => pc \in {"leave", "unhook"} /\ pc' \in Ended
    <3>1. Unhook => pc' = "unhookExit"
      BY DEF Unhook
    <3> QED BY <1>2, <2>1, <3>1, StraightFacts DEF Ended
  <2>3. (restores = 0 <=> signals = 0) /\ ~Aborted
    BY <1>1, <1>2, <2>2, StraightFacts DEF Aborted
  <2>4. CASE Create
    <3>1. snapshot' = orig /\ restores = 0 /\ (persisted' => snapFile' = orig)
      BY <2>4 DEF Create, At, BaseInv
    <3> QED BY <1>1, <1>2, <2>3, <3>1, StraightFacts
  <2>5. CASE ~Create
    <3>1. pc # "create" /\ UNCHANGED <<snapshot, snapFile, persisted>>
      BY <1>2, <2>5, StraightFacts DEF snapVars
    <3> QED BY <1>1, <1>2, <2>2, <2>3, <3>1, StraightFacts
  <2> QED BY <2>4, <2>5
<1>3. CASE UnhookExit \/ Final
  <2>1. /\ UNCHANGED <<snapshot, snapFile, signals, depth, persisted>>
        /\ depth = 0 /\ pc \in {"unhookExit", "final"} /\ frames = <<>>
        /\ \/ pc' = "restore" /\ restores' = restores + 1 /\ (pc = "final" => snapshot # NoImage)
           \/ pc' \in {"final", "exited"} /\ UNCHANGED <<restores, frames>>
    <3>1. pc \in {"unhookExit", "final"} /\ depth = 0
      BY <1>3 DEF UnhookExit, Final, At
    <3>2. frames \in Seq(Frame) /\ Len(frames) = 0
      BY <3>1 DEF BaseInv
    <3>3. frames = <<>>
      BY <3>2
    <3>4. CASE UnhookExit
      BY <3>1, <3>3, <3>4 DEF UnhookExit, At, snapVars, history
    <3>5. CASE Final
      BY <3>1, <3>3, <3>5 DEF Final, snapVars, history
    <3> QED BY <1>3, <3>4, <3>5
  <2>2. pc' = "restore" /\ signals = 0 => restores = 0
    BY <1>1, <2>1 DEF SettledInv
  <2>3. Aborted /\ pc' # "restore" => Aborted'
    BY <1>3, <2>1 DEF Aborted, UnhookExit, Final, At, hookVars
  <2>4. restores' = 0 => pc' \in {"final", "exited"} /\ restores = 0 /\ frames' = <<>>
    BY <1>1, <2>1
  <2>5. CASE pc' = "restore"
    <3>1. restores' > 0 /\ restores' = restores + 1
      BY <1>1, <2>1, <2>5
    <3>2. signals = 0 => snapshot = orig
      <4> SUFFICES ASSUME signals = 0 PROVE snapshot # NoImage
        BY DEF BaseInv
      <4>1. restores = 0
        BY <2>2, <2>5
      <4> QED BY <2>1, <2>5, <4>1 DEF Aborted
    <3> QED BY <1>1, <2>1, <2>2, <2>5, <3>1, <3>2 DEF Ended
  <2>6. CASE pc' # "restore"
    BY <1>1, <2>1, <2>3, <2>4, <2>6 DEF Ended
  <2> QED BY <2>5, <2>6
<1>4. CASE ReadBounds \/ RestoreFile
  <2>1. UNCHANGED <<snapshot, snapFile, signals, depth, persisted, restores, pc>> /\ frames # <<>>
    BY <1>4 DEF ReadBounds, RestoreFile, snapVars, history
  <2> QED BY <1>1, <2>1
<1>5. CASE EndRestore
  <2>1. /\ UNCHANGED <<signals, depth, persisted, restores>> /\ pc' = "final"
        /\ frames # <<>> /\ frames' = <<>>
        /\ (snapshot' = NoImage \/ UNCHANGED <<snapshot, snapFile>>)
    BY <1>5 DEF EndRestore, Dropped, snapVars, history
  <2> QED BY <1>1, <2>1 DEF Ended
<1>6. CASE EndHandler
  <2>1. /\ UNCHANGED <<signals, persisted, restores>> /\ pc' = Unwound /\ signals > 0
        /\ depth > 0 /\ frames' = <<>>
        /\ (snapshot' = NoImage \/ UNCHANGED <<snapshot, snapFile>>)
    BY <1>6, HandlerEnds DEF EndHandler, Dropped, snapVars, history
  <2>2. Unwound \in Ended /\ Unwound # "restore"
    BY DEF Unwound, Inner, Outer, Ended
  <2>3. restores > 0
    BY <2>1 DEF BaseInv
  <2> QED BY <1>1, <2>1, <2>2, <2>3
<1>7. CASE Signal
  <2>1. signals' > 0 /\ UNCHANGED <<image, snapshot, snapFile, persisted, hooked, atexit>>
    BY <1>7, CalmSignal
  <2>2. CASE hooked
    <3>1. pc' = pc /\ restores' = restores + 1 /\ depth' = depth + 1
      BY <1>7, <2>2, CalmSignal
    <3>2. pc # "create" /\ ~Aborted
      BY <2>2 DEF BaseInv, Aborted
    <3> QED BY <1>1, <2>1, <3>1, <3>2
  <2>3. CASE ~hooked
    <3>1. /\ pc \in {"create", "hook", "unhookExit", "final"} /\ pc' = "final" /\ frames = <<>>
          /\ UNCHANGED <<frames, depth, restores>>
      BY <1>7, <2>3, CalmSignal
    <3>2. Aborted \/ pc = "create" => Aborted'
      BY <2>1, <2>3, <3>1 DEF Aborted, BaseInv
    <3> QED BY <1>1, <2>1, <3>1, <3>2 DEF Ended
  <2> QED BY <2>2, <2>3
<1>8. CASE UNCHANGED rollbackVars
  BY <1>8 DEF rollbackVars, hookVars, snapVars, handlerVars, history, Aborted
<1> QED BY <1>2, <1>3, <1>4, <1>5, <1>6, <1>7, <1>8, NextSplit

(* A restore with nothing left to write has reached its target.            *)
LEMMA Complete ==
  ASSUME BaseInv, FrameInv, Calm, frames # <<>>, Top.todo = <<>>
  PROVE  image = Top.target
<1>1. image \in [Files -> 0..MaxFreq] /\ Top.target \in [Files -> 0..MaxFreq]
  BY TopOf DEF BaseInv, Images, Top
<1>2. \A n \in Files : image[n] = Top.target[n]
  BY DEF FrameInv, Covered, Rng
<1> QED BY <1>1, <1>2

(* Nothing undoes a restore: the release that follows it writes originals. *)
LEMMA SettledNext ==
  ASSUME ConstantsOK, BaseInv, LatencyTypes, PathInv, SavedInv, FrameInv, SettledInv, [RollbackNext]_rollbackVars
  PROVE  SettledInv'
<1> SUFFICES ASSUME Calm', frames' = <<>>, restores' > 0
             PROVE  /\ snapshot' = NoImage
                    /\ image' = orig \/ (restores' > 1 /\ image' = Defaults /\ pc' # "leave")
  BY CalmNext DEF SettledInv, Defaults
<1> USE CalmNext
<1>1. CASE Straight
  <2>1. frames = <<>> /\ restores > 0 /\ depth = 0 /\ UNCHANGED restores /\ (pc = "leave" \/ pc = "unhook")
    BY <1>1, StraightFacts DEF PathInv, Ended
  <2>2. snapshot = NoImage /\ (pc = "leave" => image = orig)
    BY <2>1 DEF SettledInv
  <2>3. pc = "leave" => GiveBack \/ EndRelease
    BY <1>1, StraightFacts
  <2>4. CASE Unhook
    <3>1. pc' = "unhookExit" /\ UNCHANGED <<image, snapshot>>
      BY <2>4 DEF Unhook, snapVars
    <3> QED BY <2>1, <3>1 DEF SettledInv
  <2>5. ASSUME pc = "leave" PROVE image' = image /\ snapshot' = snapshot
    <3>1. CASE EndRelease
      BY <3>1 DEF EndRelease, snapVars
    <3>2. CASE GiveBack
      <4>1. pos \in DOMAIN latency.saved /\ pos \in DOMAIN IdleStates
        BY <3>2, FileNames DEF GiveBack, ToGiveBack, LatencyTypes
      <4>2. latency.saved[pos] \in {-1, image[IdleStates[pos]]}
        BY <2>2, <2>5, <4>1 DEF SavedInv
      <4>3. image \in [Files -> 0..MaxFreq]
        BY DEF BaseInv, Images
      <4>4. [image EXCEPT ![IdleStates[pos]] = image[IdleStates[pos]]] = image
        BY <4>3
      <4> QED BY <3>2, <4>2, <4>4 DEF GiveBack, snapVars
    <3> QED BY <2>3, <2>5, <3>1, <3>2
  <2> QED BY <1>1, <2>1, <2>2, <2>4, <2>5, StraightFacts
<1>2. CASE UnhookExit \/ Final
  <2>1. /\ frames = <<>> /\ UNCHANGED <<image, snapshot, restores>> /\ pc' \in {"final", "exited"}
    BY <1>2 DEF UnhookExit, Final, snapVars
  <2> QED BY <2>1 DEF SettledInv
<1>3. CASE ReadBounds \/ RestoreFile
  <2>1. frames # <<>> /\ \E list : frames' = NextWrite(list)
    BY <1>3 DEF ReadBounds, RestoreFile
  <2>2. frames \in Seq(Frame)
    BY DEF BaseInv
  <2> QED BY <2>1, <2>2 DEF NextWrite
<1>4. CASE EndRestore
  <2>1. image = Top.target /\ frames # <<>>
    BY <1>4, Complete DEF EndRestore
  <2>2. UNCHANGED <<image, restores>> /\ pc' = "final" /\ Dropped
    BY <1>4 DEF EndRestore
  <2> QED BY <2>1, <2>2 DEF FrameInv, Dropped, snapVars
<1>5. CASE EndHandler
  <2>1. frames # <<>>
    <3>1. frames \in Seq(Frame) /\ Len(frames) > 0
      BY <1>5 DEF BaseInv, EndHandler
    <3> QED BY <3>1
  <2>2. image = Top.target
    BY <1>5, <2>1, Complete DEF EndHandler
  <2>3. UNCHANGED <<image, restores>> /\ pc' = Unwound /\ Dropped
    BY <1>5, HandlerEnds DEF EndHandler
  <2>4. Top.defaults => pc' # "leave"
    <3> SUFFICES ASSUME Top.defaults PROVE Unwound # "leave"
      BY <2>3
    <3>1. snapshot = NoImage /\ restores > 0
      BY <2>1 DEF FrameInv
    <3>2. pc # "create"
      BY <3>1 DEF BaseInv
    <3>3. pc \in Ended
      BY <3>1, <3>2 DEF PathInv
    <3> QED BY <3>3 DEF Unwound, Ended, Outer
  <2> QED BY <2>1, <2>2, <2>3, <2>4 DEF FrameInv, Dropped, snapVars
<1>6. CASE Signal
  <2>1. frames' # <<>> \/ /\ frames = <<>> /\ UNCHANGED <<image, snapshot, restores>>
                          /\ pc' = "final"
    <3>1. frames \in Seq(Frame)
      BY DEF BaseInv
    <3> QED BY <1>6, <3>1, CalmSignal
  <2> QED BY <2>1 DEF SettledInv
<1>7. CASE UNCHANGED rollbackVars
  BY <1>7 DEF rollbackVars, snapVars, handlerVars, SettledInv
<1> QED BY <1>1, <1>2, <1>3, <1>4, <1>5, <1>6, <1>7, NextSplit

(* A restore that begins has everything before it.                         *)
LEMMA Pushed ==
  ASSUME ConstantsOK, BaseInv, frames' # <<>>, Top' = Restoration,
         UNCHANGED <<image, snapshot, snapFile, orig>>, restores' = restores + 1,
         snapshot = NoImage => restores > 0,
         snapshot = NoImage /\ snapFile = NoImage => Between
  PROVE  /\ Covered(Top)' /\ Ready(Top)' /\ restores' > 0
         /\ IF Top'.defaults
            THEN snapshot' = NoImage /\ restores' > 1 /\ Top'.target = Defaults /\ Between'
            ELSE Top'.target = orig' /\ orig' \in {snapshot', snapFile'}
<1>1. /\ Covered(Restoration) /\ Ready(Restoration)
      /\ IF Restoration.defaults
         THEN snapshot = NoImage /\ snapFile = NoImage /\ Restoration.target = Defaults
         ELSE Restoration.target = orig /\ orig \in {snapshot, snapFile}
  BY RestorationFrame
<1>2. restores \in Nat
  BY DEF BaseInv
<1> HIDE DEF Restoration
<1>3. Covered(Top)' /\ Ready(Top)'
  BY <1>1 DEF Covered, Ready, Accepts
<1>4. Between => Between'
  BY DEF Between, Defaults
<1> QED BY <1>1, <1>2, <1>3, <1>4

(* A write leaves the next one acceptable: the other bound is at its       *)
(* target, and the targets are in order.                                   *)
LEMMA FileRestored ==
  ASSUME ConstantsOK, BaseInv, Calm, Calm', FrameInv, RestoreFile
  PROVE  FrameInv'
<1> DEFINE n == Write
<1>1. /\ frames # <<>> /\ frames \in Seq(Frame) /\ Top.todo # <<>> /\ n # "bounds"
      /\ frames' = NextWrite(Tail(Top.todo))
  BY DEF RestoreFile, BaseInv
<1>2. /\ Top.todo \in Seq(Work) /\ BoundsTogether(Top.todo) /\ Top.target \in Images
      /\ image \in Images
  BY <1>1, TopOf DEF Top, BaseInv
<1> DEFINE rest == Tail(Top.todo)
<1>3. /\ rest \in Seq(Work) /\ n \in Work /\ Rng(Top.todo) = {n} \cup Rng(rest)
      /\ BoundsTogether(rest)
      /\ rest # <<>> /\ Head(rest) \in Bounds => n \in Bounds /\ n # Head(rest)
  BY <1>1, <1>2, TailOf DEF Write
<1>4. /\ Top'.target = Top.target /\ Top'.defaults = Top.defaults /\ Top'.todo = rest
      /\ frames' # <<>>
  BY <1>1, <1>3, NextFrames
<1>5. Ready(Top) /\ Covered(Top)
  BY <1>1 DEF FrameInv
<1>6. n \in Files /\ (n \notin Bounds => Accepts(n, Top.target[n]))
  BY <1>1, <1>3, FileNames DEF Work, Accepts
<1>7. Accepts(n, Top.target[n])
  BY <1>1, <1>5, <1>6 DEF Ready, Write
<1>8. image' = [image EXCEPT ![n] = Top.target[n]] /\ UNCHANGED <<snapshot, snapFile, restores, orig>>
  BY <1>7 DEF RestoreFile, Calm, Promising, snapVars
<1> HIDE DEF n, rest
<1>9. \A m \in Files : image'[m] = IF m = n THEN Top.target[n] ELSE image[m]
  BY <1>2, <1>6, <1>8 DEF Images
<1>10. Covered(Top)'
  <2> SUFFICES ASSUME NEW m \in Files
               PROVE  image'[m] = Top.target[m] \/ m \in Rng(rest) \/ (m \in Bounds /\ "bounds" \in Rng(rest))
    BY <1>4 DEF Covered
  <2>1. image[m] = Top.target[m] \/ m \in Rng(Top.todo) \/ (m \in Bounds /\ "bounds" \in Rng(Top.todo))
    BY <1>5 DEF Covered
  <2>2. n # "bounds"
    BY <1>1 DEF n
  <2> QED BY <1>3, <1>9, <2>1, <2>2
<1>11. Ready(Top)'
  <2> SUFFICES ASSUME rest # <<>>, Head(rest) \in Bounds
               PROVE  /\ Head(rest) = "min" => Top.target[Head(rest)] <= image'["max"]
                      /\ Head(rest) = "max" => Top.target[Head(rest)] >= image'["min"]
    BY <1>4 DEF Ready, Accepts
  <2>1. n \in Bounds /\ Head(rest) \in Bounds /\ n # Head(rest) /\ Bounds = {"min", "max"}
    BY <1>3, FileNames
  <2>2. image'[n] = Top.target[n] /\ Top.target["min"] <= Top.target["max"]
    BY <1>2, <1>6, <1>9, ImageFacts
  <2>3. Top.target["min"] \in Int /\ Top.target["max"] \in Int
    BY <1>2, ImageFacts
  <2> QED BY <2>1, <2>2, <2>3
<1>12. Between /\ Top.target = Defaults => Between'
  BY <1>8, <1>9 DEF Between, Defaults
<1> QED BY <1>1, <1>4, <1>8, <1>10, <1>11, <1>12 DEF FrameInv, Defaults

(* The restore on top stays complete and acceptable.                       *)
LEMMA FrameNext ==
  ASSUME ConstantsOK, BaseInv, PathInv, FrameInv, SettledInv, BaseInv', [RollbackNext]_rollbackVars
  PROVE  FrameInv'
<1> SUFFICES ASSUME Calm', frames' # <<>>
             PROVE  FrameInv'
  BY DEF FrameInv
<1>1. Calm /\ UNCHANGED <<setup, orig>>
  BY CalmNext
<1>2. frames \in Seq(Frame)
  BY DEF BaseInv
<1>3. ASSUME UNCHANGED <<image, snapshot, snapFile>>, restores' = restores + 1,
             snapshot = NoImage => restores > 0,
             frames' = <<Restoration>> \/ frames' = Append(frames, Restoration)
      PROVE  FrameInv'
  <2>1. Top' = Restoration
    <3> HIDE DEF Restoration
    <3>1. CASE frames' = <<Restoration>>
      BY <3>1 DEF Top
    <3>2. CASE frames' = Append(frames, Restoration)
      BY <1>2, <3>2 DEF Top
    <3> QED BY <1>3, <3>1, <3>2
  <2>2. snapshot = NoImage /\ snapFile = NoImage => Between
    <3> SUFFICES ASSUME snapshot = NoImage, snapFile = NoImage PROVE Between
      OBVIOUS
    <3>1. orig # NoImage
      BY ImageFacts DEF BaseInv
    <3>2. CASE frames = <<>>
      BY <1>1, <1>3, <3>2 DEF SettledInv, Between
    <3>3. CASE frames # <<>>
      BY <1>1, <3>1, <3>3 DEF FrameInv
    <3> QED BY <3>2, <3>3
  <2> QED BY <1>1, <1>3, <2>1, <2>2, Pushed DEF FrameInv, Defaults
<1>4. CASE Straight
  BY <1>4, StraightFacts
<1>5. CASE UnhookExit \/ Final
  <2>1. frames = <<>>
    <3>1. depth = 0 /\ pc # "restore"
      BY <1>5 DEF UnhookExit, Final, At
    <3>2. Len(frames) = 0
      BY <3>1 DEF BaseInv
    <3> QED BY <1>2, <3>2
  <2>2. /\ frames' = <<Restoration>> /\ restores' = restores + 1
        /\ UNCHANGED <<image, snapshot, snapFile>>
        /\ pc = "unhookExit" \/ snapshot # NoImage
    BY <1>5, <2>1 DEF UnhookExit, Final, At, snapVars
  <2>3. snapshot = NoImage => restores > 0
    BY <1>1, <2>2 DEF PathInv, Aborted
  <2> QED BY <1>3, <2>2, <2>3
<1>6. CASE ReadBounds
  <2>1. PICK list : /\ list \in Seq(Work) /\ BoundsTogether(list) /\ frames' = NextWrite(list)
                    /\ Rng(list) = Bounds \cup Rng(Tail(Top.todo)) /\ list # <<>>
                    /\ Accepts(Head(list), Top.target[Head(list)])
    BY <1>6, BoundsRead DEF ReadBounds
  <2>2. /\ frames # <<>> /\ Top.todo # <<>> /\ Write = "bounds"
        /\ UNCHANGED <<image, snapshot, snapFile, restores>>
    BY <1>6 DEF ReadBounds, snapVars
  <2>3. Top'.target = Top.target /\ Top'.defaults = Top.defaults /\ Top'.todo = list
    BY <1>2, <2>1, <2>2, NextFrames
  <2>4. Rng(Top.todo) = {"bounds"} \cup Rng(Tail(Top.todo)) /\ "bounds" \notin Files
    <3>1. Top.todo \in Seq(Work)
      BY <1>2, <2>2, TopOf DEF Top
    <3> QED BY <2>2, <3>1, TailOf, FileNames DEF Write
  <2>5. Covered(Top) /\ Ready(Top)
    BY <1>1, <2>2 DEF FrameInv
  <2>6. Covered(Top)'
    BY <2>1, <2>2, <2>3, <2>4, <2>5 DEF Covered
  <2>7. Ready(Top)'
    BY <2>1, <2>2, <2>3 DEF Ready, Accepts
  <2>8. Between => Between'
    BY <1>1, <2>2 DEF Between, Defaults
  <2> QED BY <1>1, <2>2, <2>3, <2>6, <2>7, <2>8 DEF FrameInv, Defaults
<1>7. CASE RestoreFile
  BY <1>1, <1>7, FileRestored
<1>8. CASE EndRestore
  BY <1>8 DEF EndRestore
<1>9. CASE EndHandler
  BY <1>1, <1>9, HandlerEnds
<1>10. CASE Signal
  <2>1. /\ hooked /\ frames' = Append(frames, Restoration) /\ restores' = restores + 1
        /\ UNCHANGED <<image, snapshot, snapFile>>
    BY <1>10, CalmSignal
  <2>2. snapshot = NoImage => restores > 0
    BY <1>1, <2>1 DEF PathInv, Aborted, BaseInv
  <2> QED BY <1>3, <2>1, <2>2
<1>11. CASE UNCHANGED rollbackVars
  BY <1>11 DEF rollbackVars, snapVars, handlerVars, history, FrameInv, Calm, Promising, Covered, Ready,
     Top, Accepts, Defaults, Between
<1> QED BY <1>4, <1>5, <1>6, <1>7, <1>8, <1>9, <1>10, <1>11, NextSplit

-----------------------------------------------------------------------------
(* The steps before the first restore.                                     *)
LEMMA QuietNext ==
  ASSUME ConstantsOK, BaseInv, PathInv, [RollbackNext]_rollbackVars, Calm', restores' = 0
  PROVE  /\ Calm /\ restores = 0 /\ depth = 0 /\ frames = <<>>
         /\ snapshot = orig \/ pc = "create" \/ Aborted
         /\ UNCHANGED <<setup, orig>>
         /\ \/ Straight
            \/ UnhookExit /\ pc' = "final" /\ ~raised /\ ~setup.onExit
            \/ Final /\ pc' = "exited" /\ ~(atexit /\ snapshot # NoImage)
            \/ /\ pc \in {"create", "hook", "unhookExit", "final"} /\ pc' = "final"
               /\ raised' = (raised \/ pc # "final")
               /\ UNCHANGED <<image, latency, pos, atexit>>
            \/ UNCHANGED rollbackVars
<1>1. Calm /\ UNCHANGED <<setup, orig>>
  BY CalmNext
<1>2. restores \in Nat /\ depth \in Nat
  BY DEF BaseInv
<1>3. restores' >= restores
  <2>1. CASE UnhookExit \/ Final
    BY <1>2, <2>1 DEF UnhookExit, Final
  <2>2. CASE Signal
    BY <1>2, <2>2 DEF Signal, Deliver, Handle, Ignore, Kill, KeyboardInterrupt
  <2>3. CASE Straight
    BY <1>2, <2>3, StraightFacts
  <2>4. CASE ReadBounds \/ RestoreFile \/ EndRestore \/ EndHandler \/ UNCHANGED rollbackVars
    BY <1>2, <2>4 DEF ReadBounds, RestoreFile, EndRestore, EndHandler, rollbackVars, handlerVars
  <2> QED BY <2>1, <2>2, <2>3, <2>4, NextSplit
<1>4. restores = 0
  BY <1>2, <1>3
<1>5. depth = 0 /\ frames = <<>> /\ (snapshot = orig \/ pc = "create" \/ Aborted)
  BY <1>1, <1>2, <1>4 DEF PathInv, BaseInv
<1>6. ~ReadBounds /\ ~RestoreFile /\ ~EndRestore /\ ~EndHandler
  BY <1>5 DEF ReadBounds, RestoreFile, EndRestore, EndHandler
<1>7. Signal => /\ pc \in {"create", "hook", "unhookExit", "final"} /\ pc' = "final"
                /\ raised' = (raised \/ pc # "final")
                /\ UNCHANGED <<image, latency, pos, atexit>>
  BY <1>4, CalmSignal
<1>8. UnhookExit => pc' = "final" /\ ~raised /\ ~setup.onExit
  BY <1>4 DEF UnhookExit
<1>9. Final => pc' = "exited" /\ ~(atexit /\ snapshot # NoImage)
  BY <1>4 DEF Final
<1> QED BY <1>1, <1>4, <1>5, <1>6, <1>7, <1>8, <1>9, NextSplit

(* A program that has nothing to restore keeps it so.                      *)
LEMMA ExitNext ==
  ASSUME ConstantsOK, BaseInv, PathInv, ExitInv, [RollbackNext]_rollbackVars PROVE ExitInv'
<1> SUFFICES ASSUME Calm', restores' = 0, pc' \in {"final", "exited"}
             PROVE  \/ image' = orig'
                    \/ setup'.managed /\ ~raised' /\ ~setup'.onExit
                    \/ pc' = "final" /\ atexit'
  BY DEF ExitInv
<1>1. /\ Calm /\ restores = 0 /\ depth = 0 /\ (snapshot = orig \/ pc = "create" \/ Aborted)
      /\ UNCHANGED <<setup, orig>>
  BY QuietNext
<1>2. pc \in {"final", "exited"} =>
        \/ image = orig
        \/ setup.managed /\ ~raised /\ ~setup.onExit
        \/ pc = "final" /\ atexit
  BY <1>1 DEF ExitInv
(* A program without the with statement comes to its end with the hook.    *)
<1>3. CASE Straight
  <2>1. pc' = "final"
    BY <1>3, StraightFacts
  <2>2. pc \in {"enter", "fallback", "body", "release", "leave"} /\ UNCHANGED atexit
    BY <1>3, <2>1 DEF Straight, Create, HookSignals, HookExit, Unhook, BeginLock, Disable, DisableFails,
       EndLock, LeaveBody, GiveBack, Releasing, EndRelease, Change, At, hookVars
  <2> QED BY <2>1, <2>2 DEF BaseInv, Guarded
<1>4. CASE UnhookExit /\ pc' = "final" /\ ~raised /\ ~setup.onExit
  <2>1. setup.managed /\ UNCHANGED raised
    BY <1>4 DEF BaseInv, UnhookExit, At
  <2> QED BY <1>1, <1>4, <2>1
<1>5. CASE Final /\ pc' = "exited" /\ ~(atexit /\ snapshot # NoImage)
  <2>1. pc = "final" /\ UNCHANGED <<atexit, raised, image>>
    BY <1>5 DEF Final, At, hookVars
  <2>2. orig # NoImage
    BY ImageFacts DEF BaseInv
  <2>3. image = orig \/ ~atexit
    BY <1>1, <1>5, <2>1, <2>2 DEF Aborted
  <2> QED BY <1>1, <1>2, <2>1, <2>3
<1>6. CASE /\ pc \in {"create", "hook", "unhookExit", "final"} /\ pc' = "final"
           /\ raised' = (raised \/ pc # "final")
           /\ UNCHANGED <<image, latency, pos, atexit>>
  <2>1. CASE pc = "final"
    <3>1. raised' = raised
      BY <1>6, <2>1 DEF BaseInv
    <3> QED BY <1>1, <1>2, <1>6, <2>1, <3>1
  <2>2. CASE pc # "final"
    BY <1>1, <1>6, <2>2 DEF BaseInv
  <2> QED BY <2>1, <2>2
<1>7. CASE UNCHANGED rollbackVars
  BY <1>2, <1>7 DEF rollbackVars, hookVars, history
<1> QED BY <1>3, <1>4, <1>5, <1>6, <1>7, QuietNext

(* The fallback runs before the first restore, over states in their        *)
(* original values.                                                        *)
LEMMA SavedNext ==
  ASSUME ConstantsOK, BaseInv, LatencyTypes, PathInv, SavedInv, HeldInv, [RollbackNext]_rollbackVars PROVE SavedInv'
<1> SUFFICES ASSUME Calm' 
             PROVE  \A i \in DOMAIN latency'.saved : latency'.saved[i] \in {-1, orig'[IdleStates[i]]}
  BY DEF SavedInv
<1>1. Calm /\ UNCHANGED orig
  BY CalmNext
<1>2. \A i \in DOMAIN latency.saved : latency.saved[i] \in {-1, orig[IdleStates[i]]}
  BY <1>1 DEF SavedInv
<1>3. CASE UNCHANGED latency
  BY <1>1, <1>2, <1>3
<1>4. CASE latency'.saved = <<>>
  BY <1>4
<1>5. CASE BeginLock
  <2>1. latency' \in {[Unlocked EXCEPT !.locked = TRUE], Unlocked, latency}
    BY <1>5 DEF BeginLock
  <2>2. [Unlocked EXCEPT !.locked = TRUE].saved = <<>> /\ Unlocked.saved = <<>>
    BY DEF Unlocked
  <2> QED BY <1>3, <1>4, <2>1, <2>2
<1>6. CASE Disable
  <2>1. pc = "fallback" /\ depth = 0 /\ pos \in DOMAIN IdleStates
    BY <1>6, FileNames DEF Disable, At, LatencyTypes
  <2>2. restores = 0
    BY <1>1, <2>1 DEF PathInv, Ended, BaseInv
  <2>3. Len(latency.saved) = pos - 1 /\ latency.saved \in Seq(-1..1) /\ pos \in Nat
        /\ DOMAIN latency.saved = 1..(pos - 1)
    BY <2>1 DEF LatencyTypes
  <2>4. image[IdleStates[pos]] = orig[IdleStates[pos]]
    BY <1>1, <2>1, <2>2, <2>3 DEF HeldInv, Held
  <2>5. image[IdleStates[pos]] \in 0..1
    BY <2>1, FileNames, ImageFacts DEF BaseInv
  <2>6. PICK v \in {-1, orig[IdleStates[pos]]} : latency'.saved = Append(latency.saved, v)
    BY <1>6, <2>4 DEF Disable, LatencyTypes
  <2>7. v \in -1..1
    BY <2>4, <2>5, <2>6
  <2>8. DOMAIN latency'.saved = 1..pos /\ latency'.saved[pos] = v
        /\ \A i \in 1..(pos - 1) : latency'.saved[i] = latency.saved[i]
    BY <2>3, <2>6, <2>7
  <2> QED BY <1>1, <1>2, <2>3, <2>6, <2>8
<1>7. CASE EndLock
  <2>1. latency'.saved = latency.saved
    BY <1>7 DEF EndLock, LatencyTypes
  <2> QED BY <1>1, <1>2, <2>1
<1>8. CASE EndRelease
  BY <1>4, <1>8 DEF EndRelease, Unlocked
<1>9. CASE ~BeginLock /\ ~Disable /\ ~EndLock /\ ~EndRelease
  BY <1>3, <1>9, NextSplit DEF Straight, Create, HookSignals, HookExit, Unhook, DisableFails, LeaveBody,
     GiveBack, Change, UnhookExit, Final, ReadBounds, RestoreFile, EndRestore, EndHandler, Signal,
     Deliver, Handle, Ignore, Kill, KeyboardInterrupt,
     rollbackVars
<1> QED BY <1>5, <1>6, <1>7, <1>8, <1>9

-----------------------------------------------------------------------------
(* The controller gives back what it took.                                 *)
LEMMA HeldNext ==
  ASSUME ConstantsOK, BaseInv, LatencyTypes, PathInv, SavedInv, HeldInv, [RollbackNext]_rollbackVars PROVE HeldInv'
<1> SUFFICES ASSUME Calm', restores' = 0
             PROVE  /\ pc' # "fallback" /\ ~latency'.fallback => latency'.saved = <<>>
                    /\ pc' \in {"body", "enter"} /\ ~latency'.locked => latency'.saved = <<>>
                    /\ pc' \notin {"fallback", "release", "leave"} => pos' = 1
                    /\ pc' \in Bare => latency'.saved = <<>>
                    /\ \A i \in DOMAIN IdleStates : image'[IdleStates[i]] = orig'[IdleStates[i]] \/ Held(i)'
  BY DEF HeldInv
<1>1. Calm /\ restores = 0 /\ depth = 0 /\ UNCHANGED orig
  BY QuietNext
<1>2. /\ pc # "fallback" /\ ~latency.fallback => latency.saved = <<>>
      /\ pc \in {"body", "enter"} /\ ~latency.locked => latency.saved = <<>>
      /\ pc \notin {"fallback", "release", "leave"} => pos = 1
      /\ pc \in Bare => latency.saved = <<>>
      /\ \A i \in DOMAIN IdleStates : image[IdleStates[i]] = orig[IdleStates[i]] \/ Held(i)
  BY <1>1 DEF HeldInv
<1>3. /\ Len(IdleStates) \in Nat /\ DOMAIN IdleStates = 1..Len(IdleStates)
      /\ Len(latency.saved) \in Nat /\ DOMAIN latency.saved = 1..Len(latency.saved)
      /\ Len(latency.saved) <= Len(IdleStates) /\ latency.saved \in Seq(-1..1)
      /\ pos \in 1..(Len(IdleStates) + 1)
      /\ image \in [Files -> 0..MaxFreq]
      /\ \A i \in DOMAIN IdleStates : IdleStates[i] \in Files
      /\ \A i, j \in DOMAIN IdleStates : IdleStates[i] = IdleStates[j] => i = j
  BY FileNames DEF LatencyTypes, BaseInv, Images, ConstantsOK
<1>4. ASSUME latency.saved = <<>>
      PROVE  \A i \in DOMAIN IdleStates : image[IdleStates[i]] = orig[IdleStates[i]]
  <2>1. \A i : ~Held(i)
    BY <1>4 DEF Held
  <2> QED BY <1>2, <2>1
(* A step that leaves the controller and the states alone.                 *)
<1>5. ASSUME UNCHANGED <<latency, pos>>,
             \A i \in DOMAIN IdleStates : image'[IdleStates[i]] = image[IdleStates[i]],
             pc' \in {"release", "leave"} => pos = 1 \/ pc' = pc
      PROVE  \A i \in DOMAIN IdleStates : image'[IdleStates[i]] = orig'[IdleStates[i]] \/ Held(i)'
  <2> SUFFICES ASSUME NEW i \in DOMAIN IdleStates, Held(i)
               PROVE  Held(i)'
    BY <1>1, <1>2, <1>5
  <2>1. i \in DOMAIN latency.saved /\ latency.saved[i] # -1 /\ i >= 1
    BY <1>3 DEF Held
  <2> QED BY <1>5, <2>1 DEF Held
<1>6. CASE Create \/ HookSignals \/ HookExit \/ Unhook
  <2>1. /\ pc \in Bare /\ pc' \in {"hook", "hookExit", "enter", "unhookExit"}
        /\ UNCHANGED <<latency, pos, image>>
    BY <1>6 DEF Create, HookSignals, HookExit, Unhook, At, Bare
  <2> QED BY <1>2, <1>5, <2>1 DEF Bare
<1>7. CASE BeginLock
  <2>1. latency.saved = <<>> /\ pos = 1 /\ UNCHANGED image
    BY <1>2, <1>7 DEF BeginLock, At
  <2>2. latency' \in {[Unlocked EXCEPT !.locked = TRUE], Unlocked, latency}
    BY <1>7 DEF BeginLock
  <2>3. latency'.saved = <<>>
    BY <2>1, <2>2 DEF Unlocked
  <2>4. pos' = 1
    BY <1>7, <2>1 DEF BeginLock
  <2> QED BY <1>1, <1>4, <2>1, <2>3, <2>4
<1>8. CASE Disable
  <2> DEFINE n == IdleStates[pos]
  <2>1. pc = "fallback" /\ pc' = "fallback" /\ pos \in DOMAIN IdleStates /\ pos' = pos + 1
    BY <1>3, <1>8 DEF Disable, At
  <2>2. Len(latency.saved) = pos - 1
    BY <2>1 DEF LatencyTypes
  <2>3. n \in Files /\ image[n] \in 0..1 /\ image[n] = orig[n]
    <3>1. n \in Files \ Bounds /\ image[n] \in 0..1
      BY <2>1, FileNames, ImageFacts DEF BaseInv
    <3>2. ~Held(pos)
      BY <1>3, <2>2 DEF Held
    <3> QED BY <1>2, <2>1, <3>1, <3>2
  <2>4. PICK v \in {-1, image[n]} : /\ latency'.saved = Append(latency.saved, v)
                                    /\ image' = IF v = -1 THEN image ELSE [image EXCEPT ![n] = 1]
    BY <1>8, <2>3 DEF Disable, LatencyTypes
  <2>5. v \in -1..1 /\ (v # -1 => v = image[n])
    BY <2>3, <2>4
  <2>6. /\ DOMAIN latency'.saved = 1..pos /\ latency'.saved[pos] = v
        /\ \A i \in 1..(pos - 1) : latency'.saved[i] = latency.saved[i]
    BY <1>3, <2>2, <2>4, <2>5
  <2> HIDE DEF n
  <2>7. ASSUME NEW i \in DOMAIN IdleStates
        PROVE  image'[IdleStates[i]] = orig'[IdleStates[i]] \/ Held(i)'
    <3>1. CASE i = pos
      <4>1. CASE v = -1
        BY <1>1, <2>3, <2>4, <3>1, <4>1 DEF n
      <4>2. CASE v # -1
        BY <1>3, <2>1, <2>6, <3>1, <4>2 DEF Held
      <4> QED BY <4>1, <4>2
    <3>2. CASE i # pos
      <4>1. IdleStates[i] # n /\ IdleStates[i] \in Files
        BY <1>3, <2>1, <3>2 DEF n
      <4>2. image'[IdleStates[i]] = image[IdleStates[i]]
        BY <1>3, <2>3, <2>4, <4>1
      <4>3. Held(i) => Held(i)'
        <5> SUFFICES ASSUME Held(i) PROVE Held(i)'
          OBVIOUS
        <5>1. i \in 1..(pos - 1) /\ latency.saved[i] # -1
          BY <1>3, <2>2 DEF Held
        <5>2. i \in DOMAIN latency'.saved /\ latency'.saved[i] # -1
          <6>1. i \in 1..pos
            BY <1>3, <5>1
          <6>2. latency'.saved[i] = latency.saved[i]
            BY <2>6, <5>1
          <6> QED BY <2>6, <5>1, <6>1, <6>2
        <5>3. pc' \notin {"release", "leave"}
          BY <2>1
        <5> QED BY <5>2, <5>3 DEF Held
      <4> QED BY <1>1, <1>2, <4>2, <4>3
    <3> QED BY <3>1, <3>2
  <2> QED BY <2>1, <2>7 DEF Bare
<1>9. CASE EndLock
  <2>1. /\ pc' = "body" /\ pos' = 1 /\ UNCHANGED image
        /\ latency'.locked /\ latency'.fallback /\ latency'.saved = latency.saved
    BY <1>9 DEF EndLock, LatencyTypes
  <2>2. \A i : Held(i) => Held(i)'
    BY <2>1 DEF Held
  <2> QED BY <1>1, <1>2, <2>1, <2>2 DEF Bare
<1>10. CASE \E n \in Files : \E v \in Value(n) : Change(n, v)
  <2>1. PICK n \in Files : /\ n \notin Idles /\ UNCHANGED <<latency, pos, pc>> /\ pc = "body"
                           /\ \E v : image' = [image EXCEPT ![n] = v]
    BY <1>10 DEF Change, At
  <2>2. \A i \in DOMAIN IdleStates : image'[IdleStates[i]] = image[IdleStates[i]]
    BY <1>3, <2>1, FileNames
  <2> QED BY <1>2, <1>5, <2>1, <2>2 DEF Bare
<1>11. CASE LeaveBody
  <2>1. pc = "body" /\ pc' \in {"release", "leave"} /\ UNCHANGED <<latency, pos, image>>
    BY <1>11 DEF LeaveBody, At
  <2> QED BY <1>2, <1>5, <2>1 DEF Bare
<1>12. CASE GiveBack
  <2>1. /\ pc \in {"release", "leave"} /\ pc' = pc /\ UNCHANGED latency /\ pos' = pos + 1
        /\ latency.fallback /\ pos \in DOMAIN latency.saved /\ pos \in DOMAIN IdleStates
        /\ image' = IF latency.saved[pos] = -1 THEN image
                    ELSE [image EXCEPT ![IdleStates[pos]] = latency.saved[pos]]
    BY <1>3, <1>12 DEF GiveBack, Releasing, At, ToGiveBack, Calm, Promising
  <2>2. latency.saved[pos] \in {-1, orig[IdleStates[pos]]}
    BY <1>1, <2>1 DEF SavedInv
  <2>3. ASSUME NEW i \in DOMAIN IdleStates
        PROVE  image'[IdleStates[i]] = orig'[IdleStates[i]] \/ Held(i)'
    <3>1. CASE i = pos
      <4>1. CASE latency.saved[pos] = -1
        BY <1>1, <1>2, <2>1, <3>1, <4>1 DEF Held
      <4>2. CASE latency.saved[pos] # -1
        BY <1>1, <1>3, <2>1, <2>2, <3>1, <4>2
      <4> QED BY <4>1, <4>2
    <3>2. CASE i # pos
      <4>1. IdleStates[i] # IdleStates[pos]
        BY <1>3, <2>1, <3>2
      <4>2. image'[IdleStates[i]] = image[IdleStates[i]]
        BY <1>3, <2>1, <4>1
      <4>3. Held(i) => Held(i)'
        BY <1>3, <2>1, <3>2 DEF Held
      <4> QED BY <1>1, <1>2, <4>2, <4>3
    <3> QED BY <3>1, <3>2
  <2> QED BY <1>2, <2>1, <2>3
<1>13. CASE EndRelease
  <2>1. /\ pc \in {"release", "leave"} /\ ~ToGiveBack /\ UNCHANGED image /\ pos' = 1
        /\ latency' = Unlocked
    BY <1>13 DEF EndRelease, Releasing, At
  <2>2. latency'.saved = <<>>
    BY <2>1 DEF Unlocked
  <2>3. ASSUME NEW i \in DOMAIN IdleStates PROVE ~Held(i)
    <3>1. CASE ~latency.fallback
      BY <1>2, <2>1, <3>1 DEF Held
    <3>2. CASE latency.fallback
      BY <1>3, <2>1, <3>2 DEF Held, ToGiveBack
    <3> QED BY <3>1, <3>2
  <2> QED BY <1>1, <1>2, <2>1, <2>2, <2>3
<1>14. CASE DisableFails
  BY <1>14 DEF DisableFails, Calm, Promising
<1>15. CASE \/ UnhookExit /\ pc' = "final" /\ ~raised /\ ~setup.onExit
            \/ Final /\ pc' = "exited" /\ ~(atexit /\ snapshot # NoImage)
  <2>1. pc \in Bare /\ pc' \in {"final", "exited"} /\ UNCHANGED <<latency, pos, image>>
    BY <1>15 DEF UnhookExit, Final, At, Bare
  <2> QED BY <1>2, <1>5, <2>1 DEF Bare
<1>16. CASE /\ pc \in {"create", "hook", "unhookExit", "final"} /\ pc' = "final"
            /\ raised' = (raised \/ pc # "final")
            /\ UNCHANGED <<image, latency, pos, atexit>>
  BY <1>2, <1>5, <1>16 DEF Bare
<1>17. CASE UNCHANGED rollbackVars
  BY <1>2, <1>5, <1>17 DEF rollbackVars
<1> QED
  BY <1>6, <1>7, <1>8, <1>9, <1>10, <1>11, <1>12, <1>13, <1>14, <1>15, <1>16, <1>17, QuietNext
     DEF Straight

(* A kill finds the originals in force or in the file.                     *)
LEMMA KilledNext ==
  ASSUME ConstantsOK, BaseInv, PathInv, SettledInv, KilledInv, [RollbackNext]_rollbackVars PROVE KilledInv'
<1>1. /\ frames \in Seq(Frame) /\ Len(frames) = depth + (IF pc = "restore" THEN 1 ELSE 0)
      /\ depth \in Nat /\ signals \in Nat /\ restores \in Nat
  BY DEF BaseInv
<1> SUFFICES ASSUME pc' = "killed"
             PROVE  /\ signals' > 0
                    /\ ~failed' /\ signals' = 1 => image' = orig' \/ snapFile' = orig' \/ ~persisted'
  BY DEF KilledInv, KilledIsRecoverable
<1>2. CASE UNCHANGED rollbackVars
  BY <1>2 DEF KilledInv, KilledIsRecoverable, rollbackVars, snapVars, handlerVars, history
<1>3. CASE ~UNCHANGED rollbackVars
  <2>1. CASE pc = "killed"
    <3>1. frames = <<>> /\ depth = 0
      <4>1. Len(frames) = 0 /\ depth = 0
        BY <1>1, <2>1 DEF BaseInv, Over
      <4> QED BY <1>1, <4>1
    <3> QED BY <1>3, <2>1, <3>1, NextSplit, StraightFacts DEF UnhookExit, Final, ReadBounds,
               RestoreFile, EndRestore, EndHandler, Signal, Deliver, Over, At
  <2>2. CASE pc # "killed"
    <3>1. Unwound # "killed"
      BY DEF Unwound, Inner, Outer
    <3>2. Signal
      BY <1>3, <2>2, <3>1, NextSplit, StraightFacts DEF UnhookExit, Final, ReadBounds, RestoreFile,
         EndRestore, EndHandler
    <3>3. /\ pc \notin Over /\ signals' = signals + 1
          /\ UNCHANGED <<failed, image, orig, snapFile, persisted>>
      BY <3>2 DEF Signal, Deliver, history, snapVars
    <3>4. ASSUME ~failed', signals' = 1, persisted PROVE image = orig \/ snapFile = orig
      <4>1. Calm /\ signals = 0 /\ depth = 0
        BY <1>1, <2>2, <3>3, <3>4 DEF Calm, Promising, BaseInv, Over
      <4>2. snapFile = orig \/ snapshot = NoImage
        BY <3>4, <4>1 DEF PathInv
      <4>3. CASE snapshot = NoImage
        <5>1. pc # "create"
          BY <3>4 DEF BaseInv
        <5> SUFFICES ASSUME ~Aborted PROVE image = orig \/ snapFile = orig
          BY DEF Aborted
        <5>2. restores = 1 /\ pc \in {"restore", "final"}
          BY <1>1, <3>3, <4>1, <4>3, <5>1 DEF PathInv, Over
        <5>3. pc = "final"
          <6>1. orig # NoImage
            BY ImageFacts DEF BaseInv
          <6> QED BY <4>1, <4>3, <5>2, <6>1 DEF PathInv
        <5>4. frames = <<>>
          <6>1. Len(frames) = 0
            BY <1>1, <4>1, <5>3
          <6> QED BY <1>1, <6>1
        <5> QED BY <4>1, <5>2, <5>4 DEF SettledInv
      <4> QED BY <4>2, <4>3
    <3> QED BY <1>1, <3>3, <3>4
  <2> QED BY <2>1, <2>2
<1> QED BY <1>2, <1>3

(* Ctrl-C in a restore finds the originals in the file, or the defaults    *)
(* half written.                                                           *)
LEMMA InterruptedNext ==
  ASSUME ConstantsOK, BaseInv, PathInv, FrameInv, InterruptedInv, [RollbackNext]_rollbackVars
  PROVE  InterruptedInv'
<1> SUFFICES ASSUME pc' = "interrupted", Promising' PROVE Recoverable'
  BY DEF InterruptedInv
<1>1. frames \in Seq(Frame) /\ Len(frames) = depth + (IF pc = "restore" THEN 1 ELSE 0)
      /\ depth \in Nat /\ signals \in Nat
  BY DEF BaseInv
<1>2. CASE UNCHANGED rollbackVars
  BY <1>2 DEF InterruptedInv, Promising, Recoverable, Between, Defaults, rollbackVars, snapVars,
     handlerVars, history
<1>3. CASE ~UNCHANGED rollbackVars
  <2>1. pc # "interrupted"
    <3> SUFFICES ASSUME pc = "interrupted" PROVE FALSE
      OBVIOUS
    <3>1. frames = <<>> /\ depth = 0
      <4>1. Len(frames) = 0 /\ depth = 0
        BY <1>1 DEF BaseInv, Over
      <4> QED BY <1>1, <4>1
    <3> QED BY <1>3, <3>1, NextSplit, StraightFacts DEF UnhookExit, Final, ReadBounds,
               RestoreFile, EndRestore, EndHandler, Signal, Deliver, Over, At
  <2>2. Signal
    <3>1. Unwound # "interrupted"
      BY DEF Unwound, Inner, Outer
    <3> QED BY <1>3, <2>1, <3>1, NextSplit, StraightFacts DEF UnhookExit, Final, ReadBounds, RestoreFile,
       EndRestore, EndHandler
  <2>3. /\ pc = "restore" /\ ~hooked /\ ~setup.chained /\ UNCHANGED restores
    BY <2>1, <2>2 DEF Signal, Handle, Ignore, Kill, KeyboardInterrupt
  <2>4. UNCHANGED <<setup, image, snapFile, failed, orig, persisted>>
    BY <2>2 DEF Signal, Deliver, snapVars, history
  <2>5. Calm /\ depth = 0
    BY <1>1, <2>3, <2>4 DEF Calm, Promising, BaseInv
  <2>6. frames # <<>>
    BY <1>1, <2>3, <2>5
  <2>7. orig # NoImage /\ snapshot \in {NoImage, orig}
    BY ImageFacts DEF BaseInv
  <2>8. CASE Top.defaults
    BY <2>3, <2>4, <2>5, <2>6, <2>8 DEF FrameInv, Recoverable, Between, Defaults
  <2>9. CASE ~Top.defaults
    <3>1. orig \in {snapshot, snapFile}
      BY <2>5, <2>6, <2>9 DEF FrameInv
    <3>2. snapFile = orig \/ ~persisted
      BY <2>5, <2>7, <3>1 DEF PathInv
    <3> QED BY <2>4, <3>2 DEF Recoverable
  <2> QED BY <2>8, <2>9
<1> QED BY <1>2, <1>3

-----------------------------------------------------------------------------
(* The invariant holds at the beginning, is kept by every step, and so     *)
(* always holds.                                                           *)
LEMMA InitR ==
  ASSUME ConstantsOK, RollbackInit PROVE RInv
<1> USE DEF RollbackInit
<1>1. image \in Images /\ orig = image
  BY DEF ConstantsOK
<1>2. frames = <<>> /\ frames \in Seq(Frame) /\ Len(frames) = 0
  OBVIOUS
<1>3. BaseInv
  <2>1. /\ setup \in [managed : BOOLEAN, onExit : BOOLEAN, chained : BOOLEAN]
        /\ setup.onExit => setup.managed
        /\ image \in Images /\ orig \in Images /\ image = orig
    BY <1>1
  <2>2. pc \in Places /\ pc = "create" /\ snapshot = NoImage /\ snapFile = NoImage
    BY DEF Places
  <2>3. /\ {hooked, atexit, raised, entered, persisted, failed} \subseteq BOOLEAN
        /\ ~hooked /\ ~atexit /\ ~persisted
    OBVIOUS
  <2>4. signals = 0 /\ restores = 0 /\ depth = 0 /\ frames \in Seq(Frame) /\ Len(frames) = 0
    BY <1>2
  <2> QED BY ONLY <2>1, <2>2, <2>3, <2>4 DEF BaseInv, Over, Guarded
<1>4. latency.saved = <<>> /\ LatencyTypes
  <2>1. <<>> \in Seq(-1..1) /\ Len(<<>>) = 0 /\ Len(IdleStates) \in Nat
    BY FileNames
  <2> QED BY <2>1 DEF LatencyTypes, Unlocked
<1>5. HeldInv /\ SavedInv
  BY <1>1, <1>4 DEF HeldInv, SavedInv
<1> QED BY <1>1, <1>2, <1>3, <1>4, <1>5 DEF RInv, PathInv, ExitInv, FrameInv, SettledInv, KilledInv,
        KilledIsRecoverable, InterruptedInv

LEMMA RNext ==
  ASSUME ConstantsOK, RInv, [RollbackNext]_rollbackVars PROVE RInv'
<1> USE DEF RInv
<1>1. BaseInv' /\ LatencyTypes'
  BY BaseNext, LatencyNext
<1>2. PathInv' /\ ExitInv'
  BY PathNext, ExitNext
<1>3. SavedInv' /\ HeldInv'
  BY SavedNext, HeldNext
<1>4. FrameInv' /\ SettledInv'
  BY <1>1, FrameNext, SettledNext
<1>5. KilledInv' /\ InterruptedInv'
  BY KilledNext, InterruptedNext
<1> QED BY <1>1, <1>2, <1>3, <1>4, <1>5

LEMMA RInductive ==
  ASSUME ConstantsOK PROVE RollbackSpec => []RInv
<1>1. RollbackInit => RInv
  BY InitR
<1>2. RInv /\ [RollbackNext]_rollbackVars => RInv'
  BY RNext
<1> QED BY <1>1, <1>2, PTL DEF RollbackSpec

-----------------------------------------------------------------------------
(* A process that exits as promised leaves the original values, or the     *)
(* defaults of a second restore; Ctrl-C in the restore of __exit__ leaves  *)
(* them in the file, or the defaults half written (state.py:326-361,       *)
(* 648-680, 716-731).                                                      *)
THEOREM ExitIsRestored == RollbackSpec => []ExitRestores
<1> USE ConstantsAssumption
<1>1. RInv => ExitRestores
  <2> SUFFICES ASSUME RInv, pc \in {"exited", "interrupted"}, Promised, Promising
               PROVE  \/ image = orig
                      \/ pc = "interrupted" /\ (snapFile = orig \/ ~persisted)
                      \/ restores > 1 /\ pc = "exited" /\ image = Defaults
                      \/ restores > 1 /\ pc = "interrupted" /\ Between
    BY DEF ExitRestores, Promising, Between
  <2>1. CASE pc = "exited"
    <3>1. Calm
      BY <2>1 DEF Calm
    <3>2. frames = <<>> /\ restores \in Nat
      <4>1. frames \in Seq(Frame) /\ Len(frames) = 0 /\ restores \in Nat
        BY <2>1 DEF RInv, BaseInv, Over
      <4> QED BY <4>1
    <3>3. restores = 0 => image = orig
      BY <2>1, <3>1 DEF RInv, ExitInv, Promised
    <3> QED BY <2>1, <3>1, <3>2, <3>3 DEF RInv, SettledInv
  <2>2. CASE pc = "interrupted"
    BY <2>2 DEF RInv, InterruptedInv, Recoverable
  <2> QED BY <2>1, <2>2
<1> QED BY <1>1, RInductive, PTL

(* A process that its first signal kills leaves the original values in     *)
(* force or in the file (state.py:291-324, 443-457).                       *)
THEOREM KillIsRecoverable == RollbackSpec => []KilledIsRecoverable
<1> USE ConstantsAssumption
<1>1. RInv => KilledIsRecoverable
  BY DEF RInv, KilledInv
<1> QED BY <1>1, RInductive, PTL

(* The cpuidle states are as they were whenever the controller is not      *)
(* locked (pm_qos.py:97-195, 244-320).                                     *)
THEOREM LatencyIsGivenBack == RollbackSpec => []LatencyGivenBack
<1> USE ConstantsAssumption
<1>1. RInv => LatencyGivenBack
  <2> SUFFICES ASSUME RInv, At("body"), ~latency.locked, ~failed, signals = 0, NEW n \in Idles
               PROVE  image[n] = orig[n]
    BY DEF LatencyGivenBack
  <2>1. pc = "body" /\ depth = 0 /\ Calm
    BY DEF At, Calm, Promising
  <2>2. restores = 0
    <3>1. restores \in Nat
      BY DEF RInv, BaseInv
    <3> QED BY <2>1, <3>1 DEF RInv, PathInv, Ended
  <2>3. latency.saved = <<>>
    BY <2>1, <2>2 DEF RInv, HeldInv
  <2>4. PICK i \in DOMAIN IdleStates : n = IdleStates[i]
    BY FileNames DEF Rng
  <2>5. ~Held(i)
    BY <2>3 DEF Held
  <2> QED BY <2>1, <2>2, <2>4, <2>5 DEF RInv, HeldInv
<1> QED BY <1>1, RInductive, PTL

-----------------------------------------------------------------------------
(* The program itself restores once: __exit__ unregisters the atexit hook, *)
(* and the hook leaves no snapshot for a second call.                      *)
Spent == \/ pc \in {"restore"} \cup Over
         \/ pc = "final" /\ (~atexit \/ snapshot = NoImage)

CountInv ==
  /\ signals <= MaxSignals /\ depth <= signals
  /\ restores <= signals + (IF Spent THEN 1 ELSE 0)
  /\ pc = "restore" => ~atexit \/ snapshot = NoImage \/ ~frames[1].defaults

LEMMA CountNext ==
  ASSUME ConstantsOK, BaseInv, CountInv, [RollbackNext]_rollbackVars PROVE CountInv'
<1> USE DEF CountInv
<1>1. /\ signals \in Nat /\ depth \in Nat /\ restores \in Nat /\ MaxSignals \in Nat
      /\ frames \in Seq(Frame) /\ Len(frames) = depth + (IF pc = "restore" THEN 1 ELSE 0)
  BY DEF BaseInv, ConstantsOK
<1>2. CASE Straight
  <2>1. /\ UNCHANGED <<signals, depth, restores>>
        /\ pc \notin {"unhookExit", "restore", "final", "exited", "killed", "interrupted"} /\ pc' # "restore"
    BY <1>2, StraightFacts
  <2>2. ~Spent
    BY <2>1 DEF Spent, Over
  <2> QED BY <1>1, <2>1, <2>2
<1>3. CASE UnhookExit
  <2>1. ~Spent /\ UNCHANGED <<signals, depth>> /\ ~atexit'
    BY <1>3 DEF UnhookExit, At, Spent, Over
  <2>2. \/ pc' = "restore" /\ restores' = restores + 1
        \/ pc' = "final" /\ UNCHANGED restores
    BY <1>3 DEF UnhookExit
  <2> QED BY <1>1, <2>1, <2>2 DEF Spent
<1>4. CASE Final
  <2>1. pc = "final" /\ UNCHANGED <<signals, depth, atexit, snapshot>>
    BY <1>4 DEF Final, At, hookVars, snapVars
  <2>2. CASE atexit /\ snapshot # NoImage
    <3>1. ~Spent /\ pc' = "restore" /\ restores' = restores + 1 /\ frames' = <<Restoration>>
      BY <1>4, <2>1, <2>2 DEF Final, Spent, Over
    <3>2. ~Restoration.defaults
      BY <2>2, RestorationFrame
    <3>3. ~frames'[1].defaults
      BY <3>1, <3>2
    <3> QED BY <1>1, <2>1, <3>1, <3>3 DEF Spent
  <2>3. CASE ~(atexit /\ snapshot # NoImage)
    <3>1. Spent /\ pc' = "exited" /\ UNCHANGED restores
      BY <1>4, <2>1, <2>3 DEF Final, Spent, Over
    <3> QED BY <1>1, <2>1, <3>1 DEF Spent, Over
  <2> QED BY <2>2, <2>3
<1>5. CASE ReadBounds \/ RestoreFile
  <2>1. PICK list : frames # <<>> /\ frames' = NextWrite(list)
    BY <1>5 DEF ReadBounds, RestoreFile
  <2>2. frames[1] \in Frame /\ 1 \in DOMAIN frames /\ Len(frames) \in DOMAIN frames
    BY <1>1, <2>1
  <2>3. frames'[1].defaults = frames[1].defaults
    BY <1>1, <2>1, <2>2 DEF NextWrite, Frame
  <2>4. UNCHANGED <<pc, atexit, snapshot, signals, depth, restores>>
    BY <1>5 DEF ReadBounds, RestoreFile, hookVars, snapVars
  <2> QED BY <1>1, <2>3, <2>4 DEF Spent
<1>6. CASE EndRestore
  <2>1. /\ UNCHANGED <<atexit, signals, depth, restores>> /\ depth = 0 /\ frames # <<>>
        /\ pc' = "final" /\ Dropped
    BY <1>6 DEF EndRestore, hookVars
  <2>2. pc = "restore" /\ Top = frames[1]
    <3>1. Len(frames) # 0
      BY <1>1, <2>1
    <3> QED BY <1>1, <2>1, <3>1 DEF Top
  <2>3. Spent'
    BY <2>1, <2>2 DEF Spent, Dropped, snapVars
  <2>4. Spent
    BY <2>2 DEF Spent
  <2> QED BY <1>1, <2>1, <2>3, <2>4
<1>7. CASE EndHandler
  <2>1. /\ UNCHANGED <<atexit, signals, restores>> /\ depth > 0
        /\ snapshot' = NoImage \/ UNCHANGED snapshot
    BY <1>7 DEF EndHandler, hookVars, Dropped, snapVars
  <2>2. CASE setup.chained
    <3>1. UNCHANGED pc /\ depth' = depth - 1 /\ frames' = SubSeq(frames, 1, Len(frames) - 1)
      BY <1>7, <2>2 DEF EndHandler
    <3>2. pc = "restore" => frames'[1] = frames[1]
      BY <1>1, <2>1, <3>1
    <3>3. Spent => Spent'
      BY <2>1, <3>1 DEF Spent
    <3> QED BY <1>1, <2>1, <3>1, <3>2, <3>3
  <2>3. CASE ~setup.chained
    <3>1. depth' = 0 /\ pc' = Unwound
      BY <1>7, <2>3 DEF EndHandler
    <3>2. Unwound # "restore" /\ (Spent => Spent')
      BY <2>1, <3>1 DEF Unwound, Inner, Outer, Spent, Over, EndHandler, BaseInv
    <3> QED BY <1>1, <2>1, <3>1, <3>2
  <2> QED BY <2>2, <2>3
<1>8. CASE Signal
  <2>1. signals < MaxSignals /\ signals' = signals + 1 /\ UNCHANGED <<atexit, snapshot>>
    BY <1>8 DEF Signal, Deliver, Handle, Ignore, Kill, KeyboardInterrupt, hookVars, snapVars
  <2>2. CASE hooked
    <3>1. UNCHANGED pc /\ depth' = depth + 1 /\ restores' = restores + 1
          /\ frames' = Append(frames, Restoration)
      BY <1>8, <2>2 DEF Signal, Deliver, Handle, Ignore, Kill, KeyboardInterrupt
    <3>2. pc = "restore" => frames'[1] = frames[1]
      <4>1. Restoration \in Frame
        BY RestorationFrame
      <4> HIDE DEF Restoration
      <4> QED BY <1>1, <3>1, <4>1
    <3> QED BY <1>1, <2>1, <3>1, <3>2 DEF Spent
  <2>3. CASE ~hooked
    BY <1>1, <1>8, <2>1, <2>3 DEF Signal, Deliver, Handle, Ignore, Kill, KeyboardInterrupt, Spent, Over
  <2> QED BY <2>2, <2>3
<1>9. CASE UNCHANGED rollbackVars
  BY <1>9 DEF rollbackVars, hookVars, snapVars, handlerVars, Spent
<1> QED BY <1>2, <1>3, <1>4, <1>5, <1>6, <1>7, <1>8, <1>9, NextSplit

(* The types, with as many handlers under way as signals came, and one     *)
(* restore more than signals at most (state.py:682-731).                   *)
THEOREM RestoresAreBounded == RollbackSpec => []RollbackTypeOK
<1> USE ConstantsAssumption
<1>1. RollbackInit => CountInv
  BY DEF RollbackInit, CountInv, ConstantsOK
<1>2. RInv /\ CountInv /\ [RollbackNext]_rollbackVars => CountInv'
  BY CountNext DEF RInv
<1>3. RInv /\ CountInv => RollbackTypeOK
  <2> SUFFICES ASSUME BaseInv, LatencyTypes, CountInv PROVE RollbackTypeOK
    BY DEF RInv
  <2>1. depth \in 0..signals /\ signals \in 0..MaxSignals /\ restores \in 0..(signals + 1)
    BY DEF BaseInv, CountInv, ConstantsOK
  <2>2. latency.saved \in Seq(-1..1) /\ pos \in 1..(Len(IdleStates) + 1)
    BY DEF LatencyTypes
  <2> QED BY <2>1, <2>2 DEF RollbackTypeOK, BaseInv
<1> QED BY <1>1, <1>2, <1>3, RInductive, PTL DEF RollbackSpec
=============================================================================
