------------------------------ MODULE IPCSession ------------------------------
(***************************************************************************)
(* One request over the Unix socket: the client's call (ipc.py:260-311),   *)
(* the listener thread and the thread of a connection (ipc.py:163-223),    *)
(* the stop of the server (ipc.py:114-139) and the death of its process.   *)
(* A request and its answer are a line that fits a socket buffer, so each  *)
(* arrives whole or not at all.  What a command does is left to            *)
(* DaemonLifecycle and Tuning; here it runs, once or not at all.           *)
(***************************************************************************)
EXTENDS Naturals, Sequences, FiniteSets, SequencesExt

CONSTANTS
  Clients,     \* users of `boostlock`, one call at a time each
  Calls,       \* bound: pairs of a client and the number of its call; a
               \* command that is repeated is another call
  Backlog,     \* 128 connections wait to be accepted
  MaxStarts    \* bound: starts of the server

ASSUME CallsAssumption == Calls \subseteq Clients \X (Nat \ {0})
ASSUME BoundsAssumption == Backlog \in Nat /\ MaxStarts \in Nat \ {0}

VARIABLES
  server,      \* "up", "stopping" (event set), "closed" (no socket), "gone"
  listener,    \* "check", "accept" or "done"
  backlog,     \* connections nobody has accepted
  conn,        \* per call: the thread of its connection
  call,        \* per call: what the client waits for, or its result
  sent,        \* calls whose request is in the socket
  reply,       \* per call: the answer in the socket
  ran,         \* history, per call: how often the handler ran for it
  late,        \* history: connections accepted with the stop event set
  starts

clientVars == <<call, sent>>
serverVars == <<server, listener, starts>>
vars == <<serverVars, clientVars, backlog, conn, reply, ran, late>>

(* A request that is not valid is answered, too.                           *)
Handled == {"ok", "failed"}
Answers == Handled \cup {"refused"}
Results == Answers \cup {"unreachable", "closed", "gaveUp"}
StopSet == server \in {"stopping", "closed"}
ConnSet(rs, state) == [r \in Calls |-> IF r \in rs THEN state ELSE conn[r]]

Init ==
  /\ server = "up" /\ listener = "check" /\ starts = 1
  /\ backlog = <<>>
  /\ conn = [r \in Calls |-> "none"]
  /\ call = [r \in Calls |-> "none"]
  /\ sent = {}
  /\ reply = [r \in Calls |-> "none"]
  /\ ran = [r \in Calls |-> 0]
  /\ late = {}

-----------------------------------------------------------------------------
(* The client.  connect() fails at once when there is no socket, nobody    *)
(* listens, or the backlog is full.                                        *)
Connect(r) ==
  /\ call[r] = "none"
  /\ \A q \in Calls : q[1] = r[1] /\ q[2] < r[2] => call[q] \in Results
  /\ IF server \in {"up", "stopping"} /\ Len(backlog) < Backlog
       THEN /\ call' = [call EXCEPT ![r] = "connected"]
            /\ backlog' = Append(backlog, r)
            /\ conn' = [conn EXCEPT ![r] = "queued"]
       ELSE /\ call' = [call EXCEPT ![r] = "unreachable"]
            /\ UNCHANGED <<backlog, conn>>
  /\ UNCHANGED <<serverVars, sent, reply, ran, late>>

Send(r) ==
  /\ call[r] = "connected"
  /\ IF conn[r] = "closed"
       THEN call' = [call EXCEPT ![r] = "closed"] /\ UNCHANGED sent
       ELSE call' = [call EXCEPT ![r] = "waiting"] /\ sent' = sent \cup {r}
  /\ UNCHANGED <<serverVars, backlog, conn, reply, ran, late>>

Receive(r) ==
  /\ call[r] = "waiting" /\ reply[r] # "none"
  /\ call' = [call EXCEPT ![r] = reply[r]]
  /\ reply' = [reply EXCEPT ![r] = "none"]
  /\ UNCHANGED <<serverVars, sent, backlog, conn, ran, late>>
(* Faulty variant: no answer yet is taken for the end of the connection.   *)
HangupEarly(r) ==
  /\ call[r] = "waiting" /\ reply[r] = "none"
  /\ call' = [call EXCEPT ![r] = "closed"]
  /\ UNCHANGED <<serverVars, sent, backlog, conn, reply, ran, late>>

(* "Server closed connection without responding", or a reset.              *)
Hangup(r) ==
  /\ call[r] = "waiting" /\ reply[r] = "none" /\ conn[r] = "closed"
  /\ call' = [call EXCEPT ![r] = "closed"]
  /\ UNCHANGED <<serverVars, sent, backlog, conn, reply, ran, late>>
(* Faulty variant: the timeout is set for connect() only.                  *)
TimeoutNever(r) == FALSE /\ UNCHANGED vars

(* The timeout of recv(): 5 seconds, 10 for STATUS (cli.py:63).            *)
Timeout(r) ==
  /\ call[r] = "waiting" /\ reply[r] = "none"
  /\ call' = [call EXCEPT ![r] = "gaveUp"]
  /\ UNCHANGED <<serverVars, sent, backlog, conn, reply, ran, late>>

(* Ctrl-C gives up, too; the socket is closed on the way out.              *)
Interrupt(r) ==
  /\ call[r] \in {"connected", "waiting"}
  /\ call' = [call EXCEPT ![r] = "gaveUp"]
  /\ reply' = [reply EXCEPT ![r] = "none"]
  /\ UNCHANGED <<serverVars, sent, backlog, conn, ran, late>>

Client(r) ==
  Connect(r) \/ Send(r) \/ Receive(r) \/ Hangup(r) \/ Timeout(r) \/ Interrupt(r)

(* What `boostlock` says with its exit code (_send_command, cmd_stop).     *)
ExitCode(r) == IF call[r] = "ok" THEN 0 ELSE 1

-----------------------------------------------------------------------------
(* _listen_loop: the event is read before accept(), which gives up after   *)
(* half a second.                                                          *)
ListenerChecks ==
  /\ listener = "check"
  /\ listener' = IF StopSet THEN "done" ELSE "accept"
  /\ UNCHANGED <<server, starts, clientVars, backlog, conn, reply, ran, late>>

ListenerWaits ==
  /\ listener = "accept" /\ backlog = <<>>
  /\ listener' = "check"
  /\ UNCHANGED <<server, starts, clientVars, backlog, conn, reply, ran, late>>

Accept ==
  /\ listener = "accept" /\ backlog # <<>>
  /\ listener' = "check"
  /\ backlog' = Tail(backlog)
  /\ conn' = [conn EXCEPT ![Head(backlog)] = "accepted"]
  /\ late' = IF StopSet THEN late \cup {Head(backlog)} ELSE late
  /\ UNCHANGED <<server, starts, clientVars, reply, ran>>

(* _handle_client                                                          *)
CheckStop(r) ==
  /\ conn[r] = "accepted"
  /\ conn' = [conn EXCEPT ![r] = IF StopSet THEN "closed" ELSE "recv"]
  /\ UNCHANGED <<serverVars, clientVars, backlog, reply, ran, late>>

(* A request that was sent is read, whether or not its client still waits. *)
Recv(r) ==
  /\ conn[r] = "recv"
  /\ \/ r \in sent /\ conn' = [conn EXCEPT ![r] = "handling"]
     \/ r \notin sent /\ call[r] \in Results /\ conn' = [conn EXCEPT ![r] = "closed"]
  /\ UNCHANGED <<serverVars, clientVars, backlog, reply, ran, late>>

RecvTimeout(r) ==
  /\ conn[r] = "recv" /\ r \notin sent
  /\ conn' = [conn EXCEPT ![r] = "closed"]
  /\ UNCHANGED <<serverVars, clientVars, backlog, reply, ran, late>>

(* What decode_request() raises becomes an answer, without the handler     *)
(* (ipc.py:203-208), ...                                                   *)
Refuse(r) ==
  /\ conn[r] = "handling"
  /\ conn' = [conn EXCEPT ![r] = "refused"]
  /\ UNCHANGED <<serverVars, clientVars, backlog, reply, ran, late>>

(* ... and so does what the handler returns or raises.                     *)
Run(r) ==
  /\ conn[r] = "handling"
  /\ \E answer \in Handled : conn' = [conn EXCEPT ![r] = answer]
  /\ ran' = [ran EXCEPT ![r] = @ + 1]
  /\ UNCHANGED <<serverVars, clientVars, backlog, reply, late>>
(* Faulty variant: the line stays in the buffer and the loop goes on.      *)
ReplyAndGoOn(r) ==
  /\ conn[r] \in Answers
  /\ conn' = [conn EXCEPT ![r] = "accepted"]
  /\ reply' = IF call[r] = "waiting" THEN [reply EXCEPT ![r] = conn[r]] ELSE reply
  /\ ran[r] < 2
  /\ UNCHANGED <<serverVars, clientVars, backlog, ran, late>>

(* sendall(), which fails when the client has gone, and close().           *)
Reply(r) ==
  /\ conn[r] \in Answers
  /\ conn' = [conn EXCEPT ![r] = "closed"]
  /\ reply' = IF call[r] = "waiting" THEN [reply EXCEPT ![r] = conn[r]] ELSE reply
  /\ UNCHANGED <<serverVars, clientVars, backlog, ran, late>>

Thread(r) == CheckStop(r) \/ Recv(r) \/ RecvTimeout(r) \/ Refuse(r) \/ Run(r) \/ Reply(r)

-----------------------------------------------------------------------------
(* stop(): the event, the join of the listener, and the end of the socket, *)
(* which resets the connections nobody accepted.                           *)
BeginStop ==
  /\ server = "up"
  /\ server' = "stopping"
  /\ UNCHANGED <<listener, starts, clientVars, backlog, conn, reply, ran, late>>

Close ==
  /\ server = "stopping"
  /\ server' = "closed" /\ listener' = "done"
  /\ backlog' = <<>>
  /\ conn' = ConnSet(ToSet(backlog), "closed")
  /\ UNCHANGED <<starts, clientVars, reply, ran, late>>

(* The process ends, by itself or with kill -9.  The threads of the        *)
(* connections are daemon threads: it does not wait for them.              *)
Die ==
  /\ server # "gone"
  /\ server' = "gone" /\ listener' = "done"
  /\ backlog' = <<>>
  /\ conn' = ConnSet({r \in Calls : conn[r] # "none"}, "closed")
  /\ UNCHANGED <<starts, clientVars, reply, ran, late>>

(* The next process; start() unlinks a stale socket file first.            *)
Restart ==
  /\ server = "gone" /\ starts < MaxStarts
  /\ server' = "up" /\ listener' = "check" /\ starts' = starts + 1
  /\ UNCHANGED <<clientVars, backlog, conn, reply, ran, late>>

Listener == ListenerChecks \/ ListenerWaits \/ Accept

Next ==
  \/ \E r \in Calls : Client(r) \/ Thread(r)
  \/ Listener \/ BeginStop \/ Close \/ Die \/ Restart

Spec == Init /\ [][Next]_vars

(* The timeout of a client ends.  The server owes nothing: it may be dead, *)
(* and a handler may wait for the daemon's lock as long as it likes.       *)
FairSpec ==
  /\ Spec
  /\ \A r \in Calls : WF_vars(Receive(r) \/ Hangup(r) \/ Timeout(r))

-----------------------------------------------------------------------------
ConnStates == {"none", "queued", "accepted", "recv", "handling", "closed"} \cup Answers

TypeOK ==
  /\ server \in {"up", "stopping", "closed", "gone"}
  /\ listener \in {"check", "accept", "done"}
  /\ backlog \in Seq(Calls) /\ Len(backlog) <= Backlog
  /\ \A r \in Calls : conn[r] = "queued" <=> r \in ToSet(backlog)
  /\ conn \in [Calls -> ConnStates]
  /\ call \in [Calls -> {"none", "connected", "waiting"} \cup Results]
  /\ sent \subseteq Calls /\ late \subseteq Calls
  /\ reply \in [Calls -> {"none"} \cup Answers]
  /\ ran \in [Calls -> Nat]
  /\ starts \in 1..MaxStarts

(* A call runs its command at most once; an answer of the handler, and     *)
(* with it the exit code 0, means exactly once; a refused request and an   *)
(* unreachable daemon mean never.  Every other error leaves it open        *)
(* (ipc.py:298-306): it may have run.                                      *)
AnswerTellsWhatRan ==
  \A r \in Calls :
    /\ ran[r] <= 1
    /\ call[r] \in Handled \/ ExitCode(r) = 0 => ran[r] = 1
    /\ call[r] \in {"refused", "unreachable"} => ran[r] = 0

(* A connection accepted after stop() began is closed unread               *)
(* (ipc.py:191), even if its request is there already.                     *)
LateConnectionsRunNothing == \A r \in late : ran[r] = 0

(* A command that runs after its call returned belongs to a call that      *)
(* timed out or was interrupted (ipc.py:299): only then can a repeated     *)
(* command overtake the one it repeats.                                    *)
LateOnlyAfterGivingUp ==
  [][\A r \in Calls : ran'[r] # ran[r] => call[r] \in {"waiting", "gaveUp"}]_vars

(* A call that has sent its request returns, whatever becomes of the       *)
(* server (ipc.py:264).                                                    *)
CallReturns == \A r \in Calls : call[r] = "waiting" ~> call[r] \in Results

=============================================================================
