----------------------------- MODULE AtomicApply -----------------------------
(***************************************************************************)
(* What README.md promises of one startup transaction, without saying how: *)
(* a set of planned values takes effect all at once, or nothing changes    *)
(* except the paths the error names.  PolicyTransaction implements it.     *)
(***************************************************************************)
EXTENDS Sequences

CONSTANTS
  Path,       \* files the transaction may write
  Value,      \* what a file can hold
  Device,     \* the path of the PM QoS latency request
  NoRequest   \* the value of Device while nobody holds it open

VARIABLES
  outcome,    \* "none", "pending", "applied" or "failed"
  wanted,     \* the <<path, value>> pairs the transaction was asked to write
  image,      \* value of every path, as a reader outside the daemon sees it
  reported    \* paths the error names as not restored

vars == <<outcome, wanted, image, reported>>

Init ==
  /\ outcome = "none"
  /\ wanted = {}
  /\ image \in [Path -> Value]
  /\ reported = {}

(* The rest of the system may write the files between two transactions.    *)
Outside ==
  /\ outcome = "none"
  /\ image' \in [Path -> Value]
  /\ UNCHANGED <<outcome, wanted, reported>>

Start ==
  /\ outcome = "none"
  /\ outcome' = "pending"
  /\ wanted' \in SUBSET (Path \X Value)
  /\ reported' = {}
  /\ UNCHANGED image

(* Every wanted value is in place and nothing else moved.  A latency       *)
(* request that was already held may keep its old value.                   *)
Commit ==
  /\ outcome = "pending"
  /\ outcome' = "applied"
  /\ image' \in [Path -> Value]
  /\ \A p \in Path :
        \/ <<p, image'[p]>> \in wanted
        \/ image'[p] = image[p] /\ \A v \in Value : <<p, v>> \notin wanted
        \/ p = Device /\ image[p] # NoRequest
  /\ UNCHANGED <<wanted, reported>>

(* Only what is reported may differ; an aborted transaction never leaves a *)
(* latency request behind.                                                 *)
Abort ==
  /\ outcome = "pending"
  /\ outcome' = "failed"
  /\ reported' \in SUBSET Path
  /\ image' \in [Path -> Value]
  /\ \A p \in Path \ reported' :
        \/ image'[p] = image[p]
        \/ p = Device /\ image'[p] = NoRequest
  /\ UNCHANGED wanted

Settle ==
  /\ outcome \in {"applied", "failed"}
  /\ outcome' = "none"
  /\ wanted' = {}
  /\ reported' = {}
  /\ UNCHANGED image

Next == Outside \/ Start \/ Commit \/ Abort \/ Settle

Spec == Init /\ [][Next]_vars
=============================================================================
