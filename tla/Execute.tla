------------------------------ MODULE Execute ------------------------------
(***************************************************************************)
(* What a caller of Tasks.Execute (internal/tasks/tasks.go) may rely on,   *)
(* without worker slots, progress bars or the monitor: the tasks of one    *)
(* playbook step are started in list order, at most limit of them run at a *)
(* time, every one of them is run whether or not another one failed, and   *)
(* the call returns after the last one ended, with an error exactly when   *)
(* some task ended with one.  Tasks implements this specification, and     *)
(* Playbook is built on top of it.                                         *)
(***************************************************************************)
EXTENDS Naturals, FiniteSets

VARIABLES
  n,       \* number of tasks of the batch
  limit,   \* how many of them may run at a time
  status,  \* status[t]: "todo", "running", "ok" or "failed"
  ret      \* "none" until Execute returns, then "ok" or "error"

vars == <<n, limit, status, ret>>

Ended == {"ok", "failed"}
Running == {t \in DOMAIN status : status[t] = "running"}
Failed == {t \in DOMAIN status : status[t] = "failed"}

Init ==
  /\ n \in Nat
  /\ limit \in Nat \ {0}
  /\ status = [t \in 1..n |-> "todo"]
  /\ ret = "none"

StartTask(t) ==
  /\ ret = "none"
  /\ status[t] = "todo"
  /\ \A u \in 1..n : u < t => status[u] # "todo"
  /\ Cardinality(Running) < limit
  /\ status' = [status EXCEPT ![t] = "running"]
  /\ UNCHANGED <<n, limit, ret>>

EndTask(t) ==
  /\ status[t] = "running"
  /\ \E s \in Ended : status' = [status EXCEPT ![t] = s]
  /\ UNCHANGED <<n, limit, ret>>

Return ==
  /\ ret = "none"
  /\ \A t \in 1..n : status[t] \in Ended
  /\ ret' = IF \E t \in 1..n : status[t] = "failed" THEN "error" ELSE "ok"
  /\ UNCHANGED <<n, limit, status>>

Next == Return \/ \E t \in 1..n : StartTask(t) \/ EndTask(t)

Spec == Init /\ [][Next]_vars

=============================================================================
