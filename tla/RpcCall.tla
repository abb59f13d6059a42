------------------------------ MODULE RpcCall ------------------------------
(***************************************************************************)
(* What rpc.GetRpcResponse promises its callers: a request is executed by  *)
(* the mds at most a bounded number of times, a success is reported only   *)
(* for a request that was executed, and every call returns.                *)
(***************************************************************************)
EXTENDS Naturals

CONSTANTS Goroutine,    \* the goroutines of one dingocli process that call
          MaxExecutions \* how often one call may reach the mds

VARIABLES state,        \* state[g] \in {"open", "ok", "status", "failed"}
          executions    \* executions[g]: how often the mds executed the request

vars == <<state, executions>>

Init == /\ state = [g \in Goroutine |-> "open"]
        /\ executions = [g \in Goroutine |-> 0]

Execute(g) == /\ executions[g] < MaxExecutions
              /\ executions' = [executions EXCEPT ![g] = @ + 1]
              /\ UNCHANGED state

\* "ok" is the answer to an executed request, "status" an answer with an error,
\* "failed" no answer at all.
Return(g, s) == /\ state[g] = "open"
                /\ s = "ok" => executions[g] > 0
                /\ state' = [state EXCEPT ![g] = s]
                /\ UNCHANGED executions

ExecuteAndReturn(g) == /\ state[g] = "open" /\ executions[g] < MaxExecutions
                       /\ executions' = [executions EXCEPT ![g] = @ + 1]
                       /\ \E s \in {"ok", "status"}: state' = [state EXCEPT ![g] = s]

Answered(g) == \E s \in {"ok", "status", "failed"}: Return(g, s)

Next == \E g \in Goroutine: Execute(g) \/ Answered(g) \/ ExecuteAndReturn(g)

\* What may happen, without what must.
Safety == Init /\ [][Next]_vars

Spec == Safety /\ \A g \in Goroutine: WF_vars(Answered(g))
=============================================================================
