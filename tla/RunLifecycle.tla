---------------------------- MODULE RunLifecycle ----------------------------
(***************************************************************************)
(* What the run manager (internal/pipeline/run.go) promises about a run,   *)
(* without its tables, goroutines and snapshots: a run is submitted with a *)
(* fixed set of nodes, its work begins once they are all there, every node *)
(* ends once, and the verdict is that of all the ends. A client may cancel *)
(* at any time, and a later Begin or Conclude writes over that.            *)
(***************************************************************************)
CONSTANTS Run, NodeID

VARIABLES
    status,     \* status[r]: what GetRun tells of r
    begun,      \* begun[r]: all nodes of r are known
    result      \* result[r][x]: "none" (no such node), "open", or how x ended

lvars == <<status, begun, result>>

Init ==
    /\ status = [r \in Run |-> "absent"]
    /\ begun = [r \in Run |-> FALSE]
    /\ result = [r \in Run |-> [x \in NodeID |-> "none"]]

Verdict(ends) ==
    IF \E x \in NodeID : ends[x] = "failed" THEN "failed" ELSE "success"

Submit(r) ==
    /\ status[r] = "absent"
    /\ status' = [status EXCEPT ![r] = "pending"]
    /\ UNCHANGED <<begun, result>>

Add(r, x) ==
    /\ status[r] # "absent" /\ ~begun[r] /\ result[r][x] = "none"
    /\ result' = [result EXCEPT ![r][x] = "open"]
    /\ UNCHANGED <<status, begun>>

Begin(r) ==
    /\ status[r] # "absent" /\ ~begun[r]
    /\ begun' = [begun EXCEPT ![r] = TRUE]
    /\ status' = [status EXCEPT ![r] = "running"]
    /\ UNCHANGED result

Finish(r, x, end) ==
    /\ begun[r] /\ result[r][x] = "open"
    /\ result' = [result EXCEPT ![r][x] = end]
    /\ UNCHANGED <<status, begun>>

Conclude(r) ==
    /\ begun[r]
    /\ \A x \in NodeID : result[r][x] # "open"
    /\ status' = [status EXCEPT ![r] = Verdict(result[r])]
    /\ UNCHANGED <<begun, result>>

Cancel(r) ==
    /\ status[r] # "absent"
    /\ status' = [status EXCEPT ![r] = "cancelled"]
    /\ UNCHANGED <<begun, result>>

Next ==
    \E r \in Run :
      \/ Submit(r) \/ Begin(r) \/ Conclude(r) \/ Cancel(r)
      \/ \E x \in NodeID : Add(r, x)
      \/ \E x \in NodeID, end \in {"success", "failed", "skipped"} : Finish(r, x, end)

Spec == Init /\ [][Next]_lvars
=============================================================================
