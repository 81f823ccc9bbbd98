---------------------------- MODULE LicenceSlot ----------------------------
(***************************************************************************)
(* What the licence store promises to processes that use it at once, with  *)
(* no files, streams or secrets: each product has a slot, and a command    *)
(* answers by what the slot was at some moment between the command's start *)
(* and its end (a regular register, not an atomic one).                    *)
(***************************************************************************)
CONSTANTS Procs, Products

VARIABLES
    slot,   \* [Products -> Statuses]
    run     \* [Procs -> the command that runs, with what it saw, or its answer]

vars == <<slot, run>>

Statuses == {"absent", "unusable", "usable"}
Ops == {"activate", "verify", "deactivate", "generate-request"}

Running(op, p, seen, contested) ==
    [running |-> TRUE, op |-> op, product |-> p, seen |-> seen, contested |-> contested]
Ended(answer) == [running |-> FALSE, answer |-> answer]

On(p) == {i \in Procs : run[i].running /\ run[i].product = p}

\* What a command may make of its slot, on the way and in the end.
Makes(op) ==
    CASE op = "activate"   -> {"unusable", "usable"}
      [] op = "deactivate" -> {"unusable", "absent"}
      [] OTHER             -> {}

\* Answers that are true of some moment of the run.
Justified(op, seen, contested, answer) ==
    CASE op = "verify" ->
           \/ answer = "valid" /\ "usable" \in seen
           \/ answer = "no license" /\ "absent" \in seen
           \/ answer = "failed" /\ seen \cap {"absent", "unusable"} # {}
      [] op = "activate" -> answer = "ok" /\ ("usable" \in seen \/ contested)
      [] op = "deactivate" -> answer \in {"ok", "failed"} /\ "absent" \in seen
      [] op = "generate-request" -> answer \in {"ok", "failed"}

-----------------------------------------------------------------------------
Begin(i, op, p) ==
    /\ ~run[i].running
    /\ run' = [j \in Procs |->
          IF j = i
          THEN Running(op, p, {slot[p]}, \E k \in On(p) : run[k].op = "deactivate")
          ELSE IF j \in On(p) /\ op = "deactivate" THEN Running(run[j].op, p, run[j].seen, TRUE)
          ELSE run[j]]
    /\ UNCHANGED slot

\* Everyone at work on the product sees its new status.
Witnessed(p, status) ==
    [j \in Procs |->
        IF j \in On(p)
        THEN Running(run[j].op, p, run[j].seen \cup {status}, run[j].contested)
        ELSE run[j]]

May(i, status) ==
    /\ run[i].running
    /\ status \in {slot[run[i].product]} \cup Makes(run[i].op)

Work(i, status) ==
    /\ May(i, status)
    /\ slot' = [slot EXCEPT ![run[i].product] = status]
    /\ run' = Witnessed(run[i].product, status)

End(i, status, answer) ==
    /\ May(i, status)
    /\ Justified(run[i].op, run[i].seen \cup {status}, run[i].contested, answer)
    /\ slot' = [slot EXCEPT ![run[i].product] = status]
    /\ run' = [Witnessed(run[i].product, status) EXCEPT ![i] = Ended(answer)]

Die(i) ==
    /\ run[i].running
    /\ run' = [run EXCEPT ![i] = Ended("crashed")]
    /\ UNCHANGED slot

Answers == {"ok", "valid", "no license", "failed"}

Init ==
    /\ slot = [p \in Products |-> "absent"]
    /\ run = [i \in Procs |-> Ended("none")]

Next ==
    \E i \in Procs :
        \/ \E op \in Ops, p \in Products : Begin(i, op, p)
        \/ \E status \in Statuses : Work(i, status) \/ \E answer \in Answers : End(i, status, answer)
        \/ Die(i)

Spec == Init /\ [][Next]_vars
=============================================================================
