---------------------------- MODULE ClientSlots ----------------------------
(***************************************************************************)
(* ClientStore with a history variable that remembers what each running    *)
(* command could have seen, and the proof obligation it is for: the file   *)
(* operations of concurrent and killed processes implement LicenceSlot.    *)
(***************************************************************************)
EXTENDS ClientStore

VARIABLE seen   \* [Procs -> statuses its product's licence had during the run]

slotVars == <<vars, seen>>

Status(p) ==
    CASE file[LicFile(p)] = Absent -> "absent"
      [] Verifiable(p)             -> "usable"
      [] OTHER                     -> "unusable"

OwnStatus(i) == Status(proc[i].cmd.product)

\* Each step of any process adds the status it leaves to every run it falls in.
Observe ==
    seen' = [i \in Procs |->
        IF Busy(i)' THEN seen[i] \cup {OwnStatus(i)'} ELSE {}]

SlotInit == Init /\ seen = [i \in Procs |-> {}]
SlotNext == Next /\ Observe
SlotSpec == SlotInit /\ [][SlotNext]_slotVars /\ \A i \in Procs : WF_vars(Step(i))

Slot == INSTANCE LicenceSlot WITH
    slot <- [p \in Products |-> Status(p)],
    run  <- [i \in Procs |->
        IF Busy(i)
        THEN [running |-> TRUE, op |-> proc[i].cmd.op, product |-> proc[i].cmd.product,
              seen |-> seen[i], contested |-> Rival(i, "deactivate")]
        ELSE [running |-> FALSE, answer |-> proc[i].result]]

\* Every answer of verify_at_startup, activate and deactivate is true of some
\* moment while the command ran, although each reads and writes the files in
\* several steps (license_client.cpp:84-106, 184-276); only a running activate
\* makes a licence usable and only a running deactivate removes it.
ImplementsSlot == Slot!Spec
=============================================================================
