------------------------- MODULE ClientSlots_proofs -------------------------
(***************************************************************************)
(* ClientSlots implements LicenceSlot, for every number of processes,      *)
(* products, tokens, commands and kills.                                   *)
(***************************************************************************)
EXTENDS ClientSlots, ClientStore_proofs

-----------------------------------------------------------------------------
(* The history variable: what a running command could have seen so far,    *)
(* and what the blob that it has read says of it.                          *)

SlotStatuses == {"absent", "unusable", "usable"}
Opens(p, blob) == Unseals(OldSecret, <<"license", p>>, blob)

\* The status of a product in the files f, under the secret that stays.
StatusIn(f, p) ==
    IF f[LicFile(p)] = Absent THEN "absent"
    ELSE IF Opens(p, f[LicFile(p)]) THEN "usable" ELSE "unusable"

SawItsStatus ==
    /\ seen \in [Procs -> SUBSET SlotStatuses]
    /\ \A i \in Procs : IF Busy(i) THEN StatusIn(file, proc[i].cmd.product) \in seen[i]
                                   ELSE seen[i] = {}

SawItsBlob ==
    \A i \in Procs : Busy(i) /\ proc[i].cmd.op = "verify" /\ proc[i].blob # Absent =>
        IF Opens(proc[i].cmd.product, proc[i].blob) THEN "usable" \in seen[i]
                                                    ELSE "unusable" \in seen[i]

SlotInv == SawItsStatus /\ SawItsBlob

-----------------------------------------------------------------------------
(* Statuses are those of the files.                                        *)

LEMMA SecretReadable ==
    ASSUME OldSecret # Absent
    PROVE  /\ SecretInv => Readable(file[SecretFile]) /\ file[SecretFile].of[2] = OldSecret
           /\ SecretInv' => Readable(file'[SecretFile]) /\ file'[SecretFile].of[2] = OldSecret
<1>1. Secret(OldSecret) # Absent
  BY ContentsFacts, AbsentAssumption DEF Secrets
<1> QED
  BY <1>1 DEF SecretInv, Readable, Secret, Contents

LEMMA StatusFacts ==
    ASSUME OldSecret # Absent
    PROVE  /\ SecretInv  => \A p : Status(p) = StatusIn(file, p)
           /\ SecretInv' => \A p : Status(p)' = StatusIn(file', p)
BY SecretReadable DEF Status, StatusIn, Verifiable, Opens

LEMMA StatusValues == \A f, p : StatusIn(f, p) \in SlotStatuses
BY DEF StatusIn, SlotStatuses

\* Whatever happens, everyone at work sees it.
LEMMA Observed ==
    ASSUME OldSecret # Absent, SecretInv', SawItsStatus, Observe
    PROVE  /\ SawItsStatus'
           /\ \A j \in Procs :
                 seen'[j] = IF Busy(j)' THEN seen[j] \cup {StatusIn(file', proc'[j].cmd.product)}
                            ELSE {}
<1>1. \A j \in Procs :
         seen'[j] = IF Busy(j)' THEN seen[j] \cup {OwnStatus(j)'} ELSE {}
  BY DEF Observe
<1>2. \A j \in Procs : OwnStatus(j)' = StatusIn(file', proc'[j].cmd.product)
  BY SecretReadable DEF OwnStatus, Status, StatusIn, Verifiable, Opens
<1>3. seen' \in [Procs -> SUBSET SlotStatuses]
  BY <1>1, <1>2, StatusValues DEF SawItsStatus, Observe
<1> QED
  BY <1>1, <1>2, <1>3 DEF SawItsStatus

-----------------------------------------------------------------------------
(* Steps that a command goes on with, and steps that end it.               *)

\* What LicenceSlot knows of a process is as it was.
Unmoved(j) ==
    /\ proc'[j].pc = proc[j].pc /\ proc'[j].cmd = proc[j].cmd
    /\ proc'[j].rivals = proc[j].rivals /\ proc'[j].blob = proc[j].blob
    /\ proc'[j].result = proc[j].result

GoesOn(i) ==
    /\ Busy(i) /\ proc'[i].pc # "idle"
    /\ proc'[i].cmd = proc[i].cmd /\ proc'[i].rivals = proc[i].rivals
    /\ proc'[i].blob \in {proc[i].blob, file[Sought(proc[i].cmd)]}
    /\ \A j \in Procs : j # i => Unmoved(j)

Ends(i, answer) ==
    /\ Busy(i) /\ proc'[i].pc = "idle" /\ proc'[i].result = answer
    /\ \A j \in Procs : j # i => Unmoved(j)

\* No licence changes but that of the command, and as its operation may.
ChangesOwn(i) ==
    LET own == proc[i].cmd.product
    IN  /\ \A p \in Products \ {own} : StatusIn(file', p) = StatusIn(file, p)
        /\ StatusIn(file', own) \in {StatusIn(file, own)} \cup Slot!Makes(proc[i].cmd.op)

AllHaveProducts == \A j \in Procs : Busy(j) => proc[j].cmd.product \in Products

LEMMA ProductsKnown == StoreInv => AllHaveProducts
BY CommandFacts DEF AllHaveProducts, StoreInv, AllPlaced, WellPlaced, Busy

\* The mapped slots after a step.
LEMMA SlotsAfter ==
    ASSUME OldSecret # Absent, SecretInv, SecretInv', NEW i \in Procs, ChangesOwn(i)
    PROVE  LET own == proc[i].cmd.product
           IN  [p \in Products |-> Status(p)]'
                 = [[p \in Products |-> Status(p)] EXCEPT ![own] = StatusIn(file', own)]
<1>1. /\ \A p : Status(p) = StatusIn(file, p)
      /\ \A p : Status(p)' = StatusIn(file', p)
  BY StatusFacts
<1> QED
  BY <1>1 DEF ChangesOwn


\* The run of process j as LicenceSlot sees it.
RunOf(j) ==
    IF Busy(j)
    THEN Slot!Running(proc[j].cmd.op, proc[j].cmd.product, seen[j], Rival(j, "deactivate"))
    ELSE Slot!Ended(proc[j].result)

\* The runs of those that go on, or that the step leaves alone.
LEMMA RunsAfter ==
    ASSUME OldSecret # Absent, SecretInv', SawItsStatus, Observe, AllHaveProducts,
           NEW i \in Procs, Busy(i), ChangesOwn(i), NEW j \in Procs, Busy(j),
           proc'[j].pc # "idle", proc'[j].cmd = proc[j].cmd, proc'[j].rivals = proc[j].rivals
    PROVE  LET own == proc[i].cmd.product
               p == proc[j].cmd.product
           IN  RunOf(j)' = IF p = own
                           THEN Slot!Running(proc[j].cmd.op, own, seen[j] \cup {StatusIn(file', own)},
                                             Rival(j, "deactivate"))
                           ELSE RunOf(j)
<1> DEFINE own == proc[i].cmd.product
           p == proc[j].cmd.product
<1>1. Busy(j)' /\ Rival(j, "deactivate")' = Rival(j, "deactivate")
  BY DEF Busy, Rival
<1>2. seen'[j] = seen[j] \cup {StatusIn(file', p)}
  BY <1>1, Observed
<1>3. p # own => seen'[j] = seen[j]
  BY <1>2 DEF ChangesOwn, AllHaveProducts, SawItsStatus
<1>4. RunOf(j) = Slot!Running(proc[j].cmd.op, p, seen[j], Rival(j, "deactivate"))
  BY DEF RunOf
<1>5. RunOf(j)' = Slot!Running(proc[j].cmd.op, p, seen'[j], Rival(j, "deactivate"))
  BY <1>1 DEF RunOf
<1> QED
  BY <1>2, <1>3, <1>4, <1>5

\* Those that do not run have their answers still.
LEMMA AnswersStay ==
    ASSUME NEW j \in Procs, ~Busy(j), Unmoved(j)
    PROVE  RunOf(j)' = RunOf(j)
BY DEF RunOf, Busy, Unmoved

\* What LicenceSlot says of the runs, spelled out for the mapped state.
LEMMA SlotRuns ==
    ASSUME AllHaveProducts
    PROVE  /\ \A p : Slot!On(p) = {j \in Procs : Busy(j) /\ proc[j].cmd.product = p}
           /\ \A i \in Procs : Busy(i) =>
                 \A status : Slot!May(i, status) <=>
                     status \in {Status(proc[i].cmd.product)} \cup Slot!Makes(proc[i].cmd.op)
<1>1. ASSUME NEW p
      PROVE  Slot!On(p) = {j \in Procs : Busy(j) /\ proc[j].cmd.product = p}
  BY DEF Slot!On
<1>2. ASSUME NEW i \in Procs, NEW status, Busy(i)
      PROVE  Slot!May(i, status) <=>
                 status \in {Status(proc[i].cmd.product)} \cup Slot!Makes(proc[i].cmd.op)
  <2>1. proc[i].cmd.product \in Products
    BY <1>2 DEF AllHaveProducts
  <2> QED
    BY <1>2, <2>1 DEF Slot!May
<1> QED
  BY <1>1, <1>2

\* The mapped runs, and what becomes of them when everyone sees a new status.
LEMMA RunsMapped ==
    /\ \A j \in Procs : Busy(j) =>
          RunOf(j) = [running |-> TRUE, op |-> proc[j].cmd.op, product |-> proc[j].cmd.product,
                      seen |-> seen[j], contested |-> Rival(j, "deactivate")]
    /\ \A j \in Procs : ~Busy(j) => RunOf(j) = [running |-> FALSE, answer |-> proc[j].result]
BY DEF RunOf, Slot!Running, Slot!Ended

AllSee(own, status) ==
    [j \in Procs |->
        IF Busy(j) /\ proc[j].cmd.product = own
        THEN Slot!Running(proc[j].cmd.op, own, seen[j] \cup {status}, Rival(j, "deactivate"))
        ELSE RunOf(j)]

LEMMA WitnessedRuns ==
    ASSUME AllHaveProducts, NEW own \in Products, NEW status
    PROVE  Slot!Witnessed(own, status) = AllSee(own, status)
<1> DEFINE M == [j \in Procs |->
        IF Busy(j)
        THEN [running |-> TRUE, op |-> proc[j].cmd.op, product |-> proc[j].cmd.product,
              seen |-> seen[j], contested |-> Rival(j, "deactivate")]
        ELSE [running |-> FALSE, answer |-> proc[j].result]]
<1>1. /\ \A j \in Procs : M[j] = RunOf(j)
      /\ \A j \in Procs : Busy(j) => /\ M[j].op = proc[j].cmd.op /\ M[j].seen = seen[j]
                                     /\ M[j].contested = Rival(j, "deactivate")
  BY RunsMapped
<1>2. Slot!Witnessed(own, status) = [j \in Procs |->
          IF j \in Slot!On(own)
          THEN Slot!Running(M[j].op, own, M[j].seen \cup {status}, M[j].contested)
          ELSE M[j]]
  BY DEF Slot!Witnessed
<1> HIDE DEF M
<1>3. ASSUME NEW j \in Procs
      PROVE  (IF j \in Slot!On(own)
              THEN Slot!Running(M[j].op, own, M[j].seen \cup {status}, M[j].contested)
              ELSE M[j])
             = (IF Busy(j) /\ proc[j].cmd.product = own
                THEN Slot!Running(proc[j].cmd.op, own, seen[j] \cup {status}, Rival(j, "deactivate"))
                ELSE RunOf(j))
  <2>1. j \in Slot!On(own) <=> Busy(j) /\ proc[j].cmd.product = own
    BY SlotRuns
  <2>2. CASE j \in Slot!On(own)
    <3>1. /\ M[j].op = proc[j].cmd.op /\ M[j].seen = seen[j]
          /\ M[j].contested = Rival(j, "deactivate")
      BY <1>1, <2>1, <2>2
    <3> QED
      BY <2>1, <2>2, <3>1, Zenon
  <2>3. CASE j \notin Slot!On(own)
    BY <1>1, <2>1, <2>3, Zenon
  <2> QED
    BY <2>2, <2>3
<1> DEFINE left(j) == IF j \in Slot!On(own)
                      THEN Slot!Running(M[j].op, own, M[j].seen \cup {status}, M[j].contested)
                      ELSE M[j]
           right(j) == IF Busy(j) /\ proc[j].cmd.product = own
                       THEN Slot!Running(proc[j].cmd.op, own, seen[j] \cup {status},
                                         Rival(j, "deactivate"))
                       ELSE RunOf(j)
<1>4. \A j \in Procs : left(j) = right(j)
  BY <1>3
<1>5. Slot!Witnessed(own, status) = [j \in Procs |-> left(j)]
  BY <1>2
<1>6. AllSee(own, status) = [j \in Procs |-> right(j)]
  BY DEF AllSee
<1> HIDE DEF left, right
<1> QED
  BY <1>4, <1>5, <1>6

\* The mapped runs, before and after a step.
LEMMA RunsTogether ==
    LET mapped == [j \in Procs |->
            IF Busy(j)
            THEN [running |-> TRUE, op |-> proc[j].cmd.op, product |-> proc[j].cmd.product,
                  seen |-> seen[j], contested |-> Rival(j, "deactivate")]
            ELSE [running |-> FALSE, answer |-> proc[j].result]]
    IN  /\ mapped = [j \in Procs |-> RunOf(j)]
        /\ mapped' = [j \in Procs |-> RunOf(j)']
        /\ \A j \in Procs : Busy(j) =>
              /\ mapped[j].running /\ mapped[j].op = proc[j].cmd.op
              /\ mapped[j].product = proc[j].cmd.product
              /\ mapped[j].seen = seen[j] /\ mapped[j].contested = Rival(j, "deactivate")
BY DEF RunOf, Slot!Running, Slot!Ended

\* Who goes on, or is left alone, sees what i makes of its licence.
LEMMA RunsWitness ==
    ASSUME OldSecret # Absent, SecretInv', SawItsStatus, Observe, AllHaveProducts,
           NEW i \in Procs, Busy(i), ChangesOwn(i), NEW j \in Procs,
           Busy(j) => /\ proc'[j].pc # "idle" /\ proc'[j].cmd = proc[j].cmd
                      /\ proc'[j].rivals = proc[j].rivals,
           ~Busy(j) => Unmoved(j)
    PROVE  LET own == proc[i].cmd.product
           IN  RunOf(j)' = IF Busy(j) /\ proc[j].cmd.product = own
                           THEN Slot!Running(proc[j].cmd.op, own,
                                    seen[j] \cup {StatusIn(file', own)}, Rival(j, "deactivate"))
                           ELSE RunOf(j)
<1>1. CASE Busy(j)
  BY <1>1, RunsAfter
<1>2. CASE ~Busy(j)
  BY <1>2, AnswersStay
<1> QED
  BY <1>1, <1>2

\* A step that a command goes on with is a step of LicenceSlot.
LEMMA WorkMaps ==
    ASSUME OldSecret # Absent, SecretInv, SecretInv', SawItsStatus, Observe, AllHaveProducts,
           NEW i \in Procs, GoesOn(i), ChangesOwn(i),
           NEW own, own = proc[i].cmd.product, NEW status, status = StatusIn(file', own)
    PROVE  Slot!Work(i, status)
<1> DEFINE slots == [p \in Products |-> Status(p)]
           mapped == [j \in Procs |->
               IF Busy(j)
               THEN [running |-> TRUE, op |-> proc[j].cmd.op, product |-> proc[j].cmd.product,
                     seen |-> seen[j], contested |-> Rival(j, "deactivate")]
               ELSE [running |-> FALSE, answer |-> proc[j].result]]
<1>1. Busy(i) /\ own \in Products
  BY DEF GoesOn, AllHaveProducts
<1>2. Slot!May(i, status)
  BY <1>1, SlotRuns, StatusFacts DEF ChangesOwn
<1>3. ASSUME NEW j \in Procs
      PROVE  RunOf(j)' = IF Busy(j) /\ proc[j].cmd.product = own
                         THEN Slot!Running(proc[j].cmd.op, own, seen[j] \cup {status},
                                           Rival(j, "deactivate"))
                         ELSE RunOf(j)
  <2>1. /\ Busy(j) => /\ proc'[j].pc # "idle" /\ proc'[j].cmd = proc[j].cmd
                      /\ proc'[j].rivals = proc[j].rivals
        /\ ~Busy(j) => Unmoved(j)
    BY <1>1 DEF GoesOn, Unmoved, Busy
  <2> QED
    BY <1>1, <2>1, RunsWitness
<1>4. slots' = [slots EXCEPT ![own] = status]
  BY SlotsAfter
<1>5. mapped[i].product = own /\ mapped' = [j \in Procs |-> RunOf(j)']
  BY <1>1, RunsTogether
<1>6. Slot!May(i, status) /\ slots' = [slots EXCEPT ![mapped[i].product] = status]
      /\ mapped' = Slot!Witnessed(mapped[i].product, status) => Slot!Work(i, status)
  BY DEF Slot!Work
<1> HIDE DEF mapped, slots
<1>7. Slot!Witnessed(own, status) = AllSee(own, status)
  BY <1>1, WitnessedRuns
<1>8. mapped' = Slot!Witnessed(own, status)
  BY <1>3, <1>5, <1>7 DEF AllSee
<1> QED
  BY <1>2, <1>4, <1>5, <1>6, <1>8

\* A step that ends a command with a justified answer is a step of LicenceSlot.
LEMMA EndMaps ==
    ASSUME OldSecret # Absent, SecretInv, SecretInv', SawItsStatus, Observe, AllHaveProducts,
           NEW i \in Procs, NEW answer, Ends(i, answer), ChangesOwn(i),
           NEW own, own = proc[i].cmd.product, NEW status, status = StatusIn(file', own),
           Slot!Justified(proc[i].cmd.op, seen[i] \cup {status}, Rival(i, "deactivate"), answer)
    PROVE  Slot!End(i, status, answer)
<1> DEFINE slots == [p \in Products |-> Status(p)]
           mapped == [j \in Procs |->
               IF Busy(j)
               THEN [running |-> TRUE, op |-> proc[j].cmd.op, product |-> proc[j].cmd.product,
                     seen |-> seen[j], contested |-> Rival(j, "deactivate")]
               ELSE [running |-> FALSE, answer |-> proc[j].result]]
<1>1. Busy(i) /\ own \in Products
  BY DEF Ends, AllHaveProducts
<1>2. Slot!May(i, status)
  BY <1>1, SlotRuns, StatusFacts DEF ChangesOwn
<1>3. ASSUME NEW j \in Procs, j # i
      PROVE  RunOf(j)' = IF Busy(j) /\ proc[j].cmd.product = own
                         THEN Slot!Running(proc[j].cmd.op, own, seen[j] \cup {status},
                                           Rival(j, "deactivate"))
                         ELSE RunOf(j)
  <2>1. /\ Busy(j) => /\ proc'[j].pc # "idle" /\ proc'[j].cmd = proc[j].cmd
                      /\ proc'[j].rivals = proc[j].rivals
        /\ ~Busy(j) => Unmoved(j)
    BY <1>3 DEF Ends, Unmoved, Busy
  <2> QED
    BY <1>1, <2>1, RunsWitness
<1>4. slots' = [slots EXCEPT ![own] = status]
  BY SlotsAfter
<1>5. /\ mapped[i].product = own /\ mapped[i].op = proc[i].cmd.op /\ mapped[i].seen = seen[i]
      /\ mapped[i].contested = Rival(i, "deactivate")
      /\ mapped' = [j \in Procs |-> RunOf(j)']
  BY <1>1, RunsTogether
<1>6. /\ Slot!May(i, status)
      /\ Slot!Justified(mapped[i].op, mapped[i].seen \cup {status}, mapped[i].contested, answer)
      /\ slots' = [slots EXCEPT ![mapped[i].product] = status]
      /\ mapped' = [Slot!Witnessed(mapped[i].product, status) EXCEPT ![i] = Slot!Ended(answer)]
      => Slot!End(i, status, answer)
  BY DEF Slot!End
<1>7. RunOf(i)' = Slot!Ended(answer)
  BY DEF RunOf, Ends, Busy
<1>8. Slot!Justified(proc[i].cmd.op, seen[i] \cup {status}, Rival(i, "deactivate"), answer)
  OBVIOUS
<1> HIDE DEF mapped, slots
<1>9. Slot!Witnessed(own, status) = AllSee(own, status)
  BY <1>1, WitnessedRuns
<1>10. mapped' = [Slot!Witnessed(own, status) EXCEPT ![i] = Slot!Ended(answer)]
  BY <1>3, <1>5, <1>7, <1>9 DEF AllSee
<1>11. Slot!Justified(mapped[i].op, mapped[i].seen \cup {status}, mapped[i].contested, answer)
  BY <1>5, <1>8
<1> QED
  BY <1>2, <1>4, <1>5, <1>6, <1>10, <1>11

\* A process that is killed dies in LicenceSlot.
LEMMA DieMaps ==
    ASSUME OldSecret # Absent, SecretInv, SecretInv', SawItsStatus, Observe, AllHaveProducts,
           NEW i \in Procs, Ends(i, "crashed"), file' = file
    PROVE  Slot!Die(i)
<1> DEFINE own == proc[i].cmd.product
           slots == [p \in Products |-> Status(p)]
           mapped == [j \in Procs |->
               IF Busy(j)
               THEN [running |-> TRUE, op |-> proc[j].cmd.op, product |-> proc[j].cmd.product,
                     seen |-> seen[j], contested |-> Rival(j, "deactivate")]
               ELSE [running |-> FALSE, answer |-> proc[j].result]]
<1>1. Busy(i) /\ ChangesOwn(i)
  BY DEF Ends, ChangesOwn
<1>2. ASSUME NEW j \in Procs, j # i
      PROVE  RunOf(j)' = RunOf(j)
  <2>1. CASE Busy(j)
    <3>1. /\ proc'[j].pc # "idle" /\ proc'[j].cmd = proc[j].cmd
          /\ proc'[j].rivals = proc[j].rivals
      BY <1>2, <2>1 DEF Ends, Unmoved, Busy
    <3>2. proc[j].cmd.product = own =>
              seen[j] \cup {StatusIn(file', own)} = seen[j]
      BY <2>1 DEF SawItsStatus
    <3>3. RunOf(j) = Slot!Running(proc[j].cmd.op, proc[j].cmd.product, seen[j],
                                  Rival(j, "deactivate"))
      BY <2>1 DEF RunOf
    <3>4. RunOf(j)' = IF proc[j].cmd.product = own
                      THEN Slot!Running(proc[j].cmd.op, own, seen[j] \cup {StatusIn(file', own)},
                                        Rival(j, "deactivate"))
                      ELSE RunOf(j)
      BY <1>1, <2>1, <3>1, RunsAfter
    <3> QED
      BY <3>2, <3>3, <3>4
  <2>2. CASE ~Busy(j)
    BY <1>2, <2>2, AnswersStay DEF Ends
  <2> QED
    BY <2>1, <2>2
<1>3. RunOf(i)' = Slot!Ended("crashed")
  BY DEF RunOf, Ends, Busy
<1>4. /\ mapped[i].running /\ mapped = [j \in Procs |-> RunOf(j)]
      /\ mapped' = [j \in Procs |-> RunOf(j)']
  BY <1>1, RunsTogether
<1>5. slots' = slots
  BY StatusFacts
<1>6. mapped[i].running /\ mapped' = [mapped EXCEPT ![i] = Slot!Ended("crashed")]
      /\ slots' = slots => Slot!Die(i)
  BY DEF Slot!Die
<1> HIDE DEF mapped, slots
<1>7. mapped' = [mapped EXCEPT ![i] = Slot!Ended("crashed")]
  BY <1>2, <1>3, <1>4
<1> QED
  BY <1>4, <1>5, <1>6, <1>7

\* Who runs beside a command that starts.
LEMMA StartFacts ==
    ASSUME StoreInv, NEW i \in Procs, NEW cmd \in Commands, Start(i, cmd)
    PROVE  /\ ~Busy(i) /\ file' = file
           /\ proc'[i].pc # "idle" /\ proc'[i].cmd = cmd /\ proc'[i].blob = Absent
           /\ Rival(i, "deactivate")' =
                 \E k \in Procs : /\ Busy(k) /\ proc[k].cmd.op = "deactivate"
                                  /\ proc[k].cmd.product = cmd.product
           /\ \A j \in Procs : j # i =>
                 /\ proc'[j].pc = proc[j].pc /\ proc'[j].cmd = proc[j].cmd
                 /\ proc'[j].blob = proc[j].blob /\ proc'[j].result = proc[j].result
                 /\ proc'[j].rivals = IF Busy(j) THEN proc[j].rivals \cup {cmd}
                                                 ELSE proc[j].rivals
<1>1. /\ proc[i].pc = "idle" /\ file' = file /\ proc \in [Procs -> Processes]
      /\ proc' = [j \in Procs |->
            IF j = i
            THEN [Idle EXCEPT !.cmd = cmd,
                      !.pc = IF cmd.op = "activate" THEN "key" ELSE "find",
                      !.rivals = {proc[k].cmd : k \in {l \in Procs : Busy(l)}},
                      !.licensed = cmd.product \in live]
            ELSE IF Busy(j) THEN [proc[j] EXCEPT !.rivals = @ \cup {cmd}]
            ELSE proc[j]]
  BY DEF Start, StoreInv, TypeOK, Busy
<1>2. /\ proc'[i].pc # "idle" /\ proc'[i].cmd = cmd /\ proc'[i].blob = Absent
      /\ proc'[i].rivals = {proc[k].cmd : k \in {l \in Procs : Busy(l)}}
  BY <1>1 DEF Idle
<1>3. ASSUME NEW j \in Procs, j # i
      PROVE  /\ proc'[j].pc = proc[j].pc /\ proc'[j].cmd = proc[j].cmd
             /\ proc'[j].blob = proc[j].blob /\ proc'[j].result = proc[j].result
             /\ proc'[j].rivals = IF Busy(j) THEN proc[j].rivals \cup {cmd}
                                             ELSE proc[j].rivals
  BY <1>1, <1>3 DEF Processes
<1>4. Rival(i, "deactivate")' =
          \E k \in Procs : /\ Busy(k) /\ proc[k].cmd.op = "deactivate"
                           /\ proc[k].cmd.product = cmd.product
  BY <1>2 DEF Rival
<1> QED
  BY <1>1, <1>2, <1>3, <1>4 DEF Busy

\* A command that starts begins in LicenceSlot.
LEMMA BeginMaps ==
    ASSUME OldSecret # Absent, StoreInv, SecretInv, SecretInv', SawItsStatus, Observe,
           AllHaveProducts, NEW i \in Procs, NEW cmd \in Commands, Start(i, cmd)
    PROVE  Slot!Begin(i, cmd.op, cmd.product)
<1> DEFINE p == cmd.product
           slots == [q \in Products |-> Status(q)]
           mapped == [j \in Procs |->
               IF Busy(j)
               THEN [running |-> TRUE, op |-> proc[j].cmd.op, product |-> proc[j].cmd.product,
                     seen |-> seen[j], contested |-> Rival(j, "deactivate")]
               ELSE [running |-> FALSE, answer |-> proc[j].result]]
           rival == \E k \in Procs : /\ Busy(k) /\ proc[k].cmd.op = "deactivate"
                                     /\ proc[k].cmd.product = p
<1>1. /\ ~Busy(i) /\ file' = file
      /\ proc'[i].pc # "idle" /\ proc'[i].cmd = cmd
      /\ Rival(i, "deactivate")' = rival
      /\ \A j \in Procs : j # i =>
            /\ proc'[j].pc = proc[j].pc /\ proc'[j].cmd = proc[j].cmd
            /\ proc'[j].blob = proc[j].blob /\ proc'[j].result = proc[j].result
            /\ proc'[j].rivals = IF Busy(j) THEN proc[j].rivals \cup {cmd}
                                            ELSE proc[j].rivals
  BY StartFacts
<1>2. p \in Products /\ slots' = slots /\ slots[p] = StatusIn(file', p)
  BY <1>1, CommandFacts, StatusFacts
<1>3. RunOf(i)' = Slot!Running(cmd.op, p, {slots[p]}, rival)
  <2>1. seen'[i] = {slots[p]}
    BY <1>1, <1>2, Observed DEF Busy, SawItsStatus
  <2>2. RunOf(i)' = Slot!Running(cmd.op, p, seen'[i], Rival(i, "deactivate")')
    BY <1>1 DEF RunOf, Busy
  <2> HIDE DEF slots, rival
  <2> QED
    BY <1>1, <2>1, <2>2
<1>4. ASSUME NEW j \in Procs, j # i
      PROVE  RunOf(j)' = IF Busy(j) /\ proc[j].cmd.product = p /\ cmd.op = "deactivate"
                         THEN Slot!Running(proc[j].cmd.op, p, seen[j], TRUE)
                         ELSE RunOf(j)
  <2>1. CASE Busy(j)
    <3>1. Busy(j)' /\ proc'[j].cmd = proc[j].cmd
      BY <1>1, <1>4, <2>1 DEF Busy
    <3>2. seen'[j] = seen[j]
      <4>1. seen'[j] = seen[j] \cup {StatusIn(file', proc'[j].cmd.product)}
        BY <3>1, Observed
      <4> QED
        BY <1>1, <2>1, <3>1, <4>1 DEF SawItsStatus
    <3>3. proc'[j].rivals = proc[j].rivals \cup {cmd}
      BY <1>1, <1>4, <2>1
    <3>4. RunOf(j)' = Slot!Running(proc[j].cmd.op, proc[j].cmd.product, seen[j],
                                   Rival(j, "deactivate")')
      BY <3>1, <3>2 DEF RunOf
    <3>5. RunOf(j) = Slot!Running(proc[j].cmd.op, proc[j].cmd.product, seen[j],
                                  Rival(j, "deactivate"))
      BY <2>1 DEF RunOf
    <3>6. CASE cmd.op = "deactivate" /\ p = proc[j].cmd.product
      <4>1. Rival(j, "deactivate")' = TRUE
        BY <3>1, <3>3, <3>6 DEF Rival
      <4> QED
        BY <2>1, <3>4, <3>6, <4>1
    <3>7. CASE ~(cmd.op = "deactivate" /\ p = proc[j].cmd.product)
      <4>1. Rival(j, "deactivate")' = Rival(j, "deactivate")
        BY <3>1, <3>3, <3>7 DEF Rival
      <4> QED
        BY <2>1, <3>4, <3>5, <3>7, <4>1
    <3> QED
      BY <3>6, <3>7
  <2>2. CASE ~Busy(j)
    BY <1>1, <1>4, <2>2, AnswersStay DEF Unmoved
  <2> QED
    BY <2>1, <2>2
<1>5. /\ mapped' = [j \in Procs |-> RunOf(j)'] /\ mapped = [j \in Procs |-> RunOf(j)]
      /\ \A j \in Procs : Busy(j) => mapped[j].op = proc[j].cmd.op /\ mapped[j].seen = seen[j]
  BY RunsTogether
<1>6. ~mapped[i].running
  BY <1>1
<1>7. Slot!On(p) = {j \in Procs : Busy(j) /\ proc[j].cmd.product = p}
  BY SlotRuns
<1>8. rival = \E k \in Slot!On(p) : mapped[k].op = "deactivate"
  BY <1>5, <1>7
<1>9. /\ ~mapped[i].running
      /\ mapped' = [j \in Procs |->
            IF j = i
            THEN Slot!Running(cmd.op, p, {slots[p]},
                              \E k \in Slot!On(p) : mapped[k].op = "deactivate")
            ELSE IF j \in Slot!On(p) /\ cmd.op = "deactivate"
                 THEN Slot!Running(mapped[j].op, p, mapped[j].seen, TRUE)
            ELSE mapped[j]]
      /\ slots' = slots
      => Slot!Begin(i, cmd.op, p)
  BY DEF Slot!Begin
<1> HIDE DEF mapped, slots, rival
<1>10. RunOf(i)' = Slot!Running(cmd.op, p, {slots[p]},
                                \E k \in Slot!On(p) : mapped[k].op = "deactivate")
  BY <1>3, <1>8
<1>11. ASSUME NEW j \in Procs, j # i
       PROVE  RunOf(j)' = IF j \in Slot!On(p) /\ cmd.op = "deactivate"
                          THEN Slot!Running(mapped[j].op, p, mapped[j].seen, TRUE)
                          ELSE mapped[j]
  BY <1>4, <1>5, <1>7, <1>11
<1> QED
  BY <1>2, <1>5, <1>6, <1>9, <1>10, <1>11

-----------------------------------------------------------------------------
(* Each step of a command as LicenceSlot allows it.                        *)

\* A step of i changes its licence as its operation may, and goes on or ends
\* with an answer that is true of what i saw.
Follows(i) ==
    /\ ChangesOwn(i)
    /\ \/ GoesOn(i)
       \/ \E answer \in Slot!Answers :
             /\ Ends(i, answer)
             /\ Slot!Justified(proc[i].cmd.op,
                               seen[i] \cup {StatusIn(file', proc[i].cmd.product)},
                               Rival(i, "deactivate"), answer)

LEMMA FinishEnds ==
    ASSUME StoreInv, NEW i \in Procs, Busy(i), NEW result, Finish(i, result)
    PROVE  Ends(i, result)
<1>1. proc' = [proc EXCEPT ![i] = Finished(i, result)] /\ proc[i] \in Processes
  BY DEF Finish, StoreInv, TypeOK
<1>2. Finished(i, result).pc = "idle" /\ Finished(i, result).result = result
  BY <1>1 DEF Finished, Processes
<1> QED
  BY <1>1, <1>2 DEF Ends, Unmoved, StoreInv, TypeOK

LEMMA MovesOn ==
    ASSUME StoreInv, NEW i \in Procs, Busy(i), NEW r, proc' = [proc EXCEPT ![i] = r],
           r.pc # "idle", r.cmd = proc[i].cmd, r.rivals = proc[i].rivals,
           r.blob \in {proc[i].blob, file[Sought(proc[i].cmd)]}
    PROVE  GoesOn(i)
<1>1. proc'[i] = r /\ \A j \in Procs : j # i => proc'[j] = proc[j]
  BY DEF StoreInv, TypeOK
<1> QED
  BY <1>1 DEF GoesOn, Unmoved

\* What a command has seen, when it looks for the licence that is not there.
LEMMA SawAbsence ==
    ASSUME SawItsStatus, NEW i \in Procs, Busy(i),
           file[LicFile(proc[i].cmd.product)] = Absent
    PROVE  "absent" \in seen[i]
BY DEF SawItsStatus, StatusIn

\* fs::exists on a missing licence is answered by what was there.
LEMMA FindFollows ==
    ASSUME StoreInv, SawItsStatus, NEW i \in Procs, Find(i)
    PROVE  Follows(i)
<1> DEFINE cmd == proc[i].cmd
<1>1. /\ Busy(i) /\ proc[i].pc = "find" /\ file' = file
      /\ proc[i] \in Processes /\ cmd.op \in Ops \ {"activate"}
  BY BusyFacts DEF Find, Busy, WellPlaced
<1>2. ChangesOwn(i)
  BY <1>1 DEF ChangesOwn
<1>3. ASSUME NEW pc \in Pcs \ {"idle"}, proc' = [proc EXCEPT ![i].pc = pc]
      PROVE  GoesOn(i)
  <2> DEFINE r == [proc[i] EXCEPT !.pc = pc]
  <2>1. /\ proc' = [proc EXCEPT ![i] = r] /\ r.pc = pc /\ r.cmd = cmd
        /\ r.rivals = proc[i].rivals /\ r.blob = proc[i].blob
    BY <1>1, <1>3 DEF Processes
  <2> HIDE DEF r
  <2> QED
    BY <1>1, <1>3, <2>1, MovesOn
<1>4. CASE cmd.op = "generate-request" \/ file[LicFile(cmd.product)] # Absent
  <2>1. \E pc \in {"read", "key", "size"} : proc' = [proc EXCEPT ![i].pc = pc]
    <3>1. CASE cmd.op = "generate-request"
      BY <1>1, <3>1 DEF Find, Goto
    <3>2. CASE cmd.op = "deactivate"
      BY <1>1, <1>4, <3>2 DEF Find, Goto, Sought
    <3>3. CASE cmd.op = "verify"
      BY <1>1, <1>4, <3>3 DEF Find, Goto, Sought
    <3> QED
      BY <1>1, <3>1, <3>2, <3>3 DEF Ops
  <2> QED
    BY <1>2, <1>3, <2>1 DEF Follows, Pcs
<1>5. CASE cmd.op = "deactivate" /\ file[LicFile(cmd.product)] = Absent
  <2>1. Finish(i, "ok")
    BY <1>1, <1>5 DEF Find, Sought
  <2>2. Ends(i, "ok") /\ "absent" \in seen[i]
    BY <1>1, <1>5, <2>1, FinishEnds, SawAbsence
  <2> QED
    BY <1>2, <1>5, <2>2 DEF Follows, Slot!Justified, Slot!Answers
<1>6. CASE cmd.op = "verify" /\ file[LicFile(cmd.product)] = Absent
  <2>1. Finish(i, "no license")
    BY <1>1, <1>6 DEF Find, Sought
  <2>2. Ends(i, "no license") /\ "absent" \in seen[i]
    BY <1>1, <1>6, <2>1, FinishEnds, SawAbsence
  <2> QED
    BY <1>2, <1>6, <2>2 DEF Follows, Slot!Justified, Slot!Answers
<1> QED
  BY <1>1, <1>4, <1>5, <1>6 DEF Ops

\* So is a read of what is gone, and deactivate's question for its size.
LEMMA ReadFollows ==
    ASSUME StoreInv, SawItsStatus, NEW i \in Procs, Read(i)
    PROVE  Follows(i)
<1> DEFINE cmd == proc[i].cmd
           blob == file[Sought(cmd)]
<1>1. /\ Busy(i) /\ proc[i].pc = "read" /\ file' = file
      /\ proc[i] \in Processes /\ cmd.op \in {"verify", "generate-request"}
  BY BusyFacts DEF Read, Busy, WellPlaced
<1>2. ChangesOwn(i)
  BY <1>1 DEF ChangesOwn
<1>3. CASE blob = Absent
  <2>1. Ends(i, "failed")
    BY <1>1, <1>3, FinishEnds DEF Read
  <2>2. cmd.op = "verify" => "absent" \in seen[i]
    BY <1>1, <1>3, SawAbsence DEF Sought
  <2> QED
    BY <1>1, <1>2, <2>1, <2>2 DEF Follows, Slot!Justified, Slot!Answers
<1>4. CASE blob # Absent
  <2> DEFINE r == [proc[i] EXCEPT !.pc = "key", !.blob = blob]
  <2>1. proc' = [proc EXCEPT ![i] = r]
    BY <1>4 DEF Read
  <2>2. r.pc = "key" /\ r.cmd = cmd /\ r.rivals = proc[i].rivals /\ r.blob = blob
    BY <1>1 DEF Processes
  <2> HIDE DEF r
  <2> QED
    BY <1>1, <1>2, <2>1, <2>2, MovesOn DEF Follows
<1> QED
  BY <1>3, <1>4

LEMMA SizeFollows ==
    ASSUME StoreInv, SawItsStatus, NEW i \in Procs, Size(i)
    PROVE  Follows(i)
<1> DEFINE cmd == proc[i].cmd
           lic == LicFile(cmd.product)
<1>1. /\ Busy(i) /\ proc[i].pc = "size" /\ file' = file
      /\ proc[i] \in Processes /\ cmd.op = "deactivate"
  BY BusyFacts DEF Size, Busy, WellPlaced
<1>2. ChangesOwn(i)
  BY <1>1 DEF ChangesOwn
<1>3. CASE file[lic] = Absent
  <2>1. Ends(i, "failed") /\ "absent" \in seen[i]
    BY <1>1, <1>3, FinishEnds, SawAbsence DEF Size
  <2> QED
    BY <1>1, <1>2, <2>1 DEF Follows, Slot!Justified, Slot!Answers
<1>4. CASE file[lic] # Absent
  <2> DEFINE todo == <<Write(lic, Torn(file[lic].size))>>
             r == [proc[i] EXCEPT !.pc = "open", !.todo = todo]
  <2>1. proc' = [proc EXCEPT ![i] = r]
    BY <1>4 DEF Size
  <2>2. r.pc = "open" /\ r.cmd = cmd /\ r.rivals = proc[i].rivals /\ r.blob = proc[i].blob
    BY <1>1 DEF Processes
  <2> HIDE DEF r, todo
  <2> QED
    BY <1>1, <1>2, <2>1, <2>2, MovesOn DEF Follows
<1> QED
  BY <1>3, <1>4

\* verify answers by the blob it read, which was the licence then.
LEMMA KeyFollows ==
    ASSUME StoreInv, SecretInv, SawItsBlob, OldSecret # Absent, NEW i \in Procs,
           ReadSecret(i)
    PROVE  Follows(i)
<1> DEFINE cmd == proc[i].cmd
<1>1. /\ Busy(i) /\ proc[i].pc = "key" /\ file' = file /\ WithKey(i, OldSecret)
      /\ proc[i] \in Processes /\ WellPlaced(i, proc[i])
      /\ cmd.op \in Ops \ {"deactivate"}
  BY BusyFacts, OldKeyFound DEF ReadSecret, Busy, WellPlaced
<1>2. ChangesOwn(i)
  BY <1>1 DEF ChangesOwn
<1>3. CASE proc[i].blob # Absent
  <2> DEFINE result == IF ~Unseals(OldSecret, Label(cmd), proc[i].blob) THEN "failed"
                       ELSE IF cmd.op = "verify" THEN "valid" ELSE "ok"
  <2>1. Finish(i, result)
    BY <1>1, <1>3 DEF WithKey
  <2>2. cmd.op \in {"verify", "generate-request"}
    BY <1>1, <1>3 DEF WellPlaced
  <2>3. cmd.op = "verify" =>
            IF Unseals(OldSecret, Label(cmd), proc[i].blob) THEN "usable" \in seen[i]
                                                            ELSE "unusable" \in seen[i]
    BY <1>1, <1>3 DEF SawItsBlob, Opens, Label
  <2>4. Ends(i, result)
    BY <1>1, <2>1, FinishEnds
  <2>5. Slot!Justified(cmd.op, seen[i] \cup {StatusIn(file', cmd.product)},
                       Rival(i, "deactivate"), result)
    BY <2>2, <2>3 DEF Slot!Justified
  <2>6. result \in Slot!Answers
    BY DEF Slot!Answers
  <2> HIDE DEF result
  <2> QED
    BY <1>2, <2>4, <2>5, <2>6 DEF Follows
<1>4. CASE proc[i].blob = Absent
  <2>1. PICK todo : proc' = [proc EXCEPT ![i].pc = "open", ![i].todo = todo, ![i].fd = "none"]
    BY <1>1, <1>4 DEF WithKey
  <2> DEFINE r == [proc[i] EXCEPT !.pc = "open", !.todo = todo, !.fd = "none"]
  <2>2. /\ proc' = [proc EXCEPT ![i] = r] /\ r.pc = "open" /\ r.cmd = cmd
        /\ r.rivals = proc[i].rivals /\ r.blob = proc[i].blob
    BY <1>1, <2>1 DEF Processes
  <2> HIDE DEF r
  <2> QED
    BY <1>1, <1>2, <2>2, MovesOn DEF Follows
<1> QED
  BY <1>3, <1>4

\* Contents that are no sealed blob make a licence unusable.
LEMMA UnsealedUnusable ==
    ASSUME NEW f, NEW p, f[LicFile(p)] # Absent, ~IsSealed(f[LicFile(p)])
    PROVE  StatusIn(f, p) = "unusable"
BY DEF StatusIn, Opens, Unseals, IsSealed

\* A write changes the licence of the command that writes, if any.
LEMMA WriteChanges ==
    ASSUME StoreInv, SecretInv, NEW i \in Procs, proc[i].pc \in {"open", "write"},
           NEW c \in AllContents, NEW w, w = Head(proc[i].todo),
           file' = [file EXCEPT ![w.file] = c],
           proc[i].cmd.op = "deactivate" => ~IsSealed(c)
    PROVE  /\ ChangesOwn(i)
           /\ w.file = LicFile(proc[i].cmd.product) => file'[w.file] = c
<1> DEFINE own == proc[i].cmd.product
<1>1. w.file \in Files /\ proc[i].cmd \in Commands /\ own \in Products
  BY HeadInFiles, CommandFacts
<1>2. /\ \A p \in Products : LicFile(p) # w.file => file'[LicFile(p)] = file[LicFile(p)]
      /\ file'[w.file] = c
  BY <1>1, OtherLicences
<1>3. \A p \in Products : w.file = LicFile(p) =>
          p = own /\ proc[i].cmd.op \in {"activate", "deactivate"}
  BY LicenceWriter
<1>4. \A p \in Products \ {own} : StatusIn(file', p) = StatusIn(file, p)
  BY <1>2, <1>3 DEF StatusIn
<1>5. CASE w.file = LicFile(own)
  <2>1. c # Absent
    BY AbsentAssumption
  <2>2. StatusIn(file', own) \in {"unusable", "usable"}
    BY <1>2, <1>5, <2>1 DEF StatusIn
  <2>3. proc[i].cmd.op = "deactivate" => StatusIn(file', own) = "unusable"
    BY <1>2, <1>5, <2>1, UnsealedUnusable
  <2>4. proc[i].cmd.op \in {"activate", "deactivate"}
    BY <1>1, <1>3, <1>5
  <2> QED
    BY <1>2, <1>4, <2>2, <2>3, <2>4 DEF ChangesOwn, Slot!Makes
<1>6. CASE w.file # LicFile(own)
  BY <1>1, <1>2, <1>4, <1>6 DEF ChangesOwn, StatusIn
<1> QED
  BY <1>5, <1>6

LEMMA OpenFollows ==
    ASSUME StoreInv, SecretInv, NEW i \in Procs, Open(i)
    PROVE  Follows(i)
<1> DEFINE w == Head(proc[i].todo)
           r == [proc[i] EXCEPT !.pc = "write", !.fd = "open"]
<1>1. /\ Busy(i) /\ proc[i].pc = "open" /\ proc[i] \in Processes
      /\ file' = [file EXCEPT ![w.file] = Empty]
      /\ proc' = [proc EXCEPT ![i] = r]
  BY DEF Open, Busy, StoreInv, TypeOK
<1>2. /\ r.pc = "write" /\ r.cmd = proc[i].cmd
      /\ r.rivals = proc[i].rivals /\ r.blob = proc[i].blob
  BY <1>1 DEF Processes
<1>3. ChangesOwn(i)
  BY <1>1, ContentsFacts, WriteChanges
<1> HIDE DEF r
<1> QED
  BY <1>1, <1>2, <1>3, MovesOn DEF Follows

\* Where a stream goes that is flushed: on to the next write or to fs::remove,
\* or the command is done.
LEMMA FlushMoves ==
    ASSUME StoreInv, SecretInv, NEW i \in Procs, Flush(i, FALSE)
    PROVE  \/ GoesOn(i)
           \/ /\ Ends(i, "ok") /\ proc[i].cmd.op \in {"activate", "generate-request"}
              /\ proc[i].cmd.op = "activate" =>
                    Head(proc[i].todo).file = LicFile(proc[i].cmd.product)
<1> DEFINE w == Head(proc[i].todo)
           rest == Tail(proc[i].todo)
<1>1. /\ Busy(i) /\ proc[i].pc = "write" /\ proc[i] \in Processes
      /\ w.file # SecretFile /\ proc[i].cmd.op \in Ops
  BY AfterFlush, BusyFacts DEF Busy
<1>2. ASSUME NEW pc \in {"open", "remove"},
             proc' = [proc EXCEPT ![i].pc = pc, ![i].todo = rest, ![i].fd = "none"]
      PROVE  GoesOn(i)
  <2> DEFINE r == [proc[i] EXCEPT !.pc = pc, !.todo = rest, !.fd = "none"]
  <2>1. /\ proc' = [proc EXCEPT ![i] = r] /\ r.pc = pc /\ r.cmd = proc[i].cmd
        /\ r.rivals = proc[i].rivals /\ r.blob = proc[i].blob
    BY <1>1, <1>2 DEF Processes
  <2> HIDE DEF r
  <2> QED
    BY <1>1, <1>2, <2>1, MovesOn
<1>3. CASE rest # <<>>
  BY <1>1, <1>2, <1>3 DEF Flush
<1>4. CASE rest = <<>> /\ proc[i].cmd.op = "deactivate"
  BY <1>1, <1>2, <1>4 DEF Flush
<1>5. CASE rest = <<>> /\ proc[i].cmd.op # "deactivate"
  <2>1. Finish(i, "ok")
    BY <1>1, <1>5 DEF Flush
  <2>2. Ends(i, "ok")
    BY <1>1, <2>1, FinishEnds
  <2>3. proc[i].cmd.op # "verify"
    BY <1>1, NextWrite
  <2>4. proc[i].cmd.op = "activate" => w.file = LicFile(proc[i].cmd.product)
    BY <1>1, <1>5, OldWrite
  <2> QED
    BY <1>1, <1>5, <2>2, <2>3, <2>4 DEF Ops
<1> QED
  BY <1>3, <1>4, <1>5

\* What activate has written out is usable, unless a deactivate that ran beside
\* it took the file away.
LEMMA FlushFollows ==
    ASSUME StoreInv, SecretInv, HeldInv, NEW i \in Procs, Flush(i, FALSE)
    PROVE  Follows(i)
<1> DEFINE w == Head(proc[i].todo)
           cmd == proc[i].cmd
           own == cmd.product
           written == Overlay(file[w.file], w.contents)
<1>1. /\ proc[i].pc = "write" /\ w.file \in Files /\ w.contents \in AllContents
      /\ IF proc[i].fd = "open"
         THEN file[w.file] # Absent /\ file' = [file EXCEPT ![w.file] = written]
         ELSE file' = file
  BY AfterFlush
<1>2. /\ Busy(i) /\ proc[i] \in Processes /\ WellPlaced(i, proc[i])
      /\ cmd \in Commands /\ own \in Products
  BY <1>1, BusyFacts DEF Busy
<1>3. proc[i].fd = "open" =>
          /\ file[w.file] \in AllContents /\ written \in AllContents
          /\ cmd.op = "deactivate" => ~IsSealed(written)
  <2> SUFFICES ASSUME proc[i].fd = "open"
               PROVE  /\ file[w.file] \in AllContents /\ written \in AllContents
                      /\ cmd.op = "deactivate" => ~IsSealed(written)
    OBVIOUS
  <2>1. file[w.file] \in AllContents
    BY <1>1 DEF StoreInv, TypeOK
  <2>2. cmd.op = "deactivate" => ~IsSealed(w.contents)
    BY <1>1, <1>2, OldWrite, NextWrite
  <2> HIDE DEF w
  <2> QED
    BY <1>1, <2>1, <2>2, OverlayFacts
<1>4. ChangesOwn(i) /\ (proc[i].fd = "open" /\ w.file = LicFile(own) =>
                            file'[LicFile(own)] = written)
  <2>1. CASE proc[i].fd = "open"
    BY <1>1, <1>3, <2>1, WriteChanges
  <2>2. CASE proc[i].fd # "open"
    BY <1>1, <2>2 DEF ChangesOwn
  <2> QED
    BY <2>1, <2>2
<1>5. CASE GoesOn(i)
  BY <1>4, <1>5 DEF Follows
<1>6. CASE Ends(i, "ok") /\ cmd.op = "generate-request"
  BY <1>4, <1>6 DEF Follows, Slot!Justified, Slot!Answers
<1>7. CASE Ends(i, "ok") /\ cmd.op = "activate" /\ w.file = LicFile(own)
  <2>1. CASE proc[i].fd = "open"
    <3>1. /\ w.contents = LicenceBlob(OldSecret, cmd) /\ w.contents.size = SizeOf[cmd.token]
          /\ cmd.token \in Tokens /\ ProductOf[cmd.token] = own
      <4>1. w.contents = LicenceBlob(OldSecret, cmd)
        BY <1>1, <1>2, <1>7, OldWrite
      <4>2. LicenceBlob(OldSecret, cmd).size = SizeOf[cmd.token]
        BY DEF LicenceBlob, Sealed, Contents
      <4> QED
        BY <1>1, <1>2, <1>7, <4>1, <4>2, CommandFacts
    <3>2. Fits(own, file[w.file].size) /\ file[w.file].size \in Nat /\ SizeOf[cmd.token] \in Nat
      BY <1>1, <1>2, <1>3, <1>7, <2>1, <3>1, TokenAssumption
      DEF HeldInv, LicencesFit, AllContents
    <3>3. written = LicenceBlob(OldSecret, cmd)
      BY <3>1, <3>2 DEF Overlay, Fits
    <3>4. Opens(own, LicenceBlob(OldSecret, cmd))
      BY DEF Opens, Unseals, LicenceBlob, Sealed, Contents
    <3>5. written # Absent
      BY <1>3, <2>1, AbsentAssumption
    <3>6. file'[LicFile(own)] = written /\ Opens(own, written)
      BY <1>4, <1>7, <2>1, <3>3, <3>4
    <3>7. StatusIn(file', own) = "usable"
      BY <3>5, <3>6 DEF StatusIn
    <3> QED
      BY <1>4, <1>7, <3>7 DEF Follows, Slot!Justified, Slot!Answers
  <2>2. CASE proc[i].fd # "open"
    <3>1. proc[i].fd = "orphan"
      BY <1>1, <1>2, <2>2 DEF WellPlaced, Processes
    <3>2. Rival(i, "deactivate")
      BY <1>7, <3>1 DEF HeldInv, OrphansKnow
    <3> QED
      BY <1>4, <1>7, <3>2 DEF Follows, Slot!Justified, Slot!Answers
  <2> QED
    BY <2>1, <2>2
<1> QED
  BY <1>5, <1>6, <1>7, FlushMoves

\* fs::remove leaves no licence, which is what deactivate answers.
LEMMA RemoveFollows ==
    ASSUME StoreInv, SecretInv, NEW i \in Procs, Remove(i)
    PROVE  Follows(i)
<1> DEFINE own == proc[i].cmd.product
           lic == LicFile(own)
<1>1. /\ Busy(i) /\ proc[i].pc = "remove" /\ proc \in [Procs -> Processes]
      /\ file' = [file EXCEPT ![lic] = Absent]
  BY DEF Remove, Busy, StoreInv, TypeOK
<1>2. /\ proc[i].cmd.op = "deactivate" /\ own \in Products /\ lic \in Files
  BY <1>1, BusyFacts, FileFacts DEF WellPlaced
<1>3. /\ \A p \in Products : LicFile(p) # lic => file'[LicFile(p)] = file[LicFile(p)]
      /\ file'[lic] = Absent
  BY <1>1, <1>2, OtherLicences
<1>4. StatusIn(file', own) = "absent"
  BY <1>3 DEF StatusIn
<1>5. \A p \in Products \ {own} : StatusIn(file', p) = StatusIn(file, p)
  BY <1>3, FileFacts DEF StatusIn
<1>6. ChangesOwn(i)
  BY <1>2, <1>4, <1>5 DEF ChangesOwn, Slot!Makes
<1>7. proc'[i].pc = "idle" /\ proc'[i].result = "ok"
  BY <1>1 DEF Remove, Finished, Processes
<1>8. \A j \in Procs : j # i => Unmoved(j)
  BY <1>1 DEF Remove, Unmoved, Processes
<1>9. Ends(i, "ok")
  BY <1>1, <1>7, <1>8 DEF Ends
<1> QED
  BY <1>2, <1>4, <1>6, <1>9 DEF Follows, Slot!Justified, Slot!Answers

-----------------------------------------------------------------------------
(* The invariant and the refinement.                                       *)

\* What LicenceSlot is about stays as it is.
SlotStutter == file' = file /\ proc' = proc

\* Every step of ClientStore, on an account with its secret and a disk with
\* room: a start, a step of a command, a kill, or nothing.
LEMMA EveryStep ==
    ASSUME StoreInv, SecretInv, HeldInv, SlotInv, OldSecret # Absent,
           "short write" \notin FaultKinds, [Next]_vars
    PROVE  \/ \E i \in Procs, cmd \in Commands : Start(i, cmd)
           \/ \E i \in Procs : Follows(i)
           \/ \E i \in Procs : Ends(i, "crashed") /\ file' = file
           \/ SlotStutter
<1>1. CASE UNCHANGED vars
  BY <1>1 DEF vars, SlotStutter
<1>2. ASSUME NEW i \in Procs, Step(i)
      PROVE  Follows(i)
  BY <1>2, FindFollows, ReadFollows, SizeFollows, KeyFollows, OpenFollows, FlushFollows,
     RemoveFollows, OldKeyFound DEF Step, SlotInv
<1>3. ASSUME NEW i \in Procs, Flush(i, TRUE)
      PROVE  FALSE
  BY <1>3 DEF Flush
<1>4. ASSUME NEW i \in Procs, Crash(i)
      PROVE  Ends(i, "crashed") /\ file' = file
  BY <1>4, FinishEnds DEF Crash, Busy
<1> QED
  BY <1>1, <1>2, <1>3, <1>4 DEF Next

\* What a command holds of its licence, it has seen.
LEMMA BlobSeen ==
    ASSUME OldSecret # Absent, SecretInv', SlotInv, Observe, NEW j \in Procs,
           Busy(j)', proc'[j].cmd.op = "verify", proc'[j].blob # Absent,
           \/ Unmoved(j)
           \/ GoesOn(j)
    PROVE  IF Opens(proc'[j].cmd.product, proc'[j].blob) THEN "usable" \in seen'[j]
                                                         ELSE "unusable" \in seen'[j]
<1> DEFINE p == proc[j].cmd.product
<1>1. Busy(j) /\ proc'[j].cmd = proc[j].cmd
      /\ proc'[j].blob \in {proc[j].blob, file[Sought(proc[j].cmd)]}
  BY DEF Unmoved, GoesOn, Busy
<1>2. seen[j] \subseteq seen'[j]
  BY Observed DEF SlotInv
<1>3. CASE proc'[j].blob = proc[j].blob
  BY <1>1, <1>2, <1>3 DEF SlotInv, SawItsBlob
<1>4. CASE proc'[j].blob = file[LicFile(p)]
  BY <1>1, <1>2, <1>4 DEF SlotInv, SawItsStatus, StatusIn
<1> QED
  BY <1>1, <1>3, <1>4 DEF Sought

LEMMA SlotInvKept ==
    ASSUME OldSecret # Absent, "short write" \notin FaultKinds,
           StoreInv, SecretInv, SecretInv', HeldInv, SlotInv, [SlotNext]_slotVars
    PROVE  SlotInv'
<1>1. CASE UNCHANGED slotVars
  BY <1>1 DEF slotVars, vars, SlotInv, SawItsStatus, SawItsBlob, StatusIn, Busy
<1>2. CASE SlotNext
  <2>1. Observe /\ [Next]_vars
    BY <1>2 DEF SlotNext
  <2>2. SawItsStatus'
    BY <2>1, Observed DEF SlotInv
  <2>3. SawItsBlob'
    <3> SUFFICES ASSUME NEW j \in Procs, Busy(j)', proc'[j].cmd.op = "verify",
                        proc'[j].blob # Absent
                 PROVE  IF Opens(proc'[j].cmd.product, proc'[j].blob)
                        THEN "usable" \in seen'[j] ELSE "unusable" \in seen'[j]
      BY DEF SawItsBlob
    <3>1. ASSUME NEW i \in Procs, NEW cmd \in Commands, Start(i, cmd)
          PROVE  IF Opens(proc'[j].cmd.product, proc'[j].blob)
                 THEN "usable" \in seen'[j] ELSE "unusable" \in seen'[j]
      <4>1. /\ proc'[i].blob = Absent
            /\ j # i => /\ proc'[j].pc = proc[j].pc /\ proc'[j].cmd = proc[j].cmd
                        /\ proc'[j].blob = proc[j].blob
        BY <3>1, StartFacts
      <4>2. Busy(j) /\ seen[j] \subseteq seen'[j]
        BY <2>1, <4>1, Observed DEF SlotInv, Busy
      <4> QED
        BY <4>1, <4>2 DEF SlotInv, SawItsBlob
    <3>2. ASSUME NEW i \in Procs, Follows(i) \/ Ends(i, "crashed")
          PROVE  Unmoved(j) \/ GoesOn(j)
      BY <3>2 DEF Follows, GoesOn, Ends, Busy
    <3>3. SlotStutter => Unmoved(j)
      BY DEF SlotStutter, Unmoved
    <3> QED
      BY <2>1, <3>1, <3>2, <3>3, EveryStep, BlobSeen
  <2> QED
    BY <2>2, <2>3 DEF SlotInv
<1> QED
  BY <1>1, <1>2

\* The step itself.
LEMMA StepRefines ==
    ASSUME OldSecret # Absent, "short write" \notin FaultKinds,
           StoreInv, SecretInv, SecretInv', HeldInv, SlotInv, [SlotNext]_slotVars
    PROVE  [Slot!Next]_(Slot!vars)
<1>1. CASE UNCHANGED slotVars
  BY <1>1 DEF slotVars, vars, Slot!vars, Status, Verifiable, Busy, Rival
<1>2. CASE SlotNext
  <2>1. /\ Observe /\ [Next]_vars /\ SawItsStatus /\ AllHaveProducts
        /\ \A i \in Procs : Busy(i) => StatusIn(file', proc[i].cmd.product) \in Slot!Statuses
    BY <1>2, ProductsKnown, StatusValues DEF SlotNext, SlotInv, SlotStatuses, Slot!Statuses
  <2>2. ASSUME NEW i \in Procs, NEW cmd \in Commands, Start(i, cmd)
        PROVE  Slot!Next
    <3>1. Slot!Begin(i, cmd.op, cmd.product)
      BY <2>1, <2>2, BeginMaps
    <3>2. cmd.op \in Slot!Ops /\ cmd.product \in Products
      BY CommandFacts DEF Ops, Slot!Ops
    <3> QED
      BY <3>1, <3>2 DEF Slot!Next
  <2>3. ASSUME NEW i \in Procs, Follows(i)
        PROVE  Slot!Next
    <3>1. PICK status : status = StatusIn(file', proc[i].cmd.product)
      OBVIOUS
    <3>2. Busy(i) /\ ChangesOwn(i) /\ status \in Slot!Statuses
      <4>1. Busy(i) /\ ChangesOwn(i)
        BY <2>3 DEF Follows, GoesOn, Ends
      <4> QED
        BY <2>1, <3>1, <4>1
    <3>3. CASE GoesOn(i)
      <4>1. Slot!Work(i, status)
        BY <2>1, <3>1, <3>2, <3>3, WorkMaps
      <4> QED
        BY <3>2, <4>1 DEF Slot!Next
    <3>4. CASE ~GoesOn(i)
      <4>1. PICK answer \in Slot!Answers :
                /\ Ends(i, answer)
                /\ Slot!Justified(proc[i].cmd.op, seen[i] \cup {status},
                                  Rival(i, "deactivate"), answer)
        BY <2>3, <3>1, <3>4 DEF Follows
      <4>2. Slot!End(i, status, answer)
        BY <2>1, <3>1, <3>2, <4>1, EndMaps
      <4> QED
        BY <3>2, <4>1, <4>2 DEF Slot!Next
    <3> QED
      BY <3>3, <3>4
  <2>4. ASSUME NEW i \in Procs, Ends(i, "crashed"), file' = file
        PROVE  Slot!Next
    <3>1. Slot!Die(i)
      BY <2>1, <2>4, DieMaps
    <3> QED
      BY <3>1 DEF Slot!Next
  <2>5. CASE SlotStutter
    <3>1. seen' = seen
      <4>1. \A j \in Procs : seen'[j] = seen[j]
        BY <2>1, <2>5, Observed DEF SlotStutter, SawItsStatus, Busy
      <4>2. seen' \in [Procs -> SUBSET SlotStatuses] /\ seen \in [Procs -> SUBSET SlotStatuses]
        BY <2>1, Observed DEF SawItsStatus
      <4>3. seen = [j \in Procs |-> seen[j]] /\ seen' = [j \in Procs |-> seen'[j]]
        BY <4>2
      <4> QED
        BY <4>1, <4>3, Zenon
    <3> QED
      BY <2>5, <3>1 DEF SlotStutter, Slot!vars, Status, Verifiable, Busy, Rival
  <2> QED
    BY <2>1, <2>2, <2>3, <2>4, <2>5, EveryStep
<1> QED
  BY <1>1, <1>2

\* The file operations of any number of client processes, of which some may be
\* killed at any step, keep the promises of LicenceSlot: on every account that
\* has its machine secret and a disk with room, as long as the tokens of a
\* product seal to one size.
THEOREM StoreImplementsSlot ==
    ASSUME OldSecret # Absent, "short write" \notin FaultKinds, OneSize
    PROVE  SlotSpec => ImplementsSlot
<1>1. SlotInit => SlotInv /\ Slot!Init
  <2> SUFFICES ASSUME SlotInit
               PROVE  SlotInv /\ Slot!Init
    OBVIOUS
  <2>1. /\ \A i \in Procs : proc[i].pc = "idle" /\ proc[i].result = "none"
        /\ seen = [i \in Procs |-> {}]
        /\ \A p \in Products : file[LicFile(p)] = Absent
    BY FileFacts DEF SlotInit, Init, Idle
  <2>2. SlotInv
    BY <2>1 DEF SlotInv, SawItsStatus, SawItsBlob, Busy
  <2>3. Slot!Init
    <3>1. \A p \in Products : Status(p) = "absent"
      BY <2>1 DEF Status, Verifiable
    <3>2. \A i \in Procs : RunOf(i) = Slot!Ended("none")
      BY <2>1 DEF RunOf, Busy
    <3>3. [i \in Procs |-> RunOf(i)] = [i \in Procs |-> Slot!Ended("none")]
      BY <3>2
    <3> QED
      BY <3>1, <3>3, RunsTogether DEF Slot!Init
  <2> QED
    BY <2>2, <2>3
<1>2. StoreInv /\ SecretInv /\ SecretInv' /\ HeldInv /\ SlotInv /\ [SlotNext]_slotVars
          => SlotInv' /\ [Slot!Next]_(Slot!vars)
  BY SlotInvKept, StepRefines
<1>3. SlotInit => Init
  BY DEF SlotInit
<1>4. [SlotNext]_slotVars => [Next]_vars
  BY DEF SlotNext, slotVars
<1>5. SlotSpec => Spec
  BY <1>3, <1>4, PTL DEF SlotSpec, Spec
<1>6. Spec => []StoreInv /\ []SecretInv /\ []HeldInv
  BY StoreInvariant, HeldInvariant
<1> QED
  BY <1>1, <1>2, <1>5, <1>6, PTL DEF SlotSpec, ImplementsSlot, Slot!Spec
=============================================================================
