------------------------- MODULE TpmHandles_proofs --------------------------
(***************************************************************************)
(* Theorems about TpmHandles for every number of processes that share a    *)
(* TPM, of its slots and connections, of calls and of failing commands.    *)
(***************************************************************************)
EXTENDS TpmHandles, FiniteSetTheorems, TLAPS

-----------------------------------------------------------------------------
(* What a call has loaded before each of its steps, if no command failed.  *)

EkPubHashHolds == <<{}, {}, {"parent"}, {"parent"}, {"parent"}, {}>>

SealHolds ==
    <<{}, {}, {"parent"}, {"parent"}, {"parent", "session"}, {"parent", "session"},
      {"parent", "session"}, {"parent", "session"}, {"parent", "session"},
      {"parent"}, {"parent"}, {"parent"}, {}>>

UnsealHolds ==
    <<{}, {}, {"parent"}, {"parent"}, {"parent", "object"}, {"object"}, {"object"},
      {"object", "session"}, {"object", "session"}, {"object", "session"},
      {"object", "session"}, {"object", "session"}, {"object"}, {}>>

Holds(call, pos) ==
    CASE call = "ek_pub_hash" -> EkPubHashHolds[pos]
      [] call = "seal"        -> SealHolds[pos]
      [] call = "unseal"      -> UnsealHolds[pos]

\* What the last command may not have made after all, its result code unread.
Doubts(call, pos) ==
    CASE pos = 3                              -> {"parent"}
      [] call = "seal"   /\ pos = 5           -> {"session"}
      [] call = "unseal" /\ pos \in {5, 6}    -> {"object"}
      [] call = "unseal" /\ pos = 8           -> {"session"}
      [] OTHER                                -> {}

\* The steps before which a result code waits for its check.
Unchecked(call) ==
    CASE call = "ek_pub_hash" -> {3, 5, 6}
      [] call = "seal"        -> {3, 5, 7, 9, 10, 12, 13}
      [] call = "unseal"      -> {3, 5, 6, 8, 10, 12, 13, 14}

-----------------------------------------------------------------------------
(* How that changes along a program, step by step.                         *)

StepFits(call, pos, st) ==
    /\ st.do \in {"open", "command", "flush", "check"}
    /\ st.uses \subseteq Holds(call, pos) \ Doubts(call, pos)
    /\ st.do # "check" => pos + 1 \in 1..Len(Program(call))
    /\ \E one, two \in Roles : Holds(call, pos) \subseteq {one, two}

OpenFits(call, pos, st) ==
    st.do = "open" =>
        /\ pos = 1 /\ Holds(call, pos) = {} /\ Holds(call, pos + 1) = {}
        /\ pos \notin Unchecked(call)

CommandFits(call, pos, st) ==
    st.do = "command" =>
        /\ pos \notin Unchecked(call) /\ pos + 1 \in Unchecked(call)
        /\ st.makes = {} \/ \E role \in Roles : st.makes = {role}
        /\ st.makes \cap Holds(call, pos) = {}
        /\ Holds(call, pos + 1) = Holds(call, pos) \cup st.makes
        /\ Doubts(call, pos + 1) = st.makes

FlushFits(call, pos, st) ==
    st.do = "flush" =>
        /\ \E role \in Roles : st.uses = {role}
        /\ pos + 1 \in Unchecked(call)
        /\ Holds(call, pos + 1) = Holds(call, pos) \ st.uses
        /\ Doubts(call, pos + 1) = Doubts(call, pos)

CheckFits(call, pos, st) ==
    st.do = "check" =>
        IF pos = Len(Program(call))
        THEN Holds(call, pos) = {}
        ELSE /\ pos + 1 \in 1..Len(Program(call))
             /\ Holds(call, pos + 1) = Holds(call, pos)

Fits(call, pos) ==
    LET st == Program(call)[pos]
    IN  /\ StepFits(call, pos, st) /\ OpenFits(call, pos, st) /\ CommandFits(call, pos, st)
        /\ FlushFits(call, pos, st) /\ CheckFits(call, pos, st)

LEMMA EkPubHashFits == \A pos \in 1..Len(EkPubHash) : Fits("ek_pub_hash", pos)
<1> USE DEF Open, Check, Flush, Command, CreatePrimary, StartAuthSession, PolicyPCR,
            PolicyGetDigest, Create, Load, UnsealObject, Marshal, EkPubHash, Program, Roles,
            Holds, EkPubHashHolds, Doubts, Unchecked,
            Fits, StepFits, OpenFits, CommandFits, FlushFits, CheckFits
<1>1. Fits("ek_pub_hash", 1)
  OBVIOUS
<1>2. Fits("ek_pub_hash", 2)
  OBVIOUS
<1>3. Fits("ek_pub_hash", 3)
  OBVIOUS
<1>4. Fits("ek_pub_hash", 4)
  OBVIOUS
<1>5. Fits("ek_pub_hash", 5)
  OBVIOUS
<1>6. Fits("ek_pub_hash", 6)
  OBVIOUS
<1>7. 1..Len(EkPubHash) = 1..6
  OBVIOUS
<1> HIDE DEF Fits
<1> QED
  BY <1>1, <1>2, <1>3, <1>4, <1>5, <1>6, <1>7

LEMMA SealFits == \A pos \in 1..Len(Seal) : Fits("seal", pos)
<1> USE DEF Open, Check, Flush, Command, CreatePrimary, StartAuthSession, PolicyPCR,
            PolicyGetDigest, Create, Load, UnsealObject, Marshal, Seal, Program, Roles,
            Holds, SealHolds, Doubts, Unchecked,
            Fits, StepFits, OpenFits, CommandFits, FlushFits, CheckFits
<1>1. Fits("seal", 1)
  OBVIOUS
<1>2. Fits("seal", 2)
  OBVIOUS
<1>3. Fits("seal", 3)
  OBVIOUS
<1>4. Fits("seal", 4)
  OBVIOUS
<1>5. Fits("seal", 5)
  OBVIOUS
<1>6. Fits("seal", 6)
  OBVIOUS
<1>7. Fits("seal", 7)
  OBVIOUS
<1>8. Fits("seal", 8)
  OBVIOUS
<1>9. Fits("seal", 9)
  OBVIOUS
<1>10. Fits("seal", 10)
  OBVIOUS
<1>11. Fits("seal", 11)
  OBVIOUS
<1>12. Fits("seal", 12)
  OBVIOUS
<1>13. Fits("seal", 13)
  OBVIOUS
<1>14. 1..Len(Seal) = 1..13
  OBVIOUS
<1> HIDE DEF Fits
<1> QED
  BY <1>1, <1>2, <1>3, <1>4, <1>5, <1>6, <1>7, <1>8, <1>9, <1>10, <1>11, <1>12, <1>13, <1>14

LEMMA UnsealFits == \A pos \in 1..Len(Unseal) : Fits("unseal", pos)
<1> USE DEF Open, Check, Flush, Command, CreatePrimary, StartAuthSession, PolicyPCR,
            PolicyGetDigest, Create, Load, UnsealObject, Marshal, Unseal, Program, Roles,
            Holds, UnsealHolds, Doubts, Unchecked,
            Fits, StepFits, OpenFits, CommandFits, FlushFits, CheckFits
<1>1. Fits("unseal", 1)
  OBVIOUS
<1>2. Fits("unseal", 2)
  OBVIOUS
<1>3. Fits("unseal", 3)
  OBVIOUS
<1>4. Fits("unseal", 4)
  OBVIOUS
<1>5. Fits("unseal", 5)
  OBVIOUS
<1>6. Fits("unseal", 6)
  OBVIOUS
<1>7. Fits("unseal", 7)
  OBVIOUS
<1>8. Fits("unseal", 8)
  OBVIOUS
<1>9. Fits("unseal", 9)
  OBVIOUS
<1>10. Fits("unseal", 10)
  OBVIOUS
<1>11. Fits("unseal", 11)
  OBVIOUS
<1>12. Fits("unseal", 12)
  OBVIOUS
<1>13. Fits("unseal", 13)
  OBVIOUS
<1>14. Fits("unseal", 14)
  OBVIOUS
<1>15. 1..Len(Unseal) = 1..14
  OBVIOUS
<1> HIDE DEF Fits
<1> QED
  BY <1>1, <1>2, <1>3, <1>4, <1>5, <1>6, <1>7, <1>8, <1>9, <1>10, <1>11, <1>12, <1>13, <1>14, <1>15

LEMMA ProgramsFit ==
    ASSUME NEW call \in Calls, NEW pos \in 1..Len(Program(call))
    PROVE  Fits(call, pos)
BY EkPubHashFits, SealFits, UnsealFits DEF Calls, Program

-----------------------------------------------------------------------------
(* The invariant: each process holds what its call has loaded by now, but  *)
(* for what a command did not make whose result code is still unread, and  *)
(* what it lost to a throw is bounded by the calls that threw.             *)

LocalVariables ==
    [call : Calls \cup {"none"}, pos : Nat, rc : {"ok", "failed"},
     has : [Roles -> Slots \cup {Free}], result : {"none", "ok", "threw", "no tpm"}]

HandlesTypes ==
    /\ slots \in [Slots -> Procs \cup {Free}]
    /\ proc \in [Procs -> LocalVariables]
    /\ failed \in [Procs -> Nat]
    /\ faults \in Nat

Held(i) == {role \in Roles : proc[i].has[role] # Free}
Handles(i) == {proc[i].has[role] : role \in Held(i)}
Leaked(i) == Loaded(i) \ Handles(i)

\* The handles of a process are slots it loaded, one for each.
OwnsHandles(i) ==
    /\ \A role \in Held(i) :
          slots[proc[i].has[role]] = i /\ proc[i].has[role][1] = KindOf(role)
    /\ \A one, two \in Held(i) : proc[i].has[one] = proc[i].has[two] => one = two

\* They are those its call has at this step.
KeepsStep(i) ==
    IF Idle(i) THEN Held(i) = {} /\ proc[i].rc = "ok"
    ELSE LET call == proc[i].call
             pos == proc[i].pos
         IN  /\ pos \in 1..Len(Program(call))
             /\ Held(i) \subseteq Holds(call, pos)
             /\ Holds(call, pos) \ Doubts(call, pos) \subseteq Held(i)
             /\ proc[i].rc = "ok" => Holds(call, pos) \subseteq Held(i)
             /\ proc[i].rc = "failed" => pos \in Unchecked(call)

LeaksLittle(i) == Cardinality(Leaked(i)) <= 2 * failed[i]

\* With enough slots, nothing has failed as long as no command was made to.
Healthy(i) == EnoughSlots /\ faults = 0 => proc[i].rc = "ok" /\ Leaked(i) = {}

Orderly(i) == OwnsHandles(i) /\ KeepsStep(i) /\ LeaksLittle(i) /\ Healthy(i)

HandlesInv == HandlesTypes /\ \A i \in Procs : Orderly(i)

-----------------------------------------------------------------------------
(* What the steps have in common.                                          *)

LEMMA LoadedFinite ==
    ASSUME NEW i
    PROVE  /\ IsFiniteSet(Slots) /\ IsFiniteSet(Loaded(i)) /\ IsFiniteSet(Leaked(i))
           /\ Cardinality(Loaded(i)) \in Nat /\ Cardinality(Leaked(i)) \in Nat
<1>1. IsFiniteSet(1..ObjectSlots) /\ IsFiniteSet(1..SessionSlots)
  BY SlotsAssumption, FS_Interval
<1>2. IsFiniteSet({"object"}) /\ IsFiniteSet({"session"})
  BY FS_Singleton
<1>3. IsFiniteSet({"object"} \X (1..ObjectSlots)) /\ IsFiniteSet({"session"} \X (1..SessionSlots))
  BY <1>1, <1>2, FS_Product
<1>4. IsFiniteSet(Slots)
  BY <1>3, FS_Union DEF Slots
<1>5. Loaded(i) \subseteq Slots /\ Leaked(i) \subseteq Slots
  BY DEF Loaded, Leaked
<1> QED
  BY <1>4, <1>5, FS_Subset, FS_CardinalityType

LEMMA LocalTypes ==
    ASSUME HandlesTypes, NEW i \in Procs
    PROVE  /\ proc[i].call \in Calls \cup {"none"} /\ proc[i].pos \in Nat
           /\ proc[i].rc \in {"ok", "failed"} /\ proc[i].has \in [Roles -> Slots \cup {Free}]
BY DEF HandlesTypes, LocalVariables

\* A process that takes no step is not disturbed by one that does.
LEMMA OthersStayOrderly ==
    ASSUME NEW i \in Procs, Orderly(i),
           proc'[i] = proc[i], failed'[i] = failed[i], faults' = 0 => faults = 0,
           \A s \in Slots : slots'[s] = i <=> slots[s] = i,
           HandlesTypes
    PROVE  Orderly(i)'
<1>1. Held(i)' = Held(i) /\ Handles(i)' = Handles(i)
  BY DEF Held, Handles
<1>2. Leaked(i)' = Leaked(i)
  BY <1>1 DEF Leaked, Loaded
<1>3. OwnsHandles(i)'
  <2>1. \A role \in Held(i) : proc[i].has[role] \in Slots
    BY LocalTypes DEF Held
  <2> QED
    BY <1>1, <2>1 DEF Orderly, OwnsHandles
<1>4. KeepsStep(i)'
  BY <1>1 DEF Orderly, KeepsStep, Idle
<1>5. LeaksLittle(i)' /\ Healthy(i)'
  BY <1>2 DEF Orderly, LeaksLittle, Healthy
<1> QED
  BY <1>3, <1>4, <1>5 DEF Orderly

LEMMA OneProcessSteps ==
    ASSUME HandlesInv, NEW i \in Procs, HandlesTypes', Orderly(i)', faults' = 0 => faults = 0,
           \A j \in Procs : j # i =>
               /\ proc'[j] = proc[j] /\ failed'[j] = failed[j]
               /\ \A s \in Slots : slots'[s] = j <=> slots[s] = j
    PROVE  HandlesInv'
BY OthersStayOrderly DEF HandlesInv

\* What is bounded stays so when less is leaked and no failure forgotten.
LEMMA FewerLeaks ==
    ASSUME NEW i \in Procs, HandlesTypes, failed'[i] = failed[i],
           LeaksLittle(i), Leaked(i)' \subseteq Leaked(i)
    PROVE  LeaksLittle(i)'
<1>1. Cardinality(Leaked(i)') <= Cardinality(Leaked(i))
  BY LoadedFinite, FS_Subset
<1>2. Cardinality(Leaked(i)') \in Nat /\ Cardinality(Leaked(i)) \in Nat
  <2>1. IsFiniteSet(Leaked(i)')
    BY LoadedFinite, FS_Subset
  <2> QED
    BY <2>1, LoadedFinite, FS_CardinalityType
<1> QED
  BY <1>1, <1>2 DEF LeaksLittle, HandlesTypes

\* A step that loads and flushes nothing leaves the handles in order.
LEMMA SameHandles ==
    ASSUME NEW i \in Procs, HandlesTypes, OwnsHandles(i), LeaksLittle(i),
           slots' = slots, proc'[i].has = proc[i].has, failed'[i] = failed[i]
    PROVE  /\ OwnsHandles(i)' /\ LeaksLittle(i)'
           /\ Held(i)' = Held(i) /\ Leaked(i)' = Leaked(i)
<1>1. Held(i)' = Held(i) /\ Handles(i)' = Handles(i)
  BY DEF Held, Handles
<1>2. Leaked(i)' = Leaked(i)
  BY <1>1 DEF Leaked, Loaded
<1>3. OwnsHandles(i)'
  BY <1>1 DEF OwnsHandles
<1> QED
  BY <1>1, <1>2, <1>3, FewerLeaks

LEMMA Advanced ==
    ASSUME HandlesTypes, NEW i \in Procs, NEW rc \in {"ok", "failed"},
           NEW has \in [Roles -> Slots \cup {Free}], Advance(i, rc, has)
    PROVE  /\ proc' \in [Procs -> LocalVariables]
           /\ proc'[i].call = proc[i].call /\ proc'[i].pos = proc[i].pos + 1
           /\ proc'[i].rc = rc /\ proc'[i].has = has
           /\ \A j \in Procs : j # i => proc'[j] = proc[j]
<1>1. proc[i] \in LocalVariables
  BY DEF HandlesTypes
<1>2. [proc[i] EXCEPT !.pos = @ + 1, !.rc = rc, !.has = has] \in LocalVariables
  <2>1. \A local \in LocalVariables, pos \in Nat :
          [local EXCEPT !.pos = pos, !.rc = rc, !.has = has] \in LocalVariables
    BY DEF LocalVariables
  <2>2. proc[i].pos + 1 \in Nat
    BY LocalTypes
  <2> QED
    BY <1>1, <2>1, <2>2
<1>3. proc' = [proc EXCEPT ![i] = [proc[i] EXCEPT !.pos = @ + 1, !.rc = rc, !.has = has]]
  BY DEF Advance
<1>4. proc'[i] = [proc[i] EXCEPT !.pos = @ + 1, !.rc = rc, !.has = has]
  BY <1>3 DEF HandlesTypes
<1>5. /\ proc'[i].call = proc[i].call /\ proc'[i].pos = proc[i].pos + 1
      /\ proc'[i].rc = rc /\ proc'[i].has = has
  BY <1>1, <1>4 DEF LocalVariables
<1> QED
  BY <1>2, <1>3, <1>5 DEF HandlesTypes

LEMMA Returned ==
    ASSUME HandlesTypes, NEW i \in Procs, NEW result \in {"ok", "threw", "no tpm"},
           Return(i, result)
    PROVE  /\ proc' \in [Procs -> LocalVariables]
           /\ proc'[i].call = "none" /\ proc'[i].rc = "ok"
           /\ proc'[i].has = [role \in Roles |-> Free] /\ proc'[i].result = result
           /\ \A j \in Procs : j # i => proc'[j] = proc[j]
<1>1. Fresh \in LocalVariables
  BY DEF Fresh, LocalVariables
<1>2. [Fresh EXCEPT !.result = result] \in LocalVariables
  BY <1>1 DEF LocalVariables
<1>3. proc'[i] = [Fresh EXCEPT !.result = result]
  BY DEF HandlesTypes, Return
<1> QED
  BY <1>2, <1>3 DEF HandlesTypes, Return, Fresh

-----------------------------------------------------------------------------
(* Each action keeps the invariant.                                        *)

LEMMA ProgramsBegin ==
    ASSUME NEW call \in Calls
    PROVE  1 \in 1..Len(Program(call)) /\ Holds(call, 1) = {} /\ call # "none"
BY DEF Calls, Program, EkPubHash, Seal, Unseal, Holds, EkPubHashHolds, SealHolds, UnsealHolds

\* Where a process stands when it takes a step of its program.
LEMMA AtStep ==
    ASSUME HandlesInv, NEW i \in Procs, ~Idle(i)
    PROVE  /\ proc[i].call \in Calls
           /\ proc[i].pos \in 1..Len(Program(proc[i].call))
           /\ Fits(proc[i].call, proc[i].pos)
<1>1. proc[i].call \in Calls
  BY LocalTypes DEF HandlesInv, Idle
<1>2. proc[i].pos \in 1..Len(Program(proc[i].call))
  BY DEF HandlesInv, Orderly, KeepsStep
<1> QED
  BY <1>1, <1>2, ProgramsFit

LEMMA StartKeeps ==
    ASSUME HandlesInv, NEW i \in Procs, NEW call \in Calls, Start(i, call)
    PROVE  HandlesInv'
<1>1. [Fresh EXCEPT !.call = call, !.pos = 1] \in LocalVariables
  BY DEF Fresh, LocalVariables
<1>2. /\ proc' \in [Procs -> LocalVariables]
      /\ proc'[i] = [Fresh EXCEPT !.call = call, !.pos = 1]
      /\ \A j \in Procs : j # i => proc'[j] = proc[j]
  BY <1>1 DEF Start, HandlesInv, HandlesTypes
<1>3. HandlesTypes'
  BY <1>2 DEF Start, HandlesInv, HandlesTypes
<1>5. /\ proc'[i].call = call /\ proc'[i].pos = 1 /\ proc'[i].rc = "ok"
      /\ proc'[i].has = [role \in Roles |-> Free]
  BY <1>2 DEF Fresh
<1>6. Held(i) = {} /\ proc[i].has = [role \in Roles |-> Free]
  BY LocalTypes DEF Start, HandlesInv, Orderly, KeepsStep, Held
<1>7. /\ OwnsHandles(i)' /\ LeaksLittle(i)'
      /\ Held(i)' = Held(i) /\ Leaked(i)' = Leaked(i)
  BY <1>5, <1>6, SameHandles DEF Start, HandlesInv, Orderly
<1>8. KeepsStep(i)'
  BY <1>5, <1>6, <1>7, ProgramsBegin DEF KeepsStep, Idle
<1>9. Healthy(i)'
  BY <1>5, <1>7 DEF Start, HandlesInv, Orderly, Healthy
<1> QED
  BY <1>2, <1>3, <1>7, <1>8, <1>9, OneProcessSteps DEF Start, Orderly

\* Leaving a call: what was held is leaked, unless it was nothing.
LEMMA Left ==
    ASSUME HandlesInv, NEW i \in Procs, NEW result \in {"ok", "threw", "no tpm"},
           Return(i, result), slots' = slots
    PROVE  /\ OwnsHandles(i)' /\ KeepsStep(i)' /\ Leaked(i)' \subseteq Leaked(i) \cup Handles(i)
           /\ proc'[i].rc = "ok"
<1>1. Held(i)' = {} /\ proc'[i].call = "none" /\ proc'[i].rc = "ok"
  BY Returned DEF HandlesInv, Held
<1> QED
  BY <1>1 DEF OwnsHandles, KeepsStep, Idle, Leaked, Loaded

LEMMA OpenKeeps ==
    ASSUME HandlesInv, NEW i \in Procs, OpenEsys(i) \/ OpenEsysFails(i)
    PROVE  HandlesInv'
<1>1. /\ slots' = slots /\ failed' = failed /\ ~Idle(i) /\ At(i).do = "open"
      /\ faults' \in Nat /\ (faults' = 0 => faults = 0)
  <2>1. faults \in Nat
    BY DEF HandlesInv, HandlesTypes
  <2>2. CASE OpenEsys(i)
    BY <2>1, <2>2 DEF OpenEsys, Step
  <2>3. CASE OpenEsysFails(i)
    <3>1. /\ slots' = slots /\ failed' = failed /\ faults' = faults + 1
          /\ ~Idle(i) /\ At(i).do = "open"
      BY <2>3, Zenon DEF OpenEsysFails, Step
    <3> QED
      BY <2>1, <3>1
  <2> QED
    BY <2>2, <2>3
<1>2. LET call == proc[i].call
          pos == proc[i].pos
      IN  /\ call \in Calls
          /\ Holds(call, pos) = {} /\ Holds(call, pos + 1) = {}
          /\ pos \notin Unchecked(call) /\ pos + 1 \in 1..Len(Program(call))
  BY <1>1, AtStep DEF At, Fits, StepFits, OpenFits
<1>3. Held(i) = {} /\ Handles(i) = {} /\ proc[i].rc = "ok"
  BY <1>1, <1>2, LocalTypes DEF HandlesInv, Orderly, KeepsStep, Handles
<1>4. CASE Return(i, "no tpm")
  <2>1. /\ proc' \in [Procs -> LocalVariables]
        /\ \A j \in Procs : j # i => proc'[j] = proc[j]
    BY <1>4, Returned DEF HandlesInv
  <2>2. HandlesTypes'
    BY <1>1, <2>1 DEF HandlesInv, HandlesTypes
  <2>4. OwnsHandles(i)' /\ KeepsStep(i)' /\ Leaked(i)' \subseteq Leaked(i) /\ proc'[i].rc = "ok"
    BY <1>1, <1>3, <1>4, Left
  <2>5. LeaksLittle(i)' /\ Healthy(i)'
    BY <1>1, <2>4, FewerLeaks DEF HandlesInv, Orderly, Healthy
  <2> QED
    BY <1>1, <2>1, <2>2, <2>4, <2>5, OneProcessSteps DEF Orderly
<1>5. CASE Advance(i, proc[i].rc, proc[i].has)
  <2>1. /\ proc' \in [Procs -> LocalVariables]
        /\ proc'[i].call = proc[i].call /\ proc'[i].pos = proc[i].pos + 1
        /\ proc'[i].rc = "ok" /\ proc'[i].has = proc[i].has
        /\ \A j \in Procs : j # i => proc'[j] = proc[j]
    BY <1>3, <1>5, LocalTypes, Advanced DEF HandlesInv
  <2>2. HandlesTypes'
    BY <1>1, <2>1 DEF HandlesInv, HandlesTypes
  <2>4. /\ OwnsHandles(i)' /\ LeaksLittle(i)'
        /\ Held(i)' = Held(i) /\ Leaked(i)' = Leaked(i)
    BY <1>1, <2>1, SameHandles DEF HandlesInv, Orderly
  <2>5. KeepsStep(i)'
    BY <1>1, <1>2, <1>3, <2>1, <2>4 DEF KeepsStep, Idle
  <2>6. Healthy(i)'
    BY <1>1, <2>1, <2>4 DEF HandlesInv, Orderly, Healthy
  <2> QED
    BY <1>1, <2>1, <2>2, <2>4, <2>5, <2>6, OneProcessSteps DEF Orderly
<1> QED
  BY <1>4, <1>5 DEF OpenEsys, OpenEsysFails

\* Nothing new is loaded: the command makes nothing, finds no slot, or fails.
LEMMA EmptyHandedKeeps ==
    ASSUME HandlesInv, NEW i \in Procs, Step(i, "command"), NEW rc \in {"ok", "failed"},
           Advance(i, rc, proc[i].has), slots' = slots, failed' = failed,
           rc = "ok" => At(i).makes = {} /\ faults' = faults,
           rc = "failed" => ~(EnoughSlots /\ faults' = 0),
           faults' \in Nat, faults' = 0 => faults = 0
    PROVE  HandlesInv'
<1>1. LET call == proc[i].call
          pos == proc[i].pos
      IN  /\ call \in Calls /\ pos \in Nat /\ pos + 1 \in 1..Len(Program(call))
          /\ Holds(call, pos + 1) = Holds(call, pos) \cup At(i).makes
          /\ Doubts(call, pos + 1) = At(i).makes
          /\ pos \notin Unchecked(call) /\ pos + 1 \in Unchecked(call)
          /\ At(i).makes \cap Holds(call, pos) = {}
  <2>1. proc[i].pos \in Nat
    BY LocalTypes DEF HandlesInv
  <2>2. ~Idle(i) /\ At(i).do = "command"
    BY DEF Step
  <2> QED
    BY <2>1, <2>2, AtStep DEF At, Fits, StepFits, CommandFits
<1>2. proc[i].rc = "ok" /\ Held(i) = Holds(proc[i].call, proc[i].pos)
  BY <1>1, LocalTypes DEF Step, HandlesInv, Orderly, KeepsStep
<1>3. /\ proc' \in [Procs -> LocalVariables]
      /\ proc'[i].call = proc[i].call /\ proc'[i].pos = proc[i].pos + 1
      /\ proc'[i].rc = rc /\ proc'[i].has = proc[i].has
      /\ \A j \in Procs : j # i => proc'[j] = proc[j]
  BY LocalTypes, Advanced DEF HandlesInv
<1>4. HandlesTypes'
  BY <1>3 DEF HandlesInv, HandlesTypes
<1>5. /\ OwnsHandles(i)' /\ LeaksLittle(i)'
      /\ Held(i)' = Held(i) /\ Leaked(i)' = Leaked(i)
  BY <1>3, SameHandles DEF HandlesInv, Orderly
<1>6. KeepsStep(i)'
  BY <1>1, <1>2, <1>3, <1>5 DEF Step, KeepsStep, Idle
<1>7. Healthy(i)'
  BY <1>3, <1>5 DEF HandlesInv, Orderly, Healthy
<1> QED
  BY <1>3, <1>4, <1>5, <1>6, <1>7, OneProcessSteps DEF Orderly

\* A command takes a vacant slot for what it makes.
LEMMA LoadingKeeps ==
    ASSUME HandlesInv, NEW i \in Procs, Step(i, "command"),
           NEW role \in At(i).makes, NEW s \in Vacant(role),
           slots' = [slots EXCEPT ![s] = i],
           Advance(i, "ok", [proc[i].has EXCEPT ![role] = s]),
           UNCHANGED <<failed, faults>>
    PROVE  HandlesInv'
<1>1. LET call == proc[i].call
          pos == proc[i].pos
      IN  /\ call \in Calls /\ pos \in Nat /\ pos + 1 \in 1..Len(Program(call))
          /\ Holds(call, pos + 1) = Holds(call, pos) \cup {role}
          /\ pos \notin Unchecked(call) /\ role \notin Holds(call, pos) /\ role \in Roles
  <2>1. proc[i].pos \in Nat
    BY LocalTypes DEF HandlesInv
  <2>2. ~Idle(i) /\ At(i).do = "command"
    BY DEF Step
  <2> QED
    BY <2>1, <2>2, AtStep DEF At, Fits, StepFits, CommandFits
<1>2. proc[i].rc = "ok" /\ Held(i) = Holds(proc[i].call, proc[i].pos)
  BY <1>1, LocalTypes DEF Step, HandlesInv, Orderly, KeepsStep
<1>3. s \in Slots /\ slots[s] = Free /\ s[1] = KindOf(role) /\ s # Free
  BY FreeAssumption DEF Vacant
<1>4. proc[i].has \in [Roles -> Slots \cup {Free}]
  BY LocalTypes DEF HandlesInv
<1>5. /\ proc' \in [Procs -> LocalVariables]
      /\ proc'[i].call = proc[i].call /\ proc'[i].pos = proc[i].pos + 1
      /\ proc'[i].rc = "ok" /\ proc'[i].has = [proc[i].has EXCEPT ![role] = s]
      /\ \A j \in Procs : j # i => proc'[j] = proc[j]
  <2>1. [proc[i].has EXCEPT ![role] = s] \in [Roles -> Slots \cup {Free}]
    BY <1>3, <1>4
  <2> QED
    BY <2>1, Advanced DEF HandlesInv
<1>6. HandlesTypes'
  BY <1>3, <1>5 DEF HandlesInv, HandlesTypes
<1>7. /\ \A other \in Roles \ {role} : proc'[i].has[other] = proc[i].has[other]
      /\ proc'[i].has[role] = s
  BY <1>1, <1>4, <1>5
<1>8. Held(i)' = Held(i) \cup {role} /\ role \notin Held(i)
  BY <1>1, <1>2, <1>3, <1>7 DEF Held
<1>9. \A t \in Slots : slots'[t] = IF t = s THEN i ELSE slots[t]
  BY <1>3 DEF HandlesInv, HandlesTypes
<1>10. \A other \in Held(i) : proc[i].has[other] \in Slots /\ proc[i].has[other] # s
  BY <1>3, <1>4, FreeAssumption DEF HandlesInv, Orderly, OwnsHandles, Held
<1>11. OwnsHandles(i)'
  <2>1. \A other \in Held(i) :
          slots'[proc'[i].has[other]] = i /\ proc'[i].has[other][1] = KindOf(other)
    BY <1>7, <1>8, <1>9, <1>10 DEF HandlesInv, Orderly, OwnsHandles, Held
  <2>2. slots'[proc'[i].has[role]] = i /\ proc'[i].has[role][1] = KindOf(role)
    BY <1>3, <1>7, <1>9
  <2>3. \A one, two \in Held(i) : proc'[i].has[one] = proc'[i].has[two] => one = two
    BY <1>7, <1>8 DEF HandlesInv, Orderly, OwnsHandles, Held
  <2>4. \A other \in Held(i) : proc'[i].has[other] # proc'[i].has[role]
    BY <1>7, <1>8, <1>10 DEF Held
  <2> QED
    BY <1>8, <2>1, <2>2, <2>3, <2>4 DEF OwnsHandles
<1>12. Leaked(i)' \subseteq Leaked(i)
  BY <1>7, <1>8, <1>9 DEF Leaked, Loaded, Handles, Held
<1>13. LeaksLittle(i)'
  BY <1>12, FewerLeaks DEF HandlesInv, Orderly
<1>14. KeepsStep(i)'
  BY <1>1, <1>2, <1>5, <1>8 DEF Step, KeepsStep, Idle
<1>15. Healthy(i)'
  BY <1>5, <1>12 DEF HandlesInv, Orderly, Healthy
<1>16. ASSUME NEW j \in Procs, j # i
       PROVE  \A t \in Slots : slots'[t] = j <=> slots[t] = j
  BY <1>3, <1>9, <1>16, FreeAssumption
<1> QED
  BY <1>5, <1>6, <1>11, <1>13, <1>14, <1>15, <1>16, OneProcessSteps DEF Orderly

LEMMA FlushKeeps ==
    ASSUME HandlesInv, NEW i \in Procs, FlushContext(i)
    PROVE  HandlesInv'
<1>1. PICK role \in At(i).uses :
        /\ slots' = [s \in Slots |-> IF s = proc[i].has[role] THEN Free ELSE slots[s]]
        /\ Advance(i, proc[i].rc, [proc[i].has EXCEPT ![role] = Free])
  BY DEF FlushContext
<1>2. Step(i, "flush") /\ UNCHANGED <<failed, faults>>
  BY Zenon DEF FlushContext
<1>3. LET call == proc[i].call
          pos == proc[i].pos
      IN  /\ call \in Calls /\ pos \in Nat /\ pos + 1 \in 1..Len(Program(call))
          /\ Holds(call, pos + 1) = Holds(call, pos) \ {role}
          /\ Doubts(call, pos + 1) = Doubts(call, pos)
          /\ pos + 1 \in Unchecked(call)
          /\ role \in Holds(call, pos) \ Doubts(call, pos) /\ role \in Roles
  <2>1. proc[i].pos \in Nat
    BY LocalTypes DEF HandlesInv
  <2>2. ~Idle(i) /\ At(i).do = "flush"
    BY <1>2 DEF Step
  <2> QED
    BY <1>1, <2>1, <2>2, AtStep DEF At, Fits, StepFits, FlushFits
<1> DEFINE flushed == proc[i].has[role]
<1>4. proc[i].has \in [Roles -> Slots \cup {Free}]
  BY LocalTypes DEF HandlesInv
<1>5. role \in Held(i) /\ flushed \in Slots /\ slots[flushed] = i
  <2>1. role \in Held(i)
    BY <1>2, <1>3 DEF HandlesInv, Orderly, KeepsStep, Step
  <2> QED
    BY <1>4, <2>1 DEF HandlesInv, Orderly, OwnsHandles, Held
<1>6. /\ proc' \in [Procs -> LocalVariables]
      /\ proc'[i].call = proc[i].call /\ proc'[i].pos = proc[i].pos + 1
      /\ proc'[i].rc = proc[i].rc /\ proc'[i].has = [proc[i].has EXCEPT ![role] = Free]
      /\ \A j \in Procs : j # i => proc'[j] = proc[j]
  <2>1. [proc[i].has EXCEPT ![role] = Free] \in [Roles -> Slots \cup {Free}]
    BY <1>4
  <2>2. proc[i].rc \in {"ok", "failed"}
    BY LocalTypes DEF HandlesInv
  <2> QED
    BY <1>1, <2>1, <2>2, Advanced DEF HandlesInv
<1>7. \A s \in Slots : slots'[s] = IF s = flushed THEN Free ELSE slots[s]
  BY <1>1
<1>8. HandlesTypes'
  <2>1. slots' \in [Slots -> Procs \cup {Free}]
    BY <1>1 DEF HandlesInv, HandlesTypes
  <2> QED
    BY <1>2, <1>6, <2>1 DEF HandlesInv, HandlesTypes
<1>9. /\ \A other \in Roles \ {role} : proc'[i].has[other] = proc[i].has[other]
      /\ proc'[i].has[role] = Free
  BY <1>3, <1>4, <1>6
<1>10. Held(i)' = Held(i) \ {role}
  BY <1>9 DEF Held
<1>11. \A other \in Held(i) \ {role} : proc[i].has[other] \in Slots /\ proc[i].has[other] # flushed
  BY <1>4, <1>5 DEF HandlesInv, Orderly, OwnsHandles, Held
<1>12. OwnsHandles(i)'
  <2>1. \A other \in Held(i) \ {role} :
          slots'[proc'[i].has[other]] = i /\ proc'[i].has[other][1] = KindOf(other)
    BY <1>7, <1>9, <1>11 DEF HandlesInv, Orderly, OwnsHandles, Held
  <2>2. \A one, two \in Held(i) \ {role} : proc'[i].has[one] = proc'[i].has[two] => one = two
    BY <1>9 DEF HandlesInv, Orderly, OwnsHandles, Held
  <2> QED
    BY <1>10, <2>1, <2>2 DEF OwnsHandles
<1>13. Leaked(i)' \subseteq Leaked(i)
  <2> SUFFICES ASSUME NEW s \in Leaked(i)'
               PROVE  s \in Leaked(i)
    OBVIOUS
  <2>1. s \in Slots /\ slots'[s] = i /\ s \notin Handles(i)'
    BY DEF Leaked, Loaded
  <2>2. s # flushed /\ slots[s] = i
    BY <1>7, <2>1, FreeAssumption
  <2>3. \A other \in Held(i) \ {role} : s # proc[i].has[other]
    BY <1>9, <1>10, <2>1 DEF Handles, Held
  <2> QED
    BY <2>1, <2>2, <2>3 DEF Leaked, Loaded, Handles
<1>14. LeaksLittle(i)'
  BY <1>2, <1>13, FewerLeaks DEF HandlesInv, Orderly
<1>15. KeepsStep(i)'
  BY <1>2, <1>3, <1>6, <1>10 DEF HandlesInv, Orderly, Step, KeepsStep, Idle
<1>16. Healthy(i)'
  BY <1>2, <1>6, <1>13 DEF HandlesInv, Orderly, Healthy
<1>17. ASSUME NEW j \in Procs, j # i
       PROVE  \A t \in Slots : slots'[t] = j <=> slots[t] = j
  BY <1>5, <1>7, <1>17, FreeAssumption
<1> QED
  BY <1>2, <1>6, <1>8, <1>12, <1>14, <1>15, <1>16, <1>17, OneProcessSteps DEF Orderly

LEMMA OneMore ==
    ASSUME NEW S, NEW x, IsFiniteSet(S)
    PROVE  /\ IsFiniteSet(S \cup {x}) /\ Cardinality(S \cup {x}) \in Nat
           /\ Cardinality(S \cup {x}) <= Cardinality(S) + 1
<1>1. IsFiniteSet(S \cup {x}) /\ Cardinality(S) \in Nat
  BY FS_AddElement, FS_CardinalityType
<1>2. Cardinality(S \cup {x}) \in Nat
  BY <1>1, FS_CardinalityType
<1>3. CASE x \in S
  BY <1>1, <1>3, S \cup {x} = S
<1>4. CASE x \notin S
  BY <1>1, <1>4, FS_AddElement
<1> QED
  BY <1>1, <1>2, <1>3, <1>4

\* A call that throws leaves at most two things behind.
LEMMA ThrowLeaksTwo ==
    ASSUME HandlesInv, NEW i \in Procs, ~Idle(i)
    PROVE  /\ IsFiniteSet(Leaked(i) \cup Handles(i))
           /\ Cardinality(Leaked(i) \cup Handles(i)) <= Cardinality(Leaked(i)) + 2
           /\ Cardinality(Leaked(i) \cup Handles(i)) \in Nat
<1>1. PICK one, two \in Roles : Holds(proc[i].call, proc[i].pos) \subseteq {one, two}
  BY AtStep DEF Fits, StepFits
<1> DEFINE first == proc[i].has[one]
           second == proc[i].has[two]
<1>2. Handles(i) \subseteq {first, second}
  BY <1>1 DEF Handles, HandlesInv, Orderly, KeepsStep
<1>3. IsFiniteSet(Leaked(i)) /\ Cardinality(Leaked(i)) \in Nat
  BY LoadedFinite
<1>4. /\ IsFiniteSet(Leaked(i) \cup {first})
      /\ Cardinality(Leaked(i) \cup {first}) \in Nat
      /\ Cardinality(Leaked(i) \cup {first}) <= Cardinality(Leaked(i)) + 1
  BY <1>3, OneMore
<1>5. /\ IsFiniteSet((Leaked(i) \cup {first}) \cup {second})
      /\ Cardinality((Leaked(i) \cup {first}) \cup {second}) \in Nat
      /\ Cardinality((Leaked(i) \cup {first}) \cup {second}) <= Cardinality(Leaked(i)) + 2
  <2> DEFINE S == Leaked(i) \cup {first}
  <2> HIDE DEF S, second
  <2>1. /\ IsFiniteSet(S \cup {second}) /\ Cardinality(S \cup {second}) \in Nat
        /\ Cardinality(S \cup {second}) <= Cardinality(S) + 1
    BY <1>4, OneMore DEF S
  <2>2. Cardinality(S \cup {second}) <= Cardinality(Leaked(i)) + 2
    BY <1>3, <1>4, <2>1 DEF S
  <2> QED
    BY <2>1, <2>2 DEF S
<1>6. Leaked(i) \cup Handles(i) \subseteq (Leaked(i) \cup {first}) \cup {second}
  BY <1>2
<1>7. /\ IsFiniteSet(Leaked(i) \cup Handles(i))
      /\ Cardinality(Leaked(i) \cup Handles(i)) <= Cardinality((Leaked(i) \cup {first}) \cup {second})
      /\ Cardinality(Leaked(i) \cup Handles(i)) \in Nat
  BY <1>5, <1>6, FS_Subset, FS_CardinalityType
<1> QED
  BY <1>3, <1>5, <1>7

LEMMA CheckKeeps ==
    ASSUME HandlesInv, NEW i \in Procs, CheckTss2(i)
    PROVE  HandlesInv'
<1>1. /\ slots' = slots /\ faults' = faults /\ ~Idle(i) /\ At(i).do = "check"
  BY Zenon DEF CheckTss2, Step
<1> DEFINE call == proc[i].call
           pos == proc[i].pos
<1>2. /\ call \in Calls /\ pos \in Nat
      /\ IF pos = Len(Program(call)) THEN Holds(call, pos) = {}
         ELSE pos + 1 \in 1..Len(Program(call)) /\ Holds(call, pos + 1) = Holds(call, pos)
  <2>1. pos \in Nat
    BY LocalTypes DEF HandlesInv
  <2> QED
    BY <1>1, <2>1, AtStep DEF At, Fits, CheckFits
<1>3. CASE proc[i].rc = "failed"
  <2>1. Return(i, "threw") /\ failed' = [failed EXCEPT ![i] = @ + 1]
    BY <1>3 DEF CheckTss2
  <2>2. /\ proc' \in [Procs -> LocalVariables]
        /\ \A j \in Procs : j # i => proc'[j] = proc[j]
    BY <2>1, Returned DEF HandlesInv
  <2>3. /\ failed' \in [Procs -> Nat] /\ failed[i] \in Nat /\ failed'[i] = failed[i] + 1
        /\ \A j \in Procs : j # i => failed'[j] = failed[j]
    BY <2>1 DEF HandlesInv, HandlesTypes
  <2>4. HandlesTypes'
    BY <1>1, <2>2, <2>3 DEF HandlesInv, HandlesTypes
  <2>5. OwnsHandles(i)' /\ KeepsStep(i)' /\ Leaked(i)' \subseteq Leaked(i) \cup Handles(i)
    BY <1>1, <2>1, Left
  <2>6. LeaksLittle(i)'
    <3>1. IsFiniteSet(Leaked(i)') /\ Cardinality(Leaked(i)') \in Nat
      BY <1>1, <2>5, ThrowLeaksTwo, FS_Subset, FS_CardinalityType
    <3>2. Cardinality(Leaked(i)') <= Cardinality(Leaked(i) \cup Handles(i))
      BY <1>1, <2>5, ThrowLeaksTwo, FS_Subset
    <3>3. Cardinality(Leaked(i)) <= 2 * failed[i] /\ Cardinality(Leaked(i)) \in Nat
      BY LoadedFinite DEF HandlesInv, Orderly, LeaksLittle
    <3>4. Cardinality(Leaked(i) \cup Handles(i)) <= Cardinality(Leaked(i)) + 2
          /\ Cardinality(Leaked(i) \cup Handles(i)) \in Nat
      BY <1>1, ThrowLeaksTwo
    <3>5. Cardinality(Leaked(i)') <= 2 * failed'[i]
      BY <2>3, <3>1, <3>2, <3>3, <3>4
    <3> QED
      BY <3>5 DEF LeaksLittle
  <2>7. Healthy(i)'
    BY <1>1, <1>3 DEF HandlesInv, Orderly, Healthy
  <2> QED
    BY <1>1, <2>2, <2>3, <2>4, <2>5, <2>6, <2>7, OneProcessSteps DEF Orderly
<1>4. CASE proc[i].rc # "failed"
  <2>1. proc[i].rc = "ok" /\ failed' = failed
    BY <1>4, LocalTypes DEF HandlesInv, CheckTss2
  <2>2. Held(i) = Holds(call, pos)
    BY <1>1, <2>1 DEF HandlesInv, Orderly, KeepsStep
  <2>3. CASE pos = Len(Program(call))
    <3>1. Return(i, "ok")
      BY <1>4, <2>3 DEF CheckTss2
    <3>2. /\ proc' \in [Procs -> LocalVariables]
          /\ \A j \in Procs : j # i => proc'[j] = proc[j]
      BY <3>1, Returned DEF HandlesInv
    <3>3. HandlesTypes'
      BY <1>1, <2>1, <3>2 DEF HandlesInv, HandlesTypes
    <3>4. Handles(i) = {}
      BY <1>2, <2>2, <2>3 DEF Handles
    <3>5. OwnsHandles(i)' /\ KeepsStep(i)' /\ Leaked(i)' \subseteq Leaked(i) /\ proc'[i].rc = "ok"
      BY <1>1, <3>1, <3>4, Left
    <3>6. LeaksLittle(i)' /\ Healthy(i)'
      BY <1>1, <2>1, <3>5, FewerLeaks DEF HandlesInv, Orderly, Healthy
    <3> QED
      BY <1>1, <2>1, <3>2, <3>3, <3>5, <3>6, OneProcessSteps DEF Orderly
  <2>4. CASE pos # Len(Program(call))
    <3>1. Advance(i, "ok", proc[i].has)
      BY <1>4, <2>4 DEF CheckTss2
    <3>2. /\ proc' \in [Procs -> LocalVariables]
          /\ proc'[i].call = call /\ proc'[i].pos = pos + 1
          /\ proc'[i].rc = "ok" /\ proc'[i].has = proc[i].has
          /\ \A j \in Procs : j # i => proc'[j] = proc[j]
      BY <3>1, LocalTypes, Advanced DEF HandlesInv
    <3>3. HandlesTypes'
      BY <1>1, <2>1, <3>2 DEF HandlesInv, HandlesTypes
    <3>4. /\ OwnsHandles(i)' /\ LeaksLittle(i)'
          /\ Held(i)' = Held(i) /\ Leaked(i)' = Leaked(i)
      BY <1>1, <2>1, <3>2, SameHandles DEF HandlesInv, Orderly
    <3>5. KeepsStep(i)'
      BY <1>1, <1>2, <2>2, <2>4, <3>2, <3>4 DEF KeepsStep, Idle
    <3>6. Healthy(i)'
      BY <1>1, <3>2, <3>4 DEF HandlesInv, Orderly, Healthy
    <3> QED
      BY <1>1, <2>1, <3>2, <3>3, <3>4, <3>5, <3>6, OneProcessSteps DEF Orderly
  <2> QED
    BY <2>3, <2>4
<1> QED
  BY <1>3, <1>4

LEMMA ExitKeeps ==
    ASSUME HandlesInv, NEW i \in Procs, NEW cleaned \in BOOLEAN, Exit(i, cleaned)
    PROVE  HandlesInv'
<1>1. Idle(i) /\ faults' = faults
  BY DEF Exit
<1>2. Fresh \in LocalVariables
  BY DEF Fresh, LocalVariables
<1>3. /\ proc' \in [Procs -> LocalVariables] /\ proc'[i] = Fresh
      /\ \A j \in Procs : j # i => proc'[j] = proc[j]
  BY <1>2 DEF Exit, HandlesInv, HandlesTypes
<1>4. /\ slots' \in [Slots -> Procs \cup {Free}] /\ failed' \in [Procs -> Nat]
      /\ \A j \in Procs : j # i => failed'[j] = failed[j]
      /\ \A s \in Slots : slots'[s] = slots[s] \/ (slots[s] = i /\ slots'[s] = Free)
  <2>1. slots \in [Slots -> Procs \cup {Free}] /\ failed \in [Procs -> Nat]
    BY DEF HandlesInv, HandlesTypes
  <2>2. CASE cleaned
    <3>1. /\ slots' = [s \in Slots |-> IF slots[s] = i THEN Free ELSE slots[s]]
          /\ failed' = [failed EXCEPT ![i] = 0]
      BY <2>2 DEF Exit
    <3> QED
      BY <2>1, <3>1
  <2>3. CASE ~cleaned
    BY <2>1, <2>3 DEF Exit
  <2> QED
    BY <2>2, <2>3
<1>5. HandlesTypes'
  BY <1>1, <1>3, <1>4 DEF HandlesInv, HandlesTypes
<1>6. Held(i) = {} /\ Held(i)' = {}
  BY <1>1, <1>3 DEF HandlesInv, Orderly, KeepsStep, Held, Fresh
<1>7. OwnsHandles(i)' /\ KeepsStep(i)' /\ proc'[i].rc = "ok"
  BY <1>3, <1>6 DEF OwnsHandles, KeepsStep, Idle, Fresh
<1>8. Leaked(i)' \subseteq Leaked(i)
  BY <1>4, <1>6, FreeAssumption DEF Leaked, Loaded, Handles
<1>9. LeaksLittle(i)'
  <2>1. CASE cleaned
    <3>1. Leaked(i)' = {} /\ failed'[i] = 0
      BY <2>1, FreeAssumption DEF Exit, Leaked, Loaded, HandlesInv, HandlesTypes
    <3> QED
      BY <3>1, FS_EmptySet DEF LeaksLittle
  <2>2. CASE ~cleaned
    BY <1>8, <2>2, FewerLeaks DEF Exit, HandlesInv, Orderly
  <2> QED
    BY <2>1, <2>2
<1>10. Healthy(i)'
  BY <1>1, <1>7, <1>8 DEF HandlesInv, Orderly, Healthy
<1>11. ASSUME NEW j \in Procs, j # i
       PROVE  \A s \in Slots : slots'[s] = j <=> slots[s] = j
  BY <1>4, <1>11, FreeAssumption
<1> QED
  BY <1>1, <1>3, <1>4, <1>5, <1>7, <1>9, <1>10, <1>11, OneProcessSteps DEF Orderly

-----------------------------------------------------------------------------
(* In a healthy TPM there is a slot for everyone: a full kind would be     *)
(* full of handles, and there are fewer of those than slots.               *)

SlotsOf(role) == {s \in Slots : s[1] = KindOf(role)}
RolesLike(role) == {other \in Roles : KindOf(other) = KindOf(role)}

LEMMA SlotRange ==
    ASSUME NEW n \in Nat, NEW kind
    PROVE  IsFiniteSet({kind} \X (1..n)) /\ Cardinality({kind} \X (1..n)) = n
<1>1. IsFiniteSet(1..n) /\ Cardinality(1..n) = n
  BY FS_Interval
<1>2. IsFiniteSet({kind}) /\ Cardinality({kind}) = 1
  BY FS_Singleton
<1>3. /\ IsFiniteSet({kind} \X (1..n))
      /\ Cardinality({kind} \X (1..n)) = Cardinality({kind}) * Cardinality(1..n)
  BY <1>1, <1>2, FS_Product
<1> QED
  BY <1>1, <1>2, <1>3

LEMMA SlotsSuffice ==
    ASSUME EnoughSlots, NEW role \in Roles
    PROVE  /\ IsFiniteSet(SlotsOf(role)) /\ IsFiniteSet(Procs \X RolesLike(role))
           /\ Cardinality(SlotsOf(role)) \in Nat
           /\ Cardinality(Procs \X RolesLike(role)) \in Nat
           /\ Cardinality(Procs \X RolesLike(role)) <= Cardinality(SlotsOf(role))
<1>1. Cardinality(Procs) \in Nat /\ IsFiniteSet(Procs)
  BY ProcsAssumption, FS_CardinalityType
<1>2. CASE role = "session"
  <2>1. SlotsOf(role) = {"session"} \X (1..SessionSlots) /\ RolesLike(role) = {"session"}
    BY <1>2 DEF SlotsOf, Slots, KindOf, RolesLike, Roles
  <2>2. IsFiniteSet(SlotsOf(role)) /\ Cardinality(SlotsOf(role)) = SessionSlots
    BY <2>1, SlotRange, SlotsAssumption
  <2>3. IsFiniteSet(RolesLike(role)) /\ Cardinality(RolesLike(role)) = 1
    BY <2>1, FS_Singleton
  <2>4. /\ IsFiniteSet(Procs \X RolesLike(role))
        /\ Cardinality(Procs \X RolesLike(role)) = Cardinality(Procs) * Cardinality(RolesLike(role))
    BY <1>1, <2>3, FS_Product
  <2> QED
    BY <1>1, <2>2, <2>3, <2>4, SlotsAssumption DEF EnoughSlots
<1>3. CASE role # "session"
  <2>1. SlotsOf(role) = {"object"} \X (1..ObjectSlots) /\ RolesLike(role) = {"parent", "object"}
    BY <1>3 DEF SlotsOf, Slots, KindOf, RolesLike, Roles
  <2>2. IsFiniteSet(SlotsOf(role)) /\ Cardinality(SlotsOf(role)) = ObjectSlots
    BY <2>1, SlotRange, SlotsAssumption
  <2>3. IsFiniteSet(RolesLike(role)) /\ Cardinality(RolesLike(role)) = 2
    <3>1. IsFiniteSet({"parent"}) /\ Cardinality({"parent"}) = 1
      BY FS_Singleton
    <3>2. /\ IsFiniteSet({"parent"} \cup {"object"})
          /\ Cardinality({"parent"} \cup {"object"})
               = IF "object" \in {"parent"} THEN Cardinality({"parent"})
                 ELSE Cardinality({"parent"}) + 1
      BY <3>1, FS_AddElement
    <3>3. {"parent"} \cup {"object"} = RolesLike(role) /\ "object" \notin {"parent"}
      BY <2>1
    <3> QED
      BY <3>1, <3>2, <3>3
  <2>4. /\ IsFiniteSet(Procs \X RolesLike(role))
        /\ Cardinality(Procs \X RolesLike(role)) = Cardinality(Procs) * Cardinality(RolesLike(role))
    BY <1>1, <2>3, FS_Product
  <2> QED
    BY <1>1, <2>2, <2>3, <2>4, SlotsAssumption DEF EnoughSlots
<1> QED
  BY <1>2, <1>3

LEMMA SlotForEveryone ==
    ASSUME HandlesInv, EnoughSlots, faults = 0, NEW i \in Procs, NEW role \in Roles, role \notin Held(i)
    PROVE  Vacant(role) # {}
<1> SUFFICES ASSUME Vacant(role) = {}
             PROVE  FALSE
  OBVIOUS
<1> DEFINE pairs == (Procs \X RolesLike(role)) \ {<<i, role>>}
           holder == [s \in SlotsOf(role) |->
                         CHOOSE p \in pairs : proc[p[1]].has[p[2]] = s]
<1>1. ASSUME NEW s \in SlotsOf(role)
      PROVE  \E p \in pairs : proc[p[1]].has[p[2]] = s
  <2>1. PICK j \in Procs : slots[s] = j
    <3>1. s \in Slots /\ slots[s] # Free
      BY DEF Vacant, SlotsOf
    <3> QED
      BY <3>1 DEF HandlesInv, HandlesTypes
  <2>2. s \in Handles(j)
    BY <2>1 DEF HandlesInv, Orderly, Healthy, Leaked, Loaded, SlotsOf
  <2>3. PICK other \in Held(j) : proc[j].has[other] = s
    BY <2>2 DEF Handles
  <2>4. other \in RolesLike(role)
    BY <2>3 DEF HandlesInv, Orderly, OwnsHandles, SlotsOf, RolesLike, Held
  <2>5. <<j, other>> # <<i, role>>
    BY <2>3
  <2>6. <<j, other>> \in pairs
    BY <2>4, <2>5
  <2> QED
    BY <2>3, <2>6
<1>2. ASSUME NEW s \in SlotsOf(role)
      PROVE  holder[s] \in pairs /\ proc[holder[s][1]].has[holder[s][2]] = s
  BY <1>1
<1>3. holder \in [SlotsOf(role) -> pairs]
  BY <1>2
<1>4. <<i, role>> \in Procs \X RolesLike(role)
  BY DEF RolesLike
<1>5. IsFiniteSet(pairs) /\ Cardinality(pairs) < Cardinality(SlotsOf(role))
  <2>1. Cardinality(pairs) = Cardinality(Procs \X RolesLike(role)) - 1 /\ IsFiniteSet(pairs)
    BY <1>4, SlotsSuffice, FS_RemoveElement
  <2> HIDE DEF pairs
  <2> QED
    BY <2>1, SlotsSuffice
<1>6. PICK s, t \in SlotsOf(role) : s # t /\ holder[s] = holder[t]
  <2> HIDE DEF pairs, holder
  <2>1. IsFiniteSet(SlotsOf(role))
    BY SlotsSuffice
  <2> QED
    BY <1>3, <1>5, <2>1, FS_PigeonHole
<1> HIDE DEF holder
<1> QED
  BY <1>2, <1>6

LEMMA CommandKeeps ==
    ASSUME HandlesInv, NEW i \in Procs, TpmCommand(i) \/ TpmCommandFails(i)
    PROVE  HandlesInv'
<1>1. CASE TpmCommandFails(i)
  <2>1. /\ Step(i, "command") /\ Advance(i, "failed", proc[i].has)
        /\ slots' = slots /\ failed' = failed /\ faults' = faults + 1
    BY <1>1, Zenon DEF TpmCommandFails
  <2>2. faults \in Nat
    BY DEF HandlesInv, HandlesTypes
  <2>3. faults' \in Nat /\ faults' # 0
    BY <2>1, <2>2
  <2> QED
    BY <2>1, <2>3, EmptyHandedKeeps
<1>2. CASE TpmCommand(i)
  <2>1. Step(i, "command") /\ failed' = failed /\ faults' = faults
    BY <1>2, Zenon DEF TpmCommand
  <2>2. CASE At(i).makes = {} /\ Advance(i, "ok", proc[i].has) /\ slots' = slots
    BY <2>1, <2>2, EmptyHandedKeeps DEF HandlesInv, HandlesTypes
  <2>3. ASSUME NEW role \in At(i).makes, Vacant(role) = {},
               Advance(i, "failed", proc[i].has), slots' = slots
        PROVE  HandlesInv'
    <3>1. ~Idle(i) /\ At(i).do = "command"
      BY <2>1 DEF Step
    <3>2. LET call == proc[i].call
              pos == proc[i].pos
          IN  role \in Roles /\ role \notin Holds(call, pos)
      BY <2>3, <3>1, AtStep DEF At, Fits, CommandFits
    <3>3. role \notin Held(i)
      BY <3>1, <3>2 DEF HandlesInv, Orderly, KeepsStep
    <3>4. faults \in Nat /\ ~(EnoughSlots /\ faults = 0)
      BY <2>3, <3>2, <3>3, SlotForEveryone DEF HandlesInv, HandlesTypes
    <3> QED
      BY <2>1, <2>3, <3>4, EmptyHandedKeeps
  <2>4. ASSUME NEW role \in At(i).makes, NEW s \in Vacant(role),
               slots' = [slots EXCEPT ![s] = i],
               Advance(i, "ok", [proc[i].has EXCEPT ![role] = s])
        PROVE  HandlesInv'
    BY <2>1, <2>4, LoadingKeeps
  <2> QED
    BY <1>2, <2>2, <2>3, <2>4 DEF TpmCommand
<1> QED
  BY <1>1, <1>2

THEOREM HandlesHold == Spec => []HandlesInv
<1>1. Init => HandlesInv
  <2> SUFFICES ASSUME Init
               PROVE  HandlesInv
    OBVIOUS
  <2>1. Fresh \in LocalVariables
    BY DEF Fresh, LocalVariables
  <2>2. HandlesTypes
    BY <2>1 DEF Init, HandlesTypes
  <2>3. ASSUME NEW i \in Procs
        PROVE  Orderly(i)
    <3>1. Held(i) = {} /\ proc[i].call = "none" /\ proc[i].rc = "ok" /\ failed[i] = 0
      BY DEF Init, Held, Fresh
    <3>2. Leaked(i) = {}
      BY FreeAssumption DEF Init, Leaked, Loaded
    <3> QED
      BY <3>1, <3>2, FS_EmptySet
         DEF Orderly, OwnsHandles, KeepsStep, Idle, LeaksLittle, Healthy
  <2> QED
    BY <2>2, <2>3 DEF HandlesInv
<1>2. HandlesInv /\ [Next]_vars => HandlesInv'
  <2> SUFFICES ASSUME HandlesInv, [Next]_vars
               PROVE  HandlesInv'
    OBVIOUS
  <2>1. CASE UNCHANGED vars
    <3>1. HandlesTypes'
      BY <2>1 DEF vars, HandlesInv, HandlesTypes
    <3>2. ASSUME NEW i \in Procs
          PROVE  Orderly(i)'
      BY <2>1, OthersStayOrderly DEF vars, HandlesInv
    <3> QED
      BY <3>1, <3>2 DEF HandlesInv
  <2>2. CASE Next
    BY <2>2, StartKeeps, OpenKeeps, CommandKeeps, FlushKeeps, CheckKeeps, ExitKeeps DEF Next
  <2> QED
    BY <2>1, <2>2
<1> QED
  BY <1>1, <1>2, PTL DEF Spec

\* No call ever hands the TPM a handle it has flushed, never got, or that is
\* another process's by now, however many processes share the TPM and whichever
\* of their commands fail (tpm_linux.cpp:274-390).
THEOREM OnlyOwnHandlesAreUsed == Spec => []UsesWhatItLoaded
<1>1. HandlesInv => UsesWhatItLoaded
  <2> SUFFICES ASSUME HandlesInv, NEW i \in Procs, ~Idle(i), NEW role \in At(i).uses
               PROVE  proc[i].has[role] # Free /\ slots[proc[i].has[role]] = i
    BY DEF UsesWhatItLoaded
  <2>1. LET call == proc[i].call
            pos == proc[i].pos
        IN  role \in Holds(call, pos) \ Doubts(call, pos)
    BY AtStep DEF At, Fits, StepFits
  <2>2. role \in Held(i)
    BY <2>1 DEF HandlesInv, Orderly, KeepsStep
  <2> QED
    BY <2>2 DEF HandlesInv, Orderly, OwnsHandles, Held
<1> QED
  BY <1>1, HandlesHold, PTL

\* What a process leaves in the TPM between its calls is what its throwing calls
\* had loaded, two things for each at most; a call that succeeds leaves nothing
\* (tpm_linux.cpp:277-283, 375-376).
THEOREM OnlyThrowsLeak == Spec => []LeaksOnlyByThrowing
<1>1. HandlesInv => LeaksOnlyByThrowing
  <2> SUFFICES ASSUME HandlesInv, NEW i \in Procs, Idle(i)
               PROVE  Cardinality(Loaded(i)) <= 2 * failed[i]
    BY DEF LeaksOnlyByThrowing
  <2>1. Leaked(i) = Loaded(i)
    BY DEF HandlesInv, Orderly, KeepsStep, Handles, Leaked
  <2> QED
    BY <2>1 DEF HandlesInv, Orderly, LeaksLittle
<1> QED
  BY <1>1, HandlesHold, PTL

-----------------------------------------------------------------------------
(* Connections are counted one by one, so that they run out exactly at the *)
(* number there are.                                                       *)

ConnectionsInv ==
    /\ conns \in [Procs -> Nat]
    /\ Connections <= MaxConnections

LEMMA ConnectionsFinite ==
    /\ IsFiniteSet(OpenConnections)
    /\ Connections \in Nat
<1>1. IsFiniteSet(1..MaxConnections)
  BY BoundsAssumption, FS_Interval
<1>2. IsFiniteSet(Procs \X (1..MaxConnections))
  BY <1>1, ProcsAssumption, FS_Product
<1>3. OpenConnections \subseteq Procs \X (1..MaxConnections)
  BY DEF OpenConnections
<1> QED
  BY <1>2, <1>3, FS_Subset, FS_CardinalityType DEF Connections

LEMMA ConnectionsHold == Spec => []ConnectionsInv
<1>1. Init => ConnectionsInv
  <2> SUFFICES ASSUME Init
               PROVE  ConnectionsInv
    OBVIOUS
  <2>1. OpenConnections = {}
    BY BoundsAssumption DEF Init, OpenConnections
  <2>2. Connections = 0
    BY <2>1, FS_EmptySet DEF Connections
  <2> QED
    BY <2>2, BoundsAssumption DEF Init, ConnectionsInv
<1>2. ConnectionsInv /\ [Next]_vars => ConnectionsInv'
  <2> SUFFICES ASSUME ConnectionsInv, [Next]_vars
               PROVE  ConnectionsInv'
    OBVIOUS
  <2>1. ASSUME conns' = conns
        PROVE  ConnectionsInv'
    BY <2>1 DEF ConnectionsInv, Connections, OpenConnections
  <2>2. ASSUME NEW i \in Procs, Connections < MaxConnections, conns' = [conns EXCEPT ![i] = @ + 1]
        PROVE  ConnectionsInv'
    <3>1. conns' \in [Procs -> Nat]
      BY <2>2 DEF ConnectionsInv
    <3>2. OpenConnections' \subseteq OpenConnections \cup {<<i, conns[i] + 1>>}
      <4> SUFFICES ASSUME NEW j \in Procs, NEW n \in 1..MaxConnections, n <= conns'[j]
                   PROVE  <<j, n>> \in OpenConnections \cup {<<i, conns[i] + 1>>}
        BY DEF OpenConnections
      <4>1. CASE j = i /\ n = conns[i] + 1
        BY <4>1
      <4>2. CASE ~(j = i /\ n = conns[i] + 1)
        <5>1. n <= conns[j]
          BY <2>2, <4>2, BoundsAssumption DEF ConnectionsInv
        <5> QED
          BY <5>1 DEF OpenConnections
      <4> QED
        BY <4>1, <4>2
    <3>3. /\ IsFiniteSet(OpenConnections \cup {<<i, conns[i] + 1>>})
          /\ Cardinality(OpenConnections \cup {<<i, conns[i] + 1>>}) \in Nat
          /\ Cardinality(OpenConnections \cup {<<i, conns[i] + 1>>}) <= Connections + 1
      BY ConnectionsFinite, OneMore DEF Connections
    <3>4. /\ IsFiniteSet(OpenConnections')
          /\ Cardinality(OpenConnections')
                <= Cardinality(OpenConnections \cup {<<i, conns[i] + 1>>})
      BY <3>2, <3>3, FS_Subset
    <3>5. Cardinality(OpenConnections') \in Nat
      BY <3>4, FS_CardinalityType
    <3>6. Connections' <= MaxConnections
      BY <2>2, <3>3, <3>4, <3>5, ConnectionsFinite, BoundsAssumption DEF Connections
    <3> QED
      BY <3>1, <3>6 DEF ConnectionsInv
  <2>3. ASSUME NEW i \in Procs, conns' = [conns EXCEPT ![i] = 0]
        PROVE  ConnectionsInv'
    <3>1. conns' \in [Procs -> Nat]
      BY <2>3 DEF ConnectionsInv
    <3>2. OpenConnections' \subseteq OpenConnections
      BY <2>3, BoundsAssumption DEF OpenConnections, ConnectionsInv
    <3>3. IsFiniteSet(OpenConnections') /\ Connections' <= Connections
      BY <3>2, ConnectionsFinite, FS_Subset DEF Connections
    <3>4. Connections' \in Nat
      BY <3>3, FS_CardinalityType DEF Connections
    <3> QED
      BY <3>1, <3>3, <3>4, ConnectionsFinite, BoundsAssumption DEF ConnectionsInv
  <2>4. CASE UNCHANGED vars
    BY <2>1, <2>4 DEF vars
  <2>5. CASE Next
    <3>1. PICK i \in Procs :
            \/ \E call \in Calls : Start(i, call)
            \/ OpenEsys(i) \/ OpenEsysFails(i)
            \/ TpmCommand(i) \/ TpmCommandFails(i)
            \/ FlushContext(i) \/ CheckTss2(i)
            \/ \E cleaned \in BOOLEAN : Exit(i, cleaned)
      BY <2>5, Zenon DEF Next
    <3>2. \/ conns' = conns
          \/ Connections < MaxConnections /\ conns' = [conns EXCEPT ![i] = @ + 1]
          \/ conns' = [conns EXCEPT ![i] = 0]
      BY <3>1, Zenon DEF Start, OpenEsys, OpenEsysFails, TpmCommand, TpmCommandFails,
                         FlushContext, CheckTss2, Exit
    <3> QED
      BY <2>1, <2>2, <2>3, <3>2
  <2> QED
    BY <2>4, <2>5
<1> QED
  BY <1>1, <1>2, PTL DEF Spec

\* As long as no command has failed, a call succeeds or does not find a free
\* connection: the slots are enough for any number of processes, if there are
\* two for objects and one for sessions for each (tpm_linux.cpp:86-98).
THEOREM HealthyTpmSuffices ==
    ASSUME EnoughSlots
    PROVE  Spec => HealthyTpmAnswers
<1>1. ASSUME HandlesInv, ConnectionsInv, [Next]_vars
      PROVE  [\A i \in Procs :
                 ~Idle(i) /\ Idle(i)' /\ faults' = 0 =>
                     \/ proc'[i].result = "ok"
                     \/ proc'[i].result = "no tpm" /\ Connections = MaxConnections]_vars
  <2> SUFFICES ASSUME Next, NEW i \in Procs, ~Idle(i), Idle(i)', faults' = 0
               PROVE  \/ proc'[i].result = "ok"
                      \/ proc'[i].result = "no tpm" /\ Connections = MaxConnections
    BY <1>1
  <2>1. PICK j \in Procs :
          \/ \E call \in Calls : Start(j, call)
          \/ OpenEsys(j) \/ OpenEsysFails(j)
          \/ TpmCommand(j) \/ TpmCommandFails(j)
          \/ FlushContext(j) \/ CheckTss2(j)
          \/ \E cleaned \in BOOLEAN : Exit(j, cleaned)
    BY Zenon DEF Next
  <2>2. HandlesTypes /\ faults \in Nat
    BY <1>1 DEF HandlesInv, HandlesTypes
  <2>3. ASSUME NEW rc \in {"ok", "failed"}, NEW has \in [Roles -> Slots \cup {Free}],
               Advance(j, rc, has)
        PROVE  FALSE
    BY <2>2, <2>3, Advanced DEF Idle
  <2>4. j = i
    <3> SUFFICES ASSUME j # i
                 PROVE  proc'[i] = proc[i]
      BY DEF Idle
    <3> QED
      BY <2>1, <2>2 DEF Start, OpenEsys, OpenEsysFails, TpmCommand, TpmCommandFails,
            FlushContext, CheckTss2, Exit, Advance, Return, HandlesTypes
  <2>5. proc[j].rc \in {"ok", "failed"} /\ proc[j].has \in [Roles -> Slots \cup {Free}]
    BY <2>2, LocalTypes
  <2>6. CASE OpenEsys(j)
    <3>1. ~(Connections < MaxConnections) /\ Return(j, "no tpm")
      <4>1. \/ Advance(j, proc[j].rc, proc[j].has)
            \/ ~(Connections < MaxConnections) /\ Return(j, "no tpm")
        BY <2>6, Zenon DEF OpenEsys
      <4> QED
        BY <2>3, <2>5, <4>1
    <3>2. Connections = MaxConnections
      <4>1. Connections \in Nat /\ Connections <= MaxConnections
        BY <1>1, ConnectionsFinite DEF ConnectionsInv
      <4>2. ~(Connections < MaxConnections)
        BY <3>1
      <4> QED
        BY <4>1, <4>2, BoundsAssumption
    <3> QED
      BY <2>2, <2>4, <3>1, <3>2, Returned
  <2>7. CASE CheckTss2(j)
    <3>1. faults' = faults /\ proc[j].rc = "ok"
      <4>1. faults' = faults
        BY <2>7, Zenon DEF CheckTss2
      <4> QED
        BY <1>1, <4>1 DEF HandlesInv, Orderly, Healthy
    <3>2. Return(j, "ok")
      BY <2>3, <2>5, <2>7, <3>1 DEF CheckTss2
    <3> QED
      BY <2>2, <2>4, <3>2, Returned
  <2>8. CASE OpenEsysFails(j) \/ TpmCommandFails(j)
    <3>1. faults' = faults + 1
      BY <2>8, Zenon DEF OpenEsysFails, TpmCommandFails
    <3>2. faults \in Nat
      BY <2>2
    <3>3. faults + 1 # 0
      BY <3>2
    <3> QED
      BY <3>1, <3>3
  <2>9. CASE FlushContext(j)
    <3>1. PICK role \in At(j).uses :
            Advance(j, proc[j].rc, [proc[j].has EXCEPT ![role] = Free])
      BY <2>9 DEF FlushContext
    <3>2. [proc[j].has EXCEPT ![role] = Free] \in [Roles -> Slots \cup {Free}]
      BY <2>5
    <3> QED
      BY <2>3, <2>5, <3>1, <3>2
  <2>10. CASE TpmCommand(j)
    <3>1. ASSUME NEW role, NEW s \in Vacant(role),
                 Advance(j, "ok", [proc[j].has EXCEPT ![role] = s])
          PROVE  FALSE
      <4>1. [proc[j].has EXCEPT ![role] = s] \in [Roles -> Slots \cup {Free}]
        BY <2>5, <3>1 DEF Vacant
      <4> QED
        BY <2>3, <3>1, <4>1
    <3> QED
      BY <2>3, <2>5, <2>10, <3>1 DEF TpmCommand
  <2>11. CASE \E call \in Calls : Start(j, call)
    BY <2>4, <2>11 DEF Start
  <2>12. CASE \E cleaned \in BOOLEAN : Exit(j, cleaned)
    BY <2>4, <2>12 DEF Exit
  <2> QED
    BY <2>1, <2>6, <2>7, <2>8, <2>9, <2>10, <2>11, <2>12
<1> QED
  BY <1>1, HandlesHold, ConnectionsHold, PTL DEF Spec, HealthyTpmAnswers

=============================================================================
