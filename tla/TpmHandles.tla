----------------------------- MODULE TpmHandles -----------------------------
(***************************************************************************)
(* The ESAPI provider at the grain of TPM commands (tpm_linux.cpp): what   *)
(* each call loads into the few slots of the TPM, uses and flushes, when   *)
(* any command may fail and several processes share the TPM, at worst      *)
(* without a resource manager between them.  TpmProvider has the same      *)
(* calls as operators that succeed or not.                                 *)
(***************************************************************************)
EXTENDS Integers, Sequences, FiniteSets

CONSTANTS
    Procs,                      \* processes of the host
    Free,                       \* an empty slot, a handle that is ESYS_TR_NONE
    ObjectSlots, SessionSlots,  \* how many of each the TPM has
    MaxConnections,             \* TCTI connections it takes at once; a raw device takes 1
    MaxCalls, MaxFaults         \* bounds for TLC

Slots == ({"object"} \X (1..ObjectSlots)) \cup ({"session"} \X (1..SessionSlots))

ASSUME ProcsAssumption == IsFiniteSet(Procs)
ASSUME SlotsAssumption == ObjectSlots \in Nat /\ SessionSlots \in Nat
ASSUME FreeAssumption == Free \notin Procs /\ Free \notin Slots
ASSUME BoundsAssumption == MaxConnections \in Nat

VARIABLES
    slots,      \* [Slots -> the process that loaded it, or Free]
    conns,      \* [Procs -> connections opened since the process began]
    proc,       \* [Procs -> the call under way and its local variables]
    failed,     \* [Procs -> its calls that threw]
    calls, faults   \* counted for the bounds

vars == <<slots, conns, proc, failed, calls, faults>>

-----------------------------------------------------------------------------
(* A call is a list of steps.  A command may load something into a slot,   *)
(* named by the variable that gets the handle; its result code waits for   *)
(* the check_tss2 behind it, which may come after a flush.                 *)

Roles == {"parent", "object", "session"}
KindOf(role) == IF role = "session" THEN "session" ELSE "object"

Command(uses, makes) == [do |-> "command", uses |-> uses, makes |-> makes]
Flush(role) == [do |-> "flush", uses |-> {role}, makes |-> {}]
Check == [do |-> "check", uses |-> {}, makes |-> {}]
Open == [do |-> "open", uses |-> {}, makes |-> {}]

\* The commands, with the handles they take and make.  _get_storage_parent and
\* the EK are both a CreatePrimary; marshalling may fail like a command.
CreatePrimary == Command({}, {"parent"})
StartAuthSession == Command({}, {"session"})
PolicyPCR == Command({"session"}, {})
PolicyGetDigest == Command({"session"}, {})
Create == Command({"parent"}, {})
Load == Command({"parent"}, {"object"})
UnsealObject == Command({"object", "session"}, {})
Marshal == Command({}, {})

\* Mutant of EkPubHash: the key stays loaded.
EkPubHashKept == <<Open, CreatePrimary, Check, Marshal, Check>>

EkPubHash == <<Open, CreatePrimary, Check, Marshal, Flush("parent"), Check>>

\* Mutant of Seal: the parent flushed as early as the session.
SealFlushedEarly ==
    <<Open, CreatePrimary, Check, StartAuthSession, Check, PolicyPCR, Check,
      PolicyGetDigest, Flush("session"), Flush("parent"), Check, Create, Check>>

\* create_pcr_policy_session stands between the parent and the digest.
Seal ==
    <<Open, CreatePrimary, Check, StartAuthSession, Check, PolicyPCR, Check,
      PolicyGetDigest, Flush("session"), Check, Create, Flush("parent"), Check>>

\* Mutant of Unseal: the result code is looked at before the flushes.
UnsealCheckedFirst ==
    <<Open, CreatePrimary, Check, Load, Flush("parent"), Check,
      StartAuthSession, Check, PolicyPCR, Check,
      UnsealObject, Check, Flush("session"), Check>>

Unseal ==
    <<Open, CreatePrimary, Check, Load, Flush("parent"), Check,
      StartAuthSession, Check, PolicyPCR, Check,
      UnsealObject, Flush("session"), Flush("object"), Check>>

\* get_or_create_device_key seals a new seed; the calls of one command are
\* those of a provider of its own, opened by create_provider.
Calls == {"ek_pub_hash", "seal", "unseal"}
Program(call) ==
    CASE call = "ek_pub_hash" -> EkPubHash [] call = "seal" -> Seal [] call = "unseal" -> Unseal

-----------------------------------------------------------------------------
Fresh == [call |-> "none", pos |-> 0, rc |-> "ok", has |-> [role \in Roles |-> Free],
          result |-> "none"]

Idle(i) == proc[i].call = "none"
At(i) == Program(proc[i].call)[proc[i].pos]
OpenConnections == {c \in Procs \X (1..MaxConnections) : c[2] <= conns[c[1]]}
Connections == Cardinality(OpenConnections)
Vacant(role) == {s \in Slots : s[1] = KindOf(role) /\ slots[s] = Free}

Step(i, do) == ~Idle(i) /\ At(i).do = do

Start(i, call) ==
    /\ Idle(i) /\ calls < MaxCalls
    /\ calls' = calls + 1
    /\ proc' = [proc EXCEPT ![i] = [Fresh EXCEPT !.call = call, !.pos = 1]]
    /\ UNCHANGED <<slots, conns, failed, faults>>

\* On to the next step of the call, or out of it.
Advance(i, rc, has) ==
    proc' = [proc EXCEPT ![i] = [proc[i] EXCEPT !.pos = @ + 1, !.rc = rc, !.has = has]]
Return(i, result) == proc' = [proc EXCEPT ![i] = [Fresh EXCEPT !.result = result]]

\* open_esys.  Esys_Finalize, when the context goes, leaves the TCTI that was
\* given to Esys_Initialize open, and nothing else closes it; only when
\* Esys_Initialize itself fails is it finalized.  A command whose provider does
\* not open does without the TPM.
OpenEsys(i) ==
    /\ Step(i, "open")
    /\ IF Connections < MaxConnections
       THEN /\ conns' = [conns EXCEPT ![i] = @ + 1]
            /\ Advance(i, proc[i].rc, proc[i].has)
       ELSE Return(i, "no tpm") /\ UNCHANGED conns
    /\ UNCHANGED <<slots, failed, calls, faults>>

OpenEsysFails(i) ==
    /\ Step(i, "open") /\ faults < MaxFaults
    /\ faults' = faults + 1
    /\ Return(i, "no tpm")
    /\ UNCHANGED <<slots, conns, failed, calls>>

\* A command of the TPM: it needs a slot for what it makes, whichever the TPM
\* takes, and may fail anyway.
TpmCommand(i) ==
    /\ Step(i, "command")
    /\ \/ /\ At(i).makes = {}
          /\ Advance(i, "ok", proc[i].has)
          /\ UNCHANGED slots
       \/ \E role \in At(i).makes :
             IF Vacant(role) = {}
             THEN /\ Advance(i, "failed", proc[i].has)
                  /\ UNCHANGED slots
             ELSE \E s \in Vacant(role) :
                     /\ slots' = [slots EXCEPT ![s] = i]
                     /\ Advance(i, "ok", [proc[i].has EXCEPT ![role] = s])
    /\ UNCHANGED <<conns, failed, calls, faults>>

TpmCommandFails(i) ==
    /\ Step(i, "command") /\ faults < MaxFaults
    /\ faults' = faults + 1
    /\ Advance(i, "failed", proc[i].has)
    /\ UNCHANGED <<slots, conns, failed, calls>>

\* Esys_FlushContext, its result unread.
FlushContext(i) ==
    /\ Step(i, "flush")
    /\ \E role \in At(i).uses :
          /\ slots' = [s \in Slots |-> IF s = proc[i].has[role] THEN Free ELSE slots[s]]
          /\ Advance(i, proc[i].rc, [proc[i].has EXCEPT ![role] = Free])
    /\ UNCHANGED <<conns, failed, calls, faults>>

\* check_tss2 throws, past every flush that was still to come.
CheckTss2(i) ==
    /\ Step(i, "check")
    /\ IF proc[i].rc = "failed"
       THEN Return(i, "threw") /\ failed' = [failed EXCEPT ![i] = @ + 1]
       ELSE /\ IF proc[i].pos = Len(Program(proc[i].call)) THEN Return(i, "ok")
               ELSE Advance(i, "ok", proc[i].has)
            /\ UNCHANGED failed
    /\ UNCHANGED <<slots, conns, calls, faults>>

\* The process ends and another takes its place; its connections go with it, and
\* what it left in the TPM if a resource manager cleans up behind it.
Exit(i, cleaned) ==
    /\ Idle(i) /\ conns[i] > 0
    /\ conns' = [conns EXCEPT ![i] = 0]
    /\ proc' = [proc EXCEPT ![i] = Fresh]
    /\ IF cleaned
       THEN /\ slots' = [s \in Slots |-> IF slots[s] = i THEN Free ELSE slots[s]]
            /\ failed' = [failed EXCEPT ![i] = 0]
       ELSE UNCHANGED <<slots, failed>>
    /\ UNCHANGED <<calls, faults>>

Init ==
    /\ slots = [s \in Slots |-> Free]
    /\ conns = [i \in Procs |-> 0]
    /\ proc = [i \in Procs |-> Fresh]
    /\ failed = [i \in Procs |-> 0]
    /\ calls = 0 /\ faults = 0

Next ==
    \E i \in Procs :
        \/ \E call \in Calls : Start(i, call)
        \/ OpenEsys(i) \/ OpenEsysFails(i)
        \/ TpmCommand(i) \/ TpmCommandFails(i)
        \/ FlushContext(i) \/ CheckTss2(i)
        \/ \E cleaned \in BOOLEAN : Exit(i, cleaned)

Spec == Init /\ [][Next]_vars

-----------------------------------------------------------------------------
Loaded(i) == {s \in Slots : slots[s] = i}

\* No call hands the TPM a handle that it has flushed or never got, or that
\* another process has meanwhile been given, whichever of its commands failed
\* (tpm_linux.cpp:274-390).
UsesWhatItLoaded ==
    \A i \in Procs :
        ~Idle(i) => \A role \in At(i).uses :
                        /\ proc[i].has[role] # Free
                        /\ slots[proc[i].has[role]] = i

\* A call that succeeds leaves nothing in the TPM; one that throws between
\* loading and flushing leaves what it had, a parent or an object and a session
\* at most (tpm_linux.cpp:277-283, 375-376).
LeaksOnlyByThrowing ==
    \A i \in Procs : Idle(i) => Cardinality(Loaded(i)) <= 2 * failed[i]

\* A call holds two objects and a session at most (tpm_linux.cpp:357-372).
EnoughSlots ==
    /\ ObjectSlots >= 2 * Cardinality(Procs)
    /\ SessionSlots >= Cardinality(Procs)

\* As long as no command has failed, so many slots are enough: processes that share
\* the TPM, without anything but the TPM itself to separate them, do not make
\* each other's calls fail.  Only connections, which are never closed, can run
\* out, in processes that go on (tpm_linux.cpp:86-98).
HealthyTpmAnswers ==
    [][\A i \in Procs :
          ~Idle(i) /\ Idle(i)' /\ faults' = 0 =>
              \/ proc'[i].result = "ok"
              \/ proc'[i].result = "no tpm" /\ Connections = MaxConnections]_vars
=============================================================================
