---------------------------- MODULE ClientStore ----------------------------
(***************************************************************************)
(* The files of one customer's account, used by several client processes   *)
(* at once (license-client runs, and products that embed the library), at  *)
(* the grain of file-system calls: client/src/license_client.cpp and the   *)
(* software provider, common/src/tpm_software.cpp.  No lock, no temporary  *)
(* file, no fsync: every file is truncated in place and then written.      *)
(*                                                                         *)
(* Tokens, fingerprints and clocks are LicenseExchange's business: here    *)
(* every token is good and stays good, so that a licence which fails to    *)
(* verify was lost by the store.                                           *)
(***************************************************************************)
EXTENDS Integers, Sequences, FileSystem

CONSTANTS
    Procs,          \* client processes
    Products,
    Tokens,         \* tokens the customer has received
    ProductOf,      \* [Tokens -> Products]
    SizeOf,         \* [Tokens -> bytes of the sealed token]
    OldSecret,      \* the machine secret of an account used before, or Absent
    Absent,         \* no file, no blob, no secret
    FaultKinds,     \* subset of {"crash", "short write"}
    MaxCommands,    \* bound: commands run
    MaxFaults       \* bound: faults of those kinds

ASSUME TokenAssumption ==
    ProductOf \in [Tokens -> Products] /\ SizeOf \in [Tokens -> Nat \ {0}]
ASSUME BoundsAssumption == MaxCommands \in Nat /\ MaxFaults \in Nat
ASSUME SecretAssumption == OldSecret \notin Procs /\ Absent \notin Procs

VARIABLES
    file,       \* [Files -> contents or Absent]
    proc,       \* [Procs -> the process's command and what it remembers]
    commands,   \* commands started so far
    faults,     \* crashes and short writes so far
    held,       \* products whose activation was reported and must be there
    live        \* products that may be licensed, for all the customer knows

promises == <<held, live>>
vars == <<file, proc, commands, faults, promises>>

-----------------------------------------------------------------------------
(* The account's files, and what a sealed one can be opened with.          *)

SecretFile == <<".machine_secret">>
LicFile(p) == <<"lic", p>>
SealedFile(p) == <<"sealed", p>>
DevkeyFile(p) == <<"devkey", p>>
Files == {SecretFile} \cup
         UNION {{LicFile(p), SealedFile(p), DevkeyFile(p)} : p \in Products}

Secret(s) == Contents(<<"secret", s>>, 32)
Sealed(s, label, value, size) == Contents(<<"sealed", s, label, value>>, size)
DevkeySize == 92

\* _unseal_blob: the key comes from the secret and the label.
Unseals(s, label, contents) ==
    /\ contents.of[1] = "sealed"
    /\ contents.of[2] = s /\ contents.of[3] = label

Readable(contents) == contents # Absent /\ contents.of[1] = "secret"

-----------------------------------------------------------------------------
(* Processes.  `todo' are the writes the command still has to do, `fd' says *)
(* whether the file being written is still the one its path names.          *)

Ops == {"activate", "verify", "deactivate", "generate-request"}
Command(op, p, t) == [op |-> op, product |-> p, token |-> t]
Commands ==
    {Command(op, p, Absent) : op \in Ops \ {"activate"}, p \in Products} \cup
    {Command("activate", ProductOf[t], t) : t \in Tokens}

\* `rivals' are the commands that ran at the same time as this one, `licensed'
\* says whether its product was live when it started.  Neither guides a step.
Idle == [cmd |-> Absent, pc |-> "idle", todo |-> <<>>, fd |-> "none",
         blob |-> Absent, result |-> "none", rivals |-> {}, licensed |-> FALSE]

Busy(i) == proc[i].pc # "idle"

Write(f, contents) == [file |-> f, contents |-> contents]

\* Mutants of Sought: another file is looked for.
SoughtElsewhere(cmd) == IF cmd.op = "verify" THEN LicFile(cmd.product)
                                             ELSE DevkeyFile(cmd.product)
SoughtLicence(cmd) == LicFile(cmd.product)

\* The file a command looks for first.
Sought(cmd) == IF cmd.op = "generate-request" THEN DevkeyFile(cmd.product)
                                              ELSE LicFile(cmd.product)
Label(cmd) == IF cmd.op = "generate-request" THEN <<"devkey", cmd.product>>
                                             ELSE <<"license", cmd.product>>

Goto(i, pc) == proc' = [proc EXCEPT ![i].pc = pc]

\* Mutant of Finished: the stream is left open.
FinishedUnclosed(i, result) ==
    [proc[i] EXCEPT !.pc = "idle", !.todo = <<>>, !.blob = Absent, !.result = result]

Finished(i, result) ==
    [proc[i] EXCEPT !.pc = "idle", !.todo = <<>>, !.fd = "none",
                    !.blob = Absent, !.result = result]

\* What the customer may rely on when a command ends.  An activate that reports
\* success promises the licence and a deactivate that reports success promises
\* its absence, unless the other ran at the same time; an activate cut short
\* may have emptied the licence it was to replace.
Rival(i, op) ==
    \E c \in proc[i].rivals : c.op = op /\ c.product = proc[i].cmd.product

Promise(i, result) ==
    LET op == proc[i].cmd.op
        p  == proc[i].cmd.product
    IN  /\ held' = CASE op = "activate" /\ result = "ok" /\ ~Rival(i, "deactivate") ->
                           held \cup {p}
                     [] op = "activate" /\ result = "crashed" -> held \ {p}
                     [] OTHER -> held
        /\ live' = IF op = "deactivate" /\ result = "ok" /\ ~Rival(i, "activate")
                   THEN live \ {p} ELSE live

Finish(i, result) ==
    /\ proc' = [proc EXCEPT ![i] = Finished(i, result)]
    /\ Promise(i, result)

\* Main starts a command.
Start(i, cmd) ==
    LET busy == {j \in Procs : proc[j].pc # "idle"}
    IN  /\ proc[i].pc = "idle" /\ commands < MaxCommands
        /\ commands' = commands + 1
        /\ proc' = [j \in Procs |->
              IF j = i
              THEN [Idle EXCEPT !.cmd = cmd,
                        !.pc = IF cmd.op = "activate" THEN "key" ELSE "find",
                        !.rivals = {proc[k].cmd : k \in busy},
                        !.licensed = cmd.product \in live]
              ELSE IF j \in busy THEN [proc[j] EXCEPT !.rivals = @ \cup {cmd}]
              ELSE proc[j]]
        /\ held' = IF cmd.op = "deactivate" THEN held \ {cmd.product} ELSE held
        /\ live' = IF cmd.op = "activate" THEN live \cup {cmd.product} ELSE live
        /\ UNCHANGED <<file, faults>>

\* fs::exists on the licence (verify, deactivate) or the device key.
Find(i) ==
    LET cmd == proc[i].cmd
        there == file[Sought(cmd)] # Absent
    IN  /\ proc[i].pc = "find"
        /\ CASE cmd.op = "generate-request" ->
                  Goto(i, IF there THEN "read" ELSE "key") /\ UNCHANGED promises
             [] cmd.op = "deactivate" ->
                  IF there THEN Goto(i, "size") /\ UNCHANGED promises ELSE Finish(i, "ok")
             [] cmd.op = "verify" ->
                  IF there THEN Goto(i, "read") /\ UNCHANGED promises
                  ELSE Finish(i, "no license")
        /\ UNCHANGED <<file, commands, faults>>

\* read_protected / read_file of what was found a moment ago.
Read(i) ==
    LET blob == file[Sought(proc[i].cmd)]
    IN  /\ proc[i].pc = "read"
        /\ IF blob = Absent THEN Finish(i, "failed")
           ELSE /\ proc' = [proc EXCEPT ![i].pc = "key", ![i].blob = blob]
                /\ UNCHANGED promises
        /\ UNCHANGED <<file, commands, faults>>

\* deactivate asks for the size it is to overwrite.
Size(i) ==
    LET lic == LicFile(proc[i].cmd.product)
    IN  /\ proc[i].pc = "size"
        /\ IF file[lic] = Absent THEN Finish(i, "failed")
           ELSE /\ proc' = [proc EXCEPT ![i].pc = "open",
                      ![i].todo = <<Write(lic, Torn(file[lic].size))>>]
                /\ UNCHANGED promises
        /\ UNCHANGED <<file, commands, faults>>

\* What a command does once derive_machine_key has given it the secret s: open
\* the blob it read, or go on to seal and write.
WithKey(i, s) ==
    LET cmd == proc[i].cmd
        label == Label(cmd)
        writes == IF cmd.op = "activate"
                  THEN LET blob == Sealed(s, label, cmd.token, SizeOf[cmd.token])
                       IN  <<Write(SealedFile(cmd.product), blob),
                             Write(LicFile(cmd.product), blob)>>
                  ELSE <<Write(DevkeyFile(cmd.product), Sealed(s, label, i, DevkeySize))>>
    IN  IF proc[i].blob # Absent
        THEN Finish(i, IF ~Unseals(s, label, proc[i].blob) THEN "failed"
                       ELSE IF cmd.op = "verify" THEN "valid" ELSE "ok")
        ELSE /\ proc' = [proc EXCEPT ![i].pc = "open", ![i].todo = writes, ![i].fd = "none"]
             /\ UNCHANGED promises

\* derive_machine_key finds the secret file and reads it ...
ReadSecret(i) ==
    /\ proc[i].pc = "key" /\ file[SecretFile] # Absent
    /\ IF Readable(file[SecretFile]) THEN WithKey(i, file[SecretFile].of[2])
       ELSE Finish(i, "failed")
    /\ UNCHANGED <<file, commands, faults>>

\* Mutant of MakeSecret: a secret that is there is not looked for.
MakeSecretAnew(i) ==
    /\ proc[i].pc = "key"
    /\ proc' = [proc EXCEPT ![i].pc = "open", ![i].todo = <<Write(SecretFile, Secret(i))>>]
    /\ UNCHANGED <<file, commands, faults, promises>>

\* ... or finds none and makes one up.
MakeSecret(i) ==
    /\ proc[i].pc = "key" /\ file[SecretFile] = Absent
    /\ proc' = [proc EXCEPT ![i].pc = "open", ![i].todo = <<Write(SecretFile, Secret(i))>>]
    /\ UNCHANGED <<file, commands, faults, promises>>

\* Mutant of Open: a file that exists is not opened again.
OpenExclusive(i) ==
    /\ proc[i].pc = "open"
    /\ file[Head(proc[i].todo).file] = Absent
    /\ file' = [file EXCEPT ![Head(proc[i].todo).file] = Empty]
    /\ proc' = [proc EXCEPT ![i].pc = "write", ![i].fd = "open"]
    /\ UNCHANGED <<commands, faults, promises>>

\* ofstream(..., trunc): creates the file or empties the one there is.
Open(i) ==
    /\ proc[i].pc = "open"
    /\ file' = [file EXCEPT ![Head(proc[i].todo).file] = Empty]
    /\ proc' = [proc EXCEPT ![i].pc = "write", ![i].fd = "open"]
    /\ UNCHANGED <<commands, faults, promises>>

\* The stream's one write, when it is flushed, and what comes next.  Nothing
\* looks at whether it succeeded: a full disk leaves a torn file and the
\* command goes on.
Flush(i, short) ==
    LET w == Head(proc[i].todo)
        rest == Tail(proc[i].todo)
        written == IF short THEN Torn(1) ELSE Overlay(file[w.file], w.contents)
    IN  /\ proc[i].pc = "write"
        /\ short => faults < MaxFaults /\ "short write" \in FaultKinds
        /\ faults' = IF short THEN faults + 1 ELSE faults
        /\ file' = IF proc[i].fd = "open" THEN [file EXCEPT ![w.file] = written] ELSE file
        /\ CASE w.file = SecretFile -> WithKey(i, i)
             [] w.file # SecretFile /\ rest # <<>> ->
                  /\ proc' = [proc EXCEPT ![i].pc = "open", ![i].todo = rest, ![i].fd = "none"]
                  /\ UNCHANGED promises
             [] w.file # SecretFile /\ rest = <<>> ->
                  IF proc[i].cmd.op = "deactivate"
                  THEN /\ proc' = [proc EXCEPT ![i].pc = "remove", ![i].todo = rest, ![i].fd = "none"]
                       /\ UNCHANGED promises
                  ELSE Finish(i, "ok")
        /\ UNCHANGED commands

\* fs::remove: whoever still writes the removed file writes into nothing.
Remove(i) ==
    LET lic == LicFile(proc[i].cmd.product)
    IN  /\ proc[i].pc = "remove"
        /\ file' = [file EXCEPT ![lic] = Absent]
        /\ proc' = [j \in Procs |->
              IF j = i THEN Finished(i, "ok")
              ELSE IF proc[j].fd = "open" /\ Head(proc[j].todo).file = lic
                   THEN [proc[j] EXCEPT !.fd = "orphan"] ELSE proc[j]]
        /\ Promise(i, "ok")
        /\ UNCHANGED <<commands, faults>>

\* The process is killed.
Crash(i) ==
    /\ proc[i].pc # "idle" /\ faults < MaxFaults /\ "crash" \in FaultKinds
    /\ faults' = faults + 1
    /\ Finish(i, "crashed")
    /\ UNCHANGED <<file, commands>>

-----------------------------------------------------------------------------
Init ==
    /\ file = [f \in Files |-> IF f = SecretFile /\ OldSecret # Absent
                               THEN Secret(OldSecret) ELSE Absent]
    /\ proc = [i \in Procs |-> Idle]
    /\ commands = 0 /\ faults = 0
    /\ held = {} /\ live = {}

Step(i) ==
    \/ Find(i) \/ Read(i) \/ Size(i)
    \/ ReadSecret(i) \/ MakeSecret(i)
    \/ Open(i) \/ Flush(i, FALSE) \/ Remove(i)

Next ==
    \E i \in Procs :
        \/ \E cmd \in Commands : Start(i, cmd)
        \/ Step(i)
        \/ Flush(i, TRUE)
        \/ Crash(i)

Spec == Init /\ [][Next]_vars
FairSpec == Spec /\ \A i \in Procs : WF_vars(Step(i))

-----------------------------------------------------------------------------
(* Types and safety.                                                       *)

Results == {"none", "ok", "valid", "no license", "failed", "crashed"}
Pcs == {"idle", "find", "read", "size", "key", "open", "write", "remove"}

Secrets == Procs \cup {OldSecret}
SealLabels == {<<"license", p>> : p \in Products} \cup {<<"devkey", p>> : p \in Products}
AllContents ==
    [of : {<<"nothing">>, <<"garbage">>} \cup ({"secret"} \X Secrets)
             \cup ({"sealed"} \X Secrets \X SealLabels \X (Tokens \cup Procs)),
     size : Nat]
ASSUME AbsentAssumption == Absent \notin AllContents \cup Commands
Processes ==
    [cmd : Commands \cup {Absent}, pc : Pcs,
     todo : Seq([file : Files, contents : AllContents]),
     fd : {"none", "open", "orphan"}, blob : AllContents \cup {Absent},
     result : Results, rivals : SUBSET Commands, licensed : BOOLEAN]

\* Files and processes are well formed, and the bookkeeping of a process fits
\* where it stands: writes are pending exactly while it opens and writes.
TypeOK ==
    /\ file \in [Files -> AllContents \cup {Absent}]
    /\ proc \in [Procs -> Processes]
    /\ \A i \in Procs :
          /\ proc[i].pc # "idle" => proc[i].cmd \in Commands
          /\ proc[i].pc \in {"open", "write"} <=> proc[i].todo # <<>>
          /\ proc[i].pc = "write" <=> proc[i].fd # "none"
    /\ held \subseteq live /\ live \subseteq Products
    /\ commands \in 0..MaxCommands /\ faults \in 0..MaxFaults

\* A verify that started now would say "valid".
Verifiable(p) ==
    LET lic == file[LicFile(p)]
        secret == file[SecretFile]
    IN  /\ lic # Absent /\ Readable(secret)
        /\ Unseals(secret.of[2], <<"license", p>>, lic)

\* An activation that was reported successful, with no deactivate since, can
\* be verified whenever no activate of the product is under way: whatever
\* other commands interleave with it, and wherever they are killed
\* (license_client.cpp:184-192 against tpm_software.cpp:75-117).
HeldLicenceVerifies ==
    \A p \in held :
        (\A i \in Procs : ~(proc[i].pc # "idle" /\ proc[i].cmd.op = "activate"
                                                /\ proc[i].cmd.product = p))
        => Verifiable(p)

\* After a successful deactivate no verify says "valid", unless an activate
\* began since or is under way (license_client.cpp:262-276 truncates, writes
\* and removes while others may hold, read or write the same file).
NoResurrection ==
    \A i \in Procs :
        proc[i].result = "valid" => proc[i].licensed \/ Rival(i, "activate")

\* The secret that everything on the machine is sealed under is there to stay.
SecretPersists ==
    [][Readable(file[SecretFile]) => file'[SecretFile] = file[SecretFile]]_vars

\* A device key that was stored is never replaced by another one
\* (tpm_software.cpp:151-162: an existing .devkey is loaded).
DeviceKeyPersists ==
    [][\A p \in Products :
          LET old == file[DevkeyFile(p)]
          IN  old # Absent /\ old.of[1] = "sealed" => file'[DevkeyFile(p)] = old]_vars

\* Where the machine secret is in place, an activation that starts also ends,
\* and with success unless its process is killed: nothing that other processes
\* do to the same files, before, during or after, can make it wait or fail.
ActivationCompletes ==
    \A i \in Procs :
        LET activating == proc[i].cmd # Absent /\ proc[i].cmd.op = "activate"
        IN  activating /\ proc[i].pc # "idle" ~>
                activating /\ proc[i].pc = "idle" /\ proc[i].result \in {"ok", "crashed"}
=============================================================================
