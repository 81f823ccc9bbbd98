----------------------------- MODULE VendorKeys -----------------------------
(***************************************************************************)
(* The vendor's key files at the grain of file-system calls: init-keys and *)
(* generate-license (server/src/main.cpp, common/src/keystore.cpp) run by  *)
(* several operators or scripts on one host, killed at any point.  Like    *)
(* the client, the server truncates in place and never looks at a write.   *)
(* LicenseExchange has the same commands as single steps.                  *)
(***************************************************************************)
EXTENDS Integers, Sequences, FileSystem

CONSTANTS
    Procs,          \* server processes
    Keystores,      \* paths the operators type for --keystore
    Publics,        \* and for --pub-out; the same path may be both
    Passphrases,    \* passphrases they know
    NoPass,         \* the empty passphrase
    Tpms,           \* subset of BOOLEAN: may create_provider return hardware?
    Absent,         \* no file, no command
    FaultKinds,     \* subset of {"crash", "unwritable", "short write"}
    MaxGens, MaxCommands, MaxFaults     \* bounds for TLC

Paths == Keystores \cup Publics

ASSUME PassphraseAssumption == NoPass \notin Passphrases
ASSUME TpmsAssumption == Tpms \subseteq BOOLEAN /\ Tpms # {}
ASSUME BoundsAssumption == MaxGens \in Nat /\ MaxCommands \in Nat /\ MaxFaults \in Nat

VARIABLES
    file,       \* [Paths -> contents or Absent]
    proc,       \* [Procs -> the process's command and what it remembers]
    gens,       \* key generations made so far
    shipped,    \* generations whose public file customers have been sent
    tokens,     \* tokens printed: the signing key and the request's key
    stored,     \* generations whose keystore has stood whole on disk
    spoiled,    \* generations with a write that the disk cut short, or that
                \* another init-keys at the same paths could spoil
    standing,   \* what successful init-keys runs have promised
    commands, faults    \* counted for the bounds

history == <<stored, spoiled, standing>>
vars == <<file, proc, gens, shipped, tokens, history, commands, faults>>

-----------------------------------------------------------------------------
(* File contents.  A keystore whose master key is sealed also holds the    *)
(* TPM blob, and is longer.                                                *)

Keystore(gen, pass, sealed) ==
    Contents(<<"keystore", gen, pass, sealed>>, IF sealed THEN 1200 ELSE 900)
Public(gen) == Contents(<<"public", gen>>, 150)

ASSUME AbsentAssumption ==
    \A gen \in 1..MaxGens, pass \in Passphrases \cup {NoPass}, sealed \in BOOLEAN :
        Absent # Keystore(gen, pass, sealed)

\* Mutant of Loads: the TPM is asked for whether or not it sealed the keystore.
LoadsWithTpm(contents, pass, tpm) ==
    /\ contents # Absent /\ contents.of[1] = "keystore"
    /\ contents.of[3] = pass
    /\ tpm

\* load_keystore: it parses, the passphrase derives the key that decrypts it,
\* and the TPM, where one sealed it, is there again.
Loads(contents, pass, tpm) ==
    /\ contents # Absent /\ contents.of[1] = "keystore"
    /\ contents.of[3] = pass
    /\ contents.of[4] => tpm

InitKeys(keystore, pub, pass) ==
    [op |-> "init-keys", keystore |-> keystore, pub |-> pub, pass |-> pass]
GenerateLicense(keystore, request, pass) ==
    [op |-> "generate-license", keystore |-> keystore, request |-> request, pass |-> pass]

Options == Passphrases \cup {NoPass}     \* --passphrase, or none
InitCommands ==
    {InitKeys(k, q, pass) : k \in Keystores, q \in Publics, pass \in Options}
GenerateCommands(requests) ==
    {GenerateLicense(k, r, pass) : k \in Keystores, r \in requests, pass \in Options}

Touches(cmd) == IF cmd.op = "init-keys" THEN {cmd.keystore, cmd.pub} ELSE {}

Idle == [cmd |-> Absent, pc |-> "idle", gen |-> 0, todo |-> <<>>,
         result |-> "none", rivals |-> {}]
Write(path, contents) == [path |-> path, contents |-> contents]

\* Mutant of Finished: the generation in memory outlives the command.
FinishedUnwiped(i, result) ==
    [proc[i] EXCEPT !.pc = "idle", !.todo = <<>>, !.result = result]

Finished(i, result) ==
    [proc[i] EXCEPT !.pc = "idle", !.todo = <<>>, !.gen = 0, !.result = result]
Finish(i, result) ==
    /\ proc' = [proc EXCEPT ![i] = Finished(i, result)]
    /\ UNCHANGED standing

-----------------------------------------------------------------------------
\* main dispatches a command; one that is to replace a file takes back what
\* was promised of it.
Start(i, cmd) ==
    LET busy == {j \in Procs : proc[j].pc # "idle"}
        next == IF cmd.pass = NoPass THEN "prompt"
                ELSE IF cmd.op = "init-keys" THEN "make" ELSE "load"
    IN  /\ proc[i].pc = "idle" /\ commands < MaxCommands
        /\ commands' = commands + 1
        /\ proc' = [j \in Procs |->
              IF j = i THEN [Idle EXCEPT !.cmd = cmd, !.pc = next,
                                         !.rivals = {proc[k].cmd : k \in busy}]
              ELSE IF j \in busy THEN [proc[j] EXCEPT !.rivals = @ \cup {cmd}]
              ELSE proc[j]]
        /\ standing' = {s \in standing : {s.keystore, s.pub} \cap Touches(cmd) = {}}
        /\ UNCHANGED <<file, gens, shipped, tokens, stored, spoiled, faults>>

\* read_passphrase: init-keys asks twice and refuses an empty one,
\* generate-license asks once and takes what comes.
Prompt(i, first, again) ==
    LET init == proc[i].cmd.op = "init-keys"
    IN  /\ proc[i].pc = "prompt"
        /\ ~init => first = again
        /\ IF init /\ (first # again \/ first = NoPass) THEN Finish(i, "failed")
           ELSE /\ proc' = [proc EXCEPT ![i].pc = IF init THEN "make" ELSE "load",
                                        ![i].cmd.pass = first]
                /\ UNCHANGED standing
        /\ UNCHANGED <<file, gens, shipped, tokens, stored, spoiled, commands, faults>>

\* Mutant of Writes: the public file first.
WritesPublicFirst(cmd, gen, sealed) ==
    <<Write(cmd.pub, Public(gen)), Write(cmd.keystore, Keystore(gen, cmd.pass, sealed))>>

\* The two files of init-keys, in the order it writes them.
Writes(cmd, gen, sealed) ==
    <<Write(cmd.keystore, Keystore(gen, cmd.pass, sealed)), Write(cmd.pub, Public(gen))>>

\* generate_keystore up to its write: new key pairs, the master key derived and
\* sealed when create_provider returned hardware, which may fail.
Make(i, tpm, seals) ==
    /\ proc[i].pc = "make" /\ gens < MaxGens
    /\ seals \/ tpm
    /\ gens' = gens + 1
    /\ IF ~seals THEN Finish(i, "failed")
       ELSE /\ proc' = [proc EXCEPT ![i].pc = "open", ![i].gen = gens + 1,
                           ![i].todo = Writes(proc[i].cmd, gens + 1, tpm)]
            /\ UNCHANGED standing
    /\ UNCHANGED <<file, shipped, tokens, stored, spoiled, commands, faults>>

\* Mutant of Opened: ofstream without trunc.
OpenedKept(old) == IF old = Absent THEN Empty ELSE old

\* ofstream creates the file or empties the one there is ...
Opened(old) == Empty

Open(i) ==
    LET path == Head(proc[i].todo).path
    IN  /\ proc[i].pc = "open"
        /\ file' = [file EXCEPT ![path] = Opened(file[path])]
        /\ proc' = [proc EXCEPT ![i].pc = "write"]
        /\ UNCHANGED <<gens, shipped, tokens, history, commands, faults>>

\* ... or cannot, and the command stops with what it has done so far.
OpenFails(i) ==
    /\ proc[i].pc = "open"
    /\ faults < MaxFaults /\ "unwritable" \in FaultKinds
    /\ faults' = faults + 1
    /\ Finish(i, "failed")
    /\ UNCHANGED <<file, gens, shipped, tokens, stored, spoiled, commands>>

\* What a successful init-keys promises, unless its two paths are one.
Contested(i) == \E c \in proc[i].rivals : Touches(c) \cap Touches(proc[i].cmd) # {}

Promised(i) ==
    IF proc[i].cmd.keystore = proc[i].cmd.pub THEN {}
    ELSE {[keystore |-> proc[i].cmd.keystore, pub |-> proc[i].cmd.pub,
           pass |-> proc[i].cmd.pass, gen |-> proc[i].gen]}

\* The stream's write, flushed when it is destroyed; nothing looks at the result.
Flush(i, short) ==
    LET w == Head(proc[i].todo)
        rest == Tail(proc[i].todo)
        written == IF short THEN Torn(1) ELSE Overlay(file[w.path], w.contents)
    IN  /\ proc[i].pc = "write"
        /\ short => faults < MaxFaults /\ "short write" \in FaultKinds
        /\ faults' = IF short THEN faults + 1 ELSE faults
        /\ file' = [file EXCEPT ![w.path] = written]
        /\ stored' = IF written.of[1] = "keystore" THEN stored \cup {proc[i].gen} ELSE stored
        /\ spoiled' = IF short \/ Contested(i) THEN spoiled \cup {proc[i].gen} ELSE spoiled
        /\ IF rest # <<>>
           THEN /\ proc' = [proc EXCEPT ![i].pc = "open", ![i].todo = rest]
                /\ UNCHANGED standing
           ELSE /\ proc' = [proc EXCEPT ![i] = Finished(i, "ok")]
                /\ standing' = IF proc[i].gen \in spoiled' THEN standing
                               ELSE standing \cup Promised(i)
        /\ UNCHANGED <<gens, shipped, tokens, commands>>

\* load_keystore and hybrid_decrypt: from here on the keys are in memory.
Load(i, tpm) ==
    LET cmd == proc[i].cmd
        contents == file[cmd.keystore]
    IN  /\ proc[i].pc = "load"
        /\ IF Loads(contents, cmd.pass, tpm) /\ contents.of[2] = cmd.request
           THEN /\ proc' = [proc EXCEPT ![i].pc = "sign", ![i].gen = contents.of[2]]
                /\ UNCHANGED standing
           ELSE Finish(i, "failed")
        /\ UNCHANGED <<file, gens, shipped, tokens, stored, spoiled, commands, faults>>

\* Mutant of SigningKey: the keystore is read again to sign.
SigningKeyReloaded(i) ==
    LET contents == file[proc[i].cmd.keystore]
    IN  IF contents # Absent /\ contents.of[1] = "keystore" THEN contents.of[2] ELSE proc[i].gen

SigningKey(i) == proc[i].gen

\* sign_license with the key that was loaded, and the token on stdout.
Sign(i) ==
    /\ proc[i].pc = "sign"
    /\ tokens' = tokens \cup {[key |-> SigningKey(i), request |-> proc[i].cmd.request]}
    /\ Finish(i, "ok")
    /\ UNCHANGED <<file, gens, shipped, stored, spoiled, commands, faults>>

Crash(i) ==
    /\ proc[i].pc # "idle" /\ faults < MaxFaults /\ "crash" \in FaultKinds
    /\ faults' = faults + 1
    /\ Finish(i, "crashed")
    /\ UNCHANGED <<file, gens, shipped, tokens, stored, spoiled, commands>>

\* The operator sends a whole public file to customers, at any time.
Ship(path) ==
    /\ file[path] # Absent /\ file[path].of[1] = "public"
    /\ file[path].of[2] \notin shipped
    /\ shipped' = shipped \cup {file[path].of[2]}
    /\ UNCHANGED <<file, proc, gens, tokens, history, commands, faults>>

-----------------------------------------------------------------------------
Init ==
    /\ file = [p \in Paths |-> Absent]
    /\ proc = [i \in Procs |-> Idle]
    /\ gens = 0 /\ shipped = {} /\ tokens = {}
    /\ stored = {} /\ spoiled = {} /\ standing = {}
    /\ commands = 0 /\ faults = 0

\* What a process does by itself, once its passphrase is there.
Step(i) ==
    \/ \E tpm \in Tpms : Make(i, tpm, TRUE) \/ Load(i, tpm)
    \/ Open(i) \/ Flush(i, FALSE) \/ Sign(i)

Next ==
    \/ \E i \in Procs :
          \/ \E cmd \in InitCommands \cup GenerateCommands(shipped) : Start(i, cmd)
          \/ \E first, again \in Options : Prompt(i, first, again)
          \/ Step(i)
          \/ \E tpm \in Tpms : Make(i, tpm, FALSE)
          \/ OpenFails(i) \/ Flush(i, TRUE) \/ Crash(i)
    \/ \E path \in Paths : Ship(path)

Spec == Init /\ [][Next]_vars
FairSpec == Spec /\ \A i \in Procs : WF_vars(Step(i))

-----------------------------------------------------------------------------
Pcs == {"idle", "prompt", "make", "open", "write", "load", "sign"}
Results == {"none", "ok", "failed", "crashed"}

\* Every file holds what some command writes, and a process has writes pending
\* exactly while it opens and writes, under a generation that was made.
TypeOK ==
    /\ \A p \in Paths : file[p] # Absent =>
          /\ file[p].of[1] \in {"nothing", "garbage", "keystore", "public"}
          /\ file[p].of[1] \in {"keystore", "public"} => file[p].of[2] \in 1..gens
    /\ \A i \in Procs :
          /\ proc[i].pc \in Pcs /\ proc[i].result \in Results
          /\ proc[i].pc \in {"open", "write"} <=> proc[i].todo # <<>>
          /\ proc[i].pc \in {"open", "write", "sign"} <=> proc[i].gen \in 1..gens
    /\ gens \in 0..MaxGens /\ shipped \subseteq 1..gens /\ stored \subseteq 1..gens
    /\ commands \in 0..MaxCommands /\ faults \in 0..MaxFaults

\* No customer can be sent a public key whose private half was never whole on
\* the vendor's disk, wherever init-keys is killed or refused a file, unless
\* the disk was full or two of them wrote the same paths at once
\* (server/src/main.cpp:156-170).
PrivateBeforePublic ==
    /\ shipped \subseteq stored \cup spoiled
    /\ \A p \in Paths :
          file[p] # Absent /\ file[p].of[1] = "public" =>
              file[p].of[2] \in stored \cup spoiled

\* An init-keys that reported success has left a keystore that its passphrase
\* opens and the public file that goes with it, until another init-keys is
\* given one of these paths (server/src/main.cpp:175-181).
StandingPairWhole ==
    \A s \in standing :
        /\ Loads(file[s.keystore], s.pass, TRUE)
        /\ file[s.keystore].of[2] = s.gen
        /\ file[s.pub] = Public(s.gen)

\* A request is answered under the key it was made for, though the keystore may
\* be rotated between reading it and printing the token
\* (server/src/main.cpp:231-295).
AnsweredUnderAskedKey == \A t \in tokens : t.key = t.request

\* The keystore that process i's generate-license was given stands.
Covered(i) ==
    LET cmd == proc[i].cmd
    IN  /\ cmd # Absent /\ cmd.op = "generate-license"
        /\ \E s \in standing :
              /\ s.keystore = cmd.keystore /\ s.gen = cmd.request /\ s.pass = cmd.pass
              /\ ~file[s.keystore].of[4]

\* While a promised keystore stands, a request made for it is answered whoever
\* else works on other paths: generate-license ends, with a token unless its
\* process is killed.
StandingAnswers ==
    \A i \in Procs :
        proc[i].pc \in {"load", "sign"} /\ Covered(i) ~>
            ~Covered(i) \/ (proc[i].pc = "idle" /\ proc[i].result \in {"ok", "crashed"})
=============================================================================
