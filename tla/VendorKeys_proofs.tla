------------------------- MODULE VendorKeys_proofs --------------------------
(***************************************************************************)
(* Theorems about VendorKeys for every number of operators, paths,         *)
(* passphrases, key generations, commands and faults.                      *)
(***************************************************************************)
EXTENDS VendorKeys, TLAPS

-----------------------------------------------------------------------------
(* The inductive invariant.                                                *)

Busy(i) == proc[i].pc # "idle"

AllCommands == InitCommands \cup GenerateCommands(Nat)
Todos ==
    {<<>>} \cup {Writes(cmd, g, sealed) : cmd \in InitCommands, g \in Nat, sealed \in BOOLEAN}
           \cup {<<Write(path, Public(g))>> : path \in Publics, g \in Nat}
Processes ==
    [cmd : AllCommands \cup {Absent}, pc : Pcs, gen : Nat, todo : Todos,
     result : Results, rivals : SUBSET AllCommands]

\* Generations that a public file may show when those of `there' have been
\* stored or spoiled; `n' have been made.
Found == stored \cup spoiled
FileOK(contents, n, there) ==
    contents # Absent =>
        /\ contents.of[1] \in {"nothing", "garbage", "keystore", "public"}
        /\ contents.of[1] \in {"keystore", "public"} => contents.of[2] \in 1..n
        /\ contents.of[1] = "public" => contents.of[2] \in there

\* init-keys writes the public file when its keystore has been stored.
Pending(cmd, gen, todo, there) ==
    \/ \E sealed \in BOOLEAN : todo = Writes(cmd, gen, sealed)
    \/ todo = <<Write(cmd.pub, Public(gen))>> /\ gen \in there

\* A process stands where its command takes it, with the generation it made or
\* was asked for.
WellPlaced(r, n, there) ==
    /\ r.pc # "idle" => r.cmd \in AllCommands
    /\ r.pc \in {"open", "write"} <=> r.todo # <<>>
    /\ r.gen = 0 \/ r.gen \in 1..n
    /\ r.pc \in {"open", "write", "sign"} <=> r.gen # 0
    /\ r.pc \in {"make", "open", "write"} => r.cmd.op = "init-keys"
    /\ r.pc \in {"open", "write"} => Pending(r.cmd, r.gen, r.todo, there)
    /\ r.pc \in {"load", "sign"} => r.cmd.op = "generate-license"
    /\ r.pc = "sign" => r.gen = r.cmd.request

\* A file that no other process may write is as empty as it was opened.
Contests(r) == \E c \in r.rivals : Touches(c) \cap Touches(r.cmd) # {}
OwnFileEmpty(r, contents) ==
    r.pc = "write" /\ ~Contests(r) => contents.size = 0

\* Two commands under way know of each other's paths.
Mutual ==
    \A i, j \in Procs : i # j /\ Busy(i) /\ Busy(j) =>
        \E c \in proc[i].rivals : Touches(c) = Touches(proc[j].cmd)

CountsOK == gens \in 0..MaxGens /\ commands \in 0..MaxCommands /\ faults \in 0..MaxFaults
AllPlaced == \A i \in Procs : WellPlaced(proc[i], gens, Found)
FilesOK == \A p \in Paths : FileOK(file[p], gens, Found)
OwnEmpty == \A i \in Procs : OwnFileEmpty(proc[i], file[Head(proc[i].todo).path])
HistoryOK == shipped \subseteq Found /\ stored \subseteq 1..gens /\ spoiled \subseteq 1..gens

VendorInv ==
    /\ proc \in [Procs -> Processes] /\ DOMAIN file = Paths
    /\ CountsOK /\ AllPlaced /\ FilesOK /\ OwnEmpty /\ Mutual /\ HistoryOK
    /\ AnsweredUnderAskedKey

-----------------------------------------------------------------------------
(* Commands, writes and files.                                             *)

\* An init-keys touches its two paths, a generate-license none.
LEMMA CommandFacts ==
    ASSUME NEW cmd \in AllCommands
    PROVE  /\ cmd.op \in {"init-keys", "generate-license"} /\ cmd.pass \in Options
           /\ cmd.op = "init-keys" =>
                 /\ cmd \in InitCommands
                 /\ cmd.keystore \in Paths /\ cmd.pub \in Publics /\ cmd.pub \in Paths
                 /\ Touches(cmd) = {cmd.keystore, cmd.pub}
           /\ \A pass \in Options :
                 LET again == [cmd EXCEPT !.pass = pass]
                 IN  /\ again \in AllCommands /\ again.op = cmd.op
                     /\ Touches(again) = Touches(cmd)
BY DEF AllCommands, InitCommands, GenerateCommands, InitKeys, GenerateLicense, Paths, Touches

\* The write that is due and what is left after it.
LEMMA PendingFacts ==
    ASSUME NEW cmd \in AllCommands, cmd.op = "init-keys", NEW gen \in Nat, NEW there,
           NEW todo, Pending(cmd, gen, todo, there)
    PROVE  /\ todo # <<>> /\ todo \in Todos
           /\ Head(todo).path \in Touches(cmd) /\ Head(todo).path \in Paths
           /\ Head(todo).contents.size \in Nat
           /\ \/ /\ Head(todo).contents.of[1] = "keystore" /\ Head(todo).contents.of[2] = gen
                 /\ Tail(todo) = <<Write(cmd.pub, Public(gen))>>
              \/ /\ Head(todo).contents.of[1] = "public" /\ Head(todo).contents.of[2] = gen
                 /\ Tail(todo) = <<>> /\ gen \in there
           /\ Tail(todo) \in Todos
<1>1. cmd \in InitCommands /\ Touches(cmd) = {cmd.keystore, cmd.pub}
      /\ cmd.keystore \in Paths /\ cmd.pub \in Publics /\ cmd.pub \in Paths
  BY CommandFacts
<1>2. ASSUME NEW sealed \in BOOLEAN, todo = Writes(cmd, gen, sealed)
      PROVE  /\ todo # <<>> /\ Head(todo).path = cmd.keystore
             /\ Head(todo).contents = Keystore(gen, cmd.pass, sealed)
             /\ Tail(todo) = <<Write(cmd.pub, Public(gen))>>
  BY <1>2 DEF Writes, Write
<1>3. ASSUME todo = <<Write(cmd.pub, Public(gen))>>
      PROVE  /\ todo # <<>> /\ Head(todo).path = cmd.pub /\ Tail(todo) = <<>>
             /\ Head(todo).contents = Public(gen)
  BY <1>3 DEF Write
<1>4. ASSUME NEW sealed \in BOOLEAN
      PROVE  /\ Keystore(gen, cmd.pass, sealed).of[1] = "keystore"
             /\ Keystore(gen, cmd.pass, sealed).of[2] = gen
             /\ Keystore(gen, cmd.pass, sealed).size \in Nat
  BY DEF Keystore, Contents
<1>5. Public(gen).of[1] = "public" /\ Public(gen).of[2] = gen /\ Public(gen).size \in Nat
  BY DEF Public, Contents
<1>6. ASSUME NEW sealed \in BOOLEAN
      PROVE  Writes(cmd, gen, sealed) \in Todos /\ <<Write(cmd.pub, Public(gen))>> \in Todos
             /\ <<>> \in Todos
  BY <1>1 DEF Todos
<1>7. CASE \E sealed \in BOOLEAN : todo = Writes(cmd, gen, sealed)
  BY <1>1, <1>2, <1>4, <1>6, <1>7
<1>8. CASE todo = <<Write(cmd.pub, Public(gen))>> /\ gen \in there
  BY <1>1, <1>3, <1>5, <1>6, <1>8
<1> QED
  BY <1>7, <1>8 DEF Pending

\* What init-keys has pending is never empty.
LEMMA PendingTodo ==
    \A todo, there : \A cmd \in AllCommands, gen \in Nat :
        cmd.op = "init-keys" /\ Pending(cmd, gen, todo, there) => todo # <<>> /\ todo \in Todos
BY PendingFacts

\* What a write leaves in the file.
LEMMA WriteFacts ==
    /\ Empty.size = 0 /\ Empty.of[1] = "nothing"
    /\ Torn(1).of[1] = "garbage"
    /\ \A old, new : Overlay(old, new) = new \/ Overlay(old, new).of[1] = "garbage"
    /\ \A old, new : old.size = 0 /\ new.size \in Nat => Overlay(old, new) = new
BY DEF Empty, Torn, Contents, Overlay

\* More generations made or found spoil no process and no file.
LEMMA Grows ==
    ASSUME NEW n \in Nat, NEW m \in Nat, n <= m, NEW S, NEW T, S \subseteq T
    PROVE  /\ \A r : WellPlaced(r, n, S) => WellPlaced(r, m, T)
           /\ \A c : FileOK(c, n, S) => FileOK(c, m, T)
<1>1. \A g : g \in 1..n => g \in 1..m
  OBVIOUS
<1>2. \A c : FileOK(c, n, S) => FileOK(c, m, T)
  BY <1>1 DEF FileOK
<1>3. \A r : WellPlaced(r, n, S) => WellPlaced(r, m, T)
  BY <1>1 DEF WellPlaced, Pending
<1> QED
  BY <1>2, <1>3

-----------------------------------------------------------------------------
(* A step of one process, which may write one file.                        *)

\* ... that stays where its command takes it keeps the invariant.
LEMMA StepKeeps ==
    ASSUME VendorInv, NEW i \in Procs, NEW r \in Processes, NEW path, NEW c,
           proc' = [proc EXCEPT ![i] = r], r.rivals = proc[i].rivals,
           Busy(i), r.pc # "idle" => Touches(r.cmd) = Touches(proc[i].cmd),
           gens' \in Nat, gens <= gens', CountsOK', HistoryOK', shipped' = shipped,
           stored \subseteq stored', spoiled \subseteq spoiled',
           WellPlaced(r, gens', Found'),
           \/ file' = file
           \/ /\ path \in Touches(proc[i].cmd) \cap Paths /\ FileOK(c, gens', Found')
              /\ file' = [file EXCEPT ![path] = c],
           OwnFileEmpty(r, file'[Head(r.todo).path]),
           AnsweredUnderAskedKey'
    PROVE  VendorInv'
<1>1. ASSUME NEW j \in Procs
      PROVE  proc'[j] = IF j = i THEN r ELSE proc[j]
  BY DEF VendorInv
<1>2. gens \in Nat /\ Found \subseteq Found'
  BY DEF VendorInv, CountsOK, Found
<1>3. proc' \in [Procs -> Processes] /\ DOMAIN file' = Paths
  BY DEF VendorInv
<1>4. AllPlaced'
  <2> SUFFICES ASSUME NEW j \in Procs
               PROVE  WellPlaced(proc'[j], gens', Found')
    BY DEF AllPlaced
  <2>1. WellPlaced(proc[j], gens, Found)
    BY DEF VendorInv, AllPlaced
  <2>2. WellPlaced(proc[j], gens', Found')
    BY <1>2, <2>1, Grows
  <2> QED
    BY <1>1, <2>2
<1>5. FilesOK'
  <2> SUFFICES ASSUME NEW p \in Paths
               PROVE  FileOK(file'[p], gens', Found')
    BY DEF FilesOK
  <2>1. FileOK(file[p], gens, Found)
    BY DEF VendorInv, FilesOK
  <2>2. FileOK(file[p], gens', Found')
    BY <1>2, <2>1, Grows
  <2>3. DOMAIN file = Paths
    BY DEF VendorInv
  <2>4. CASE file' = file
    BY <2>2, <2>4
  <2>5. CASE FileOK(c, gens', Found') /\ file' = [file EXCEPT ![path] = c]
    <3>1. file'[p] = IF p = path THEN c ELSE file[p]
      BY <2>3, <2>5
    <3> QED
      BY <2>2, <2>5, <3>1
  <2> QED
    BY <2>4, <2>5
<1>6. OwnEmpty'
  <2> SUFFICES ASSUME NEW j \in Procs
               PROVE  OwnFileEmpty(proc'[j], file'[Head(proc'[j].todo).path])
    BY DEF OwnEmpty
  <2>1. CASE j = i
    BY <1>1, <2>1
  <2>2. CASE j # i
    <3> SUFFICES ASSUME proc[j].pc = "write", ~Contests(proc[j])
                 PROVE  file'[Head(proc[j].todo).path].size = 0
      BY <1>1, <2>2 DEF OwnFileEmpty
    <3>1. file[Head(proc[j].todo).path].size = 0
      BY DEF VendorInv, OwnEmpty, OwnFileEmpty
    <3>2. /\ proc[j] \in Processes /\ proc[j].cmd \in AllCommands
          /\ proc[j].cmd.op = "init-keys" /\ proc[j].gen \in Nat
          /\ Pending(proc[j].cmd, proc[j].gen, proc[j].todo, Found)
      BY DEF VendorInv, AllPlaced, WellPlaced, Processes
    <3>3. Head(proc[j].todo).path \in Touches(proc[j].cmd)
          /\ Head(proc[j].todo).path \in Paths
      BY <3>2, PendingFacts
    <3>4. PICK d \in proc[j].rivals : Touches(d) = Touches(proc[i].cmd)
      BY <2>2 DEF VendorInv, Mutual, Busy
    <3>5. Touches(proc[i].cmd) \cap Touches(proc[j].cmd) = {}
      BY <3>4 DEF Contests
    <3>6. file'[Head(proc[j].todo).path] = file[Head(proc[j].todo).path]
      BY <3>3, <3>5 DEF VendorInv
    <3> QED
      BY <3>1, <3>6
  <2> QED
    BY <2>1, <2>2
<1>7. Mutual'
  <2> SUFFICES ASSUME NEW j \in Procs, NEW k \in Procs, j # k, Busy(j)', Busy(k)'
               PROVE  \E d \in proc'[j].rivals : Touches(d) = Touches(proc'[k].cmd)
    BY DEF Mutual
  <2>1. Busy(j) /\ Busy(k)
    BY <1>1 DEF Busy
  <2>2. proc'[j].rivals = proc[j].rivals /\ Touches(proc'[k].cmd) = Touches(proc[k].cmd)
    BY <1>1 DEF Busy
  <2> QED
    BY <2>1, <2>2 DEF VendorInv, Mutual
<1> QED
  BY <1>3, <1>4, <1>5, <1>6, <1>7 DEF VendorInv

\* A step that writes no file.
LEMMA QuietKeeps ==
    ASSUME VendorInv, NEW i \in Procs, NEW r \in Processes,
           proc' = [proc EXCEPT ![i] = r], r.rivals = proc[i].rivals,
           Busy(i), r.pc # "idle" => Touches(r.cmd) = Touches(proc[i].cmd),
           gens' \in Nat, gens <= gens', CountsOK', file' = file,
           UNCHANGED <<shipped, stored, spoiled>>,
           WellPlaced(r, gens', Found), r.pc # "write", AnsweredUnderAskedKey'
    PROVE  VendorInv'
<1>1. Found' = Found
  BY DEF Found
<1>2. HistoryOK'
  <2>1. \A g : g \in 1..gens => g \in 1..gens'
    BY DEF VendorInv, CountsOK
  <2> QED
    BY <1>1, <2>1 DEF VendorInv, HistoryOK
<1>3. OwnFileEmpty(r, file'[Head(r.todo).path])
  BY DEF OwnFileEmpty
<1> QED
  BY <1>1, <1>2, <1>3, StepKeeps

\* The end of a command.
LEMMA FinishKeeps ==
    ASSUME VendorInv, NEW i \in Procs, NEW result \in Results, Busy(i),
           proc' = [proc EXCEPT ![i] = Finished(i, result)],
           gens' \in Nat, gens <= gens', CountsOK', file' = file,
           UNCHANGED <<shipped, stored, spoiled>>, AnsweredUnderAskedKey'
    PROVE  VendorInv'
<1> DEFINE r == Finished(i, result)
<1>1. proc[i] \in Processes /\ <<>> \in Todos /\ proc' = [proc EXCEPT ![i] = r]
  BY DEF VendorInv, Todos
<1>2. /\ r \in Processes /\ r.pc = "idle" /\ r.todo = <<>> /\ r.gen = 0
      /\ r.rivals = proc[i].rivals
  BY <1>1 DEF Finished, Processes, Pcs
<1> HIDE DEF r
<1>3. WellPlaced(r, gens', Found)
  BY <1>2 DEF WellPlaced
<1> QED
  BY <1>1, <1>2, <1>3, QuietKeeps

\* What holds of a process that is under way.
LEMMA BusyFacts ==
    ASSUME VendorInv, NEW i \in Procs, Busy(i)
    PROVE  /\ proc[i] \in Processes /\ WellPlaced(proc[i], gens, Found)
           /\ proc[i].cmd \in AllCommands
           /\ proc[i].cmd.op \in {"init-keys", "generate-license"}
           /\ gens \in Nat
<1>1. proc[i] \in Processes /\ WellPlaced(proc[i], gens, Found) /\ gens \in Nat
  BY DEF VendorInv, AllPlaced, CountsOK
<1>2. proc[i].cmd \in AllCommands
  BY <1>1 DEF WellPlaced, Busy
<1> QED
  BY <1>1, <1>2, CommandFacts

\* A command starts with nothing made and nothing to write.
LEMMA StartKeeps ==
    ASSUME VendorInv, NEW i \in Procs, NEW cmd \in AllCommands, Start(i, cmd)
    PROVE  VendorInv'
<1> DEFINE busy == {j \in Procs : proc[j].pc # "idle"}
           next == IF cmd.pass = NoPass THEN "prompt"
                   ELSE IF cmd.op = "init-keys" THEN "make" ELSE "load"
           r == [Idle EXCEPT !.cmd = cmd, !.pc = next, !.rivals = {proc[k].cmd : k \in busy}]
<1>1. /\ proc[i].pc = "idle" /\ commands < MaxCommands /\ commands' = commands + 1
      /\ UNCHANGED <<file, gens, shipped, tokens, stored, spoiled, faults>>
      /\ proc' = [j \in Procs |-> IF j = i THEN r
                                  ELSE IF j \in busy
                                       THEN [proc[j] EXCEPT !.rivals = @ \cup {cmd}]
                                       ELSE proc[j]]
  BY DEF Start
<1>2. cmd.op \in {"init-keys", "generate-license"}
  BY CommandFacts
<1>3. /\ r.pc = next /\ r.cmd = cmd /\ r.rivals = {proc[k].cmd : k \in busy}
      /\ r.todo = <<>> /\ r.gen = 0 /\ r.result = "none"
  BY DEF Idle
<1>4. r.rivals \in SUBSET AllCommands
  BY <1>3, BusyFacts DEF Busy
<1>5. r \in Processes
  <2>1. <<>> \in Todos
    BY DEF Todos
  <2> QED
    BY <1>4, <2>1 DEF Idle, Processes, Pcs, Results
<1>6. next \in {"prompt", "make", "load"} /\ (next = "make" => cmd.op = "init-keys")
      /\ (next = "load" => cmd.op = "generate-license")
  BY <1>2
<1> HIDE DEF r, next
<1>7. ASSUME NEW j \in Procs
      PROVE  /\ j = i => proc'[j] = r
             /\ j # i => /\ proc'[j] \in Processes /\ proc'[j].pc = proc[j].pc
                         /\ proc'[j].cmd = proc[j].cmd /\ proc'[j].todo = proc[j].todo
                         /\ proc'[j].gen = proc[j].gen
                         /\ proc'[j].rivals = IF j \in busy THEN proc[j].rivals \cup {cmd}
                                                            ELSE proc[j].rivals
  BY <1>1 DEF VendorInv, Processes
<1>8. proc' \in [Procs -> Processes]
  BY <1>1, <1>5, <1>7
<1>9. CountsOK'
  BY <1>1, BoundsAssumption DEF VendorInv, CountsOK
<1>10. Found' = Found /\ FilesOK' /\ HistoryOK' /\ AnsweredUnderAskedKey'
  BY <1>1 DEF VendorInv, FilesOK, FileOK, HistoryOK, Found, AnsweredUnderAskedKey
<1>11. AllPlaced'
  <2> SUFFICES ASSUME NEW j \in Procs
               PROVE  WellPlaced(proc'[j], gens, Found)
    BY <1>1, <1>10 DEF AllPlaced
  <2>1. CASE j = i
    BY <1>3, <1>6, <1>7, <2>1 DEF WellPlaced
  <2>2. CASE j # i
    <3>1. WellPlaced(proc[j], gens, Found)
      BY DEF VendorInv, AllPlaced
    <3> QED
      BY <1>7, <2>2, <3>1 DEF WellPlaced
  <2> QED
    BY <2>1, <2>2
<1>12. OwnEmpty'
  <2> SUFFICES ASSUME NEW j \in Procs, proc'[j].pc = "write", ~Contests(proc'[j])
               PROVE  file[Head(proc'[j].todo).path].size = 0
    BY <1>1 DEF OwnEmpty, OwnFileEmpty
  <2>1. j # i /\ proc[j].pc = "write" /\ proc'[j].todo = proc[j].todo
    BY <1>3, <1>6, <1>7
  <2>2. ~Contests(proc[j])
    BY <1>7, <2>1 DEF Contests
  <2> QED
    BY <2>1, <2>2 DEF VendorInv, OwnEmpty, OwnFileEmpty
<1>13. Mutual'
  <2> SUFFICES ASSUME NEW j \in Procs, NEW k \in Procs, j # k, Busy(j)', Busy(k)'
               PROVE  \E d \in proc'[j].rivals : Touches(d) = Touches(proc'[k].cmd)
    BY DEF Mutual
  <2>1. CASE j = i
    BY <1>3, <1>7, <2>1 DEF Busy
  <2>2. CASE k = i
    BY <1>3, <1>7, <2>2 DEF Busy
  <2>3. CASE j # i /\ k # i
    <3>1. PICK d \in proc[j].rivals : Touches(d) = Touches(proc[k].cmd)
      BY <1>7, <2>3 DEF VendorInv, Mutual, Busy
    <3> QED
      BY <1>7, <2>3, <3>1
  <2> QED
    BY <2>1, <2>2, <2>3
<1> QED
  BY <1>1, <1>8, <1>9, <1>10, <1>11, <1>12, <1>13 DEF VendorInv

\* The passphrase is typed in.
LEMMA PromptKeeps ==
    ASSUME VendorInv, NEW i \in Procs, NEW first \in Options, NEW again \in Options,
           Prompt(i, first, again)
    PROVE  VendorInv'
<1>1. /\ proc[i].pc = "prompt" /\ Busy(i)
      /\ UNCHANGED <<file, gens, shipped, tokens, stored, spoiled, commands, faults>>
  BY DEF Prompt, Busy
<1>2. /\ proc[i] \in Processes /\ WellPlaced(proc[i], gens, Found)
      /\ proc[i].cmd \in AllCommands
      /\ proc[i].cmd.op \in {"init-keys", "generate-license"} /\ gens \in Nat
  BY <1>1, BusyFacts
<1>3. CountsOK' /\ AnsweredUnderAskedKey'
  BY <1>1 DEF VendorInv, CountsOK, AnsweredUnderAskedKey
<1>4. CASE Finish(i, "failed")
  <2>1. /\ proc' = [proc EXCEPT ![i] = Finished(i, "failed")] /\ "failed" \in Results
        /\ gens' \in Nat /\ gens <= gens'
    BY <1>1, <1>2, <1>4 DEF Finish, Results
  <2> QED
    BY <1>1, <1>3, <2>1, FinishKeeps
<1>5. CASE ~Finish(i, "failed")
  <2> DEFINE pc == IF proc[i].cmd.op = "init-keys" THEN "make" ELSE "load"
             cmd == [proc[i].cmd EXCEPT !.pass = first]
             r == [proc[i] EXCEPT !.pc = pc, !.cmd = cmd]
  <2>1. proc' = [proc EXCEPT ![i] = r]
    BY <1>2, <1>5 DEF Prompt, VendorInv, Processes
  <2>2. cmd \in AllCommands /\ cmd.op = proc[i].cmd.op /\ Touches(cmd) = Touches(proc[i].cmd)
    BY <1>2, CommandFacts
  <2>3. /\ r \in Processes /\ r.pc = pc /\ r.cmd = cmd /\ r.todo = proc[i].todo
        /\ r.gen = proc[i].gen /\ r.rivals = proc[i].rivals
    BY <1>2, <2>2 DEF Processes, Pcs
  <2> HIDE DEF r, cmd
  <2>4. WellPlaced(r, gens, Found)
    BY <1>1, <1>2, <2>2, <2>3 DEF WellPlaced
  <2>5. /\ WellPlaced(r, gens', Found) /\ gens' \in Nat /\ gens <= gens'
        /\ r.pc # "write" /\ Touches(r.cmd) = Touches(proc[i].cmd)
    BY <1>1, <1>2, <2>2, <2>3, <2>4
  <2> QED
    BY <1>1, <1>3, <2>1, <2>3, <2>5, QuietKeeps
<1> QED
  BY <1>4, <1>5

\* New keys take the next generation.
LEMMA MakeKeeps ==
    ASSUME VendorInv, NEW i \in Procs, NEW tpm \in Tpms, NEW seals \in BOOLEAN,
           Make(i, tpm, seals)
    PROVE  VendorInv'
<1>1. /\ proc[i].pc = "make" /\ Busy(i) /\ gens < MaxGens /\ gens' = gens + 1
      /\ UNCHANGED <<file, shipped, tokens, stored, spoiled, commands, faults>>
  BY DEF Make, Busy
<1>2. /\ proc[i] \in Processes /\ WellPlaced(proc[i], gens, Found)
      /\ proc[i].cmd \in AllCommands /\ proc[i].cmd.op = "init-keys" /\ gens \in Nat
  BY <1>1, BusyFacts DEF WellPlaced
<1>3. CountsOK' /\ AnsweredUnderAskedKey'
  BY <1>1, BoundsAssumption DEF VendorInv, CountsOK, AnsweredUnderAskedKey
<1>4. CASE ~seals
  <2>1. /\ proc' = [proc EXCEPT ![i] = Finished(i, "failed")] /\ "failed" \in Results
        /\ gens' \in Nat /\ gens <= gens'
    BY <1>1, <1>2, <1>4 DEF Make, Finish, Results
  <2> QED
    BY <1>1, <1>3, <2>1, FinishKeeps
<1>5. CASE seals
  <2>1. PICK n \in Nat : n = gens + 1
    BY <1>2
  <2> DEFINE todo == Writes(proc[i].cmd, n, tpm)
             r == [proc[i] EXCEPT !.pc = "open", !.gen = n, !.todo = todo]
  <2>2. proc' = [proc EXCEPT ![i] = r]
    BY <1>5, <2>1 DEF Make
  <2>3. Pending(proc[i].cmd, n, todo, Found)
    BY TpmsAssumption DEF Pending
  <2> HIDE DEF todo
  <2> HIDE DEF r
  <2>4. todo # <<>> /\ todo \in Todos
    <3>1. proc[i].cmd \in AllCommands /\ proc[i].cmd.op = "init-keys" /\ n \in Nat
      BY <1>2
    <3> QED
      BY ONLY <2>3, <3>1, PendingTodo
  <2>5. /\ r \in Processes /\ r.pc = "open" /\ r.cmd = proc[i].cmd /\ r.todo = todo
        /\ r.gen = n /\ r.rivals = proc[i].rivals
    BY <1>2, <2>4 DEF Processes, Pcs, r
  <2>6. WellPlaced(r, gens', Found) /\ gens' \in Nat /\ gens <= gens'
    BY <1>1, <1>2, <2>1, <2>3, <2>4, <2>5 DEF WellPlaced
  <2> QED
    BY <1>1, <1>3, <2>2, <2>5, <2>6, QuietKeeps
<1> QED
  BY <1>4, <1>5

\* What a process is about to write.
LEMMA WriterFacts ==
    ASSUME VendorInv, NEW i \in Procs, proc[i].pc \in {"open", "write"}
    PROVE  LET cmd == proc[i].cmd
               gen == proc[i].gen
               w == Head(proc[i].todo)
               rest == Tail(proc[i].todo)
           IN  /\ Busy(i) /\ proc[i] \in Processes /\ WellPlaced(proc[i], gens, Found)
               /\ cmd \in AllCommands /\ cmd.op = "init-keys" /\ gens \in Nat
               /\ gen \in 1..gens /\ gen # 0 /\ gen \in Nat
               /\ w.path \in Touches(cmd) \cap Paths /\ w.contents.size \in Nat
               /\ \/ /\ w.contents.of[1] = "keystore" /\ w.contents.of[2] = gen
                     /\ rest = <<Write(cmd.pub, Public(gen))>>
                  \/ /\ w.contents.of[1] = "public" /\ w.contents.of[2] = gen
                     /\ rest = <<>> /\ gen \in Found
               /\ rest \in Todos
<1>1. Busy(i) /\ proc[i] \in Processes /\ WellPlaced(proc[i], gens, Found)
      /\ proc[i].cmd \in AllCommands /\ gens \in Nat
  BY BusyFacts DEF Busy
<1>2. /\ proc[i].cmd.op = "init-keys" /\ proc[i].gen \in 1..gens /\ proc[i].gen # 0
      /\ proc[i].gen \in Nat /\ Pending(proc[i].cmd, proc[i].gen, proc[i].todo, Found)
  BY <1>1 DEF WellPlaced
<1>3. ASSUME NEW cmd \in AllCommands, cmd.op = "init-keys", NEW gen \in Nat, NEW todo,
             Pending(cmd, gen, todo, Found)
      PROVE  LET w == Head(todo)
                 rest == Tail(todo)
             IN  /\ w.path \in Touches(cmd) \cap Paths /\ w.contents.size \in Nat
                 /\ \/ /\ w.contents.of[1] = "keystore" /\ w.contents.of[2] = gen
                       /\ rest = <<Write(cmd.pub, Public(gen))>>
                    \/ /\ w.contents.of[1] = "public" /\ w.contents.of[2] = gen
                       /\ rest = <<>> /\ gen \in Found
                 /\ rest \in Todos
  BY <1>3, PendingFacts
<1> QED
  BY <1>1, <1>2, <1>3

\* ofstream empties the file.
LEMMA OpenKeeps ==
    ASSUME VendorInv, NEW i \in Procs, Open(i)
    PROVE  VendorInv'
<1> DEFINE path == Head(proc[i].todo).path
           r == [proc[i] EXCEPT !.pc = "write"]
           c == Empty
<1>1. /\ proc[i].pc = "open" /\ proc' = [proc EXCEPT ![i] = r]
      /\ file' = [file EXCEPT ![path] = c]
      /\ UNCHANGED <<gens, shipped, tokens, stored, spoiled, commands, faults>>
  BY DEF Open, Opened, history
<1>2. /\ Busy(i) /\ proc[i] \in Processes /\ WellPlaced(proc[i], gens, Found)
      /\ gens \in Nat /\ path \in Touches(proc[i].cmd) \cap Paths
  BY <1>1, WriterFacts
<1>3. /\ r \in Processes /\ r.pc = "write" /\ r.cmd = proc[i].cmd /\ r.todo = proc[i].todo
      /\ r.gen = proc[i].gen /\ r.rivals = proc[i].rivals
  BY <1>2 DEF Processes, Pcs
<1>4. c.size = 0 /\ c.of[1] = "nothing"
  BY WriteFacts
<1>5. OwnFileEmpty(r, file'[Head(r.todo).path])
  BY <1>1, <1>2, <1>3, <1>4 DEF OwnFileEmpty, VendorInv
<1> HIDE DEF r, c, path
<1>6. CountsOK' /\ AnsweredUnderAskedKey' /\ HistoryOK' /\ Found' = Found
  BY <1>1 DEF VendorInv, CountsOK, AnsweredUnderAskedKey, HistoryOK, Found
<1>7. WellPlaced(r, gens', Found') /\ gens' \in Nat /\ gens <= gens'
      /\ FileOK(c, gens', Found') /\ Touches(r.cmd) = Touches(proc[i].cmd)
      /\ stored \subseteq stored' /\ spoiled \subseteq spoiled' /\ shipped' = shipped
  BY <1>1, <1>2, <1>3, <1>4, <1>6 DEF WellPlaced, FileOK
<1> QED
  BY <1>1, <1>2, <1>3, <1>5, <1>6, <1>7, StepKeeps

\* A write puts the generation among those that are found, and goes on to the
\* public file or ends.
LEMMA FlushKeeps ==
    ASSUME VendorInv, NEW i \in Procs, NEW short \in BOOLEAN, Flush(i, short)
    PROVE  VendorInv'
<1> DEFINE cmd == proc[i].cmd
           gen == proc[i].gen
           w == Head(proc[i].todo)
           rest == Tail(proc[i].todo)
           path == w.path
           c == IF short THEN Torn(1) ELSE Overlay(file[path], w.contents)
           r == IF rest # <<>> THEN [proc[i] EXCEPT !.pc = "open", !.todo = rest]
                               ELSE Finished(i, "ok")
<1>1. /\ proc[i].pc = "write" /\ (short => faults < MaxFaults)
      /\ faults' = IF short THEN faults + 1 ELSE faults
      /\ file' = [file EXCEPT ![path] = c]
      /\ stored' = IF c.of[1] = "keystore" THEN stored \cup {gen} ELSE stored
      /\ spoiled' = IF short \/ Contested(i) THEN spoiled \cup {gen} ELSE spoiled
      /\ proc' = [proc EXCEPT ![i] = r]
      /\ UNCHANGED <<gens, shipped, tokens, commands>>
  BY DEF Flush
<1>2. /\ Busy(i) /\ proc[i] \in Processes /\ WellPlaced(proc[i], gens, Found)
      /\ cmd \in AllCommands /\ cmd.op = "init-keys" /\ gens \in Nat
      /\ gen \in 1..gens /\ gen # 0 /\ gen \in Nat
      /\ path \in Touches(cmd) \cap Paths /\ w.contents.size \in Nat
      /\ \/ /\ w.contents.of[1] = "keystore" /\ w.contents.of[2] = gen
            /\ rest = <<Write(cmd.pub, Public(gen))>>
         \/ /\ w.contents.of[1] = "public" /\ w.contents.of[2] = gen
            /\ rest = <<>> /\ gen \in Found
      /\ rest \in Todos
  BY <1>1, WriterFacts
<1>3. c = w.contents \/ c.of[1] = "garbage"
  BY WriteFacts
<1>4. short \/ Contested(i) \/ c = w.contents
  <2> SUFFICES ASSUME ~short, ~Contested(i)
               PROVE  c = w.contents
    OBVIOUS
  <2>1. file[path].size = 0
    BY <1>1 DEF VendorInv, OwnEmpty, OwnFileEmpty, Contests, Contested
  <2> QED
    BY <1>2, <2>1, WriteFacts
<1> HIDE DEF c
<1>5. /\ stored \subseteq stored' /\ spoiled \subseteq spoiled' /\ shipped' = shipped
      /\ HistoryOK' /\ Found \subseteq Found'
  BY <1>1, <1>2 DEF VendorInv, HistoryOK, Found
<1>6. gen \in Found'
  BY <1>1, <1>2, <1>4, <1>5 DEF Found
<1>7. FileOK(c, gens', Found')
  BY <1>1, <1>2, <1>3, <1>6 DEF FileOK
<1>8. CountsOK' /\ AnsweredUnderAskedKey' /\ gens' \in Nat /\ gens <= gens'
  BY <1>1, <1>2, BoundsAssumption DEF VendorInv, CountsOK, AnsweredUnderAskedKey
<1>9. /\ r \in Processes /\ r.rivals = proc[i].rivals /\ r.pc # "write"
      /\ r.pc # "idle" => r.cmd = cmd
      /\ WellPlaced(r, gens', Found')
  <2>1. CASE rest # <<>>
    <3> DEFINE q == [proc[i] EXCEPT !.pc = "open", !.todo = rest]
    <3>1. /\ q \in Processes /\ q.rivals = proc[i].rivals /\ q.pc = "open" /\ q.cmd = cmd
          /\ q.todo = rest /\ q.gen = gen
      BY <1>2 DEF Processes, Pcs
    <3>2. Pending(cmd, gen, rest, Found')
      BY <1>2, <1>6, <2>1 DEF Pending
    <3> HIDE DEF q
    <3>3. WellPlaced(q, gens', Found')
      BY <1>1, <1>2, <2>1, <3>1, <3>2 DEF WellPlaced
    <3>4. r = q
      BY <2>1 DEF q
    <3> QED
      BY <3>1, <3>3, <3>4
  <2>2. CASE rest = <<>>
    <3> DEFINE q == Finished(i, "ok")
    <3>1. /\ q \in Processes /\ q.rivals = proc[i].rivals /\ q.pc = "idle"
          /\ q.todo = <<>> /\ q.gen = 0
      BY <1>2, <2>2 DEF Finished, Processes, Pcs, Results
    <3> HIDE DEF q
    <3>2. WellPlaced(q, gens', Found')
      BY <3>1 DEF WellPlaced
    <3>3. r = q
      BY <2>2 DEF q
    <3> QED
      BY <3>1, <3>2, <3>3
  <2> QED
    BY <2>1, <2>2
<1> HIDE DEF r
<1>10. OwnFileEmpty(r, file'[Head(r.todo).path])
  BY <1>9 DEF OwnFileEmpty
<1> HIDE DEF path
<1> QED
  BY <1>1, <1>2, <1>5, <1>7, <1>8, <1>9, <1>10, StepKeeps

\* The keystore that was loaded is the one that the request was made for.
LEMMA LoadKeeps ==
    ASSUME VendorInv, NEW i \in Procs, NEW tpm \in Tpms, Load(i, tpm)
    PROVE  VendorInv'
<1> DEFINE contents == file[proc[i].cmd.keystore]
           gen == contents.of[2]
           r == [proc[i] EXCEPT !.pc = "sign", !.gen = gen]
<1>1. /\ proc[i].pc = "load" /\ Busy(i)
      /\ UNCHANGED <<file, gens, shipped, tokens, stored, spoiled, commands, faults>>
  BY DEF Load, Busy
<1>2. /\ proc[i] \in Processes /\ WellPlaced(proc[i], gens, Found) /\ gens \in Nat
      /\ proc[i].cmd \in AllCommands /\ proc[i].cmd.op = "generate-license"
  BY <1>1, BusyFacts DEF WellPlaced
<1>3. CountsOK' /\ AnsweredUnderAskedKey' /\ gens' \in Nat /\ gens <= gens'
  BY <1>1, <1>2 DEF VendorInv, CountsOK, AnsweredUnderAskedKey
<1>4. CASE Finish(i, "failed")
  <2>1. /\ proc' = [proc EXCEPT ![i] = Finished(i, "failed")] /\ "failed" \in Results
    BY <1>4 DEF Finish, Results
  <2> QED
    BY <1>1, <1>3, <2>1, FinishKeeps
<1>5. CASE ~Finish(i, "failed")
  <2>1. /\ contents # Absent /\ contents.of[1] = "keystore" /\ gen = proc[i].cmd.request
        /\ proc' = [proc EXCEPT ![i] = r]
    BY <1>5 DEF Load, Loads
  <2>2. proc[i].cmd.keystore \in Paths
    BY <1>2 DEF AllCommands, InitCommands, GenerateCommands, InitKeys, GenerateLicense, Paths
  <2>3. gen \in 1..gens /\ gen \in Nat
    BY <1>2, <2>1, <2>2 DEF VendorInv, FilesOK, FileOK
  <2> HIDE DEF gen
  <2>4. /\ r \in Processes /\ r.pc = "sign" /\ r.cmd = proc[i].cmd /\ r.gen = gen
        /\ r.todo = proc[i].todo /\ r.rivals = proc[i].rivals
    BY <1>2, <2>3 DEF Processes, Pcs
  <2> HIDE DEF r
  <2>5. WellPlaced(r, gens', Found) /\ r.pc # "write"
        /\ Touches(r.cmd) = Touches(proc[i].cmd)
    BY <1>1, <1>2, <2>1, <2>3, <2>4 DEF WellPlaced
  <2> QED
    BY <1>1, <1>3, <2>1, <2>4, <2>5, QuietKeeps
<1> QED
  BY <1>4, <1>5

\* A command that signs, stops or is killed.
LEMMA EndKeeps ==
    ASSUME VendorInv, NEW i \in Procs, Sign(i) \/ OpenFails(i) \/ Crash(i)
    PROVE  VendorInv'
<1>1. /\ Busy(i) /\ UNCHANGED <<file, gens, shipped, stored, spoiled, commands>>
      /\ \E result \in Results : proc' = [proc EXCEPT ![i] = Finished(i, result)]
      /\ faults' = faults \/ (faults < MaxFaults /\ faults' = faults + 1)
  <2>1. CASE Sign(i)
    <3>1. "ok" \in Results
      BY DEF Results
    <3> QED
      <4>1. /\ proc[i].pc = "sign" /\ Finish(i, "ok")
            /\ UNCHANGED <<file, gens, shipped, stored, spoiled, commands, faults>>
        BY <2>1 DEF Sign
      <4> QED
        BY <3>1, <4>1 DEF Finish, Busy
  <2>2. CASE OpenFails(i)
    <3>1. "failed" \in Results
      BY DEF Results
    <3> QED
      BY <2>2, <3>1 DEF OpenFails, Finish, Busy
  <2>3. CASE Crash(i)
    <3>1. "crashed" \in Results
      BY DEF Results
    <3> QED
      BY <2>3, <3>1 DEF Crash, Finish, Busy
  <2> QED
    BY <2>1, <2>2, <2>3
<1>2. CountsOK' /\ gens' \in Nat /\ gens <= gens'
  BY <1>1, BoundsAssumption DEF VendorInv, CountsOK
<1>3. AnsweredUnderAskedKey'
  <2>1. CASE Sign(i)
    <3>1. proc[i].gen = proc[i].cmd.request
      BY <2>1 DEF Sign, VendorInv, AllPlaced, WellPlaced
    <3> QED
      BY <2>1, <3>1 DEF Sign, SigningKey, VendorInv, AnsweredUnderAskedKey
  <2>2. CASE OpenFails(i) \/ Crash(i)
    BY <2>2 DEF OpenFails, Crash, VendorInv, AnsweredUnderAskedKey
  <2> QED
    BY <2>1, <2>2
<1> QED
  BY <1>1, <1>2, <1>3, FinishKeeps

\* What is sent to customers has been found before.
LEMMA ShipKeeps ==
    ASSUME VendorInv, NEW path \in Paths, Ship(path)
    PROVE  VendorInv'
<1>1. /\ UNCHANGED <<file, proc, gens, tokens, stored, spoiled, commands, faults>>
      /\ file[path] # Absent /\ file[path].of[1] = "public"
      /\ shipped' = shipped \cup {file[path].of[2]}
  BY DEF Ship, history
<1>2. file[path].of[2] \in Found
  BY <1>1 DEF VendorInv, FilesOK, FileOK
<1>3. Found' = Found /\ HistoryOK'
  BY <1>1, <1>2 DEF VendorInv, HistoryOK, Found
<1>4. AllPlaced' /\ FilesOK' /\ CountsOK'
  BY <1>1, <1>3 DEF VendorInv, AllPlaced, FilesOK, CountsOK
<1>5. OwnEmpty' /\ Mutual' /\ AnsweredUnderAskedKey'
  BY <1>1 DEF VendorInv, OwnEmpty, Mutual, Busy, AnsweredUnderAskedKey
<1> QED
  BY <1>1, <1>3, <1>4, <1>5 DEF VendorInv

-----------------------------------------------------------------------------
(* The theorems.                                                           *)

LEMMA VendorInvariant == Spec => []VendorInv
<1>1. Init => VendorInv
  <2> SUFFICES ASSUME Init
               PROVE  VendorInv
    OBVIOUS
  <2>1. <<>> \in Todos
    BY DEF Todos
  <2>2. Idle \in Processes
    BY <2>1 DEF Idle, Processes, Pcs, Results
  <2>3. \A i \in Procs : proc[i].pc = "idle" /\ proc[i].todo = <<>> /\ proc[i].gen = 0
    BY DEF Init, Idle
  <2>4. AllPlaced /\ OwnEmpty /\ Mutual
    BY <2>3 DEF AllPlaced, WellPlaced, OwnEmpty, OwnFileEmpty, Mutual, Busy
  <2>5. FilesOK /\ HistoryOK /\ AnsweredUnderAskedKey /\ CountsOK
    BY BoundsAssumption
    DEF Init, FilesOK, FileOK, HistoryOK, Found, AnsweredUnderAskedKey, CountsOK
  <2> QED
    BY <2>2, <2>4, <2>5 DEF Init, VendorInv
<1>2. VendorInv /\ [Next]_vars => VendorInv'
  <2> SUFFICES ASSUME VendorInv, [Next]_vars
               PROVE  VendorInv'
    OBVIOUS
  <2>1. ASSUME NEW i \in Procs, NEW cmd \in InitCommands \cup GenerateCommands(shipped),
               Start(i, cmd)
        PROVE  VendorInv'
    <3>1. shipped \subseteq Nat
      BY DEF VendorInv, HistoryOK, Found, CountsOK
    <3>2. cmd \in AllCommands
      BY <3>1 DEF AllCommands, GenerateCommands
    <3> QED
      BY <2>1, <3>2, StartKeeps
  <2>2. ASSUME NEW i \in Procs, Step(i)
        PROVE  VendorInv'
    <3>1. ASSUME NEW tpm \in Tpms, Make(i, tpm, TRUE) \/ Load(i, tpm)
          PROVE  VendorInv'
      BY <3>1, MakeKeeps, LoadKeeps
    <3>2. CASE Open(i) \/ Flush(i, FALSE) \/ Sign(i)
      BY <3>2, OpenKeeps, FlushKeeps, EndKeeps
    <3> QED
      BY <2>2, <3>1, <3>2 DEF Step
  <2>3. CASE UNCHANGED vars
    <3>1. UNCHANGED <<file, proc, gens, shipped, tokens, stored, spoiled, commands, faults>>
      BY <2>3 DEF vars, history
    <3>2. Found' = Found
      BY <3>1 DEF Found
    <3>3. AllPlaced' /\ FilesOK' /\ OwnEmpty'
      BY <3>1, <3>2 DEF VendorInv, AllPlaced, FilesOK, OwnEmpty
    <3>4. CountsOK' /\ Mutual' /\ HistoryOK' /\ AnsweredUnderAskedKey'
      BY <3>1, <3>2 DEF VendorInv, CountsOK, Mutual, Busy, HistoryOK, AnsweredUnderAskedKey
    <3> QED
      BY <3>1, <3>3, <3>4 DEF VendorInv
  <2> QED
    BY <2>1, <2>2, <2>3, PromptKeeps, MakeKeeps, EndKeeps, FlushKeeps, ShipKeeps DEF Next
<1> QED
  BY <1>1, <1>2, PTL DEF Spec

\* Files, processes and generations stay well formed, whoever writes which key
\* file when and wherever a run is killed.
THEOREM VendorTypeCorrect == Spec => []TypeOK
<1>1. VendorInv => TypeOK
  <2> SUFFICES ASSUME VendorInv
               PROVE  TypeOK
    OBVIOUS
  <2>1. ASSUME NEW i \in Procs
        PROVE  /\ proc[i].pc \in Pcs /\ proc[i].result \in Results
               /\ proc[i].pc \in {"open", "write"} <=> proc[i].todo # <<>>
               /\ proc[i].pc \in {"open", "write", "sign"} <=> proc[i].gen \in 1..gens
    BY DEF VendorInv, AllPlaced, WellPlaced, Processes, CountsOK
  <2>2. ASSUME NEW p \in Paths, file[p] # Absent
        PROVE  /\ file[p].of[1] \in {"nothing", "garbage", "keystore", "public"}
               /\ file[p].of[1] \in {"keystore", "public"} => file[p].of[2] \in 1..gens
    BY <2>2 DEF VendorInv, FilesOK, FileOK
  <2>3. CountsOK /\ shipped \subseteq 1..gens /\ stored \subseteq 1..gens
    BY DEF VendorInv, HistoryOK, Found
  <2> QED
    BY <2>1, <2>2, <2>3 DEF TypeOK, CountsOK
<1> QED
  BY <1>1, VendorInvariant, PTL

\* No customer is sent a public key whose private half was never on disk, for
\* any number of init-keys runs at any paths, killed or refused a file anywhere.
THEOREM PrivateAlwaysBeforePublic == Spec => []PrivateBeforePublic
<1>1. VendorInv => PrivateBeforePublic
  BY DEF VendorInv, HistoryOK, FilesOK, FileOK, Found, PrivateBeforePublic
<1> QED
  BY <1>1, VendorInvariant, PTL

\* Every token is signed with the key that its request was made for, though the
\* keystore may be replaced while generate-license runs.
THEOREM TokensUnderAskedKey == Spec => []AnsweredUnderAskedKey
<1>1. VendorInv => AnsweredUnderAskedKey
  BY DEF VendorInv
<1> QED
  BY <1>1, VendorInvariant, PTL

-----------------------------------------------------------------------------
(* What a successful init-keys has promised.  The invariant says that the  *)
(* pair is whole, that nobody under way was given one of its paths, and    *)
(* that an init-keys which has come to its public file without a fault or  *)
(* a rival has its keystore on disk.                                       *)

Promises == [keystore : Keystores, pub : Publics, pass : Options, gen : Nat]
PathsOf(s) == {s.keystore, s.pub}
Whole(s) ==
    /\ Loads(file[s.keystore], s.pass, TRUE)
    /\ file[s.keystore].of[2] = s.gen
    /\ file[s.pub] = Public(s.gen)

Undisturbed(s) == \A i \in Procs : Busy(i) => PathsOf(s) \cap Touches(proc[i].cmd) = {}

\* Process r is to write the public file, and nothing has gone wrong so far.
Halfway(r) ==
    /\ r.pc \in {"open", "write"} /\ r.todo = <<Write(r.cmd.pub, Public(r.gen))>>
    /\ r.cmd.keystore # r.cmd.pub
    /\ r.gen \notin spoiled /\ ~Contests(r)
HoldsKeystore(r, contents) ==
    \E sealed \in BOOLEAN : contents = Keystore(r.gen, r.cmd.pass, sealed)
KeystoreStands(i) == Halfway(proc[i]) => HoldsKeystore(proc[i], file[proc[i].cmd.keystore])

StandingInv ==
    /\ standing \subseteq Promises
    /\ \A s \in standing : Whole(s) /\ Undisturbed(s)
    /\ \A i \in Procs : KeystoreStands(i)

\* A step of process i, which writes no path but those of its command, leaves
\* alone the pairs that stand and the keystores that others have written.
LEMMA OthersKeep ==
    ASSUME VendorInv, StandingInv, NEW i \in Procs,
           NEW mine \in {{}, Touches(proc[i].cmd)}, mine # {} => Busy(i),
           \A q \in Paths \ mine : file'[q] = file[q],
           \A j \in Procs \ {i} :
               /\ proc'[j].cmd = proc[j].cmd /\ proc'[j].pc = proc[j].pc
               /\ proc'[j].gen = proc[j].gen /\ proc'[j].todo = proc[j].todo
               /\ proc[j].rivals \subseteq proc'[j].rivals,
           spoiled \subseteq spoiled', standing' \subseteq Promises,
           Busy(i)' => \A s \in standing' : PathsOf(s) \cap Touches(proc'[i].cmd) = {},
           \A s \in standing' \ standing : Whole(s)' /\ Undisturbed(s)',
           KeystoreStands(i)'
    PROVE  StandingInv'
<1>1. ASSUME NEW s \in standing, s \in standing'
      PROVE  Whole(s)' /\ Undisturbed(s)'
  <2>1. s.keystore \in Paths /\ s.pub \in Paths
    BY DEF StandingInv, Promises, Paths
  <2>2. PathsOf(s) \cap mine = {}
    BY DEF StandingInv, Undisturbed
  <2>3. file'[s.keystore] = file[s.keystore] /\ file'[s.pub] = file[s.pub]
    BY <2>1, <2>2 DEF PathsOf
  <2>4. Whole(s)'
    BY <2>3 DEF StandingInv, Whole
  <2>5. Undisturbed(s)'
    BY <1>1 DEF StandingInv, Undisturbed, Busy
  <2> QED
    BY <2>4, <2>5
<1>2. ASSUME NEW j \in Procs, j # i
      PROVE  KeystoreStands(j)'
  <2> SUFFICES ASSUME Halfway(proc[j])'
               PROVE  HoldsKeystore(proc[j], file[proc[j].cmd.keystore])'
    BY DEF KeystoreStands
  <2> DEFINE k == proc[j].cmd.keystore
  <2>1. Halfway(proc[j])
    BY <1>2 DEF Halfway, Contests
  <2>2. HoldsKeystore(proc[j], file[k])
    BY <2>1 DEF StandingInv, KeystoreStands
  <2>3. Busy(j) /\ proc[j].pc \in {"open", "write"}
    BY <2>1 DEF Halfway, Busy
  <2>4. k \in Touches(proc[j].cmd) /\ k \in Paths
    BY <2>3, WriterFacts, CommandFacts
  <2>5. ASSUME k \in mine
        PROVE  FALSE
    <3>1. PICK d \in proc[j].rivals : Touches(d) = Touches(proc[i].cmd)
      BY <1>2, <2>3, <2>5 DEF VendorInv, Mutual
    <3>2. Touches(d) \cap Touches(proc[j].cmd) = {}
      BY <2>1, <3>1 DEF Halfway, Contests
    <3> QED
      BY <2>4, <2>5, <3>1, <3>2
  <2>6. file'[k] = file[k]
    BY <2>4, <2>5
  <2> QED
    BY <1>2, <2>2, <2>6 DEF HoldsKeystore
<1> QED
  BY <1>1, <1>2 DEF StandingInv

\* A step of a process under way that writes no file.
LEMMA QuietStands ==
    ASSUME VendorInv, StandingInv, NEW i \in Procs, NEW r, Busy(i),
           proc' = [proc EXCEPT ![i] = r], file' = file,
           UNCHANGED <<standing, spoiled>>,
           r.pc # "idle" => Touches(r.cmd) = Touches(proc[i].cmd),
           r.pc \in {"open", "write"} => r.todo # <<Write(r.cmd.pub, Public(r.gen))>>
    PROVE  StandingInv'
<1>1. \A j \in Procs : proc'[j] = IF j = i THEN r ELSE proc[j]
  BY DEF VendorInv
<1>2. KeystoreStands(i)'
  BY <1>1 DEF KeystoreStands, Halfway
<1>3. Busy(i)' => \A s \in standing' : PathsOf(s) \cap Touches(proc'[i].cmd) = {}
  BY <1>1 DEF StandingInv, Undisturbed, Busy
<1>4. standing' \subseteq Promises
  BY DEF StandingInv
<1>5. {} \in {{}, Touches(proc[i].cmd)}
  OBVIOUS
<1> QED
  BY <1>1, <1>2, <1>3, <1>4, <1>5, OthersKeep

\* A command takes back what was promised of its paths, and knows all rivals.
LEMMA StartStands ==
    ASSUME VendorInv, StandingInv, NEW i \in Procs, NEW cmd \in AllCommands, Start(i, cmd)
    PROVE  StandingInv'
<1> DEFINE busy == {j \in Procs : proc[j].pc # "idle"}
           next == IF cmd.pass = NoPass THEN "prompt"
                   ELSE IF cmd.op = "init-keys" THEN "make" ELSE "load"
           r == [Idle EXCEPT !.cmd = cmd, !.pc = next, !.rivals = {proc[k].cmd : k \in busy}]
<1>1. /\ UNCHANGED <<file, spoiled>>
      /\ standing' = {s \in standing : PathsOf(s) \cap Touches(cmd) = {}}
      /\ proc' = [j \in Procs |-> IF j = i THEN r
                                  ELSE IF j \in busy
                                       THEN [proc[j] EXCEPT !.rivals = @ \cup {cmd}]
                                       ELSE proc[j]]
  BY DEF Start, PathsOf
<1>2. r.pc \notin {"open", "write"} /\ r.cmd = cmd
  BY DEF Idle
<1> HIDE DEF r
<1>3. KeystoreStands(i)'
  BY <1>1, <1>2 DEF KeystoreStands, Halfway
<1>4. \A s \in standing' : PathsOf(s) \cap Touches(proc'[i].cmd) = {}
  BY <1>1, <1>2
<1>5. \A j \in Procs \ {i} :
          /\ proc'[j].cmd = proc[j].cmd /\ proc'[j].pc = proc[j].pc
          /\ proc'[j].gen = proc[j].gen /\ proc'[j].todo = proc[j].todo
          /\ proc[j].rivals \subseteq proc'[j].rivals
  BY <1>1 DEF VendorInv, Processes
<1>6. standing' \subseteq Promises /\ standing' \subseteq standing
  BY <1>1 DEF StandingInv
<1>7. {} \in {{}, Touches(proc[i].cmd)}
  OBVIOUS
<1> QED
  BY <1>1, <1>3, <1>4, <1>5, <1>6, <1>7, OthersKeep

\* The steps between: passphrase, keys, loading, signing, and the ends.
LEMMA BetweenStands ==
    ASSUME VendorInv, StandingInv, NEW i \in Procs,
           \/ \E first, again \in Options : Prompt(i, first, again)
           \/ \E tpm \in Tpms, seals \in BOOLEAN : Make(i, tpm, seals)
           \/ \E tpm \in Tpms : Load(i, tpm)
           \/ OpenFails(i) \/ Sign(i) \/ Crash(i)
    PROVE  StandingInv'
<1>1. ASSUME NEW result, Busy(i), Finish(i, result), file' = file, spoiled' = spoiled
      PROVE  StandingInv'
  <2> DEFINE r == Finished(i, result)
  <2>1. r.pc = "idle" /\ proc' = [proc EXCEPT ![i] = r] /\ standing' = standing
    BY <1>1 DEF Finish, Finished, VendorInv, Processes
  <2> HIDE DEF r
  <2> QED
    BY <1>1, <2>1, QuietStands
<1>2. ASSUME NEW first \in Options, NEW again \in Options, Prompt(i, first, again)
      PROVE  StandingInv'
  <2> DEFINE pc == IF proc[i].cmd.op = "init-keys" THEN "make" ELSE "load"
             cmd == [proc[i].cmd EXCEPT !.pass = first]
             r == [proc[i] EXCEPT !.pc = pc, !.cmd = cmd]
  <2>1. Busy(i) /\ file' = file /\ spoiled' = spoiled
    BY <1>2 DEF Prompt, Busy
  <2>2. CASE Finish(i, "failed")
    BY <1>1, <2>1, <2>2
  <2>3. CASE ~Finish(i, "failed")
    <3>1. proc[i] \in Processes /\ proc[i].cmd \in AllCommands
      BY <2>1, BusyFacts
    <3>2. proc' = [proc EXCEPT ![i] = r] /\ standing' = standing
      <4>1. ~(Finish(i, "failed")) /\ proc[i].cmd.op \in {"init-keys", "generate-license"}
        BY <2>3, <3>1, CommandFacts
      <4> QED
        BY <1>2, <3>1, <4>1 DEF Prompt, VendorInv, Processes
    <3>3. r.pc \in {"make", "load"} /\ r.cmd = cmd /\ Touches(cmd) = Touches(proc[i].cmd)
      BY <3>1, CommandFacts DEF Processes
    <3> HIDE DEF r, cmd
    <3> QED
      BY <2>1, <3>2, <3>3, QuietStands
  <2> QED
    BY <2>2, <2>3
<1>3. ASSUME NEW tpm \in Tpms, NEW seals \in BOOLEAN, Make(i, tpm, seals)
      PROVE  StandingInv'
  <2> DEFINE todo == Writes(proc[i].cmd, gens + 1, tpm)
             r == [proc[i] EXCEPT !.pc = "open", !.gen = gens + 1, !.todo = todo]
  <2>1. Busy(i) /\ file' = file /\ spoiled' = spoiled
    BY <1>3 DEF Make, Busy
  <2>2. CASE ~seals
    BY <1>1, <1>3, <2>1, <2>2 DEF Make
  <2>3. CASE seals
    <3>1. proc' = [proc EXCEPT ![i] = r] /\ standing' = standing
      BY <1>3, <2>3 DEF Make
    <3>2. Len(todo) = 2
      BY DEF Writes
    <3> HIDE DEF todo
    <3>3. r.pc = "open" /\ r.cmd = proc[i].cmd /\ r.todo = todo
      BY <2>1, BusyFacts DEF Processes
    <3>4. \A w : todo # <<w>>
      BY <3>2
    <3> HIDE DEF r
    <3> QED
      BY <2>1, <3>1, <3>3, <3>4, QuietStands
  <2> QED
    BY <2>2, <2>3
<1>4. ASSUME NEW tpm \in Tpms, Load(i, tpm)
      PROVE  StandingInv'
  <2> DEFINE gen == file[proc[i].cmd.keystore].of[2]
             r == [proc[i] EXCEPT !.pc = "sign", !.gen = gen]
  <2>1. Busy(i) /\ file' = file /\ spoiled' = spoiled
    BY <1>4 DEF Load, Busy
  <2>2. CASE Finish(i, "failed")
    BY <1>1, <2>1, <2>2
  <2>3. CASE ~Finish(i, "failed")
    <3>1. proc' = [proc EXCEPT ![i] = r] /\ standing' = standing
      BY <1>4, <2>3 DEF Load
    <3>2. r.pc = "sign" /\ r.cmd = proc[i].cmd
      BY <2>1, BusyFacts DEF Processes
    <3> HIDE DEF r
    <3> QED
      BY <2>1, <3>1, <3>2, QuietStands
  <2> QED
    BY <2>2, <2>3
<1>5. ASSUME OpenFails(i) \/ Sign(i) \/ Crash(i)
      PROVE  StandingInv'
  <2>1. Busy(i) /\ file' = file /\ spoiled' = spoiled
    BY <1>5 DEF OpenFails, Sign, Crash, Busy
  <2>2. \E result \in Results : Finish(i, result)
    BY <1>5 DEF OpenFails, Sign, Crash, Results
  <2> QED
    BY <1>1, <2>1, <2>2
<1> QED
  BY <1>2, <1>3, <1>4, <1>5

\* What an init-keys that writes has before it.
LEMMA TurnFacts ==
    ASSUME VendorInv, NEW i \in Procs, proc[i].pc \in {"open", "write"}
    PROVE  LET cmd == proc[i].cmd
               gen == proc[i].gen
               w == Head(proc[i].todo)
               public == <<Write(cmd.pub, Public(gen))>>
           IN  \/ /\ w.path = cmd.keystore /\ Tail(proc[i].todo) = public
                  /\ \E sealed \in BOOLEAN : w.contents = Keystore(gen, cmd.pass, sealed)
                  /\ proc[i].todo # public
               \/ /\ w.path = cmd.pub /\ w.contents = Public(gen)
                  /\ proc[i].todo = public /\ Tail(proc[i].todo) = <<>>
<1>1. Pending(proc[i].cmd, proc[i].gen, proc[i].todo, Found)
  BY DEF VendorInv, AllPlaced, WellPlaced
<1>2. ASSUME NEW cmd, NEW gen, NEW todo, NEW sealed \in BOOLEAN, todo = Writes(cmd, gen, sealed)
      PROVE  /\ Head(todo).path = cmd.keystore /\ Tail(todo) = <<Write(cmd.pub, Public(gen))>>
             /\ Head(todo).contents = Keystore(gen, cmd.pass, sealed)
             /\ todo # <<Write(cmd.pub, Public(gen))>>
  BY <1>2 DEF Writes, Write
<1>3. CASE \E sealed \in BOOLEAN : proc[i].todo = Writes(proc[i].cmd, proc[i].gen, sealed)
  BY <1>2, <1>3
<1>4. CASE proc[i].todo = <<Write(proc[i].cmd.pub, Public(proc[i].gen))>>
  BY <1>4 DEF Write
<1> QED
  BY <1>1, <1>3, <1>4 DEF Pending

\* ofstream empties a file of the command's own.
LEMMA OpenStands ==
    ASSUME VendorInv, StandingInv, NEW i \in Procs, Open(i)
    PROVE  StandingInv'
<1> DEFINE cmd == proc[i].cmd
           path == Head(proc[i].todo).path
           r == [proc[i] EXCEPT !.pc = "write"]
<1>1. /\ proc[i].pc = "open" /\ proc' = [proc EXCEPT ![i] = r]
      /\ file' = [file EXCEPT ![path] = Empty] /\ UNCHANGED <<spoiled, standing>>
  BY DEF Open, Opened, history
<1>2. Busy(i) /\ proc[i] \in Processes /\ cmd \in AllCommands /\ cmd.op = "init-keys"
      /\ path \in Touches(cmd) \cap Paths
  BY <1>1, WriterFacts
<1>3. /\ r.pc = "write" /\ r.cmd = cmd /\ r.todo = proc[i].todo
      /\ r.gen = proc[i].gen /\ r.rivals = proc[i].rivals
  BY <1>2 DEF Processes
<1> HIDE DEF r
<1>4. \A j \in Procs : proc'[j] = IF j = i THEN r ELSE proc[j]
  BY <1>1 DEF VendorInv
<1>5. \A q \in Paths : q # path => file'[q] = file[q]
  BY <1>1 DEF VendorInv
<1>6. KeystoreStands(i)'
  <2> SUFFICES ASSUME Halfway(proc[i])'
               PROVE  HoldsKeystore(proc[i], file[proc[i].cmd.keystore])'
    BY DEF KeystoreStands
  <2>1. Halfway(proc[i])
    BY <1>1, <1>3, <1>4 DEF Halfway, Contests
  <2>2. path = cmd.pub /\ path # cmd.keystore
    BY <1>1, <2>1, TurnFacts DEF Halfway
  <2>3. cmd.keystore \in Paths
    BY <1>2, CommandFacts
  <2>4. file'[cmd.keystore] = file[cmd.keystore]
    BY <1>5, <2>2, <2>3
  <2>5. HoldsKeystore(proc[i], file[cmd.keystore])
    BY <2>1 DEF StandingInv, KeystoreStands
  <2> QED
    BY <1>3, <1>4, <2>4, <2>5 DEF HoldsKeystore
<1>7. \A s \in standing' : PathsOf(s) \cap Touches(proc'[i].cmd) = {}
  BY <1>1, <1>2, <1>3, <1>4 DEF StandingInv, Undisturbed
<1>8. \A q \in Paths \ Touches(cmd) : file'[q] = file[q]
  BY <1>2, <1>5
<1>9. standing' \subseteq Promises /\ Touches(cmd) \in {{}, Touches(proc[i].cmd)}
  BY <1>1 DEF StandingInv
<1> HIDE DEF path
<1> QED
  BY <1>1, <1>2, <1>4, <1>6, <1>7, <1>8, <1>9, OthersKeep

\* An uncontested write that the disk takes whole is what the file then holds;
\* the last one completes the pair.
LEMMA FlushStands ==
    ASSUME VendorInv, StandingInv, NEW i \in Procs, NEW short \in BOOLEAN, Flush(i, short)
    PROVE  StandingInv'
<1> DEFINE cmd == proc[i].cmd
           gen == proc[i].gen
           w == Head(proc[i].todo)
           rest == Tail(proc[i].todo)
           path == w.path
           c == IF short THEN Torn(1) ELSE Overlay(file[path], w.contents)
           q == [proc[i] EXCEPT !.pc = "open", !.todo = rest]
<1>1. /\ proc[i].pc = "write" /\ file' = [file EXCEPT ![path] = c]
      /\ spoiled' = IF short \/ Contested(i) THEN spoiled \cup {gen} ELSE spoiled
      /\ IF rest # <<>> THEN proc' = [proc EXCEPT ![i] = q] /\ standing' = standing
         ELSE /\ proc' = [proc EXCEPT ![i] = Finished(i, "ok")]
              /\ standing' = IF gen \in spoiled' THEN standing ELSE standing \cup Promised(i)
  BY DEF Flush
<1>2. /\ Busy(i) /\ proc[i] \in Processes /\ cmd \in AllCommands /\ cmd.op = "init-keys"
      /\ gen \in 1..gens /\ gen \in Nat /\ path \in Touches(cmd) \cap Paths
      /\ w.contents.size \in Nat /\ cmd.keystore \in Paths /\ cmd.pub \in Paths
  BY <1>1, WriterFacts, CommandFacts
<1>3. gen \notin spoiled' => ~short /\ ~Contests(proc[i]) /\ gen \notin spoiled /\ c = w.contents
  <2> SUFFICES ASSUME gen \notin spoiled'
               PROVE  c = w.contents /\ ~short /\ ~Contests(proc[i]) /\ gen \notin spoiled
    OBVIOUS
  <2>1. ~short /\ ~Contested(i) /\ gen \notin spoiled
    BY <1>1
  <2>2. file[path].size = 0
    BY <1>1, <2>1 DEF VendorInv, OwnEmpty, OwnFileEmpty, Contests, Contested
  <2> QED
    BY <1>2, <2>1, <2>2, WriteFacts DEF Contests, Contested
<1> HIDE DEF c
<1>4. file'[path] = c /\ \A p \in Paths : p # path => file'[p] = file[p]
  BY <1>1, <1>2 DEF VendorInv
<1>5. \A p \in Paths \ Touches(cmd) : file'[p] = file[p]
  BY <1>2, <1>4
<1>6. spoiled \subseteq spoiled' /\ Touches(cmd) \in {{}, Touches(proc[i].cmd)}
  BY <1>1
<1>7. CASE rest # <<>>
  <2>1. /\ q.pc = "open" /\ q.cmd = cmd /\ q.todo = rest /\ q.gen = gen
        /\ q.rivals = proc[i].rivals
    BY <1>2 DEF Processes
  <2> HIDE DEF q
  <2>2. \A j \in Procs : proc'[j] = IF j = i THEN q ELSE proc[j]
    BY <1>1, <1>7 DEF VendorInv
  <2>3. path = cmd.keystore /\ \E sealed \in BOOLEAN : w.contents = Keystore(gen, cmd.pass, sealed)
    BY <1>1, <1>7, TurnFacts
  <2>4. KeystoreStands(i)'
    BY <1>3, <1>4, <2>1, <2>2, <2>3 DEF KeystoreStands, Halfway, HoldsKeystore
  <2>5. standing' = standing /\ standing' \subseteq Promises
    BY <1>1, <1>7 DEF StandingInv
  <2>6. \A s \in standing' : PathsOf(s) \cap Touches(proc'[i].cmd) = {}
    BY <1>2, <2>1, <2>2, <2>5 DEF StandingInv, Undisturbed
  <2> HIDE DEF rest, path, w
  <2> QED
    BY <1>2, <1>5, <1>6, <2>2, <2>4, <2>5, <2>6, OthersKeep
<1>8. CASE rest = <<>>
  <2> DEFINE e == Finished(i, "ok")
  <2>1. e.pc = "idle" /\ proc' = [proc EXCEPT ![i] = e]
    BY <1>1, <1>2, <1>8 DEF Finished, Processes
  <2> HIDE DEF e
  <2>2. \A j \in Procs : proc'[j] = IF j = i THEN e ELSE proc[j]
    BY <2>1 DEF VendorInv
  <2>3. path = cmd.pub /\ w.contents = Public(gen) /\ proc[i].todo = <<Write(cmd.pub, Public(gen))>>
    BY <1>1, <1>8, TurnFacts
  <2>4. KeystoreStands(i)' /\ ~Busy(i)'
    BY <2>1, <2>2 DEF KeystoreStands, Halfway, Busy
  <2>5. ASSUME NEW s \in standing' \ standing
        PROVE  s \in Promises /\ Whole(s)' /\ Undisturbed(s)'
    <3>1. /\ gen \notin spoiled' /\ cmd.keystore # cmd.pub
          /\ s = [keystore |-> cmd.keystore, pub |-> cmd.pub, pass |-> cmd.pass, gen |-> gen]
      BY <1>1, <1>8 DEF Promised
    <3>2. /\ s.keystore = cmd.keystore /\ s.pub = cmd.pub /\ s.pass = cmd.pass /\ s.gen = gen
          /\ PathsOf(s) = Touches(cmd)
      BY <1>2, <3>1, CommandFacts DEF PathsOf
    <3>3. s \in Promises
      BY <1>2, <3>1 DEF Promises, AllCommands, InitCommands, GenerateCommands, InitKeys,
                        GenerateLicense
    <3>4. Halfway(proc[i])
      BY <1>1, <1>3, <2>3, <3>1 DEF Halfway
    <3>5. PICK sealed \in BOOLEAN : file[cmd.keystore] = Keystore(gen, cmd.pass, sealed)
      BY <3>4 DEF StandingInv, KeystoreStands, HoldsKeystore
    <3>6. file'[cmd.keystore] = Keystore(gen, cmd.pass, sealed) /\ file'[cmd.pub] = Public(gen)
      BY <1>2, <1>3, <1>4, <2>3, <3>1, <3>5
    <3>7. Keystore(gen, cmd.pass, sealed) # Absent
      <4>1. gen \in 1..MaxGens /\ cmd.pass \in Passphrases \cup {NoPass}
        BY <1>2, CommandFacts, BoundsAssumption DEF VendorInv, CountsOK, Options
      <4> QED
        BY <4>1, AbsentAssumption
    <3>8. /\ Keystore(gen, cmd.pass, sealed).of[1] = "keystore"
          /\ Keystore(gen, cmd.pass, sealed).of[2] = gen
          /\ Keystore(gen, cmd.pass, sealed).of[3] = cmd.pass
      BY DEF Keystore, Contents
    <3>9. Whole(s)'
      BY <3>2, <3>6, <3>7, <3>8 DEF Whole, Loads
    <3>10. Undisturbed(s)'
      <4> SUFFICES ASSUME NEW j \in Procs, Busy(j)'
                   PROVE  PathsOf(s) \cap Touches(proc'[j].cmd) = {}
        BY DEF Undisturbed
      <4>1. j # i /\ Busy(j) /\ proc'[j] = proc[j]
        BY <2>2, <2>4 DEF Busy
      <4>2. PICK d \in proc[i].rivals : Touches(d) = Touches(proc[j].cmd)
        BY <1>2, <4>1 DEF VendorInv, Mutual
      <4> QED
        BY <1>3, <3>1, <3>2, <4>1, <4>2 DEF Contests
    <3> QED
      BY <3>3, <3>9, <3>10
  <2>6. standing' \subseteq Promises
    BY <2>5 DEF StandingInv
  <2> HIDE DEF rest, path, w
  <2> QED
    BY <1>2, <1>5, <1>6, <2>2, <2>4, <2>5, <2>6, OthersKeep
<1> QED
  BY <1>7, <1>8

\* A pair that a successful init-keys reported is whole until one of its paths is
\* given to another, on any host with any number of operators and files.
THEOREM StandingPairStaysWhole == Spec => []StandingPairWhole
<1>1. Init => StandingInv
  <2> SUFFICES ASSUME Init
               PROVE  StandingInv
    OBVIOUS
  <2>1. standing = {} /\ \A i \in Procs : proc[i].pc = "idle"
    BY DEF Init, Idle
  <2> QED
    BY <2>1 DEF StandingInv, KeystoreStands, Halfway
<1>2. VendorInv /\ StandingInv /\ [Next]_vars => StandingInv'
  <2> SUFFICES ASSUME VendorInv, StandingInv, [Next]_vars
               PROVE  StandingInv'
    OBVIOUS
  <2>1. ASSUME NEW i \in Procs, NEW cmd \in InitCommands \cup GenerateCommands(shipped),
               Start(i, cmd)
        PROVE  StandingInv'
    <3>1. shipped \subseteq Nat
      BY DEF VendorInv, HistoryOK, Found, CountsOK
    <3>2. cmd \in AllCommands
      BY <3>1 DEF AllCommands, GenerateCommands
    <3> QED
      BY <2>1, <3>2, StartStands
  <2>2. ASSUME NEW i \in Procs, Step(i)
        PROVE  StandingInv'
    BY <2>2, BetweenStands, OpenStands, FlushStands DEF Step
  <2>3. ASSUME UNCHANGED <<file, proc, spoiled, standing>>
        PROVE  StandingInv'
    BY <2>3 DEF StandingInv, Whole, Undisturbed, Busy, KeystoreStands, Halfway, HoldsKeystore
  <2>4. (\E path \in Paths : Ship(path)) \/ UNCHANGED vars
           => UNCHANGED <<file, proc, spoiled, standing>>
    BY DEF Ship, vars, history
  <2> QED
    BY <2>1, <2>2, <2>3, <2>4, BetweenStands, FlushStands DEF Next
<1>3. StandingInv => StandingPairWhole
  BY DEF StandingInv, Whole, StandingPairWhole
<1> QED
  BY <1>1, <1>2, <1>3, VendorInvariant, PTL DEF Spec

-----------------------------------------------------------------------------
(* Commands end.  What can be said of that without fairness: every step of *)
(* a command brings it nearer to its end, nothing that others do brings it *)
(* back, and where a pair stands a request for it is not refused.          *)

\* How many steps a process is from the end of its command, at most.
StepsLeft(r) ==
    LET more == Tail(r.todo) # <<>>
    IN  CASE r.pc = "idle"   -> 0
          [] r.pc = "prompt" -> 6
          [] r.pc = "make"   -> 5
          [] r.pc = "open"   -> IF more THEN 4 ELSE 2
          [] r.pc = "write"  -> IF more THEN 3 ELSE 1
          [] r.pc = "load"   -> 2
          [] r.pc = "sign"   -> 1

\* What process i does: on its own, with a passphrase, or cut short.
Moves(i) ==
    \/ Step(i) \/ Flush(i, TRUE) \/ OpenFails(i) \/ Crash(i)
    \/ \E tpm \in Tpms : Make(i, tpm, FALSE)
    \/ \E first, again \in Options : Prompt(i, first, again)

\* A step of a process is one nearer to the end of its command, whether it is
\* the next, a failure or a kill; no step of another takes it back.
RunsDown ==
    \A i \in Procs : Busy(i) =>
        /\ StepsLeft(proc[i]) \in 1..6 /\ StepsLeft(proc'[i]) <= StepsLeft(proc[i])
        /\ Moves(i) => StepsLeft(proc'[i]) < StepsLeft(proc[i])

\* What StepsLeft can be.
LEMMA StepsCounted ==
    ASSUME NEW r, r.pc \in Pcs
    PROVE  /\ StepsLeft(r) \in 0..6
           /\ r.pc = "idle" <=> StepsLeft(r) = 0
BY DEF StepsLeft, Pcs

\* It depends on the place and the writes to come only.
LEMMA SameSteps ==
    ASSUME NEW r, NEW q, r.pc = q.pc, r.todo = q.todo
    PROVE  StepsLeft(r) = StepsLeft(q)
BY DEF StepsLeft

\* The end of a command.
LEMMA NoStepLeft ==
    ASSUME VendorInv, NEW i \in Procs, NEW result,
           proc' = [proc EXCEPT ![i] = Finished(i, result)]
    PROVE  /\ StepsLeft(proc'[i]) = 0 /\ proc'[i].result = result
           /\ \A j \in Procs : j # i => proc'[j] = proc[j]
<1>1. proc[i] \in Processes /\ proc \in [Procs -> Processes]
  BY DEF VendorInv
<1>2. Finished(i, result).pc = "idle" /\ Finished(i, result).result = result
  BY <1>1 DEF Finished, Processes
<1>3. proc'[i] = Finished(i, result) /\ \A j \in Procs : j # i => proc'[j] = proc[j]
  BY <1>1
<1> QED
  BY <1>2, <1>3 DEF StepsLeft

\* A process that moves comes nearer to its end, and leaves the others alone.
LEMMA OneStepLess ==
    ASSUME VendorInv, NEW i \in Procs, Moves(i)
    PROVE  /\ StepsLeft(proc'[i]) < StepsLeft(proc[i])
           /\ \A j \in Procs : j # i => proc'[j] = proc[j]
<1> DEFINE Less == StepsLeft(proc'[i]) < StepsLeft(proc[i])
           Others == \A j \in Procs : j # i => proc'[j] = proc[j]
<1>1. proc[i] \in Processes /\ proc \in [Procs -> Processes]
  BY DEF VendorInv
<1>2. StepsLeft(proc[i]) \in 0..6 /\ (proc[i].pc # "idle" => StepsLeft(proc[i]) # 0)
  BY <1>1, StepsCounted DEF Processes
<1>3. ASSUME NEW result, proc' = [proc EXCEPT ![i] = Finished(i, result)], proc[i].pc # "idle"
      PROVE  Less /\ Others
  <2>1. StepsLeft(proc'[i]) = 0 /\ Others
    BY <1>3, NoStepLeft
  <2>2. StepsLeft(proc[i]) \in 1..6
    BY <1>2, <1>3
  <2> QED
    BY <2>1, <2>2
<1>4. ASSUME NEW tpm \in Tpms, NEW seals \in BOOLEAN, Make(i, tpm, seals)
      PROVE  Less /\ Others
  <2>1. CASE ~seals
    BY <1>3, <1>4, <2>1 DEF Make, Finish
  <2>2. CASE seals
    <3> DEFINE todo == Writes(proc[i].cmd, gens + 1, tpm)
    <3>1. proc' = [proc EXCEPT ![i].pc = "open", ![i].gen = gens + 1, ![i].todo = todo]
      BY <1>4, <2>2 DEF Make
    <3> HIDE DEF todo
    <3>2. proc[i].pc = "make" /\ proc'[i].pc = "open" /\ Others
      BY <1>1, <1>4, <3>1 DEF Make, Processes
    <3>3. StepsLeft(proc[i]) = 5 /\ StepsLeft(proc'[i]) \in {2, 4}
      BY <3>2 DEF StepsLeft
    <3> QED
      BY <3>2, <3>3
  <2> QED
    BY <2>1, <2>2
<1>5. ASSUME NEW tpm \in Tpms, Load(i, tpm)
      PROVE  Less /\ Others
  <2>1. CASE Finish(i, "failed")
    BY <1>3, <1>5, <2>1 DEF Load, Finish
  <2>2. CASE ~Finish(i, "failed")
    <3>1. proc[i].pc = "load" /\ proc'[i].pc = "sign" /\ Others
      BY <1>1, <1>5, <2>2 DEF Load, Processes
    <3>2. StepsLeft(proc[i]) = 2 /\ StepsLeft(proc'[i]) = 1
      BY <3>1 DEF StepsLeft
    <3> QED
      BY <3>1, <3>2
  <2> QED
    BY <2>1, <2>2
<1>6. ASSUME Open(i)
      PROVE  Less /\ Others
  <2>1. /\ proc[i].pc = "open" /\ proc'[i].pc = "write" /\ proc'[i].todo = proc[i].todo
        /\ Others
    BY <1>1, <1>6 DEF Open, Processes
  <2> QED
    BY <2>1 DEF StepsLeft
<1>7. ASSUME NEW short \in BOOLEAN, Flush(i, short)
      PROVE  Less /\ Others
  <2> DEFINE rest == Tail(proc[i].todo)
  <2>1. proc[i].pc = "write"
    BY <1>7 DEF Flush
  <2>2. CASE rest # <<>>
    <3>1. proc'[i].pc = "open" /\ proc'[i].todo = rest /\ Others
      <4>1. proc' = [proc EXCEPT ![i].pc = "open", ![i].todo = rest]
        BY <1>7, <2>2 DEF Flush
      <4> HIDE DEF rest
      <4> QED
        BY <1>1, <4>1 DEF Processes
    <3>2. rest = <<Write(proc[i].cmd.pub, Public(proc[i].gen))>>
      BY <2>1, <2>2, WriterFacts
    <3>3. \A w : Tail(<<w>>) = <<>>
      OBVIOUS
    <3>4. Tail(rest) = <<>>
      BY <3>2, <3>3, Zenon
    <3>5. StepsLeft(proc'[i]) = 2 /\ StepsLeft(proc[i]) = 3
      <4> HIDE DEF rest
      <4>1. Tail(proc'[i].todo) = <<>> /\ Tail(proc[i].todo) = rest
        BY <3>1, <3>4 DEF rest
      <4> QED
        BY <2>1, <2>2, <3>1, <4>1 DEF StepsLeft
    <3> QED
      BY <3>1, <3>5
  <2>3. CASE rest = <<>>
    BY <1>3, <1>7, <2>1, <2>3 DEF Flush
  <2> QED
    BY <2>2, <2>3
<1>8. ASSUME NEW first \in Options, NEW again \in Options, Prompt(i, first, again)
      PROVE  Less /\ Others
  <2>1. proc[i].pc = "prompt" /\ StepsLeft(proc[i]) = 6
    BY <1>8 DEF Prompt, StepsLeft
  <2>2. CASE Finish(i, "failed")
    BY <1>3, <2>1, <2>2 DEF Finish
  <2>3. CASE ~Finish(i, "failed")
    <3> DEFINE next == IF proc[i].cmd.op = "init-keys" THEN "make" ELSE "load"
    <3>1. proc' = [proc EXCEPT ![i].pc = next, ![i].cmd.pass = first]
      BY <1>8, <2>3 DEF Prompt
    <3>2. next \in {"make", "load"}
      OBVIOUS
    <3> HIDE DEF next
    <3>3. proc'[i].pc = next /\ Others
      BY <1>1, <3>1 DEF Processes
    <3>4. StepsLeft(proc'[i]) \in {2, 5}
      BY <3>2, <3>3 DEF StepsLeft
    <3> QED
      BY <2>1, <3>3, <3>4
  <2> QED
    BY <2>2, <2>3
<1>9. ASSUME OpenFails(i) \/ Crash(i) \/ Sign(i)
      PROVE  Less /\ Others
  BY <1>3, <1>9 DEF OpenFails, Crash, Sign, Finish
<1>10. Step(i) => Less /\ Others
  <2>1. ASSUME NEW tpm \in Tpms, Make(i, tpm, TRUE) \/ Load(i, tpm)
        PROVE  Less /\ Others
    BY <1>4, <1>5, <2>1
  <2> QED
    BY <1>6, <1>7, <1>9, <2>1 DEF Step
<1> QED
  BY <1>4, <1>7, <1>8, <1>9, <1>10 DEF Moves

\* Every command of the vendor has at most six steps of its own to its end,
\* counting the typing of the passphrase, and nothing that others do takes it
\* back: none starts over.
THEOREM VendorCommandsRunDown == Spec => [][RunsDown]_vars
<1>1. VendorInv /\ VendorInv' /\ [Next]_vars => [RunsDown]_vars
  <2> SUFFICES ASSUME VendorInv, VendorInv', Next, NEW i \in Procs, Busy(i)
               PROVE  /\ StepsLeft(proc[i]) \in 1..6
                      /\ StepsLeft(proc'[i]) <= StepsLeft(proc[i])
                      /\ Moves(i) => StepsLeft(proc'[i]) < StepsLeft(proc[i])
    BY DEF RunsDown
  <2> DEFINE before == StepsLeft(proc[i])
             after == StepsLeft(proc'[i])
  <2>1. before \in 1..6 /\ after \in 0..6
    <3>1. proc[i].pc \in Pcs /\ proc'[i].pc \in Pcs
      BY DEF VendorInv, Processes
    <3> QED
      BY <3>1, StepsCounted DEF Busy
  <2>2. Moves(i) => after < before
    BY OneStepLess
  <2>3. ASSUME NEW j \in Procs, j # i, Moves(j)
        PROVE  after = before
    BY <2>3, OneStepLess
  <2>4. ASSUME NEW j \in Procs, NEW cmd, Start(j, cmd)
        PROVE  after = before
    <3>1. j # i
      BY <2>4 DEF Start, Busy
    <3>2. proc[i] \in Processes /\ proc'[i] = [proc[i] EXCEPT !.rivals = @ \cup {cmd}]
      BY <2>4, <3>1 DEF Start, Busy, VendorInv
    <3>3. proc'[i].pc = proc[i].pc /\ proc'[i].todo = proc[i].todo
      BY <3>2 DEF Processes
    <3> QED
      BY <3>3, SameSteps
  <2>5. ASSUME NEW path \in Paths, Ship(path)
        PROVE  after = before
    BY <2>5 DEF Ship
  <2>6. \/ \E j \in Procs : Moves(j) \/ \E cmd : Start(j, cmd)
        \/ \E path \in Paths : Ship(path)
    BY Zenon DEF Next, Moves
  <2> HIDE DEF before, after
  <2>7. Moves(i) \/ after = before
    BY <2>3, <2>4, <2>5, <2>6, Zenon
  <2>8. after <= before /\ (Moves(i) => after < before)
    BY <2>1, <2>2, <2>7
  <2> QED
    BY <2>1, <2>8 DEF before, after
<1> QED
  BY <1>1, VendorInvariant, PTL DEF Spec

\* A generate-license under way for a pair that stands goes on to sign, or
\* answers, unless it is killed.
NotRefused ==
    \A i \in Procs : proc[i].pc \in {"load", "sign"} /\ Covered(i) =>
        proc'[i].pc \in {"load", "sign"} \/ proc'[i].result \in {"ok", "crashed"}

\* The keystore of a standing pair loads, whether or not there is a TPM now.
LEMMA StandingLoads ==
    ASSUME VendorInv, StandingPairWhole, NEW i \in Procs, Covered(i), NEW tpm \in Tpms, Load(i, tpm)
    PROVE  proc'[i].pc = "sign"
<1> DEFINE cmd == proc[i].cmd
           contents == file[cmd.keystore]
<1>1. PICK s \in standing : /\ s.keystore = cmd.keystore /\ s.gen = cmd.request
                            /\ s.pass = cmd.pass /\ ~file[s.keystore].of[4]
  BY DEF Covered
<1>2. Loads(contents, cmd.pass, TRUE) /\ contents.of[2] = cmd.request
  BY <1>1 DEF StandingPairWhole
<1>3. Loads(contents, cmd.pass, tpm)
  BY <1>1, <1>2 DEF Loads
<1>4. proc' = [proc EXCEPT ![i].pc = "sign", ![i].gen = contents.of[2]]
  BY <1>2, <1>3 DEF Load
<1> QED
  BY <1>4 DEF VendorInv, Processes

\* A request that was made for a pair which stands is never refused, though
\* keystores at other paths are made, replaced and spoiled meanwhile: with
\* VendorCommandsRunDown, this is StandingAnswers but for fairness.
THEOREM StandingIsNeverRefused == Spec => [][NotRefused]_vars
<1>1. VendorInv /\ StandingPairWhole /\ [Next]_vars => [NotRefused]_vars
  <2> SUFFICES ASSUME VendorInv, StandingPairWhole, Next, NEW i \in Procs,
                      proc[i].pc \in {"load", "sign"}, Covered(i)
               PROVE  proc'[i].pc \in {"load", "sign"} \/ proc'[i].result \in {"ok", "crashed"}
    BY DEF NotRefused
  <2> DEFINE Fine == proc'[i].pc \in {"load", "sign"} \/ proc'[i].result \in {"ok", "crashed"}
  <2>1. proc[i] \in Processes /\ proc \in [Procs -> Processes]
    BY DEF VendorInv
  <2>2. ASSUME NEW j \in Procs, j # i, Moves(j)
        PROVE  Fine
    BY <2>2, OneStepLess
  <2>3. ASSUME NEW j \in Procs, NEW cmd, Start(j, cmd)
        PROVE  Fine
    <3>1. j # i /\ proc'[i] = [proc[i] EXCEPT !.rivals = @ \cup {cmd}]
      BY <2>1, <2>3 DEF Start
    <3> QED
      BY <2>1, <3>1 DEF Processes
  <2>4. ASSUME NEW path \in Paths, Ship(path)
        PROVE  Fine
    BY <2>4 DEF Ship
  <2>5. ASSUME NEW tpm \in Tpms, Load(i, tpm)
        PROVE  Fine
    BY <2>5, StandingLoads
  <2>6. CASE Sign(i) \/ Crash(i)
    BY <2>6, NoStepLeft DEF Sign, Crash, Finish
  <2>7. Moves(i) => Fine
    BY <2>5, <2>6 DEF Moves, Step, Make, Open, Flush, OpenFails, Prompt
  <2>8. \/ \E j \in Procs : Moves(j) \/ \E cmd : Start(j, cmd)
        \/ \E path \in Paths : Ship(path)
    BY Zenon DEF Next, Moves
  <2> HIDE DEF Fine
  <2>9. ASSUME NEW j \in Procs, Moves(j)
        PROVE  Fine
    <3>1. CASE j # i
      BY <2>2, <2>9, <3>1
    <3>2. CASE j = i
      BY <2>7, <2>9, <3>2
    <3> QED
      BY <3>1, <3>2
  <2>10. Fine
    BY <2>3, <2>4, <2>8, <2>9
  <2> QED
    BY <2>10 DEF Fine
<1> QED
  BY <1>1, VendorInvariant, StandingPairStaysWhole, PTL DEF Spec
=============================================================================
