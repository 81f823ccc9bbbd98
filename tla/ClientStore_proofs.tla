------------------------- MODULE ClientStore_proofs -------------------------
(***************************************************************************)
(* Theorems about ClientStore for every number of processes, products,     *)
(* tokens, commands and faults.                                            *)
(***************************************************************************)
EXTENDS ClientStore, SequenceTheorems, TLAPS

-----------------------------------------------------------------------------
(* The inductive invariant.                                                *)

IsSealed(blob) == blob # Absent /\ blob.of[1] = "sealed"

\* What process i with command cmd may still have to write, when the machine
\* secrets in use are those of S: nobody but activate writes a sealed licence.
LicenceBlob(s, cmd) == Sealed(s, <<"license", cmd.product>>, cmd.token, SizeOf[cmd.token])
DevkeyBlob(s, i, cmd) == Sealed(s, <<"devkey", cmd.product>>, i, DevkeySize)
Wipe(cmd, w) == w = Write(LicFile(cmd.product), Torn(w.contents.size))

ToWrite(i, cmd, S, todo) ==
    \/ cmd.op # "deactivate" /\ i \in S /\ todo = <<Write(SecretFile, Secret(i))>>
    \/ cmd.op = "deactivate" /\ \E w \in {todo[1]} : Wipe(cmd, w) /\ todo = <<w>>
    \/ /\ cmd.op = "generate-request"
       /\ \E s \in S : todo = <<Write(DevkeyFile(cmd.product), DevkeyBlob(s, i, cmd))>>
    \/ /\ cmd.op = "activate"
       /\ \E s \in S :
             LET lic == Write(LicFile(cmd.product), LicenceBlob(s, cmd))
             IN  \/ todo = <<lic>>
                 \/ todo = <<Write(SealedFile(cmd.product), LicenceBlob(s, cmd)), lic>>

\* A process stands where its command takes it.
WellPlaced(i, r) ==
    /\ r.pc # "idle" => r.cmd \in Commands
    /\ r.pc \in {"open", "write"} <=> r.todo # <<>>
    /\ r.pc = "write" <=> r.fd # "none"
    /\ r.pc \in {"open", "write"} => ToWrite(i, r.cmd, Secrets, r.todo)
    /\ r.pc = "find" => r.cmd.op # "activate"
    /\ r.pc = "read" => r.cmd.op \in {"verify", "generate-request"}
    /\ r.pc \in {"size", "remove"} => r.cmd.op = "deactivate"
    /\ r.pc = "key" => r.cmd.op # "deactivate"
    /\ r.pc \in {"key", "open", "write"} /\ r.cmd.op = "verify" => r.blob # Absent
    /\ r.blob # Absent => r.cmd.op \in {"verify", "generate-request"}
    /\ r.result = "valid" => r.cmd \in Commands /\ r.cmd.op = "verify"

AllPlaced == \A i \in Procs : WellPlaced(i, proc[i])

\* Two commands under way know of each other.
Mutual ==
    \A i, j \in Procs : i # j /\ Busy(i) /\ Busy(j) => proc[j].cmd \in proc[i].rivals

\* Where a product cannot be licensed no activate of it is under way and its
\* .lic holds no sealed blob; what is held, no deactivate is taking away.
ActivationLive ==
    \A i \in Procs : Busy(i) /\ proc[i].cmd.op = "activate" => proc[i].cmd.product \in live
UnlicensedUnsealed == \A p \in Products \ live : ~IsSealed(file[LicFile(p)])
HeldUndisturbed ==
    \A i \in Procs : Busy(i) /\ proc[i].cmd.op = "deactivate" => proc[i].cmd.product \notin held

\* A verify that began without a licence and met no activate has read none.
Unlicensed(i) ==
    proc[i].cmd \in Commands /\ proc[i].cmd.op = "verify"
    /\ ~proc[i].licensed /\ ~Rival(i, "activate")
UnlicensedInvalid ==
    \A i \in Procs : Unlicensed(i) =>
        /\ proc[i].result # "valid"
        /\ Busy(i) => proc[i].cmd.product \notin live /\ ~IsSealed(proc[i].blob)

\* A file that is open for writing is there.
OpenThere == \A i \in Procs : proc[i].fd = "open" => file[Head(proc[i].todo).file] # Absent

StoreInv ==
    /\ TypeOK /\ AllPlaced /\ OpenThere /\ Mutual
    /\ ActivationLive /\ UnlicensedUnsealed /\ HeldUndisturbed /\ UnlicensedInvalid

\* What the counters and the files must fulfil after a step.
CountsOK == commands \in 0..MaxCommands /\ faults \in 0..MaxFaults
FilesOK == file \in [Files -> AllContents \cup {Absent}]

-----------------------------------------------------------------------------
(* Commands and their pending writes.                                      *)

\* A command names an operation and a product, and activate a token of it.
LEMMA CommandFacts ==
    ASSUME NEW cmd \in Commands
    PROVE  /\ cmd.op \in Ops /\ cmd.product \in Products
           /\ cmd.op = "activate" => cmd.token \in Tokens /\ ProductOf[cmd.token] = cmd.product
BY TokenAssumption DEF Commands, Command, Ops

\* The account's files are told apart by their paths.
LEMMA FileFacts ==
    /\ SecretFile \in Files
    /\ \A p \in Products : {LicFile(p), SealedFile(p), DevkeyFile(p)} \subseteq Files
    /\ \A p, q : LicFile(p) # SecretFile /\ LicFile(p) # SealedFile(q)
                 /\ LicFile(p) # DevkeyFile(q) /\ (LicFile(p) = LicFile(q) => p = q)
    /\ \A p : SealedFile(p) # SecretFile /\ DevkeyFile(p) # SecretFile
BY DEF Files, SecretFile, LicFile, SealedFile, DevkeyFile

\* What is written is well-formed contents, and only sealed blobs are sealed.
LEMMA ContentsFacts ==
    /\ Empty \in AllContents /\ ~IsSealed(Empty)
    /\ \A n \in Nat : Torn(n) \in AllContents /\ ~IsSealed(Torn(n)) /\ Torn(n).size = n
    /\ \A s \in Secrets : Secret(s) \in AllContents /\ ~IsSealed(Secret(s))
    /\ \A s \in Secrets, cmd \in Commands :
          cmd.op = "activate" => LicenceBlob(s, cmd) \in AllContents
    /\ \A s \in Secrets, i \in Procs, cmd \in Commands :
          DevkeyBlob(s, i, cmd) \in AllContents
<1>1. Empty \in AllContents /\ ~IsSealed(Empty)
  BY DEF Empty, Contents, AllContents, IsSealed
<1>2. ASSUME NEW n \in Nat
      PROVE  Torn(n) \in AllContents /\ ~IsSealed(Torn(n)) /\ Torn(n).size = n
  BY DEF Torn, Contents, AllContents, IsSealed
<1>3. ASSUME NEW s \in Secrets
      PROVE  Secret(s) \in AllContents /\ ~IsSealed(Secret(s))
  BY DEF Secret, Contents, AllContents, IsSealed
<1>4. ASSUME NEW s \in Secrets, NEW cmd \in Commands, cmd.op = "activate"
      PROVE  LicenceBlob(s, cmd) \in AllContents
  BY <1>4, CommandFacts, TokenAssumption
  DEF LicenceBlob, Sealed, Contents, AllContents, SealLabels
<1>5. ASSUME NEW s \in Secrets, NEW i \in Procs, NEW cmd \in Commands
      PROVE  DevkeyBlob(s, i, cmd) \in AllContents
  BY CommandFacts DEF DevkeyBlob, DevkeySize, Sealed, Contents, AllContents, SealLabels
<1> QED
  BY <1>1, <1>2, <1>3, <1>4, <1>5

\* A write over a file gives well-formed contents: what was written, or torn.
LEMMA OverlayFacts ==
    ASSUME NEW old \in AllContents \cup {Absent}, NEW new \in AllContents,
           old # Absent
    PROVE  /\ Overlay(old, new) \in AllContents
           /\ Overlay(old, new) = new \/ ~IsSealed(Overlay(old, new))
           /\ old.size <= new.size => Overlay(old, new) = new
<1>1. old \in AllContents /\ old.size \in Nat /\ new.size \in Nat
  BY DEF AllContents
<1> QED
  BY <1>1, ContentsFacts DEF Overlay

Todos == Seq([file : Files, contents : AllContents])

\* What the next write of a command is, and what is left after it.
LEMMA ToWriteFacts ==
    ASSUME NEW i \in Procs, NEW cmd \in Commands, NEW S \in SUBSET Secrets,
           NEW todo \in Todos, ToWrite(i, cmd, S, todo)
    PROVE  /\ todo # <<>>
           /\ Head(todo).file \in Files /\ Head(todo).contents \in AllContents
           /\ Head(todo).file = SecretFile =>
                 cmd.op # "deactivate" /\ i \in S /\ Tail(todo) = <<>>
           /\ Tail(todo) # <<>> =>
                 cmd.op = "activate" /\ ToWrite(i, cmd, S, Tail(todo))
           /\ \A p \in Products :
                 Head(todo).file = LicFile(p) /\ IsSealed(Head(todo).contents) =>
                     cmd.op = "activate" /\ cmd.product = p
<1>1. CASE i \in S /\ cmd.op # "deactivate" /\ todo = <<Write(SecretFile, Secret(i))>>
  <2>1. /\ todo # <<>> /\ Tail(todo) = <<>>
        /\ Head(todo).file = SecretFile /\ Head(todo).contents = Secret(i)
    BY <1>1 DEF Write
  <2> QED
    BY <1>1, <2>1, FileFacts, ContentsFacts
<1>2. CASE cmd.op = "deactivate" /\ \E w \in {todo[1]} : Wipe(cmd, w) /\ todo = <<w>>
  <2>1. PICK w : Wipe(cmd, w) /\ todo = <<w>>
    BY <1>2
  <2>2. /\ todo # <<>> /\ Tail(todo) = <<>> /\ Head(todo) = w
    BY <2>1
  <2>3. /\ Head(todo).file = LicFile(cmd.product)
        /\ \E n : Head(todo).contents = Torn(n)
    BY <2>1, <2>2 DEF Wipe, Write
  <2>4. ~IsSealed(Head(todo).contents)
    BY <2>3 DEF IsSealed, Torn, Contents
  <2>5. Head(todo).contents \in AllContents
    <3>1. Head(todo) \in [file : Files, contents : AllContents]
      BY <2>2, HeadTailProperties DEF Todos
    <3> QED
      BY <3>1
  <2> QED
    BY <2>2, <2>3, <2>4, <2>5, FileFacts, CommandFacts
<1>3. CASE /\ cmd.op = "generate-request"
           /\ \E s \in S : todo = <<Write(DevkeyFile(cmd.product), DevkeyBlob(s, i, cmd))>>
  <2>1. PICK s \in S : todo = <<Write(DevkeyFile(cmd.product), DevkeyBlob(s, i, cmd))>>
    BY <1>3
  <2>2. /\ todo # <<>> /\ Tail(todo) = <<>>
        /\ Head(todo).file = DevkeyFile(cmd.product)
        /\ Head(todo).contents = DevkeyBlob(s, i, cmd)
    BY <2>1 DEF Write
  <2> QED
    BY <2>2, FileFacts, CommandFacts, ContentsFacts
<1>4. CASE /\ cmd.op = "activate"
           /\ \E s \in S : todo = <<Write(LicFile(cmd.product), LicenceBlob(s, cmd))>>
  <2>1. PICK s \in S : todo = <<Write(LicFile(cmd.product), LicenceBlob(s, cmd))>>
    BY <1>4
  <2>2. /\ todo # <<>> /\ Tail(todo) = <<>>
        /\ Head(todo).file = LicFile(cmd.product)
        /\ Head(todo).contents = LicenceBlob(s, cmd)
    BY <2>1 DEF Write
  <2> QED
    BY <1>4, <2>2, FileFacts, CommandFacts, ContentsFacts
<1>5. CASE /\ cmd.op = "activate"
           /\ \E s \in S : todo = <<Write(SealedFile(cmd.product), LicenceBlob(s, cmd)),
                                    Write(LicFile(cmd.product), LicenceBlob(s, cmd))>>
  <2>1. PICK s \in S : todo = <<Write(SealedFile(cmd.product), LicenceBlob(s, cmd)),
                                Write(LicFile(cmd.product), LicenceBlob(s, cmd))>>
    BY <1>5
  <2>2. /\ todo # <<>>
        /\ Head(todo).file = SealedFile(cmd.product)
        /\ Head(todo).contents = LicenceBlob(s, cmd)
        /\ Tail(todo) = <<Write(LicFile(cmd.product), LicenceBlob(s, cmd))>>
    BY <2>1 DEF Write
  <2>3. ToWrite(i, cmd, S, Tail(todo))
    BY <1>5, <2>2 DEF ToWrite
  <2> QED
    BY <1>5, <2>2, <2>3, FileFacts, CommandFacts, ContentsFacts
<1> QED
  BY <1>1, <1>2, <1>3, <1>4, <1>5 DEF ToWrite

\* The file that a process writes is one of the account's.
LEMMA HeadInFiles ==
    ASSUME StoreInv, NEW j \in Procs, proc[j].pc \in {"open", "write"}
    PROVE  /\ proc[j].todo \in Todos /\ proc[j].cmd \in Commands
           /\ ToWrite(j, proc[j].cmd, Secrets, proc[j].todo)
           /\ Head(proc[j].todo).file \in Files
<1>1. proc[j] \in Processes /\ WellPlaced(j, proc[j])
  BY DEF StoreInv, TypeOK, AllPlaced
<1>2. proc[j].cmd \in Commands /\ ToWrite(j, proc[j].cmd, Secrets, proc[j].todo)
      /\ proc[j].todo \in Todos
  BY <1>1 DEF WellPlaced, Processes, Todos
<1>3. Secrets \in SUBSET Secrets
  OBVIOUS
<1>4. ASSUME NEW c \in Commands, NEW todo \in Todos, ToWrite(j, c, Secrets, todo)
      PROVE  Head(todo).file \in Files
  BY <1>3, <1>4, ToWriteFacts
<1> QED
  BY <1>2, <1>4

-----------------------------------------------------------------------------
(* Steps that take one process on, and steps that end its command.         *)

\* A step that moves a busy process on, touches no promise and keeps the
\* files in order keeps the invariant.
LEMMA MoveKeeps ==
    ASSUME StoreInv, NEW i \in Procs, NEW r \in Processes, Busy(i),
           proc' = [proc EXCEPT ![i] = r], UNCHANGED promises,
           r.pc # "idle", r.cmd = proc[i].cmd, r.rivals = proc[i].rivals,
           r.licensed = proc[i].licensed, r.result = proc[i].result,
           WellPlaced(i, r), Unlicensed(i) => ~IsSealed(r.blob),
           FilesOK', UnlicensedUnsealed', CountsOK',
           \A f \in Files : file[f] # Absent => file'[f] # Absent,
           r.fd = "open" => file'[Head(r.todo).file] # Absent
    PROVE  StoreInv'
<1> USE DEF Busy
<1>1. ASSUME NEW j \in Procs
      PROVE  proc'[j] = IF j = i THEN r ELSE proc[j]
  BY DEF StoreInv, TypeOK
<1>2. proc' \in [Procs -> Processes]
  BY DEF StoreInv, TypeOK
<1>3. AllPlaced'
  BY <1>1 DEF StoreInv, AllPlaced, WellPlaced
<1>4. TypeOK'
  BY <1>2, <1>3 DEF StoreInv, TypeOK, AllPlaced, WellPlaced, FilesOK, CountsOK, promises
<1>5. OpenThere'
  <2> SUFFICES ASSUME NEW j \in Procs, proc'[j].fd = "open"
               PROVE  file'[Head(proc'[j].todo).file] # Absent
    BY DEF OpenThere
  <2>1. CASE j = i
    BY <1>1, <2>1
  <2>2. CASE j # i
    <3>1. proc'[j] = proc[j] /\ file[Head(proc[j].todo).file] # Absent
      BY <1>1, <2>2 DEF StoreInv, OpenThere
    <3>2. proc[j].pc = "write"
      BY <1>1, <2>2 DEF StoreInv, AllPlaced, WellPlaced
    <3>3. Head(proc[j].todo).file \in Files
      BY <3>2, HeadInFiles
    <3> QED
      BY <3>1, <3>3
  <2> QED
    BY <2>1, <2>2
<1>6. Mutual'
  BY <1>1 DEF StoreInv, Mutual
<1>7. ActivationLive' /\ HeldUndisturbed'
  BY <1>1 DEF StoreInv, ActivationLive, HeldUndisturbed, promises
<1>8. UnlicensedInvalid'
  BY <1>1 DEF StoreInv, UnlicensedInvalid, Unlicensed, Rival, promises
<1> QED
  BY <1>3, <1>4, <1>5, <1>6, <1>7, <1>8 DEF StoreInv

\* The promises when a command ends.
LEMMA PromiseFacts ==
    ASSUME NEW i \in Procs, NEW result, Promise(i, result)
    PROVE  /\ held' \subseteq held \cup {proc[i].cmd.product}
           /\ ~(proc[i].cmd.op = "activate" /\ result = "ok" /\ ~Rival(i, "deactivate"))
                 => held' \subseteq held
           /\ live' = live \/ live' = live \ {proc[i].cmd.product}
           /\ ~(proc[i].cmd.op = "deactivate" /\ result = "ok" /\ ~Rival(i, "activate"))
                 => live' = live
<1> DEFINE op == proc[i].cmd.op
           p == proc[i].cmd.product
<1>1. held' = CASE op = "activate" /\ result = "ok" /\ ~Rival(i, "deactivate") -> held \cup {p}
                [] op = "activate" /\ result = "crashed" -> held \ {p}
                [] OTHER -> held
  BY DEF Promise
<1>2. live' = IF op = "deactivate" /\ result = "ok" /\ ~Rival(i, "activate")
              THEN live \ {p} ELSE live
  BY DEF Promise
<1>3. CASE op = "activate" /\ result = "ok" /\ ~Rival(i, "deactivate")
  BY <1>1, <1>2, <1>3
<1>4. CASE op = "activate" /\ result = "crashed"
  BY <1>1, <1>2, <1>4
<1>5. CASE ~(op = "activate" /\ result = "ok" /\ ~Rival(i, "deactivate"))
           /\ ~(op = "activate" /\ result = "crashed")
  BY <1>1, <1>2, <1>5
<1> QED
  BY <1>3, <1>4, <1>5

\* A step that ends the command of a busy process, and may take the file that
\* others are writing from its path, keeps the invariant.
LEMMA EndKeeps ==
    ASSUME StoreInv, NEW i \in Procs, NEW result \in Results, Busy(i),
           NEW orphans \in SUBSET {j \in Procs : proc[j].fd = "open"},
           proc' = [j \in Procs |->
                      IF j = i THEN Finished(i, result)
                      ELSE IF j \in orphans THEN [proc[j] EXCEPT !.fd = "orphan"]
                      ELSE proc[j]],
           Promise(i, result),
           result = "valid" => proc[i].cmd.op = "verify" /\ ~Unlicensed(i),
           FilesOK', UnlicensedUnsealed', CountsOK',
           \A j \in Procs \ orphans : j # i /\ proc[j].fd = "open" =>
               file'[Head(proc[j].todo).file] # Absent
    PROVE  StoreInv'
<1> USE DEF Busy
<1> DEFINE c == proc[i].cmd
<1>1. c \in Commands /\ c.op \in Ops /\ c.product \in Products
  BY CommandFacts DEF StoreInv, AllPlaced, WellPlaced
<1>2. /\ Finished(i, result) \in Processes
      /\ Finished(i, result).pc = "idle" /\ Finished(i, result).todo = <<>>
      /\ Finished(i, result).fd = "none" /\ Finished(i, result).blob = Absent
      /\ Finished(i, result).result = result /\ Finished(i, result).cmd = c
      /\ Finished(i, result).rivals = proc[i].rivals
      /\ Finished(i, result).licensed = proc[i].licensed
  <2>1. proc[i] \in Processes
    BY DEF StoreInv, TypeOK
  <2>2. <<>> \in Seq([file : Files, contents : AllContents])
    OBVIOUS
  <2>3. /\ Finished(i, result).pc = "idle" /\ Finished(i, result).todo = <<>>
        /\ Finished(i, result).fd = "none" /\ Finished(i, result).blob = Absent
        /\ Finished(i, result).result = result /\ Finished(i, result).cmd = c
        /\ Finished(i, result).rivals = proc[i].rivals
        /\ Finished(i, result).licensed = proc[i].licensed
    BY <2>1 DEF Finished, Processes
  <2>4. c \in Commands \cup {Absent} /\ proc[i].rivals \in SUBSET Commands
        /\ proc[i].licensed \in BOOLEAN
    BY <2>1 DEF Processes
  <2>5. Finished(i, result) \in Processes
    BY <2>1, <2>2 DEF Finished, Processes, Pcs
  <2> QED
    BY <2>3, <2>5
<1>3. ASSUME NEW j \in Procs, j # i
      PROVE  /\ proc'[j] \in Processes
             /\ \A f \in {"cmd", "pc", "todo", "blob", "result", "rivals", "licensed"} :
                    proc'[j][f] = proc[j][f]
             /\ proc'[j].fd = IF j \in orphans THEN "orphan" ELSE proc[j].fd
  <2>1. proc[j] \in Processes
    BY DEF StoreInv, TypeOK
  <2>2. CASE j \in orphans
    <3>1. proc'[j] = [proc[j] EXCEPT !.fd = "orphan"]
      BY <1>3, <2>2
    <3> QED
      BY <2>1, <2>2, <3>1 DEF Processes
  <2>3. CASE j \notin orphans
    <3>1. proc'[j] = proc[j]
      BY <1>3, <2>3
    <3> QED
      BY <2>1, <2>3, <3>1
  <2> QED
    BY <2>2, <2>3
<1>4. ASSUME NEW j \in Procs, j # i
      PROVE  /\ proc'[j].cmd = proc[j].cmd /\ proc'[j].pc = proc[j].pc
             /\ proc'[j].todo = proc[j].todo /\ proc'[j].blob = proc[j].blob
             /\ proc'[j].result = proc[j].result /\ proc'[j].rivals = proc[j].rivals
             /\ proc'[j].licensed = proc[j].licensed
             /\ proc'[j].fd # "none" <=> proc[j].fd # "none"
             /\ proc'[j].fd = "open" => j \notin orphans /\ proc[j].fd = "open"
  BY <1>3, <1>4
<1>5. proc'[i] = Finished(i, result)
  OBVIOUS
<1> HIDE DEF c
<1>6. proc' \in [Procs -> Processes]
  <2> DEFINE new(j) == IF j = i THEN Finished(i, result)
                       ELSE IF j \in orphans THEN [proc[j] EXCEPT !.fd = "orphan"]
                       ELSE proc[j]
  <2>1. proc' = [j \in Procs |-> new(j)]
    OBVIOUS
  <2> HIDE DEF new
  <2>2. ASSUME NEW j \in Procs
        PROVE  new(j) \in Processes
    <3>1. new(j) = proc'[j]
      BY <2>1
    <3>2. proc'[j] \in Processes
      BY <1>2, <1>3, <1>5
    <3> QED
      BY <3>1, <3>2
  <2> QED
    BY <2>1, <2>2
<1>7. AllPlaced'
  <2>1. WellPlaced(i, proc[i])'
    BY <1>1, <1>2, <1>5 DEF WellPlaced, c
  <2>2. ASSUME NEW j \in Procs, j # i
        PROVE  WellPlaced(j, proc[j])'
    <3>1. WellPlaced(j, proc[j])
      BY DEF StoreInv, AllPlaced
    <3> QED
      BY <1>4, <2>2, <3>1 DEF WellPlaced
  <2> QED
    BY <2>1, <2>2 DEF AllPlaced
<1>8. OpenThere'
  BY <1>2, <1>4, <1>5 DEF OpenThere
<1>9. Mutual'
  BY <1>2, <1>4, <1>5 DEF StoreInv, Mutual
<1>10. held' \subseteq held \cup {c.product} /\ live' \subseteq live
  BY PromiseFacts DEF c
<1>11. ActivationLive'
  <2> SUFFICES ASSUME NEW j \in Procs, Busy(j)', proc'[j].cmd.op = "activate"
               PROVE  proc'[j].cmd.product \in live'
    BY DEF ActivationLive
  <2>1. j # i /\ Busy(j) /\ proc'[j].cmd = proc[j].cmd
    BY <1>2, <1>4, <1>5
  <2>2. proc[j].cmd.product \in live /\ proc[j].cmd \in proc[i].rivals
    BY <2>1 DEF StoreInv, ActivationLive, Mutual
  <2>3. proc[j].cmd.product = c.product => Rival(i, "activate")
    BY <2>1, <2>2 DEF Rival, c
  <2> QED
    BY <2>1, <2>2, <2>3, PromiseFacts DEF c
<1>12. HeldUndisturbed'
  <2> SUFFICES ASSUME NEW j \in Procs, Busy(j)', proc'[j].cmd.op = "deactivate"
               PROVE  proc'[j].cmd.product \notin held'
    BY DEF HeldUndisturbed
  <2>1. j # i /\ Busy(j) /\ proc'[j].cmd = proc[j].cmd
    BY <1>2, <1>4, <1>5
  <2>2. proc[j].cmd.product \notin held /\ proc[j].cmd \in proc[i].rivals
    BY <2>1 DEF StoreInv, HeldUndisturbed, Mutual
  <2>3. proc[j].cmd.product = c.product => Rival(i, "deactivate")
    BY <2>1, <2>2 DEF Rival, c
  <2> QED
    BY <1>10, <2>1, <2>2, <2>3, PromiseFacts
<1>13. UnlicensedInvalid'
  <2>1. Unlicensed(i)' => Unlicensed(i)
    BY <1>2, <1>5 DEF Unlicensed, Rival, c
  <2>2. ASSUME NEW j \in Procs, j # i, Unlicensed(j)'
        PROVE  Unlicensed(j)
    BY <1>4, <2>2 DEF Unlicensed, Rival
  <2>3. Unlicensed(i)' => proc'[i].result # "valid" /\ ~Busy(i)'
    BY <1>2, <1>5, <2>1
  <2>4. ASSUME NEW j \in Procs, j # i, Unlicensed(j)'
        PROVE  /\ proc'[j].result # "valid"
               /\ Busy(j)' => proc'[j].cmd.product \notin live' /\ ~IsSealed(proc'[j].blob)
    BY <1>4, <1>10, <2>2, <2>4 DEF StoreInv, UnlicensedInvalid
  <2> QED
    BY <2>3, <2>4 DEF UnlicensedInvalid, IsSealed
<1>14. TypeOK'
  <2>1. held' \subseteq live'
    <3>1. CASE held' \subseteq held /\ live' = live
      BY <3>1 DEF StoreInv, TypeOK
    <3>2. CASE c.op = "activate"
      <4>1. c.product \in live /\ live' = live
        BY <3>2, PromiseFacts DEF c, StoreInv, ActivationLive
      <4> QED
        BY <1>10, <4>1 DEF StoreInv, TypeOK
    <3>3. CASE c.op = "deactivate"
      <4>1. c.product \notin held
        BY <3>3 DEF c, StoreInv, HeldUndisturbed
      <4>2. held' \subseteq held /\ live \ {c.product} \subseteq live'
        BY <3>3, PromiseFacts DEF c
      <4> QED
        BY <4>1, <4>2 DEF StoreInv, TypeOK
    <3>4. c.op \notin {"activate", "deactivate"} => held' \subseteq held /\ live' = live
      BY PromiseFacts DEF c
    <3> QED
      BY <3>1, <3>2, <3>3, <3>4
  <2>2. live' \subseteq Products
    BY <1>10 DEF StoreInv, TypeOK
  <2> QED
    BY <1>6, <1>7, <2>1, <2>2
    DEF TypeOK, AllPlaced, WellPlaced, FilesOK, CountsOK
<1> QED
  BY <1>7, <1>8, <1>9, <1>11, <1>12, <1>13, <1>14 DEF StoreInv

\* A command that ends and leaves the files in order keeps the invariant.
LEMMA FinishKeeps ==
    ASSUME StoreInv, NEW i \in Procs, NEW result \in Results, Busy(i),
           Finish(i, result),
           result = "valid" => proc[i].cmd.op = "verify" /\ ~Unlicensed(i),
           FilesOK', UnlicensedUnsealed', CountsOK',
           \A f \in Files : file[f] # Absent => file'[f] # Absent
    PROVE  StoreInv'
<1>1. proc' = [j \in Procs |->
                 IF j = i THEN Finished(i, result)
                 ELSE IF j \in {} THEN [proc[j] EXCEPT !.fd = "orphan"]
                 ELSE proc[j]]
  BY DEF Finish, StoreInv, TypeOK
<1>2. ASSUME NEW j \in Procs, proc[j].fd = "open"
      PROVE  file'[Head(proc[j].todo).file] # Absent
  <2>1. proc[j].pc = "write" /\ file[Head(proc[j].todo).file] # Absent
    BY <1>2 DEF StoreInv, AllPlaced, WellPlaced, OpenThere
  <2>2. Head(proc[j].todo).file \in Files
    BY <2>1, HeadInFiles
  <2> QED
    BY <2>1, <2>2
<1>3. Promise(i, result)
  BY DEF Finish
<1>4. {} \in SUBSET {j \in Procs : proc[j].fd = "open"}
  OBVIOUS
<1> QED
  BY <1>1, <1>2, <1>3, <1>4, EndKeeps

\* A command that ends without touching a file keeps the invariant; a
\* deactivate may report success only where no sealed licence is left.
LEMMA FinishUntouched ==
    ASSUME StoreInv, NEW i \in Procs, NEW result \in Results, Busy(i),
           Finish(i, result), UNCHANGED file, CountsOK',
           result = "valid" => proc[i].cmd.op = "verify" /\ ~Unlicensed(i),
           proc[i].cmd.op = "deactivate" /\ result = "ok" =>
               ~IsSealed(file[LicFile(proc[i].cmd.product)])
    PROVE  StoreInv'
<1>1. Promise(i, result)
  BY DEF Finish
<1>2. UnlicensedUnsealed'
  BY <1>1, PromiseFacts DEF StoreInv, UnlicensedUnsealed, IsSealed
<1>3. FilesOK'
  BY DEF StoreInv, TypeOK, FilesOK
<1> QED
  BY <1>2, <1>3, FinishKeeps

\* A busy process that goes elsewhere without touching a file or a promise.
LEMMA GoOnUntouched ==
    ASSUME StoreInv, NEW i \in Procs, NEW r \in Processes, Busy(i),
           proc' = [proc EXCEPT ![i] = r], UNCHANGED <<file, promises>>, CountsOK',
           r.pc \notin {"idle", "write"}, r.cmd = proc[i].cmd,
           r.rivals = proc[i].rivals, r.licensed = proc[i].licensed,
           r.result = proc[i].result, WellPlaced(i, r),
           Unlicensed(i) => ~IsSealed(r.blob)
    PROVE  StoreInv'
<1>1. r.fd # "open"
  BY DEF WellPlaced
<1>2. FilesOK' /\ UnlicensedUnsealed'
  BY DEF StoreInv, TypeOK, FilesOK, UnlicensedUnsealed, IsSealed, promises
<1> QED
  BY <1>1, <1>2, MoveKeeps

-----------------------------------------------------------------------------
(* The actions.                                                            *)

\* What is known of a busy process.
LEMMA BusyFacts ==
    ASSUME StoreInv, NEW i \in Procs, Busy(i)
    PROVE  /\ proc[i] \in Processes /\ WellPlaced(i, proc[i])
           /\ proc[i].cmd \in Commands /\ proc[i].cmd.op \in Ops
           /\ proc[i].cmd.product \in Products
           /\ proc[i].pc \notin {"open", "write"} => proc[i].todo = <<>> /\ proc[i].fd = "none"
           /\ Sought(proc[i].cmd) \in Files
           /\ Unlicensed(i) => ~IsSealed(proc[i].blob)
           /\ CountsOK
<1>1. proc[i] \in Processes /\ WellPlaced(i, proc[i])
  BY DEF StoreInv, TypeOK, AllPlaced
<1>2. proc[i].cmd \in Commands
  BY <1>1 DEF Busy, WellPlaced
<1>3. proc[i].pc \notin {"open", "write"} => proc[i].todo = <<>> /\ proc[i].fd = "none"
  BY <1>1 DEF WellPlaced
<1> QED
  BY <1>1, <1>2, <1>3, CommandFacts, FileFacts
  DEF Sought, StoreInv, TypeOK, UnlicensedInvalid, CountsOK

\* A command that starts knows the others and is known to them.
LEMMA StartKeeps ==
    ASSUME StoreInv, NEW i \in Procs, NEW cmd \in Commands, Start(i, cmd)
    PROVE  StoreInv'
<1> DEFINE busy == {j \in Procs : proc[j].pc # "idle"}
           new == [Idle EXCEPT !.cmd = cmd,
                      !.pc = IF cmd.op = "activate" THEN "key" ELSE "find",
                      !.rivals = {proc[k].cmd : k \in busy},
                      !.licensed = cmd.product \in live]
<1>1. /\ proc' = [j \in Procs |->
                     IF j = i THEN new
                     ELSE IF j \in busy THEN [proc[j] EXCEPT !.rivals = @ \cup {cmd}]
                     ELSE proc[j]]
      /\ ~Busy(i)
      /\ held' = IF cmd.op = "deactivate" THEN held \ {cmd.product} ELSE held
      /\ live' = IF cmd.op = "activate" THEN live \cup {cmd.product} ELSE live
      /\ UNCHANGED <<file, faults>>
      /\ commands < MaxCommands /\ commands' = commands + 1
  BY DEF Start, Busy
<1>2. cmd.op \in Ops /\ cmd.product \in Products
  BY CommandFacts
<1>3. /\ new.cmd = cmd /\ new.todo = <<>> /\ new.fd = "none" /\ new.blob = Absent
      /\ new.result = "none" /\ new.rivals = {proc[k].cmd : k \in busy}
      /\ new.licensed = (cmd.product \in live)
      /\ new.pc = IF cmd.op = "activate" THEN "key" ELSE "find"
  BY DEF Idle
<1>4. new.rivals \in SUBSET Commands
  BY <1>3, BusyFacts DEF Busy
<1>5. new \in Processes
  <2>1. <<>> \in Seq([file : Files, contents : AllContents])
    OBVIOUS
  <2>2. (cmd.product \in live) \in BOOLEAN
    OBVIOUS
  <2>3. Idle \in Processes
    BY <2>1 DEF Idle, Processes, Pcs, Results
  <2>4. {proc[k].cmd : k \in busy} \in SUBSET Commands
    BY <1>3, <1>4
  <2> HIDE DEF busy
  <2> QED
    BY <1>2, <2>2, <2>3, <2>4 DEF Processes, Pcs
<1>6. ASSUME NEW j \in Procs, j # i
      PROVE  /\ proc'[j] \in Processes
             /\ proc'[j].cmd = proc[j].cmd /\ proc'[j].pc = proc[j].pc
             /\ proc'[j].todo = proc[j].todo /\ proc'[j].blob = proc[j].blob
             /\ proc'[j].result = proc[j].result /\ proc'[j].fd = proc[j].fd
             /\ proc'[j].licensed = proc[j].licensed
             /\ proc'[j].rivals = IF Busy(j) THEN proc[j].rivals \cup {cmd} ELSE proc[j].rivals
  <2>1. proc[j] \in Processes
    BY DEF StoreInv, TypeOK
  <2>2. CASE Busy(j)
    <3>1. proc'[j] = [proc[j] EXCEPT !.rivals = @ \cup {cmd}]
      BY <1>1, <1>6, <2>2 DEF Busy
    <3> QED
      BY <2>1, <2>2, <3>1 DEF Processes
  <2>3. CASE ~Busy(j)
    <3>1. proc'[j] = proc[j]
      BY <1>1, <1>6, <2>3 DEF Busy
    <3> QED
      BY <2>1, <2>3, <3>1
  <2> QED
    BY <2>2, <2>3
<1>7. proc'[i] = new
  BY <1>1
<1>8. proc' \in [Procs -> Processes]
  <2> DEFINE next(j) == IF j = i THEN new
                        ELSE IF j \in busy THEN [proc[j] EXCEPT !.rivals = @ \cup {cmd}]
                        ELSE proc[j]
  <2>1. proc' = [j \in Procs |-> next(j)]
    BY <1>1
  <2> HIDE DEF next, new, busy
  <2>2. ASSUME NEW j \in Procs
        PROVE  next(j) \in Processes
    <3>1. next(j) = proc'[j]
      BY <2>1
    <3>2. proc'[j] \in Processes
      <4>1. CASE j = i
        BY <1>5, <1>7, <4>1
      <4>2. CASE j # i
        BY <1>6, <4>2
      <4> QED
        BY <4>1, <4>2
    <3> QED
      BY <3>1, <3>2
  <2> QED
    BY <2>1, <2>2
<1>9. ASSUME NEW j \in Procs, Busy(j)
      PROVE  proc[j].cmd \in new.rivals
  BY <1>3, <1>9 DEF Busy
<1> HIDE DEF new, busy
<1>10. AllPlaced'
  <2>1. WellPlaced(i, proc[i])'
    BY <1>2, <1>3, <1>7 DEF WellPlaced
  <2>2. ASSUME NEW j \in Procs, j # i
        PROVE  WellPlaced(j, proc[j])'
    <3>1. WellPlaced(j, proc[j])
      BY DEF StoreInv, AllPlaced
    <3> QED
      BY <1>6, <2>2, <3>1 DEF WellPlaced
  <2> QED
    BY <2>1, <2>2 DEF AllPlaced
<1>11. TypeOK'
  <2>1. held' \subseteq live' /\ live' \subseteq Products
    BY <1>1, <1>2 DEF StoreInv, TypeOK
  <2>2. commands' \in 0..MaxCommands /\ faults' \in 0..MaxFaults /\ FilesOK'
    BY <1>1, BoundsAssumption DEF StoreInv, TypeOK, FilesOK
  <2> QED
    BY <1>8, <1>10, <2>1, <2>2 DEF TypeOK, AllPlaced, WellPlaced, FilesOK
<1>12. OpenThere' /\ UnlicensedUnsealed'
  <2>1. OpenThere'
    BY <1>1, <1>3, <1>6, <1>7 DEF StoreInv, OpenThere
  <2>2. live \subseteq live'
    BY <1>1
  <2> QED
    BY <1>1, <2>1, <2>2 DEF StoreInv, UnlicensedUnsealed, IsSealed
<1>13. Mutual'
  <2> SUFFICES ASSUME NEW j \in Procs, NEW k \in Procs, j # k, Busy(j)', Busy(k)'
               PROVE  proc'[k].cmd \in proc'[j].rivals
    BY DEF Mutual
  <2>1. CASE j = i
    BY <1>6, <1>7, <1>9, <2>1 DEF Busy
  <2>2. CASE k = i
    <3>1. Busy(j)
      BY <1>6, <2>2 DEF Busy
    <3>2. proc'[j].rivals = proc[j].rivals \cup {cmd}
      BY <1>6, <2>2, <3>1
    <3>3. proc'[k].cmd = cmd
      BY <1>3, <1>7, <2>2
    <3> QED
      BY <3>2, <3>3
  <2>3. CASE j # i /\ k # i
    BY <1>6, <2>3 DEF Busy, StoreInv, Mutual
  <2> QED
    BY <2>1, <2>2, <2>3
<1>14. ActivationLive' /\ HeldUndisturbed'
  BY <1>1, <1>3, <1>6, <1>7 DEF StoreInv, ActivationLive, HeldUndisturbed, Busy
<1>15. UnlicensedInvalid'
  <2> SUFFICES ASSUME NEW j \in Procs, Unlicensed(j)'
               PROVE  /\ proc'[j].result # "valid"
                      /\ Busy(j)' => proc'[j].cmd.product \notin live'
                                     /\ ~IsSealed(proc'[j].blob)
    BY DEF UnlicensedInvalid, IsSealed
  <2>1. CASE j = i
    <3>1. cmd.op = "verify" /\ cmd.product \notin live /\ live' = live
      BY <1>1, <1>3, <1>7, <2>1 DEF Unlicensed
    <3> QED
      BY <1>3, <1>7, <2>1, <3>1 DEF IsSealed
  <2>2. CASE j # i
    <3>1. Unlicensed(j)
      BY <1>6, <2>2 DEF Unlicensed, Rival
    <3>2. Busy(j) => cmd.op # "activate" \/ cmd.product # proc[j].cmd.product
      BY <1>6, <2>2 DEF Unlicensed, Rival
    <3> QED
      BY <1>1, <1>6, <2>2, <3>1, <3>2 DEF StoreInv, UnlicensedInvalid, Busy
  <2> QED
    BY <2>1, <2>2
<1> QED
  BY <1>10, <1>11, <1>12, <1>13, <1>14, <1>15 DEF StoreInv

\* Changing the place of a process, what it has read or what it is to write
\* leaves a process.
LEMMA ProcessFields ==
    ASSUME NEW q \in Processes, NEW pc \in Pcs, NEW todo \in Todos,
           NEW fd \in {"none", "open", "orphan"}, NEW blob \in AllContents \cup {Absent}
    PROVE  LET r == [q EXCEPT !.pc = pc, !.todo = todo, !.fd = fd, !.blob = blob]
           IN  /\ r \in Processes /\ r.pc = pc /\ r.todo = todo /\ r.fd = fd /\ r.blob = blob
               /\ r.cmd = q.cmd /\ r.result = q.result /\ r.rivals = q.rivals
               /\ r.licensed = q.licensed
BY DEF Processes, Todos

\* fs::exists: a missing licence ends verify and deactivate.
LEMMA FindKeeps ==
    ASSUME StoreInv, NEW i \in Procs, Find(i)
    PROVE  StoreInv'
<1> DEFINE cmd == proc[i].cmd
           there == file[Sought(cmd)] # Absent
<1>1. /\ Busy(i) /\ proc[i].pc = "find" /\ UNCHANGED file /\ UNCHANGED <<commands, faults>>
  BY DEF Find, Busy
<1>2. CountsOK'
  BY <1>1, BusyFacts DEF CountsOK
<1>3. ASSUME NEW pc \in {"read", "key", "size"}, Goto(i, pc), UNCHANGED promises,
             pc = "read" => cmd.op \in {"verify", "generate-request"},
             pc = "size" => cmd.op = "deactivate", pc = "key" => cmd.op = "generate-request"
      PROVE  StoreInv'
  <2> DEFINE r == [proc[i] EXCEPT !.pc = pc]
  <2>1. proc[i] \in Processes /\ WellPlaced(i, proc[i])
        /\ proc[i].todo = <<>> /\ proc[i].fd = "none"
    BY <1>1, BusyFacts
  <2>2. r \in Processes /\ r.pc = pc /\ r.todo = proc[i].todo /\ r.fd = proc[i].fd
        /\ r.blob = proc[i].blob /\ r.cmd = cmd /\ r.result = proc[i].result
        /\ r.rivals = proc[i].rivals /\ r.licensed = proc[i].licensed
    BY <2>1 DEF Processes, Pcs
  <2>3. proc' = [proc EXCEPT ![i] = r]
    BY <1>3 DEF Goto
  <2> HIDE DEF r
  <2>4. WellPlaced(i, r)
    BY <1>1, <1>3, <2>1, <2>2 DEF WellPlaced
  <2>5. Unlicensed(i) => ~IsSealed(r.blob)
    BY <1>1, <2>2, BusyFacts DEF IsSealed
  <2> QED
    BY <1>1, <1>2, <1>3, <2>2, <2>3, <2>4, <2>5, GoOnUntouched
<1>4. ASSUME NEW result \in {"ok", "no license"}, Finish(i, result), ~there,
             result = "ok" => cmd.op = "deactivate"
      PROVE  StoreInv'
  <2>1. cmd.op = "deactivate" => ~IsSealed(file[LicFile(cmd.product)])
    BY <1>4 DEF Sought, IsSealed
  <2> QED
    BY <1>1, <1>2, <1>4, <2>1, FinishUntouched DEF Results
<1>5. cmd.op \in {"verify", "deactivate", "generate-request"}
  BY <1>1, BusyFacts DEF WellPlaced, Ops
<1>6. CASE cmd.op = "generate-request"
  <2>1. Goto(i, IF there THEN "read" ELSE "key") /\ UNCHANGED promises
    BY <1>6 DEF Find
  <2> QED
    BY <1>3, <1>6, <2>1
<1>7. CASE cmd.op = "deactivate"
  <2>1. IF there THEN Goto(i, "size") /\ UNCHANGED promises ELSE Finish(i, "ok")
    BY <1>7 DEF Find
  <2> QED
    BY <1>3, <1>4, <1>7, <2>1
<1>8. CASE cmd.op = "verify"
  <2>1. IF there THEN Goto(i, "read") /\ UNCHANGED promises ELSE Finish(i, "no license")
    BY <1>8 DEF Find
  <2> QED
    BY <1>3, <1>4, <1>8, <2>1
<1> QED
  BY <1>5, <1>6, <1>7, <1>8

\* What a verify reads of a product that nobody licensed is no sealed blob.
LEMMA ReadKeeps ==
    ASSUME StoreInv, NEW i \in Procs, Read(i)
    PROVE  StoreInv'
<1> DEFINE blob == file[Sought(proc[i].cmd)]
           r == [proc[i] EXCEPT !.pc = "key", !.blob = blob]
<1>1. Busy(i) /\ proc[i].pc = "read" /\ UNCHANGED <<file, commands, faults>>
  BY DEF Read, Busy
<1>2. CountsOK'
  BY <1>1, BusyFacts DEF CountsOK
<1>3. CASE blob = Absent
  <2>1. Finish(i, "failed")
    BY <1>3 DEF Read
  <2> QED
    BY <1>1, <1>2, <2>1, FinishUntouched DEF Results
<1>4. CASE blob # Absent
  <2>1. proc' = [proc EXCEPT ![i] = r] /\ UNCHANGED promises
    BY <1>4 DEF Read
  <2>2. /\ proc[i] \in Processes /\ WellPlaced(i, proc[i])
        /\ proc[i].todo = <<>> /\ proc[i].fd = "none"
    BY <1>1, BusyFacts
  <2>3. blob \in AllContents \cup {Absent}
    BY <1>1, BusyFacts DEF StoreInv, TypeOK
  <2>4. r \in Processes /\ r.pc = "key" /\ r.todo = proc[i].todo /\ r.fd = proc[i].fd
        /\ r.blob = blob /\ r.cmd = proc[i].cmd /\ r.result = proc[i].result
        /\ r.rivals = proc[i].rivals /\ r.licensed = proc[i].licensed
    BY <2>2, <2>3 DEF Processes, Pcs
  <2>5. Unlicensed(i) => ~IsSealed(blob)
    <3>1. Unlicensed(i) => blob = file[LicFile(proc[i].cmd.product)]
                           /\ proc[i].cmd.product \in Products \ live
      BY <1>1, BusyFacts DEF Unlicensed, Sought, StoreInv, UnlicensedInvalid
    <3> QED
      BY <3>1 DEF StoreInv, UnlicensedUnsealed
  <2> HIDE DEF r, blob
  <2>6. WellPlaced(i, r)
    BY <1>1, <1>4, <2>2, <2>4 DEF WellPlaced
  <2> QED
    BY <1>1, <1>2, <2>1, <2>4, <2>5, <2>6, GoOnUntouched
<1> QED
  BY <1>3, <1>4

\* deactivate overwrites the licence with as many bytes as it had.
LEMMA SizeKeeps ==
    ASSUME StoreInv, NEW i \in Procs, Size(i)
    PROVE  StoreInv'
<1> DEFINE lic == LicFile(proc[i].cmd.product)
           w == Write(lic, Torn(file[lic].size))
           r == [proc[i] EXCEPT !.pc = "open", !.todo = <<w>>]
<1>1. Busy(i) /\ proc[i].pc = "size" /\ UNCHANGED <<file, commands, faults>>
  BY DEF Size, Busy
<1>2. CountsOK'
  BY <1>1, BusyFacts DEF CountsOK
<1>3. CASE file[lic] = Absent
  <2>1. Finish(i, "failed")
    BY <1>3 DEF Size
  <2> QED
    BY <1>1, <1>2, <2>1, FinishUntouched DEF Results
<1>4. CASE file[lic] # Absent
  <2>1. proc' = [proc EXCEPT ![i] = r] /\ UNCHANGED promises
    BY <1>4 DEF Size
  <2>2. /\ proc[i] \in Processes /\ WellPlaced(i, proc[i])
        /\ proc[i].todo = <<>> /\ proc[i].fd = "none"
        /\ proc[i].cmd.op = "deactivate" /\ lic \in Files
    BY <1>1, BusyFacts, FileFacts DEF WellPlaced
  <2>3. file[lic] \in AllContents
    BY <1>4, <2>2 DEF StoreInv, TypeOK
  <2>4. file[lic].size \in Nat
    BY <2>3 DEF AllContents
  <2>5. w \in [file : Files, contents : AllContents] /\ w.contents = Torn(file[lic].size)
        /\ Torn(file[lic].size).size = file[lic].size
    BY <2>2, <2>4, ContentsFacts DEF Write, Torn, Contents
  <2>6. Wipe(proc[i].cmd, w)
    BY <2>5 DEF Wipe
  <2> HIDE DEF w, lic
  <2>7. <<w>> \in Todos /\ <<w>> # <<>>
    BY <2>5 DEF Todos
  <2>8. r \in Processes /\ r.pc = "open" /\ r.todo = <<w>> /\ r.fd = proc[i].fd
        /\ r.blob = proc[i].blob /\ r.cmd = proc[i].cmd /\ r.result = proc[i].result
        /\ r.rivals = proc[i].rivals /\ r.licensed = proc[i].licensed
    BY <2>2, <2>7 DEF Processes, Pcs, Todos
  <2>9. ToWrite(i, proc[i].cmd, Secrets, <<w>>)
    BY <2>2, <2>6 DEF ToWrite
  <2> HIDE DEF r
  <2>10. WellPlaced(i, r)
    BY <1>1, <2>2, <2>7, <2>8, <2>9 DEF WellPlaced
  <2>11. Unlicensed(i) => ~IsSealed(r.blob)
    BY <1>1, <2>8, BusyFacts DEF IsSealed
  <2> QED
    BY <1>1, <1>2, <2>1, <2>8, <2>10, <2>11, GoOnUntouched
<1> QED
  BY <1>3, <1>4

\* Once it has the machine key, a command opens what it read or goes on to
\* write what only it may write.
LEMMA WithKeyKeeps ==
    ASSUME StoreInv, NEW i \in Procs, NEW s \in Secrets, Busy(i), WithKey(i, s),
           proc[i].pc \in {"key", "write"}, proc[i].cmd.op # "deactivate",
           FilesOK', CountsOK',
           \A p \in Products : file'[LicFile(p)] = file[LicFile(p)],
           \A f \in Files : file[f] # Absent => file'[f] # Absent
    PROVE  StoreInv'
<1> DEFINE cmd == proc[i].cmd
<1>1. /\ proc[i] \in Processes /\ WellPlaced(i, proc[i])
      /\ cmd \in Commands /\ cmd.op \in Ops /\ cmd.product \in Products
  BY BusyFacts
<1>2. live' = live => UnlicensedUnsealed'
  BY DEF StoreInv, UnlicensedUnsealed, IsSealed
<1>3. CASE proc[i].blob # Absent
  <2> DEFINE result == IF ~Unseals(s, Label(cmd), proc[i].blob) THEN "failed"
                       ELSE IF cmd.op = "verify" THEN "valid" ELSE "ok"
  <2>1. Finish(i, result) /\ result \in Results
    BY <1>3 DEF WithKey, Results
  <2>2. result = "valid" => cmd.op = "verify" /\ ~Unlicensed(i)
    <3>1. result = "valid" => IsSealed(proc[i].blob)
      BY <1>3 DEF Unseals, IsSealed
    <3>2. result = "valid" => cmd.op = "verify"
      OBVIOUS
    <3> QED
      BY <3>1, <3>2, BusyFacts
  <2>3. live' = live
    BY <2>1, PromiseFacts DEF Finish
  <2> HIDE DEF result
  <2> QED
    BY <1>2, <2>1, <2>2, <2>3, FinishKeeps
<1>4. CASE proc[i].blob = Absent
  <2> DEFINE label == Label(cmd)
             writes == IF cmd.op = "activate"
                       THEN LET blob == Sealed(s, label, cmd.token, SizeOf[cmd.token])
                            IN  <<Write(SealedFile(cmd.product), blob),
                                  Write(LicFile(cmd.product), blob)>>
                       ELSE <<Write(DevkeyFile(cmd.product), Sealed(s, label, i, DevkeySize))>>
             r == [proc[i] EXCEPT !.pc = "open", !.todo = writes, !.fd = "none"]
  <2>1. proc' = [proc EXCEPT ![i] = r] /\ UNCHANGED promises
    BY <1>4 DEF WithKey
  <2>2. cmd.op \in {"activate", "generate-request"}
    BY <1>1, <1>4 DEF WellPlaced, Ops
  <2>3. /\ writes \in Todos /\ writes # <<>>
        /\ ToWrite(i, cmd, Secrets, writes)
    <3>1. CASE cmd.op = "activate"
      <4>1. Sealed(s, label, cmd.token, SizeOf[cmd.token]) = LicenceBlob(s, cmd)
        BY <3>1 DEF Label, LicenceBlob
      <4>2. writes = <<Write(SealedFile(cmd.product), LicenceBlob(s, cmd)),
                       Write(LicFile(cmd.product), LicenceBlob(s, cmd))>>
        BY <3>1, <4>1
      <4>3. LicenceBlob(s, cmd) \in AllContents
            /\ {SealedFile(cmd.product), LicFile(cmd.product)} \subseteq Files
        BY <1>1, <3>1, ContentsFacts, FileFacts
      <4> HIDE DEF writes
      <4> QED
        BY <3>1, <4>2, <4>3 DEF ToWrite, Todos, Write
    <3>2. CASE cmd.op = "generate-request"
      <4>1. Sealed(s, label, i, DevkeySize) = DevkeyBlob(s, i, cmd)
        BY <3>2 DEF Label, DevkeyBlob
      <4>2. writes = <<Write(DevkeyFile(cmd.product), DevkeyBlob(s, i, cmd))>>
        BY <3>2, <4>1
      <4>3. DevkeyBlob(s, i, cmd) \in AllContents /\ DevkeyFile(cmd.product) \in Files
        BY <1>1, ContentsFacts, FileFacts
      <4> HIDE DEF writes
      <4> QED
        BY <3>2, <4>2, <4>3 DEF ToWrite, Todos, Write
    <3> QED
      BY <2>2, <3>1, <3>2
  <2> HIDE DEF writes, label
  <2>4. /\ r \in Processes /\ r.pc = "open" /\ r.todo = writes /\ r.fd = "none"
        /\ r.blob = Absent /\ r.cmd = cmd /\ r.result = proc[i].result
        /\ r.rivals = proc[i].rivals /\ r.licensed = proc[i].licensed
    BY <1>1, <1>4, <2>3 DEF Processes, Pcs, Todos
  <2> HIDE DEF r
  <2>5. WellPlaced(i, r)
    BY <1>1, <2>2, <2>3, <2>4 DEF WellPlaced
  <2>6. ~IsSealed(r.blob)
    BY <2>4 DEF IsSealed
  <2>7. UnlicensedUnsealed'
    BY <1>2, <2>1 DEF promises
  <2> QED
    BY <2>1, <2>4, <2>5, <2>6, <2>7, MoveKeeps
<1> QED
  BY <1>3, <1>4

\* derive_machine_key reads the secret, or makes one up and is to write it.
LEMMA SecretKeeps ==
    ASSUME StoreInv, NEW i \in Procs, ReadSecret(i) \/ MakeSecret(i)
    PROVE  StoreInv'
<1>1. Busy(i) /\ proc[i].pc = "key" /\ UNCHANGED <<file, commands, faults>>
  BY DEF ReadSecret, MakeSecret, Busy
<1>2. /\ proc[i] \in Processes /\ WellPlaced(i, proc[i])
      /\ proc[i].todo = <<>> /\ proc[i].fd = "none" /\ proc[i].cmd.op # "deactivate"
      /\ CountsOK' /\ FilesOK'
  BY <1>1, BusyFacts DEF WellPlaced, CountsOK, StoreInv, TypeOK, FilesOK
<1>3. CASE ReadSecret(i)
  <2>1. CASE Readable(file[SecretFile])
    <3>1. file[SecretFile] \in AllContents /\ file[SecretFile].of[1] = "secret"
      BY <2>1, FileFacts DEF Readable, StoreInv, TypeOK
    <3>2. file[SecretFile].of[2] \in Secrets
      BY <3>1 DEF AllContents
    <3>3. WithKey(i, file[SecretFile].of[2])
      BY <1>3, <2>1 DEF ReadSecret
    <3>4. ASSUME NEW s \in Secrets, WithKey(i, s)
          PROVE  StoreInv'
      BY <1>1, <1>2, <3>4, WithKeyKeeps
    <3> QED
      BY <3>2, <3>3, <3>4
  <2>2. CASE ~Readable(file[SecretFile])
    <3>1. Finish(i, "failed")
      BY <1>3, <2>2 DEF ReadSecret
    <3> QED
      BY <1>1, <1>2, <3>1, FinishUntouched DEF Results
  <2> QED
    BY <2>1, <2>2
<1>4. CASE MakeSecret(i)
  <2> DEFINE todo == <<Write(SecretFile, Secret(i))>>
             r == [proc[i] EXCEPT !.pc = "open", !.todo = todo]
  <2>1. proc' = [proc EXCEPT ![i] = r] /\ UNCHANGED promises
    BY <1>4 DEF MakeSecret
  <2>2. i \in Secrets /\ Secret(i) \in AllContents
    BY ContentsFacts DEF Secrets
  <2>3. todo \in Todos /\ todo # <<>> /\ ToWrite(i, proc[i].cmd, Secrets, todo)
    BY <1>2, <2>2, FileFacts DEF ToWrite, Todos, Write
  <2> HIDE DEF todo
  <2>4. /\ r \in Processes /\ r.pc = "open" /\ r.todo = todo /\ r.fd = proc[i].fd
        /\ r.blob = proc[i].blob /\ r.cmd = proc[i].cmd /\ r.result = proc[i].result
        /\ r.rivals = proc[i].rivals /\ r.licensed = proc[i].licensed
    BY <1>2, <2>3 DEF Processes, Pcs, Todos
  <2> HIDE DEF r
  <2>5. WellPlaced(i, r)
    BY <1>1, <1>2, <2>3, <2>4 DEF WellPlaced
  <2>6. Unlicensed(i) => ~IsSealed(r.blob)
    BY <1>1, <2>4, BusyFacts DEF IsSealed
  <2> QED
    BY <1>1, <1>2, <2>1, <2>4, <2>5, <2>6, GoOnUntouched
<1> QED
  BY <1>3, <1>4

\* What the next write of a busy process is.
LEMMA NextWrite ==
    ASSUME StoreInv, NEW i \in Procs, proc[i].pc \in {"open", "write"}
    PROVE  /\ Head(proc[i].todo).file \in Files
           /\ Head(proc[i].todo).contents \in AllContents
           /\ Head(proc[i].todo).file = SecretFile => proc[i].cmd.op # "deactivate"
           /\ Head(proc[i].todo).file # SecretFile => proc[i].cmd.op # "verify"
           /\ Tail(proc[i].todo) \in Todos
           /\ Tail(proc[i].todo) # <<>> =>
                 /\ proc[i].cmd.op = "activate"
                 /\ ToWrite(i, proc[i].cmd, Secrets, Tail(proc[i].todo))
           /\ \A p \in Products :
                 Head(proc[i].todo).file = LicFile(p) /\ IsSealed(Head(proc[i].todo).contents)
                     => proc[i].cmd.op = "activate" /\ proc[i].cmd.product = p
<1>1. proc[i].todo \in Todos /\ proc[i].cmd \in Commands
      /\ ToWrite(i, proc[i].cmd, Secrets, proc[i].todo)
  BY HeadInFiles
<1>2. Secrets \in SUBSET Secrets
  OBVIOUS
<1>3. ASSUME NEW cmd \in Commands, NEW todo \in Todos, ToWrite(i, cmd, Secrets, todo)
      PROVE  /\ Head(todo).file \in Files /\ Head(todo).contents \in AllContents
             /\ Head(todo).file = SecretFile => cmd.op # "deactivate"
             /\ Head(todo).file # SecretFile => cmd.op # "verify"
             /\ Tail(todo) \in Todos
             /\ Tail(todo) # <<>> =>
                   cmd.op = "activate" /\ ToWrite(i, cmd, Secrets, Tail(todo))
             /\ \A p \in Products :
                   Head(todo).file = LicFile(p) /\ IsSealed(Head(todo).contents) =>
                       cmd.op = "activate" /\ cmd.product = p
  <2>1. /\ todo # <<>>
        /\ Head(todo).file \in Files /\ Head(todo).contents \in AllContents
        /\ Head(todo).file = SecretFile => cmd.op # "deactivate"
        /\ Tail(todo) # <<>> =>
              cmd.op = "activate" /\ ToWrite(i, cmd, Secrets, Tail(todo))
        /\ \A p \in Products :
              Head(todo).file = LicFile(p) /\ IsSealed(Head(todo).contents) =>
                  cmd.op = "activate" /\ cmd.product = p
    <3>1. PICK S \in SUBSET Secrets : S = Secrets
      BY <1>2
    <3>2. ToWrite(i, cmd, S, todo) /\ (ToWrite(i, cmd, S, Tail(todo))
                                         => ToWrite(i, cmd, Secrets, Tail(todo)))
      BY <1>3, <3>1
    <3> HIDE <1>2
    <3> QED
      BY <1>3, <3>2, ToWriteFacts
  <2>2. Tail(todo) \in Todos
    BY <2>1, HeadTailProperties DEF Todos
  <2>3. Head(todo).file # SecretFile => cmd.op # "verify"
    BY <1>3 DEF ToWrite, Write
  <2> QED
    BY <2>1, <2>2, <2>3
<1> QED
  BY <1>1, <1>3

\* ofstream empties the file it opens.
LEMMA OpenKeeps ==
    ASSUME StoreInv, NEW i \in Procs, Open(i)
    PROVE  StoreInv'
<1> DEFINE f == Head(proc[i].todo).file
           r == [proc[i] EXCEPT !.pc = "write", !.fd = "open"]
<1>1. /\ Busy(i) /\ proc[i].pc = "open" /\ UNCHANGED <<commands, faults, promises>>
      /\ file' = [file EXCEPT ![f] = Empty] /\ proc' = [proc EXCEPT ![i] = r]
  BY DEF Open, Busy
<1>2. /\ proc[i] \in Processes /\ WellPlaced(i, proc[i]) /\ f \in Files /\ CountsOK'
      /\ Unlicensed(i) => ~IsSealed(proc[i].blob)
  BY <1>1, BusyFacts, NextWrite DEF CountsOK
<1>3. /\ r \in Processes /\ r.pc = "write" /\ r.todo = proc[i].todo /\ r.fd = "open"
      /\ r.blob = proc[i].blob /\ r.cmd = proc[i].cmd /\ r.result = proc[i].result
      /\ r.rivals = proc[i].rivals /\ r.licensed = proc[i].licensed
  BY <1>2 DEF Processes, Pcs
<1>4. Empty \in AllContents /\ Empty # Absent /\ ~IsSealed(Empty)
  BY ContentsFacts, AbsentAssumption
<1>5. Head(r.todo).file = f
  BY <1>3
<1> HIDE DEF f, r
<1>6. ASSUME NEW g \in Files
      PROVE  file'[g] = IF g = f THEN Empty ELSE file[g]
  BY <1>1, <1>2 DEF StoreInv, TypeOK
<1>7. FilesOK'
  BY <1>1, <1>2, <1>4 DEF FilesOK, StoreInv, TypeOK
<1>8. UnlicensedUnsealed'
  BY <1>1, <1>4, <1>6, FileFacts
  DEF StoreInv, UnlicensedUnsealed, IsSealed, promises, TypeOK
<1>9. WellPlaced(i, r)
  BY <1>1, <1>2, <1>3 DEF WellPlaced
<1>10. Unlicensed(i) => ~IsSealed(r.blob)
  BY <1>2, <1>3 DEF IsSealed
<1>11. /\ \A g \in Files : file[g] # Absent => file'[g] # Absent
       /\ file'[Head(r.todo).file] # Absent
  BY <1>2, <1>4, <1>5, <1>6
<1> QED
  BY <1>1, <1>2, <1>3, <1>7, <1>8, <1>9, <1>10, <1>11, MoveKeeps

\* Only an activate can leave a sealed licence, and its product is live.
LEMMA FlushKeeps ==
    ASSUME StoreInv, NEW i \in Procs, NEW short \in BOOLEAN, Flush(i, short)
    PROVE  StoreInv'
<1> DEFINE w == Head(proc[i].todo)
           rest == Tail(proc[i].todo)
           written == IF short THEN Torn(1) ELSE Overlay(file[w.file], w.contents)
<1>1. /\ Busy(i) /\ proc[i].pc = "write" /\ UNCHANGED commands
      /\ short => faults < MaxFaults
      /\ faults' = IF short THEN faults + 1 ELSE faults
      /\ file' = IF proc[i].fd = "open" THEN [file EXCEPT ![w.file] = written] ELSE file
  BY DEF Flush, Busy
<1>2. /\ proc[i] \in Processes /\ WellPlaced(i, proc[i])
      /\ proc[i].cmd \in Commands /\ proc[i].cmd.op \in Ops
      /\ proc[i].cmd.product \in Products
      /\ Unlicensed(i) => ~IsSealed(proc[i].blob)
  BY <1>1, BusyFacts
<1>3. CountsOK'
  BY <1>1, BoundsAssumption DEF CountsOK, StoreInv, TypeOK
<1>4. /\ w.file \in Files /\ w.contents \in AllContents
      /\ w.file = SecretFile => proc[i].cmd.op # "deactivate"
      /\ w.file # SecretFile => proc[i].cmd.op # "verify"
      /\ rest \in Todos
      /\ rest # <<>> => proc[i].cmd.op = "activate" /\ ToWrite(i, proc[i].cmd, Secrets, rest)
      /\ \A p \in Products : w.file = LicFile(p) /\ IsSealed(w.contents)
             => proc[i].cmd.op = "activate" /\ proc[i].cmd.product = p
  BY <1>1, NextWrite
<1>5. ASSUME proc[i].fd = "open"
      PROVE  /\ written \in AllContents
             /\ written = w.contents \/ ~IsSealed(written)
  <2>1. file[w.file] \in AllContents \cup {Absent} /\ file[w.file] # Absent
    BY <1>4, <1>5 DEF StoreInv, TypeOK, OpenThere
  <2> HIDE DEF w
  <2>2. Torn(1) \in AllContents /\ ~IsSealed(Torn(1))
    BY ContentsFacts
  <2> QED
    BY <1>4, <2>1, <2>2, OverlayFacts
<1> HIDE DEF w, written, rest
<1>6. ASSUME NEW g \in Files
      PROVE  file'[g] = IF proc[i].fd = "open" /\ g = w.file THEN written ELSE file[g]
  BY <1>1, <1>4 DEF StoreInv, TypeOK
<1>7. FilesOK'
  BY <1>1, <1>4, <1>5 DEF FilesOK, StoreInv, TypeOK
<1>8. \A f \in Files : file[f] # Absent => file'[f] # Absent
  BY <1>5, <1>6, AbsentAssumption
<1>9. live' = live => UnlicensedUnsealed'
  <2> SUFFICES ASSUME live' = live, NEW p \in Products \ live
               PROVE  ~IsSealed(file[LicFile(p)])'
    BY DEF UnlicensedUnsealed
  <2>1. LicFile(p) \in Files
    BY FileFacts
  <2>2. ~IsSealed(file[LicFile(p)])
    BY DEF StoreInv, UnlicensedUnsealed
  <2>3. proc[i].cmd.op = "activate" => proc[i].cmd.product # p
    BY <1>1 DEF StoreInv, ActivationLive
  <2>4. CASE proc[i].fd = "open" /\ LicFile(p) = w.file
    <3>1. ~IsSealed(written)
      BY <1>4, <1>5, <2>3, <2>4
    <3> QED
      BY <1>6, <2>1, <2>4, <3>1 DEF IsSealed
  <2>5. CASE ~(proc[i].fd = "open" /\ LicFile(p) = w.file)
    BY <1>6, <2>1, <2>2, <2>5 DEF IsSealed
  <2> QED
    BY <2>4, <2>5
<1>10. CASE w.file = SecretFile
  <2>1. WithKey(i, i) /\ i \in Secrets
    BY <1>10 DEF Flush, w, Secrets
  <2>2. \A p \in Products : file'[LicFile(p)] = file[LicFile(p)]
    BY <1>6, <1>10, FileFacts
  <2> QED
    BY <1>1, <1>3, <1>4, <1>7, <1>8, <1>10, <2>1, <2>2, WithKeyKeeps
<1>11. ASSUME w.file # SecretFile, NEW pc \in {"open", "remove"},
              proc' = [proc EXCEPT ![i].pc = pc, ![i].todo = rest, ![i].fd = "none"],
              UNCHANGED promises, pc = "open" <=> rest # <<>>,
              pc = "remove" => proc[i].cmd.op = "deactivate"
       PROVE  StoreInv'
  <2> DEFINE r == [proc[i] EXCEPT !.pc = pc, !.todo = rest, !.fd = "none"]
  <2>1. proc' = [proc EXCEPT ![i] = r]
    BY <1>11
  <2>2. /\ r \in Processes /\ r.pc = pc /\ r.todo = rest /\ r.fd = "none"
        /\ r.blob = proc[i].blob /\ r.cmd = proc[i].cmd /\ r.result = proc[i].result
        /\ r.rivals = proc[i].rivals /\ r.licensed = proc[i].licensed
    BY <1>2, <1>4 DEF Processes, Pcs, Todos
  <2> HIDE DEF r
  <2>3. WellPlaced(i, r)
    BY <1>1, <1>2, <1>4, <1>11, <2>2 DEF WellPlaced
  <2>4. Unlicensed(i) => ~IsSealed(r.blob)
    BY <1>2, <2>2 DEF IsSealed
  <2>5. UnlicensedUnsealed'
    BY <1>9, <1>11 DEF promises
  <2> QED
    BY <1>1, <1>3, <1>7, <1>8, <1>11, <2>1, <2>2, <2>3, <2>4, <2>5, MoveKeeps
<1>12. CASE w.file # SecretFile /\ rest # <<>>
  <2>1. /\ proc' = [proc EXCEPT ![i].pc = "open", ![i].todo = rest, ![i].fd = "none"]
        /\ UNCHANGED promises
    BY <1>12 DEF Flush, w, rest
  <2> QED
    BY <1>11, <1>12, <2>1
<1>13. CASE w.file # SecretFile /\ rest = <<>>
  <2>1. IF proc[i].cmd.op = "deactivate"
        THEN /\ proc' = [proc EXCEPT ![i].pc = "remove", ![i].todo = rest, ![i].fd = "none"]
             /\ UNCHANGED promises
        ELSE Finish(i, "ok")
    BY <1>13 DEF Flush, w, rest
  <2>2. CASE proc[i].cmd.op = "deactivate"
    BY <1>11, <1>13, <2>1, <2>2
  <2>3. CASE proc[i].cmd.op # "deactivate"
    <3>1. Finish(i, "ok")
      BY <2>1, <2>3
    <3>2. live' = live
      BY <2>3, <3>1, PromiseFacts DEF Finish
    <3> QED
      BY <1>1, <1>3, <1>7, <1>8, <1>9, <3>1, <3>2, FinishKeeps DEF Results
  <2> QED
    BY <2>2, <2>3
<1> QED
  BY <1>10, <1>12, <1>13

\* fs::remove takes the licence away, and the file from those who write it.
LEMMA RemoveKeeps ==
    ASSUME StoreInv, NEW i \in Procs, Remove(i)
    PROVE  StoreInv'
<1> DEFINE lic == LicFile(proc[i].cmd.product)
           orphans == {j \in Procs : proc[j].fd = "open" /\ Head(proc[j].todo).file = lic}
<1>1. /\ Busy(i) /\ proc[i].pc = "remove" /\ UNCHANGED <<commands, faults>>
      /\ file' = [file EXCEPT ![lic] = Absent] /\ Promise(i, "ok")
  BY DEF Remove, Busy
<1>2. /\ proc[i].cmd.op = "deactivate" /\ proc[i].cmd.product \in Products
      /\ lic \in Files /\ CountsOK'
  BY <1>1, BusyFacts, FileFacts DEF WellPlaced, CountsOK
<1>3. proc' = [j \in Procs |->
                 IF j = i THEN Finished(i, "ok")
                 ELSE IF j \in orphans THEN [proc[j] EXCEPT !.fd = "orphan"]
                 ELSE proc[j]]
  BY DEF Remove
<1>4. orphans \in SUBSET {j \in Procs : proc[j].fd = "open"}
  OBVIOUS
<1>5. \A j \in Procs \ orphans : j # i /\ proc[j].fd = "open" =>
          Head(proc[j].todo).file # lic
  OBVIOUS
<1> HIDE DEF orphans, lic
<1>6. ASSUME NEW g \in Files
      PROVE  file'[g] = IF g = lic THEN Absent ELSE file[g]
  BY <1>1, <1>2 DEF StoreInv, TypeOK
<1>7. FilesOK'
  BY <1>1, <1>2 DEF FilesOK, StoreInv, TypeOK
<1>8. UnlicensedUnsealed'
  <2> SUFFICES ASSUME NEW p \in Products \ live'
               PROVE  ~IsSealed(file[LicFile(p)])'
    BY DEF UnlicensedUnsealed
  <2>1. LicFile(p) \in Files
    BY FileFacts
  <2>2. p \notin live \/ LicFile(p) = lic
    BY <1>1, PromiseFacts DEF lic
  <2> QED
    BY <1>6, <2>1, <2>2 DEF StoreInv, UnlicensedUnsealed, IsSealed
<1>9. \A j \in Procs \ orphans : j # i /\ proc[j].fd = "open" =>
          file'[Head(proc[j].todo).file] # Absent
  <2> SUFFICES ASSUME NEW j \in Procs \ orphans, j # i, proc[j].fd = "open"
               PROVE  file'[Head(proc[j].todo).file] # Absent
    OBVIOUS
  <2>1. file[Head(proc[j].todo).file] # Absent /\ proc[j].pc = "write"
    BY DEF StoreInv, OpenThere, AllPlaced, WellPlaced
  <2>2. Head(proc[j].todo).file \in Files
    BY <2>1, HeadInFiles
  <2> QED
    BY <1>5, <1>6, <2>1, <2>2
<1>10. "ok" \in Results /\ "ok" # "valid"
  BY DEF Results
<1> QED
  BY <1>1, <1>2, <1>3, <1>4, <1>7, <1>8, <1>9, <1>10, EndKeeps

\* A process that is killed leaves its files as they are.
LEMMA CrashKeeps ==
    ASSUME StoreInv, NEW i \in Procs, Crash(i)
    PROVE  StoreInv'
<1>1. Busy(i) /\ Finish(i, "crashed") /\ UNCHANGED <<file, commands>>
      /\ faults < MaxFaults /\ faults' = faults + 1
  BY DEF Crash, Busy
<1>2. CountsOK'
  BY <1>1, BoundsAssumption DEF CountsOK, StoreInv, TypeOK
<1> QED
  BY <1>1, <1>2, FinishUntouched DEF Results

-----------------------------------------------------------------------------
(* The theorems.                                                           *)

\* The invariant holds from the start, on a fresh account or a used one.
LEMMA StoreInvariant == Spec => []StoreInv
<1>1. Init => StoreInv
  <2> SUFFICES ASSUME Init
               PROVE  StoreInv
    OBVIOUS
  <2>1. Secret(OldSecret) \in AllContents /\ ~IsSealed(Secret(OldSecret))
    BY ContentsFacts DEF Secrets
  <2>2. FilesOK
    BY <2>1 DEF Init, FilesOK
  <2>3. <<>> \in Seq([file : Files, contents : AllContents])
    OBVIOUS
  <2>4. Idle \in Processes
    BY <2>3 DEF Idle, Processes, Pcs, Results
  <2>5. \A i \in Procs : /\ proc[i].pc = "idle" /\ proc[i].todo = <<>> /\ proc[i].fd = "none"
                         /\ proc[i].blob = Absent /\ proc[i].result = "none"
    BY DEF Init, Idle
  <2>6. AllPlaced
    BY <2>5 DEF AllPlaced, WellPlaced
  <2>7. TypeOK
    BY <2>2, <2>4, <2>6, BoundsAssumption DEF Init, TypeOK, FilesOK, AllPlaced, WellPlaced
  <2>8. UnlicensedUnsealed
    BY FileFacts DEF Init, UnlicensedUnsealed, IsSealed
  <2> QED
    BY <2>5, <2>6, <2>7, <2>8
    DEF StoreInv, OpenThere, Mutual, ActivationLive, HeldUndisturbed, UnlicensedInvalid, Busy
<1>2. StoreInv /\ [Next]_vars => StoreInv'
  <2> SUFFICES ASSUME StoreInv, [Next]_vars
               PROVE  StoreInv'
    OBVIOUS
  <2>1. ASSUME NEW i \in Procs, Step(i)
        PROVE  StoreInv'
    BY <2>1, FindKeeps, ReadKeeps, SizeKeeps, SecretKeeps, OpenKeeps, FlushKeeps,
       RemoveKeeps DEF Step
  <2>2. CASE UNCHANGED vars
    BY <2>2
    DEF vars, promises, StoreInv, TypeOK, AllPlaced, WellPlaced, OpenThere, Mutual,
        ActivationLive, UnlicensedUnsealed, HeldUndisturbed, UnlicensedInvalid,
        Unlicensed, Rival, Busy, IsSealed
  <2> QED
    BY <2>1, <2>2, StartKeeps, FlushKeeps, CrashKeeps DEF Next
<1> QED
  BY <1>1, <1>2, PTL DEF Spec

\* Files and processes stay well formed, whoever writes which file when.
THEOREM StoreTypeCorrect == Spec => []TypeOK
<1>1. StoreInv => TypeOK
  BY DEF StoreInv
<1> QED
  BY <1>1, StoreInvariant, PTL

\* No verify says "valid" after a successful deactivate, on whatever account,
\* with whatever commands interleaved and whatever writes cut short.
THEOREM NeverResurrected == Spec => []NoResurrection
<1>1. StoreInv => NoResurrection
  <2> SUFFICES ASSUME StoreInv, NEW i \in Procs, proc[i].result = "valid",
                      ~proc[i].licensed, ~Rival(i, "activate")
               PROVE  FALSE
    BY DEF NoResurrection
  <2>1. Unlicensed(i)
    BY DEF StoreInv, AllPlaced, WellPlaced, Unlicensed
  <2> QED
    BY <2>1 DEF StoreInv, UnlicensedInvalid
<1> QED
  BY <1>1, StoreInvariant, PTL

-----------------------------------------------------------------------------
(* An account that has its secret.                                         *)

\* The secret is in place and every pending write is sealed under it.
SecretInv ==
    /\ file[SecretFile] = Secret(OldSecret)
    /\ \A i \in Procs : proc[i].pc \in {"open", "write"} =>
          ToWrite(i, proc[i].cmd, {OldSecret}, proc[i].todo)

\* A write under the old secret: never to the secret file, and to a licence
\* only by deactivate or with the token that is activated.
LEMMA OldWrite ==
    ASSUME StoreInv, SecretInv, NEW i \in Procs, proc[i].pc \in {"open", "write"}
    PROVE  LET cmd == proc[i].cmd
               w == Head(proc[i].todo)
               rest == Tail(proc[i].todo)
           IN  /\ w.file \in Files \ {SecretFile} /\ w.contents \in AllContents
               /\ rest # <<>> => ToWrite(i, cmd, {OldSecret}, rest)
               /\ cmd.op = "activate" => w.contents = LicenceBlob(OldSecret, cmd)
               /\ cmd.op = "activate" /\ rest = <<>> => w.file = LicFile(cmd.product)
               /\ cmd.op = "activate" /\ rest # <<>> => w.file = SealedFile(cmd.product)
               /\ cmd.op = "deactivate" => w.file = LicFile(cmd.product) /\ rest = <<>>
               /\ cmd.op \notin {"activate", "deactivate"} =>
                     \A p : w.file # LicFile(p)
<1>1. proc[i].todo \in Todos /\ proc[i].cmd \in Commands
      /\ ToWrite(i, proc[i].cmd, {OldSecret}, proc[i].todo)
  BY HeadInFiles DEF SecretInv
<1>2. {OldSecret} \in SUBSET Secrets /\ i \notin {OldSecret}
  BY SecretAssumption DEF Secrets
<1>3. ASSUME NEW cmd \in Commands, NEW todo \in Todos, ToWrite(i, cmd, {OldSecret}, todo)
      PROVE  LET w == Head(todo)
                 rest == Tail(todo)
             IN  /\ w.file \in Files \ {SecretFile} /\ w.contents \in AllContents
                 /\ rest # <<>> => ToWrite(i, cmd, {OldSecret}, rest)
                 /\ cmd.op = "activate" => w.contents = LicenceBlob(OldSecret, cmd)
                 /\ cmd.op = "activate" /\ rest = <<>> => w.file = LicFile(cmd.product)
                 /\ cmd.op = "activate" /\ rest # <<>> => w.file = SealedFile(cmd.product)
                 /\ cmd.op = "deactivate" => w.file = LicFile(cmd.product) /\ rest = <<>>
                 /\ cmd.op \notin {"activate", "deactivate"} =>
                       \A p : w.file # LicFile(p)
  <2> DEFINE lic == Write(LicFile(cmd.product), LicenceBlob(OldSecret, cmd))
             sealed == Write(SealedFile(cmd.product), LicenceBlob(OldSecret, cmd))
             dev == Write(DevkeyFile(cmd.product), DevkeyBlob(OldSecret, i, cmd))
             S == {OldSecret}
  <2>6. S \in SUBSET Secrets /\ i \notin S /\ ToWrite(i, cmd, S, todo)
    BY <1>2, <1>3
  <2> HIDE DEF S
  <2>7. /\ Head(todo).file \in Files /\ Head(todo).contents \in AllContents
        /\ Head(todo).file # SecretFile
        /\ Tail(todo) # <<>> => ToWrite(i, cmd, S, Tail(todo))
    BY <2>6, ToWriteFacts
  <2>1. /\ Head(todo).file \in Files /\ Head(todo).contents \in AllContents
        /\ Head(todo).file # SecretFile
        /\ Tail(todo) # <<>> => ToWrite(i, cmd, {OldSecret}, Tail(todo))
    BY <2>7 DEF S
  <2>2. CASE cmd.op = "activate" /\ todo = <<lic>>
    <3>1. Head(todo) = lic /\ Tail(todo) = <<>>
      BY <2>2
    <3> QED
      BY <2>1, <2>2, <3>1 DEF Write
  <2>3. CASE cmd.op = "activate" /\ todo = <<sealed, lic>>
    <3>1. Head(todo) = sealed /\ Tail(todo) # <<>>
      BY <2>3
    <3> QED
      BY <2>1, <2>3, <3>1 DEF Write
  <2>4. CASE cmd.op = "generate-request" /\ todo = <<dev>>
    <3>1. Head(todo) = dev
      BY <2>4
    <3> QED
      BY <2>1, <2>4, <3>1, FileFacts DEF Write
  <2>5. CASE cmd.op = "deactivate" /\ \E w \in {todo[1]} : Wipe(cmd, w) /\ todo = <<w>>
    <3>1. PICK w : Wipe(cmd, w) /\ todo = <<w>>
      BY <2>5
    <3>2. Head(todo) = w /\ Tail(todo) = <<>>
      BY <3>1
    <3> QED
      BY <2>1, <2>5, <3>1, <3>2 DEF Wipe, Write
  <2> QED
    BY <1>2, <1>3, <2>2, <2>3, <2>4, <2>5 DEF ToWrite
<1> QED
  BY <1>1, <1>3

\* A step of one process that leaves the secret alone.
LEMMA SecretFrame ==
    ASSUME SecretInv, NEW i \in Procs, file'[SecretFile] = file[SecretFile],
           \A j \in Procs : j # i =>
               /\ proc'[j].pc = proc[j].pc /\ proc'[j].cmd = proc[j].cmd
               /\ proc'[j].todo = proc[j].todo,
           proc'[i].pc \in {"open", "write"} =>
               ToWrite(i, proc'[i].cmd, {OldSecret}, proc'[i].todo)
    PROVE  SecretInv'
BY DEF SecretInv

\* Of an ending command nothing is left to write.
LEMMA FinishedFacts ==
    ASSUME StoreInv, NEW i \in Procs, NEW result, Finish(i, result)
    PROVE  /\ proc'[i].pc = "idle" /\ proc'[i].fd = "none"
           /\ proc'[i].cmd = proc[i].cmd /\ proc'[i].rivals = proc[i].rivals
           /\ \A j \in Procs : j # i => proc'[j] = proc[j]
<1>1. proc' = [proc EXCEPT ![i] = Finished(i, result)] /\ proc[i] \in Processes
  BY DEF Finish, StoreInv, TypeOK
<1>2. /\ Finished(i, result).pc = "idle" /\ Finished(i, result).fd = "none"
      /\ Finished(i, result).cmd = proc[i].cmd
      /\ Finished(i, result).rivals = proc[i].rivals
  BY <1>1 DEF Finished, Processes
<1> QED
  BY <1>1, <1>2 DEF StoreInv, TypeOK

\* With its key in hand a command opens what it read or is to write under it.
LEMMA WithOneKey ==
    ASSUME StoreInv, NEW i \in Procs, NEW s, WithKey(i, s), proc[i].pc \in {"key", "write"},
           proc[i].pc = "write" => proc[i].cmd.op # "deactivate"
    PROVE  /\ proc'[i].pc \in {"idle", "open"} /\ proc'[i].fd = "none"
           /\ proc'[i].cmd = proc[i].cmd /\ proc'[i].rivals = proc[i].rivals
           /\ proc'[i].pc = "open" =>
                 ToWrite(i, proc[i].cmd, {s}, proc'[i].todo)
           /\ \A j \in Procs : j # i => proc'[j] = proc[j]
           /\ held' = held /\ live' = live
<1> DEFINE cmd == proc[i].cmd
<1>1. /\ proc[i] \in Processes /\ WellPlaced(i, proc[i])
      /\ cmd \in Commands /\ cmd.op \in Ops /\ cmd.op # "deactivate"
  BY BusyFacts DEF Busy, WellPlaced
<1>2. CASE proc[i].blob # Absent
  <2> DEFINE result == IF ~Unseals(s, Label(cmd), proc[i].blob) THEN "failed"
                       ELSE IF cmd.op = "verify" THEN "valid" ELSE "ok"
  <2>1. Finish(i, result)
    BY <1>2 DEF WithKey
  <2>2. cmd.op \notin {"activate", "deactivate"}
    BY <1>1, <1>2 DEF WellPlaced
  <2> HIDE DEF result
  <2>3. held' = held /\ live' = live
    BY <2>1, <2>2 DEF Finish, Promise
  <2> QED
    BY <2>1, <2>3, FinishedFacts
<1>3. CASE proc[i].blob = Absent
  <2> DEFINE label == Label(cmd)
             writes == IF cmd.op = "activate"
                       THEN LET blob == Sealed(s, label, cmd.token, SizeOf[cmd.token])
                            IN  <<Write(SealedFile(cmd.product), blob),
                                  Write(LicFile(cmd.product), blob)>>
                       ELSE <<Write(DevkeyFile(cmd.product),
                                    Sealed(s, label, i, DevkeySize))>>
             r == [proc[i] EXCEPT !.pc = "open", !.todo = writes, !.fd = "none"]
  <2>1. proc' = [proc EXCEPT ![i] = r] /\ UNCHANGED promises
    BY <1>3 DEF WithKey
  <2>2. cmd.op \in {"activate", "generate-request"}
    BY <1>1, <1>3 DEF WellPlaced, Ops
  <2>3. ToWrite(i, cmd, {s}, writes)
    <3>1. CASE cmd.op = "activate"
      <4>1. writes = <<Write(SealedFile(cmd.product), LicenceBlob(s, cmd)),
                       Write(LicFile(cmd.product), LicenceBlob(s, cmd))>>
        BY <3>1 DEF Label, LicenceBlob
      <4> HIDE DEF writes
      <4> QED
        BY <3>1, <4>1 DEF ToWrite
    <3>2. CASE cmd.op = "generate-request"
      <4>1. writes = <<Write(DevkeyFile(cmd.product), DevkeyBlob(s, i, cmd))>>
        BY <3>2 DEF Label, DevkeyBlob
      <4> HIDE DEF writes
      <4> QED
        BY <3>2, <4>1 DEF ToWrite
    <3> QED
      BY <2>2, <3>1, <3>2
  <2> HIDE DEF writes, label
  <2>4. r.pc = "open" /\ r.todo = writes /\ r.fd = "none" /\ r.cmd = cmd
        /\ r.rivals = proc[i].rivals
    BY <1>1 DEF Processes
  <2>5. proc'[i] = r /\ \A j \in Procs : j # i => proc'[j] = proc[j]
    BY <2>1 DEF StoreInv, TypeOK
  <2> HIDE DEF r
  <2> QED
    BY <2>1, <2>3, <2>4, <2>5 DEF promises
<1> QED
  BY <1>2, <1>3

\* derive_machine_key finds the secret that is there.
LEMMA OldKeyFound ==
    ASSUME SecretInv, NEW i \in Procs, OldSecret # Absent
    PROVE  /\ ReadSecret(i) => WithKey(i, OldSecret) /\ proc[i].pc = "key"
           /\ ~MakeSecret(i)
<1>1. Secret(OldSecret) # Absent
  BY ContentsFacts, AbsentAssumption DEF Secrets
<1>2. Readable(file[SecretFile]) /\ file[SecretFile].of[2] = OldSecret
  BY <1>1 DEF SecretInv, Readable, Secret, Contents
<1> QED
  BY <1>1, <1>2 DEF ReadSecret, MakeSecret, SecretInv

\* What deactivate writes over a licence is a wipe of it.
LEMMA WipeFacts ==
    ASSUME NEW cmd, NEW n
    PROVE  Wipe(cmd, Write(LicFile(cmd.product), Torn(n)))
BY DEF Wipe, Write, Torn, Contents

\* After fs::exists a command ends or goes to a step without a write.
LEMMA FindSteps ==
    ASSUME StoreInv, NEW i \in Procs, Find(i)
    PROVE  \/ \E result : Finish(i, result)
           \/ \E pc \in {"read", "key", "size"} : proc' = [proc EXCEPT ![i].pc = pc]
<1>1. proc[i].pc = "find" /\ proc[i].cmd.op \in Ops \ {"activate"}
  BY CommandFacts DEF Find, StoreInv, TypeOK, AllPlaced, WellPlaced
<1>2. CASE proc[i].cmd.op = "generate-request"
  BY <1>2 DEF Find, Goto
<1>3. CASE proc[i].cmd.op = "deactivate"
  BY <1>3 DEF Find, Goto
<1>4. CASE proc[i].cmd.op = "verify"
  BY <1>4 DEF Find, Goto
<1> QED
  BY <1>1, <1>2, <1>3, <1>4 DEF Ops

\* Whatever a process does, the secret stays and what is to be written stays
\* sealed under it.
LEMMA SecretStays ==
    ASSUME StoreInv, SecretInv, OldSecret # Absent, [Next]_vars
    PROVE  SecretInv'
<1>1. ASSUME NEW i \in Procs, NEW cmd \in Commands, Start(i, cmd)
      PROVE  SecretInv'
  <2>1. file' = file
    BY <1>1 DEF Start
  <2>2. ASSUME NEW j \in Procs
        PROVE  IF j = i THEN proc'[j].pc \in {"key", "find"}
               ELSE /\ proc'[j].pc = proc[j].pc /\ proc'[j].cmd = proc[j].cmd
                    /\ proc'[j].todo = proc[j].todo
    BY <1>1 DEF Start, Idle, StoreInv, TypeOK, Processes
  <2> QED
    BY <2>1, <2>2, SecretFrame
<1>2. ASSUME NEW i \in Procs, Find(i) \/ Read(i) \/ Size(i)
      PROVE  SecretInv'
  <2>1. file' = file /\ proc[i] \in Processes /\ proc[i].cmd \in Commands
    BY <1>2 DEF Find, Read, Size, StoreInv, TypeOK
  <2>2. CASE \E result : Finish(i, result)
    BY <2>1, <2>2, FinishedFacts, SecretFrame
  <2>3. CASE \E blob : proc' = [proc EXCEPT ![i].pc = "key", ![i].blob = blob]
    <3>1. PICK blob : proc' = [proc EXCEPT ![i].pc = "key", ![i].blob = blob]
      BY <2>3
    <3>2. proc'[i].pc = "key" /\ \A j \in Procs : j # i => proc'[j] = proc[j]
      BY <2>1, <3>1 DEF StoreInv, TypeOK, Processes
    <3> QED
      BY <2>1, <3>2, SecretFrame
  <2>4. CASE \E pc \in {"read", "key", "size"} : proc' = [proc EXCEPT ![i].pc = pc]
    <3>1. PICK pc \in {"read", "key", "size"} : proc' = [proc EXCEPT ![i].pc = pc]
      BY <2>4
    <3>2. proc'[i].pc = pc /\ \A j \in Procs : j # i => proc'[j] = proc[j]
      BY <2>1, <3>1 DEF StoreInv, TypeOK, Processes
    <3> QED
      BY <2>1, <3>2, SecretFrame
  <2>5. CASE \E n : proc' = [proc EXCEPT ![i].pc = "open",
                        ![i].todo = <<Write(LicFile(proc[i].cmd.product), Torn(n))>>]
             /\ proc[i].pc = "size"
    <3>1. PICK n : proc' = [proc EXCEPT ![i].pc = "open",
                        ![i].todo = <<Write(LicFile(proc[i].cmd.product), Torn(n))>>]
      BY <2>5
    <3> DEFINE w == Write(LicFile(proc[i].cmd.product), Torn(n))
               todo == <<w>>
    <3>2. proc'[i].todo = todo /\ proc'[i].cmd = proc[i].cmd
          /\ \A j \in Procs : j # i => proc'[j] = proc[j]
      BY <2>1, <3>1 DEF StoreInv, TypeOK, Processes
    <3>3. Wipe(proc[i].cmd, w) /\ proc[i].cmd.op = "deactivate"
      BY <2>5, WipeFacts DEF StoreInv, AllPlaced, WellPlaced
    <3>4. ToWrite(i, proc[i].cmd, {OldSecret}, todo)
      BY <3>3 DEF ToWrite
    <3> QED
      BY <2>1, <3>2, <3>4, SecretFrame
  <2>6. ASSUME Find(i) PROVE SecretInv'
    BY <2>2, <2>4, <2>6, FindSteps
  <2>7. ASSUME Read(i) PROVE SecretInv'
    BY <2>2, <2>3, <2>7 DEF Read
  <2>8. ASSUME Size(i) PROVE SecretInv'
    BY <2>2, <2>5, <2>8 DEF Size
  <2> QED
    BY <1>2, <2>6, <2>7, <2>8
<1>3. ASSUME NEW i \in Procs, ReadSecret(i)
      PROVE  SecretInv'
  <2>1. WithKey(i, OldSecret) /\ proc[i].pc = "key" /\ file' = file
    BY <1>3, OldKeyFound DEF ReadSecret
  <2> QED
    BY <2>1, WithOneKey, SecretFrame
<1>4. ASSUME NEW i \in Procs, Open(i)
      PROVE  SecretInv'
  <2>1. /\ proc[i].pc = "open" /\ proc[i] \in Processes
        /\ file' = [file EXCEPT ![Head(proc[i].todo).file] = Empty]
        /\ proc' = [proc EXCEPT ![i].pc = "write", ![i].fd = "open"]
    BY <1>4 DEF Open, StoreInv, TypeOK
  <2>2. Head(proc[i].todo).file # SecretFile
    BY <2>1, OldWrite
  <2>3. /\ proc'[i].cmd = proc[i].cmd /\ proc'[i].todo = proc[i].todo
        /\ \A j \in Procs : j # i => proc'[j] = proc[j]
    BY <2>1 DEF StoreInv, TypeOK, Processes
  <2>4. ToWrite(i, proc[i].cmd, {OldSecret}, proc[i].todo)
    BY <2>1 DEF SecretInv
  <2>5. file'[SecretFile] = file[SecretFile]
    BY <2>1, <2>2, FileFacts DEF StoreInv, TypeOK
  <2> QED
    BY <2>3, <2>4, <2>5, SecretFrame
<1>5. ASSUME NEW i \in Procs, NEW short \in BOOLEAN, Flush(i, short)
      PROVE  SecretInv'
  <2> DEFINE w == Head(proc[i].todo)
             rest == Tail(proc[i].todo)
  <2>1. proc[i].pc = "write" /\ proc[i] \in Processes
    BY <1>5 DEF Flush, StoreInv, TypeOK
  <2>2. w.file # SecretFile /\ (rest # <<>> => ToWrite(i, proc[i].cmd, {OldSecret}, rest))
    BY <2>1, OldWrite
  <2>3. file'[SecretFile] = file[SecretFile]
    BY <1>5, <2>2, FileFacts DEF Flush, StoreInv, TypeOK
  <2>4. CASE rest # <<>>
    <3>1. proc' = [proc EXCEPT ![i].pc = "open", ![i].todo = rest, ![i].fd = "none"]
      BY <1>5, <2>2, <2>4 DEF Flush
    <3>2. proc'[i].todo = rest /\ proc'[i].cmd = proc[i].cmd
          /\ \A j \in Procs : j # i => proc'[j] = proc[j]
      BY <2>1, <3>1 DEF StoreInv, TypeOK, Processes
    <3> QED
      BY <2>2, <2>3, <2>4, <3>2, SecretFrame
  <2>5. CASE rest = <<>> /\ proc[i].cmd.op = "deactivate"
    <3>1. proc' = [proc EXCEPT ![i].pc = "remove", ![i].todo = rest, ![i].fd = "none"]
      BY <1>5, <2>2, <2>5 DEF Flush
    <3>2. proc'[i].pc = "remove" /\ \A j \in Procs : j # i => proc'[j] = proc[j]
      BY <2>1, <3>1 DEF StoreInv, TypeOK, Processes
    <3> QED
      BY <2>3, <3>2, SecretFrame
  <2>6. CASE rest = <<>> /\ proc[i].cmd.op # "deactivate"
    <3>1. Finish(i, "ok")
      BY <1>5, <2>2, <2>6 DEF Flush
    <3> QED
      BY <2>3, <3>1, FinishedFacts, SecretFrame
  <2> QED
    BY <2>4, <2>5, <2>6
<1>6. ASSUME NEW i \in Procs, Remove(i)
      PROVE  SecretInv'
  <2>1. file'[SecretFile] = file[SecretFile]
    BY <1>6, FileFacts DEF Remove, StoreInv, TypeOK
  <2>2. Finished(i, "ok").pc = "idle"
    BY DEF Finished, StoreInv, TypeOK, Processes
  <2>3. ASSUME NEW j \in Procs
        PROVE  IF j = i THEN proc'[j].pc = "idle"
               ELSE /\ proc'[j].pc = proc[j].pc /\ proc'[j].cmd = proc[j].cmd
                    /\ proc'[j].todo = proc[j].todo
    BY <1>6, <2>2 DEF Remove, StoreInv, TypeOK, Processes
  <2> QED
    BY <2>1, <2>3, SecretFrame
<1>7. ASSUME NEW i \in Procs, Crash(i)
      PROVE  SecretInv'
  BY <1>7, FinishedFacts, SecretFrame DEF Crash
<1>8. CASE UNCHANGED vars
  BY <1>8 DEF vars, SecretInv
<1>9. ASSUME NEW i \in Procs, Step(i)
      PROVE  SecretInv'
  BY <1>2, <1>3, <1>4, <1>5, <1>6, <1>9, OldKeyFound DEF Step
<1> QED
  BY <1>1, <1>5, <1>7, <1>8, <1>9 DEF Next

\* Where the account has its machine secret nothing ever replaces it, so that
\* whatever was sealed under it stays within reach.
THEOREM SecretIsKept ==
    ASSUME OldSecret # Absent
    PROVE  Spec => SecretPersists
<1>1. Init => SecretInv
  BY FileFacts DEF Init, Idle, SecretInv
<1>2. StoreInv /\ SecretInv /\ [Next]_vars => SecretInv'
  BY SecretStays
<1>3. SecretInv /\ SecretInv' =>
          [Readable(file[SecretFile]) => file'[SecretFile] = file[SecretFile]]_vars
  BY DEF SecretInv
<1> QED
  BY <1>1, <1>2, <1>3, StoreInvariant, PTL DEF Spec, SecretPersists

-----------------------------------------------------------------------------
(* What an activation promised.                                            *)

\* The tokens of one product seal to one size, so that no write of a licence
\* is shorter than what it may overlap with.
OneSize == \A t, u \in Tokens : ProductOf[t] = ProductOf[u] => SizeOf[t] = SizeOf[u]
Fits(p, n) == \A t \in Tokens : ProductOf[t] = p => n <= SizeOf[t]

LicencesFit ==
    \A p \in Products : file[LicFile(p)] # Absent => Fits(p, file[LicFile(p)].size)
WipesFit ==
    \A i \in Procs : proc[i].pc \in {"open", "write"} /\ proc[i].cmd.op = "deactivate" =>
        Fits(proc[i].cmd.product, Head(proc[i].todo).contents.size)

\* Only a deactivate takes the file away that an activate writes.
OrphansKnow ==
    \A i \in Procs : proc[i].fd = "orphan" /\ proc[i].cmd.op = "activate" =>
        Rival(i, "deactivate")

\* A promised licence verifies, or someone is about to write it again.
Writing(i, p) ==
    /\ proc[i].pc = "write" /\ proc[i].fd = "open"
    /\ proc[i].cmd.op = "activate" /\ proc[i].cmd.product = p
    /\ Head(proc[i].todo).file = LicFile(p)
HeldKept == \A p \in held : Verifiable(p) \/ \E i \in Procs : Writing(i, p)

HeldInv == LicencesFit /\ WipesFit /\ OrphansKnow /\ HeldKept

\* A process that the step of another leaves as it is, but for its rivals.
Same(j) ==
    /\ proc'[j].pc = proc[j].pc /\ proc'[j].cmd = proc[j].cmd
    /\ proc'[j].todo = proc[j].todo /\ proc'[j].fd = proc[j].fd
    /\ proc[j].rivals \subseteq proc'[j].rivals

\* A step of one process that changes no licence but those of Q, of which it
\* leaves promised only what verifies or is about to be written.
LEMMA HeldFrame ==
    ASSUME SecretInv, SecretInv', HeldInv, NEW i \in Procs, NEW Q \in SUBSET Products,
           held \subseteq Products, held' \ Q \subseteq held,
           \A p \in Products \ Q : file'[LicFile(p)] = file[LicFile(p)],
           \A p \in held' \ Q : ~Writing(i, p),
           \A q \in Q : file'[LicFile(q)] # Absent => Fits(q, file'[LicFile(q)].size),
           \A q \in Q : q \in held' => Verifiable(q)' \/ Writing(i, q)',
           \A j \in Procs : j # i => Same(j),
           proc'[i].pc \in {"open", "write"} /\ proc'[i].cmd.op = "deactivate" =>
               Fits(proc'[i].cmd.product, Head(proc'[i].todo).contents.size),
           proc'[i].fd # "orphan"
    PROVE  HeldInv'
<1>1. LicencesFit'
  BY DEF HeldInv, LicencesFit, Fits
<1>2. WipesFit'
  <2> SUFFICES ASSUME NEW j \in Procs, proc'[j].pc \in {"open", "write"},
                      proc'[j].cmd.op = "deactivate"
               PROVE  Fits(proc'[j].cmd.product, Head(proc'[j].todo).contents.size)
    BY DEF WipesFit, Fits
  <2> QED
    BY DEF HeldInv, WipesFit, Same
<1>3. OrphansKnow'
  BY DEF HeldInv, OrphansKnow, Rival, Same
<1>4. HeldKept'
  <2> SUFFICES ASSUME NEW p \in held'
               PROVE  Verifiable(p)' \/ \E j \in Procs : Writing(j, p)'
    BY DEF HeldKept
  <2>1. CASE p \in Q
    BY <2>1
  <2>2. CASE p \notin Q
    <3>1. p \in held /\ p \in Products \ Q
      BY <2>2
    <3>2. CASE Verifiable(p)
      BY <3>1, <3>2 DEF Verifiable, SecretInv
    <3>3. CASE ~Verifiable(p)
      <4>1. PICK j \in Procs : Writing(j, p)
        BY <3>1, <3>3 DEF HeldInv, HeldKept
      <4>2. j # i /\ Same(j)
        BY <2>2, <4>1
      <4> QED
        BY <4>1, <4>2 DEF Writing, Same
    <3> QED
      BY <3>2, <3>3
  <2> QED
    BY <2>1, <2>2
<1> QED
  BY <1>1, <1>2, <1>3, <1>4 DEF HeldInv

\* A step of one process that changes no licence at all.
LEMMA HeldQuiet ==
    ASSUME StoreInv, SecretInv, SecretInv', HeldInv, NEW i \in Procs, held' \subseteq held,
           \A p \in Products : file'[LicFile(p)] = file[LicFile(p)],
           \A p \in held' : ~Writing(i, p),
           \A j \in Procs : j # i => Same(j),
           proc'[i].pc \in {"open", "write"} /\ proc'[i].cmd.op = "deactivate" =>
               Fits(proc'[i].cmd.product, Head(proc'[i].todo).contents.size),
           proc'[i].fd # "orphan"
    PROVE  HeldInv'
<1> DEFINE Q == {}
<1>1. held \subseteq Products
  BY DEF StoreInv, TypeOK
<1>2. /\ Q \in SUBSET Products /\ held' \ Q \subseteq held
      /\ \A p \in Products \ Q : file'[LicFile(p)] = file[LicFile(p)]
      /\ \A p \in held' \ Q : ~Writing(i, p)
      /\ \A q \in Q : FALSE
  OBVIOUS
<1> HIDE DEF Q
<1> QED
  BY <1>1, <1>2, HeldFrame

\* A command that ends without having promised a licence promises no more.
LEMMA QuietPromise ==
    ASSUME NEW i \in Procs, NEW result, Finish(i, result),
           proc[i].cmd.op # "activate" \/ result # "ok"
    PROVE  /\ held' \subseteq held
           /\ proc[i].cmd.op = "activate" /\ result = "crashed" =>
                 proc[i].cmd.product \notin held'
<1>1. Promise(i, result)
  BY DEF Finish
<1>2. held' = held \/ held' = held \ {proc[i].cmd.product}
  BY <1>1 DEF Promise
<1>3. CASE proc[i].cmd.op = "activate" /\ result = "crashed"
  BY <1>1, <1>3 DEF Promise
<1> QED
  BY <1>2, <1>3

\* The steps that write nothing.
LEMMA HeldByQuietSteps ==
    ASSUME StoreInv, SecretInv, SecretInv', HeldInv, OldSecret # Absent, NEW i \in Procs,
           \/ \E cmd \in Commands : Start(i, cmd)
           \/ Find(i) \/ Read(i) \/ Size(i) \/ ReadSecret(i) \/ Crash(i)
    PROVE  HeldInv'
<1>1. /\ \A p \in Products : file'[LicFile(p)] = file[LicFile(p)]
      /\ proc[i] \in Processes /\ WellPlaced(i, proc[i])
  BY DEF Start, Find, Read, Size, ReadSecret, Crash, StoreInv, TypeOK, AllPlaced
<1>2. CASE \E cmd \in Commands : Start(i, cmd)
  <2>1. PICK cmd \in Commands : Start(i, cmd)
    BY <1>2
  <2>2. /\ proc'[i].pc \in {"key", "find"} /\ proc'[i].fd = "none" /\ proc[i].pc = "idle"
        /\ held' \subseteq held
    BY <2>1 DEF Start, Idle
  <2>3. ASSUME NEW j \in Procs, j # i
        PROVE  Same(j)
    <3>1. proc[j] \in Processes
      BY DEF StoreInv, TypeOK
    <3>2. proc'[j] = [proc[j] EXCEPT !.rivals = @ \cup {cmd}] \/ proc'[j] = proc[j]
      BY <2>1, <2>3 DEF Start
    <3> QED
      BY <3>1, <3>2 DEF Same, Processes
  <2>4. \A p : ~Writing(i, p)
    BY <2>2 DEF Writing
  <2> QED
    BY <1>1, <2>2, <2>3, <2>4, HeldQuiet
<1>3. ASSUME NEW result, Finish(i, result),
             proc[i].cmd.op # "activate" \/ result = "crashed"
      PROVE  HeldInv'
  <2>1. /\ proc'[i].pc = "idle" /\ proc'[i].fd = "none"
        /\ \A j \in Procs : j # i => proc'[j] = proc[j]
    BY <1>3, FinishedFacts
  <2>2. \A j \in Procs : j # i => Same(j)
    BY <2>1 DEF Same
  <2>3. held' \subseteq held /\ \A p \in held' : ~Writing(i, p)
    BY <1>3, QuietPromise DEF Writing
  <2> QED
    BY <1>1, <2>1, <2>2, <2>3, HeldQuiet
<1>4. ASSUME NEW r, proc' = [proc EXCEPT ![i] = r], UNCHANGED promises,
             r.fd = "none", proc[i].pc # "write",
             r.pc \in {"open", "write"} /\ r.cmd.op = "deactivate" =>
                 Fits(r.cmd.product, Head(r.todo).contents.size)
      PROVE  HeldInv'
  <2>1. proc'[i] = r /\ \A j \in Procs : j # i => proc'[j] = proc[j]
    BY <1>4 DEF StoreInv, TypeOK
  <2>2. \A j \in Procs : j # i => Same(j)
    BY <2>1 DEF Same
  <2>3. held' = held /\ \A p : ~Writing(i, p)
    BY <1>4 DEF promises, Writing
  <2> QED
    BY <1>1, <1>4, <2>1, <2>2, <2>3, HeldQuiet
<1>5. CASE Find(i)
  <2>1. proc[i].pc = "find" /\ proc[i].fd = "none" /\ proc[i].cmd.op # "activate"
    BY <1>1, <1>5 DEF Find, WellPlaced
  <2>2. CASE \E result : Finish(i, result)
    BY <1>3, <2>1, <2>2
  <2>3. CASE ~ \E result : Finish(i, result)
    <3>1. PICK pc \in {"read", "key", "size"} : proc' = [proc EXCEPT ![i].pc = pc]
      BY <1>5, <2>3, FindSteps
    <3>2. UNCHANGED promises
      BY <1>5, <2>1, <2>3, <1>1, CommandFacts DEF Find, WellPlaced, Ops
    <3> DEFINE r == [proc[i] EXCEPT !.pc = pc]
    <3>3. proc' = [proc EXCEPT ![i] = r] /\ r.fd = "none" /\ r.pc = pc
      BY <1>1, <2>1, <3>1 DEF Processes
    <3> HIDE DEF r
    <3> QED
      BY <1>4, <2>1, <3>2, <3>3
  <2> QED
    BY <2>2, <2>3
<1>6. CASE Read(i)
  <2>1. proc[i].pc = "read" /\ proc[i].fd = "none" /\ proc[i].cmd.op # "activate"
    BY <1>1, <1>6 DEF Read, WellPlaced
  <2>2. CASE Finish(i, "failed")
    BY <1>3, <2>1, <2>2
  <2>3. CASE ~Finish(i, "failed")
    <3> DEFINE r == [proc[i] EXCEPT !.pc = "key", !.blob = file[Sought(proc[i].cmd)]]
    <3>1. proc' = [proc EXCEPT ![i] = r] /\ UNCHANGED promises
      BY <1>6, <2>3 DEF Read
    <3>2. r.fd = "none" /\ r.pc = "key"
      BY <1>1, <2>1 DEF Processes
    <3> HIDE DEF r
    <3> QED
      BY <1>4, <2>1, <3>1, <3>2
  <2> QED
    BY <2>2, <2>3
<1>7. CASE Size(i)
  <2> DEFINE lic == LicFile(proc[i].cmd.product)
  <2>1. /\ proc[i].pc = "size" /\ proc[i].fd = "none" /\ proc[i].cmd \in Commands
        /\ proc[i].cmd.op = "deactivate" /\ proc[i].cmd.product \in Products
    BY <1>1, <1>7, CommandFacts DEF Size, WellPlaced
  <2>2. CASE Finish(i, "failed")
    BY <1>3, <2>1, <2>2
  <2>3. CASE ~Finish(i, "failed")
    <3> DEFINE todo == <<Write(lic, Torn(file[lic].size))>>
               r == [proc[i] EXCEPT !.pc = "open", !.todo = todo]
    <3>1. proc' = [proc EXCEPT ![i] = r] /\ UNCHANGED promises /\ file[lic] # Absent
      BY <1>7, <2>3 DEF Size
    <3>2. r.fd = "none" /\ r.pc = "open" /\ r.todo = todo /\ r.cmd = proc[i].cmd
      BY <1>1, <2>1 DEF Processes
    <3>3. Head(todo).contents.size = file[lic].size
      BY DEF Write, Torn, Contents
    <3>4. Fits(proc[i].cmd.product, file[lic].size)
      BY <2>1, <3>1 DEF HeldInv, LicencesFit
    <3> HIDE DEF r, todo
    <3> QED
      BY <1>4, <2>1, <3>1, <3>2, <3>3, <3>4
  <2> QED
    BY <2>2, <2>3
<1>8. CASE ReadSecret(i)
  <2>1. WithKey(i, OldSecret) /\ proc[i].pc = "key"
    BY <1>8, OldKeyFound
  <2>2. /\ proc'[i].pc \in {"idle", "open"} /\ proc'[i].fd = "none"
        /\ proc'[i].cmd = proc[i].cmd /\ held' = held
        /\ \A j \in Procs : j # i => proc'[j] = proc[j]
    BY <2>1, WithOneKey
  <2>3. proc[i].cmd.op # "deactivate"
    BY <1>1, <2>1 DEF WellPlaced
  <2>4. \A j \in Procs : j # i => Same(j)
    BY <2>2 DEF Same
  <2>5. \A p : ~Writing(i, p)
    BY <2>1 DEF Writing
  <2> QED
    BY <1>1, <2>2, <2>3, <2>4, <2>5, HeldQuiet
<1>9. CASE Crash(i)
  BY <1>3, <1>9 DEF Crash
<1> QED
  BY <1>2, <1>5, <1>6, <1>7, <1>8, <1>9

\* A licence is written by an activate of its product, and wiped by a
\* deactivate of it.
LEMMA LicenceWriter ==
    ASSUME StoreInv, NEW i \in Procs, proc[i].pc \in {"open", "write"}, NEW p \in Products,
           Head(proc[i].todo).file = LicFile(p)
    PROVE  /\ proc[i].cmd.product = p /\ proc[i].cmd \in Commands
           /\ proc[i].cmd.op \in {"activate", "deactivate"}
           /\ proc[i].cmd.op = "deactivate" => p \notin held
<1>1. ToWrite(i, proc[i].cmd, Secrets, proc[i].todo) /\ proc[i].cmd \in Commands
  BY HeadInFiles
<1>2. ASSUME NEW cmd, NEW todo, ToWrite(i, cmd, Secrets, todo), Head(todo).file = LicFile(p)
      PROVE  cmd.op \in {"activate", "deactivate"} /\ cmd.product = p
  <2>1. \A f, c : Head(<<Write(f, c)>>).file = f
    BY DEF Write
  <2>2. \A f, c, w : Head(<<Write(f, c), w>>).file = f
    BY DEF Write
  <2>3. \A q : /\ LicFile(p) \notin {SecretFile, DevkeyFile(q), SealedFile(q)}
               /\ LicFile(q) = LicFile(p) => q = p
    BY FileFacts
  <2>4. CASE todo = <<Write(SecretFile, Secret(i))>>
    BY <1>2, <2>1, <2>3, <2>4
  <2>5. CASE cmd.op = "deactivate" /\ \E w \in {todo[1]} : Wipe(cmd, w) /\ todo = <<w>>
    <3>1. PICK w : w = Write(LicFile(cmd.product), Torn(w.contents.size)) /\ todo = <<w>>
      BY <2>5 DEF Wipe
    <3>2. Head(todo).file = LicFile(cmd.product)
      BY <2>1, <3>1
    <3> QED
      BY <1>2, <2>3, <2>5, <3>2
  <2>6. CASE \E s \in Secrets : todo = <<Write(DevkeyFile(cmd.product), DevkeyBlob(s, i, cmd))>>
    BY <1>2, <2>1, <2>3, <2>6
  <2>7. CASE /\ cmd.op = "activate"
             /\ \E s \in Secrets : todo = <<Write(LicFile(cmd.product), LicenceBlob(s, cmd))>>
    BY <1>2, <2>1, <2>3, <2>7
  <2>8. CASE \E s \in Secrets :
                 todo = <<Write(SealedFile(cmd.product), LicenceBlob(s, cmd)),
                          Write(LicFile(cmd.product), LicenceBlob(s, cmd))>>
    BY <1>2, <2>2, <2>3, <2>8
  <2> QED
    BY <1>2, <2>4, <2>5, <2>6, <2>7, <2>8 DEF ToWrite
<1>3. proc[i].cmd.op \in {"activate", "deactivate"} /\ proc[i].cmd.product = p
  BY <1>1, <1>2
<1> QED
  BY <1>1, <1>3 DEF StoreInv, HeldUndisturbed, Busy

\* Files other than the licences of Q are as they were.
LEMMA OtherLicences ==
    ASSUME StoreInv, NEW f \in Files, NEW c, file' = [file EXCEPT ![f] = c]
    PROVE  /\ \A p \in Products : LicFile(p) # f => file'[LicFile(p)] = file[LicFile(p)]
           /\ file'[f] = c
BY FileFacts DEF StoreInv, TypeOK

\* An emptied licence is about to be written by who emptied it.
LEMMA HeldByOpen ==
    ASSUME StoreInv, SecretInv, SecretInv', HeldInv, NEW i \in Procs, Open(i)
    PROVE  HeldInv'
<1> DEFINE w == Head(proc[i].todo)
           Q == {p \in Products : LicFile(p) = w.file}
<1>1. /\ proc[i].pc = "open" /\ proc[i].fd = "none" /\ proc[i] \in Processes
      /\ file' = [file EXCEPT ![w.file] = Empty]
      /\ proc' = [proc EXCEPT ![i].pc = "write", ![i].fd = "open"]
      /\ held' = held /\ held \subseteq Products
  BY DEF Open, StoreInv, TypeOK, promises
<1>2. /\ proc'[i].pc = "write" /\ proc'[i].fd = "open" /\ proc'[i].cmd = proc[i].cmd
      /\ proc'[i].todo = proc[i].todo
      /\ \A j \in Procs : j # i => proc'[j] = proc[j]
  BY <1>1 DEF StoreInv, TypeOK, Processes
<1>3. w.file \in Files
  BY <1>1, HeadInFiles
<1>4. /\ \A p \in Products : LicFile(p) # w.file => file'[LicFile(p)] = file[LicFile(p)]
      /\ file'[w.file] = Empty
  BY <1>1, <1>3, OtherLicences
<1>5. \A j \in Procs : j # i => Same(j)
  BY <1>2 DEF Same
<1>6. \A p : ~Writing(i, p)
  BY <1>1 DEF Writing
<1>7. proc[i].cmd.op = "deactivate" => Fits(proc[i].cmd.product, w.contents.size)
  BY <1>1 DEF HeldInv, WipesFit
<1>8. ASSUME NEW q \in Q
      PROVE  /\ file'[LicFile(q)] # Absent => Fits(q, file'[LicFile(q)].size)
             /\ q \in held' => Verifiable(q)' \/ Writing(i, q)'
  <2>1. file'[LicFile(q)].size = 0
    BY <1>4 DEF Empty, Contents
  <2>2. Fits(q, 0)
    BY TokenAssumption DEF Fits
  <2>3. q \in held' => Writing(i, q)'
    BY <1>1, <1>2, LicenceWriter DEF Writing
  <2> QED
    BY <2>1, <2>2, <2>3
<1>9. Q \in SUBSET Products /\ \A p \in Products \ Q : LicFile(p) # w.file
  OBVIOUS
<1> HIDE DEF Q
<1>10. \A p \in Products \ Q : file'[LicFile(p)] = file[LicFile(p)]
  BY <1>4, <1>9
<1> QED
  BY <1>1, <1>2, <1>5, <1>6, <1>7, <1>8, <1>9, <1>10, HeldFrame

\* fs::remove takes away no promised licence.
LEMMA HeldByRemove ==
    ASSUME StoreInv, SecretInv, SecretInv', HeldInv, NEW i \in Procs, Remove(i)
    PROVE  HeldInv'
<1> DEFINE lic == LicFile(proc[i].cmd.product)
<1>1. /\ proc[i].pc = "remove" /\ proc[i] \in Processes /\ WellPlaced(i, proc[i])
      /\ file' = [file EXCEPT ![lic] = Absent] /\ Promise(i, "ok") /\ Busy(i)
  BY DEF Remove, Busy, StoreInv, TypeOK, AllPlaced
<1>2. /\ proc[i].cmd.op = "deactivate" /\ proc[i].cmd.product \in Products
      /\ proc[i].cmd.product \notin held
      /\ lic \in Files
  BY <1>1, BusyFacts, FileFacts DEF WellPlaced, StoreInv, HeldUndisturbed
<1>3. held' = held
  BY <1>1, <1>2 DEF Promise
<1>4. /\ \A p \in Products : LicFile(p) # lic => file'[LicFile(p)] = file[LicFile(p)]
      /\ file'[lic] = Absent
  BY <1>1, <1>2, OtherLicences
<1>5. ASSUME NEW j \in Procs, j # i
      PROVE  /\ proc'[j].pc = proc[j].pc /\ proc'[j].cmd = proc[j].cmd
             /\ proc'[j].todo = proc[j].todo /\ proc'[j].rivals = proc[j].rivals
             /\ proc'[j].fd = IF proc[j].fd = "open" /\ Head(proc[j].todo).file = lic
                              THEN "orphan" ELSE proc[j].fd
  BY <1>5 DEF Remove, StoreInv, TypeOK, Processes
<1>6. proc'[i].pc = "idle" /\ proc'[i].fd = "none"
  BY <1>1 DEF Remove, Finished, Processes
<1>7. LicencesFit'
  <2> SUFFICES ASSUME NEW p \in Products, file'[LicFile(p)] # Absent
               PROVE  Fits(p, file'[LicFile(p)].size)
    BY DEF LicencesFit, Fits
  <2> QED
    BY <1>4 DEF HeldInv, LicencesFit
<1>8. WipesFit'
  <2> SUFFICES ASSUME NEW j \in Procs, proc'[j].pc \in {"open", "write"},
                      proc'[j].cmd.op = "deactivate"
               PROVE  Fits(proc'[j].cmd.product, Head(proc'[j].todo).contents.size)
    BY DEF WipesFit, Fits
  <2> QED
    BY <1>5, <1>6 DEF HeldInv, WipesFit
<1>9. OrphansKnow'
  <2> SUFFICES ASSUME NEW j \in Procs, proc'[j].fd = "orphan", proc'[j].cmd.op = "activate"
               PROVE  \E c \in proc'[j].rivals : c.op = "deactivate"
                                                 /\ c.product = proc'[j].cmd.product
    BY DEF OrphansKnow, Rival
  <2>1. j # i
    BY <1>6
  <2>2. CASE proc[j].fd = "orphan"
    BY <1>5, <2>1, <2>2 DEF HeldInv, OrphansKnow, Rival
  <2>3. CASE proc[j].fd # "orphan"
    <3>1. proc[j].fd = "open" /\ Head(proc[j].todo).file = lic
      BY <1>5, <2>1, <2>3
    <3>2. proc[j].pc = "write" /\ Busy(j)
      BY <3>1 DEF StoreInv, AllPlaced, WellPlaced, Busy
    <3>3. proc[j].cmd.product = proc[i].cmd.product
      BY <1>2, <3>1, <3>2, LicenceWriter
    <3>4. proc[i].cmd \in proc[j].rivals
      BY <1>1, <2>1, <3>2 DEF StoreInv, Mutual
    <3> QED
      BY <1>2, <1>5, <2>1, <3>3, <3>4
  <2> QED
    BY <2>2, <2>3
<1>10. HeldKept'
  <2> SUFFICES ASSUME NEW p \in held
               PROVE  Verifiable(p)' \/ \E j \in Procs : Writing(j, p)'
    BY <1>3 DEF HeldKept
  <2>1. p \in Products /\ LicFile(p) # lic
    BY <1>2, FileFacts DEF StoreInv, TypeOK
  <2>2. CASE Verifiable(p)
    BY <1>4, <2>1, <2>2 DEF Verifiable, SecretInv
  <2>3. CASE ~Verifiable(p)
    <3>1. PICK j \in Procs : Writing(j, p)
      BY <2>3 DEF HeldInv, HeldKept
    <3>2. j # i
      BY <1>1, <3>1 DEF Writing
    <3> QED
      BY <1>5, <2>1, <3>1, <3>2 DEF Writing
  <2> QED
    BY <2>2, <2>3
<1> QED
  BY <1>7, <1>8, <1>9, <1>10 DEF HeldInv

\* Where a process goes when it has written.
LEMMA AfterFlush ==
    ASSUME StoreInv, SecretInv, NEW i \in Procs, Flush(i, FALSE)
    PROVE  LET w == Head(proc[i].todo)
               written == Overlay(file[w.file], w.contents)
           IN  /\ proc[i].pc = "write" /\ w.file \in Files /\ w.file # SecretFile
               /\ w.contents \in AllContents
               /\ IF proc[i].fd = "open"
                  THEN file[w.file] # Absent /\ file' = [file EXCEPT ![w.file] = written]
                  ELSE file' = file
               /\ proc'[i].pc \in {"idle", "open", "remove"} /\ proc'[i].fd = "none"
               /\ proc'[i].cmd = proc[i].cmd
               /\ \A j \in Procs : j # i => Same(j)
               /\ proc'[i].pc = "open" => proc[i].cmd.op = "activate"
               /\ w.file = LicFile(proc[i].cmd.product) /\ proc[i].cmd.op = "activate" =>
                      Promise(i, "ok")
               /\ w.file # LicFile(proc[i].cmd.product) \/ proc[i].cmd.op = "deactivate" =>
                      held' \subseteq held
<1> DEFINE w == Head(proc[i].todo)
           rest == Tail(proc[i].todo)
           written == Overlay(file[w.file], w.contents)
<1>1. /\ proc[i].pc = "write" /\ proc[i] \in Processes
      /\ file' = IF proc[i].fd = "open" THEN [file EXCEPT ![w.file] = written] ELSE file
  BY DEF Flush, StoreInv, TypeOK
<1>2. /\ w.file \in Files /\ w.file # SecretFile /\ w.contents \in AllContents
      /\ proc[i].cmd \in Commands /\ proc[i].cmd.op \in Ops
  BY <1>1, OldWrite, HeadInFiles, CommandFacts
<1>3. proc[i].fd = "open" => file[w.file] # Absent
  BY DEF StoreInv, OpenThere
<1>4. CASE rest # <<>>
  <2>1. proc' = [proc EXCEPT ![i].pc = "open", ![i].todo = rest, ![i].fd = "none"]
        /\ UNCHANGED promises
    BY <1>2, <1>4 DEF Flush
  <2>2. /\ proc'[i].pc = "open" /\ proc'[i].fd = "none" /\ proc'[i].cmd = proc[i].cmd
        /\ \A j \in Procs : j # i => proc'[j] = proc[j]
    BY <1>1, <2>1 DEF StoreInv, TypeOK, Processes
  <2>3. proc[i].cmd.op = "activate"
    BY <1>1, <1>4, NextWrite
  <2>4. w.file # LicFile(proc[i].cmd.product)
    BY <1>1, <1>4, <2>3, OldWrite, FileFacts
  <2> QED
    BY <1>1, <1>2, <1>3, <2>1, <2>2, <2>3, <2>4 DEF promises, Same
<1>5. CASE rest = <<>> /\ proc[i].cmd.op = "deactivate"
  <2>1. proc' = [proc EXCEPT ![i].pc = "remove", ![i].todo = rest, ![i].fd = "none"]
        /\ UNCHANGED promises
    BY <1>2, <1>5 DEF Flush
  <2>2. /\ proc'[i].pc = "remove" /\ proc'[i].fd = "none" /\ proc'[i].cmd = proc[i].cmd
        /\ \A j \in Procs : j # i => proc'[j] = proc[j]
    BY <1>1, <2>1 DEF StoreInv, TypeOK, Processes
  <2> QED
    BY <1>1, <1>2, <1>3, <1>5, <2>1, <2>2 DEF promises, Same
<1>6. CASE rest = <<>> /\ proc[i].cmd.op # "deactivate"
  <2>1. Finish(i, "ok")
    BY <1>2, <1>6 DEF Flush
  <2>2. /\ proc'[i].pc = "idle" /\ proc'[i].fd = "none" /\ proc'[i].cmd = proc[i].cmd
        /\ \A j \in Procs : j # i => proc'[j] = proc[j]
    BY <2>1, FinishedFacts
  <2>3. proc[i].cmd.op = "activate" => w.file = LicFile(proc[i].cmd.product)
    BY <1>1, <1>6, OldWrite
  <2>4. Promise(i, "ok")
    BY <2>1 DEF Finish
  <2>5. proc[i].cmd.op # "activate" => held' \subseteq held
    BY <2>1, QuietPromise
  <2> QED
    BY <1>1, <1>2, <1>3, <1>6, <2>2, <2>3, <2>4, <2>5 DEF Same
<1> QED
  BY <1>4, <1>5, <1>6

\* A licence that is written out verifies, or nobody was promised it.
LEMMA HeldByFlush ==
    ASSUME StoreInv, SecretInv, SecretInv', HeldInv, OldSecret # Absent, OneSize,
           NEW i \in Procs, Flush(i, FALSE)
    PROVE  HeldInv'
<1> DEFINE w == Head(proc[i].todo)
           cmd == proc[i].cmd
           lic == LicFile(cmd.product)
           written == Overlay(file[w.file], w.contents)
<1>1. /\ proc[i].pc = "write" /\ w.file \in Files /\ w.contents \in AllContents
      /\ IF proc[i].fd = "open"
         THEN file[w.file] # Absent /\ file' = [file EXCEPT ![w.file] = written]
         ELSE file' = file
      /\ proc'[i].pc \in {"idle", "open", "remove"} /\ proc'[i].fd = "none"
      /\ proc'[i].cmd = cmd
      /\ \A j \in Procs : j # i => Same(j)
      /\ proc'[i].pc = "open" => cmd.op = "activate"
      /\ w.file = lic /\ cmd.op = "activate" => Promise(i, "ok")
      /\ w.file # lic \/ cmd.op = "deactivate" => held' \subseteq held
  BY AfterFlush
<1>2. cmd \in Commands /\ cmd.product \in Products /\ held \subseteq Products
  BY <1>1, HeadInFiles, CommandFacts DEF StoreInv, TypeOK
<1>3. CASE \A p \in Products : file'[LicFile(p)] = file[LicFile(p)] /\ ~Writing(i, p)
  <2>1. held' \subseteq held
    <3>1. CASE w.file # lic \/ cmd.op = "deactivate"
      BY <1>1, <3>1
    <3>2. CASE w.file = lic /\ cmd.op # "deactivate"
      <4>1. cmd.op = "activate"
        BY <1>1, <1>2, <3>2, LicenceWriter
      <4>2. proc[i].fd = "orphan"
        BY <1>1, <1>2, <1>3, <3>2, <4>1 DEF Writing, StoreInv, TypeOK, Processes
      <4>3. Rival(i, "deactivate") /\ Promise(i, "ok")
        BY <1>1, <3>2, <4>1, <4>2 DEF HeldInv, OrphansKnow
      <4> QED
        BY <4>3, PromiseFacts
    <3> QED
      BY <3>1, <3>2
  <2>2. \A p \in held' : ~Writing(i, p)
    BY <1>2, <1>3, <2>1
  <2> QED
    BY <1>1, <1>3, <2>1, <2>2, HeldQuiet
<1>4. CASE proc[i].fd = "open" /\ w.file = lic
  <2> DEFINE Q == {cmd.product}
  <2>1. /\ \A p \in Products : LicFile(p) # lic => file'[LicFile(p)] = file[LicFile(p)]
        /\ file'[lic] = written
    <3>1. lic \in Files /\ file' = [file EXCEPT ![lic] = written]
      BY <1>1, <1>4
    <3> QED
      BY <3>1, OtherLicences
  <2>2. \A p \in Products : p # cmd.product => file'[LicFile(p)] = file[LicFile(p)]
    BY <2>1, FileFacts
  <2>3. Fits(cmd.product, file[lic].size) /\ file[lic] \in AllContents
        /\ file[lic].size \in Nat /\ w.contents.size \in Nat
    BY <1>1, <1>2, <1>4 DEF HeldInv, LicencesFit, StoreInv, TypeOK, AllContents
  <2>4. \A p : Writing(i, p) => p = cmd.product
    BY DEF Writing
  <2>5. CASE cmd.op = "deactivate"
    <3>1. cmd.product \notin held /\ held' \subseteq held
      BY <1>1, <1>2, <1>4, <2>5, LicenceWriter
    <3>2. Fits(cmd.product, w.contents.size)
      BY <1>1, <2>5 DEF HeldInv, WipesFit
    <3>3. Fits(cmd.product, written.size)
      BY <1>4, <2>3, <3>2 DEF Overlay, Torn, Contents
    <3>4. /\ Q \in SUBSET Products /\ held' \ Q \subseteq held
          /\ \A p \in Products \ Q : file'[LicFile(p)] = file[LicFile(p)]
          /\ \A p \in held' \ Q : ~Writing(i, p)
          /\ \A q \in Q : Fits(q, file'[LicFile(q)].size) /\ q \notin held'
      BY <1>2, <2>1, <2>2, <2>4, <3>1, <3>3
    <3> HIDE DEF Q
    <3> QED
      BY <1>1, <1>2, <2>5, <3>4, HeldFrame
  <2>6. CASE cmd.op # "deactivate"
    <3>1. cmd.op = "activate"
      BY <1>1, <1>2, <1>4, <2>6, LicenceWriter
    <3>2. w.contents = LicenceBlob(OldSecret, cmd) /\ w.contents.size = SizeOf[cmd.token]
          /\ cmd.token \in Tokens /\ ProductOf[cmd.token] = cmd.product
      <4>1. w.contents = LicenceBlob(OldSecret, cmd)
        BY <1>1, <1>2, <3>1, OldWrite
      <4>2. LicenceBlob(OldSecret, cmd).size = SizeOf[cmd.token]
        BY DEF LicenceBlob, Sealed, Contents
      <4> QED
        BY <1>1, <1>2, <3>1, <4>1, <4>2, CommandFacts
    <3>3. written = LicenceBlob(OldSecret, cmd)
      BY <1>4, <2>3, <3>2 DEF Overlay, Fits
    <3>4. Fits(cmd.product, written.size)
      BY <3>2, <3>3, TokenAssumption DEF Fits, OneSize
    <3>5. ASSUME NEW q \in Q
          PROVE  Verifiable(q)'
      <4>1. file'[LicFile(q)] = LicenceBlob(OldSecret, cmd) /\ q = cmd.product
        BY <2>1, <3>3
      <4>2. LicenceBlob(OldSecret, cmd) # Absent /\ Secret(OldSecret) # Absent
        BY <1>2, <3>1, ContentsFacts, AbsentAssumption DEF Secrets
      <4>3. Readable(file'[SecretFile]) /\ file'[SecretFile].of[2] = OldSecret
        BY <4>2 DEF SecretInv, Readable, Secret, Contents
      <4>4. Unseals(OldSecret, <<"license", q>>, LicenceBlob(OldSecret, cmd))
        BY <4>1 DEF Unseals, LicenceBlob, Sealed, Contents
      <4> QED
        BY <4>1, <4>2, <4>3, <4>4 DEF Verifiable
    <3>6. held' \subseteq held \cup Q
      BY <1>1, <1>4, <3>1, PromiseFacts
    <3>7. /\ Q \in SUBSET Products /\ held' \ Q \subseteq held
          /\ \A p \in Products \ Q : file'[LicFile(p)] = file[LicFile(p)]
          /\ \A p \in held' \ Q : ~Writing(i, p)
          /\ \A q \in Q : Fits(q, file'[LicFile(q)].size)
      BY <1>2, <2>1, <2>2, <2>4, <3>4, <3>6
    <3> HIDE DEF Q
    <3> QED
      BY <1>1, <1>2, <3>1, <3>5, <3>7, HeldFrame
  <2> QED
    BY <2>5, <2>6
<1>5. CASE proc[i].fd = "open" /\ w.file # lic
  <2>1. \A p \in Products : LicFile(p) # w.file
    BY <1>1, <1>5, LicenceWriter
  <2>2. \A p \in Products : file'[LicFile(p)] = file[LicFile(p)]
    BY <1>1, <1>5, <2>1, OtherLicences
  <2> QED
    BY <1>3, <2>1, <2>2 DEF Writing
<1>6. CASE proc[i].fd # "open"
  BY <1>1, <1>3, <1>6 DEF Writing
<1> QED
  BY <1>4, <1>5, <1>6

\* The secret and the licences stay in order on an account that has its machine
\* secret and a disk with room.
LEMMA HeldInvariant ==
    ASSUME OldSecret # Absent, "short write" \notin FaultKinds, OneSize
    PROVE  Spec => []SecretInv /\ []HeldInv
<1>1. Init => SecretInv /\ HeldInv
  <2> SUFFICES ASSUME Init
               PROVE  SecretInv /\ HeldInv
    OBVIOUS
  <2>1. SecretInv
    BY FileFacts DEF Init, Idle, SecretInv
  <2>2. LicencesFit
    BY FileFacts DEF Init, LicencesFit
  <2>3. WipesFit /\ OrphansKnow /\ HeldKept
    BY DEF Init, Idle, WipesFit, OrphansKnow, HeldKept
  <2> QED
    BY <2>1, <2>2, <2>3 DEF HeldInv
<1>2. StoreInv /\ SecretInv /\ HeldInv /\ [Next]_vars => SecretInv' /\ HeldInv'
  <2> SUFFICES ASSUME StoreInv, SecretInv, HeldInv, [Next]_vars
               PROVE  SecretInv' /\ HeldInv'
    OBVIOUS
  <2>1. SecretInv'
    BY SecretStays
  <2>2. ASSUME NEW i \in Procs, Flush(i, TRUE)
        PROVE  FALSE
    BY <2>2 DEF Flush
  <2>3. ASSUME NEW i \in Procs, Step(i)
        PROVE  HeldInv'
    <3>1. CASE Find(i) \/ Read(i) \/ Size(i) \/ ReadSecret(i)
      BY <2>1, <3>1, HeldByQuietSteps
    <3>2. CASE Open(i)
      BY <2>1, <3>2, HeldByOpen
    <3>3. CASE Flush(i, FALSE)
      BY <2>1, <3>3, HeldByFlush
    <3>4. CASE Remove(i)
      BY <2>1, <3>4, HeldByRemove
    <3> QED
      BY <2>3, <3>1, <3>2, <3>3, <3>4, OldKeyFound DEF Step
  <2>4. CASE UNCHANGED vars
    <3>1. file' = file /\ proc' = proc /\ held' = held
      BY <2>4 DEF vars, promises
    <3>2. LicencesFit' /\ WipesFit'
      BY <3>1 DEF HeldInv, LicencesFit, WipesFit, Fits
    <3>3. OrphansKnow'
      BY <3>1 DEF HeldInv, OrphansKnow, Rival
    <3>4. HeldKept'
      BY <3>1 DEF HeldInv, HeldKept, Verifiable, Writing
    <3> QED
      BY <2>1, <3>2, <3>3, <3>4 DEF HeldInv
  <2>5. HeldInv'
    BY <2>1, <2>2, <2>3, <2>4, HeldByQuietSteps DEF Next
  <2> QED
    BY <2>1, <2>5
<1> QED
  BY <1>1, <1>2, StoreInvariant, PTL DEF Spec

\* An activation that was reported successful, with no deactivate since,
\* verifies: on every account that has its machine secret and a disk with
\* room, however many processes run and are killed, as long as the tokens of a
\* product seal to one size.
THEOREM PromisedLicencesVerify ==
    ASSUME OldSecret # Absent, "short write" \notin FaultKinds, OneSize
    PROVE  Spec => []HeldLicenceVerifies
<1>1. HeldInv => HeldLicenceVerifies
  BY DEF HeldInv, HeldKept, Writing, HeldLicenceVerifies
<1> QED
  BY <1>1, HeldInvariant, PTL

-----------------------------------------------------------------------------
(* An account that one process uses at a time, from its very first command. *)

Alone == \A i, j \in Procs : i = j

\* What the process is about to make it has found to be missing: a secret, or a
\* device key for the request that it read none for.
Missed(i) ==
    /\ proc[i].pc \in {"open", "write"} /\ Head(proc[i].todo).file = SecretFile =>
          ~Readable(file[SecretFile])
    /\ /\ proc[i].pc \in {"key", "open", "write"}
       /\ proc[i].cmd.op = "generate-request" /\ proc[i].blob = Absent
       => ~IsSealed(file[DevkeyFile(proc[i].cmd.product)])
    /\ /\ proc[i].pc \in {"open", "write"}
       /\ \E q \in Products : Head(proc[i].todo).file = DevkeyFile(q)
       => proc[i].blob = Absent

AloneInv == \A i \in Procs : Missed(i)

\* Only generate-request writes a device key, and its own.
LEMMA DevkeyWriter ==
    ASSUME StoreInv, NEW i \in Procs, proc[i].pc \in {"open", "write"}, NEW q \in Products,
           Head(proc[i].todo).file = DevkeyFile(q)
    PROVE  proc[i].cmd.op = "generate-request" /\ proc[i].cmd.product = q
<1>1. ToWrite(i, proc[i].cmd, Secrets, proc[i].todo)
  BY HeadInFiles
<1>2. ASSUME NEW cmd, NEW todo, ToWrite(i, cmd, Secrets, todo), Head(todo).file = DevkeyFile(q)
      PROVE  cmd.op = "generate-request" /\ cmd.product = q
  <2>1. \A f, c : Head(<<Write(f, c)>>).file = f
    BY DEF Write
  <2>2. \A f, c, w : Head(<<Write(f, c), w>>).file = f
    BY DEF Write
  <2>3. \A p : /\ DevkeyFile(q) \notin {SecretFile, LicFile(p), SealedFile(p)}
               /\ DevkeyFile(p) = DevkeyFile(q) => p = q
    BY DEF DevkeyFile, SecretFile, LicFile, SealedFile
  <2>4. CASE todo = <<Write(SecretFile, Secret(i))>>
    BY <1>2, <2>1, <2>3, <2>4
  <2>5. CASE \E w \in {todo[1]} : Wipe(cmd, w) /\ todo = <<w>>
    <3>1. PICK w : w = Write(LicFile(cmd.product), Torn(w.contents.size)) /\ todo = <<w>>
      BY <2>5 DEF Wipe
    <3>2. Head(todo).file = LicFile(cmd.product)
      BY <2>1, <3>1
    <3> QED
      BY <1>2, <2>3, <3>2
  <2>6. CASE /\ cmd.op = "generate-request"
             /\ \E s \in Secrets : todo = <<Write(DevkeyFile(cmd.product), DevkeyBlob(s, i, cmd))>>
    BY <1>2, <2>1, <2>3, <2>6
  <2>7. CASE \E s \in Secrets : todo = <<Write(LicFile(cmd.product), LicenceBlob(s, cmd))>>
    BY <1>2, <2>1, <2>3, <2>7
  <2>8. CASE \E s \in Secrets :
                 todo = <<Write(SealedFile(cmd.product), LicenceBlob(s, cmd)),
                          Write(LicFile(cmd.product), LicenceBlob(s, cmd))>>
    BY <1>2, <2>2, <2>3, <2>8
  <2> QED
    BY <1>2, <2>4, <2>5, <2>6, <2>7, <2>8 DEF ToWrite
<1> QED
  BY <1>1, <1>2

\* The second of two writes is the licence.
LEMMA SecondWrite ==
    ASSUME NEW i, NEW cmd, NEW todo, ToWrite(i, cmd, Secrets, todo), Tail(todo) # <<>>
    PROVE  Head(Tail(todo)).file = LicFile(cmd.product)
<1>1. \A w : Tail(<<w>>) = <<>>
  OBVIOUS
<1>2. ASSUME NEW s, todo = <<Write(SealedFile(cmd.product), LicenceBlob(s, cmd)),
                            Write(LicFile(cmd.product), LicenceBlob(s, cmd))>>
      PROVE  Head(Tail(todo)).file = LicFile(cmd.product)
  <2>1. \A v, w : Head(Tail(<<v, w>>)) = w
    OBVIOUS
  <2>2. Head(Tail(todo)) = Write(LicFile(cmd.product), LicenceBlob(s, cmd))
    BY <1>2, <2>1
  <2> QED
    BY <2>2 DEF Write
<1> QED
  BY <1>1, <1>2 DEF ToWrite

\* With its key in hand a command writes no secret, and a device key only if it
\* has read none.
LEMMA WithKeyMissed ==
    ASSUME StoreInv, NEW i \in Procs, NEW s, WithKey(i, s), NEW d, d = DevkeyFile(proc[i].cmd.product),
           proc[i].cmd.op = "generate-request" /\ proc[i].blob = Absent => ~IsSealed(file'[d])
    PROVE  Missed(i)'
<1> DEFINE cmd == proc[i].cmd
<1>1. proc[i] \in Processes
  BY DEF StoreInv, TypeOK
<1>2. CASE proc[i].blob # Absent
  <2>1. \E result : Finish(i, result)
    BY <1>2 DEF WithKey
  <2>2. proc'[i].pc = "idle"
    BY <2>1, FinishedFacts
  <2> QED
    BY <2>2 DEF Missed
<1>3. CASE proc[i].blob = Absent
  <2> DEFINE label == Label(cmd)
             blob == Sealed(s, label, cmd.token, SizeOf[cmd.token])
             todo == IF cmd.op = "activate"
                     THEN <<Write(SealedFile(cmd.product), blob), Write(LicFile(cmd.product), blob)>>
                     ELSE <<Write(DevkeyFile(cmd.product), Sealed(s, label, i, DevkeySize))>>
  <2>1. proc' = [proc EXCEPT ![i].pc = "open", ![i].todo = todo, ![i].fd = "none"]
    BY <1>3 DEF WithKey
  <2>3. Head(todo).file \in {SealedFile(cmd.product), DevkeyFile(cmd.product)}
    BY DEF Write
  <2> HIDE DEF todo
  <2>2. /\ proc'[i].pc = "open" /\ proc'[i].todo = todo /\ proc'[i].cmd = cmd
        /\ proc'[i].blob = Absent
    BY <1>1, <1>3, <2>1 DEF Processes, StoreInv, TypeOK
  <2>4. Head(todo).file # SecretFile
    BY <2>3, FileFacts
  <2> QED
    BY <1>3, <2>2, <2>4 DEF Missed
<1> QED
  BY <1>2, <1>3

\* A write replaces no secret that can be read, and no sealed device key.
LEMMA AloneWrites ==
    ASSUME StoreInv, NEW i \in Procs, Missed(i), proc[i].pc \in {"open", "write"},
           \/ file' = file
           \/ \E c : file' = [file EXCEPT ![Head(proc[i].todo).file] = c]
    PROVE  /\ Readable(file[SecretFile]) => file'[SecretFile] = file[SecretFile]
           /\ \A p \in Products : IsSealed(file[DevkeyFile(p)]) =>
                 file'[DevkeyFile(p)] = file[DevkeyFile(p)]
<1> DEFINE w == Head(proc[i].todo)
<1>1. \A f \in Files : f # w.file => file'[f] = file[f]
  BY DEF StoreInv, TypeOK
<1>2. w.file = SecretFile => ~Readable(file[SecretFile])
  BY DEF Missed
<1>3. ASSUME NEW p \in Products, w.file = DevkeyFile(p)
      PROVE  ~IsSealed(file[DevkeyFile(p)])
  BY <1>3, DevkeyWriter DEF Missed
<1> HIDE DEF w
<1> QED
  BY <1>1, <1>2, <1>3, FileFacts

\* Every step of the only process leaves what it is about to make missing, and
\* the secret and the device keys that are there as they are.
LEMMA AloneSteps ==
    ASSUME StoreInv, AloneInv, Alone, NEW i \in Procs,
           \/ \E cmd \in Commands : Start(i, cmd)
           \/ Step(i) \/ Flush(i, TRUE) \/ Crash(i)
    PROVE  /\ Missed(i)'
           /\ Readable(file[SecretFile]) => file'[SecretFile] = file[SecretFile]
           /\ \A p \in Products : IsSealed(file[DevkeyFile(p)]) =>
                 file'[DevkeyFile(p)] = file[DevkeyFile(p)]
<1> DEFINE cmd == proc[i].cmd
           w == Head(proc[i].todo)
           Kept == /\ Readable(file[SecretFile]) => file'[SecretFile] = file[SecretFile]
                   /\ \A p \in Products : IsSealed(file[DevkeyFile(p)]) =>
                         file'[DevkeyFile(p)] = file[DevkeyFile(p)]
<1>1. /\ proc[i] \in Processes /\ WellPlaced(i, proc[i]) /\ Missed(i)
      /\ proc[i].pc # "idle" => cmd \in Commands /\ cmd.product \in Products
  BY BusyFacts DEF StoreInv, TypeOK, AllPlaced, AloneInv, Busy
<1>2. file' = file => Kept
  OBVIOUS
<1>3. ASSUME NEW result, Finish(i, result)
      PROVE  Missed(i)'
  BY <1>3, FinishedFacts DEF Missed
<1>4. CASE \E c \in Commands : Start(i, c)
  <2>1. PICK c \in Commands : Start(i, c)
    BY <1>4
  <2>2. /\ proc'[i].pc \in {"key", "find"} /\ proc'[i].cmd = c /\ file' = file
        /\ proc'[i].pc = "key" => c.op = "activate"
    BY <2>1 DEF Start, Idle
  <2> QED
    BY <1>2, <2>2 DEF Missed
<1>5. CASE Find(i)
  <2>1. file' = file /\ proc[i].pc = "find"
    BY <1>5 DEF Find
  <2>2. CASE \E result : Finish(i, result)
    BY <1>2, <1>3, <2>1, <2>2
  <2>3. CASE ~ \E result : Finish(i, result)
    <3>1. PICK pc \in {"read", "key", "size"} : proc' = [proc EXCEPT ![i].pc = pc]
      BY <1>5, <2>3, FindSteps
    <3>2. proc'[i].pc = pc /\ proc'[i].cmd = cmd
      BY <1>1, <3>1 DEF Processes, StoreInv, TypeOK
    <3>3. pc = "key" /\ cmd.op = "generate-request" => file[DevkeyFile(cmd.product)] = Absent
      <4> SUFFICES ASSUME pc = "key", cmd.op = "generate-request"
                   PROVE  file[DevkeyFile(cmd.product)] = Absent
        OBVIOUS
      <4> DEFINE next == IF file[DevkeyFile(cmd.product)] # Absent THEN "read" ELSE "key"
      <4>1. proc' = [proc EXCEPT ![i].pc = next]
        BY <1>5 DEF Find, Goto, Sought
      <4> HIDE DEF next
      <4>2. next = "key"
        BY <1>1, <3>2, <4>1 DEF Processes, StoreInv, TypeOK
      <4> QED
        BY <4>2 DEF next
    <3> QED
      BY <1>2, <2>1, <3>2, <3>3 DEF Missed, IsSealed
  <2> QED
    BY <2>2, <2>3
<1>6. CASE Read(i)
  <2>1. file' = file
    BY <1>6 DEF Read
  <2>2. CASE Finish(i, "failed")
    BY <1>2, <1>3, <2>1, <2>2
  <2>3. CASE ~Finish(i, "failed")
    <3>1. proc'[i].pc = "key" /\ proc'[i].blob # Absent
      BY <1>1, <1>6, <2>3 DEF Read, Processes, StoreInv, TypeOK
    <3> QED
      BY <1>2, <2>1, <3>1 DEF Missed
  <2> QED
    BY <2>2, <2>3
<1>7. CASE Size(i)
  <2>1. file' = file /\ cmd.op = "deactivate"
    BY <1>1, <1>7 DEF Size, WellPlaced
  <2>2. CASE Finish(i, "failed")
    BY <1>2, <1>3, <2>1, <2>2
  <2>3. CASE ~Finish(i, "failed")
    <3> DEFINE lic == LicFile(cmd.product)
               todo == <<Write(lic, Torn(file[lic].size))>>
    <3>1. proc' = [proc EXCEPT ![i].pc = "open", ![i].todo = todo]
      BY <1>7, <2>3 DEF Size
    <3>2. Head(todo).file = lic
      BY DEF Write
    <3> HIDE DEF todo
    <3>3. proc'[i].todo = todo /\ proc'[i].cmd = cmd
      BY <1>1, <3>1 DEF Processes, StoreInv, TypeOK
    <3>4. lic # SecretFile /\ \A q : lic # DevkeyFile(q)
      BY FileFacts
    <3> QED
      BY <1>2, <2>1, <3>2, <3>3, <3>4 DEF Missed
  <2> QED
    BY <2>2, <2>3
<1>8. CASE ReadSecret(i)
  <2>1. file' = file /\ proc[i].pc = "key"
    BY <1>8 DEF ReadSecret
  <2>2. CASE Finish(i, "failed")
    BY <1>2, <1>3, <2>1, <2>2
  <2>3. CASE WithKey(i, file[SecretFile].of[2])
    BY <1>1, <1>2, <2>1, <2>3, WithKeyMissed DEF Missed
  <2> QED
    BY <1>8, <2>2, <2>3 DEF ReadSecret
<1>9. CASE MakeSecret(i)
  <2> DEFINE todo == <<Write(SecretFile, Secret(i))>>
  <2>1. /\ file' = file /\ proc[i].pc = "key" /\ file[SecretFile] = Absent
        /\ proc' = [proc EXCEPT ![i].pc = "open", ![i].todo = todo]
    BY <1>9 DEF MakeSecret
  <2>2. Head(todo).file = SecretFile
    BY DEF Write
  <2> HIDE DEF todo
  <2>3. proc'[i].todo = todo /\ proc'[i].cmd = cmd /\ proc'[i].blob = proc[i].blob
    BY <1>1, <2>1 DEF Processes, StoreInv, TypeOK
  <2>4. \A q : SecretFile # DevkeyFile(q)
    BY FileFacts
  <2> QED
    BY <1>1, <1>2, <2>1, <2>2, <2>3, <2>4 DEF Missed, Readable
<1>10. CASE Open(i)
  <2>1. /\ proc[i].pc = "open" /\ file' = [file EXCEPT ![w.file] = Empty]
        /\ proc' = [proc EXCEPT ![i].pc = "write", ![i].fd = "open"]
    BY <1>10 DEF Open
  <2>2. /\ proc'[i].pc = "write" /\ proc'[i].cmd = cmd /\ proc'[i].todo = proc[i].todo
        /\ proc'[i].blob = proc[i].blob
    BY <1>1, <2>1 DEF Processes, StoreInv, TypeOK
  <2>3. w.file \in Files
    BY <2>1, HeadInFiles
  <2>4. /\ file'[w.file] = Empty /\ \A f \in Files : f # w.file => file'[f] = file[f]
    BY <2>1, <2>3 DEF StoreInv, TypeOK
  <2>5. ~IsSealed(Empty) /\ ~Readable(Empty)
    BY DEF IsSealed, Readable, Empty, Contents
  <2>9. \E c : file' = [file EXCEPT ![w.file] = c]
    BY <2>1
  <2>6. Kept
    <3>1. proc[i].pc \in {"open", "write"}
      BY <2>1
    <3> QED
      BY <1>1, <2>9, <3>1, AloneWrites
  <2> HIDE DEF w
  <2>7. w = Head(proc'[i].todo)
    BY <2>2 DEF w
  <2>8. DevkeyFile(cmd.product) \in Files
    BY <1>1, <2>1, FileFacts
  <2> QED
    <3>1. w.file = SecretFile => ~Readable(file'[SecretFile])
      BY <2>4, <2>5
    <3>2. cmd.op = "generate-request" /\ proc[i].blob = Absent
          => ~IsSealed(file'[DevkeyFile(cmd.product)])
      BY <1>1, <2>1, <2>4, <2>5, <2>8 DEF Missed
    <3>3. \A q \in Products : w.file = DevkeyFile(q) => proc[i].blob = Absent
      BY <1>1, <2>1, <2>2, <2>7 DEF Missed
    <3> QED
      BY <2>2, <2>6, <2>7, <3>1, <3>2, <3>3 DEF Missed
<1>11. CASE \E short \in BOOLEAN : Flush(i, short)
  <2> DEFINE rest == Tail(proc[i].todo)
  <2>1. PICK short \in BOOLEAN : Flush(i, short)
    BY <1>11
  <2>2. /\ proc[i].pc = "write" /\ w.file \in Files
        /\ file' = file \/ \E c : file' = [file EXCEPT ![w.file] = c]
    BY <2>1, HeadInFiles DEF Flush
  <2>3. Kept
    <3>1. proc[i].pc \in {"open", "write"}
      BY <2>2
    <3> QED
      BY <1>1, <2>2, <3>1, AloneWrites
  <2>4. Missed(i)'
    <3>1. CASE w.file = SecretFile
      <4>1. WithKey(i, i)
        BY <2>1, <3>1 DEF Flush
      <4>2. file'[DevkeyFile(cmd.product)] = file[DevkeyFile(cmd.product)]
        BY <1>1, <2>2, <3>1, FileFacts DEF StoreInv, TypeOK
      <4> QED
        BY <1>1, <2>2, <4>1, <4>2, WithKeyMissed DEF Missed
    <3>2. CASE w.file # SecretFile /\ rest # <<>>
      <4>1. proc' = [proc EXCEPT ![i].pc = "open", ![i].todo = rest, ![i].fd = "none"]
        BY <2>1, <3>2 DEF Flush
      <4>2. /\ cmd.op = "activate" /\ ToWrite(i, cmd, Secrets, rest)
        BY <2>2, <3>2, NextWrite
      <4>3. rest \in Todos
        BY <2>2, NextWrite
      <4> HIDE DEF rest
      <4>4. proc'[i].cmd = cmd /\ proc'[i].todo = rest /\ proc'[i].pc = "open"
        BY <1>1, <4>1 DEF Processes, StoreInv, TypeOK
      <4>5. ToWrite(i, cmd, Secrets, proc[i].todo)
        BY <2>2, HeadInFiles
      <4>6. Head(rest).file = LicFile(cmd.product)
        BY <3>2, <4>5, SecondWrite DEF rest
      <4>7. /\ LicFile(cmd.product) # SecretFile
            /\ \A q : LicFile(cmd.product) # DevkeyFile(q)
        BY FileFacts
      <4> QED
        BY <4>2, <4>4, <4>6, <4>7 DEF Missed
    <3>3. CASE w.file # SecretFile /\ rest = <<>> /\ cmd.op = "deactivate"
      <4>1. proc' = [proc EXCEPT ![i].pc = "remove", ![i].todo = rest, ![i].fd = "none"]
        BY <2>1, <3>3 DEF Flush
      <4>2. proc'[i].pc = "remove"
        BY <1>1, <4>1 DEF Processes, StoreInv, TypeOK
      <4> QED
        BY <4>2 DEF Missed
    <3>4. CASE w.file # SecretFile /\ rest = <<>> /\ cmd.op # "deactivate"
      <4>1. Finish(i, "ok")
        BY <2>1, <3>4 DEF Flush
      <4> QED
        BY <1>3, <4>1
    <3> QED
      BY <3>1, <3>2, <3>3, <3>4
  <2> QED
    BY <2>3, <2>4
<1>12. CASE Remove(i)
  <2>1. proc'[i].pc = "idle" /\ proc[i].pc = "remove"
        /\ file' = [file EXCEPT ![LicFile(cmd.product)] = Absent]
    BY <1>1, <1>12 DEF Remove, Finished, Processes
  <2>2. LicFile(cmd.product) # SecretFile /\ \A q : LicFile(cmd.product) # DevkeyFile(q)
    BY FileFacts
  <2>3. Kept
    BY <2>1, <2>2, FileFacts DEF StoreInv, TypeOK
  <2> QED
    BY <2>1, <2>3 DEF Missed
<1>13. CASE Crash(i)
  BY <1>2, <1>3, <1>13 DEF Crash
<1> QED
  BY <1>4, <1>5, <1>6, <1>7, <1>8, <1>9, <1>10, <1>11, <1>12, <1>13 DEF Step

LEMMA AloneInvariant ==
    ASSUME Alone
    PROVE  Spec => []AloneInv
<1>1. Init => AloneInv
  BY DEF Init, Idle, AloneInv, Missed
<1>2. StoreInv /\ AloneInv /\ [Next]_vars => AloneInv'
  <2> SUFFICES ASSUME StoreInv, AloneInv, [Next]_vars, NEW j \in Procs
               PROVE  Missed(j)'
    BY DEF AloneInv
  <2>1. CASE Next
    <3>1. PICK i \in Procs : \/ \E cmd \in Commands : Start(i, cmd)
                             \/ Step(i) \/ Flush(i, TRUE) \/ Crash(i)
      BY <2>1 DEF Next
    <3>2. Missed(i)'
      BY <3>1, AloneSteps
    <3>3. i = j
      BY DEF Alone
    <3> QED
      BY <3>2, <3>3
  <2>2. CASE UNCHANGED vars
    BY <2>2 DEF vars, AloneInv, Missed
  <2> QED
    BY <2>1, <2>2
<1> QED
  BY <1>1, <1>2, StoreInvariant, PTL DEF Spec

\* While one process at a time uses the account nothing that it has come to
\* depend on is replaced: the machine secret that its first command makes, and
\* the device key that a request named, stay through crashes at any point and
\* writes that a full disk cuts short (tpm_software.cpp:82-97 and 151-171).
THEOREM OneProcessKeepsItsKeys ==
    ASSUME Alone
    PROVE  Spec => SecretPersists /\ DeviceKeyPersists
<1> DEFINE SecretStays1 == Readable(file[SecretFile]) => file'[SecretFile] = file[SecretFile]
           DevkeysStay == \A p \in Products :
                              LET old == file[DevkeyFile(p)]
                              IN  old # Absent /\ old.of[1] = "sealed" =>
                                      file'[DevkeyFile(p)] = old
<1>1. StoreInv /\ AloneInv /\ [Next]_vars => [SecretStays1]_vars /\ [DevkeysStay]_vars
  <2> SUFFICES ASSUME StoreInv, AloneInv, Next
               PROVE  SecretStays1 /\ DevkeysStay
    OBVIOUS
  <2>1. PICK i \in Procs : \/ \E cmd \in Commands : Start(i, cmd)
                           \/ Step(i) \/ Flush(i, TRUE) \/ Crash(i)
    BY DEF Next
  <2> QED
    BY <2>1, AloneSteps DEF IsSealed
<1> QED
  BY <1>1, StoreInvariant, AloneInvariant, PTL DEF Spec, SecretPersists, DeviceKeyPersists

-----------------------------------------------------------------------------
(* What an activation promised on an account of one process, from its very *)
(* first command and whatever sizes its tokens have.                       *)

\* Nobody removes what the process writes, and it writes into an empty file.
OwnEmpty(i) ==
    proc[i].pc = "write" =>
        proc[i].fd = "open" /\ file[Head(proc[i].todo).file] = Empty

\* What it is to write of a licence is sealed under the secret that stands.
Keyed(i, s, cmd, todo) == ToWrite(i, cmd, {s}, todo)
UnderKey(i) ==
    /\ proc[i].pc \in {"open", "write"} /\ proc[i].cmd.op = "activate"
    /\ Head(proc[i].todo).file # SecretFile
    => /\ Readable(file[SecretFile])
       /\ Keyed(i, file[SecretFile].of[2], proc[i].cmd, proc[i].todo)

PromiseInv == HeldKept /\ \A i \in Procs : OwnEmpty(i) /\ UnderKey(i)

\* A promise is kept by a secret that can be read.
LEMMA PromisedUnderKey ==
    ASSUME PromiseInv, NEW p \in held
    PROVE  Readable(file[SecretFile])
<1>1. CASE Verifiable(p)
  BY <1>1 DEF Verifiable
<1>2. CASE \E i \in Procs : Writing(i, p)
  BY <1>2, FileFacts DEF Writing, PromiseInv, UnderKey
<1> QED
  BY <1>1, <1>2 DEF PromiseInv, HeldKept

\* An activate that has its key writes its licence, first as the provider's
\* sealed file unless that is written already.
LEMMA KeyedWrite ==
    ASSUME NEW i, NEW s, NEW cmd, NEW todo, cmd.op = "activate",
           Head(todo).file # SecretFile, Keyed(i, s, cmd, todo)
    PROVE  /\ Head(todo).contents = LicenceBlob(s, cmd)
           /\ Tail(todo) = <<>> => Head(todo).file = LicFile(cmd.product)
           /\ Tail(todo) # <<>> =>
                 /\ Head(todo).file = SealedFile(cmd.product)
                 /\ Tail(todo) = <<Write(LicFile(cmd.product), LicenceBlob(s, cmd))>>
<1> DEFINE lic == Write(LicFile(cmd.product), LicenceBlob(s, cmd))
           sealed == Write(SealedFile(cmd.product), LicenceBlob(s, cmd))
<1>1. \A v : Head(<<v>>) = v /\ Tail(<<v>>) = <<>>
  OBVIOUS
<1>2. \A v, w : Head(<<v, w>>) = v /\ Tail(<<v, w>>) = <<w>>
  OBVIOUS
<1>3. /\ lic.file = LicFile(cmd.product) /\ lic.contents = LicenceBlob(s, cmd)
      /\ sealed.file = SealedFile(cmd.product) /\ sealed.contents = LicenceBlob(s, cmd)
      /\ Write(SecretFile, Secret(i)).file = SecretFile
  BY DEF Write
<1> HIDE DEF lic, sealed
<1>4. todo = <<lic>> \/ todo = <<sealed, lic>>
  BY <1>1, <1>3 DEF Keyed, ToWrite, lic, sealed
<1>5. <<lic>> # <<>>
  OBVIOUS
<1>6. CASE todo = <<lic>>
  BY <1>1, <1>3, <1>6
<1>7. CASE todo = <<sealed, lic>>
  BY <1>2, <1>3, <1>5, <1>7 DEF lic
<1> QED
  BY <1>4, <1>6, <1>7

\* A new secret is written alone.
LEMMA SecretWrite ==
    ASSUME StoreInv, NEW i \in Procs, proc[i].pc \in {"open", "write"},
           Head(proc[i].todo).file = SecretFile
    PROVE  Head(proc[i].todo).contents = Secret(i)
<1>1. ToWrite(i, proc[i].cmd, Secrets, proc[i].todo)
  BY HeadInFiles
<1>2. ASSUME NEW cmd, NEW todo, ToWrite(i, cmd, Secrets, todo), Head(todo).file = SecretFile
      PROVE  Head(todo).contents = Secret(i)
  <2>1. \A f, c : Head(<<Write(f, c)>>).file = f /\ Head(<<Write(f, c)>>).contents = c
    BY DEF Write
  <2>2. \A f, c, w : Head(<<Write(f, c), w>>).file = f
    BY DEF Write
  <2>3. \A p : SecretFile \notin {DevkeyFile(p), LicFile(p), SealedFile(p)}
    BY FileFacts
  <2>4. CASE todo = <<Write(SecretFile, Secret(i))>>
    BY <2>1, <2>4
  <2>5. CASE \E w \in {todo[1]} : Wipe(cmd, w) /\ todo = <<w>>
    <3>1. PICK w : w = Write(LicFile(cmd.product), Torn(w.contents.size)) /\ todo = <<w>>
      BY <2>5 DEF Wipe
    <3>2. Head(todo).file = LicFile(cmd.product)
      BY <2>1, <3>1
    <3> QED
      BY <1>2, <2>3, <3>2
  <2>6. CASE \E s \in Secrets : todo = <<Write(DevkeyFile(cmd.product), DevkeyBlob(s, i, cmd))>>
    BY <1>2, <2>1, <2>3, <2>6
  <2>7. CASE \E s \in Secrets : todo = <<Write(LicFile(cmd.product), LicenceBlob(s, cmd))>>
    BY <1>2, <2>1, <2>3, <2>7
  <2>8. CASE \E s \in Secrets :
                 todo = <<Write(SealedFile(cmd.product), LicenceBlob(s, cmd)),
                          Write(LicFile(cmd.product), LicenceBlob(s, cmd))>>
    BY <1>2, <2>2, <2>3, <2>8
  <2> QED
    BY <1>2, <2>4, <2>5, <2>6, <2>7, <2>8 DEF ToWrite
<1> QED
  BY <1>1, <1>2


\* A step after which nothing is being written and no licence has changed.
LEMMA PromiseRests ==
    ASSUME PromiseInv, NEW i \in Procs, Alone, held' \subseteq held,
           Readable(file[SecretFile]) => file'[SecretFile] = file[SecretFile],
           held \subseteq Products,
           \A p \in held' : file'[LicFile(p)] = file[LicFile(p)] /\ ~Writing(i, p)
    PROVE  HeldKept'
<1> SUFFICES ASSUME NEW p \in held'
             PROVE  Verifiable(p)'
  BY DEF HeldKept
<1>1. p \in held /\ file'[LicFile(p)] = file[LicFile(p)]
  OBVIOUS
<1>2. Verifiable(p)
  BY <1>1 DEF PromiseInv, HeldKept, Alone
<1> QED
  BY <1>1, <1>2 DEF Verifiable

\* Any step of the only process keeps its promises.
LEMMA PromiseSteps ==
    ASSUME StoreInv, AloneInv, Alone, PromiseInv, NEW i \in Procs,
           \/ \E cmd \in Commands : Start(i, cmd)
           \/ Step(i) \/ Crash(i)
    PROVE  HeldKept' /\ OwnEmpty(i)' /\ UnderKey(i)'
<1> DEFINE cmd == proc[i].cmd
           w == Head(proc[i].todo)
           s == file[SecretFile].of[2]
<1>1. /\ proc[i] \in Processes /\ WellPlaced(i, proc[i]) /\ OwnEmpty(i) /\ UnderKey(i)
      /\ proc[i].pc # "idle" => cmd \in Commands /\ cmd.product \in Products /\ cmd.op \in Ops
      /\ held \subseteq Products
      /\ Readable(file[SecretFile]) => file'[SecretFile] = file[SecretFile]
  BY BusyFacts, AloneSteps DEF StoreInv, TypeOK, AllPlaced, PromiseInv, Busy
<1>2. ASSUME file' = file, held' \subseteq held, \A p \in held' : ~Writing(i, p)
      PROVE  HeldKept'
  BY <1>1, <1>2, PromiseRests
<1>3. proc'[i].pc \notin {"open", "write"} => OwnEmpty(i)' /\ UnderKey(i)'
  BY DEF OwnEmpty, UnderKey
<1>4. proc[i].pc # "write" => \A p : ~Writing(i, p)
  BY DEF Writing
<1>5. ASSUME NEW result, Finish(i, result), file' = file,
             cmd.op # "activate" \/ result # "ok", proc[i].pc # "write"
      PROVE  HeldKept' /\ OwnEmpty(i)' /\ UnderKey(i)'
  <2>1. proc'[i].pc = "idle" /\ held' \subseteq held
    BY <1>5, FinishedFacts, QuietPromise
  <2> QED
    BY <1>2, <1>3, <1>4, <1>5, <2>1
<1>6. CASE \E c \in Commands : Start(i, c)
  <2>1. PICK c \in Commands : Start(i, c)
    BY <1>6
  <2>2. /\ proc'[i].pc \in {"key", "find"} /\ file' = file /\ held' \subseteq held
        /\ proc[i].pc = "idle"
    BY <2>1 DEF Start, Idle
  <2> QED
    BY <1>2, <1>3, <1>4, <2>2
<1>7. CASE Find(i)
  <2>1. file' = file /\ proc[i].pc = "find" /\ cmd.op # "activate"
    BY <1>1, <1>7 DEF Find, WellPlaced
  <2>2. CASE \E result : Finish(i, result)
    BY <1>5, <2>1, <2>2
  <2>3. CASE ~ \E result : Finish(i, result)
    <3>1. PICK pc \in {"read", "key", "size"} : proc' = [proc EXCEPT ![i].pc = pc]
      BY <1>7, <2>3, FindSteps
    <3>2. proc'[i].pc = pc
      BY <1>1, <3>1 DEF Processes, StoreInv, TypeOK
    <3>3. held' = held
      BY <1>1, <1>7, <2>1, <2>3 DEF Find, Ops, promises
    <3> QED
      BY <1>2, <1>3, <1>4, <2>1, <3>2, <3>3
  <2> QED
    BY <2>2, <2>3
<1>8. CASE Read(i)
  <2>1. file' = file /\ proc[i].pc = "read"
    BY <1>8 DEF Read
  <2>2. CASE Finish(i, "failed")
    BY <1>5, <2>1, <2>2
  <2>3. CASE ~Finish(i, "failed")
    <3>1. proc'[i].pc = "key" /\ held' = held
      BY <1>1, <1>8, <2>3 DEF Read, promises, Processes, StoreInv, TypeOK
    <3> QED
      BY <1>2, <1>3, <1>4, <2>1, <3>1
  <2> QED
    BY <2>2, <2>3
<1>9. CASE Size(i)
  <2>1. file' = file /\ proc[i].pc = "size" /\ cmd.op = "deactivate"
    BY <1>1, <1>9 DEF Size, WellPlaced
  <2>2. CASE Finish(i, "failed")
    BY <1>5, <2>1, <2>2
  <2>3. CASE ~Finish(i, "failed")
    <3>1. proc'[i].pc = "open" /\ proc'[i].cmd = cmd /\ held' = held
      BY <1>1, <1>9, <2>3 DEF Size, promises, Processes, StoreInv, TypeOK
    <3>2. OwnEmpty(i)' /\ UnderKey(i)'
      BY <2>1, <3>1 DEF OwnEmpty, UnderKey
    <3> QED
      BY <1>2, <1>4, <2>1, <3>1, <3>2
  <2> QED
    BY <2>2, <2>3
<1>10. CASE ReadSecret(i)
  <2>1. file' = file /\ proc[i].pc = "key"
    BY <1>10 DEF ReadSecret
  <2>2. CASE Finish(i, "failed")
    BY <1>5, <2>1, <2>2
  <2>3. CASE Readable(file[SecretFile]) /\ WithKey(i, s)
    <3>1. /\ proc'[i].pc \in {"idle", "open"} /\ proc'[i].cmd = cmd /\ held' = held
          /\ proc'[i].pc = "open" => Keyed(i, s, cmd, proc'[i].todo)
      BY <2>1, <2>3, WithOneKey DEF Keyed
    <3>2. OwnEmpty(i)' /\ UnderKey(i)'
      BY <2>1, <2>3, <3>1 DEF OwnEmpty, UnderKey
    <3> QED
      BY <1>2, <1>4, <2>1, <3>1, <3>2
  <2> QED
    BY <1>10, <2>2, <2>3 DEF ReadSecret
<1>11. CASE MakeSecret(i)
  <2> DEFINE todo == <<Write(SecretFile, Secret(i))>>
  <2>1. /\ file' = file /\ proc[i].pc = "key" /\ held' = held
        /\ proc' = [proc EXCEPT ![i].pc = "open", ![i].todo = todo]
    BY <1>11 DEF MakeSecret, promises
  <2>2. Head(todo).file = SecretFile
    BY DEF Write
  <2> HIDE DEF todo
  <2>3. proc'[i].todo = todo /\ proc'[i].pc = "open"
    BY <1>1, <2>1 DEF Processes, StoreInv, TypeOK
  <2>4. OwnEmpty(i)' /\ UnderKey(i)'
    BY <2>2, <2>3 DEF OwnEmpty, UnderKey
  <2> QED
    BY <1>2, <1>4, <2>1, <2>4
<1>12. CASE Crash(i)
  <2>1. Finish(i, "crashed") /\ file' = file
    BY <1>12 DEF Crash
  <2>2. /\ held' \subseteq held /\ proc'[i].pc = "idle"
        /\ cmd.op = "activate" => cmd.product \notin held'
    BY <2>1, FinishedFacts, QuietPromise
  <2>3. \A p \in held' : ~Writing(i, p)
    BY <2>2 DEF Writing
  <2> QED
    BY <1>2, <1>3, <2>1, <2>2, <2>3
<1>13. CASE Open(i)
  <2>1. /\ proc[i].pc = "open" /\ file' = [file EXCEPT ![w.file] = Empty] /\ held' = held
        /\ proc' = [proc EXCEPT ![i].pc = "write", ![i].fd = "open"]
    BY <1>13 DEF Open, promises
  <2>2. /\ proc'[i].pc = "write" /\ proc'[i].fd = "open" /\ proc'[i].cmd = cmd
        /\ proc'[i].todo = proc[i].todo
    BY <1>1, <2>1 DEF Processes, StoreInv, TypeOK
  <2>3. w.file \in Files
    BY <2>1, HeadInFiles
  <2>4. /\ file'[w.file] = Empty /\ \A f \in Files : f # w.file => file'[f] = file[f]
    BY <2>1, <2>3 DEF StoreInv, TypeOK
  <2>5. OwnEmpty(i)'
    BY <2>2, <2>4 DEF OwnEmpty
  <2>6. UnderKey(i)'
    BY <1>1, <2>1, <2>2 DEF UnderKey
  <2>7. ASSUME NEW p \in held'
        PROVE  Verifiable(p)' \/ Writing(i, p)'
    <3>1. p \in held /\ p \in Products /\ LicFile(p) \in Files
      BY <1>1, <2>1, <2>7, FileFacts
    <3>2. CASE LicFile(p) = w.file
      <4>1. cmd.op = "activate" /\ cmd.product = p
        BY <2>1, <3>1, <3>2, LicenceWriter
      <4> QED
        BY <2>2, <3>2, <4>1 DEF Writing
    <3>3. CASE LicFile(p) # w.file
      <4>1. Verifiable(p)
        BY <1>4, <2>1, <3>1 DEF PromiseInv, HeldKept, Alone
      <4> QED
        BY <1>1, <2>4, <3>1, <3>3, <4>1 DEF Verifiable
    <3> QED
      BY <3>2, <3>3
  <2> QED
    BY <2>5, <2>6, <2>7 DEF HeldKept
<1>14. CASE Remove(i)
  <2> DEFINE lic == LicFile(cmd.product)
  <2>1. /\ proc[i].pc = "remove" /\ file' = [file EXCEPT ![lic] = Absent] /\ Promise(i, "ok")
        /\ cmd.op = "deactivate" /\ cmd.product \in Products /\ cmd.product \notin held
    BY <1>1, <1>14 DEF Remove, WellPlaced, StoreInv, HeldUndisturbed, Busy
  <2>2. held' \subseteq held
    BY <2>1, PromiseFacts
  <2>3. proc'[i].pc = "idle"
    BY <1>1, <1>14 DEF Remove, Finished, Processes
  <2>4. \A p \in held' : file'[LicFile(p)] = file[LicFile(p)]
    BY <1>1, <2>1, <2>2, FileFacts DEF StoreInv, TypeOK
  <2> QED
    BY <1>1, <1>3, <1>4, <2>1, <2>2, <2>3, <2>4, PromiseRests
<1>15. CASE Flush(i, FALSE)
  <2> DEFINE rest == Tail(proc[i].todo)
  <2>1. /\ proc[i].pc = "write" /\ proc[i].fd = "open" /\ file[w.file] = Empty
        /\ file' = [file EXCEPT ![w.file] = Overlay(Empty, w.contents)]
    BY <1>1, <1>15 DEF Flush, OwnEmpty
  <2>2. w.file \in Files /\ w.contents \in AllContents
    BY <2>1, NextWrite
  <2>3. Overlay(Empty, w.contents) = w.contents
    BY <2>2 DEF Overlay, Empty, Contents, AllContents
  <2>4. /\ file'[w.file] = w.contents
        /\ \A f \in Files : f # w.file => file'[f] = file[f]
    BY <2>1, <2>2, <2>3 DEF StoreInv, TypeOK
  <2>5. CASE w.file = SecretFile
    <3>1. WithKey(i, i) /\ cmd.op # "deactivate"
      BY <1>15, <2>1, <2>5, NextWrite DEF Flush
    <3>2. /\ proc'[i].pc \in {"idle", "open"} /\ proc'[i].cmd = cmd /\ held' = held
          /\ proc'[i].pc = "open" => Keyed(i, i, cmd, proc'[i].todo)
      BY <2>1, <3>1, WithOneKey DEF Keyed
    <3>3. file'[SecretFile] = Secret(i)
      BY <2>1, <2>4, <2>5, SecretWrite
    <3>4. Secret(i) # Absent /\ Readable(Secret(i)) /\ Secret(i).of[2] = i
      <4>1. Secret(i) \in AllContents
        BY ContentsFacts DEF Secrets
      <4> QED
        BY <4>1, AbsentAssumption DEF Readable, Secret, Contents
    <3>5. ~Readable(file[SecretFile])
      BY <2>1, <2>5 DEF Readable, Empty, Contents
    <3>6. held' = {}
      BY <3>2, <3>5, PromisedUnderKey
    <3> QED
      BY <3>2, <3>3, <3>4, <3>6 DEF HeldKept, OwnEmpty, UnderKey
  <2>6. CASE w.file # SecretFile /\ rest # <<>>
    <3>1. /\ proc' = [proc EXCEPT ![i].pc = "open", ![i].todo = rest, ![i].fd = "none"]
          /\ held' = held
      BY <1>15, <2>6 DEF Flush, promises
    <3>2. cmd.op = "activate"
      BY <2>1, <2>6, NextWrite
    <3>3. Readable(file[SecretFile]) /\ Keyed(i, s, cmd, proc[i].todo)
      BY <1>1, <2>1, <2>6, <3>2 DEF UnderKey
    <3>4. /\ w.file = SealedFile(cmd.product)
          /\ rest = <<Write(LicFile(cmd.product), LicenceBlob(s, cmd))>>
      BY <2>6, <3>2, <3>3, KeyedWrite
    <3>5. Keyed(i, s, cmd, rest)
      BY <3>2, <3>4 DEF Keyed, ToWrite
    <3> HIDE DEF rest
    <3>6. proc'[i].pc = "open" /\ proc'[i].cmd = cmd /\ proc'[i].todo = rest
      BY <1>1, <3>1 DEF Processes, StoreInv, TypeOK
    <3>7. OwnEmpty(i)' /\ UnderKey(i)'
      BY <1>1, <3>3, <3>5, <3>6 DEF OwnEmpty, UnderKey
    <3>8. \A p \in held' : file'[LicFile(p)] = file[LicFile(p)] /\ ~Writing(i, p)
      BY <1>1, <2>4, <3>1, <3>4, FileFacts DEF Writing
    <3> QED
      BY <1>1, <3>1, <3>7, <3>8, PromiseRests
  <2>7. CASE w.file # SecretFile /\ rest = <<>> /\ cmd.op = "deactivate"
    <3>1. /\ proc' = [proc EXCEPT ![i].pc = "remove", ![i].todo = rest, ![i].fd = "none"]
          /\ held' = held
      BY <1>15, <2>7 DEF Flush, promises
    <3>2. proc'[i].pc = "remove"
      BY <1>1, <3>1 DEF Processes, StoreInv, TypeOK
    <3>3. \A p \in held : w.file # LicFile(p)
      BY <1>1, <2>1, <2>7, LicenceWriter
    <3>4. \A p \in held' : file'[LicFile(p)] = file[LicFile(p)] /\ ~Writing(i, p)
      BY <1>1, <2>4, <2>7, <3>1, <3>3, FileFacts DEF Writing
    <3> QED
      BY <1>1, <1>3, <3>1, <3>2, <3>4, PromiseRests
  <2>8. CASE w.file # SecretFile /\ rest = <<>> /\ cmd.op # "deactivate"
    <3>1. Finish(i, "ok")
      BY <1>15, <2>8 DEF Flush
    <3>2. proc'[i].pc = "idle"
      BY <3>1, FinishedFacts
    <3>3. CASE cmd.op # "activate"
      <4>1. held' \subseteq held
        BY <3>1, <3>3, QuietPromise
      <4>2. \A p \in Products : w.file # LicFile(p)
        BY <2>1, <2>8, <3>3, LicenceWriter
      <4>3. \A p \in held' : file'[LicFile(p)] = file[LicFile(p)] /\ ~Writing(i, p)
        BY <1>1, <2>4, <3>3, <4>1, <4>2, FileFacts DEF Writing
      <4> QED
        BY <1>1, <1>3, <3>2, <4>1, <4>3, PromiseRests
    <3>4. CASE cmd.op = "activate"
      <4>1. Readable(file[SecretFile]) /\ Keyed(i, s, cmd, proc[i].todo)
        BY <1>1, <2>1, <2>8, <3>4 DEF UnderKey
      <4>2. w.file = LicFile(cmd.product) /\ w.contents = LicenceBlob(s, cmd)
        BY <2>8, <3>4, <4>1, KeyedWrite
      <4>3. held' \subseteq held \cup {cmd.product}
        BY <3>1, PromiseFacts DEF Finish
      <4>4. file'[SecretFile] = file[SecretFile]
        BY <1>1, <4>1
      <4>5. ASSUME NEW p \in held', p = cmd.product
            PROVE  Verifiable(p)'
        <5>1. file'[LicFile(p)] = LicenceBlob(s, cmd)
          BY <2>4, <4>2, <4>5
        <5>2. LicenceBlob(s, cmd) # Absent
          BY <2>2, <4>2, AbsentAssumption
        <5>3. Unseals(s, <<"license", p>>, LicenceBlob(s, cmd))
          BY <4>5 DEF Unseals, LicenceBlob, Sealed, Contents
        <5> QED
          BY <4>1, <4>4, <5>1, <5>2, <5>3 DEF Verifiable
      <4>6. ASSUME NEW p \in held', p # cmd.product
            PROVE  Verifiable(p)'
        <5>1. p \in held /\ p \in Products /\ LicFile(p) \in Files /\ LicFile(p) # w.file
          BY <1>1, <4>2, <4>3, <4>6, FileFacts
        <5>2. ~Writing(i, p)
          BY <4>6 DEF Writing
        <5>3. Verifiable(p)
          BY <5>1, <5>2 DEF PromiseInv, HeldKept, Alone
        <5>4. file'[LicFile(p)] = file[LicFile(p)]
          BY <2>4, <5>1
        <5> QED
          BY <4>4, <5>3, <5>4 DEF Verifiable
      <4>7. HeldKept'
        BY <4>5, <4>6 DEF HeldKept
      <4> QED
        BY <1>3, <3>2, <4>7
    <3> QED
      BY <3>3, <3>4
  <2> QED
    BY <2>5, <2>6, <2>7, <2>8
<1> QED
  BY <1>6, <1>7, <1>8, <1>9, <1>10, <1>11, <1>12, <1>13, <1>14, <1>15 DEF Step

\* An account that one process at a time uses keeps what its activations
\* promised, whether or not it had a machine secret before, wherever commands
\* are killed, and also when a renewed token seals to another size; only the
\* disk must have room (license_client.cpp:184-192).
THEOREM OneProcessKeepsItsPromises ==
    ASSUME Alone, "short write" \notin FaultKinds
    PROVE  Spec => []HeldLicenceVerifies
<1>1. Init => PromiseInv
  <2> SUFFICES ASSUME Init
               PROVE  PromiseInv
    OBVIOUS
  <2>1. held = {} /\ \A i \in Procs : proc[i].pc = "idle"
    BY DEF Init, Idle
  <2> QED
    BY <2>1 DEF PromiseInv, HeldKept, OwnEmpty, UnderKey
<1>2. StoreInv /\ AloneInv /\ PromiseInv /\ [Next]_vars => PromiseInv'
  <2> SUFFICES ASSUME StoreInv, AloneInv, PromiseInv, [Next]_vars
               PROVE  PromiseInv'
    OBVIOUS
  <2>1. CASE Next
    <3>1. PICK i \in Procs : \/ \E cmd \in Commands : Start(i, cmd)
                             \/ Step(i) \/ Flush(i, TRUE) \/ Crash(i)
      BY <2>1 DEF Next
    <3>2. ~Flush(i, TRUE)
      BY DEF Flush
    <3>3. HeldKept' /\ OwnEmpty(i)' /\ UnderKey(i)'
      BY <3>1, <3>2, PromiseSteps
    <3>4. \A j \in Procs : j = i
      BY DEF Alone
    <3> QED
      BY <3>3, <3>4 DEF PromiseInv
  <2>2. CASE UNCHANGED vars
    BY <2>2 DEF vars, promises, PromiseInv, HeldKept, Verifiable, Writing, OwnEmpty, UnderKey
  <2> QED
    BY <2>1, <2>2
<1>3. PromiseInv => HeldLicenceVerifies
  BY DEF PromiseInv, HeldKept, Writing, HeldLicenceVerifies
<1> QED
  BY <1>1, <1>2, <1>3, StoreInvariant, AloneInvariant, PTL DEF Spec

-----------------------------------------------------------------------------
(* Commands end.  What can be said of that without fairness: every step of *)
(* a command brings it nearer to its end, nothing that others do brings it *)
(* back, and an activate has no end but success where the secret is there. *)

\* How many steps a process is from the end of its command, at most: the file
\* that is written comes after the secret, the licence after its copy, and
\* fs::remove after the wipe.
Behind(r) ==
    IF Head(r.todo).file = SecretFile THEN 4
    ELSE IF Tail(r.todo) # <<>> THEN 2
    ELSE IF r.cmd.op = "deactivate" THEN 1 ELSE 0
StepsLeft(r) ==
    CASE r.pc = "idle"   -> 0
      [] r.pc = "find"   -> 9
      [] r.pc = "read"   -> 8
      [] r.pc = "key"    -> 7
      [] r.pc = "size"   -> 4
      [] r.pc = "open"   -> 2 + Behind(r)
      [] r.pc = "write"  -> 1 + Behind(r)
      [] r.pc = "remove" -> 1

\* A step of a process is one nearer to the end of its command, whether the
\* write was short or the process is killed; no step of another takes it back.
RunsDown ==
    \A i \in Procs : Busy(i) =>
        /\ StepsLeft(proc[i]) \in 1..9 /\ StepsLeft(proc'[i]) <= StepsLeft(proc[i])
        /\ Step(i) \/ Flush(i, TRUE) \/ Crash(i) => StepsLeft(proc'[i]) < StepsLeft(proc[i])

\* What StepsLeft and Behind can be, and where they are found.
LEMMA StepsCounted ==
    ASSUME NEW r, r.pc \in Pcs
    PROVE  /\ Behind(r) \in 0..4
           /\ r.pc = "idle" => StepsLeft(r) = 0
           /\ r.pc # "idle" => StepsLeft(r) \in 1..9
           /\ r.pc = "open" => StepsLeft(r) = 2 + Behind(r)
           /\ r.pc = "write" => StepsLeft(r) = 1 + Behind(r)
<1>1. Behind(r) \in 0..4
  BY DEF Behind
<1> QED
  BY <1>1 DEF StepsLeft, Pcs

\* They depend on the place, the command and the writes to come only.
LEMMA SameSteps ==
    ASSUME NEW r, NEW q, r.pc = q.pc, r.cmd = q.cmd, r.todo = q.todo
    PROVE  StepsLeft(r) = StepsLeft(q)
<1>1. Behind(r) = Behind(q)
  BY DEF Behind
<1> QED
  BY <1>1 DEF StepsLeft

\* Behind the first of two writes there is one more, and no secret.
LEMMA LastWrite ==
    ASSUME NEW i, NEW cmd, NEW todo, ToWrite(i, cmd, Secrets, todo), Tail(todo) # <<>>
    PROVE  Head(Tail(todo)).file = LicFile(cmd.product) /\ Tail(Tail(todo)) = <<>>
           /\ Head(todo).file = SealedFile(cmd.product) /\ cmd.op = "activate"
<1>1. \A w : Tail(<<w>>) = <<>>
  OBVIOUS
<1>2. \A v, w : Tail(<<v, w>>) = <<w>> /\ Head(<<v, w>>) = v /\ Head(<<w>>) = w
  OBVIOUS
<1>3. PICK s \in Secrets : /\ cmd.op = "activate"
                           /\ todo = <<Write(SealedFile(cmd.product), LicenceBlob(s, cmd)),
                                       Write(LicFile(cmd.product), LicenceBlob(s, cmd))>>
  BY <1>1 DEF ToWrite
<1>4. PICK v, w : /\ v = Write(SealedFile(cmd.product), LicenceBlob(s, cmd))
                  /\ w = Write(LicFile(cmd.product), LicenceBlob(s, cmd)) /\ todo = <<v, w>>
  BY <1>3
<1>5. v.file = SealedFile(cmd.product) /\ w.file = LicFile(cmd.product)
  BY <1>4 DEF Write
<1> QED
  BY <1>1, <1>2, <1>3, <1>4, <1>5

\* With its key in hand a command is at most four steps from its end.
LEMMA FourSteps ==
    ASSUME StoreInv, NEW i \in Procs, NEW s, WithKey(i, s), proc[i].cmd.op # "deactivate"
    PROVE  /\ StepsLeft(proc'[i]) \in 0..4
           /\ \A j \in Procs : j # i => proc'[j] = proc[j]
<1> DEFINE cmd == proc[i].cmd
<1>1. proc[i] \in Processes /\ proc \in [Procs -> Processes]
  BY DEF StoreInv, TypeOK
<1>2. CASE proc[i].blob # Absent
  <2>1. \E result : Finish(i, result)
    BY <1>2 DEF WithKey
  <2>2. proc'[i].pc = "idle" /\ \A j \in Procs : j # i => proc'[j] = proc[j]
    BY <2>1, FinishedFacts
  <2> QED
    BY <2>2, StepsCounted DEF Pcs
<1>3. CASE proc[i].blob = Absent
  <2> DEFINE label == Label(cmd)
             blob == Sealed(s, label, cmd.token, SizeOf[cmd.token])
             todo == IF cmd.op = "activate"
                     THEN <<Write(SealedFile(cmd.product), blob), Write(LicFile(cmd.product), blob)>>
                     ELSE <<Write(DevkeyFile(cmd.product), Sealed(s, label, i, DevkeySize))>>
  <2>1. proc' = [proc EXCEPT ![i].pc = "open", ![i].todo = todo, ![i].fd = "none"]
    BY <1>3 DEF WithKey
  <2>2. Head(todo).file \in {SealedFile(cmd.product), DevkeyFile(cmd.product)}
    BY DEF Write
  <2> HIDE DEF todo
  <2>3. /\ proc'[i].pc = "open" /\ proc'[i].todo = todo /\ proc'[i].cmd = cmd
        /\ \A j \in Procs : j # i => proc'[j] = proc[j]
    BY <1>1, <2>1 DEF Processes
  <2>4. Head(todo).file # SecretFile
    BY <2>2, FileFacts
  <2>5. Behind(proc'[i]) \in 0..2
    BY <2>3, <2>4 DEF Behind
  <2> QED
    BY <2>3, <2>5, StepsCounted DEF Pcs
<1> QED
  BY <1>2, <1>3

\* The end of a command.
LEMMA NoStepLeft ==
    ASSUME StoreInv, NEW i \in Procs, NEW result, Finish(i, result)
    PROVE  /\ StepsLeft(proc'[i]) = 0
           /\ \A j \in Procs : j # i => proc'[j] = proc[j]
BY FinishedFacts, StepsCounted DEF Pcs

\* Another place, without a change of what is to be written.
LEMMA NextPlace ==
    ASSUME StoreInv, NEW i \in Procs, NEW pc \in Pcs, proc' = [proc EXCEPT ![i].pc = pc]
    PROVE  /\ proc'[i].pc = pc
           /\ \A j \in Procs : j # i => proc'[j] = proc[j]
BY DEF StoreInv, TypeOK, Processes

\* A write, whole or short, is a step nearer to the end as well.
LEMMA FlushRunsDown ==
    ASSUME StoreInv, NEW i \in Procs, NEW short \in BOOLEAN, Flush(i, short)
    PROVE  /\ StepsLeft(proc'[i]) < StepsLeft(proc[i])
           /\ \A j \in Procs : j # i => proc'[j] = proc[j]
<1> DEFINE cmd == proc[i].cmd
           w == Head(proc[i].todo)
           rest == Tail(proc[i].todo)
<1>1. /\ proc[i].pc = "write" /\ proc[i] \in Processes /\ proc \in [Procs -> Processes]
      /\ ToWrite(i, cmd, Secrets, proc[i].todo)
      /\ w.file = SecretFile => cmd.op # "deactivate"
  BY HeadInFiles, NextWrite DEF Flush, StoreInv, TypeOK
<1>2. Behind(proc[i]) \in 0..4 /\ StepsLeft(proc[i]) = 1 + Behind(proc[i])
  BY <1>1, StepsCounted DEF Pcs
<1>3. CASE w.file = SecretFile
  <2>1. WithKey(i, i)
    BY <1>3 DEF Flush
  <2>2. Behind(proc[i]) = 4
    BY <1>3 DEF Behind
  <2> QED
    BY <1>1, <1>2, <1>3, <2>1, <2>2, FourSteps
<1>4. CASE w.file # SecretFile /\ rest # <<>>
  <2>1. proc' = [proc EXCEPT ![i].pc = "open", ![i].todo = rest, ![i].fd = "none"]
    BY <1>4 DEF Flush
  <2>2. /\ proc'[i].pc = "open" /\ proc'[i].todo = rest /\ proc'[i].cmd = cmd
        /\ \A j \in Procs : j # i => proc'[j] = proc[j]
    BY <1>1, <2>1 DEF Processes
  <2>3. /\ Head(rest).file = LicFile(cmd.product) /\ Tail(rest) = <<>> /\ cmd.op = "activate"
    BY <1>1, <1>4, LastWrite
  <2>4. Behind(proc'[i]) = 0 /\ Behind(proc[i]) = 2
    BY <1>4, <2>2, <2>3, FileFacts DEF Behind
  <2> QED
    BY <1>2, <2>2, <2>4, StepsCounted DEF Pcs
<1>5. CASE w.file # SecretFile /\ rest = <<>> /\ cmd.op = "deactivate"
  <2>1. proc' = [proc EXCEPT ![i].pc = "remove", ![i].todo = rest, ![i].fd = "none"]
    BY <1>5 DEF Flush
  <2>2. proc'[i].pc = "remove" /\ \A j \in Procs : j # i => proc'[j] = proc[j]
    BY <1>1, <2>1 DEF Processes
  <2>3. Behind(proc[i]) = 1 /\ StepsLeft(proc'[i]) = 1
    BY <1>5, <2>2 DEF Behind, StepsLeft
  <2> QED
    BY <1>2, <2>2, <2>3
<1>6. CASE w.file # SecretFile /\ rest = <<>> /\ cmd.op # "deactivate"
  <2>1. Finish(i, "ok")
    BY <1>6 DEF Flush
  <2> QED
    BY <1>2, <2>1, NoStepLeft
<1> QED
  BY <1>3, <1>4, <1>5, <1>6

\* A process that moves comes nearer to its end, and moves no other back.
LEMMA OneStepLess ==
    ASSUME StoreInv, NEW i \in Procs, Step(i) \/ Flush(i, TRUE) \/ Crash(i)
    PROVE  /\ StepsLeft(proc'[i]) < StepsLeft(proc[i])
           /\ \A j \in Procs : j # i => StepsLeft(proc'[j]) = StepsLeft(proc[j])
<1> DEFINE cmd == proc[i].cmd
           Less == StepsLeft(proc'[i]) < StepsLeft(proc[i])
           Others == \A j \in Procs : j # i => proc'[j] = proc[j]
<1>1. /\ Busy(i) /\ proc[i] \in Processes /\ proc \in [Procs -> Processes]
      /\ WellPlaced(i, proc[i])
  BY DEF StoreInv, TypeOK, AllPlaced, Step, Find, Read, Size, ReadSecret, MakeSecret, Open,
         Flush, Remove, Crash, Busy
<1>2. StepsLeft(proc[i]) \in 1..9
  BY <1>1, StepsCounted DEF Busy, Processes
<1>3. ASSUME NEW result, Finish(i, result)
      PROVE  Less /\ Others
  BY <1>2, <1>3, NoStepLeft
<1>4. ASSUME Find(i) PROVE Less /\ Others
  <2>1. StepsLeft(proc[i]) = 9
    BY <1>4 DEF Find, StepsLeft
  <2>2. ASSUME NEW pc \in {"read", "key", "size"}, proc' = [proc EXCEPT ![i].pc = pc]
        PROVE  Less /\ Others
    <3>1. proc'[i].pc = pc /\ Others
      BY <2>2, NextPlace DEF Pcs
    <3>2. StepsLeft(proc'[i]) \in {4, 7, 8}
      BY <3>1 DEF StepsLeft
    <3> QED
      BY <2>1, <3>1, <3>2
  <2> QED
    BY <1>3, <1>4, <2>2, FindSteps
<1>5. ASSUME Read(i) PROVE Less /\ Others
  <2>1. CASE Finish(i, "failed")
    BY <1>3, <2>1
  <2>2. CASE ~Finish(i, "failed")
    <3>1. proc'[i].pc = "key" /\ proc[i].pc = "read" /\ Others
      BY <1>1, <1>5, <2>2 DEF Read, Processes
    <3>2. StepsLeft(proc'[i]) = 7 /\ StepsLeft(proc[i]) = 8
      BY <3>1 DEF StepsLeft
    <3> QED
      BY <3>1, <3>2
  <2> QED
    BY <2>1, <2>2
<1>6. ASSUME Size(i) PROVE Less /\ Others
  <2>1. CASE Finish(i, "failed")
    BY <1>3, <2>1
  <2>2. CASE ~Finish(i, "failed")
    <3> DEFINE lic == LicFile(cmd.product)
               todo == <<Write(lic, Torn(file[lic].size))>>
    <3>1. proc' = [proc EXCEPT ![i].pc = "open", ![i].todo = todo]
      BY <1>6, <2>2 DEF Size
    <3>2. Head(todo).file = lic /\ Tail(todo) = <<>>
      BY DEF Write
    <3> HIDE DEF todo
    <3>3. proc'[i].pc = "open" /\ proc'[i].todo = todo /\ proc'[i].cmd = cmd /\ Others
      BY <1>1, <3>1 DEF Processes
    <3>4. cmd.op = "deactivate" /\ lic # SecretFile /\ proc[i].pc = "size"
      BY <1>1, <1>6, FileFacts DEF Size, WellPlaced
    <3>5. Behind(proc'[i]) = 1 /\ StepsLeft(proc[i]) = 4
      BY <3>2, <3>3, <3>4 DEF Behind, StepsLeft
    <3> QED
      BY <3>3, <3>5, StepsCounted DEF Pcs
  <2> QED
    BY <2>1, <2>2
<1>7. ASSUME ReadSecret(i) PROVE Less /\ Others
  <2>1. proc[i].pc = "key" /\ cmd.op # "deactivate" /\ StepsLeft(proc[i]) = 7
    BY <1>1, <1>7 DEF ReadSecret, WellPlaced, StepsLeft
  <2>2. CASE Readable(file[SecretFile])
    BY <1>7, <2>1, <2>2, FourSteps DEF ReadSecret
  <2>3. CASE ~Readable(file[SecretFile])
    BY <1>3, <1>7, <2>3 DEF ReadSecret
  <2> QED
    BY <2>2, <2>3
<1>8. ASSUME MakeSecret(i) PROVE Less /\ Others
  <2>1. proc' = [proc EXCEPT ![i].pc = "open", ![i].todo = <<Write(SecretFile, Secret(i))>>]
    BY <1>8 DEF MakeSecret
  <2>2. proc'[i].pc = "open" /\ Others
    BY <1>1, <2>1 DEF Processes
  <2>3. StepsLeft(proc[i]) = 7
    BY <1>8 DEF MakeSecret, StepsLeft
  <2>4. StepsLeft(proc'[i]) = 2 + Behind(proc'[i]) /\ Behind(proc'[i]) \in 0..4
    BY <2>2, StepsCounted DEF Pcs
  <2> QED
    BY <2>2, <2>3, <2>4
<1>9. ASSUME Open(i) PROVE Less /\ Others
  <2>1. /\ proc[i].pc = "open" /\ proc'[i].pc = "write" /\ Others
        /\ proc'[i].todo = proc[i].todo /\ proc'[i].cmd = cmd
    BY <1>1, <1>9 DEF Open, Processes
  <2>2. Behind(proc'[i]) = Behind(proc[i])
    BY <2>1 DEF Behind
  <2> QED
    BY <2>1, <2>2, StepsCounted DEF Pcs
<1>10. ASSUME Flush(i, FALSE) \/ Flush(i, TRUE) PROVE Less /\ Others
  BY <1>10, FlushRunsDown
<1>11. ASSUME Crash(i) PROVE Less /\ Others
  BY <1>3, <1>11 DEF Crash
<1>12. ASSUME Remove(i)
       PROVE  Less /\ \A j \in Procs : j # i => StepsLeft(proc'[j]) = StepsLeft(proc[j])
  <2>1. proc'[i].pc = "idle"
    BY <1>1, <1>12 DEF Remove, Finished, Processes
  <2>2. ASSUME NEW j \in Procs, j # i
        PROVE  proc'[j].pc = proc[j].pc /\ proc'[j].cmd = proc[j].cmd /\ proc'[j].todo = proc[j].todo
    BY <1>1, <1>12, <2>2 DEF Remove, Processes
  <2> QED
    BY <1>2, <2>1, <2>2, SameSteps, StepsCounted DEF Pcs
<1> QED
  BY <1>4, <1>5, <1>6, <1>7, <1>8, <1>9, <1>10, <1>11, <1>12 DEF Step

\* Every command has at most nine steps of its own to its end, and nothing that
\* other processes do to the same files takes it back: none starts over.  That
\* it can and does take them is ActivationCompletes, which TLC checks.
THEOREM CommandsRunDown == Spec => [][RunsDown]_vars
<1>1. StoreInv /\ StoreInv' /\ [Next]_vars => [RunsDown]_vars
  <2> SUFFICES ASSUME StoreInv, StoreInv', Next, NEW i \in Procs, Busy(i)
               PROVE  /\ StepsLeft(proc[i]) \in 1..9
                      /\ StepsLeft(proc'[i]) <= StepsLeft(proc[i])
                      /\ Step(i) \/ Flush(i, TRUE) \/ Crash(i)
                            => StepsLeft(proc'[i]) < StepsLeft(proc[i])
    BY DEF RunsDown
  <2> DEFINE before == StepsLeft(proc[i])
             after == StepsLeft(proc'[i])
             Moves(j) == Step(j) \/ Flush(j, TRUE) \/ Crash(j)
  <2>1. before \in 1..9 /\ after \in 0..9
    <3>1. proc[i].pc \in Pcs /\ proc'[i].pc \in Pcs
      BY DEF StoreInv, TypeOK, Processes
    <3> QED
      BY <3>1, StepsCounted DEF Busy
  <2>2. Moves(i) => after < before
    BY OneStepLess
  <2>3. ASSUME NEW j \in Procs, j # i, Moves(j)
        PROVE  after = before
    BY <2>3, OneStepLess
  <2>4. ASSUME NEW j \in Procs, NEW cmd \in Commands, Start(j, cmd)
        PROVE  after = before
    <3>1. j # i
      BY <2>4 DEF Start, Busy
    <3>2. proc'[i].pc = proc[i].pc /\ proc'[i].cmd = proc[i].cmd /\ proc'[i].todo = proc[i].todo
      <4>1. proc[i] \in Processes /\ proc'[i] = [proc[i] EXCEPT !.rivals = @ \cup {cmd}]
        BY <2>4, <3>1 DEF Start, Busy, StoreInv, TypeOK
      <4> QED
        BY <4>1 DEF Processes
    <3> QED
      BY <3>2, SameSteps
  <2>5. \E j \in Procs : Moves(j) \/ \E cmd \in Commands : Start(j, cmd)
    BY Zenon DEF Next
  <2> HIDE DEF before, after, Moves
  <2>6. Moves(i) \/ after = before
    BY <2>3, <2>4, <2>5, Zenon
  <2>7. after <= before /\ (Moves(i) => after < before)
    BY <2>1, <2>2, <2>6
  <2> QED
    BY <2>1, <2>7 DEF before, after, Moves
<1> QED
  BY <1>1, StoreInvariant, PTL DEF Spec

\* An activate that has ended, ended with success or was killed.
ActivationSucceeds ==
    \A i \in Procs : ~Busy(i) /\ proc[i].cmd # Absent /\ proc[i].cmd.op = "activate" =>
        proc[i].result \in {"ok", "crashed"}

\* Its answer is what Finish was given.
LEMMA FinishAnswers ==
    ASSUME StoreInv, NEW i \in Procs, NEW result, Finish(i, result)
    PROVE  proc'[i].result = result /\ proc'[i].cmd = proc[i].cmd
<1>1. proc[i] \in Processes /\ proc' = [proc EXCEPT ![i] = Finished(i, result)]
  BY DEF Finish, StoreInv, TypeOK
<1>2. Finished(i, result).result = result /\ Finished(i, result).cmd = proc[i].cmd
  BY <1>1 DEF Finished, Processes
<1> QED
  BY <1>1, <1>2 DEF StoreInv, TypeOK

\* A step leaves the other processes alone, unless it removes what they write.
LEMMA OthersStay ==
    ASSUME StoreInv, NEW i \in Procs, Step(i) \/ Flush(i, TRUE) \/ Crash(i), ~Remove(i),
           NEW j \in Procs, j # i
    PROVE  proc'[j] = proc[j]
<1>1. proc \in [Procs -> Processes]
  BY DEF StoreInv, TypeOK
<1>2. ASSUME NEW result, Finish(i, result)
      PROVE  proc'[j] = proc[j]
  BY <1>2, FinishedFacts
<1>3. ASSUME NEW s, WithKey(i, s)
      PROVE  proc'[j] = proc[j]
  BY <1>1, <1>2, <1>3 DEF WithKey
<1>4. Find(i) \/ Read(i) \/ Size(i) => proc'[j] = proc[j]
  BY <1>1, <1>2, FindSteps DEF Read, Size
<1>5. ReadSecret(i) \/ MakeSecret(i) \/ Open(i) \/ Crash(i) => proc'[j] = proc[j]
  BY <1>1, <1>2, <1>3 DEF ReadSecret, MakeSecret, Open, Crash
<1>6. Flush(i, FALSE) \/ Flush(i, TRUE) => proc'[j] = proc[j]
  BY FlushRunsDown
<1> QED
  BY <1>4, <1>5, <1>6 DEF Step

\* A process keeps its command until the next.
LEMMA OwnCommand ==
    ASSUME StoreInv, NEW i \in Procs, Step(i) \/ Flush(i, TRUE) \/ Crash(i)
    PROVE  proc'[i].cmd = proc[i].cmd
<1>1. proc \in [Procs -> Processes] /\ proc[i] \in Processes
  BY DEF StoreInv, TypeOK
<1>2. ASSUME NEW result, Finish(i, result)
      PROVE  proc'[i].cmd = proc[i].cmd
  BY <1>2, FinishedFacts
<1>3. ASSUME NEW s, WithKey(i, s)
      PROVE  proc'[i].cmd = proc[i].cmd
  BY <1>1, <1>2, <1>3 DEF WithKey, Processes
<1>4. Find(i) \/ Read(i) \/ Size(i) => proc'[i].cmd = proc[i].cmd
  BY <1>1, <1>2, FindSteps DEF Read, Size, Processes
<1>5. ReadSecret(i) \/ MakeSecret(i) \/ Open(i) \/ Crash(i) => proc'[i].cmd = proc[i].cmd
  BY <1>1, <1>2, <1>3 DEF ReadSecret, MakeSecret, Open, Crash, Processes
<1>6. ASSUME NEW short \in BOOLEAN, Flush(i, short)
      PROVE  proc'[i].cmd = proc[i].cmd
  <2>1. CASE Head(proc[i].todo).file = SecretFile
    BY <1>3, <1>6, <2>1 DEF Flush
  <2>2. CASE \E result : Finish(i, result)
    BY <1>2, <2>2
  <2> DEFINE rest == Tail(proc[i].todo)
             Goes(pc) == proc' = [proc EXCEPT ![i].pc = pc, ![i].todo = rest, ![i].fd = "none"]
  <2>3. ASSUME NEW pc, Goes(pc)
        PROVE  proc'[i].cmd = proc[i].cmd
    BY <1>1, <2>3 DEF Processes
  <2>4. \/ Head(proc[i].todo).file = SecretFile
        \/ Goes("open") \/ Goes("remove") \/ Finish(i, "ok")
    BY <1>6 DEF Flush
  <2> HIDE DEF Goes
  <2> QED
    BY <2>1, <2>2, <2>3, <2>4
<1>7. Remove(i) => proc'[i].cmd = proc[i].cmd
  <2>1. Finished(i, "ok").cmd = proc[i].cmd
    BY <1>1 DEF Finished, Processes
  <2>2. Remove(i) => proc'[i] = Finished(i, "ok")
    BY DEF Remove
  <2> QED
    BY <2>1, <2>2
<1> QED
  BY <1>4, <1>5, <1>6, <1>7 DEF Step

\* Where the secret is there, no step ends an activate but its last write.
LEMMA ActivateOnlyWrites ==
    ASSUME StoreInv, SecretInv, OldSecret # Absent, NEW i \in Procs,
           proc[i].cmd # Absent, proc[i].cmd.op = "activate",
           Step(i) \/ Flush(i, TRUE) \/ Crash(i)
    PROVE  Busy(i)' \/ proc'[i].result \in {"ok", "crashed"}
<1>1. /\ Busy(i) /\ proc[i] \in Processes /\ proc \in [Procs -> Processes]
      /\ WellPlaced(i, proc[i])
  BY DEF StoreInv, TypeOK, AllPlaced, Step, Find, Read, Size, ReadSecret, MakeSecret, Open,
         Flush, Remove, Crash, Busy
<1>2. /\ proc[i].pc \notin {"find", "read", "size", "remove"} /\ proc[i].blob = Absent
      /\ proc[i].cmd.op # "verify"
  BY <1>1 DEF WellPlaced
<1>3. CASE ReadSecret(i)
  <2>1. WithKey(i, OldSecret)
    BY <1>3, OldKeyFound
  <2>2. proc'[i].pc = "open"
    BY <1>1, <1>2, <2>1 DEF WithKey, Processes
  <2> QED
    BY <2>2 DEF Busy
<1>4. CASE MakeSecret(i)
  BY <1>4, OldKeyFound
<1>5. CASE Open(i)
  <2>1. proc'[i].pc = "write"
    BY <1>1, <1>5 DEF Open, Processes
  <2> QED
    BY <2>1 DEF Busy
<1>6. ASSUME NEW short \in BOOLEAN, Flush(i, short)
      PROVE  Busy(i)' \/ proc'[i].result \in {"ok", "crashed"}
  <2>1. Head(proc[i].todo).file # SecretFile
    BY <1>6, OldWrite DEF Flush
  <2>2. CASE Tail(proc[i].todo) # <<>>
    <3>1. proc' = [proc EXCEPT ![i].pc = "open", ![i].todo = Tail(proc[i].todo),
                               ![i].fd = "none"]
      BY <1>6, <2>1, <2>2 DEF Flush
    <3>2. proc'[i].pc = "open"
      BY <1>1, <3>1 DEF Processes
    <3> QED
      BY <3>2 DEF Busy
  <2>3. CASE Tail(proc[i].todo) = <<>>
    <3>1. Finish(i, "ok")
      BY <1>6, <2>1, <2>3 DEF Flush
    <3> QED
      BY <3>1, FinishAnswers
  <2> QED
    BY <2>2, <2>3
<1>7. CASE Crash(i)
  BY <1>7, FinishAnswers DEF Crash
<1> QED
  BY <1>2, <1>3, <1>4, <1>5, <1>6, <1>7 DEF Step, Find, Read, Size, Remove

\* Where the account has its machine secret, no activate ever reports failure,
\* however other commands interleave with it, die or fill the disk: with
\* CommandsRunDown, this is ActivationCompletes but for fairness.
THEOREM ActivationNeverFails ==
    ASSUME OldSecret # Absent
    PROVE  Spec => []ActivationSucceeds
<1>1. Init => SecretInv /\ ActivationSucceeds
  BY FileFacts DEF Init, Idle, SecretInv, ActivationSucceeds
<1>2. StoreInv /\ SecretInv /\ ActivationSucceeds /\ [Next]_vars => SecretInv' /\ ActivationSucceeds'
  <2> SUFFICES ASSUME StoreInv, SecretInv, ActivationSucceeds, [Next]_vars
               PROVE  ActivationSucceeds'
    BY SecretStays
  <2> SUFFICES ASSUME NEW i \in Procs, ~Busy(i)', proc'[i].cmd # Absent,
                      proc'[i].cmd.op = "activate"
               PROVE  proc'[i].result \in {"ok", "crashed"}
    BY DEF ActivationSucceeds
  <2> DEFINE Moves(j) == Step(j) \/ Flush(j, TRUE) \/ Crash(j)
             Stays == proc'[i].pc = proc[i].pc /\ proc'[i].cmd = proc[i].cmd
                         /\ proc'[i].result = proc[i].result
  <2>1. Stays => proc'[i].result \in {"ok", "crashed"}
    BY DEF ActivationSucceeds, Busy
  <2>2. CASE UNCHANGED vars
    BY <2>1, <2>2 DEF vars
  <2>3. ASSUME NEW j \in Procs, NEW cmd \in Commands, Start(j, cmd)
        PROVE  Stays
    <3>1. j # i
      BY <2>3 DEF Start, Busy, Idle
    <3>2. CASE Busy(i)
      <4>1. proc[i] \in Processes /\ proc'[i] = [proc[i] EXCEPT !.rivals = @ \cup {cmd}]
        BY <2>3, <3>1, <3>2 DEF Start, Busy, StoreInv, TypeOK
      <4> QED
        BY <4>1 DEF Processes
    <3>3. CASE ~Busy(i)
      BY <2>3, <3>1, <3>3 DEF Start, Busy
    <3> QED
      BY <3>2, <3>3
  <2>4. ASSUME NEW j \in Procs, j # i, Moves(j)
        PROVE  Stays
    <3>1. CASE Remove(j)
      BY <2>4, <3>1 DEF Remove, StoreInv, TypeOK, Processes
    <3>2. CASE ~Remove(j)
      BY <2>4, <3>2, OthersStay
    <3> QED
      BY <3>1, <3>2
  <2>5. CASE Moves(i)
    <3>1. proc'[i].cmd = proc[i].cmd
      BY <2>5, OwnCommand
    <3> QED
      BY <2>5, <3>1, ActivateOnlyWrites
  <2>6. CASE Next
    BY <2>1, <2>3, <2>4, <2>5, <2>6, Zenon DEF Next
  <2> QED
    BY <2>2, <2>6
<1> QED
  BY <1>1, <1>2, StoreInvariant, PTL DEF Spec
=============================================================================
