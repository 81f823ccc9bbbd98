------------------------------ MODULE Readings ------------------------------
(***************************************************************************)
(* What fingerprint.cpp reads of a machine and the buffer it hashes.       *)
(* Fingerprint takes the three readings for one value; this module has the *)
(* trimming, the fallbacks, the SMBIOS walk and the encoding behind it.    *)
(***************************************************************************)
EXTENDS Bytes

CONSTANT Missing    \* a file that does not open, a CPUID leaf not offered

\* Characters: Space is any of ' ' and '\r'.
Space == 0
NewLine == 1
Dash == 2

TrimRight(text, blanks) ==
    SubSeq(text, 1, Max({0} \cup {n \in 1..Len(text) : text[n] \notin blanks}))

FirstLine(text) ==
    LET ends == {n \in 1..Len(text) : text[n] = NewLine}
    IN  IF ends = {} THEN text ELSE SubSeq(text, 1, Min(ends) - 1)

ReadSysfs(file) ==
    IF file = Missing THEN <<>> ELSE TrimRight(FirstLine(file), {Space, NewLine})

\* The first of some files that has anything to say.
FirstReading(files) ==
    LET some == {n \in 1..Len(files) : ReadSysfs(files[n]) # <<>>}
    IN  IF some = {} THEN <<>> ELSE ReadSysfs(files[Min(some)])

\* Linux: product_uuid is often readable by root alone.
SmbiosUuid(productUuid, boardSerial) == FirstReading(<<productUuid, boardSerial>>)
\* /sys/block names the same two files again.
PrimaryDiskSerial(nvme, sda) == FirstReading(<<nvme, sda>>)

\* A brand string of spaces alone is not trimmed.
CpuId(brand, signature) ==
    LET trimmed == TrimRight(brand, {Space})
    IN  (IF trimmed = <<>> THEN brand ELSE trimmed)
        \o (IF signature = Missing THEN <<>> ELSE <<Dash>> \o signature)

-----------------------------------------------------------------------------
Prefix == <<5>>     \* "LFPV1"

\* Mutant of AppendComponent: without the length.
AppendBare(buf, s) == buf \o s

AppendComponent(buf, s) == buf \o WriteLen32(Len(s)) \o s

\* The bytes that compute hashes.
Canonical(ek, uuid, cpu, disk) ==
    AppendComponent(AppendComponent(AppendComponent(AppendComponent(Prefix, ek), uuid), cpu), disk)

-----------------------------------------------------------------------------
(* Windows: the raw SMBIOS table.  Offsets count from 0, as in the code.   *)

HeaderLen == 8
At(buf, off) == buf[off + 1]

\* u[3] u[2] u[1] u[0] - u[5] u[4] - u[7] u[6] - u[8] u[9] - u[10] ... u[15]
UuidAt(buf, off) ==
    [k \in 1..16 |-> At(buf, off + <<3, 2, 1, 0, 5, 4, 7, 6, 8, 9, 10, 11, 12, 13, 14, 15>>[k])]

\* Mutant of NextStructure: as if no structure had strings.
NextWithoutStrings(buf, off) == off + At(buf, off + 1) + 2

\* Behind the formatted area, up to and over the next double NUL.
NextStructure(buf, off) ==
    LET ends == {n \in off + At(buf, off + 1)..Len(buf) - 2 : At(buf, n) = 0 /\ At(buf, n + 1) = 0}
    IN  IF ends = {} THEN Len(buf) ELSE Min(ends) + 2

RawSmbiosUuid(buf) ==
    LET found[off \in Nat] ==
            IF off + 4 >= Len(buf) \/ At(buf, off) = 127 THEN <<>>
            ELSE IF At(buf, off) = 1 /\ At(buf, off + 1) >= 25 THEN UuidAt(buf, off + 8)
            ELSE found[NextStructure(buf, off)]
    IN  IF Len(buf) < 32 THEN <<>> ELSE found[HeaderLen]
=============================================================================
