---------------------------- MODULE TpmProvider ----------------------------
(***************************************************************************)
(* The providers that seal secrets to a host: ESAPI (tpm_linux.cpp), TBS   *)
(* (tpm_windows.cpp, which delegates to the software provider) and the     *)
(* software provider itself (tpm_software.cpp).  create_provider picks one *)
(* each time a command runs and silently falls back to software, so the    *)
(* provider that unseals need not be the one that sealed.                  *)
(***************************************************************************)
EXTENDS Integers, Fingerprint

CONSTANTS
    Hosts,      \* machines that run the programs
    Backend,    \* the provider each build is compiled for
    Flaky,      \* hosts whose TPM may fail to open when a command runs
    Ek,         \* the endorsement-key hash each host's TPM reports
    NoBlob      \* no sealed blob

Backends == {"none", "esapi", "tbs"}

ASSUME BackendAssumption == Backend \in [Hosts -> Backends]
ASSUME FlakyAssumption == Flaky \subseteq Hosts
ASSUME EkAssumption == NoEk \notin {Ek[h] : h \in Hosts}

\* The providers create_provider may return on h, and the endorsement keys
\* tpm_ek_hash may see: two separate attempts to open the TPM.
Providers(h) ==
    IF Backend[h] = "none" THEN {"software"}
    ELSE {Backend[h]} \cup (IF h \in Flaky THEN {"software"} ELSE {})

EkHashes(h) ==
    IF Backend[h] = "none" THEN {NoEk}
    ELSE {Ek[h]} \cup (IF h \in Flaky THEN {NoEk} ELSE {})

IsHardware(prov) == prov # "software"

-----------------------------------------------------------------------------
(* Sealing.  A blob is the data under a wrapping that only the same host   *)
(* can undo.  ESAPI binds it to the PCR values and ignores the label; the  *)
(* software provider derives key and AAD from the label.                   *)

TpmLimit == 128     \* what _seal_to_tpm copies of a secret

NoLabel == <<>>

PcrWrapping(h, pcr) == [by |-> "esapi", host |-> h, pcr |-> pcr, label |-> NoLabel]
LabelWrapping(h, label) == [by |-> "software", host |-> h, pcr |-> 0, label |-> label]

\* TBS seals and unseals through the software provider.
Wrapping(prov, h, pcr, label) ==
    IF prov = "esapi" THEN PcrWrapping(h, pcr) ELSE LabelWrapping(h, label)

\* Mutant of Stored: the limit applied by every provider.
StoredShort(prov, data) ==
    IF data.size > TpmLimit THEN [data EXCEPT !.size = TpmLimit] ELSE data

Stored(prov, data) ==
    IF prov = "esapi" /\ data.size > TpmLimit
    THEN [data EXCEPT !.size = TpmLimit]
    ELSE data

Seal(prov, h, pcr, label, data) ==
    [wrap |-> Wrapping(prov, h, pcr, label), data |-> Stored(prov, data)]

CanUnseal(prov, h, pcr, label, blob) ==
    /\ blob # NoBlob
    /\ blob.wrap = Wrapping(prov, h, pcr, label)

\* The software provider's seal also leaves the blob in <label>.sealed.
KeepSealed(prov, files, label, blob) ==
    IF prov = "esapi" THEN files ELSE [files EXCEPT ![label] = blob]

\* get_or_create_device_key: the key returned and the .devkey file left, with
\* `fresh' the key a generation would make.  ESAPI neither loads nor stores.
GetDeviceKey(prov, file, fresh) ==
    IF prov = "esapi" \/ file = 0 THEN fresh ELSE file

\* Mutant of KeepDeviceKey: the new key is returned but not saved.
KeepNoDeviceKey(prov, file, fresh) == file

KeepDeviceKey(prov, file, fresh) ==
    IF prov = "esapi" THEN file ELSE GetDeviceKey(prov, file, fresh)
=============================================================================
