---------------------------- MODULE Fingerprint ----------------------------
(***************************************************************************)
(* The machine fingerprint (common/src/fingerprint.cpp).  The hash is      *)
(* ideal: it is the pair of what was hashed, the endorsement key the TPM   *)
(* gave this process (or NoEk) and the remaining hardware identity (the    *)
(* SMBIOS UUID, CPU id and disk serial taken as one value).                *)
(***************************************************************************)
CONSTANT NoEk   \* tpm_ek_hash returned nullopt

\* Mutant of Compute: the endorsement key is left out of what is hashed.
ComputeWithoutEk(ek, hw) ==
    [hash |-> [ek |-> NoEk, hw |-> hw],
     assurance_level |-> IF ek = NoEk THEN "software" ELSE "hardware"]

Compute(ek, hw) ==
    [hash |-> [ek |-> ek, hw |-> hw],
     assurance_level |-> IF ek = NoEk THEN "software" ELSE "hardware"]

\* Mutant of VerifyFingerprint: the endorsement key is not compared.
VerifyHwOnly(expected, ek, hw) == Compute(ek, hw).hash.hw = expected.hw

\* Mutant of VerifyFingerprint: a software fingerprint is not compared.
VerifyTpmBound(expected, ek, hw) == expected.ek # NoEk => Compute(ek, hw).hash = expected

\* fingerprint::verify recomputes with the TPM of the moment and compares.
VerifyFingerprint(expected, ek, hw) == Compute(ek, hw).hash = expected
=============================================================================
