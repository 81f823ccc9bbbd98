----------------------- MODULE LicenseExchange_proofs -----------------------
(***************************************************************************)
(* Theorems about LicenseExchange for every number of hosts, products,     *)
(* keystores, hardware identities and every value of the bounds.           *)
(***************************************************************************)
EXTENDS LicenseExchange, FiniteSetTheorems, TLAPS

-----------------------------------------------------------------------------
(* Typing of the operators the actions are built from.                     *)

\* A sealed blob keeps at most the data it was given, under a wrapping of the
\* host that sealed it.
LEMMA WrappingType ==
    ASSUME NEW prov, NEW h \in Hosts, NEW n \in 1..MaxPcr, NEW label \in Labels
    PROVE  /\ Wrapping(prov, h, n, label) \in Wrappings
           /\ Wrapping(prov, h, n, label).host = h
BY BoundsAssumption DEF Wrapping, PcrWrapping, LabelWrapping, Wrappings

\* Sealing a token, whole or truncated, gives a licence blob of that token.
LEMMA SealTokenType ==
    ASSUME NEW prov, NEW h \in Hosts, NEW n \in 1..MaxPcr, NEW label \in Labels,
           NEW token \in Tokens
    PROVE  /\ Seal(prov, h, n, label, TokenBytes(token)) \in LicenseBlobs
           /\ Seal(prov, h, n, label, TokenBytes(token)).data.of = token
           /\ Seal(prov, h, n, label, TokenBytes(token)).wrap.host = h
<1>1. Wrapping(prov, h, n, label) \in Wrappings /\ Wrapping(prov, h, n, label).host = h
  BY WrappingType
<1>2. Stored(prov, TokenBytes(token)) \in [of : Tokens, size : Nat]
  BY TokenSizeAssumption DEF Stored, TokenBytes, TpmLimit
<1>3. Stored(prov, TokenBytes(token)).of = token
  BY DEF Stored, TokenBytes
<1> QED
  BY <1>1, <1>2, <1>3 DEF Seal, LicenseBlobs

\* A keystore's master key fits a TPM object and is sealed whole.
LEMMA SealMasterType ==
    ASSUME NEW prov, NEW n \in 1..MaxPcr, NEW g \in Gens
    PROVE  Seal(prov, Vendor, n, MasterLabel, MasterKey(g)) \in MasterBlobs
<1>1. Wrapping(prov, Vendor, n, MasterLabel) \in Wrappings
  BY WrappingType, VendorAssumption DEF Labels
<1>2. Stored(prov, MasterKey(g)) \in [of : [master : Gens], size : Nat]
  BY DEF Stored, MasterKey, TpmLimit
<1> QED
  BY <1>1, <1>2 DEF Seal, MasterBlobs

\* ExpiresAt is a time or 0, whatever the vendor typed.
LEMMA ExpiresAtType ==
    ASSUME NEW now \in Time, NEW days \in Int
    PROVE  ExpiresAt(now, days) \in Nat
<1>1. CASE days > 0
  <2>1. days * Day \in Nat
    BY <1>1, DayAssumption
  <2> QED
    BY <1>1, <2>1 DEF ExpiresAt, Time
<1>2. CASE ~(days > 0)
  BY <1>2 DEF ExpiresAt
<1> QED
  BY <1>1, <1>2

\* A fingerprint is built from what the TPM and the machine report.
LEMMA ComputeType ==
    ASSUME NEW m \in Machines, NEW ek \in EkHashes(m), NEW hw \in HwIds
    PROVE  /\ Compute(ek, hw).hash \in FingerprintHashes
           /\ Compute(ek, hw).assurance_level \in Assurances
<1>1. ek \in EkValues
  BY DEF EkHashes, EkValues, Machines
<1> QED
  BY <1>1 DEF Compute, FingerprintHashes, Assurances

\* A mail set numbers its next member and stays finite with it.
LEMMA CardinalityNat ==
    ASSUME NEW S, IsFiniteSet(S), NEW x
    PROVE  /\ Cardinality(S) + 1 \in Nat \ {0}
           /\ IsFiniteSet(S \cup {x})
<1>1. Cardinality(S) \in Nat
  BY FS_CardinalityType
<1>2. IsFiniteSet(S \cup {x})
  BY FS_AddElement
<1> QED
  BY <1>1, <1>2

-----------------------------------------------------------------------------
(* Type correctness.                                                       *)

\* init-keys replaces a keystore by a keystore, under a new generation.
LEMMA InitKeysType ==
    ASSUME TypeOK, NEW path \in Keystores, NEW prov \in Providers(Vendor),
           NEW outcome \in InitOutcomes, InitKeys(path, prov, outcome)
    PROVE  TypeOK'
<1> DEFINE file == GenerateKeystore(gens + 1, prov)
<1>1. gens + 1 \in Gens
  <2>1. gens \in 0..MaxGens /\ MaxGens \in Nat
    BY BoundsAssumption DEF TypeOK
  <2>2. gens < MaxGens
    BY DEF InitKeys
  <2> QED
    BY <2>1, <2>2 DEF Gens
<1>2. Seal(prov, Vendor, pcr[Vendor], MasterLabel, MasterKey(gens + 1)) \in MasterBlobs
  BY <1>1, SealMasterType, VendorAssumption DEF TypeOK
<1>3. /\ file \in [gen : Gens, tpm_blob : MasterBlobs \cup {NoBlob}]
      /\ IsHardware(prov) => file.tpm_blob \in MasterBlobs
  BY <1>1, <1>2 DEF GenerateKeystore
<1> HIDE DEF file
<1>4. keystore' \in [Keystores ->
          {NoKeys} \cup [gen : Gens, tpm_blob : MasterBlobs \cup {NoBlob}]]
  BY <1>3 DEF TypeOK, InitKeys, file
<1>5. sealedFile' \in
          [Hosts -> [Labels -> LicenseBlobs \cup MasterBlobs \cup {NoBlob}]]
  <2>1. CASE IsHardware(prov)
    <3>1. sealedFile' = [sealedFile EXCEPT ![Vendor] =
                            KeepSealed(prov, @, MasterLabel, file.tpm_blob)]
      BY <2>1 DEF InitKeys, file
    <3>2. KeepSealed(prov, sealedFile[Vendor], MasterLabel, file.tpm_blob)
             \in [Labels -> LicenseBlobs \cup MasterBlobs \cup {NoBlob}]
      BY <1>3, <2>1, VendorAssumption DEF TypeOK, KeepSealed
    <3> QED
      BY <3>1, <3>2 DEF TypeOK
  <2>2. CASE ~IsHardware(prov)
    BY <2>2 DEF TypeOK, InitKeys
  <2> QED
    BY <2>1, <2>2
<1>6. published' \subseteq Gens /\ gens' \in 0..MaxGens
  <2>1. /\ published' \in {published, published \cup {gens + 1}}
        /\ gens' = gens + 1
    BY DEF InitKeys
  <2>2. published \subseteq Gens
    BY DEF TypeOK
  <2> QED
    BY <1>1, <2>1, <2>2 DEF Gens
<1>7. UNCHANGED <<environment, config, mail, lic, devkey>>
  BY DEF InitKeys
<1> QED
  BY <1>4, <1>5, <1>6, <1>7 DEF TypeOK, environment, mail

\* generate-license signs a well-formed record with a generation that exists.
LEMMA GenerateLicenseType ==
    ASSUME TypeOK, NEW path \in Keystores, NEW prov \in Providers(Vendor),
           NEW blob \in requests, NEW product \in Products,
           NEW days \in DayChoices,
           GenerateLicense(path, blob, product, days, prov)
    PROVE  TypeOK'
<1> DEFINE record == BuildRecord(blob.req, product, days)
           token  == SignLicense(record, keystore[path].gen)
<1>1. clock[Vendor] \in Time
  BY VendorAssumption DEF TypeOK
<1>2. ExpiresAt(clock[Vendor], days) \in Nat
  BY <1>1, DayChoicesAssumption, ExpiresAtType
<1>3. Cardinality(tokens) + 1 \in Nat \ {0} /\ IsFiniteSet(tokens \cup {token})
  BY CardinalityNat DEF TypeOK
<1>4. blob \in Requests
  BY DEF TypeOK
<1>5. /\ blob.req.fingerprint_hash \in FingerprintHashes
      /\ blob.req.fingerprint_assurance \in Assurances
  BY <1>4 DEF Requests
<1>6. record \in Records
  BY <1>1, <1>2, <1>3, <1>5 DEF BuildRecord, Records
<1>7. keystore[path].gen \in Gens
  BY DEF TypeOK, GenerateLicense, CanLoad
<1>8. token \in Tokens
  BY <1>6, <1>7 DEF SignLicense, Tokens
<1>9. tokens' = tokens \cup {token}
  BY DEF GenerateLicense
<1> HIDE DEF token
<1> QED
  BY <1>3, <1>8, <1>9 DEF TypeOK, GenerateLicense, environment, vendorFiles

\* generate-request builds a well-formed request and leaves a key or none.
LEMMA GenerateRequestType ==
    ASSUME TypeOK, NEW m \in Machines, NEW product \in Products,
           NEW ek \in EkHashes(m), NEW prov \in Providers(m),
           GenerateRequest(m, product, ek, prov)
    PROVE  TypeOK'
<1> DEFINE nonce == Cardinality(requests) + 1
           blob  == [to |-> config[m], aad |-> product,
                     req |-> BuildRequest(m, product, ek, prov, nonce)]
<1>1. nonce \in Nat \ {0} /\ IsFiniteSet(requests \cup {blob})
  BY CardinalityNat DEF TypeOK
<1> HIDE DEF nonce
<1>2. /\ GetDeviceKey(prov, devkey[m][product], nonce) \in Nat \ {0}
      /\ KeepDeviceKey(prov, devkey[m][product], nonce) \in Nat
  BY <1>1 DEF TypeOK, GetDeviceKey, KeepDeviceKey
<1>3. /\ Compute(ek, hwId[m]).hash \in FingerprintHashes
      /\ Compute(ek, hwId[m]).assurance_level \in Assurances
  BY ComputeType DEF TypeOK
<1>4. config[m] \in Gens /\ clock[m] \in Time
  BY DEF TypeOK, GenerateRequest, Machines
<1>5. blob \in Requests
  BY <1>1, <1>2, <1>3, <1>4 DEF BuildRequest, Requests
<1>6. requests' = requests \cup {blob}
  BY DEF GenerateRequest, HybridEncrypt, nonce
<1>7. devkey' \in [Machines -> [Products -> Nat]]
  <2>1. devkey' = [devkey EXCEPT ![m][product] = KeepDeviceKey(prov, @, nonce)]
    BY DEF GenerateRequest, HybridEncrypt, nonce
  <2> QED
    BY <1>2, <2>1 DEF TypeOK
<1> HIDE DEF blob
<1> QED
  BY <1>1, <1>5, <1>6, <1>7 DEF TypeOK, GenerateRequest, environment, vendorFiles

\* activate stores a licence blob, in one place or in two.
LEMMA ActivateType ==
    ASSUME TypeOK, NEW m \in Machines, NEW token \in tokens,
           NEW ek \in EkHashes(m), NEW prov \in Providers(m),
           Activate(m, token, ek, prov)
    PROVE  TypeOK'
<1> DEFINE product == token.record.product_id
           label   == LicenseLabel(product)
           blob    == Seal(prov, m, pcr[m], label, TokenBytes(token))
<1>1. token \in Tokens /\ product \in Products /\ label \in Labels
  BY DEF TypeOK, Tokens, Records, Labels
<1>2. m \in Hosts /\ pcr[m] \in 1..MaxPcr
  BY DEF TypeOK, Machines
<1>3. blob \in LicenseBlobs
  BY <1>1, <1>2, SealTokenType
<1>4. lic' = [lic EXCEPT ![m][product] = blob]
  BY DEF Activate, ActivatedProduct
<1>5. sealedFile' = [sealedFile EXCEPT ![m] = KeepSealed(prov, @, label, blob)]
  BY DEF Activate, ActivatedProduct
<1> HIDE DEF product, label, blob
<1>6. lic' \in [Machines -> [Products -> LicenseBlobs \cup {NoBlob}]]
  BY <1>1, <1>3, <1>4 DEF TypeOK
<1>7. KeepSealed(prov, sealedFile[m], label, blob)
         \in [Labels -> LicenseBlobs \cup MasterBlobs \cup {NoBlob}]
  BY <1>1, <1>2, <1>3 DEF TypeOK, KeepSealed
<1>8. sealedFile' \in
          [Hosts -> [Labels -> LicenseBlobs \cup MasterBlobs \cup {NoBlob}]]
  BY <1>5, <1>7 DEF TypeOK
<1> QED
  BY <1>6, <1>8 DEF TypeOK, Activate, environment, vendorFiles, mail

\* What is left: the customer's configuration and deactivate, and the
\* environment's three steps.
LEMMA OtherStepsType ==
    ASSUME TypeOK
    PROVE  /\ \A m \in Machines, gen \in published :
                  InstallConfig(m, gen) => TypeOK'
           /\ \A m \in Machines, product \in Products :
                  Deactivate(m, product) => TypeOK'
           /\ EnvironmentStep => TypeOK'
           /\ UNCHANGED vars => TypeOK'
<1>1. ASSUME NEW m \in Machines, NEW gen \in published, InstallConfig(m, gen)
      PROVE  TypeOK'
  BY <1>1 DEF TypeOK, InstallConfig, environment, vendorFiles, mail
<1>2. ASSUME NEW m \in Machines, NEW product \in Products, Deactivate(m, product)
      PROVE  TypeOK'
  BY <1>2 DEF TypeOK, Deactivate, environment, vendorFiles, mail
<1>3. ASSUME NEW h \in Hosts, NEW t \in 1..MaxTime, ClockChanges(h, t)
      PROVE  TypeOK'
  BY <1>3 DEF TypeOK, ClockChanges, vendorFiles, mail, Time
<1>4. ASSUME NEW h \in Hosts, NEW p \in 1..MaxPcr, FirmwareChanges(h, p)
      PROVE  TypeOK'
  BY <1>4 DEF TypeOK, FirmwareChanges, vendorFiles, mail
<1>5. ASSUME NEW m \in Machines, NEW hw \in HwIds, HardwareChanges(m, hw)
      PROVE  TypeOK'
  BY <1>5 DEF TypeOK, HardwareChanges, vendorFiles, mail
<1>6. UNCHANGED vars => TypeOK'
  BY DEF TypeOK, vars, environment, vendorFiles, mail
<1> QED
  BY <1>1, <1>2, <1>3, <1>4, <1>5, <1>6 DEF EnvironmentStep

\* Every reachable state is well typed: what the commands read back, from the
\* keystore, the mail and the licence store, has the shape they wrote.
THEOREM TypeCorrect == Spec => []TypeOK
<1>1. Init => TypeOK
  BY BoundsAssumption, FS_EmptySet
  DEF Init, TypeOK, Time, Gens, NoGen, Requests, Tokens
<1>2. TypeOK /\ [Next]_vars => TypeOK'
  <2> SUFFICES ASSUME TypeOK, [Next]_vars
               PROVE  TypeOK'
    OBVIOUS
  <2>1. CASE VendorStep
    BY <2>1, InitKeysType, GenerateLicenseType DEF VendorStep
  <2>2. ASSUME NEW m \in Machines, ClientStep(m)
        PROVE  TypeOK'
    BY <2>2, GenerateRequestType, ActivateType, OtherStepsType DEF ClientStep
  <2>3. CASE EnvironmentStep \/ UNCHANGED vars
    BY <2>3, OtherStepsType
  <2> QED
    BY <2>1, <2>2, <2>3 DEF Next
<1> QED
  BY <1>1, <1>2, PTL DEF Spec

-----------------------------------------------------------------------------
(* The inductive invariant.                                                *)

\* Requests and tokens are never withdrawn, so an answer stays an answer.
LEMMA MailGrows ==
    ASSUME TokensAnswerRequests, requests \subseteq requests', tokens' = tokens
    PROVE  TokensAnswerRequests'
BY DEF TokensAnswerRequests, Answers, MaxAge

\* The token answers the very blob that generate-license decrypted.
LEMMA GenerateLicenseInv ==
    ASSUME TypeOK, ExchangeInv, NEW path \in Keystores,
           NEW prov \in Providers(Vendor), NEW blob \in requests,
           NEW product \in Products, NEW days \in DayChoices,
           GenerateLicense(path, blob, product, days, prov)
    PROVE  ExchangeInv'
<1> DEFINE record == BuildRecord(blob.req, product, days)
           token  == SignLicense(record, keystore[path].gen)
<1>1. Answers(token, blob)
  BY DEF GenerateLicense, CanDecrypt, Answers, SignLicense, BuildRecord,
         TimestampIsFresh
<1>2. tokens' = tokens \cup {token} /\ UNCHANGED <<requests, lic>>
  BY DEF GenerateLicense
<1> HIDE DEF token
<1>3. TokensAnswerRequests'
  <2>1. \A t \in tokens : \E r \in requests : Answers(t, r)
    BY DEF ExchangeInv, TokensAnswerRequests
  <2>2. \A t \in tokens' : \E r \in requests : Answers(t, r)
    BY <1>1, <1>2, <2>1
  <2> QED
    BY <1>2, <2>2 DEF TokensAnswerRequests, Answers, MaxAge
<1>4. RequestsTruthful' /\ LicenseStoreSound'
  BY <1>2 DEF ExchangeInv, RequestsTruthful, LicenseStoreSound
<1> QED
  BY <1>3, <1>4 DEF ExchangeInv

\* A request carries the assurance of the fingerprint it carries.
LEMMA GenerateRequestInv ==
    ASSUME TypeOK, ExchangeInv, NEW m \in Machines, NEW product \in Products,
           NEW ek \in EkHashes(m), NEW prov \in Providers(m),
           GenerateRequest(m, product, ek, prov)
    PROVE  ExchangeInv'
<1> DEFINE nonce == Cardinality(requests) + 1
           blob  == [to |-> config[m], aad |-> product,
                     req |-> BuildRequest(m, product, ek, prov, nonce)]
<1>1. requests' = requests \cup {blob} /\ UNCHANGED <<tokens, lic>>
  BY DEF GenerateRequest, HybridEncrypt, mail
<1>2. blob.req.fingerprint_assurance = "hardware"
         <=> blob.req.fingerprint_hash.ek # NoEk
  <2> DEFINE fp == Compute(ek, hwId[m])
  <2>1. fp.assurance_level = "hardware" <=> fp.hash.ek # NoEk
    BY DEF Compute
  <2>2. /\ blob.req.fingerprint_assurance = fp.assurance_level
        /\ blob.req.fingerprint_hash = fp.hash
    BY DEF BuildRequest
  <2> QED
    BY <2>1, <2>2
<1> HIDE DEF blob
<1>3. TokensAnswerRequests'
  BY <1>1, MailGrows DEF ExchangeInv
<1>4. RequestsTruthful' /\ LicenseStoreSound'
  BY <1>1, <1>2 DEF ExchangeInv, RequestsTruthful, LicenseStoreSound
<1> QED
  BY <1>3, <1>4 DEF ExchangeInv

\* activate stores a token that exists under the product the token names.
LEMMA ActivateInv ==
    ASSUME TypeOK, ExchangeInv, NEW m \in Machines, NEW token \in tokens,
           NEW ek \in EkHashes(m), NEW prov \in Providers(m),
           Activate(m, token, ek, prov)
    PROVE  ExchangeInv'
<1> DEFINE product == token.record.product_id
           blob == Seal(prov, m, pcr[m], LicenseLabel(product), TokenBytes(token))
<1>1. token \in Tokens /\ product \in Products /\ LicenseLabel(product) \in Labels
  BY DEF TypeOK, Tokens, Records, Labels
<1>2. blob.data.of = token /\ blob.wrap.host = m
  <2>1. m \in Hosts /\ pcr[m] \in 1..MaxPcr
    BY DEF TypeOK, Machines
  <2> QED
    BY <1>1, <2>1, SealTokenType
<1>3. lic' = [lic EXCEPT ![m][product] = blob] /\ UNCHANGED <<requests, tokens>>
  BY DEF Activate, ActivatedProduct, mail
<1>4. LicenseStoreSound'
  <2> HIDE DEF blob
  <2> SUFFICES ASSUME NEW m2 \in Machines, NEW p2 \in Products,
                      lic'[m2][p2] # NoBlob
               PROVE  /\ lic'[m2][p2].data.of \in tokens'
                      /\ lic'[m2][p2].data.of.record.product_id = p2
                      /\ lic'[m2][p2].wrap.host = m2
    BY DEF LicenseStoreSound
  <2>3. tokens' = tokens
    BY <1>3
  <2>1. CASE m2 = m /\ p2 = product
    <3>1. lic'[m2][p2] = blob
      BY <1>1, <1>3, <2>1 DEF TypeOK
    <3> QED
      BY <1>2, <2>1, <2>3, <3>1
  <2>2. CASE ~(m2 = m /\ p2 = product)
    <3>1. lic'[m2][p2] = lic[m2][p2]
      BY <1>1, <1>3, <2>2 DEF TypeOK
    <3> QED
      BY <2>3, <3>1 DEF ExchangeInv, LicenseStoreSound
  <2> QED
    BY <2>1, <2>2
<1>5. TokensAnswerRequests' /\ RequestsTruthful'
  BY <1>3, MailGrows DEF ExchangeInv, RequestsTruthful
<1> QED
  BY <1>4, <1>5 DEF ExchangeInv

\* deactivate only takes licences away.
LEMMA DeactivateInv ==
    ASSUME TypeOK, ExchangeInv, NEW m \in Machines, NEW product \in Products,
           Deactivate(m, product)
    PROVE  ExchangeInv'
<1>1. /\ lic' = [lic EXCEPT ![m][product] = NoBlob]
      /\ UNCHANGED <<requests, tokens>>
  BY DEF Deactivate, mail
<1>2. \A m2 \in Machines, p2 \in Products :
          lic'[m2][p2] \in {lic[m2][p2], NoBlob}
  BY <1>1 DEF TypeOK
<1>3. LicenseStoreSound'
  BY <1>1, <1>2 DEF ExchangeInv, LicenseStoreSound
<1>4. TokensAnswerRequests' /\ RequestsTruthful'
  BY <1>1, MailGrows DEF ExchangeInv, RequestsTruthful
<1> QED
  BY <1>3, <1>4 DEF ExchangeInv

\* Steps that touch neither the mail nor the licence store.
LEMMA FrameInv ==
    ASSUME ExchangeInv, UNCHANGED <<requests, tokens, lic>>
    PROVE  ExchangeInv'
BY MailGrows DEF ExchangeInv, RequestsTruthful, LicenseStoreSound

\* Tokens answer requests, requests tell the truth about the fingerprint they
\* carry, and each .lic holds an issued token for the product of its path.
THEOREM ExchangeInvariant == Spec => []ExchangeInv
<1>1. Init => ExchangeInv
  BY DEF Init, ExchangeInv, TokensAnswerRequests, RequestsTruthful, LicenseStoreSound
<1>2. TypeOK /\ ExchangeInv /\ [Next]_vars => ExchangeInv'
  <2> SUFFICES ASSUME TypeOK, ExchangeInv, [Next]_vars
               PROVE  ExchangeInv'
    OBVIOUS
  <2>1. CASE VendorStep
    <3>1. ASSUME NEW path \in Keystores, NEW prov \in Providers(Vendor),
                 NEW outcome \in InitOutcomes, InitKeys(path, prov, outcome)
          PROVE  ExchangeInv'
      BY <3>1, FrameInv DEF InitKeys, mail
    <3> QED
      BY <2>1, <3>1, GenerateLicenseInv DEF VendorStep
  <2>2. ASSUME NEW m \in Machines, ClientStep(m)
        PROVE  ExchangeInv'
    <3>1. ASSUME NEW gen \in published, InstallConfig(m, gen)
          PROVE  ExchangeInv'
      BY <3>1, FrameInv DEF InstallConfig, mail
    <3> QED
      BY <2>2, <3>1, GenerateRequestInv, ActivateInv, DeactivateInv DEF ClientStep
  <2>3. CASE EnvironmentStep
    BY <2>3, FrameInv
    DEF EnvironmentStep, ClockChanges, FirmwareChanges, HardwareChanges, mail
  <2>4. CASE UNCHANGED vars
    BY <2>4, FrameInv DEF vars, mail
  <2> QED
    BY <2>1, <2>2, <2>3, <2>4 DEF Next
<1> QED
  BY <1>1, <1>2, TypeCorrect, PTL DEF Spec

-----------------------------------------------------------------------------
(* The promises.                                                           *)

\* verify_at_startup never says "valid" without an entitlement.
THEOREM VerifiedIsAlwaysEntitled == Spec => []VerifiedIsEntitled
<1>1. TypeOK /\ ExchangeInv => VerifiedIsEntitled
  <2> SUFFICES ASSUME TypeOK, ExchangeInv,
                      NEW m \in Machines, NEW p \in Products,
                      NEW ek \in EkHashes(m), NEW prov \in Providers(m),
                      VerifyAtStartup(m, p, ek, prov)
               PROVE  \E t \in tokens : /\ t.record = StoredRecord(m, p)
                                        /\ Entitles(t, m, p, ek)
    BY DEF VerifiedIsEntitled
  <2> DEFINE t == lic[m][p].data.of
  <2>1. lic[m][p] # NoBlob
    BY DEF VerifyAtStartup, CanUnseal
  <2>2. t \in tokens /\ t.record.product_id = p
    BY <2>1 DEF ExchangeInv, LicenseStoreSound
  <2>3. t.key = config[m] /\ ~IsExpired(t.record, clock[m])
    BY DEF VerifyAtStartup, VerifyLicense
  <2>4. t.record.fingerprint_hash = [ek |-> ek, hw |-> hwId[m]]
    BY DEF VerifyAtStartup, VerifyFingerprint, Compute
  <2>5. PICK r \in requests : Answers(t, r)
    BY <2>2 DEF ExchangeInv, TokensAnswerRequests
  <2>6. r.req.fingerprint_hash = [ek |-> ek, hw |-> hwId[m]]
    BY <2>4, <2>5 DEF Answers
  <2>7. Entitles(t, m, p, ek)
    BY <2>2, <2>3, <2>5, <2>6 DEF Entitles
  <2> QED
    BY <2>2, <2>7 DEF StoredRecord
<1> QED
  BY <1>1, TypeCorrect, ExchangeInvariant, PTL

\* The assurance level that verify reports is "hardware" exactly when the TPM
\* answers in that verification.
THEOREM AssuranceIsTruthful == Spec => []AssuranceTruthful
<1>1. TypeOK /\ ExchangeInv => AssuranceTruthful
  <2> SUFFICES ASSUME TypeOK, ExchangeInv,
                      NEW m \in Machines, NEW p \in Products,
                      NEW ek \in EkHashes(m), NEW prov \in Providers(m),
                      VerifyAtStartup(m, p, ek, prov)
               PROVE  StoredRecord(m, p).fingerprint_assurance = "hardware"
                         <=> ek # NoEk
    BY DEF AssuranceTruthful
  <2> DEFINE t == lic[m][p].data.of
  <2>1. t \in tokens
    BY DEF VerifyAtStartup, CanUnseal, ExchangeInv, LicenseStoreSound
  <2>2. t.record.fingerprint_hash = [ek |-> ek, hw |-> hwId[m]]
    BY DEF VerifyAtStartup, VerifyFingerprint, Compute
  <2>3. PICK r \in requests : Answers(t, r)
    BY <2>1 DEF ExchangeInv, TokensAnswerRequests
  <2>4. r.req.fingerprint_assurance = "hardware" <=> r.req.fingerprint_hash.ek # NoEk
    BY DEF ExchangeInv, RequestsTruthful
  <2> QED
    BY <2>2, <2>3, <2>4 DEF Answers, StoredRecord
<1> QED
  BY <1>1, TypeCorrect, ExchangeInvariant, PTL

\* Replacing server_pubkeys.json by another generation's revokes what was
\* valid: no step replaces the configuration and a stored licence at once, and
\* a token is accepted under one generation only.
THEOREM RotationAlwaysRevokes == Spec => RotationRevokes
<1>1. [Next]_vars => UNCHANGED config \/ UNCHANGED lic
  <2>1. VendorStep => UNCHANGED lic
    BY DEF VendorStep, InitKeys, GenerateLicense
  <2>2. EnvironmentStep => UNCHANGED lic
    BY DEF EnvironmentStep, ClockChanges, FirmwareChanges, HardwareChanges
  <2>3. ASSUME NEW m \in Machines, ClientStep(m)
        PROVE  UNCHANGED config \/ UNCHANGED lic
    BY <2>3 DEF ClientStep, InstallConfig, GenerateRequest, Activate, Deactivate
  <2> QED
    BY <2>1, <2>2, <2>3 DEF Next, vars
<1>2. ASSUME UNCHANGED config \/ UNCHANGED lic,
             NEW m \in Machines, NEW p \in Products,
             NEW ek \in EkHashes(m), NEW prov \in Providers(m),
             config'[m] # config[m], VerifyAtStartup(m, p, ek, prov)
      PROVE  ~VerifyAtStartup(m, p, ek, prov)'
  <2>1. lic' = lic
    BY <1>2
  <2>2. lic[m][p].data.of.key = config[m]
    BY <1>2 DEF VerifyAtStartup, VerifyLicense
  <2>3. VerifyAtStartup(m, p, ek, prov)' => lic'[m][p].data.of.key = config'[m]
    BY DEF VerifyAtStartup, VerifyLicense
  <2> QED
    BY <1>2, <2>1, <2>2, <2>3
<1>3. [Next]_vars =>
          \A m \in Machines, p \in Products :
              \A ek \in EkHashes(m), prov \in Providers(m) :
                  config'[m] # config[m] /\ VerifyAtStartup(m, p, ek, prov) =>
                      ~VerifyAtStartup(m, p, ek, prov)'
  BY <1>1, <1>2
<1> QED
  BY <1>3, PTL DEF Spec, RotationRevokes

\* Without the ESAPI backend, whose sealing cuts a token short, a successful
\* activate always leaves a licence that verify_at_startup accepts.
THEOREM ActivationSticksWithoutEsapi ==
    ASSUME \A h \in Hosts : Backend[h] # "esapi"
    PROVE  Spec => ActivationSticks
<1>1. ASSUME NEW m \in Machines, NEW prov \in Providers(m)
      PROVE  prov # "esapi"
  BY BackendAssumption DEF Providers, Machines
<1>2. ASSUME TypeOK, NEW m \in Machines, NEW token \in tokens,
             NEW ek \in EkHashes(m), NEW prov \in Providers(m),
             Activate(m, token, ek, prov),
             NEW m2 \in Machines, NEW p \in Products,
             lic'[m2][p] \notin {lic[m2][p], NoBlob}
      PROVE  m2 = m /\ VerifyAtStartup(m, p, ek, prov)'
  <2> DEFINE product == token.record.product_id
             blob == Seal(prov, m, pcr[m], LicenseLabel(product), TokenBytes(token))
  <2>1. lic' = [lic EXCEPT ![m][product] = blob] /\ UNCHANGED <<clock, pcr, hwId, config>>
    BY <1>2 DEF Activate, ActivatedProduct, environment
  <2>2. token \in Tokens /\ product \in Products
    BY <1>2 DEF TypeOK, Tokens, Records
  <2>3. blob.wrap = Wrapping(prov, m, pcr[m], LicenseLabel(product))
        /\ blob.data = TokenBytes(token)
    BY <1>1 DEF Seal, Stored
  <2>4. /\ config[m] # NoGen
        /\ VerifyLicense(TokenBytes(token), config[m], clock[m])
        /\ VerifyFingerprint(token.record.fingerprint_hash, ek, hwId[m])
    BY <1>2 DEF Activate, ActivatedProduct
  <2> HIDE DEF blob
  <2>5. m2 = m /\ p = product /\ lic'[m][product] = blob
    BY <1>2, <2>1, <2>2 DEF TypeOK
  <2>6. blob # NoBlob /\ blob.data.of = token
    BY <1>2, <2>3, <2>5 DEF TokenBytes
  <2>7. CanUnseal(prov, m, pcr[m], LicenseLabel(product), blob)
    BY <2>3, <2>6 DEF CanUnseal
  <2> QED
    BY <2>1, <2>3, <2>4, <2>5, <2>6, <2>7
    DEF VerifyAtStartup, VerifyLicense, IsExpired, LicenseLabel
<1>3. TypeOK /\ [Next]_vars =>
          \A m \in Machines, p \in Products :
              lic'[m][p] \notin {lic[m][p], NoBlob} =>
                  \E ek \in EkHashes(m), prov \in Providers(m) :
                      VerifyAtStartup(m, p, ek, prov)'
  <2> SUFFICES ASSUME TypeOK, [Next]_vars, NEW m2 \in Machines, NEW p \in Products,
                      lic'[m2][p] \notin {lic[m2][p], NoBlob}
               PROVE  \E ek \in EkHashes(m2), prov \in Providers(m2) :
                          VerifyAtStartup(m2, p, ek, prov)'
    OBVIOUS
  <2>1. ~UNCHANGED lic
    OBVIOUS
  <2>2. ~VendorStep /\ ~EnvironmentStep /\ ~UNCHANGED vars
    BY <2>1 DEF VendorStep, InitKeys, GenerateLicense, EnvironmentStep,
                ClockChanges, FirmwareChanges, HardwareChanges, vars
  <2>3. PICK m \in Machines : ClientStep(m)
    BY <2>2 DEF Next
  <2>4. ASSUME NEW product \in Products, Deactivate(m, product)
        PROVE  FALSE
    BY <2>4 DEF Deactivate, TypeOK
  <2>5. PICK prov \in Providers(m), ek \in EkHashes(m), token \in tokens :
            Activate(m, token, ek, prov)
    BY <2>1, <2>3, <2>4 DEF ClientStep, InstallConfig, GenerateRequest
  <2> QED
    BY <1>2, <2>5
<1> QED
  BY <1>3, TypeCorrect, PTL DEF Spec, ActivationSticks

-----------------------------------------------------------------------------
(* What the licence store and the mail are worth, and where ESAPI matters. *)

\* Each .lic file holds a token the vendor issued, for the product of its path
\* and sealed on its own machine.
THEOREM LicenseStoreIsSound == Spec => []LicenseStoreSound
<1>1. ExchangeInv => LicenseStoreSound
  BY DEF ExchangeInv
<1> QED
  BY <1>1, ExchangeInvariant, PTL

\* Where verify_at_startup says "valid", Entitlement allows the use.
THEOREM ValidIsAlwaysUsable == Spec => []ValidIsUsable
<1>1. TypeOK => ValidIsUsable
  <2> SUFFICES ASSUME TypeOK, NEW m \in Machines, NEW p \in Products,
                      NEW ek \in EkHashes(m), NEW prov \in Providers(m),
                      VerifyAtStartup(m, p, ek, prov)
               PROVE  E!Usable(m, p)
    BY DEF ValidIsUsable
  <2>1. lic[m][p] # NoBlob
    BY DEF VerifyAtStartup, CanUnseal
  <2>2. lic[m][p].data.of \in Tokens
    BY <2>1 DEF TypeOK, LicenseBlobs
  <2>3. Installed(m, p) = GrantOf(lic[m][p].data.of)
    BY <2>1 DEF Installed
  <2>4. Installed(m, p).key = config[m]
    <3>1. Installed(m, p).key = lic[m][p].data.of.key
      BY <2>3 DEF GrantOf
    <3>2. lic[m][p].data.of.key = config[m]
      BY DEF VerifyAtStartup, VerifyLicense
    <3> QED
      BY <3>1, <3>2
  <2>5. Installed(m, p).identity \in Shown(m)
    <3>1. Installed(m, p).identity = lic[m][p].data.of.record.fingerprint_hash
      BY <2>3 DEF GrantOf
    <3>2. Compute(ek, hwId[m]).hash = lic[m][p].data.of.record.fingerprint_hash
      BY DEF VerifyAtStartup, VerifyFingerprint
    <3> QED
      BY <3>1, <3>2 DEF Shown
  <2>6. Installed(m, p) # NoBlob
    <3>1. GrantOf(lic[m][p].data.of)
             \in [key : Gens, product : Products, identity : FingerprintHashes]
      BY <2>2 DEF GrantOf, Tokens, Records
    <3> QED
      BY <2>3, <3>1, NoBlobAssumption
  <2> QED
    BY <2>4, <2>5, <2>6 DEF E!Usable
<1> QED
  BY <1>1, TypeCorrect, PTL

\* No machine of an account without ESAPI forgets a device key it has named.
DeviceKeyKept ==
    \A r \in requests :
        /\ r.req.device_pubkey = devkey[r.req.customer_hint][r.req.product_id]
        /\ r.req.device_pubkey # 0

\* Without ESAPI the first request's device key is the stored one, and the key
\* of every later request for the product.
THEOREM DeviceKeyIsStable ==
    ASSUME \A m \in Machines : Backend[m] # "esapi"
    PROVE  Spec => []DeviceKeyStable
<1>1. ASSUME NEW m \in Machines, NEW prov \in Providers(m)
      PROVE  prov # "esapi"
  BY BackendAssumption DEF Providers, Machines
<1>2. Init => DeviceKeyKept
  BY DEF Init, DeviceKeyKept
<1>3. ASSUME TypeOK, DeviceKeyKept, NEW m \in Machines, NEW product \in Products,
             NEW ek \in EkHashes(m), NEW prov \in Providers(m),
             GenerateRequest(m, product, ek, prov)
      PROVE  DeviceKeyKept'
  <2> DEFINE nonce == Cardinality(requests) + 1
             key == GetDeviceKey(prov, devkey[m][product], nonce)
             blob == HybridEncrypt(config[m], product,
                                   BuildRequest(m, product, ek, prov, nonce))
  <2>1. nonce \in Nat \ {0}
    BY <1>3, CardinalityNat DEF TypeOK
  <2>2. /\ requests' = requests \cup {blob}
        /\ devkey' = [devkey EXCEPT ![m][product] = KeepDeviceKey(prov, @, nonce)]
    BY <1>3 DEF GenerateRequest
  <2> HIDE DEF nonce
  <2>3. /\ KeepDeviceKey(prov, devkey[m][product], nonce) = key
        /\ key # 0
        /\ devkey[m][product] # 0 => key = devkey[m][product]
    BY <1>1, <2>1 DEF KeepDeviceKey, GetDeviceKey
  <2>4. /\ blob.req.device_pubkey = key
        /\ blob.req.customer_hint = m /\ blob.req.product_id = product
    BY DEF HybridEncrypt, BuildRequest
  <2> HIDE DEF blob, key
  <2>5. devkey'[m][product] = key
    BY <1>3, <2>2, <2>3 DEF TypeOK
  <2>6. ASSUME NEW r \in requests
        PROVE  /\ r.req.device_pubkey = devkey'[r.req.customer_hint][r.req.product_id]
               /\ r.req.device_pubkey # 0
    <3>1. r.req.customer_hint \in Machines /\ r.req.product_id \in Products
      BY <1>3 DEF TypeOK, Requests
    <3>2. /\ r.req.device_pubkey = devkey[r.req.customer_hint][r.req.product_id]
          /\ r.req.device_pubkey # 0
      BY <1>3 DEF DeviceKeyKept
    <3>3. CASE r.req.customer_hint = m /\ r.req.product_id = product
      BY <2>3, <2>5, <3>2, <3>3
    <3>4. CASE ~(r.req.customer_hint = m /\ r.req.product_id = product)
      <4>1. devkey'[r.req.customer_hint][r.req.product_id]
               = devkey[r.req.customer_hint][r.req.product_id]
        BY <1>3, <2>2, <3>1, <3>4 DEF TypeOK
      <4> QED
        BY <3>2, <4>1
    <3> QED
      BY <3>3, <3>4
  <2> QED
    BY <2>2, <2>3, <2>4, <2>5, <2>6 DEF DeviceKeyKept
<1>4. ASSUME DeviceKeyKept, UNCHANGED <<requests, devkey>>
      PROVE  DeviceKeyKept'
  BY <1>4 DEF DeviceKeyKept
<1>5. TypeOK /\ DeviceKeyKept /\ [Next]_vars => DeviceKeyKept'
  <2> SUFFICES ASSUME TypeOK, DeviceKeyKept, [Next]_vars
               PROVE  DeviceKeyKept'
    OBVIOUS
  <2>1. CASE VendorStep
    BY <1>4, <2>1 DEF VendorStep, InitKeys, GenerateLicense, mail
  <2>2. ASSUME NEW m \in Machines, ClientStep(m)
        PROVE  DeviceKeyKept'
    BY <1>3, <1>4, <2>2 DEF ClientStep, InstallConfig, Activate, Deactivate, mail
  <2>3. CASE EnvironmentStep
    BY <1>4, <2>3
    DEF EnvironmentStep, ClockChanges, FirmwareChanges, HardwareChanges, mail
  <2>4. CASE UNCHANGED vars
    BY <1>4, <2>4 DEF vars, mail
  <2> QED
    BY <2>1, <2>2, <2>3, <2>4 DEF Next
<1>6. DeviceKeyKept => DeviceKeyStable
  BY DEF DeviceKeyKept, DeviceKeyStable
<1> QED
  BY <1>2, <1>5, <1>6, TypeCorrect, PTL DEF Spec

\* A keystore whose master key is sealed was sealed by the one hardware
\* provider that the vendor's host has.
SealedBySame ==
    \A k \in Keystores :
        keystore[k] # NoKeys /\ keystore[k].tpm_blob # NoBlob =>
            /\ Backend[Vendor] # "none"
            /\ keystore[k].tpm_blob.wrap = LabelWrapping(Vendor, MasterLabel)
            /\ keystore[k].tpm_blob.data = MasterKey(keystore[k].gen)

\* A vendor's host without ESAPI can always load the keystores it has written:
\* what its hardware provider seals, no firmware change takes away.
THEOREM KeystoreIsNeverStranded ==
    ASSUME Backend[Vendor] # "esapi"
    PROVE  Spec => []KeystoreNotStranded
<1>1. ASSUME NEW prov \in Providers(Vendor)
      PROVE  prov # "esapi" /\ (IsHardware(prov) => Backend[Vendor] # "none")
  <2>1. CASE Backend[Vendor] = "none"
    <3>1. Providers(Vendor) = {"software"}
      BY <2>1 DEF Providers
    <3> QED
      BY <1>1, <3>1 DEF IsHardware
  <2>2. CASE Backend[Vendor] # "none"
    <3>1. prov \in {Backend[Vendor], "software"}
      BY <1>1, <2>2 DEF Providers
    <3> QED
      BY <2>2, <3>1
  <2> QED
    BY <2>1, <2>2
<1>2. Init => SealedBySame
  BY DEF Init, SealedBySame
<1>3. ASSUME TypeOK, SealedBySame, NEW path \in Keystores,
             NEW prov \in Providers(Vendor), NEW outcome \in InitOutcomes,
             InitKeys(path, prov, outcome)
      PROVE  SealedBySame'
  <2> DEFINE new == GenerateKeystore(gens + 1, prov)
  <2>1. new.tpm_blob # NoBlob =>
            /\ Backend[Vendor] # "none"
            /\ new.tpm_blob.wrap = LabelWrapping(Vendor, MasterLabel)
            /\ new.tpm_blob.data = MasterKey(new.gen)
    BY <1>1 DEF GenerateKeystore, Seal, Wrapping, Stored
  <2>2. keystore' \in {keystore, [keystore EXCEPT ![path] = new]}
    BY <1>3 DEF InitKeys
  <2> HIDE DEF new
  <2>3. ASSUME NEW k \in Keystores
        PROVE  keystore'[k] \in {keystore[k], new}
    BY <1>3, <2>2 DEF TypeOK
  <2> QED
    BY <1>3, <2>1, <2>3 DEF SealedBySame
<1>4. TypeOK /\ SealedBySame /\ [Next]_vars => SealedBySame'
  <2> SUFFICES ASSUME TypeOK, SealedBySame, [Next]_vars
               PROVE  SealedBySame'
    OBVIOUS
  <2>1. ASSUME keystore' = keystore
        PROVE  SealedBySame'
    BY <2>1 DEF SealedBySame
  <2>2. CASE VendorStep
    BY <1>3, <2>1, <2>2 DEF VendorStep, GenerateLicense, vendorFiles
  <2>3. ASSUME NEW m \in Machines, ClientStep(m)
        PROVE  SealedBySame'
    BY <2>1, <2>3
    DEF ClientStep, InstallConfig, GenerateRequest, Activate, Deactivate, vendorFiles
  <2>4. CASE EnvironmentStep
    BY <2>1, <2>4
    DEF EnvironmentStep, ClockChanges, FirmwareChanges, HardwareChanges, vendorFiles
  <2>5. CASE UNCHANGED vars
    BY <2>1, <2>5 DEF vars, vendorFiles
  <2> QED
    BY <2>2, <2>3, <2>4, <2>5 DEF Next
<1>5. SealedBySame => KeystoreNotStranded
  <2> SUFFICES ASSUME SealedBySame, NEW k \in Keystores, keystore[k] # NoKeys
               PROVE  \E prov \in Providers(Vendor) : CanLoad(keystore[k], prov)
    BY DEF KeystoreNotStranded
  <2>1. Backend[Vendor] \in Providers(Vendor) \/ Backend[Vendor] = "none"
    BY VendorAssumption DEF Providers
  <2>2. CASE keystore[k].tpm_blob = NoBlob
    <3>1. \E prov : prov \in Providers(Vendor)
      BY VendorAssumption DEF Providers
    <3> QED
      BY <2>2, <3>1 DEF CanLoad
  <2>3. CASE keystore[k].tpm_blob # NoBlob
    <3>1. Backend[Vendor] \in Providers(Vendor) /\ Backend[Vendor] = "tbs"
      BY <2>1, <2>3, BackendAssumption, VendorAssumption DEF SealedBySame, Backends
    <3>2. CanUnseal("tbs", Vendor, pcr[Vendor], MasterLabel, keystore[k].tpm_blob)
      BY <2>3 DEF CanUnseal, Wrapping, SealedBySame
    <3>3. CanLoad(keystore[k], "tbs")
      BY <2>3, <3>2 DEF CanLoad, IsHardware, SealedBySame
    <3> QED
      BY <3>1, <3>3
  <2> QED
    BY <2>2, <2>3
<1> QED
  BY <1>2, <1>4, <1>5, TypeCorrect, PTL DEF Spec

-----------------------------------------------------------------------------
(* LicenseExchange implements Entitlement: each command and each event of  *)
(* the environment is one step of Entitlement or none.                     *)

\* A machine shows only well-formed identities.
LEMMA ShownType ==
    ASSUME TypeOK, NEW m \in Machines
    PROVE  Shown(m) \subseteq FingerprintHashes
BY ComputeType DEF TypeOK, Shown

\* What a well-formed token grants is a grant of Entitlement.
LEMMA GrantType ==
    ASSUME NEW t \in Tokens
    PROVE  GrantOf(t) \in E!Grants
BY DEF GrantOf, Tokens, Records, E!Grants

\* The mapped variables stand still when those they are built from do.
LEMMA Stutter ==
    ASSUME UNCHANGED <<hwId, published, config, requests, tokens, lic>>
    PROVE  UNCHANGED E!vars
BY DEF E!vars, Shown, Installed

\* init-keys offers a key, when it gets as far as the public file.
LEMMA InitKeysOffers ==
    ASSUME TypeOK, NEW path \in Keystores, NEW prov \in Providers(Vendor),
           NEW outcome \in InitOutcomes, InitKeys(path, prov, outcome)
    PROVE  [E!Next]_(E!vars)
<1>1. UNCHANGED <<hwId, config, requests, tokens, lic>>
  BY DEF InitKeys, environment, mail
<1>2. CASE outcome = "ok"
  <2>1. published' = published \cup {gens + 1}
    BY <1>2 DEF InitKeys
  <2>2. gens + 1 \in Gens
    <3>1. gens \in 0..MaxGens /\ MaxGens \in Nat
      BY BoundsAssumption DEF TypeOK
    <3>2. gens < MaxGens
      BY DEF InitKeys
    <3> QED
      BY <3>1, <3>2 DEF Gens
  <2>3. E!Offer(gens + 1)
    BY <1>1, <2>1 DEF E!Offer, Shown, Installed
  <2> QED
    BY <2>2, <2>3 DEF E!Next
<1>3. CASE outcome # "ok"
  <2>1. UNCHANGED published
    BY <1>3 DEF InitKeys
  <2> QED
    BY <1>1, <2>1, Stutter
<1> QED
  BY <1>2, <1>3

\* generate-license grants what the request asked.
LEMMA GenerateLicenseGrants ==
    ASSUME TypeOK, NEW path \in Keystores, NEW prov \in Providers(Vendor),
           NEW blob \in requests, NEW product \in Products,
           NEW days \in DayChoices,
           GenerateLicense(path, blob, product, days, prov)
    PROVE  [E!Next]_(E!vars)
<1> DEFINE record == BuildRecord(blob.req, product, days)
           token  == SignLicense(record, keystore[path].gen)
<1>1. tokens' = tokens \cup {token} /\ UNCHANGED <<hwId, published, config, requests, lic>>
  BY DEF GenerateLicense, environment, vendorFiles
<1>2. GrantOf(token) = AskOf(blob)
  BY DEF GenerateLicense, CanDecrypt, GrantOf, AskOf, SignLicense, BuildRecord
<1> HIDE DEF token
<1>3. blob \in Requests
  BY DEF TypeOK
<1>4. AskOf(blob) \in E!Grants
  BY <1>3 DEF AskOf, Requests, E!Grants
<1>5. {GrantOf(t) : t \in tokens'} = {GrantOf(t) : t \in tokens} \cup {AskOf(blob)}
  BY <1>1, <1>2
<1>6. E!Grant(AskOf(blob))
  BY <1>1, <1>5 DEF E!Grant, Shown, Installed
<1> QED
  BY <1>4, <1>6 DEF E!Next

\* The customer's server_pubkeys.json is the key the machine trusts.
LEMMA InstallConfigTrusts ==
    ASSUME TypeOK, NEW m \in Machines, NEW gen \in published, InstallConfig(m, gen)
    PROVE  [E!Next]_(E!vars)
<1>1. /\ config' = [config EXCEPT ![m] = gen]
      /\ UNCHANGED <<hwId, published, requests, tokens, lic>>
  BY DEF InstallConfig, environment, vendorFiles, mail
<1>2. E!Trust(m, gen)
  BY <1>1 DEF E!Trust, Shown, Installed
<1> QED
  BY <1>2 DEF E!Next, TypeOK

\* generate-request asks under the trusted key, as the machine shows itself.
LEMMA GenerateRequestAsks ==
    ASSUME TypeOK, NEW m \in Machines, NEW product \in Products,
           NEW ek \in EkHashes(m), NEW prov \in Providers(m),
           GenerateRequest(m, product, ek, prov)
    PROVE  [E!Next]_(E!vars)
<1> DEFINE nonce == Cardinality(requests) + 1
           blob  == HybridEncrypt(config[m], product,
                                  BuildRequest(m, product, ek, prov, nonce))
           ask   == AskOf(blob)
<1>1. requests' = requests \cup {blob} /\ UNCHANGED <<hwId, published, config, tokens, lic>>
  BY DEF GenerateRequest, environment, vendorFiles
<1>2. /\ ask.key = config[m] /\ ask.identity \in Shown(m)
      /\ ask = [key |-> ask.key, product |-> product, identity |-> ask.identity]
  BY DEF AskOf, HybridEncrypt, BuildRequest, Shown
<1> HIDE DEF blob
<1>3. config[m] \in Gens
  BY DEF TypeOK, GenerateRequest
<1>4. ask \in E!Grants
  <2> HIDE DEF ask
  <2> QED
    BY <1>2, <1>3, ShownType DEF E!Grants
<1>5. {AskOf(r) : r \in requests'} = {AskOf(r) : r \in requests} \cup {ask}
  BY <1>1
<1> HIDE DEF ask
<1>6. E!Ask(m, ask)
  BY <1>1, <1>2, <1>5 DEF E!Ask, Shown, Installed
<1> QED
  BY <1>4, <1>6 DEF E!Next

\* activate installs the grant of a token made for this machine as it is now.
LEMMA ActivateInstalls ==
    ASSUME TypeOK, NEW m \in Machines, NEW token \in tokens,
           NEW ek \in EkHashes(m), NEW prov \in Providers(m),
           Activate(m, token, ek, prov)
    PROVE  [E!Next]_(E!vars)
<1> DEFINE product == token.record.product_id
           grant   == GrantOf(token)
           blob    == Seal(prov, m, pcr[m], LicenseLabel(product), TokenBytes(token))
<1>1. token \in Tokens /\ product \in Products /\ LicenseLabel(product) \in Labels
  BY DEF TypeOK, Tokens, Records, Labels
<1>2. /\ lic' = [lic EXCEPT ![m][product] = blob]
      /\ UNCHANGED <<hwId, published, config, requests, tokens>>
  BY DEF Activate, ActivatedProduct, environment, vendorFiles, mail
<1>3. blob # NoBlob /\ blob.data.of = token
  <2>1. m \in Hosts /\ pcr[m] \in 1..MaxPcr
    BY DEF TypeOK, Machines
  <2>2. blob \in LicenseBlobs /\ blob.data.of = token
    BY <1>1, <2>1, SealTokenType
  <2> QED
    BY <2>2, NoBlobAssumption
<1> HIDE DEF blob
<1>4. grant.key = config[m] /\ grant.product = product
  BY DEF GrantOf, Activate, VerifyLicense, TokenBytes
<1>5. grant.identity \in Shown(m)
  BY DEF GrantOf, Shown, Activate, VerifyFingerprint
<1>6. ASSUME NEW m2 \in Machines, NEW p2 \in Products
      PROVE  Installed(m2, p2)' = IF m2 = m /\ p2 = product THEN grant
                                  ELSE Installed(m2, p2)
  <2>1. lic'[m2][p2] = IF m2 = m /\ p2 = product THEN blob ELSE lic[m2][p2]
    BY <1>1, <1>2 DEF TypeOK
  <2> QED
    BY <1>3, <2>1 DEF Installed
<1> HIDE DEF grant
<1>7. [m2 \in Machines |-> [p2 \in Products |-> Installed(m2, p2)']]
      = [[m2 \in Machines |-> [p2 \in Products |-> Installed(m2, p2)]]
            EXCEPT ![m][grant.product] = grant]
  BY <1>1, <1>4, <1>6
<1>8. grant \in {GrantOf(t) : t \in tokens}
  BY DEF grant
<1>9. E!Install(m, grant)
  BY <1>2, <1>4, <1>5, <1>7, <1>8 DEF E!Install, Shown
<1>10. grant \in E!Grants
  BY <1>1, GrantType DEF grant
<1> QED
  BY <1>9, <1>10 DEF E!Next

\* deactivate removes what is installed for the product.
LEMMA DeactivateRemoves ==
    ASSUME TypeOK, NEW m \in Machines, NEW product \in Products,
           Deactivate(m, product)
    PROVE  [E!Next]_(E!vars)
<1>1. /\ lic' = [lic EXCEPT ![m][product] = NoBlob]
      /\ UNCHANGED <<hwId, published, config, requests, tokens>>
  BY DEF Deactivate, environment, vendorFiles, mail
<1>2. ASSUME NEW m2 \in Machines, NEW p2 \in Products
      PROVE  Installed(m2, p2)' = IF m2 = m /\ p2 = product THEN NoBlob
                                  ELSE Installed(m2, p2)
  <2>1. lic'[m2][p2] = IF m2 = m /\ p2 = product THEN NoBlob ELSE lic[m2][p2]
    BY <1>1 DEF TypeOK
  <2> QED
    BY <2>1 DEF Installed
<1>3. [m2 \in Machines |-> [p2 \in Products |-> Installed(m2, p2)']]
      = [[m2 \in Machines |-> [p2 \in Products |-> Installed(m2, p2)]]
            EXCEPT ![m][product] = NoBlob]
  BY <1>2
<1>4. E!Remove(m, product)
  BY <1>1, <1>3 DEF E!Remove, Shown
<1> QED
  BY <1>4 DEF E!Next

\* Hardware may drift; clocks and firmware are nothing to Entitlement.
LEMMA EnvironmentDrifts ==
    ASSUME TypeOK, TypeOK', EnvironmentStep
    PROVE  [E!Next]_(E!vars)
<1>1. ASSUME NEW m \in Machines, NEW hw \in HwIds, HardwareChanges(m, hw)
      PROVE  [E!Next]_(E!vars)
  <2>1. /\ hwId' = [hwId EXCEPT ![m] = hw]
        /\ UNCHANGED <<published, config, requests, tokens, lic>>
    BY <1>1 DEF HardwareChanges, vendorFiles, mail
  <2>2. ASSUME NEW m2 \in Machines, m2 # m
        PROVE  Shown(m2)' = Shown(m2)
    BY <2>1, <2>2 DEF Shown, TypeOK
  <2>3. [m2 \in Machines |-> Shown(m2)']
        = [[m2 \in Machines |-> Shown(m2)] EXCEPT ![m] = Shown(m)']
    BY <2>2
  <2>4. E!Drift(m, Shown(m)')
    BY <2>1, <2>3 DEF E!Drift, Installed
  <2>5. Shown(m)' \in SUBSET FingerprintHashes
    <3>1. ASSUME NEW ek \in EkHashes(m)
          PROVE  Compute(ek, hw).hash \in FingerprintHashes
      BY ComputeType
    <3>2. hwId'[m] = hw
      BY <2>1 DEF TypeOK
    <3> QED
      BY <3>1, <3>2 DEF Shown
  <2> QED
    BY <2>4, <2>5 DEF E!Next
<1>2. ASSUME NEW h \in Hosts, NEW t \in 1..MaxTime, ClockChanges(h, t)
      PROVE  [E!Next]_(E!vars)
  BY <1>2, Stutter DEF ClockChanges, vendorFiles, mail
<1>3. ASSUME NEW h \in Hosts, NEW p \in 1..MaxPcr, FirmwareChanges(h, p)
      PROVE  [E!Next]_(E!vars)
  BY <1>3, Stutter DEF FirmwareChanges, vendorFiles, mail
<1> QED
  BY <1>1, <1>2, <1>3 DEF EnvironmentStep

\* The vendor's program, the clients and the mail between them implement the
\* abstract licence system: machines install only what they asked for under the
\* key they trust and the vendor granted.
THEOREM ExchangeImplementsEntitlement == Spec => ImplementsEntitlement
<1>1. TypeOK /\ Init => E!Init
  <2> SUFFICES ASSUME TypeOK, Init
               PROVE  E!Init
    OBVIOUS
  <2>1. [m \in Machines |-> Shown(m)] \in [Machines -> SUBSET FingerprintHashes]
    BY ShownType
  <2>2. \A m \in Machines, p \in Products : Installed(m, p) = NoBlob
    BY DEF Init, Installed
  <2> QED
    BY <2>1, <2>2 DEF Init, E!Init
<1>2. TypeOK /\ TypeOK' /\ [Next]_vars => [E!Next]_(E!vars)
  <2> SUFFICES ASSUME TypeOK, TypeOK', [Next]_vars
               PROVE  [E!Next]_(E!vars)
    OBVIOUS
  <2>1. CASE VendorStep
    BY <2>1, InitKeysOffers, GenerateLicenseGrants DEF VendorStep
  <2>2. ASSUME NEW m \in Machines, ClientStep(m)
        PROVE  [E!Next]_(E!vars)
    BY <2>2, InstallConfigTrusts, GenerateRequestAsks, ActivateInstalls,
       DeactivateRemoves DEF ClientStep
  <2>3. CASE EnvironmentStep
    BY <2>3, EnvironmentDrifts
  <2>4. CASE UNCHANGED vars
    BY <2>4, Stutter DEF vars, environment, vendorFiles, mail
  <2> QED
    BY <2>1, <2>2, <2>3, <2>4 DEF Next
<1> QED
  BY <1>1, <1>2, TypeCorrect, PTL DEF Spec, ImplementsEntitlement, E!Spec
=============================================================================
