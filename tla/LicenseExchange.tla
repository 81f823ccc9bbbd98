-------------------------- MODULE LicenseExchange --------------------------
(***************************************************************************)
(* The offline licence exchange: a vendor who creates and rotates keys and *)
(* answers request blobs with signed tokens (server/src/main.cpp,          *)
(* common/src/keystore.cpp), customers' machines that request, activate,   *)
(* verify and deactivate (client/src/license_client.cpp), and the mail     *)
(* between them, which may lose, delay, repeat and reorder: a blob or a    *)
(* token, once produced, may be used at any later time or never.           *)
(*                                                                         *)
(* A command is one step here; ClientStore takes the client's commands     *)
(* apart into file operations.  A command that fails changes nothing       *)
(* except where an action below says so.                                   *)
(***************************************************************************)
EXTENDS Integers, FiniteSets, License, TpmProvider

CONSTANTS
    Vendor,         \* the host the server program runs on
    Products,
    HwIds,          \* what the UUID, CPU and disk readings may amount to
    DayChoices,     \* the --days the vendor may type
    Keystores,      \* paths of keystore files
    NoKeys,         \* no keystore file at a path
    MaxTime, MaxPcr, MaxGens, MaxRequests, MaxIssues    \* bounds for TLC

Machines == Hosts \ {Vendor}

ASSUME VendorAssumption == Vendor \in Hosts
ASSUME BoundsAssumption ==
    {MaxTime, MaxPcr, MaxGens, MaxRequests, MaxIssues} \subseteq Nat \ {0}
ASSUME DayChoicesAssumption == DayChoices \subseteq Int

NoGen == 0      \* no server_pubkeys.json

MasterLabel == <<"keystore-master">>
LicenseLabel(product) == <<"license", product>>
Labels == {MasterLabel} \cup {LicenseLabel(p) : p \in Products}

VARIABLES
    clock,      \* [Hosts -> time], set by each host's owner
    pcr,        \* [Hosts -> PCR 0+7 state]
    hwId,       \* [Machines -> HwIds]
    gens,       \* number of server key generations made so far
    keystore,   \* [Keystores -> NoKeys or the keystore file]
    published,  \* generations whose server_pubkeys.json was written and shipped
    config,     \* [Machines -> generation in their server_pubkeys.json]
    requests,   \* request blobs sent, in any order and number
    tokens,     \* tokens issued, likewise
    lic,        \* [Machines -> [Products -> the .lic file or NoBlob]]
    sealedFile, \* [Hosts -> [Labels -> the .sealed file or NoBlob]]
    devkey      \* [Machines -> [Products -> key in .devkey, 0 if none]]

environment == <<clock, pcr, hwId>>
vendorFiles == <<gens, keystore, published>>
mail == <<requests, tokens>>
vars == <<environment, vendorFiles, config, mail, lic, sealedFile, devkey>>

-----------------------------------------------------------------------------
(* The vendor's commands.                                                  *)

\* The master key that Argon2id derives for the keystore of a generation.  The
\* operator is taken to type the keystore's passphrase: another one fails to
\* unseal or to decrypt and the command stops before anything changes.
MasterKey(gen) == [of |-> [master |-> gen], size |-> 32]

\* Mutant of GenerateKeystore: the master key of the generation before is sealed.
GenerateStaleKeystore(gen, prov) ==
    [gen |-> gen,
     tpm_blob |-> IF IsHardware(prov)
                  THEN Seal(prov, Vendor, pcr[Vendor], MasterLabel, MasterKey(gen - 1))
                  ELSE NoBlob]

\* What init-keys hands to generate_keystore, which seals the master key only
\* when the provider is hardware.
GenerateKeystore(gen, prov) ==
    [gen |-> gen,
     tpm_blob |-> IF IsHardware(prov)
                  THEN Seal(prov, Vendor, pcr[Vendor], MasterLabel, MasterKey(gen))
                  ELSE NoBlob]

\* load_keystore succeeds on the file.
CanLoad(file, prov) ==
    /\ file # NoKeys
    /\ file.tpm_blob # NoBlob =>
          /\ IsHardware(prov)
          /\ CanUnseal(prov, Vendor, pcr[Vendor], MasterLabel, file.tpm_blob)
          /\ file.tpm_blob.data = MasterKey(file.gen)

\* cmd_init_keys: the provider seals, the keystore at the path is replaced,
\* whatever it held, and only then the public file is written.  Either write
\* may fail and leaves what the earlier steps did.
InitOutcomes == {"ok", "no keystore", "no public file"}

InitKeys(path, prov, outcome) ==
    LET gen  == gens + 1
        file == GenerateKeystore(gen, prov)
    IN  /\ gens < MaxGens
        /\ gens' = gen
        /\ sealedFile' =
              IF IsHardware(prov)
              THEN [sealedFile EXCEPT ![Vendor] =
                      KeepSealed(prov, @, MasterLabel, file.tpm_blob)]
              ELSE sealedFile
        /\ keystore' = IF outcome = "no keystore" THEN keystore
                       ELSE [keystore EXCEPT ![path] = file]
        /\ published' = IF outcome = "ok" THEN published \cup {gen} ELSE published
        /\ UNCHANGED <<environment, config, mail, lic, devkey>>

\* A request blob, and hybrid_decrypt with the keystore's key and the AAD of --product.
HybridEncrypt(gen, product, req) == [to |-> gen, aad |-> product, req |-> req]
CanDecrypt(blob, gen, product) == blob.to = gen /\ blob.aad = product

\* The record cmd_generate_license builds from a request.
BuildRecord(req, product, days) ==
    [license_id |-> Cardinality(tokens) + 1,
     product_id |-> product,
     fingerprint_hash |-> req.fingerprint_hash,
     fingerprint_assurance |-> req.fingerprint_assurance,
     issued_at |-> clock[Vendor],
     expires_at |-> ExpiresAt(clock[Vendor], days)]

\* cmd_generate_license.  Nothing remembers that a request was answered.
GenerateLicense(path, blob, product, days, prov) ==
    /\ Cardinality(tokens) < MaxIssues
    /\ CanLoad(keystore[path], prov)
    /\ CanDecrypt(blob, keystore[path].gen, product)
    /\ blob.req.product_id = product
    /\ TimestampIsFresh(blob.req.timestamp, clock[Vendor])
    /\ tokens' = tokens \cup
          {SignLicense(BuildRecord(blob.req, product, days), keystore[path].gen)}
    /\ UNCHANGED <<environment, vendorFiles, config, requests, lic, sealedFile, devkey>>

-----------------------------------------------------------------------------
(* The client's commands on machine m.  `prov' is the provider that        *)
(* create_provider returns to this command, `ek' what tpm_ek_hash returns. *)

\* The customer puts a server_pubkeys.json in place; an old one may arrive late.
InstallConfig(m, gen) ==
    /\ gen # config[m]
    /\ config' = [config EXCEPT ![m] = gen]
    /\ UNCHANGED <<environment, vendorFiles, mail, lic, sealedFile, devkey>>

BuildRequest(m, product, ek, prov, nonce) ==
    LET fp == Compute(ek, hwId[m])
    IN  [customer_hint |-> m,
         product_id |-> product,
         fingerprint_hash |-> fp.hash,
         fingerprint_assurance |-> fp.assurance_level,
         device_pubkey |-> GetDeviceKey(prov, devkey[m][product], nonce),
         timestamp |-> clock[m],
         nonce |-> nonce]

GenerateRequest(m, product, ek, prov) ==
    LET nonce == Cardinality(requests) + 1
    IN  /\ Cardinality(requests) < MaxRequests
        /\ config[m] # NoGen
        /\ devkey' = [devkey EXCEPT ![m][product] = KeepDeviceKey(prov, @, nonce)]
        /\ requests' = requests \cup
              {HybridEncrypt(config[m], product, BuildRequest(m, product, ek, prov, nonce))}
        /\ UNCHANGED <<environment, vendorFiles, config, tokens, lic, sealedFile>>

\* Mutant of ActivatedProduct: every licence goes to one path.
OneProductForAll(token) == CHOOSE p \in Products : TRUE

\* The product whose .lic activate writes is the one the token names.
ActivatedProduct(token) == token.record.product_id

\* activate: check the token, check the fingerprint, seal, write the .lic.
Activate(m, token, ek, prov) ==
    LET product == ActivatedProduct(token)
        label   == LicenseLabel(product)
        blob    == Seal(prov, m, pcr[m], label, TokenBytes(token))
    IN  /\ config[m] # NoGen
        /\ VerifyLicense(TokenBytes(token), config[m], clock[m])
        /\ VerifyFingerprint(token.record.fingerprint_hash, ek, hwId[m])
        /\ lic' = [lic EXCEPT ![m][product] = blob]
        /\ sealedFile' = [sealedFile EXCEPT ![m] = KeepSealed(prov, @, label, blob)]
        /\ UNCHANGED <<environment, vendorFiles, config, mail, devkey>>

\* deactivate: overwrite and remove the .lic of a product.
Deactivate(m, product) ==
    /\ lic[m][product] # NoBlob
    /\ lic' = [lic EXCEPT ![m][product] = NoBlob]
    /\ UNCHANGED <<environment, vendorFiles, config, mail, sealedFile, devkey>>

\* verify_at_startup.valid.  It changes nothing, so it is no action: any
\* process may ask at any moment, and the properties quantify over its answer.
VerifyAtStartup(m, product, ek, prov) ==
    LET blob == lic[m][product]
    IN  /\ config[m] # NoGen
        /\ CanUnseal(prov, m, pcr[m], LicenseLabel(product), blob)
        /\ VerifyLicense(blob.data, config[m], clock[m])
        /\ VerifyFingerprint(blob.data.of.record.fingerprint_hash, ek, hwId[m])

\* The record it reports when valid.
StoredRecord(m, product) == lic[m][product].data.of.record

-----------------------------------------------------------------------------
(* What happens to the machines themselves.                                *)

\* A clock runs, is corrected or is set back.
ClockChanges(h, t) ==
    /\ t # clock[h]
    /\ clock' = [clock EXCEPT ![h] = t]
    /\ UNCHANGED <<pcr, hwId, vendorFiles, config, mail, lic, sealedFile, devkey>>

\* A firmware or Secure Boot change moves PCR 0 or 7; only ESAPI reads them.
FirmwareChanges(h, p) ==
    /\ Backend[h] = "esapi"
    /\ p # pcr[h]
    /\ pcr' = [pcr EXCEPT ![h] = p]
    /\ UNCHANGED <<clock, hwId, vendorFiles, config, mail, lic, sealedFile, devkey>>

\* A disk or board is exchanged, or the readings of a process with other
\* rights differ.
HardwareChanges(m, hw) ==
    /\ hw # hwId[m]
    /\ hwId' = [hwId EXCEPT ![m] = hw]
    /\ UNCHANGED <<clock, pcr, vendorFiles, config, mail, lic, sealedFile, devkey>>

-----------------------------------------------------------------------------
Init ==
    /\ clock \in [Hosts -> 1..MaxTime]
    /\ pcr = [h \in Hosts |-> 1]
    /\ hwId \in [Machines -> HwIds]
    /\ gens = 0
    /\ keystore = [k \in Keystores |-> NoKeys]
    /\ published = {}
    /\ config = [m \in Machines |-> NoGen]
    /\ requests = {}
    /\ tokens = {}
    /\ lic = [m \in Machines |-> [p \in Products |-> NoBlob]]
    /\ sealedFile = [h \in Hosts |-> [l \in Labels |-> NoBlob]]
    /\ devkey = [m \in Machines |-> [p \in Products |-> 0]]

VendorStep ==
    \E path \in Keystores, prov \in Providers(Vendor) :
        \/ \E outcome \in InitOutcomes : InitKeys(path, prov, outcome)
        \/ \E blob \in requests, product \in Products, days \in DayChoices :
              GenerateLicense(path, blob, product, days, prov)

ClientStep(m) ==
    \/ \E gen \in published : InstallConfig(m, gen)
    \/ \E prov \in Providers(m), ek \in EkHashes(m) :
          \/ \E product \in Products : GenerateRequest(m, product, ek, prov)
          \/ \E token \in tokens : Activate(m, token, ek, prov)
    \/ \E product \in Products : Deactivate(m, product)

EnvironmentStep ==
    \/ \E h \in Hosts, t \in 1..MaxTime : ClockChanges(h, t)
    \/ \E h \in Hosts, p \in 1..MaxPcr : FirmwareChanges(h, p)
    \/ \E m \in Machines, hw \in HwIds : HardwareChanges(m, hw)

Next == VendorStep \/ EnvironmentStep \/ \E m \in Machines : ClientStep(m)

Spec == Init /\ [][Next]_vars

-----------------------------------------------------------------------------
(* Types.                                                                  *)

Time == 1..MaxTime
Gens == 1..MaxGens
Assurances == {"hardware", "software"}
EkValues == {NoEk} \cup {Ek[h] : h \in Hosts}
FingerprintHashes == [ek : EkValues, hw : HwIds]

Requests ==
    [to : Gens, aad : Products,
     req : [customer_hint : Machines, product_id : Products,
            fingerprint_hash : FingerprintHashes,
            fingerprint_assurance : Assurances,
            device_pubkey : Nat \ {0}, timestamp : Time, nonce : Nat \ {0}]]

Records ==
    [license_id : Nat \ {0}, product_id : Products,
     fingerprint_hash : FingerprintHashes, fingerprint_assurance : Assurances,
     issued_at : Time, expires_at : Nat]
Tokens == [record : Records, key : Gens]

Wrappings == [by : {"esapi", "software"}, host : Hosts,
              pcr : 0..MaxPcr, label : Labels \cup {NoLabel}]
LicenseBlobs == [wrap : Wrappings, data : [of : Tokens, size : Nat]]
MasterBlobs == [wrap : Wrappings, data : [of : [master : Gens], size : Nat]]

\* Every variable has its type; in particular keystores and .lic files hold
\* what the programs can read back.
TypeOK ==
    /\ clock \in [Hosts -> Time]
    /\ pcr \in [Hosts -> 1..MaxPcr]
    /\ hwId \in [Machines -> HwIds]
    /\ gens \in 0..MaxGens
    /\ keystore \in [Keystores ->
          {NoKeys} \cup [gen : Gens, tpm_blob : MasterBlobs \cup {NoBlob}]]
    /\ published \subseteq Gens
    /\ config \in [Machines -> Gens \cup {NoGen}]
    /\ requests \subseteq Requests /\ IsFiniteSet(requests)
    /\ tokens \subseteq Tokens /\ IsFiniteSet(tokens)
    /\ lic \in [Machines -> [Products -> LicenseBlobs \cup {NoBlob}]]
    /\ sealedFile \in
          [Hosts -> [Labels -> LicenseBlobs \cup MasterBlobs \cup {NoBlob}]]
    /\ devkey \in [Machines -> [Products -> Nat]]

-----------------------------------------------------------------------------
(* Safety.                                                                 *)

\* What entitles a machine to a product at some moment: a token of the
\* generation it is configured with, for that product and not expired, that
\* answers a request which described the machine as it is now and which the
\* vendor had received less than MaxAge before, by the vendor's clock.
Answers(token, request) ==
    /\ request.to = token.key
    /\ request.req.product_id = token.record.product_id
    /\ request.req.fingerprint_hash = token.record.fingerprint_hash
    /\ request.req.fingerprint_assurance = token.record.fingerprint_assurance
    /\ token.record.issued_at - request.req.timestamp \in 0..MaxAge

Entitles(token, m, product, ek) ==
    /\ token.key = config[m]
    /\ token.record.product_id = product
    /\ ~IsExpired(token.record, clock[m])
    /\ \E r \in requests :
          /\ Answers(token, r)
          /\ r.req.fingerprint_hash = [ek |-> ek, hw |-> hwId[m]]

\* verify_at_startup says "valid" only for an entitlement, across rotations,
\* replayed mail, PCR and hardware drift and provider changes.  In particular
\* the record it reports is for the product asked for, though
\* license_client.cpp:238-251 never compares the two: the path and the seal
\* label have to guarantee it.
VerifiedIsEntitled ==
    \A m \in Machines, p \in Products :
        \A ek \in EkHashes(m), prov \in Providers(m) :
            VerifyAtStartup(m, p, ek, prov) =>
                \E t \in tokens : /\ t.record = StoredRecord(m, p)
                                  /\ Entitles(t, m, p, ek)

\* The assurance level that verify reports (license_client.cpp:247), fixed on
\* the machine when the request was made and carried through the vendor, is
\* "hardware" exactly when the TPM answers in this very verification.
AssuranceTruthful ==
    \A m \in Machines, p \in Products :
        \A ek \in EkHashes(m), prov \in Providers(m) :
            VerifyAtStartup(m, p, ek, prov) =>
                (StoredRecord(m, p).fingerprint_assurance = "hardware" <=> ek # NoEk)

\* A .lic that a provider can unseal was sealed by activate for the product of
\* its path: activations of several products never cross.
LicenseStoreSound ==
    \A m \in Machines, p \in Products :
        lic[m][p] # NoBlob =>
            /\ lic[m][p].data.of \in tokens
            /\ lic[m][p].data.of.record.product_id = p
            /\ lic[m][p].wrap.host = m

\* A token exists only as the answer to a request encrypted to the same key
\* generation (server/src/main.cpp:249-287).
TokensAnswerRequests == \A t \in tokens : \E r \in requests : Answers(t, r)

\* The assurance a request claims is that of the fingerprint it carries.
RequestsTruthful ==
    \A r \in requests :
        r.req.fingerprint_assurance = "hardware" <=> r.req.fingerprint_hash.ek # NoEk

\* What a step needs to know of the mail and of the stores to keep the two
\* promises above: the inductive invariant, together with TypeOK.
ExchangeInv == TokensAnswerRequests /\ RequestsTruthful /\ LicenseStoreSound

\* A keystore that init-keys wrote can be loaded again (keystore.cpp:166) by
\* some provider the vendor's host offers, with the key pair that the vendor
\* published with it.
KeystoreNotStranded ==
    \A k \in Keystores :
        keystore[k] # NoKeys =>
            \E prov \in Providers(Vendor) : CanLoad(keystore[k], prov)

\* Two requests of a machine for a product name the same device key
\* (tpm_provider.h:63: "Generate (or load from sealed storage)").
DeviceKeyStable ==
    \A r1, r2 \in requests :
        /\ r1.req.customer_hint = r2.req.customer_hint
        /\ r1.req.product_id = r2.req.product_id
        => r1.req.device_pubkey = r2.req.device_pubkey

-----------------------------------------------------------------------------
(* What a step may never do.                                               *)

\* A successful activate leaves a licence that verify_at_startup then accepts
\* (README.md:218 and 228: activate seals, verify unseals and re-verifies).
ActivationSticks ==
    [][\A m \in Machines, p \in Products :
          lic'[m][p] \notin {lic[m][p], NoBlob} =>
              \E ek \in EkHashes(m), prov \in Providers(m) :
                  VerifyAtStartup(m, p, ek, prov)']_vars

\* A licence that was valid is not, once the customer's server_pubkeys.json is
\* replaced by that of another generation (README.md:292 and 296).
RotationRevokes ==
    [][\A m \in Machines, p \in Products :
          \A ek \in EkHashes(m), prov \in Providers(m) :
              config'[m] # config[m] /\ VerifyAtStartup(m, p, ek, prov) =>
                  ~VerifyAtStartup(m, p, ek, prov)']_vars

-----------------------------------------------------------------------------
(* The exchange implements Entitlement: a request is an ask, a token the    *)
(* grant it carries, server_pubkeys.json the trusted key and the .lic files *)
(* what is installed.                                                       *)

GrantOf(token) ==
    [key |-> token.key, product |-> token.record.product_id,
     identity |-> token.record.fingerprint_hash]
AskOf(request) ==
    [key |-> request.to, product |-> request.req.product_id,
     identity |-> request.req.fingerprint_hash]
Shown(m) == {Compute(ek, hwId[m]).hash : ek \in EkHashes(m)}
\* The absent blob is taken neither for a licence nor for a grant.
ASSUME NoBlobAssumption ==
    /\ NoBlob \notin LicenseBlobs
    /\ NoBlob \notin [key : Gens, product : Products, identity : FingerprintHashes]
Installed(m, p) == IF lic[m][p] = NoBlob THEN NoBlob ELSE GrantOf(lic[m][p].data.of)

E == INSTANCE Entitlement WITH
    Identities <- FingerprintHashes, Keys <- Gens, NoKey <- NoGen, NoGrant <- NoBlob,
    identity <- [m \in Machines |-> Shown(m)],
    offered <- published,
    trusted <- config,
    asked <- {AskOf(r) : r \in requests},
    granted <- {GrantOf(t) : t \in tokens},
    installed <- [m \in Machines |-> [p \in Products |-> Installed(m, p)]]

\* Whatever the vendor, the customers, their machines and the mail do, it is a
\* behaviour of Entitlement (server/src/main.cpp:204, license_client.cpp:119-276).
ImplementsEntitlement == E!Spec

\* verify_at_startup says "valid" only where Entitlement allows the use: the
\* code promises no more than the abstract system does.
ValidIsUsable ==
    \A m \in Machines, p \in Products :
        \A ek \in EkHashes(m), prov \in Providers(m) :
            VerifyAtStartup(m, p, ek, prov) => E!Usable(m, p)
=============================================================================
