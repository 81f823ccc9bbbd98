------------------------------- MODULE Inputs -------------------------------
(***************************************************************************)
(* What comes from outside, given piece by piece to the pure functions of  *)
(* the system: command lines, the bytes of a record on their way through   *)
(* mail and files, and what a machine says of itself.  A state is one      *)
(* input; a property says what a function makes of it.                     *)
(***************************************************************************)
EXTENDS ClientCli, ServerCli, Crypto, TpmBlob, Readings

CONSTANTS
    Kinds,          \* kinds of input to enumerate
    Letters,        \* bytes that texts are made of
    Files,          \* what a file of the machine may hold, or Missing
    Structures,     \* SMBIOS structures
    ServerOptions,  \* a flag of license-server with its value
    Longest         \* bound: pieces of an input of each kind

ASSUME LongestAssumption == \A k \in Kinds : Longest[k] \in Nat

VARIABLES kind, input
vars == <<kind, input>>

\* An operator types each option of license-server once, behind the command.
TypedNext ==
    IF input = <<>> THEN {<<"init-keys">>, <<"generate-license">>}
    ELSE {o \in ServerOptions : \A n \in 1..Len(input) : input[n][1] # o[1]}

Pieces ==
    CASE kind = "client" -> Words
      [] kind = "server" -> TypedNext
      [] kind = "bytes"  -> Letters
      [] kind = "files"  -> Files
      [] kind = "smbios" -> Structures

Extend(piece) ==
    /\ Len(input) < Longest[kind]
    /\ input' = Append(input, piece)
    /\ UNCHANGED kind

Init == kind \in Kinds /\ input = <<>>
Next == \E piece \in Pieces : Extend(piece)
Spec == Init /\ [][Next]_vars

-----------------------------------------------------------------------------
(* Command lines.                                                          *)

\* Every documented line that relies on ./server_pubkeys.json runs the command
\* it names, on the arguments it names: also when a product, token or hint has
\* the name of a command (client/src/main.cpp:249-290).
DefaultConfigLinesWork ==
    kind = "client" =>
        \A form \in Forms :
            form.config = NoConfig /\ input = FormLine(form) =>
                ClientMain(input) = Meaning(form)

\* The same for lines that name a configuration file, as README.md:188, 203,
\* 214 and 225 have them.
ConfigLinesWork ==
    kind = "client" =>
        \A form \in Forms : input = FormLine(form) => ClientMain(input) = Meaning(form)

\* Flags behind the arguments work too: a command line that runs a command on
\* one argument runs it the same when --config <path> is appended, up to what
\* this flag is for (README.md's quick start and end_to_end.sh write it so).
TrailingConfigWorks ==
    kind = "client" =>
        \A form \in Forms, path \in GoodConfigs :
            /\ form.config = NoConfig /\ form.cmd \in KeyCommands \ {"generate-request"}
            /\ input = FormLine(form) \o <<"--config", path>>
            => ClientMain(input) = Meaning([form EXCEPT !.config = path])

Given(flag, default) ==
    LET at == {n \in 1..Len(input) : input[n][1] = flag}
    IN  IF at = {} THEN default ELSE input[CHOOSE n \in at : TRUE][2]

GivenNumber(flag, default) ==
    LET word == Given(flag, default) IN IF word \in DOMAIN Numbers THEN Numbers[word] ELSE -1

\* What the usage of license-server (server/src/main.cpp:6-22) promises of a
\* line that gives each option once, in whatever order: the licence has the
\* terms that were typed, and none is made where one is missing or unreadable.
ServerLinesWork ==
    kind = "server" /\ input # <<>> =>
        LET call == ServerMain(FlattenSeq(input))
            needed == IF input[1] = <<"init-keys">> THEN {"--keystore"}
                      ELSE {"--keystore", "--blob", "--product"}
            numbers == {GivenNumber("--days", "365"), GivenNumber("--max-activations", "1")}
            json == \E n \in 1..Len(input) : input[n] = <<"--json">>
        IN  IF \E flag \in needed : Given(flag, "") = "" THEN call.call = "none"
            ELSE IF input[1] = <<"init-keys">>
            THEN call = [call |-> "init-keys", keystore |-> Given("--keystore", ""),
                         pub |-> Given("--pub-out", "server_pubkeys.json"),
                         pass |-> Given("--passphrase", Prompted), json |-> json]
            ELSE IF -1 \in numbers THEN call.call = "none"
            ELSE /\ call.call = "generate-license" /\ call.json = json
                 /\ call.keystore = Given("--keystore", "")
                 /\ call.blob = Given("--blob", "") /\ call.product = Given("--product", "")
                 /\ call.pass = Given("--passphrase", Prompted)
                 /\ call.days = GivenNumber("--days", "365")
                 /\ call.max = GivenNumber("--max-activations", "1")
                 /\ ToSet(call.features) = ToSet(Fields[Given("--features", "")]) \ {""}

-----------------------------------------------------------------------------
(* Bytes.                                                                  *)

KeyNumbers == 0..1      \* keys of the two parties
Ephemeral == 2          \* the sender's
Nonce == <<3>>
Widths == 1..5          \* where mail breaks lines

\* A line break after every `width' letters.
Wrapped(chars, width) ==
    FlattenSeq([n \in 1..Len(chars) |->
                   IF n % width = 0 THEN <<chars[n], Blank>> ELSE <<chars[n]>>])

\* A request blob that mail has wrapped opens under the vendor's key and for the
\* product it was made for, to what the client put in, and under no other; one
\* that lost its end does not open (license_client.cpp:146-158,
\* server/src/main.cpp:237-252).
RequestSurvivesMail ==
    kind = "bytes" =>
        \A to, key, aad, product \in KeyNumbers :
            LET blob == Base64Encode(HybridEncrypt(to, aad, Ephemeral, Nonce, input))
                Opened(mail) == LET c == Base64Decode(mail)
                                IN  IF c.ok THEN HybridDecrypt(key, product, c.value) ELSE Refused
            IN  /\ \A width \in Widths :
                      Opened(Wrapped(blob, width)) =
                          IF key = to /\ product = aad THEN Accepted(input) ELSE Refused
                /\ \A n \in 0..Len(blob) - 1 : Opened(SubSeq(blob, 1, n)) = Refused

\* The same for a token: it opens under the key of its vendor, wrapped or not,
\* and a token that lost its end under none (license.cpp:117-172).
TokenSurvivesMail ==
    kind = "bytes" =>
        \A signer, key \in KeyNumbers :
            LET token == SignToken(signer, input)
            IN  /\ \A width \in Widths :
                      OpenToken(key, Wrapped(token, width)) =
                          IF key = signer THEN Accepted(input) ELSE Refused
                /\ \A n \in 0..Len(token) - 1 : OpenToken(key, SubSeq(token, 1, n)) = Refused

\* A TPM blob gives back the two halves that were sealed, and a file that a
\* killed or short write cut anywhere is refused before the TPM sees it
\* (tpm_linux.cpp:325-353).
TornBlobRefused ==
    kind = "bytes" =>
        \A n \in 0..Len(input) :
            LET priv == SubSeq(input, 1, n)
                pub  == SubSeq(input, n + 1, Len(input))
                blob == Frame(priv, pub)
            IN  /\ Unframe(blob) = Accepted([priv |-> priv, pub |-> pub])
                /\ \A m \in 0..Len(blob) - 1 : Unframe(SubSeq(blob, 1, m)) = Refused

-----------------------------------------------------------------------------
(* What a machine says of itself.                                          *)

\* One component more out of the hashed bytes, while there are any.
NextComponent(done) ==
    LET size == ReadLen32(done.rest, 0)
    IN  IF Len(done.rest) < 4 THEN done
        ELSE IF Len(done.rest) < 4 + size THEN done
        ELSE [found |-> Append(done.found, SubSeq(done.rest, 5, 4 + size)),
              rest  |-> SubSeq(done.rest, 5 + size, Len(done.rest))]

Components(bytes) ==
    NextComponent(NextComponent(NextComponent(NextComponent(
        [found |-> <<>>, rest |-> SubSeq(bytes, Len(Prefix) + 1, Len(bytes))]))))

Unpadded(text) == \A n \in 1..Len(text) : n = Len(text) => text[n] # Space

\* Machines that differ in a component are hashed over different bytes: each
\* component can be read back from them ("The length-prefixed encoding prevents
\* component boundary confusion", fingerprint.h:69), and none has the padding
\* that firmware and drivers put behind their strings.
ComponentsToldApart ==
    kind = "files" /\ Len(input) = 6 =>
        LET ek   == IF input[1] = Missing THEN <<>> ELSE input[1]
            uuid == SmbiosUuid(input[2], input[3])
            cpu  == CpuId(IF input[4] = Missing THEN <<>> ELSE input[4], <<1>>)
            disk == PrimaryDiskSerial(input[5], input[6])
            back == Components(Canonical(ek, uuid, cpu, disk))
        IN  /\ back = [found |-> <<ek, uuid, cpu, disk>>, rest |-> <<>>]
            /\ Unpadded(uuid) /\ Unpadded(disk)
            /\ disk = <<>> => \A n \in 5..6 : ReadSysfs(input[n]) = <<>>

\* The bytes of structure number i: its formatted area, then its strings.
StructureBytes(i) ==
    LET s == input[i]
    IN  <<s.type, s.length>> \o [k \in 1..s.length - 2 |-> IF k = 3 THEN 0 ELSE 32 * i + k]
        \o (IF s.strings = <<>> THEN <<0>>
            ELSE FlattenSeq([k \in 1..Len(s.strings) |-> Append(s.strings[k], 0)]))
        \o <<0>>

\* The UUID that Windows builds hash is that of the first System Information
\* structure long enough to have one, before the end-of-table structure and
\* whatever strings stand between (fingerprint.cpp:107-142).
FirstSystemUuid ==
    kind = "smbios" =>
        LET table == FlattenSeq([i \in 1..Len(input) |-> StructureBytes(i)])
            systems == {i \in 1..Len(input) :
                           /\ input[i].type = 1 /\ input[i].length >= 25
                           /\ \A j \in 1..i : input[j].type # 127}
            raw == SubSeq(StructureBytes(Min(systems)), 9, 24)
            uuid == Reverse(SubSeq(raw, 1, 4)) \o Reverse(SubSeq(raw, 5, 6))
                    \o Reverse(SubSeq(raw, 7, 8)) \o SubSeq(raw, 9, 16)
        IN  RawSmbiosUuid([k \in 1..HeaderLen |-> 0] \o table)
              = IF systems = {} THEN <<>> ELSE uuid
=============================================================================
