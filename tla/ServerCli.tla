----------------------------- MODULE ServerCli -----------------------------
(***************************************************************************)
(* How license-server understands its command line                         *)
(* (server/src/main.cpp): the call, with its defaults filled in and its    *)
(* numbers and lists read, or an end without one.                          *)
(***************************************************************************)
EXTENDS CommandLine, SequencesExt

CONSTANTS
    Numbers,    \* what stoi and stoul read of a word, where they read anything
    Fields,     \* what stands between the commas of a word
    UIntLimit   \* max_activations is a uint32_t: 2^32 in the code

\* A passphrase asked for at the terminal.
Prompted == "(prompted)"

Option(line, flag) == GetArg(line, flag, "")
Passphrase(line) ==
    IF Option(line, "--passphrase") = "" THEN Prompted ELSE Option(line, "--passphrase")

\* Mutant of ParseFeatures: empty names are kept.
ParseFeaturesAll(word) == Fields[word]

ParseFeatures(word) ==
    FlattenSeq([n \in 1..Len(Fields[word]) |->
                   IF Fields[word][n] = "" THEN <<>> ELSE <<Fields[word][n]>>])

NoCall(why) == [call |-> "none", why |-> why]

InitKeysCall(line) ==
    IF Option(line, "--keystore") = "" THEN NoCall("--keystore is required")
    ELSE [call |-> "init-keys", keystore |-> Option(line, "--keystore"),
          pub |-> GetArg(line, "--pub-out", "server_pubkeys.json"),
          pass |-> Passphrase(line), json |-> HasFlag(line, "--json")]

\* The numbers are read last; stoi and stoul throw at a word that is none, and
\* nothing catches that.  A number of days below 1 stands for no expiry.
GenerateLicenseCall(line) ==
    LET days == GetArg(line, "--days", "365")
        max  == GetArg(line, "--max-activations", "1")
    IN  IF \E flag \in {"--keystore", "--blob", "--product"} : Option(line, flag) = ""
        THEN NoCall("an option is required")
        ELSE IF {days, max} \subseteq DOMAIN Numbers
        THEN [call |-> "generate-license", keystore |-> Option(line, "--keystore"),
              blob |-> Option(line, "--blob"), product |-> Option(line, "--product"),
              pass |-> Passphrase(line),
              features |-> ParseFeatures(Option(line, "--features")),
              days |-> IF Numbers[days] > 0 THEN Numbers[days] ELSE 0,
              max |-> Numbers[max] % UIntLimit, json |-> HasFlag(line, "--json")]
        ELSE NoCall("terminated")

ServerMain(line) ==
    CASE line = <<>> \/ HasFlag(line, "--help") \/ HasFlag(line, "-h") -> NoCall("usage")
      [] OTHER ->
           CASE line[1] = "init-keys" -> InitKeysCall(line)
             [] line[1] = "generate-license" -> GenerateLicenseCall(line)
             [] OTHER -> NoCall("unknown command")
=============================================================================
