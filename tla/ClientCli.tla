----------------------------- MODULE ClientCli -----------------------------
(***************************************************************************)
(* How license-client understands its command line                         *)
(* (client/src/main.cpp): ClientMain is what the program makes of a line,  *)
(* the library call with its arguments or an end without one.              *)
(***************************************************************************)
EXTENDS CommandLine

CONSTANTS
    Values,         \* words that are no flag: products, tokens, hints, paths
    GoodConfigs     \* paths with a well-formed server_pubkeys.json

DefaultConfig == "server_pubkeys.json"
Flags == {"--config", "--json", "--help", "-h"}
KeyCommands == {"generate-request", "activate", "verify"}
Commands == KeyCommands \cup {"deactivate", "fingerprint"}
Words == Flags \cup Commands \cup Values

ASSUME ValuesAssumption ==
    Values \cap Flags = {} /\ GoodConfigs \subseteq Values \cup {DefaultConfig}

-----------------------------------------------------------------------------
\* main takes the first word that does not start with '-' for the subcommand.
Subcommand(line) ==
    LET at == {n \in 1..Len(line) : line[n] \notin Flags}
    IN  IF at = {} THEN "" ELSE line[First(at)]

\* A command finds its own name on the line, wherever it stands first, and
\* takes its arguments from behind it, flags or not.
Params(line, cmd) == SubSeq(line, First(Positions(line, cmd)) + 1, Len(line))

Ends(how) == [call |-> how]
Calls(cmd, params, config, json) ==
    [call |-> cmd, params |-> params, config |-> config, json |-> json]

\* cmd_generate_request, cmd_activate, cmd_verify, cmd_deactivate.
RunCommand(line, cmd, config, json) ==
    LET params == Params(line, cmd)
        taken == IF cmd = "generate-request" THEN 2 ELSE 1
    IN  IF params = <<>> THEN Ends("argument missing")
        ELSE Calls(cmd, SubSeq(params, 1, IF Len(params) < taken THEN Len(params) ELSE taken),
                   config, json)

ClientMain(line) ==
    LET cmd    == Subcommand(line)
        config == GetArg(line, "--config", DefaultConfig)
        json   == HasFlag(line, "--json")
    IN  CASE line = <<>> \/ HasFlag(line, "--help") \/ HasFlag(line, "-h") -> Ends("usage")
          [] OTHER ->
               CASE cmd = "fingerprint" -> Calls(cmd, <<>>, "", json)
                 [] cmd = "deactivate" -> RunCommand(line, cmd, "", json)
                 [] cmd = "" -> Ends("usage")
                 [] OTHER ->
                      CASE config \notin GoodConfigs -> Ends("no keys")
                        [] config \in GoodConfigs /\ cmd \in KeyCommands ->
                              RunCommand(line, cmd, config, json)
                        [] OTHER -> Ends("unknown command")

-----------------------------------------------------------------------------
(* The usage that main.cpp:8-18 and README.md:187-246 document:            *)
(*   license-client [--config <path>] [--json] <command> [args]            *)

NoConfig == ""
Arguments(cmd) ==
    CASE cmd = "fingerprint" -> {<<>>}
      [] cmd = "generate-request" ->
            {<<x>> : x \in Values} \cup {<<x, y>> : x, y \in Values}
      [] OTHER -> {<<x>> : x \in Values \cup Commands}

Forms ==
    UNION {[config : {NoConfig} \cup Values, json : BOOLEAN, cmd : {cmd},
            params : Arguments(cmd)] : cmd \in Commands}

FormLine(form) ==
    (IF form.config = NoConfig THEN <<>> ELSE <<"--config", form.config>>)
    \o (IF form.json THEN <<"--json">> ELSE <<>>) \o <<form.cmd>> \o form.params

Meaning(form) ==
    LET config == IF form.config = NoConfig THEN DefaultConfig ELSE form.config
    IN  CASE form.cmd \in KeyCommands /\ config \notin GoodConfigs -> Ends("no keys")
          [] OTHER -> Calls(form.cmd, form.params,
                            IF form.cmd \in KeyCommands THEN config ELSE "", form.json)
=============================================================================
