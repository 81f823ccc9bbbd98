------------------------------ MODULE MCInputs ------------------------------
\* Bytes of 16 values in letters of 8: four letters still hold three bytes.
EXTENDS Inputs, TLC

AllKinds == {"client", "server", "bytes", "files", "smbios"}
ClientOnly == {"client"}
Bounds == ("client" :> 5) @@ ("server" :> 6) @@ ("bytes" :> 3) @@ ("files" :> 6)
          @@ ("smbios" :> 3)

ReadNumbers == ("365" :> 365) @@ ("30" :> 30) @@ ("0" :> 0) @@ ("1" :> 1) @@ ("7" :> 7)
CommaFields == ("" :> <<>>) @@ ("pro" :> <<"pro">>) @@ (",pro,,net" :> <<"", "pro", "", "net">>)

OptionsTyped ==
    {<<"--keystore", "ks">>, <<"--pub-out", "pub.json">>, <<"--blob", "blob">>,
     <<"--product", "myapp">>, <<"--product", "init-keys">>,
     <<"--features", "pro">>, <<"--features", ",pro,,net">>,
     <<"--days", "30">>, <<"--days", "0">>, <<"--days", "many">>,
     <<"--max-activations", "7">>, <<"--passphrase", "secret">>, <<"--json">>}

FileContents == {Missing, <<>>, <<Space, NewLine, 7>>, <<7>>, <<7, 8, Space>>, <<8, NewLine>>}

SmbiosStructures ==
    [type : {0, 1, 127}, length : {8, 27}, strings : {<<>>, <<<<1>>>>, <<<<127, 4>>, <<1, 27, 3>>>>}]
=============================================================================
