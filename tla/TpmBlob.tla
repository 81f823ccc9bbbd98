------------------------------ MODULE TpmBlob ------------------------------
(***************************************************************************)
(* How tpm_linux.cpp packs the two halves of a sealed object into the blob *)
(* that ends up in a file: 4-byte priv_len || priv || 4-byte pub_len || pub *)
(***************************************************************************)
EXTENDS Bytes

Frame(priv, pub) == WriteLen32(Len(priv)) \o priv \o WriteLen32(Len(pub)) \o pub

\* Mutant of Unframe: a second half cut short is taken as far as it goes.
UnframeShort(blob) ==
    LET priv == ReadLen32(blob, 0)
    IN  IF Len(blob) < 8 \/ UInt32(4 + priv + 4) > Len(blob) THEN Refused
        ELSE Accepted([priv |-> SubSeq(blob, 5, 4 + priv),
                       pub  |-> SubSeq(blob, 4 + priv + 5, Len(blob))])

\* The sums are taken in uint32_t.  What follows the second half is ignored.
Unframe(blob) ==
    LET priv == ReadLen32(blob, 0)
        pub  == ReadLen32(blob, UInt32(4 + priv))
    IN  IF Len(blob) < 8 THEN Refused
        ELSE IF UInt32(4 + priv + 4) > Len(blob) THEN Refused
        ELSE IF UInt32(4 + priv + 4 + pub) > Len(blob) THEN Refused
        ELSE Accepted([priv |-> SubSeq(blob, 5, 4 + priv),
                       pub  |-> SubSeq(blob, 4 + priv + 5, 4 + priv + 4 + pub)])
=============================================================================
