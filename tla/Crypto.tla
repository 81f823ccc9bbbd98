------------------------------- MODULE Crypto -------------------------------
(***************************************************************************)
(* What common/src/crypto.cpp makes of bytes: base64, the layouts of       *)
(* AES-GCM and hybrid ciphertexts, and Ed25519, on bytes of ByteBase       *)
(* values.  The primitives are ideal: a tag or a signature spells out what *)
(* it was computed from, and equals another only if all of that is equal.  *)
(* The other modules take whole blobs and tokens for values; this one is   *)
(* why they may.                                                           *)
(***************************************************************************)
EXTENDS Bytes

CONSTANTS
    CharBase,   \* letters of the base64 alphabet, 64 in the code
    MaxText     \* bytes of the longest text that is signed or encrypted

\* A letter is three digits of some base and a byte four, 4 in the code.
ASSUME BaseAssumption ==
    /\ CharBase \in Nat
    /\ \E digit \in 2..CharBase :
           CharBase = digit * digit * digit /\ ByteBase = CharBase * digit
ASSUME MaxTextAssumption == MaxText \in 1..ByteBase - 1

-----------------------------------------------------------------------------
(* Base64.  A letter is its value; Pad is '=', Blank any of '\n', '\r' and *)
(* ' ', Dot stands for every other character.                              *)

Pad == CharBase
Blank == CharBase + 1
Dot == CharBase + 2

\* The group that begins at position n, of up to `size' elements.
Group(s, n, size) ==
    SubSeq(s, n, IF n + size - 1 < Len(s) THEN n + size - 1 ELSE Len(s))

InGroups(s, size, Op(_)) ==
    FlattenSeq([k \in 1..(Len(s) + size - 1) \div size |->
                   Op(Group(s, size * (k - 1) + 1, size))])

EncodeGroup(g) ==
    LET byte(k) == IF k <= Len(g) THEN g[k] ELSE 0
        v == (byte(1) * ByteBase + byte(2)) * ByteBase + byte(3)
        place == <<CharBase * CharBase * CharBase, CharBase * CharBase, CharBase, 1>>
    IN  [k \in 1..4 |-> IF k <= Len(g) + 1 THEN (v \div place[k]) % CharBase ELSE Pad]

Base64Encode(bytes) == InGroups(bytes, 3, EncodeGroup)

\* The decoder gives '=' the value 0 wherever it stands and drops a byte for it
\* at the third and at the fourth place.
DecodeGroup(g) ==
    LET letter(k) == IF g[k] = Pad THEN 0 ELSE g[k]
        v == ((letter(1) * CharBase + letter(2)) * CharBase + letter(3)) * CharBase + letter(4)
    IN  <<v \div (ByteBase * ByteBase)>>
        \o (IF g[3] # Pad THEN <<(v \div ByteBase) % ByteBase>> ELSE <<>>)
        \o (IF g[4] # Pad THEN <<v % ByteBase>> ELSE <<>>)

\* Mutant of Stripped: blanks are not taken out.
StrippedOfNothing(chars) == chars

Stripped(chars) ==
    FlattenSeq([n \in 1..Len(chars) |-> IF chars[n] = Blank THEN <<>> ELSE <<chars[n]>>])

Base64Decode(chars) ==
    LET s == Stripped(chars)
    IN  IF Len(s) % 4 # 0 \/ \E n \in 1..Len(s) : s[n] > Pad THEN Refused
        ELSE Accepted(InGroups(s, 4, DecodeGroup))

-----------------------------------------------------------------------------
(* Keys are numbers below 4, one for both halves of a pair.                *)

\* A text of up to MaxText bytes and its length, always MaxText + 1 bytes.
Spelled(text) ==
    <<Len(text)>> \o text \o [k \in 1..MaxText - Len(text) |-> 0]

Ed25519Sign(key, message) == <<key>> \o Spelled(message)
Ed25519Verify(key, message, signature) == signature = Ed25519Sign(key, message)

\* The two sides of an exchange arrive at the same secret.
X25519Exchange(ours, theirs) ==
    IF ours < theirs THEN 4 * ours + theirs ELSE 4 * theirs + ours

\* AES-256-GCM: nonce || ciphertext || tag.
NonceLen == 1
TagLen == MaxText + 4
Tag(key, aad, nonce, ct) == <<key, aad>> \o nonce \o Spelled(ct)
Masked(key, nonce, text) == [k \in 1..Len(text) |-> (text[k] + key + nonce[1] + k) % ByteBase]
Unmasked(key, nonce, ct) == [k \in 1..Len(ct) |-> (ct[k] - key - nonce[1] - k) % ByteBase]

AesEncrypt(key, aad, nonce, plain) ==
    LET ct == Masked(key, nonce, plain) IN nonce \o ct \o Tag(key, aad, nonce, ct)

AesDecrypt(key, aad, c) ==
    LET nonce == SubSeq(c, 1, NonceLen)
        ct    == SubSeq(c, NonceLen + 1, Len(c) - TagLen)
        tag   == SubSeq(c, Len(c) - TagLen + 1, Len(c))
    IN  IF Len(c) < NonceLen + TagLen \/ tag # Tag(key, aad, nonce, ct) THEN Refused
        ELSE Accepted(Unmasked(key, nonce, ct))

\* Hybrid: ephemeral public key || AES-GCM under a key both sides derive.
EphLen == 1

HybridEncrypt(recipient, aad, eph, nonce, plain) ==
    <<eph>> \o AesEncrypt(X25519Exchange(eph, recipient), aad, nonce, plain)

\* Mutant of HybridDecrypt: the ephemeral key is not cut off.
HybridDecryptWhole(recipient, aad, c) ==
    IF Len(c) < EphLen + NonceLen + TagLen THEN Refused
    ELSE AesDecrypt(X25519Exchange(recipient, c[1]), aad, c)

HybridDecrypt(recipient, aad, c) ==
    IF Len(c) < EphLen + NonceLen + TagLen THEN Refused
    ELSE AesDecrypt(X25519Exchange(recipient, c[1]), aad, SubSeq(c, EphLen + 1, Len(c)))

-----------------------------------------------------------------------------
(* Licence tokens (license.cpp): base64(payload) "." base64(signature).    *)

SignToken(key, payload) ==
    Base64Encode(payload) \o <<Dot>> \o Base64Encode(Ed25519Sign(key, payload))

\* verify_license up to the signature check: split at the last '.', decode both.
OpenToken(key, token) ==
    LET dots == {n \in 1..Len(token) : token[n] = Dot}
        at   == CHOOSE n \in dots : \A m \in dots : m <= n
        payload   == Base64Decode(SubSeq(token, 1, at - 1))
        signature == Base64Decode(SubSeq(token, at + 1, Len(token)))
    IN  IF dots = {} THEN Refused
        ELSE IF ~payload.ok \/ ~signature.ok THEN Refused
        ELSE IF Ed25519Verify(key, payload.value, signature.value) THEN payload
        ELSE Refused
=============================================================================
