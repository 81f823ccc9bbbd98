------------------------------ MODULE License ------------------------------
(***************************************************************************)
(* Signed licence tokens and their two clock checks                        *)
(* (common/src/license.cpp and the record built by the vendor's            *)
(* generate-license, server/src/main.cpp).                                 *)
(*                                                                         *)
(* Signatures and encryption are ideal: a token is the record it carries   *)
(* together with the key generation that signed it, and only a client      *)
(* configured with that generation accepts it.  A byte string is what it   *)
(* was made from plus the number of bytes that are left of it: a proper    *)
(* prefix of a token has lost its signature (the part after the last "."). *)
(***************************************************************************)
EXTENDS Integers

CONSTANTS
    Day,        \* clock units in a day (86400 seconds in the code)
    TokenSize   \* bytes of a token; the shortest the server can print is > 300

ASSUME DayAssumption == Day \in Nat \ {0}
ASSUME TokenSizeAssumption == TokenSize \in Nat /\ TokenSize > 128

\* The default window of timestamp_is_fresh: 24 hours.
MaxAge == Day

\* Mutant of ExpiresAt: negative day counts are not caught.
ExpiresAtSigned(issued_at, days) == IF days # 0 THEN issued_at + days * Day ELSE 0

\* expires_at of a licence issued for `days' days; 0 stands for "never", and
\* so does every non-positive day count.
ExpiresAt(issued_at, days) == IF days > 0 THEN issued_at + days * Day ELSE 0

\* Mutant of TimestampIsFresh: a bound on one side only.
FreshOrFuture(timestamp, now) == now - timestamp <= MaxAge

\* timestamp_is_fresh: a request of the future is as stale as an old one.
TimestampIsFresh(timestamp, now) == now - timestamp \in 0..MaxAge

IsExpired(record, now) == record.expires_at # 0 /\ now > record.expires_at

\* sign_license, and the bytes the vendor prints.
SignLicense(record, gen) == [record |-> record, key |-> gen]
TokenBytes(token) == [of |-> token, size |-> TokenSize]

\* Mutants of VerifyLicense: one check forgotten.
VerifyWithoutExpiry(bytes, gen, now) == bytes.size = TokenSize /\ bytes.of.key = gen
VerifyWithoutKey(bytes, gen, now) ==
    bytes.size = TokenSize /\ ~IsExpired(bytes.of.record, now)

\* verify_license.valid: the token splits and decodes, the configured key
\* signed it and it has not expired.  The fingerprint is NOT looked at here.
VerifyLicense(bytes, gen, now) ==
    /\ bytes.size = TokenSize
    /\ bytes.of.key = gen
    /\ ~IsExpired(bytes.of.record, now)
=============================================================================
