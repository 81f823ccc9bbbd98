------------------------- MODULE MCLicenseExchange -------------------------
(* Constant values for the runs of LicenseExchange.                        *)
EXTENDS LicenseExchange, TLC

CONSTANTS a, b, v, hw1, hw2, ekA, ekB, ekV

NoTpm == [h \in Hosts |-> "none"]
AllTbs == [h \in Hosts |-> "tbs"]
AllEsapi == [h \in Hosts |-> "esapi"]

\* Endorsement keys of the hosts.  The TBS proxy hashes only the TPM version,
\* so two Windows machines can report the same one (SameEk).
OwnEk == [h \in Hosts |-> CASE h = a -> ekA [] h = b -> ekB [] OTHER -> ekV]
SameEk == [h \in Hosts |-> ekV]

\* Two customers' machines of the same kind are interchangeable, and so are
\* two hardware identities: nothing compares them but for equality.
Interchangeable == Permutations({a, b}) \cup Permutations({hw1, hw2})

Days01 == {0, 1}
DaysSigned == {-2, 1}
=============================================================================
