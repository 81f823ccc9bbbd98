------------------------- MODULE Entitlement_proofs -------------------------
(* What Entitlement promises, proved for every value of its constants.     *)
EXTENDS Entitlement, TLAPS

TypeOK ==
    /\ trusted \in [Machines -> Keys \cup {NoKey}]
    /\ installed \in [Machines -> [Products -> Grants \cup {NoGrant}]]

\* A machine trusts only keys that the vendor has shipped.
TrustIsOffered == \A m \in Machines : trusted[m] \in offered \cup {NoKey}

EntitlementInv == TypeOK /\ TrustIsOffered /\ OnlyAskedIsInstalled

\* Asking under the trusted key keeps what is asked under shipped keys.
LEMMA AskKeeps ==
    ASSUME NoKey \notin Keys, EntitlementInv,
           NEW m \in Machines, NEW g \in Grants, Ask(m, g)
    PROVE  EntitlementInv'
<1>1. g.key \in Keys
  BY DEF Grants
<1>2. g.key \in offered
  BY <1>1 DEF Ask, EntitlementInv, TrustIsOffered
<1> QED
  BY <1>2 DEF Ask, EntitlementInv, TypeOK, TrustIsOffered, OnlyAskedIsInstalled

\* A grant that is installed goes to the place of its product.
LEMMA InstallKeeps ==
    ASSUME EntitlementInv, NEW m \in Machines, NEW g \in Grants, Install(m, g)
    PROVE  EntitlementInv'
<1>1. g.product \in Products
  BY DEF Grants
<1>2. ASSUME NEW m2 \in Machines, NEW p2 \in Products
      PROVE  installed'[m2][p2] = IF m2 = m /\ p2 = g.product THEN g
                                  ELSE installed[m2][p2]
  BY <1>1 DEF Install, EntitlementInv, TypeOK
<1>3. TypeOK' /\ TrustIsOffered'
  BY <1>1 DEF Install, EntitlementInv, TypeOK, TrustIsOffered
<1>4. OnlyAskedIsInstalled'
  BY <1>2 DEF Install, EntitlementInv, OnlyAskedIsInstalled
<1> QED
  BY <1>3, <1>4 DEF EntitlementInv

\* Removing takes away one installed grant.
LEMMA RemoveKeeps ==
    ASSUME EntitlementInv, NEW m \in Machines, NEW p \in Products, Remove(m, p)
    PROVE  EntitlementInv'
<1>1. ASSUME NEW m2 \in Machines, NEW p2 \in Products
      PROVE  installed'[m2][p2] \in {installed[m2][p2], NoGrant}
  BY DEF Remove, EntitlementInv, TypeOK
<1>2. TypeOK' /\ TrustIsOffered'
  BY DEF Remove, EntitlementInv, TypeOK, TrustIsOffered
<1>3. OnlyAskedIsInstalled'
  BY <1>1 DEF Remove, EntitlementInv, OnlyAskedIsInstalled
<1> QED
  BY <1>2, <1>3 DEF EntitlementInv

\* Everything installed was granted for its place, everything granted was
\* asked, and everything asked was asked under a key that the vendor shipped.
THEOREM OnlyAskedIsEverInstalled ==
    ASSUME NoKey \notin Keys
    PROVE  Spec => []OnlyAskedIsInstalled
<1>1. Init => EntitlementInv
  BY DEF Init, EntitlementInv, TypeOK, TrustIsOffered, OnlyAskedIsInstalled
<1>2. EntitlementInv /\ [Next]_vars => EntitlementInv'
  <2> SUFFICES ASSUME EntitlementInv, [Next]_vars
               PROVE  EntitlementInv'
    OBVIOUS
  <2> USE DEF EntitlementInv, TypeOK, TrustIsOffered, OnlyAskedIsInstalled
  <2>1. ASSUME NEW g \in Grants, Grant(g)
        PROVE  EntitlementInv'
    BY <2>1 DEF Grant
  <2>2. ASSUME NEW key \in Keys, Offer(key)
        PROVE  EntitlementInv'
    BY <2>2 DEF Offer
  <2>3. ASSUME NEW key \in Keys, NEW m \in Machines, Trust(m, key)
        PROVE  EntitlementInv'
    BY <2>3 DEF Trust
  <2>4. ASSUME NEW m \in Machines, NEW shown \in SUBSET Identities, Drift(m, shown)
        PROVE  EntitlementInv'
    BY <2>4 DEF Drift
  <2>5. CASE UNCHANGED vars
    BY <2>5 DEF vars
  <2> HIDE DEF EntitlementInv, TypeOK, TrustIsOffered, OnlyAskedIsInstalled
  <2> QED
    BY <2>1, <2>2, <2>3, <2>4, <2>5, AskKeeps, InstallKeeps, RemoveKeeps DEF Next
<1>3. EntitlementInv => OnlyAskedIsInstalled
  BY DEF EntitlementInv
<1> QED
  BY <1>1, <1>2, <1>3, PTL DEF Spec
=============================================================================
