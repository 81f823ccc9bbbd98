---------------------------- MODULE Entitlement ----------------------------
(***************************************************************************)
(* What the licence system promises, with no files, clocks, TPMs or mail   *)
(* formats: a machine asks for a product under the key it trusts, the      *)
(* vendor grants what was asked, and a machine installs grants of its own, *)
(* each in the place of its product.  LicenseExchange implements this.     *)
(***************************************************************************)
CONSTANTS Machines, Products, Identities, Keys, NoKey, NoGrant

VARIABLES
    identity,   \* [Machines -> identities the machine may show just now]
    offered,    \* keys the vendor has shipped
    trusted,    \* [Machines -> the one key the machine trusts, or NoKey]
    asked,      \* what machines have asked for
    granted,    \* what the vendor has granted
    installed   \* [Machines -> [Products -> grant or NoGrant]]

vars == <<identity, offered, trusted, asked, granted, installed>>

Grants == [key : Keys, product : Products, identity : Identities]

Ask(m, g) ==
    /\ g.key = trusted[m] /\ g.identity \in identity[m]
    /\ asked' = asked \cup {g}
    /\ UNCHANGED <<identity, offered, trusted, granted, installed>>

Grant(g) ==
    /\ g \in asked
    /\ granted' = granted \cup {g}
    /\ UNCHANGED <<identity, offered, trusted, asked, installed>>

Install(m, g) ==
    /\ g \in granted
    /\ g.key = trusted[m] /\ g.identity \in identity[m]
    /\ installed' = [installed EXCEPT ![m][g.product] = g]
    /\ UNCHANGED <<identity, offered, trusted, asked, granted>>

Remove(m, p) ==
    /\ installed' = [installed EXCEPT ![m][p] = NoGrant]
    /\ UNCHANGED <<identity, offered, trusted, asked, granted>>

Offer(key) ==
    /\ offered' = offered \cup {key}
    /\ UNCHANGED <<identity, trusted, asked, granted, installed>>

Trust(m, key) ==
    /\ key \in offered
    /\ trusted' = [trusted EXCEPT ![m] = key]
    /\ UNCHANGED <<identity, offered, asked, granted, installed>>

Drift(m, shown) ==
    /\ identity' = [identity EXCEPT ![m] = shown]
    /\ UNCHANGED <<offered, trusted, asked, granted, installed>>

-----------------------------------------------------------------------------
Init ==
    /\ identity \in [Machines -> SUBSET Identities]
    /\ offered = {}
    /\ trusted = [m \in Machines |-> NoKey]
    /\ asked = {} /\ granted = {}
    /\ installed = [m \in Machines |-> [p \in Products |-> NoGrant]]

Next ==
    \/ \E m \in Machines, g \in Grants : Ask(m, g) \/ Install(m, g)
    \/ \E g \in Grants : Grant(g)
    \/ \E m \in Machines, p \in Products : Remove(m, p)
    \/ \E key \in Keys : Offer(key) \/ \E m \in Machines : Trust(m, key)
    \/ \E m \in Machines, shown \in SUBSET Identities : Drift(m, shown)

Spec == Init /\ [][Next]_vars

-----------------------------------------------------------------------------
\* A machine may use a product: it holds a grant, under the key it trusts, for
\* an identity it shows.
Usable(m, p) ==
    /\ installed[m][p] # NoGrant
    /\ installed[m][p].key = trusted[m]
    /\ installed[m][p].identity \in identity[m]

\* Nothing is installed that was not granted, for the product of its place and
\* under a key the vendor shipped, and nothing is granted that was not asked.
OnlyAskedIsInstalled ==
    /\ granted \subseteq asked
    /\ \A g \in asked : g.key \in offered
    /\ \A m \in Machines, p \in Products :
          installed[m][p] # NoGrant =>
              installed[m][p] \in granted /\ installed[m][p].product = p
=============================================================================
