---------------------------- MODULE LeaseLedger ----------------------------
(***************************************************************************)
(* What the lease store promises, without rows, owners, probes or          *)
(* deliveries: a ledger of claims.  A claim enters only while the domain   *)
(* is clear and the machine can carry every claim in the ledger together;  *)
(* a claim may leave unless its outcome became unknown, and from then on   *)
(* it stays for ever and nothing enters any more.                          *)
(***************************************************************************)
CONSTANTS
    None,
    Leases,
    Claims,
    Carries(_, _)  \* can the machine carry the claims of a function h and claim c too

VARIABLES
    held,    \* the claim each lease holds, None if none
    frozen,  \* leases whose outcome is unknown
    closed   \* the whole domain is closed

ledgerVars == <<held, frozen, closed>>

Holders(h) == {l \in Leases : h[l] # None}

Init ==
    /\ held = [l \in Leases |-> None]
    /\ frozen = {}
    /\ closed = FALSE

Without(h, gone) == [l \in Leases |-> IF l \in gone THEN None ELSE h[l]]

\* Claims of `gone` leave; the outcome of `lost` is now unknown.
Review(gone, lost) ==
    /\ gone \cap (frozen \cup lost) = {}
    /\ lost \subseteq Holders(held)
    /\ held' = Without(held, gone)
    /\ frozen' = frozen \cup lost
    /\ UNCHANGED closed

\* A claim enters, possibly in the step in which abandoned ones leave.
Admit(l, c, gone) ==
    /\ ~closed /\ frozen = {}
    /\ l \notin Holders(held)
    /\ LET kept == Holders(held) \ gone IN Carries([k \in kept |-> held[k]], c)
    /\ held' = [Without(held, gone) EXCEPT ![l] = c]
    /\ UNCHANGED <<frozen, closed>>

Close == closed' = TRUE /\ UNCHANGED <<held, frozen>>

Next ==
    \/ \E gone, lost \in SUBSET Leases : Review(gone, lost)
    \/ \E l \in Leases, c \in Claims, gone \in SUBSET Leases : Admit(l, c, gone)
    \/ Close

Spec == Init /\ [][Next]_ledgerVars
=============================================================================
