--------------------------- MODULE MCAcmeManager ---------------------------
(***************************************************************************)
(* Small instances of AcmeManager: staging and production, one or two      *)
(* domains, certificates due for renewal one tick after their issuance.    *)
(***************************************************************************)
EXTENDS AcmeManager

CONSTANTS staging, production, home, other

Base == [enabled |-> TRUE, supported |-> TRUE, fallback |-> FALSE,
         encrypted |-> TRUE, domain |-> home, ca |-> staging]
Off == [enabled |-> FALSE, supported |-> TRUE, fallback |-> FALSE,
        encrypted |-> FALSE, domain |-> home, ca |-> staging]

\* Staging, the switch to production, another domain, a provider that is not in
\* the registry, and ACME off.
Rollout == {Base, [Base EXCEPT !.ca = production], [Base EXCEPT !.domain = other],
            [Base EXCEPT !.supported = FALSE], Off}
=============================================================================
