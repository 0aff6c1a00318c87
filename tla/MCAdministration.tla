-------------------------- MODULE MCAdministration --------------------------
(***************************************************************************)
(* Model checking of Administration.  Beside providers, one active tenant  *)
(* is only created, with its admin, and deleted, and nothing fails: so     *)
(* tenants and providers are each explored with more than would be         *)
(* possible of both.                                                       *)
(***************************************************************************)
EXTENDS Administration, TLC

TenantsOrProviders ==
  \/ \A p \in Providers : providers[p] = NoProvider
  \/ /\ faults = 0
     /\ \A t \in Tenants : tenants[t].status = "active"
     /\ Cardinality({u \in Users : users[u] # NoUser}) <= 1
     /\ \A u \in Users : users[u] # NoUser => users[u].tenant # None
     /\ \A r \in Requests : reqs[r].at \notin {"checkEmail", "saveTenant", "insertTenant", "insertUser"}

Symmetry == Permutations(Users) \union Permutations(Configs) \union Permutations(Requests)
              \union Permutations(Emails) \union Permutations(Quotas) \union Permutations(Secrets)
=============================================================================
