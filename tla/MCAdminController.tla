------------------------ MODULE MCAdminController ------------------------
(* Two brokers with asymmetric kafka listener lists, three configuration *)
(* properties and a partition on both brokers, for TLC.                   *)
EXTENDS AdminController

CONSTANTS n1, n2, p1, unknown, v1, v2, dflt, auth, su, alice, bob

MCNodes == {n1, n2}
MCListeners == (n1 :> 2) @@ (n2 :> 1)
MCWriteErrors == {[cat |-> "cluster", code |-> "timeout"]}

\* p1 takes v1 or v2; superusers is a set of users, empty by default.
MCValues == (p1 :> {v1, v2}) @@ (auth :> BOOLEAN) @@ (su :> {{}, {alice}, {bob}})
MCDefaultValue == (p1 :> dflt) @@ (auth :> FALSE) @@ (su :> {})

Patch(u, r, f, d) == [upsert |-> u, remove |-> r, force |-> f, dry_run |-> d]

\* An upsert (sent twice it is a no-op), a value validate() rejects sent
\* with force, an unknown name, a remove, and a dry run.
MCConfigPatches ==
  { Patch(p1 :> v2, {}, FALSE, FALSE), Patch(p1 :> InvalidValue, {}, TRUE, FALSE),
    Patch(unknown :> v1, {}, FALSE, FALSE), Patch(<< >>, {p1}, FALSE, FALSE),
    Patch(p1 :> v2, {}, FALSE, TRUE) }

\* Turning admin_api_require_auth on with alice as the superuser, removing
\* superusers, and emptying it by an upsert.
MCAuthPatches ==
  { Patch((auth :> TRUE) @@ (su :> {alice}), {}, FALSE, FALSE),
    Patch(<< >>, {su}, FALSE, FALSE), Patch(su :> {}, {}, FALSE, FALSE) }

\* The current list, its reverse, a proper subset, and a duplicate node.
MCTargets == { <<n1, n2>>, <<n2, n1>>, <<n1>>, <<n1, n1>> }
MCInitialReplicas == <<n1, n2>>
=============================================================================
