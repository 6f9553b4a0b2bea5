----------------------------- MODULE MCAdmission -----------------------------
(* Small instances of Admission for TLC. *)
EXTENDS Admission

Rule(type, key, pattern, tier) ==
  [matchType |-> type, labelKey |-> key, pattern |-> pattern, tier |-> tier]

AnyEnv == {"prod", "dev", ""}

\* The default rules, shortened: urgent, prod, anything.
Defaults == [limit |-> 10, aging |-> 180, namespaces |-> {"cicd"}, accounts |-> {"dashboard"},
             rules |-> <<Rule("label", "urgent", {"true"}, 0), Rule("env", "", {"prod"}, 1),
                         Rule("env", "", AnyEnv, 3)>>]

\* Nothing but a limit; another account and other rules, of which one has a
\* malformed tier; an interval that int() does not take; other namespaces.
AllUnset   == [f \in DOMAIN Defaults |-> Unset]
TestSpecs ==
  {[AllUnset EXCEPT !.limit = 5],
   [AllUnset EXCEPT !.accounts = {"ci"}, !.limit = 7,
      !.rules = <<Rule("env", "", {"dev"}, Malformed), Rule("env", "", AnyEnv, 1)>>],
   [AllUnset EXCEPT !.aging = Malformed, !.accounts = {"nobody"}],
   [AllUnset EXCEPT !.namespaces = {"other", "cicd"}, !.aging = 60]}

FewSpecs == {[AllUnset EXCEPT !.accounts = {"dashboard", "ci"}], [AllUnset EXCEPT !.limit = 5]}

Request1(ns, user, labels) == [ns |-> ns, user |-> user, labels |-> labels]
TestRequests ==
  {Request1("cicd", "dashboard", [env |-> "prod"]),
   Request1("cicd", "dashboard", [env |-> "dev", urgent |-> "true"]),
   Request1("cicd", "ci", [env |-> "dev", tier |-> 0]),
   Request1("cicd", "ci", [env |-> "dev", managed |-> "yes", tier |-> 0]),
   Request1("cicd", "person", [k \in {} |-> ""]),
   Request1("other", "person", [env |-> "test"])}
=============================================================================
