------------------------------ MODULE MCSessions ------------------------------
(* The instance of Sessions that TLC checks: tabs, browsers, calls and       *)
(* request slots are interchangeable; users are not, one has an account.     *)
EXTENDS Sessions, TLC

Symmetry == Permutations(Tabs) \cup Permutations(Browsers) \cup Permutations(Reqs)
            \cup Permutations(Calls)

\* A fault takes the place of one login, registration or logout.
FewEvents == visits + faults <= MaxVisits
=============================================================================
