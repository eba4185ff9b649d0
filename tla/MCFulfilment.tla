---------------------------- MODULE MCFulfilment ----------------------------
(* Fulfilment on small instances: symmetry and the values of its constants. *)
EXTENDS FulfilmentProperties, TLC

SymmetricNames ==
    Permutations(Orders) \cup Permutations(Routes) \cup Permutations(Drivers)

\* loadConfirmed and manifest are written and shown, and decide nothing else.
WithoutManifests ==
    <<status, request, orderVars, tripOf, code, pod, routeStatus, crewVars, stops,
      stockVars, count>>

NoEmpties == {0}
SomeEmpties == {0, 1}
=============================================================================
