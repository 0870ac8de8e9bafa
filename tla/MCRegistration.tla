--------------------------- MODULE MCRegistration ---------------------------
(* Instances of Registration for TLC: two units below one organization, *)
(* whose networks overlap, so that they compete for an address.         *)
EXTENDS Registration, TLC

CONSTANTS p1, p2, p3, u1, u2, n1, n2

Networks == (u1 :> {1, 2, 3}) @@ (u2 :> {1, 3})

Chains == (u1 :> <<"systems", "workstations">>)
          @@ (u2 :> <<"u2", "u2 systems", "u2 workstations">>)

Request(u, n, a) == [ou |-> u, name |-> n, addr |-> a]

\* Two units, a second request for one name, and an address that is asked for.
Requests ==
  [p \in Proc |-> CASE p = p1 -> Request(u1, n1, AnyAddr)
                  [] p = p2 -> Request(u2, n2, AnyAddr)
                  [] p = p3 -> Request(u1, n1, 3)]
=============================================================================
