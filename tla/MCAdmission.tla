---------------------------- MODULE MCAdmission ----------------------------
(* Small instances of the admission gate for TLC. *)
EXTENDS Admission, TLC

CONSTANTS a, b, op, a1, a2, a3, b1, b2, op1, op2

\* Two ordinary tenants and the exempt operator, with two turns each.
ThreeTenants == {a, b, op}
SixTurns == {a1, a2, b1, b2, op1, op2}
SixTenantOf == [x \in SixTurns |-> IF x \in {a1, a2} THEN a
                                   ELSE IF x \in {b1, b2} THEN b ELSE op]

\* Two ordinary tenants, one of them with more turns than the other.
TwoTenants == {a, b}
UnevenTurns == {a1, a2, b1}
UnevenTenantOf == [x \in UnevenTurns |-> IF x = b1 THEN b ELSE a]

\* Turns of one tenant are interchangeable.
SameTenantTurns ==
  {p \in Permutations(Turns) : \A x \in Turns : TenantOf[p[x]] = TenantOf[x]}

\* Retain agrees with the standard filter on short sequences.
ASSUME \A n \in 0..4 : \A s \in [1..n -> 1..3] :
         Retain(s, 1) = SelectSeq(s, LAMBDA v : v # 1)
=============================================================================
