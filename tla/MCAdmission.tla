---------------------------- MODULE MCAdmission ----------------------------
(* Model checking of Admission: one user's requests while keys or profiles *)
(* move, two users' while sessions lapse, of whom one sends the other's    *)
(* address.                                                                *)
EXTENDS Admission, TLC

CONSTANTS alice, bob, t1
MCVisits == [keys     |-> {<<alice, alice>>},
             profiles |-> {<<alice, alice>>},
             sessions |-> {<<alice, alice>>, <<alice, t1>>, <<bob, t1>>, <<bob, bob>>,
                           <<bob, alice>>}]
Symmetry == Permutations(Request) \cup Permutations(Key)
=============================================================================
