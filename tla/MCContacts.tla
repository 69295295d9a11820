----------------------------- MODULE MCContacts -----------------------------
(* Contacts on a small instance.                                           *)
EXTENDS Contacts, TLC

CONSTANTS p1, p2, p3, x, y, a, b

Profiles == {p1, p2, p3}
Externals == {x, y}
Anonymous == {a, b}
\* The defaults of migration 046.
DefaultPriority == [user_id |-> 10, email |-> 20, phone |-> 30]
SomeIdentities == {{}, {<<"email", "v">>}, {<<"email", "v">>, <<"phone", "v">>}}
ContactSymmetry == Permutations(Profiles) \cup Permutations(Externals) \cup Permutations(Anonymous)
=============================================================================
