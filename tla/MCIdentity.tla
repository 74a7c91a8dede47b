----------------------------- MODULE MCIdentity ------------------------------
(* Identity for TLC: a directory in which "alias" is a second name of "user"; *)
(* a browser that is shared, or one for each visit; requests of a kind are    *)
(* interchangeable.                                                           *)
EXTENDS Identity, TLC

CONSTANT shared

MCAccount == [n \in Name |-> "user"]

MCEnvironment == Row("env", "x")

MCItineraries == {[v \in Visit |-> shared], [v \in Visit |-> v]}

Odd(p) == Cardinality({l \in Login : p[l] = l}) = 1

\* The sign-ins of the throttle are permuted, and with every odd permutation the two
\* requests of each other kind change places.
RequestSymmetry ==
  {p @@ [r \in SignIn \union Change \union Visit |->
           IF ~Odd(p) THEN r
           ELSE CHOOSE q \in UNION {S \in {SignIn, Change, Visit} : r \in S} : q # r] :
     p \in Permutations(Login)}
=============================================================================
