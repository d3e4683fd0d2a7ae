----------------------------- MODULE MC_SignIn ------------------------------
(* A small instance of SignIn for TLC: see the README for the bounds.      *)
EXTENDS SignIn, TLC

CONSTANTS ana, bob, l1, l2, e1

\* Ana passes both steps of the ladder, Bob the first.
MCAge == ana :> 30 @@ bob :> 20
MCNationality == ana :> "DE" @@ bob :> "FR"

\* Two logins, and the enrolment of a skill that asks for the whole ladder.
MCAgeLadder == <<18, 25>>
MCProfile == [r \in Request |-> IF r = e1 THEN "standard" ELSE "minimal"]
MCKeyOf == [r \in Request |-> <<"key of", r>>]
=============================================================================
