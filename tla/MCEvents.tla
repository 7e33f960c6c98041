------------------------------- MODULE MCEvents -------------------------------
(* Constants for checking EventBus.  One subscriber wants a topic of the   *)
(* first module and all of the second's; the other the whole first module. *)
EXTENDS EventBus, TLC

CONSTANTS s1, s2, p1, p2

MCModule == (p1 :> "a") @@ (p2 :> "b")

MCTopics == {<<"x">>}

MCPatterns ==
    (s1 :> {<<"a", ".", "x">>, <<"b", ".", "*">>}) @@ (s2 :> {<<"a", ".", "*">>, <<"*">>})

=============================================================================
