----------------------------- MODULE MCSecrets -----------------------------
(* Instances of Secrets for TLC. *)
EXTENDS Secrets

MCRandom == {<<"r">>, <<"t">>}

BackslashGiven == {<<"a", "bs">>, <<"b">>}
============================================================================
