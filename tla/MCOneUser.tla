----------------------------- MODULE MCOneUser -----------------------------
(* An instance of OneUser for TLC. *)
EXTENDS OneUser

\* Nothing, letters and digits, quotes at the ends and inside, a backslash, a
\* placeholder, and a value that is beyond the limit once it is quoted.
MCGiven ==
  {<<>>, <<"a">>, <<"a", "b">>, <<"dq">>, <<"sq", "a">>, <<"a", "bs">>,
   <<"a", "dq", "b">>, <<"lt", "a">>, [i \in 1..7 |-> "a"]}

MCRandom == {<<"r">>, <<"t">>}

\* No gap, only the start, only the end, now.
MCGaps == {{}, 10 .. 20, 0 .. 19}
============================================================================
