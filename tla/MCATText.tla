------------------------------ MODULE MCATText ------------------------------
(* Values for the constants of ATText. *)
EXTENDS ATText

\* Lines shorter than, as long as and longer than a line buffer of four, an OK,
\* an error, a blank line, a registered line, a prompt, and line ends that are
\* none.
SomeChunks ==
  { <<"r", "n">>, <<"x", "r", "n">>, <<"k", "r", "n">>, <<"e", "r", "n">>,
    <<"+", "r", "n">>, <<">">>, <<"n">>, <<"r">>, <<"y", "x", "r", "n">>,
    <<"y", "y", "y", "y", "k", "r", "n">> }
=============================================================================
