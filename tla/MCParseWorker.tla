--------------------------- MODULE MCParseWorker ---------------------------
(* Model-checking instance of ParseWorker.                                 *)
EXTENDS ParseWorker

\* Every mix of three files that parse, end their worker or hang, and every
\* pair of kinds before a file that parses.
MCInputs ==
  [Files -> {"good", "crash", "hang"}]
    \cup {k \in [Files -> Kinds] : k[3] = "good"}
=============================================================================
