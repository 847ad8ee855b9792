------------------------------- MODULE MCJobs -------------------------------
(* A wiki of two sections, an export of two commits.                         *)
EXTENDS Jobs

SmallPlans == {<<"overview", "core">>}
SmallSections == {"overview", "core"}
TwoFormats == <<"canonical", "dpo">>
=============================================================================
