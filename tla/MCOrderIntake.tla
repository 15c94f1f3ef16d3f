---------------------------- MODULE MCOrderIntake ----------------------------
EXTENDS OrderIntake, TLC

\* Processes and order ids are interchangeable in every formula; client ids
\* are not, because some are refused.
Symmetry == Permutations(Procs) \cup Permutations(OrderIds)
=============================================================================
