----------------------------- MODULE MCScheduler -----------------------------
\* Three jobs and dates 0..3: every order of insertion, ties included.
EXTENDS Scheduler, TLC

JobSymmetry == Permutations(Jobs)
=============================================================================
