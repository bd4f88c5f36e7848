---------------------------- MODULE MCAppSession ----------------------------
(* Small instances of AppSession for TLC. *)
EXTENDS AppSession, TLC

\* Clients are interchangeable slots of a pool.
ClientSymmetry == Permutations(Clients)

\* The preferences stay at their defaults: what a client withholds it settles as
\* sync_liveness shows, whoever started it.
SteadyPrefs == prefs' = [o \in Prefs |-> DefaultTypes]

SteadyFairSpec ==
  SessionInit /\ [][SessionNext /\ SteadyPrefs]_allVars /\ SessionFairness
=============================================================================
