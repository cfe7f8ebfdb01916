---------------------------- MODULE MCAuthSessions ----------------------------
(***************************************************************************)
(* AuthSessions on small instances.                                        *)
(***************************************************************************)
EXTENDS AuthSessions, TLC

CONSTANTS c1, c2, t1, t2, t3, w1, w2, e1, e2, k1

OnlyForever == {MaxClock + 1}

\* A behaviour has two of these: failures and restarts, steps of time, new epochs;
\* the third is still taken, and nothing after it, unless it brought the
\* administrator's first configuration back.
SetBack == <<Admin, Configured(1)>> \in retired
TwoInAll == faults + clock + epochs < 3 \/ (SetBack /\ clock = 0)

Interchangeable == Permutations(Tokens) \cup Permutations(Clients) \cup Permutations(Editors)
=============================================================================
