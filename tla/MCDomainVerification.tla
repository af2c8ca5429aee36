------------------------ MODULE MCDomainVerification ------------------------
(* Small instances of DomainVerification: two callers, one worker.         *)
EXTENDS DomainVerification, TLC

CONSTANTS c1, c2

Callers == {c1, c2}

\* Three calls have at most one job each, and a status refresh another one.
Jobs == 1..5

BothStyles == {"sync", "async"}

SyncOnly == {"sync"}

AllTtls == {"zero", "positive"}

LongTtl == {"positive"}

CallerSymmetry == Permutations(Callers)
=============================================================================
