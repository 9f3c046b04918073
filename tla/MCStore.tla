------------------------------ MODULE MCStore ------------------------------
\* Every property of these runs is a safety property, and no deployment but the
\* healing one tells sessions apart.
EXTENDS Store, TLC

Deployment(file, sessions) == [file |-> file, alone |-> sessions]

\* A current database that all share, or any file used one session at a time.
MCSafe == {Deployment("current", {})} \cup
          {Deployment(file, Sessions) : file \in {"no_file", "old", "current"}}

\* Two sessions race to create the database, a third comes when they are gone.
CONSTANTS s1, s2, s3
MCColdThenAlone == {Deployment("no_file", {s3})}

SessionSymmetry == Permutations(Sessions)
=============================================================================
