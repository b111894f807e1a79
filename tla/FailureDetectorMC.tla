-------------------------- MODULE FailureDetectorMC --------------------------
EXTENDS FailureDetector

\* The lock nodes of docker-compose.yml, seen from the first.  The second answers;
\* the third times out, or is refused, in every round.
LockNodes == {<<"lock1", 8080>>, <<"lock2", 8081>>, <<"lock3", 8082>>}
Lock1 == <<"lock1", 8080>>
AnswersOfLock2 == [n \in LockNodes |-> IF n[1] = "lock2" THEN 4 ELSE 0]

=============================================================================
