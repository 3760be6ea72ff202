------------------------------- MODULE Backoff -------------------------------
(***************************************************************************)
(* The exponential delay of the job queue.                                 *)
(***************************************************************************)
EXTENDS Integers

\* retryDelay: the delay doubled attempt - 1 times, with the loop's early
\* return at the cap and the final comparison.
RetryDelayOf(base, max, attempt) ==
    LET doubled[i \in 0 .. attempt] ==
            IF i =< 1 THEN base
            ELSE IF doubled[i - 1] * 2 >= max THEN max
            ELSE doubled[i - 1] * 2
    IN  IF doubled[attempt] > max THEN max ELSE doubled[attempt]
=============================================================================
