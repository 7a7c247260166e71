------------------------------- MODULE MCLog -------------------------------
(* The queue with its log, on the programs of MCNBXQueue. *)
EXTENDS MCNBXQueue, Log

\* In one of them (Mixed) calls of both kinds are queued; while they are, the
\* requests of the known one are in req and not in s_log, and the report says
\* that these do not match.  ReportMatches leaves that out.

\* The theorems of Log_proofs apply to queue3.
ASSUME LogTheoremsApply == Programs = SafePrograms => LogDisciplined

\* execute while a call of the barrier protocol is queued: the requests are
\* forgotten there and their entries in s_log are not (breaks ReportMatches).
ExecuteBetween == {<<C("unknown", One), E, W>>}

=============================================================================
