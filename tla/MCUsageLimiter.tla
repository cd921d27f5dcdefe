--------------------------- MODULE MCUsageLimiter ---------------------------
(* Small instances of UsageLimiter for TLC. *)
EXTENDS UsageLimiter, TLC

Plain(secs) == [stream |-> FALSE, metered |-> secs > 0, secs |-> secs]
Stream(metered) == [stream |-> TRUE, metered |-> metered, secs |-> 0]
Lim(rpm, secs, max) == [rpm |-> rpm, audio |-> secs, maxStreams |-> max]

\* Quota: metered requests and sessions, the quota edited between two values, a
\* minute of two requests or of any, one session at a time so that three calls can
\* go past the bound.
MeteredRequests == {Plain(1), Stream(TRUE)}
MeteredLimits == {Lim(0, 2, 1), Lim(2, 1, 1)}

\* Slots: sessions against the default cap of two and a cap of one, edited at
\* any moment, and a plain request beside them.
SlotRequests == {Plain(0), Stream(FALSE)}
SlotLimits == {NoLimits, Lim(0, 0, 1)}

Symmetry == Permutations(Calls)
=============================================================================
