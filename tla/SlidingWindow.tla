--------------------------- MODULE SlidingWindow ---------------------------
(***************************************************************************)
(* A sliding window of admissions: src/src/runtime/rate_limit_state.js,    *)
(* createSlidingWindowLimiter.  The entries of a key are the times of its  *)
(* admissions, oldest first, because the clock does not run backwards.     *)
(* checkAndRecord drops what has left the window, compares and records; a  *)
(* call costs one entry.                                                   *)
(***************************************************************************)
EXTENDS Naturals, Sequences, FiniteSets

VARIABLE now    \* the clock

\* filter(): what has left the window are the first entries.
LiveAt(entries, window, t) ==
    LET gone == {i \in DOMAIN entries : entries[i] + window <= t}
    IN  SubSeq(entries, Cardinality(gone) + 1, Len(entries))

FitsAt(entries, limit, window, t) == Len(LiveAt(entries, window, t)) + 1 <= limit

Fits(entries, limit, window) == FitsAt(entries, limit, window, now)

Recorded(entries, window) == Append(LiveAt(entries, window, now), now)

\* When a refused call may come again: now and the retry_after_ms of its answer.
RetryAt(entries, window) == now + (window - (now - Head(LiveAt(entries, window, now))))
=============================================================================
