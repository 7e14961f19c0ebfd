----------------------------- MODULE ReadCache -----------------------------
(***************************************************************************)
(* The cache in front of a computed view (backend/services/cache.py) and   *)
(* the requests around it: reads of one gradebook through get_or_set,      *)
(* writes that commit and then invalidate, and writes that commit and do   *)
(* not (the grading worker and the review handlers).  A view is the number *)
(* of the last write it contains; time is counted in ticks.                *)
(***************************************************************************)
EXTENDS Integers, FiniteSets

CONSTANTS
    Requests,   \* the reads that may be under way
    Ttl,        \* how long an entry is served
    MaxCompute, \* bound: how long the computation of a view takes
    MaxWrites,  \* bound: writes
    MaxTime     \* bound: ticks

\* What the constants must satisfy; assumed by the modules that give them values.
ReadCacheAssumption ==
    /\ Ttl \in Nat \ {0}
    /\ {MaxCompute, MaxWrites, MaxTime} \subseteq Nat

VARIABLES
    clock,      \* the time
    written,    \* the time at which each write committed
    uncleared,  \* the writes that committed and have yet to invalidate
    answered,   \* the writes that committed, invalidated and were answered
    entry,      \* the cache's entry for the view, or NoEntry
    reads      \* the reads

readCacheVars == <<clock, written, uncleared, answered, entry, reads>>

NoEntry == [view |-> -1, expires |-> 0, crossed |-> FALSE]

Ready == [at |-> "ready", view |-> -1, began |-> 0, known |-> {}, crossed |-> FALSE]

LastWrite == Cardinality(DOMAIN written)

ReadCacheInit ==
    /\ clock = 0
    /\ written = [w \in {} |-> 0]
    /\ uncleared = {}
    /\ answered = {}
    /\ entry = NoEntry
    /\ reads = [r \in Requests |-> Ready]

-----------------------------------------------------------------------------
(* Writes. *)

\* Mutant: the writer invalidates first and commits when it has answered.
CommitCleared(invalidates) ==
    /\ LastWrite < MaxWrites
    /\ written' = [w \in 1..LastWrite + 1 |-> IF w \in DOMAIN written THEN written[w] ELSE clock]
    /\ entry' = IF invalidates THEN NoEntry ELSE entry
    /\ answered' = answered \cup {w \in {LastWrite + 1} : invalidates}
    /\ UNCHANGED <<clock, uncleared, reads>>

Commit(invalidates) ==
    /\ LastWrite < MaxWrites
    /\ written' = [w \in 1..LastWrite + 1 |-> IF w \in DOMAIN written THEN written[w] ELSE clock]
    /\ uncleared' = uncleared \cup {w \in {LastWrite + 1} : invalidates}
    /\ UNCHANGED <<clock, answered, entry, reads>>

\* invalidate_prefix and the answer.  A view that a request computed from rows
\* read before this, and has not stored yet, is crossed by it.
Invalidate(w) ==
    /\ w \in uncleared
    /\ uncleared' = uncleared \ {w}
    /\ answered' = answered \cup {w}
    /\ entry' = NoEntry
    /\ reads' = [r \in Requests |-> [reads[r] EXCEPT !.crossed = @ \/ reads[r].at = "computes"]]
    /\ UNCHANGED <<clock, written>>

-----------------------------------------------------------------------------
(* Reads. *)

Expired == entry.expires <= clock

\* get_or_set: an entry that has not expired is the answer.
Hit(r) ==
    /\ reads[r].at = "ready"
    /\ ~Expired
    /\ reads' = [reads EXCEPT ![r] =
            [at |-> "served", view |-> entry.view, began |-> clock, known |-> answered, crossed |-> entry.crossed]]
    /\ UNCHANGED <<clock, written, uncleared, answered, entry>>

\* _purge_expired, and the factory begins.
Miss(r) ==
    /\ reads[r].at = "ready"
    /\ Expired
    /\ entry' = NoEntry
    /\ reads' = [reads EXCEPT ![r] = [Ready EXCEPT !.at = "misses", !.began = clock, !.known = answered]]
    /\ UNCHANGED <<clock, written, uncleared, answered>>

\* calculate_gradebook queries the rows.
ReadRows(r) ==
    /\ reads[r].at = "misses"
    /\ reads' = [reads EXCEPT ![r].at = "computes", ![r].view = LastWrite]
    /\ UNCHANGED <<clock, written, uncleared, answered, entry>>

\* The computed view becomes the entry, whatever has happened to the key.
Store(r) ==
    /\ reads[r].at = "computes"
    /\ entry' = [view |-> reads[r].view, expires |-> clock + Ttl, crossed |-> reads[r].crossed]
    /\ reads' = [reads EXCEPT ![r].at = "served"]
    /\ UNCHANGED <<clock, written, uncleared, answered>>

\* A POST to calculate invalidates, and computes past the cache.
Recalculate ==
    /\ entry # NoEntry
    /\ entry' = NoEntry
    /\ UNCHANGED <<clock, written, uncleared, answered, reads>>

Finish(r) ==
    /\ reads[r].at = "served"
    /\ reads' = [reads EXCEPT ![r] = Ready]
    /\ UNCHANGED <<clock, written, uncleared, answered, entry>>

\* Time passes, but not longer than a computation or an answer may take.
Pass ==
    /\ clock < MaxTime
    /\ \A r \in Requests :
        /\ reads[r].at \in {"misses", "computes"} => clock < reads[r].began + MaxCompute
        /\ reads[r].at # "served"
    /\ clock' = clock + 1
    /\ UNCHANGED <<written, uncleared, answered, entry, reads>>

ReadCacheNext ==
    \/ \E invalidates \in BOOLEAN : Commit(invalidates)
    \/ \E w \in uncleared : Invalidate(w)
    \/ \E r \in Requests : Hit(r) \/ Miss(r) \/ ReadRows(r) \/ Store(r) \/ Finish(r)
    \/ Recalculate
    \/ Pass

ReadCacheSpec == ReadCacheInit /\ [][ReadCacheNext]_readCacheVars

-----------------------------------------------------------------------------

\* A read shows every write that was answered before it began, unless the view
\* was computed from older rows while an invalidation went by: get_or_set stores
\* what its factory returned without looking whether the key was invalidated.
AnsweredWritesShow ==
    \A r \in Requests :
        reads[r].at = "served" /\ ~reads[r].crossed => reads[r].known \subseteq 1..reads[r].view
=============================================================================
