---------------------------- MODULE DraftLifecycle ----------------------------
(***************************************************************************)
(* What an AI import session promises its family                           *)
(* (docs/api-integration.md, "Background AI drafts"): a session moves      *)
(* along the life cycle below and nowhere else, every move increments its  *)
(* revision, a confirmation makes exactly one curriculum, and a session    *)
(* that is confirmed or expired stays so until its row is purged.          *)
(***************************************************************************)
EXTENDS Naturals

CONSTANT Sessions

VARIABLES
    state,     \* session -> its status, "none" before it is created
    revision,  \* session -> its revision
    curricula  \* session -> number of curricula it has made

vars == <<state, revision, curricula>>

Moves == [processing |-> {"ready", "failed", "expired"},
          ready      |-> {"confirmed", "expired"},
          failed     |-> {"expired"}]

Init ==
    /\ state     = [s \in Sessions |-> "none"]
    /\ revision  = [s \in Sessions |-> 0]
    /\ curricula = [s \in Sessions |-> 0]

\* A session is created, and old ones are purged with it.
Open(s, purged) ==
    /\ state[s] = "none"
    /\ \A t \in purged : state[t] # "none"
    /\ state' = [t \in Sessions |-> IF t = s THEN "processing"
                                    ELSE IF t \in purged THEN "purged" ELSE state[t]]
    /\ revision' = [revision EXCEPT ![s] = 1]
    /\ UNCHANGED curricula

Move(s, to) ==
    /\ state[s] \in DOMAIN Moves
    /\ to \in Moves[state[s]]
    /\ state' = [state EXCEPT ![s] = to]
    /\ revision' = [revision EXCEPT ![s] = @ + 1]
    /\ curricula' = IF to = "confirmed" THEN [curricula EXCEPT ![s] = @ + 1] ELSE curricula

Next == \E s \in Sessions :
            \/ \E purged \in SUBSET Sessions : Open(s, purged)
            \/ \E to \in {"ready", "failed", "expired", "confirmed"} : Move(s, to)

Spec == Init /\ [][Next]_vars

===============================================================================
