--------------------------- MODULE CurriculumImport ---------------------------
(***************************************************************************)
(* AI import sessions of one family                                        *)
(* (services/curriculum_ai_import_sessions.py) and the curricula they are  *)
(* confirmed into, together with direct imports                            *)
(* (services/curriculum_imports.py).                                       *)
(*                                                                         *)
(* A session is drafted by a task of the event loop; clients poll it,      *)
(* delete it and confirm it.  Every change of a session is a               *)
(* compare-and-set on its status and revision.  A confirmation claims the  *)
(* session, runs the duplicate gate and inserts the curriculum in one      *)
(* transaction under the lock of the family; until it commits, the row it  *)
(* has claimed is locked, and a compare-and-set on it waits.               *)
(***************************************************************************)
EXTENDS Naturals

CONSTANTS
    Sessions,      \* ids of the sessions
    Clients,       \* devices of the family's teachers
    Names,         \* names of curricula
    Contents,      \* subjects, units and lessons of curricula
    Matching,      \* the pairs (imported, existing) that the gate calls duplicates
    MaxCurricula   \* curriculum ids are 1..MaxCurricula

ASSUME ImportAssumption ==
    /\ MaxCurricula \in Nat
    /\ Matching \subseteq Contents \X Contents
    /\ "none" \notin Sessions \cup Clients

None == "none"

SessionStatus == {"processing", "ready", "failed", "expired", "confirmed"}
Ages == {"fresh", "stale", "expired", "purgeable"}

VARIABLES
    status,     \* session -> its status, "none" before and "purged" after
    revision,   \* session -> its revision
    age,        \* session -> how long ago it was created
    task,       \* session -> what its task in the event loop does
    curricula,  \* the curricula of the family
    lastId,     \* the last curriculum id used
    lock,       \* the client that holds the family lock
    request,    \* client -> its request in flight
    made,       \* history: session -> number of curricula it has made
    deleted     \* history: sessions whose deletion has been answered by 204

rows == <<status, revision, age>>
vars == <<rows, task, curricula, lastId, lock, request, made, deleted>>

-----------------------------------------------------------------------------
(* Values *)

NoRequest == [op |-> None, phase |-> None, session |-> None, status |-> None,
              revision |-> 0, name |-> None, content |-> None, acked |-> {}]

Ids == {k.id : k \in curricula}

Exists(s)   == status[s] \in SessionStatus
Overdue(s)  == age[s] \in {"expired", "purgeable"}

\* What a read of a session finds to be done about its age.
Lapsed(s)   == status[s] \in {"processing", "ready", "failed"} /\ Overdue(s)
Stale(s)    == status[s] = "processing" /\ age[s] = "stale"

\* A transaction holds the row of the session.
Claimed(s) == \E c \in Clients : lock = c /\ request[c].session = s

Init ==
    /\ status    = [s \in Sessions |-> None]
    /\ revision  = [s \in Sessions |-> 0]
    /\ age       = [s \in Sessions |-> "fresh"]
    /\ task      = [s \in Sessions |-> None]
    /\ curricula = {}
    /\ lastId    = 0
    /\ lock      = None
    /\ request   = [c \in Clients |-> NoRequest]
    /\ made      = [s \in Sessions |-> 0]
    /\ deleted   = {}

-----------------------------------------------------------------------------
(* Creation, time, and the task that drafts *)

\* create_curriculum_ai_import_session: old rows are purged, whatever their
\* status, and the task is started.
Create(s) ==
    LET purged == {t \in Sessions : Exists(t) /\ age[t] = "purgeable"} IN
    /\ status[s] = None
    /\ \A t \in purged : ~Claimed(t)
    /\ status' = [t \in Sessions |-> IF t = s THEN "processing"
                                     ELSE IF t \in purged THEN "purged" ELSE status[t]]
    /\ revision' = [revision EXCEPT ![s] = 1]
    /\ task' = [task EXCEPT ![s] = "drafting"]
    /\ UNCHANGED <<age, curricula, lastId, lock, request, made, deleted>>

\* processing_stale_after, SESSION_TTL and PURGE_AFTER_EXPIRY go by.
GrowOld(s) ==
    /\ Exists(s)
    /\ age[s] # "purgeable"
    /\ age' = [age EXCEPT ![s] = CASE @ = "fresh" -> "stale"
                                   [] @ = "stale" -> "expired"
                                   [] @ = "expired" -> "purgeable"]
    /\ UNCHANGED <<status, revision, task, curricula, lastId, lock, request, made, deleted>>

\* Every compare-and-set moves the row and increments the revision.
MoveRow(s, to) ==
    /\ status'   = [status EXCEPT ![s] = to]
    /\ revision' = [revision EXCEPT ![s] = @ + 1]
    /\ UNCHANGED age

\* The draft, or the error, is there: the task opens its transaction.
FinishDraft(s) ==
    /\ task[s] = "drafting"
    /\ task' = [task EXCEPT ![s] = "storing"]
    /\ UNCHANGED <<rows, curricula, lastId, lock, request, made, deleted>>

\* Mutant: the result is stored whatever has become of the session.
StoreDraftAnyway(s, outcome) ==
    /\ task[s] = "storing"
    /\ ~Claimed(s)
    /\ Exists(s)
    /\ MoveRow(s, outcome)
    /\ task' = [task EXCEPT ![s] = None]
    /\ UNCHANGED <<curricula, lastId, lock, request, made, deleted>>

\* _complete: only a session that is still processing, at the revision it was
\* created with, takes the result.
StoreDraft(s, outcome) ==
    /\ task[s] = "storing"
    /\ ~Claimed(s)
    /\ IF status[s] = "processing" /\ revision[s] = 1
       THEN MoveRow(s, outcome)
       ELSE UNCHANGED rows
    /\ task' = [task EXCEPT ![s] = None]
    /\ UNCHANGED <<curricula, lastId, lock, request, made, deleted>>

\* cancel_processing: a transaction that is under way may still commit.
Cancel(s) ==
    \E left \in {None} \cup ({task[s]} \cap {"storing"}) : task' = [task EXCEPT ![s] = left]

-----------------------------------------------------------------------------
(* Requests on a session *)

Begin(c, r) ==
    /\ request[c] = NoRequest
    /\ request' = [request EXCEPT ![c] = r]

End(c) == request' = [request EXCEPT ![c] = NoRequest]

AsSeen(r) == status[r.session] = r.status /\ revision[r.session] = r.revision

\* Mutant: a read expires a session but does not mind a task that was lost.
StartRefreshOfDraft(c, s) ==
    /\ status[s] = "ready" /\ Overdue(s)
    /\ Begin(c, [NoRequest EXCEPT !.op = "refresh", !.phase = "expired", !.session = s,
                                  !.status = status[s], !.revision = revision[s]])
    /\ UNCHANGED <<rows, task, curricula, lastId, lock, made, deleted>>

\* refresh_session_state, called by the read and by the confirmation.  A read
\* that finds nothing to do changes nothing.  A confirmation whose refresh
\* succeeds is refused, and one whose refresh loses a race is a StartConfirm on
\* what it then finds.
StartRefresh(c, s) ==
    /\ Lapsed(s) \/ Stale(s)
    /\ Begin(c, [NoRequest EXCEPT !.op = "refresh", !.session = s,
                                  !.phase = IF Lapsed(s) THEN "expired" ELSE "failed",
                                  !.status = status[s], !.revision = revision[s]])
    /\ UNCHANGED <<rows, task, curricula, lastId, lock, made, deleted>>

CommitRefresh(c) ==
    LET r == request[c] IN
    /\ r.op = "refresh"
    /\ ~Claimed(r.session)
    /\ IF AsSeen(r) THEN MoveRow(r.session, r.phase) /\ Cancel(r.session)
                    ELSE UNCHANGED <<rows, task>>
    /\ End(c)
    /\ UNCHANGED <<curricula, lastId, lock, made, deleted>>

StartDelete(c, s) ==
    /\ Exists(s)
    /\ Begin(c, [NoRequest EXCEPT !.op = "delete", !.phase = "read", !.session = s])
    /\ UNCHANGED <<rows, task, curricula, lastId, lock, made, deleted>>

\* expire_session reads the session, for the first time or after it has lost a
\* race: one that has expired is answered by 204, and one that is confirmed or
\* gone by an error.
DeleteReads(c) ==
    LET s == request[c].session IN
    /\ request[c].op = "delete" /\ request[c].phase = "read"
    /\ IF status[s] = "confirmed" \/ ~Exists(s)
       THEN End(c) /\ UNCHANGED <<task, deleted>>
       ELSE /\ Cancel(s)
            /\ IF status[s] = "expired"
               THEN End(c) /\ deleted' = deleted \cup {s}
               ELSE /\ request' = [request EXCEPT ![c].phase = "write",
                                                  ![c].status = status[s],
                                                  ![c].revision = revision[s]]
                    /\ UNCHANGED deleted
    /\ UNCHANGED <<rows, curricula, lastId, lock, made>>

\* Mutant: a compare-and-set that fails is taken for a success.
DeleteWritesOnce(c) ==
    LET r == request[c] IN
    /\ r.op = "delete" /\ r.phase = "write"
    /\ ~Claimed(r.session)
    /\ IF AsSeen(r) THEN MoveRow(r.session, "expired") ELSE UNCHANGED rows
    /\ End(c)
    /\ deleted' = deleted \cup {r.session}
    /\ UNCHANGED <<task, curricula, lastId, lock, made>>

\* The compare-and-set, which is repeated on what is then read when it fails.
DeleteWrites(c) ==
    LET r == request[c] IN
    /\ r.op = "delete" /\ r.phase = "write"
    /\ ~Claimed(r.session)
    /\ IF AsSeen(r)
       THEN /\ MoveRow(r.session, "expired")
            /\ End(c)
            /\ deleted' = deleted \cup {r.session}
       ELSE /\ request' = [request EXCEPT ![c].phase = "read"]
            /\ UNCHANGED <<rows, deleted>>
    /\ UNCHANGED <<task, curricula, lastId, lock, made>>

-----------------------------------------------------------------------------
(* Imports: create_imported_curriculum *)

\* A draft as the client edited it, and the duplicates it was told about.
Import(c, s, seen) ==
    \E name \in Names, content \in Contents, acked \in SUBSET Ids :
        Begin(c, [op |-> "import", phase |-> "queued", session |-> s, status |-> "ready",
                  revision |-> seen, name |-> name, content |-> content, acked |-> acked])

\* confirm_session, for a session that _ensure_confirmable lets pass.
StartConfirm(c, s) ==
    /\ status[s] = "ready" /\ ~Overdue(s)
    /\ Import(c, s, revision[s])
    /\ UNCHANGED <<rows, task, curricula, lastId, lock, made, deleted>>

\* A curriculum that comes from a file, a source or the synchronous AI import.
StartImport(c) ==
    /\ Import(c, None, 0)
    /\ UNCHANGED <<rows, task, curricula, lastId, lock, made, deleted>>

Importing(c, phase) == request[c].op = "import" /\ request[c].phase = phase

\* Mutant: the family is not locked.
TakeFamilyUnlocked(c) ==
    /\ Importing(c, "queued")
    /\ request' = [request EXCEPT ![c].phase = "gate"]
    /\ UNCHANGED <<rows, task, curricula, lastId, lock, made, deleted>>

\* The family lock, and then the claim of the session.
TakeFamily(c) ==
    LET r == request[c] IN
    /\ Importing(c, "queued")
    /\ lock = None
    /\ IF r.session = None \/ (AsSeen(r) /\ ~Overdue(r.session))
       THEN /\ lock' = c
            /\ request' = [request EXCEPT ![c].phase = "gate"]
       ELSE End(c) /\ UNCHANGED lock
    /\ UNCHANGED <<rows, task, curricula, lastId, made, deleted>>

NameIsFree(r) == \A k \in curricula : k.name # r.name

\* check_import_gates: the name is free, and every match is acknowledged.
GateOpens(r) ==
    /\ NameIsFree(r)
    /\ \A k \in curricula : <<r.content, k.content>> \in Matching => k.id \in r.acked

PassGate(c) ==
    /\ Importing(c, "gate")
    /\ GateOpens(request[c])
    /\ request' = [request EXCEPT ![c].phase = "insert"]
    /\ UNCHANGED <<rows, task, curricula, lastId, lock, made, deleted>>

\* Names are unique in the database too.
Insert(c) ==
    LET r == request[c] IN
    /\ Importing(c, "insert")
    /\ NameIsFree(r)
    /\ lastId < MaxCurricula
    /\ lastId' = lastId + 1
    /\ curricula' = curricula \cup {[id |-> lastId + 1, name |-> r.name, content |-> r.content,
                                     from |-> r.session, acked |-> r.acked]}
    /\ IF r.session = None
       THEN UNCHANGED <<rows, made>>
       ELSE /\ MoveRow(r.session, "confirmed")
            /\ made' = [made EXCEPT ![r.session] = @ + 1]
    /\ lock' = None
    /\ End(c)
    /\ UNCHANGED <<task, deleted>>

\* A gate that is closed, an error, or a lost connection: everything is rolled
\* back and the session stays as it was.
Abort(c) ==
    /\ request[c] # NoRequest
    /\ lock' = IF lock = c THEN None ELSE lock
    /\ End(c)
    /\ UNCHANGED <<rows, task, curricula, lastId, made, deleted>>

\* delete_imported_curriculum, which takes no lock of the family.  The session
\* it came from stays confirmed, with no curriculum.
DeleteCurriculum(k) ==
    /\ curricula' = curricula \ {k}
    /\ UNCHANGED <<rows, task, lastId, lock, request, made, deleted>>

\* The process is restarted: tasks, locks and transactions are gone.
Restart ==
    /\ task'    = [s \in Sessions |-> None]
    /\ lock'    = None
    /\ request' = [c \in Clients |-> NoRequest]
    /\ UNCHANGED <<rows, curricula, lastId, made, deleted>>

-----------------------------------------------------------------------------

Task(s) == FinishDraft(s) \/ \E outcome \in {"ready", "failed"} : StoreDraft(s, outcome)

Start(c) ==
    \/ \E s \in Sessions : StartRefresh(c, s) \/ StartDelete(c, s) \/ StartConfirm(c, s)
    \/ StartImport(c)

Serve(c) ==
    \/ CommitRefresh(c)
    \/ DeleteReads(c) \/ DeleteWrites(c)
    \/ TakeFamily(c) \/ PassGate(c) \/ Insert(c)
    \/ Abort(c)

Next == \/ \E s \in Sessions : Create(s) \/ GrowOld(s) \/ Task(s)
        \/ \E c \in Clients : Start(c) \/ Serve(c)
        \/ \E k \in curricula : DeleteCurriculum(k)
        \/ Restart

Spec == Init /\ [][Next]_vars

\* Time passes, the server gets on with a request or drops it, and the page that
\* shows a session polls it until an answer comes through.
Poll(s) == \E c \in Clients : StartRefresh(c, s)
Polled(s) == \E c \in Clients : request[c].session = s /\ CommitRefresh(c)

FairSpec ==
    /\ Spec
    /\ \A s \in Sessions : /\ WF_vars(GrowOld(s))
                           /\ SF_vars(Poll(s))
                           /\ SF_vars(Polled(s))
    /\ \A c \in Clients : WF_vars(Serve(c))

-----------------------------------------------------------------------------
(* Properties *)

CurriculumType == [id : 1..MaxCurricula, name : Names, content : Contents,
                   from : Sessions \cup {None}, acked : SUBSET (1..MaxCurricula)]
RequestType == [op : {None, "refresh", "delete", "import"},
                phase : {None, "expired", "failed", "read", "write", "queued", "gate", "insert"},
                session : Sessions \cup {None}, status : SessionStatus \cup {None},
                revision : Nat, name : Names \cup {None}, content : Contents \cup {None},
                acked : SUBSET (1..MaxCurricula)]

\* Every row and every request has its type, and the lock of the family is held
\* by an import that is between its claim and its end
\* (_family_lock).
TypeOK ==
    /\ status   \in [Sessions -> SessionStatus \cup {None, "purged"}]
    /\ revision \in [Sessions -> Nat]
    /\ age      \in [Sessions -> Ages]
    /\ task     \in [Sessions -> {None, "drafting", "storing"}]
    /\ curricula \subseteq CurriculumType
    /\ lastId   \in 0..MaxCurricula
    /\ lock     \in Clients \cup {None}
    /\ lock # None => /\ request[lock].op = "import"
                      /\ request[lock].phase \in {"gate", "insert"}
    /\ request  \in [Clients -> RequestType]
    /\ made     \in [Sessions -> Nat]
    /\ deleted  \subseteq Sessions

\* A session follows its life cycle, whatever tasks, polls, deletions,
\* confirmations and restarts race for it: its revision counts its moves, it
\* makes one curriculum and only by being confirmed, and nothing revives it
\* (docs/api-integration.md, "Late or cancelled workers cannot overwrite a
\* session").
Lifecycle == INSTANCE DraftLifecycle WITH state <- status, curricula <- made

FollowsLifecycle == Lifecycle!Spec

\* A deletion that was answered by 204 is for good: the session never becomes a
\* curriculum (expire_session).
DeletedStaysDeleted ==
    \A s \in deleted : status[s] \in {"expired", "purged"} /\ made[s] = 0

\* The gate cannot be raced: of two curricula that match, the later one
\* was imported by somebody who had been told of the earlier one, and no two
\* have the same name (create_imported_curriculum, "so concurrent confirmations
\* cannot both pass the gate").
NoUnseenDuplicate ==
    \A j, k \in curricula :
        j.id < k.id => /\ j.name # k.name
                       /\ <<k.content, j.content>> \in Matching => j.id \in k.acked

\* A session does not stay in processing, even when its task is lost.
ProcessingEnds == \A s \in Sessions : status[s] = "processing" ~> status[s] # "processing"

===============================================================================
