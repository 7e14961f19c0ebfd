------------------------ MODULE CurriculumImportProofs ------------------------
(***************************************************************************)
(* Theorems of CurriculumImport, for any sessions, clients, names and      *)
(* contents, and any relation between curricula that match.                *)
(***************************************************************************)
EXTENDS CurriculumImport, TLAPS

-----------------------------------------------------------------------------
(* Types *)

\* A request that is over is typed, and one that has begun if its record is.
LEMMA NoRequestTyped == NoRequest \in RequestType
BY DEF NoRequest, RequestType, None

LEMMA RequestsTyped ==
    ASSUME TypeOK, NEW c \in Clients, NEW r \in RequestType,
           request' = [request EXCEPT ![c] = r]
    PROVE  request' \in [Clients -> RequestType]
BY DEF TypeOK

\* The lock stays with an import when the request of another client changes.
LEMMA LockTyped ==
    ASSUME TypeOK, NEW c \in Clients, lock # c, UNCHANGED lock,
           NEW r, request' = [request EXCEPT ![c] = r]
    PROVE  /\ lock' \in Clients \cup {None}
           /\ lock' # None => /\ request'[lock'].op = "import"
                              /\ request'[lock'].phase \in {"gate", "insert"}
<1>1. lock # None => lock \in Clients /\ request'[lock] = request[lock]
  BY DEF TypeOK
<1> QED
  BY <1>1 DEF TypeOK

\* A row that has moved.
LEMMA RowsTyped ==
    ASSUME TypeOK, NEW s \in Sessions, NEW to \in SessionStatus, MoveRow(s, to)
    PROVE  /\ status'   \in [Sessions -> SessionStatus \cup {None, "purged"}]
           /\ revision' \in [Sessions -> Nat]
           /\ age'      \in [Sessions -> Ages]
BY DEF TypeOK, MoveRow

LEMMA TaskTyped ==
    ASSUME TypeOK, NEW s \in Sessions, Cancel(s)
    PROVE  task' \in [Sessions -> {None, "drafting", "storing"}]
BY DEF TypeOK, Cancel

LEMMA TypeInit == Init => TypeOK
BY NoRequestTyped, ImportAssumption
DEF Init, TypeOK, SessionStatus, Ages, None

LEMMA TypeSession ==
    ASSUME TypeOK, NEW s \in Sessions, Create(s) \/ GrowOld(s) \/ Task(s)
    PROVE  TypeOK'
<1>1. CASE Create(s)
  BY <1>1 DEF Create, TypeOK, SessionStatus
<1>2. CASE GrowOld(s)
  BY <1>2 DEF GrowOld, TypeOK, Ages
<1>3. CASE FinishDraft(s)
  BY <1>3 DEF FinishDraft, TypeOK, rows
<1>4. ASSUME NEW outcome \in {"ready", "failed"}, StoreDraft(s, outcome)
      PROVE  TypeOK'
  BY <1>4 DEF StoreDraft, MoveRow, TypeOK, SessionStatus, rows
<1> QED
  BY <1>1, <1>2, <1>3, <1>4 DEF Task

LEMMA TypeStart ==
    ASSUME TypeOK, NEW c \in Clients, Start(c)
    PROVE  TypeOK'
<1> USE DEF Start, rows
<1>1. lock # c /\ UNCHANGED lock
  <2>1. request[c] = NoRequest
    BY DEF StartRefresh, StartDelete, StartConfirm, StartImport, Import, Begin
  <2>2. lock = c => request[c].op = "import"
    BY ImportAssumption DEF TypeOK, None
  <2>3. UNCHANGED lock
    BY DEF StartRefresh, StartDelete, StartConfirm, StartImport
  <2> QED
    BY <2>1, <2>2, <2>3 DEF NoRequest, None
<1>2. PICK r \in RequestType : request' = [request EXCEPT ![c] = r]
  <2>1. ASSUME NEW s \in Sessions, StartRefresh(c, s)
        PROVE  \E r \in RequestType : Begin(c, r)
    BY <2>1 DEF StartRefresh, Begin, NoRequest, RequestType, TypeOK, Lapsed, Stale, SessionStatus, None
  <2>2. ASSUME NEW s \in Sessions, StartDelete(c, s)
        PROVE  \E r \in RequestType : Begin(c, r)
    BY <2>2 DEF StartDelete, Begin, NoRequest, RequestType, None
  <2>3. ASSUME NEW s \in Sessions \cup {None}, NEW seen \in Nat, Import(c, s, seen)
        PROVE  \E r \in RequestType : Begin(c, r)
    <3>1. Ids \subseteq 1..MaxCurricula
      BY DEF Ids, TypeOK, CurriculumType
    <3>2. PICK name \in Names, content \in Contents, acked \in SUBSET Ids :
             Begin(c, [op |-> "import", phase |-> "queued", session |-> s, status |-> "ready",
                       revision |-> seen, name |-> name, content |-> content, acked |-> acked])
      BY <2>3 DEF Import
    <3> DEFINE r == [op |-> "import", phase |-> "queued", session |-> s, status |-> "ready",
                     revision |-> seen, name |-> name, content |-> content, acked |-> acked]
    <3>3. r \in RequestType
      BY <3>1 DEF RequestType, SessionStatus
    <3> QED
      BY <3>2, <3>3
  <2>4. \A s \in Sessions : revision[s] \in Nat
    BY DEF TypeOK
  <2> QED
    BY <2>1, <2>2, <2>3, <2>4 DEF StartConfirm, StartImport, Begin
<1>3. UNCHANGED <<status, revision, age, task, curricula, lastId, made, deleted>>
  BY DEF StartRefresh, StartDelete, StartConfirm, StartImport
<1> QED
  BY <1>1, <1>2, <1>3, RequestsTyped, LockTyped DEF TypeOK

LEMMA TypeRefresh ==
    ASSUME TypeOK, NEW c \in Clients, CommitRefresh(c),
           request[c].session \in Sessions, request[c].phase \in SessionStatus
    PROVE  TypeOK'
<1> DEFINE r == request[c]
<1>1. lock # c /\ UNCHANGED <<lock, curricula, lastId, made, deleted>>
  BY ImportAssumption DEF CommitRefresh, TypeOK, None
<1>2. request' = [request EXCEPT ![c] = NoRequest]
  BY DEF CommitRefresh, End
<1>3. CASE AsSeen(r)
  <2>1. MoveRow(r.session, r.phase) /\ Cancel(r.session)
    BY <1>3 DEF CommitRefresh
  <2> QED
    BY <1>1, <1>2, <2>1, RowsTyped, TaskTyped, RequestsTyped, NoRequestTyped, LockTyped DEF TypeOK
<1>4. CASE ~AsSeen(r)
  <2>1. UNCHANGED <<rows, task>>
    BY <1>4 DEF CommitRefresh
  <2> QED
    BY <1>1, <1>2, <2>1, RequestsTyped, NoRequestTyped, LockTyped DEF TypeOK, rows
<1> QED
  BY <1>3, <1>4

LEMMA TypeDelete ==
    ASSUME TypeOK, NEW c \in Clients, DeleteReads(c) \/ DeleteWrites(c),
           request[c].session \in Sessions
    PROVE  TypeOK'
<1> DEFINE s == request[c].session
<1>1. lock # c /\ UNCHANGED <<lock, curricula, lastId, made>>
  BY ImportAssumption DEF DeleteReads, DeleteWrites, TypeOK, None
<1>2. PICK r \in RequestType : request' = [request EXCEPT ![c] = r]
  <2>1. request[c] \in RequestType /\ status[s] \in SessionStatus \cup {None, "purged"}
        /\ revision[s] \in Nat
    BY DEF TypeOK
  <2>2. CASE request' = [request EXCEPT ![c] = NoRequest]
    BY <2>2, NoRequestTyped
  <2>3. CASE request' = [request EXCEPT ![c].phase = "read"]
    <3>1. [request[c] EXCEPT !.phase = "read"] \in RequestType
      BY <2>1 DEF RequestType
    <3> QED
      BY <2>3, <3>1 DEF TypeOK
  <2>4. CASE /\ request' = [request EXCEPT ![c].phase = "write",
                                           ![c].status = status[s], ![c].revision = revision[s]]
             /\ Exists(s)
    <3> DEFINE w == [request[c] EXCEPT !.phase = "write", !.status = status[s],
                                       !.revision = revision[s]]
    <3>1. w \in RequestType
      BY <2>1, <2>4 DEF RequestType, Exists
    <3>2. request' = [request EXCEPT ![c] = w]
      BY <2>4 DEF TypeOK
    <3> QED
      BY <3>1, <3>2
  <2> QED
    BY <2>2, <2>3, <2>4 DEF DeleteReads, DeleteWrites, End
<1>3. /\ status' \in [Sessions -> SessionStatus \cup {None, "purged"}]
      /\ revision' \in [Sessions -> Nat]
      /\ age' \in [Sessions -> Ages]
      /\ task' \in [Sessions -> {None, "drafting", "storing"}]
      /\ deleted' \subseteq Sessions
  <2>1. CASE DeleteReads(c)
    BY <2>1, TaskTyped DEF DeleteReads, TypeOK, rows
  <2>2. CASE DeleteWrites(c)
    BY <2>2, RowsTyped DEF DeleteWrites, TypeOK, rows, SessionStatus
  <2> QED
    BY <2>1, <2>2
<1> QED
  BY <1>1, <1>2, <1>3, RequestsTyped, LockTyped DEF TypeOK

LEMMA TypeImport ==
    ASSUME TypeOK, NEW c \in Clients, TakeFamily(c) \/ PassGate(c) \/ Insert(c) \/ Abort(c),
           Importing(c, "insert") => lock = c,
           Importing(c, "gate") => lock = c,
           request[c].op = "import" => request[c].name \in Names /\ request[c].content \in Contents
    PROVE  TypeOK'
<1>1. CASE TakeFamily(c)
  <2>1. UNCHANGED <<rows, task, curricula, lastId, made, deleted>> /\ lock = None
    BY <1>1 DEF TakeFamily
  <2>2. CASE lock' = c /\ request' = [request EXCEPT ![c].phase = "gate"]
    <3>1. [request[c] EXCEPT !.phase = "gate"] \in RequestType
      BY DEF TypeOK, RequestType
    <3>2. request'[c].op = "import" /\ request'[c].phase = "gate"
      BY <1>1, <2>2, <3>1 DEF TakeFamily, Importing, TypeOK, RequestType
    <3> QED
      BY <2>1, <2>2, <3>1, <3>2 DEF TypeOK, rows
  <2>3. CASE UNCHANGED lock /\ request' = [request EXCEPT ![c] = NoRequest]
    BY <2>1, <2>3, NoRequestTyped DEF TypeOK, rows
  <2> QED
    BY <1>1, <2>2, <2>3 DEF TakeFamily, End
<1>2. CASE PassGate(c)
  <2>1. [request[c] EXCEPT !.phase = "insert"] \in RequestType
    BY DEF TypeOK, RequestType
  <2>2. UNCHANGED <<rows, task, curricula, lastId, lock, made, deleted>> /\ lock = c
    BY <1>2 DEF PassGate
  <2>3. /\ request' = [request EXCEPT ![c] = [request[c] EXCEPT !.phase = "insert"]]
        /\ request[c].op = "import"
    BY <1>2 DEF PassGate, Importing, TypeOK
  <2>4. request'[c].op = "import" /\ request'[c].phase = "insert"
    BY <2>1, <2>3 DEF TypeOK, RequestType
  <2> QED
    BY <2>1, <2>2, <2>3, <2>4 DEF TypeOK, rows
<1>3. CASE Insert(c)
  <2>1. request' = [request EXCEPT ![c] = NoRequest] /\ lock' = None /\ UNCHANGED <<task, deleted>>
    BY <1>3 DEF Insert, End
  <2>2. /\ request' \in [Clients -> RequestType]
        /\ lastId' \in 0..MaxCurricula
    BY <1>3, <2>1, RequestsTyped, NoRequestTyped, ImportAssumption DEF Insert, TypeOK
  <2>3. curricula' \subseteq CurriculumType
    <3> DEFINE r == request[c]
               k == [id |-> lastId + 1, name |-> r.name, content |-> r.content,
                     from |-> r.session, acked |-> r.acked]
    <3>1. curricula' = curricula \cup {k} /\ lastId + 1 \in 1..MaxCurricula
      BY <1>3, ImportAssumption DEF Insert, TypeOK
    <3>2. r \in RequestType /\ r.name \in Names /\ r.content \in Contents
      BY <1>3 DEF TypeOK, Insert, Importing
    <3>3. k \in CurriculumType
      BY <3>1, <3>2 DEF CurriculumType, RequestType
    <3> QED
      BY <3>1, <3>3 DEF TypeOK
  <2>4. /\ status' \in [Sessions -> SessionStatus \cup {None, "purged"}]
        /\ revision' \in [Sessions -> Nat]
        /\ age' \in [Sessions -> Ages]
        /\ made' \in [Sessions -> Nat]
    <3>1. request[c].session \in Sessions \cup {None}
      BY DEF TypeOK, RequestType
    <3> QED
      BY <1>3, <3>1, RowsTyped DEF Insert, TypeOK, rows, SessionStatus
  <2> QED
    BY <2>1, <2>2, <2>3, <2>4 DEF TypeOK
<1>4. CASE Abort(c)
  <2>1. /\ request' = [request EXCEPT ![c] = NoRequest]
        /\ lock' = IF lock = c THEN None ELSE lock
        /\ UNCHANGED <<rows, task, curricula, lastId, made, deleted>>
    BY <1>4 DEF Abort, End
  <2> QED
    BY <2>1, RequestsTyped, NoRequestTyped, LockTyped DEF TypeOK, rows
<1> QED
  BY <1>1, <1>2, <1>3, <1>4

LEMMA TypeRest ==
    ASSUME TypeOK, Restart \/ \E k \in curricula : DeleteCurriculum(k)
    PROVE  TypeOK'
<1>1. CASE Restart
  BY <1>1, NoRequestTyped DEF Restart, TypeOK, rows
<1>2. CASE \E k \in curricula : DeleteCurriculum(k)
  BY <1>2 DEF DeleteCurriculum, TypeOK, rows
<1> QED
  BY <1>1, <1>2

-----------------------------------------------------------------------------
(* The inductive invariant *)

\* What a request has read is what it may act on.
RequestOK(r) ==
    /\ r.op \in {"refresh", "delete"} => r.session \in Sessions
    /\ r.op = "refresh" => /\ r.status \in {"processing", "ready", "failed"}
                           /\ r.phase = "expired" \/ (r.phase = "failed" /\ r.status = "processing")
    /\ r.op = "delete" /\ r.phase = "write" => r.status \in {"processing", "ready", "failed"}
    /\ r.op = "import" => r.status = "ready" /\ r.name \in Names /\ r.content \in Contents

Requests == \A c \in Clients : RequestOK(request[c])

\* An import past its claim has the lock of the family, and the session it has
\* claimed is as it was.
Claims ==
    \A c \in Clients :
        /\ Importing(c, "gate") \/ Importing(c, "insert") => lock = c
        /\ lock = c /\ request[c].session # None => AsSeen(request[c])

\* A session has made a curriculum only if it was confirmed.
Makings == \A s \in Sessions : status[s] \notin {"confirmed", "purged"} => made[s] = 0

\* Ids are used in order.
Numbers == \A k \in curricula : k.id <= lastId

\* What an import has seen at the gate is still so when it inserts.
Passed == \A c \in Clients : Importing(c, "insert") => GateOpens(request[c])

IInv == /\ TypeOK /\ Requests /\ Claims /\ Makings /\ Numbers /\ Passed
        /\ DeletedStaysDeleted /\ NoUnseenDuplicate

LEMMA InvInit == Init => IInv
<1> SUFFICES ASSUME Init PROVE IInv
  OBVIOUS
<1>1. TypeOK
  BY TypeInit
<1>2. Requests /\ Claims /\ Passed
  BY ImportAssumption
  DEF Init, Requests, RequestOK, Claims, Passed, Importing, NoRequest, None
<1>3. Makings /\ Numbers /\ DeletedStaysDeleted /\ NoUnseenDuplicate
  BY DEF Init, Makings, Numbers, DeletedStaysDeleted, NoUnseenDuplicate
<1> QED
  BY <1>1, <1>2, <1>3 DEF IInv

LEMMA TypeStep == IInv /\ Next => TypeOK'
<1> SUFFICES ASSUME IInv, Next PROVE TypeOK'
  OBVIOUS
<1> USE DEF IInv
<1>1. ASSUME NEW s \in Sessions, Create(s) \/ GrowOld(s) \/ Task(s)
      PROVE  TypeOK'
  BY <1>1, TypeSession
<1>2. ASSUME NEW c \in Clients, Start(c)
      PROVE  TypeOK'
  BY <1>2, TypeStart
<1>3. ASSUME NEW c \in Clients, Serve(c)
      PROVE  TypeOK'
  <2>1. RequestOK(request[c])
    BY DEF Requests
  <2>2. CASE CommitRefresh(c)
    <3>1. request[c].session \in Sessions /\ request[c].phase \in SessionStatus
      BY <2>1, <2>2 DEF RequestOK, CommitRefresh, SessionStatus
    <3> QED
      BY <2>2, <3>1, TypeRefresh
  <2>3. CASE DeleteReads(c) \/ DeleteWrites(c)
    <3>1. request[c].session \in Sessions
      BY <2>1, <2>3 DEF RequestOK, DeleteReads, DeleteWrites
    <3> QED
      BY <2>3, <3>1, TypeDelete
  <2>4. CASE TakeFamily(c) \/ PassGate(c) \/ Insert(c) \/ Abort(c)
    <3>1. /\ Importing(c, "insert") => lock = c
          /\ Importing(c, "gate") => lock = c
      BY DEF Claims
    <3>2. request[c].op = "import" => request[c].name \in Names /\ request[c].content \in Contents
      BY <2>1 DEF RequestOK
    <3> QED
      BY <2>4, <3>1, <3>2, TypeImport
  <2> QED
    BY <1>3, <2>2, <2>3, <2>4 DEF Serve
<1> QED
  BY <1>1, <1>2, <1>3, TypeRest DEF Next

-----------------------------------------------------------------------------
(* The life cycle *)

\* A compare-and-set that moves a row along the life cycle, without making a
\* curriculum.
LEMMA MoveIsLegal ==
    ASSUME TypeOK, NEW s \in Sessions, NEW to \in {"ready", "failed", "expired"},
           MoveRow(s, to), UNCHANGED made,
           \/ status[s] = "processing"
           \/ status[s] \in {"ready", "failed"} /\ to = "expired"
    PROVE  Lifecycle!Move(s, to)
<1>1. /\ status' = [status EXCEPT ![s] = to]
      /\ revision' = [revision EXCEPT ![s] = @ + 1]
  BY DEF MoveRow
<1>2. status[s] \in DOMAIN Lifecycle!Moves /\ to \in Lifecycle!Moves[status[s]]
  BY DEF Lifecycle!Moves
<1> QED
  BY <1>1, <1>2 DEF Lifecycle!Move

\* The steps that leave every row and every count alone.
LEMMA Quiet ==
    ASSUME NEW c \in Clients,
           \/ Start(c) \/ DeleteReads(c) \/ TakeFamily(c) \/ PassGate(c) \/ Abort(c)
           \/ CommitRefresh(c) /\ ~AsSeen(request[c])
           \/ DeleteWrites(c) /\ ~AsSeen(request[c])
    PROVE  UNCHANGED <<rows, made, curricula, lastId>>
BY DEF Start, StartRefresh, StartDelete, StartConfirm, StartImport, DeleteReads, TakeFamily,
       PassGate, Abort, CommitRefresh, DeleteWrites

\* The session that an import inserts for is ready.
LEMMA InsertHasClaim ==
    ASSUME IInv, NEW c \in Clients, Insert(c)
    PROVE  /\ lock = c
           /\ request[c].session \in Sessions \cup {None}
           /\ request[c].session # None => status[request[c].session] = "ready"
<1>1. lock = c
  BY DEF IInv, Claims, Insert
<1>2. request[c].session # None => AsSeen(request[c])
  BY <1>1 DEF IInv, Claims
<1>3. request[c].status = "ready"
  BY DEF IInv, Requests, RequestOK, Insert, Importing
<1>4. request[c].session \in Sessions \cup {None}
  BY DEF IInv, TypeOK, RequestType
<1> QED
  BY <1>1, <1>2, <1>3, <1>4 DEF AsSeen

LEMMA LifecycleStep ==
    IInv /\ [Next]_vars => [Lifecycle!Next]_(Lifecycle!vars)
<1> SUFFICES ASSUME IInv, [Next]_vars
             PROVE  [Lifecycle!Next]_(Lifecycle!vars)
  OBVIOUS
<1>1. ASSUME NEW s \in Sessions, Create(s)
      PROVE  Lifecycle!Next
  <2> DEFINE purged == {t \in Sessions : Exists(t) /\ age[t] = "purgeable"}
  <2>1. Lifecycle!Open(s, purged)
    BY <1>1 DEF Create, Lifecycle!Open, Exists, SessionStatus, None
  <2> QED
    BY <2>1 DEF Lifecycle!Next
<1>2. ASSUME NEW s \in Sessions, GrowOld(s) \/ FinishDraft(s)
      PROVE  UNCHANGED Lifecycle!vars
  BY <1>2 DEF GrowOld, FinishDraft, Lifecycle!vars, rows
<1>3. ASSUME NEW s \in Sessions, NEW outcome \in {"ready", "failed"}, StoreDraft(s, outcome)
      PROVE  [Lifecycle!Next]_(Lifecycle!vars)
  <2>1. CASE status[s] = "processing" /\ revision[s] = 1
    <3>1. MoveRow(s, outcome) /\ UNCHANGED made
      BY <1>3, <2>1 DEF StoreDraft
    <3> QED
      BY <2>1, <3>1, MoveIsLegal DEF IInv, Lifecycle!Next
  <2>2. CASE ~(status[s] = "processing" /\ revision[s] = 1)
    BY <1>3, <2>2 DEF StoreDraft, Lifecycle!vars, rows
  <2> QED
    BY <2>1, <2>2
<1>4. ASSUME NEW c \in Clients, CommitRefresh(c), AsSeen(request[c])
      PROVE  Lifecycle!Next
  <2> DEFINE r == request[c]
  <2>1. /\ r.session \in Sessions
        /\ r.status \in {"processing", "ready", "failed"}
        /\ r.phase = "expired" \/ (r.phase = "failed" /\ r.status = "processing")
    BY <1>4 DEF IInv, Requests, RequestOK, CommitRefresh
  <2>2. MoveRow(r.session, r.phase) /\ UNCHANGED made /\ status[r.session] = r.status
    BY <1>4 DEF CommitRefresh, AsSeen
  <2> QED
    BY <2>1, <2>2, MoveIsLegal DEF IInv, Lifecycle!Next
<1>5. ASSUME NEW c \in Clients, DeleteWrites(c), AsSeen(request[c])
      PROVE  Lifecycle!Next
  <2> DEFINE r == request[c]
  <2>1. r.session \in Sessions /\ r.status \in {"processing", "ready", "failed"}
    BY <1>5 DEF IInv, Requests, RequestOK, DeleteWrites
  <2>2. MoveRow(r.session, "expired") /\ UNCHANGED made /\ status[r.session] = r.status
    BY <1>5 DEF DeleteWrites, AsSeen
  <2> QED
    BY <2>1, <2>2, MoveIsLegal DEF IInv, Lifecycle!Next
<1>6. ASSUME NEW c \in Clients, Insert(c)
      PROVE  [Lifecycle!Next]_(Lifecycle!vars)
  <2> DEFINE s == request[c].session
  <2>1. CASE s = None
    BY <1>6, <2>1 DEF Insert, Lifecycle!vars, rows
  <2>2. CASE s # None
    <3>1. s \in Sessions /\ status[s] = "ready"
      BY <1>6, <2>2, InsertHasClaim
    <3>2. MoveRow(s, "confirmed") /\ made' = [made EXCEPT ![s] = @ + 1]
      BY <1>6, <2>2 DEF Insert
    <3>3. Lifecycle!Move(s, "confirmed")
      BY <3>1, <3>2 DEF MoveRow, Lifecycle!Move, Lifecycle!Moves
    <3> QED
      BY <3>1, <3>3 DEF Lifecycle!Next
  <2> QED
    BY <2>1, <2>2
<1>7. ASSUME Restart \/ (\E k \in curricula : DeleteCurriculum(k)) \/ UNCHANGED vars
      PROVE  UNCHANGED Lifecycle!vars
  BY <1>7 DEF Restart, DeleteCurriculum, vars, rows, Lifecycle!vars
<1>8. ASSUME NEW c \in Clients, UNCHANGED <<rows, made, curricula, lastId>>
      PROVE  UNCHANGED Lifecycle!vars
  BY <1>8 DEF rows, Lifecycle!vars
<1> QED
  BY <1>1, <1>2, <1>3, <1>4, <1>5, <1>6, <1>7, <1>8, Quiet DEF Next, Task, Serve

-----------------------------------------------------------------------------
(* Every step keeps the invariant *)

LEMMA MakingsStep == IInv /\ Next => Makings'
<1> SUFFICES ASSUME IInv, Next, NEW s \in Sessions, status'[s] \notin {"confirmed", "purged"}
             PROVE  made'[s] = 0
  BY DEF Makings
<1> USE DEF IInv, TypeOK, Makings
<1>1. CASE Lifecycle!Next
  <2>1. ASSUME NEW t \in Sessions, NEW purged \in SUBSET Sessions, Lifecycle!Open(t, purged)
        PROVE  made'[s] = 0
    BY <2>1 DEF Lifecycle!Open
  <2>2. ASSUME NEW t \in Sessions, NEW to \in {"ready", "failed", "expired", "confirmed"},
               Lifecycle!Move(t, to)
        PROVE  made'[s] = 0
    BY <2>2 DEF Lifecycle!Move, Lifecycle!Moves
  <2> QED
    BY <1>1, <2>1, <2>2 DEF Lifecycle!Next
<1>2. CASE UNCHANGED Lifecycle!vars
  BY <1>2 DEF Lifecycle!vars
<1> QED
  BY <1>1, <1>2, LifecycleStep

\* Once expired or purged, a session makes no curriculum and is never revived.
LEMMA ExpiredIsFinal ==
    ASSUME IInv, Next, NEW s \in Sessions, status[s] \in {"expired", "purged"}
    PROVE  status'[s] \in {"expired", "purged"} /\ made'[s] = made[s]
<1> USE DEF IInv, TypeOK
<1>1. CASE Lifecycle!Next
  <2>1. ASSUME NEW t \in Sessions, NEW purged \in SUBSET Sessions, Lifecycle!Open(t, purged)
        PROVE  status'[s] \in {"expired", "purged"} /\ made'[s] = made[s]
    BY <2>1 DEF Lifecycle!Open
  <2>2. ASSUME NEW t \in Sessions, NEW to \in {"ready", "failed", "expired", "confirmed"},
               Lifecycle!Move(t, to)
        PROVE  status'[s] \in {"expired", "purged"} /\ made'[s] = made[s]
    BY <2>2 DEF Lifecycle!Move, Lifecycle!Moves
  <2> QED
    BY <1>1, <2>1, <2>2 DEF Lifecycle!Next
<1>2. CASE UNCHANGED Lifecycle!vars
  BY <1>2 DEF Lifecycle!vars
<1> QED
  BY <1>1, <1>2, LifecycleStep

LEMMA DeletedStep == IInv /\ Next => DeletedStaysDeleted'
<1> SUFFICES ASSUME IInv, Next, NEW s \in deleted'
             PROVE  status'[s] \in {"expired", "purged"} /\ made'[s] = 0
  BY DEF DeletedStaysDeleted
<1>1. CASE s \in deleted
  <2>1. s \in Sessions /\ status[s] \in {"expired", "purged"} /\ made[s] = 0
    BY <1>1 DEF IInv, TypeOK, DeletedStaysDeleted
  <2> QED
    BY <2>1, ExpiredIsFinal
<1>2. CASE s \notin deleted
  <2>1. PICK c \in Clients : DeleteReads(c) \/ DeleteWrites(c)
    BY <1>2 DEF Next, Create, GrowOld, Task, FinishDraft, StoreDraft, Start, StartRefresh,
                StartDelete, StartConfirm, StartImport, Serve, CommitRefresh, TakeFamily,
                PassGate, Insert, Abort, DeleteCurriculum, Restart
  <2>2. CASE DeleteReads(c)
    <3>1. /\ s = request[c].session /\ status[s] = "expired"
          /\ UNCHANGED <<rows, made>>
      BY <1>2, <2>2 DEF DeleteReads
    <3>2. s \in Sessions
      BY <2>2, <3>1 DEF IInv, Requests, RequestOK, DeleteReads
    <3> QED
      BY <3>1, <3>2 DEF rows, IInv, Makings
  <2>3. CASE DeleteWrites(c)
    <3>1. /\ s = request[c].session /\ AsSeen(request[c])
          /\ MoveRow(s, "expired") /\ UNCHANGED made
      BY <1>2, <2>3 DEF DeleteWrites
    <3>2. s \in Sessions /\ status[s] \in {"processing", "ready", "failed"}
      BY <2>3, <3>1 DEF IInv, Requests, RequestOK, DeleteWrites, AsSeen
    <3> QED
      BY <3>1, <3>2 DEF IInv, TypeOK, Makings, MoveRow
  <2> QED
    BY <2>1, <2>2, <2>3
<1> QED
  BY <1>1, <1>2

\* A step leaves the curricula alone, removes one, or inserts one.
LEMMA CurriculaStep ==
    ASSUME Next
    PROVE  \/ curricula' \subseteq curricula /\ lastId' = lastId
           \/ \E c \in Clients : Insert(c)
BY DEF Next, Create, GrowOld, Task, FinishDraft, StoreDraft, Start, StartRefresh, StartDelete,
       StartConfirm, StartImport, Serve, CommitRefresh, DeleteReads, DeleteWrites, TakeFamily,
       PassGate, Abort, DeleteCurriculum, Restart

LEMMA CurriculaOK == IInv /\ Next => Numbers' /\ NoUnseenDuplicate'
<1> SUFFICES ASSUME IInv, Next PROVE Numbers' /\ NoUnseenDuplicate'
  OBVIOUS
<1>1. CASE curricula' \subseteq curricula /\ lastId' = lastId
  BY <1>1 DEF IInv, Numbers, NoUnseenDuplicate
<1>2. ASSUME NEW c \in Clients, Insert(c)
      PROVE  Numbers' /\ NoUnseenDuplicate'
  <2> DEFINE r == request[c]
             new == [id |-> lastId + 1, name |-> r.name, content |-> r.content,
                     from |-> r.session, acked |-> r.acked]
  <2>1. curricula' = curricula \cup {new} /\ lastId' = lastId + 1 /\ lastId \in Nat
    BY <1>2 DEF Insert, IInv, TypeOK
  <2>2. GateOpens(r)
    BY <1>2 DEF IInv, Passed, Insert
  <2>3. \A k \in curricula : k.id \in Nat /\ k.id <= lastId
    BY DEF IInv, TypeOK, CurriculumType, Numbers
  <2>4. new.id = lastId + 1 /\ new.name = r.name /\ new.content = r.content /\ new.acked = r.acked
    OBVIOUS
  <2> HIDE DEF new
  <2>5. Numbers'
    BY <2>1, <2>3, <2>4 DEF Numbers
  <2>6. ASSUME NEW j \in curricula', NEW k \in curricula', j.id < k.id
        PROVE  /\ j.name # k.name
               /\ <<k.content, j.content>> \in Matching => j.id \in k.acked
    <3>1. CASE j \in curricula /\ k \in curricula
      BY <2>6, <3>1 DEF IInv, NoUnseenDuplicate
    <3>2. CASE j \in curricula /\ k = new
      BY <2>2, <2>4, <3>2 DEF GateOpens, NameIsFree
    <3>3. CASE j = new
      BY <2>1, <2>3, <2>4, <2>6, <3>3
    <3> QED
      BY <2>1, <3>1, <3>2, <3>3
  <2> QED
    BY <2>5, <2>6 DEF NoUnseenDuplicate
<1> QED
  BY <1>1, <1>2, CurriculaStep

\* What a client starts, and what the server makes of its request.
LEMMA StartedRequest ==
    ASSUME IInv, NEW c \in Clients, Start(c)
    PROVE  /\ request[c] = NoRequest
           /\ UNCHANGED <<rows, lock, curricula>>
           /\ \E r : /\ request' = [request EXCEPT ![c] = r]
                     /\ RequestOK(r)
                     /\ r.op = "import" => r.phase = "queued"
<1>1. ASSUME NEW s \in Sessions, StartRefresh(c, s)
      PROVE  \E r : Begin(c, r) /\ RequestOK(r) /\ r.op = "refresh"
  <2> DEFINE r == [NoRequest EXCEPT !.op = "refresh", !.session = s,
                                    !.phase = IF Lapsed(s) THEN "expired" ELSE "failed",
                                    !.status = status[s], !.revision = revision[s]]
  <2>1. RequestOK(r) /\ r.op = "refresh"
    BY <1>1 DEF StartRefresh, Lapsed, Stale, RequestOK, NoRequest, None
  <2>2. Begin(c, r)
    BY <1>1 DEF StartRefresh
  <2> QED
    BY <2>1, <2>2
<1>2. ASSUME NEW s \in Sessions, StartDelete(c, s)
      PROVE  \E r : Begin(c, r) /\ RequestOK(r) /\ r.op = "delete"
  <2> DEFINE r == [NoRequest EXCEPT !.op = "delete", !.phase = "read", !.session = s]
  <2>1. RequestOK(r) /\ r.op = "delete"
    BY DEF RequestOK, NoRequest, None
  <2>2. Begin(c, r)
    BY <1>2 DEF StartDelete
  <2> QED
    BY <2>1, <2>2
<1>3. ASSUME NEW s, NEW seen, Import(c, s, seen)
      PROVE  \E r : Begin(c, r) /\ RequestOK(r) /\ r.phase = "queued"
  <2>1. PICK name \in Names, content \in Contents, acked \in SUBSET Ids :
           Begin(c, [op |-> "import", phase |-> "queued", session |-> s, status |-> "ready",
                     revision |-> seen, name |-> name, content |-> content, acked |-> acked])
    BY <1>3 DEF Import
  <2> DEFINE r == [op |-> "import", phase |-> "queued", session |-> s, status |-> "ready",
                   revision |-> seen, name |-> name, content |-> content, acked |-> acked]
  <2>2. RequestOK(r) /\ r.phase = "queued"
    BY DEF RequestOK
  <2> QED
    BY <2>1, <2>2
<1>4. UNCHANGED <<rows, lock, curricula>>
  BY DEF Start, StartRefresh, StartDelete, StartConfirm, StartImport
<1>5. PICK r : Begin(c, r) /\ RequestOK(r) /\ (r.op = "import" => r.phase = "queued")
  BY <1>1, <1>2, <1>3 DEF Start, StartConfirm, StartImport
<1> QED
  BY <1>4, <1>5 DEF Begin

\* The server ends a request or takes it one phase further.
LEMMA ServedRequest ==
    ASSUME IInv, NEW c \in Clients, Serve(c)
    PROVE  \/ request' = [request EXCEPT ![c] = NoRequest]
           \/ /\ request[c].op = "delete"
              /\ \E r : /\ request' = [request EXCEPT ![c] = r]
                        /\ r.op = "delete"
                        /\ RequestOK(r)
           \/ /\ Importing(c, "queued") /\ TakeFamily(c) /\ lock' = c
              /\ request' = [request EXCEPT ![c] = [request[c] EXCEPT !.phase = "gate"]]
           \/ /\ Importing(c, "gate") /\ PassGate(c)
              /\ request' = [request EXCEPT ![c] = [request[c] EXCEPT !.phase = "insert"]]
<1>1. request[c] \in RequestType /\ RequestOK(request[c])
  BY DEF IInv, TypeOK, Requests
<1>2. ASSUME DeleteReads(c), request' # [request EXCEPT ![c] = NoRequest]
      PROVE  \E r : request' = [request EXCEPT ![c] = r] /\ r.op = "delete" /\ RequestOK(r)
  <2> DEFINE s == request[c].session
             r == [request[c] EXCEPT !.phase = "write", !.status = status[s],
                                     !.revision = revision[s]]
  <2>1. /\ request' = [request EXCEPT ![c].phase = "write", ![c].status = status[s],
                                      ![c].revision = revision[s]]
        /\ Exists(s) /\ status[s] \notin {"confirmed", "expired"}
        /\ request[c].op = "delete" /\ s \in Sessions
    BY <1>1, <1>2 DEF DeleteReads, End, RequestOK
  <2>2. request' = [request EXCEPT ![c] = r]
    BY <2>1 DEF IInv, TypeOK
  <2>3. status[s] \in {"processing", "ready", "failed"}
    BY <2>1 DEF Exists, SessionStatus
  <2>4. r.op = "delete" /\ r.session = s /\ r.phase = "write" /\ r.status = status[s]
    BY <1>1, <2>1 DEF RequestType
  <2>5. RequestOK(r)
    BY <2>1, <2>3, <2>4 DEF RequestOK
  <2> QED
    BY <2>2, <2>4, <2>5
<1>3. ASSUME DeleteWrites(c), request' # [request EXCEPT ![c] = NoRequest]
      PROVE  \E r : request' = [request EXCEPT ![c] = r] /\ r.op = "delete" /\ RequestOK(r)
  <2> DEFINE r == [request[c] EXCEPT !.phase = "read"]
  <2>1. request' = [request EXCEPT ![c].phase = "read"] /\ request[c].op = "delete"
    BY <1>3 DEF DeleteWrites, End
  <2>2. request' = [request EXCEPT ![c] = r]
    BY <2>1 DEF IInv, TypeOK
  <2>3. r.op = "delete" /\ r.session = request[c].session /\ r.phase = "read"
    BY <1>1, <2>1 DEF RequestType
  <2>4. RequestOK(r)
    BY <1>1, <2>1, <2>3 DEF RequestOK
  <2> QED
    BY <2>2, <2>3, <2>4
<1>4. CASE TakeFamily(c)
  <2>1. CASE request' = [request EXCEPT ![c].phase = "gate"] /\ lock' = c
    <3>1. request' = [request EXCEPT ![c] = [request[c] EXCEPT !.phase = "gate"]]
      BY <2>1 DEF IInv, TypeOK
    <3>2. Importing(c, "queued")
      BY <1>4 DEF TakeFamily
    <3> QED
      BY <1>4, <2>1, <3>1, <3>2
  <2> QED
    BY <1>4, <2>1 DEF TakeFamily, End
<1>5. CASE PassGate(c)
  <2>1. request' = [request EXCEPT ![c] = [request[c] EXCEPT !.phase = "insert"]]
    BY <1>5 DEF PassGate, IInv, TypeOK
  <2>2. Importing(c, "gate")
    BY <1>5 DEF PassGate
  <2> QED
    BY <1>5, <2>1, <2>2
<1>6. CASE CommitRefresh(c) \/ Insert(c) \/ Abort(c)
  BY <1>6 DEF CommitRefresh, Insert, Abort, End
<1> QED
  BY <1>2, <1>3, <1>4, <1>5, <1>6 DEF Serve, DeleteReads, DeleteWrites

LEMMA RequestsStep == IInv /\ Next => Requests'
<1> SUFFICES ASSUME IInv, Next, NEW d \in Clients
             PROVE  RequestOK(request'[d])
  BY DEF Requests
<1>1. RequestOK(request[d]) /\ RequestOK(NoRequest) /\ request \in [Clients -> RequestType]
  BY DEF IInv, TypeOK, Requests, RequestOK, NoRequest, None
<1>2. ASSUME NEW c \in Clients, Start(c)
      PROVE  RequestOK(request'[d])
  BY <1>1, <1>2, StartedRequest
<1>3. ASSUME NEW c \in Clients, Serve(c)
      PROVE  RequestOK(request'[d])
  <2>1. ASSUME NEW phase \in {"gate", "insert"}, request[d].op = "import"
        PROVE  RequestOK([request[d] EXCEPT !.phase = phase])
    BY <1>1, <2>1 DEF RequestOK, RequestType
  <2> QED
    BY <1>1, <1>3, <2>1, ServedRequest DEF Importing
<1>4. CASE Restart
  BY <1>1, <1>4 DEF Restart
<1>5. CASE UNCHANGED request
  BY <1>1, <1>5
<1> QED
  BY <1>2, <1>3, <1>4, <1>5
  DEF Next, Create, GrowOld, Task, FinishDraft, StoreDraft, DeleteCurriculum

\* While an import holds the lock, nobody else moves the row it has claimed.
LEMMA ClaimedRowKept ==
    ASSUME IInv, Next, NEW d \in Clients, lock = d, lock' = d,
           NEW s \in Sessions, request[d].session = s
    PROVE  status'[s] = status[s] /\ revision'[s] = revision[s]
<1> USE DEF IInv, TypeOK
<1>1. Claimed(s)
  BY DEF Claimed
<1>2. status[s] = "ready"
  <2>1. request[d].op = "import" /\ s # None
    BY ImportAssumption DEF None
  <2> QED
    BY <2>1 DEF Claims, Requests, RequestOK, AsSeen
<1>3. ASSUME NEW t \in Sessions, Create(t)
      PROVE  status'[s] = status[s] /\ revision'[s] = revision[s]
  BY <1>1, <1>2, <1>3 DEF Create, None
<1>4. ASSUME NEW t \in Sessions, NEW to, MoveRow(t, to), ~Claimed(t)
      PROVE  status'[s] = status[s] /\ revision'[s] = revision[s]
  BY <1>1, <1>4 DEF MoveRow
<1>5. ASSUME NEW t \in Sessions, NEW outcome, StoreDraft(t, outcome)
      PROVE  status'[s] = status[s] /\ revision'[s] = revision[s]
  BY <1>4, <1>5 DEF StoreDraft, rows
<1>6. ASSUME NEW c \in Clients, CommitRefresh(c) \/ DeleteWrites(c)
      PROVE  status'[s] = status[s] /\ revision'[s] = revision[s]
  <2>1. request[c].session \in Sessions /\ ~Claimed(request[c].session)
    BY <1>6 DEF CommitRefresh, DeleteWrites, Requests, RequestOK
  <2> QED
    BY <1>4, <1>6, <2>1 DEF CommitRefresh, DeleteWrites, rows
<1>7. ASSUME NEW c \in Clients
      PROVE  ~Insert(c)
  BY ImportAssumption DEF Insert, None
<1>8. CASE UNCHANGED rows
  BY <1>8 DEF rows
<1>9. CASE UNCHANGED <<status, revision>>
  BY <1>9
<1> QED
  BY <1>3, <1>5, <1>6, <1>7, <1>8, <1>9, Quiet
  DEF Next, Task, Serve, GrowOld, FinishDraft, DeleteCurriculum, Restart

LEMMA ClaimsStep == IInv /\ Next => Claims'
<1> SUFFICES ASSUME IInv, Next, NEW d \in Clients
             PROVE  /\ Importing(d, "gate")' \/ Importing(d, "insert")' => lock' = d
                    /\ lock' = d /\ request'[d].session # None => AsSeen(request[d])'
  BY DEF Claims
<1> USE DEF IInv, TypeOK
<1> DEFINE Goal == /\ Importing(d, "gate")' \/ Importing(d, "insert")' => lock' = d
                   /\ lock' = d /\ request'[d].session # None => AsSeen(request[d])'
<1>1. /\ Importing(d, "gate") \/ Importing(d, "insert") => lock = d
      /\ lock = d /\ request[d].session # None => AsSeen(request[d])
      /\ request[d] \in RequestType
  BY DEF Claims
\* The client holds the lock before and after, and still wants what it wanted.
<1>2. ASSUME lock' = lock,
             \/ request'[d] = request[d]
             \/ lock = d /\ request'[d] = [request[d] EXCEPT !.phase = "insert"]
      PROVE  Goal
  <2>1. /\ request'[d].session = request[d].session
        /\ request'[d].status = request[d].status
        /\ request'[d].revision = request[d].revision
    BY <1>1, <1>2 DEF RequestType
  <2>2. Importing(d, "gate")' \/ Importing(d, "insert")' => lock' = d
    BY <1>1, <1>2 DEF Importing
  <2>3. ASSUME lock' = d, request'[d].session # None
        PROVE  AsSeen(request[d])'
    <3>1. request[d].session \in Sessions
      BY <1>1, <2>1, <2>3 DEF RequestType
    <3> QED
      BY <1>1, <1>2, <2>1, <2>3, <3>1, ClaimedRowKept DEF AsSeen
  <2> QED
    BY <2>2, <2>3
\* A client that does not hold the lock is at most waiting for it.
<1>3. ASSUME lock' # d, ~Importing(d, "gate")', ~Importing(d, "insert")'
      PROVE  Goal
  BY <1>3
<1>4. ASSUME NEW s \in Sessions, Create(s) \/ GrowOld(s) \/ Task(s)
      PROVE  Goal
  BY <1>2, <1>4 DEF Create, GrowOld, Task, FinishDraft, StoreDraft
<1>5. ASSUME NEW c \in Clients, Start(c)
      PROVE  Goal
  <2>1. CASE c = d
    <3>1. lock' # d
      BY <1>5, <2>1, StartedRequest, ImportAssumption DEF NoRequest, None
    <3>2. ~Importing(d, "gate")' /\ ~Importing(d, "insert")'
      BY <1>5, <2>1, StartedRequest DEF Importing
    <3> QED
      BY <1>3, <3>1, <3>2
  <2>2. CASE c # d
    BY <1>2, <1>5, <2>2, StartedRequest
  <2> QED
    BY <2>1, <2>2
<1> HIDE DEF Goal
<1>6. ASSUME NEW c \in Clients, Serve(c)
      PROVE  Goal
  <2>1. CASE c # d
    <3>1. request'[d] = request[d]
      BY <1>6, <2>1, ServedRequest
    <3>2. lock' = lock \/ (lock' # d /\ lock # d)
      BY <1>6, <2>1, ImportAssumption
      DEF Serve, CommitRefresh, DeleteReads, DeleteWrites, TakeFamily, PassGate, Insert, Abort,
          Claims, Importing, None
    <3>3. lock # d => ~Importing(d, "gate")' /\ ~Importing(d, "insert")'
      BY <1>1, <3>1 DEF Importing
    <3> QED
      BY <1>2, <1>3, <3>1, <3>2, <3>3
  <2>2. CASE c = d /\ TakeFamily(d) /\ lock' = d
    <3>1. /\ UNCHANGED rows
          /\ request'[d] = [request[d] EXCEPT !.phase = "gate"]
          /\ request[d].session = None \/ AsSeen(request[d])
      BY <2>2, ImportAssumption DEF TakeFamily, None
    <3>2. /\ request'[d].session = request[d].session
          /\ request'[d].status = request[d].status
          /\ request'[d].revision = request[d].revision
      BY <1>1, <3>1 DEF RequestType
    <3> QED
      BY <2>2, <3>1, <3>2 DEF Goal, AsSeen, rows
  <2>3. CASE c = d /\ Importing(d, "gate") /\ PassGate(d)
    BY <1>1, <1>2, <2>3 DEF PassGate
  <2>4. CASE c = d /\ request' = [request EXCEPT ![d] = NoRequest]
    <3>1. ~Importing(d, "gate")' /\ ~Importing(d, "insert")'
      BY <2>4 DEF Importing, NoRequest, None
    <3>2. lock' # d
      BY <1>6, <2>4, ImportAssumption, TypeStep DEF NoRequest, None
    <3> QED
      BY <1>3, <3>1, <3>2
  <2>5. CASE c = d /\ request[d].op = "delete" /\ request'[d].op = "delete"
    <3>1. ~Importing(d, "gate")' /\ ~Importing(d, "insert")'
      BY <2>5 DEF Importing
    <3>2. lock' # d
      BY <1>6, <2>5, ImportAssumption, TypeStep DEF None
    <3> QED
      BY <1>3, <3>1, <3>2
  <2> QED
    BY <1>6, <2>1, <2>2, <2>3, <2>4, <2>5, ServedRequest
<1>7. CASE Restart
  BY <1>7, ImportAssumption DEF Restart, Goal, Importing, NoRequest, None
<1>8. ASSUME NEW k \in curricula, DeleteCurriculum(k)
      PROVE  Goal
  BY <1>2, <1>8 DEF DeleteCurriculum
<1> HIDE DEF IInv, TypeOK
<1> QED
  BY <1>4, <1>5, <1>6, <1>7, <1>8 DEF Next, Goal

LEMMA PassedStep == IInv /\ Next => Passed'
<1> SUFFICES ASSUME IInv, Next, NEW d \in Clients, Importing(d, "insert")'
             PROVE  GateOpens(request[d])'
  BY DEF Passed
<1>1. /\ request \in [Clients -> RequestType]
      /\ Importing(d, "insert") => lock = d /\ GateOpens(request[d])
  BY DEF IInv, TypeOK, Claims, Passed
<1>2. curricula' \subseteq curricula \/ \E c \in Clients : Insert(c)
  BY CurriculaStep
<1>3. ASSUME request'[d] = request[d]
      PROVE  GateOpens(request[d])'
  <2>1. lock = d /\ GateOpens(request[d])
    BY <1>1, <1>3 DEF Importing
  <2>2. CASE curricula' \subseteq curricula
    BY <1>3, <2>1, <2>2 DEF GateOpens, NameIsFree
  <2>3. ASSUME NEW c \in Clients, Insert(c)
        PROVE  FALSE
    <3>1. c = d
      BY <2>1, <2>3, InsertHasClaim
    <3>2. request'[d] = NoRequest
      BY <1>1, <2>3, <3>1 DEF Insert, End
    <3> QED
      BY <1>3, <2>3, <3>1, <3>2 DEF Insert, Importing, NoRequest, None
  <2> QED
    BY <1>2, <2>2, <2>3
<1>4. ASSUME NEW c \in Clients, Start(c)
      PROVE  GateOpens(request[d])'
  <2>1. c # d
    BY <1>1, <1>4, StartedRequest DEF Importing
  <2> QED
    BY <1>1, <1>3, <1>4, <2>1, StartedRequest
<1>5. ASSUME NEW c \in Clients, Serve(c)
      PROVE  GateOpens(request[d])'
  <2>1. CASE c # d
    BY <1>1, <1>3, <1>5, <2>1, ServedRequest
  <2>2. CASE c = d /\ PassGate(d) /\ request' = [request EXCEPT ![d] = [request[d] EXCEPT !.phase = "insert"]]
    <3>1. GateOpens(request[d]) /\ UNCHANGED curricula
      BY <2>2 DEF PassGate
    <3>2. /\ request'[d].name = request[d].name
          /\ request'[d].content = request[d].content
          /\ request'[d].acked = request[d].acked
      BY <1>1, <2>2 DEF RequestType
    <3> QED
      BY <3>1, <3>2 DEF GateOpens, NameIsFree
  <2>3. CASE c = d /\ request' = [request EXCEPT ![d] = [request[d] EXCEPT !.phase = "gate"]]
    BY <1>1, <2>3 DEF Importing, RequestType
  <2>4. CASE c = d /\ (request'[d].op = "delete" \/ request'[d] = NoRequest)
    BY <2>4 DEF Importing, NoRequest, None
  <2> QED
    BY <1>1, <1>5, <2>1, <2>2, <2>3, <2>4, ServedRequest
<1>6. CASE Restart
  BY <1>6 DEF Restart, Importing, NoRequest, None
<1>7. CASE UNCHANGED request
  BY <1>3, <1>7
<1> QED
  BY <1>4, <1>5, <1>6, <1>7
  DEF Next, Create, GrowOld, Task, FinishDraft, StoreDraft, DeleteCurriculum

LEMMA InvStep == IInv /\ [Next]_vars => IInv'
<1> SUFFICES ASSUME IInv, [Next]_vars PROVE IInv'
  OBVIOUS
<1>1. CASE Next
  BY <1>1, TypeStep, RequestsStep, ClaimsStep, MakingsStep, PassedStep, DeletedStep, CurriculaOK
  DEF IInv
<1>2. CASE UNCHANGED vars
  BY <1>2
  DEF vars, rows, IInv, TypeOK, Requests, Claims, Importing, AsSeen, Makings, Numbers, Passed,
      GateOpens, NameIsFree, DeletedStaysDeleted, NoUnseenDuplicate
<1> QED
  BY <1>1, <1>2

LEMMA InvAlways == Spec => []IInv
BY InvInit, InvStep, PTL DEF Spec

-----------------------------------------------------------------------------
(* Theorems *)

\* Every reachable state is well typed (models/curriculum.py, the requests of
\* routers/curriculum_ai_import_sessions.py and the lock of the family).
THEOREM ImportsTypeCorrect == Spec => []TypeOK
<1>1. IInv => TypeOK
  BY DEF IInv
<1> QED
  BY <1>1, InvAlways, PTL

\* A session that was deleted with 204 never becomes a curriculum
\* (expire_session against _complete, confirm_session and refresh_session_state).
THEOREM DeletionIsFinal == Spec => []DeletedStaysDeleted
<1>1. IInv => DeletedStaysDeleted
  BY DEF IInv
<1> QED
  BY <1>1, InvAlways, PTL

\* The gate of create_imported_curriculum cannot be raced, whatever relation
\* between curricula it looks for.
THEOREM GateHolds == Spec => []NoUnseenDuplicate
<1>1. IInv => NoUnseenDuplicate
  BY DEF IInv
<1> QED
  BY <1>1, InvAlways, PTL

\* Sessions implement their life cycle (docs/api-integration.md).
THEOREM SessionsFollowLifecycle == Spec => FollowsLifecycle
<1>1. Init => Lifecycle!Init
  BY DEF Init, Lifecycle!Init, None
<1> QED
  BY <1>1, InvAlways, LifecycleStep, PTL DEF Spec, FollowsLifecycle, Lifecycle!Spec

===============================================================================
