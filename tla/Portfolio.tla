------------------------------ MODULE Portfolio ------------------------------
(***************************************************************************)
(* A family's portfolio (routers/portfolio.py): entries with attached      *)
(* files, collections of entries, and the public links to collections.     *)
(*                                                                         *)
(* A request reads rows in one action and commits in another.  A commit    *)
(* writes the columns whose values differ from those that were read, and   *)
(* fails if a row it writes is gone (GiveUp).  Titles, dates, tags and the *)
(* other columns that no rule reads are left out.                          *)
(***************************************************************************)
EXTENDS Naturals

CONSTANTS
    Students,
    Entries,      \* ids of entries
    Collections,  \* ids of collections
    Editors,
    MaxChanges    \* bound: requests begun

\* What the constants must satisfy; assumed by the modules that give them values.
PortfolioAssumption ==
    /\ Entries \cap Collections = {} /\ "none" \notin Entries \cup Collections
    /\ MaxChanges \in Nat

VARIABLES
    students,    \* those of the family
    entry,       \* id -> [state, student, attachments]
    collection,  \* id -> [state, student, entries, public, token]
    editing,     \* the requests in flight
    stored,      \* the number of files stored
    tokens,      \* the number of share tokens made
    changes,     \* the number of requests begun
    attached,    \* history: files whose attachment was answered, and nothing has moved since
    links,       \* history: <<collection, token>> that were answered and not withdrawn
    withdrawn    \* history: tokens that a collection no longer has

portfolioVars ==
    <<students, entry, collection, editing, stored, tokens, changes, attached, links, withdrawn>>

histories == <<attached, links, withdrawn>>

Nobody  == "nobody"
NoToken == 0
Free    == [doing |-> "nothing", on |-> "none"]

\* The path of a stored file: portfolio/<family>/<student>/<entry>/<uuid>_<name>.
Path(student, id, n) == [student |-> student, entry |-> id, n |-> n]

PortfolioInit ==
    /\ students = Students
    /\ entry = [e \in Entries |-> [state |-> "unused", student |-> Nobody, attachments |-> {}]]
    /\ collection = [k \in Collections |->
          [state |-> "unused", student |-> Nobody, entries |-> {}, public |-> FALSE, token |-> NoToken]]
    /\ editing = [t \in Editors |-> Free]
    /\ stored = 0 /\ tokens = 0 /\ changes = 0
    /\ attached = {} /\ links = {} /\ withdrawn = {}

-----------------------------------------------------------------------------

IsHere(table, id) == table[id].state = "here"

Begin(t, asked) ==
    /\ changes < MaxChanges /\ changes' = changes + 1
    /\ editing[t] = Free /\ editing' = [editing EXCEPT ![t] = asked]

\* A request commits what it did to id; others that have read it are overtaken.
Finish(t, id) ==
    editing' = [u \in Editors |->
        IF u = t THEN Free
        ELSE IF editing[u].on = id THEN [editing[u] EXCEPT !.overtaken = TRUE]
        ELSE editing[u]]

\* Mutant: what was read is written back, whatever became of it.
WrittenAlways(current, old, new) == new

\* The value of a column that was read as old and set to new.
Written(current, old, new) == IF new = old THEN current ELSE new

-----------------------------------------------------------------------------
(* Entries. *)

\* _validate_entry_references
IsOfFamily(s) == s \in students

AttachmentsOf(id) == {file \in attached : file.entry = id}

CreateEntry(e, s) ==
    /\ changes < MaxChanges /\ changes' = changes + 1
    /\ entry[e].state = "unused" /\ IsOfFamily(s)
    /\ entry' = [entry EXCEPT ![e] = [state |-> "here", student |-> s, attachments |-> {}]]
    /\ UNCHANGED <<students, collection, editing, stored, tokens, histories>>

\* The files are stored before the entry is written.
BeginAttach(t, e) ==
    /\ IsHere(entry, e) /\ stored' = stored + 1
    /\ Begin(t, [doing |-> "attaching", on |-> e, read |-> entry[e], overtaken |-> FALSE,
                 file |-> Path(entry[e].student, e, stored + 1)])
    /\ UNCHANGED <<students, entry, collection, tokens, histories>>

\* Those that were read and the new ones are written.
CommitAttach(t) ==
    LET asked == editing[t]
        e     == asked.on
    IN  /\ asked.doing = "attaching" /\ IsHere(entry, e) /\ Finish(t, e)
        /\ entry' = [entry EXCEPT ![e].attachments = asked.read.attachments \cup {asked.file}]
        /\ attached' = IF asked.overtaken THEN attached \ AttachmentsOf(e) ELSE attached \cup {asked.file}
        /\ UNCHANGED <<students, collection, stored, tokens, changes, links, withdrawn>>

\* The entry is given to another student; its attachments stay as they are.
BeginMove(t, e, s) ==
    /\ IsHere(entry, e) /\ IsOfFamily(s) /\ s # entry[e].student
    /\ Begin(t, [doing |-> "moving", on |-> e, overtaken |-> FALSE, student |-> s])
    /\ UNCHANGED <<students, entry, collection, stored, tokens, histories>>

CommitMove(t) ==
    LET asked == editing[t]
        e     == asked.on
    IN  /\ asked.doing = "moving" /\ IsHere(entry, e) /\ asked.student \in students /\ Finish(t, e)
        /\ entry' = [entry EXCEPT ![e].student = asked.student]
        /\ attached' = attached \ AttachmentsOf(e)
        /\ UNCHANGED <<students, collection, stored, tokens, changes, links, withdrawn>>

\* The collections of the entry's student that list it.
Listing(e) ==
    {k \in Collections : IsHere(collection, k) /\ collection[k].student = entry[e].student
                         /\ e \in collection[k].entries}

BeginDelete(t, e) ==
    /\ IsHere(entry, e)
    /\ Begin(t, [doing |-> "deleting", on |-> e, overtaken |-> FALSE,
                 lists |-> [k \in Listing(e) |-> collection[k].entries]])
    /\ UNCHANGED <<students, entry, collection, stored, tokens, histories>>

\* The entry goes, and the lists without it are written; its files stay on the disk.
CommitDelete(t) ==
    LET asked == editing[t]
        e     == asked.on
    IN  /\ asked.doing = "deleting" /\ Finish(t, e)
        /\ \A k \in DOMAIN asked.lists : IsHere(collection, k)
        /\ entry' = [entry EXCEPT ![e].state = "gone"]
        /\ collection' = [k \in Collections |->
               IF k \in DOMAIN asked.lists THEN [collection[k] EXCEPT !.entries = asked.lists[k] \ {e}]
               ELSE collection[k]]
        /\ UNCHANGED <<students, stored, tokens, changes, histories>>

-----------------------------------------------------------------------------
(* Collections and their links. *)

\* A request has answered with a token for k, or with none: the link is promised, unless
\* another request had overtaken it; and a token that k has lost is withdrawn.
Promise(k, token, overtaken) ==
    /\ links' = IF token = NoToken \/ overtaken THEN {link \in links : link[1] # k} ELSE links \cup {<<k, token>>}
    /\ withdrawn' = withdrawn \cup ({collection[k].token} \ {NoToken, collection'[k].token})

\* _validate_collection_entries
AreOf(s, some) == s \in students /\ \A e \in some : IsHere(entry, e) /\ entry[e].student = s

CreateCollection(k, s, some, public) ==
    LET token == IF public THEN tokens + 1 ELSE NoToken IN
    /\ changes < MaxChanges /\ changes' = changes + 1
    /\ collection[k].state = "unused" /\ AreOf(s, some)
    /\ collection' = [collection EXCEPT ![k] =
          [state |-> "here", student |-> s, entries |-> some, public |-> public, token |-> token]]
    /\ tokens' = IF public THEN tokens + 1 ELSE tokens
    /\ Promise(k, token, FALSE)
    /\ UNCHANGED <<students, entry, editing, stored, attached>>

\* update_portfolio_collection, and share_portfolio_collection, which changes the link only.
BeginSave(t, k, s, some, public) ==
    /\ IsHere(collection, k) /\ AreOf(s, some)
    /\ Begin(t, [doing |-> "saving", on |-> k, read |-> collection[k], overtaken |-> FALSE,
                 student |-> s, entries |-> some, public |-> public])
    /\ UNCHANGED <<students, entry, collection, stored, tokens, histories>>

BeginShare(t, k) ==
    /\ IsHere(collection, k)
    /\ Begin(t, [doing |-> "saving", on |-> k, read |-> collection[k], overtaken |-> FALSE,
                 student |-> collection[k].student, entries |-> collection[k].entries, public |-> TRUE])
    /\ UNCHANGED <<students, entry, collection, stored, tokens, histories>>

\* A collection that is shared keeps the token that was read, or gets one.
CommitSave(t) ==
    LET asked == editing[t]
        k     == asked.on
        fresh == asked.public /\ asked.read.token = NoToken
        token == IF ~asked.public THEN NoToken ELSE IF fresh THEN tokens + 1 ELSE asked.read.token
        row   == collection[k]
    IN  /\ asked.doing = "saving" /\ IsHere(collection, k) /\ Finish(t, k)
        /\ Written(row.student, asked.read.student, asked.student) \in students
        /\ collection' = [collection EXCEPT
               ![k].student = Written(@, asked.read.student, asked.student),
               ![k].entries = Written(@, asked.read.entries, asked.entries),
               ![k].public  = Written(@, asked.read.public, asked.public),
               ![k].token   = Written(@, asked.read.token, token)]
        /\ tokens' = IF fresh THEN tokens + 1 ELSE tokens
        /\ Promise(k, token, asked.overtaken)
        /\ UNCHANGED <<students, entry, stored, changes, attached>>

\* A collection goes; what it listed stays.
RemoveCollections(some) ==
    /\ collection' = [k \in Collections |-> IF k \in some THEN [collection[k] EXCEPT !.state = "gone"] ELSE collection[k]]
    /\ links' = {link \in links : link[1] \notin some}
    /\ withdrawn' = withdrawn \cup ({collection[k].token : k \in some} \ {NoToken})

DeleteCollection(k) ==
    /\ changes < MaxChanges /\ changes' = changes + 1
    /\ IsHere(collection, k) /\ RemoveCollections({k})
    /\ UNCHANGED <<students, entry, editing, stored, tokens, attached>>

\* delete_student: the entries and collections of the student go with it.
DeleteStudent(s) ==
    /\ changes < MaxChanges /\ changes' = changes + 1
    /\ s \in students /\ students' = students \ {s}
    /\ entry' = [e \in Entries |->
          IF IsHere(entry, e) /\ entry[e].student = s THEN [entry[e] EXCEPT !.state = "gone"] ELSE entry[e]]
    /\ RemoveCollections({k \in Collections : IsHere(collection, k) /\ collection[k].student = s})
    /\ UNCHANGED <<editing, stored, tokens, attached>>

\* A row or a student is gone, or the client has left before the commit.
GiveUp(t) ==
    /\ editing[t] # Free /\ editing' = [editing EXCEPT ![t] = Free]
    /\ UNCHANGED <<students, entry, collection, stored, tokens, changes, histories>>

-----------------------------------------------------------------------------

PortfolioNext ==
    \/ \E e \in Entries, s \in students : CreateEntry(e, s)
    \/ \E t \in Editors, e \in Entries : BeginAttach(t, e) \/ BeginDelete(t, e)
    \/ \E t \in Editors, e \in Entries, s \in students : BeginMove(t, e, s)
    \/ \E k \in Collections, s \in students, some \in SUBSET Entries, public \in BOOLEAN :
        \/ CreateCollection(k, s, some, public)
        \/ \E t \in Editors : BeginSave(t, k, s, some, public)
    \/ \E t \in Editors, k \in Collections : BeginShare(t, k)
    \/ \E t \in Editors : CommitAttach(t) \/ CommitMove(t) \/ CommitDelete(t) \/ CommitSave(t) \/ GiveUp(t)
    \/ \E k \in Collections : DeleteCollection(k)
    \/ \E s \in students : DeleteStudent(s)

PortfolioSpec == PortfolioInit /\ [][PortfolioNext]_portfolioVars

-----------------------------------------------------------------------------

\* _resolve_portfolio_attachment: a file is served by its path, which names the student.
IsServed(file) ==
    /\ IsHere(entry, file.entry) /\ entry[file.entry].student = file.student
    /\ file \in entry[file.entry].attachments

\* public_portfolio_collection
Opens(token, k) == IsHere(collection, k) /\ collection[k].public /\ collection[k].token = token

\* A file whose attachment was answered is served as long as its entry is there, unless
\* the entry was moved to another student or written by a request that another overtook.
AttachedIsServed == \A file \in attached : IsHere(entry, file.entry) => IsServed(file)

\* A link that was answered opens its collection until it is withdrawn, unless a request
\* that another overtook was answered since; a link that was withdrawn stays dead,
\* whatever requests had read it; and a link opens one collection.
LinksAreKept ==
    /\ \A link \in links : Opens(link[2], link[1])
    /\ \A token \in withdrawn, k \in Collections : ~Opens(token, k)
    /\ \A k, l \in Collections : \A token \in 1..tokens : Opens(token, k) /\ Opens(token, l) => k = l

\* The files and the links of the portfolio are what its users were told.
PortfolioIsKept == AttachedIsServed /\ LinksAreKept
===============================================================================
